---------------------------- MODULE WalletRetry -----------------------------
(***************************************************************************)
(* Wallet with a caller that retries lock_tx_context.  The function        *)
(* surfaces the store_tx error after its batch has committed, and nothing  *)
(* in it records that a Context was already locked, so a caller that       *)
(* treats the error as "finalize failed" calls it again with the same      *)
(* Context.                                                                *)
(***************************************************************************)
EXTENDS Wallet

\* lock_tx_context is entered again for a slate whose first call committed
\* and then failed in store_tx: a new batch and a new log id are taken.
RetryLock(s) ==
    /\ lock = NoLock
    /\ slate[s] = "locked"
    /\ s \notin storedTx
    /\ OpenBatch(s)

RetryNext == Next \/ \E s \in Slates : RetryLock(s)

RetrySpec == Init /\ [][RetryNext]_vars

\* lock_tx_context writes exactly one history entry per slate, so a slate's
\* inputs are debited (and its change credited) once.
OneEntryPerSlate ==
    \A l1, l2 \in DOMAIN txLog : l1 # l2 => txLog[l1].slate # txLog[l2].slate

=============================================================================
