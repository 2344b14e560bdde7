--------------------------- MODULE WalletRestore ----------------------------
(***************************************************************************)
(* Wallet next to a backend that changes under a Context.  A wallet scan   *)
(* or restore (outside this file) deletes the record of an output the node *)
(* no longer knows, for instance one another instance of the same seed     *)
(* spent.  It runs between calls, like every other backend user, but may  *)
(* fall between a build and the lock_tx_context or repopulate_tx of the    *)
(* Context that build filled.                                              *)
(***************************************************************************)
EXTENDS Wallet

\* The scan deletes the output record of key k (either store).
ExternalRemove(k) ==
    /\ lock = NoLock
    /\ coins[k] # NoCoin
    /\ coins' = [coins EXCEPT ![k] = NoCoin]
    /\ UNCHANGED <<nextChild, txLog, storedTx, slate, doc, ctx, lock>>

RestoreNext == Next \/ \E k \in Keys : ExternalRemove(k)

RestoreSpec == Init /\ [][RestoreNext]_vars

=============================================================================
