---------------------------- MODULE WalletLedger ----------------------------
(***************************************************************************)
(* What the wallet's stores promise a reader who sees only committed state *)
(* (the coin records and the history log), with no batch, no Context and  *)
(* no steps inside lock_tx_context: every change is one whole transition.  *)
(*   Spend:   one new sent entry; exactly its inputs become Locked and     *)
(*            point at it, exactly its outputs appear Unconfirmed and      *)
(*            point at it, each in the store of its asset, and the entry's *)
(*            debited and credited totals are the values of those coins.   *)
(*   Receive: one new received entry and its single new output.           *)
(*   Confirm: one Unconfirmed coin becomes Unspent; the log is unchanged.  *)
(***************************************************************************)
EXTENDS Naturals, Sequences, FiniteSetsExt

CONSTANTS
    Keys,       \* derivation indices
    NoLog,      \* the log id of a coin no entry points at
    NoCoin,     \* the record of a key that holds no coin
    Primary,    \* the primary asset
    NoAsset     \* the asset of NoCoin

VARIABLES
    coins,      \* [Keys -> coin record]
    txLog       \* sequence of history entries; id = position

lvars == <<coins, txLog>>

SentKinds     == {"TxSent", "TokenTxSent", "TokenIssue"}
ReceivedKinds == {"TxReceived", "TokenTxReceived"}

InStore(c, token) ==
    IF token THEN c.asset \notin {Primary, NoAsset} ELSE c.asset = Primary

Value(ks, cs) == MapThenSumSet(LAMBDA k : cs[k].value, ks)

\* The log grows by exactly one entry, and the old entries stay as they were.
Appended == Len(txLog') = Len(txLog) + 1 /\ SubSeq(txLog', 1, Len(txLog)) = txLog

NewEntry == txLog'[Len(txLog')]

\* Coins of the store `token` that the new entry locks.
Spent(ks, token) ==
    \A k \in ks : /\ InStore(coins[k], token)
                  /\ coins'[k] = [coins[k] EXCEPT !.status = "Locked", !.log = Len(txLog')]

\* Fresh keys that the new entry creates in the store `token`.
Created(ks, token) ==
    \A k \in ks : /\ coins[k] = NoCoin
                  /\ coins'[k].status = "Unconfirmed" /\ coins'[k].log = Len(txLog')
                  /\ InStore(coins'[k], token)

Untouched(ks) == \A k \in Keys \ ks : coins'[k] = coins[k]

Credits(e) ==
    /\ Created(e.outputs, FALSE) /\ Created(e.tokenOutputs, TRUE)
    /\ e.credited = Value(e.outputs, coins')
    /\ e.tokenCredited = Value(e.tokenOutputs, coins')

Spend ==
    /\ Appended
    /\ LET e == NewEntry
       IN  /\ e.kind \in SentKinds
           /\ (e.kind = "TxSent") = (e.tokenInputs \cup e.tokenOutputs = {})
           /\ (e.kind = "TokenIssue") = (e.tokenInputs = {} /\ e.tokenOutputs # {})
           /\ Spent(e.inputs, FALSE) /\ Spent(e.tokenInputs, TRUE)
           /\ e.debited = Value(e.inputs, coins)
           /\ e.tokenDebited = Value(e.tokenInputs, coins)
           /\ Credits(e)
           /\ Untouched(e.inputs \cup e.tokenInputs \cup e.outputs \cup e.tokenOutputs)

Receive ==
    /\ Appended
    /\ LET e == NewEntry
       IN  /\ e.kind \in ReceivedKinds
           /\ (e.kind = "TokenTxReceived") = (e.tokenOutputs # {})
           /\ e.inputs \cup e.tokenInputs = {}
           /\ e.debited = 0 /\ e.tokenDebited = 0
           /\ Cardinality(e.outputs \cup e.tokenOutputs) = 1
           /\ Credits(e)
           /\ Untouched(e.outputs \cup e.tokenOutputs)

Confirm ==
    /\ txLog' = txLog
    /\ \E k \in Keys : /\ coins[k].status = "Unconfirmed"
                       /\ coins' = [coins EXCEPT ![k].status = "Unspent"]

LInit ==
    /\ txLog = <<>>
    /\ \A k \in Keys : coins[k].log = NoLog /\ coins[k].status \in {"None", "Unspent"}

LNext == Spend \/ Receive \/ Confirm

LSpec == LInit /\ [][LNext]_lvars

=============================================================================
