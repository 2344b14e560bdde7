------------------------------ MODULE Wallet -------------------------------
(***************************************************************************)
(* The transaction flows of selection.rs against the wallet backend, for   *)
(* both assets: build_send_tx and build_send_token_tx (select, derive      *)
(* change keys, fill a Context; nothing is locked), build_issue_token_tx   *)
(* (a fee-paying primary spend plus one minted token output),              *)
(* build_recipient_output (one fresh output and a received entry in one    *)
(* batch), lock_tx_context (lock the inputs, save the change outputs and   *)
(* one history entry in one batch, commit, then store the transaction)    *)
(* and repopulate_tx (re-fold a locked Context's elements into its slate). *)
(* Calls are serialized (the backend is used by one call at a time), but a *)
(* Context lives on between a build and lock_tx_context, so builds and     *)
(* locks of different slates interleave.  The process may crash at any    *)
(* point of lock_tx_context: an uncommitted batch is lost.                 *)
(*                                                                         *)
(* The primary and token stores are one map keyed by derivation index (the *)
(* two stores share next_child, so keys never collide), a coin's `asset`   *)
(* saying which store it is in and, for a token, its type.  The two        *)
(* history logs share next_tx_log_id and are one sequence whose entry ids  *)
(* are positions.  An issued token's type is the id of the issuing slate.  *)
(***************************************************************************)
EXTENDS Selection, FiniteSets

CONSTANTS
    MaxKey,             \* derivation indices 1..MaxKey (bound on derived keys)
    InitialCoins,       \* [keys -> value]: confirmed primary coins at start
    InitialTokenCoins,  \* [keys -> value]: confirmed coins of TokenType at start
    TokenType,          \* the token type the wallet holds and sends
    Slates,             \* slate ids
    SendAmounts,        \* amounts a sender may request
    TokenSendAmounts,   \* token amounts a token sender may request
    IssueAmounts,       \* token amounts an issuer may mint
    ReceiveAmounts,     \* amounts a recipient may be paid (either asset)
    MaxOutputs,         \* max_outputs passed to the builds
    ChangeOutputs,      \* change_outputs passed to the builds
    ProofSlates         \* slates that carry a payment-proof request

Keys == 1..MaxKey
ASSUME DOMAIN InitialCoins \cup DOMAIN InitialTokenCoins \subseteq Keys
ASSUME DOMAIN InitialCoins \cap DOMAIN InitialTokenCoins = {}

Primary == "primary"
NoAsset == "none"
NoLog == 0
NoCoin == [value |-> 0, status |-> "None", log |-> NoLog, asset |-> NoAsset]
NoCtx == [inputs |-> <<>>, outputs |-> <<>>, tokenInputs |-> <<>>, tokenOutputs |-> <<>>,
          amount |-> 0, fee |-> 0, proofIndex |-> FALSE]
NoDoc == [token |-> NoAsset, amount |-> 0, elems |-> {}]
NoLock == [slate |-> "none", step |-> "idle", logId |-> NoLog, batch |-> <<>>,
           debited |-> 0, tokenDebited |-> 0]

VARIABLES
    coins,      \* [Keys -> coin record]: OutputData / TokenOutputData by key id
    nextChild,  \* the last derivation index handed out by next_child
    txLog,      \* sequence of TxLogEntry / TokenTxLogEntry; id = position
    storedTx,   \* slates whose transaction was written by store_tx
    slate,      \* [Slates -> phase of that slate in this wallet]
    doc,        \* [Slates -> the slate's token type, amount and elements]
    ctx,        \* [Slates -> Context] (held by the caller between calls)
    lock        \* the lock_tx_context call in progress, with its batch

vars == <<coins, nextChild, txLog, storedTx, slate, doc, ctx, lock>>

-----------------------------------------------------------------------------
(* Coin eligibility (OutputData::eligible_to_spend) is outside this file:  *)
(* a coin is spendable once confirmed and neither locked nor spent.        *)
Eligible(k) == coins[k].status = "Unspent"

\* The eligible coins of one store (and token type) in iteration order.
EligiblePool(asset) ==
    LET ks == {k \in Keys : Eligible(k) /\ coins[k].asset = asset}
    IN  [i \in 1..Cardinality(ks) |->
           LET k == CHOOSE k \in ks : Cardinality({j \in ks : j < k}) = i - 1
           IN  [id |-> k, value |-> coins[k].value]]

Init ==
    /\ coins = [k \in Keys |->
                  CASE k \in DOMAIN InitialCoins ->
                         [value |-> InitialCoins[k], status |-> "Unspent", log |-> NoLog,
                          asset |-> Primary]
                    [] k \in DOMAIN InitialTokenCoins ->
                         [value |-> InitialTokenCoins[k], status |-> "Unspent",
                          log |-> NoLog, asset |-> TokenType]
                    [] OTHER -> NoCoin]
    /\ nextChild = Cardinality(DOMAIN InitialCoins \cup DOMAIN InitialTokenCoins)
    /\ txLog = <<>>
    /\ storedTx = {}
    /\ slate = [s \in Slates |-> "new"]
    /\ doc = [s \in Slates |-> NoDoc]
    /\ ctx = [s \in Slates |-> NoCtx]
    /\ lock = NoLock

\* The arguments select_send_tx / select_send_token_tx pass on.
Request(asset, amt, nChange, tokenIn, tokenOut) ==
    [pool |-> EligiblePool(asset), amount |-> amt, maxOutputs |-> MaxOutputs,
     changeOutputs |-> nChange, selectAll |-> FALSE,
     tokenInputs |-> tokenIn, tokenOutputs |-> tokenOut]

\* Change outputs keyed by the derivation indices after `base`.
ChangeKeys(base, amounts) ==
    [i \in 1..Len(amounts) |-> [id |-> base + i, value |-> amounts[i]]]

Ids(seq) == {seq[i].id : i \in DOMAIN seq}

CtxIds(c) == Ids(c.inputs) \cup Ids(c.outputs) \cup Ids(c.tokenInputs) \cup Ids(c.tokenOutputs)

Built(s, token, amt, c) ==
    /\ ctx' = [ctx EXCEPT ![s] = c]
    /\ doc' = [doc EXCEPT ![s] = [token |-> token, amount |-> amt, elems |-> CtxIds(c)]]
    /\ slate' = [slate EXCEPT ![s] = "built"]

-----------------------------------------------------------------------------
(***************************************************************************)
(* build_send_tx: select_send_tx (select_coins_and_fee, then               *)
(* inputs_and_change, which calls next_child once per change output), then *)
(* a Context holding the inputs, the change outputs, amount and fee.  It   *)
(* writes nothing but the derivation index: no coin is locked here.  The   *)
(* caller may set the payment-proof derivation index on the Context.       *)
(***************************************************************************)
BuildSend(s, amt, proofIndex) ==
    /\ lock = NoLock
    /\ slate[s] = "new"
    /\ \E r \in {SelectCoinsAndFee(Request(Primary, amt, ChangeOutputs, 0, 0))} :
       LET a == InputsAndChange(r.coins, amt, r.fee, ChangeOutputs)
       IN  /\ r.pc = "done"
           /\ ~a.panic
           /\ nextChild + Len(a.amounts) <= MaxKey
           /\ nextChild' = nextChild + Len(a.amounts)
           /\ Built(s, NoAsset, amt,
                    [NoCtx EXCEPT !.inputs = r.coins, !.outputs = ChangeKeys(nextChild, a.amounts),
                                  !.amount = amt, !.fee = r.fee, !.proofIndex = proofIndex])
           /\ UNCHANGED <<coins, txLog, storedTx, lock>>

\* build_send_tx returns NotEnoughFunds (or inputs_and_change panics) before
\* anything is written.
BuildSendFails(s, amt) ==
    /\ lock = NoLock
    /\ slate[s] = "new"
    /\ \E r \in {SelectCoinsAndFee(Request(Primary, amt, ChangeOutputs, 0, 0))} :
       /\ \/ r.pc = "insufficient"
          \/ InputsAndChange(r.coins, amt, r.fee, ChangeOutputs).panic
       /\ slate' = [slate EXCEPT ![s] = "failed"]
       /\ UNCHANGED <<coins, nextChild, txLog, storedTx, doc, ctx, lock>>

(***************************************************************************)
(* build_send_token_tx: select_send_token_tx (select_token_coins_and_fee,  *)
(* token_inputs_and_change, inputs always folded), then select_send_tx for *)
(* the fee-paying primary leg (amount 0, one change output) priced for the *)
(* token inputs and the token outputs (change plus the recipient's).       *)
(* Token change keys are derived first, then the primary change key.       *)
(***************************************************************************)
TokenLeg(amt) ==
    LET tr == SelectTokenCoinsAndFee(Request(TokenType, amt, ChangeOutputs, 0, 0))
    IN  [sel |-> tr, change |-> TokenInputsAndChange(tr.coins, amt, ChangeOutputs)]

FeeLeg(t) ==
    LET r == SelectCoinsAndFee(Request(Primary, 0, 1, Len(t.sel.coins),
                                       Len(t.change.amounts) + 1))
    IN  [sel |-> r, change |-> InputsAndChange(r.coins, 0, r.fee, 1)]

\* Mutation: the token inputs are registered with add_input, not
\* add_token_input.
BuildSendTokenSwapsInputs(s, amt, proofIndex) ==
    /\ lock = NoLock
    /\ slate[s] = "new"
    /\ \E t \in {TokenLeg(amt)} : \E f \in {FeeLeg(t)} :
       LET nt == Len(t.change.amounts)
           n  == Len(f.change.amounts)
       IN  /\ t.sel.pc = "done" /\ ~t.change.panic
           /\ f.sel.pc = "done" /\ ~f.change.panic
           /\ nextChild + nt + n <= MaxKey
           /\ nextChild' = nextChild + nt + n
           /\ Built(s, TokenType, amt,
                    [NoCtx EXCEPT !.inputs = f.sel.coins \o t.sel.coins,
                                  !.outputs = ChangeKeys(nextChild + nt, f.change.amounts),
                                  !.tokenOutputs = ChangeKeys(nextChild, t.change.amounts),
                                  !.amount = amt, !.fee = f.sel.fee, !.proofIndex = proofIndex])
           /\ UNCHANGED <<coins, txLog, storedTx, lock>>

BuildSendToken(s, amt, proofIndex) ==
    /\ lock = NoLock
    /\ slate[s] = "new"
    /\ \E t \in {TokenLeg(amt)} : \E f \in {FeeLeg(t)} :
       LET nt == Len(t.change.amounts)
           n  == Len(f.change.amounts)
       IN  /\ t.sel.pc = "done" /\ ~t.change.panic
           /\ f.sel.pc = "done" /\ ~f.change.panic
           /\ nextChild + nt + n <= MaxKey
           /\ nextChild' = nextChild + nt + n
           /\ Built(s, TokenType, amt,
                    [NoCtx EXCEPT !.inputs = f.sel.coins,
                                  !.outputs = ChangeKeys(nextChild + nt, f.change.amounts),
                                  !.tokenInputs = t.sel.coins,
                                  !.tokenOutputs = ChangeKeys(nextChild, t.change.amounts),
                                  !.amount = amt, !.fee = f.sel.fee, !.proofIndex = proofIndex])
           /\ UNCHANGED <<coins, txLog, storedTx, lock>>

\* Either leg returns NotEnoughFunds or panics in its change split.
BuildSendTokenFails(s, amt) ==
    /\ lock = NoLock
    /\ slate[s] = "new"
    /\ \E t \in {TokenLeg(amt)} : \E f \in {FeeLeg(t)} :
       /\ \/ t.sel.pc = "insufficient"
          \/ t.change.panic
          \/ f.sel.pc = "insufficient"
          \/ f.change.panic
       /\ slate' = [slate EXCEPT ![s] = "failed"]
       /\ UNCHANGED <<coins, nextChild, txLog, storedTx, doc, ctx, lock>>

(***************************************************************************)
(* build_issue_token_tx: select_send_tx for amount 0 with no token inputs  *)
(* and one token output, then token_issue_output (one next_child for the   *)
(* minted output), the new token type on the slate, and a Context with the *)
(* primary inputs and change and the minted output.  The Context's amount *)
(* is never set, so it keeps Context::new's 0 (outside this file).         *)
(***************************************************************************)
IssueLeg ==
    LET r == SelectCoinsAndFee(Request(Primary, 0, ChangeOutputs, 0, 1))
    IN  [sel |-> r, change |-> InputsAndChange(r.coins, 0, r.fee, ChangeOutputs)]

\* token_issue_output: one more next_child, after the n change keys that
\* select_send_tx derived, for the minted output.
TokenIssueOutput(n) == nextChild + n + 1

BuildIssue(s, amt) ==
    /\ lock = NoLock
    /\ slate[s] = "new"
    /\ \E f \in {IssueLeg} :
       LET n   == Len(f.change.amounts)
           key == TokenIssueOutput(n)
       IN  /\ f.sel.pc = "done" /\ ~f.change.panic
           /\ key <= MaxKey
           /\ nextChild' = key
           /\ Built(s, s, amt,
                    [NoCtx EXCEPT !.inputs = f.sel.coins,
                                  !.outputs = ChangeKeys(nextChild, f.change.amounts),
                                  !.tokenOutputs = <<[id |-> key, value |-> amt]>>,
                                  !.fee = f.sel.fee])
           /\ UNCHANGED <<coins, txLog, storedTx, lock>>

BuildIssueFails(s) ==
    /\ lock = NoLock
    /\ slate[s] = "new"
    /\ \E f \in {IssueLeg} :
       /\ f.sel.pc = "insufficient" \/ f.change.panic
       /\ slate' = [slate EXCEPT ![s] = "failed"]
       /\ UNCHANGED <<coins, nextChild, txLog, storedTx, doc, ctx, lock>>

(***************************************************************************)
(* build_recipient_output: next_available_key, then one batch that saves   *)
(* the new output (Unconfirmed, in the store of the slate's asset) and a   *)
(* TxReceived or TokenTxReceived entry, and commits.                       *)
(***************************************************************************)
BuildRecipient(s, amt, asset) ==
    LET key   == nextChild + 1
        isTok == asset # Primary
        c     == IF isTok THEN [NoCtx EXCEPT !.tokenOutputs = <<[id |-> key, value |-> amt]>>,
                                             !.amount = amt]
                 ELSE [NoCtx EXCEPT !.outputs = <<[id |-> key, value |-> amt]>>, !.amount = amt]
    IN  /\ lock = NoLock
        /\ slate[s] = "new"
        /\ key <= MaxKey
        /\ nextChild' = key
        /\ coins' = [coins EXCEPT ![key] =
                       [value |-> amt, status |-> "Unconfirmed", log |-> Len(txLog) + 1,
                        asset |-> asset]]
        /\ txLog' = Append(txLog,
                      [kind |-> IF isTok THEN "TokenTxReceived" ELSE "TxReceived",
                       slate |-> s, inputs |-> {}, tokenInputs |-> {},
                       outputs |-> IF isTok THEN {} ELSE {key},
                       tokenOutputs |-> IF isTok THEN {key} ELSE {},
                       debited |-> 0, credited |-> IF isTok THEN 0 ELSE amt,
                       tokenDebited |-> 0, tokenCredited |-> IF isTok THEN amt ELSE 0,
                       fee |-> 0])
        /\ ctx' = [ctx EXCEPT ![s] = c]
        /\ doc' = [doc EXCEPT ![s] = [token |-> IF isTok THEN asset ELSE NoAsset,
                                      amount |-> amt, elems |-> {key}]]
        /\ slate' = [slate EXCEPT ![s] = "received"]
        /\ UNCHANGED <<storedTx, lock>>

-----------------------------------------------------------------------------
(***************************************************************************)
(* lock_tx_context, both branches.  The batch is a private view of the     *)
(* coins that only Commit makes visible; next_tx_log_id is taken when the  *)
(* batch opens.                                                            *)
(***************************************************************************)
OpenBatch(s) ==
    /\ lock' = [NoLock EXCEPT !.slate = s, !.step = "inputs", !.logId = Len(txLog) + 1,
                               !.batch = coins]
    /\ UNCHANGED <<coins, nextChild, txLog, storedTx, slate, doc, ctx>>

LockOpen(s) ==
    /\ lock = NoLock
    /\ slate[s] = "built"
    /\ OpenBatch(s)

\* batch.get / batch.get_token of every input: the coin must be in the
\* store of its asset (else unwrap panics).
InStores(ids, tids) ==
    /\ \A k \in ids : lock.batch[k].asset = Primary
    /\ \A k \in tids : lock.batch[k].asset \notin {Primary, NoAsset}

Debit(ids) == MapThenSumSet(LAMBDA k : lock.batch[k].value, ids)

LockInputsMarksSpent ==
    LET ids  == Ids(ctx[lock.slate].inputs)
        tids == Ids(ctx[lock.slate].tokenInputs)
    IN  /\ lock.step = "inputs"
        /\ InStores(ids, tids)
        /\ lock' = [lock EXCEPT
                      !.batch = [k \in Keys |->
                                   IF k \in ids \cup tids
                                   THEN [lock.batch[k] EXCEPT !.status = "Spent", !.log = lock.logId]
                                   ELSE lock.batch[k]],
                      !.debited = Debit(ids), !.tokenDebited = Debit(tids), !.step = "proof"]
        /\ UNCHANGED <<coins, nextChild, txLog, storedTx, slate, doc, ctx>>

\* For every primary input, then every token input of the Context: get it
\* from the batch, point the coin at the new entry, add its value to the
\* debited total, lock_output / lock_token_output.  The coin's current
\* status is not looked at.
LockInputs ==
    LET ids  == Ids(ctx[lock.slate].inputs)
        tids == Ids(ctx[lock.slate].tokenInputs)
    IN  /\ lock.step = "inputs"
        /\ InStores(ids, tids)
        /\ lock' = [lock EXCEPT
                      !.batch = [k \in Keys |->
                                   IF k \in ids \cup tids
                                   THEN [lock.batch[k] EXCEPT !.status = "Locked", !.log = lock.logId]
                                   ELSE lock.batch[k]],
                      !.debited = Debit(ids), !.tokenDebited = Debit(tids), !.step = "proof"]
        /\ UNCHANGED <<coins, nextChild, txLog, storedTx, slate, doc, ctx>>

\* The slate carries a payment proof: the Context must hold the sender's
\* derivation index, else PaymentProof error and the batch is dropped.
ProofChecked ==
    /\ lock.step = "proof"
    /\ lock.slate \in ProofSlates => ctx[lock.slate].proofIndex
    /\ lock' = [lock EXCEPT !.step = "outputs"]
    /\ UNCHANGED <<coins, nextChild, txLog, storedTx, slate, doc, ctx>>

ProofMissing ==
    /\ lock.step = "proof"
    /\ lock.slate \in ProofSlates
    /\ ~ctx[lock.slate].proofIndex
    /\ lock' = NoLock
    /\ UNCHANGED <<coins, nextChild, txLog, storedTx, slate, doc, ctx>>

\* batch.save of every primary change output and batch.save_token of every
\* token output (of the slate's token type), Unconfirmed.
Saved(outs, k, asset) ==
    [value |-> (CHOOSE o \in Range(outs) : o.id = k).value, status |-> "Unconfirmed",
     log |-> lock.logId, asset |-> asset]

SaveOutputs ==
    LET c == ctx[lock.slate]
    IN  /\ lock.step = "outputs"
        /\ lock' = [lock EXCEPT
                      !.batch = [k \in Keys |->
                                   CASE k \in Ids(c.outputs) -> Saved(c.outputs, k, Primary)
                                     [] k \in Ids(c.tokenOutputs) ->
                                          Saved(c.tokenOutputs, k, doc[lock.slate].token)
                                     [] OTHER -> lock.batch[k]],
                      !.step = "commit"]
        /\ UNCHANGED <<coins, nextChild, txLog, storedTx, slate, doc, ctx>>

\* The entry's kind: TxSent without a token type, else TokenIssue when no
\* token input is locked, else TokenTxSent.
SentKind(s) ==
    CASE doc[s].token = NoAsset        -> "TxSent"
      [] ctx[s].tokenInputs = <<>>     -> "TokenIssue"
      [] OTHER                         -> "TokenTxSent"

SumValues(seq) == MapThenSumSet(LAMBDA o : o.value, Range(seq))

\* save_tx_log_entry / save_token_tx_log_entry and batch.commit: everything
\* becomes visible at once.
Commit ==
    LET s == lock.slate
        c == ctx[s]
    IN  /\ lock.step = "commit"
        /\ coins' = lock.batch
        /\ txLog' = Append(txLog, [kind |-> SentKind(s), slate |-> s,
                                   inputs |-> Ids(c.inputs), outputs |-> Ids(c.outputs),
                                   tokenInputs |-> Ids(c.tokenInputs),
                                   tokenOutputs |-> Ids(c.tokenOutputs),
                                   debited |-> lock.debited, credited |-> SumValues(c.outputs),
                                   tokenDebited |-> lock.tokenDebited,
                                   tokenCredited |-> SumValues(c.tokenOutputs),
                                   fee |-> c.fee])
        /\ slate' = [slate EXCEPT ![s] = "locked"]
        /\ lock' = [lock EXCEPT !.step = "store"]
        /\ UNCHANGED <<nextChild, storedTx, doc, ctx>>

\* wallet.store_tx after the commit, and its failure (tx_or_err or the
\* write returning an error).
StoreTx ==
    /\ lock.step = "store"
    /\ storedTx' = storedTx \cup {lock.slate}
    /\ lock' = NoLock
    /\ UNCHANGED <<coins, nextChild, txLog, slate, doc, ctx>>

StoreTxFails ==
    /\ lock.step = "store"
    /\ lock' = NoLock
    /\ UNCHANGED <<coins, nextChild, txLog, storedTx, slate, doc, ctx>>

\* The process dies inside lock_tx_context: the open batch is lost.
Crash ==
    /\ lock # NoLock
    /\ lock' = NoLock
    /\ UNCHANGED <<coins, nextChild, txLog, storedTx, slate, doc, ctx>>

-----------------------------------------------------------------------------
(***************************************************************************)
(* repopulate_tx on a locked slate: restore amount (and fee) from the      *)
(* Context, then re-fold every Context input and output that is still      *)
(* found in the wallet, primary ones in wallet.iter(), token ones in       *)
(* wallet.token_iter(); one that is not found is skipped.                  *)
(***************************************************************************)
Found(seq, tokenStore) ==
    {k \in Ids(seq) : IF tokenStore THEN coins[k].asset \notin {Primary, NoAsset}
                                   ELSE coins[k].asset = Primary}

\* Mutation: token elements are looked up in the primary store.
RepopulateTxOneStore(s) ==
    LET c == ctx[s]
    IN  /\ lock = NoLock
        /\ slate[s] = "locked"
        /\ doc' = [doc EXCEPT ![s].amount = c.amount,
                              ![s].elems = Found(c.inputs, FALSE) \cup Found(c.outputs, FALSE)
                                           \cup Found(c.tokenInputs, FALSE)
                                           \cup Found(c.tokenOutputs, FALSE)]
        /\ UNCHANGED <<coins, nextChild, txLog, storedTx, slate, ctx, lock>>

RepopulateTx(s) ==
    LET c == ctx[s]
    IN  /\ lock = NoLock
        /\ slate[s] = "locked"
        /\ doc' = [doc EXCEPT ![s].amount = c.amount,
                              ![s].elems = Found(c.inputs, FALSE) \cup Found(c.outputs, FALSE)
                                           \cup Found(c.tokenInputs, TRUE)
                                           \cup Found(c.tokenOutputs, TRUE)]
        /\ UNCHANGED <<coins, nextChild, txLog, storedTx, slate, ctx, lock>>

(* The node confirms one of our new outputs (outside this file: the wallet *)
(* refresh marks an Unconfirmed output Unspent once it is on chain).       *)
ConfirmOutput(k) ==
    /\ lock = NoLock
    /\ coins[k].status = "Unconfirmed"
    /\ coins' = [coins EXCEPT ![k].status = "Unspent"]
    /\ UNCHANGED <<nextChild, txLog, storedTx, slate, doc, ctx, lock>>

Next ==
    \/ \E s \in Slates :
          \/ \E amt \in SendAmounts, p \in BOOLEAN : BuildSend(s, amt, p)
          \/ \E amt \in SendAmounts : BuildSendFails(s, amt)
          \/ \E amt \in TokenSendAmounts, p \in BOOLEAN : BuildSendToken(s, amt, p)
          \/ \E amt \in TokenSendAmounts : BuildSendTokenFails(s, amt)
          \/ \E amt \in IssueAmounts : BuildIssue(s, amt)
          \/ BuildIssueFails(s)
          \/ \E amt \in ReceiveAmounts, a \in {Primary, TokenType} : BuildRecipient(s, amt, a)
          \/ LockOpen(s)
          \/ RepopulateTx(s)
    \/ LockInputs \/ ProofChecked \/ ProofMissing \/ SaveOutputs \/ Commit
    \/ StoreTx \/ StoreTxFails \/ Crash
    \/ \E k \in Keys : ConfirmOutput(k)

Spec == Init /\ [][Next]_vars

\* The committed stores, seen without the batch of a lock in progress.
Ledger == INSTANCE WalletLedger

-----------------------------------------------------------------------------
Status == {"None", "Unconfirmed", "Unspent", "Locked"}
Assets == {NoAsset, Primary, TokenType} \cup Slates
CoinRec == [value : Nat, status : Status, log : Nat, asset : Assets]
Kinds == {"TxSent", "TxReceived", "TokenTxSent", "TokenIssue", "TokenTxReceived"}
Entry == [kind : Kinds, slate : Slates, inputs : SUBSET Keys, outputs : SUBSET Keys,
          tokenInputs : SUBSET Keys, tokenOutputs : SUBSET Keys, debited : Nat,
          credited : Nat, tokenDebited : Nat, tokenCredited : Nat, fee : Nat]

TypeOK ==
    /\ coins \in [Keys -> CoinRec]
    /\ nextChild \in 0..MaxKey
    /\ txLog \in Seq(Entry)
    /\ storedTx \subseteq Slates
    /\ slate \in [Slates -> {"new", "built", "failed", "received", "locked"}]
    /\ \A s \in Slates : doc[s].token \in Assets /\ doc[s].elems \subseteq Keys
    /\ lock.step \in {"idle", "inputs", "proof", "outputs", "commit", "store"}
    /\ lock.batch \in [Keys -> CoinRec] \/ lock = NoLock

\* lock_tx_context's batch.get(..).unwrap() and get_token(..).unwrap()
\* never panic: when a lock starts, every input its Context registered at
\* build time, however long ago, is still in the store of its asset.
LockFindsInputs ==
    lock.step = "inputs" =>
        InStores(Ids(ctx[lock.slate].inputs), Ids(ctx[lock.slate].tokenInputs))

\* repopulate_tx rebuilds exactly the elements the build put in the slate:
\* every input and change output a locked Context names, of either asset,
\* is found where lock_tx_context left it.
RepopulateMatchesContext ==
    \A s \in Slates : slate[s] = "locked" => doc[s].elems = CtxIds(ctx[s])

\* repopulate_tx restores the amount the slate was built for: once a slate
\* is built, no step changes its amount.
RepopulateKeepsAmount ==
    [][\A s \in Slates : slate[s] \in {"built", "locked"} => doc'[s].amount = doc[s].amount]_vars

\* Every sent entry names a stored transaction (stored_tx is set to
\* "<slate id>.vcashtx" inside the batch): once lock_tx_context is over,
\* store_tx has written it.
StoredTxPresent ==
    \A l \in DOMAIN txLog :
        txLog[l].kind \in {"TxSent", "TokenTxSent", "TokenIssue"} =>
            \/ txLog[l].slate \in storedTx
            \/ lock.slate = txLog[l].slate /\ lock.step = "store"

NoDoubleLock ==
    \A l1, l2 \in DOMAIN txLog :
        l1 # l2 => (txLog[l1].inputs \cup txLog[l1].tokenInputs)
                   \cap (txLog[l2].inputs \cup txLog[l2].tokenInputs) = {}

=============================================================================
