----------------------------- MODULE FeeSolver -----------------------------
(***************************************************************************)
(* One caller repeatedly invokes the two selection entry points of         *)
(* selection.rs on arbitrary wallet contents:                              *)
(*   select_send_tx:       select_coins_and_fee, run one step per pass of  *)
(*                         its while loop, then inputs_and_change;         *)
(*   select_send_token_tx: select_token_coins_and_fee, then                *)
(*                         token_inputs_and_change.                        *)
(* Each call runs to completion before the next one starts (the functions  *)
(* are synchronous); the caller is free to never call again.               *)
(***************************************************************************)
EXTENDS Selection

CONSTANTS
    Values,          \* values a coin may hold
    MaxCoins,        \* bound on the number of eligible coins in the pool
    Amounts,         \* amounts a caller may request
    Caps,            \* values of max_outputs a caller may pass
    ChangeCounts,    \* values of change_outputs a caller may pass
    TokenLegs        \* values of token_inputs / token_outputs passed through

ASSUME Caps \subseteq Nat

VARIABLES
    pc,        \* "idle", "start", "loop", "assemble", "tokenStart",
               \* "tokenAssemble", "returned" or "panicked"
    req,       \* the request of the current (or last) call
    solver,    \* the solver state of the current (or last) call
    change,    \* the result of the change split of the last call
    lastSel,   \* the arguments and result of the last select_coins call
    call       \* which entry point the current (or last) call is

vars == <<pc, req, solver, change, lastSel, call>>

\* Pools: every sequence of at most MaxCoins coins with ids 1..n.
Pools == UNION { { [i \in 1..n |-> [id |-> i, value |-> v[i]]] : v \in [1..n -> Values] }
                 : n \in 0..MaxCoins }

Requests ==
    [pool : Pools, amount : Amounts, maxOutputs : Caps, changeOutputs : ChangeCounts,
     selectAll : BOOLEAN, tokenInputs : TokenLegs, tokenOutputs : TokenLegs]

NoSolver == [pc |-> "none", maxAvailable |-> 0, coins |-> <<>>, total |-> 0, fee |-> 0]
NoChange == [panic |-> FALSE, amounts |-> <<>>]

Selected(pool, target, cap, all, st) ==
    [pool |-> pool, target |-> target, cap |-> cap, all |-> all, result |-> st.coins]

NoRequest == [pool |-> <<>>, amount |-> 0, maxOutputs |-> 1, changeOutputs |-> 0,
              selectAll |-> FALSE, tokenInputs |-> 0, tokenOutputs |-> 0]

NoSelection == Selected(<<>>, 0, 1, FALSE, NoSolver)

Init ==
    /\ pc = "idle"
    /\ req = NoRequest
    /\ solver = NoSolver
    /\ change = NoChange
    /\ lastSel = NoSelection
    /\ call = "send"

-----------------------------------------------------------------------------
\* The caller enters select_send_tx or select_send_token_tx.
CallSend ==
    /\ pc = "idle"
    /\ pc' = "start"
    /\ req' \in Requests
    /\ call' = "send"
    /\ solver' = NoSolver
    /\ change' = NoChange
    /\ lastSel' = NoSelection

CallSendToken ==
    /\ pc = "idle"
    /\ pc' = "tokenStart"
    /\ req' \in Requests
    /\ call' = "token"
    /\ solver' = NoSolver
    /\ change' = NoChange
    /\ lastSel' = NoSelection

\* select_coins_and_fee up to its while loop.
Start ==
    LET st == SolverStart(req)
    IN  /\ pc = "start"
        /\ ~SelectPanics(req.pool, req.maxOutputs)
        /\ solver' = st
        /\ lastSel' = Selected(req.pool, req.amount + BaseFee, req.maxOutputs, req.selectAll, st)
        /\ pc' = CASE st.pc = "loop"         -> "loop"
                   [] st.pc = "done"         -> "assemble"
                   [] st.pc = "insufficient" -> "returned"
        /\ change' = NoChange
        /\ UNCHANGED <<req, call>>

\* The loop test succeeds: the selection pays amount + fee.
Covered ==
    /\ pc = "loop"
    /\ LoopCovered(req, solver)
    /\ solver' = [solver EXCEPT !.pc = "done"]
    /\ pc' = "assemble"
    /\ UNCHANGED <<req, change, lastSel, call>>

\* Every eligible coin is selected and still short: NotEnoughFunds.
Exhausted ==
    /\ pc = "loop"
    /\ LoopExhausted(req, solver)
    /\ solver' = [solver EXCEPT !.pc = "insufficient"]
    /\ pc' = "returned"
    /\ UNCHANGED <<req, change, lastSel, call>>

\* Reselect for the new amount + fee and re-price.
Reselect ==
    LET st == SolverReselect(req, solver)
    IN  /\ pc = "loop"
        /\ ~LoopCovered(req, solver)
        /\ ~LoopExhausted(req, solver)
        /\ solver' = st
        /\ lastSel' = Selected(req.pool, req.amount + solver.fee, solver.maxAvailable,
                               req.selectAll, st)
        /\ UNCHANGED <<pc, req, change, call>>

\* inputs_and_change on the converged selection.
Assemble ==
    /\ pc = "assemble"
    /\ change' = InputsAndChange(solver.coins, req.amount, solver.fee, req.changeOutputs)
    /\ pc' = "returned"
    /\ UNCHANGED <<req, solver, lastSel, call>>

\* select_token_coins_and_fee (one select_token_coins call, no loop).
TokenStart ==
    LET st == SelectTokenCoinsAndFee(req)
    IN  /\ pc = "tokenStart"
        /\ ~SelectPanics(req.pool, req.maxOutputs)
        /\ solver' = st
        /\ lastSel' = Selected(req.pool, req.amount, req.maxOutputs, req.selectAll, st)
        /\ pc' = IF st.pc = "done" THEN "tokenAssemble" ELSE "returned"
        /\ change' = NoChange
        /\ UNCHANGED <<req, call>>

\* token_inputs_and_change on the selection.
TokenAssemble ==
    /\ pc = "tokenAssemble"
    /\ change' = TokenInputsAndChange(solver.coins, req.amount, req.changeOutputs)
    /\ pc' = "returned"
    /\ UNCHANGED <<req, solver, lastSel, call>>

\* The first select_coins / select_token_coins call of either entry point
\* hits eligible.windows(0): the thread panics and the call never returns.
Panic ==
    /\ pc \in {"start", "tokenStart"}
    /\ SelectPanics(req.pool, req.maxOutputs)
    /\ pc' = "panicked"
    /\ UNCHANGED <<req, solver, change, lastSel, call>>

\* The call hands its result back and the caller forgets it.
Return ==
    /\ pc = "returned"
    /\ pc' = "idle"
    /\ req' = NoRequest
    /\ solver' = NoSolver
    /\ change' = NoChange
    /\ lastSel' = NoSelection
    /\ call' = "send"

Next ==
    \/ CallSend \/ CallSendToken
    \/ Start \/ Covered \/ Exhausted \/ Reselect \/ Assemble
    \/ TokenStart \/ TokenAssemble \/ Panic
    \/ Return

\* A call, once entered, runs on: the functions hold no lock and wait on
\* nothing but the backend, so every step of theirs is weakly fair.
Spec ==
    /\ Init /\ [][Next]_vars
    /\ WF_vars(Start \/ Covered \/ Exhausted \/ Reselect \/ Assemble)
    /\ WF_vars(TokenStart \/ TokenAssemble)
    /\ WF_vars(Panic)

-----------------------------------------------------------------------------
(***************************************************************************)
(* Refinement: the send path of this machine implements FeeSolverContract. *)
(* A send call is busy from select_coins_and_fee's entry until its solver  *)
(* state leaves the loop; from then on (inputs_and_change included) it is  *)
(* answered with the solver's coins and fee.  Token calls are not part of  *)
(* that contract and are invisible to it.                                  *)
(***************************************************************************)
NoCall == [in |-> NoRequest, kind |-> "none"]
NoOutcome == [pc |-> "none", coins |-> <<>>, fee |-> 0]

ContractPhase ==
    CASE call = "token" \/ pc = "idle"  -> "idle"
      [] pc \in {"start", "loop", "panicked"} -> "busy"
      [] OTHER                           -> "answered"

Contract == INSTANCE FeeSolverContract WITH
    phase   <- ContractPhase,
    areq    <- IF ContractPhase = "idle" THEN NoCall ELSE req,
    outcome <- IF ContractPhase = "answered"
               THEN [pc |-> solver.pc, coins |-> solver.coins, fee |-> solver.fee]
               ELSE NoOutcome

-----------------------------------------------------------------------------
Coin == [id : 1..MaxCoins, value : Values]

TypeOK ==
    /\ pc \in {"idle", "start", "loop", "assemble", "tokenStart", "tokenAssemble", "returned",
              "panicked"}
    /\ req.pool \in Seq(Coin) /\ Len(req.pool) <= MaxCoins
    /\ req.amount \in Amounts \cup {0} /\ req.maxOutputs \in Caps \cup {1}
    /\ solver.pc \in {"none", "loop", "done", "insufficient"}
    /\ solver.coins \in Seq(Coin)
    /\ solver.fee \in Nat
    /\ change.panic \in BOOLEAN
    /\ change.amounts \in Seq(Nat)
    /\ call \in {"send", "token"}

Returned(c) == pc = "returned" /\ call = c /\ solver.pc # "none"

\* select_coins (both its callers): the covering search never gives up while
\* the whole eligible set covers the target, because max_outputs is only a
\* soft limit (the unrestricted fallback after the windows); when a window of
\* max_outputs coins covers, no more than max_outputs coins are chosen; the
\* chosen coins are a run of consecutive coins in ascending value order; and
\* unless select_all, dropping the last chosen coin no longer covers (the
\* take_while keeps the crossing coin and nothing after it).
SelectCoinsContract ==
    LET s      == lastSel
        sorted == SortByValue(s.pool)
        r      == s.result
        covers == Total(s.pool) >= s.target
    IN  /\ covers => Total(r) >= s.target
        /\ covers => \E i \in 1..(Len(sorted) - Len(r) + 1) : r = SubSeq(sorted, i, i + Len(r) - 1)
        /\ (Len(s.pool) > s.cap /\ \E i \in 1..(Len(sorted) - s.cap + 1) :
                                       Total(SubSeq(sorted, i, i + s.cap - 1)) >= s.target)
             => Len(r) <= s.cap
        /\ (covers /\ ~s.all /\ r # <<>>) => Total(Front(r)) < s.target

\* select_coins_and_fee: a successful result pays amount + fee, and when it
\* leaves change (which inputs_and_change will turn into change outputs) the
\* fee it returns is priced for those change outputs; NotEnoughFunds is only
\* returned when even the whole eligible set cannot pay amount plus the fee
\* of spending all of it with change.
SolverContract ==
    Returned("send") =>
    \/ /\ solver.pc = "done"
       /\ solver.total >= req.amount + solver.fee
       /\ solver.total > req.amount + solver.fee
            => solver.fee = FeeFor(req, Len(solver.coins), NumOutputs(req))
    \/ /\ solver.pc = "insufficient"
       /\ Total(req.pool) < req.amount + FeeFor(req, Len(req.pool), NumOutputs(req))

\* Every call of select_send_tx / select_send_token_tx returns.
Termination == (pc \notin {"idle", "returned"}) ~> (pc = "returned")

\* select_coins_and_fee, pass by pass, implements its contract: every send
\* call is answered once, by distinct eligible coins that pay amount + fee
\* with the fee priced for what the transaction will contain, or by
\* NotEnoughFunds only when the whole eligible set cannot pay.
ContractSpec == Contract!CSpec

\* inputs_and_change: the change outputs add up to exactly
\* total - amount - fee, so no value is lost in the split.
ChangeSplitExact ==
    (Returned("send") /\ solver.pc = "done" /\ ~change.panic) =>
        FoldLeft(+, 0, change.amounts) = solver.total - req.amount - solver.fee

\* inputs_and_change / token_inputs_and_change: building the change of a
\* selection that the solver accepted never panics (no division or
\* remainder by zero, no u64 underflow of total - amount - fee).
NoChangePanic == ~change.panic

\* select_token_coins_and_fee: a selection it accepts covers the amount
\* (token_inputs_and_change subtracts the amount from its total).
TokenSelectionCovers ==
    (Returned("token") /\ solver.pc = "done") => solver.total >= req.amount

=============================================================================
