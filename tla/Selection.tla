----------------------------- MODULE Selection -----------------------------
(***************************************************************************)
(* The pure algorithms of libwallet/src/internal/selection.rs:             *)
(*   select_coins / select_token_coins and select_from / select_token_from *)
(*     (sliding-window covering search with a soft output limit),          *)
(*   select_coins_and_fee (the fee fixed point, split into its steps so    *)
(*     that FeeSolver can run it one iteration per step),                  *)
(*   select_token_coins_and_fee, and                                       *)
(*   inputs_and_change / token_inputs_and_change (the change split).       *)
(* A coin is a record [id |-> k, value |-> v]; a pool is the sequence of   *)
(* eligible coins in the backend's iteration order (ascending id).         *)
(***************************************************************************)
EXTENDS Integers, Sequences, SequencesExt, FiniteSetsExt

CONSTANT BaseFee          \* DEFAULT_BASE_FEE, the fee per unit of weight

Total(coins) == FoldLeft(LAMBDA acc, c : acc + c.value, 0, coins)

\* eligible.sort_by_key(|out| out.value): a stable sort, ties stay in
\* iteration (id) order.
SortByValue(pool) ==
    SortSeq(pool, LAMBDA a, b : a.value < b.value \/ (a.value = b.value /\ a.id < b.id))

\* The take_while of select_from: a coin is taken while the sum of the coins
\* taken BEFORE it is still below amount; the sum grows regardless.
RECURSIVE TakeWhileBelow(_, _, _)
TakeWhileBelow(amount, selected, outs) ==
    IF outs = <<>> \/ ~(selected < amount) THEN <<>>
    ELSE <<Head(outs)>> \o TakeWhileBelow(amount, selected + Head(outs).value, Tail(outs))

NotFound == [found |-> FALSE, coins |-> <<>>]

\* select_from / select_token_from: None when the set does not cover amount.
SelectFrom(amount, selectAll, outs) ==
    IF Total(outs) >= amount
    THEN [found |-> TRUE,
          coins |-> IF selectAll THEN outs ELSE TakeWhileBelow(amount, 0, outs)]
    ELSE NotFound

\* eligible.windows(k): the contiguous sub-sequences of length k, in order.
Windows(s, k) == [i \in 1..(Len(s) - k + 1) |-> SubSeq(s, i, i + k - 1)]

\* slice::windows panics on a window size of 0, and select_coins /
\* select_token_coins reach it whenever more coins are eligible than
\* max_outputs: with max_outputs = 0, as soon as one coin is eligible.
SelectPanics(pool, maxOutputs) == Len(pool) > maxOutputs /\ maxOutputs = 0

\* select_coins / select_token_coins after the eligibility filter: returns
\* max_available (the eligible count) and the chosen coins.  When no set
\* covers amount, the chosen coins are the max_outputs largest (a bound for
\* the error message, not a spend set).
\* Mutation: the soft-limit fallback over the whole eligible set is missing.
SelectCoinsNoFallback(pool, amount, maxOutputs, selectAll) ==
    LET eligible   == SortByValue(pool)
        wins       == Windows(eligible, maxOutputs)
        hits       == {i \in DOMAIN wins : SelectFrom(amount, selectAll, wins[i]).found}
        whole      == SelectFrom(amount, selectAll, eligible)
        bestEffort == SubSeq(Reverse(eligible), 1, Min({maxOutputs, Len(eligible)}))
    IN  [maxAvailable |-> Len(pool),
         coins |->
           IF Len(eligible) > maxOutputs
           THEN IF hits # {} THEN SelectFrom(amount, selectAll, wins[Min(hits)]).coins
                ELSE bestEffort
           ELSE IF whole.found THEN whole.coins ELSE bestEffort]

SelectCoins(pool, amount, maxOutputs, selectAll) ==
    LET eligible   == SortByValue(pool)
        wins       == Windows(eligible, maxOutputs)
        hits       == {i \in DOMAIN wins : SelectFrom(amount, selectAll, wins[i]).found}
        unlimited  == SelectFrom(amount, FALSE, eligible)
        whole      == SelectFrom(amount, selectAll, eligible)
        bestEffort == SubSeq(Reverse(eligible), 1, Min({maxOutputs, Len(eligible)}))
    IN  [maxAvailable |-> Len(pool),
         coins |->
           IF Len(eligible) > maxOutputs
           THEN IF hits # {} THEN SelectFrom(amount, selectAll, wins[Min(hits)]).coins
                ELSE IF unlimited.found THEN unlimited.coins ELSE bestEffort
           ELSE IF whole.found THEN whole.coins ELSE bestEffort]

\* select_token_coins: select_coins over the token pool, whose eligibility
\* filter also requires the token type; the pool passed in is that pool.
SelectTokenCoins(pool, amount, maxOutputs, selectAll) ==
    SelectCoins(pool, amount, maxOutputs, selectAll)

-----------------------------------------------------------------------------
(***************************************************************************)
(* Fee.  tx_fee lives in grin_core::libtx, outside this repository: it is  *)
(* modelled as the weight formula of that library extended by the token    *)
(* legs, max(4*outputs + kernels - inputs, 1) * base fee.                  *)
(***************************************************************************)
\* Mutation: the weight is not floored at 1.
TxFeeNoFloor(inputs, outputs, kernels, tokenInputs, tokenOutputs, tokenKernels) ==
    (4 * (outputs + tokenOutputs) + kernels + tokenKernels - inputs - tokenInputs) * BaseFee

TxFee(inputs, outputs, kernels, tokenInputs, tokenOutputs, tokenKernels) ==
    LET weight == 4 * (outputs + tokenOutputs) + kernels + tokenKernels
                  - inputs - tokenInputs
    IN  IF weight < 1 THEN BaseFee ELSE weight * BaseFee

(***************************************************************************)
(* select_coins_and_fee.  A request `in` is a record with fields pool,     *)
(* amount, maxOutputs, changeOutputs, selectAll, tokenInputs, tokenOutputs.*)
(* The solver state is [pc, maxAvailable, coins, total, fee] with         *)
(* pc \in {"loop", "done", "insufficient"}.                                *)
(***************************************************************************)
OutputLen(in) == IF in.amount = 0 THEN 0 ELSE 1
NumOutputs(in) == in.changeOutputs + OutputLen(in)
FeeFor(in, nInputs, nOutputs) ==
    TxFee(nInputs, nOutputs, 1, in.tokenInputs, in.tokenOutputs,
          IF in.tokenOutputs = 0 THEN 0 ELSE 1)

SolverState(pc, sel, fee) ==
    [pc |-> pc, maxAvailable |-> sel.maxAvailable, coins |-> sel.coins,
     total |-> Total(sel.coins), fee |-> fee]

\* Mutation: `total >= amount_with_fee` instead of `total != amount_with_fee`
\* decides whether to re-price with change outputs.
SolverStartNoReprice(in) ==
    LET sel   == SelectCoins(in.pool, in.amount + BaseFee, in.maxOutputs, in.selectAll)
        total == Total(sel.coins)
        fee0  == FeeFor(in, Len(sel.coins), OutputLen(in))
    IN  CASE total = 0
               -> SolverState("insufficient", sel, fee0)
          [] total < in.amount + fee0 /\ Len(sel.coins) = sel.maxAvailable
               -> SolverState("insufficient", sel, fee0)
          [] total >= in.amount + fee0
               -> SolverState("done", sel, fee0)
          [] OTHER
               -> SolverState("loop", sel, FeeFor(in, Len(sel.coins), NumOutputs(in)))

\* Everything before the while loop: select for amount + base fee, price a
\* spend without change, fail on an empty or capped-out selection, stop if
\* the selection pays exactly, otherwise re-price with the change outputs.
SolverStart(in) ==
    LET sel   == SelectCoins(in.pool, in.amount + BaseFee, in.maxOutputs, in.selectAll)
        total == Total(sel.coins)
        fee0  == FeeFor(in, Len(sel.coins), OutputLen(in))
    IN  CASE total = 0
               -> SolverState("insufficient", sel, fee0)
          [] total < in.amount + fee0 /\ Len(sel.coins) = sel.maxAvailable
               -> SolverState("insufficient", sel, fee0)
          [] total = in.amount + fee0
               -> SolverState("done", sel, fee0)
          [] OTHER
               -> SolverState("loop", sel, FeeFor(in, Len(sel.coins), NumOutputs(in)))

\* The three outcomes of one pass of `while total < amount_with_fee`.
\* Note that max_outputs was shadowed by the max_available that select_coins
\* returned: the exit test and the reselection both use the eligible count.
LoopCovered(in, st) == st.total >= in.amount + st.fee

\* Mutation: the `coins.len() == max_outputs` exit of the loop is missing.
LoopExhaustedNever(in, st) == FALSE

LoopExhausted(in, st) ==
    /\ st.total < in.amount + st.fee
    /\ Len(st.coins) = st.maxAvailable

SolverReselect(in, st) ==
    LET sel == SelectCoins(in.pool, in.amount + st.fee, st.maxAvailable, in.selectAll)
    IN  SolverState("loop", sel, FeeFor(in, Len(sel.coins), NumOutputs(in)))

\* The whole of select_coins_and_fee as one function, for callers that run
\* it inside a single step.
RECURSIVE RunLoop(_, _)
RunLoop(in, st) ==
    CASE st.pc # "loop"        -> st
      [] LoopCovered(in, st)   -> [st EXCEPT !.pc = "done"]
      [] LoopExhausted(in, st) -> [st EXCEPT !.pc = "insufficient"]
      [] OTHER                 -> RunLoop(in, SolverReselect(in, st))

SelectCoinsAndFee(in) == RunLoop(in, SolverStart(in))

\* select_token_coins_and_fee: no fee and no loop.  The capped-out test
\* again compares against max_available, not max_outputs.
SelectTokenCoinsAndFee(in) ==
    LET sel   == SelectTokenCoins(in.pool, in.amount, in.maxOutputs, in.selectAll)
        total == Total(sel.coins)
    IN  IF \/ total = 0
           \/ total < in.amount /\ Len(sel.coins) = sel.maxAvailable
        THEN SolverState("insufficient", sel, 0)
        ELSE SolverState("done", sel, 0)

-----------------------------------------------------------------------------
(***************************************************************************)
(* inputs_and_change / token_inputs_and_change: the change left after      *)
(* amount and fee, split over n outputs as n-1 parts of change / n and a   *)
(* last part that adds change % part.  Rust panics on a division or a      *)
(* remainder by zero; `change` is a u64, so a negative value here is an    *)
(* underflow (a panic in a debug build, a wrap in a release build).        *)
(***************************************************************************)
ChangeSplit(change, n) ==
    IF change < 0 THEN [panic |-> TRUE, amounts |-> <<>>]
    ELSE IF change = 0 THEN [panic |-> FALSE, amounts |-> <<>>]
    ELSE IF n = 0 \/ change \div n = 0 THEN [panic |-> TRUE, amounts |-> <<>>]
    ELSE LET part == change \div n
         IN  [panic |-> FALSE,
              amounts |-> [x \in 1..n |-> IF x = n THEN part + (change % part) ELSE part]]

\* Mutation: the fee is not taken out of the change.
InputsAndChangeNoFee(coins, amount, fee, n) == ChangeSplit(Total(coins) - amount, n)

InputsAndChange(coins, amount, fee, n) == ChangeSplit(Total(coins) - amount - fee, n)

TokenInputsAndChange(coins, amount, n) == ChangeSplit(Total(coins) - amount, n)

=============================================================================
