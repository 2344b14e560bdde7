------------------------- MODULE FeeSolverContract -------------------------
(***************************************************************************)
(* What select_coins_and_fee promises its callers, with no loop, no        *)
(* windows and no passes: a call is answered once, either with a set of    *)
(* distinct eligible coins that pays the amount plus a fee priced for      *)
(* those inputs (and for the change outputs whenever change is left), or   *)
(* with NotEnoughFunds when not even the whole eligible set can pay the    *)
(* amount and the fee of spending all of it.  Every call is answered.      *)
(***************************************************************************)
EXTENDS Selection, FiniteSets

CONSTANTS
    NoCall,      \* the request slot of an idle service
    NoOutcome    \* the outcome slot before the answer

VARIABLES
    phase,       \* "idle", "busy" or "answered"
    areq,        \* the request being served
    outcome      \* [pc, coins, fee] once answered

avars == <<phase, areq, outcome>>

\* The coins are distinct coins of the pool.
DrawnFrom(coins, pool) ==
    /\ Range(coins) \subseteq Range(pool)
    /\ Cardinality(Range(coins)) = Len(coins)

Acceptable(in, o) ==
    \/ /\ o.pc = "done"
       /\ DrawnFrom(o.coins, in.pool)
       /\ Total(o.coins) >= in.amount + o.fee
       /\ o.fee \in {FeeFor(in, Len(o.coins), OutputLen(in)),
                     FeeFor(in, Len(o.coins), NumOutputs(in))}
       /\ Total(o.coins) > in.amount + o.fee
            => o.fee = FeeFor(in, Len(o.coins), NumOutputs(in))
    \/ /\ o.pc = "insufficient"
       /\ Total(in.pool) < in.amount + FeeFor(in, Len(in.pool), NumOutputs(in))

CInit ==
    /\ phase = "idle"
    /\ areq = NoCall
    /\ outcome = NoOutcome

Call ==
    /\ phase = "idle"
    /\ phase' = "busy"
    /\ areq' # NoCall
    /\ outcome' = NoOutcome

Answer ==
    /\ phase = "busy"
    /\ phase' = "answered"
    /\ Acceptable(areq, outcome')
    /\ UNCHANGED areq

Forget ==
    /\ phase = "answered"
    /\ phase' = "idle"
    /\ areq' = NoCall
    /\ outcome' = NoOutcome

CNext == Call \/ Answer \/ Forget

\* Every call that is being served is answered.
Responds == (phase = "busy") ~> (phase = "answered")

CSpec == CInit /\ [][CNext]_avars /\ Responds

=============================================================================
