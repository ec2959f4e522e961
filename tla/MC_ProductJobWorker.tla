-------------------------- MODULE MC_ProductJobWorker --------------------------
(***************************************************************************)
(* Model-checking instance of ProductJobWorker: caller threads as model    *)
(* values, interchangeable in the safety runs.                             *)
(***************************************************************************)
EXTENDS ProductJobWorker, TLC

CallerSymmetry == Permutations(Caller)

(***************************************************************************)
(* The view of the safety run: the event counters and the indexes only     *)
(* ever grow by what the steps add, and no guard reads them, so a state is *)
(* told apart by their differences.                                        *)
(***************************************************************************)
RelativeEvents ==
    [k \in 1..Len(events) |-> [events[k] EXCEPT !.index = nextIndex - @]]

SafetyView ==
    <<ownerVars, jobVars, callVars, RelativeEvents, lastDrained.job, lastDrained.state,
      nextIndex - dropped - drained>>

=============================================================================
