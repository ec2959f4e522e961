------------------------------ MODULE MC_Dashboard ------------------------------
(***************************************************************************)
(* Model-checking instance of the Dashboard with its worker.               *)
(***************************************************************************)
EXTENDS Dashboard

(***************************************************************************)
(* The view of the safety run tells states apart by what some guard or     *)
(* some property of the run reads: of the event indexes only their         *)
(* distance to the next one, and the locals of the last accepted job only  *)
(* (an earlier thread has nothing left to do but set its completion).      *)
(***************************************************************************)
RelativeEvents ==
    [k \in 1..Len(events) |-> [events[k] EXCEPT !.index = nextIndex - @]]

LastJob ==
    IF owner = 0 THEN <<>>
    ELSE <<service[owner], out[owner], error[owner], owner \in cancelled, slot[owner]>>

DashView ==
    <<state, owner, thread, result, issue, closed, RelativeEvents, pc, LastJob,
      callVars, [guiVars EXCEPT ![3] = <<nextIndex - shown.index, shown.job, shown.state, panel>>]>>

=============================================================================
