------------------------------ MODULE TestAttempt ------------------------------
(***************************************************************************)
(* What a runner promises of a test attempt, whatever it acquires and      *)
(* however its adapter behaves: evidence is collected only between taking  *)
(* the adapter and releasing it, the release is tried exactly once, and    *)
(* the conclusion comes after it and depends on it.  A verdict needs all   *)
(* the evidence and a clean release (docs/dc-sweep-runner.md, "Analysis    *)
(* and PASS/FAIL happen only after the adapter has been released           *)
(* successfully").                                                         *)
(***************************************************************************)
EXTENDS Integers

CONSTANT Planned    \* measurements that the plan asks for

VARIABLES
    stage,          \* "idle", "acquiring" or "released"
    evidence,       \* measurements collected by the attempt
    clean,          \* the adapter was released without an error
    conclusion      \* outcome of the last attempt, "none" while one runs

attemptVars == <<stage, evidence, clean, conclusion>>

Verdict == {"PASS", "FAIL"}

\* "raised" stands for an attempt that ended with an exception of its own
Conclusion == Verdict \cup {"INCOMPLETE", "UNSUPPORTED", "ERROR", "raised"}

Init ==
    /\ stage = "idle"
    /\ evidence = 0
    /\ clean = TRUE
    /\ conclusion = "none"

Take ==
    /\ stage = "idle"
    /\ stage' = "acquiring"
    /\ evidence' = 0
    /\ clean' = TRUE
    /\ conclusion' = "none"

Collect ==
    /\ stage = "acquiring"
    /\ evidence < Planned
    /\ evidence' = evidence + 1
    /\ UNCHANGED <<stage, clean, conclusion>>

Release ==
    /\ stage = "acquiring"
    /\ stage' = "released"
    /\ clean' \in BOOLEAN
    /\ UNCHANGED <<evidence, conclusion>>

Conclude(c) ==
    /\ stage = "released"
    /\ c \in Verdict => clean /\ evidence = Planned
    /\ ~clean => c \in {"ERROR", "raised"}
    /\ stage' = "idle"
    /\ conclusion' = c
    /\ UNCHANGED <<evidence, clean>>

\* an interrupted release ends the attempt without a conclusion of its own
Abandon ==
    /\ stage = "acquiring"
    /\ stage' = "idle"
    /\ clean' = FALSE
    /\ conclusion' = "raised"
    /\ UNCHANGED evidence

Next ==
    \/ Take
    \/ Collect
    \/ Release
    \/ \E c \in Conclusion : Conclude(c)
    \/ Abandon

Spec == Init /\ [][Next]_attemptVars

================================================================================
