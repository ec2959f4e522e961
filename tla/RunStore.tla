------------------------------- MODULE RunStore -------------------------------
(***************************************************************************)
(* What the application promises of one output path, whoever publishes to  *)
(* it and however it is interrupted: the path names nothing, something of  *)
(* another program, or the whole output of one publisher.  Once an output  *)
(* is there it stays, and only its own publisher may say that it           *)
(* succeeded (docs/test-projects-and-history.md, "Every output directory   *)
(* must be new; existing files or directories are never replaced").        *)
(*                                                                         *)
(* On POSIX the promise is weaker in one point, which the specification    *)
(* keeps: an empty directory may be taken over.                            *)
(***************************************************************************)

CONSTANT Publisher

VARIABLES
    place,          \* what the output path names
    verdict         \* what each publisher has told its caller

storeVars == <<place, verdict>>

\* another program's content: a directory that is still empty, or any other
Alien == {"empty", "foreign"}

Verdict == {"pending", "returned", "raised"}

Init ==
    /\ place = "absent"
    /\ verdict = [p \in Publisher |-> "pending"]

Publish(p) ==
    /\ verdict[p] = "pending"
    /\ place \in {"absent", "empty"}
    /\ place' = p
    /\ verdict' \in {verdict, [verdict EXCEPT ![p] = "returned"]}

\* an operation may also fail after its output was published
Answer(p) ==
    /\ verdict[p] = "pending"
    /\ \/ place = p /\ verdict' = [verdict EXCEPT ![p] = "returned"]
       \/ verdict' = [verdict EXCEPT ![p] = "raised"]
    /\ UNCHANGED place

\* other programs
Elsewhere ==
    /\ place \in Alien \cup {"absent"}
    /\ place' \in Alien \cup {"absent"}
    /\ UNCHANGED verdict

Next ==
    \/ \E p \in Publisher : Publish(p) \/ Answer(p)
    \/ Elsewhere

Spec == Init /\ [][Next]_storeVars

================================================================================
