---------------------------- MODULE CreateNewOutput ----------------------------
(***************************************************************************)
(* How the application creates its outputs: project runs and project files *)
(* (projects.py), human reports (reporting.py), the portfolio demo         *)
(* (demo.py), import packages and mappings (import_packages.py,            *)
(* atomic_directory.py) and result files (exports/_files.py).  A publisher *)
(* looks whether the path is free, prepares everything beside it under a   *)
(* name of its own (mkdtemp, NamedTemporaryFile), moves it there in one    *)
(* system call, and removes what is left of its staging.                   *)
(*                                                                         *)
(* Publishers of any process and other programs use the same output path.  *)
(* Every system call may fail, a KeyboardInterrupt may cut an operation    *)
(* between two of them, and its process may die there.                     *)
(***************************************************************************)

CONSTANTS
    Publisher,      \* operations that publish to the path
    Nobody

ASSUME NobodyAssumption == Nobody \notin Publisher

VARIABLES
    kind,           \* what each publisher creates, fixed
    target,         \* what the path names
    owner,          \* the publisher that put it there, or Nobody
    staged,         \* what stands under each publisher's staging name
    stage           \* where each publisher is

outputVars == <<kind, target, owner, staged, stage>>

FileKind == {"result", "project", "mapping"}

Kind == {"run", "report", "demo", "package"} \cup FileKind

\* "partial" until the last file, the manifest, is written
Staged == {"nothing", "partial", "whole"}

\* what other programs put there: a directory still empty, or anything else
Alien == {"empty", "foreign"}

Stage == {"idle", "staging", "writing", "moving", "moved", "unlinking",
          "discarding", "returned", "raised", "died"}

Over == {"returned", "raised", "died"}

OutputInit ==
    /\ kind \in [Publisher -> Kind]
    /\ target = "absent"
    /\ owner = Nobody
    /\ staged = [p \in Publisher |-> "nothing"]
    /\ stage = [p \in Publisher |-> "idle"]

Goto(p, s) == stage' = [stage EXCEPT ![p] = s]

(***************************************************************************)
(* Mutated form: the path was free when the publisher looked, so the move  *)
(* does not ask again (os.replace in the place of os.rename).              *)
(***************************************************************************)
MoveReplaces(p) == TRUE

--------------------------------------------------------------------------------
(* The steps of a publisher *)

\* The path must be free.  A parent that is no directory, an argument that
\* is refused or a path that cannot be inspected end the operation too.
Look(p) ==
    /\ stage[p] = "idle"
    /\ \/ target = "absent" /\ Goto(p, "staging")
       \/ Goto(p, "raised")
    /\ UNCHANGED <<kind, target, owner, staged>>

\* mkdtemp or NamedTemporaryFile; what an interrupt finds before the try
\* block owns it stays behind
MakeStaging(p) ==
    /\ stage[p] = "staging"
    /\ \/ Goto(p, "writing") /\ staged' = [staged EXCEPT ![p] = "partial"]
       \/ /\ Goto(p, "raised")
          /\ staged' \in {staged, [staged EXCEPT ![p] = "partial"]}
    /\ UNCHANGED <<kind, target, owner>>

\* the last file, the manifest, is written and closed
WriteLast(p) ==
    /\ stage[p] = "writing"
    /\ staged' = [staged EXCEPT ![p] = "whole"]
    /\ Goto(p, "moving")
    /\ UNCHANGED <<kind, target, owner>>

\* A file cannot be written, the move is refused or fails, or a
\* KeyboardInterrupt arrives.
GiveUp(p) ==
    /\ stage[p] \in {"writing", "moving", "unlinking"}
    /\ Goto(p, "discarding")
    /\ UNCHANGED <<kind, target, owner, staged>>

\* os.rename lets a directory take the place of an empty one (POSIX);
\* renameat2 with RENAME_NOREPLACE and os.link take a free path only
MoveTakes(p) ==
    target \in IF kind[p] \in {"run", "report", "demo"}
               THEN {"absent", "empty"}
               ELSE {"absent"}

\* the staging directory becomes the output
Rename(p) ==
    /\ stage[p] = "moving"
    /\ kind[p] \notin FileKind
    /\ MoveTakes(p)
    /\ target' = staged[p]
    /\ owner' = p
    /\ staged' = [staged EXCEPT ![p] = "nothing"]
    /\ Goto(p, "moved")
    /\ UNCHANGED kind

\* the temporary file gets the output's name, and then loses its own
Link(p) ==
    /\ stage[p] = "moving"
    /\ kind[p] \in FileKind
    /\ MoveTakes(p)
    /\ target' = staged[p]
    /\ owner' = p
    /\ Goto(p, "unlinking")
    /\ UNCHANGED <<kind, staged>>

Unlink(p) ==
    /\ stage[p] = "unlinking"
    /\ staged' = [staged EXCEPT ![p] = "nothing"]
    /\ Goto(p, "returned")
    /\ UNCHANGED <<kind, target, owner>>

\* what follows the move returns, or raises for an output that is there
Answer(p) ==
    /\ stage[p] = "moved"
    /\ \E s \in {"returned", "raised"} : Goto(p, s)
    /\ UNCHANGED <<kind, target, owner, staged>>

\* the finally blocks; what cannot be removed stays under its staging name
Discard(p) ==
    /\ stage[p] = "discarding"
    /\ \E rest \in {"nothing", staged[p]} : staged' = [staged EXCEPT ![p] = rest]
    /\ Goto(p, "raised")
    /\ UNCHANGED <<kind, target, owner>>

Die(p) ==
    /\ stage[p] \notin Over \cup {"idle"}
    /\ Goto(p, "died")
    /\ UNCHANGED <<kind, target, owner, staged>>

PublishDirectory(p) ==
    \/ Look(p)
    \/ MakeStaging(p)
    \/ WriteLast(p)
    \/ GiveUp(p)
    \/ Rename(p)
    \/ Answer(p)
    \/ Discard(p)

PublishFile(p) ==
    \/ Look(p)
    \/ MakeStaging(p)
    \/ WriteLast(p)
    \/ GiveUp(p)
    \/ Link(p)
    \/ Unlink(p)
    \/ Discard(p)

\* what ProjectBatch models in detail
publish_validation_project_run(p) == kind[p] = "run" /\ PublishDirectory(p)

publish_human_report(p) == kind[p] = "report" /\ PublishDirectory(p)

publish_portfolio_demo(p) == kind[p] = "demo" /\ PublishDirectory(p)

publish_voltage_import(p) == kind[p] = "package" /\ PublishDirectory(p)

\* with overwrite=False, the default that every caller keeps
write_utf8_atomic(p) == kind[p] = "result" /\ PublishFile(p)

write_new_text(p) == kind[p] = "project" /\ PublishFile(p)

write_voltage_mapping(p) == kind[p] = "mapping" /\ PublishFile(p)

\* another program makes a directory or a file, fills or removes its own
Elsewhere ==
    /\ owner = Nobody
    /\ target' \in Alien \cup {"absent"}
    /\ UNCHANGED <<kind, owner, staged, stage>>

OutputNext ==
    \/ \E p \in Publisher :
          \/ publish_validation_project_run(p)
          \/ publish_human_report(p)
          \/ publish_portfolio_demo(p)
          \/ publish_voltage_import(p)
          \/ write_utf8_atomic(p)
          \/ write_new_text(p)
          \/ write_voltage_mapping(p)
          \/ Die(p)
    \/ Elsewhere

OutputSpec == OutputInit /\ [][OutputNext]_outputVars

--------------------------------------------------------------------------------
(* Properties *)

OutputTypeOK ==
    /\ kind \in [Publisher -> Kind]
    /\ target \in Alien \cup {"absent", "partial", "whole"}
    /\ owner \in Publisher \cup {Nobody}
    /\ staged \in [Publisher -> Staged]
    /\ stage \in [Publisher -> Stage]

(***************************************************************************)
(* Every output path keeps the promise of RunStore: whole outputs only,    *)
(* one publisher at most succeeds, and what it created is never touched    *)
(* again, whichever calls fail and whichever processes die.                *)
(***************************************************************************)
Store == INSTANCE RunStore WITH
    place <- IF owner = Nobody THEN target
             ELSE IF target = "whole" THEN owner
             ELSE "torn",
    verdict <- [p \in Publisher |->
                   IF stage[p] \in {"returned", "raised"} THEN stage[p] ELSE "pending"]

ImplementsRunStore == Store!Spec

================================================================================
