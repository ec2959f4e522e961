-------------------------- MODULE MC_ProjectWorkspace --------------------------
(***************************************************************************)
(* Model-checking instance of ProjectWorkspace: two attempts to publish a  *)
(* project of two presets, one of which replays a file.                    *)
(***************************************************************************)
EXTENDS ProjectWorkspace

CONSTANTS dc, csv

MCPreset == {dc, csv}

MCReplay == {csv}

\* a part of the project, and all of it
MCPlan == {<<csv>>, <<dc, csv>>}

(***************************************************************************)
(* The manifests of this instance as those of the files: any records, and  *)
(* what is not started, archived or failed.                                *)
(***************************************************************************)
Files == INSTANCE ProjectFiles

AsWritten(m) ==
    LET source(p) == IF p \in Replay THEN "CSV_REPLAY" ELSE "SIMULATOR"
        record(r) == [preset |-> r.preset, job |-> r.preset, source |-> source(r.preset),
                      worker |-> r.worker, product |-> "none"]
        entry(p) == [preset |-> p, source |-> source(p)]
    IN  [version |-> 4, status |-> m.status, planned |-> m.plan, started |-> 0, completed |-> 0,
         records |-> [i \in DOMAIN m.records |-> record(m.records[i])],
         notStarted |-> m.notStarted,
         inputs |-> [i \in DOMAIN m.inputs |-> entry(m.inputs[i])],
         failure |-> IF m.failure = Nobody THEN <<>> ELSE <<entry(m.failure)>>]

Somes == {s \in UNION {[1..n -> Preset] : n \in 0..2} : \A i, j \in DOMAIN s : s[i] = s[j] => i = j}

(* The validation that the batch model has is that of the manifest as it   *)
(* is written in the fourth version (ValidationRunManifest).               *)
ASSUME ValidAsWritten ==
    \A p \in Plan, s, rest, archived \in Somes, f \in Preset \cup {Nobody},
       st \in Status \ {"none"} :
        \A v \in [DOMAIN s -> Verdict] :
            LET m == [status |-> st, plan |-> p, notStarted |-> rest, inputs |-> archived,
                      failure |-> f,
                      records |-> [i \in DOMAIN s |->
                                      [preset |-> s[i], worker |-> v[i], output |-> FALSE]]]
            IN  Valid(m) <=> Files!ManifestAccepted(AsWritten(m))

=============================================================================
