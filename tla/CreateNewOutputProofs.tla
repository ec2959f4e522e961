------------------------- MODULE CreateNewOutputProofs -------------------------
(***************************************************************************)
(* The output path of CreateNewOutput keeps the promise of RunStore for    *)
(* any number of publishers of any kind, however they fail and die.        *)
(*                                                                         *)
(* The invariant ties each publisher's place to the path: what is about to *)
(* move is whole, what has moved is there and its own, and a publisher     *)
(* that has not moved yet owns nothing.                                    *)
(***************************************************************************)
EXTENDS CreateNewOutput, TLAPS

OutputInv ==
    /\ OutputTypeOK
    /\ IF owner = Nobody THEN target \in Alien \cup {"absent"} ELSE target = "whole"
    /\ \A p \in Publisher :
          /\ stage[p] = "moving" => staged[p] = "whole"
          /\ stage[p] \in {"moved", "unlinking", "returned"} => owner = p
          /\ stage[p] \in {"idle", "staging", "writing", "moving"} => owner # p

\* The steps of one publisher, of whatever kind.
PublisherStep(p) ==
    \/ Look(p)
    \/ MakeStaging(p)
    \/ WriteLast(p)
    \/ GiveUp(p)
    \/ Rename(p)
    \/ Link(p)
    \/ Unlink(p)
    \/ Answer(p)
    \/ Discard(p)
    \/ Die(p)

\* Every operation takes the steps of a publisher.
LEMMA OperationsAreSteps ==
  OutputNext => (\E p \in Publisher : PublisherStep(p)) \/ Elsewhere
BY DEF OutputNext, publish_validation_project_run, publish_human_report,
       publish_portfolio_demo, publish_voltage_import, write_utf8_atomic,
       write_new_text, write_voltage_mapping, PublishDirectory, PublishFile,
       PublisherStep

\* A step of a publisher keeps the invariant: it disturbs the path only when
\* it moves there what is whole, and the place of no other publisher.
LEMMA PublisherKeepsInv ==
  ASSUME OutputInv, NEW p \in Publisher, PublisherStep(p)
  PROVE  OutputInv'
<1> USE NobodyAssumption DEF OutputInv, OutputTypeOK, Goto, Stage, Staged, Over
<1>1. CASE Look(p)
  BY <1>1 DEF Look
<1>2. CASE MakeStaging(p)
  BY <1>2 DEF MakeStaging
<1>3. CASE WriteLast(p)
  BY <1>3 DEF WriteLast
<1>4. CASE GiveUp(p)
  BY <1>4 DEF GiveUp
<1>5. CASE Rename(p)
  BY <1>5 DEF Rename, MoveTakes, Alien
<1>6. CASE Link(p)
  BY <1>6 DEF Link, MoveTakes, Alien
<1>7. CASE Unlink(p)
  BY <1>7 DEF Unlink
<1>8. CASE Answer(p)
  BY <1>8 DEF Answer
<1>9. CASE Discard(p)
  BY <1>9 DEF Discard
<1>10. CASE Die(p)
  BY <1>10 DEF Die
<1> QED BY <1>1, <1>2, <1>3, <1>4, <1>5, <1>6, <1>7, <1>8, <1>9, <1>10 DEF PublisherStep

\* Other programs touch a path only while no publisher owns it.
LEMMA ElsewhereKeepsInv == OutputInv /\ Elsewhere => OutputInv'
BY DEF OutputInv, OutputTypeOK, Elsewhere

(***************************************************************************)
(* The strengthening holds in every state: a path that a publisher owns    *)
(* holds a whole output, and only who moved it there may have returned.    *)
(***************************************************************************)
THEOREM OutputInvariant == OutputSpec => []OutputInv
<1>1. OutputInit => OutputInv
  BY NobodyAssumption DEF OutputInit, OutputInv, OutputTypeOK, Stage, Staged, Alien
<1>2. OutputInv /\ [OutputNext]_outputVars => OutputInv'
  <2> SUFFICES ASSUME OutputInv, [OutputNext]_outputVars
               PROVE  OutputInv'
    OBVIOUS
  <2>1. CASE \E p \in Publisher : PublisherStep(p)
    BY <2>1, PublisherKeepsInv
  <2>2. CASE Elsewhere
    BY <2>2, ElsewhereKeepsInv
  <2>3. CASE UNCHANGED outputVars
    BY <2>3 DEF OutputInv, OutputTypeOK, outputVars
  <2> QED BY <2>1, <2>2, <2>3, OperationsAreSteps
<1> QED BY <1>1, <1>2, PTL DEF OutputSpec

(***************************************************************************)
(* Types, and no partial output under the path, for any publishers.        *)
(***************************************************************************)
THEOREM OutputTypeCorrect == OutputSpec => []OutputTypeOK
<1>1. OutputInv => OutputTypeOK
  BY DEF OutputInv
<1> QED BY <1>1, OutputInvariant, PTL

(***************************************************************************)
(* Every way of creating an output implements RunStore: the path names     *)
(* nothing, something of another program or one whole output, which stays, *)
(* and only its own publisher succeeds (rename, renameat2 and link are the *)
(* publishing steps, every other step stutters or answers).                *)
(***************************************************************************)
THEOREM RunStoreImplemented == OutputSpec => ImplementsRunStore
<1> USE NobodyAssumption
<1>1. OutputInit => Store!Init
  BY DEF OutputInit, Store!Init
<1>2. OutputInv /\ [OutputNext]_outputVars => [Store!Next]_(Store!storeVars)
  <2> SUFFICES ASSUME OutputInv, [OutputNext]_outputVars
               PROVE  Store!Next \/ UNCHANGED Store!storeVars
    OBVIOUS
  <2> USE DEF OutputInv, OutputTypeOK, Store!Next, Store!storeVars, Goto
  <2>1. CASE \E p \in Publisher : PublisherStep(p)
    <3>1. PICK p \in Publisher : PublisherStep(p)
      BY <2>1
    <3>2. CASE Look(p) \/ MakeStaging(p) \/ Discard(p)
      BY <3>1, <3>2 DEF Look, MakeStaging, Discard, Store!Answer
    <3>3. CASE WriteLast(p) \/ GiveUp(p)
      BY <3>1, <3>3 DEF WriteLast, GiveUp
    <3>4. CASE Die(p)
      BY <3>1, <3>4 DEF Die, Over
    <3>5. CASE Rename(p) \/ Link(p)
      BY <3>1, <3>5 DEF Rename, Link, MoveTakes, Alien, Store!Publish
    <3>6. CASE Unlink(p) \/ Answer(p)
      <4>1. stage[p] \in {"moved", "unlinking"} /\ owner = p /\ target = "whole"
        BY <3>6 DEF Unlink, Answer
      <4>2. PICK s \in {"returned", "raised"} : stage' = [stage EXCEPT ![p] = s]
        BY <3>6 DEF Unlink, Answer
      <4>3. owner' = owner /\ target' = target
        BY <3>6 DEF Unlink, Answer
      <4>4. stage \in [Publisher -> Stage]
        OBVIOUS
      <4>5. CASE s = "returned"
        BY <4>1, <4>2, <4>3, <4>4, <4>5 DEF Store!Answer
      <4>6. CASE s = "raised"
        BY <4>1, <4>2, <4>3, <4>4, <4>6 DEF Store!Answer
      <4> QED BY <4>5, <4>6
    <3> QED BY <3>1, <3>2, <3>3, <3>4, <3>5, <3>6 DEF PublisherStep
  <2>2. CASE Elsewhere
    BY <2>2 DEF Elsewhere, Store!Elsewhere, Alien, Store!Alien
  <2>3. CASE UNCHANGED outputVars
    BY <2>3 DEF outputVars
  <2> QED BY <2>1, <2>2, <2>3, OperationsAreSteps
<1> QED BY <1>1, <1>2, OutputInvariant, PTL
     DEF OutputSpec, ImplementsRunStore, Store!Spec

================================================================================
