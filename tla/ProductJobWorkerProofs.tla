------------------------- MODULE ProductJobWorkerProofs -------------------------
(***************************************************************************)
(* Proofs about the product job worker, for any set of callers, any queue  *)
(* capacity and any bounds.                                                *)
(***************************************************************************)
EXTENDS ProductJobWorker, SequenceTheorems, TLAPS

(***************************************************************************)
(* The event queue.                                                        *)
(***************************************************************************)

\* One append to a queue within its capacity keeps the type and the capacity,
\* grows the queue by one less what it evicts, and puts the event last.
LEMMA PushedIsQueue ==
    ASSUME NEW queue \in Seq(Event), Len(queue) <= MaxEvents, NEW event \in Event
    PROVE  /\ Pushed(queue, event) \in Seq(Event)
           /\ Lost(queue) \in {0, 1}
           /\ Len(Pushed(queue, event)) = Len(queue) + 1 - Lost(queue)
           /\ Len(Pushed(queue, event)) <= MaxEvents
           /\ Pushed(queue, event) # <<>>
           /\ Pushed(queue, event)[Len(Pushed(queue, event))] = event
<1> DEFINE kept == IF Len(queue) = MaxEvents THEN Tail(queue) ELSE queue
<1>1. Len(queue) \in Nat /\ MaxEvents \in Nat /\ MaxEvents > 0
  BY LenProperties, WorkerAssumption
<1>2. kept \in Seq(Event) /\ Len(kept) = Len(queue) - Lost(queue)
  <2>1. CASE Len(queue) = MaxEvents
    <3>1. queue # <<>>
      BY <1>1, <2>1, EmptySeq
    <3> QED
      BY <2>1, <3>1, HeadTailProperties DEF Lost
  <2>2. CASE Len(queue) # MaxEvents
    BY <1>1, <2>2 DEF Lost
  <2> QED
    BY <2>1, <2>2
<1>3. /\ Append(kept, event) \in Seq(Event)
      /\ Len(Append(kept, event)) = Len(kept) + 1
      /\ Append(kept, event)[Len(kept) + 1] = event
  BY <1>2, AppendProperties
<1>4. Pushed(queue, event) = Append(kept, event)
  BY DEF Pushed
<1>5. Len(kept) \in Nat /\ Lost(queue) \in {0, 1}
  BY <1>2, LenProperties DEF Lost
<1>6. Len(kept) + 1 <= MaxEvents
  BY <1>1, <1>2 DEF Lost
<1>7. Pushed(queue, event) # <<>>
  BY <1>3, <1>4, <1>5, EmptySeq
<1> HIDE DEF kept
<1> QED
  BY <1>1, <1>2, <1>3, <1>4, <1>5, <1>6, <1>7

\* Appending the next index keeps the queue contiguous.
LEMMA PushedIsContiguous ==
    ASSUME NEW queue \in Seq(Event), Len(queue) <= MaxEvents, NEW next \in Nat,
           NEW event \in Event, event.index = next, Contiguous(queue, next)
    PROVE  Contiguous(Pushed(queue, event), next + 1)
<1> DEFINE kept == IF Len(queue) = MaxEvents THEN Tail(queue) ELSE queue
<1>1. Len(queue) \in Nat /\ MaxEvents \in Nat /\ MaxEvents > 0
  BY LenProperties, WorkerAssumption
<1>2. kept \in Seq(Event) /\ Contiguous(kept, next)
  <2>1. CASE Len(queue) = MaxEvents
    <3>1. queue # <<>>
      BY <1>1, <2>1, EmptySeq
    <3>2. /\ Tail(queue) \in Seq(Event)
          /\ Len(Tail(queue)) = Len(queue) - 1
          /\ \A k \in 1..Len(Tail(queue)) : Tail(queue)[k] = queue[k + 1]
      BY <3>1, HeadTailProperties
    <3>3. ASSUME NEW k \in 1..Len(Tail(queue))
          PROVE  Tail(queue)[k].index = next - 1 - Len(Tail(queue)) + k
      <4>1. k + 1 \in 1..Len(queue)
        BY <1>1, <3>2
      <4>2. queue[k + 1].index = next - 1 - Len(queue) + (k + 1)
        BY <4>1 DEF Contiguous
      <4> QED
        BY <1>1, <3>2, <4>2
    <3> QED
      BY <2>1, <3>2, <3>3 DEF Contiguous
  <2>2. CASE Len(queue) # MaxEvents
    BY <2>2
  <2> QED
    BY <2>1, <2>2
<1>3. /\ Len(Append(kept, event)) = Len(kept) + 1
      /\ \A k \in 1..Len(kept) : Append(kept, event)[k] = kept[k]
      /\ Append(kept, event)[Len(kept) + 1] = event
  BY <1>2, AppendProperties
<1>4. Pushed(queue, event) = Append(kept, event)
  BY DEF Pushed
<1>5. Len(kept) \in Nat
  BY <1>2, LenProperties
<1> HIDE DEF kept
<1>6. ASSUME NEW k \in 1..Len(kept) + 1
      PROVE  Append(kept, event)[k].index = (next + 1) - 1 - (Len(kept) + 1) + k
  <2>1. CASE k \in 1..Len(kept)
    BY <1>2, <1>3, <1>5, <2>1 DEF Contiguous
  <2>2. CASE k = Len(kept) + 1
    BY <1>3, <1>5, <2>2
  <2> QED
    BY <1>5, <2>1, <2>2
<1> QED
  BY <1>3, <1>4, <1>6 DEF Contiguous

(***************************************************************************)
(* Type correctness.                                                       *)
(***************************************************************************)

\* Publishing keeps the types of the event variables.
LEMMA PublishType ==
    ASSUME EventType, Len(events) <= MaxEvents, NEW j \in 0..MaxJobs, NEW s \in State,
           Publish(j, s), UNCHANGED readerVars
    PROVE  EventType' /\ Len(events') <= MaxEvents
<1>1. Entry(nextIndex, j, s) \in Event
  BY DEF EventType, Entry, Event
<1>2. events \in Seq(Event) /\ nextIndex \in Nat /\ dropped \in Nat
  BY DEF EventType
<1>3. /\ events' = Pushed(events, Entry(nextIndex, j, s))
      /\ dropped' = dropped + Lost(events)
      /\ nextIndex' = nextIndex + 1
  BY DEF Publish
<1>4. /\ Pushed(events, Entry(nextIndex, j, s)) \in Seq(Event)
      /\ Len(Pushed(events, Entry(nextIndex, j, s))) <= MaxEvents
      /\ Lost(events) \in {0, 1}
  BY <1>1, <1>2, PushedIsQueue
<1> QED
  BY <1>2, <1>3, <1>4 DEF EventType, readerVars

\* What TypeOK needs to be inductive: an eviction leaves a queue within its
\* capacity only of a queue that was within it, and a worker that is not idle
\* has accepted a job.
TypeInv ==
    /\ TypeOK
    /\ Len(events) <= MaxEvents
    /\ state # "IDLE" => owner # 0
    /\ \A j \in Job : pc[j] # "unborn" => owner # 0

\* A cancellation keeps the types of everything it touches.
LEMMA CancelType ==
    ASSUME TypeInv, CancelEffect, UNCHANGED <<owner, readerVars>>
    PROVE  /\ EventType' /\ Len(events') <= MaxEvents
           /\ cancelled' \subseteq Job /\ state' \in State
           /\ state' # "IDLE" => owner # 0
<1>1. owner \in 0..MaxJobs /\ MaxJobs \in Nat /\ cancelled \subseteq Job /\ state \in State
  BY WorkerAssumption DEF TypeInv, TypeOK, OwnerType, JobType
<1>2. CASE state \in {"STARTING", "RUNNING"}
  <2>1. owner \in Job
    BY <1>1, <1>2 DEF TypeInv, Job
  <2>2. /\ cancelled' = cancelled \cup {owner}
        /\ state' = "CANCELLING"
        /\ Publish(owner, "CANCELLING")
    BY <1>2 DEF CancelEffect
  <2>3. EventType' /\ Len(events') <= MaxEvents
    BY <1>1, <2>2, PublishType DEF TypeInv, TypeOK, State, Active
  <2> QED
    BY <1>1, <2>1, <2>2, <2>3 DEF State, Active, Job
<1>3. CASE state \notin {"STARTING", "RUNNING"}
  <2>1. UNCHANGED <<cancelled, state, eventVars>>
    BY <1>3 DEF CancelEffect
  <2> QED
    BY <1>1, <2>1 DEF TypeInv, TypeOK, EventType, eventVars, readerVars
<1> QED
  BY <1>2, <1>3

\* Every caller step keeps the types.
LEMMA CallerTypes ==
    ASSUME TypeInv, NEW c \in Caller, CallerStep(c)
    PROVE  TypeInv'
<1>0. /\ OwnerType /\ EventType /\ JobType /\ CallType /\ Len(events) <= MaxEvents
      /\ owner \in 0..MaxJobs /\ MaxJobs \in Nat
  BY WorkerAssumption DEF TypeInv, TypeOK, OwnerType
<1>1. CASE Start(c)
  <2>1. owner + 1 \in Job
    BY <1>0, <1>1 DEF Start, MayStart, Job
  <2>2. EventType' /\ Len(events') <= MaxEvents
    BY <1>0, <1>1, <2>1, PublishType DEF Start, Job, State, Active
  <2>3. OwnerType'
    <3>1. /\ owner' = owner + 1 /\ thread' = owner + 1 /\ state' = "STARTING"
          /\ result' = "none" /\ issue' = FALSE /\ lastError' = FALSE
          /\ cleanupError' = FALSE /\ closed' = closed
      BY <1>1 DEF Start, Accept
    <3>2. owner' \in 0..MaxJobs /\ thread' \in 0..MaxJobs
      BY <1>0, <2>1, <3>1 DEF Job
    <3>3. /\ issue' \in BOOLEAN /\ lastError' \in BOOLEAN
          /\ cleanupError' \in BOOLEAN /\ closed' \in BOOLEAN
      BY <1>0, <3>1 DEF OwnerType
    <3> QED
      BY <3>1, <3>2, <3>3 DEF OwnerType, State, Active
  <2>4. JobType'
    BY <1>0, <1>1, <2>1 DEF Start, JobType
  <2>5. CallType' /\ owner' # 0
    BY <1>0, <1>1 DEF Start, Accept, CallType, callVars
  <2> QED
    BY <2>2, <2>3, <2>4, <2>5 DEF TypeInv, TypeOK
<1>2. CASE StartFails(c)
  <2>1. owner + 1 \in Job
    BY <1>0, <1>2 DEF StartFails, MayStart, Job
  <2> DEFINE e1 == Entry(nextIndex, owner + 1, "STARTING")
             e2 == Entry(nextIndex + 1, owner + 1, "FAILED")
             q1 == Pushed(events, e1)
  <2>2. /\ e1 \in Event /\ e2 \in Event
        /\ events \in Seq(Event) /\ nextIndex \in Nat /\ dropped \in Nat
    BY <1>0, <2>1 DEF EventType, Entry, Event, State, Active, Terminal, Job
  <2>3. q1 \in Seq(Event) /\ Len(q1) <= MaxEvents /\ Lost(events) \in {0, 1}
    BY <1>0, <2>2, PushedIsQueue
  <2>4. /\ Pushed(q1, e2) \in Seq(Event) /\ Len(Pushed(q1, e2)) <= MaxEvents
        /\ Lost(q1) \in {0, 1}
    BY <2>2, <2>3, PushedIsQueue
  <2>5. /\ events' = Pushed(q1, e2)
        /\ dropped' = dropped + Lost(events) + Lost(q1)
        /\ nextIndex' = nextIndex + 2
    BY <1>2 DEF StartFails
  <2> HIDE DEF q1, e1, e2
  <2>6. EventType' /\ Len(events') <= MaxEvents
    BY <1>0, <1>2, <2>2, <2>3, <2>4, <2>5 DEF EventType, StartFails, readerVars
  <2>7. OwnerType'
    <3>1. /\ owner' = owner + 1 /\ thread' = 0 /\ state' = "FAILED"
          /\ result' = "none" /\ issue' = TRUE /\ lastError' = TRUE
          /\ cleanupError' = FALSE /\ closed' = closed
      BY <1>2 DEF StartFails, Accept
    <3>2. owner' \in 0..MaxJobs /\ thread' \in 0..MaxJobs
      BY <1>0, <2>1, <3>1 DEF Job
    <3>3. /\ issue' \in BOOLEAN /\ lastError' \in BOOLEAN
          /\ cleanupError' \in BOOLEAN /\ closed' \in BOOLEAN
      BY <1>0, <3>1 DEF OwnerType
    <3> QED
      BY <3>1, <3>2, <3>3 DEF OwnerType, State, Terminal
  <2>8. JobType'
    BY <1>0, <1>2, <2>1 DEF StartFails, JobType
  <2>9. CallType' /\ owner' # 0
    BY <1>0, <1>2 DEF StartFails, Accept, CallType, callVars
  <2> QED
    BY <2>6, <2>7, <2>8, <2>9 DEF TypeInv, TypeOK
<1>3. CASE RequestCancel(c)
  <2>1. /\ EventType' /\ Len(events') <= MaxEvents
        /\ cancelled' \subseteq Job /\ state' \in State
        /\ state' # "IDLE" => owner # 0
    BY <1>3, CancelType DEF RequestCancel
  <2> QED
    BY <1>0, <1>3, <2>1
    DEF RequestCancel, TypeInv, TypeOK, OwnerType, JobType, CallType, callVars
<1>4. CASE DrainEvents(c)
  <2>1. EventType' /\ Len(events') <= MaxEvents
    <3>1. Len(events) \in Nat /\ events \in Seq(Event) /\ events # <<>>
      BY <1>0, <1>4, LenProperties DEF DrainEvents, EventType
    <3>2. Len(events) \in 1..Len(events)
      BY <3>1, EmptySeq
    <3>3. events[Len(events)] \in Event
      BY <3>1, <3>2, ElementOfSeq
    <3>4. <<>> \in Seq(Event) /\ Len(<<>>) = 0 /\ 0 <= MaxEvents
      BY EmptySeq, WorkerAssumption
    <3> QED
      BY <1>0, <1>4, <3>1, <3>3, <3>4 DEF DrainEvents, EventType
  <2> QED
    BY <1>0, <1>4, <2>1
    DEF DrainEvents, TypeInv, TypeOK, OwnerType, JobType, CallType, ownerVars, jobVars, callVars
<1>5. CASE CallJoin(c)
  BY <1>0, <1>5 DEF CallJoin, TypeInv, TypeOK, OwnerType, EventType, JobType, CallType,
                    ownerVars, jobVars, eventVars, readerVars
<1>6. CASE CallClose(c)
  BY <1>0, <1>6 DEF CallClose, TypeInv, TypeOK, OwnerType, EventType, JobType, CallType,
                    jobVars, eventVars, readerVars
<1>7. CASE CallerCancels(c)
  <2>1. /\ EventType' /\ Len(events') <= MaxEvents
        /\ cancelled' \subseteq Job /\ state' \in State
        /\ state' # "IDLE" => owner # 0
    BY <1>7, CancelType DEF CallerCancels
  <2> QED
    BY <1>0, <1>7, <2>1 DEF CallerCancels, TypeInv, TypeOK, OwnerType, JobType, CallType
<1>8. CASE JoinSnapshot(c) \/ JoinDeadline(c) \/ JoinCompleted(c)
  <2>1. CallType'
    <3>1. ASSUME NEW joined, Return(c, joined)
          PROVE  CallType'
      BY <1>0, <3>1 DEF Return, CallType
    <3>2. CASE JoinSnapshot(c) /\ thread # 0
      BY <1>0, <3>2 DEF JoinSnapshot, CallType
    <3> QED
      BY <1>8, <3>1, <3>2 DEF JoinSnapshot, JoinDeadline, JoinCompleted
  <2>2. UNCHANGED <<ownerVars, eventVars, readerVars, jobVars>>
    BY <1>8 DEF JoinSnapshot, JoinDeadline, JoinCompleted
  <2> QED
    BY <1>0, <2>1, <2>2 DEF TypeInv, TypeOK, OwnerType, EventType, JobType,
                            ownerVars, jobVars, eventVars, readerVars
<1> QED
  BY <1>1, <1>2, <1>3, <1>4, <1>5, <1>6, <1>7, <1>8 DEF CallerStep

\* What a finished job leaves has the right types.
LEMMA FinalTypes ==
    ASSUME JobType, NEW j \in Job
    PROVE  /\ FinalState(j) \in Terminal
           /\ FinalResult(j) \in Status \cup {"none"}
<1>1. FinalState(j) \in {"SUCCEEDED", "FAILED", "CANCELLED"}
  BY DEF FinalState
<1>2. out[j] \in Status \cup {"none"}
  BY DEF JobType
<1>3. FinalResult(j) \in Status \cup {"none"}
  BY <1>1, <1>2 DEF FinalResult, Status
<1> QED
  BY <1>1, <1>3 DEF Terminal

\* Every step of a job thread keeps the types.
LEMMA JobTypes ==
    ASSUME TypeInv, NEW j \in Job, JobStep(j)
    PROVE  TypeInv'
<1>0. /\ OwnerType /\ EventType /\ JobType /\ CallType /\ Len(events) <= MaxEvents
      /\ owner \in 0..MaxJobs /\ MaxJobs \in Nat
      /\ state # "IDLE" => owner # 0
      /\ \A i \in Job : pc[i] # "unborn" => owner # 0
  BY WorkerAssumption DEF TypeInv, TypeOK, OwnerType
<1>1. CASE \/ FactoryReturns(j) \/ FactoryFails(j) \/ Cleanup(j) \/ SetCompletion(j)
           \/ \E status \in Status : RunReturns(j, status)
           \/ \E kind \in {"cancelled", "failure"} : RunRaises(j, kind)
  <2>1. UNCHANGED <<ownerVars, eventVars, readerVars, callVars>>
    BY <1>1 DEF FactoryReturns, FactoryFails, Cleanup, SetCompletion, RunReturns, RunRaises
  <2>2. JobType'
    <3>1. CASE FactoryReturns(j)
      BY <1>0, <3>1 DEF FactoryReturns, JobType
    <3>2. CASE FactoryFails(j)
      BY <1>0, <3>2 DEF FactoryFails, JobType
    <3>3. CASE Cleanup(j)
      BY <1>0, <3>3 DEF Cleanup, JobType
    <3>4. CASE SetCompletion(j)
      BY <1>0, <3>4, WorkerAssumption DEF SetCompletion, JobType
    <3>5. CASE \E status \in Status : RunReturns(j, status)
      BY <1>0, <3>5 DEF RunReturns, JobType
    <3>6. CASE \E kind \in {"cancelled", "failure"} : RunRaises(j, kind)
      BY <1>0, <3>6 DEF RunRaises, JobType
    <3> QED
      BY <1>1, <3>1, <3>2, <3>3, <3>4, <3>5, <3>6
  <2>3. owner # 0
    <3>1. pc[j] # "unborn"
      BY <1>1 DEF FactoryReturns, FactoryFails, Cleanup, SetCompletion, RunReturns, RunRaises
    <3> QED
      BY <1>0, <3>1
  <2> QED
    BY <1>0, <2>1, <2>2, <2>3 DEF TypeInv, TypeOK, OwnerType, EventType, CallType,
                                  ownerVars, eventVars, readerVars, callVars
<1>2. CASE BeginRun(j)
  <2>1. owner # 0
    BY <1>0, <1>2 DEF BeginRun
  <2>2. EventType' /\ Len(events') <= MaxEvents /\ state' \in State
    <3>1. CASE j \in cancelled
      BY <1>0, <1>2, <3>1 DEF BeginRun, OwnerType, EventType, eventVars, readerVars
    <3>2. CASE j \notin cancelled
      <4>1. Publish(owner, "RUNNING") /\ state' = "RUNNING" /\ UNCHANGED readerVars
        BY <1>2, <3>2 DEF BeginRun
      <4> QED
        BY <1>0, <4>1, PublishType DEF State, Active
    <3> QED
      BY <3>1, <3>2
  <2>3. JobType'
    BY <1>0, <1>2 DEF BeginRun, JobType
  <2>4. UNCHANGED <<owner, thread, result, issue, lastError, cleanupError, closed, callVars>>
    BY <1>2 DEF BeginRun
  <2> QED
    BY <1>0, <2>1, <2>2, <2>3, <2>4 DEF TypeInv, TypeOK, OwnerType, CallType, callVars
<1>3. CASE Progress(j)
  <2>1. EventType' /\ Len(events') <= MaxEvents
    <3>1. Publish(j, state) /\ UNCHANGED readerVars /\ j \in 0..MaxJobs /\ state \in State
      BY <1>0, <1>3 DEF Progress, OwnerType, Job
    <3> QED
      BY <1>0, <3>1, PublishType
  <2>2. JobType'
    <3>1. reported[j] \in 0..MaxProgress /\ reported[j] < MaxProgress /\ MaxProgress \in Nat
      BY <1>0, <1>3, WorkerAssumption DEF Progress, JobType
    <3>2. reported[j] + 1 \in 0..MaxProgress
      BY <3>1
    <3> QED
      BY <1>0, <1>3, <3>2 DEF Progress, JobType
  <2> QED
    BY <1>0, <1>3, <2>1, <2>2 DEF Progress, TypeInv, TypeOK, OwnerType, CallType,
                                  ownerVars, callVars
<1>4. CASE FinishJob(j)
  <2>1. owner # 0
    BY <1>0, <1>4 DEF FinishJob
  <2>2. CASE owner # j
    BY <1>0, <1>4, <2>1, <2>2
    DEF FinishJob, TypeInv, TypeOK, OwnerType, EventType, JobType, CallType,
        eventVars, readerVars, callVars
  <2>3. CASE owner = j
    <3>1. /\ state' = FinalState(j) /\ result' = FinalResult(j)
          /\ issue' = (FinalState(j) = "FAILED")
          /\ lastError' = (error[j] # "none" \/ out[j] \in {"none", "ERROR"})
          /\ cleanupError' = (service[j] = "leaked")
          /\ Publish(j, FinalState(j))
          /\ UNCHANGED <<owner, thread, closed, readerVars, callVars>>
      BY <1>4, <2>3 DEF FinishJob
    <3>2. FinalState(j) \in State /\ FinalResult(j) \in Status \cup {"none"}
      BY <1>0, FinalTypes DEF State
    <3>3. EventType' /\ Len(events') <= MaxEvents
      BY <1>0, <2>3, <3>1, <3>2, PublishType
    <3>4. /\ issue' \in BOOLEAN /\ lastError' \in BOOLEAN /\ cleanupError' \in BOOLEAN
          /\ closed' \in BOOLEAN
      BY <1>0, <3>1 DEF OwnerType
    <3>5. JobType'
      BY <1>0, <1>4 DEF FinishJob, JobType
    <3>6. owner' \in 0..MaxJobs /\ thread' \in 0..MaxJobs
      BY <1>0, <3>1 DEF OwnerType
    <3>7. OwnerType'
      BY <3>1, <3>2, <3>4, <3>6 DEF OwnerType
    <3> QED
      BY <1>0, <2>1, <3>1, <3>3, <3>5, <3>7 DEF TypeInv, TypeOK, CallType, callVars
  <2> QED
    BY <2>2, <2>3
<1> QED
  BY <1>1, <1>2, <1>3, <1>4 DEF JobStep

\* The initial state has its types.
LEMMA TypeInit ==
    ASSUME Init
    PROVE  TypeInv
<1>1. MaxJobs \in Nat /\ MaxProgress \in Nat /\ 0 <= MaxEvents
  BY WorkerAssumption
<1>2. <<>> \in Seq(Event) /\ Len(<<>>) = 0
  BY EmptySeq
<1>3. NoEvent \in Event
  BY <1>1 DEF NoEvent, Event, State
<1>4. OwnerType
  <2>1. owner \in 0..MaxJobs /\ thread \in 0..MaxJobs
    BY <1>1 DEF Init
  <2>2. /\ issue \in BOOLEAN /\ lastError \in BOOLEAN /\ cleanupError \in BOOLEAN
        /\ closed \in BOOLEAN
    BY DEF Init
  <2> QED
    BY <2>1, <2>2 DEF Init, OwnerType, State
<1>5. JobType
  BY <1>1 DEF Init, JobType, Status
<1>6. CallType
  <2>1. watched \in [Caller -> 0..MaxJobs]
    BY <1>1 DEF Init
  <2>2. closeReturned \in BOOLEAN
    BY DEF Init
  <2> QED
    BY <2>1, <2>2 DEF Init, CallType
<1>7. EventType /\ Len(events) <= MaxEvents
  BY <1>1, <1>2, <1>3 DEF Init, EventType, NoEvent
<1>8. state = "IDLE" /\ \A j \in Job : pc[j] = "unborn"
  BY DEF Init
<1> QED
  BY <1>4, <1>5, <1>6, <1>7, <1>8 DEF TypeInv, TypeOK

\* Every step keeps the types.
LEMMA TypeStep ==
    ASSUME TypeInv, [Next]_vars
    PROVE  TypeInv'
<1>1. CASE UNCHANGED vars
  BY <1>1 DEF TypeInv, TypeOK, OwnerType, EventType, JobType, CallType,
              vars, ownerVars, eventVars, readerVars, jobVars, callVars
<1>2. CASE Next
  BY <1>2, CallerTypes, JobTypes DEF Next
<1> QED
  BY <1>1, <1>2

\* The types hold in every reachable state.
THEOREM TypeInvariant == Spec => []TypeInv
<1> QED
  BY TypeInit, TypeStep, PTL DEF Spec

\* Every reachable state of the worker has the shape TypeOK states, for any
\* callers, capacity and bounds.
THEOREM TypeCorrect == Spec => []TypeOK
<1>1. TypeInv => TypeOK
  BY DEF TypeInv
<1> QED
  BY <1>1, TypeInvariant, PTL

(***************************************************************************)
(* Verdicts.  What decides a verdict is the job that the worker records,   *)
(* so these facts need no assumption about starts: an abandoned thread may *)
(* still run, but it cannot give the recorded job another verdict.         *)
(***************************************************************************)

\* A job that was not accepted yet has no service.
FutureIsUnborn ==
    \A j \in Job : j > owner => pc[j] = "unborn" /\ service[j] = "absent"

\* No token of a job to come is set.
CancelledWereAccepted == \A j \in cancelled : j <= owner

\* A leak is the outcome of a cleanup, which comes after the run.
LeaksAreCleanups ==
    \A j \in Job : service[j] = "leaked" => pc[j] \in {"finish", "complete", "done"}

\* The thread of a job with a verdict is not between its run and its verdict,
\* and does not get there if it has yet to begin: nothing cancelled it.
EndedIsNotAtWork ==
    (state \in Terminal /\ owner # 0) =>
        /\ pc[owner] \notin {"run", "cleanup"}
        /\ pc[owner] \in {"factory", "begin"} => owner \notin cancelled

VerdictInv ==
    /\ TypeInv
    /\ FutureIsUnborn
    /\ CancelledWereAccepted
    /\ LeaksAreCleanups
    /\ EndedIsNotAtWork
    /\ CancelNeverSucceeds
    /\ LeakNeverHidden

\* Nothing was accepted initially.
LEMMA VerdictInit ==
    ASSUME Init
    PROVE  VerdictInv
<1>1. TypeInv
  BY TypeInit
<1>2. /\ \A j \in Job : pc[j] = "unborn" /\ service[j] = "absent"
      /\ state = "IDLE" /\ cancelled = {} /\ owner = 0
  BY DEF Init
<1> QED
  BY <1>1, <1>2
  DEF VerdictInv, FutureIsUnborn, CancelledWereAccepted, LeaksAreCleanups, EndedIsNotAtWork,
      CancelNeverSucceeds, LeakNeverHidden, Terminal

\* A step that leaves what a verdict is made of alone keeps the verdicts.
LEMMA QuietKeepsVerdicts ==
    ASSUME VerdictInv, TypeInv',
           UNCHANGED <<state, owner, result, issue, cleanupError, cancelled, pc, service>>
    PROVE  VerdictInv'
<1> QED
  BY DEF VerdictInv, FutureIsUnborn, CancelledWereAccepted, LeaksAreCleanups, EndedIsNotAtWork,
         CancelNeverSucceeds, LeakNeverHidden

\* A new job has nothing that could spoil its verdict, even one whose start
\* was interrupted while its thread had begun.
LEMMA StartKeepsVerdicts ==
    ASSUME VerdictInv, TypeInv', NEW c \in Caller, Start(c) \/ StartFails(c)
    PROVE  VerdictInv'
<1>1. /\ owner + 1 \in Job /\ owner \in Nat /\ Job \subseteq Nat
      /\ owner' = owner + 1 /\ UNCHANGED <<cancelled, service>>
      /\ cancelled \subseteq Job
      /\ pc \in [Job -> {"unborn", "factory", "begin", "run", "cleanup", "finish",
                         "complete", "done"}]
  BY WorkerAssumption
  DEF Start, StartFails, Accept, MayStart, Job, VerdictInv, TypeInv, TypeOK, OwnerType, JobType
<1>2. /\ pc[owner + 1] = "unborn" /\ service[owner + 1] = "absent"
      /\ owner + 1 \notin cancelled
  BY <1>1 DEF VerdictInv, FutureIsUnborn, CancelledWereAccepted
<1>3. PICK to \in {"factory", "done"} : pc' = [pc EXCEPT ![owner + 1] = to]
  BY DEF Start, StartFails
<1>4. state' \in {"STARTING", "FAILED"}
  BY DEF Start, StartFails
<1>5. FutureIsUnborn' /\ CancelledWereAccepted'
  BY <1>1, <1>3 DEF VerdictInv, FutureIsUnborn, CancelledWereAccepted
<1>6. LeaksAreCleanups'
  BY <1>1, <1>2, <1>3 DEF VerdictInv, LeaksAreCleanups
<1>7. EndedIsNotAtWork'
  BY <1>1, <1>2, <1>3 DEF EndedIsNotAtWork
<1>8. CancelNeverSucceeds' /\ LeakNeverHidden'
  BY <1>1, <1>2, <1>4 DEF CancelNeverSucceeds, LeakNeverHidden
<1> QED
  BY <1>5, <1>6, <1>7, <1>8 DEF VerdictInv

\* A worker that accepts a cancellation has no verdict to lose.
LEMMA CancelKeepsVerdicts ==
    ASSUME VerdictInv, TypeInv', CancelEffect,
           UNCHANGED <<owner, result, issue, cleanupError, pc, service>>
    PROVE  VerdictInv'
<1>1. CASE state \in {"STARTING", "RUNNING"}
  <2>1. state' = "CANCELLING" /\ cancelled' = cancelled \cup {owner} /\ owner \in Int
    BY <1>1, WorkerAssumption DEF CancelEffect, VerdictInv, TypeInv, TypeOK, OwnerType
  <2> QED
    BY <2>1
    DEF VerdictInv, FutureIsUnborn, CancelledWereAccepted, LeaksAreCleanups, EndedIsNotAtWork,
        CancelNeverSucceeds, LeakNeverHidden, Terminal
<1>2. CASE state \notin {"STARTING", "RUNNING"}
  <2>1. UNCHANGED <<cancelled, state>>
    BY <1>2 DEF CancelEffect
  <2> QED
    BY <2>1, QuietKeepsVerdicts
<1> QED
  BY <1>1, <1>2

\* A job thread at work moves on: towards its cleanup only with a worker that
\* is not at rest on it, unless nothing can cancel it.
LEMMA WorkKeepsVerdicts ==
    ASSUME VerdictInv, TypeInv', NEW j \in Job, pc[j] # "unborn",
           UNCHANGED <<owner, result, issue, cleanupError, cancelled>>,
           state' = state \/ state' \notin Terminal,
           \A i \in Job \ {j} : pc'[i] = pc[i] /\ service'[i] = service[i],
           service'[j] = "leaked" => service[j] = "leaked" \/ pc[j] = "cleanup",
           service'[j] = "leaked" => pc'[j] \in {"finish", "complete", "done"},
           pc'[j] \in {"factory", "begin"} => pc[j] \in {"factory", "begin"},
           pc'[j] = "run" => pc[j] = "run" \/ state' \notin Terminal,
           pc'[j] = "cleanup" =>
               pc[j] \in {"run", "cleanup"} \/ (pc[j] = "begin" /\ j \in cancelled)
    PROVE  VerdictInv'
<1>1. owner \in Nat /\ Job \subseteq Nat /\ (owner # 0 => owner \in Job)
  BY WorkerAssumption DEF VerdictInv, TypeInv, TypeOK, OwnerType, Job
<1>2. j <= owner
  BY <1>1 DEF VerdictInv, FutureIsUnborn
<1>3. FutureIsUnborn' /\ CancelledWereAccepted' /\ LeaksAreCleanups'
  BY <1>1, <1>2 DEF VerdictInv, FutureIsUnborn, CancelledWereAccepted, LeaksAreCleanups
<1>4. state' \in Terminal => state \in Terminal
  OBVIOUS
<1>5. EndedIsNotAtWork'
  BY <1>1, <1>4 DEF VerdictInv, EndedIsNotAtWork
<1>6. CancelNeverSucceeds'
  BY DEF VerdictInv, CancelNeverSucceeds, Terminal
<1>7. (state' \in Terminal /\ owner # 0 /\ service'[owner] = "leaked")
          => service[owner] = "leaked" /\ state' = state
  BY <1>1, <1>4 DEF VerdictInv, EndedIsNotAtWork
<1>8. LeakNeverHidden'
  BY <1>4, <1>7 DEF VerdictInv, LeakNeverHidden
<1> QED
  BY <1>3, <1>5, <1>6, <1>8 DEF VerdictInv

\* The verdict itself, by the precedence of _finish_job; that of a job that
\* the worker no longer records is not published.
LEMMA FinishKeepsVerdicts ==
    ASSUME VerdictInv, TypeInv', NEW j \in Job, FinishJob(j)
    PROVE  VerdictInv'
<1>1. /\ pc[j] = "finish" /\ pc' = [pc EXCEPT ![j] = "complete"]
      /\ UNCHANGED <<owner, cancelled, service>>
      /\ pc \in [Job -> {"unborn", "factory", "begin", "run", "cleanup", "finish",
                         "complete", "done"}]
  BY DEF FinishJob, VerdictInv, TypeInv, TypeOK, JobType
<1>2. CASE owner # j
  <2>1. UNCHANGED <<state, result, issue, cleanupError>>
    BY <1>2 DEF FinishJob
  <2> QED
    BY <1>1, <2>1, WorkKeepsVerdicts
<1>3. CASE owner = j
  <2>1. /\ state' = FinalState(j) /\ result' = FinalResult(j)
        /\ issue' = (FinalState(j) = "FAILED")
        /\ cleanupError' = (service[j] = "leaked")
    BY <1>3 DEF FinishJob
  <2>2. FutureIsUnborn' /\ CancelledWereAccepted'
    BY <1>1 DEF VerdictInv, FutureIsUnborn, CancelledWereAccepted
  <2>3. LeaksAreCleanups' /\ EndedIsNotAtWork'
    BY <1>1, <1>3 DEF VerdictInv, LeaksAreCleanups, EndedIsNotAtWork
  <2>4. CancelNeverSucceeds'
    BY <1>1, <1>3, <2>1 DEF EndsSucceeded, FinalState, FinalResult, CancelNeverSucceeds
  <2>5. LeakNeverHidden'
    <3>1. CASE service[j] = "leaked"
      <4>1. FinalState(j) = "FAILED"
        BY <3>1 DEF FinalState, EndsSucceeded, EndsCancelled
      <4>2. FinalResult(j) \in {"none", "ERROR"}
        BY <4>1 DEF FinalResult
      <4> QED
        BY <1>1, <1>3, <2>1, <3>1, <4>1, <4>2 DEF LeakNeverHidden
    <3>2. CASE service[j] # "leaked"
      BY <1>1, <1>3, <3>2 DEF LeakNeverHidden
    <3> QED
      BY <3>1, <3>2
  <2> QED
    BY <2>2, <2>3, <2>4, <2>5 DEF VerdictInv
<1> QED
  BY <1>2, <1>3

\* Every step of a job thread keeps the verdicts.
LEMMA JobKeepsVerdicts ==
    ASSUME VerdictInv, NEW j \in Job, JobStep(j)
    PROVE  VerdictInv'
<1>0. /\ TypeInv'
      /\ pc \in [Job -> {"unborn", "factory", "begin", "run", "cleanup", "finish",
                         "complete", "done"}]
      /\ service \in [Job -> {"absent", "held", "released", "leaked"}]
      /\ LeaksAreCleanups
  BY JobTypes DEF VerdictInv, TypeInv, TypeOK, JobType
<1>1. CASE FactoryReturns(j) \/ FactoryFails(j)
  BY <1>0, <1>1, WorkKeepsVerdicts DEF FactoryReturns, FactoryFails, ownerVars, LeaksAreCleanups
<1>2. CASE BeginRun(j)
  <2>1. pc[j] = "begin" /\ UNCHANGED <<owner, result, issue, cleanupError, cancelled, service>>
    BY <1>2 DEF BeginRun
  <2>2. \/ j \in cancelled /\ pc' = [pc EXCEPT ![j] = "cleanup"] /\ state' = state
        \/ pc' = [pc EXCEPT ![j] = "run"] /\ state' \notin Terminal
    BY <1>2 DEF BeginRun, Terminal
  <2> QED
    BY <1>0, <2>1, <2>2, WorkKeepsVerdicts DEF LeaksAreCleanups
<1>3. CASE Progress(j)
  BY <1>0, <1>3, QuietKeepsVerdicts DEF Progress, ownerVars
<1>4. CASE \/ \E status \in Status : RunReturns(j, status)
           \/ \E kind \in {"cancelled", "failure"} : RunRaises(j, kind)
  <2>1. /\ pc[j] = "run" /\ pc' = [pc EXCEPT ![j] = "cleanup"]
        /\ UNCHANGED <<state, owner, result, issue, cleanupError, cancelled, service>>
    BY <1>4 DEF RunReturns, RunRaises, ownerVars
  <2> QED
    BY <1>0, <2>1, WorkKeepsVerdicts DEF LeaksAreCleanups
<1>5. CASE Cleanup(j)
  BY <1>0, <1>5, WorkKeepsVerdicts DEF Cleanup, ownerVars
<1>6. CASE FinishJob(j)
  BY <1>0, <1>6, FinishKeepsVerdicts
<1>7. CASE SetCompletion(j)
  BY <1>0, <1>7, WorkKeepsVerdicts DEF SetCompletion, ownerVars
<1> QED
  BY <1>1, <1>2, <1>3, <1>4, <1>5, <1>6, <1>7 DEF JobStep

\* Every step keeps the verdicts, whatever hits a start.
LEMMA VerdictStep ==
    ASSUME VerdictInv, [Next]_vars
    PROVE  VerdictInv'
<1>0. TypeInv'
  BY TypeStep DEF VerdictInv
<1>1. CASE UNCHANGED vars
  BY <1>0, <1>1, QuietKeepsVerdicts DEF vars, ownerVars, jobVars
<1>2. ASSUME NEW c \in Caller, CallerStep(c)
      PROVE  VerdictInv'
  <2>1. CASE Start(c) \/ StartFails(c)
    BY <1>0, <2>1, StartKeepsVerdicts
  <2>2. CASE RequestCancel(c) \/ CallerCancels(c)
    BY <1>0, <2>2, CancelKeepsVerdicts DEF RequestCancel, CallerCancels
  <2>3. CASE CallClose(c)
    BY <1>0, <2>3, QuietKeepsVerdicts DEF CallClose, jobVars
  <2>4. CASE DrainEvents(c) \/ CallJoin(c) \/ JoinSnapshot(c) \/ JoinDeadline(c)
               \/ JoinCompleted(c)
    BY <1>0, <2>4, QuietKeepsVerdicts
    DEF DrainEvents, CallJoin, JoinSnapshot, JoinDeadline, JoinCompleted, ownerVars, jobVars
  <2> QED
    BY <1>2, <2>1, <2>2, <2>3, <2>4 DEF CallerStep
<1> QED
  BY <1>1, <1>2, JobKeepsVerdicts DEF Next

\* The verdict of a job follows the failure precedence, even when an interrupt
\* hits a start: an accepted cancellation never ends in success, a failed
\* cleanup always ends in failure.
THEOREM VerdictPrecedence == Spec => [](CancelNeverSucceeds /\ LeakNeverHidden)
<1>1. VerdictInv => CancelNeverSucceeds /\ LeakNeverHidden
  BY DEF VerdictInv
<1> QED
  BY <1>1, VerdictInit, VerdictStep, PTL DEF Spec

\* A failed cleanup is reported as a failure, whatever the service returned.
THEOREM LeaksAreReported == Spec => []LeakNeverHidden
<1> QED
  BY VerdictPrecedence, PTL

(***************************************************************************)
(* Ownership.  The strengthening says which job threads can                *)
(* be at work: with no interrupted start, only the last accepted job, and  *)
(* exactly while the worker is active.  Everything else follows from it.   *)
(***************************************************************************)

Live(j) == pc[j] \in {"factory", "begin", "run", "cleanup", "finish"}

\* A thread at work belongs to the job the worker records, and it is active.
LiveIsOwner == \A j \in Job : Live(j) => owner = j /\ thread = j /\ state \in Active

\* An active worker has a thread at work, which join will wait for.
ActiveIsLive == state \in Active => owner \in Job /\ Live(owner) /\ thread = owner

\* A service is held between the factory and the end of cleanup.
HeldWhileAtWork == \A j \in Job : Holding(j) => pc[j] \in {"begin", "run", "cleanup"}

\* A caller in close found the worker closed and waits for the last job.
ClosersWaitForLast ==
    /\ closing # {} => closed
    /\ closeReturned => closed
    /\ \A c \in closing : cpc[c] = "waiting" => watched[c] = owner

IInv ==
    /\ TypeInv
    /\ LiveIsOwner
    /\ ActiveIsLive
    /\ HeldWhileAtWork
    /\ FutureIsUnborn
    /\ ClosersWaitForLast
    /\ ClosedMeansStopped

\* The strengthening holds initially: nothing was accepted.
LEMMA IInvInit ==
    ASSUME Init
    PROVE  IInv
<1>1. TypeInv
  BY TypeInit
<1>2. /\ \A j \in Job : pc[j] = "unborn" /\ service[j] = "absent"
      /\ state = "IDLE" /\ closing = {} /\ closeReturned = FALSE
  BY DEF Init
<1> QED
  BY <1>1, <1>2
  DEF IInv, LiveIsOwner, Live, ActiveIsLive, Active, HeldWhileAtWork, Holding, FutureIsUnborn,
      ClosersWaitForLast, Terminal, ClosedMeansStopped

\* Starting a job: no thread was at work, so the new one is the only one.
LEMMA StartKeepsIInv ==
    ASSUME IInv, ~InterruptibleStart, NEW c \in Caller, Start(c) \/ StartFails(c), TypeInv'
    PROVE  IInv'
<1>1. /\ owner + 1 \in Job /\ owner \in 0..MaxJobs /\ MaxJobs \in Nat
      /\ ~closed /\ state \notin Active
  <2>1. owner \in 0..MaxJobs /\ MaxJobs \in Nat
    BY WorkerAssumption DEF IInv, TypeInv, TypeOK, OwnerType
  <2> QED
    BY <2>1 DEF Start, StartFails, MayStart, Job
<1>2. \A j \in Job : ~Live(j) /\ ~Holding(j)
  BY <1>1 DEF IInv, LiveIsOwner, HeldWhileAtWork, Live
<1>3. pc[owner + 1] = "unborn" /\ service[owner + 1] = "absent"
  BY <1>1 DEF IInv, FutureIsUnborn
<1>4. closing = {} /\ ~closeReturned
  BY <1>1 DEF IInv, ClosersWaitForLast
<1>5. /\ owner' = owner + 1 /\ UNCHANGED <<closed, cancelled, service, closing, closeReturned>>
      /\ pc \in [Job -> {"unborn", "factory", "begin", "run", "cleanup", "finish",
                         "complete", "done"}]
  BY DEF Start, StartFails, Accept, callVars, IInv, TypeInv, TypeOK, JobType
<1>6. CASE Start(c)
  <2>1. /\ thread' = owner + 1 /\ state' = "STARTING"
        /\ pc' = [pc EXCEPT ![owner + 1] = "factory"]
    BY <1>6 DEF Start
  <2>2. LiveIsOwner' /\ ActiveIsLive'
    BY <1>1, <1>2, <1>5, <2>1 DEF LiveIsOwner, ActiveIsLive, Live, Active
  <2>3. HeldWhileAtWork'
    BY <1>2, <1>5 DEF HeldWhileAtWork, Holding
  <2>4. FutureIsUnborn'
    BY <1>1, <1>5, <2>1 DEF FutureIsUnborn, IInv, Job
  <2>5. ClosersWaitForLast' /\ ClosedMeansStopped'
    BY <1>4, <1>5 DEF ClosersWaitForLast, ClosedMeansStopped
  <2> QED
    BY <2>2, <2>3, <2>4, <2>5 DEF IInv
<1>7. CASE StartFails(c)
  <2>1. state' = "FAILED" /\ pc' = [pc EXCEPT ![owner + 1] = "done"]
    <3>1. PICK began \in {FALSE, InterruptibleStart} :
             pc' = [pc EXCEPT ![owner + 1] = IF began THEN "factory" ELSE "done"]
      BY <1>7 DEF StartFails
    <3>2. ~began
      BY <3>1
    <3> QED
      BY <1>7, <3>1, <3>2 DEF StartFails
  <2>2. LiveIsOwner' /\ ActiveIsLive'
    BY <1>1, <1>2, <1>5, <2>1 DEF LiveIsOwner, ActiveIsLive, Live, Active
  <2>3. HeldWhileAtWork'
    BY <1>2, <1>5 DEF HeldWhileAtWork, Holding
  <2>4. FutureIsUnborn'
    BY <1>1, <1>5, <2>1 DEF FutureIsUnborn, IInv, Job
  <2>5. ClosersWaitForLast' /\ ClosedMeansStopped'
    BY <1>4, <1>5 DEF ClosersWaitForLast, ClosedMeansStopped
  <2> QED
    BY <2>2, <2>3, <2>4, <2>5 DEF IInv
<1> QED
  BY <1>6, <1>7

\* A cancellation changes an active state into CANCELLING, or nothing.
LEMMA CancelKeepsIInv ==
    ASSUME IInv, TypeInv', CancelEffect,
           UNCHANGED <<owner, thread, result, issue, lastError, cleanupError, closed,
                       pc, service, closing, watched, closeReturned>>,
           \A c \in closing : cpc'[c] = "waiting" => cpc[c] = "waiting"
    PROVE  IInv'
<1>1. CASE state \in {"STARTING", "RUNNING"}
  <2>1. state \in Active /\ state' = "CANCELLING"
    BY <1>1 DEF CancelEffect, Active
  <2>2. LiveIsOwner' /\ ActiveIsLive'
    BY <2>1 DEF IInv, LiveIsOwner, ActiveIsLive, Live, Active
  <2>3. HeldWhileAtWork' /\ FutureIsUnborn' /\ ClosersWaitForLast'
    BY DEF IInv, HeldWhileAtWork, Holding, FutureIsUnborn, ClosersWaitForLast
  <2>4. ~closeReturned
    BY <2>1 DEF IInv, ClosedMeansStopped
  <2>5. ClosedMeansStopped'
    BY <2>1, <2>4 DEF ClosedMeansStopped
  <2> QED
    BY <2>2, <2>3, <2>5 DEF IInv
<1>2. CASE state \notin {"STARTING", "RUNNING"}
  <2>1. UNCHANGED <<cancelled, state>>
    BY <1>2 DEF CancelEffect
  <2>2. LiveIsOwner' /\ ActiveIsLive' /\ HeldWhileAtWork' /\ FutureIsUnborn'
    BY <2>1 DEF IInv, LiveIsOwner, ActiveIsLive, Live, HeldWhileAtWork, Holding, FutureIsUnborn
  <2>3. ClosersWaitForLast' /\ ClosedMeansStopped'
    BY <2>1 DEF IInv, ClosersWaitForLast, ClosedMeansStopped, Holding
  <2> QED
    BY <2>2, <2>3 DEF IInv
<1> QED
  BY <1>1, <1>2

\* The other caller steps leave the worker and its jobs alone.
LEMMA CallKeepsIInv ==
    ASSUME IInv, TypeInv', NEW c \in Caller,
           UNCHANGED <<state, owner, thread, result, issue, lastError, cleanupError>>,
           UNCHANGED jobVars,
           closed => closed',
           ClosersWaitForLast', closeReturned' => closeReturned \/ state \notin Active
    PROVE  IInv'
<1>1. UNCHANGED <<cancelled, pc, service>>
  BY DEF jobVars
<1>2. LiveIsOwner' /\ ActiveIsLive' /\ HeldWhileAtWork' /\ FutureIsUnborn'
  BY <1>1 DEF IInv, LiveIsOwner, ActiveIsLive, Live, HeldWhileAtWork, Holding, FutureIsUnborn
<1>3. state \notin Active => \A j \in Job : ~Holding(j)
  BY DEF IInv, HeldWhileAtWork, LiveIsOwner, Live
<1>4. ClosedMeansStopped'
  BY <1>1, <1>3 DEF IInv, ClosedMeansStopped, Holding
<1> QED
  BY <1>2, <1>4 DEF IInv

\* Every caller step keeps the strengthening.
LEMMA CallerKeepsIInv ==
    ASSUME IInv, ~InterruptibleStart, NEW c \in Caller, CallerStep(c)
    PROVE  IInv'
<1>0. TypeInv /\ TypeInv'
  BY CallerTypes DEF IInv
<1>1. CASE Start(c) \/ StartFails(c)
  BY <1>0, <1>1, StartKeepsIInv
<1>2. CASE RequestCancel(c)
  BY <1>0, <1>2, CancelKeepsIInv DEF RequestCancel, callVars
<1>3. CASE CallerCancels(c)
  <2>1. \A d \in closing : cpc'[d] = "waiting" => cpc[d] = "waiting"
    BY <1>0, <1>3 DEF CallerCancels, TypeInv, TypeOK, CallType
  <2> QED
    BY <1>0, <1>3, <2>1, CancelKeepsIInv DEF CallerCancels
<1>4. CASE DrainEvents(c)
  <2>1. ClosersWaitForLast'
    BY <1>4 DEF DrainEvents, IInv, ClosersWaitForLast, ownerVars, callVars
  <2> QED
    BY <1>0, <1>4, <2>1, CallKeepsIInv DEF DrainEvents, ownerVars, callVars
<1>5. CASE CallJoin(c)
  <2>1. ClosersWaitForLast'
    <3>1. \A d \in Caller : cpc'[d] = "waiting" => cpc[d] = "waiting"
      BY <1>0, <1>5 DEF CallJoin, TypeInv, TypeOK, CallType
    <3>2. closing \subseteq Caller
      BY <1>0 DEF TypeInv, TypeOK, CallType
    <3> QED
      BY <1>5, <3>1, <3>2 DEF CallJoin, IInv, ClosersWaitForLast, ownerVars
  <2> QED
    BY <1>0, <1>5, <2>1, CallKeepsIInv DEF CallJoin, ownerVars
<1>6. CASE CallClose(c)
  <2>1. ClosersWaitForLast'
    <3>1. /\ \A d \in Caller : cpc'[d] = "waiting" => cpc[d] = "waiting" /\ d # c
          /\ closing \subseteq Caller
      BY <1>0, <1>6 DEF CallClose, TypeInv, TypeOK, CallType
    <3> QED
      BY <1>6, <3>1 DEF CallClose, IInv, ClosersWaitForLast
  <2> QED
    BY <1>0, <1>6, <2>1, CallKeepsIInv DEF CallClose
<1>7. CASE JoinSnapshot(c) /\ thread # 0
  <2>1. /\ cpc' = [cpc EXCEPT ![c] = "waiting"] /\ watched' = [watched EXCEPT ![c] = owner]
        /\ UNCHANGED <<closing, closeReturned, ownerVars, jobVars>>
    BY <1>7 DEF JoinSnapshot
  <2>2. ClosersWaitForLast'
    BY <1>0, <2>1 DEF IInv, ClosersWaitForLast, ownerVars, TypeInv, TypeOK, CallType
  <2> QED
    BY <1>0, <2>1, <2>2, CallKeepsIInv DEF ownerVars
<1>8. ASSUME NEW joined, Return(c, joined), UNCHANGED <<ownerVars, jobVars>>,
             joined /\ c \in closing => state \notin Active
      PROVE  IInv'
  <2>1. ClosersWaitForLast'
    <3>1. \A d \in Caller : cpc'[d] = "waiting" => cpc[d] = "waiting" /\ watched'[d] = watched[d]
      BY <1>0, <1>8 DEF Return, TypeInv, TypeOK, CallType
    <3>2. closing \subseteq Caller
      BY <1>0 DEF TypeInv, TypeOK, CallType
    <3> QED
      BY <1>8, <3>1, <3>2 DEF Return, IInv, ClosersWaitForLast, ownerVars
  <2>2. closeReturned' => closeReturned \/ state \notin Active
    BY <1>8 DEF Return
  <2> QED
    BY <1>0, <1>8, <2>1, <2>2, CallKeepsIInv DEF ownerVars
<1>9. CASE JoinSnapshot(c) /\ thread = 0
  <2>1. state \notin Active
    BY <1>0, <1>9 DEF IInv, ActiveIsLive, Job
  <2> QED
    BY <1>8, <1>9, <2>1 DEF JoinSnapshot
<1>10. CASE JoinDeadline(c)
  BY <1>8, <1>10 DEF JoinDeadline
<1>11. CASE JoinCompleted(c)
  <2>1. c \in closing => state \notin Active
    BY <1>11 DEF JoinCompleted, IInv, ClosersWaitForLast, ActiveIsLive, Live
  <2> QED
    BY <1>8, <1>11, <2>1 DEF JoinCompleted
<1> QED
  BY <1>1, <1>2, <1>3, <1>4, <1>5, <1>6, <1>7, <1>9, <1>10, <1>11 DEF CallerStep

\* Steps of a thread at work that stays at work: the worker's own variables,
\* the state excepted, stay as they are.
LEMMA WorkKeepsIInv ==
    ASSUME IInv, TypeInv', NEW j \in Job, Live(j), Live(j)',
           \A i \in Job \ {j} : pc'[i] = pc[i] /\ service'[i] = service[i],
           service'[j] = "held" => pc'[j] \in {"begin", "run", "cleanup"},
           state' \in Active,
           UNCHANGED <<owner, thread, closed, callVars>>
    PROVE  IInv'
<1>1. owner = j /\ thread = j /\ state \in Active /\ j \in 1..MaxJobs
  BY DEF IInv, LiveIsOwner, Job
<1>2. LiveIsOwner'
  BY <1>1 DEF IInv, LiveIsOwner, Live
<1>3. ActiveIsLive'
  BY <1>1 DEF ActiveIsLive
<1>4. HeldWhileAtWork'
  BY DEF IInv, HeldWhileAtWork, Holding
<1>5. FutureIsUnborn'
  BY <1>1 DEF IInv, FutureIsUnborn, Job
<1>6. ClosersWaitForLast'
  BY DEF IInv, ClosersWaitForLast, callVars
<1>7. ClosedMeansStopped'
  BY <1>1 DEF IInv, ClosedMeansStopped, callVars
<1> QED
  BY <1>2, <1>3, <1>4, <1>5, <1>6, <1>7 DEF IInv

\* Publishing the verdict: the service was released or leaked before, and the
\* worker is at rest with it.
LEMMA FinishKeepsIInv ==
    ASSUME IInv, TypeInv', NEW j \in Job, FinishJob(j)
    PROVE  IInv'
<1>0. /\ j \in 1..MaxJobs /\ owner \in 0..MaxJobs /\ MaxJobs \in Nat
      /\ pc \in [Job -> {"unborn", "factory", "begin", "run", "cleanup", "finish",
                         "complete", "done"}]
  BY WorkerAssumption DEF Job, IInv, TypeInv, TypeOK, OwnerType, JobType
<1>1. pc[j] = "finish" /\ Live(j)
  BY DEF FinishJob, Live
<1>2. owner = j /\ thread = j /\ state \in Active
  BY <1>1 DEF IInv, LiveIsOwner
<1>3. /\ state' = FinalState(j)
      /\ pc' = [pc EXCEPT ![j] = "complete"]
      /\ UNCHANGED <<owner, thread, closed, cancelled, service, callVars>>
  BY <1>2 DEF FinishJob
<1>4. FinalState(j) \in Terminal /\ state' \notin Active
  <2>1. FinalState(j) \in Terminal
    BY FinalTypes DEF IInv, TypeInv, TypeOK
  <2> QED
    BY <1>3, <2>1 DEF Terminal, Active
<1>5. \A i \in Job : ~Holding(i)
  BY <1>1, <1>2 DEF IInv, HeldWhileAtWork, LiveIsOwner, Live
<1>6. LiveIsOwner'
  BY <1>0, <1>2, <1>3 DEF IInv, LiveIsOwner, Live
<1>7. ActiveIsLive'
  BY <1>4 DEF ActiveIsLive
<1>8. HeldWhileAtWork' /\ ClosedMeansStopped'
  BY <1>3, <1>4, <1>5 DEF HeldWhileAtWork, Holding, ClosedMeansStopped
<1>9. FutureIsUnborn'
  BY <1>0, <1>2, <1>3 DEF IInv, FutureIsUnborn
<1>10. ClosersWaitForLast'
  BY <1>3 DEF IInv, ClosersWaitForLast, callVars
<1> QED
  BY <1>6, <1>7, <1>8, <1>9, <1>10 DEF IInv

\* Every step of a job thread keeps the strengthening.
LEMMA JobKeepsIInv ==
    ASSUME IInv, NEW j \in Job, JobStep(j)
    PROVE  IInv'
<1>0. /\ TypeInv'
      /\ pc \in [Job -> {"unborn", "factory", "begin", "run", "cleanup", "finish",
                         "complete", "done"}]
      /\ service \in [Job -> {"absent", "held", "released", "leaked"}]
      /\ HeldWhileAtWork /\ LiveIsOwner
  BY JobTypes DEF IInv, TypeInv, TypeOK, JobType
<1>1. Live(j) => state \in Active
  BY <1>0 DEF LiveIsOwner
<1>2. CASE FactoryReturns(j)
  <2>1. Live(j) /\ Live(j)' /\ state' \in Active
    BY <1>0, <1>1, <1>2 DEF FactoryReturns, Live, ownerVars
  <2> QED
    BY <1>0, <1>2, <2>1, WorkKeepsIInv DEF FactoryReturns, ownerVars
<1>3. CASE FactoryFails(j)
  <2>1. Live(j) /\ Live(j)' /\ state' \in Active /\ service'[j] # "held"
    BY <1>0, <1>1, <1>3 DEF FactoryFails, Live, ownerVars, HeldWhileAtWork, Holding
  <2> QED
    BY <1>0, <1>3, <2>1, WorkKeepsIInv DEF FactoryFails, ownerVars
<1>4. CASE BeginRun(j)
  <2>1. Live(j) /\ Live(j)' /\ state' \in Active /\ pc'[j] \in {"run", "cleanup"}
    BY <1>0, <1>1, <1>4 DEF BeginRun, Live, Active
  <2>2. \A i \in Job \ {j} : pc'[i] = pc[i] /\ service'[i] = service[i]
    BY <1>0, <1>4 DEF BeginRun
  <2> QED
    BY <1>0, <1>4, <2>1, <2>2, WorkKeepsIInv DEF BeginRun
<1>5. CASE Progress(j)
  <2>1. Live(j) /\ Live(j)' /\ state' \in Active /\ UNCHANGED <<pc, service>>
    BY <1>0, <1>1, <1>5 DEF Progress, Live, ownerVars
  <2> QED
    BY <1>0, <1>5, <2>1, WorkKeepsIInv DEF Progress, ownerVars, HeldWhileAtWork, Holding
<1>6. CASE \/ \E status \in Status : RunReturns(j, status)
           \/ \E kind \in {"cancelled", "failure"} : RunRaises(j, kind)
  <2>1. /\ pc[j] = "run" /\ pc' = [pc EXCEPT ![j] = "cleanup"]
        /\ UNCHANGED <<ownerVars, service, callVars>>
    BY <1>6 DEF RunReturns, RunRaises
  <2>2. Live(j) /\ Live(j)' /\ state' \in Active
    BY <1>0, <1>1, <2>1 DEF Live, ownerVars
  <2> QED
    BY <1>0, <2>1, <2>2, WorkKeepsIInv DEF ownerVars
<1>7. CASE Cleanup(j)
  <2>1. Live(j) /\ Live(j)' /\ state' \in Active /\ service'[j] # "held"
    BY <1>0, <1>1, <1>7 DEF Cleanup, Live, ownerVars
  <2>2. \A i \in Job \ {j} : pc'[i] = pc[i] /\ service'[i] = service[i]
    BY <1>0, <1>7 DEF Cleanup
  <2> QED
    BY <1>0, <1>7, <2>1, <2>2, WorkKeepsIInv DEF Cleanup, ownerVars
<1>8. CASE FinishJob(j)
  BY <1>0, <1>8, FinishKeepsIInv
<1>9. CASE SetCompletion(j)
  <2>1. /\ pc[j] = "complete" /\ pc' = [pc EXCEPT ![j] = "done"]
        /\ UNCHANGED <<ownerVars, service, cancelled, callVars>>
    BY <1>9 DEF SetCompletion
  <2>2. UNCHANGED <<state, owner, thread, result, issue, cleanupError, closed>>
    BY <2>1 DEF ownerVars
  <2>3. LiveIsOwner' /\ ActiveIsLive'
    BY <1>0, <2>1, <2>2 DEF IInv, LiveIsOwner, ActiveIsLive, Live
  <2>4. HeldWhileAtWork'
    BY <1>0, <2>1, <2>2 DEF HeldWhileAtWork, Holding
  <2>5. FutureIsUnborn'
    BY <1>0, <2>1, <2>2 DEF IInv, FutureIsUnborn
  <2>6. ClosersWaitForLast' /\ ClosedMeansStopped'
    BY <2>1, <2>2 DEF IInv, ClosersWaitForLast, ClosedMeansStopped, Holding, callVars
  <2> QED
    BY <1>0, <2>3, <2>4, <2>5, <2>6 DEF IInv
<1> QED
  BY <1>2, <1>3, <1>4, <1>5, <1>6, <1>7, <1>8, <1>9 DEF JobStep

\* The strengthening is inductive.
LEMMA IInvStep ==
    ASSUME IInv, ~InterruptibleStart, [Next]_vars
    PROVE  IInv'
<1>1. CASE UNCHANGED vars
  <2>1. TypeInv'
    BY <1>1, TypeStep DEF IInv
  <2>2. UNCHANGED ownerVars /\ UNCHANGED jobVars /\ UNCHANGED callVars
    BY <1>1 DEF vars
  <2>3. UNCHANGED <<state, owner, thread, closed, pc, service, cpc, closing, watched,
                    closeReturned>>
    BY <2>2 DEF ownerVars, jobVars, callVars
  <2> QED
    BY <2>1, <2>3
    DEF IInv, LiveIsOwner, Live, ActiveIsLive, HeldWhileAtWork, Holding, FutureIsUnborn,
        ClosersWaitForLast, ClosedMeansStopped
<1>2. CASE Next
  BY <1>2, CallerKeepsIInv, JobKeepsIInv DEF Next
<1> QED
  BY <1>1, <1>2

\* The strengthening holds in every reachable state when no interrupt hits a
\* start.
THEOREM InductiveInvariant ==
    ASSUME ~InterruptibleStart
    PROVE  Spec => []IInv
<1> QED
  BY IInvInit, IInvStep, PTL DEF Spec

\* Resource ownership is exclusive when no interrupt hits a start.
THEOREM ExclusiveOwnership ==
    ASSUME ~InterruptibleStart
    PROVE  Spec => [](SingleService /\ QuietMeansReleased)
<1>1. IInv => SingleService /\ QuietMeansReleased
  BY DEF IInv, HeldWhileAtWork, LiveIsOwner, Live, SingleService, QuietMeansReleased
<1> QED
  BY <1>1, InductiveInvariant, PTL

\* A worker at rest, idle or terminal, holds no resources.
THEOREM QuietWorkersHoldNothing ==
    ASSUME ~InterruptibleStart
    PROVE  Spec => []QuietMeansReleased
<1> QED
  BY ExclusiveOwnership, PTL

\* After a close returned, the worker never holds a resource again.
THEOREM CloseIsFinal ==
    ASSUME ~InterruptibleStart
    PROVE  Spec => []ClosedMeansStopped
<1>1. IInv => ClosedMeansStopped
  BY DEF IInv
<1> QED
  BY <1>1, InductiveInvariant, PTL

\* No step rewrites the verdict of a finished job.
THEOREM VerdictsAreStable ==
    ASSUME ~InterruptibleStart
    PROVE  Spec => VerdictStable
<1> DEFINE Keeps == (state \in Terminal /\ owner' = owner)
                      => UNCHANGED <<state, result, issue, lastError, cleanupError>>
<1>1. ASSUME IInv, Next, state \in Terminal, owner' = owner
      PROVE  UNCHANGED <<state, result, issue, lastError, cleanupError>>
  <2>1. state \notin Active /\ state \notin {"STARTING", "RUNNING"}
    BY <1>1 DEF Terminal, Active
  <2>2. \A j \in Job : ~Live(j)
    BY <1>1, <2>1 DEF IInv, LiveIsOwner
  <2>3. owner \in 0..MaxJobs /\ MaxJobs \in Nat
    BY <1>1, WorkerAssumption DEF IInv, TypeInv, TypeOK, OwnerType
  <2>4. ASSUME NEW j \in Job, JobStep(j)
        PROVE  UNCHANGED <<state, result, issue, lastError, cleanupError>>
    <3>1. SetCompletion(j)
      BY <2>2, <2>4 DEF JobStep, Live, FactoryReturns, FactoryFails, BeginRun, Progress,
                        RunReturns, RunRaises, Cleanup, FinishJob
    <3> QED
      BY <3>1 DEF SetCompletion, ownerVars
  <2>5. ASSUME NEW c \in Caller, CallerStep(c)
        PROVE  UNCHANGED <<state, result, issue, lastError, cleanupError>>
    <3>1. ~Start(c) /\ ~StartFails(c)
      BY <1>1, <2>3 DEF Start, StartFails, Accept
    <3>2. CASE RequestCancel(c) \/ CallerCancels(c)
      BY <2>1, <3>2 DEF RequestCancel, CallerCancels, CancelEffect
    <3>3. CASE CallClose(c)
      BY <3>3 DEF CallClose
    <3>4. CASE DrainEvents(c) \/ CallJoin(c) \/ JoinSnapshot(c) \/ JoinDeadline(c)
                 \/ JoinCompleted(c)
      BY <3>4 DEF DrainEvents, CallJoin, JoinSnapshot, JoinDeadline, JoinCompleted, ownerVars
    <3> QED
      BY <2>5, <3>1, <3>2, <3>3, <3>4 DEF CallerStep
  <2> QED
    BY <1>1, <2>4, <2>5 DEF Next
<1>2. IInv /\ [Next]_vars => [Keeps]_vars
  BY <1>1
<1>3. Spec => [][Keeps]_vars
  BY <1>2, InductiveInvariant, PTL DEF Spec
<1> QED
  BY <1>3 DEF VerdictStable

(***************************************************************************)
(* The event queue of the worker.  These facts need no assumption about    *)
(* starts: they follow from what is published while the lock is held.      *)
(***************************************************************************)

\* What one publication does to the accounts and to the latest event.
LEMMA PublishAccounts ==
    ASSUME TypeInv, EventAccounting, NEW j \in 0..MaxJobs, NEW s \in State,
           Publish(j, s), UNCHANGED readerVars
    PROVE  /\ EventAccounting'
           /\ events' # <<>>
           /\ events'[Len(events')] = Entry(nextIndex, j, s)
<1> DEFINE entry == Entry(nextIndex, j, s)
<1>1. /\ events \in Seq(Event) /\ nextIndex \in Nat /\ dropped \in Nat /\ drained \in Nat
      /\ entry \in Event /\ entry.index = nextIndex
  BY DEF TypeInv, TypeOK, EventType, Entry, Event
<1>2. /\ events' = Pushed(events, entry) /\ dropped' = dropped + Lost(events)
      /\ nextIndex' = nextIndex + 1 /\ drained' = drained
  BY DEF Publish, readerVars
<1>3. /\ Len(events) <= MaxEvents /\ nextIndex = 1 + drained + dropped + Len(events)
      /\ Contiguous(events, nextIndex) /\ Len(events) \in Nat
  BY <1>1, LenProperties DEF EventAccounting
<1> HIDE DEF entry
<1>4. /\ Pushed(events, entry) \in Seq(Event)
      /\ Lost(events) \in {0, 1}
      /\ Len(Pushed(events, entry)) = Len(events) + 1 - Lost(events)
      /\ Len(Pushed(events, entry)) <= MaxEvents
      /\ Pushed(events, entry) # <<>>
      /\ Pushed(events, entry)[Len(Pushed(events, entry))] = entry
  BY <1>1, <1>3, PushedIsQueue
<1>5. Contiguous(Pushed(events, entry), nextIndex + 1)
  BY <1>1, <1>3, PushedIsContiguous
<1>6. nextIndex' = 1 + drained' + dropped' + Len(events')
  <2> DEFINE lost == Lost(events)
             size == Len(events)
             grown == Len(events')
  <2>1. grown = size + 1 - lost /\ size \in Int /\ lost \in Int
    BY <1>2, <1>3, <1>4
  <2>2. dropped' = dropped + lost /\ nextIndex = 1 + drained + dropped + size
    BY <1>2, <1>3
  <2> HIDE DEF lost, size, grown
  <2>3. nextIndex + 1 = 1 + drained + (dropped + lost) + grown
    BY <1>1, <2>1, <2>2
  <2>4. nextIndex + 1 = 1 + drained + (dropped + lost) + Len(events')
    BY <2>3 DEF grown
  <2> QED
    BY <1>2, <2>2, <2>4
<1>7. EventAccounting'
  BY <1>2, <1>4, <1>5, <1>6 DEF EventAccounting, Contiguous
<1> QED
  BY <1>2, <1>4, <1>7 DEF entry

EventInv == TypeInv /\ EventAccounting /\ LatestEventTellsState

\* A step that publishes the state it leaves keeps the latest event current.
LEMMA PublishKeepsLatest ==
    ASSUME TypeInv, EventAccounting, TypeInv',
           Publish(owner', state'), UNCHANGED readerVars
    PROVE  EventInv'
<1>1. owner' \in 0..MaxJobs /\ state' \in State
  BY DEF TypeInv, TypeOK, OwnerType
<1>2. /\ EventAccounting' /\ events' # <<>>
      /\ events'[Len(events')] = Entry(nextIndex, owner', state')
  BY <1>1, PublishAccounts
<1> QED
  BY <1>2 DEF EventInv, LatestEventTellsState, Entry

\* A step that leaves the queue, the job and the state alone keeps them agreeing.
LEMMA QuietKeepsEvents ==
    ASSUME EventInv, TypeInv', UNCHANGED <<owner, state, eventVars, readerVars>>
    PROVE  EventInv'
BY DEF EventInv, EventAccounting, Contiguous, LatestEventTellsState, eventVars, readerVars

\* A cancellation publishes the state it leaves, or nothing.
LEMMA CancelKeepsEvents ==
    ASSUME EventInv, TypeInv', CancelEffect, UNCHANGED <<owner, readerVars>>
    PROVE  EventInv'
<1>1. CASE state \in {"STARTING", "RUNNING"}
  <2>1. Publish(owner', state')
    BY <1>1 DEF CancelEffect
  <2> QED
    BY <2>1, PublishKeepsLatest DEF EventInv
<1>2. CASE state \notin {"STARTING", "RUNNING"}
  BY <1>2, QuietKeepsEvents DEF CancelEffect
<1> QED
  BY <1>1, <1>2

\* A failed start publishes two events under one lock.
LEMMA StartFailsKeepsEvents ==
    ASSUME EventInv, TypeInv', NEW c \in Caller, StartFails(c)
    PROVE  EventInv'
<1> DEFINE e1 == Entry(nextIndex, owner + 1, "STARTING")
           e2 == Entry(nextIndex + 1, owner + 1, "FAILED")
           q1 == Pushed(events, e1)
<1>1. owner + 1 \in 0..MaxJobs
  <2>1. owner \in 0..MaxJobs /\ MaxJobs \in Nat
    BY WorkerAssumption DEF EventInv, TypeInv, TypeOK, OwnerType
  <2> QED
    BY <2>1 DEF StartFails, MayStart
<1>2. /\ e1 \in Event /\ e2 \in Event /\ e1.index = nextIndex /\ e2.index = nextIndex + 1
      /\ e2.job = owner + 1 /\ e2.state = "FAILED"
      /\ events \in Seq(Event) /\ nextIndex \in Nat /\ dropped \in Nat /\ drained \in Nat
  BY <1>1 DEF EventInv, TypeInv, TypeOK, EventType, Entry, Event, State, Active, Terminal
<1>3. /\ events' = Pushed(q1, e2) /\ dropped' = dropped + Lost(events) + Lost(q1)
      /\ nextIndex' = nextIndex + 2 /\ drained' = drained
      /\ owner' = owner + 1 /\ state' = "FAILED"
  BY DEF StartFails, Accept, readerVars
<1>4. /\ Len(events) <= MaxEvents /\ nextIndex = 1 + drained + dropped + Len(events)
      /\ Contiguous(events, nextIndex) /\ Len(events) \in Nat
  BY <1>2, LenProperties DEF EventInv, EventAccounting
<1>5. /\ q1 \in Seq(Event) /\ Len(q1) <= MaxEvents /\ Lost(events) \in {0, 1}
      /\ Len(q1) = Len(events) + 1 - Lost(events) /\ Contiguous(q1, nextIndex + 1)
  BY <1>2, <1>4, PushedIsQueue, PushedIsContiguous
<1> HIDE DEF q1, e1, e2
<1>6. /\ Pushed(q1, e2) \in Seq(Event) /\ Len(Pushed(q1, e2)) <= MaxEvents
      /\ Lost(q1) \in {0, 1} /\ Len(Pushed(q1, e2)) = Len(q1) + 1 - Lost(q1)
      /\ Pushed(q1, e2) # <<>> /\ Pushed(q1, e2)[Len(Pushed(q1, e2))] = e2
  BY <1>2, <1>5, PushedIsQueue
<1>7. Contiguous(Pushed(q1, e2), nextIndex + 1 + 1)
  <2>1. nextIndex + 1 \in Nat
    BY <1>2
  <2> QED
    BY <1>2, <1>5, <2>1, PushedIsContiguous
<1>8. nextIndex' = 1 + drained' + dropped' + Len(events') /\ nextIndex' = nextIndex + 1 + 1
  <2> DEFINE lost1 == Lost(events)
             lost2 == Lost(q1)
             size0 == Len(events)
             size1 == Len(q1)
             size2 == Len(Pushed(q1, e2))
  <2>1. /\ size0 \in Int /\ lost1 \in Int /\ lost2 \in Int
        /\ size1 = size0 + 1 - lost1 /\ size2 = size1 + 1 - lost2
        /\ nextIndex = 1 + drained + dropped + size0
    BY <1>4, <1>5, <1>6
  <2> HIDE DEF lost1, lost2, size0, size1, size2
  <2>2. /\ nextIndex + 2 = 1 + drained + (dropped + lost1 + lost2) + size2
        /\ nextIndex + 2 = nextIndex + 1 + 1
    BY <1>2, <2>1
  <2>3. nextIndex + 2 = 1 + drained + (dropped + Lost(events) + Lost(q1)) + Len(Pushed(q1, e2))
    BY <2>2 DEF lost1, lost2, size2
  <2> QED
    BY <1>3, <2>2, <2>3
<1>9. EventAccounting'
  BY <1>3, <1>6, <1>7, <1>8 DEF EventAccounting, Contiguous
<1> QED
  BY <1>2, <1>3, <1>6, <1>9 DEF EventInv, LatestEventTellsState

\* Every step keeps the accounts and the latest event.
LEMMA EventStep ==
    ASSUME EventInv, [Next]_vars
    PROVE  EventInv'
<1>0. TypeInv /\ TypeInv' /\ EventAccounting
  BY TypeStep DEF EventInv
<1>1. CASE UNCHANGED vars
  BY <1>0, <1>1, QuietKeepsEvents DEF vars, ownerVars
<1>2. ASSUME NEW j \in Job, JobStep(j)
      PROVE  EventInv'
  <2>1. CASE \/ FactoryReturns(j) \/ FactoryFails(j) \/ Cleanup(j) \/ SetCompletion(j)
             \/ \E status \in Status : RunReturns(j, status)
             \/ \E kind \in {"cancelled", "failure"} : RunRaises(j, kind)
    <3>1. UNCHANGED ownerVars /\ UNCHANGED eventVars /\ UNCHANGED readerVars
      BY <2>1 DEF FactoryReturns, FactoryFails, Cleanup, SetCompletion, RunReturns, RunRaises
    <3> QED
      BY <1>0, <3>1, QuietKeepsEvents DEF ownerVars
  <2>2. CASE BeginRun(j)
    <3>1. CASE j \in cancelled
      BY <1>0, <2>2, <3>1, QuietKeepsEvents DEF BeginRun
    <3>2. CASE j \notin cancelled
      BY <1>0, <2>2, <3>2, PublishKeepsLatest DEF BeginRun
    <3> QED
      BY <3>1, <3>2
  <2>3. CASE Progress(j)
    <3>1. Publish(j, state) /\ owner = j /\ UNCHANGED ownerVars /\ UNCHANGED readerVars
      BY <2>3 DEF Progress, ProgressAllowed
    <3>2. owner' = j /\ state' = state
      BY <3>1 DEF ownerVars
    <3>3. Publish(owner', state')
      BY <3>1, <3>2
    <3> QED
      BY <1>0, <3>1, <3>3, PublishKeepsLatest
  <2>4. CASE FinishJob(j)
    <3>1. CASE owner # j
      BY <1>0, <2>4, <3>1, QuietKeepsEvents DEF FinishJob
    <3>2. CASE owner = j
      BY <1>0, <2>4, <3>2, PublishKeepsLatest DEF FinishJob
    <3> QED
      BY <3>1, <3>2
  <2> QED
    BY <1>2, <2>1, <2>2, <2>3, <2>4 DEF JobStep
<1>3. ASSUME NEW c \in Caller, CallerStep(c)
      PROVE  EventInv'
  <2>1. CASE Start(c)
    BY <1>0, <2>1, PublishKeepsLatest DEF Start, Accept
  <2>2. CASE StartFails(c)
    BY <1>0, <2>2, StartFailsKeepsEvents
  <2>3. CASE RequestCancel(c) \/ CallerCancels(c)
    BY <1>0, <2>3, CancelKeepsEvents DEF RequestCancel, CallerCancels
  <2>4. CASE DrainEvents(c)
    <3>1. /\ events # <<>> /\ drained' = drained + Len(events) /\ events' = <<>>
          /\ lastDrained' = events[Len(events)]
          /\ UNCHANGED <<owner, state, nextIndex, dropped>>
      BY <2>4 DEF DrainEvents, ownerVars
    <3>2. /\ Len(events) \in Nat /\ Len(<<>>) = 0 /\ 0 <= MaxEvents
          /\ nextIndex \in Nat /\ dropped \in Nat /\ drained \in Nat
      BY <1>0, LenProperties, EmptySeq, WorkerAssumption DEF TypeInv, TypeOK, EventType
    <3>3. EventAccounting'
      BY <1>0, <3>1, <3>2 DEF EventAccounting, Contiguous
    <3> QED
      BY <1>0, <3>1, <3>3 DEF EventInv, LatestEventTellsState
  <2>5. CASE CallJoin(c) \/ JoinSnapshot(c) \/ JoinDeadline(c) \/ JoinCompleted(c)
    <3>1. UNCHANGED ownerVars /\ UNCHANGED eventVars /\ UNCHANGED readerVars
      BY <2>5 DEF CallJoin, JoinSnapshot, JoinDeadline, JoinCompleted
    <3> QED
      BY <1>0, <3>1, QuietKeepsEvents DEF ownerVars
  <2>6. CASE CallClose(c)
    BY <1>0, <2>6, QuietKeepsEvents DEF CallClose
  <2> QED
    BY <1>3, <2>1, <2>2, <2>3, <2>4, <2>5, <2>6 DEF CallerStep
<1> QED
  BY <1>1, <1>2, <1>3 DEF Next

\* The event queue accounts for every event, and whoever has drained it knows
\* the current state of the current job, whatever the capacity.
THEOREM EventQueueCorrect == Spec => [](EventAccounting /\ LatestEventTellsState)
<1>1. ASSUME Init
      PROVE  EventInv
  <2>1. <<>> \in Seq(Event) /\ Len(<<>>) = 0 /\ 0 <= MaxEvents
    BY EmptySeq, WorkerAssumption
  <2> QED
    <3>1. owner = 0 /\ events = <<>> /\ nextIndex = 1 /\ drained = 0 /\ dropped = 0
      BY <1>1 DEF Init
    <3>2. EventAccounting
      BY <2>1, <3>1 DEF EventAccounting, Contiguous
    <3> QED
      BY <1>1, <3>1, <3>2, TypeInit DEF EventInv, LatestEventTellsState
<1>2. EventInv => EventAccounting /\ LatestEventTellsState
  BY DEF EventInv
<1> QED
  BY <1>1, <1>2, EventStep, PTL DEF Spec

\* The latest event, queued or drained, carries the worker's job and state.
THEOREM LatestEventIsCurrent == Spec => []LatestEventTellsState
<1> QED
  BY EventQueueCorrect, PTL

=============================================================================
