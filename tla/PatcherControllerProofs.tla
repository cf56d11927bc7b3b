---------------------- MODULE PatcherControllerProofs ----------------------
(* Proofs about PatcherController, for every number of runs, both front    *)
(* ends and every assignment of phases to steps: the types; the protocol   *)
(* between the threads, with its inductive invariant StepProtocol; the way *)
(* of a stop request through the two threads; the thread of a wizard's     *)
(* run; and that a run keeps what PatchRun promises.                       *)
EXTENDS PatcherController, SequenceTheorems, FiniteSetTheorems, TLAPS

-----------------------------------------------------------------------------
(* Facts about the data                                                    *)

(* Every action list is a non-empty sequence of steps.                     *)
LEMMA BuildActionListType ==
  ASSUME NEW a \in BOOLEAN, NEW i \in BOOLEAN
  PROVE  /\ BuildActionList(a, i) \in Seq(Steps)
         /\ BuildActionList(a, i) # <<>>
<1> DEFINE A == IF a THEN <<"checkArchives">> ELSE <<>>
           B == IF i THEN <<"checkImage">> ELSE <<>>
           S == <<"initialize", "rebuildArchives", "replaceArchives">>
           F == <<"finalize">>
<1>1. S \in Seq(Steps) /\ F \in Seq(Steps) /\ Len(F) = 1
  BY DEF Steps
<1>2. A \in Seq(Steps)
  <2>1. CASE a
    BY <2>1 DEF Steps
  <2>2. CASE ~a
    BY <2>2, EmptySeq
  <2> QED BY <2>1, <2>2
<1>3. B \in Seq(Steps)
  <2>1. CASE i
    BY <2>1 DEF Steps
  <2>2. CASE ~i
    BY <2>2, EmptySeq
  <2> QED BY <2>1, <2>2
<1>4. BuildActionList(a, i) = ((S \o A) \o B) \o F
  BY DEF BuildActionList
<1> HIDE DEF S, A, B, F
<1>5. S \o A \in Seq(Steps)
  BY <1>1, <1>2, ConcatProperties
<1> DEFINE T == (S \o A) \o B
<1>6. T \in Seq(Steps)
  BY <1>3, <1>5, ConcatProperties
<1>7. BuildActionList(a, i) = T \o F
  BY <1>4
<1> HIDE DEF T
<1>8. T \o F \in Seq(Steps) /\ Len(T \o F) = Len(T) + Len(F)
  BY <1>1, <1>6, ConcatProperties
<1>9. Len(T \o F) # 0
  BY <1>1, <1>6, <1>8, LenProperties
<1> QED
  BY <1>7, <1>8, <1>9, EmptySeq

(* A call is an event for its thread.                                      *)
LEMMA CallTypes ==
  /\ \A op \in WorkerOps, g \in Gens \cup {NoGen} : Call(op, g) \in Events(WorkerOps)
  /\ \A op \in GuiOps, g \in Gens \cup {NoGen} : Call(op, g) \in Events(GuiOps)
  BY DEF Call, Event, Events, NoListener, Listeners, NoGen, NoStep

(* What the first event of a queue is, and what remains.                   *)
LEMMA QueueTypes ==
  ASSUME QueueTypeOK
  PROVE  /\ guiQ # <<>> => /\ Head(guiQ).gen \in Gens \cup {NoGen}
                           /\ Tail(guiQ) \in Seq(Events(GuiOps))
         /\ wq # <<>> => /\ Head(wq).gen \in Gens \cup {NoGen}
                         /\ Head(wq).op \in WorkerOps
                         /\ Head(wq).lis \in Listeners
                         /\ Tail(wq) \in Seq(Events(WorkerOps))
<1>1. guiQ \in Seq(Events(GuiOps)) /\ wq \in Seq(Events(WorkerOps))
  BY DEF QueueTypeOK
<1>2. guiQ # <<>> => Head(guiQ) \in Events(GuiOps) /\ Tail(guiQ) \in Seq(Events(GuiOps))
  BY <1>1, HeadTailProperties
<1>3. wq # <<>> => Head(wq) \in Events(WorkerOps) /\ Tail(wq) \in Seq(Events(WorkerOps))
  BY <1>1, HeadTailProperties
<1> QED BY <1>2, <1>3 DEF Events

LEMMA ListenerTypes ==
  /\ NoListener \in Listeners
  /\ \A l \in Listeners : l[1] \in Gens \cup {NoGen}
<1>1. NoListener \in Listeners
  BY DEF NoListener, Listeners, NoGen, NoStep
<1>2. ASSUME NEW l \in Listeners PROVE l[1] \in Gens \cup {NoGen}
  BY DEF Listeners
<1> QED BY <1>1, <1>2

LEMMA ListenerType ==
  ASSUME WorkTypeOK, wPc # "loop"
  PROVE  Listener \in Listeners
  BY DEF WorkTypeOK, Listeners, Listener

(* Recording an assertion keeps the type of the record.                    *)
LEMMA FaultTypes ==
  ASSUME faults \in SUBSET FaultNames, NEW name \in FaultNames, NEW c \in BOOLEAN
  PROVE  faults \cup Broken(c, name) \in SUBSET FaultNames
  BY DEF Broken

-----------------------------------------------------------------------------
(* Types                                                                   *)

LEMMA GuiTypeStep ==
  ASSUME TypeOK, GuiLoop \/ ForwardStop \/ EndWait \/ User
  PROVE  TypeOK'
<1> USE DEF TypeOK
<1>1. guiQ # <<>> => /\ Head(guiQ).gen \in Gens \cup {NoGen}
                     /\ Tail(guiQ) \in Seq(Events(GuiOps))
  BY QueueTypes
<1>2. /\ Call("deleteLater", gen) \in Events(WorkerOps)
      /\ Call("finalizeInternal", gen) \in Events(WorkerOps)
      /\ Call("requestStop", gen) \in Events(WorkerOps)
      /\ \A op \in Steps, g \in Gens \cup {NoGen} : Call(op, g) \in Events(WorkerOps)
  BY CallTypes DEF WorkerOps, StopOps, GuiTypeOK
<1>3. /\ faults \in SUBSET FaultNames
      /\ \A c \in BOOLEAN : /\ faults \cup Broken(c, "finish") \in SUBSET FaultNames
                            /\ faults \cup Broken(c, "processStep") \in SUBSET FaultNames
                            /\ faults \cup Broken(c, "requestStop") \in SUBSET FaultNames
                            /\ faults \cup Broken(c, "forwardStop") \in SUBSET FaultNames
      /\ \A c, d \in BOOLEAN :
           faults \cup Broken(c, "start") \cup Broken(d, "startedTwice") \in SUBSET FaultNames
      /\ faults \cup {"reset"} \in SUBSET FaultNames
      /\ IsRunning \in BOOLEAN /\ (gen \in alive) \in BOOLEAN /\ (guiSeen \in live) \in BOOLEAN
  BY DEF HistoryTypeOK, FaultNames, Broken, IsRunning
<1>4. ASSUME UNCHANGED <<thread, alive, doomed, workVars>> PROVE WorkTypeOK'
  BY <1>4 DEF workVars, WorkTypeOK
<1>5. ASSUME UNCHANGED noteVars PROVE NoteTypeOK'
  BY <1>5 DEF noteVars, NoteTypeOK
<1>6. ASSUME NEW queue \in Seq(Events(WorkerOps)), Finish(queue)
      PROVE  wq' \in Seq(Events(WorkerOps)) /\ faults' \in SUBSET FaultNames /\ started' \in BOOLEAN
  <2>1. faults' \in SUBSET FaultNames
    BY <1>6 DEF Finish, Broken, HistoryTypeOK, FaultNames
  <2>2. wq' = Append(queue, Call("deleteLater", gen)) /\ started' = FALSE
    BY <1>6, Zenon DEF Finish
  <2>3. Append(queue, Call("deleteLater", gen)) \in Seq(Events(WorkerOps))
    BY <1>2
  <2>4. started' \in BOOLEAN
    BY <2>2
  <2> QED BY <2>1, <2>2, <2>3, <2>4
<1>7. ASSUME ProcessCancel
      PROVE  /\ wq' \in Seq(Events(WorkerOps)) /\ faults' \in SUBSET FaultNames /\ started' \in BOOLEAN
             /\ outcome' = "canceled" /\ modal' \in {"none", "cancelQuestion", "canceledBox"}
             /\ UNCHANGED <<steps, currentStep>>
  <2> DEFINE queue == Append(wq, Call("finalizeInternal", gen))
  <2>1. queue \in Seq(Events(WorkerOps))
    BY <1>2 DEF QueueTypeOK
  <2>2. CASE Finish(queue) /\ UNCHANGED modal
    BY <1>6, <1>7, <2>1, <2>2 DEF ProcessCancel, GuiTypeOK
  <2>3. CASE modal' = "canceledBox" /\ wq' = queue /\ UNCHANGED <<started, faults>>
    BY <1>3, <1>7, <2>1, <2>3 DEF ProcessCancel, GuiTypeOK
  <2> QED BY <1>7, <2>2, <2>3 DEF ProcessCancel
<1>8. CASE OnStepCompleted
  <2>1. guiQ' \in Seq(Events(GuiOps))
    BY <1>1, <1>8 DEF OnStepCompleted, GuiTakes
  <2>2. WorkTypeOK' /\ NoteTypeOK'
    BY <1>4, <1>5, <1>8 DEF OnStepCompleted
  <2>3. CASE ProcessCancel
    BY <1>7, <1>8, <2>1, <2>2, <2>3 DEF OnStepCompleted, GuiTypeOK, QueueTypeOK, HistoryTypeOK
  <2>4. CASE /\ steps # <<>> /\ ProcessStep(gen, steps, wq)
             /\ faults' = faults \cup Broken(IsRunning, "processStep")
             /\ UNCHANGED <<started, outcome, modal>>
    <3>1. Head(steps) \in Steps /\ Tail(steps) \in Seq(Steps)
      BY <2>4, HeadTailProperties DEF GuiTypeOK
    <3>2. QueueTypeOK'
      BY <1>2, <2>1, <2>4, <3>1 DEF ProcessStep, QueueTypeOK, GuiTypeOK
    <3>3. GuiTypeOK'
      BY <1>8, <2>4, <3>1 DEF OnStepCompleted, ProcessStep, GuiTypeOK
    <3>4. HistoryTypeOK'
      BY <1>3, <1>8, <2>4 DEF OnStepCompleted, HistoryTypeOK
    <3> QED BY <2>2, <3>2, <3>3, <3>4
  <2>5. CASE Finish(wq) /\ outcome' = "completed" /\ UNCHANGED <<steps, currentStep, modal>>
    BY <1>6, <1>8, <2>1, <2>2, <2>5 DEF OnStepCompleted, GuiTypeOK, QueueTypeOK, HistoryTypeOK
  <2> QED BY <1>8, <2>3, <2>4, <2>5 DEF OnStepCompleted
<1>9. CASE OnStepFailed
  <2>1. guiQ' \in Seq(Events(GuiOps))
    BY <1>1, <1>9 DEF OnStepFailed, GuiTakes
  <2>2. WorkTypeOK' /\ NoteTypeOK'
    BY <1>4, <1>5, <1>9 DEF OnStepFailed
  <2>3. CASE ProcessCancel
    BY <1>7, <1>9, <2>1, <2>2, <2>3 DEF OnStepFailed, GuiTypeOK, QueueTypeOK, HistoryTypeOK
  <2>4. CASE Finish(wq) /\ outcome' = "failed" /\ UNCHANGED <<steps, currentStep, modal>>
    BY <1>6, <1>9, <2>1, <2>2, <2>4 DEF OnStepFailed, GuiTypeOK, QueueTypeOK, HistoryTypeOK
  <2> QED BY <1>9, <2>3, <2>4 DEF OnStepFailed
<1>10. CASE OnQuit
  BY <1>1, <1>10 DEF OnQuit, GuiTakes, guiVars, workVars, noteVars,
                     GuiTypeOK, QueueTypeOK, WorkTypeOK, NoteTypeOK, HistoryTypeOK
<1>11. CASE OnNotifierStop
  <2>1. guiQ' \in Seq(Events(GuiOps)) /\ Head(guiQ).gen \in Gens \cup {NoGen} /\ guiPc = "loop"
    BY <1>1, <1>11 DEF OnNotifierStop, GuiTakes
  <2>2. WorkTypeOK' /\ HistoryTypeOK' /\ QueueTypeOK'
    BY <1>4, <1>11, <2>1 DEF OnNotifierStop, HistoryTypeOK, QueueTypeOK
  <2>3. CASE Head(guiQ).gen \in alive
    <3> DEFINE g == Head(guiQ).gen
    <3>1. g \in Gens
      BY <2>3 DEF WorkTypeOK
    <3>2. NoteTypeOK'
      BY <1>11, <2>3, <3>1 DEF OnNotifierStop, NoteTypeOK
    <3>3. guiSeen' \in Listeners /\ guiPc' \in {"loop", "forwardStop"}
      BY <1>11, <2>3, <3>1 DEF OnNotifierStop, NoteTypeOK
    <3> QED BY <1>11, <2>2, <3>2, <3>3 DEF OnNotifierStop, GuiTypeOK
  <2>4. CASE Head(guiQ).gen \notin alive
    BY <1>11, <2>2, <2>4 DEF OnNotifierStop, GuiTypeOK, NoteTypeOK
  <2> QED BY <2>3, <2>4
<1>12. CASE ForwardStop
  <2>1. Event("listenerStop", guiSeen[1], guiSeen) \in Events(WorkerOps)
    BY ListenerTypes DEF Event, Events, WorkerOps, StopOps, GuiTypeOK
  <2>2. GuiTypeOK'
    BY <1>12, ListenerTypes DEF ForwardStop, GuiTypeOK
  <2>3. QueueTypeOK'
    BY <1>12, <2>1 DEF ForwardStop, QueueTypeOK
  <2> QED BY <1>3, <1>4, <1>5, <1>12, <2>2, <2>3 DEF ForwardStop, HistoryTypeOK
<1>13. ASSUME NEW g \in Gens, NEW list \in Seq(Steps), list # <<>>, StartRun(g, list), alive' \in SUBSET Gens
      PROVE  TypeOK'
  <2>1. Head(list) \in Steps /\ Tail(list) \in Seq(Steps)
    BY <1>13, HeadTailProperties
  <2>2. Call(Head(list), g) \in Events(WorkerOps)
    BY <1>2, <2>1
  <2>3. QueueTypeOK'
    BY <1>13, <2>2 DEF StartRun, ProcessStep, QueueTypeOK
  <2>4. GuiTypeOK'
    BY <1>13, <2>1 DEF StartRun, ProcessStep, GuiTypeOK
  <2>5. HistoryTypeOK'
    BY <1>3, <1>13, EmptySeq DEF StartRun, HistoryTypeOK, GuiTypeOK
  <2>6. WorkTypeOK' /\ NoteTypeOK'
    BY <1>5, <1>13 DEF StartRun, WorkTypeOK, workVars
  <2> QED BY <2>3, <2>4, <2>5, <2>6
<1>14. CASE EndWait
  <2>1. gen \in Gens /\ alive' \in SUBSET Gens
    BY <1>14 DEF EndWait, GuiTypeOK, WorkTypeOK
  <2> QED BY <1>13, <1>14, <2>1, BuildActionListType DEF EndWait
<1>15. CASE Start
  <2>1. gen + 1 \in Gens
    BY <1>15, MaxRunsAssumption DEF Start, Gens, NoGen, GuiTypeOK
  <2>2. alive' \in SUBSET Gens
    BY <1>15, <2>1 DEF Start, WorkTypeOK
  <2>3. CASE ~IsRunning
    BY <1>13, <1>15, <2>1, <2>2, <2>3, BuildActionListType DEF Start
  <2>4. CASE IsRunning
    <3>1. GuiTypeOK'
      BY <1>15, <2>1, <2>4 DEF Start, GuiTypeOK
    <3>2. QueueTypeOK' /\ NoteTypeOK' /\ HistoryTypeOK'
      BY <1>3, <1>5, <1>15, <2>4 DEF Start, QueueTypeOK, HistoryTypeOK
    <3>3. WorkTypeOK'
      BY <1>15, <2>2, <2>4 DEF Start, WorkTypeOK, workVars
    <3> QED BY <3>1, <3>2, <3>3
  <2> QED BY <2>3, <2>4
<1>16. ASSUME RequestStop
       PROVE  /\ wq' \in Seq(Events(WorkerOps)) /\ faults' \in SUBSET FaultNames
              /\ stopRequested' = TRUE
  <2>1. faults' \in SUBSET FaultNames
    BY <1>16 DEF RequestStop, Broken, HistoryTypeOK, FaultNames
  <2> QED BY <1>2, <1>16, <2>1 DEF RequestStop, QueueTypeOK
<1>17. CASE PressStop
  BY <1>4, <1>5, <1>16, <1>17 DEF PressStop, GuiTypeOK, QueueTypeOK, HistoryTypeOK
<1>18. CASE PressCancel
  BY <1>4, <1>5, <1>18 DEF PressCancel, GuiTypeOK, QueueTypeOK, HistoryTypeOK
<1>19. CASE AnswerCancel
  <2>1. wq' \in Seq(Events(WorkerOps)) /\ faults' \in SUBSET FaultNames /\ stopRequested' \in BOOLEAN
    BY <1>3, <1>16, <1>19 DEF AnswerCancel, QueueTypeOK, GuiTypeOK
  <2> QED BY <1>4, <1>5, <1>19, <2>1 DEF AnswerCancel, GuiTypeOK, QueueTypeOK, HistoryTypeOK
<1>20. CASE CloseCanceledBox
  BY <1>4, <1>5, <1>6, <1>20 DEF CloseCanceledBox, GuiTypeOK, QueueTypeOK, HistoryTypeOK
<1> QED
  BY <1>8, <1>9, <1>10, <1>11, <1>12, <1>14, <1>15, <1>17, <1>18, <1>19, <1>20 DEF User, GuiLoop

LEMMA WorkerTypeStep ==
  ASSUME TypeOK, Work \/ AbortPhase \/ NestedDeliverStop \/ WorkerLoop
  PROVE  TypeOK'
<1> USE DEF TypeOK
<1>1. wq # <<>> => /\ Head(wq).gen \in Gens \cup {NoGen}
                   /\ Head(wq).op \in WorkerOps
                   /\ Head(wq).lis \in Listeners
                   /\ Tail(wq) \in Seq(Events(WorkerOps))
  BY QueueTypes
<1>2. \A op \in GuiOps, g \in Gens \cup {NoGen} : Call(op, g) \in Events(GuiOps)
  BY CallTypes
<1>3. ASSUME UNCHANGED guiVars PROVE GuiTypeOK'
  BY <1>3 DEF guiVars, GuiTypeOK
<1>4. ASSUME UNCHANGED <<log, faults>> PROVE HistoryTypeOK'
  BY <1>4 DEF HistoryTypeOK
<1>5. CASE LoopDeliverStop \/ NestedDeliverStop
  <2>1. DeliverStop
    BY <1>5 DEF LoopDeliverStop, NestedDeliverStop
  <2>2. Call("notifierStop", Head(wq).gen) \in Events(GuiOps)
    BY <1>1, <1>2, <2>1 DEF DeliverStop, GuiOps
  <2>3. QueueTypeOK'
    BY <1>1, <2>1, <2>2, SMTT(30) DEF DeliverStop, QueueTypeOK
  <2>4. NoteTypeOK'
    BY <1>1, <2>1 DEF DeliverStop, NoteTypeOK
  <2> QED BY <1>3, <1>4, <2>1, <2>3, <2>4 DEF DeliverStop, WorkTypeOK, workVars
<1>6. CASE BeginStep
  <2>1. WorkTypeOK'
    BY <1>1, <1>6 DEF BeginStep, WorkTypeOK, workVars
  <2>2. NoteTypeOK' /\ QueueTypeOK'
    BY <1>1, <1>6, ListenerTypes DEF BeginStep, NoteTypeOK, QueueTypeOK
  <2> QED BY <1>3, <1>4, <1>6, <2>1, <2>2 DEF BeginStep
<1>7. ASSUME NEW r \in Results, wPc # "loop", EndStep(r), UNCHANGED <<thread, alive, doomed, wq, faults>>
      PROVE  QueueTypeOK' /\ HistoryTypeOK' /\ WorkTypeOK'
  <2>1. Call(r, wGen) \in Events(GuiOps)
    BY <1>2, <1>7 DEF GuiOps, Results, WorkTypeOK
  <2>2. wStep \in Steps
    BY <1>7 DEF WorkTypeOK
  <2>3. QueueTypeOK'
    BY <1>7, <2>1 DEF EndStep, QueueTypeOK
  <2>4. HistoryTypeOK'
    BY <1>7, <2>2 DEF EndStep, HistoryTypeOK
  <2> QED BY <1>7, <2>3, <2>4 DEF EndStep, WorkTypeOK
<1>8. ASSUME UNCHANGED noteVars PROVE NoteTypeOK'
  BY <1>8 DEF noteVars, NoteTypeOK
<1>9. CASE CompleteStep
  BY <1>3, <1>7, <1>8, <1>9 DEF CompleteStep, Results
<1>10. CASE FailStep
  BY <1>3, <1>7, <1>8, <1>10 DEF FailStep, Results
<1>11. CASE BindListener
  <2>1. Listener \in Listeners
    BY <1>11, ListenerType DEF BindListener
  <2>2. NoteTypeOK'
    BY <1>11, <2>1 DEF BindListener, NoteTypeOK
  <2> QED BY <1>3, <1>4, <1>11, <2>2 DEF BindListener, QueueTypeOK, WorkTypeOK
<1>12. CASE OpenPhase \/ EnterQuietPhase
  BY <1>3, <1>4, <1>8, <1>12 DEF OpenPhase, EnterQuietPhase, QueueTypeOK, WorkTypeOK
<1>13. ASSUME DropListener PROVE live' \in SUBSET Listeners /\ lStop' \in SUBSET Listeners
  BY <1>13 DEF DropListener, NoteTypeOK
<1>14. ASSUME LeavePhase, UNCHANGED nStop PROVE NoteTypeOK' /\ wPc = "run"
  BY <1>13, <1>14, ListenerTypes DEF LeavePhase, NoteTypeOK
<1>15. CASE FailOpen
  <2>1. NoteTypeOK'
    BY <1>13, <1>15, ListenerTypes DEF FailOpen, NoteTypeOK
  <2> QED BY <1>3, <1>7, <1>15, <2>1 DEF FailOpen, Results
<1>16. CASE FinishPhase
  BY <1>3, <1>4, <1>14, <1>16 DEF FinishPhase, QueueTypeOK, WorkTypeOK
<1>17. CASE FailPhase
  BY <1>3, <1>7, <1>14, <1>17 DEF FailPhase, Results
<1>18. CASE AbortPhase
  BY <1>3, <1>7, <1>14, <1>18 DEF AbortPhase, Results
<1>19. CASE DeliverEnd
  <2>1. WorkTypeOK'
    BY <1>1, <1>19 DEF DeliverEnd, WorkTypeOK, workVars
  <2> QED BY <1>1, <1>3, <1>4, <1>8, <1>19, <2>1 DEF DeliverEnd, QueueTypeOK
<1>20. CASE DestroyWorker
  <2>1. Call("quit", NoGen) \in Events(GuiOps)
    BY <1>2 DEF GuiOps
  <2>2. QueueTypeOK' /\ NoteTypeOK'
    BY <1>20, <2>1 DEF DestroyWorker, QueueTypeOK, NoteTypeOK
  <2>3. WorkTypeOK'
    BY <1>20 DEF DestroyWorker, WorkTypeOK, workVars
  <2> QED BY <1>3, <1>4, <1>20, <2>2, <2>3 DEF DestroyWorker
<1>21. CASE ExitThread
  BY <1>3, <1>4, <1>8, <1>21 DEF ExitThread, QueueTypeOK, WorkTypeOK, workVars
<1> QED
  BY <1>5, <1>6, <1>9, <1>10, <1>11, <1>12, <1>15, <1>16, <1>17, <1>18, <1>19, <1>20, <1>21
     DEF Work, WorkerLoop

LEMMA TypeCorrectInit == Init => TypeOK
<1> SUFFICES ASSUME Init PROVE TypeOK
  OBVIOUS
<1>1. NoteTypeOK
  BY ListenerTypes DEF Init, NoteTypeOK
<1>2. QueueTypeOK /\ HistoryTypeOK
  BY EmptySeq DEF Init, QueueTypeOK, HistoryTypeOK
<1>3. GuiTypeOK /\ WorkTypeOK
  BY EmptySeq, ListenerTypes DEF Init, GuiTypeOK, WorkTypeOK, NoGen, NoStep
<1> QED
  BY <1>1, <1>2, <1>3 DEF TypeOK

LEMMA TypeCorrectStep == TypeOK /\ [Next]_vars => TypeOK'
<1> SUFFICES ASSUME TypeOK, [Next]_vars PROVE TypeOK'
  OBVIOUS
<1>1. CASE UNCHANGED vars
  BY <1>1 DEF vars, guiVars, workVars, noteVars,
              TypeOK, GuiTypeOK, QueueTypeOK, WorkTypeOK, NoteTypeOK, HistoryTypeOK
<1> QED BY <1>1, GuiTypeStep, WorkerTypeStep DEF Next

(* Every variable keeps its type: the queues of both threads hold only     *)
(* events that their thread knows how to deliver.                          *)
THEOREM TypeCorrect == Safe => []TypeOK
  BY TypeCorrectInit, TypeCorrectStep, PTL DEF Safe

-----------------------------------------------------------------------------
(* Queues                                                                  *)

(* What an event appended to a queue changes.                              *)
LEMMA AppendQueue ==
  ASSUME NEW S, NEW q \in Seq(S), NEW e \in S
  PROVE  /\ Queued(Append(q, e)) = Queued(q) \cup {e}
         /\ \A ops : AtMostOne(q, ops) /\ (HasOp(q, ops) => e.op \notin ops)
                       => AtMostOne(Append(q, e), ops)
         /\ OnlyStopsBehindSteps(q) /\ (HasOp(q, Steps) => e.op \in StopOps)
              => OnlyStopsBehindSteps(Append(q, e))
<1> DEFINE r == Append(q, e)
           n == Len(q)
<1>1. /\ n \in Nat /\ DOMAIN q = 1 .. n
      /\ DOMAIN r = 1 .. n + 1
      /\ \A i \in 1 .. n : r[i] = q[i]
      /\ r[n + 1] = e
  BY AppendProperties, LenProperties
<1> HIDE DEF r, n
<1>2. Queued(r) = Queued(q) \cup {e}
  <2>1. \A x \in Queued(r) : x \in Queued(q) \cup {e}
    BY <1>1 DEF Queued
  <2>2. \A x \in Queued(q) : x \in Queued(r)
    BY <1>1 DEF Queued
  <2>3. e \in Queued(r)
    BY <1>1 DEF Queued
  <2> QED BY <2>1, <2>2, <2>3
<1>3. ASSUME NEW ops, AtMostOne(q, ops), HasOp(q, ops) => e.op \notin ops
      PROVE  AtMostOne(r, ops)
  <2>1. \A i \in 1 .. n : q[i].op \in ops => e.op \notin ops
    BY <1>1, <1>3 DEF HasOp, Queued
  <2> QED BY <1>1, <1>3, <2>1 DEF AtMostOne
<1>4. ASSUME OnlyStopsBehindSteps(q), HasOp(q, Steps) => e.op \in StopOps
      PROVE  OnlyStopsBehindSteps(r)
  <2>1. \A i \in 1 .. n : q[i].op \in Steps => e.op \in StopOps
    BY <1>1, <1>4 DEF HasOp, Queued
  <2> QED BY <1>1, <1>4, <2>1 DEF OnlyStopsBehindSteps
<1> QED BY <1>2, <1>3, <1>4 DEF r

(* What taking the first event of a queue leaves.                          *)
LEMMA TakeQueue ==
  ASSUME NEW S, NEW q \in Seq(S), q # <<>>
  PROVE  /\ Queued(q) = {Head(q)} \cup Queued(Tail(q))
         /\ \A ops : AtMostOne(q, ops) => /\ AtMostOne(Tail(q), ops)
                                          /\ Head(q).op \in ops => ~HasOp(Tail(q), ops)
         /\ OnlyStopsBehindSteps(q) => /\ OnlyStopsBehindSteps(Tail(q))
                                       /\ Head(q).op \in Steps => OnlyOps(Tail(q), StopOps)
<1> DEFINE r == Tail(q)
           n == Len(q)
<1>1. /\ n \in Nat /\ n > 0 /\ DOMAIN q = 1 .. n
      /\ DOMAIN r = 1 .. n - 1
      /\ \A i \in 1 .. n - 1 : r[i] = q[i + 1]
      /\ Head(q) = q[1]
  <2>1. n \in Nat \ {0} /\ DOMAIN q = 1 .. n
    BY EmptySeq, LenProperties
  <2>2. r \in Seq(S) /\ Len(r) = n - 1 /\ \A i \in 1 .. Len(r) : r[i] = q[i + 1]
    BY HeadTailProperties
  <2>3. DOMAIN r = 1 .. n - 1
    BY <2>2, LenProperties
  <2>4. Head(q) = q[1]
    OBVIOUS
  <2> HIDE DEF r, n
  <2> QED BY <2>1, <2>2, <2>3, <2>4
<1> HIDE DEF r, n
<1>2. Queued(q) = {Head(q)} \cup Queued(r)
  <2>1. ASSUME NEW i \in 1 .. n PROVE q[i] = Head(q) \/ q[i] \in Queued(r)
    <3>1. CASE i = 1
      BY <1>1, <3>1
    <3>2. CASE i # 1
      <4>1. i - 1 \in 1 .. n - 1 /\ r[i - 1] = q[i]
        BY <1>1, <3>2
      <4> QED BY <1>1, <4>1 DEF Queued
    <3> QED BY <3>1, <3>2
  <2>2. \A i \in 1 .. n - 1 : r[i] \in Queued(q)
    BY <1>1 DEF Queued
  <2>3. Head(q) \in Queued(q)
    BY <1>1 DEF Queued
  <2>4. \A x \in Queued(q) : x \in {Head(q)} \cup Queued(r)
    BY <1>1, <2>1 DEF Queued
  <2>5. \A x \in Queued(r) : x \in Queued(q)
    BY <1>1, <2>2 DEF Queued
  <2> QED BY <2>3, <2>4, <2>5
<1>3. ASSUME NEW ops, AtMostOne(q, ops)
      PROVE  AtMostOne(r, ops) /\ (Head(q).op \in ops => ~HasOp(r, ops))
  <2>1. AtMostOne(r, ops)
    <3> SUFFICES ASSUME NEW i \in 1 .. n - 1, NEW j \in 1 .. n - 1,
                        r[i].op \in ops, r[j].op \in ops
                 PROVE  i = j
      BY <1>1 DEF AtMostOne
    <3>1. i + 1 \in 1 .. n /\ j + 1 \in 1 .. n /\ r[i] = q[i + 1] /\ r[j] = q[j + 1]
      BY <1>1
    <3>2. i + 1 = j + 1
      BY <1>1, <1>3, <3>1 DEF AtMostOne
    <3> QED BY <3>2
  <2>2. ASSUME Head(q).op \in ops, NEW i \in 1 .. n - 1, r[i].op \in ops
        PROVE  FALSE
    <3>1. 1 \in 1 .. n /\ i + 1 \in 1 .. n /\ r[i] = q[i + 1]
      BY <1>1
    <3>2. i + 1 = 1
      BY <1>1, <1>3, <2>2, <3>1 DEF AtMostOne
    <3> QED BY <3>2
  <2> QED BY <1>1, <2>1, <2>2 DEF HasOp, Queued
<1>4. ASSUME OnlyStopsBehindSteps(q)
      PROVE  OnlyStopsBehindSteps(r) /\ (Head(q).op \in Steps => OnlyOps(r, StopOps))
  <2>1. OnlyStopsBehindSteps(r)
    <3> SUFFICES ASSUME NEW i \in 1 .. n - 1, NEW j \in 1 .. n - 1,
                        i < j, r[i].op \in Steps
                 PROVE  r[j].op \in StopOps
      BY <1>1 DEF OnlyStopsBehindSteps
    <3>1. /\ i + 1 \in 1 .. n /\ j + 1 \in 1 .. n /\ i + 1 < j + 1
          /\ r[i] = q[i + 1] /\ r[j] = q[j + 1]
      BY <1>1
    <3> QED BY <1>1, <1>4, <3>1 DEF OnlyStopsBehindSteps
  <2>2. ASSUME Head(q).op \in Steps, NEW i \in 1 .. n - 1
        PROVE  r[i].op \in StopOps
    <3>1. 1 \in 1 .. n /\ i + 1 \in 1 .. n /\ 1 < i + 1 /\ r[i] = q[i + 1]
      BY <1>1
    <3> QED BY <1>1, <1>4, <2>2, <3>1 DEF OnlyStopsBehindSteps
  <2> QED BY <1>1, <2>1, <2>2 DEF OnlyOps, Queued
<1> QED BY <1>2, <1>3, <1>4 DEF r

(* What is queued in a queue of events is an event.                        *)
LEMMA QueuedEvents ==
  ASSUME NEW ops, NEW q \in Seq(Events(ops))
  PROVE  \A e \in Queued(q) : e \in Events(ops) /\ e.op \in ops /\ e.gen \in Nat
<1>1. DOMAIN q = 1 .. Len(q) /\ \A i \in 1 .. Len(q) : q[i] \in Events(ops)
  BY LenProperties, ElementOfSeq
<1>2. \A e \in Queued(q) : e \in Events(ops)
  BY <1>1 DEF Queued
<1> QED BY <1>2 DEF Events, Gens, NoGen

-----------------------------------------------------------------------------
(* The steps of the GUI thread                                             *)

LEMMA GuiProtocolStep ==
  ASSUME TypeOK, StepProtocol, GuiLoop \/ ForwardStop \/ EndWait \/ User
  PROVE  StepProtocol'
<1> USE DEF StepProtocol
<1>1. /\ gen \in Gens \cup {NoGen} /\ Gens \subseteq Nat /\ NoGen \in Nat
      /\ guiQ \in Seq(Events(GuiOps)) /\ wq \in Seq(Events(WorkerOps))
      /\ alive \subseteq Gens /\ doomed \subseteq Gens
      /\ \A e \in Queued(wq) : e.gen \in Nat
  BY QueuedEvents DEF TypeOK, GuiTypeOK, QueueTypeOK, WorkTypeOK, Gens, NoGen
<1>2. /\ \A op \in WorkerOps, g \in Gens \cup {NoGen} :
           /\ Call(op, g) \in Events(WorkerOps)
           /\ Call(op, g).op = op /\ Call(op, g).gen = g
      /\ Event("listenerStop", guiSeen[1], guiSeen) \in Events(WorkerOps)
      /\ Event("listenerStop", guiSeen[1], guiSeen).op = "listenerStop"
  BY CallTypes, ListenerTypes DEF Call, Event, Events, WorkerOps, StopOps, TypeOK, GuiTypeOK
<1>3. /\ Steps \subseteq WorkerOps /\ StopOps \subseteq WorkerOps
      /\ {"finalizeInternal", "deleteLater"} \subseteq WorkerOps
      /\ "finalizeInternal" \notin Steps \cup StopOps /\ "deleteLater" \notin Steps \cup StopOps
      /\ "requestStop" \notin Steps /\ "listenerStop" \notin Steps
      /\ "requestStop" \in StopOps /\ "listenerStop" \in StopOps
      /\ "deleteLater" \notin StopOps
      /\ "quit" \notin Results /\ "notifierStop" \notin Results
  BY DEF WorkerOps, Steps, StopOps, Results
<1>4. \A q \in Seq(Events(WorkerOps)), e \in Events(WorkerOps) :
         /\ Append(q, e) \in Seq(Events(WorkerOps))
         /\ Queued(Append(q, e)) = Queued(q) \cup {e}
         /\ OnlyStopsBehindSteps(q) /\ (HasOp(q, Steps) => e.op \in StopOps)
              => OnlyStopsBehindSteps(Append(q, e))
  BY AppendQueue
<1>5. guiQ # <<>> =>
         /\ Queued(guiQ) = {Head(guiQ)} \cup Queued(Tail(guiQ))
         /\ AtMostOne(guiQ, Results) => /\ AtMostOne(Tail(guiQ), Results)
                                        /\ Head(guiQ).op \in Results => ~HasOp(Tail(guiQ), Results)
  BY <1>1, TakeQueue
(* finish() ends the run of a GUI thread that has no step under way.       *)
<1>6. ASSUME NEW queue \in Seq(Events(WorkerOps)), Finish(queue),
             OnlyStopsBehindSteps(queue), ~HasOp(queue, Steps),
             \A e \in Queued(queue) : e.op = "deleteLater" => e.gen <= gen,
             AtMostOne(guiQ', Results), ~HasOp(guiQ', Results), wPc = "loop",
             guiPc = "loop", modal' # "canceledBox",
             UNCHANGED <<gen, alive, doomed, guiPc, wPc>>
      PROVE  StepProtocol'
  <2>1. started' = FALSE /\ wq' = Append(queue, Call("deleteLater", gen))
    BY <1>6, Zenon DEF Finish
  <2>2. /\ Queued(wq') = Queued(queue) \cup {Call("deleteLater", gen)}
        /\ OnlyStopsBehindSteps(wq')
        /\ Call("deleteLater", gen).op = "deleteLater" /\ Call("deleteLater", gen).gen = gen
    BY <1>1, <1>2, <1>3, <1>4, <1>6, <2>1
  <2>3. ~HasOp(wq', Steps)
    BY <1>3, <1>6, <2>2 DEF HasOp
  <2>4. StepIsOneToken'
    BY <1>6, <2>1, <2>2, <2>3 DEF StepIsOneToken, Active
  <2>5. WorkerOutlivesRun'
    BY <1>1, <1>3, <1>6, <2>1, <2>2, <2>3 DEF WorkerOutlivesRun, Active, HasOp
  <2> QED BY <2>4, <2>5
(* Taking the result of a step leaves no step under way.                   *)
<1>7. ASSUME HasOp(guiQ, Results), guiQ' = Tail(guiQ), guiQ # <<>>, Head(guiQ).op \in Results
      PROVE  /\ Active /\ wPc = "loop" /\ ~HasOp(wq, Steps) /\ OnlyStopsBehindSteps(wq)
             /\ AtMostOne(guiQ', Results) /\ ~HasOp(guiQ', Results)
             /\ \A e \in Queued(wq) : e.op = "deleteLater" => e.gen < gen
             /\ gen \in alive \ doomed
  <2>1. /\ Active /\ wPc = "loop" /\ ~HasOp(wq, Steps) /\ OnlyStopsBehindSteps(wq)
        /\ AtMostOne(guiQ', Results) /\ ~HasOp(guiQ', Results)
    BY <1>5, <1>7 DEF StepIsOneToken
  <2>2. /\ \A e \in Queued(wq) : e.op = "deleteLater" => e.gen # gen /\ e.gen <= gen
        /\ gen \in alive \ doomed
    BY <2>1 DEF WorkerOutlivesRun
  <2> QED BY <1>1, <2>1, <2>2
<1>8. ASSUME GuiTakes("stepCompleted") \/ GuiTakes("stepFailed")
      PROVE  /\ HasOp(guiQ, Results) /\ guiQ' = Tail(guiQ) /\ guiQ # <<>> /\ Head(guiQ).op \in Results
             /\ guiPc = "loop"
  BY <1>5, <1>8 DEF GuiTakes, HasOp, Results
<1>9. ASSUME OnStepCompleted \/ OnStepFailed
      PROVE  StepProtocol'
  <2>1. /\ Active /\ wPc = "loop" /\ ~HasOp(wq, Steps) /\ OnlyStopsBehindSteps(wq)
        /\ AtMostOne(guiQ', Results) /\ ~HasOp(guiQ', Results)
        /\ \A e \in Queued(wq) : e.op = "deleteLater" => e.gen < gen
        /\ gen \in alive \ doomed /\ guiPc = "loop"
        /\ UNCHANGED <<gen, alive, doomed, guiPc, wPc, wGen>>
    BY <1>7, <1>8, <1>9 DEF OnStepCompleted, OnStepFailed, workVars
  <2>2. CASE ProcessCancel
    <3> DEFINE queue == Append(wq, Call("finalizeInternal", gen))
    <3>1. /\ queue \in Seq(Events(WorkerOps))
          /\ Queued(queue) = Queued(wq) \cup {Call("finalizeInternal", gen)}
          /\ OnlyStopsBehindSteps(queue)
          /\ Call("finalizeInternal", gen).op = "finalizeInternal"
      BY <1>1, <1>2, <1>3, <1>4, <2>1
    <3>2. ~HasOp(queue, Steps) /\ \A e \in Queued(queue) : e.op = "deleteLater" => e.gen <= gen
      BY <1>3, <2>1, <3>1 DEF HasOp, WorkerOutlivesRun
    <3>3. CASE Finish(queue) /\ UNCHANGED modal
      BY <1>6, <2>1, <3>1, <3>2, <3>3 DEF Active
    <3>4. CASE modal' = "canceledBox" /\ wq' = queue /\ UNCHANGED <<started, faults>>
      <4> HIDE DEF queue
      <4>1. StepIsOneToken'
        BY <2>1, <3>1, <3>2, <3>4 DEF StepIsOneToken, Active
      <4>2. WorkerOutlivesRun'
        BY <1>3, <2>1, <3>2, <3>4 DEF WorkerOutlivesRun, Active, HasOp
      <4> QED BY <4>1, <4>2
    <3> QED BY <2>2, <3>3, <3>4 DEF ProcessCancel
  <2>3. CASE /\ steps # <<>> /\ ProcessStep(gen, steps, wq)
             /\ UNCHANGED <<started, outcome, modal>>
    <3> DEFINE e == Call(Head(steps), gen)
    <3>1. Head(steps) \in Steps
      BY <2>3, HeadTailProperties DEF TypeOK, GuiTypeOK
    <3>2. /\ wq' = Append(wq, e) /\ e \in Events(WorkerOps) /\ e.op \in Steps /\ e.gen = gen
          /\ Queued(wq') = Queued(wq) \cup {e} /\ OnlyStopsBehindSteps(wq')
      BY <1>1, <1>2, <1>3, <1>4, <2>1, <2>3, <3>1 DEF ProcessStep
    <3> HIDE DEF e
    <3>3. HasOp(wq', Steps)
      BY <3>2 DEF HasOp
    <3>4. StepIsOneToken'
      BY <2>1, <2>3, <3>2, <3>3 DEF StepIsOneToken, Active
    <3>5. WorkerOutlivesRun'
      BY <1>3, <2>1, <2>3, <3>2 DEF WorkerOutlivesRun, Active, HasOp
    <3> QED BY <3>4, <3>5
  <2>4. CASE Finish(wq) /\ UNCHANGED modal
    <3>1. \A e \in Queued(wq) : e.op = "deleteLater" => e.gen <= gen
      BY DEF WorkerOutlivesRun
    <3> QED BY <1>1, <1>6, <2>1, <2>4, <3>1 DEF Active
  <2> QED BY <1>9, <2>2, <2>3, <2>4 DEF OnStepCompleted, OnStepFailed
<1>10. CASE OnQuit \/ OnNotifierStop
  <2>1. /\ guiQ' = Tail(guiQ) /\ guiQ # <<>> /\ Head(guiQ).op \notin Results /\ guiPc = "loop"
        /\ guiPc' # "startWait"
        /\ UNCHANGED <<started, modal, gen, wq, alive, doomed, wPc, wGen>>
    BY <1>3, <1>10 DEF OnQuit, OnNotifierStop, GuiTakes, guiVars, workVars
  <2>2. HasOp(guiQ', Results) <=> HasOp(guiQ, Results)
    BY <1>5, <2>1 DEF HasOp
  <2>3. StepIsOneToken'
    BY <1>5, <2>1, <2>2 DEF StepIsOneToken, Active
  <2>4. WorkerOutlivesRun'
    BY <2>1 DEF WorkerOutlivesRun, Active
  <2> QED BY <2>3, <2>4
(* One more stop request in the worker's queue, or none.                   *)
<1>11. ASSUME NEW e \in Events(WorkerOps), e.op \in StopOps,
              wq' = wq \/ wq' = Append(wq, e), guiPc' # "startWait",
              Active' = Active, modal' = "canceledBox" => started',
              UNCHANGED <<gen, guiQ, alive, doomed, wPc, wGen>>
       PROVE  StepProtocol'
  <2>1. CASE wq' = wq
    BY <1>11, <2>1 DEF StepIsOneToken, WorkerOutlivesRun
  <2>2. CASE wq' = Append(wq, e)
    <3>1. Queued(wq') = Queued(wq) \cup {e} /\ (OnlyStopsBehindSteps(wq) => OnlyStopsBehindSteps(wq'))
      BY <1>1, <1>4, <1>11, <2>2
    <3>2. e.op \notin Steps /\ e.op # "deleteLater"
      BY <1>11 DEF Steps, StopOps
    <3>3. /\ HasOp(wq', Steps) <=> HasOp(wq, Steps)
          /\ OnlyOps(wq, StopOps) => OnlyOps(wq', StopOps)
      BY <1>11, <3>1, <3>2 DEF HasOp, OnlyOps
    <3>4. StepIsOneToken'
      BY <1>11, <3>1, <3>3 DEF StepIsOneToken
    <3>5. WorkerOutlivesRun'
      BY <1>11, <3>1, <3>2 DEF WorkerOutlivesRun
    <3> QED BY <3>4, <3>5
  <2> QED BY <1>11, <2>1, <2>2
<1>12. CASE ForwardStop
  <2>1. wq' = wq \/ wq' = Append(wq, Event("listenerStop", guiSeen[1], guiSeen))
    BY <1>12 DEF ForwardStop
  <2>2. guiPc' = "loop" /\ UNCHANGED <<started, modal, gen, guiQ, alive, doomed, wPc, wGen>>
    BY <1>12 DEF ForwardStop, workVars
  <2> QED BY <1>2, <1>3, <1>11, <2>1, <2>2 DEF Active, WorkerOutlivesRun
<1>13. ASSUME RequestStop PROVE wq' = wq \/ wq' = Append(wq, Call("requestStop", gen))
  BY <1>13 DEF RequestStop
<1>14. CASE PressStop \/ PressCancel \/ AnswerCancel
  <2>1. wq' = wq \/ wq' = Append(wq, Call("requestStop", gen))
    BY <1>13, <1>14 DEF PressStop, PressCancel, AnswerCancel
  <2>2. /\ guiPc' = "loop" /\ modal # "canceledBox" /\ modal' # "canceledBox"
        /\ UNCHANGED <<started, gen, guiQ, alive, doomed, wPc, wGen>>
    BY <1>14 DEF PressStop, PressCancel, AnswerCancel, workVars
  <2> QED BY <1>1, <1>2, <1>3, <1>11, <2>1, <2>2 DEF Active
<1>15. CASE CloseCanceledBox
  <2>1. /\ guiPc = "loop" /\ modal = "canceledBox" /\ modal' = "none" /\ Finish(wq)
        /\ UNCHANGED <<gen, guiPc, guiQ, alive, doomed, wPc, wGen>>
    BY <1>15 DEF CloseCanceledBox, workVars
  <2>2. /\ ~HasOp(wq, Steps) /\ ~HasOp(guiQ, Results) /\ wPc = "loop"
        /\ OnlyStopsBehindSteps(wq) /\ AtMostOne(guiQ, Results)
    BY <2>1 DEF StepIsOneToken, Active
  <2>3. \A e \in Queued(wq) : e.op = "deleteLater" => e.gen <= gen
    BY DEF WorkerOutlivesRun
  <2> QED BY <1>1, <1>6, <2>1, <2>2, <2>3
(* A run starts when no step is under way, with the worker just made.      *)
<1>16. ASSUME NEW g \in Gens, NEW list \in Seq(Steps), list # <<>>, StartRun(g, list), ~Active,
              modal = "none", g >= gen, g \in alive' \ doomed,
              \A h \in alive' \cup doomed : h <= g,
              \A e \in Queued(wq) : e.op = "deleteLater" => e.gen < g
       PROVE  StepProtocol'
  <2> DEFINE e == Call(Head(list), g)
  <2>1. Head(list) \in Steps
    BY <1>16, HeadTailProperties
  <2>2. /\ started' = TRUE /\ gen' = g /\ guiPc' = "loop" /\ wq' = Append(wq, e)
        /\ UNCHANGED <<modal, guiQ, doomed, wPc, wGen>>
    BY <1>16 DEF StartRun, ProcessStep, workVars
  <2>3. /\ ~HasOp(wq, Steps) /\ ~HasOp(guiQ, Results) /\ wPc = "loop"
        /\ OnlyStopsBehindSteps(wq) /\ AtMostOne(guiQ, Results)
    BY <1>16 DEF StepIsOneToken
  <2>4. /\ e \in Events(WorkerOps) /\ e.op \in Steps /\ e.gen = g
        /\ Queued(wq') = Queued(wq) \cup {e} /\ OnlyStopsBehindSteps(wq')
    BY <1>1, <1>2, <1>3, <1>4, <2>1, <2>2, <2>3
  <2> HIDE DEF e
  <2>5. HasOp(wq', Steps)
    BY <2>4 DEF HasOp
  <2>6. StepIsOneToken'
    BY <1>16, <2>2, <2>3, <2>4, <2>5 DEF StepIsOneToken, Active
  <2>7. \A x \in Queued(wq) : x.op \notin Steps /\ (x.op = "deleteLater" => x.gen < g /\ x.gen \in Nat)
    BY <1>1, <1>16, <2>3 DEF HasOp
  <2>8. \A x \in Queued(wq') : /\ x.op \in Steps => x.gen = g
                               /\ x.op = "deleteLater" => x.gen # g /\ x.gen <= g
    BY <1>1, <1>3, <2>4, <2>7
  <2>9. WorkerOutlivesRun'
    BY <1>16, <2>2, <2>3, <2>8 DEF WorkerOutlivesRun
  <2> QED BY <2>6, <2>9
<1>17. CASE EndWait
  <2>1. /\ gen \in Gens /\ ~Active /\ modal = "none" /\ alive' = alive /\ gen \in alive \ doomed
        /\ \A h \in alive \cup doomed : h <= gen
    BY <1>17 DEF EndWait, TypeOK, GuiTypeOK, WorkerOutlivesRun, Active
  <2>2. \A e \in Queued(wq) : e.op = "deleteLater" => e.gen # gen /\ e.gen <= gen
    BY <1>17 DEF EndWait, WorkerOutlivesRun
  <2>4. \A e \in Queued(wq) : e.op = "deleteLater" => e.gen < gen
    BY <1>1, <2>2
  <2> QED BY <1>1, <1>16, <1>17, <2>1, <2>4, BuildActionListType DEF EndWait
<1>18. CASE Start
  <2>1. /\ gen + 1 \in Gens /\ ~Active /\ modal = "none" /\ ~started
        /\ alive' = alive \cup {gen + 1} /\ gen + 1 \notin doomed
        /\ \A h \in alive' \cup doomed : h <= gen + 1
    BY <1>1, <1>18, MaxRunsAssumption DEF Start, Active, WorkerOutlivesRun, Gens, NoGen
  <2>2. \A e \in Queued(wq) : e.op = "deleteLater" => e.gen <= gen
    BY DEF WorkerOutlivesRun
  <2>4. \A e \in Queued(wq) : e.op = "deleteLater" => e.gen < gen + 1
    BY <1>1, <2>2
  <2>5. CASE ~IsRunning
    <3>1. PICK a \in BOOLEAN, i \in BOOLEAN : StartRun(gen + 1, BuildActionList(a, i))
      BY <1>18, <2>5 DEF Start
    <3>2. gen + 1 >= gen /\ gen + 1 \in alive' \ doomed
      BY <1>1, <2>1
    <3> QED BY <1>16, <2>1, <2>4, <3>1, <3>2, BuildActionListType
  <2>6. CASE IsRunning
    <3>1. /\ gen' = gen + 1 /\ guiPc' = "startWait" /\ doomed' = doomed
          /\ UNCHANGED <<started, modal, guiQ, wq, wPc, wGen>>
      BY <1>18, <2>6 DEF Start, workVars
    <3>2. StepIsOneToken' /\ ~HasOp(wq, Steps) /\ wPc = "loop"
      BY <2>1, <3>1 DEF StepIsOneToken, Active
    <3>3. WorkerOutlivesRun'
      BY <1>1, <2>1, <2>4, <3>1, <3>2 DEF WorkerOutlivesRun, Active, HasOp
    <3> QED BY <3>2, <3>3
  <2> QED BY <2>5, <2>6
<1> QED
  BY <1>9, <1>10, <1>12, <1>14, <1>15, <1>17, <1>18 DEF User, GuiLoop

-----------------------------------------------------------------------------
(* The steps of the worker's thread                                        *)

LEMMA WorkerProtocolStep ==
  ASSUME TypeOK, StepProtocol, Work \/ AbortPhase \/ NestedDeliverStop \/ WorkerLoop
  PROVE  StepProtocol'
<1> USE DEF StepProtocol
<1>1. /\ guiQ \in Seq(Events(GuiOps)) /\ wq \in Seq(Events(WorkerOps))
      /\ \A e \in Queued(wq) : e.gen \in Nat
  BY QueuedEvents DEF TypeOK, QueueTypeOK
<1>2. /\ \A op \in GuiOps, g \in Gens \cup {NoGen} :
           /\ Call(op, g) \in Events(GuiOps)
           /\ Call(op, g).op = op
      /\ Results \subseteq GuiOps /\ "quit" \in GuiOps \ Results /\ "notifierStop" \in GuiOps \ Results
  BY CallTypes DEF Call, Event, GuiOps, Results
<1>3. \A q \in Seq(Events(GuiOps)), e \in Events(GuiOps) :
         /\ Queued(Append(q, e)) = Queued(q) \cup {e}
         /\ AtMostOne(q, Results) /\ (HasOp(q, Results) => e.op \notin Results)
              => AtMostOne(Append(q, e), Results)
  BY AppendQueue
<1>4. wq # <<>> =>
         /\ Queued(wq) = {Head(wq)} \cup Queued(Tail(wq))
         /\ OnlyStopsBehindSteps(wq) => /\ OnlyStopsBehindSteps(Tail(wq))
                                        /\ Head(wq).op \in Steps => OnlyOps(Tail(wq), StopOps)
         /\ Head(wq).gen \in Gens \cup {NoGen}
  BY <1>1, TakeQueue, QueueTypes DEF TypeOK
<1>5. /\ "requestStop" \notin Steps /\ "listenerStop" \notin Steps
      /\ "finalizeInternal" \notin Steps /\ "deleteLater" \notin Steps
      /\ Steps \cap StopOps = {} /\ "deleteLater" \notin StopOps
  BY DEF Steps, StopOps
(* A call to the GUI thread that is not the result of a step.              *)
<1>6. ASSUME NEW op \in GuiOps \ Results, NEW g \in Gens \cup {NoGen},
             guiQ' = Append(guiQ, Call(op, g))
      PROVE  /\ HasOp(guiQ', Results) <=> HasOp(guiQ, Results)
             /\ AtMostOne(guiQ', Results)
  <2>1. Call(op, g) \in Events(GuiOps) /\ Call(op, g).op = op
    BY <1>2
  <2>2. Queued(guiQ') = Queued(guiQ) \cup {Call(op, g)} /\ AtMostOne(guiQ', Results)
    BY <1>1, <1>3, <1>6, <2>1 DEF StepIsOneToken
  <2> QED BY <1>6, <2>1, <2>2 DEF HasOp
<1>7. CASE LoopDeliverStop \/ NestedDeliverStop
  <2>1. DeliverStop
    BY <1>7 DEF LoopDeliverStop, NestedDeliverStop
  <2>2. /\ wq # <<>> /\ wq' = Tail(wq) /\ Head(wq).op \notin Steps
        /\ UNCHANGED <<started, modal, guiPc, gen, alive, doomed, wPc, wGen>>
    BY <1>5, <2>1 DEF DeliverStop, guiVars, workVars
  <2>3. HasOp(guiQ', Results) <=> HasOp(guiQ, Results)
    BY <1>2, <1>4, <1>6, <2>1 DEF DeliverStop
  <2>4. AtMostOne(guiQ', Results)
    BY <1>2, <1>4, <1>6, <2>1 DEF DeliverStop, StepIsOneToken
  <2>5. /\ Queued(wq') \subseteq Queued(wq) /\ OnlyStopsBehindSteps(wq')
        /\ HasOp(wq', Steps) <=> HasOp(wq, Steps)
    BY <1>4, <2>2 DEF HasOp, StepIsOneToken
  <2>6. StepIsOneToken'
    BY <2>2, <2>3, <2>4, <2>5 DEF StepIsOneToken, Active, OnlyOps
  <2>7. WorkerOutlivesRun'
    BY <2>2, <2>5 DEF WorkerOutlivesRun, Active
  <2> QED BY <2>6, <2>7
<1>8. CASE BeginStep
  <2>1. /\ wq # <<>> /\ wq' = Tail(wq) /\ Head(wq).op \in Steps /\ wPc = "loop"
        /\ UNCHANGED <<started, modal, guiPc, gen, guiQ, alive, doomed>>
    BY <1>8 DEF BeginStep, IsWorkerIdle, guiVars
  <2>2. Head(wq) \in Queued(wq) /\ HasOp(wq, Steps)
    BY <1>4, <2>1 DEF HasOp
  <2>3. Head(wq).gen = gen /\ Active /\ gen \in alive
    BY <2>1, <2>2 DEF StepIsOneToken, WorkerOutlivesRun
  <2>4. wPc' = "phase" /\ wGen' = gen
    BY <1>8, <2>3 DEF BeginStep
  <2>5. /\ OnlyOps(wq', StopOps) /\ Queued(wq') \subseteq Queued(wq) /\ OnlyStopsBehindSteps(wq')
    BY <1>4, <2>1 DEF StepIsOneToken
  <2>6. ~HasOp(wq', Steps)
    BY <1>5, <2>5 DEF HasOp, OnlyOps
  <2>7. StepIsOneToken'
    BY <2>1, <2>2, <2>3, <2>4, <2>5, <2>6 DEF StepIsOneToken, Active
  <2>8. WorkerOutlivesRun'
    BY <2>1, <2>4, <2>5 DEF WorkerOutlivesRun, Active
  <2> QED BY <2>7, <2>8
(* The result of the step that the worker was in.                          *)
<1>9. ASSUME NEW r \in Results, EndStep(r), wPc # "loop",
             UNCHANGED <<guiVars, wq, alive, doomed>>
      PROVE  StepProtocol'
  <2>1. /\ guiQ' = Append(guiQ, Call(r, wGen)) /\ wPc' = "loop"
        /\ UNCHANGED <<started, modal, guiPc, gen>>
    BY <1>9 DEF EndStep, guiVars
  <2>2. ~HasOp(guiQ, Results) /\ ~HasOp(wq, Steps) /\ Active
    BY <1>9 DEF StepIsOneToken
  <2>3. Call(r, wGen) \in Events(GuiOps) /\ Call(r, wGen).op \in Results
    BY <1>2, <1>9 DEF TypeOK, WorkTypeOK
  <2>4. Queued(guiQ') = Queued(guiQ) \cup {Call(r, wGen)} /\ AtMostOne(guiQ', Results)
    BY <1>1, <1>3, <2>1, <2>2, <2>3 DEF StepIsOneToken
  <2>5. HasOp(guiQ', Results)
    BY <2>3, <2>4 DEF HasOp
  <2>6. StepIsOneToken'
    BY <1>9, <2>1, <2>2, <2>4, <2>5 DEF StepIsOneToken, Active
  <2>7. WorkerOutlivesRun'
    BY <1>9, <2>1 DEF WorkerOutlivesRun, Active
  <2> QED BY <2>6, <2>7
<1>10. CASE CompleteStep \/ FailStep \/ FailOpen \/ FailPhase \/ AbortPhase
  <2>1. /\ wPc # "loop" /\ UNCHANGED <<guiVars, wq, alive, doomed>>
        /\ EndStep("stepCompleted") \/ EndStep("stepFailed")
    BY <1>10 DEF CompleteStep, FailStep, FailOpen, FailPhase, AbortPhase, LeavePhase
  <2> QED BY <1>9, <2>1 DEF Results
<1>11. CASE BindListener \/ EnterQuietPhase \/ OpenPhase \/ FinishPhase
  <2>1. /\ wPc # "loop" /\ wPc' # "loop"
        /\ UNCHANGED <<started, modal, guiPc, gen, guiQ, wq, alive, doomed, wGen>>
    BY <1>11 DEF BindListener, EnterQuietPhase, OpenPhase, FinishPhase, LeavePhase, guiVars
  <2> QED BY <2>1 DEF StepIsOneToken, WorkerOutlivesRun, Active
<1>12. CASE DeliverEnd
  <2>1. /\ wq # <<>> /\ wq' = Tail(wq) /\ Head(wq).op \notin Steps
        /\ doomed' = doomed \/ (Head(wq).op = "deleteLater" /\ doomed' = doomed \cup {Head(wq).gen})
        /\ UNCHANGED <<started, modal, guiPc, gen, guiQ, alive, wPc, wGen>>
    BY <1>5, <1>12 DEF DeliverEnd, guiVars, workVars
  <2>2. /\ Queued(wq') \subseteq Queued(wq) /\ OnlyStopsBehindSteps(wq')
        /\ HasOp(wq', Steps) <=> HasOp(wq, Steps) /\ Head(wq) \in Queued(wq)
    BY <1>4, <2>1 DEF HasOp, StepIsOneToken
  <2>3. HasOp(wq', Steps) <=> HasOp(wq, Steps)
    BY <1>4, <2>1 DEF HasOp
  <2>4. StepIsOneToken'
    BY <2>1, <2>2, <2>3 DEF StepIsOneToken, Active, OnlyOps
  <2>5. WorkerOutlivesRun'
    BY <1>4, <2>1, <2>2 DEF WorkerOutlivesRun, Active
  <2> QED BY <2>4, <2>5
<1>13. CASE DestroyWorker
  <2>1. PICK g \in doomed : doomed' = doomed \ {g} /\ alive' = alive \ {g}
    BY <1>13 DEF DestroyWorker
  <2>2. /\ guiQ' = Append(guiQ, Call("quit", NoGen)) /\ wPc = "loop"
        /\ UNCHANGED <<started, modal, guiPc, gen, wq, wPc, wGen>>
    BY <1>13 DEF DestroyWorker, IsWorkerIdle, guiVars, workVars
  <2>3. (HasOp(guiQ', Results) <=> HasOp(guiQ, Results)) /\ AtMostOne(guiQ', Results)
    BY <1>2, <1>6, <2>2
  <2>4. StepIsOneToken'
    BY <2>2, <2>3 DEF StepIsOneToken, Active
  <2>5. WorkerOutlivesRun'
    BY <2>1, <2>2 DEF WorkerOutlivesRun, Active
  <2> QED BY <2>4, <2>5
<1>14. CASE ExitThread
  <2>1. UNCHANGED <<started, modal, guiPc, gen, guiQ, wq, alive, doomed, wPc, wGen>>
    BY <1>14 DEF ExitThread, guiVars, workVars
  <2> QED BY <2>1 DEF StepIsOneToken, WorkerOutlivesRun, Active
<1> QED
  BY <1>7, <1>8, <1>10, <1>11, <1>12, <1>13, <1>14 DEF Work, WorkerLoop

-----------------------------------------------------------------------------
(* Theorems                                                                *)

IInv == TypeOK /\ StepProtocol

LEMMA InitialProtocol == Init => IInv
<1> SUFFICES ASSUME Init PROVE IInv
  OBVIOUS
<1>1. TypeOK
  BY TypeCorrectInit
<1>2. Queued(wq) = {} /\ AtMostOne(guiQ, Results) /\ Queued(guiQ) = {} /\ OnlyStopsBehindSteps(wq)
  BY DEF Init, Queued, AtMostOne, OnlyStopsBehindSteps
<1>3. StepProtocol
  BY <1>2 DEF Init, StepProtocol, StepIsOneToken, WorkerOutlivesRun, Active, HasOp, OnlyOps
<1> QED BY <1>1, <1>3 DEF IInv

LEMMA ProtocolStep == IInv /\ [Next]_vars => IInv'
<1> SUFFICES ASSUME IInv, [Next]_vars PROVE IInv'
  OBVIOUS
<1>1. TypeOK'
  BY TypeCorrectStep DEF IInv
<1>2. CASE UNCHANGED vars
  <2>1. UNCHANGED <<started, modal, guiPc, gen, guiQ, wq, alive, doomed, wPc, wGen>>
    BY <1>2 DEF vars, guiVars, workVars
  <2>2. StepProtocol'
    BY <2>1 DEF IInv, StepProtocol, StepIsOneToken, WorkerOutlivesRun, Active
  <2> QED BY <1>1, <2>2 DEF IInv
<1>3. CASE Next
  <2>1. StepProtocol'
    BY <1>3, GuiProtocolStep, WorkerProtocolStep DEF Next, IInv
  <2> QED BY <1>1, <2>1 DEF IInv
<1> QED BY <1>2, <1>3

(* The step of a run is one token that the threads hand to each other, and *)
(* the worker of the run outlives it.                                      *)
THEOREM ProtocolHolds == Safe => []StepProtocol
<1>1. IInv => StepProtocol
  BY DEF IInv
<1> QED BY <1>1, InitialProtocol, ProtocolStep, PTL DEF Safe

(* While the worker carries out a step its queue holds nothing but stop    *)
(* requests: the events it handles from inside the step can neither enter  *)
(* another step nor delete the worker.                                     *)
THEOREM NeverReentrant == Safe => []NoReentrancy
<1>1. IInv => NoReentrancy
  <2> SUFFICES ASSUME IInv, wPc # "loop" PROVE NoReentrancy
    BY DEF NoReentrancy
  <2>1. OnlyOps(wq, StopOps) /\ Active
    BY DEF IInv, StepProtocol, StepIsOneToken
  <2>2. wGen \in alive \ doomed
    BY <2>1 DEF IInv, StepProtocol, WorkerOutlivesRun
  <2> QED BY <2>1, <2>2 DEF NoReentrancy, OnlyOps, Queued
<1> QED BY <1>1, InitialProtocol, ProtocolStep, PTL DEF Safe

(* A set of indices of a queue that holds at most one of them is empty, or *)
(* a singleton when the queue holds one.                                   *)
LEMMA CountIsOne ==
  ASSUME NEW P, IsFiniteSet(P), \A i, j \in P : i = j
  PROVE  Cardinality(P) = IF P = {} THEN 0 ELSE 1
<1>1. CASE P = {}
  BY <1>1, FS_EmptySet
<1>2. CASE P # {}
  <2>1. PICK i \in P : TRUE
    BY <1>2
  <2>2. P = {i}
    BY <2>1
  <2> QED BY <1>2, <2>2, FS_Singleton
<1> QED BY <1>1, <1>2

(* While a run is on exactly one of its steps is under way, and afterwards *)
(* none: no step is posted twice, dropped, or left behind by a run that    *)
(* has ended.                                                              *)
THEOREM ExactlyOneStep == Safe => []OneStepOutstanding
<1>1. ASSUME IInv PROVE OneStepOutstanding
  <2> USE DEF IInv
  <2>1. /\ DOMAIN wq = 1 .. Len(wq) /\ Len(wq) \in Nat
        /\ DOMAIN guiQ = 1 .. Len(guiQ) /\ Len(guiQ) \in Nat
    BY <1>1, LenProperties DEF TypeOK, QueueTypeOK
  <2>2. IsFiniteSet(QueuedSteps) /\ IsFiniteSet(QueuedResults)
    <3>1. IsFiniteSet(1 .. Len(wq)) /\ IsFiniteSet(1 .. Len(guiQ))
      BY <2>1, FS_Interval
    <3>2. QueuedSteps \subseteq 1 .. Len(wq) /\ QueuedResults \subseteq 1 .. Len(guiQ)
      BY <2>1 DEF QueuedSteps, QueuedResults
    <3> QED BY <3>1, <3>2, FS_Subset
  <2>3. /\ QueuedSteps = {} <=> ~HasOp(wq, Steps)
        /\ QueuedResults = {} <=> ~HasOp(guiQ, Results)
    BY DEF QueuedSteps, QueuedResults, HasOp, Queued
  <2>4. \A i, j \in QueuedResults : i = j
    BY <1>1 DEF StepProtocol, StepIsOneToken, AtMostOne, QueuedResults
  <2>5. \A i, j \in QueuedSteps : i = j
    <3> SUFFICES ASSUME NEW i \in QueuedSteps, NEW j \in QueuedSteps, i < j
                 PROVE  FALSE
      BY <2>1 DEF QueuedSteps
    <3>1. wq[j].op \in StopOps
      BY <1>1 DEF StepProtocol, StepIsOneToken, OnlyStopsBehindSteps, QueuedSteps
    <3> QED BY <3>1 DEF QueuedSteps, Steps, StopOps
  <2>6. /\ Cardinality(QueuedSteps) = IF HasOp(wq, Steps) THEN 1 ELSE 0
        /\ Cardinality(QueuedResults) = IF HasOp(guiQ, Results) THEN 1 ELSE 0
    BY <2>2, <2>3, <2>4, <2>5, CountIsOne
  <2>7. /\ Active <=> HasOp(wq, Steps) \/ HasOp(guiQ, Results) \/ wPc # "loop"
        /\ HasOp(wq, Steps) => ~HasOp(guiQ, Results) /\ wPc = "loop"
        /\ HasOp(guiQ, Results) => wPc = "loop"
    BY <1>1 DEF StepProtocol, StepIsOneToken
  <2> QED BY <2>6, <2>7 DEF OneStepOutstanding, Active
<1> QED BY <1>1, InitialProtocol, ProtocolStep, PTL DEF Safe

(* The MainFrame asks only a run that is on to stop, so the call always    *)
(* finds the worker; the wizard, which asks after a question, does not.    *)
MainFrameInv == /\ IInv
                /\ modal # "cancelQuestion"
                /\ StopFindsWorker

THEOREM MainFrameStopFindsWorker ==
  ASSUME Client = "MainFrame"
  PROVE  Safe => []StopFindsWorker
<1>1. Init => MainFrameInv
  BY InitialProtocol DEF Init, MainFrameInv, StopFindsWorker
<1>2. MainFrameInv /\ [Next]_vars => MainFrameInv'
  <2> SUFFICES ASSUME MainFrameInv, [Next]_vars PROVE MainFrameInv'
    OBVIOUS
  <2>1. IInv'
    BY ProtocolStep DEF MainFrameInv
  <2>2. modal # "cancelQuestion" /\ "requestStop" \notin faults
    BY DEF MainFrameInv, StopFindsWorker
  <2>3. ASSUME UNCHANGED <<modal, faults>> PROVE MainFrameInv'
    BY <2>1, <2>2, <2>3 DEF MainFrameInv, StopFindsWorker
  <2>4. CASE PressStop
    <3>1. started /\ modal = "none" /\ RequestStop /\ modal' = modal
      BY <2>4 DEF PressStop
    <3>2. gen \in alive
      BY <3>1 DEF MainFrameInv, IInv, StepProtocol, WorkerOutlivesRun, Active
    <3>3. "requestStop" \notin faults'
      BY <2>2, <3>1, <3>2 DEF RequestStop, Broken
    <3> QED BY <2>1, <2>2, <3>1, <3>3 DEF MainFrameInv, StopFindsWorker
  <2>5. CASE PressCancel \/ AnswerCancel
    BY <2>2, <2>5 DEF PressCancel, AnswerCancel
  <2>6. ASSUME NEW queue, Finish(queue) PROVE "requestStop" \notin faults'
    BY <2>2, <2>6 DEF Finish, Broken
  <2>7. ASSUME ProcessCancel PROVE "requestStop" \notin faults' /\ modal' # "cancelQuestion"
    BY <2>2, <2>6, <2>7 DEF ProcessCancel
  <2>8. CASE OnStepCompleted \/ OnStepFailed
    <3>1. CASE ProcessCancel
      BY <2>1, <2>7, <3>1 DEF MainFrameInv, StopFindsWorker
    <3>2. CASE ~ProcessCancel
      <4>1. UNCHANGED modal
        BY <2>8, <3>2 DEF OnStepCompleted, OnStepFailed
      <4>2. \/ Finish(wq)
            \/ faults' = faults \cup Broken(IsRunning, "processStep")
        BY <2>8, <3>2, Zenon DEF OnStepCompleted, OnStepFailed
      <4>3. "requestStop" \notin faults'
        BY <2>2, <2>6, <4>2 DEF Broken
      <4> QED BY <2>1, <2>2, <4>1, <4>3 DEF MainFrameInv, StopFindsWorker
    <3> QED BY <3>1, <3>2
  <2>9. CASE CloseCanceledBox
    BY <2>1, <2>6, <2>9 DEF CloseCanceledBox, MainFrameInv, StopFindsWorker
  <2>10. ASSUME NEW g, NEW list, StartRun(g, list)
         PROVE  "requestStop" \notin faults' /\ UNCHANGED modal
    BY <2>2, <2>10 DEF StartRun, Broken
  <2>11. CASE Start \/ EndWait
    <3>1. "requestStop" \notin faults' /\ UNCHANGED modal
      BY <2>2, <2>10, <2>11 DEF Start, EndWait
    <3> QED BY <2>1, <2>2, <3>1 DEF MainFrameInv, StopFindsWorker
  <2>12. CASE ForwardStop
    BY <2>1, <2>2, <2>12 DEF ForwardStop, Broken, MainFrameInv, StopFindsWorker
  <2>13. CASE OnQuit \/ OnNotifierStop
    <3>1. UNCHANGED <<modal, faults>>
      BY <2>13 DEF OnQuit, OnNotifierStop, guiVars
    <3> QED BY <2>3, <3>1
  <2>14. CASE Work \/ AbortPhase \/ NestedDeliverStop \/ WorkerLoop
    <3>1. UNCHANGED <<modal, faults>>
      BY <2>14 DEF Work, AbortPhase, NestedDeliverStop, WorkerLoop, LoopDeliverStop, DeliverStop,
                   BeginStep, CompleteStep, FailStep, BindListener, EnterQuietPhase, OpenPhase,
                   FailOpen, FinishPhase, FailPhase, DeliverEnd, DestroyWorker, ExitThread, guiVars
    <3> QED BY <2>3, <3>1
  <2>15. CASE UNCHANGED vars
    BY <2>3, <2>15 DEF vars, guiVars
  <2> QED BY <2>4, <2>5, <2>8, <2>9, <2>11, <2>12, <2>13, <2>14, <2>15 DEF Next, User, GuiLoop
<1>3. MainFrameInv => StopFindsWorker
  BY DEF MainFrameInv
<1> QED BY <1>1, <1>2, <1>3, PTL DEF Safe

-----------------------------------------------------------------------------
(* Stop requests and threads                                               *)

(* The worker of a run that is on exists, also while the box after a       *)
(* cancellation is open, and its deletion has not been asked for.          *)
WorkerKept ==
  started => /\ gen \in alive \ doomed
             /\ \A e \in Queued(wq) : e.op = "deleteLater" => e.gen # gen

(* A notifier is bound to listeners of its own worker only, and no worker  *)
(* that is still to come has been told to stop.                            *)
NotesMatch ==
  /\ \A g \in Gens : nCurrent[g] # NoListener => nCurrent[g][1] = g
  /\ \A l \in live : l[1] \in Gens
  /\ \A g \in Gens : nStop[g] => g <= gen

(* The two halves of StopNeverLost, with queues as sets.                   *)
StopOnItsWay ==
  started /\ stopRequested =>
    \/ Call("requestStop", gen) \in Queued(wq)
    \/ Call("notifierStop", gen) \in Queued(guiQ)
    \/ nStop[gen]

Told(g) ==
  nStop[g] /\ nCurrent[g] \in live =>
    \/ nCurrent[g] \in lStop
    \/ guiPc = "forwardStop" /\ guiSeen = nCurrent[g]
    \/ Event("listenerStop", g, nCurrent[g]) \in Queued(wq)

ListenersTold == \A g \in alive : Told(g)

-----------------------------------------------------------------------------
(* What the steps of each thread do to the queues                          *)

(* The GUI thread only adds to the queue of the worker thread, and asks    *)
(* for the deletion of a worker only when the run is over.                 *)
LEMMA GuiAdds ==
  ASSUME TypeOK, GuiLoop \/ ForwardStop \/ EndWait \/ User
  PROVE  /\ Queued(wq) \subseteq Queued(wq')
         /\ \A e \in Queued(wq') \ Queued(wq) : e.op = "deleteLater" => ~started'
<1>1. /\ wq \in Seq(Events(WorkerOps)) /\ gen \in Gens \cup {NoGen}
      /\ started \in BOOLEAN
  BY DEF TypeOK, QueueTypeOK, GuiTypeOK
<1>2. ASSUME NEW q \in Seq(Events(WorkerOps)), NEW e \in Events(WorkerOps)
      PROVE  /\ Append(q, e) \in Seq(Events(WorkerOps))
             /\ Queued(Append(q, e)) = Queued(q) \cup {e}
  BY AppendQueue, AppendProperties
<1>3. ASSUME UNCHANGED wq
      PROVE  /\ Queued(wq) \subseteq Queued(wq')
             /\ \A e \in Queued(wq') \ Queued(wq) : e.op = "deleteLater" => ~started'
  BY <1>3
<1>4. ASSUME NEW e \in Events(WorkerOps), wq' = Append(wq, e),
             e.op = "deleteLater" => ~started'
      PROVE  /\ Queued(wq) \subseteq Queued(wq')
             /\ \A d \in Queued(wq') \ Queued(wq) : d.op = "deleteLater" => ~started'
  BY <1>1, <1>2, <1>4
<1>5. /\ \A op \in WorkerOps : Call(op, gen) \in Events(WorkerOps) /\ Call(op, gen).op = op
      /\ {"deleteLater", "finalizeInternal", "requestStop"} \subseteq WorkerOps
      /\ Steps \subseteq WorkerOps
  BY <1>1, CallTypes DEF WorkerOps, StopOps, Call, Event
<1>6. CASE Finish(wq)
  BY <1>4, <1>5, <1>6 DEF Finish
<1>7. CASE ProcessCancel
  <2> DEFINE queue == Append(wq, Call("finalizeInternal", gen))
  <2>1. /\ queue \in Seq(Events(WorkerOps))
        /\ Queued(queue) = Queued(wq) \cup {Call("finalizeInternal", gen)}
        /\ Call("finalizeInternal", gen).op = "finalizeInternal"
    BY <1>1, <1>2, <1>5
  <2>2. CASE Finish(queue)
    <3>1. /\ Queued(wq') = Queued(queue) \cup {Call("deleteLater", gen)} /\ started' = FALSE
      BY <1>2, <1>5, <2>1, <2>2 DEF Finish
    <3> QED BY <2>1, <3>1
  <2>3. CASE wq' = queue
    BY <2>1, <2>3
  <2> QED BY <1>7, <2>2, <2>3 DEF ProcessCancel
<1>8. ASSUME NEW g \in Gens, NEW list \in Seq(Steps), list # <<>>, ProcessStep(g, list, wq)
      PROVE  /\ Queued(wq) \subseteq Queued(wq')
             /\ \A d \in Queued(wq') \ Queued(wq) : d.op = "deleteLater" => ~started'
  <2>1. Head(list) \in Steps
    BY <1>8, HeadTailProperties
  <2>2. Call(Head(list), g) \in Events(WorkerOps) /\ Call(Head(list), g).op # "deleteLater"
    BY <1>5, <2>1, CallTypes DEF Call, Event, Steps
  <2> QED BY <1>4, <1>8, <2>2 DEF ProcessStep
<1>9. CASE OnStepCompleted \/ OnStepFailed
  <2>1. CASE ProcessStep(gen, steps, wq) /\ steps # <<>> /\ gen \in Gens
    BY <1>8, <2>1 DEF TypeOK, GuiTypeOK
  <2>2. CASE ProcessStep(gen, steps, wq) /\ steps # <<>> /\ gen = NoGen
    <3>1. Head(steps) \in Steps
      BY <2>2, HeadTailProperties DEF TypeOK, GuiTypeOK
    <3>2. Call(Head(steps), gen) \in Events(WorkerOps) /\ Call(Head(steps), gen).op # "deleteLater"
      BY <1>5, <3>1 DEF Call, Event, Steps
    <3> QED BY <1>4, <2>2, <3>2 DEF ProcessStep
  <2> QED BY <1>1, <1>6, <1>7, <1>9, <2>1, <2>2 DEF OnStepCompleted, OnStepFailed
<1>10. CASE OnQuit \/ OnNotifierStop \/ PressCancel
  BY <1>3, <1>10 DEF OnQuit, OnNotifierStop, PressCancel
<1>11. ASSUME RequestStop \/ UNCHANGED wq
       PROVE  /\ Queued(wq) \subseteq Queued(wq')
              /\ \A d \in Queued(wq') \ Queued(wq) : d.op = "deleteLater" => ~started'
  BY <1>3, <1>4, <1>5, <1>11 DEF RequestStop
<1>12. CASE PressStop \/ AnswerCancel
  BY <1>11, <1>12 DEF PressStop, AnswerCancel
<1>13. CASE CloseCanceledBox
  BY <1>6, <1>13 DEF CloseCanceledBox
<1>14. CASE ForwardStop
  <2>1. guiSeen \in Listeners /\ guiSeen[1] \in Gens \cup {NoGen}
    BY ListenerTypes DEF TypeOK, GuiTypeOK
  <2>2. LET e == Event("listenerStop", guiSeen[1], guiSeen)
        IN e \in Events(WorkerOps) /\ e.op # "deleteLater"
    BY <2>1 DEF Event, Events, WorkerOps, StopOps
  <2> QED BY <1>3, <1>4, <1>14, <2>2 DEF ForwardStop
<1>15. CASE Start \/ EndWait
  <2>1. CASE UNCHANGED wq
    BY <1>3, <2>1
  <2>2. ASSUME NEW g \in Gens, NEW a \in BOOLEAN, NEW i \in BOOLEAN,
               StartRun(g, BuildActionList(a, i))
        PROVE  /\ Queued(wq) \subseteq Queued(wq')
               /\ \A d \in Queued(wq') \ Queued(wq) : d.op = "deleteLater" => ~started'
    BY <1>8, <2>2, BuildActionListType DEF StartRun
  <2>3. CASE Start
    <3>1. gen + 1 \in Gens
      BY <1>1, <2>3, MaxRunsAssumption DEF Start, Gens, NoGen
    <3> QED BY <2>1, <2>2, <2>3, <3>1 DEF Start
  <2>4. CASE EndWait
    <3>1. gen \in Gens
      BY <2>4 DEF EndWait, TypeOK, GuiTypeOK
    <3> QED BY <2>2, <2>4, <3>1 DEF EndWait
  <2> QED BY <1>15, <2>3, <2>4
<1> QED
  BY <1>9, <1>10, <1>12, <1>13, <1>14, <1>15 DEF GuiLoop, User

(* The worker thread takes from the head of its queue, and only adds to    *)
(* the other.                                                              *)
LEMMA WorkerTakes ==
  ASSUME TypeOK, Work \/ AbortPhase \/ NestedDeliverStop \/ WorkerLoop
  PROVE  /\ \/ UNCHANGED wq
            \/ wq # <<>> /\ wq' = Tail(wq)
         /\ Queued(wq') \subseteq Queued(wq)
         /\ Queued(wq) \subseteq Queued(wq') \cup {Head(wq)}
         /\ Queued(guiQ) \subseteq Queued(guiQ')
         /\ UNCHANGED guiVars
<1>1. /\ wq \in Seq(Events(WorkerOps)) /\ guiQ \in Seq(Events(GuiOps))
  BY DEF TypeOK, QueueTypeOK
<1>2. ASSUME NEW e \in Events(GuiOps), guiQ' = Append(guiQ, e)
      PROVE  Queued(guiQ) \subseteq Queued(guiQ')
  BY <1>1, <1>2, AppendQueue
<1>3. ASSUME NEW r \in Results, EndStep(r), wPc # "loop"
      PROVE  Queued(guiQ) \subseteq Queued(guiQ')
  <2>1. Call(r, wGen) \in Events(GuiOps)
    BY <1>3, CallTypes DEF TypeOK, WorkTypeOK, GuiOps, Results
  <2> QED BY <1>2, <1>3, <2>1 DEF EndStep
<1>4. Queued(guiQ) \subseteq Queued(guiQ')
  <2>1. CASE CompleteStep \/ FailStep \/ FailOpen \/ FailPhase \/ AbortPhase
    <3>1. /\ wPc # "loop"
          /\ EndStep("stepCompleted") \/ EndStep("stepFailed")
      BY <2>1 DEF CompleteStep, FailStep, FailOpen, FailPhase, AbortPhase, LeavePhase
    <3> QED BY <1>3, <3>1 DEF Results
  <2>2. CASE BeginStep \/ BindListener \/ EnterQuietPhase \/ OpenPhase \/ FinishPhase \/ DeliverEnd \/ ExitThread
    <3>1. UNCHANGED guiQ
      BY <2>2 DEF BeginStep, BindListener, EnterQuietPhase, OpenPhase, FinishPhase, DeliverEnd, ExitThread
    <3> QED BY <3>1
  <2>3. CASE DeliverStop
    <3>1. wq # <<>> /\ Head(wq).gen \in Gens \cup {NoGen}
      BY <2>3, QueueTypes DEF DeliverStop, TypeOK
    <3>2. Call("notifierStop", Head(wq).gen) \in Events(GuiOps)
      BY <3>1, CallTypes DEF GuiOps
    <3>3. guiQ' = guiQ \/ guiQ' = Append(guiQ, Call("notifierStop", Head(wq).gen))
      BY <2>3 DEF DeliverStop
    <3> QED BY <1>2, <3>2, <3>3
  <2>4. CASE DestroyWorker
    <3>1. Call("quit", NoGen) \in Events(GuiOps)
      BY CallTypes DEF GuiOps
    <3> QED BY <1>2, <2>4, <3>1 DEF DestroyWorker
  <2> QED BY <2>1, <2>2, <2>3, <2>4 DEF Work, NestedDeliverStop, WorkerLoop, LoopDeliverStop
<1>5. UNCHANGED wq \/ (wq # <<>> /\ wq' = Tail(wq))
  BY DEF Work, AbortPhase, NestedDeliverStop, WorkerLoop, LoopDeliverStop, DeliverStop,
         BeginStep, CompleteStep, FailStep, BindListener, EnterQuietPhase, OpenPhase, FailOpen,
         FinishPhase, FailPhase, DeliverEnd, DestroyWorker, ExitThread
<1>6. /\ Queued(wq') \subseteq Queued(wq)
      /\ Queued(wq) \subseteq Queued(wq') \cup {Head(wq)}
  <2>1. CASE UNCHANGED wq
    BY <2>1
  <2>2. CASE wq # <<>> /\ wq' = Tail(wq)
    BY <1>1, <2>2, TakeQueue
  <2> QED BY <1>5, <2>1, <2>2
<1>7. UNCHANGED guiVars
  BY DEF Work, AbortPhase, NestedDeliverStop, WorkerLoop, LoopDeliverStop, DeliverStop,
         BeginStep, CompleteStep, FailStep, BindListener, EnterQuietPhase, OpenPhase, FailOpen,
         FinishPhase, FailPhase, DeliverEnd, DestroyWorker, ExitThread
<1> QED BY <1>4, <1>5, <1>6, <1>7

-----------------------------------------------------------------------------
(* The worker of a run                                                     *)

(* A run starts with a worker that is new, or was made before the wait.    *)
LEMMA NewRun ==
  ASSUME IInv, Start \/ EndWait, started'
  PROVE  /\ gen' \in alive' \ doomed /\ UNCHANGED doomed
         /\ \A e \in Queued(wq) : e.op = "deleteLater" => e.gen # gen'
         /\ ~stopRequested'
<1>1. /\ gen \in Nat /\ started \in BOOLEAN /\ \A e \in Queued(wq) : e.gen \in Nat
  BY QueuedEvents DEF IInv, TypeOK, GuiTypeOK, QueueTypeOK, Gens, NoGen
<1>2. /\ \A e \in Queued(wq) : e.op = "deleteLater" => e.gen <= gen
      /\ \A g \in alive \cup doomed : g <= gen
      /\ alive \subseteq Nat /\ doomed \subseteq Nat
  BY DEF IInv, StepProtocol, WorkerOutlivesRun, TypeOK, WorkTypeOK, Gens
<1>3. CASE Start
  <2>1. alive' = alive \cup {gen + 1} /\ ~started /\ UNCHANGED doomed
    BY <1>3 DEF Start, StartRun
  <2>2. gen' = gen + 1 /\ ~stopRequested'
    BY <1>3, <2>1 DEF Start, StartRun
  <2>3. gen + 1 \notin doomed /\ \A e \in Queued(wq) : e.op = "deleteLater" => e.gen # gen + 1
    BY <1>1, <1>2
  <2> QED BY <2>1, <2>2, <2>3
<1>4. CASE EndWait
  <2>1. guiPc = "startWait" /\ gen' = gen /\ UNCHANGED <<alive, doomed>> /\ ~stopRequested'
    BY <1>4 DEF EndWait, StartRun
  <2> QED BY <2>1 DEF IInv, StepProtocol, WorkerOutlivesRun
<1> QED BY <1>3, <1>4

(* Every other step of the GUI thread leaves the workers alone, and starts *)
(* no run.                                                                 *)
LEMMA OldRun ==
  ASSUME TypeOK, GuiLoop \/ ForwardStop \/ PressStop \/ PressCancel \/ AnswerCancel \/ CloseCanceledBox
  PROVE  /\ started' => started
         /\ UNCHANGED <<gen, alive, doomed, nCurrent, live, lStop>>
<1>1. ASSUME NEW q, Finish(q) PROVE started' = FALSE
  BY <1>1 DEF Finish
<1>2. ASSUME ProcessCancel PROVE started' => started
  BY <1>1, <1>2 DEF ProcessCancel
<1>3. CASE OnStepCompleted \/ OnStepFailed
  <2>1. ProcessCancel \/ started' = FALSE \/ UNCHANGED started
    BY <1>3 DEF OnStepCompleted, OnStepFailed, Finish
  <2>2. UNCHANGED <<gen, alive, doomed, nCurrent, live, lStop>>
    BY <1>3 DEF OnStepCompleted, OnStepFailed, noteVars
  <2> QED BY <1>2, <2>1, <2>2
<1>4. CASE OnQuit \/ OnNotifierStop \/ ForwardStop \/ PressStop \/ PressCancel \/ AnswerCancel
  BY <1>4 DEF OnQuit, OnNotifierStop, ForwardStop, PressStop, PressCancel, AnswerCancel, guiVars, noteVars
<1>5. CASE CloseCanceledBox
  BY <1>1, <1>5 DEF CloseCanceledBox, noteVars
<1> QED BY <1>3, <1>4, <1>5 DEF GuiLoop

(* The worker thread destroys only workers whose deletion was asked for.   *)
LEMMA OnlyDoomedDie ==
  ASSUME TypeOK, Work \/ AbortPhase \/ NestedDeliverStop \/ WorkerLoop
  PROVE  /\ \A g \in doomed' \ doomed : \E e \in Queued(wq) : e.op = "deleteLater" /\ e.gen = g
         /\ alive' \subseteq alive /\ alive \ alive' \subseteq doomed
<1>1. CASE DeliverEnd
  <2>1. wq # <<>> => Head(wq) \in Queued(wq)
    BY TakeQueue DEF TypeOK, QueueTypeOK
  <2> QED BY <1>1, <2>1 DEF DeliverEnd
<1>2. CASE DestroyWorker
  BY <1>2 DEF DestroyWorker
<1>3. CASE Work \/ AbortPhase \/ NestedDeliverStop \/ LoopDeliverStop \/ ExitThread
  <2>1. UNCHANGED <<alive, doomed>>
    BY <1>3 DEF Work, AbortPhase, NestedDeliverStop, LoopDeliverStop, DeliverStop, ExitThread,
           BeginStep, CompleteStep, FailStep, BindListener, EnterQuietPhase, OpenPhase, FailOpen,
           FinishPhase, FailPhase
  <2> QED BY <2>1
<1> QED BY <1>1, <1>2, <1>3 DEF WorkerLoop

LEMMA WorkerKeptStep ==
  ASSUME IInv, WorkerKept, Next
  PROVE  WorkerKept'
<1> USE DEF WorkerKept
<1>1. TypeOK
  BY DEF IInv
<1>2. CASE Work \/ AbortPhase \/ NestedDeliverStop \/ WorkerLoop
  <2>1. /\ Queued(wq') \subseteq Queued(wq) /\ UNCHANGED <<started, gen>>
    BY <1>1, <1>2, WorkerTakes DEF guiVars
  <2>2. /\ \A g \in doomed' \ doomed : \E e \in Queued(wq) : e.op = "deleteLater" /\ e.gen = g
        /\ alive \ alive' \subseteq doomed
    BY <1>1, <1>2, OnlyDoomedDie
  <2> QED BY <2>1, <2>2
<1>3. CASE Start \/ EndWait
  <2> SUFFICES ASSUME started' PROVE /\ gen' \in alive' \ doomed'
                                     /\ \A e \in Queued(wq') : e.op = "deleteLater" => e.gen # gen'
    OBVIOUS
  <2>1. /\ gen' \in alive' \ doomed /\ UNCHANGED doomed
        /\ \A e \in Queued(wq) : e.op = "deleteLater" => e.gen # gen'
    BY <1>3, NewRun
  <2>2. \A e \in Queued(wq') \ Queued(wq) : e.op = "deleteLater" => ~started'
    BY <1>1, <1>3, GuiAdds DEF User
  <2> QED BY <2>1, <2>2
<1>4. CASE GuiLoop \/ ForwardStop \/ PressStop \/ PressCancel \/ AnswerCancel \/ CloseCanceledBox
  <2>1. (started' => started) /\ UNCHANGED <<gen, alive, doomed>>
    BY <1>1, <1>4, OldRun
  <2>2. \A e \in Queued(wq') \ Queued(wq) : e.op = "deleteLater" => ~started'
    BY <1>1, <1>4, GuiAdds DEF User
  <2> QED BY <2>1, <2>2
<1> QED BY <1>2, <1>3, <1>4 DEF Next, User

-----------------------------------------------------------------------------
(* Notifiers and listeners                                                 *)

(* What the worker thread does to the listeners of a step.                 *)
LEMMA ListenerFacts ==
  ASSUME TypeOK, wPc # "loop"
  PROVE  Listener[1] = wGen /\ wGen \in Gens /\ Listener \in Listeners /\ Listener # NoListener
<1>1. wGen \in Gens
  BY DEF TypeOK, WorkTypeOK
<1>2. Listener[1] = wGen
  BY DEF Listener
<1>3. NoListener[1] = NoGen /\ NoGen \notin Gens
  BY DEF NoListener, Gens, NoGen
<1> QED BY <1>1, <1>2, <1>3, ListenerType DEF TypeOK

LEMMA NotesStep ==
  ASSUME IInv, NotesMatch, Next
  PROVE  NotesMatch'
<1>1. /\ TypeOK /\ nStop \in [Gens -> BOOLEAN] /\ nCurrent \in [Gens -> Listeners]
      /\ gen \in Nat /\ Gens \subseteq Nat
  BY DEF IInv, TypeOK, NoteTypeOK, GuiTypeOK, Gens, NoGen
<1>2. \A g \in alive : g <= gen
  BY DEF IInv, StepProtocol, WorkerOutlivesRun
<1>3. CASE Start \/ EndWait
  <2>1. UNCHANGED noteVars /\ (gen' = gen \/ gen' = gen + 1)
    BY <1>3 DEF Start, EndWait, StartRun
  <2> QED BY <1>1, <2>1 DEF NotesMatch, noteVars
<1>4. CASE OnNotifierStop
  <2>1. UNCHANGED <<gen, nCurrent, live>>
    BY <1>4 DEF OnNotifierStop
  <2>2. nStop' = nStop \/ \E g \in alive : nStop' = [nStop EXCEPT ![g] = TRUE]
    BY <1>4 DEF OnNotifierStop
  <2>3. \A g \in Gens : nStop'[g] => nStop[g] \/ g \in alive
    BY <1>1, <2>2
  <2> QED BY <1>2, <2>1, <2>3 DEF NotesMatch
<1>5. CASE OnStepCompleted \/ OnStepFailed \/ OnQuit \/ ForwardStop \/ PressStop \/ PressCancel
           \/ AnswerCancel \/ CloseCanceledBox
  <2>1. UNCHANGED noteVars /\ UNCHANGED gen
    BY <1>5 DEF OnStepCompleted, OnStepFailed, OnQuit, ForwardStop, PressStop, PressCancel,
                AnswerCancel, CloseCanceledBox, guiVars
  <2> QED BY <2>1 DEF NotesMatch, noteVars
<1>6. CASE Work \/ AbortPhase \/ NestedDeliverStop \/ WorkerLoop
  <2>1. gen' = gen /\ nStop' = nStop
    BY <1>6 DEF Work, AbortPhase, NestedDeliverStop, WorkerLoop, LoopDeliverStop, DeliverStop,
         BeginStep, CompleteStep, FailStep, BindListener, EnterQuietPhase, OpenPhase, FailOpen,
         FinishPhase, FailPhase, DeliverEnd, DestroyWorker, ExitThread, guiVars, noteVars
  <2>2. /\ nCurrent' = nCurrent \/ \E g \in Gens : \E l \in {NoListener, Listener} :
             /\ nCurrent' = [nCurrent EXCEPT ![g] = l]
             /\ l = NoListener \/ (wPc # "loop" /\ g = wGen)
        /\ \A l \in live' : l \in live \/ (wPc # "loop" /\ l = Listener)
    <3>1. CASE BeginStep
      <4>1. wq # <<>> => Head(wq).gen \in Gens \cup {NoGen}
        BY <1>1, QueueTypes DEF TypeOK
      <4>2. alive \subseteq Gens
        BY <1>1 DEF TypeOK, WorkTypeOK
      <4> QED BY <3>1, <4>1, <4>2 DEF BeginStep
    <3>2. CASE BindListener
      BY <1>1, <3>2, ListenerFacts DEF BindListener
    <3>3. CASE FailOpen \/ FailPhase \/ FinishPhase \/ AbortPhase
      BY <1>1, <3>3, ListenerFacts DEF FailOpen, FailPhase, FinishPhase, AbortPhase, LeavePhase, DropListener
    <3>4. CASE DestroyWorker
      BY <3>4 DEF DestroyWorker
    <3>5. CASE CompleteStep \/ FailStep \/ EnterQuietPhase \/ OpenPhase \/ DeliverStop \/ DeliverEnd \/ ExitThread
      <4>1. UNCHANGED <<nCurrent, live>>
        BY <3>5 DEF CompleteStep, FailStep, EnterQuietPhase, OpenPhase, DeliverStop, DeliverEnd, ExitThread, noteVars
      <4> QED BY <4>1
    <3> QED BY <1>6, <3>1, <3>2, <3>3, <3>4, <3>5 DEF Work, NestedDeliverStop, WorkerLoop, LoopDeliverStop
  <2>3. \A g \in Gens : nCurrent'[g] # NoListener => nCurrent'[g][1] = g
    BY <1>1, <2>2, ListenerFacts DEF NotesMatch
  <2>4. \A l \in live' : l[1] \in Gens
    BY <1>1, <2>2, ListenerFacts DEF NotesMatch
  <2> QED BY <2>1, <2>3, <2>4 DEF NotesMatch
<1> QED BY <1>3, <1>4, <1>5, <1>6 DEF Next, User, GuiLoop

-----------------------------------------------------------------------------
(* A stop request on its way                                               *)

LEMMA StopCalls ==
  /\ \A op, g : Call(op, g).op = op /\ Call(op, g).gen = g
  /\ \A op, g, l : /\ Event(op, g, l).op = op /\ Event(op, g, l).gen = g
                  /\ Event(op, g, l).lis = l
  /\ NoListener \notin {l \in Listeners : l[1] \in Gens}
<1>1. NoListener[1] = NoGen /\ NoGen \notin Gens
  BY DEF NoListener, Gens, NoGen
<1> QED BY <1>1 DEF Call, Event

LEMMA StopOnItsWayStep ==
  ASSUME IInv, WorkerKept, NotesMatch, StopOnItsWay, Next
  PROVE  StopOnItsWay'
<1>1. /\ TypeOK /\ nStop \in [Gens -> BOOLEAN] /\ alive \subseteq Gens
      /\ wq \in Seq(Events(WorkerOps)) /\ guiQ \in Seq(Events(GuiOps)) /\ gen \in Gens \cup {NoGen}
  BY DEF IInv, TypeOK, NoteTypeOK, WorkTypeOK, QueueTypeOK, GuiTypeOK
<1> SUFFICES ASSUME started', stopRequested'
             PROVE  \/ Call("requestStop", gen') \in Queued(wq')
                    \/ Call("notifierStop", gen') \in Queued(guiQ')
                    \/ nStop'[gen']
  BY DEF StopOnItsWay
<1>2. CASE Start \/ EndWait
  BY <1>2, NewRun
<1>3. CASE GuiLoop \/ ForwardStop \/ PressStop \/ PressCancel \/ AnswerCancel \/ CloseCanceledBox
  <2>1. started /\ gen' = gen /\ gen \in alive
    BY <1>1, <1>3, OldRun DEF WorkerKept
  <2>2. Queued(wq) \subseteq Queued(wq')
    BY <1>1, <1>3, GuiAdds DEF User
  <2>3. \A g \in Gens : nStop[g] => nStop'[g]
    BY <1>1, <1>3 DEF GuiLoop, OnStepCompleted, OnStepFailed, OnQuit, OnNotifierStop, ForwardStop,
                      PressStop, PressCancel, AnswerCancel, CloseCanceledBox, noteVars
  <2>4. CASE OnNotifierStop
    <3>1. guiQ # <<>> /\ guiQ' = Tail(guiQ) /\ UNCHANGED stopRequested
      BY <2>4 DEF OnNotifierStop, GuiTakes
    <3>2. Queued(guiQ) = {Head(guiQ)} \cup Queued(guiQ')
      BY <1>1, <3>1, TakeQueue
    <3>3. Head(guiQ).gen \in alive => nStop'[Head(guiQ).gen]
      BY <1>1, <2>4 DEF OnNotifierStop
    <3> QED BY <1>1, <2>1, <2>2, <2>3, <3>1, <3>2, <3>3, StopCalls DEF StopOnItsWay
  <2>5. CASE OnStepCompleted \/ OnStepFailed \/ OnQuit
    <3>1. guiQ # <<>> /\ guiQ' = Tail(guiQ) /\ Head(guiQ).op # "notifierStop" /\ UNCHANGED stopRequested
      BY <2>5 DEF OnStepCompleted, OnStepFailed, OnQuit, GuiTakes, guiVars
    <3>2. Queued(guiQ) = {Head(guiQ)} \cup Queued(guiQ')
      BY <1>1, <3>1, TakeQueue
    <3> QED BY <1>1, <2>1, <2>2, <2>3, <3>1, <3>2, StopCalls DEF StopOnItsWay
  <2>6. CASE ForwardStop \/ PressCancel \/ CloseCanceledBox
    <3>1. UNCHANGED <<guiQ, stopRequested>>
      BY <2>6 DEF ForwardStop, PressCancel, CloseCanceledBox
    <3> QED BY <1>1, <2>1, <2>2, <2>3, <3>1 DEF StopOnItsWay
  <2>7. CASE PressStop \/ AnswerCancel
    <3>1. UNCHANGED guiQ /\ (RequestStop \/ UNCHANGED stopRequested)
      BY <2>7 DEF PressStop, AnswerCancel
    <3>2. CASE stopRequested
      BY <1>1, <2>1, <2>2, <2>3, <3>1, <3>2 DEF StopOnItsWay
    <3>3. CASE ~stopRequested
      <4>1. wq' = Append(wq, Call("requestStop", gen))
        BY <2>1, <3>1, <3>3 DEF RequestStop
      <4>2. Call("requestStop", gen) \in Events(WorkerOps)
        BY <1>1, CallTypes DEF WorkerOps, StopOps
      <4> QED BY <1>1, <2>1, <4>1, <4>2, AppendQueue
    <3> QED BY <3>2, <3>3
  <2> QED BY <1>3, <2>4, <2>5, <2>6, <2>7 DEF GuiLoop
<1>4. CASE Work \/ AbortPhase \/ NestedDeliverStop \/ WorkerLoop
  <2>1. /\ UNCHANGED guiVars /\ Queued(guiQ) \subseteq Queued(guiQ')
        /\ Queued(wq) \subseteq Queued(wq') \cup {Head(wq)}
        /\ UNCHANGED wq \/ wq # <<>>
    BY <1>1, <1>4, WorkerTakes
  <2>2. UNCHANGED nStop
    BY <1>4 DEF Work, AbortPhase, NestedDeliverStop, WorkerLoop, LoopDeliverStop, DeliverStop,
         BeginStep, CompleteStep, FailStep, BindListener, EnterQuietPhase, OpenPhase, FailOpen,
         FinishPhase, FailPhase, DeliverEnd, DestroyWorker, ExitThread, noteVars
  <2>3. started /\ stopRequested /\ gen' = gen /\ gen \in alive
    BY <2>1 DEF guiVars, WorkerKept
  <2>4. CASE UNCHANGED wq \/ Head(wq) # Call("requestStop", gen)
    BY <2>1, <2>2, <2>3, <2>4 DEF StopOnItsWay
  <2>5. CASE wq # <<>> /\ Head(wq) = Call("requestStop", gen) /\ wq' # wq
    <3>1. Head(wq).op = "requestStop" /\ Head(wq).gen = gen
      BY <2>5, StopCalls
    <3>2. DeliverStop
      BY <1>4, <2>5, <3>1 DEF Work, AbortPhase, NestedDeliverStop, WorkerLoop, LoopDeliverStop,
         BeginStep, CompleteStep, FailStep, BindListener, EnterQuietPhase, OpenPhase, FailOpen,
         FinishPhase, FailPhase, DeliverEnd, DestroyWorker, ExitThread, Steps
    <3>3. guiQ' = Append(guiQ, Call("notifierStop", gen))
      BY <2>3, <3>1, <3>2 DEF DeliverStop
    <3>4. Call("notifierStop", gen) \in Events(GuiOps)
      BY <1>1, CallTypes DEF GuiOps
    <3> QED BY <1>1, <2>3, <3>3, <3>4, AppendQueue
  <2> QED BY <2>1, <2>4, <2>5
<1> QED BY <1>2, <1>3, <1>4 DEF Next, User
(* The listener of a notifier that has been told to stop.                  *)
LEMMA ListenersToldGui ==
  ASSUME IInv, NotesMatch, ListenersTold, GuiLoop \/ ForwardStop \/ EndWait \/ User
  PROVE  ListenersTold'
<1>1. /\ TypeOK /\ nStop \in [Gens -> BOOLEAN] /\ nCurrent \in [Gens -> Listeners]
      /\ alive \subseteq Gens /\ gen \in Nat /\ Gens \subseteq Nat
      /\ wq \in Seq(Events(WorkerOps)) /\ guiSeen \in Listeners /\ live \subseteq Listeners
  BY DEF IInv, TypeOK, NoteTypeOK, WorkTypeOK, QueueTypeOK, GuiTypeOK, Gens, NoGen
<1>2. Queued(wq) \subseteq Queued(wq')
  BY <1>1, GuiAdds
<1>3. ASSUME UNCHANGED <<alive, nStop, nCurrent, live, lStop>>, guiPc # "forwardStop"
      PROVE  ListenersTold'
  BY <1>2, <1>3 DEF ListenersTold, Told
<1>4. CASE Start \/ EndWait
  <2>1. /\ UNCHANGED <<nStop, nCurrent, live, lStop>> /\ guiPc # "forwardStop"
        /\ alive' \subseteq alive \cup {gen + 1}
    BY <1>4 DEF Start, EndWait, StartRun, noteVars
  <2>2. \A g \in alive' : g = gen + 1 => ~(g \in Gens /\ nStop[g])
    BY <1>1 DEF NotesMatch
  <2>3. alive' \subseteq Gens
    BY <1>1, <1>4, GuiTypeStep DEF TypeOK, WorkTypeOK, User
  <2>4. ASSUME NEW g \in alive' PROVE Told(g)'
    <3>1. CASE g \in alive
      <4>1. Told(g)
        BY <3>1 DEF ListenersTold
      <4> QED BY <1>2, <2>1, <4>1 DEF Told
    <3>2. CASE g \notin alive
      <4>1. ~nStop'[g]
        BY <2>1, <2>2, <2>3, <3>2
      <4> QED BY <4>1 DEF Told
    <3> QED BY <3>1, <3>2
  <2> QED BY <2>4 DEF ListenersTold
<1>5. CASE OnStepCompleted \/ OnStepFailed \/ OnQuit \/ PressStop \/ PressCancel
           \/ AnswerCancel \/ CloseCanceledBox
  <2>1. UNCHANGED <<alive, nStop, nCurrent, live, lStop>> /\ guiPc # "forwardStop"
    BY <1>5 DEF OnStepCompleted, OnStepFailed, OnQuit, PressStop, PressCancel, AnswerCancel,
                CloseCanceledBox, GuiTakes, noteVars
  <2> QED BY <1>3, <2>1
<1>6. CASE OnNotifierStop
  <2>1. guiPc # "forwardStop" /\ UNCHANGED <<alive, nCurrent, live, lStop>>
    BY <1>6 DEF OnNotifierStop, GuiTakes
  <2> DEFINE h == Head(guiQ).gen
  <2>2. CASE h \notin alive
    BY <1>3, <1>6, <2>1, <2>2 DEF OnNotifierStop
  <2>3. CASE h \in alive
    <3>1. /\ nStop' = [nStop EXCEPT ![h] = TRUE] /\ guiSeen' = nCurrent[h]
          /\ nCurrent[h] # NoListener => guiPc' = "forwardStop"
      BY <1>6, <2>3 DEF OnNotifierStop
    <3>2. NoListener \notin live
      BY <1>1, StopCalls DEF NotesMatch
    <3> HIDE DEF h
    <3>3. ASSUME NEW g \in alive PROVE Told(g)'
      <4>1. CASE g = h
        BY <2>1, <3>1, <3>2, <4>1 DEF Told
      <4>2. CASE g # h
        <5>1. nStop'[g] = nStop[g]
          BY <1>1, <3>1, <4>2
        <5>2. Told(g)
          BY DEF ListenersTold
        <5> QED BY <1>2, <2>1, <5>1, <5>2 DEF Told
      <4> QED BY <4>1, <4>2
    <3> QED BY <2>1, <3>3 DEF ListenersTold
  <2> QED BY <2>2, <2>3
<1>7. CASE ForwardStop
  <2>1. UNCHANGED <<alive, nStop, nCurrent, live, lStop>>
    BY <1>7 DEF ForwardStop, noteVars
  <2>2. ASSUME NEW g \in alive PROVE Told(g)'
    <3>1. Told(g) /\ g \in Gens
      BY <1>1, <2>2 DEF ListenersTold
    <3>2. CASE nCurrent[g] \in live /\ guiSeen = nCurrent[g]
      <4>1. guiSeen[1] = g
        BY <1>1, <3>1, <3>2, StopCalls DEF NotesMatch
      <4>2. wq' = Append(wq, Event("listenerStop", g, nCurrent[g]))
        BY <1>7, <3>2, <4>1 DEF ForwardStop
      <4>3. Event("listenerStop", g, nCurrent[g]) \in Events(WorkerOps)
        BY <1>1, <3>1 DEF Event, Events, WorkerOps, StopOps
      <4> QED BY <1>1, <2>1, <4>2, <4>3, AppendQueue DEF Told
    <3>3. CASE ~(nCurrent[g] \in live /\ guiSeen = nCurrent[g])
      BY <1>2, <2>1, <3>1, <3>3 DEF Told
    <3> QED BY <3>2, <3>3
  <2> QED BY <2>1, <2>2 DEF ListenersTold
<1> QED BY <1>4, <1>5, <1>6, <1>7 DEF GuiLoop, User

LEMMA ListenersToldWorker ==
  ASSUME IInv, NotesMatch, ListenersTold, Work \/ AbortPhase \/ NestedDeliverStop \/ WorkerLoop
  PROVE  ListenersTold'
<1>1. /\ TypeOK /\ nStop \in [Gens -> BOOLEAN] /\ nCurrent \in [Gens -> Listeners]
      /\ alive \subseteq Gens /\ live \subseteq Listeners
  BY DEF IInv, TypeOK, NoteTypeOK, WorkTypeOK
<1>2. /\ Queued(wq) \subseteq Queued(wq') \cup {Head(wq)} /\ UNCHANGED <<guiPc, guiSeen>>
      /\ UNCHANGED wq \/ wq # <<>>
  BY <1>1, WorkerTakes DEF guiVars
<1>3. alive' \subseteq alive
  BY <1>1, OnlyDoomedDie
(* An event that is left where it is.                                      *)
<1>4. ASSUME NEW g \in alive, Told(g),
             \A l \in Listeners : Event("listenerStop", g, l) \in Queued(wq) =>
                                  Event("listenerStop", g, l) \in Queued(wq'),
             nStop'[g] = nStop[g], nCurrent'[g] = nCurrent[g],
             nCurrent[g] \in live' => nCurrent[g] \in live,
             nCurrent[g] \in live' /\ nCurrent[g] \in lStop => nCurrent[g] \in lStop'
      PROVE  Told(g)'
  BY <1>1, <1>2, <1>4 DEF Told
<1>5. ASSUME UNCHANGED wq \/ Head(wq).op # "listenerStop"
      PROVE  \A g, l : Event("listenerStop", g, l) \in Queued(wq) =>
                        Event("listenerStop", g, l) \in Queued(wq')
  BY <1>2, <1>5, StopCalls
<1>6. CASE CompleteStep \/ FailStep \/ EnterQuietPhase \/ OpenPhase \/ DeliverEnd \/ ExitThread
  <2>1. UNCHANGED noteVars /\ (UNCHANGED wq \/ Head(wq).op # "listenerStop")
    BY <1>6 DEF CompleteStep, FailStep, EnterQuietPhase, OpenPhase, DeliverEnd, ExitThread
  <2> QED BY <1>3, <1>4, <1>5, <2>1 DEF noteVars, ListenersTold
<1>7. CASE BeginStep
  <2>1. UNCHANGED <<nStop, live, lStop>> /\ Head(wq).op # "listenerStop"
    BY <1>7 DEF BeginStep, Steps
  <2>2. \A g \in alive : nCurrent'[g] = nCurrent[g] \/ nCurrent'[g] = NoListener
    BY <1>1, <1>7 DEF BeginStep
  <2>3. NoListener \notin live
    BY <1>1, StopCalls DEF NotesMatch
  <2>4. ASSUME NEW g \in alive PROVE Told(g)'
    <3>1. CASE nCurrent'[g] = nCurrent[g]
      BY <1>4, <1>5, <2>1, <3>1 DEF ListenersTold
    <3>2. CASE nCurrent'[g] = NoListener
      BY <2>1, <2>3, <3>2 DEF Told
    <3> QED BY <2>2, <3>1, <3>2
  <2> QED BY <1>3, <2>4 DEF ListenersTold
<1>8. CASE BindListener
  <2>1. /\ wPc # "loop" /\ UNCHANGED <<nStop, wq>> /\ live' = live \cup {Listener}
        /\ nCurrent' = [nCurrent EXCEPT ![wGen] = Listener]
        /\ lStop \subseteq lStop'
    BY <1>8 DEF BindListener
  <2>2. Listener[1] = wGen /\ wGen \in Gens /\ Listener # NoListener
    BY <1>1, <2>1, ListenerFacts
  <2>3. ASSUME NEW g \in alive PROVE Told(g)'
    <3>1. CASE g = wGen
      <4>1. nCurrent'[g] = Listener
        BY <1>1, <2>1, <2>2, <3>1
      <4>2. CASE nStop[wGen] = TRUE
        BY <1>8, <4>1, <4>2 DEF BindListener, Told
      <4>3. CASE nStop[wGen] = FALSE
        <5>1. nStop'[g] = FALSE
          BY <2>1, <3>1, <4>3
        <5> QED BY <5>1 DEF Told
      <4> QED BY <1>1, <2>2, <4>2, <4>3
    <3>2. CASE g # wGen
      <4>1. nCurrent'[g] = nCurrent[g] /\ g \in Gens
        BY <1>1, <2>1, <3>2
      <4>2. nCurrent[g] # Listener
        BY <2>2, <3>2, <4>1 DEF NotesMatch
      <4>3. /\ Told(g) /\ nStop'[g] = nStop[g]
            /\ nCurrent[g] \in live' => nCurrent[g] \in live
            /\ nCurrent[g] \in lStop => nCurrent[g] \in lStop'
        BY <2>1, <4>2 DEF ListenersTold
      <4> QED BY <1>4, <1>5, <2>1, <4>1, <4>3
    <3> QED BY <3>1, <3>2
  <2> QED BY <1>3, <2>3 DEF ListenersTold
<1>9. CASE FailOpen \/ FailPhase \/ FinishPhase \/ AbortPhase
  <2>1. /\ UNCHANGED <<nStop, wq>> /\ wPc # "loop"
        /\ live' \subseteq live /\ \A l \in live' : l \in lStop => l \in lStop'
    BY <1>9 DEF FailOpen, FailPhase, FinishPhase, AbortPhase, LeavePhase, DropListener
  <2>2. nCurrent' = nCurrent \/ nCurrent' = [nCurrent EXCEPT ![wGen] = NoListener]
    BY <1>9 DEF FailOpen, FailPhase, FinishPhase, AbortPhase, LeavePhase
  <2>3. NoListener \notin live'
    BY <1>1, <2>1, StopCalls DEF NotesMatch
  <2>4. ASSUME NEW g \in alive PROVE Told(g)'
    <3>1. CASE nCurrent'[g] = nCurrent[g]
      BY <1>4, <2>1, <3>1 DEF ListenersTold
    <3>2. CASE nCurrent'[g] = NoListener
      BY <2>3, <3>2 DEF Told
    <3> QED BY <1>1, <2>2, <3>1, <3>2
  <2> QED BY <1>3, <2>4 DEF ListenersTold
<1>10. CASE DeliverStop
  <2>1. UNCHANGED <<nStop, nCurrent, live>>
    BY <1>10 DEF DeliverStop
  <2>2. CASE Head(wq).op # "listenerStop"
    <3>1. UNCHANGED lStop
      BY <1>10, <2>2 DEF DeliverStop
    <3> QED BY <1>3, <1>4, <1>5, <2>1, <2>2, <3>1 DEF ListenersTold
  <2>3. CASE Head(wq).op = "listenerStop"
    <3>1. lStop' = IF Head(wq).lis \in live THEN lStop \cup {Head(wq).lis} ELSE lStop
      BY <1>10, <2>3 DEF DeliverStop
    <3>2. ASSUME NEW g \in alive PROVE Told(g)'
      <4>1. CASE Head(wq) = Event("listenerStop", g, nCurrent[g])
        <5>1. Head(wq).lis = nCurrent[g]
          BY <4>1, StopCalls
        <5> QED BY <2>1, <3>1, <5>1 DEF Told
      <4>2. CASE Head(wq) # Event("listenerStop", g, nCurrent[g])
        <5>1. Told(g)
          BY DEF ListenersTold
        <5> QED BY <1>2, <2>1, <3>1, <4>2, <5>1 DEF Told
      <4> QED BY <4>1, <4>2
    <3> QED BY <1>3, <3>2 DEF ListenersTold
  <2> QED BY <2>2, <2>3
<1>11. CASE DestroyWorker
  <2>1. /\ UNCHANGED <<nStop, nCurrent, wq>>
    BY <1>11 DEF DestroyWorker
  <2>2. PICK d \in doomed : /\ alive' = alive \ {d} /\ live' = {l \in live : l[1] # d}
                            /\ lStop' = {l \in lStop : l[1] # d}
    BY <1>11 DEF DestroyWorker
  <2>3. ASSUME NEW g \in alive' PROVE Told(g)'
    BY <1>3, <1>4, <2>1, <2>2 DEF ListenersTold
  <2> QED BY <2>3 DEF ListenersTold
<1> QED
  BY <1>6, <1>7, <1>8, <1>9, <1>10, <1>11 DEF Work, NestedDeliverStop, WorkerLoop, LoopDeliverStop
-----------------------------------------------------------------------------
(* Theorems                                                                *)

StopInv == IInv /\ WorkerKept /\ NotesMatch /\ StopOnItsWay /\ ListenersTold

LEMMA StopInvInit == Init => StopInv
<1> SUFFICES ASSUME Init PROVE StopInv
  OBVIOUS
<1>1. WorkerKept /\ NotesMatch
  BY DEF Init, WorkerKept, NotesMatch
<1>2. StopOnItsWay /\ ListenersTold
  BY DEF Init, StopOnItsWay, ListenersTold
<1> QED BY <1>1, <1>2, InitialProtocol DEF StopInv

LEMMA StopInvStep == StopInv /\ [Next]_vars => StopInv'
<1> SUFFICES ASSUME StopInv, [Next]_vars PROVE StopInv'
  OBVIOUS
<1>1. IInv'
  BY ProtocolStep DEF StopInv
<1>2. CASE Next
  <2>1. ListenersTold'
    BY <1>2, ListenersToldGui, ListenersToldWorker DEF StopInv, Next
  <2> QED
    BY <1>1, <1>2, <2>1, WorkerKeptStep, NotesStep, StopOnItsWayStep DEF StopInv
<1>3. CASE UNCHANGED vars
  <2>1. UNCHANGED <<started, stopRequested, gen, guiPc, guiSeen, guiQ, wq, alive, doomed,
                    nStop, nCurrent, live, lStop>>
    BY <1>3 DEF vars, guiVars, noteVars
  <2>2. WorkerKept' /\ NotesMatch'
    BY <2>1 DEF StopInv, WorkerKept, NotesMatch
  <2>3. StopOnItsWay' /\ ListenersTold'
    BY <2>1 DEF StopInv, StopOnItsWay, ListenersTold, Told
  <2> QED BY <1>1, <2>2, <2>3 DEF StopInv
<1> QED BY <1>2, <1>3

(* A stop request is never lost between the three places that hand it on:  *)
(* at every moment it is queued, or the notifier knows of it, and then the *)
(* listener of the phase at hand knows of it or is about to be told.       *)
THEOREM StopIsNeverLost == Safe => []StopNeverLost
<1>1. StopInv => StopNeverLost
  <2> SUFFICES ASSUME StopInv PROVE StopNeverLost
    OBVIOUS
  <2>1. started /\ stopRequested =>
          \/ \E i \in DOMAIN wq : wq[i] = Call("requestStop", gen)
          \/ \E i \in DOMAIN guiQ : guiQ[i] = Call("notifierStop", gen)
          \/ nStop[gen]
    BY DEF StopInv, StopOnItsWay, Queued
  <2>2. ASSUME NEW g \in alive, nStop[g] /\ nCurrent[g] \in live
        PROVE  \/ nCurrent[g] \in lStop
               \/ guiPc = "forwardStop" /\ guiSeen = nCurrent[g]
               \/ \E i \in DOMAIN wq : wq[i] = Event("listenerStop", g, nCurrent[g])
    <3>1. Told(g)
      BY DEF StopInv, ListenersTold
    <3> QED BY <2>2, <3>1 DEF Told, Queued
  <2> QED BY <2>1, <2>2 DEF StopNeverLost
<1> QED BY <1>1, StopInvInit, StopInvStep, PTL DEF Safe

-----------------------------------------------------------------------------
(* The thread of a wizard's run                                            *)

(* The wizard starts one run, so quit() is not even queued before its      *)
(* worker is gone.                                                         *)
OneThread ==
  /\ gen \in {NoGen, 1} /\ guiPc # "startWait"
  /\ gen = NoGen => thread = "stopped" /\ ~HasOp(guiQ, {"quit"})
  /\ gen \in alive => thread = "running" /\ ~HasOp(guiQ, {"quit"})

LEMMA OneThreadStep ==
  ASSUME Client = "ProgressPage", IInv, OneThread, Next
  PROVE  OneThread'
<1>1. /\ TypeOK /\ guiQ \in Seq(Events(GuiOps)) /\ alive \subseteq Gens /\ doomed \subseteq Gens
      /\ NoGen \notin Gens /\ Gens \subseteq Nat
      /\ \A g \in alive \cup doomed : g <= gen
  BY DEF IInv, TypeOK, QueueTypeOK, WorkTypeOK, Gens, NoGen, StepProtocol, WorkerOutlivesRun
<1>2. \A g \in doomed : g = gen
  BY <1>1 DEF OneThread, NoGen
<1>3. CASE Start
  <2>1. gen = NoGen /\ thread = "stopped" /\ ~HasOp(guiQ, {"quit"})
    BY <1>3 DEF Start, OneThread
  <2>2. gen' = 1 /\ guiPc' = "loop" /\ thread' = "running" /\ guiQ' = guiQ
    BY <1>3, <2>1 DEF Start, StartRun, IsRunning, NoGen
  <2> QED BY <2>1, <2>2 DEF OneThread, HasOp, NoGen
<1>4. CASE GuiLoop \/ ForwardStop \/ PressStop \/ PressCancel \/ AnswerCancel \/ CloseCanceledBox
  <2>1. UNCHANGED <<gen, alive>>
    BY <1>1, <1>4, OldRun
  <2>2. guiPc' # "startWait"
    BY <1>4 DEF OneThread, GuiLoop, OnStepCompleted, OnStepFailed, OnQuit, OnNotifierStop, ForwardStop,
                PressStop, PressCancel, AnswerCancel, CloseCanceledBox, GuiTakes, guiVars
  <2>3. ~HasOp(guiQ, {"quit"}) => ~HasOp(guiQ', {"quit"}) /\ thread' = thread
    <3>1. CASE GuiLoop
      <4>1. guiQ # <<>> /\ guiQ' = Tail(guiQ) /\ (Head(guiQ).op # "quit" => thread' = thread)
        BY <3>1 DEF GuiLoop, OnStepCompleted, OnStepFailed, OnQuit, OnNotifierStop, GuiTakes
      <4>2. Queued(guiQ) = {Head(guiQ)} \cup Queued(guiQ')
        BY <1>1, <4>1, TakeQueue
      <4> QED BY <4>1, <4>2 DEF HasOp
    <3>2. CASE ~GuiLoop
      <4>1. UNCHANGED <<guiQ, thread>>
        BY <1>4, <3>2 DEF ForwardStop, PressStop, PressCancel, AnswerCancel, CloseCanceledBox
      <4> QED BY <4>1 DEF HasOp
    <3> QED BY <3>1, <3>2
  <2> QED BY <2>1, <2>2, <2>3 DEF OneThread
<1>5. CASE DestroyWorker
  <2>1. /\ gen' = gen /\ guiPc' = guiPc /\ gen \notin alive' /\ gen \in doomed
    BY <1>2, <1>5 DEF DestroyWorker, guiVars
  <2> QED BY <1>1, <2>1 DEF OneThread
<1>6. CASE Work \/ AbortPhase \/ NestedDeliverStop \/ LoopDeliverStop \/ DeliverEnd \/ ExitThread
  <2>1. /\ gen' = gen /\ guiPc' = guiPc /\ UNCHANGED alive
        /\ thread' = thread \/ thread = "exiting"
    BY <1>6 DEF Work, AbortPhase, NestedDeliverStop, WorkerLoop, LoopDeliverStop, DeliverStop,
         BeginStep, CompleteStep, FailStep, BindListener, EnterQuietPhase, OpenPhase, FailOpen,
         FinishPhase, FailPhase, DeliverEnd, ExitThread, guiVars
  <2>2. ~HasOp(guiQ, {"quit"}) => ~HasOp(guiQ', {"quit"})
    <3>1. ASSUME NEW op \in GuiOps, NEW g \in Gens \cup {NoGen}, op # "quit",
                 guiQ' = Append(guiQ, Call(op, g))
          PROVE  ~HasOp(guiQ, {"quit"}) => ~HasOp(guiQ', {"quit"})
      <4>1. Call(op, g) \in Events(GuiOps)
        BY CallTypes
      <4>2. Queued(guiQ') = Queued(guiQ) \cup {Call(op, g)} /\ Call(op, g).op # "quit"
        BY <1>1, <3>1, <4>1, AppendQueue, StopCalls
      <4> QED BY <4>2 DEF HasOp
    <3>2. CASE UNCHANGED guiQ
      BY <3>2 DEF HasOp
    <3>3. CASE CompleteStep \/ FailStep \/ FailOpen \/ FailPhase \/ AbortPhase
      <4>1. /\ wPc # "loop" /\ wGen \in Gens \cup {NoGen}
            /\ EndStep("stepCompleted") \/ EndStep("stepFailed")
        BY <1>1, <3>3 DEF CompleteStep, FailStep, FailOpen, FailPhase, AbortPhase, LeavePhase, TypeOK, WorkTypeOK
      <4>2. \E op \in GuiOps : op # "quit" /\ guiQ' = Append(guiQ, Call(op, wGen))
        BY <4>1 DEF EndStep, GuiOps
      <4> QED BY <3>1, <4>1, <4>2
    <3>4. CASE DeliverStop
      <4>1. wq # <<>> /\ Head(wq).gen \in Gens \cup {NoGen}
        BY <1>1, <3>4, QueueTypes DEF DeliverStop, TypeOK
      <4>2. guiQ' = guiQ \/ guiQ' = Append(guiQ, Call("notifierStop", Head(wq).gen))
        BY <3>4 DEF DeliverStop
      <4> QED BY <3>1, <3>2, <4>1, <4>2 DEF GuiOps
    <3>5. CASE BeginStep \/ BindListener \/ EnterQuietPhase \/ OpenPhase \/ FinishPhase \/ DeliverEnd \/ ExitThread
      <4>1. UNCHANGED guiQ
        BY <3>5 DEF BeginStep, BindListener, EnterQuietPhase, OpenPhase, FinishPhase, DeliverEnd, ExitThread
      <4> QED BY <3>2, <4>1
    <3> QED BY <1>6, <3>3, <3>4, <3>5 DEF Work, NestedDeliverStop, LoopDeliverStop
  <2> QED BY <2>1, <2>2 DEF OneThread
<1>7. ~EndWait
  BY DEF EndWait, OneThread
<1> QED BY <1>3, <1>4, <1>5, <1>6, <1>7 DEF Next, User, WorkerLoop

(* While the wizard's run is on its thread runs and its worker exists, so  *)
(* that the calls of processStep and finish are never made in vain.        *)
THEOREM WizardHasItsThread ==
  ASSUME Client = "ProgressPage"
  PROVE  Safe => []RunHasItsThread
<1>1. Init => StopInv /\ OneThread
  <2>1. Init => OneThread
    BY DEF Init, OneThread, HasOp, Queued
  <2> QED BY <2>1, StopInvInit
<1>2. StopInv /\ OneThread /\ [Next]_vars => (StopInv /\ OneThread)'
  <2> SUFFICES ASSUME StopInv, OneThread, [Next]_vars PROVE StopInv' /\ OneThread'
    OBVIOUS
  <2>1. CASE Next
    BY <2>1, StopInvStep, OneThreadStep DEF StopInv
  <2>2. CASE UNCHANGED vars
    <3>1. UNCHANGED <<gen, guiPc, thread, guiQ, alive>>
      BY <2>2 DEF vars, guiVars
    <3>2. OneThread'
      BY <3>1 DEF OneThread
    <3> QED BY <3>2, StopInvStep
  <2> QED BY <2>1, <2>2
<1>3. StopInv /\ OneThread => RunHasItsThread
  BY DEF StopInv, WorkerKept, OneThread, RunHasItsThread
<1> QED BY <1>1, <1>2, <1>3, PTL DEF Safe

-----------------------------------------------------------------------------
(* The promise of PatchRun                                                 *)


(* An outcome is reported exactly when the run has no work under way.      *)
AsReported ==
  /\ Active => outcome = "none"
  /\ started /\ modal = "canceledBox" => outcome # "none"

(* What is left of the plan after its first n steps is s.                  *)
Follows(s, n) ==
  /\ Len(plan) = n + Len(s)
  /\ \A i \in 1 .. Len(s) : plan[n + i] = s[i]

(* The steps carried out, the one under way and those left make up the     *)
(* plan.  The step under way has been carried out, and recorded, once its  *)
(* result is on its way back.                                              *)
OnPlan ==
  Active =>
    /\ Len(log) <= Len(plan)
    /\ \A i \in 1 .. Len(log) : log[i] = plan[i]
    /\ HasOp(guiQ, {"stepCompleted"}) => Follows(steps, Len(log))
    /\ ~HasOp(guiQ, {"stepCompleted"}) =>
         /\ plan[Len(log) + 1] = currentStep
         /\ Follows(steps, Len(log) + 1)
    /\ \A e \in Queued(wq) : e.op \in Steps => e.op = currentStep
    /\ wPc # "loop" => wStep = currentStep

RunInv == IInv /\ AsReported /\ OnPlan

-----------------------------------------------------------------------------
(* The state of PatchRun                                                   *)

LEMMA PhaseOfRun ==
  ASSUME IInv, AsReported
  PROVE  /\ RunPhase # "idle" <=> Active
         /\ Active => RunPhase = IF stopRequested THEN "stopping" ELSE "running"
         /\ ~Active => RunPhase = "idle"
         /\ QueuedResults = {} <=> ~HasOp(guiQ, Results)
<1>1. QueuedResults = {} <=> ~HasOp(guiQ, Results)
  BY DEF QueuedResults, HasOp, Queued
<1>2. started \in BOOLEAN /\ stopRequested \in BOOLEAN
  BY DEF IInv, TypeOK, GuiTypeOK
<1>3. CASE Active
  <2>1. started = TRUE /\ outcome = "none"
    BY <1>2, <1>3 DEF Active, AsReported
  <2> QED BY <1>1, <1>3, <2>1 DEF RunPhase
<1>4. CASE ~Active
  <2>1. RunPhase = "idle"
    BY <1>4 DEF Active, AsReported, RunPhase
  <2> QED BY <1>1, <1>4, <2>1
<1> QED BY <1>3, <1>4

(* A step that neither starts a run, asks it to stop nor ends a step of it *)
(* is none of PatchRun.                                                    *)
LEMMA QuietStep ==
  ASSUME RunInv,
         UNCHANGED <<started, stopRequested, steps, currentStep, plan, outcome, log>>,
         modal' = "canceledBox" <=> modal = "canceledBox",
         \A ops \in SUBSET Results : HasOp(guiQ, ops)' <=> HasOp(guiQ, ops),
         \A e \in Queued(wq)' : e.op \in Steps => e \in Queued(wq),
         wPc' # "loop" => \/ wPc # "loop" /\ UNCHANGED wStep
                          \/ \E e \in Queued(wq) : e.op \in Steps /\ wStep' = e.op
  PROVE  AsReported' /\ OnPlan' /\ UNCHANGED Promise!vars
<1> USE DEF RunInv
<1>1. Active' <=> Active
  BY DEF Active
<1>2. AsReported'
  BY <1>1 DEF AsReported
<1>3. HasOp(guiQ, {"stepCompleted"})' <=> HasOp(guiQ, {"stepCompleted"})
  BY DEF Results
<1>4. ASSUME Active PROVE OnPlan'
  <2>1. /\ \A e \in Queued(wq) : e.op \in Steps => e.op = currentStep
        /\ wPc # "loop" => wStep = currentStep
    BY <1>4 DEF OnPlan
  <2>2. /\ \A e \in Queued(wq)' : e.op \in Steps => e.op = currentStep'
        /\ wPc' # "loop" => wStep' = currentStep'
    BY <2>1
  <2>3. /\ Len(log)' = Len(log) /\ Len(plan)' = Len(plan) /\ UNCHANGED <<plan, log, steps, currentStep>>
        /\ \A n : Follows(steps, n)' <=> Follows(steps, n)
    BY DEF Follows
  <2> QED BY <1>3, <1>4, <2>2, <2>3 DEF OnPlan, Follows
<1>5. OnPlan'
  BY <1>1, <1>4 DEF OnPlan
<1>6. UNCHANGED RunPhase
  BY DEF RunPhase
<1>7. QueuedResults' = {} <=> QueuedResults = {}
  <2>1. /\ QueuedResults = {} <=> ~HasOp(guiQ, Results)
        /\ QueuedResults' = {} <=> ~HasOp(guiQ, Results)'
    BY DEF QueuedResults, HasOp, Queued
  <2> QED BY <2>1
<1> QED BY <1>2, <1>5, <1>6, <1>7 DEF Promise!vars

(* What an event adds to the results on their way back.                    *)
LEMMA ResultAdded ==
  ASSUME TypeOK, NEW op \in GuiOps, NEW g \in Gens \cup {NoGen}, guiQ' = Append(guiQ, Call(op, g))
  PROVE  \A ops : HasOp(guiQ, ops)' <=> HasOp(guiQ, ops) \/ op \in ops
<1>1. guiQ \in Seq(Events(GuiOps)) /\ Call(op, g) \in Events(GuiOps)
  BY CallTypes DEF TypeOK, QueueTypeOK
<1>2. Queued(guiQ)' = Queued(guiQ) \cup {Call(op, g)} /\ Call(op, g).op = op
  BY <1>1, AppendQueue, StopCalls DEF Queued
<1> QED BY <1>2 DEF HasOp

-----------------------------------------------------------------------------
(* The worker thread                                                       *)

LEMMA QuietWork ==
  ASSUME RunInv,
         \/ BeginStep \/ BindListener \/ EnterQuietPhase \/ OpenPhase \/ FinishPhase
         \/ NestedDeliverStop \/ WorkerLoop
  PROVE  AsReported' /\ OnPlan' /\ UNCHANGED Promise!vars
<1>1. TypeOK
  BY DEF RunInv, IInv
<1>2. UNCHANGED guiVars /\ Queued(wq') \subseteq Queued(wq)
  BY <1>1, WorkerTakes DEF Work
<1>3. UNCHANGED log
  BY DEF BeginStep, BindListener, EnterQuietPhase, OpenPhase, FinishPhase, NestedDeliverStop,
         WorkerLoop, LoopDeliverStop, DeliverStop, DeliverEnd, DestroyWorker, ExitThread
<1>4. \A ops \in SUBSET Results : HasOp(guiQ, ops)' <=> HasOp(guiQ, ops)
  <2>1. CASE UNCHANGED guiQ
    BY <2>1 DEF HasOp, Queued
  <2>2. CASE DeliverStop
    <3>1. wq # <<>> /\ Head(wq).gen \in Gens \cup {NoGen}
      BY <1>1, <2>2, QueueTypes DEF DeliverStop, TypeOK
    <3>2. guiQ' = guiQ \/ guiQ' = Append(guiQ, Call("notifierStop", Head(wq).gen))
      BY <2>2 DEF DeliverStop
    <3>3. "notifierStop" \in GuiOps \ Results
      BY DEF GuiOps, Results
    <3> QED BY <1>1, <2>1, <3>1, <3>2, <3>3, ResultAdded
  <2>3. CASE DestroyWorker
    <3>1. "quit" \in GuiOps \ Results
      BY DEF GuiOps, Results
    <3> QED BY <1>1, <2>3, <3>1, ResultAdded DEF DestroyWorker
  <2>4. CASE BeginStep \/ BindListener \/ EnterQuietPhase \/ OpenPhase \/ FinishPhase \/ DeliverEnd \/ ExitThread
    <3>1. UNCHANGED guiQ
      BY <2>4 DEF BeginStep, BindListener, EnterQuietPhase, OpenPhase, FinishPhase, DeliverEnd, ExitThread
    <3> QED BY <2>1, <3>1
  <2> QED BY <2>2, <2>3, <2>4 DEF NestedDeliverStop, WorkerLoop, LoopDeliverStop
<1>5. wPc' # "loop" => \/ wPc # "loop" /\ UNCHANGED wStep
                       \/ \E e \in Queued(wq) : e.op \in Steps /\ wStep' = e.op
  <2>1. CASE BeginStep
    <3>1. wq # <<>> /\ Head(wq).op \in Steps /\ Head(wq) \in Queued(wq) /\ wPc = "loop"
      BY <1>1, <2>1, TakeQueue DEF BeginStep, TypeOK, QueueTypeOK, IsWorkerIdle
    <3>2. UNCHANGED workVars \/ wStep' = Head(wq).op
      BY <2>1 DEF BeginStep
    <3> QED BY <3>1, <3>2 DEF workVars
  <2>2. CASE ~BeginStep
    BY <2>2 DEF BindListener, EnterQuietPhase, OpenPhase, FinishPhase, LeavePhase, NestedDeliverStop,
         WorkerLoop, LoopDeliverStop, DeliverStop, DeliverEnd, DestroyWorker, ExitThread, workVars
  <2> QED BY <2>1, <2>2
<1>6. UNCHANGED <<started, stopRequested, steps, currentStep, plan, outcome, log, modal>>
  BY <1>2, <1>3 DEF guiVars
<1>7. Queued(wq)' \subseteq Queued(wq)
  BY <1>2 DEF Queued
<1> QED BY <1>4, <1>5, <1>6, <1>7, QuietStep

(* The worker hands in the result of its step: a success is the next step  *)
(* of the plan, a failure ends the last chance of a run asked to stop.     *)
LEMMA ResultStep ==
  ASSUME RunInv, CompleteStep \/ FailStep \/ FailOpen \/ FailPhase \/ AbortPhase
  PROVE  AsReported' /\ OnPlan' /\ [Promise!Next]_(Promise!vars)
<1>1. /\ TypeOK /\ wPc # "loop" /\ UNCHANGED <<guiVars, wq>> /\ wPc' = "loop"
      /\ CompleteStep => EndStep("stepCompleted")
      /\ ~CompleteStep => EndStep("stepFailed")
  BY DEF RunInv, IInv, CompleteStep, FailStep, FailOpen, FailPhase, AbortPhase, LeavePhase, EndStep
<1>2. /\ Active /\ ~HasOp(guiQ, Results) /\ ~HasOp(wq, Steps)
      /\ wGen \in Gens /\ wStep \in Steps
  BY <1>1 DEF RunInv, IInv, StepProtocol, StepIsOneToken, TypeOK, WorkTypeOK
<1>3. /\ log \in Seq(Steps) /\ plan \in Seq(Steps) /\ steps \in Seq(Steps)
      /\ started \in BOOLEAN /\ stopRequested \in BOOLEAN
  BY <1>1 DEF TypeOK, GuiTypeOK, HistoryTypeOK
<1>4. UNCHANGED <<started, stopRequested, steps, currentStep, plan, outcome, modal>>
  BY <1>1 DEF guiVars
<1>5. AsReported' /\ (Active' <=> Active) /\ UNCHANGED RunPhase
  BY <1>4 DEF RunInv, AsReported, Active, RunPhase
<1>6. /\ RunPhase = IF stopRequested THEN "stopping" ELSE "running"
      /\ QueuedResults = {}
  BY <1>2, PhaseOfRun DEF RunInv
<1>7. ~HasOp(guiQ, {"stepCompleted"})
  BY <1>2 DEF HasOp, Results
<1>8. /\ Len(log) < Len(plan) /\ \A i \in 1 .. Len(log) : log[i] = plan[i]
      /\ plan[Len(log) + 1] = wStep /\ wStep = currentStep
      /\ Len(plan) = Len(log) + 1 + Len(steps)
      /\ \A i \in 1 .. Len(steps) : plan[Len(log) + 1 + i] = steps[i]
      /\ Len(log) \in Nat /\ Len(steps) \in Nat
  <2>1. /\ \A i \in 1 .. Len(log) : log[i] = plan[i]
        /\ plan[Len(log) + 1] = currentStep /\ Follows(steps, Len(log) + 1)
        /\ wStep = currentStep
    BY <1>1, <1>2, <1>7 DEF RunInv, OnPlan
  <2>2. Len(log) \in Nat /\ Len(steps) \in Nat
    BY <1>3, LenProperties
  <2>3. /\ Len(plan) = Len(log) + 1 + Len(steps)
        /\ \A i \in 1 .. Len(steps) : plan[Len(log) + 1 + i] = steps[i]
    BY <2>1 DEF Follows
  <2> QED BY <2>1, <2>2, <2>3
<1>9. \A e \in Queued(wq)' : e.op \notin Steps
  BY <1>1, <1>2 DEF HasOp, Queued
<1>10. ASSUME NEW r \in Results, EndStep(r)
       PROVE  /\ QueuedResults' # {}
              /\ HasOp(guiQ, {"stepCompleted"})' <=> r = "stepCompleted"
  <2>1. guiQ' = Append(guiQ, Call(r, wGen)) /\ r \in GuiOps
    BY <1>10 DEF EndStep, Results, GuiOps
  <2>2. \A ops : HasOp(guiQ, ops)' <=> HasOp(guiQ, ops) \/ r \in ops
    BY <1>1, <1>2, <2>1, ResultAdded
  <2>3. HasOp(guiQ, Results)' /\ (HasOp(guiQ, {"stepCompleted"})' <=> r = "stepCompleted")
    BY <1>7, <1>10, <2>2
  <2> QED BY <2>3 DEF QueuedResults, HasOp, Queued
<1>11. CASE CompleteStep
  <2>1. log' = Append(log, wStep)
    BY <1>1, <1>11 DEF EndStep
  <2>2. QueuedResults' # {} /\ HasOp(guiQ, {"stepCompleted"})'
    BY <1>1, <1>10, <1>11 DEF Results
  <2>3. /\ Len(log') = Len(log) + 1
        /\ \A i \in 1 .. Len(log) : log'[i] = log[i]
        /\ log'[Len(log) + 1] = wStep
    BY <1>2, <1>3, <2>1, AppendProperties
  <2>4. /\ Len(log') <= Len(plan)
        /\ \A i \in 1 .. Len(log') : log'[i] = plan[i]
        /\ Len(plan) = Len(log') + Len(steps)
        /\ \A i \in 1 .. Len(steps) : plan[Len(log') + i] = steps[i]
    BY <1>8, <2>3
  <2>5. Follows(steps, Len(log))'
    BY <1>4, <2>4 DEF Follows
  <2>6. OnPlan'
    BY <1>1, <1>4, <1>9, <2>2, <2>4, <2>5 DEF OnPlan
  <2>7. log' = Append(log, plan[Len(log) + 1])
    BY <1>8, <2>1
  <2>8. Promise!Perform
    BY <1>4, <1>5, <1>6, <1>8, <2>2, <2>7 DEF Promise!Perform
  <2> QED BY <1>5, <2>6, <2>8 DEF Promise!Next
<1>12. CASE ~CompleteStep
  <2>1. UNCHANGED log
    BY <1>1, <1>12 DEF EndStep
  <2>2. QueuedResults' # {} /\ ~HasOp(guiQ, {"stepCompleted"})'
    BY <1>1, <1>10, <1>12 DEF Results
  <2>3. Follows(steps, Len(log) + 1)' /\ (plan[Len(log) + 1])' = currentStep'
    BY <1>4, <1>8, <2>1 DEF Follows
  <2>4. (Len(log) <= Len(plan))' /\ (\A i \in 1 .. Len(log) : log[i] = plan[i])'
    BY <1>4, <1>8, <1>3, LenProperties, <2>1
  <2>5. OnPlan'
    BY <1>1, <1>9, <2>2, <2>3, <2>4 DEF OnPlan
  <2>6. CASE stopRequested
    <3>1. Promise!GiveUp
      BY <1>4, <1>5, <1>6, <2>1, <2>2, <2>6 DEF Promise!GiveUp
    <3> QED BY <1>5, <2>5, <3>1 DEF Promise!Next
  <2>7. CASE ~stopRequested
    <3>1. UNCHANGED Promise!vars
      BY <1>4, <1>5, <1>6, <2>1, <2>7 DEF Promise!vars
    <3> QED BY <1>5, <2>5, <3>1
  <2> QED BY <2>6, <2>7
<1> QED BY <1>11, <1>12

-----------------------------------------------------------------------------
(* The GUI thread                                                          *)

(* The controller takes the result of the step under way: then none is.    *)
LEMMA ResultTaken ==
  ASSUME RunInv, OnStepCompleted \/ OnStepFailed
  PROVE  /\ Active /\ ~HasOp(wq, Steps) /\ wPc = "loop" /\ QueuedResults' = {}
         /\ ~HasOp(guiQ, {"stepCompleted"})'
         /\ HasOp(guiQ, {"stepCompleted"}) <=> OnStepCompleted
         /\ UNCHANGED <<stopRequested, plan, log, wPc>>
<1>1. /\ guiQ \in Seq(Events(GuiOps)) /\ guiQ # <<>> /\ guiQ' = Tail(guiQ)
      /\ Head(guiQ).op \in Results
      /\ Head(guiQ).op = "stepCompleted" <=> OnStepCompleted
  BY DEF RunInv, IInv, TypeOK, QueueTypeOK, OnStepCompleted, OnStepFailed, GuiTakes, Results
<1>2. /\ Queued(guiQ) = {Head(guiQ)} \cup Queued(Tail(guiQ))
      /\ AtMostOne(guiQ, Results) => ~HasOp(Tail(guiQ), Results)
  BY <1>1, TakeQueue
<1>3. AtMostOne(guiQ, Results) /\ HasOp(guiQ, Results)
  BY <1>1, <1>2 DEF RunInv, IInv, StepProtocol, StepIsOneToken, HasOp
<1>4. ~HasOp(guiQ', Results) /\ ~HasOp(guiQ', {"stepCompleted"})
  BY <1>1, <1>2, <1>3 DEF HasOp, Results
<1>5. HasOp(guiQ, {"stepCompleted"}) <=> OnStepCompleted
  BY <1>1, <1>2, <1>4 DEF HasOp
<1>6. QueuedResults' = {} /\ ~HasOp(guiQ, {"stepCompleted"})'
  BY <1>4 DEF QueuedResults, HasOp, Queued
<1>7. Active /\ ~HasOp(wq, Steps) /\ wPc = "loop"
  BY <1>3 DEF RunInv, IInv, StepProtocol, StepIsOneToken
<1> QED BY <1>5, <1>6, <1>7 DEF OnStepCompleted, OnStepFailed, workVars

(* The next step of the plan is posted.                                    *)
LEMMA NextStepPosted ==
  ASSUME RunInv, OnStepCompleted, ~stopRequested, steps # <<>>, ProcessStep(gen, steps, wq),
         UNCHANGED <<started, outcome, modal>>
  PROVE  AsReported' /\ OnPlan' /\ UNCHANGED Promise!vars
<1>1. /\ Active /\ ~HasOp(wq, Steps) /\ wPc' = "loop" /\ QueuedResults' = {}
      /\ ~HasOp(guiQ, {"stepCompleted"})' /\ HasOp(guiQ, {"stepCompleted"})
      /\ UNCHANGED <<stopRequested, plan, log>>
  BY ResultTaken
<1>2. /\ TypeOK /\ log \in Seq(Steps) /\ plan \in Seq(Steps) /\ steps \in Seq(Steps)
      /\ gen \in Gens \cup {NoGen} /\ wq \in Seq(Events(WorkerOps))
  BY DEF RunInv, IInv, TypeOK, GuiTypeOK, HistoryTypeOK, QueueTypeOK
<1>3. currentStep' = Head(steps) /\ steps' = Tail(steps) /\ wq' = Append(wq, Call(Head(steps), gen))
  BY DEF ProcessStep
<1>4. AsReported' /\ (Active' <=> Active) /\ UNCHANGED RunPhase
  BY <1>1 DEF RunInv, AsReported, Active, RunPhase
<1>5. /\ Len(log) \in Nat /\ Len(steps) \in Nat /\ Len(steps) # 0
      /\ Head(steps) = steps[1] /\ Head(steps) \in Steps
      /\ Len(steps') = Len(steps) - 1
      /\ \A i \in 1 .. Len(steps') : steps'[i] = steps[i + 1]
  <2>1. Len(log) \in Nat /\ Len(steps) \in Nat /\ Len(steps) # 0
    BY <1>2, LenProperties, EmptySeq
  <2>2. Head(steps) \in Steps /\ Len(steps') = Len(steps) - 1
        /\ \A i \in 1 .. Len(steps') : steps'[i] = steps[i + 1]
    BY <1>2, <1>3, HeadTailProperties
  <2>3. Head(steps) = steps[1]
    BY <1>2
  <2> QED BY <2>1, <2>2, <2>3
<1>6. /\ Len(log) <= Len(plan) /\ \A i \in 1 .. Len(log) : log[i] = plan[i]
      /\ Len(plan) = Len(log) + Len(steps)
      /\ \A i \in 1 .. Len(steps) : plan[Len(log) + i] = steps[i]
  BY <1>1 DEF RunInv, OnPlan, Follows
<1>7. plan[Len(log) + 1] = Head(steps)
  BY <1>5, <1>6, SMTT(30)
<1>8. /\ Len(plan) = Len(log) + 1 + Len(steps')
      /\ \A i \in 1 .. Len(steps') : plan[Len(log) + 1 + i] = steps'[i]
  <2>1. Len(plan) = Len(log) + 1 + Len(steps')
    BY <1>5, <1>6
  <2>2. ASSUME NEW i \in 1 .. Len(steps') PROVE plan[Len(log) + 1 + i] = steps'[i]
    <3>1. i + 1 \in 1 .. Len(steps) /\ Len(log) + 1 + i = Len(log) + (i + 1)
      BY <1>5
    <3> QED BY <1>5, <1>6, <3>1
  <2> QED BY <2>1, <2>2
<1>9. Follows(steps, Len(log) + 1)' /\ (plan[Len(log) + 1])' = currentStep'
  BY <1>1, <1>3, <1>7, <1>8 DEF Follows
<1>10. \A e \in Queued(wq)' : e.op \in Steps => e.op = currentStep'
  <2>1. Call(Head(steps), gen) \in Events(WorkerOps)
    BY <1>2, <1>5, CallTypes DEF WorkerOps
  <2>2. Queued(wq)' = Queued(wq) \cup {Call(Head(steps), gen)}
    <3>1. Queued(wq') = Queued(wq) \cup {Call(Head(steps), gen)}
      BY <1>2, <1>3, <2>1, AppendQueue
    <3> QED BY <3>1 DEF Queued
  <2> QED BY <1>1, <1>3, <2>2, StopCalls DEF HasOp
<1>11. OnPlan'
  BY <1>1, <1>6, <1>9, <1>10 DEF OnPlan
<1>12. UNCHANGED Promise!vars
  BY <1>1, <1>4, PhaseOfRun DEF Promise!vars, RunInv
<1> QED BY <1>4, <1>11, <1>12

(* A run that ends, or will after a box: completed with all of its plan    *)
(* carried out, failed with less, canceled only if asked to stop.          *)
LEMMA RunEnded ==
  ASSUME RunInv, OnStepCompleted \/ OnStepFailed,
         \/ stopRequested /\ ProcessCancel
         \/ OnStepCompleted /\ ~stopRequested /\ steps = <<>> /\ Finish(wq) /\ outcome' = "completed"
         \/ OnStepFailed /\ ~stopRequested /\ Finish(wq) /\ outcome' = "failed"
  PROVE  AsReported' /\ OnPlan' /\ Promise!Next
<1>1. /\ Active /\ QueuedResults' = {} /\ UNCHANGED <<plan, log>>
      /\ HasOp(guiQ, {"stepCompleted"}) <=> OnStepCompleted
  BY ResultTaken
<1>2. /\ log \in Seq(Steps) /\ plan \in Seq(Steps) /\ stopRequested \in BOOLEAN
  BY DEF RunInv, IInv, TypeOK, GuiTypeOK, HistoryTypeOK
<1>3. ASSUME NEW queue, Finish(queue) PROVE started' = FALSE
  BY <1>3 DEF Finish
<1>4. /\ ~Active' /\ RunPhase' = "idle" /\ AsReported'
      /\ ProcessCancel => outcome' = "canceled"
  <2>1. CASE ProcessCancel
    <3>1. outcome' = "canceled" /\ (started' = FALSE \/ modal' = "canceledBox")
      BY <1>3, <2>1 DEF ProcessCancel
    <3> QED BY <3>1 DEF Active, RunPhase, AsReported
  <2>2. CASE Finish(wq) /\ ~stopRequested
    <3>1. started' = FALSE
      BY <1>3, <2>2
    <3>2. ~ProcessCancel \/ outcome' = "canceled"
      BY DEF ProcessCancel
    <3> QED BY <3>1, <3>2 DEF Active, RunPhase, AsReported
  <2> QED BY <2>1, <2>2
<1>5. OnPlan'
  BY <1>4 DEF OnPlan
<1>6. RunPhase = IF stopRequested THEN "stopping" ELSE "running"
  BY <1>1, PhaseOfRun DEF RunInv
<1> SUFFICES Promise!Complete \/ Promise!Fail \/ Promise!Cancel
  BY <1>4, <1>5 DEF Promise!Next
<1>7. CASE stopRequested /\ ProcessCancel
  BY <1>1, <1>4, <1>6, <1>7 DEF Promise!Cancel, Promise!End
<1>8. CASE OnStepCompleted /\ ~stopRequested /\ steps = <<>> /\ outcome' = "completed"
  <2>1. Len(plan) = Len(log) /\ \A i \in 1 .. Len(log) : log[i] = plan[i]
    <3>1. Len(plan) = Len(log) + Len(steps) /\ \A i \in 1 .. Len(log) : log[i] = plan[i]
      BY <1>1, <1>8 DEF RunInv, OnPlan, Follows
    <3>2. Len(steps) = 0 /\ Len(log) \in Nat
      BY <1>2, <1>8, LenProperties
    <3> QED BY <3>1, <3>2
  <2>2. log = plan
    BY <1>2, <2>1, SeqEqual
  <2> QED BY <1>1, <1>4, <1>6, <1>8, <2>2 DEF Promise!Complete, Promise!End
<1>9. CASE OnStepFailed /\ ~stopRequested /\ outcome' = "failed"
  <2>1. ~HasOp(guiQ, {"stepCompleted"})
    <3>1. ~OnStepCompleted
      BY <1>9 DEF OnStepCompleted, OnStepFailed, GuiTakes
    <3> QED BY <1>1, <3>1
  <2>2. Len(plan) = Len(log) + 1 + Len(steps)
    BY <1>1, <2>1 DEF RunInv, OnPlan, Follows
  <2>3. Len(steps) \in Nat /\ Len(log) \in Nat
    BY LenProperties DEF RunInv, IInv, TypeOK, GuiTypeOK, HistoryTypeOK
  <2>4. log # plan
    BY <2>2, <2>3
  <2> QED BY <1>1, <1>4, <1>6, <1>9, <2>4 DEF Promise!Fail, Promise!End
<1> QED BY <1>7, <1>8, <1>9

(* The user asks to stop.                                                  *)
LEMMA StopAsked ==
  ASSUME RunInv, PressStop \/ AnswerCancel
  PROVE  AsReported' /\ OnPlan' /\ [Promise!Next]_(Promise!vars)
<1>1. /\ TypeOK /\ wq \in Seq(Events(WorkerOps)) /\ gen \in Gens \cup {NoGen}
      /\ stopRequested \in BOOLEAN
  BY DEF RunInv, IInv, TypeOK, QueueTypeOK, GuiTypeOK
<1>2. /\ modal' # "canceledBox" /\ modal # "canceledBox"
      /\ UNCHANGED <<started, steps, currentStep, plan, outcome, log, guiQ, wPc, wStep>>
  BY DEF PressStop, AnswerCancel, workVars
<1>3. RequestStop \/ UNCHANGED <<stopRequested, wq>>
  BY DEF PressStop, AnswerCancel
<1>4. \A e \in Queued(wq)' : e.op \in Steps => e \in Queued(wq)
  <2>1. CASE UNCHANGED wq
    BY <2>1 DEF Queued
  <2>2. CASE wq' = Append(wq, Call("requestStop", gen))
    <3>1. Call("requestStop", gen) \in Events(WorkerOps)
      BY <1>1, CallTypes DEF WorkerOps, StopOps
    <3>2. Queued(wq') = Queued(wq) \cup {Call("requestStop", gen)}
      BY <1>1, <2>2, <3>1, AppendQueue
    <3>3. Call("requestStop", gen).op \notin Steps
      BY StopCalls DEF Steps
    <3> QED BY <3>2, <3>3 DEF Queued
  <2> QED BY <1>3, <2>1, <2>2 DEF RequestStop
<1>5. \A ops \in SUBSET Results : HasOp(guiQ, ops)' <=> HasOp(guiQ, ops)
  BY <1>2 DEF HasOp, Queued
<1>6. CASE UNCHANGED stopRequested
  BY <1>2, <1>4, <1>5, <1>6, QuietStep
<1>7. CASE RequestStop /\ ~stopRequested
  <2>1. stopRequested' = TRUE
    BY <1>7 DEF RequestStop
  <2>2. AsReported' /\ (Active' <=> Active)
    BY <1>2 DEF RunInv, AsReported, Active
  <2>3. OnPlan'
    <3>1. ASSUME Active PROVE OnPlan'
      <4>1. HasOp(guiQ, {"stepCompleted"})' <=> HasOp(guiQ, {"stepCompleted"})
        BY <1>5 DEF Results
      <4>2. \A n : Follows(steps, n)' <=> Follows(steps, n)
        BY <1>2 DEF Follows
      <4>3. /\ \A e \in Queued(wq)' : e.op \in Steps => e.op = currentStep'
            /\ wPc' # "loop" => wStep' = currentStep'
        BY <1>2, <1>4, <3>1 DEF RunInv, OnPlan
      <4> QED BY <1>2, <3>1, <4>1, <4>2, <4>3 DEF RunInv, OnPlan, Follows
    <3> QED BY <2>2, <3>1 DEF OnPlan
  <2>4. CASE Active
    <3>1. RunPhase = "running"
      BY <1>7, <2>4, PhaseOfRun DEF RunInv
    <3>2. RunPhase' = "stopping"
      BY <1>2, <2>1, <3>1 DEF RunPhase
    <3>3. Promise!RequestStop
      BY <1>2, <3>1, <3>2 DEF Promise!RequestStop
    <3> QED BY <2>2, <2>3, <3>3 DEF Promise!Next
  <2>5. CASE ~Active
    <3>1. RunPhase = "idle"
      BY <2>5, PhaseOfRun DEF RunInv
    <3>2. RunPhase' = "idle"
      BY <1>2, <3>1 DEF RunPhase
    <3>3. UNCHANGED Promise!vars
      BY <1>2, <3>1, <3>2 DEF Promise!vars
    <3> QED BY <2>2, <2>3, <3>3
  <2> QED BY <2>4, <2>5
<1>8. RequestStop /\ stopRequested => UNCHANGED stopRequested
  BY <1>1 DEF RequestStop
<1> QED BY <1>3, <1>6, <1>7, <1>8

(* A run begins with the first step of its plan.                           *)
LEMMA RunBegins ==
  ASSUME RunInv, NEW g \in Gens, NEW a \in BOOLEAN, NEW i \in BOOLEAN,
         StartRun(g, BuildActionList(a, i)), ~started, modal = "none"
  PROVE  AsReported' /\ OnPlan' /\ Promise!Next
<1> DEFINE list == BuildActionList(a, i)
<1>1. /\ TypeOK /\ wq \in Seq(Events(WorkerOps))
      /\ list \in Seq(Steps) /\ list # <<>>
  BY BuildActionListType DEF RunInv, IInv, TypeOK, QueueTypeOK
<1>2. list \in {BuildActionList(c, d) : c, d \in BOOLEAN}
  OBVIOUS
<1> HIDE DEF list
<1>3. StartRun(g, list)
  BY DEF list
<1>4. /\ started' = TRUE /\ stopRequested' = FALSE /\ plan' = list /\ outcome' = "none" /\ log' = <<>>
      /\ currentStep' = Head(list) /\ steps' = Tail(list) /\ wq' = Append(wq, Call(Head(list), g))
      /\ UNCHANGED <<modal, guiQ, wPc, wStep>>
  BY <1>3 DEF StartRun, ProcessStep, workVars
<1>5. /\ ~HasOp(wq, Steps) /\ ~HasOp(guiQ, Results) /\ wPc = "loop"
  BY DEF RunInv, IInv, StepProtocol, StepIsOneToken, Active
<1>6. AsReported' /\ Active' /\ RunPhase' = "running" /\ RunPhase = "idle"
  BY <1>4 DEF AsReported, Active, RunPhase
<1>7. ~HasOp(guiQ, {"stepCompleted"})'
  BY <1>4, <1>5 DEF HasOp, Queued, Results
<1>8. /\ Head(list) \in Steps /\ Head(list) = list[1]
      /\ Len(list) = 1 + Len(Tail(list)) /\ Len(Tail(list)) \in Nat
      /\ \A k \in 1 .. Len(Tail(list)) : list[1 + k] = Tail(list)[k]
  <2>1. Head(list) = list[1]
    BY <1>1
  <2>2. Len(list) \in Nat
    BY <1>1, LenProperties
  <2>3. /\ Head(list) \in Steps /\ Tail(list) \in Seq(Steps) /\ Len(Tail(list)) = Len(list) - 1
        /\ \A k \in 1 .. Len(Tail(list)) : Tail(list)[k] = list[k + 1]
    BY <1>1, HeadTailProperties
  <2>4. Len(Tail(list)) \in Nat
    BY <2>3, LenProperties
  <2> QED BY <2>1, <2>2, <2>3, <2>4
<1>9. \A e \in Queued(wq)' : e.op \in Steps => e.op = currentStep'
  <2>1. Call(Head(list), g) \in Events(WorkerOps)
    BY <1>8, CallTypes DEF WorkerOps
  <2>2. Queued(wq') = Queued(wq) \cup {Call(Head(list), g)}
    BY <1>1, <1>4, <2>1, AppendQueue
  <2>3. Queued(wq)' = Queued(wq) \cup {Call(Head(list), g)}
    BY <2>2 DEF Queued
  <2> QED BY <1>4, <1>5, <2>3, StopCalls DEF HasOp
<1>10. OnPlan'
  <2>1. Len(log') = 0
    BY <1>4
  <2>2. /\ Len(plan') = 1 + Len(steps') /\ Len(steps') \in Nat
        /\ plan'[1] = currentStep'
        /\ \A k \in 1 .. Len(steps') : plan'[1 + k] = steps'[k]
    BY <1>4, <1>8
  <2>3. /\ (Len(log) <= Len(plan))' /\ (\A k \in 1 .. Len(log) : log[k] = plan[k])'
        /\ (plan[Len(log) + 1] = currentStep)'
    BY <2>1, <2>2
  <2>4. Follows(steps, Len(log) + 1)'
    BY <2>1, <2>2 DEF Follows
  <2> QED BY <1>4, <1>5, <1>7, <1>9, <2>3, <2>4 DEF OnPlan
<1>11. Promise!Begin
  BY <1>2, <1>4, <1>6 DEF Promise!Begin
<1> QED BY <1>6, <1>10, <1>11 DEF Promise!Next

(* start(), which may first wait for the thread of an earlier run.         *)
LEMMA StartStep ==
  ASSUME RunInv, Start \/ EndWait
  PROVE  AsReported' /\ OnPlan' /\ [Promise!Next]_(Promise!vars)
<1>1. CASE EndWait
  <2>1. gen \in Gens /\ ~started /\ modal = "none"
    BY <1>1 DEF EndWait, RunInv, IInv, TypeOK, GuiTypeOK, StepProtocol, WorkerOutlivesRun
  <2> QED BY <1>1, <2>1, RunBegins DEF EndWait
<1>2. CASE Start
  <2>1. gen + 1 \in Gens /\ ~started /\ modal = "none"
    <3>1. gen \in Gens \cup {NoGen} /\ gen < MaxRuns
      BY <1>2 DEF Start, RunInv, IInv, TypeOK, GuiTypeOK
    <3> QED BY <1>2, <3>1, MaxRunsAssumption DEF Start, Gens, NoGen
  <2>2. CASE \E a, i \in BOOLEAN : StartRun(gen + 1, BuildActionList(a, i))
    BY <2>1, <2>2, RunBegins
  <2>3. CASE UNCHANGED <<started, stopRequested, steps, currentStep, plan, outcome, modal, guiQ, wq, workVars, log>>
    <3>1. /\ \A ops \in SUBSET Results : HasOp(guiQ, ops)' <=> HasOp(guiQ, ops)
          /\ Queued(wq)' = Queued(wq)
      BY <2>3 DEF HasOp, Queued
    <3> QED BY <2>3, <3>1, QuietStep DEF workVars
  <2> QED BY <1>2, <2>2, <2>3 DEF Start
<1> QED BY <1>1, <1>2

(* The user dismisses the box after a cancellation that is reported.       *)
LEMMA BoxClosed ==
  ASSUME RunInv, CloseCanceledBox
  PROVE  AsReported' /\ OnPlan' /\ UNCHANGED Promise!vars
<1>1. /\ modal = "canceledBox" /\ started' = FALSE /\ UNCHANGED <<plan, outcome, log>>
  BY DEF CloseCanceledBox, Finish
<1>2. ~Active /\ ~Active' /\ RunPhase' = "idle" /\ AsReported'
  BY <1>1 DEF Active, RunPhase, AsReported
<1>3. RunPhase = "idle"
  BY <1>2, PhaseOfRun DEF RunInv
<1>4. OnPlan'
  BY <1>2 DEF OnPlan
<1>5. UNCHANGED Promise!vars
  BY <1>1, <1>2, <1>3 DEF Promise!vars
<1> QED BY <1>2, <1>4, <1>5

(* What else the GUI thread does leaves the run alone.                     *)
LEMMA QuietGui ==
  ASSUME RunInv, OnQuit \/ OnNotifierStop \/ ForwardStop \/ PressCancel
  PROVE  AsReported' /\ OnPlan' /\ UNCHANGED Promise!vars
<1>1. /\ TypeOK /\ guiQ \in Seq(Events(GuiOps)) /\ wq \in Seq(Events(WorkerOps))
  BY DEF RunInv, IInv, TypeOK, QueueTypeOK
<1>2. /\ UNCHANGED <<started, stopRequested, steps, currentStep, plan, outcome, log, wPc, wStep>>
      /\ modal' = "canceledBox" <=> modal = "canceledBox"
  BY DEF OnQuit, OnNotifierStop, ForwardStop, PressCancel, guiVars, workVars
<1>3. \A ops \in SUBSET Results : HasOp(guiQ, ops)' <=> HasOp(guiQ, ops)
  <2>1. CASE UNCHANGED guiQ
    BY <2>1 DEF HasOp, Queued
  <2>2. CASE guiQ # <<>> /\ guiQ' = Tail(guiQ) /\ Head(guiQ).op \notin Results
    <3>1. Queued(guiQ) = {Head(guiQ)} \cup Queued(guiQ')
      BY <1>1, <2>2, TakeQueue
    <3>2. \A ops \in SUBSET Results : HasOp(guiQ', ops) <=> HasOp(guiQ, ops)
      BY <2>2, <3>1 DEF HasOp
    <3> QED BY <3>2 DEF HasOp, Queued
  <2>3. \/ UNCHANGED guiQ
        \/ guiQ # <<>> /\ guiQ' = Tail(guiQ) /\ Head(guiQ).op \notin Results
    BY DEF OnQuit, OnNotifierStop, ForwardStop, PressCancel, GuiTakes, Results
  <2> QED BY <2>1, <2>2, <2>3
<1>4. \A e \in Queued(wq)' : e.op \in Steps => e \in Queued(wq)
  <2>1. CASE UNCHANGED wq
    BY <2>1 DEF Queued
  <2>2. CASE wq' = Append(wq, Event("listenerStop", guiSeen[1], guiSeen))
    <3> DEFINE e == Event("listenerStop", guiSeen[1], guiSeen)
    <3>1. guiSeen \in Listeners /\ guiSeen[1] \in Gens \cup {NoGen}
      BY <1>1, ListenerTypes DEF TypeOK, GuiTypeOK
    <3>2. e \in Events(WorkerOps) /\ e.op \notin Steps
      BY <3>1 DEF Event, Events, WorkerOps, StopOps, Steps
    <3> HIDE DEF e
    <3>3. Queued(wq') = Queued(wq) \cup {e}
      BY <1>1, <2>2, <3>2, AppendQueue DEF e
    <3> QED BY <3>2, <3>3 DEF Queued
  <2>3. CASE OnQuit \/ OnNotifierStop \/ PressCancel
    BY <2>1, <2>3 DEF OnQuit, OnNotifierStop, PressCancel
  <2>4. CASE ForwardStop
    <3>1. wq' = wq \/ wq' = Append(wq, Event("listenerStop", guiSeen[1], guiSeen))
      BY <2>4 DEF ForwardStop
    <3> QED BY <2>1, <2>2, <3>1
  <2> QED BY <2>3, <2>4
<1> QED BY <1>2, <1>3, <1>4, QuietStep

-----------------------------------------------------------------------------
(* The refinement                                                          *)

LEMMA RunInit == Init => RunInv /\ Promise!Init
<1> SUFFICES ASSUME Init PROVE RunInv /\ Promise!Init
  OBVIOUS
<1>1. IInv
  BY InitialProtocol
<1>2. AsReported /\ OnPlan
  BY DEF Init, AsReported, OnPlan, Active
<1>3. RunPhase = "idle" /\ plan = <<>> /\ log = <<>> /\ outcome = "none"
  BY DEF Init, RunPhase
<1> QED BY <1>1, <1>2, <1>3 DEF RunInv, Promise!Init

LEMMA RunStep == RunInv /\ [Next]_vars => RunInv' /\ [Promise!Next]_(Promise!vars)
<1> SUFFICES ASSUME RunInv, [Next]_vars
             PROVE  AsReported' /\ OnPlan' /\ [Promise!Next]_(Promise!vars)
  BY ProtocolStep DEF RunInv
<1>1. CASE OnStepCompleted
  BY <1>1, NextStepPosted, RunEnded DEF OnStepCompleted
<1>2. CASE OnStepFailed
  BY <1>2, RunEnded DEF OnStepFailed
<1>3. CASE OnQuit \/ OnNotifierStop \/ ForwardStop \/ PressCancel
  BY <1>3, QuietGui
<1>4. CASE PressStop \/ AnswerCancel
  BY <1>4, StopAsked
<1>5. CASE Start \/ EndWait
  BY <1>5, StartStep
<1>6. CASE CloseCanceledBox
  BY <1>6, BoxClosed
<1>7. CASE CompleteStep \/ FailStep \/ FailOpen \/ FailPhase \/ AbortPhase
  BY <1>7, ResultStep
<1>8. CASE \/ BeginStep \/ BindListener \/ EnterQuietPhase \/ OpenPhase \/ FinishPhase
           \/ NestedDeliverStop \/ WorkerLoop
  BY <1>8, QuietWork
<1>9. CASE UNCHANGED vars
  <2>1. /\ UNCHANGED <<started, stopRequested, steps, currentStep, plan, outcome, log, modal, wPc, wStep>>
        /\ \A ops \in SUBSET Results : HasOp(guiQ, ops)' <=> HasOp(guiQ, ops)
        /\ Queued(wq)' = Queued(wq)
    BY <1>9 DEF vars, guiVars, workVars, HasOp, Queued
  <2> QED BY <2>1, QuietStep
<1> QED
  BY <1>1, <1>2, <1>3, <1>4, <1>5, <1>6, <1>7, <1>8, <1>9 DEF Next, User, GuiLoop, Work

(* A run carries out the steps of its plan in order, each at most once; it *)
(* is reported completed only with all of them carried out, failed only    *)
(* with some left, canceled only if the user asked to stop, and exactly    *)
(* one of these; after the request at most the step under way is still     *)
(* carried out.  This is what onStepCompleted, onStepFailed and            *)
(* requestStop of the controller achieve together with the worker.         *)
THEOREM RunKeepsPromise == Safe => ImplementsPatchRun
  BY RunInit, RunStep, PTL DEF Safe, ImplementsPatchRun, Promise!Spec
=============================================================================
