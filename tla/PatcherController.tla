------------------------- MODULE PatcherController -------------------------
(***************************************************************************)
(* The patching run of the Shattered Memories patcher: the controller and  *)
(* its front end in the GUI thread, the worker in its own thread, and the  *)
(* queued calls between them.                                              *)
(*                                                                         *)
(* The GUI thread owns a PatcherController.  It posts one step at a time   *)
(* to a PatcherWorker that lives in m_workerThread and waits for the       *)
(* worker's stepCompleted or stepFailed.  A stop request travels           *)
(*   controller -> worker -> CompoundProgressNotifier -> current listener  *)
(* and, because the notifier is a plain member of the worker, it is never  *)
(* moved to the worker's thread: its slot runs in the GUI thread, and the  *)
(* listener it forwards to lives in the worker's.  Each hop is a queued    *)
(* call.                                                                   *)
(***************************************************************************)
EXTENDS Naturals, Sequences, FiniteSets

CONSTANTS
  Client,   \* the front end: "ProgressPage" (wizard) or "MainFrame" (WorkPatcher)
  MaxRuns,  \* bound on the runs a MainFrame starts; the wizard starts one
  Phases    \* for each step, the kinds of the progress phases it goes through

Steps == {"initialize", "rebuildArchives", "replaceArchives",
          "checkArchives", "checkImage", "finalize"}

(* What a phase works on, by who owns the listener it binds:               *)
(*   archive  a local ArchiveProgressNotifier, finished by Archive::rebuild *)
(*   check    a local CheckingProgressNotifier, finished by its destructor *)
(*   wii      the notifier of the disc image, finished by WiiImage         *)
(*   iso      the notifier of an ISO image, which reports no progress      *)
(*   quiet    none: a file of a Wii image is written, and polls the image's *)
(*            notifier, while that notifier is not bound                   *)
Kinds == {"archive", "check", "wii", "iso", "quiet"}

ASSUME ClientAssumption == Client \in {"ProgressPage", "MainFrame"}
ASSUME MaxRunsAssumption == MaxRuns \in Nat \ {0}
ASSUME PhasesAssumption == Phases \in [Steps -> Seq(Kinds)]

(* Workers are numbered in the order in which they are made; a listener is *)
(* named by its worker, and by the step and phase it is local to or by the *)
(* image it belongs to.                                                    *)
Gens == 1 .. MaxRuns
NoGen == 0
NoStep == "none"
NoListener == <<NoGen, NoStep, 0>>
Listeners == (Gens \cup {NoGen}) \X (Steps \cup {"image", NoStep}) \X Nat

VARIABLES
  \* GUI thread: PatcherController and its front end
  started, stopRequested, steps, currentStep,
  plan,      \* the action list of the run, kept by the front end as m_actions
  gen,       \* the number of the worker m_worker points to (0: none started)
  outcome,   \* the terminal signal last emitted: none, completed, failed, canceled
  modal,     \* the nested event loop of a message box, if one is open
  guiPc,     \* where the GUI thread is inside a handler that may be interleaved
  guiSeen,   \* the listener that handler read from m_currentNotifier
  guiQ,      \* events posted to objects of the GUI thread
  \* Worker thread
  thread,    \* m_workerThread: stopped, running, or exiting after quit()
  wq,        \* events posted to objects of the worker thread
  alive,     \* the workers not yet destroyed
  doomed,    \* the workers whose deferred deletion is pending
  wPc, wGen, wStep, wPhase,  \* the step the worker thread is in
  nStop, nCurrent,           \* m_stopRequested and m_currentNotifier of each notifier
  live,      \* the listeners that exist
  lStop,     \* those whose m_stopRequested is set
  \* History
  log,       \* the steps of this run the worker finished successfully
  faults     \* the ASSERTs and VERIFYs of the source that were false

guiVars == <<started, stopRequested, steps, currentStep, plan, gen, outcome, modal, guiPc, guiSeen>>
workVars == <<wPc, wGen, wStep, wPhase>>
noteVars == <<nStop, nCurrent, live, lStop>>
vars == <<guiVars, guiQ, thread, wq, alive, doomed, workVars, noteVars, log, faults>>

-----------------------------------------------------------------------------
(* Events                                                                  *)

Event(op, g, l) == [op |-> op, gen |-> g, lis |-> l]
Call(op, g) == Event(op, g, NoListener)

StopOps == {"requestStop", "listenerStop"}
WorkerOps == Steps \cup StopOps \cup {"finalizeInternal", "deleteLater"}
GuiOps == {"stepCompleted", "stepFailed", "notifierStop", "quit"}
Results == {"stepCompleted", "stepFailed"}

(* A source assertion: nothing if it holds, its name if it does not.       *)
Broken(cond, name) == IF cond THEN {} ELSE {name}

(* QThread::isRunning                                                      *)
IsRunning == thread # "stopped"

-----------------------------------------------------------------------------
(* PatcherController                                                       *)

(* Mutated: the name of a slot is misspelt.                                *)
BuildActionListMisspelt(checkArchives, checkImage) ==
  <<"initialize", "rebuildArchives", "replaceArchives">>
    \o (IF checkArchives THEN <<"checkArchive">> ELSE <<>>)
    \o (IF checkImage THEN <<"checkImage">> ELSE <<>>)
    \o <<"finalize">>

BuildActionList(checkArchives, checkImage) ==
  <<"initialize", "rebuildArchives", "replaceArchives">>
    \o (IF checkArchives THEN <<"checkArchives">> ELSE <<>>)
    \o (IF checkImage THEN <<"checkImage">> ELSE <<>>)
    \o <<"finalize">>

(* processStep with a step left to do                                      *)
ProcessStep(g, left, queue) ==
  /\ currentStep' = Head(left)
  /\ steps' = Tail(left)
  /\ wq' = Append(queue, Call(Head(left), g))

(* Mutated: m_started is left set.                                         *)
FinishStillStarted(queue) ==
  /\ faults' = faults \cup Broken(IsRunning, "finish")
  /\ wq' = Append(queue, Call("deleteLater", gen))
  /\ UNCHANGED started

(* Mutated: the worker is not deleted.                                     *)
FinishKeepsWorker(queue) ==
  /\ faults' = faults \cup Broken(IsRunning, "finish")
  /\ wq' = queue
  /\ started' = FALSE

Finish(queue) ==
  /\ faults' = faults \cup Broken(IsRunning, "finish")
  /\ wq' = Append(queue, Call("deleteLater", gen))
  /\ started' = FALSE

(* processCancel: the signal runs the front end's slot before finish().    *)
(* MainFrame::onCanceled opens a message box there; the wizard's does not. *)
ProcessCancel ==
  /\ outcome' = "canceled"
  /\ LET queue == Append(wq, Call("finalizeInternal", gen))
     IN \/ /\ Client = "ProgressPage"
           /\ Finish(queue)
           /\ UNCHANGED modal
        \/ /\ Client = "MainFrame"
           /\ modal' = "canceledBox"
           /\ wq' = queue
           /\ UNCHANGED <<started, faults>>
  /\ UNCHANGED <<steps, currentStep>>

(* The GUI thread takes the next event of its queue; a nested event loop   *)
(* does as well.                                                           *)
GuiTakes(op) ==
  /\ guiPc = "loop"
  /\ guiQ # <<>>
  /\ Head(guiQ).op = op
  /\ guiQ' = Tail(guiQ)

(* Mutated: the steps left are looked at before the request to stop.       *)
OnStepCompletedStepsFirst ==
  /\ GuiTakes("stepCompleted")
  /\ \/ /\ steps # <<>>
        /\ stopRequested
        /\ ProcessCancel
     \/ /\ ~stopRequested
        /\ steps # <<>>
        /\ ProcessStep(gen, steps, wq)
        /\ faults' = faults \cup Broken(IsRunning, "processStep")
        /\ UNCHANGED <<started, outcome, modal>>
     \/ /\ steps = <<>>
        /\ Finish(wq)
        /\ outcome' = "completed"
        /\ UNCHANGED <<steps, currentStep, modal>>
  /\ UNCHANGED <<stopRequested, plan, gen, guiPc, guiSeen, thread, alive, doomed, workVars, noteVars, log>>

OnStepCompleted ==
  /\ GuiTakes("stepCompleted")
  /\ \/ /\ stopRequested
        /\ ProcessCancel
     \/ /\ ~stopRequested
        /\ steps # <<>>
        /\ ProcessStep(gen, steps, wq)
        /\ faults' = faults \cup Broken(IsRunning, "processStep")
        /\ UNCHANGED <<started, outcome, modal>>
     \/ /\ ~stopRequested
        /\ steps = <<>>
        /\ Finish(wq)
        /\ outcome' = "completed"
        /\ UNCHANGED <<steps, currentStep, modal>>
  /\ UNCHANGED <<stopRequested, plan, gen, guiPc, guiSeen, thread, alive, doomed, workVars, noteVars, log>>

OnStepFailed ==
  /\ GuiTakes("stepFailed")
  /\ \/ /\ stopRequested
        /\ ProcessCancel
     \/ /\ ~stopRequested
        /\ Finish(wq)
        /\ outcome' = "failed"
        /\ UNCHANGED <<steps, currentStep, modal>>
  /\ UNCHANGED <<stopRequested, plan, gen, guiPc, guiSeen, thread, alive, doomed, workVars, noteVars, log>>

(* MainFrame: the user dismisses the box, and processCancel goes on.       *)
CloseCanceledBox ==
  /\ guiPc = "loop"
  /\ modal = "canceledBox"
  /\ modal' = "none"
  /\ Finish(wq)
  /\ UNCHANGED <<stopRequested, steps, currentStep, plan, gen, outcome, guiPc, guiSeen>>
  /\ UNCHANGED <<guiQ, thread, alive, doomed, workVars, noteVars, log>>

(* m_workerThread.quit(), called by the destroyed() signal of a worker.    *)
OnQuit ==
  /\ GuiTakes("quit")
  /\ thread' = IF thread = "running" THEN "exiting" ELSE thread
  /\ UNCHANGED <<guiVars, wq, alive, doomed, workVars, noteVars, log, faults>>

(* requestStop: a call through m_worker, which is not cleared when the     *)
(* worker is deleted.  A call on a destroyed worker is recorded as a fault. *)
(* Mutated: the worker is deleted at once, not when its step is over.      *)
RequestStopDeletes ==
  /\ stopRequested' = TRUE
  /\ \/ /\ stopRequested
        /\ UNCHANGED <<wq, faults>>
     \/ /\ ~stopRequested
        /\ UNCHANGED faults
        /\ wq' = wq \o <<Call("requestStop", gen), Call("deleteLater", gen)>>

RequestStop ==
  /\ stopRequested' = TRUE
  /\ \/ /\ stopRequested
        /\ UNCHANGED <<wq, faults>>
     \/ /\ ~stopRequested
        /\ faults' = faults \cup Broken(gen \in alive, "requestStop")
        /\ wq' = IF gen \in alive THEN Append(wq, Call("requestStop", gen)) ELSE wq

(* start() once the wait for the thread is over.                           *)
StartRun(g, list) ==
  /\ started' = TRUE
  /\ stopRequested' = FALSE
  /\ plan' = list
  /\ outcome' = "none"
  /\ log' = <<>>
  /\ gen' = g
  /\ guiPc' = "loop"
  /\ thread' = IF IsRunning THEN thread ELSE "running"
  /\ ProcessStep(g, list, wq)
  /\ faults' = faults \cup Broken(~IsRunning, "start") \cup Broken(~started, "startedTwice")
  /\ UNCHANGED <<modal, guiSeen, guiQ, doomed, workVars, noteVars>>

(* reset() and start() of a new run.  start() first blocks the GUI thread  *)
(* for up to two seconds if the thread of the previous run still runs.     *)
Start ==
  /\ guiPc = "loop"
  /\ modal = "none"
  /\ ~started
  /\ gen < MaxRuns
  /\ Client = "ProgressPage" => gen = NoGen
  /\ alive' = alive \cup {gen + 1}
  /\ \/ /\ ~IsRunning
        /\ \E checkArchives, checkImage \in BOOLEAN :
              StartRun(gen + 1, BuildActionList(checkArchives, checkImage))
     \/ /\ IsRunning
        /\ faults' = faults \cup {"reset"}
        /\ gen' = gen + 1
        /\ guiPc' = "startWait"
        /\ UNCHANGED <<started, stopRequested, steps, currentStep, plan, outcome, modal, guiSeen>>
        /\ UNCHANGED <<guiQ, thread, wq, doomed, workVars, noteVars, log>>

(* The wait ends: the thread stopped in time or it did not.                *)
EndWait ==
  /\ guiPc = "startWait"
  /\ \E checkArchives, checkImage \in BOOLEAN :
        StartRun(gen, BuildActionList(checkArchives, checkImage))
  /\ UNCHANGED alive

(* MainFrame::onStartPressed while a run is on.                            *)
(* Mutated: not only while a run is on.                                    *)
PressStopAnyTime ==
  /\ Client = "MainFrame"
  /\ guiPc = "loop"
  /\ modal = "none"
  /\ gen # NoGen
  /\ RequestStop
  /\ UNCHANGED <<started, steps, currentStep, plan, gen, outcome, modal, guiPc, guiSeen>>
  /\ UNCHANGED <<guiQ, thread, alive, doomed, workVars, noteVars, log>>

PressStop ==
  /\ Client = "MainFrame"
  /\ guiPc = "loop"
  /\ modal = "none"
  /\ started
  /\ RequestStop
  /\ UNCHANGED <<started, steps, currentStep, plan, gen, outcome, modal, guiPc, guiSeen>>
  /\ UNCHANGED <<guiQ, thread, alive, doomed, workVars, noteVars, log>>

(* ProgressPage::onCancelPressed: the question runs a nested event loop.   *)
(* The button is disabled once the run completed or failed, or a stop was  *)
(* asked for.                                                              *)
PressCancel ==
  /\ Client = "ProgressPage"
  /\ guiPc = "loop"
  /\ modal = "none"
  /\ gen # NoGen
  /\ outcome \notin {"completed", "failed"}
  /\ ~stopRequested
  /\ modal' = "cancelQuestion"
  /\ UNCHANGED <<started, stopRequested, steps, currentStep, plan, gen, outcome, guiPc, guiSeen>>
  /\ UNCHANGED <<guiQ, thread, wq, alive, doomed, workVars, noteVars, log, faults>>

AnswerCancel ==
  /\ modal = "cancelQuestion"
  /\ guiPc = "loop"
  /\ modal' = "none"
  /\ \/ RequestStop
     \/ UNCHANGED <<stopRequested, wq, faults>>
  /\ UNCHANGED <<started, steps, currentStep, plan, gen, outcome, guiPc, guiSeen>>
  /\ UNCHANGED <<guiQ, thread, alive, doomed, workVars, noteVars, log>>

-----------------------------------------------------------------------------
(* CompoundProgressNotifier::requestStop, in the GUI thread: it sets the   *)
(* flag and reads m_currentNotifier, then posts to what it read.  The      *)
(* worker thread may bind, finish or destroy a listener in between.        *)
(* Mutated: only the flag is set.                                          *)
OnNotifierStopNotForwarded ==
  /\ GuiTakes("notifierStop")
  /\ LET g == Head(guiQ).gen
     IN nStop' = IF g \in alive THEN [nStop EXCEPT ![g] = TRUE] ELSE nStop
  /\ UNCHANGED <<guiVars, thread, wq, alive, doomed, workVars, nCurrent, live, lStop, log, faults>>

OnNotifierStop ==
  /\ GuiTakes("notifierStop")
  /\ LET g == Head(guiQ).gen
     IN IF g \in alive
        THEN /\ nStop' = [nStop EXCEPT ![g] = TRUE]
             /\ guiSeen' = nCurrent[g]
             /\ guiPc' = IF nCurrent[g] = NoListener THEN "loop" ELSE "forwardStop"
        ELSE UNCHANGED <<nStop, guiSeen, guiPc>>
  /\ UNCHANGED <<started, stopRequested, steps, currentStep, plan, gen, outcome, modal>>
  /\ UNCHANGED <<thread, wq, alive, doomed, workVars, nCurrent, live, lStop, log, faults>>

ForwardStop ==
  /\ guiPc = "forwardStop"
  /\ guiPc' = "loop"
  /\ guiSeen' = NoListener
  /\ faults' = faults \cup Broken(guiSeen \in live, "forwardStop")
  /\ wq' = IF guiSeen \in live THEN Append(wq, Event("listenerStop", guiSeen[1], guiSeen)) ELSE wq
  /\ UNCHANGED <<started, stopRequested, steps, currentStep, plan, gen, outcome, modal>>
  /\ UNCHANGED <<guiQ, thread, alive, doomed, workVars, noteVars, log>>

-----------------------------------------------------------------------------
(* Worker thread                                                           *)

IsWorkerIdle == thread \in {"running", "exiting"} /\ wPc = "loop"

Kind == Phases[wStep][wPhase]
IsLocal == Kind \in {"archive", "check"}

(* The listener of the current phase: a local of the phase, or the disc    *)
(* image's, which lives as long as the worker.                             *)
Listener == IF IsLocal THEN <<wGen, wStep, wPhase>> ELSE <<wGen, "image", 0>>

(* Delivery of the next event of the worker thread that only passes a stop *)
(* request on: PatcherWorker::requestStop posts to the notifier, a         *)
(* listener sets its flag.  Events to destroyed objects are dropped.       *)
DeliverStop ==
  /\ wq # <<>>
  /\ wq' = Tail(wq)
  /\ LET e == Head(wq)
     IN \/ /\ e.op = "requestStop"
           /\ guiQ' = IF e.gen \in alive THEN Append(guiQ, Call("notifierStop", e.gen)) ELSE guiQ
           /\ UNCHANGED lStop
        \/ /\ e.op = "listenerStop"
           /\ lStop' = IF e.lis \in live THEN lStop \cup {e.lis} ELSE lStop
           /\ UNCHANGED guiQ
  /\ UNCHANGED <<guiVars, thread, alive, doomed, workVars, nStop, nCurrent, live, log, faults>>

LoopDeliverStop == IsWorkerIdle /\ DeliverStop

(* ProgressNotifier::stopRequested runs the event queue every 300 ms; the  *)
(* binding of a listener and every chunk of a phase call it, except that   *)
(* work on an ISO image has no such call.                                  *)
NestedDeliverStop ==
  /\ \/ wPc = "open"
     \/ wPc = "run" /\ Kind # "iso"
  /\ DeliverStop

(* The worker takes up a step.  The ProgressGuard of a step with phases    *)
(* resets the notifier first.                                              *)
BeginStep ==
  /\ IsWorkerIdle
  /\ wq # <<>>
  /\ Head(wq).op \in Steps
  /\ wq' = Tail(wq)
  /\ LET e == Head(wq)
     IN IF e.gen \in alive
        THEN /\ wPc' = "phase"
             /\ wGen' = e.gen
             /\ wStep' = e.op
             /\ wPhase' = 1
             /\ nCurrent' = IF Phases[e.op] = <<>> THEN nCurrent
                            ELSE [nCurrent EXCEPT ![e.gen] = NoListener]
        ELSE UNCHANGED <<workVars, nCurrent>>
  /\ UNCHANGED <<guiVars, guiQ, thread, alive, doomed, nStop, live, lStop, log, faults>>

(* A slot of the worker returns after emitting its result.                 *)
EndStep(result) ==
  /\ wPc' = "loop"
  /\ wGen' = NoGen
  /\ wStep' = NoStep
  /\ wPhase' = 0
  /\ guiQ' = Append(guiQ, Call(result, wGen))
  /\ log' = IF result = "stepCompleted" THEN Append(log, wStep) ELSE log

CompleteStep ==
  /\ wPc = "phase"
  /\ wPhase > Len(Phases[wStep])
  /\ EndStep("stepCompleted")
  /\ UNCHANGED <<guiVars, thread, wq, alive, doomed, noteVars, faults>>

(* An error outside the phases; finalize() has none.                       *)
FailStep ==
  /\ wPc = "phase"
  /\ wStep # "finalize"
  /\ EndStep("stepFailed")
  /\ UNCHANGED <<guiVars, thread, wq, alive, doomed, noteVars, faults>>

(* CompoundProgressNotifier::setCurrentNotifier: a stop already requested  *)
(* is passed on to the new listener at once.                               *)
(* Mutated: a stop requested earlier is not passed on.                     *)
BindListenerForgetsStop ==
  /\ wPc = "phase"
  /\ wPhase <= Len(Phases[wStep])
  /\ Kind # "quiet"
  /\ wPc' = "open"
  /\ live' = live \cup {Listener}
  /\ nCurrent' = [nCurrent EXCEPT ![wGen] = Listener]
  /\ UNCHANGED <<guiVars, guiQ, thread, wq, alive, doomed, wGen, wStep, wPhase, nStop, lStop, log, faults>>

BindListener ==
  /\ wPc = "phase"
  /\ wPhase <= Len(Phases[wStep])
  /\ Kind # "quiet"
  /\ wPc' = "open"
  /\ live' = live \cup {Listener}
  /\ nCurrent' = [nCurrent EXCEPT ![wGen] = Listener]
  /\ lStop' = IF nStop[wGen] THEN lStop \cup {Listener} ELSE lStop
  /\ UNCHANGED <<guiVars, guiQ, thread, wq, alive, doomed, wGen, wStep, wPhase, nStop, log, faults>>

(* A file of the Wii image is written without binding its notifier.        *)
EnterQuietPhase ==
  /\ wPc = "phase"
  /\ wPhase <= Len(Phases[wStep])
  /\ Kind = "quiet"
  /\ wPc' = "run"
  /\ UNCHANGED <<guiVars, guiQ, thread, wq, alive, doomed, wGen, wStep, wPhase, noteVars, log, faults>>

OpenPhase ==
  /\ wPc = "open"
  /\ wPc' = "run"
  /\ UNCHANGED <<guiVars, guiQ, thread, wq, alive, doomed, wGen, wStep, wPhase, noteVars, log, faults>>

(* The local listener goes out of scope.                                   *)
DropListener == /\ live' = IF IsLocal THEN live \ {Listener} ELSE live
                /\ lStop' = IF IsLocal THEN lStop \ {Listener} ELSE lStop

(* A file or archive of the phase cannot be opened.  Nothing has reported  *)
(* the end of the progress yet, so the notifier stays bound; only the      *)
(* destructor of a CheckingProgressNotifier reports it.                    *)
FailOpen ==
  /\ wPc = "open"
  /\ DropListener
  /\ nCurrent' = IF Kind = "check" THEN [nCurrent EXCEPT ![wGen] = NoListener] ELSE nCurrent
  /\ EndStep("stepFailed")
  /\ UNCHANGED <<guiVars, thread, wq, alive, doomed, nStop, faults>>

(* The phase's work is over, on any path, and its end is reported: the     *)
(* notifier is unbound.  An ISO image reports nothing, and what a quiet    *)
(* phase reports nobody hears.                                             *)
LeavePhase ==
  /\ wPc = "run"
  /\ DropListener
  /\ nCurrent' = IF Kind \in {"iso", "quiet"} THEN nCurrent ELSE [nCurrent EXCEPT ![wGen] = NoListener]

FinishPhase ==
  /\ LeavePhase
  /\ wPc' = "phase"
  /\ wPhase' = wPhase + 1
  /\ UNCHANGED <<guiVars, guiQ, thread, wq, alive, doomed, wGen, wStep, nStop, log, faults>>

(* Mutated: an early return without an error.                              *)
FailPhaseSilent ==
  /\ LeavePhase
  /\ wPc' = "loop"
  /\ wGen' = NoGen
  /\ wStep' = NoStep
  /\ wPhase' = 0
  /\ UNCHANGED <<guiVars, guiQ, thread, wq, alive, doomed, nStop, log, faults>>

FailPhase ==
  /\ LeavePhase
  /\ EndStep("stepFailed")
  /\ UNCHANGED <<guiVars, thread, wq, alive, doomed, nStop, faults>>

(* The work sees the listener's flag and gives up: an error of the step.   *)
AbortPhase ==
  /\ LeavePhase
  /\ Kind # "iso"
  /\ Listener \in lStop
  /\ EndStep("stepFailed")
  /\ UNCHANGED <<guiVars, thread, wq, alive, doomed, nStop, faults>>

(* finalizeInternal() does nothing; deleteLater() posts a deletion that    *)
(* the thread performs when it is back in its event loop.                  *)
DeliverEnd ==
  /\ IsWorkerIdle
  /\ wq # <<>>
  /\ Head(wq).op \in {"finalizeInternal", "deleteLater"}
  /\ wq' = Tail(wq)
  /\ doomed' = IF Head(wq).op = "deleteLater" /\ Head(wq).gen \in alive
               THEN doomed \cup {Head(wq).gen} ELSE doomed
  /\ UNCHANGED <<guiVars, guiQ, thread, alive, workVars, noteVars, log, faults>>

(* The worker dies with its notifier and its disc image; destroyed() posts *)
(* quit() to the QThread, which lives in the GUI thread.                   *)
DestroyWorker ==
  /\ IsWorkerIdle
  /\ \E g \in doomed :
       /\ doomed' = doomed \ {g}
       /\ alive' = alive \ {g}
       /\ live' = {l \in live : l[1] # g}
       /\ lStop' = {l \in lStop : l[1] # g}
  /\ guiQ' = Append(guiQ, Call("quit", NoGen))
  /\ UNCHANGED <<guiVars, thread, wq, workVars, nStop, nCurrent, log, faults>>

(* The event loop of the thread returns; deferred deletions come first.    *)
ExitThread ==
  /\ thread = "exiting"
  /\ wPc = "loop"
  /\ doomed = {}
  /\ thread' = "stopped"
  /\ UNCHANGED <<guiVars, guiQ, wq, alive, doomed, workVars, noteVars, log, faults>>

-----------------------------------------------------------------------------
Init ==
  /\ started = FALSE /\ stopRequested = FALSE
  /\ steps = <<>> /\ currentStep = NoStep
  /\ plan = <<>> /\ gen = NoGen /\ outcome = "none"
  /\ modal = "none" /\ guiPc = "loop" /\ guiSeen = NoListener
  /\ guiQ = <<>> /\ thread = "stopped" /\ wq = <<>>
  /\ alive = {} /\ doomed = {}
  /\ wPc = "loop" /\ wGen = NoGen /\ wStep = NoStep /\ wPhase = 0
  /\ nStop = [g \in Gens |-> FALSE] /\ nCurrent = [g \in Gens |-> NoListener]
  /\ live = {} /\ lStop = {}
  /\ log = <<>> /\ faults = {}

User == Start \/ PressStop \/ PressCancel \/ AnswerCancel \/ CloseCanceledBox

GuiLoop == OnStepCompleted \/ OnStepFailed \/ OnQuit \/ OnNotifierStop

Work == \/ BeginStep \/ CompleteStep \/ FailStep \/ BindListener
        \/ EnterQuietPhase \/ OpenPhase \/ FailOpen \/ FinishPhase \/ FailPhase

WorkerLoop == LoopDeliverStop \/ DeliverEnd \/ DestroyWorker \/ ExitThread

Next == \/ User
        \/ GuiLoop \/ ForwardStop \/ EndWait
        \/ Work \/ AbortPhase \/ NestedDeliverStop \/ WorkerLoop

Safe == Init /\ [][Next]_vars

(* Fairness.  Both event loops run, a blocked wait ends, and the worker    *)
(* goes on with whatever takes a bounded time.  The user owes nothing.     *)
(* A phase whose bound listener is polled may otherwise go on for ever.    *)
Prompt == \/ BeginStep \/ CompleteStep \/ FailStep \/ BindListener
          \/ EnterQuietPhase \/ OpenPhase \/ FailOpen
          \/ wPc = "run" /\ Kind \in {"iso", "quiet"} /\ (FinishPhase \/ FailPhase)

FairLoops == /\ WF_vars(GuiLoop) /\ WF_vars(ForwardStop) /\ WF_vars(EndWait)
             /\ WF_vars(WorkerLoop) /\ WF_vars(NestedDeliverStop)
             /\ WF_vars(AbortPhase) /\ WF_vars(Prompt)

Spec == Safe /\ FairLoops

(* The work on archives and images is finite.                              *)
FiniteWork == WF_vars(Work)

-----------------------------------------------------------------------------
(* Types                                                                   *)

Events(ops) == [op : ops, gen : Gens \cup {NoGen}, lis : Listeners]

FaultNames == {"finish", "processStep", "requestStop", "forwardStop",
               "start", "startedTwice", "reset"}

GuiTypeOK ==
  /\ started \in BOOLEAN /\ stopRequested \in BOOLEAN
  /\ steps \in Seq(Steps) /\ currentStep \in Steps \cup {NoStep}
  /\ plan \in Seq(Steps)
  /\ gen \in Gens \cup {NoGen}
  /\ outcome \in {"none", "completed", "failed", "canceled"}
  /\ modal \in {"none", "cancelQuestion", "canceledBox"}
  /\ guiPc \in {"loop", "startWait", "forwardStop"}
  /\ guiPc = "startWait" => gen \in Gens
  /\ guiSeen \in Listeners

QueueTypeOK == guiQ \in Seq(Events(GuiOps)) /\ wq \in Seq(Events(WorkerOps))

WorkTypeOK ==
  /\ thread \in {"stopped", "running", "exiting"}
  /\ alive \in SUBSET Gens /\ doomed \in SUBSET Gens
  /\ wPc \in {"loop", "phase", "open", "run"}
  /\ wGen \in Gens \cup {NoGen} /\ wStep \in Steps \cup {NoStep} /\ wPhase \in Nat
  /\ wPc # "loop" => wGen \in Gens /\ wStep \in Steps

NoteTypeOK ==
  /\ nStop \in [Gens -> BOOLEAN]
  /\ nCurrent \in [Gens -> Listeners]
  /\ live \in SUBSET Listeners /\ lStop \in SUBSET Listeners

HistoryTypeOK == log \in Seq(Steps) /\ faults \in SUBSET FaultNames

TypeOK == GuiTypeOK /\ QueueTypeOK /\ WorkTypeOK /\ NoteTypeOK /\ HistoryTypeOK

-----------------------------------------------------------------------------
(* Safety                                                                  *)

QueuedSteps == {i \in DOMAIN wq : wq[i].op \in Steps}
QueuedResults == {i \in DOMAIN guiQ : guiQ[i].op \in Results}

(* While a run is on, exactly one step is under way: posted, being carried *)
(* out, or finished with its result on the way back.  Otherwise none is,   *)
(* not even while the box after a cancellation is open.                    *)
OneStepOutstanding ==
  Cardinality(QueuedSteps) + Cardinality(QueuedResults) + (IF wPc = "loop" THEN 0 ELSE 1)
    = IF started /\ modal # "canceledBox" THEN 1 ELSE 0

(* The event queue that a step runs from inside its progress polling holds *)
(* nothing but stop requests: no step is entered from within another, and  *)
(* the worker is not deleted under its own running step.                   *)
NoReentrancy ==
  wPc # "loop" => /\ \A i \in DOMAIN wq : wq[i].op \in StopOps
                  /\ wGen \in alive \ doomed

(* A stop request is never lost on its way: it is queued for the worker,   *)
(* queued for the notifier, or the notifier knows of it; and if the        *)
(* notifier knows, the listener it is bound to knows or is being told.     *)
StopNeverLost ==
  /\ started /\ stopRequested =>
       \/ \E i \in DOMAIN wq : wq[i] = Call("requestStop", gen)
       \/ \E i \in DOMAIN guiQ : guiQ[i] = Call("notifierStop", gen)
       \/ nStop[gen]
  /\ \A g \in alive : nStop[g] /\ nCurrent[g] \in live =>
       \/ nCurrent[g] \in lStop
       \/ guiPc = "forwardStop" /\ guiSeen = nCurrent[g]
       \/ \E i \in DOMAIN wq : wq[i] = Event("listenerStop", g, nCurrent[g])

(* As long as a run is on, its thread runs and its worker exists, although *)
(* quit() and the deletion of the worker are posted from the other thread: *)
(* the calls of processStep and finish always find both.                   *)
RunHasItsThread ==
  started => thread = "running" /\ gen \in alive \ doomed

(* VERIFY(invokeMethod(m_worker, "requestStop")) finds a worker.           *)
StopFindsWorker == "requestStop" \notin faults

-----------------------------------------------------------------------------
(* The inductive invariant behind OneStepOutstanding and NoReentrancy      *)

(* The run has work under way: it is on, and not waiting for the user to   *)
(* dismiss the box after a cancellation.                                   *)
Active == started /\ modal # "canceledBox"

Queued(q) == {q[i] : i \in DOMAIN q}
HasOp(q, ops) == \E e \in Queued(q) : e.op \in ops
OnlyOps(q, ops) == \A e \in Queued(q) : e.op \in ops
AtMostOne(q, ops) == \A i, j \in DOMAIN q : q[i].op \in ops /\ q[j].op \in ops => i = j
OnlyStopsBehindSteps(q) ==
  \A i, j \in DOMAIN q : i < j /\ q[i].op \in Steps => q[j].op \in StopOps

(* The step is one token: it is in the worker's queue, or in the worker,   *)
(* or its result is in the GUI thread's queue.  Nothing but stop requests  *)
(* is queued behind it, or beside it while the worker carries it out.      *)
StepIsOneToken ==
  /\ Active <=> HasOp(wq, Steps) \/ HasOp(guiQ, Results) \/ wPc # "loop"
  /\ HasOp(wq, Steps) => ~HasOp(guiQ, Results) /\ wPc = "loop"
  /\ HasOp(guiQ, Results) => wPc = "loop"
  /\ AtMostOne(guiQ, Results)
  /\ OnlyStopsBehindSteps(wq)
  /\ wPc # "loop" => OnlyOps(wq, StopOps)

(* The worker of a run that is on, or being started, is the newest one; it *)
(* exists, and its deletion has not been asked for.                        *)
WorkerOutlivesRun ==
  /\ Active \/ guiPc = "startWait" =>
       /\ gen \in alive \ doomed
       /\ \A e \in Queued(wq) : e.op = "deleteLater" => e.gen # gen
  /\ wPc # "loop" => wGen = gen
  /\ \A e \in Queued(wq) : /\ e.op \in Steps => e.gen = gen
                           /\ e.op = "deleteLater" => e.gen <= gen
  /\ \A g \in alive \cup doomed : g <= gen
  /\ guiPc = "startWait" => ~started /\ modal = "none"
  /\ modal = "canceledBox" => started

StepProtocol == StepIsOneToken /\ WorkerOutlivesRun

-----------------------------------------------------------------------------
(* Liveness                                                                *)

(* A run that was asked to stop ends, even if the work it is in would go   *)
(* on for ever: the request reaches the listener that the work polls.      *)
StopEndsRun == (started /\ stopRequested) ~> ~started

(* Every run ends when the work is finite.                                 *)
RunEnds == FiniteWork => (started ~> ~started)

(* After a run the worker is deleted and its thread stops.                 *)
ThreadReaped == (gen # NoGen /\ ~started) ~> (thread = "stopped" /\ alive = {})

-----------------------------------------------------------------------------
(* What a run promises: PatchRun, with the state of the run as the front   *)
(* end sees it and the steps the worker really carried out.                *)

RunPhase == IF ~started \/ outcome # "none" THEN "idle"
            ELSE IF stopRequested THEN "stopping" ELSE "running"

Promise == INSTANCE PatchRun WITH
  Plans <- {BuildActionList(a, i) : a, i \in BOOLEAN},
  done <- log,
  phase <- RunPhase,
  grace <- IF RunPhase = "stopping" /\ QueuedResults = {} THEN 1 ELSE 0

ImplementsPatchRun == Promise!Spec
=============================================================================
