------------------------------ MODULE Mp3Patcher ------------------------------
(***************************************************************************)
(* The run of the Metroid Prime 3 patcher: PatcherController and the       *)
(* wizard's page in the GUI thread, PatcherWorker in its own, and the      *)
(* DataPaster the worker owns, which rebuilds the paks into a temporary    *)
(* directory, writes them and main.dol into the disc image, compares, and  *)
(* removes the temporary files.                                            *)
(*                                                                         *)
(* A request to stop travels as queued calls: controller -> worker ->      *)
(* ProgressHandler.  The two handlers are plain members of the worker, so  *)
(* they stay in the GUI thread and their flags are set there, each by a    *)
(* call of its own.  A stop seen between two paks ends the step as if it   *)
(* had succeeded; one seen within a pak ends it as a failure.              *)
(***************************************************************************)
EXTENDS Naturals, Sequences, FiniteSets

CONSTANT PakCount  \* length of s_pakList
ASSUME PakCountAssumption == PakCount \in Nat \ {0}

Paks == 1 .. PakCount
Dol == PakCount + 1            \* main.dol, the other file of both directories
Files == 1 .. Dol
Checks == {"checkData", "checkPaks", "checkImage"}
Steps == {"initialize", "rebuildPaks", "replacePaks", "finalize"} \cup Checks
Handlers == {"action", "pak"}

VARIABLES
  \* GUI thread
  steps, stopRequested, plan, outcome,
  question,   \* the nested loop of the wizard's question is running
  guiQ,
  \* Worker thread
  thread, wq, alive, doomed,
  wPc,        \* loop, open, head (of a loop over the paks), work (on one), dol, remove
  wStep, wPak,
  removals,   \* what the removeTempFiles calls on the stack have left to remove
  stopFlag,   \* m_stopRequested of the two ProgressHandlers
  paster,     \* m_paster is not NULL
  polls,      \* its handlers are the worker's, and not the dummy's
  \* Disks
  temp,       \* the temporary files: none, old (of an earlier run), part, whole
  image,      \* the files of the image: old, torn, new, or bad: what was not whole
  checked,    \* the comparisons made so far
  \* History
  removalFailed, faults

guiVars == <<steps, stopRequested, plan, outcome, question>>
pasterVars == <<removals, paster, polls>>
diskVars == <<temp, image, checked>>
threadVars == <<thread, alive, doomed>>
vars == <<guiVars, guiQ, threadVars, wq, wPc, wStep, wPak, stopFlag,
          pasterVars, diskVars, removalFailed, faults>>

TypeOK ==
  /\ steps \in Seq(Steps) /\ plan \subseteq Checks
  /\ {stopRequested, question, alive, doomed, paster, polls, removalFailed} \subseteq BOOLEAN
  /\ outcome \in {"none", "completed", "failed", "canceled"}
  /\ thread \in {"stopped", "running", "exiting"}
  /\ wPc \in {"loop", "open", "head", "work", "dol", "remove"}
  /\ wStep \in Steps \cup {"none"} /\ wPak \in Files
  /\ removals \in Seq(SUBSET Files)
  /\ stopFlag \in [Handlers -> BOOLEAN]
  /\ temp \in [Files -> {"none", "old", "part", "whole"}]
  /\ image \in [Files -> {"old", "torn", "new", "bad"}]
  /\ checked \subseteq Checks \X Paks

-----------------------------------------------------------------------------
(* PatcherController and ProgressPage, in the GUI thread                   *)

ActionList(chosen) ==
  <<"initialize", "rebuildPaks">>
    \o (IF "checkData" \in chosen THEN <<"checkData">> ELSE <<>>)
    \o <<"replacePaks">>
    \o (IF "checkPaks" \in chosen THEN <<"checkPaks", "checkImage">> ELSE <<>>)
    \o <<"finalize">>

(* ProgressPage::initializePage: no checks, all, or for Riivolution one.   *)
Start ==
  /\ thread = "stopped" /\ outcome = "none"
  /\ \E chosen \in {{}, {"checkData"}, Checks} :
       /\ plan' = chosen
       /\ steps' = Tail(ActionList(chosen))
       /\ wq' = <<Head(ActionList(chosen))>>
  /\ thread' = "running"
  /\ UNCHANGED <<stopRequested, outcome, question, guiQ, alive, doomed, wPc, wStep, wPak,
                 stopFlag, pasterVars, diskVars, removalFailed, faults>>

(* finish: quit() is connected to destroyed(), the worker deleted later.   *)
(* Mutated: the worker is left alone.                                      *)
FinishKeepsWorker(queue) == wq' = queue
Finish(queue) == wq' = Append(queue, "deleteLater")

(* Mutated: the worker is deleted without cleaning up.                     *)
ProcessCancelLeavesFiles == outcome' = "canceled" /\ Finish(wq)
ProcessCancel == outcome' = "canceled" /\ Finish(Append(wq, "finalizeInternal"))

GuiTakes(event) == guiQ # <<>> /\ Head(guiQ) = event /\ guiQ' = Tail(guiQ)

(* Mutated: a step that completed goes on, whatever was asked for.         *)
OnStepCompletedGoesOn ==
  /\ GuiTakes("stepCompleted")
  /\ \/ /\ steps # <<>>
        /\ steps' = Tail(steps) /\ wq' = Append(wq, Head(steps))
        /\ UNCHANGED outcome
     \/ /\ steps = <<>>
        /\ Finish(wq) /\ outcome' = "completed"
        /\ UNCHANGED steps
  /\ UNCHANGED <<stopRequested, plan, question, threadVars, wPc, wStep, wPak, stopFlag,
                 pasterVars, diskVars, removalFailed, faults>>

OnStepCompleted ==
  /\ GuiTakes("stepCompleted")
  /\ \/ /\ stopRequested /\ ProcessCancel
        /\ UNCHANGED steps
     \/ /\ ~stopRequested /\ steps # <<>>
        /\ steps' = Tail(steps) /\ wq' = Append(wq, Head(steps))
        /\ UNCHANGED outcome
     \/ /\ ~stopRequested /\ steps = <<>>
        /\ Finish(wq) /\ outcome' = "completed"
        /\ UNCHANGED steps
  /\ UNCHANGED <<stopRequested, plan, question, threadVars, wPc, wStep, wPak, stopFlag,
                 pasterVars, diskVars, removalFailed, faults>>

OnStepFailed ==
  /\ GuiTakes("stepFailed")
  /\ \/ stopRequested /\ ProcessCancel
     \/ ~stopRequested /\ Finish(wq) /\ outcome' = "failed"
  /\ UNCHANGED <<steps, stopRequested, plan, question, threadVars, wPc, wStep, wPak, stopFlag,
                 pasterVars, diskVars, removalFailed, faults>>

(* ProgressHandler::requestStop; a call to a destroyed one is dropped.     *)
OnHandlerStop ==
  /\ \E h \in Handlers :
       /\ GuiTakes(h)
       /\ stopFlag' = IF alive THEN [stopFlag EXCEPT ![h] = TRUE] ELSE stopFlag
  /\ UNCHANGED <<guiVars, threadVars, wq, wPc, wStep, wPak, pasterVars, diskVars,
                 removalFailed, faults>>

OnQuit ==
  /\ GuiTakes("quit")
  /\ thread' = "exiting"
  /\ UNCHANGED <<guiVars, alive, doomed, wq, wPc, wStep, wPak, stopFlag, pasterVars, diskVars,
                 removalFailed, faults>>

(* requestStop: m_worker still points to a worker that is destroyed.       *)
(* Mutated: the controller does not remember it was asked.                 *)
RequestStopForgets ==
  /\ stopRequested' = FALSE
  /\ faults' = IF alive THEN faults ELSE faults \cup {"requestStop"}
  /\ wq' = IF alive THEN Append(wq, "requestStop") ELSE wq

(* Mutated: the controller remembers, and the worker is not told.          *)
RequestStopUntold == stopRequested' = TRUE /\ UNCHANGED <<wq, faults>>

RequestStop ==
  /\ stopRequested' = TRUE
  /\ faults' = IF alive THEN faults ELSE faults \cup {"requestStop"}
  /\ wq' = IF alive THEN Append(wq, "requestStop") ELSE wq

(* onCancelPressed: the button is enabled until the run ends or stops.     *)
PressCancel ==
  /\ thread # "stopped" /\ ~question
  /\ outcome \notin {"completed", "failed"} /\ ~stopRequested
  /\ question' = TRUE
  /\ UNCHANGED <<steps, stopRequested, plan, outcome, guiQ, threadVars, wq, wPc, wStep, wPak,
                 stopFlag, pasterVars, diskVars, removalFailed, faults>>

AnswerCancel ==
  /\ question
  /\ question' = FALSE
  /\ RequestStop \/ UNCHANGED <<stopRequested, wq, faults>>
  /\ UNCHANGED <<steps, plan, outcome, guiQ, threadVars, wPc, wStep, wPak,
                 stopFlag, pasterVars, diskVars, removalFailed>>

-----------------------------------------------------------------------------
(* PatcherWorker: the end of a step                                        *)

(* finalizeInternal up to the first file to remove.  removeTempFiles lists *)
(* the directory once; with nothing to list the paster goes at once.       *)
FinalizeInternal(files) ==
  LET listed == {f \in Files : files[f] # "none"}
  IN IF paster /\ listed # {}
     THEN /\ removals' = Append(removals, listed)
          /\ wPc' = "remove"
          /\ UNCHANGED paster
     ELSE /\ paster' = FALSE
          /\ wPc' = IF removals = <<>> THEN "loop" ELSE "remove"
          /\ UNCHANGED removals

StepCompleted ==
  /\ guiQ' = Append(guiQ, "stepCompleted")
  /\ wPc' = "loop"
  /\ UNCHANGED <<pasterVars, wStep>>

(* processError: the result is posted first; then nothing polls any more.  *)
ProcessError(files) ==
  /\ guiQ' = Append(guiQ, "stepFailed")
  /\ polls' = FALSE
  /\ FinalizeInternal(files)
  /\ UNCHANGED wStep

(* finalize: the result is posted first, the handlers stay.                *)
CallFinalize ==
  /\ guiQ' = Append(guiQ, "stepCompleted")
  /\ FinalizeInternal(temp)
  /\ UNCHANGED polls

-----------------------------------------------------------------------------
(* PatcherWorker: the events of its thread                                 *)

IsIdle == thread \in {"running", "exiting"} /\ wPc = "loop"

(* initialize creates the paster, rebuildPaks the directory.               *)
BeginStep ==
  /\ IsIdle /\ wq # <<>> /\ Head(wq) \in Steps
  /\ wq' = Tail(wq)
  /\ wStep' = Head(wq) /\ wPak' = 1
  /\ \/ /\ Head(wq) = "initialize"
        /\ wPc' = "open" /\ paster' = TRUE /\ polls' = TRUE
        /\ UNCHANGED <<guiQ, removals>>
     \/ /\ Head(wq) = "rebuildPaks" /\ \A f \in Files : temp[f] = "none"
        /\ guiQ' = Append(guiQ, "stepFailed")
        /\ polls' = FALSE
        /\ FinalizeInternal(temp)
     \/ /\ Head(wq) \in {"rebuildPaks", "checkData", "replacePaks", "checkPaks"}
        /\ wPc' = "head"
        /\ UNCHANGED <<guiQ, pasterVars>>
     \/ /\ Head(wq) = "checkImage"
        /\ wPc' = "work"
        /\ UNCHANGED <<guiQ, pasterVars>>
     \/ /\ Head(wq) = "finalize"
        /\ CallFinalize
  /\ UNCHANGED <<guiVars, threadVars, stopFlag, diskVars, removalFailed, faults>>

(* The other calls are taken by the event loop, and by the one             *)
(* ProgressHandler::progress runs every 300 ms: in the work on a pak, and  *)
(* before a temporary file is removed.                                     *)
IsPolling == wPc \in {"head", "work", "remove"} /\ polls

DeliverStop ==
  /\ IsIdle \/ IsPolling
  /\ wq # <<>> /\ Head(wq) = "requestStop"
  /\ wq' = Tail(wq)
  /\ guiQ' = guiQ \o <<"action", "pak">>
  /\ UNCHANGED <<guiVars, threadVars, wPc, wStep, wPak, stopFlag, pasterVars, diskVars,
                 removalFailed, faults>>

DeliverFinalize ==
  /\ IsIdle \/ IsPolling
  /\ wq # <<>> /\ Head(wq) = "finalizeInternal"
  /\ wq' = Tail(wq)
  /\ FinalizeInternal(temp)
  /\ UNCHANGED <<guiVars, guiQ, threadVars, wStep, wPak, stopFlag, polls, diskVars,
                 removalFailed, faults>>

(* The pass over the events that handles deleteLater() handles the         *)
(* deletion too, one inside removeTempFiles as well as the thread's own:   *)
(* the slot runs a level below the pass, and a deletion waits for a pass   *)
(* above the level it was asked for at.                                    *)
DeliverDelete ==
  /\ IsIdle \/ IsPolling
  /\ wq # <<>> /\ Head(wq) = "deleteLater"
  /\ wq' = Tail(wq)
  /\ doomed' = TRUE
  /\ UNCHANGED <<guiVars, guiQ, thread, alive, wPc, wStep, wPak, stopFlag, pasterVars,
                 diskVars, removalFailed, faults>>

(* The worker goes with its handlers and its paster.                       *)
DestroyWorker ==
  /\ IsIdle \/ IsPolling
  /\ doomed /\ alive
  /\ alive' = FALSE
  /\ wq' = <<>>
  /\ guiQ' = Append(guiQ, "quit")
  /\ paster' = FALSE
  /\ UNCHANGED <<guiVars, thread, doomed, wPc, wStep, wPak, stopFlag, removals, polls,
                 diskVars, removalFailed, faults>>

ThreadStops ==
  /\ thread = "exiting" /\ wPc = "loop"
  /\ thread' = "stopped"
  /\ UNCHANGED <<guiVars, guiQ, alive, doomed, wq, wPc, wStep, wPak, stopFlag, pasterVars,
                 diskVars, removalFailed, faults>>

-----------------------------------------------------------------------------
(* DataPaster                                                              *)

workUnchanged == <<guiVars, threadVars, wq, stopFlag, removalFailed, faults>>

OpenImage ==
  /\ wPc = "open"
  /\ StepCompleted \/ ProcessError(temp)
  /\ UNCHANGED <<workUnchanged, wPak, diskVars>>

(* The head of the loop over the paks.  A stop breaks out of it, and the   *)
(* step completes; replacePaks does not look.                              *)
LeavePaks ==
  /\ wPc = "head"
  /\ wPak > PakCount \/ (wStep # "replacePaks" /\ stopFlag["action"])
  /\ IF wStep = "replacePaks"
     THEN wPc' = "dol" /\ UNCHANGED <<guiQ, pasterVars, wStep>>
     ELSE StepCompleted
  /\ UNCHANGED <<workUnchanged, wPak, diskVars>>

(* The pak is missing from the image or the directory, cannot be parsed,   *)
(* or is larger than the one in the image.                                 *)
RefusePak ==
  /\ wPc = "head" /\ wPak <= PakCount
  /\ wStep # "replacePaks" => ~stopFlag["action"]
  /\ ProcessError(temp)
  /\ UNCHANGED <<workUnchanged, wPak, diskVars>>

(* rebuild opens, and so truncates, its output file.                       *)
EnterPak ==
  /\ wPc = "head" /\ wPak <= PakCount
  /\ wStep # "replacePaks" => ~stopFlag["action"]
  /\ wStep # "rebuildPaks" => temp[wPak] # "none"
  /\ wPc' = "work"
  /\ temp' = IF wStep = "rebuildPaks" THEN [temp EXCEPT ![wPak] = "part"] ELSE temp
  /\ UNCHANGED <<workUnchanged, guiQ, wStep, wPak, pasterVars, image, checked>>

(* What the image holds of a file after writing all or a part of it.       *)
Written(f, all) ==
  IF temp[f] # "whole" THEN "bad" ELSE IF all THEN "new" ELSE "torn"

FinishPak ==
  /\ wPc = "work" /\ wStep # "checkImage"
  /\ wPc' = "head" /\ wPak' = wPak + 1
  /\ \/ /\ wStep = "rebuildPaks"
        /\ temp' = [temp EXCEPT ![wPak] = "whole"]
        /\ UNCHANGED <<image, checked>>
     \/ /\ wStep = "replacePaks"
        /\ image' = [image EXCEPT ![wPak] = Written(wPak, TRUE)]
        /\ UNCHANGED <<temp, checked>>
     \/ /\ wStep = "checkData" /\ temp[wPak] # "part"
        /\ checked' = checked \cup {<<wStep, wPak>>}
        /\ UNCHANGED <<temp, image>>
     \/ /\ wStep = "checkPaks" /\ image[wPak] = Written(wPak, TRUE)
        /\ checked' = checked \cup {<<wStep, wPak>>}
        /\ UNCHANGED <<temp, image>>
  /\ UNCHANGED <<workUnchanged, guiQ, wStep, pasterVars>>

(* checkData leaves the loop over the files of a pak.                      *)
LeaveFiles ==
  /\ wPc = "work" /\ wStep = "checkData" /\ stopFlag["action"]
  /\ wPc' = "head" /\ wPak' = wPak + 1
  /\ UNCHANGED <<workUnchanged, guiQ, wStep, pasterVars, diskVars>>

FinishCheckImage ==
  /\ wPc = "work" /\ wStep = "checkImage"
  /\ checked' = checked \cup {<<wStep, p>> : p \in Paks}
  /\ StepCompleted
  /\ UNCHANGED <<workUnchanged, wPak, temp, image>>

(* The work on a pak stops or fails: PakArchive::rebuild,                  *)
(* wii_write_data_file, compareStreams or checkPartition returns false.    *)
AbandonPak ==
  /\ wPc = "work"
  /\ image' \in {image, IF wStep = "replacePaks"
                        THEN [image EXCEPT ![wPak] = Written(wPak, FALSE)] ELSE image}
  /\ ProcessError(temp)
  /\ UNCHANGED <<workUnchanged, wPak, temp, checked>>

StopPak == stopFlag["pak"] /\ wStep # "checkData" /\ AbandonPak
FailPak == AbandonPak

(* patchMainDol, which no stop reaches: main.dol is copied out of the      *)
(* image, patched, and written back.                                       *)
PatchMainDol ==
  /\ wPc = "dol"
  /\ \/ /\ temp' = [temp EXCEPT ![Dol] = "whole"]
        /\ image' = [image EXCEPT ![Dol] = "new"]
        /\ StepCompleted
     \/ /\ \E c \in {temp[Dol], "part"} : temp' = [temp EXCEPT ![Dol] = c]
        /\ UNCHANGED image
        /\ ProcessError(temp')
     \/ /\ temp' = [temp EXCEPT ![Dol] = "whole"]
        /\ image' = [image EXCEPT ![Dol] = "torn"]
        /\ ProcessError(temp')
  /\ UNCHANGED <<workUnchanged, wPak, checked>>

(* One turn of removeTempFiles, whose order is left open; the next turn    *)
(* reads a member of the paster.  A file that is gone, or is in use, ends  *)
(* the loop.  finalizeInternal then destroys the paster and returns to the *)
(* loop that called it.  What runs on in a worker that has been destroyed  *)
(* is taken to find its memory as it was, and the use of it recorded.      *)
RemovalReturns ==
  /\ removals' = SubSeq(removals, 1, Len(removals) - 1)
  /\ paster' = FALSE
  /\ wPc' = IF Len(removals) = 1 THEN "loop" ELSE "remove"
  /\ faults' = IF alive THEN faults ELSE faults \cup {"finalizeInternal"}

NextTurn(listed) ==
  /\ removals' = [removals EXCEPT ![Len(removals)] = listed]
  /\ faults' = IF paster THEN faults ELSE faults \cup {"removeTempFiles"}
  /\ UNCHANGED <<wPc, paster>>

Left(f) == removals[Len(removals)] \ {f}

(* Mutated: a file that could not be removed is skipped.                   *)
RemoveTempFileSkips ==
  /\ wPc = "remove" /\ (doomed => ~alive)
  /\ \E f \in removals[Len(removals)] :
       /\ \/ /\ temp' = [temp EXCEPT ![f] = "none"]
             /\ UNCHANGED removalFailed
          \/ /\ temp[f] # "none"
             /\ removalFailed' = TRUE
             /\ UNCHANGED temp
       /\ IF Left(f) = {} THEN RemovalReturns ELSE NextTurn(Left(f))
  /\ UNCHANGED <<guiVars, guiQ, threadVars, wq, stopFlag, wStep, wPak, polls, image, checked>>

RemoveTempFile ==
  /\ wPc = "remove" /\ (doomed => ~alive)
  /\ \E f \in removals[Len(removals)] :
       \/ /\ temp[f] # "none"
          /\ temp' = [temp EXCEPT ![f] = "none"]
          /\ IF Left(f) = {} THEN RemovalReturns ELSE NextTurn(Left(f))
          /\ UNCHANGED removalFailed
       \/ /\ removalFailed' = (removalFailed \/ temp[f] # "none")
          /\ RemovalReturns
          /\ UNCHANGED temp
  /\ UNCHANGED <<guiVars, guiQ, threadVars, wq, stopFlag, wStep, wPak, polls, image, checked>>

-----------------------------------------------------------------------------
Init ==
  /\ steps = <<>> /\ stopRequested = FALSE /\ plan = {} /\ outcome = "none" /\ question = FALSE
  /\ guiQ = <<>> /\ thread = "stopped" /\ wq = <<>> /\ alive = TRUE /\ doomed = FALSE
  /\ wPc = "loop" /\ wStep = "none" /\ wPak = 1 /\ removals = <<>>
  /\ stopFlag = [h \in Handlers |-> FALSE] /\ paster = FALSE /\ polls = FALSE
  /\ temp \in [Files -> {"none", "old"}]
  /\ image = [f \in Files |-> "old"] /\ checked = {}
  /\ removalFailed = FALSE /\ faults = {}

Gui == OnStepCompleted \/ OnStepFailed \/ OnHandlerStop \/ OnQuit
User == Start \/ PressCancel \/ AnswerCancel
Events == BeginStep \/ DeliverStop \/ DeliverFinalize \/ DeliverDelete \/ DestroyWorker \/ ThreadStops
Unstoppable == OpenImage \/ PatchMainDol \/ RemoveTempFile \/ LeavePaks
Work == EnterPak \/ FinishPak \/ FinishCheckImage
Failure == RefusePak \/ FailPak

Next == Gui \/ User \/ Events \/ Unstoppable \/ Work \/ Failure \/ LeaveFiles \/ StopPak

(* The threads run and the work without a stop of its own ends; the loops  *)
(* look at the flags; nobody has to answer a question, nor work on a pak   *)
(* to end by itself.                                                       *)
Fairness ==
  /\ WF_vars(Gui) /\ WF_vars(BeginStep) /\ WF_vars(DeliverStop)
  /\ WF_vars(DeliverFinalize) /\ WF_vars(DeliverDelete)
  /\ WF_vars(DestroyWorker) /\ WF_vars(ThreadStops)
  /\ WF_vars(Unstoppable) /\ WF_vars(EnterPak \/ RefusePak)
  /\ WF_vars(LeaveFiles) /\ WF_vars(StopPak)

Spec == Init /\ [][Next]_vars /\ Fairness

-----------------------------------------------------------------------------
(* Nothing but a pak rebuilt whole in this run is written to the image,    *)
(* though rebuildPaks reports success when it breaks off at a stop and     *)
(* files of an earlier run may lie in its directory: the controller, which *)
(* knows of every stop before the paster does, never goes on to            *)
(* replacePaks.                                                            *)
OnlyRebuiltWritten == \A f \in Files : image[f] # "bad"

(* A run reported as completed wrote every pak and main.dol, and each      *)
(* check it was to make covered every pak, though a check too ends as if   *)
(* successful at a stop.                                                   *)
CompletedMeansDone ==
  outcome = "completed" =>
    /\ \A f \in Files : image[f] = "new"
    /\ plan \X Paks \subseteq checked

(* Whoever works on the paster has one.  Two ways lead to a removal of     *)
(* temporary files that uses what is gone.  finalizeInternal, called by a  *)
(* cancel from the event loop inside removeTempFiles, destroys the paster: *)
(* the call it interrupted finds its next file gone and gives up, unless   *)
(* one could not be removed the first time and can be the second.  And the *)
(* worker can be deleted from that event loop, because a step is answered  *)
(* before it cleans up: but never after a failure, when nothing polls.     *)
Uses == faults \cap {"removeTempFiles", "finalizeInternal"}

PasterOutlivesUse ==
  /\ wPc \in {"open", "head", "work", "dol"} => alive /\ paster
  /\ alive => Uses \subseteq {"removeTempFiles"} /\ (Uses # {} => removalFailed)
  /\ Uses # {} => outcome \in {"completed", "canceled"}

(* When the worker and the removals on its stack are gone so are the       *)
(* temporary files, whichever way the run ended, unless one could not be   *)
(* removed or the worker was deleted under the removal.                    *)
TempFilesGone ==
  ~alive /\ wPc = "loop" /\ ~removalFailed /\ Uses = {} => \A f \in Files : temp[f] = "none"

(* A stop ends the run and its thread, even when the work on a pak would   *)
(* never end by itself.                                                    *)
StopEndsRun == (stopRequested /\ alive) ~> (thread = "stopped" /\ ~alive)
=============================================================================
