---------------------------- MODULE PasterThread ----------------------------
(***************************************************************************)
(* The paster of Metroid Prime 3: MainFrame in the GUI thread and a        *)
(* PasterThread with an event loop, whose slot patch() carries out the     *)
(* actions of a run one after the other with a DataPaster.                 *)
(*                                                                         *)
(* While an action works it reports progress, and ProgressHandler handles  *)
(* the events of the thread there, whatever they are: requestStop() as it  *)
(* is meant to, but also another patch(), which then runs inside the first.*)
(* frames is the stack of the patch() calls, the innermost first.          *)
(***************************************************************************)
EXTENDS Integers, Sequences, FiniteSets

CONSTANTS
  Paks,       \* how many archives are selected
  Checks,     \* the checks switched on in the settings
  MaxStarts,  \* bound on the runs started
  MaxCancels  \* bound on the presses of Cancel

ASSUME SettingsAssumption ==
  /\ Paks \in Nat
  /\ Checks \subseteq {"CheckData", "CheckPaks", "CheckImage"}
  /\ MaxStarts \in Nat /\ MaxCancels \in Nat

VARIABLES
  isPatching, guiStop, currentAction,  \* MainFrame
  status,       \* its status label
  guiQueue,     \* the signals of the thread on their way to MainFrame
  threadQueue,  \* the calls on their way to the thread
  stop,         \* PasterThread::m_stopRequested
  pakStop,      \* the flag of m_pakProgressHandler
  paster,       \* the DataPaster in m_paster, by number; 0 if none
  created,      \* how many there have been
  frames,
  starts, cancels,
  \* History
  misnamed,     \* an action was reported under the name of another
  met           \* what of an earlier run was still there at a start

guiVars == <<isPatching, guiStop, currentAction, status, misnamed, starts, cancels, met>>
vars == <<isPatching, guiStop, currentAction, status, guiQueue, threadQueue, stop, pakStop,
          paster, created, frames, misnamed, starts, cancels, met>>

-----------------------------------------------------------------------------
(* The actions of a run, in order.                                         *)

CheckIf(a) == IF a \in Checks THEN <<a>> ELSE <<>>

Actions ==
  <<"Init">>
    \o (<<"RebuildPaks">> \o CheckIf("CheckData") \o <<"ReplacePaks">>
          \o CheckIf("CheckPaks") \o CheckIf("CheckImage"))
    \o <<"Done">>

(* How many parts of an action report progress of their own.               *)
Items(action) ==
  CASE action \in {"Init", "Done"} -> 0
    [] action = "CheckImage" -> 1
    [] OTHER -> Paks

(* A call of patch(): the actions left, and what the first of them is at:  *)
(* before it, polling (handling events), between two archives or in one.   *)
(* paster is the object the action runs on.                                *)
NewFrame == [left |-> Actions, pc |-> "before", items |-> 0, inItem |-> FALSE, paster |-> 0]
Top == frames[1]
Action == Head(Top.left)
SetTop(f) == frames' = <<f>> \o Tail(frames)

Started(action) == [kind |-> "started", action |-> action, success |-> TRUE]
Completed(action, success) == [kind |-> "completed", action |-> action, success |-> success]

-----------------------------------------------------------------------------
(* MainFrame                                                               *)

InQueue(e, q) == \E i \in 1 .. Len(q) : q[i] = e

(* What a start finds left: a patch() at work or called, a request to stop *)
(* it, signals for MainFrame.                                              *)
Leftovers ==
  (IF frames # <<>> \/ InQueue("patch", threadQueue) THEN {"call"} ELSE {})
    \cup (IF InQueue("requestStop", threadQueue) THEN {"stop"} ELSE {})
    \cup (IF guiQueue # <<>> THEN {"reports"} ELSE {})

(* Once MainFrame is back in its first state it starts a run whatever is   *)
(* left of the last one.                                                   *)
PressStart ==
  /\ ~isPatching
  /\ starts < MaxStarts
  /\ isPatching' = TRUE
  /\ stop' = FALSE   \* startPatching runs in the GUI thread
  /\ threadQueue' = Append(threadQueue, "patch")
  /\ starts' = starts + 1
  /\ met' = met \cup Leftovers
  /\ UNCHANGED <<guiStop, currentAction, status, guiQueue, pakStop, paster, created, frames, misnamed, cancels>>

(* Mutated: the thread is not told.                                        *)
PressCancelQuietly ==
  /\ isPatching
  /\ cancels < MaxCancels
  /\ guiStop' = TRUE
  /\ UNCHANGED threadQueue
  /\ cancels' = cancels + 1
  /\ UNCHANGED <<isPatching, currentAction, status, guiQueue, stop, pakStop, paster, created, frames, misnamed, starts, met>>

PressCancel ==
  /\ isPatching
  /\ cancels < MaxCancels
  /\ guiStop' = TRUE
  /\ threadQueue' = Append(threadQueue, "requestStop")
  /\ cancels' = cancels + 1
  /\ UNCHANGED <<isPatching, currentAction, status, guiQueue, stop, pakStop, paster, created, frames, misnamed, starts, met>>

OnActionStarted ==
  /\ guiQueue # <<>> /\ Head(guiQueue).kind = "started"
  /\ currentAction' = Head(guiQueue).action
  /\ status' = Head(guiQueue).action
  /\ guiQueue' = Tail(guiQueue)
  /\ UNCHANGED <<isPatching, guiStop, threadQueue, stop, pakStop, paster, created, frames, misnamed, starts, cancels, met>>

(* MainFrame::reset                                                        *)
Reset == isPatching' = FALSE /\ guiStop' = FALSE

(* Mutated: a stop is looked at only when an action fails.                 *)
OnActionCompletedIgnoringStop ==
  /\ guiQueue # <<>> /\ Head(guiQueue).kind = "completed"
  /\ guiQueue' = Tail(guiQueue)
  /\ misnamed' = (misnamed \/ Head(guiQueue).action # currentAction)
  /\ \/ /\ guiStop /\ ~Head(guiQueue).success
        /\ Reset
        /\ status' = "aborted"
     \/ /\ Head(guiQueue).success
        /\ IF currentAction = "Done" THEN Reset ELSE UNCHANGED <<isPatching, guiStop>>
        /\ UNCHANGED status
     \/ /\ ~guiStop /\ ~Head(guiQueue).success
        /\ status' = "failed"
        /\ UNCHANGED <<isPatching, guiStop>>
  /\ UNCHANGED <<currentAction, threadQueue, stop, pakStop, paster, created, frames, starts, cancels, met>>

OnActionCompleted ==
  /\ guiQueue # <<>> /\ Head(guiQueue).kind = "completed"
  /\ guiQueue' = Tail(guiQueue)
  /\ misnamed' = (misnamed \/ Head(guiQueue).action # currentAction)
  /\ \/ /\ guiStop
        /\ Reset
        /\ status' = "aborted"
     \/ /\ ~guiStop /\ Head(guiQueue).success
        /\ IF currentAction = "Done" THEN Reset ELSE UNCHANGED <<isPatching, guiStop>>
        /\ UNCHANGED status
     \/ /\ ~guiStop /\ ~Head(guiQueue).success
        /\ status' = "failed"
        /\ UNCHANGED <<isPatching, guiStop>>
  /\ UNCHANGED <<currentAction, threadQueue, stop, pakStop, paster, created, frames, starts, cancels, met>>

-----------------------------------------------------------------------------
(* Events of the thread                                                    *)

(* The loop of the thread takes them when no patch() runs, processEvents() *)
(* when one polls.                                                         *)
TakesEvents == frames # <<>> => Top.pc = "poll"

OnRequestStop ==
  /\ TakesEvents
  /\ threadQueue # <<>> /\ Head(threadQueue) = "requestStop"
  /\ threadQueue' = Tail(threadQueue)
  /\ stop' = TRUE
  /\ pakStop' = TRUE
  /\ UNCHANGED <<guiVars, guiQueue, paster, created, frames>>

Patch ==
  /\ TakesEvents
  /\ threadQueue # <<>> /\ Head(threadQueue) = "patch"
  /\ threadQueue' = Tail(threadQueue)
  /\ frames' = <<NewFrame>> \o frames
  /\ UNCHANGED <<guiVars, guiQueue, stop, pakStop, paster, created>>

-----------------------------------------------------------------------------
(* PasterThread::patch                                                     *)

(* EXECUTE_ACTION before an action: a stop ends the run without a word.    *)
AbortPatch ==
  /\ frames # <<>> /\ Top.pc = "before"
  /\ stop
  /\ paster' = 0
  /\ frames' = Tail(frames)
  /\ UNCHANGED <<guiVars, guiQueue, threadQueue, stop, pakStop, created>>

(* An action begins; Init makes the DataPaster, the others run on it.      *)
BeginAction ==
  /\ frames # <<>> /\ Top.pc = "before"
  /\ ~stop
  /\ guiQueue' = Append(guiQueue, Started(Action))
  /\ IF Action = "Init"
     THEN paster' = created + 1 /\ created' = created + 1
     ELSE UNCHANGED <<paster, created>>
  /\ SetTop([Top EXCEPT !.pc = IF Items(Action) > 0 /\ Action # "CheckImage" THEN "poll" ELSE "run",
                        !.items = Items(Action), !.paster = paster'])
  /\ UNCHANGED <<guiVars, threadQueue, stop, pakStop>>

Running == frames # <<>> /\ Top.pc = "run"

(* progress() of an archive: events are handled until there is none.  An   *)
(* archive that has noticed a stop does not come here again.               *)
Poll ==
  /\ Running /\ Top.inItem
  /\ ~pakStop
  /\ SetTop([Top EXCEPT !.pc = "poll"])
  /\ UNCHANGED <<guiVars, guiQueue, threadQueue, stop, pakStop, paster, created>>

EndPoll ==
  /\ frames # <<>> /\ Top.pc = "poll"
  /\ threadQueue = <<>>
  /\ SetTop([Top EXCEPT !.pc = "run"])
  /\ UNCHANGED <<guiVars, guiQueue, threadQueue, stop, pakStop, paster, created>>

(* The work on an archive begins with init(), which takes back a stop.     *)
BeginItem ==
  /\ Running /\ Top.items > 0 /\ ~Top.inItem
  /\ pakStop' = FALSE
  /\ SetTop([Top EXCEPT !.inItem = TRUE])
  /\ UNCHANGED <<guiVars, guiQueue, threadQueue, stop, paster, created>>

(* A comparison looks at the flag right after progress(), the others only  *)
(* if there is more to do.  The action reports progress before the next.   *)
EndItem ==
  /\ Running /\ Top.inItem
  /\ pakStop => Action \notin {"CheckData", "CheckPaks"}
  /\ SetTop([Top EXCEPT !.inItem = FALSE, !.items = @ - 1, !.pc = IF Top.items > 1 THEN "poll" ELSE "run"])
  /\ UNCHANGED <<guiVars, guiQueue, threadQueue, stop, pakStop, paster, created>>

(* EXECUTE_ACTION after an action.                                         *)
CompleteAction ==
  /\ Running /\ Top.items = 0
  /\ guiQueue' = Append(guiQueue, Completed(Action, TRUE))
  /\ IF Action = "Done"
     THEN paster' = 0 /\ frames' = Tail(frames)
     ELSE /\ SetTop([Top EXCEPT !.left = Tail(@), !.pc = "before"])
          /\ UNCHANGED paster
  /\ UNCHANGED <<guiVars, threadQueue, stop, pakStop, created>>

(* Mutated: the run goes on after an action has failed.                    *)
FailActionGoesOn ==
  /\ Running
  /\ Action = "Init" \/ Top.items > 0
  /\ guiQueue' = Append(guiQueue, Completed(Action, FALSE))
  /\ paster' = 0
  /\ SetTop([Top EXCEPT !.left = Tail(@), !.pc = "before"])
  /\ UNCHANGED <<guiVars, threadQueue, stop, pakStop, created>>

(* An archive fails, for the stop or for reasons of its own, or the image  *)
(* cannot be opened.                                                       *)
FailAction ==
  /\ Running
  /\ Action = "Init" \/ Top.items > 0
  /\ guiQueue' = Append(guiQueue, Completed(Action, FALSE))
  /\ paster' = 0
  /\ frames' = Tail(frames)
  /\ UNCHANGED <<guiVars, threadQueue, stop, pakStop, created>>

-----------------------------------------------------------------------------
Init ==
  /\ isPatching = FALSE /\ guiStop = FALSE /\ currentAction = "None" /\ status = "none"
  /\ guiQueue = <<>> /\ threadQueue = <<>>
  /\ stop = FALSE /\ pakStop = FALSE
  /\ paster = 0 /\ created = 0 /\ frames = <<>>
  /\ misnamed = FALSE /\ met = {}
  /\ starts = 0 /\ cancels = 0

Gui == OnActionStarted \/ OnActionCompleted
User == PressStart \/ PressCancel
Thread == OnRequestStop \/ Patch \/ AbortPatch \/ BeginAction \/ EndPoll \/ BeginItem \/ CompleteAction
Work == EndItem \/ FailAction

Next == User \/ Gui \/ Thread \/ Work \/ Poll

(* Both event loops run; the work on an archive ends, however often it     *)
(* reports progress on the way.  The user need not do anything.            *)
Spec == Init /\ [][Next]_vars /\ WF_vars(Gui) /\ WF_vars(Thread) /\ SF_vars(Work)

-----------------------------------------------------------------------------
(* Types                                                                   *)

Frame ==
  [left : {SubSeq(Actions, i, Len(Actions)) : i \in 1 .. Len(Actions)},
   pc : {"before", "run", "poll"}, items : 0 .. Paks + 1, inItem : BOOLEAN,
   paster : 0 .. MaxStarts]
ActionNames ==
  {"Init", "RebuildPaks", "CheckData", "ReplacePaks", "CheckPaks", "CheckImage", "Done"}

TypeOK ==
  /\ isPatching \in BOOLEAN /\ guiStop \in BOOLEAN
  /\ currentAction \in ActionNames \cup {"None"}
  /\ status \in ActionNames \cup {"none", "aborted", "failed"}
  /\ guiQueue \in Seq([kind : {"started", "completed"}, action : ActionNames, success : BOOLEAN])
  /\ threadQueue \in Seq({"patch", "requestStop"})
  /\ stop \in BOOLEAN /\ pakStop \in BOOLEAN
  /\ created \in 0 .. MaxStarts /\ paster \in {0, created}
  /\ frames \in Seq(Frame)
  /\ misnamed \in BOOLEAN
  /\ starts \in 0 .. MaxStarts /\ cancels \in 0 .. MaxCancels

-----------------------------------------------------------------------------
(* Properties                                                              *)

OnePatchAtATime == Len(frames) <= 1
OnOwnPaster(f) == f.pc # "before" /\ Head(f.left) # "Done" => f.paster = paster /\ paster # 0

(* No run meets what is left of the one before: no patch() works inside    *)
(* another (PasterThread.h declares a result AlreadyRunning that nobody    *)
(* returns), no action works on a DataPaster that has been deleted under   *)
(* it, and no report is shown under the name of another action than the    *)
(* one reported on.                                                        *)
RunsDoNotMeet ==
  OnePatchAtATime /\ (\A i \in 1 .. Len(frames) : OnOwnPaster(frames[i])) /\ ~misnamed

(* Only a patch() that is still called or at work when the next run is     *)
(* started can make the runs meet.  Reports of the old run that come after *)
(* the start, and a stop of the old run that reaches the new one, cannot.  *)
OnlyCallsMeet == "call" \notin met => RunsDoNotMeet

(* While MainFrame shows Cancel there is a run to cancel, or a completion  *)
(* on its way that will bring Start back; only after a failure not.  This  *)
(* holds even of runs that meet, unless a stop of an old run came late: it *)
(* ends the new one without a word.                                        *)
CancelHasARun ==
  "stop" \notin met /\ isPatching =>
    \/ frames # <<>> \/ InQueue("patch", threadQueue)
    \/ \E i \in 1 .. Len(guiQueue) : guiQueue[i].kind = "completed"
    \/ status = "failed"

(* When MainFrame has given up a run that still goes on, the thread knows  *)
(* or will know, unless the run was started while a patch() of an earlier  *)
(* one went on, whose stop the start took back, or while reports of it     *)
(* were on their way, which MainFrame takes for reports of the new run.    *)
AbortReachesThread ==
  met \cap {"call", "reports"} = {} /\ ~isPatching /\ frames # <<>> =>
    stop \/ InQueue("requestStop", threadQueue)

(* Cancel ends all there is of the runs and brings Start back, unless the  *)
(* run had failed before, or a stop of an old run came late; archives that *)
(* have begun may still be finished.                                       *)
CancelEndsRun ==
  guiStop ~> ((frames = <<>> /\ (~isPatching \/ status = "failed")) \/ "stop" \in met)
=============================================================================
