-------------------------- MODULE Mp3PatcherProofs --------------------------
(***************************************************************************)
(* Proofs about the run of the Metroid Prime 3 patcher, for every number   *)
(* of paks.  A run has one step at a time: posted to the worker, worked on *)
(* or answered.  The phases of the run say where it is, what the queues    *)
(* may hold then, and how much of the run has been done for real: a step   *)
(* broken off by a stop is answered like one that succeeded, but then the  *)
(* controller knows of the stop.                                           *)
(***************************************************************************)
EXTENDS Mp3Patcher, SequenceTheorems, TLAPS

-----------------------------------------------------------------------------
(* Inductive invariant                                                     *)

Results == {"stepCompleted", "stepFailed"}
GuiEvents == Results \cup Handlers \cup {"quit"}
WorkerEvents == Steps \cup {"requestStop", "finalizeInternal", "deleteLater"}

Types ==
  /\ steps \in Seq(Steps) /\ plan \subseteq Checks
  /\ stopRequested \in BOOLEAN /\ question \in BOOLEAN
  /\ alive \in BOOLEAN /\ doomed \in BOOLEAN
  /\ paster \in BOOLEAN /\ polls \in BOOLEAN /\ removalFailed \in BOOLEAN
  /\ outcome \in {"none", "completed", "failed", "canceled"}
  /\ thread \in {"stopped", "running", "exiting"}
  /\ wPc \in {"loop", "open", "head", "work", "dol", "remove"}
  /\ wStep \in Steps \cup {"none"} /\ wPak \in Files
  /\ removals \in Seq(SUBSET Files)
  /\ stopFlag \in [Handlers -> BOOLEAN]
  /\ temp \in [Files -> {"none", "old", "part", "whole"}]
  /\ image \in [Files -> {"old", "torn", "new", "bad"}]
  /\ checked \subseteq Checks \X Paks
  /\ guiQ \in Seq(GuiEvents)
  /\ wq \in Seq(WorkerEvents)

(* What the queues of the two threads and the list of steps hold.          *)
GuiCalls == {guiQ[i] : i \in DOMAIN guiQ}
WorkerCalls == {wq[i] : i \in DOMAIN wq}
StepsLeft == {steps[i] : i \in DOMAIN steps}

(* A stop is known to the controller before anything else hears of it.     *)
StopsKnown ==
  /\ question => ~stopRequested
  /\ ~stopRequested =>
       /\ \A h \in Handlers : ~stopFlag[h]
       /\ GuiCalls \cap Handlers = {}
       /\ "requestStop" \notin WorkerCalls

(* The answers in the queue of the GUI thread: none, or one.               *)
Unanswered == GuiCalls \cap Results = {}
Answered(r) ==
  \E i \in DOMAIN guiQ :
    /\ guiQ[i] = r
    /\ \A j \in DOMAIN guiQ : j # i => guiQ[j] \notin Results

(* The steps left follow the current one in the order of the list.         *)
InOrder(c) ==
  /\ \A i \in DOMAIN steps :
       /\ steps[i] # "initialize"
       /\ steps[i] = "rebuildPaks" => (i = 1 /\ c = "initialize")
       /\ (steps[i] = "finalize") <=> (i = Len(steps))
  /\ (c = "finalize") <=> (steps = <<>>)

(* What has been done when the steps of a set are still to be.             *)
Facts(todo) ==
  /\ ("rebuildPaks" \notin todo /\ "replacePaks" \in todo) => \A p \in Paks : temp[p] = "whole"
  /\ "replacePaks" \notin todo => \A f \in Files : image[f] = "new"
  /\ \A c \in plan \ todo : \A p \in Paks : <<c, p>> \in checked

(* What a loop over the paks has done so far.                              *)
PaksDone ==
  \A p \in Paks :
    p < wPak =>
      /\ wStep = "rebuildPaks" => temp[p] = "whole"
      /\ wStep = "replacePaks" => image[p] = "new"
      /\ wStep \in {"checkData", "checkPaks"} => (stopRequested \/ <<wStep, p>> \in checked)

(* The place a step is carried out at.                                     *)
PakSteps == {"rebuildPaks", "checkData", "replacePaks", "checkPaks"}
AtWork ==
  /\ wPc \in {"open", "head", "work", "dol"}
  /\ wPc = "open" => wStep = "initialize"
  /\ wPc = "head" => wStep \in PakSteps
  /\ wPc = "work" => (wStep = "checkImage" \/ (wStep \in PakSteps /\ wPak \in Paks))
  /\ wPc = "dol" => (wStep = "replacePaks" /\ wPak = Dol)
  /\ wPc # "open" => PaksDone

(* With the paster go the temporary files, unless one cannot be removed or *)
(* the worker went first.                                                  *)
Cleaned ==
  \/ paster \/ removalFailed \/ \A f \in Files : temp[f] = "none"
  \/ ~alive /\ wPc = "remove"
Removing == (wPc = "remove" \/ (wPc = "loop" /\ ~paster)) /\ Cleaned

(* The phases of a run.                                                    *)
NoCall == wq \in {<<>>, <<"requestStop">>}
ToFinalize == wq \in {<<"finalizeInternal", "deleteLater">>,
                      <<"requestStop", "finalizeInternal", "deleteLater">>}
ToDelete == wq \in {<<"deleteLater">>, <<"deleteLater", "requestStop">>}

Fresh ==
  /\ outcome = "none" /\ thread = "stopped" /\ wPc = "loop" /\ removals = <<>>
  /\ wq = <<>> /\ guiQ = <<>> /\ ~stopRequested /\ ~question

Posted(c) ==
  /\ outcome = "none" /\ thread = "running" /\ wPc = "loop" /\ removals = <<>>
  /\ wq \in {<<c>>, <<c, "requestStop">>} /\ Unanswered /\ InOrder(c)
  /\ c # "initialize" => paster
  /\ Facts({c} \cup StepsLeft)

Busy ==
  /\ outcome = "none" /\ thread = "running" /\ AtWork /\ removals = <<>> /\ paster
  /\ NoCall /\ Unanswered /\ InOrder(wStep)
  /\ Facts({wStep} \cup StepsLeft)

Done ==
  /\ outcome = "none" /\ thread = "running"
  /\ NoCall /\ Answered("stepCompleted") /\ InOrder(wStep)
  /\ IF wStep = "finalize" THEN Removing ELSE wPc = "loop" /\ paster
  /\ ~stopRequested => Facts(StepsLeft)

Broken ==
  /\ outcome = "none" /\ thread = "running"
  /\ NoCall /\ Answered("stepFailed") /\ Removing /\ ~polls

Over ==
  /\ outcome # "none" /\ Unanswered
  /\ wPc \in {"loop", "remove"} /\ Cleaned
  /\ \/ ToFinalize /\ alive /\ ~doomed /\ outcome = "canceled"
     \/ ToDelete /\ alive /\ ~doomed /\ Removing
     \/ NoCall /\ alive /\ doomed /\ Removing
     \/ wq = <<>> /\ ~alive /\ doomed /\ ~paster
  /\ outcome = "completed" => Facts({})
  /\ outcome = "failed" => ~polls
  /\ outcome = "canceled" => stopRequested

Phases == Fresh \/ (\E c \in Steps : Posted(c)) \/ Busy \/ Done \/ Broken \/ Over

(* Before its end a run has its worker, and is not told to quit.           *)
WorkerKept ==
  /\ outcome = "none" => (alive /\ ~doomed)
  /\ (thread = "exiting" \/ "quit" \in GuiCalls) => ~alive

(* The stack of removals.  Unless one failed, what the last one has left   *)
(* is all there is; those it interrupted find nothing left.                *)
RemovalsInv ==
  /\ (removals = <<>>) <=> (wPc # "remove")
  /\ \A i \in DOMAIN removals : removals[i] # {}
  /\ (wPc = "remove" /\ ~removalFailed) =>
       \/ \A f \in Files : temp[f] = "none"
       \/ removals[Len(removals)] = {f \in Files : temp[f] # "none"}

(* What is used after its end.  Only an event handled inside a removal can *)
(* end the paster or the worker under it; after a failure nothing polls,   *)
(* and before its outcome a run has not been told to clean up or to end.   *)
UsesInv ==
  /\ alive => Uses \subseteq {"removeTempFiles"} /\ (Uses # {} => removalFailed)
  /\ outcome \in {"none", "failed"} =>
       /\ Uses = {}
       /\ wPc = "remove" => alive /\ paster /\ Len(removals) = 1

IInv ==
  /\ Types /\ StopsKnown /\ Phases /\ WorkerKept /\ RemovalsInv
  /\ OnlyRebuiltWritten /\ UsesInv

-----------------------------------------------------------------------------
(* Queues                                                                  *)

(* The calls in a queue of at most three, as they come and go.             *)
LEMMA OneCall ==
  ASSUME NEW x
  PROVE  <<x>> # <<>> /\ Head(<<x>>) = x /\ Tail(<<x>>) = <<>> /\ Append(<<>>, x) = <<x>>
<1>1. <<x>> # <<>> /\ Head(<<x>>) = x
  OBVIOUS
<1>2. Tail(<<x>>) = <<>>
  OBVIOUS
<1>3. Append(<<>>, x) = <<x>>
  OBVIOUS
<1> QED
  BY <1>1, <1>2, <1>3

LEMMA TwoCalls ==
  ASSUME NEW x, NEW y
  PROVE  /\ <<x, y>> # <<>> /\ Head(<<x, y>>) = x /\ Tail(<<x, y>>) = <<y>>
         /\ Append(<<x>>, y) = <<x, y>>
<1> DEFINE S == {x, y}
<1>1. <<x, y>> # <<>> /\ Head(<<x, y>>) = x
  OBVIOUS
<1>2. Tail(<<x, y>>) = <<y>>
  OBVIOUS
<1>3. Append(<<x>>, y) = <<x, y>>
  <2>1. <<x>> \in Seq(S) /\ y \in S /\ <<x, y>> \in Seq(S)
    OBVIOUS
  <2>2. Append(<<x>>, y) \in Seq(S) /\ Len(Append(<<x>>, y)) = 2
        /\ Append(<<x>>, y)[1] = x /\ Append(<<x>>, y)[2] = y
    BY <2>1, AppendProperties
  <2>3. Len(<<x, y>>) = 2 /\ \A i \in 1 .. 2 : Append(<<x>>, y)[i] = <<x, y>>[i]
    <3>1. \A i \in 1 .. 2 : i = 1 \/ i = 2
      OBVIOUS
    <3> QED
      BY <2>2, <3>1
  <2> QED
    BY <2>1, <2>2, <2>3, SeqEqual
<1> QED
  BY <1>1, <1>2, <1>3

LEMMA ThreeCalls ==
  ASSUME NEW x, NEW y, NEW z
  PROVE  /\ <<x, y, z>> # <<>> /\ Head(<<x, y, z>>) = x /\ Tail(<<x, y, z>>) = <<y, z>>
         /\ Append(<<x, y>>, z) = <<x, y, z>>
<1> DEFINE S == {x, y, z}
<1>1. <<x, y, z>> # <<>> /\ Head(<<x, y, z>>) = x
  OBVIOUS
<1>2. Tail(<<x, y, z>>) = <<y, z>>
  OBVIOUS
<1>3. Append(<<x, y>>, z) = <<x, y, z>>
  <2>1. <<x, y>> \in Seq(S) /\ z \in S /\ <<x, y, z>> \in Seq(S)
    OBVIOUS
  <2>2. Append(<<x, y>>, z) \in Seq(S) /\ Len(Append(<<x, y>>, z)) = 3
        /\ Append(<<x, y>>, z)[1] = x /\ Append(<<x, y>>, z)[2] = y
        /\ Append(<<x, y>>, z)[3] = z
    BY <2>1, AppendProperties
  <2>3. Len(<<x, y, z>>) = 3 /\ \A i \in 1 .. 3 : Append(<<x, y>>, z)[i] = <<x, y, z>>[i]
    <3>1. \A i \in 1 .. 3 : i = 1 \/ i = 2 \/ i = 3
      OBVIOUS
    <3> QED
      BY <2>2, <3>1
  <2> QED
    BY <2>1, <2>2, <2>3, SeqEqual
<1> QED
  BY <1>1, <1>2, <1>3

(* What Append, Tail and Head do to the elements of a sequence.            *)
LEMMA SequenceElements ==
  ASSUME NEW S, NEW q \in Seq(S), NEW e \in S
  PROVE  /\ Append(q, e) \in Seq(S)
         /\ Len(Append(q, e)) = Len(q) + 1
         /\ \A i \in 1 .. Len(q) : Append(q, e)[i] = q[i]
         /\ Append(q, e)[Len(q) + 1] = e
         /\ q # <<>> => /\ Head(q) = q[1] /\ Head(q) \in S
                        /\ Tail(q) \in Seq(S) /\ Len(Tail(q)) = Len(q) - 1
                        /\ \A i \in 1 .. Len(q) - 1 : Tail(q)[i] = q[i + 1]
  BY AppendProperties, HeadTailProperties

(* A call posted to the GUI thread comes after those already there.        *)
LEMMA GuiGets ==
  ASSUME Types, NEW e \in GuiEvents, guiQ' = Append(guiQ, e)
  PROVE  /\ guiQ' \in Seq(GuiEvents)
         /\ GuiCalls' = GuiCalls \cup {e}
         /\ e \notin Results =>
              /\ Unanswered => Unanswered'
              /\ Answered("stepCompleted") => Answered("stepCompleted")'
              /\ Answered("stepFailed") => Answered("stepFailed")'
         /\ (e \in Results /\ Unanswered) => Answered(e)'
<1> DEFINE n == Len(guiQ)
<1>1. /\ guiQ \in Seq(GuiEvents) /\ n \in Nat /\ DOMAIN guiQ = 1 .. n
      /\ DOMAIN guiQ' = 1 .. n + 1
      /\ \A i \in 1 .. n : guiQ'[i] = guiQ[i]
      /\ guiQ'[n + 1] = e
      /\ guiQ' \in Seq(GuiEvents)
  BY SequenceElements DEF Types
<1>2. GuiCalls' = GuiCalls \cup {e}
  <2>1. ASSUME NEW x \in GuiCalls' PROVE x \in GuiCalls \cup {e}
    BY <1>1, <2>1 DEF GuiCalls
  <2>2. ASSUME NEW x \in GuiCalls PROVE x \in GuiCalls'
    BY <1>1, <2>2 DEF GuiCalls
  <2>3. e \in GuiCalls'
    BY <1>1 DEF GuiCalls
  <2> QED
    BY <2>1, <2>2, <2>3
<1>3. ASSUME e \notin Results, NEW r \in Results, Answered(r) PROVE Answered(r)'
  <2>1. PICK i \in 1 .. n : guiQ[i] = r /\ \A j \in 1 .. n : j # i => guiQ[j] \notin Results
    BY <1>1, <1>3 DEF Answered
  <2>2. i \in DOMAIN guiQ' /\ guiQ'[i] = r
    BY <1>1, <2>1
  <2>3. \A j \in DOMAIN guiQ' : j # i => guiQ'[j] \notin Results
    BY <1>1, <1>3, <2>1
  <2> QED
    BY <2>2, <2>3 DEF Answered
<1>4. ASSUME e \in Results, Unanswered PROVE Answered(e)'
  <2>1. \A j \in 1 .. n : guiQ[j] \notin Results
    BY <1>1, <1>4 DEF Unanswered, GuiCalls
  <2>2. n + 1 \in DOMAIN guiQ' /\ guiQ'[n + 1] = e
    BY <1>1
  <2>3. \A j \in DOMAIN guiQ' : j # n + 1 => guiQ'[j] \notin Results
    BY <1>1, <2>1
  <2> QED
    BY <2>2, <2>3 DEF Answered
<1> QED
  BY <1>1, <1>2, <1>3, <1>4 DEF Unanswered, Results

(* A call taken by the GUI thread is no longer there.                      *)
LEMMA GuiLoses ==
  ASSUME Types, NEW e, GuiTakes(e)
  PROVE  /\ guiQ' \in Seq(GuiEvents)
         /\ GuiCalls' \subseteq GuiCalls /\ e \in GuiCalls
         /\ Unanswered => Unanswered'
         /\ e \notin Results =>
              /\ Answered("stepCompleted") => Answered("stepCompleted")'
              /\ Answered("stepFailed") => Answered("stepFailed")'
         /\ e \in Results => \A r \in Results : Answered(r) => (r = e /\ Unanswered')
<1> DEFINE n == Len(guiQ)
<1>1. /\ guiQ \in Seq(GuiEvents) /\ n \in Nat /\ DOMAIN guiQ = 1 .. n
      /\ n # 0 /\ guiQ[1] = e
      /\ DOMAIN guiQ' = 1 .. n - 1
      /\ \A i \in 1 .. n - 1 : guiQ'[i] = guiQ[i + 1]
      /\ guiQ' \in Seq(GuiEvents)
  BY HeadTailProperties, EmptySeq DEF Types, GuiTakes
<1>2. GuiCalls' \subseteq GuiCalls /\ e \in GuiCalls
  <2>1. ASSUME NEW x \in GuiCalls' PROVE x \in GuiCalls
    <3>1. PICK i \in 1 .. n - 1 : x = guiQ[i + 1]
      BY <1>1, <2>1 DEF GuiCalls
    <3>2. i + 1 \in 1 .. n
      BY <1>1
    <3> QED
      BY <1>1, <3>1, <3>2 DEF GuiCalls
  <2>2. e \in GuiCalls
    BY <1>1 DEF GuiCalls
  <2> QED
    BY <2>1, <2>2
<1>3. ASSUME e \notin Results, NEW r \in Results, Answered(r) PROVE Answered(r)'
  <2>1. PICK i \in 1 .. n : guiQ[i] = r /\ \A j \in 1 .. n : j # i => guiQ[j] \notin Results
    BY <1>1, <1>3 DEF Answered
  <2>2. i # 1
    BY <1>1, <1>3, <2>1
  <2>3. i - 1 \in DOMAIN guiQ' /\ guiQ'[i - 1] = r
    BY <1>1, <2>1, <2>2
  <2>4. \A j \in DOMAIN guiQ' : j # i - 1 => guiQ'[j] \notin Results
    BY <1>1, <2>1
  <2> QED
    BY <2>3, <2>4 DEF Answered
<1>4. ASSUME e \in Results, NEW r \in Results, Answered(r) PROVE r = e /\ Unanswered'
  <2>1. PICK i \in 1 .. n : guiQ[i] = r /\ \A j \in 1 .. n : j # i => guiQ[j] \notin Results
    BY <1>1, <1>4 DEF Answered
  <2>2. i = 1
    BY <1>1, <1>4, <2>1
  <2>3. \A j \in DOMAIN guiQ' : guiQ'[j] \notin Results
    BY <1>1, <2>1, <2>2
  <2> QED
    BY <1>1, <2>1, <2>2, <2>3 DEF Unanswered, GuiCalls
<1> QED
  BY <1>1, <1>2, <1>3, <1>4 DEF Unanswered, Results

LEMMA WorkerGets ==
  ASSUME Types, NEW e \in WorkerEvents, wq' = Append(wq, e)
  PROVE  wq' \in Seq(WorkerEvents) /\ WorkerCalls' = WorkerCalls \cup {e}
<1> DEFINE n == Len(wq)
<1>1. /\ wq \in Seq(WorkerEvents) /\ n \in Nat /\ DOMAIN wq = 1 .. n
      /\ DOMAIN wq' = 1 .. n + 1
      /\ \A i \in 1 .. n : wq'[i] = wq[i]
      /\ wq'[n + 1] = e
      /\ wq' \in Seq(WorkerEvents)
  BY SequenceElements DEF Types
<1>2. ASSUME NEW x \in WorkerCalls' PROVE x \in WorkerCalls \cup {e}
  BY <1>1, <1>2 DEF WorkerCalls
<1>3. ASSUME NEW x \in WorkerCalls PROVE x \in WorkerCalls'
  BY <1>1, <1>3 DEF WorkerCalls
<1>4. e \in WorkerCalls'
  BY <1>1 DEF WorkerCalls
<1> QED
  BY <1>1, <1>2, <1>3, <1>4

LEMMA WorkerLoses ==
  ASSUME Types, wq # <<>>, wq' = Tail(wq)
  PROVE  wq' \in Seq(WorkerEvents) /\ WorkerCalls' \subseteq WorkerCalls /\ Head(wq) \in WorkerCalls
<1> DEFINE n == Len(wq)
<1>1. /\ wq \in Seq(WorkerEvents) /\ n \in Nat /\ DOMAIN wq = 1 .. n
      /\ n # 0 /\ wq[1] = Head(wq)
      /\ DOMAIN wq' = 1 .. n - 1
      /\ \A i \in 1 .. n - 1 : wq'[i] = wq[i + 1]
      /\ wq' \in Seq(WorkerEvents)
  BY HeadTailProperties, EmptySeq DEF Types
<1>2. ASSUME NEW x \in WorkerCalls' PROVE x \in WorkerCalls
  <2>1. PICK i \in 1 .. n - 1 : x = wq[i + 1]
    BY <1>1, <1>2 DEF WorkerCalls
  <2>2. i + 1 \in 1 .. n
    BY <1>1
  <2> QED
    BY <1>1, <2>1, <2>2 DEF WorkerCalls
<1>3. Head(wq) \in WorkerCalls
  BY <1>1 DEF WorkerCalls
<1> QED
  BY <1>1, <1>2, <1>3

LEMMA StepsGo ==
  ASSUME Types, steps # <<>>, steps' = Tail(steps), NEW c, InOrder(c),
         NEW h, h = Head(steps)
  PROVE  /\ steps' \in Seq(Steps) /\ h \in Steps /\ h # "initialize"
         /\ {h} \cup StepsLeft' = StepsLeft
         /\ InOrder(h)'
<1> DEFINE n == Len(steps)
<1>1. /\ steps \in Seq(Steps) /\ n \in Nat /\ DOMAIN steps = 1 .. n
      /\ n # 0 /\ steps[1] = h /\ h \in Steps
      /\ DOMAIN steps' = 1 .. n - 1 /\ Len(steps') = n - 1
      /\ \A i \in 1 .. n - 1 : steps'[i] = steps[i + 1]
      /\ steps' \in Seq(Steps)
  BY HeadTailProperties, EmptySeq DEF Types
<1>2. ASSUME NEW i \in 1 .. n - 1 PROVE i + 1 \in 1 .. n
  BY <1>1
<1>3. {h} \cup StepsLeft' = StepsLeft
  <2>1. ASSUME NEW x \in StepsLeft' PROVE x \in StepsLeft
    BY <1>1, <1>2, <2>1 DEF StepsLeft
  <2>2. h \in StepsLeft
    BY <1>1 DEF StepsLeft
  <2>3. ASSUME NEW x \in StepsLeft, x # h PROVE x \in StepsLeft'
    <3>1. PICK i \in 1 .. n : x = steps[i]
      BY <1>1, <2>3 DEF StepsLeft
    <3>2. i - 1 \in 1 .. n - 1 /\ (i - 1) + 1 = i
      BY <1>1, <2>3, <3>1
    <3>3. steps'[i - 1] = x
      BY <1>1, <3>1, <3>2
    <3> QED
      BY <1>1, <3>2, <3>3 DEF StepsLeft
  <2> QED
    BY <2>1, <2>2, <2>3
<1>4. InOrder(h)'
  <2>1. ASSUME NEW i \in DOMAIN steps'
        PROVE  /\ steps'[i] # "initialize"
               /\ steps'[i] # "rebuildPaks"
               /\ (steps'[i] = "finalize") <=> (i = Len(steps'))
    BY <1>1, <1>2, <2>1 DEF InOrder
  <2>2. (h = "finalize") <=> (steps' = <<>>)
    <3>1. (h = "finalize") <=> (n = 1)
      BY <1>1 DEF InOrder
    <3>2. (steps' = <<>>) <=> (n - 1 = 0)
      BY <1>1, EmptySeq
    <3> QED
      BY <1>1, <3>1, <3>2
  <2> QED
    BY <2>1, <2>2 DEF InOrder
<1> QED
  BY <1>1, <1>3, <1>4 DEF InOrder

-----------------------------------------------------------------------------
(* Removal of the temporary files                                          *)

(* finalizeInternal leaves the paster with something to remove, or gone    *)
(* with nothing left to.                                                   *)
LEMMA FinalizeRemoves ==
  ASSUME Types, RemovalsInv, NEW files, FinalizeInternal(files), files = temp',
         temp' \in [Files -> {"none", "old", "part", "whole"}], removalFailed' = removalFailed,
         alive, alive' = alive,
         paster \/ (Cleaned /\ temp' = temp), wPc = "remove" => temp' = temp
  PROVE  /\ removals' \in Seq(SUBSET Files) /\ paster' \in BOOLEAN
         /\ wPc' \in {"loop", "remove"}
         /\ RemovalsInv' /\ Removing'
<1> DEFINE listed == {f \in Files : files[f] # "none"}
<1>1. CASE paster /\ listed # {}
  <2>1. removals' = Append(removals, listed) /\ wPc' = "remove" /\ paster' = paster
    BY <1>1 DEF FinalizeInternal
  <2>2. /\ removals \in Seq(SUBSET Files) /\ listed \in SUBSET Files
        /\ removals' \in Seq(SUBSET Files) /\ Len(removals') = Len(removals) + 1
        /\ Len(removals) \in Nat
        /\ \A i \in 1 .. Len(removals) : removals'[i] = removals[i]
        /\ removals'[Len(removals')] = listed
    BY <2>1, SequenceElements DEF Types
  <2>3. removals' # <<>>
    BY <2>2, EmptySeq
  <2>4. \A i \in DOMAIN removals' : removals'[i] # {}
    BY <1>1, <2>2 DEF RemovalsInv
  <2>5. RemovalsInv'
    BY <2>1, <2>2, <2>3, <2>4 DEF RemovalsInv
  <2> QED
    BY <1>1, <2>1, <2>2, <2>5 DEF Removing, Cleaned, Types
<1>2. CASE ~(paster /\ listed # {})
  <2>1. /\ removals' = removals /\ paster' = FALSE
        /\ wPc' = IF removals = <<>> THEN "loop" ELSE "remove"
    BY <1>2 DEF FinalizeInternal
  <2>2. Cleaned'
    BY <1>2, <2>1 DEF Cleaned
  <2>3. wPc = "remove" <=> removals # <<>>
    BY DEF RemovalsInv
  <2>4. (removals' = <<>>) <=> (wPc' # "remove")
    BY <2>1
  <2>5. \A i \in DOMAIN removals' : removals'[i] # {}
    BY <2>1 DEF RemovalsInv
  <2>6. (wPc' = "remove" /\ ~removalFailed') =>
          \/ \A f \in Files : temp'[f] = "none"
          \/ removals'[Len(removals')] = {f \in Files : temp'[f] # "none"}
    BY <2>1, <2>3 DEF RemovalsInv
  <2>7. RemovalsInv'
    BY <2>4, <2>5, <2>6 DEF RemovalsInv
  <2>8. removals' \in Seq(SUBSET Files) /\ wPc' \in {"loop", "remove"}
    BY <2>1 DEF Types
  <2> QED
    BY <2>1, <2>2, <2>7, <2>8 DEF Removing
<1> QED
  BY <1>1, <1>2

-----------------------------------------------------------------------------
(* Where a run is                                                          *)

LEMMA Constants == /\ PakCount \in Nat /\ PakCount # 0 /\ Paks \subseteq Files /\ Dol \in Files
                   /\ Dol \notin Paks /\ \A f \in Files : f \in Paks \/ f = Dol
                   /\ \A p \in Files : p <= PakCount <=> p \in Paks
                   /\ \A p \in Paks : p + 1 \in Files
                   /\ 1 \in Paks
  BY PakCountAssumption DEF Paks, Files, Dol

LEMMA InitHolds == Init => IInv
<1> SUFFICES ASSUME Init PROVE IInv
  OBVIOUS
<1>1. Types
  <2>1. \A S : <<>> \in Seq(S)
    OBVIOUS
  <2>2. temp \in [Files -> {"none", "old", "part", "whole"}]
    BY DEF Init
  <2>3. image \in [Files -> {"old", "torn", "new", "bad"}]
    BY DEF Init
  <2>4. stopFlag \in [Handlers -> BOOLEAN]
    BY DEF Init
  <2>5. 1 \in Files
    BY Constants
  <2> QED
    BY <2>1, <2>2, <2>3, <2>4, <2>5 DEF Init, Types
<1>2. RemovalsInv
  BY DEF Init, RemovalsInv
<1>3. GuiCalls = {} /\ WorkerCalls = {}
  BY DEF Init, GuiCalls, WorkerCalls
<1>4. StopsKnown /\ WorkerKept
  BY <1>3 DEF Init, StopsKnown, WorkerKept
<1>5. Phases
  BY DEF Init, Phases, Fresh
<1>6. OnlyRebuiltWritten /\ UsesInv
  BY DEF Init, OnlyRebuiltWritten, UsesInv, Uses
<1> QED
  BY <1>1, <1>2, <1>4, <1>5, <1>6 DEF IInv

(* The step under way is the one there is.                                 *)
LEMMA WorkIsBusy == ASSUME Phases, wPc \in {"open", "head", "work", "dol"} PROVE Busy
  BY DEF Phases, Fresh, Posted, Done, Broken, Removing, Over

(* What the head of the worker's queue tells of the run.                   *)
LEMMA StepAhead ==
  ASSUME Phases, wq # <<>>, wPc = "loop", NEW c \in Steps, c = Head(wq)
  PROVE  Posted(c) /\ Tail(wq) \in {<<>>, <<"requestStop">>}
<1>1. c \notin {"requestStop", "finalizeInternal", "deleteLater"}
  BY DEF Steps, Checks
<1>2. ~Fresh
  BY DEF Fresh
<1>3. ~Busy
  BY DEF Busy, AtWork
<1>4. ~NoCall /\ ~ToFinalize /\ ~ToDelete
  BY <1>1, OneCall, TwoCalls, ThreeCalls DEF NoCall, ToFinalize, ToDelete
<1>5. ~Done /\ ~Broken /\ ~Over
  BY <1>4 DEF Done, Broken, Over
<1>6. PICK d \in Steps : Posted(d)
  BY <1>2, <1>3, <1>5 DEF Phases
<1>7. d = c /\ Tail(wq) \in {<<>>, <<"requestStop">>}
  <2>1. Head(<<d>>) = d /\ Tail(<<d>>) = <<>>
    BY OneCall
  <2>2. Head(<<d, "requestStop">>) = d /\ Tail(<<d, "requestStop">>) = <<"requestStop">>
    BY TwoCalls
  <2> QED
    BY <1>6, <2>1, <2>2 DEF Posted
<1> QED
  BY <1>6, <1>7

LEMMA EndAhead ==
  ASSUME Phases, wq # <<>>, Head(wq) \in {"finalizeInternal", "deleteLater"}
  PROVE  /\ Over /\ alive /\ ~doomed
         /\ Head(wq) = "finalizeInternal" =>
              (ToFinalize /\ Tail(wq) = <<"deleteLater">> /\ outcome = "canceled")
         /\ Head(wq) = "deleteLater" =>
              (ToDelete /\ Removing /\ Tail(wq) \in {<<>>, <<"requestStop">>})
<1>1. ~NoCall
  BY OneCall, TwoCalls, ThreeCalls DEF NoCall
<1>2. ASSUME NEW c \in Steps PROVE ~Posted(c)
  <2>1. c \notin {"requestStop", "finalizeInternal", "deleteLater"}
    BY DEF Steps, Checks
  <2> QED
    BY <2>1, OneCall, TwoCalls, ThreeCalls DEF Posted
<1>3. Over
  BY <1>1, <1>2 DEF Phases, Fresh, Busy, Done, Broken
<1>4. alive /\ ~doomed /\ ((ToFinalize /\ outcome = "canceled") \/ (ToDelete /\ Removing))
  BY <1>1, <1>3 DEF Over
<1>5. ToFinalize => (Head(wq) = "finalizeInternal" /\ Tail(wq) = <<"deleteLater">>)
  <2>1. \A y : Head(<<"finalizeInternal", y>>) = "finalizeInternal"
                /\ Tail(<<"finalizeInternal", y>>) = <<y>>
    BY TwoCalls
  <2>2. \A y, z : Head(<<"requestStop", y, z>>) = "requestStop"
    BY ThreeCalls
  <2> QED
    BY <2>1, <2>2 DEF ToFinalize
<1>6. ToDelete => (Head(wq) = "deleteLater" /\ Tail(wq) \in {<<>>, <<"requestStop">>})
  <2>1. Head(<<"deleteLater">>) = "deleteLater" /\ Tail(<<"deleteLater">>) = <<>>
    BY OneCall
  <2>2. /\ Head(<<"deleteLater", "requestStop">>) = "deleteLater"
        /\ Tail(<<"deleteLater", "requestStop">>) = <<"requestStop">>
    BY TwoCalls
  <2> QED
    BY <2>1, <2>2 DEF ToDelete
<1> QED
  BY <1>3, <1>4, <1>5, <1>6

(* An answer is taken when there is one.                                   *)
LEMMA AnswerTells ==
  ASSUME IInv, NEW r \in Results, GuiTakes(r)
  PROVE  /\ r = "stepCompleted" => Done
         /\ r = "stepFailed" => Broken
         /\ Unanswered'
<1>1. ~Unanswered
  BY GuiLoses DEF IInv, Unanswered
<1>2. ~Fresh
  BY DEF Fresh, GuiTakes
<1>3. Done \/ Broken
  BY <1>1, <1>2 DEF IInv, Phases, Posted, Busy, Over
<1>4. Done => r = "stepCompleted" /\ Unanswered'
  BY GuiLoses DEF IInv, Done, Results
<1>5. Broken => r = "stepFailed" /\ Unanswered'
  BY GuiLoses DEF IInv, Broken, Results
<1> QED
  BY <1>3, <1>4, <1>5

-----------------------------------------------------------------------------
(* The end of a step                                                       *)

(* A step posts its result and then lets the paster go.                    *)
LEMMA AnswerAndFinalize ==
  ASSUME IInv, outcome = "none", thread = "running", Unanswered, paster, removals = <<>>,
         NEW r \in Results, guiQ' = Append(guiQ, r), polls' \in BOOLEAN,
         NEW files, FinalizeInternal(files), files = temp',
         temp' \in [Files -> {"none", "old", "part", "whole"}],
         image' \in [Files -> {"old", "torn", "new", "bad"}],
         checked' \subseteq Checks \X Paks,
         wStep' \in Steps, wPak' \in Files,
         wq' \in Seq(WorkerEvents), NoCall', WorkerCalls' \subseteq WorkerCalls,
         UNCHANGED <<guiVars, threadVars, stopFlag, removalFailed, faults>>,
         OnlyRebuiltWritten'
  PROVE  /\ Types' /\ StopsKnown' /\ WorkerKept' /\ RemovalsInv' /\ OnlyRebuiltWritten'
         /\ UsesInv'
         /\ outcome' = "none" /\ thread' = "running"
         /\ NoCall' /\ Answered(r)' /\ Removing'
<1>1. wPc # "remove"
  BY DEF IInv, RemovalsInv
<1>2. /\ removals' \in Seq(SUBSET Files) /\ paster' \in BOOLEAN
      /\ wPc' \in {"loop", "remove"} /\ RemovalsInv' /\ Removing'
  <2>1. alive /\ alive' = alive
    BY DEF IInv, WorkerKept, threadVars
  <2> QED
    BY <1>1, <2>1, FinalizeRemoves DEF IInv
<1>3. r \in GuiEvents /\ r \notin Handlers /\ r # "quit"
  BY DEF GuiEvents, Results, Handlers
<1>4. guiQ' \in Seq(GuiEvents) /\ GuiCalls' = GuiCalls \cup {r} /\ Answered(r)'
  BY <1>3, GuiGets DEF IInv
<1>5. Types'
  BY <1>2, <1>4 DEF IInv, Types, guiVars, threadVars
<1>6. StopsKnown'
  BY <1>3, <1>4 DEF IInv, StopsKnown, guiVars
<1>7. WorkerKept'
  BY <1>3, <1>4 DEF IInv, WorkerKept, guiVars, threadVars
<1>8. UsesInv'
  <2>1. alive /\ Uses = {} /\ Uses' = Uses /\ alive' = alive /\ outcome' = outcome
    BY DEF IInv, WorkerKept, UsesInv, Uses, guiVars, threadVars
  <2>2. CASE \E f \in Files : files[f] # "none"
    <3>1. PICK listed : listed = {f \in Files : files[f] # "none"}
      OBVIOUS
    <3>2. listed # {} /\ listed \in SUBSET Files
      BY <2>2, <3>1
    <3>3. removals' = Append(<<>>, listed) /\ paster'
      BY <2>2, <3>1, <3>2 DEF FinalizeInternal, IInv, Types
    <3>4. Len(removals') = 1
      BY <3>3, OneCall
    <3> QED
      BY <2>1, <3>3, <3>4 DEF UsesInv
  <2>3. CASE ~\E f \in Files : files[f] # "none"
    <3>1. wPc' = "loop"
      BY <2>3 DEF FinalizeInternal
    <3> QED
      BY <2>1, <3>1 DEF UsesInv
  <2> QED
    BY <2>2, <2>3
<1> QED
  BY <1>2, <1>4, <1>5, <1>6, <1>7, <1>8 DEF guiVars, threadVars

(* A step that ends with an error.                                         *)
LEMMA ErrorKeeps ==
  ASSUME IInv, Busy, NEW files, ProcessError(files), files = temp',
         temp' \in [Files -> {"none", "old", "part", "whole"}],
         image' \in [Files -> {"old", "torn", "new", "bad"}], checked' = checked,
         wPak' = wPak, UNCHANGED workUnchanged, OnlyRebuiltWritten'
  PROVE  IInv'
<1>1. wStep \in Steps
  BY DEF Busy, AtWork, PakSteps, Steps, Checks
<1>2. /\ guiQ' = Append(guiQ, "stepFailed") /\ polls' = FALSE /\ FinalizeInternal(files)
      /\ wStep' = wStep
  BY DEF ProcessError
<1>3. NoCall' /\ WorkerCalls' = WorkerCalls /\ wq' \in Seq(WorkerEvents)
  BY DEF IInv, Types, Busy, NoCall, WorkerCalls, workUnchanged
<1>4. /\ Types' /\ StopsKnown' /\ WorkerKept' /\ RemovalsInv' /\ OnlyRebuiltWritten'
      /\ UsesInv'
      /\ outcome' = "none" /\ thread' = "running"
      /\ NoCall' /\ Answered("stepFailed")' /\ Removing'
  BY <1>1, <1>2, <1>3, AnswerAndFinalize DEF IInv, Types, Busy, Results, workUnchanged
<1>5. Broken'
  BY <1>2, <1>4 DEF Broken
<1> QED
  BY <1>4, <1>5 DEF IInv, Phases

(* A step that ends as if it had succeeded.                                *)
LEMMA CompleteKeeps ==
  ASSUME IInv, Busy, StepCompleted, wStep # "finalize",
         temp' \in [Files -> {"none", "old", "part", "whole"}],
         image' \in [Files -> {"old", "torn", "new", "bad"}],
         checked' \subseteq Checks \X Paks,
         wPak' = wPak, UNCHANGED workUnchanged, OnlyRebuiltWritten',
         ~stopRequested => Facts(StepsLeft)'
  PROVE  IInv'
<1>1. "stepCompleted" \in GuiEvents /\ "stepCompleted" \in Results
      /\ "stepCompleted" \notin Handlers /\ "stepCompleted" # "quit"
  BY DEF GuiEvents, Results, Handlers
<1>2. /\ guiQ' \in Seq(GuiEvents) /\ GuiCalls' = GuiCalls \cup {"stepCompleted"}
      /\ Answered("stepCompleted")'
  BY <1>1, GuiGets DEF IInv, Busy, StepCompleted
<1>3. Types'
  BY <1>2 DEF IInv, Types, StepCompleted, pasterVars, workUnchanged, guiVars, threadVars
<1>4. StopsKnown'
  BY <1>1, <1>2 DEF IInv, StopsKnown, WorkerCalls, workUnchanged, guiVars
<1>5. WorkerKept'
  BY <1>1, <1>2 DEF IInv, WorkerKept, workUnchanged, guiVars, threadVars
<1>6. RemovalsInv'
  BY DEF Busy, RemovalsInv, StepCompleted, pasterVars
<1>7. UsesInv'
  BY DEF IInv, Busy, UsesInv, Uses, StepCompleted, pasterVars, workUnchanged, guiVars, threadVars
<1>8. InOrder(wStep)'
  BY DEF Busy, InOrder, StepCompleted, workUnchanged, guiVars
<1>9. Done'
  <2>1. outcome' = "none" /\ thread' = "running" /\ NoCall' /\ wPc' = "loop" /\ paster'
        /\ wStep' # "finalize" /\ stopRequested' = stopRequested
    BY DEF Busy, NoCall, StepCompleted, pasterVars, workUnchanged, guiVars, threadVars
  <2> QED
    BY <1>2, <1>8, <2>1 DEF Done, Facts
<1> QED
  BY <1>3, <1>4, <1>5, <1>6, <1>7, <1>9 DEF IInv, Phases

-----------------------------------------------------------------------------
(* The work on the files                                                   *)

LEMMA OpenKeeps == IInv /\ OpenImage => IInv'
<1> SUFFICES ASSUME IInv, OpenImage PROVE IInv'
  OBVIOUS
<1>1. Busy /\ wStep = "initialize"
  BY WorkIsBusy DEF OpenImage, IInv, Busy, AtWork
<1>2. /\ UNCHANGED workUnchanged /\ wPak' = wPak
      /\ temp' = temp /\ image' = image /\ checked' = checked
  BY DEF OpenImage, diskVars, workUnchanged
<1>3. OnlyRebuiltWritten'
  BY <1>2 DEF IInv, OnlyRebuiltWritten
<1>4. CASE StepCompleted
  <2>1. Facts({wStep} \cup StepsLeft)
    BY <1>1 DEF Busy
  <2>2. StepsLeft' = StepsLeft /\ plan' = plan
    BY <1>2 DEF StepsLeft, workUnchanged, guiVars
  <2>3. plan \subseteq Checks /\ "initialize" \notin Checks
    BY DEF IInv, Types, Checks
  <2>4. Facts(StepsLeft)'
    BY <1>1, <1>2, <2>1, <2>2, <2>3 DEF Facts
  <2> QED
    BY <1>1, <1>2, <1>3, <1>4, <2>4, CompleteKeeps DEF IInv, Types
<1>5. CASE ProcessError(temp)
  BY <1>1, <1>2, <1>3, <1>5, ErrorKeeps DEF IInv, Types
<1> QED
  BY <1>4, <1>5 DEF OpenImage

(* A step that goes on.                                                    *)
LEMMA BusyKeeps ==
  ASSUME IInv, Busy, UNCHANGED <<workUnchanged, guiQ, wStep, pasterVars>>,
         wPc' \in {"head", "work", "dol"}, wPak' \in Files,
         temp' \in [Files -> {"none", "old", "part", "whole"}],
         image' \in [Files -> {"old", "torn", "new", "bad"}],
         checked' \subseteq Checks \X Paks,
         OnlyRebuiltWritten', AtWork', Facts({wStep} \cup StepsLeft)'
  PROVE  IInv'
<1>1. Types'
  BY DEF IInv, Types, pasterVars, workUnchanged, guiVars, threadVars
<1>2. StopsKnown'
  BY DEF IInv, StopsKnown, WorkerCalls, GuiCalls, workUnchanged, guiVars
<1>3. WorkerKept'
  BY DEF IInv, WorkerKept, GuiCalls, workUnchanged, guiVars, threadVars
<1>4. RemovalsInv'
  BY DEF Busy, RemovalsInv, pasterVars
<1>5. UsesInv'
  BY DEF IInv, Busy, UsesInv, Uses, StepCompleted, pasterVars, workUnchanged, guiVars, threadVars
<1>6. Busy'
  <2>1. InOrder(wStep)'
    BY DEF Busy, InOrder, workUnchanged, guiVars
  <2>2. /\ outcome' = "none" /\ thread' = "running" /\ removals' = <<>> /\ paster'
        /\ NoCall' /\ Unanswered'
    BY DEF Busy, NoCall, Unanswered, GuiCalls, pasterVars, workUnchanged, guiVars, threadVars
  <2> QED
    BY <2>1, <2>2 DEF Busy
<1> QED
  BY <1>1, <1>2, <1>3, <1>4, <1>5, <1>6 DEF IInv, Phases

LEMMA LeaveKeeps == IInv /\ LeavePaks => IInv'
<1> SUFFICES ASSUME IInv, LeavePaks PROVE IInv'
  OBVIOUS
<1>1. Busy /\ wPc = "head" /\ wStep \in PakSteps /\ PaksDone
  BY WorkIsBusy DEF LeavePaks, IInv, Busy, AtWork
<1>2. /\ UNCHANGED workUnchanged /\ wPak' = wPak
      /\ temp' = temp /\ image' = image /\ checked' = checked
  BY DEF LeavePaks, diskVars, workUnchanged
<1>3. OnlyRebuiltWritten'
  BY <1>2 DEF IInv, OnlyRebuiltWritten
<1>4. StepsLeft' = StepsLeft /\ plan' = plan /\ stopRequested' = stopRequested
  BY <1>2 DEF StepsLeft, workUnchanged, guiVars
<1>5. Facts({wStep} \cup StepsLeft)
  BY <1>1 DEF Busy
<1>6. CASE wStep = "replacePaks"
  <2>1. wPc' = "dol" /\ UNCHANGED <<guiQ, pasterVars, wStep>>
    BY <1>6 DEF LeavePaks
  <2>2. wPak > PakCount
    BY <1>6 DEF LeavePaks
  <2>3. wPak = Dol
    BY <2>2, Constants DEF IInv, Types, Files, Dol
  <2>4. PaksDone'
    BY <1>1, <1>2, <1>4, <2>1 DEF PaksDone
  <2>5. AtWork'
    BY <1>2, <1>6, <2>1, <2>3, <2>4 DEF AtWork
  <2>6. Facts({wStep} \cup StepsLeft)'
    BY <1>2, <1>4, <1>5, <2>1 DEF Facts
  <2> QED
    BY <1>1, <1>2, <1>3, <2>1, <2>5, <2>6, BusyKeeps DEF IInv, Types
<1>7. CASE wStep # "replacePaks"
  <2>1. StepCompleted
    BY <1>7 DEF LeavePaks
  <2>2. ASSUME ~stopRequested PROVE Facts(StepsLeft)'
    <3>1. wPak > PakCount
      <4>1. ~stopFlag["action"]
        BY <2>2 DEF IInv, StopsKnown, Handlers
      <4> QED
        BY <4>1 DEF LeavePaks
    <3>2. \A p \in Paks : p < wPak
      BY <3>1, Constants DEF IInv, Types, Files, Paks, Dol
    <3>3. wStep = "rebuildPaks" => \A p \in Paks : temp[p] = "whole"
      BY <1>1, <3>2 DEF PaksDone
    <3>4. wStep \in {"checkData", "checkPaks"} => \A p \in Paks : <<wStep, p>> \in checked
      BY <1>1, <2>2, <3>2 DEF PaksDone
    <3>5. plan \subseteq Checks
      BY DEF IInv, Types
    <3>6. ("rebuildPaks" \notin StepsLeft /\ "replacePaks" \in StepsLeft) =>
             \A p \in Paks : temp[p] = "whole"
      BY <1>5, <3>3 DEF Facts
    <3>7. "replacePaks" \notin StepsLeft => \A f \in Files : image[f] = "new"
      BY <1>5, <1>7 DEF Facts
    <3>8. \A c \in plan \ StepsLeft : \A p \in Paks : <<c, p>> \in checked
      BY <1>1, <1>5, <3>4, <3>5 DEF Facts, PakSteps, Checks
    <3> QED
      BY <1>2, <1>4, <3>6, <3>7, <3>8 DEF Facts
  <2>3. wStep # "finalize"
    BY <1>1 DEF PakSteps
  <2> QED
    BY <1>1, <1>2, <1>3, <2>1, <2>2, <2>3, CompleteKeeps DEF IInv, Types
<1> QED
  BY <1>6, <1>7

LEMMA RefuseKeeps == IInv /\ RefusePak => IInv'
<1> SUFFICES ASSUME IInv, RefusePak PROVE IInv'
  OBVIOUS
<1>1. Busy
  BY WorkIsBusy DEF RefusePak, IInv
<1>2. /\ UNCHANGED workUnchanged /\ wPak' = wPak
      /\ temp' = temp /\ image' = image /\ checked' = checked /\ ProcessError(temp)
  BY DEF RefusePak, diskVars, workUnchanged
<1>3. OnlyRebuiltWritten'
  BY <1>2 DEF IInv, OnlyRebuiltWritten
<1> QED
  BY <1>1, <1>2, <1>3, ErrorKeeps DEF IInv, Types

LEMMA EnterKeeps == IInv /\ EnterPak => IInv'
<1> SUFFICES ASSUME IInv, EnterPak PROVE IInv'
  OBVIOUS
<1>1. Busy /\ wPc = "head" /\ wStep \in PakSteps /\ PaksDone
  BY WorkIsBusy DEF EnterPak, IInv, Busy, AtWork
<1>2. /\ UNCHANGED <<workUnchanged, guiQ, wStep, pasterVars>> /\ wPak' = wPak /\ wPc' = "work"
      /\ image' = image /\ checked' = checked
      /\ temp' = IF wStep = "rebuildPaks" THEN [temp EXCEPT ![wPak] = "part"] ELSE temp
  BY DEF EnterPak, workUnchanged, pasterVars
<1>3. OnlyRebuiltWritten'
  BY <1>2 DEF IInv, OnlyRebuiltWritten
<1>4. /\ StepsLeft' = StepsLeft /\ plan' = plan /\ stopRequested' = stopRequested
      /\ wStep' = wStep
  BY <1>2 DEF StepsLeft, workUnchanged, guiVars
<1>5. wPak \in Paks
  BY Constants DEF EnterPak, IInv, Types
<1>6. temp' \in [Files -> {"none", "old", "part", "whole"}]
  BY <1>2 DEF IInv, Types
<1>7. \A p \in Paks : p < wPak => temp'[p] = temp[p]
  BY <1>2, Constants DEF IInv, Types, Paks
<1>8. PaksDone'
  BY <1>1, <1>2, <1>4, <1>7 DEF PaksDone
<1>9. AtWork'
  BY <1>1, <1>2, <1>4, <1>5, <1>8 DEF AtWork
<1>10. Facts({wStep} \cup StepsLeft)'
  <2>1. Facts({wStep} \cup StepsLeft)
    BY <1>1 DEF Busy
  <2>2. CASE wStep = "rebuildPaks"
    BY <1>2, <1>4, <2>1, <2>2 DEF Facts
  <2>3. CASE wStep # "rebuildPaks"
    BY <1>2, <1>4, <2>1, <2>3 DEF Facts
  <2> QED
    BY <2>2, <2>3
<1> QED
  BY <1>1, <1>2, <1>3, <1>6, <1>9, <1>10, BusyKeeps DEF IInv, Types

(* What is written to the image has been rebuilt before.                   *)
LEMMA ReplacingWhole ==
  ASSUME Busy, wStep = "replacePaks"
  PROVE  \A p \in Paks : temp[p] = "whole"
<1>1. "rebuildPaks" \notin StepsLeft
  BY DEF Busy, InOrder, StepsLeft
<1> QED
  BY <1>1 DEF Busy, Facts

LEMMA FinishKeeps == IInv /\ FinishPak => IInv'
<1> SUFFICES ASSUME IInv, FinishPak PROVE IInv'
  OBVIOUS
<1>1. Busy /\ wPc = "work" /\ wStep \in PakSteps /\ wPak \in Paks /\ PaksDone
  BY WorkIsBusy DEF FinishPak, IInv, Busy, AtWork
<1>2. /\ UNCHANGED <<workUnchanged, guiQ, wStep, pasterVars>> /\ wPak' = wPak + 1 /\ wPc' = "head"
  BY DEF FinishPak, workUnchanged, pasterVars
<1>3. /\ StepsLeft' = StepsLeft /\ plan' = plan /\ stopRequested' = stopRequested
      /\ wStep' = wStep
  BY <1>2 DEF StepsLeft, workUnchanged, guiVars
<1>4. wPak' \in Files /\ wPak \in Files
  BY <1>1, <1>2, Constants
<1>5. Facts({wStep} \cup StepsLeft) /\ plan \subseteq Checks /\ PakSteps \cap Checks = {"checkData", "checkPaks"}
  BY <1>1 DEF Busy, IInv, Types, PakSteps, Checks
<1>6. \A p \in Paks : p < wPak' => p < wPak \/ p = wPak
  BY <1>1, <1>2, Constants DEF Paks
<1>7. /\ temp \in [Files -> {"none", "old", "part", "whole"}]
      /\ image \in [Files -> {"old", "torn", "new", "bad"}]
      /\ checked \subseteq Checks \X Paks
  BY DEF IInv, Types
<1>8. CASE wStep = "rebuildPaks"
  <2>1. temp' = [temp EXCEPT ![wPak] = "whole"] /\ image' = image /\ checked' = checked
    BY <1>8 DEF FinishPak
  <2>2. temp' \in [Files -> {"none", "old", "part", "whole"}]
    BY <1>7, <2>1
  <2>3. PaksDone'
    BY <1>1, <1>3, <1>4, <1>6, <1>7, <1>8, <2>1, Constants DEF PaksDone
  <2>4. AtWork'
    BY <1>1, <1>2, <1>3, <2>3 DEF AtWork
  <2>5. Facts({wStep} \cup StepsLeft)'
    BY <1>3, <1>5, <1>8, <2>1 DEF Facts
  <2>6. OnlyRebuiltWritten'
    BY <2>1 DEF IInv, OnlyRebuiltWritten
  <2> QED
    BY <1>1, <1>2, <1>4, <1>7, <2>1, <2>2, <2>4, <2>5, <2>6, BusyKeeps
<1>9. CASE wStep = "replacePaks"
  <2>1. temp[wPak] = "whole"
    BY <1>1, <1>9, ReplacingWhole
  <2>2. temp' = temp /\ image' = [image EXCEPT ![wPak] = "new"] /\ checked' = checked
    BY <1>9, <2>1 DEF FinishPak, Written
  <2>3. image' \in [Files -> {"old", "torn", "new", "bad"}] /\ OnlyRebuiltWritten'
    BY <1>7, <2>2 DEF IInv, OnlyRebuiltWritten
  <2>4. PaksDone'
    BY <1>1, <1>3, <1>4, <1>6, <1>7, <1>9, <2>2, Constants DEF PaksDone
  <2>5. AtWork'
    BY <1>1, <1>2, <1>3, <2>4 DEF AtWork
  <2>6. Facts({wStep} \cup StepsLeft)'
    BY <1>3, <1>5, <1>9, <2>2 DEF Facts
  <2> QED
    BY <1>1, <1>2, <1>4, <1>7, <2>2, <2>3, <2>5, <2>6, BusyKeeps
<1>10. CASE wStep \in {"checkData", "checkPaks"}
  <2>1. temp' = temp /\ image' = image /\ checked' = checked \cup {<<wStep, wPak>>}
    BY <1>10 DEF FinishPak
  <2>2. checked' \subseteq Checks \X Paks
    BY <1>1, <1>7, <1>10, <2>1 DEF Checks
  <2>3. PaksDone'
    BY <1>1, <1>3, <1>6, <1>10, <2>1 DEF PaksDone
  <2>4. AtWork'
    BY <1>1, <1>2, <1>3, <2>3 DEF AtWork
  <2>5. Facts({wStep} \cup StepsLeft)'
    BY <1>3, <1>5, <1>10, <2>1 DEF Facts
  <2>6. OnlyRebuiltWritten'
    BY <2>1 DEF IInv, OnlyRebuiltWritten
  <2> QED
    BY <1>1, <1>2, <1>4, <1>7, <2>1, <2>2, <2>4, <2>5, <2>6, BusyKeeps
<1> QED
  BY <1>1, <1>8, <1>9, <1>10 DEF PakSteps

LEMMA LeaveFilesKeeps == IInv /\ LeaveFiles => IInv'
<1> SUFFICES ASSUME IInv, LeaveFiles PROVE IInv'
  OBVIOUS
<1>1. Busy /\ wPc = "work" /\ wStep = "checkData" /\ wPak \in Paks /\ PaksDone
  BY WorkIsBusy DEF LeaveFiles, IInv, Busy, AtWork
<1>2. /\ UNCHANGED <<workUnchanged, guiQ, wStep, pasterVars>> /\ wPak' = wPak + 1 /\ wPc' = "head"
      /\ temp' = temp /\ image' = image /\ checked' = checked
  BY DEF LeaveFiles, workUnchanged, pasterVars, diskVars
<1>3. /\ StepsLeft' = StepsLeft /\ plan' = plan /\ stopRequested' = stopRequested
      /\ wStep' = wStep
  BY <1>2 DEF StepsLeft, workUnchanged, guiVars
<1>4. wPak' \in Files
  BY <1>1, <1>2, Constants
<1>5. stopRequested
  BY DEF LeaveFiles, IInv, StopsKnown, Handlers
<1>6. PaksDone'
  BY <1>1, <1>3, <1>5 DEF PaksDone
<1>7. AtWork'
  BY <1>1, <1>2, <1>3, <1>6 DEF AtWork, PakSteps
<1>8. Facts({wStep} \cup StepsLeft)'
  BY <1>1, <1>2, <1>3 DEF Facts, Busy
<1>9. OnlyRebuiltWritten'
  BY <1>2 DEF IInv, OnlyRebuiltWritten
<1> QED
  BY <1>1, <1>2, <1>4, <1>7, <1>8, <1>9, BusyKeeps DEF IInv, Types

LEMMA FinishImageKeeps == IInv /\ FinishCheckImage => IInv'
<1> SUFFICES ASSUME IInv, FinishCheckImage PROVE IInv'
  OBVIOUS
<1>1. Busy /\ wStep = "checkImage"
  BY WorkIsBusy DEF FinishCheckImage, IInv
<1>2. /\ UNCHANGED workUnchanged /\ wPak' = wPak /\ temp' = temp /\ image' = image
      /\ checked' = checked \cup {<<wStep, p>> : p \in Paks} /\ StepCompleted
  BY DEF FinishCheckImage, workUnchanged
<1>3. checked' \subseteq Checks \X Paks
  BY <1>1, <1>2 DEF IInv, Types, Checks
<1>4. StepsLeft' = StepsLeft /\ plan' = plan
  BY <1>2 DEF StepsLeft, workUnchanged, guiVars
<1>5. Facts({wStep} \cup StepsLeft)
  BY <1>1 DEF Busy
<1>6. Facts(StepsLeft)'
  BY <1>1, <1>2, <1>4, <1>5 DEF Facts
<1>7. OnlyRebuiltWritten'
  BY <1>2 DEF IInv, OnlyRebuiltWritten
<1> QED
  BY <1>1, <1>2, <1>3, <1>6, <1>7, CompleteKeeps DEF IInv, Types

LEMMA AbandonKeeps == IInv /\ AbandonPak => IInv'
<1> SUFFICES ASSUME IInv, AbandonPak PROVE IInv'
  OBVIOUS
<1>1. Busy /\ wPc = "work" /\ AtWork
  BY WorkIsBusy DEF AbandonPak, IInv, Busy
<1>2. /\ UNCHANGED workUnchanged /\ wPak' = wPak /\ temp' = temp /\ checked' = checked
      /\ ProcessError(temp)
  BY DEF AbandonPak, workUnchanged
<1>3. image' = image \/ (wStep = "replacePaks" /\ image' = [image EXCEPT ![wPak] = "torn"])
  <2>1. wStep = "replacePaks" => temp[wPak] = "whole"
    BY <1>1, ReplacingWhole DEF AtWork
  <2> QED
    BY <2>1 DEF AbandonPak, Written
<1>4. image' \in [Files -> {"old", "torn", "new", "bad"}] /\ OnlyRebuiltWritten'
  BY <1>3 DEF IInv, Types, OnlyRebuiltWritten
<1> QED
  BY <1>1, <1>2, <1>4, ErrorKeeps DEF IInv, Types

LEMMA DolKeeps == IInv /\ PatchMainDol => IInv'
<1> SUFFICES ASSUME IInv, PatchMainDol PROVE IInv'
  OBVIOUS
<1>1. Busy /\ wStep = "replacePaks" /\ wPak = Dol /\ PaksDone
  BY WorkIsBusy DEF PatchMainDol, IInv, Busy, AtWork
<1>2. UNCHANGED workUnchanged /\ wPak' = wPak /\ checked' = checked
  BY DEF PatchMainDol, workUnchanged
<1>3. /\ temp \in [Files -> {"none", "old", "part", "whole"}]
      /\ image \in [Files -> {"old", "torn", "new", "bad"}]
      /\ checked \subseteq Checks \X Paks
      /\ \A f \in Files : image[f] # "bad"
  BY DEF IInv, Types, OnlyRebuiltWritten
<1>4. CASE /\ temp' = [temp EXCEPT ![Dol] = "whole"]
           /\ image' = [image EXCEPT ![Dol] = "new"]
           /\ StepCompleted
  <2>1. /\ temp' \in [Files -> {"none", "old", "part", "whole"}]
        /\ image' \in [Files -> {"old", "torn", "new", "bad"}]
        /\ OnlyRebuiltWritten'
    BY <1>3, <1>4 DEF OnlyRebuiltWritten
  <2>2. StepsLeft' = StepsLeft /\ plan' = plan
    BY <1>2 DEF StepsLeft, workUnchanged, guiVars
  <2>3. \A f \in Files : image'[f] = "new"
    <3>1. \A p \in Paks : p < wPak
      BY <1>1, Constants DEF Paks, Dol
    <3> QED
      BY <1>1, <1>3, <1>4, <3>1, Constants DEF PaksDone
  <2>4. \A p \in Paks : temp'[p] = "whole"
    BY <1>1, <1>3, <1>4, ReplacingWhole, Constants
  <2>5. Facts({wStep} \cup StepsLeft) /\ plan \subseteq Checks
    BY <1>1 DEF Busy, IInv, Types
  <2>6. Facts(StepsLeft)'
    BY <1>1, <1>2, <2>2, <2>3, <2>4, <2>5 DEF Facts, Checks
  <2> QED
    BY <1>1, <1>2, <1>3, <1>4, <2>1, <2>6, CompleteKeeps
<1>5. ASSUME NEW c \in {temp[Dol], "part"}, temp' = [temp EXCEPT ![Dol] = c], image' = image,
             NEW files, files = temp', ProcessError(files)
      PROVE  IInv'
  <2>1. /\ temp' \in [Files -> {"none", "old", "part", "whole"}] /\ OnlyRebuiltWritten'
    BY <1>3, <1>5, Constants DEF OnlyRebuiltWritten
  <2> QED
    BY <1>1, <1>2, <1>3, <1>5, <2>1, ErrorKeeps
<1>6. ASSUME temp' = [temp EXCEPT ![Dol] = "whole"], image' = [image EXCEPT ![Dol] = "torn"],
             NEW files, files = temp', ProcessError(files)
      PROVE  IInv'
  <2>1. /\ temp' \in [Files -> {"none", "old", "part", "whole"}]
        /\ image' \in [Files -> {"old", "torn", "new", "bad"}]
        /\ OnlyRebuiltWritten'
    BY <1>3, <1>6 DEF OnlyRebuiltWritten
  <2> QED
    BY <1>1, <1>2, <1>3, <1>6, <2>1, ErrorKeeps
<1> QED
  BY <1>4, <1>5, <1>6 DEF PatchMainDol

LEMMA LastDropped ==
  ASSUME NEW S, NEW q \in Seq(S), q # <<>>
  PROVE  /\ SubSeq(q, 1, Len(q) - 1) \in Seq(S)
         /\ Len(SubSeq(q, 1, Len(q) - 1)) = Len(q) - 1
         /\ DOMAIN SubSeq(q, 1, Len(q) - 1) = 1 .. Len(q) - 1
         /\ \A i \in 1 .. Len(q) - 1 : SubSeq(q, 1, Len(q) - 1)[i] = q[i]
<1>1. Len(q) \in Nat /\ Len(q) # 0
  BY EmptySeq
<1>2. \A i \in 1 .. Len(q) - 1 : i \in 1 .. Len(q)
  BY <1>1
<1>3. \A i \in 1 .. Len(q) - 1 : q[i] \in S
  BY <1>2
<1>4. PICK n \in Nat : n = Len(q) - 1
  BY <1>1
<1>5. /\ SubSeq(q, 1, n) \in Seq(S)
      /\ Len(SubSeq(q, 1, n)) = IF 1 <= n THEN n - 1 + 1 ELSE 0
      /\ \A i \in 1 .. n - 1 + 1 : SubSeq(q, 1, n)[i] = q[1 + i - 1]
  BY <1>3, <1>4, SubSeqProperties
<1>6. n - 1 + 1 = n /\ \A i \in 1 .. n : 1 + i - 1 = i
  BY <1>4
<1>7. Len(SubSeq(q, 1, n)) = n
  BY <1>5, <1>6
<1>8. \A i \in 1 .. n : SubSeq(q, 1, n)[i] = q[i]
  BY <1>5, <1>6
<1>9. DOMAIN SubSeq(q, 1, n) = 1 .. n
  BY <1>5, <1>7
<1> QED
  BY <1>4, <1>5, <1>7, <1>8, <1>9

(* removeTempFiles is under way at the end of a run only.                  *)
LEMMA RemovalTells ==
  ASSUME Phases, wPc = "remove"
  PROVE  /\ (Done /\ wStep = "finalize") \/ Broken \/ Over
         /\ Cleaned
  BY DEF Phases, Fresh, Posted, Busy, AtWork, Done, Broken, Over, Removing

LEMMA RemoveKeeps == IInv /\ RemoveTempFile => IInv'
<1> SUFFICES ASSUME IInv, RemoveTempFile PROVE IInv'
  OBVIOUS
<1> DEFINE n == Len(removals)
           top == removals[n]
<1>1. PICK f \in top :
        \/ /\ temp[f] # "none"
           /\ temp' = [temp EXCEPT ![f] = "none"]
           /\ IF top \ {f} = {} THEN RemovalReturns ELSE NextTurn(top \ {f})
           /\ UNCHANGED removalFailed
        \/ /\ removalFailed' = (removalFailed \/ temp[f] # "none")
           /\ RemovalReturns
           /\ UNCHANGED temp
  BY DEF RemoveTempFile, Left
<1>2. /\ wPc = "remove"
      /\ UNCHANGED <<guiVars, guiQ, threadVars, wq, stopFlag, wStep, wPak, polls, image, checked>>
  BY DEF RemoveTempFile
<1>3. /\ removals \in Seq(SUBSET Files) /\ n \in Nat /\ n # 0 /\ DOMAIN removals = 1 .. n
      /\ n \in 1 .. n /\ top \subseteq Files /\ f \in Files
  BY <1>1, <1>2, EmptySeq DEF IInv, Types, RemovalsInv
<1>4. /\ temp \in [Files -> {"none", "old", "part", "whole"}] /\ removalFailed \in BOOLEAN
      /\ paster \in BOOLEAN
  BY DEF IInv, Types
<1>5. /\ Cleaned
      /\ ~removalFailed => \/ \A g \in Files : temp[g] = "none"
                           \/ top = {g \in Files : temp[g] # "none"}
  BY <1>2, RemovalTells DEF IInv, RemovalsInv
<1>6. ASSUME RemovalReturns
      PROVE  /\ removals' \in Seq(SUBSET Files) /\ Len(removals') = n - 1
             /\ DOMAIN removals' = 1 .. n - 1
             /\ \A i \in 1 .. n - 1 : removals'[i] = removals[i]
             /\ wPc' = IF n = 1 THEN "loop" ELSE "remove"
             /\ paster' = FALSE
             /\ faults' = IF alive THEN faults ELSE faults \cup {"finalizeInternal"}
  <2>1. /\ removals' = SubSeq(removals, 1, n - 1) /\ paster' = FALSE
        /\ faults' = IF alive THEN faults ELSE faults \cup {"finalizeInternal"}
        /\ wPc' = IF n = 1 THEN "loop" ELSE "remove"
    BY <1>6 DEF RemovalReturns
  <2> QED
    BY <1>3, <2>1, LastDropped
<1>7. ASSUME RemovalReturns, temp' \in [Files -> {"none", "old", "part", "whole"}],
             removalFailed' \in BOOLEAN,
             ~removalFailed' => \A g \in Files : temp'[g] = "none",
             removalFailed => removalFailed'
      PROVE  /\ removals' \in Seq(SUBSET Files) /\ paster' \in BOOLEAN /\ wPc' \in {"loop", "remove"}
             /\ RemovalsInv' /\ Removing' /\ UsesInv'
  <2>1. (removals' = <<>>) <=> (wPc' # "remove")
    <3>1. (removals' = <<>>) <=> (n - 1 = 0)
      BY <1>3, <1>6, <1>7, EmptySeq
    <3>2. (wPc' # "remove") <=> (n = 1)
      BY <1>6, <1>7
    <3> QED
      BY <1>3, <3>1, <3>2
  <2>2. \A i \in DOMAIN removals' : removals'[i] # {}
    <3>1. \A i \in 1 .. n - 1 : i \in 1 .. n
      BY <1>3
    <3> QED
      BY <1>3, <1>6, <1>7, <3>1 DEF IInv, RemovalsInv
  <2>3. RemovalsInv'
    BY <1>7, <2>1, <2>2 DEF RemovalsInv
  <2>4. Removing'
    BY <1>6, <1>7 DEF Removing, Cleaned
  <2>5. UsesInv'
    <3>1. CASE outcome \in {"none", "failed"}
      <4>1. alive /\ n = 1 /\ Uses = {}
        BY <1>2, <3>1 DEF IInv, UsesInv
      <4>2. wPc' = "loop" /\ faults' = faults
        BY <1>6, <1>7, <4>1
      <4> QED
        BY <4>1, <4>2 DEF UsesInv, Uses
    <3>2. CASE outcome \notin {"none", "failed"}
      <4>1. outcome' = outcome /\ alive' = alive
        BY <1>2 DEF guiVars, threadVars
      <4>2. alive => faults' = faults
        BY <1>6, <1>7
      <4> QED
        BY <1>7, <3>2, <4>1, <4>2 DEF IInv, UsesInv, Uses
    <3> QED
      BY <3>1, <3>2
  <2> QED
    BY <1>6, <1>7, <2>3, <2>4, <2>5
<1>8. /\ removals' \in Seq(SUBSET Files) /\ paster' \in BOOLEAN /\ wPc' \in {"loop", "remove"}
      /\ RemovalsInv' /\ Removing' /\ UsesInv'
      /\ temp' \in [Files -> {"none", "old", "part", "whole"}] /\ removalFailed' \in BOOLEAN
  <2>1. CASE /\ temp[f] # "none" /\ temp' = [temp EXCEPT ![f] = "none"]
             /\ top \ {f} = {} /\ RemovalReturns /\ UNCHANGED removalFailed
    <3>1. temp' \in [Files -> {"none", "old", "part", "whole"}] /\ removalFailed' \in BOOLEAN
      BY <1>4, <2>1
    <3>2. ~removalFailed' => \A g \in Files : temp'[g] = "none"
      BY <1>3, <1>4, <1>5, <2>1
    <3> QED
      BY <1>7, <2>1, <3>1, <3>2
  <2>2. CASE /\ temp[f] # "none" /\ temp' = [temp EXCEPT ![f] = "none"]
             /\ top \ {f} # {} /\ NextTurn(top \ {f}) /\ UNCHANGED removalFailed
    <3>1. /\ removals' = [removals EXCEPT ![n] = top \ {f}]
          /\ faults' = IF paster THEN faults ELSE faults \cup {"removeTempFiles"}
          /\ wPc' = "remove" /\ paster' = paster
      BY <1>2, <2>2 DEF NextTurn
    <3>2. temp' \in [Files -> {"none", "old", "part", "whole"}] /\ removalFailed' \in BOOLEAN
      BY <1>4, <2>2
    <3>3. /\ removals' \in Seq(SUBSET Files) /\ Len(removals') = n
          /\ DOMAIN removals' = 1 .. n
          /\ \A i \in 1 .. n : removals'[i] = IF i = n THEN top \ {f} ELSE removals[i]
      BY <1>3, <3>1
    <3>4. removals' # <<>>
      BY <1>3, <3>3, EmptySeq
    <3>5. \A i \in DOMAIN removals' : removals'[i] # {}
      BY <1>3, <2>2, <3>3 DEF IInv, RemovalsInv
    <3>6. ~removalFailed => top = {g \in Files : temp[g] # "none"}
      BY <1>3, <1>5, <2>2
    <3>7. ~removalFailed' => removals'[Len(removals')] = {g \in Files : temp'[g] # "none"}
      BY <1>3, <1>4, <2>2, <3>3, <3>6
    <3>8. RemovalsInv'
      BY <3>1, <3>4, <3>5, <3>7 DEF RemovalsInv
    <3>9. paster \/ removalFailed \/ ~alive
      BY <1>3, <1>5, <2>2 DEF Cleaned
    <3>10. outcome' = outcome /\ alive' = alive
      BY <1>2 DEF guiVars, threadVars
    <3>11. Removing'
      BY <2>2, <3>1, <3>9, <3>10 DEF Removing, Cleaned
    <3>12. UsesInv'
      <4>1. CASE paster
        BY <1>2, <2>2, <3>1, <3>3, <3>10, <4>1 DEF IInv, UsesInv, Uses
      <4>2. CASE ~paster
        <5>1. outcome \notin {"none", "failed"}
          BY <1>2, <4>2 DEF IInv, UsesInv
        <5>2. faults' = faults \cup {"removeTempFiles"}
          BY <3>1, <4>2
        <5> QED
          BY <2>2, <3>9, <3>10, <4>2, <5>1, <5>2 DEF IInv, UsesInv, Uses
      <4> QED
        BY <4>1, <4>2
    <3> QED
      BY <1>4, <3>1, <3>2, <3>3, <3>8, <3>11, <3>12
  <2>3. CASE /\ removalFailed' = (removalFailed \/ temp[f] # "none")
             /\ RemovalReturns /\ UNCHANGED temp
    <3>1. temp' \in [Files -> {"none", "old", "part", "whole"}] /\ removalFailed' \in BOOLEAN
      BY <1>4, <2>3
    <3>2. ~removalFailed' => \A g \in Files : temp'[g] = "none"
      BY <1>1, <1>3, <1>5, <2>3
    <3> QED
      BY <1>7, <2>3, <3>1, <3>2
  <2> QED
    BY <1>1, <2>1, <2>2, <2>3
<1>9. Types'
  BY <1>2, <1>8 DEF IInv, Types, guiVars, threadVars
<1>10. StopsKnown' /\ WorkerKept' /\ OnlyRebuiltWritten'
  BY <1>2 DEF IInv, StopsKnown, WorkerKept, OnlyRebuiltWritten, GuiCalls, WorkerCalls, guiVars, threadVars
<1>11. Phases'
  <2>1. /\ outcome' = outcome /\ thread' = thread /\ alive' = alive /\ doomed' = doomed
        /\ stopRequested' = stopRequested /\ wStep' = wStep /\ wq' = wq /\ polls' = polls
        /\ Unanswered => Unanswered'
        /\ Answered("stepCompleted") => Answered("stepCompleted")'
        /\ Answered("stepFailed") => Answered("stepFailed")'
        /\ (NoCall <=> NoCall') /\ (ToFinalize <=> ToFinalize') /\ (ToDelete <=> ToDelete')
    BY <1>2 DEF guiVars, threadVars, Unanswered, GuiCalls, Answered, NoCall, ToFinalize, ToDelete
  <2>2. CASE Done /\ wStep = "finalize"
    <3>1. InOrder(wStep)'
      BY <1>2, <2>2 DEF Done, InOrder, guiVars
    <3>2. StepsLeft' = StepsLeft /\ StepsLeft = {} /\ plan' = plan
      BY <1>2, <2>2 DEF Done, InOrder, StepsLeft, guiVars
    <3>3. ~stopRequested => Facts(StepsLeft)'
      BY <1>2, <2>2, <3>2 DEF Done, Facts
    <3>4. Answered("stepCompleted")'
      BY <2>1, <2>2 DEF Done, Results
    <3>5. outcome' = "none" /\ thread' = "running" /\ NoCall' /\ wStep' = "finalize"
      BY <2>1, <2>2 DEF Done
    <3>6. Done'
      BY <1>8, <2>1, <3>1, <3>3, <3>4, <3>5 DEF Done, Facts
    <3> QED
      BY <3>6 DEF Phases
  <2>3. CASE Broken
    BY <1>8, <2>1, <2>3 DEF Broken, Results, Phases
  <2>4. CASE Over
    <3>1. Facts({}) => Facts({})'
      BY <1>2 DEF Facts, guiVars
    <3>2. Cleaned'
      BY <1>8 DEF Removing
    <3>3. ~paster => ~paster'
      BY <1>1 DEF RemovalReturns, NextTurn
    <3> QED
      BY <1>8, <2>1, <2>4, <3>1, <3>2, <3>3 DEF Over, Phases
  <2> QED
    BY <1>2, <2>2, <2>3, <2>4, RemovalTells DEF IInv
<1> QED
  BY <1>8, <1>9, <1>10, <1>11 DEF IInv

-----------------------------------------------------------------------------
(* The requests to stop, and the end of the thread                         *)

(* A step that leaves the work of the run as it is.                        *)
SameWork ==
  /\ steps' = steps /\ plan' = plan /\ outcome' = outcome /\ alive' = alive /\ doomed' = doomed
  /\ wPc' = wPc /\ wStep' = wStep /\ wPak' = wPak /\ removals' = removals /\ paster' = paster
  /\ polls' = polls /\ temp' = temp /\ image' = image /\ checked' = checked /\ removalFailed' = removalFailed

(* What a request to stop changes takes no run from one phase to another.  *)
(* ... its answers, and the calls to its worker but for those to stop.     *)
SameAnswers ==
  /\ Unanswered => Unanswered'
  /\ Answered("stepCompleted") => Answered("stepCompleted")'
  /\ Answered("stepFailed") => Answered("stepFailed")'
SameCalls ==
  /\ (NoCall /\ alive) => NoCall'
  /\ (ToFinalize /\ outcome = "canceled") => ToFinalize'
  /\ ToDelete => ToDelete'
  /\ (wq = <<>> /\ ~alive) => wq' = <<>>
  /\ \A c \in Steps : wq \in {<<c>>, <<c, "requestStop">>} =>
                        wq' \in {<<c>>, <<c, "requestStop">>}

LEMMA PhasesKeep ==
  ASSUME Phases, ~Fresh, SameWork, SameAnswers, SameCalls,
         stopRequested => stopRequested', thread' = thread \/ outcome # "none",
         outcome = "none" => alive
  PROVE  Phases'
<1> USE DEF SameAnswers, SameCalls
<1>1. StepsLeft' = StepsLeft /\ \A c : InOrder(c) <=> InOrder(c)'
  BY DEF SameWork, StepsLeft, InOrder
<1>2. Removing => Removing'
  BY DEF SameWork, Removing, Cleaned
<1>3. ASSUME NEW c \in Steps, Posted(c) PROVE Posted(c)'
  <2>1. InOrder(c)'
    BY <1>3 DEF SameWork, Posted, InOrder
  <2>2. Facts({c} \cup StepsLeft)'
    BY <1>1, <1>3 DEF SameWork, Posted, Facts
  <2>3. wq' \in {<<c>>, <<c, "requestStop">>} /\ Unanswered'
    BY <1>3 DEF SameWork, Posted
  <2> QED
    BY <1>3, <2>1, <2>2, <2>3 DEF SameWork, Posted
<1>4. ASSUME Busy PROVE Busy'
  <2>1. InOrder(wStep)'
    BY <1>4 DEF SameWork, Busy, InOrder
  <2>2. Facts({wStep} \cup StepsLeft)'
    BY <1>1, <1>4 DEF SameWork, Busy, Facts
  <2>3. NoCall' /\ Unanswered'
    BY <1>4 DEF SameWork, Busy
  <2>4. PaksDone => PaksDone'
    BY DEF SameWork, PaksDone
  <2>5. AtWork'
    BY <1>4, <2>4 DEF SameWork, Busy, AtWork
  <2> QED
    BY <1>4, <2>1, <2>2, <2>3, <2>5 DEF SameWork, Busy
<1>5. ASSUME Done PROVE Done'
  <2>1. InOrder(wStep)'
    BY <1>5 DEF SameWork, Done, InOrder
  <2>2. ~stopRequested' => Facts(StepsLeft)'
    BY <1>1, <1>5 DEF SameWork, Done, Facts
  <2>3. NoCall' /\ Answered("stepCompleted")'
    BY <1>5 DEF SameWork, Done
  <2>4. IF wStep' = "finalize" THEN Removing' ELSE wPc' = "loop" /\ paster'
    BY <1>2, <1>5 DEF SameWork, Done
  <2>5. outcome' = "none" /\ thread' = "running"
    BY <1>5 DEF SameWork, Done
  <2> QED
    BY <2>1, <2>2, <2>3, <2>4, <2>5 DEF SameWork, Done, Facts
<1>6. ASSUME Broken PROVE Broken'
  BY <1>2, <1>6 DEF SameWork, Broken
<1>7. ASSUME Over PROVE Over'
  <2>1. Facts({}) => Facts({})'
    BY DEF SameWork, Facts
  <2>2. Cleaned => Cleaned'
    BY DEF SameWork, Cleaned
  <2>3. \/ ToFinalize' /\ alive' /\ ~doomed' /\ outcome' = "canceled"
        \/ ToDelete' /\ alive' /\ ~doomed' /\ Removing'
        \/ NoCall' /\ alive' /\ doomed' /\ Removing'
        \/ wq' = <<>> /\ ~alive' /\ doomed' /\ ~paster'
    BY <1>2, <1>7 DEF SameWork, Over
  <2>4. /\ outcome' # "none" /\ Unanswered' /\ wPc' \in {"loop", "remove"} /\ Cleaned'
        /\ outcome' = "completed" => Facts({})'
        /\ outcome' = "canceled" => stopRequested'
        /\ outcome' = "failed" => ~polls'
    BY <1>7, <2>1, <2>2 DEF SameWork, Over
  <2> QED
    BY <2>3, <2>4 DEF SameWork, Over, Facts
<1> QED
  BY <1>3, <1>4, <1>5, <1>6, <1>7 DEF SameWork, Phases

(* With no stop asked for, no call to stop is there to overtake.           *)
LEMMA QueueUnasked ==
  ASSUME IInv, ~stopRequested
  PROVE  /\ NoCall => wq = <<>>
         /\ ToDelete => wq = <<"deleteLater">>
         /\ \A c : wq # <<c, "requestStop">>
<1>1. "requestStop" \notin WorkerCalls
  BY DEF IInv, StopsKnown
<1>2. ASSUME NEW c PROVE wq # <<c, "requestStop">>
  <2>1. SUFFICES ASSUME wq = <<c, "requestStop">> PROVE FALSE
    OBVIOUS
  <2>2. 2 \in DOMAIN wq /\ wq[2] = "requestStop"
    BY <2>1
  <2> QED
    BY <1>1, <2>2 DEF WorkerCalls
<1>3. wq # <<"requestStop">>
  <2>1. SUFFICES ASSUME wq = <<"requestStop">> PROVE FALSE
    OBVIOUS
  <2>2. 1 \in DOMAIN wq /\ wq[1] = "requestStop"
    BY <2>1
  <2> QED
    BY <1>1, <2>2 DEF WorkerCalls
<1> QED
  BY <1>2, <1>3 DEF NoCall, ToDelete

LEMMA HandlerStopKeeps == IInv /\ OnHandlerStop => IInv'
<1> SUFFICES ASSUME IInv, OnHandlerStop PROVE IInv'
  OBVIOUS
<1>1. PICK h \in Handlers :
        /\ GuiTakes(h)
        /\ stopFlag' = IF alive THEN [stopFlag EXCEPT ![h] = TRUE] ELSE stopFlag
  BY DEF OnHandlerStop
<1>2. UNCHANGED <<guiVars, threadVars, wq, wPc, wStep, wPak, pasterVars, diskVars,
                  removalFailed, faults>>
  BY DEF OnHandlerStop
<1>3. h \notin Results
  BY DEF Handlers, Results
<1>4. /\ guiQ' \in Seq(GuiEvents) /\ GuiCalls' \subseteq GuiCalls /\ h \in GuiCalls
      /\ SameAnswers
  BY <1>1, <1>3, GuiLoses DEF IInv, SameAnswers
<1>5. Types'
  BY <1>1, <1>2, <1>4 DEF IInv, Types, guiVars, threadVars, pasterVars, diskVars
<1>6. StopsKnown'
  BY <1>2, <1>4 DEF IInv, StopsKnown, guiVars
<1>7. ~Fresh
  BY <1>1 DEF Fresh, GuiTakes
<1>8. Phases'
  <2>1. SameCalls
    BY <1>2 DEF SameCalls, NoCall, ToFinalize, ToDelete
  <2>2. SameWork /\ wq' = wq /\ stopRequested' = stopRequested /\ thread' = thread
    BY <1>2 DEF SameWork, guiVars, threadVars, pasterVars, diskVars
  <2>3. Phases /\ (outcome = "none" => alive)
    BY DEF IInv, WorkerKept
  <2> QED
    BY <1>4, <1>7, <2>1, <2>2, <2>3, PhasesKeep
<1>9. WorkerKept' /\ RemovalsInv' /\ OnlyRebuiltWritten' /\ UsesInv'
  BY <1>2, <1>4 DEF IInv, WorkerKept, RemovalsInv, OnlyRebuiltWritten, UsesInv, Uses,
                    guiVars, threadVars, pasterVars, diskVars
<1> QED
  BY <1>5, <1>6, <1>8, <1>9 DEF IInv

LEMMA QuitKeeps == IInv /\ OnQuit => IInv'
<1> SUFFICES ASSUME IInv, OnQuit PROVE IInv'
  OBVIOUS
<1>1. /\ GuiTakes("quit") /\ thread' = "exiting"
      /\ UNCHANGED <<guiVars, alive, doomed, wq, wPc, wStep, wPak, stopFlag, pasterVars,
                     diskVars, removalFailed, faults>>
  BY DEF OnQuit
<1>2. /\ guiQ' \in Seq(GuiEvents) /\ GuiCalls' \subseteq GuiCalls /\ "quit" \in GuiCalls
      /\ SameAnswers
  BY <1>1, GuiLoses DEF IInv, Results, SameAnswers
<1>3. ~alive /\ outcome # "none"
  BY <1>2 DEF IInv, WorkerKept
<1>4. Types'
  BY <1>1, <1>2 DEF IInv, Types, guiVars, pasterVars, diskVars
<1>5. StopsKnown'
  BY <1>1, <1>2 DEF IInv, StopsKnown, WorkerCalls, guiVars
<1>6. Phases'
  <2>1. SameCalls
    BY <1>1 DEF SameCalls, NoCall, ToFinalize, ToDelete
  <2>2. ~Fresh
    BY <1>3 DEF Fresh
  <2>3. SameWork /\ wq' = wq /\ stopRequested' = stopRequested
    BY <1>1 DEF SameWork, guiVars, pasterVars, diskVars
  <2>4. Phases
    BY DEF IInv
  <2> QED
    BY <1>2, <1>3, <2>1, <2>2, <2>3, <2>4, PhasesKeep
<1>7. WorkerKept' /\ RemovalsInv' /\ OnlyRebuiltWritten' /\ UsesInv'
  BY <1>1, <1>2, <1>3 DEF IInv, WorkerKept, RemovalsInv, OnlyRebuiltWritten, UsesInv, Uses,
                         guiVars, pasterVars, diskVars
<1> QED
  BY <1>4, <1>5, <1>6, <1>7 DEF IInv

LEMMA PressKeeps == IInv /\ PressCancel => IInv'
<1> SUFFICES ASSUME IInv, PressCancel PROVE IInv'
  OBVIOUS
<1>1. /\ thread # "stopped" /\ ~stopRequested /\ question' = TRUE
      /\ UNCHANGED <<steps, stopRequested, plan, outcome, guiQ, threadVars, wq, wPc, wStep, wPak,
                     stopFlag, pasterVars, diskVars, removalFailed, faults>>
  BY DEF PressCancel
<1>2. GuiCalls' = GuiCalls /\ WorkerCalls' = WorkerCalls
  BY <1>1 DEF GuiCalls, WorkerCalls
<1>3. Types'
  BY <1>1 DEF IInv, Types, threadVars, pasterVars, diskVars
<1>4. StopsKnown'
  BY <1>1, <1>2 DEF IInv, StopsKnown
<1>5. Phases'
  <2>1. SameCalls
    BY <1>1 DEF SameCalls, NoCall, ToFinalize, ToDelete
  <2>2. SameAnswers
    BY <1>1 DEF SameAnswers, Unanswered, GuiCalls, Answered
  <2>3. SameWork /\ stopRequested' = stopRequested /\ thread' = thread
    BY <1>1 DEF SameWork, threadVars, pasterVars, diskVars
  <2>4. ~Fresh
    BY <1>1 DEF Fresh
  <2>5. Phases /\ (outcome = "none" => alive)
    BY DEF IInv, WorkerKept
  <2> QED
    BY <2>1, <2>2, <2>3, <2>4, <2>5, PhasesKeep
<1>6. WorkerKept' /\ RemovalsInv' /\ OnlyRebuiltWritten' /\ UsesInv'
  BY <1>1, <1>2 DEF IInv, WorkerKept, RemovalsInv, OnlyRebuiltWritten, UsesInv, Uses,
                    threadVars, pasterVars, diskVars
<1> QED
  BY <1>3, <1>4, <1>5, <1>6 DEF IInv

(* The call to stop is queued behind what the worker has been told.        *)
LEMMA AnswerKeeps == IInv /\ AnswerCancel => IInv'
<1> SUFFICES ASSUME IInv, AnswerCancel PROVE IInv'
  OBVIOUS
<1>1. /\ question /\ question' = FALSE
      /\ UNCHANGED <<steps, plan, outcome, guiQ, threadVars, wPc, wStep, wPak,
                     stopFlag, pasterVars, diskVars, removalFailed>>
      /\ RequestStop \/ UNCHANGED <<stopRequested, wq, faults>>
  BY DEF AnswerCancel
<1>2. ~stopRequested /\ ~Fresh
  BY <1>1 DEF IInv, StopsKnown, Fresh
<1>3. /\ wq' \in Seq(WorkerEvents) /\ stopRequested' \in BOOLEAN
      /\ ~stopRequested' => WorkerCalls' = WorkerCalls
      /\ faults' = faults \/ faults' = faults \cup {"requestStop"}
  <2>1. CASE UNCHANGED <<stopRequested, wq, faults>>
    BY <2>1 DEF WorkerCalls, IInv, Types
  <2>2. CASE RequestStop
    <3>1. "requestStop" \in WorkerEvents
      BY DEF WorkerEvents
    <3>2. wq' = wq \/ wq' = Append(wq, "requestStop")
      BY <2>2 DEF RequestStop
    <3>3. wq' \in Seq(WorkerEvents)
      BY <3>1, <3>2, WorkerGets DEF IInv, Types
    <3> QED
      BY <2>2, <3>3 DEF RequestStop
  <2> QED
    BY <1>1, <2>1, <2>2
<1>4. Types'
  <2>1. UNCHANGED <<steps, plan, outcome, guiQ, threadVars, wPc, wStep, wPak,
                    stopFlag, pasterVars, diskVars, removalFailed>>
    BY <1>1
  <2>2. question' \in BOOLEAN /\ stopRequested' \in BOOLEAN /\ wq' \in Seq(WorkerEvents)
    BY <1>1, <1>3
  <2> QED
    BY <2>1, <2>2 DEF IInv, Types, threadVars, pasterVars, diskVars
<1>5. StopsKnown'
  BY <1>1, <1>2, <1>3 DEF IInv, StopsKnown, GuiCalls
<1>6. SameCalls
  <2>1. CASE UNCHANGED <<stopRequested, wq, faults>>
    BY <2>1 DEF SameCalls, NoCall, ToFinalize, ToDelete
  <2>2. CASE RequestStop /\ alive
    <3>1. wq' = Append(wq, "requestStop")
      BY <2>2 DEF RequestStop
    <3>2. NoCall => NoCall'
      <4>1. Append(<<>>, "requestStop") = <<"requestStop">>
        BY OneCall
      <4> QED
        BY <1>2, <3>1, <4>1, QueueUnasked DEF NoCall
    <3>3. ToDelete => ToDelete'
      <4>1. Append(<<"deleteLater">>, "requestStop") = <<"deleteLater", "requestStop">>
        BY TwoCalls
      <4> QED
        BY <1>2, <3>1, <4>1, QueueUnasked DEF ToDelete
    <3>4. outcome # "canceled"
      BY <1>2 DEF IInv, Phases, Fresh, Posted, Busy, Done, Broken, Over
    <3>5. ASSUME NEW c \in Steps, wq \in {<<c>>, <<c, "requestStop">>}
          PROVE  wq' \in {<<c>>, <<c, "requestStop">>}
      <4>1. Append(<<c>>, "requestStop") = <<c, "requestStop">>
        BY TwoCalls
      <4>2. wq = <<c>>
        BY <1>2, <3>5, QueueUnasked
      <4> QED
        BY <3>1, <4>1, <4>2
    <3> QED
      BY <2>2, <3>2, <3>3, <3>4, <3>5 DEF SameCalls
  <2>3. CASE RequestStop /\ ~alive
    BY <2>3 DEF RequestStop, SameCalls, NoCall, ToFinalize, ToDelete
  <2> QED
    BY <1>1, <2>1, <2>2, <2>3
<1>7. Phases'
  <2>1. SameAnswers
    BY <1>1 DEF SameAnswers, Unanswered, GuiCalls, Answered
  <2>2. SameWork /\ thread' = thread
    BY <1>1 DEF SameWork, threadVars, pasterVars, diskVars
  <2>3. Phases /\ (outcome = "none" => alive)
    BY DEF IInv, WorkerKept
  <2> QED
    BY <1>2, <1>6, <2>1, <2>2, <2>3, PhasesKeep
<1>8. WorkerKept' /\ RemovalsInv' /\ OnlyRebuiltWritten' /\ UsesInv'
  BY <1>1, <1>3 DEF IInv, WorkerKept, GuiCalls, RemovalsInv, OnlyRebuiltWritten, UsesInv, Uses,
                    threadVars, pasterVars, diskVars
<1> QED
  BY <1>4, <1>5, <1>7, <1>8 DEF IInv

(* The call to stop overtakes nothing: it is the first in the queue.       *)
LEMMA DeliverStopKeeps == IInv /\ DeliverStop => IInv'
<1> SUFFICES ASSUME IInv, DeliverStop PROVE IInv'
  OBVIOUS
<1>1. /\ wq # <<>> /\ Head(wq) = "requestStop" /\ wq' = Tail(wq)
      /\ guiQ' = guiQ \o <<"action", "pak">>
      /\ UNCHANGED <<guiVars, threadVars, wPc, wStep, wPak, stopFlag, pasterVars, diskVars,
                     removalFailed, faults>>
  BY DEF DeliverStop
<1>2. /\ wq' \in Seq(WorkerEvents) /\ WorkerCalls' \subseteq WorkerCalls
      /\ "requestStop" \in WorkerCalls
  BY <1>1, WorkerLoses DEF IInv
<1>3. stopRequested
  BY <1>2 DEF IInv, StopsKnown
<1>4. /\ guiQ' \in Seq(GuiEvents)
      /\ "quit" \in GuiCalls' => "quit" \in GuiCalls
      /\ SameAnswers
  <2> DEFINE n == Len(guiQ)
  <2>1. guiQ \in Seq(GuiEvents) /\ n \in Nat /\ DOMAIN guiQ = 1 .. n
    BY DEF IInv, Types
  <2>2. <<"action", "pak">> \in Seq(GuiEvents)
    BY DEF GuiEvents, Handlers
  <2>3. /\ guiQ' \in Seq(GuiEvents) /\ DOMAIN guiQ' = 1 .. n + 2
        /\ \A i \in 1 .. n : guiQ'[i] = guiQ[i]
        /\ guiQ'[n + 1] = "action" /\ guiQ'[n + 2] = "pak"
    BY <1>1, <2>1, <2>2, ConcatProperties
  <2>4. \A i \in DOMAIN guiQ' : i \in 1 .. n \/ guiQ'[i] \in {"action", "pak"}
    BY <2>1, <2>3
  <2>5. "quit" \in GuiCalls' => "quit" \in GuiCalls
    BY <2>1, <2>3, <2>4 DEF GuiCalls
  <2>6. Unanswered => Unanswered'
    BY <2>1, <2>3, <2>4, SMTT(30) DEF GuiCalls, Unanswered, Results
  <2>7. \A i \in 1 .. n : i \in DOMAIN guiQ'
    BY <2>1, <2>3
  <2>8. ASSUME NEW r, Answered(r) PROVE Answered(r)'
    <3>1. PICK i \in 1 .. n : guiQ[i] = r /\ \A j \in 1 .. n : j # i => guiQ[j] \notin Results
      BY <2>1, <2>8 DEF Answered
    <3>2. i \in DOMAIN guiQ' /\ guiQ'[i] = r
      BY <2>3, <2>7, <3>1
    <3>3. \A j \in DOMAIN guiQ' : j # i => guiQ'[j] \notin Results
      BY <2>3, <2>4, <3>1 DEF Results
    <3> QED
      BY <3>2, <3>3 DEF Answered
  <2> QED
    BY <2>3, <2>5, <2>6, <2>8 DEF SameAnswers
<1>5. Types'
  BY <1>1, <1>2, <1>4 DEF IInv, Types, guiVars, threadVars, pasterVars, diskVars
<1>6. StopsKnown'
  BY <1>1, <1>3 DEF IInv, StopsKnown, guiVars
<1>7. SameCalls
  <2>1. NoCall => NoCall'
    <3>1. Tail(<<"requestStop">>) = <<>>
      BY OneCall
    <3> QED
      BY <1>1, <3>1 DEF NoCall
  <2>2. ToFinalize => ToFinalize'
    <3>1. Head(<<"finalizeInternal", "deleteLater">>) # "requestStop"
      BY TwoCalls
    <3>2. Tail(<<"requestStop", "finalizeInternal", "deleteLater">>) = <<"finalizeInternal", "deleteLater">>
      BY ThreeCalls
    <3> QED
      BY <1>1, <3>1, <3>2 DEF ToFinalize
  <2>3. ~ToDelete
    <3>1. /\ Head(<<"deleteLater">>) # "requestStop"
          /\ Head(<<"deleteLater", "requestStop">>) # "requestStop"
      BY OneCall, TwoCalls
    <3> QED
      BY <1>1, <3>1 DEF ToDelete
  <2>4. ASSUME NEW c \in Steps PROVE wq \notin {<<c>>, <<c, "requestStop">>}
    <3>1. Head(<<c>>) = c /\ Head(<<c, "requestStop">>) = c
      BY OneCall, TwoCalls
    <3>2. c # "requestStop"
      BY DEF Steps, Checks
    <3> QED
      BY <1>1, <3>1, <3>2
  <2> QED
    BY <1>1, <2>1, <2>2, <2>3, <2>4 DEF SameCalls
<1>8. Phases'
  <2>1. SameWork /\ thread' = thread /\ stopRequested' = stopRequested
    BY <1>1 DEF SameWork, guiVars, threadVars, pasterVars, diskVars
  <2>2. Phases /\ (outcome = "none" => alive) /\ ~Fresh
    BY <1>3 DEF IInv, WorkerKept, Fresh
  <2> QED
    BY <1>4, <1>7, <2>1, <2>2, PhasesKeep
<1>9. WorkerKept' /\ RemovalsInv' /\ OnlyRebuiltWritten' /\ UsesInv'
  BY <1>1, <1>4 DEF IInv, WorkerKept, RemovalsInv, OnlyRebuiltWritten, UsesInv, Uses,
                    guiVars, threadVars, pasterVars, diskVars
<1> QED
  BY <1>5, <1>6, <1>8, <1>9 DEF IInv

LEMMA ThreadStopsKeeps == IInv /\ ThreadStops => IInv'
<1> SUFFICES ASSUME IInv, ThreadStops PROVE IInv'
  OBVIOUS
<1>1. /\ thread = "exiting" /\ thread' = "stopped"
      /\ UNCHANGED <<guiVars, guiQ, alive, doomed, wq, wPc, wStep, wPak, stopFlag, pasterVars,
                     diskVars, removalFailed, faults>>
  BY DEF ThreadStops
<1>2. outcome # "none" /\ ~Fresh
  BY <1>1 DEF IInv, WorkerKept, Fresh
<1>3. GuiCalls' = GuiCalls /\ WorkerCalls' = WorkerCalls
  BY <1>1 DEF GuiCalls, WorkerCalls
<1>4. Types'
  BY <1>1 DEF IInv, Types, guiVars, pasterVars, diskVars
<1>5. StopsKnown'
  BY <1>1, <1>3 DEF IInv, StopsKnown, guiVars
<1>6. Phases'
  <2>1. SameCalls
    BY <1>1 DEF SameCalls, NoCall, ToFinalize, ToDelete
  <2>2. SameAnswers
    BY <1>1 DEF SameAnswers, Unanswered, GuiCalls, Answered
  <2>3. SameWork /\ stopRequested' = stopRequested
    BY <1>1 DEF SameWork, guiVars, pasterVars, diskVars
  <2>4. Phases
    BY DEF IInv
  <2> QED
    BY <1>2, <2>1, <2>2, <2>3, <2>4, PhasesKeep
<1>7. WorkerKept' /\ RemovalsInv' /\ OnlyRebuiltWritten' /\ UsesInv'
  BY <1>1, <1>3 DEF IInv, WorkerKept, RemovalsInv, OnlyRebuiltWritten, UsesInv, Uses,
                    guiVars, pasterVars, diskVars
<1> QED
  BY <1>4, <1>5, <1>6, <1>7 DEF IInv

LEMMA DeliverDeleteKeeps == IInv /\ DeliverDelete => IInv'
<1> SUFFICES ASSUME IInv, DeliverDelete PROVE IInv'
  OBVIOUS
<1>1. /\ wq # <<>> /\ Head(wq) = "deleteLater" /\ wq' = Tail(wq) /\ doomed' = TRUE
      /\ UNCHANGED <<guiVars, guiQ, thread, alive, wPc, wStep, wPak, stopFlag, pasterVars,
                     diskVars, removalFailed, faults>>
  BY DEF DeliverDelete
<1>2. Over /\ alive /\ Removing /\ Tail(wq) \in {<<>>, <<"requestStop">>}
  BY <1>1, EndAhead DEF IInv
<1>3. wq' \in Seq(WorkerEvents) /\ WorkerCalls' \subseteq WorkerCalls
  BY <1>1, WorkerLoses DEF IInv
<1>4. GuiCalls' = GuiCalls
  BY <1>1 DEF GuiCalls
<1>5. Types'
  BY <1>1, <1>3 DEF IInv, Types, guiVars, pasterVars, diskVars
<1>6. StopsKnown'
  BY <1>1, <1>3, <1>4 DEF IInv, StopsKnown, guiVars
<1>7. Over'
  <2>1. NoCall' /\ alive' /\ doomed' /\ Removing'
    BY <1>1, <1>2 DEF NoCall, Removing, Cleaned, pasterVars, diskVars
  <2>2. Facts({}) => Facts({})'
    BY <1>1 DEF Facts, guiVars, diskVars
  <2>3. Unanswered' /\ Cleaned'
    BY <1>2, <1>4, <2>1 DEF Over, Unanswered, Removing
  <2>4. /\ outcome' # "none" /\ wPc' \in {"loop", "remove"}
        /\ outcome' = "completed" => Facts({})'
        /\ outcome' = "canceled" => stopRequested'
        /\ outcome' = "failed" => ~polls'
    BY <1>1, <1>2, <2>2 DEF Over, guiVars, pasterVars
  <2> QED
    BY <2>1, <2>3, <2>4 DEF Over, Facts
<1>8. WorkerKept' /\ RemovalsInv' /\ OnlyRebuiltWritten' /\ UsesInv'
  <2>1. outcome' # "none"
    BY <1>1, <1>2 DEF Over, guiVars
  <2> QED
    BY <1>1, <1>4, <2>1 DEF IInv, WorkerKept, RemovalsInv, OnlyRebuiltWritten, UsesInv, Uses,
                            guiVars, pasterVars, diskVars
<1> QED
  BY <1>5, <1>6, <1>7, <1>8 DEF IInv, Phases

LEMMA DeliverFinalizeKeeps == IInv /\ DeliverFinalize => IInv'
<1> SUFFICES ASSUME IInv, DeliverFinalize PROVE IInv'
  OBVIOUS
<1>1. /\ wq # <<>> /\ Head(wq) = "finalizeInternal" /\ wq' = Tail(wq)
      /\ FinalizeInternal(temp)
      /\ UNCHANGED <<guiVars, guiQ, threadVars, wStep, wPak, stopFlag, polls, diskVars,
                     removalFailed, faults>>
  BY DEF DeliverFinalize
<1>2. Over /\ alive /\ ~doomed /\ wq' = <<"deleteLater">> /\ Cleaned
  BY <1>1, EndAhead DEF IInv, Over
<1>3. wq' \in Seq(WorkerEvents) /\ WorkerCalls' \subseteq WorkerCalls
  BY <1>1, WorkerLoses DEF IInv
<1>4. GuiCalls' = GuiCalls /\ temp' = temp /\ image' = image /\ checked' = checked
  BY <1>1 DEF GuiCalls, diskVars
<1>5. /\ removals' \in Seq(SUBSET Files) /\ paster' \in BOOLEAN
      /\ wPc' \in {"loop", "remove"}
      /\ RemovalsInv' /\ Removing'
  <2>1. alive' = alive /\ removalFailed' = removalFailed
    BY <1>1 DEF threadVars
  <2> QED
    BY <1>1, <1>2, <1>4, <2>1, FinalizeRemoves DEF IInv, Types
<1>6. Types'
  BY <1>1, <1>3, <1>5 DEF IInv, Types, guiVars, threadVars, diskVars
<1>7. StopsKnown'
  BY <1>1, <1>3, <1>4 DEF IInv, StopsKnown, guiVars
<1>8. Over'
  <2>1. ToDelete' /\ alive' /\ ~doomed'
    BY <1>1, <1>2 DEF ToDelete, threadVars
  <2>2. Facts({}) => Facts({})'
    BY <1>1, <1>4 DEF Facts, guiVars
  <2>3. Unanswered' /\ Cleaned'
    BY <1>2, <1>4, <1>5 DEF Over, Unanswered, Removing
  <2>4. /\ outcome' # "none"
        /\ outcome' = "completed" => Facts({})'
        /\ outcome' = "canceled" => stopRequested'
        /\ outcome' = "failed" => ~polls'
    BY <1>1, <1>2, <2>2 DEF Over, guiVars
  <2> QED
    BY <1>5, <2>1, <2>3, <2>4 DEF Over, Facts
<1>9. WorkerKept' /\ OnlyRebuiltWritten' /\ UsesInv'
  <2>1. outcome' = outcome /\ outcome = "canceled"
    BY <1>1, EndAhead DEF IInv, guiVars
  <2> QED
    BY <1>1, <1>4, <2>1 DEF IInv, WorkerKept, OnlyRebuiltWritten, UsesInv, Uses, guiVars, threadVars
<1> QED
  BY <1>5, <1>6, <1>7, <1>8, <1>9 DEF IInv, Phases

LEMMA DestroyKeeps == IInv /\ DestroyWorker => IInv'
<1> SUFFICES ASSUME IInv, DestroyWorker PROVE IInv'
  OBVIOUS
<1>1. /\ doomed /\ alive /\ alive' = FALSE /\ wq' = <<>>
      /\ guiQ' = Append(guiQ, "quit") /\ paster' = FALSE
      /\ UNCHANGED <<guiVars, thread, doomed, wPc, wStep, wPak, stopFlag, removals, polls,
                     diskVars, removalFailed, faults>>
      /\ wPc = "loop" \/ polls
  BY DEF DestroyWorker, IsIdle, IsPolling
<1>2. Over
  <2>1. outcome # "none"
    BY <1>1 DEF IInv, WorkerKept
  <2> QED
    BY <2>1 DEF IInv, Phases, Fresh, Posted, Busy, Done, Broken
<1>3. Removing
  BY <1>1, <1>2 DEF Over
<1>4. /\ "quit" \in GuiEvents /\ "quit" \notin Results /\ "quit" \notin Handlers
  BY DEF GuiEvents, Results, Handlers
<1>5. guiQ' \in Seq(GuiEvents) /\ GuiCalls' = GuiCalls \cup {"quit"} /\ (Unanswered => Unanswered')
  BY <1>1, <1>4, GuiGets DEF IInv
<1>6. WorkerCalls' = {}
  BY <1>1 DEF WorkerCalls
<1>7. Types'
  <2>1. wq' \in Seq(WorkerEvents)
    BY <1>1
  <2>2. Types
    BY DEF IInv
  <2>3. guiQ' \in Seq(GuiEvents)
    BY <1>5
  <2>4. <<guiVars, diskVars>>' = <<guiVars, diskVars>>
    BY <1>1
  <2>5. /\ alive' \in BOOLEAN /\ paster' \in BOOLEAN
        /\ UNCHANGED <<thread, doomed, wPc, wStep, wPak, stopFlag, removals, polls, removalFailed>>
    BY <1>1
  <2> QED
    BY <2>1, <2>2, <2>3, <2>4, <2>5 DEF Types, guiVars, diskVars
<1>8. StopsKnown'
  BY <1>1, <1>4, <1>5, <1>6 DEF IInv, StopsKnown, guiVars
<1>9. Over'
  <2>1. /\ wq' = <<>> /\ ~alive' /\ doomed' /\ ~paster'
        /\ wPc' \in {"loop", "remove"}
    BY <1>1, <1>2 DEF Over
  <2>2. Facts({}) => Facts({})'
    BY <1>1 DEF Facts, guiVars, diskVars
  <2>3. Unanswered' /\ Cleaned'
    BY <1>1, <1>2, <1>3, <1>5 DEF Over, Removing, Cleaned, diskVars
  <2>4. /\ outcome' # "none"
        /\ outcome' = "completed" => Facts({})'
        /\ outcome' = "canceled" => stopRequested'
        /\ outcome' = "failed" => ~polls'
    BY <1>1, <1>2, <2>2 DEF Over, guiVars
  <2> QED
    BY <2>1, <2>3, <2>4 DEF Over, Facts
<1>10. WorkerKept'
  BY <1>1, <1>2 DEF WorkerKept, Over, guiVars
<1>11. RemovalsInv' /\ OnlyRebuiltWritten'
  BY <1>1 DEF IInv, RemovalsInv, OnlyRebuiltWritten, diskVars
<1>12. UsesInv'
  <2>1. outcome' = outcome /\ Uses' = Uses /\ wPc' = wPc
    BY <1>1 DEF Uses, guiVars
  <2>2. outcome = "failed" => wPc = "loop"
    BY <1>1, <1>2 DEF Over
  <2>3. outcome # "none"
    BY <1>2 DEF Over
  <2>4. UsesInv
    BY DEF IInv
  <2> QED
    BY <1>1, <2>1, <2>2, <2>3, <2>4 DEF UsesInv
<1> QED
  BY <1>7, <1>8, <1>9, <1>10, <1>11, <1>12 DEF IInv, Phases

-----------------------------------------------------------------------------
(* The answers, and the next step                                          *)

(* The answer to the last step, or to one that was asked to stop.          *)
LEMMA OverKeeps ==
  ASSUME IInv, NEW r \in Results, GuiTakes(r),
         UNCHANGED <<steps, stopRequested, plan, question, threadVars, wPc, wStep, wPak, stopFlag,
                     pasterVars, diskVars, removalFailed, faults>>,
         outcome = "none", wPc \in {"loop", "remove"}, Cleaned,
         outcome' \in {"completed", "failed", "canceled"},
         \/ stopRequested /\ ProcessCancel
         \/ ~stopRequested /\ Finish(wq) /\ Removing /\ outcome' # "canceled",
         outcome' = "completed" => Facts({}), outcome' = "failed" => ~polls, NoCall
  PROVE  IInv'
<1>1. /\ guiQ' \in Seq(GuiEvents) /\ GuiCalls' \subseteq GuiCalls /\ Unanswered'
  BY GuiLoses, AnswerTells DEF IInv
<1>2. /\ wq' \in Seq(WorkerEvents)
      /\ ~stopRequested => "requestStop" \notin WorkerCalls'
      /\ \/ ToFinalize' /\ outcome' = "canceled" /\ stopRequested
         \/ ToDelete' /\ Removing /\ outcome' # "canceled"
  <2>1. CASE stopRequested /\ ProcessCancel
    <3>1. wq' = Append(Append(wq, "finalizeInternal"), "deleteLater") /\ outcome' = "canceled"
      BY <2>1 DEF ProcessCancel, Finish
    <3>2. /\ Append(<<>>, "finalizeInternal") = <<"finalizeInternal">>
          /\ Append(<<"finalizeInternal">>, "deleteLater") = <<"finalizeInternal", "deleteLater">>
          /\ Append(<<"requestStop">>, "finalizeInternal") = <<"requestStop", "finalizeInternal">>
          /\ Append(<<"requestStop", "finalizeInternal">>, "deleteLater")
               = <<"requestStop", "finalizeInternal", "deleteLater">>
      <4>1. \A x : Append(<<>>, x) = <<x>>
        BY OneCall
      <4>2. \A x, y : Append(<<x>>, y) = <<x, y>>
        BY TwoCalls
      <4>3. \A x, y, z : Append(<<x, y>>, z) = <<x, y, z>>
        BY ThreeCalls
      <4> QED
        BY <4>1, <4>2, <4>3
    <3>3. ToFinalize'
      BY <3>1, <3>2 DEF NoCall, ToFinalize
    <3>4. wq \in Seq(WorkerEvents) /\ {"finalizeInternal", "deleteLater"} \subseteq WorkerEvents
      BY DEF IInv, Types, WorkerEvents
    <3>5. wq' \in Seq(WorkerEvents)
      BY <3>1, <3>4, SequenceElements
    <3> QED
      BY <2>1, <3>1, <3>3, <3>5
  <2>2. CASE ~stopRequested /\ Finish(wq) /\ Removing /\ outcome' # "canceled"
    <3>1. wq' = Append(wq, "deleteLater") /\ wq = <<>>
      BY <2>2, QueueUnasked DEF Finish
    <3>2. wq' = <<"deleteLater">>
      BY <3>1, OneCall
    <3>3. "deleteLater" \in WorkerEvents /\ "deleteLater" # "requestStop"
      BY DEF WorkerEvents
    <3>4. wq' \in Seq(WorkerEvents) /\ WorkerCalls' = WorkerCalls \cup {"deleteLater"}
      BY <3>1, <3>3, WorkerGets DEF IInv
    <3>5. ~stopRequested => "requestStop" \notin WorkerCalls'
      BY <3>3, <3>4 DEF IInv, StopsKnown
    <3> QED
      BY <2>2, <3>2, <3>4, <3>5 DEF ToDelete
  <2> QED
    BY <2>1, <2>2
<1>3. Types'
  BY <1>1, <1>2 DEF IInv, Types, threadVars, pasterVars, diskVars
<1>4. StopsKnown'
  BY <1>1, <1>2 DEF IInv, StopsKnown
<1>5. alive /\ ~doomed /\ alive' /\ ~doomed'
  BY DEF IInv, WorkerKept, threadVars
<1>6. Over'
  <2>1. (Removing => Removing') /\ Cleaned'
    BY <1>5 DEF Removing, Cleaned, pasterVars, diskVars
  <2>2. Facts({}) => Facts({})'
    BY DEF Facts, diskVars
  <2>3. \/ ToFinalize' /\ alive' /\ ~doomed' /\ outcome' = "canceled"
        \/ ToDelete' /\ alive' /\ ~doomed' /\ Removing'
    BY <1>2, <1>5, <2>1
  <2>4. /\ outcome' # "none" /\ wPc' \in {"loop", "remove"}
        /\ outcome' = "completed" => Facts({})'
        /\ outcome' = "canceled" => stopRequested'
        /\ outcome' = "failed" => ~polls'
    BY <1>2, <2>2 DEF pasterVars
  <2> QED
    BY <1>1, <2>1, <2>3, <2>4 DEF Over, Facts
<1>7. WorkerKept' /\ RemovalsInv' /\ OnlyRebuiltWritten' /\ UsesInv'
  BY <1>1, <1>5 DEF IInv, WorkerKept, RemovalsInv, OnlyRebuiltWritten, UsesInv, Uses,
                    threadVars, pasterVars, diskVars
<1> QED
  BY <1>3, <1>4, <1>6, <1>7 DEF IInv, Phases

LEMMA CompletedKeeps == IInv /\ OnStepCompleted => IInv'
<1> SUFFICES ASSUME IInv, OnStepCompleted PROVE IInv'
  OBVIOUS
<1>1. /\ GuiTakes("stepCompleted")
      /\ UNCHANGED <<stopRequested, plan, question, threadVars, wPc, wStep, wPak, stopFlag,
                     pasterVars, diskVars, removalFailed, faults>>
      /\ \/ stopRequested /\ ProcessCancel /\ steps' = steps
         \/ /\ ~stopRequested /\ steps # <<>> /\ steps' = Tail(steps)
            /\ wq' = Append(wq, Head(steps)) /\ outcome' = outcome
         \/ /\ ~stopRequested /\ steps = <<>> /\ steps' = steps
            /\ Finish(wq) /\ outcome' = "completed"
  BY DEF OnStepCompleted
<1>2. "stepCompleted" \in Results
  BY DEF Results
<1>3. Done /\ Unanswered'
  BY <1>1, <1>2, AnswerTells
<1>4. /\ outcome = "none" /\ wPc \in {"loop", "remove"} /\ Cleaned /\ NoCall /\ InOrder(wStep)
      /\ ~stopRequested => Facts(StepsLeft)
  BY <1>3 DEF Done, Removing, Cleaned
<1>5. CASE stopRequested /\ ProcessCancel /\ steps' = steps
  <2>1. outcome' = "canceled"
    BY <1>5 DEF ProcessCancel
  <2> QED
    BY <1>1, <1>2, <1>4, <1>5, <2>1, OverKeeps
<1>6. CASE ~stopRequested /\ steps = <<>> /\ steps' = steps /\ Finish(wq) /\ outcome' = "completed"
  <2>1. Removing
    BY <1>3, <1>4, <1>6 DEF Done, InOrder
  <2>2. StepsLeft = {}
    BY <1>6 DEF StepsLeft
  <2>3. Facts({})
    BY <1>4, <1>6, <2>2
  <2> QED
    BY <1>1, <1>2, <1>4, <1>6, <2>1, <2>3, OverKeeps
<1>7. CASE /\ ~stopRequested /\ steps # <<>> /\ steps' = Tail(steps)
           /\ wq' = Append(wq, Head(steps)) /\ outcome' = outcome
  <2>1. PICK h : h = Head(steps)
    OBVIOUS
  <2>2. /\ steps' \in Seq(Steps) /\ h \in Steps /\ h # "initialize"
        /\ {h} \cup StepsLeft' = StepsLeft /\ InOrder(h)'
    BY <1>4, <1>7, <2>1, StepsGo DEF IInv
  <2>3. wPc = "loop" /\ paster
    BY <1>3, <1>4, <1>7 DEF Done, InOrder
  <2>4. wq = <<>> /\ wq' = <<h>>
    BY <1>4, <1>7, <2>1, QueueUnasked, OneCall
  <2>5. h \in WorkerEvents /\ h # "requestStop"
    BY <2>2 DEF WorkerEvents, Steps, Checks
  <2>6. wq' \in Seq(WorkerEvents) /\ WorkerCalls' = WorkerCalls \cup {h}
    BY <1>7, <2>1, <2>5, WorkerGets DEF IInv
  <2>7. guiQ' \in Seq(GuiEvents) /\ GuiCalls' \subseteq GuiCalls
    BY <1>1, GuiLoses DEF IInv
  <2>8. Types'
    BY <1>1, <1>7, <2>2, <2>6, <2>7 DEF IInv, Types, threadVars, pasterVars, diskVars
  <2>9. StopsKnown'
    BY <1>1, <2>5, <2>6, <2>7 DEF IInv, StopsKnown
  <2>10. removals = <<>>
    BY <2>3 DEF IInv, RemovalsInv
  <2>11. Posted(h)'
    <3>1. Facts({h} \cup StepsLeft)'
      BY <1>1, <1>4, <1>7, <2>2 DEF Facts, diskVars
    <3>2. /\ outcome' = "none" /\ thread' = "running" /\ wPc' = "loop" /\ removals' = <<>>
          /\ wq' = <<h>> /\ paster'
      BY <1>1, <1>3, <1>7, <2>3, <2>4, <2>10 DEF Done, threadVars, pasterVars
    <3> QED
      BY <1>3, <2>2, <3>1, <3>2 DEF Posted
  <2>12. Phases'
    BY <2>2, <2>11 DEF Phases
  <2>13. WorkerKept' /\ RemovalsInv' /\ OnlyRebuiltWritten' /\ UsesInv'
    BY <1>1, <1>7, <2>7 DEF IInv, WorkerKept, RemovalsInv, OnlyRebuiltWritten, UsesInv, Uses,
                            threadVars, pasterVars, diskVars
  <2> QED
    BY <2>8, <2>9, <2>12, <2>13 DEF IInv
<1> QED
  BY <1>1, <1>5, <1>6, <1>7

LEMMA FailedKeeps == IInv /\ OnStepFailed => IInv'
<1> SUFFICES ASSUME IInv, OnStepFailed PROVE IInv'
  OBVIOUS
<1>1. /\ GuiTakes("stepFailed")
      /\ UNCHANGED <<steps, stopRequested, plan, question, threadVars, wPc, wStep, wPak, stopFlag,
                     pasterVars, diskVars, removalFailed, faults>>
      /\ \/ stopRequested /\ ProcessCancel
         \/ ~stopRequested /\ Finish(wq) /\ outcome' = "failed"
  BY DEF OnStepFailed
<1>2. "stepFailed" \in Results
  BY DEF Results
<1>3. Broken
  BY <1>1, <1>2, AnswerTells
<1>4. /\ outcome = "none" /\ wPc \in {"loop", "remove"} /\ Cleaned /\ Removing /\ NoCall /\ ~polls
  BY <1>3 DEF Broken, Removing
<1>5. outcome' \in {"failed", "canceled"}
  BY <1>1 DEF ProcessCancel
<1>6. \/ stopRequested /\ ProcessCancel
      \/ ~stopRequested /\ Finish(wq) /\ Removing /\ outcome' # "canceled"
  BY <1>1, <1>4
<1> QED
  BY <1>1, <1>2, <1>4, <1>5, <1>6, OverKeeps

-----------------------------------------------------------------------------
(* The start of a run and of a step                                        *)

(* The shape of the list of steps of a run: it starts with "initialize" and *)
(* "rebuildPaks" and ends with "finalize", and they occur nowhere else.    *)
ListOfSteps(list, chosen) ==
  /\ list \in Seq(Steps) /\ Len(list) > 3
  /\ list[1] = "initialize" /\ list[2] = "rebuildPaks" /\ list[Len(list)] = "finalize"
  /\ \A i \in 3 .. Len(list) - 1 : list[i] \in {"replacePaks"} \cup Checks
  /\ \A c \in chosen \cup {"replacePaks"} : \E i \in 3 .. Len(list) - 1 : list[i] = c

(* ActionList gives such a list whichever checks the user takes.           *)
LEMMA ActionLists ==
  ASSUME NEW chosen \in {{}, {"checkData"}, Checks}
  PROVE  ListOfSteps(ActionList(chosen), chosen)
<1> DEFINE data == IF "checkData" \in chosen THEN <<"checkData">> ELSE <<>>
           paks == IF "checkPaks" \in chosen THEN <<"checkPaks", "checkImage">> ELSE <<>>
           list == ActionList(chosen)
<1>1. /\ <<"initialize", "rebuildPaks">> \in Seq(Steps) /\ <<"replacePaks">> \in Seq(Steps)
      /\ <<"finalize">> \in Seq(Steps)
  BY DEF Steps
<1>2. data \in Seq(Steps)
  <2>1. <<"checkData">> \in Seq(Steps) /\ <<>> \in Seq(Steps)
    BY DEF Steps, Checks
  <2> QED
    BY <2>1
<1>3. paks \in Seq(Steps)
  <2>1. <<"checkPaks", "checkImage">> \in Seq(Steps) /\ <<>> \in Seq(Steps)
    BY DEF Steps, Checks
  <2> QED
    BY <2>1
<1>4. list \in Seq(Steps)
  <2> HIDE DEF data, paks
  <2>1. <<"initialize", "rebuildPaks">> \o data \in Seq(Steps)
    BY <1>1, <1>2, ConcatProperties
  <2>2. <<"initialize", "rebuildPaks">> \o data \o <<"replacePaks">> \in Seq(Steps)
    BY <2>1, <1>1, ConcatProperties
  <2>3. <<"initialize", "rebuildPaks">> \o data \o <<"replacePaks">> \o paks \in Seq(Steps)
    BY <2>2, <1>3, ConcatProperties
  <2>4. <<"initialize", "rebuildPaks">> \o data \o <<"replacePaks">> \o paks \o <<"finalize">> \in Seq(Steps)
    BY <2>3, <1>1, ConcatProperties
  <2> QED
    BY <2>4 DEF ActionList, data, paks
<1>5. CASE chosen = {}
  <2>1. /\ Len(list) = 4 /\ list[1] = "initialize" /\ list[2] = "rebuildPaks"
        /\ list[3] = "replacePaks" /\ list[4] = "finalize"
    BY <1>5 DEF ActionList
  <2> HIDE DEF list
  <2>2. \A i \in 3 .. 3 : i = 3
    OBVIOUS
  <2>3. 3 \in 3 .. 3 /\ 4 - 1 = 3
    OBVIOUS
  <2>4. ListOfSteps(list, chosen)
    BY <1>4, <1>5, <2>1, <2>2, <2>3 DEF ListOfSteps
  <2> QED
    BY <2>4 DEF list
<1>6. CASE chosen = {"checkData"}
  <2>1. /\ Len(list) = 5 /\ list[1] = "initialize" /\ list[2] = "rebuildPaks"
        /\ list[3] = "checkData" /\ list[4] = "replacePaks" /\ list[5] = "finalize"
    BY <1>6 DEF ActionList
  <2> HIDE DEF list
  <2>2. \A i \in 3 .. 4 : i = 3 \/ i = 4
    OBVIOUS
  <2>3. 3 \in 3 .. 4 /\ 4 \in 3 .. 4 /\ 5 - 1 = 4
    OBVIOUS
  <2>4. ListOfSteps(list, chosen)
    BY <1>4, <1>6, <2>1, <2>2, <2>3 DEF ListOfSteps, Checks
  <2> QED
    BY <2>4 DEF list
<1>7. CASE chosen = Checks
  <2>1. /\ Len(list) = 7 /\ list[1] = "initialize" /\ list[2] = "rebuildPaks"
        /\ list[3] = "checkData" /\ list[4] = "replacePaks" /\ list[5] = "checkPaks"
        /\ list[6] = "checkImage" /\ list[7] = "finalize"
    BY <1>7 DEF ActionList, Checks
  <2> HIDE DEF list
  <2>2. \A i \in 3 .. 6 : i = 3 \/ i = 4 \/ i = 5 \/ i = 6
    OBVIOUS
  <2>3. 3 \in 3 .. 6 /\ 4 \in 3 .. 6 /\ 5 \in 3 .. 6 /\ 6 \in 3 .. 6 /\ 7 - 1 = 6
    OBVIOUS
  <2>4. \A i \in 3 .. 6 : list[i] \in {"replacePaks"} \cup Checks
    BY <2>1, <2>2 DEF Checks
  <2>5. \A c \in Checks \cup {"replacePaks"} :
          c = "replacePaks" \/ c = "checkData" \/ c = "checkPaks" \/ c = "checkImage"
    BY DEF Checks
  <2>6. \A c \in Checks \cup {"replacePaks"} : \E i \in 3 .. 6 : list[i] = c
    BY <2>1, <2>3, <2>5
  <2>7. ListOfSteps(list, chosen)
    BY <1>4, <1>7, <2>1, <2>3, <2>4, <2>6 DEF ListOfSteps
  <2> QED
    BY <2>7 DEF list
<1> QED
  BY <1>5, <1>6, <1>7

(* What is left of such a list once its first step is called.              *)
RestOfSteps(rest, chosen) ==
  /\ rest \in Seq(Steps) /\ rest # <<>>
  /\ \A i \in DOMAIN rest :
       /\ rest[i] # "initialize"
       /\ rest[i] = "rebuildPaks" => i = 1
       /\ (rest[i] = "finalize") <=> (i = Len(rest))
  /\ chosen \cup {"rebuildPaks", "replacePaks"} \subseteq {rest[i] : i \in DOMAIN rest}

LEMMA StepOrder ==
  ASSUME NEW chosen \in {{}, {"checkData"}, Checks}, NEW list, ListOfSteps(list, chosen),
         NEW rest, rest = Tail(list)
  PROVE  Head(list) = "initialize" /\ RestOfSteps(rest, chosen)
<1>1. list \in Seq(Steps) /\ list # <<>> /\ Head(list) = "initialize"
  BY DEF ListOfSteps
<1>2. /\ rest \in Seq(Steps) /\ Len(rest) = Len(list) - 1 /\ DOMAIN rest = 1 .. Len(rest)
      /\ \A i \in 1 .. Len(rest) : rest[i] = list[i + 1]
  BY <1>1, HeadTailProperties
<1>3. rest # <<>> /\ Len(list) \in Nat /\ Len(list) > 3
  <2>1. Len(list) \in Nat /\ Len(list) > 3
    BY <1>1, LenProperties DEF ListOfSteps
  <2>2. Len(rest) # 0
    <3>1. \A n \in Nat : n > 3 => n - 1 # 0
      OBVIOUS
    <3>2. Len(list) - 1 # 0
      BY ONLY <2>1, <3>1
    <3> QED
      BY <3>2, <1>2
  <2> QED
    BY <2>1, <2>2, <1>2, EmptySeq
<1>4. \A i \in DOMAIN rest :
              /\ rest[i] # "initialize"
              /\ rest[i] = "rebuildPaks" => i = 1
              /\ (rest[i] = "finalize") <=> (i = Len(rest))
  <2> SUFFICES ASSUME NEW i \in DOMAIN rest
               PROVE  /\ rest[i] # "initialize"
                      /\ rest[i] = "rebuildPaks" => i = 1
                      /\ (rest[i] = "finalize") <=> (i = Len(rest))
    OBVIOUS
  <2>0. i \in 1 .. Len(rest) /\ Len(rest) = Len(list) - 1 /\ rest[i] = list[i + 1]
    BY <1>2
  <2>1. i = 1 \/ i = Len(list) - 1 \/ i + 1 \in 3 .. Len(list) - 1
    <3>1. Len(list) \in Nat /\ Len(list) > 3 /\ i \in 1 .. Len(list) - 1
      BY <2>0, <1>3
    <3> QED
      BY <3>1
  <2>2. CASE i = 1
    BY <2>0, <2>2, <1>3 DEF ListOfSteps
  <2>3. CASE i = Len(list) - 1
    BY <2>0, <2>3, <1>3 DEF ListOfSteps
  <2>4. CASE i + 1 \in 3 .. Len(list) - 1
    <3>1. list[i + 1] \in {"replacePaks"} \cup Checks
      BY <2>4 DEF ListOfSteps
    <3>2. list[i + 1] # "initialize" /\ list[i + 1] # "rebuildPaks" /\ list[i + 1] # "finalize"
      BY <3>1 DEF Checks
    <3> QED
      BY <2>0, <2>4, <3>2, <1>3
  <2> QED
    BY <2>1, <2>2, <2>3, <2>4
<1>5. chosen \cup {"rebuildPaks", "replacePaks"} \subseteq {rest[i] : i \in DOMAIN rest}
  <2> SUFFICES ASSUME NEW c \in chosen \cup {"rebuildPaks", "replacePaks"}
               PROVE  \E i \in DOMAIN rest : rest[i] = c
    OBVIOUS
  <2>1. CASE c = "rebuildPaks"
    <3>1. 1 \in 1 .. Len(rest) /\ list[1 + 1] = c
      BY <2>1, <1>2, <1>3 DEF ListOfSteps
    <3> QED
      BY <3>1, <1>2
  <2>2. CASE c # "rebuildPaks"
    <3>1. PICK k \in 3 .. Len(list) - 1 : list[k] = c
      BY <2>2 DEF ListOfSteps
    <3>2. k - 1 \in 1 .. Len(rest) /\ (k - 1) + 1 = k
      BY <1>2, <1>3
    <3>3. rest[k - 1] = c
      BY <3>1, <3>2, <1>2
    <3> QED
      BY <3>2, <3>3, <1>2
  <2> QED
    BY <2>1, <2>2
<1> QED
  BY <1>1, <1>2, <1>3, <1>4, <1>5 DEF RestOfSteps
LEMMA StartKeeps == IInv /\ Start => IInv'
<1> SUFFICES ASSUME IInv, Start PROVE IInv'
  OBVIOUS
<1>1. PICK chosen \in {{}, {"checkData"}, Checks} :
        /\ plan' = chosen /\ steps' = Tail(ActionList(chosen))
        /\ wq' = <<Head(ActionList(chosen))>>
  BY DEF Start
<1>2. /\ thread = "stopped" /\ outcome = "none" /\ thread' = "running"
      /\ UNCHANGED <<stopRequested, outcome, question, guiQ, alive, doomed, wPc, wStep, wPak,
                     stopFlag, pasterVars, diskVars, removalFailed, faults>>
  BY DEF Start
<1>3. Fresh
  BY <1>2 DEF IInv, Phases, Posted, Busy, Done, Broken, Over
<1>4. /\ wq' = <<"initialize">> /\ steps' \in Seq(Steps) /\ steps' # <<>>
      /\ \A i \in DOMAIN steps' :
           /\ steps'[i] # "initialize"
           /\ steps'[i] = "rebuildPaks" => i = 1
           /\ (steps'[i] = "finalize") <=> (i = Len(steps'))
      /\ plan' \cup {"rebuildPaks", "replacePaks"} \subseteq StepsLeft'
  <2>1. ListOfSteps(ActionList(chosen), chosen)
    BY ActionLists
  <2>2. PICK rest : rest = Tail(ActionList(chosen))
    OBVIOUS
  <2>3. Head(ActionList(chosen)) = "initialize" /\ RestOfSteps(rest, chosen)
    BY <2>1, <2>2, StepOrder
  <2>4. steps' = rest /\ plan' = chosen /\ wq' = <<"initialize">>
    BY <1>1, <2>2, <2>3
  <2>5. StepsLeft' = {rest[i] : i \in DOMAIN rest}
    BY <2>4 DEF StepsLeft
  <2> QED
    BY <2>3, <2>4, <2>5 DEF RestOfSteps
<1>5. plan' \subseteq Checks
  BY <1>1 DEF Checks
<1>6. wq' \in Seq(WorkerEvents) /\ WorkerCalls' = {"initialize"}
  BY <1>4 DEF WorkerEvents, Steps, WorkerCalls
<1>7. GuiCalls' = GuiCalls
  BY <1>2 DEF GuiCalls
<1>8. Types'
  BY <1>2, <1>4, <1>5, <1>6 DEF IInv, Types, pasterVars, diskVars
<1>9. StopsKnown'
  BY <1>2, <1>6, <1>7 DEF IInv, StopsKnown
<1>10. Posted("initialize")'
  <2>1. InOrder("initialize")'
    BY <1>4 DEF InOrder
  <2>2. Facts({"initialize"} \cup StepsLeft)'
    BY <1>4 DEF Facts
  <2>3. Unanswered'
    BY <1>2, <1>3 DEF Fresh, Unanswered, GuiCalls
  <2> QED
    BY <1>2, <1>3, <1>4, <2>1, <2>2, <2>3 DEF Posted, Fresh, pasterVars
<1>11. Phases'
  BY <1>10 DEF Phases, Steps
<1>12. WorkerKept' /\ RemovalsInv' /\ OnlyRebuiltWritten' /\ UsesInv'
  BY <1>2, <1>7 DEF IInv, WorkerKept, RemovalsInv, OnlyRebuiltWritten, UsesInv, Uses,
                    pasterVars, diskVars
<1> QED
  BY <1>8, <1>9, <1>11, <1>12 DEF IInv

LEMMA BeginKeeps == IInv /\ BeginStep => IInv'
<1> SUFFICES ASSUME IInv, BeginStep PROVE IInv'
  OBVIOUS
<1>1. PICK c \in Steps : c = Head(wq)
  BY DEF BeginStep
<1>2. /\ wq # <<>> /\ wPc = "loop" /\ wq' = Tail(wq) /\ wStep' = c /\ wPak' = 1
      /\ UNCHANGED <<guiVars, threadVars, stopFlag, diskVars, removalFailed, faults>>
  BY <1>1 DEF BeginStep, IsIdle
<1>3. Posted(c) /\ NoCall'
  BY <1>1, <1>2, StepAhead DEF IInv, NoCall
<1>4. /\ outcome = "none" /\ thread = "running" /\ removals = <<>> /\ Unanswered /\ InOrder(c)
      /\ Facts({c} \cup StepsLeft) /\ (c # "initialize" => paster)
  BY <1>3 DEF Posted
<1>5. wq' \in Seq(WorkerEvents) /\ WorkerCalls' \subseteq WorkerCalls
  BY <1>2, WorkerLoses DEF IInv
<1>6. /\ outcome' = "none" /\ thread' = "running" /\ StepsLeft' = StepsLeft /\ InOrder(c)'
      /\ temp' = temp /\ image' = image /\ checked' = checked /\ plan' = plan
      /\ stopRequested' = stopRequested
  BY <1>2, <1>4 DEF StepsLeft, InOrder, guiVars, threadVars, diskVars
<1>7. Facts({c} \cup StepsLeft)'
  BY <1>4, <1>6 DEF Facts
<1>8. wPak' \in Files /\ OnlyRebuiltWritten'
  BY <1>2, <1>6, Constants DEF IInv, OnlyRebuiltWritten
<1>9. /\ temp' \in [Files -> {"none", "old", "part", "whole"}]
      /\ image' \in [Files -> {"old", "torn", "new", "bad"}]
      /\ checked' \subseteq Checks \X Paks
  BY <1>6 DEF IInv, Types
<1>10. ASSUME guiQ' = guiQ, removals' = removals, paster', polls' \in BOOLEAN, paster' \in BOOLEAN,
              wPc' \in {"open", "head", "work"},
              wPc' = "open" => c = "initialize", wPc' = "head" => c \in PakSteps,
              wPc' = "work" => c = "checkImage"
       PROVE  IInv'
  <2>1. Types'
    BY <1>2, <1>5, <1>8, <1>9, <1>10 DEF IInv, Types, guiVars, threadVars
  <2>2. StopsKnown'
    BY <1>2, <1>5, <1>10 DEF IInv, StopsKnown, GuiCalls, guiVars
  <2>3. PaksDone'
    <3>1. \A p \in Paks : ~(p < wPak')
      BY <1>2 DEF Paks
    <3> QED
      BY <3>1 DEF PaksDone
  <2>4. AtWork'
    BY <1>2, <1>10, <2>3 DEF AtWork
  <2>5. Unanswered'
    BY <1>4, <1>10 DEF Unanswered, GuiCalls
  <2>6. Busy'
    <3>1. InOrder(wStep)' /\ Facts({wStep} \cup StepsLeft)'
      BY <1>2, <1>6, <1>7 DEF InOrder, Facts
    <3> QED
      BY <1>3, <1>4, <1>6, <1>10, <2>4, <2>5, <3>1 DEF Busy
  <2>7. WorkerKept' /\ RemovalsInv' /\ UsesInv'
    BY <1>2, <1>4, <1>10 DEF IInv, WorkerKept, RemovalsInv, UsesInv, Uses, GuiCalls,
                             guiVars, threadVars
  <2> QED
    BY <1>8, <2>1, <2>2, <2>6, <2>7 DEF IInv, Phases
<1>11. ASSUME NEW r \in Results, guiQ' = Append(guiQ, r), FinalizeInternal(temp),
              polls' \in BOOLEAN, c \in {"rebuildPaks", "finalize"},
              r = "stepCompleted" => c = "finalize", r = "stepFailed" => ~polls'
       PROVE  IInv'
  <2>1. paster
    BY <1>4, <1>11
  <2>2. /\ Types' /\ StopsKnown' /\ WorkerKept' /\ RemovalsInv' /\ OnlyRebuiltWritten'
        /\ UsesInv' /\ NoCall' /\ Answered(r)' /\ Removing'
    BY <1>2, <1>3, <1>4, <1>5, <1>6, <1>8, <1>9, <1>11, <2>1, AnswerAndFinalize
  <2>3. CASE r = "stepFailed"
    BY <1>6, <1>11, <2>2, <2>3 DEF Broken, IInv, Phases
  <2>4. CASE r = "stepCompleted"
    <3>1. InOrder(wStep)' /\ wStep' = "finalize"
      BY <1>2, <1>6, <1>11, <2>4 DEF InOrder
    <3>2. Facts(StepsLeft)'
      BY <1>6, <1>7, <1>11, <2>4 DEF Facts, IInv, Types, Checks
    <3>3. Answered("stepCompleted")'
      BY <2>2, <2>4
    <3> QED
      BY <1>6, <2>2, <3>1, <3>2, <3>3 DEF Done, Facts, IInv, Phases
  <2> QED
    BY <1>11, <2>3, <2>4 DEF Results
<1>12. CASE c = "initialize" /\ wPc' = "open" /\ paster' = TRUE /\ polls' = TRUE
            /\ UNCHANGED <<guiQ, removals>>
  BY <1>10, <1>12
<1>13. CASE c = "rebuildPaks" /\ guiQ' = Append(guiQ, "stepFailed") /\ polls' = FALSE
            /\ FinalizeInternal(temp)
  BY <1>11, <1>13 DEF Results
<1>14. CASE c \in PakSteps /\ wPc' = "head" /\ UNCHANGED <<guiQ, pasterVars>>
  <2>1. paster /\ paster \in BOOLEAN /\ polls \in BOOLEAN
    BY <1>4, <1>14 DEF PakSteps, IInv, Types
  <2> QED
    BY <1>10, <1>14, <2>1 DEF pasterVars
<1>15. CASE c = "checkImage" /\ wPc' = "work" /\ UNCHANGED <<guiQ, pasterVars>>
  <2>1. paster /\ paster \in BOOLEAN /\ polls \in BOOLEAN
    BY <1>4, <1>15 DEF IInv, Types
  <2> QED
    BY <1>10, <1>15, <2>1 DEF pasterVars
<1>16. CASE c = "finalize" /\ CallFinalize
  <2>1. guiQ' = Append(guiQ, "stepCompleted") /\ FinalizeInternal(temp) /\ polls' \in BOOLEAN
    BY <1>16 DEF CallFinalize, IInv, Types
  <2> QED
    BY <1>11, <1>16, <2>1 DEF Results
<1> QED
  BY <1>1, <1>12, <1>13, <1>14, <1>15, <1>16 DEF BeginStep, PakSteps

-----------------------------------------------------------------------------
(* Results                                                                 *)

LEMMA Step == IInv /\ [Next]_vars => IInv'
<1> SUFFICES ASSUME IInv, [Next]_vars PROVE IInv'
  OBVIOUS
<1>1. CASE Gui
  BY <1>1, CompletedKeeps, FailedKeeps, HandlerStopKeeps, QuitKeeps DEF Gui
<1>2. CASE User
  BY <1>2, StartKeeps, PressKeeps, AnswerKeeps DEF User
<1>3. CASE Events
  BY <1>3, BeginKeeps, DeliverStopKeeps, DeliverFinalizeKeeps, DeliverDeleteKeeps, DestroyKeeps,
     ThreadStopsKeeps DEF Events
<1>4. CASE Unstoppable
  BY <1>4, OpenKeeps, DolKeeps, RemoveKeeps, LeaveKeeps DEF Unstoppable
<1>5. CASE Work
  BY <1>5, EnterKeeps, FinishKeeps, FinishImageKeeps DEF Work
<1>6. CASE Failure \/ LeaveFiles \/ StopPak
  BY <1>6, RefuseKeeps, AbandonKeeps, LeaveFilesKeeps DEF Failure, FailPak, StopPak
<1>7. CASE UNCHANGED vars
  <2> USE <1>7 DEF vars, guiVars, threadVars, pasterVars, diskVars
  <2>1. Types' /\ StopsKnown' /\ WorkerKept'
    BY DEF IInv, Types, StopsKnown, WorkerKept, GuiCalls, WorkerCalls
  <2>2. RemovalsInv' /\ OnlyRebuiltWritten' /\ UsesInv'
    BY DEF IInv, RemovalsInv, OnlyRebuiltWritten, UsesInv, Uses
  <2>3. Phases'
    <3>1. CASE Fresh
      BY <3>1 DEF Fresh, Phases
    <3>2. CASE ~Fresh
      <4>1. SameCalls /\ SameAnswers /\ SameWork
        BY DEF SameCalls, SameAnswers, SameWork, NoCall, ToFinalize, ToDelete, Unanswered,
               GuiCalls, Answered
      <4>2. Phases /\ (outcome = "none" => alive)
        BY DEF IInv, WorkerKept
      <4> QED
        BY <3>2, <4>1, <4>2, PhasesKeep
    <3> QED
      BY <3>1, <3>2
  <2> QED
    BY <2>1, <2>2, <2>3 DEF IInv
<1> QED
  BY <1>1, <1>2, <1>3, <1>4, <1>5, <1>6, <1>7 DEF Next

LEMMA Invariance == Spec => []IInv
BY InitHolds, Step, PTL DEF Spec

(* Nothing but a pak rebuilt whole in this run is written to the image,    *)
(* though rebuildPaks reports success when it breaks off at a stop.        *)
THEOREM ImageGetsRebuilt == Spec => []OnlyRebuiltWritten
<1>1. IInv => OnlyRebuiltWritten
  BY DEF IInv
<1> QED
  BY <1>1, Invariance, PTL

(* A run reported as completed wrote every file and made every check of    *)
(* its plan on every pak.                                                  *)
THEOREM CompletedIsTrue == Spec => []CompletedMeansDone
<1>1. IInv => CompletedMeansDone
  <2>1. SUFFICES ASSUME IInv, outcome = "completed"
                 PROVE  (\A f \in Files : image[f] = "new") /\ plan \X Paks \subseteq checked
    BY DEF CompletedMeansDone
  <2>2. Facts({})
    BY <2>1 DEF IInv, Phases, Fresh, Posted, Busy, Done, Broken, Over
  <2> QED
    BY <2>2 DEF Facts
<1> QED
  BY <1>1, Invariance, PTL

(* Whoever works on the paster has one.  A removal of temporary files uses *)
(* the paster or the worker after its end in two ways only: after a file   *)
(* could not be removed by the removal that a cancel started inside it, or *)
(* when the worker was deleted from the event loop inside it; and not when *)
(* the run has failed.                                                     *)
THEOREM PasterNotMissed == Spec => []PasterOutlivesUse
<1>1. IInv => PasterOutlivesUse
  <2> SUFFICES ASSUME IInv PROVE PasterOutlivesUse
    OBVIOUS
  <2>1. wPc \in {"open", "head", "work", "dol"} => alive /\ paster
    BY WorkIsBusy DEF IInv, Busy, WorkerKept
  <2>2. alive => Uses \subseteq {"removeTempFiles"} /\ (Uses # {} => removalFailed)
    BY DEF IInv, UsesInv
  <2>3. Uses # {} => outcome \in {"completed", "canceled"}
    BY DEF IInv, Types, UsesInv
  <2> QED
    BY <2>1, <2>2, <2>3 DEF PasterOutlivesUse
<1> QED
  BY <1>1, Invariance, PTL

(* When the worker and the removals on its stack are gone so are the       *)
(* temporary files, however the run ended, unless one could not be removed *)
(* or the worker was deleted under the removal.                            *)
THEOREM TempFilesGo == Spec => []TempFilesGone
<1>1. IInv => TempFilesGone
  <2>1. SUFFICES ASSUME IInv, ~alive, wPc = "loop", ~removalFailed
                 PROVE  \A f \in Files : temp[f] = "none"
    BY DEF TempFilesGone
  <2>2. outcome # "none"
    BY <2>1 DEF IInv, WorkerKept
  <2>3. Over
    BY <2>1, <2>2 DEF IInv, Phases, Fresh, Posted, Busy, Done, Broken
  <2>4. ~paster /\ Cleaned
    BY <2>1, <2>3 DEF Over
  <2> QED
    BY <2>1, <2>4 DEF Cleaned
<1> QED
  BY <1>1, Invariance, PTL

(* The variables keep their types.                                         *)
THEOREM TypeCorrect == Spec => []TypeOK
<1>1. IInv => TypeOK
  BY DEF IInv, Types, TypeOK
<1> QED
  BY <1>1, Invariance, PTL
=============================================================================
