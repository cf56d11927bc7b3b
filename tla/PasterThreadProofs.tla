------------------------- MODULE PasterThreadProofs -------------------------
(***************************************************************************)
(* Proofs about MainFrame and PasterThread of the paster, for any number   *)
(* of archives, any checks and any number of runs and stops, and for every *)
(* user: a run may be started whatever is left of the last one.  What      *)
(* cannot be had then is conditional on what a start has met.              *)
(***************************************************************************)
EXTENDS PasterThread, SequenceTheorems, TLAPS

-----------------------------------------------------------------------------
(* Inductive invariant                                                     *)

Events == [kind : {"started", "completed"}, action : ActionNames, success : BOOLEAN]
Requests == {"patch", "requestStop"}

FrameType ==
  [left : Seq(ActionNames), pc : {"before", "run", "poll"}, items : Nat, inItem : BOOLEAN, paster : Nat]

(* What may be left of the actions of a run.                               *)
IsRest(left) ==
  /\ left \in Seq(ActionNames) /\ left # <<>>
  /\ \A i \in DOMAIN left : (left[i] = "Done") <=> (i = Len(left))
  /\ \A i \in DOMAIN left : left[i] = "Init" => i = 1

(* Done works on no archive, so it never polls.                            *)
Frames ==
  {f \in FrameType :
     /\ IsRest(f.left)
     /\ f.inItem => f.items > 0 /\ f.pc # "before"
     /\ f.pc # "before" /\ Head(f.left) = "Done" => f.pc = "run" /\ f.items = 0}
Polled == {f \in Frames : f.pc = "poll"}

(* A patch() in which another runs is polling.                             *)
Types ==
  /\ guiQueue \in Seq(Events) /\ threadQueue \in Seq(Requests)
  /\ created \in Nat /\ paster \in Nat
  /\ isPatching \in BOOLEAN /\ guiStop \in BOOLEAN /\ stop \in BOOLEAN
  /\ frames \in Seq(Frames)
  /\ frames # <<>> => Tail(frames) \in Seq(Polled)

Calls == {threadQueue[i] : i \in DOMAIN threadQueue}
Last == guiQueue[Len(guiQueue)]

(* A completion of one of these actions comes right after its start ...    *)
InTurn(S) ==
  \A i \in DOMAIN guiQueue : guiQueue[i].kind = "completed" /\ guiQueue[i].action \in S =>
    /\ i = 1 => guiQueue[i].action = currentAction
    /\ i > 1 => guiQueue[i - 1] = Started(guiQueue[i].action)

(* ... and while one of them is at work, its start was reported last.      *)
UpToDate(S) ==
  frames # <<>> /\ Top.pc # "before" /\ Action \in S =>
    /\ guiQueue = <<>> => currentAction = Action
    /\ guiQueue # <<>> => Last = Started(Action)

OwnPaster ==
  frames # <<>> =>
    /\ Top.pc # "before" => Top.paster = paster
    /\ Top.pc # "before" \/ Action # "Init" => paster # 0

(* If no start has met a call: there is one patch(), called or at work,    *)
(* and all actions report as Done always does.                             *)
Alone ==
  /\ frames # <<>> => Tail(frames) = <<>>
  /\ "patch" \in Calls => frames = <<>>
  /\ \A i, j \in DOMAIN threadQueue : threadQueue[i] = "patch" /\ threadQueue[j] = "patch" => i = j
  /\ InTurn(ActionNames) /\ UpToDate(ActionNames)
  /\ OwnPaster
  /\ ~misnamed

Heard == stop \/ "requestStop" \in Calls

(* If no start has met a request to stop: the thread hears only of stops   *)
(* MainFrame knows of, and after the calls that came before them.          *)
StopsKnown ==
  /\ isPatching /\ Heard => guiStop
  /\ stop => "patch" \notin Calls
  /\ \A i, j \in DOMAIN threadQueue : threadQueue[i] = "patch" /\ threadQueue[j] = "requestStop" => i < j

(* Then a run that has ended has said so, and so has one that is about to. *)
Answered ==
  /\ frames = <<>> /\ isPatching /\ "patch" \notin Calls =>
       /\ guiQueue = <<>> => status = "failed"
       /\ guiQueue # <<>> => /\ Last.kind = "completed"
                             /\ ~guiStop => ~Last.success \/ Last.action = "Done"
  /\ frames # <<>> /\ Top.pc = "before" /\ stop /\ isPatching =>
       guiQueue # <<>> /\ Last.kind = "completed"

(* If no start has met a call or reports: what is reported is of the run   *)
(* MainFrame shows, which it gives up only at its end or with a stop that  *)
(* the thread hears of.                                                    *)
GivenUp ==
  /\ "patch" \in Calls => guiQueue = <<>> /\ isPatching
  /\ \A i \in DOMAIN guiQueue :
       guiQueue[i].kind = "completed" /\ guiQueue[i].action = "Done" => frames = <<>>
  /\ guiStop => isPatching /\ Heard
  /\ ~isPatching /\ frames # <<>> => Heard

IInv ==
  /\ Types
  /\ InTurn({"Done"}) /\ UpToDate({"Done"})
  /\ "call" \notin met => Alone
  /\ "stop" \notin met => StopsKnown /\ Answered
  /\ met \cap {"call", "reports"} = {} => GivenUp

-----------------------------------------------------------------------------
(* Sequences                                                               *)

LEMMA Appended ==
  ASSUME NEW S, NEW q \in Seq(S), NEW e \in S
  PROVE  /\ Append(q, e) \in Seq(S) /\ Append(q, e) # <<>>
         /\ Len(q) \in Nat /\ DOMAIN q = 1 .. Len(q)
         /\ Len(Append(q, e)) = Len(q) + 1 /\ DOMAIN Append(q, e) = 1 .. Len(q) + 1
         /\ \A i \in 1 .. Len(q) : Append(q, e)[i] = q[i]
         /\ Append(q, e)[Len(q) + 1] = e
         /\ q = <<>> <=> Len(q) = 0
BY AppendProperties, EmptySeq

LEMMA Dropped ==
  ASSUME NEW S, NEW q \in Seq(S), q # <<>>
  PROVE  /\ Tail(q) \in Seq(S) /\ Head(q) = q[1] /\ Head(q) \in S
         /\ Len(Tail(q)) \in Nat /\ Len(q) = Len(Tail(q)) + 1
         /\ DOMAIN q = 1 .. Len(Tail(q)) + 1 /\ DOMAIN Tail(q) = 1 .. Len(Tail(q))
         /\ \A i \in 1 .. Len(Tail(q)) : Tail(q)[i] = q[i + 1]
         /\ Tail(q) = <<>> <=> Len(Tail(q)) = 0
<1>1. /\ Tail(q) \in Seq(S) /\ Head(q) \in S /\ Len(Tail(q)) = Len(q) - 1
      /\ \A i \in 1 .. Len(Tail(q)) : Tail(q)[i] = q[i + 1]
  BY HeadTailProperties
<1>2. Len(q) \in Nat \ {0}
  BY EmptySeq
<1>3. Len(q) = Len(Tail(q)) + 1 /\ Len(Tail(q)) \in Nat
  BY <1>1, <1>2
<1>4. DOMAIN q = 1 .. Len(q) /\ DOMAIN Tail(q) = 1 .. Len(Tail(q)) /\ Head(q) = q[1]
  BY <1>1
<1>5. Tail(q) = <<>> <=> Len(Tail(q)) = 0
  BY <1>1, EmptySeq
<1> QED
  BY <1>1, <1>3, <1>4, <1>5

LEMMA Pushed ==
  ASSUME NEW S, NEW q \in Seq(S), NEW e \in S
  PROVE  /\ <<e>> \o q \in Seq(S) /\ <<e>> \o q # <<>>
         /\ (<<e>> \o q)[1] = e /\ Tail(<<e>> \o q) = q
<1>1. <<e>> \in Seq(S) /\ Len(<<e>>) = 1 /\ <<e>>[1] = e
  OBVIOUS
<1>2. /\ <<e>> \o q \in Seq(S) /\ Len(<<e>> \o q) = 1 + Len(q)
      /\ \A i \in 1 .. 1 + Len(q) : (<<e>> \o q)[i] = IF i <= 1 THEN <<e>>[i] ELSE q[i - 1]
  BY <1>1, ConcatProperties
<1>3. PICK r : r = <<e>> \o q
  OBVIOUS
<1>4. PICK n \in Nat : n = Len(q)
  OBVIOUS
<1>5. /\ r \in Seq(S) /\ Len(r) = n + 1
      /\ \A i \in 1 .. n + 1 : r[i] = IF i <= 1 THEN <<e>>[i] ELSE q[i - 1]
  BY <1>2, <1>3, <1>4
<1>6. r # <<>> /\ r[1] = e
  <2>1. 1 \in 1 .. n + 1 /\ n + 1 # 0
    OBVIOUS
  <2> QED
    BY <1>1, <1>5, <2>1, EmptySeq
<1>7. /\ Tail(r) \in Seq(S) /\ Len(Tail(r)) = n
      /\ \A i \in 1 .. n : Tail(r)[i] = r[i + 1]
  <2>1. Tail(r) \in Seq(S) /\ Len(Tail(r)) = Len(r) - 1 /\ \A i \in 1 .. Len(Tail(r)) : Tail(r)[i] = r[i + 1]
    BY <1>5, <1>6, HeadTailProperties
  <2> QED
    BY <1>5, <2>1
<1>8. \A i \in 1 .. n : i + 1 \in 1 .. n + 1 /\ ~(i + 1 <= 1) /\ (i + 1) - 1 = i
  OBVIOUS
<1>9. \A i \in 1 .. n : Tail(r)[i] = q[i]
  BY <1>5, <1>7, <1>8
<1>10. Tail(r) = q
  BY <1>4, <1>7, <1>9, SeqEqual
<1> QED
  BY <1>3, <1>5, <1>6, <1>10

(* The actions of a run: Init, others, Done.                               *)
Middle == {"RebuildPaks", "CheckData", "ReplacePaks", "CheckPaks", "CheckImage"}

LEMMA ActionsAreRest == IsRest(Actions) /\ Head(Actions) = "Init"
<1> DEFINE mid == <<"RebuildPaks">> \o CheckIf("CheckData") \o <<"ReplacePaks">>
                    \o CheckIf("CheckPaks") \o CheckIf("CheckImage")
<1>1. mid \in Seq(Middle)
  <2>1. /\ <<"RebuildPaks">> \in Seq(Middle) /\ <<"ReplacePaks">> \in Seq(Middle)
        /\ <<>> \in Seq(Middle) /\ <<"CheckData">> \in Seq(Middle)
        /\ <<"CheckPaks">> \in Seq(Middle) /\ <<"CheckImage">> \in Seq(Middle)
    BY DEF Middle
  <2>2. /\ CheckIf("CheckData") \in Seq(Middle) /\ CheckIf("CheckPaks") \in Seq(Middle)
        /\ CheckIf("CheckImage") \in Seq(Middle)
    BY <2>1 DEF CheckIf
  <2>3. <<"RebuildPaks">> \o CheckIf("CheckData") \in Seq(Middle)
    BY <2>1, <2>2, ConcatProperties
  <2>4. <<"RebuildPaks">> \o CheckIf("CheckData") \o <<"ReplacePaks">> \in Seq(Middle)
    BY <2>1, <2>3, ConcatProperties
  <2>5. <<"RebuildPaks">> \o CheckIf("CheckData") \o <<"ReplacePaks">> \o CheckIf("CheckPaks") \in Seq(Middle)
    BY <2>2, <2>4, ConcatProperties
  <2> QED
    BY <2>2, <2>5, ConcatProperties
<1> HIDE DEF mid
<1>2. Actions = <<"Init">> \o mid \o <<"Done">>
  BY DEF Actions, mid
<1>3. mid \in Seq(ActionNames) /\ Len(mid) \in Nat /\ \A i \in 1 .. Len(mid) : mid[i] \in Middle
  <2>1. Middle \subseteq ActionNames
    BY DEF Middle, ActionNames
  <2> QED
    BY <1>1, <2>1
<1>4. <<"Init">> \in Seq(ActionNames) /\ <<"Done">> \in Seq(ActionNames) /\ Len(<<"Init">>) = 1
      /\ Len(<<"Done">>) = 1 /\ <<"Init">>[1] = "Init" /\ <<"Done">>[1] = "Done"
  BY DEF ActionNames
<1> DEFINE front == <<"Init">> \o mid
<1>5. /\ front \in Seq(ActionNames) /\ Len(front) = 1 + Len(mid)
      /\ \A i \in 1 .. 1 + Len(mid) : front[i] = IF i <= 1 THEN <<"Init">>[i] ELSE mid[i - 1]
  BY <1>3, <1>4, ConcatProperties
<1>6. front[1] = "Init" /\ \A i \in 2 .. 1 + Len(mid) : front[i] \in Middle
  <2>1. 1 \in 1 .. 1 + Len(mid) /\ \A i \in 2 .. 1 + Len(mid) :
          i \in 1 .. 1 + Len(mid) /\ ~(i <= 1) /\ i - 1 \in 1 .. Len(mid)
    BY <1>3
  <2> QED
    BY <1>3, <1>4, <1>5, <2>1
<1> HIDE DEF front
<1>7. /\ front \o <<"Done">> \in Seq(ActionNames)
      /\ Len(front \o <<"Done">>) = Len(front) + 1
      /\ \A i \in 1 .. Len(front) + 1 :
           (front \o <<"Done">>)[i] = IF i <= Len(front) THEN front[i] ELSE <<"Done">>[i - Len(front)]
  BY <1>4, <1>5, ConcatProperties
<1>8. Actions = front \o <<"Done">>
  BY <1>2 DEF front
<1>9. PICK n \in Nat : n = Len(mid)
  BY <1>3
<1>10. /\ Actions \in Seq(ActionNames) /\ Len(Actions) = n + 2
       /\ \A i \in 1 .. n + 2 :
            Actions[i] = IF i <= n + 1 THEN front[i] ELSE <<"Done">>[i - (n + 1)]
  <2>1. Len(front) = n + 1 /\ (n + 1) + 1 = n + 2
    BY <1>5, <1>9
  <2> QED
    BY <1>7, <1>8, <2>1
<1>11. /\ Actions[1] = "Init" /\ Actions[n + 2] = "Done"
       /\ \A i \in 2 .. n + 1 : Actions[i] \in Middle
  <2>1. 1 \in 1 .. n + 2 /\ 1 <= n + 1 /\ n + 2 \in 1 .. n + 2 /\ ~(n + 2 <= n + 1) /\ (n + 2) - (n + 1) = 1
    OBVIOUS
  <2>2. \A i \in 2 .. n + 1 : i \in 1 .. n + 2 /\ i <= n + 1
    OBVIOUS
  <2>3. \A i \in 2 .. n + 1 : front[i] \in Middle
    BY <1>6, <1>9
  <2> QED
    BY <1>4, <1>6, <1>10, <2>1, <2>2, <2>3
<1>12. \A i \in 1 .. n + 2 : i = 1 \/ i = n + 2 \/ i \in 2 .. n + 1
  OBVIOUS
<1>13. "Init" \notin Middle /\ "Done" \notin Middle
  BY DEF Middle
<1>14. DOMAIN Actions = 1 .. n + 2 /\ Actions # <<>> /\ Head(Actions) = Actions[1] /\ 1 # n + 2
  <2>1. Len(Actions) # 0
    BY <1>10
  <2> QED
    BY <1>10, <2>1, EmptySeq
<1>15. \A i \in 1 .. n + 2 : (Actions[i] = "Done") <=> (i = n + 2)
  BY <1>11, <1>12, <1>13, <1>14
<1>16. \A i \in 1 .. n + 2 : Actions[i] = "Init" => i = 1
  BY <1>11, <1>12, <1>13
<1> QED
  BY <1>10, <1>11, <1>14, <1>15, <1>16 DEF IsRest

LEMMA RestOfRest ==
  ASSUME NEW left, IsRest(left)
  PROVE  /\ Head(left) \in ActionNames
         /\ Head(left) # "Done" => IsRest(Tail(left)) /\ Head(Tail(left)) # "Init"
<1>1. left \in Seq(ActionNames) /\ left # <<>>
  BY DEF IsRest
<1>2. /\ Tail(left) \in Seq(ActionNames) /\ Head(left) = left[1] /\ Head(left) \in ActionNames
      /\ Len(Tail(left)) \in Nat /\ Len(left) = Len(Tail(left)) + 1
      /\ DOMAIN left = 1 .. Len(Tail(left)) + 1 /\ DOMAIN Tail(left) = 1 .. Len(Tail(left))
      /\ \A i \in 1 .. Len(Tail(left)) : Tail(left)[i] = left[i + 1]
      /\ Tail(left) = <<>> <=> Len(Tail(left)) = 0
  BY <1>1, Dropped
<1>3. PICK n \in Nat : n = Len(Tail(left))
  BY <1>2
<1>4. PICK rest : rest = Tail(left)
  OBVIOUS
<1>5. /\ \A i \in 1 .. n + 1 : (left[i] = "Done") <=> (i = n + 1)
      /\ \A i \in 1 .. n + 1 : left[i] = "Init" => i = 1
      /\ \A i \in 1 .. n : rest[i] = left[i + 1]
      /\ rest \in Seq(ActionNames) /\ DOMAIN rest = 1 .. n /\ Len(rest) = n
      /\ rest = <<>> <=> n = 0
  BY <1>2, <1>3, <1>4 DEF IsRest
<1>6. ASSUME left[1] # "Done" PROVE IsRest(rest) /\ Head(rest) # "Init"
  <2>1. 1 \in 1 .. n + 1 /\ n # 0
    BY <1>5, <1>6
  <2>2. \A i \in 1 .. n : i + 1 \in 1 .. n + 1 /\ (i + 1 = n + 1 <=> i = n) /\ i + 1 # 1
    OBVIOUS
  <2>3. \A i \in 1 .. n : ((rest[i] = "Done") <=> (i = n)) /\ rest[i] # "Init"
    BY <1>5, <2>2
  <2>4. Head(rest) = rest[1] /\ 1 \in 1 .. n
    BY <1>5, <2>1
  <2> QED
    BY <1>5, <2>1, <2>3, <2>4 DEF IsRest
<1> QED
  BY <1>2, <1>4, <1>6

-----------------------------------------------------------------------------
(* Queues and frames in a step                                             *)

LEMMA CallsAppended ==
  ASSUME Types, NEW e \in Requests, threadQueue' = Append(threadQueue, e)
  PROVE  /\ threadQueue' \in Seq(Requests) /\ Calls' = Calls \cup {e}
         /\ Len(threadQueue) \in Nat /\ DOMAIN threadQueue = 1 .. Len(threadQueue)
         /\ \A i \in DOMAIN threadQueue' :
              \/ i \in DOMAIN threadQueue /\ threadQueue'[i] = threadQueue[i]
              \/ i = Len(threadQueue) + 1 /\ threadQueue'[i] = e
<1>1. PICK q \in Seq(Requests) : q = threadQueue
  BY DEF Types
<1>2. PICK r : r = threadQueue'
  OBVIOUS
<1>3. r = Append(q, e)
  BY <1>1, <1>2
<1>4. /\ r \in Seq(Requests) /\ Len(q) \in Nat /\ DOMAIN q = 1 .. Len(q)
      /\ DOMAIN r = 1 .. Len(q) + 1
      /\ \A i \in 1 .. Len(q) : r[i] = q[i]
      /\ r[Len(q) + 1] = e
  BY <1>3, Appended
<1>5. \A i : i \in 1 .. Len(q) + 1 <=> i \in 1 .. Len(q) \/ i = Len(q) + 1
  BY <1>4
<1>6. {r[i] : i \in DOMAIN r} = {q[i] : i \in DOMAIN q} \cup {e}
  BY <1>4, <1>5
<1>7. \A i \in DOMAIN r : (i \in DOMAIN q /\ r[i] = q[i]) \/ (i = Len(q) + 1 /\ r[i] = e)
  BY <1>4, <1>5
<1> QED
  BY <1>1, <1>2, <1>4, <1>6, <1>7 DEF Calls

LEMMA CallsDropped ==
  ASSUME Types, threadQueue # <<>>, threadQueue' = Tail(threadQueue)
  PROVE  /\ threadQueue' \in Seq(Requests) /\ Calls = Calls' \cup {Head(threadQueue)}
         /\ \A i \in DOMAIN threadQueue' :
              i \in Nat /\ i >= 1 /\ i + 1 \in DOMAIN threadQueue /\ threadQueue'[i] = threadQueue[i + 1]
         /\ Head(threadQueue) = threadQueue[1] /\ 1 \in DOMAIN threadQueue
<1>1. PICK q \in Seq(Requests) : q = threadQueue
  BY DEF Types
<1>2. PICK r : r = Tail(q)
  OBVIOUS
<1>3. /\ r \in Seq(Requests) /\ Head(q) = q[1] /\ Len(r) \in Nat
      /\ DOMAIN q = 1 .. Len(r) + 1 /\ DOMAIN r = 1 .. Len(r)
      /\ \A i \in 1 .. Len(r) : r[i] = q[i + 1]
  BY <1>1, <1>2, Dropped
<1>4. PICK n \in Nat : n = Len(r)
  BY <1>3
<1>5. /\ \A i \in 1 .. n : i \in Nat /\ i >= 1 /\ i + 1 \in 1 .. n + 1
      /\ 1 \in 1 .. n + 1
      /\ \A i \in 1 .. n + 1 : i = 1 \/ (i - 1 \in 1 .. n /\ (i - 1) + 1 = i)
  OBVIOUS
<1>6. {q[i] : i \in DOMAIN q} = {r[i] : i \in DOMAIN r} \cup {q[1]}
  <2>0. DOMAIN q = 1 .. n + 1 /\ DOMAIN r = 1 .. n
    BY <1>3, <1>4
  <2>1. \A i \in DOMAIN q : i = 1 \/ \E j \in DOMAIN r : q[i] = r[j]
    BY <1>3, <1>4, <1>5
  <2>2. \A j \in DOMAIN r : \E i \in DOMAIN q : r[j] = q[i]
    BY <1>3, <1>4, <1>5
  <2>3. 1 \in DOMAIN q
    BY <1>5, <2>0
  <2>4. {q[i] : i \in DOMAIN q} \subseteq {r[i] : i \in DOMAIN r} \cup {q[1]}
    BY <2>1
  <2>5. {r[i] : i \in DOMAIN r} \cup {q[1]} \subseteq {q[i] : i \in DOMAIN q}
    BY <2>2, <2>3
  <2> QED
    BY <2>4, <2>5
<1> QED
  BY <1>1, <1>2, <1>3, <1>4, <1>5, <1>6 DEF Calls


(* A new report.                                                           *)
LEMMA ReportAppended ==
  ASSUME Types, NEW e \in Events, guiQueue' = Append(guiQueue, e)
  PROVE  /\ guiQueue' \in Seq(Events) /\ guiQueue' # <<>> /\ Last' = e
         /\ \A i \in DOMAIN guiQueue' : (i \in DOMAIN guiQueue /\ guiQueue'[i] = guiQueue[i]) \/ guiQueue'[i] = e
<1>1. PICK q \in Seq(Events) : q = guiQueue
  BY DEF Types
<1>2. PICK r : r = guiQueue'
  OBVIOUS
<1>3. r = Append(q, e)
  BY <1>1, <1>2
<1>4. /\ r \in Seq(Events) /\ r # <<>> /\ Len(q) \in Nat /\ DOMAIN q = 1 .. Len(q)
      /\ Len(r) = Len(q) + 1 /\ DOMAIN r = 1 .. Len(q) + 1
      /\ \A i \in 1 .. Len(q) : r[i] = q[i]
      /\ r[Len(q) + 1] = e
  BY <1>3, Appended
<1>5. Last' = e
  BY <1>2, <1>4 DEF Last
<1>6. \A i : i \in 1 .. Len(q) + 1 <=> i \in 1 .. Len(q) \/ i = Len(q) + 1
  BY <1>4
<1>7. \A i \in DOMAIN r : (i \in DOMAIN q /\ r[i] = q[i]) \/ r[i] = e
  BY <1>4, <1>6
<1> QED
  BY <1>1, <1>2, <1>4, <1>5, <1>7

(* What it has to be to come in turn.                                      *)
LEMMA InTurnAppended ==
  ASSUME Types, NEW S, InTurn(S), NEW e \in Events, guiQueue' = Append(guiQueue, e), UNCHANGED currentAction,
         e.kind = "completed" /\ e.action \in S =>
           /\ guiQueue = <<>> => e.action = currentAction
           /\ guiQueue # <<>> => Last = Started(e.action)
  PROVE  InTurn(S)'
<1>1. PICK q \in Seq(Events) : q = guiQueue
  BY DEF Types
<1>2. PICK r : r = guiQueue'
  OBVIOUS
<1>3. /\ Len(q) \in Nat /\ DOMAIN q = 1 .. Len(q)
      /\ DOMAIN r = 1 .. Len(q) + 1
      /\ \A i \in 1 .. Len(q) : r[i] = q[i]
      /\ r[Len(q) + 1] = e
      /\ q = <<>> <=> Len(q) = 0
  <2>1. r = Append(q, e)
    BY <1>1, <1>2
  <2> QED
    BY <2>1, Appended
<1>4. PICK n \in Nat : n = Len(q)
  BY <1>3
<1>5. \A i \in 1 .. n : q[i].kind = "completed" /\ q[i].action \in S =>
        /\ i = 1 => q[i].action = currentAction
        /\ i > 1 => q[i - 1] = Started(q[i].action)
  BY <1>1, <1>3, <1>4 DEF InTurn
<1>6. n # 0 => Last = q[n] /\ guiQueue # <<>>
  BY <1>1, <1>3, <1>4 DEF Last
<1>7. n = 0 => guiQueue = <<>>
  BY <1>1, <1>3, <1>4
<1>8. ASSUME NEW i \in 1 .. n + 1, r[i].kind = "completed", r[i].action \in S
      PROVE  /\ i = 1 => r[i].action = currentAction
             /\ i > 1 => r[i - 1] = Started(r[i].action)
  <2>1. CASE i = n + 1
    <3>1. r[i] = e /\ (i = 1 <=> n = 0) /\ (i > 1 => n # 0)
      BY <1>3, <1>4, <2>1
    <3>2. ASSUME n # 0 PROVE r[i - 1] = Started(e.action)
      <4>1. n \in 1 .. n /\ i - 1 = n
        BY <2>1, <3>2
      <4>2. Last = Started(e.action)
        BY <1>6, <1>8, <3>1, <3>2
      <4> QED
        BY <1>3, <1>4, <1>6, <3>2, <4>1, <4>2
    <3>3. n = 0 => e.action = currentAction
      BY <1>7, <1>8, <3>1
    <3> QED
      BY <3>1, <3>2, <3>3
  <2>2. CASE i # n + 1
    <3>1. i \in 1 .. n /\ r[i] = q[i]
      BY <1>3, <1>4, <2>2
    <3>2. i > 1 => r[i - 1] = q[i - 1]
      <4>1. i > 1 => i - 1 \in 1 .. n
        BY <3>1
      <4> QED
        BY <1>3, <1>4, <4>1
    <3> QED
      BY <1>5, <1>8, <3>1, <3>2
  <2> QED
    BY <2>1, <2>2
<1>9. \A i \in DOMAIN guiQueue' : guiQueue'[i].kind = "completed" /\ guiQueue'[i].action \in S =>
        /\ i = 1 => guiQueue'[i].action = currentAction'
        /\ i > 1 => guiQueue'[i - 1] = Started(guiQueue'[i].action)
  BY <1>2, <1>3, <1>4, <1>8
<1> QED
  BY <1>9 DEF InTurn, Started

(* What follows when MainFrame takes a report.                             *)
LEMMA ReportTaken ==
  ASSUME Types, guiQueue # <<>>, guiQueue' = Tail(guiQueue)
  PROVE  /\ guiQueue' \in Seq(Events) /\ Head(guiQueue) \in Events
         /\ guiQueue' # <<>> => Last' = Last
         /\ guiQueue' = <<>> => Last = Head(guiQueue)
         /\ 1 \in DOMAIN guiQueue /\ Head(guiQueue) = guiQueue[1]
         /\ \A i \in DOMAIN guiQueue' : /\ i \in Nat /\ i >= 1
                                        /\ i + 1 \in DOMAIN guiQueue /\ guiQueue'[i] = guiQueue[i + 1]
         /\ \A i \in DOMAIN guiQueue' : i > 1 => i - 1 \in DOMAIN guiQueue'
<1>1. PICK q \in Seq(Events) : q = guiQueue
  BY DEF Types
<1>2. PICK r : r = guiQueue'
  OBVIOUS
<1>3. /\ r \in Seq(Events) /\ Head(q) = q[1] /\ Head(q) \in Events
      /\ Len(r) \in Nat /\ Len(q) = Len(r) + 1
      /\ DOMAIN q = 1 .. Len(r) + 1 /\ DOMAIN r = 1 .. Len(r)
      /\ \A i \in 1 .. Len(r) : r[i] = q[i + 1]
      /\ r = <<>> <=> Len(r) = 0
  <2>1. r = Tail(q) /\ q # <<>>
    BY <1>1, <1>2
  <2> QED
    BY <2>1, Dropped
<1>4. PICK n \in Nat : n = Len(r)
  BY <1>3
<1>5. /\ \A i \in 1 .. n : i \in Nat /\ i >= 1 /\ i + 1 \in 1 .. n + 1 /\ (i > 1 => i - 1 \in 1 .. n)
      /\ 1 \in 1 .. n + 1 /\ (n # 0 => n \in 1 .. n)
  OBVIOUS
<1>6. Last = q[n + 1] /\ (n # 0 => Last' = q[n + 1])
  <2>1. Len(guiQueue) = n + 1 /\ Len(guiQueue') = n
    BY <1>1, <1>2, <1>3, <1>4
  <2>2. Last = q[n + 1] /\ Last' = r[n]
    BY <1>1, <1>2, <2>1 DEF Last
  <2> QED
    BY <1>3, <1>4, <1>5, <2>2
<1>7. guiQueue' = <<>> => Last = Head(guiQueue)
  BY <1>1, <1>2, <1>3, <1>4, <1>6
<1>8. guiQueue' # <<>> => n # 0
  BY <1>2, <1>3, <1>4
<1>9. \A i \in DOMAIN r : i \in Nat /\ i >= 1 /\ i + 1 \in DOMAIN q /\ r[i] = q[i + 1]
  BY <1>3, <1>4, <1>5
<1>10. \A i \in DOMAIN r : i > 1 => i - 1 \in DOMAIN r
  BY <1>3, <1>4, <1>5
<1>11. 1 \in DOMAIN q
  BY <1>3, <1>4, <1>5
<1> QED
  BY <1>1, <1>2, <1>3, <1>6, <1>7, <1>8, <1>9, <1>10, <1>11

LEMMA InTurnTaken ==
  ASSUME Types, NEW S, InTurn(S), UpToDate(S), guiQueue # <<>>, guiQueue' = Tail(guiQueue), UNCHANGED frames,
         \/ Head(guiQueue).kind = "started" /\ currentAction' = Head(guiQueue).action
         \/ Head(guiQueue).kind = "completed" /\ UNCHANGED currentAction
  PROVE  /\ InTurn(S)' /\ UpToDate(S)'
         /\ Head(guiQueue).kind = "completed" /\ Head(guiQueue).action \in S =>
              Head(guiQueue).action = currentAction
<1>1. /\ guiQueue' \in Seq(Events) /\ Head(guiQueue) \in Events
      /\ guiQueue' # <<>> => Last' = Last
      /\ guiQueue' = <<>> => Last = Head(guiQueue)
      /\ 1 \in DOMAIN guiQueue /\ Head(guiQueue) = guiQueue[1]
      /\ \A i \in DOMAIN guiQueue' : /\ i \in Nat /\ i >= 1
                                     /\ i + 1 \in DOMAIN guiQueue /\ guiQueue'[i] = guiQueue[i + 1]
      /\ \A i \in DOMAIN guiQueue' : i > 1 => i - 1 \in DOMAIN guiQueue'
  BY ReportTaken
<1>2. Head(guiQueue).kind = "completed" /\ Head(guiQueue).action \in S => Head(guiQueue).action = currentAction
  BY <1>1 DEF InTurn
<1>3. ASSUME NEW i \in DOMAIN guiQueue', guiQueue'[i].kind = "completed", guiQueue'[i].action \in S
      PROVE  /\ i = 1 => guiQueue'[i].action = currentAction'
             /\ i > 1 => guiQueue'[i - 1] = Started(guiQueue'[i].action)
  <2>1. /\ i \in Nat /\ i >= 1 /\ i + 1 \in DOMAIN guiQueue /\ guiQueue'[i] = guiQueue[i + 1]
        /\ i + 1 > 1 /\ (i + 1) - 1 = i
    BY <1>1
  <2>2. guiQueue[i] = Started(guiQueue'[i].action)
    BY <1>3, <2>1 DEF InTurn
  <2>3. i = 1 => guiQueue'[i].action = currentAction'
    <3> SUFFICES ASSUME i = 1 PROVE guiQueue'[i].action = currentAction'
      OBVIOUS
    <3>1. Head(guiQueue) = Started(guiQueue'[i].action)
      BY <1>1, <2>2
    <3>2. Head(guiQueue).kind = "started" /\ Head(guiQueue).action = guiQueue'[i].action
      BY <3>1 DEF Started
    <3> QED
      BY <3>2
  <2>4. i > 1 => guiQueue'[i - 1] = Started(guiQueue'[i].action)
    <3> SUFFICES ASSUME i > 1 PROVE guiQueue'[i - 1] = Started(guiQueue'[i].action)
      OBVIOUS
    <3>1. i - 1 \in DOMAIN guiQueue' /\ (i - 1) + 1 = i
      BY <1>1, <2>1
    <3>2. guiQueue'[i - 1] = guiQueue[i]
      BY <1>1, <3>1
    <3> QED
      BY <2>2, <3>2
  <2> QED
    BY <2>3, <2>4
<1>4. InTurn(S)'
  BY <1>3 DEF InTurn, Started
<1>5. Top' = Top /\ Action' = Action
  BY DEF Top, Action
<1>6. UpToDate(S)'
  <2>1. SUFFICES ASSUME frames # <<>>, Top.pc # "before", Action \in S
                 PROVE  /\ guiQueue' = <<>> => currentAction' = Action
                        /\ guiQueue' # <<>> => Last' = Started(Action)
    BY <1>5 DEF UpToDate, Started
  <2>2. Last = Started(Action)
    BY <2>1 DEF UpToDate
  <2>3. ASSUME guiQueue' = <<>> PROVE currentAction' = Action
    <3>1. Head(guiQueue) = Started(Action)
      BY <1>1, <2>2, <2>3
    <3>2. Head(guiQueue).kind = "started" /\ Head(guiQueue).action = Action
      BY <3>1 DEF Started
    <3> QED
      BY <3>2
  <2> QED
    BY <1>1, <2>2, <2>3
<1> QED
  BY <1>2, <1>4, <1>6

LEMMA ReportsKept ==
  ASSUME NEW S, InTurn(S), UNCHANGED <<guiQueue, currentAction>>
  PROVE  InTurn(S)' /\ Last' = Last
BY DEF InTurn, Started, Last

LEMMA TopKept ==
  ASSUME UNCHANGED frames
  PROVE  Top' = Top /\ Action' = Action
BY DEF Top, Action

LEMMA UpToDateKept ==
  ASSUME NEW S, UpToDate(S), UNCHANGED <<guiQueue, currentAction, frames>>
  PROVE  UpToDate(S)'
BY TopKept DEF UpToDate, Started, Last

-----------------------------------------------------------------------------
(* The stack of the patch() calls                                          *)

LEMMA TopIs ==
  ASSUME Types, frames # <<>>
  PROVE  /\ Top \in Frames /\ Top \in FrameType /\ IsRest(Top.left) /\ Action = Head(Top.left)
         /\ Action \in ActionNames /\ frames = <<Top>> \o Tail(frames)
         /\ frames # <<>> /\ frames \in Seq(Frames)
<1>1. frames \in Seq(Frames)
  BY DEF Types
<1>2. Head(frames) = frames[1] /\ Head(frames) \in Frames /\ frames = <<Head(frames)>> \o Tail(frames)
  BY <1>1, HeadTailProperties
<1>3. Top \in Frames
  BY <1>2 DEF Top
<1>4. Top \in FrameType /\ IsRest(Top.left)
  BY <1>3 DEF Frames
<1> QED
  BY <1>1, <1>2, <1>3, <1>4, RestOfRest DEF Top, Action

LEMMA FrameSet ==
  ASSUME Types, frames # <<>>, NEW f \in Frames, SetTop(f)
  PROVE  /\ frames' \in Seq(Frames) /\ frames' # <<>> /\ Tail(frames') = Tail(frames)
         /\ Tail(frames') \in Seq(Polled) /\ Top' = f
<1>1. Tail(frames) \in Seq(Frames) /\ Tail(frames) \in Seq(Polled)
  BY HeadTailProperties DEF Types
<1>2. PICK t \in Seq(Frames) : t = Tail(frames)
  BY <1>1
<1>3. frames' = <<f>> \o t
  BY <1>2 DEF SetTop
<1> QED
  BY <1>1, <1>2, <1>3, Pushed DEF Top

LEMMA FramePop ==
  ASSUME Types, frames # <<>>, frames' = Tail(frames)
  PROVE  /\ frames' \in Seq(Frames)
         /\ frames' # <<>> => /\ Tail(frames') \in Seq(Polled)
                              /\ Top'.pc = "poll" /\ Action' # "Done"
<1>1. frames' \in Seq(Frames) /\ frames' \in Seq(Polled)
  BY HeadTailProperties DEF Types
<1>2. ASSUME frames' # <<>> PROVE Tail(frames') \in Seq(Polled) /\ Top' \in Polled
  <2>1. Tail(frames') \in Seq(Polled) /\ Head(frames') = frames'[1] /\ Head(frames') \in Polled
    BY <1>1, <1>2, Dropped
  <2> QED
    BY <2>1 DEF Top
<1>3. \A f \in Polled : f.pc = "poll" /\ Head(f.left) # "Done"
  BY DEF Polled, Frames
<1> QED
  BY <1>1, <1>2, <1>3 DEF Action

LEMMA FramePush ==
  ASSUME Types, frames # <<>> => Top.pc = "poll", NEW f \in Frames, frames' = <<f>> \o frames
  PROVE  /\ frames' \in Seq(Frames) /\ frames' # <<>> /\ Tail(frames') = frames
         /\ Tail(frames') \in Seq(Polled) /\ Top' = f
<1>1. frames \in Seq(Polled)
  <2>1. CASE frames = <<>>
    BY <2>1
  <2>2. CASE frames # <<>>
    <3>1. Top \in Polled /\ Tail(frames) \in Seq(Polled) /\ frames = <<Top>> \o Tail(frames)
      BY <2>2, TopIs DEF Polled, Types
    <3>2. PICK t \in Seq(Polled) : t = Tail(frames)
      BY <3>1
    <3>3. <<Top>> \o t \in Seq(Polled)
      BY <3>1, <3>2, Pushed
    <3> QED
      BY <3>1, <3>2, <3>3
  <2> QED
    BY <2>1, <2>2
<1>2. frames \in Seq(Frames)
  BY DEF Types
<1> QED
  BY <1>1, <1>2, Pushed DEF Top

-----------------------------------------------------------------------------
(* MainFrame                                                               *)

LEMMA StepPressStart ==
  ASSUME IInv, PressStart
  PROVE  IInv'
<1>1. /\ ~isPatching /\ isPatching' = TRUE /\ stop' = FALSE /\ threadQueue' = Append(threadQueue, "patch")
      /\ met' = met \cup Leftovers
      /\ UNCHANGED <<guiStop, currentAction, status, guiQueue, paster, created, frames, misnamed>>
  BY DEF PressStart
<1>2. Types /\ "patch" \in Requests
  BY DEF IInv, Requests
<1>3. /\ threadQueue' \in Seq(Requests) /\ Calls' = Calls \cup {"patch"}
      /\ Len(threadQueue) \in Nat /\ DOMAIN threadQueue = 1 .. Len(threadQueue)
      /\ \A i \in DOMAIN threadQueue' :
           \/ i \in DOMAIN threadQueue /\ threadQueue'[i] = threadQueue[i]
           \/ i = Len(threadQueue) + 1 /\ threadQueue'[i] = "patch"
  BY <1>1, <1>2, CallsAppended
<1>4. Top' = Top /\ Action' = Action
  BY <1>1, TopKept
<1>5. Types'
  BY <1>1, <1>2, <1>3 DEF Types
<1>6. InTurn({"Done"})' /\ UpToDate({"Done"})' /\ Last' = Last
  BY <1>1, ReportsKept, UpToDateKept DEF IInv
<1>7. /\ "call" \notin met' => "call" \notin met /\ frames = <<>> /\ "patch" \notin Calls
      /\ "stop" \notin met' => "stop" \notin met /\ "requestStop" \notin Calls
      /\ met' \cap {"call", "reports"} = {} =>
           met \cap {"call", "reports"} = {} /\ guiQueue = <<>> /\ frames = <<>>
  BY <1>1, <1>3 DEF Leftovers, InQueue, Calls
<1>8. ASSUME "call" \notin met' PROVE Alone'
  <2>1. Alone /\ frames = <<>> /\ "patch" \notin Calls
    BY <1>7, <1>8 DEF IInv
  <2>2. InTurn(ActionNames)' /\ UpToDate(ActionNames)' /\ OwnPaster'
    BY <1>1, <2>1, ReportsKept, UpToDateKept DEF Alone, OwnPaster
  <2>3. \A i \in DOMAIN threadQueue' : threadQueue'[i] = "patch" => i = Len(threadQueue) + 1
    BY <1>3, <2>1 DEF Calls
  <2> QED
    BY <1>1, <2>1, <2>2, <2>3 DEF Alone
<1>9. ASSUME "stop" \notin met' PROVE StopsKnown' /\ Answered'
  <2>1. "requestStop" \notin Calls
    BY <1>7, <1>9
  <2>2. \A i \in DOMAIN threadQueue' : threadQueue'[i] # "requestStop"
    BY <1>3, <2>1 DEF Calls
  <2>3. "requestStop" \notin Calls' /\ "patch" \in Calls'
    BY <1>3, <2>1
  <2> QED
    BY <1>1, <2>2, <2>3 DEF StopsKnown, Heard, Answered
<1>10. ASSUME met' \cap {"call", "reports"} = {} PROVE GivenUp'
  BY <1>1, <1>7, <1>10 DEF IInv, GivenUp
<1> QED
  BY <1>5, <1>6, <1>8, <1>9, <1>10 DEF IInv

LEMMA StepPressCancel ==
  ASSUME IInv, PressCancel
  PROVE  IInv'
<1>1. /\ isPatching /\ guiStop' = TRUE /\ threadQueue' = Append(threadQueue, "requestStop")
      /\ UNCHANGED <<isPatching, currentAction, status, guiQueue, stop, paster, created, frames, misnamed, met>>
  BY DEF PressCancel
<1>2. Types /\ "requestStop" \in Requests
  BY DEF IInv, Requests
<1>3. /\ threadQueue' \in Seq(Requests) /\ Calls' = Calls \cup {"requestStop"}
      /\ Len(threadQueue) \in Nat /\ DOMAIN threadQueue = 1 .. Len(threadQueue)
      /\ \A i \in DOMAIN threadQueue' :
           \/ i \in DOMAIN threadQueue /\ threadQueue'[i] = threadQueue[i]
           \/ i = Len(threadQueue) + 1 /\ threadQueue'[i] = "requestStop"
  BY <1>1, <1>2, CallsAppended
<1>4. Top' = Top /\ Action' = Action
  BY <1>1, TopKept
<1>5. Types'
  BY <1>1, <1>2, <1>3 DEF Types
<1>6. InTurn({"Done"})' /\ UpToDate({"Done"})' /\ Last' = Last
  BY <1>1, ReportsKept, UpToDateKept DEF IInv
<1>7. ASSUME "call" \notin met' PROVE Alone'
  <2>1. Alone
    BY <1>1, <1>7 DEF IInv
  <2>2. InTurn(ActionNames)' /\ UpToDate(ActionNames)' /\ OwnPaster'
    BY <1>1, <1>4, <2>1, ReportsKept, UpToDateKept DEF Alone, OwnPaster
  <2> QED
    BY <1>1, <1>3, <2>1, <2>2 DEF Alone
<1>8. ASSUME "stop" \notin met' PROVE StopsKnown' /\ Answered'
  <2>1. StopsKnown /\ Answered
    BY <1>1, <1>8 DEF IInv
  <2>2. \A i, j \in DOMAIN threadQueue' : threadQueue'[i] = "patch" /\ threadQueue'[j] = "requestStop" => i < j
    <3> SUFFICES ASSUME NEW i \in DOMAIN threadQueue', NEW j \in DOMAIN threadQueue',
                        threadQueue'[i] = "patch", threadQueue'[j] = "requestStop"
                 PROVE  i < j
      OBVIOUS
    <3>1. i \in 1 .. Len(threadQueue) /\ threadQueue[i] = "patch"
      BY <1>3
    <3>2. CASE j = Len(threadQueue) + 1
      BY <1>3, <3>1, <3>2
    <3>3. CASE j # Len(threadQueue) + 1
      BY <1>3, <2>1, <3>1, <3>3 DEF StopsKnown
    <3> QED
      BY <3>2, <3>3
  <2>3. StopsKnown'
    BY <1>1, <1>3, <2>1, <2>2 DEF StopsKnown
  <2>4. Answered'
    BY <1>1, <1>3, <1>4, <1>6, <2>1 DEF Answered
  <2> QED
    BY <2>3, <2>4
<1>9. ASSUME met' \cap {"call", "reports"} = {} PROVE GivenUp'
  BY <1>1, <1>3, <1>9 DEF IInv, GivenUp, Heard
<1> QED
  BY <1>5, <1>6, <1>7, <1>8, <1>9 DEF IInv

LEMMA StepOnActionStarted ==
  ASSUME IInv, OnActionStarted
  PROVE  IInv'
<1>1. /\ guiQueue # <<>> /\ Head(guiQueue).kind = "started" /\ guiQueue' = Tail(guiQueue)
      /\ currentAction' = Head(guiQueue).action
      /\ UNCHANGED <<isPatching, guiStop, threadQueue, stop, paster, created, frames, misnamed, met>>
  BY DEF OnActionStarted
<1>2. Types
  BY DEF IInv
<1>3. /\ guiQueue' \in Seq(Events)
      /\ guiQueue' # <<>> => Last' = Last
      /\ guiQueue' = <<>> => Last = Head(guiQueue)
      /\ \A i \in DOMAIN guiQueue' : i + 1 \in DOMAIN guiQueue /\ guiQueue'[i] = guiQueue[i + 1]
  BY <1>1, <1>2, ReportTaken
<1>4. Top' = Top /\ Action' = Action /\ Calls' = Calls /\ Heard' = Heard
  BY <1>1, TopKept DEF Calls, Heard
<1>5. Types'
  BY <1>1, <1>2, <1>3 DEF Types
<1>6. InTurn({"Done"})' /\ UpToDate({"Done"})'
  BY <1>1, <1>2, InTurnTaken DEF IInv
<1>7. ASSUME "call" \notin met' PROVE Alone'
  <2>1. Alone
    BY <1>1, <1>7 DEF IInv
  <2>2. InTurn(ActionNames)' /\ UpToDate(ActionNames)'
    BY <1>1, <1>2, <2>1, InTurnTaken DEF Alone
  <2>3. OwnPaster'
    BY <1>1, <1>4, <2>1 DEF Alone, OwnPaster
  <2> QED
    BY <1>1, <1>4, <2>1, <2>2, <2>3 DEF Alone
<1>8. ASSUME "stop" \notin met' PROVE StopsKnown' /\ Answered'
  <2>1. StopsKnown /\ Answered
    BY <1>1, <1>8 DEF IInv
  <2>2. StopsKnown'
    BY <1>1, <1>4, <2>1 DEF StopsKnown
  <2>3. Last.kind = "completed" => guiQueue' # <<>>
    BY <1>1, <1>3
  <2>4. Answered'
    BY <1>1, <1>3, <1>4, <2>1, <2>3 DEF Answered
  <2> QED
    BY <2>2, <2>4
<1>9. ASSUME met' \cap {"call", "reports"} = {} PROVE GivenUp'
  <2>1. GivenUp
    BY <1>1, <1>9 DEF IInv
  <2> QED
    BY <1>1, <1>3, <1>4, <2>1 DEF GivenUp
<1> QED
  BY <1>5, <1>6, <1>7, <1>8, <1>9 DEF IInv

LEMMA StepOnActionCompleted ==
  ASSUME IInv, OnActionCompleted
  PROVE  IInv'
<1>1. /\ guiQueue # <<>> /\ Head(guiQueue).kind = "completed" /\ guiQueue' = Tail(guiQueue)
      /\ misnamed' = (misnamed \/ Head(guiQueue).action # currentAction)
      /\ UNCHANGED <<currentAction, threadQueue, stop, paster, created, frames, met>>
  BY DEF OnActionCompleted
<1>2. \/ guiStop /\ isPatching' = FALSE /\ guiStop' = FALSE
      \/ ~guiStop /\ currentAction = "Done" /\ isPatching' = FALSE /\ guiStop' = FALSE
      \/ /\ ~guiStop /\ Head(guiQueue).success /\ currentAction # "Done"
         /\ isPatching' = isPatching /\ guiStop' = guiStop
      \/ ~guiStop /\ status' = "failed" /\ isPatching' = isPatching /\ guiStop' = guiStop
  BY DEF OnActionCompleted, Reset
<1>3. Types
  BY DEF IInv
<1>4. /\ guiQueue' \in Seq(Events) /\ Head(guiQueue) \in Events
      /\ guiQueue' # <<>> => Last' = Last
      /\ guiQueue' = <<>> => Last = Head(guiQueue)
      /\ 1 \in DOMAIN guiQueue /\ Head(guiQueue) = guiQueue[1]
      /\ \A i \in DOMAIN guiQueue' : i + 1 \in DOMAIN guiQueue /\ guiQueue'[i] = guiQueue[i + 1]
  BY <1>1, <1>3, ReportTaken
<1>5. Top' = Top /\ Action' = Action /\ Calls' = Calls /\ Heard' = Heard
  BY <1>1, TopKept DEF Calls, Heard
<1>6. Types'
  <2>1. isPatching' \in BOOLEAN /\ guiStop' \in BOOLEAN
    BY <1>2, <1>3 DEF Types
  <2> QED
    BY <1>1, <1>3, <1>4, <2>1 DEF Types
<1>7. /\ InTurn({"Done"})' /\ UpToDate({"Done"})'
      /\ Head(guiQueue).action = "Done" => currentAction = "Done"
  <2>1. InTurn({"Done"}) /\ UpToDate({"Done"})
    BY DEF IInv
  <2>2. /\ InTurn({"Done"})' /\ UpToDate({"Done"})'
        /\ Head(guiQueue).action \in {"Done"} => Head(guiQueue).action = currentAction
    BY <1>1, <1>3, <2>1, InTurnTaken
  <2> QED
    BY <2>2
<1>8. ASSUME "call" \notin met'
      PROVE  Alone' /\ Alone /\ Head(guiQueue).action = currentAction
  <2>1. Alone
    BY <1>1, <1>8 DEF IInv
  <2>2. Head(guiQueue).action \in ActionNames
    BY <1>4 DEF Events
  <2>3. InTurn(ActionNames)' /\ UpToDate(ActionNames)' /\ Head(guiQueue).action = currentAction
    BY <1>1, <1>3, <2>1, <2>2, InTurnTaken DEF Alone
  <2>4. OwnPaster'
    BY <1>1, <1>5, <2>1 DEF Alone, OwnPaster
  <2> QED
    BY <1>1, <1>5, <2>1, <2>3, <2>4 DEF Alone
<1>9. ASSUME "stop" \notin met' PROVE StopsKnown' /\ Answered'
  <2>1. StopsKnown /\ Answered
    BY <1>1, <1>9 DEF IInv
  <2>2. StopsKnown'
    BY <1>1, <1>2, <1>5, <2>1 DEF StopsKnown
  <2>3. ASSUME frames = <<>>, isPatching', "patch" \notin Calls
        PROVE  /\ guiQueue' = <<>> => status' = "failed"
               /\ guiQueue' # <<>> => /\ Last'.kind = "completed"
                                      /\ ~guiStop' => ~Last'.success \/ Last'.action = "Done"
    <3>1. isPatching /\ ~guiStop /\ ((Head(guiQueue).success /\ currentAction # "Done") \/ status' = "failed")
      <4>1. isPatching' # FALSE /\ isPatching \in BOOLEAN /\ guiStop \in BOOLEAN
        BY <1>3, <2>3 DEF Types
      <4>2. isPatching' = isPatching /\ ~guiStop
        BY <1>2, <4>1
      <4>3. (Head(guiQueue).success /\ currentAction # "Done") \/ status' = "failed"
        BY <1>2, <4>1
      <4> QED
        BY <2>3, <4>2, <4>3
    <3>2. Last.kind = "completed" /\ (~Last.success \/ Last.action = "Done")
      BY <1>1, <2>1, <2>3, <3>1 DEF Answered
    <3>3. guiQueue' = <<>> => status' = "failed"
      BY <1>4, <1>7, <3>1, <3>2
    <3> QED
      BY <1>4, <3>2, <3>3
  <2>4. stop /\ isPatching' => FALSE
    BY <1>2, <2>1 DEF StopsKnown, Heard
  <2>5. Answered'
    BY <1>1, <1>5, <2>3, <2>4 DEF Answered
  <2> QED
    BY <2>2, <2>5
<1>10. ASSUME met' \cap {"call", "reports"} = {} PROVE GivenUp'
  <2>1. GivenUp /\ "call" \notin met'
    BY <1>1, <1>10 DEF IInv
  <2>2. "patch" \notin Calls
    BY <1>1, <2>1 DEF GivenUp
  <2>3. \A i \in DOMAIN guiQueue' :
          guiQueue'[i].kind = "completed" /\ guiQueue'[i].action = "Done" => frames' = <<>>
    BY <1>1, <1>4, <2>1 DEF GivenUp
  <2>4. guiStop' => isPatching' /\ Heard
    BY <1>2, <2>1 DEF GivenUp
  <2>5. currentAction = "Done" => frames = <<>>
    BY <1>1, <1>4, <1>8, <2>1 DEF GivenUp
  <2>6. ~isPatching' /\ frames # <<>> => Heard
    BY <1>2, <2>1, <2>5 DEF GivenUp
  <2> QED
    BY <1>1, <1>5, <2>2, <2>3, <2>4, <2>6 DEF GivenUp
<1> QED
  BY <1>6, <1>7, <1>8, <1>9, <1>10 DEF IInv

-----------------------------------------------------------------------------
(* The thread                                                              *)

LEMMA StepOnRequestStop ==
  ASSUME IInv, OnRequestStop
  PROVE  IInv'
<1>1. /\ threadQueue # <<>> /\ Head(threadQueue) = "requestStop" /\ threadQueue' = Tail(threadQueue)
      /\ stop' = TRUE /\ (frames # <<>> => Top.pc = "poll")
      /\ UNCHANGED <<isPatching, guiStop, currentAction, status, guiQueue, paster, created, frames, misnamed, met>>
  BY DEF OnRequestStop, TakesEvents, guiVars
<1>2. Types
  BY DEF IInv
<1>3. /\ threadQueue' \in Seq(Requests) /\ Calls = Calls' \cup {"requestStop"}
      /\ \A i \in DOMAIN threadQueue' :
           i \in Nat /\ i >= 1 /\ i + 1 \in DOMAIN threadQueue /\ threadQueue'[i] = threadQueue[i + 1]
      /\ threadQueue[1] = "requestStop" /\ 1 \in DOMAIN threadQueue
  BY <1>1, <1>2, CallsDropped
<1>4. Top' = Top /\ Action' = Action /\ Heard' /\ Heard
  BY <1>1, <1>3, TopKept DEF Heard
<1>5. Types'
  BY <1>1, <1>2, <1>3 DEF Types
<1>6. InTurn({"Done"})' /\ UpToDate({"Done"})' /\ Last' = Last
  BY <1>1, ReportsKept, UpToDateKept DEF IInv
<1>7. ASSUME "call" \notin met' PROVE Alone'
  <2>1. Alone
    BY <1>1, <1>7 DEF IInv
  <2>2. InTurn(ActionNames)' /\ UpToDate(ActionNames)' /\ OwnPaster'
    BY <1>1, <1>4, <2>1, ReportsKept, UpToDateKept DEF Alone, OwnPaster
  <2>3. \A i, j \in DOMAIN threadQueue' : threadQueue'[i] = "patch" /\ threadQueue'[j] = "patch" => i = j
    <3> SUFFICES ASSUME NEW i \in DOMAIN threadQueue', NEW j \in DOMAIN threadQueue',
                        threadQueue'[i] = "patch", threadQueue'[j] = "patch"
                 PROVE  i = j
      OBVIOUS
    <3>1. i + 1 = j + 1 /\ i \in Nat /\ j \in Nat
      BY <1>3, <2>1 DEF Alone
    <3> QED
      BY <3>1
  <2> QED
    BY <1>1, <1>3, <2>1, <2>2, <2>3 DEF Alone
<1>8. ASSUME "stop" \notin met' PROVE StopsKnown' /\ Answered'
  <2>1. StopsKnown /\ Answered
    BY <1>1, <1>8 DEF IInv
  <2>2. \A i \in DOMAIN threadQueue : threadQueue[i] = "patch" => i < 1
    BY <1>3, <2>1 DEF StopsKnown
  <2>3. "patch" \notin Calls'
    <3>1. \A i \in DOMAIN threadQueue' : threadQueue'[i] # "patch"
      BY <1>3, <2>2
    <3> QED
      BY <3>1 DEF Calls
  <2>4. "patch" \notin Calls
    BY <1>3, <2>3
  <2>5. StopsKnown'
    <3>1. \A i \in DOMAIN threadQueue' : threadQueue'[i] # "patch"
      BY <1>3, <2>2
    <3> QED
      BY <1>1, <1>4, <2>1, <2>3, <3>1 DEF StopsKnown
  <2>6. Answered'
    BY <1>1, <1>4, <1>6, <2>1, <2>4 DEF Answered
  <2> QED
    BY <2>5, <2>6
<1>9. ASSUME met' \cap {"call", "reports"} = {} PROVE GivenUp'
  <2>1. GivenUp
    BY <1>1, <1>9 DEF IInv
  <2> QED
    BY <1>1, <1>3, <1>4, <2>1 DEF GivenUp
<1> QED
  BY <1>5, <1>6, <1>7, <1>8, <1>9 DEF IInv

LEMMA StepPatch ==
  ASSUME IInv, Patch
  PROVE  IInv'
<1>1. /\ threadQueue # <<>> /\ Head(threadQueue) = "patch" /\ threadQueue' = Tail(threadQueue)
      /\ frames' = <<NewFrame>> \o frames /\ (frames # <<>> => Top.pc = "poll")
      /\ UNCHANGED <<isPatching, guiStop, currentAction, status, guiQueue, stop, paster, created, misnamed, met>>
  BY DEF Patch, TakesEvents, guiVars
<1>2. Types
  BY DEF IInv
<1>3. /\ threadQueue' \in Seq(Requests) /\ Calls = Calls' \cup {"patch"}
      /\ \A i \in DOMAIN threadQueue' :
           i \in Nat /\ i >= 1 /\ i + 1 \in DOMAIN threadQueue /\ threadQueue'[i] = threadQueue[i + 1]
      /\ threadQueue[1] = "patch" /\ 1 \in DOMAIN threadQueue
  BY <1>1, <1>2, CallsDropped
<1>4. NewFrame \in Frames /\ NewFrame.pc = "before" /\ Head(NewFrame.left) = "Init"
  <2>1. IsRest(Actions) /\ Head(Actions) = "Init" /\ Actions \in Seq(ActionNames)
    BY ActionsAreRest DEF IsRest
  <2>2. NewFrame \in FrameType
    BY <2>1 DEF NewFrame, FrameType
  <2> QED
    BY <2>1, <2>2 DEF NewFrame, Frames
<1>5. /\ frames' \in Seq(Frames) /\ frames' # <<>> /\ Tail(frames') = frames
      /\ Tail(frames') \in Seq(Polled) /\ Top' = NewFrame
  BY <1>1, <1>2, <1>4, FramePush
<1>6. Top'.pc = "before" /\ Action' = "Init"
  BY <1>4, <1>5 DEF Action
<1>7. Types'
  BY <1>1, <1>2, <1>3, <1>5 DEF Types
<1>8. InTurn({"Done"})' /\ UpToDate({"Done"})'
  BY <1>1, <1>6, ReportsKept DEF IInv, UpToDate
<1>9. ASSUME "call" \notin met' PROVE Alone'
  <2>1. Alone
    BY <1>1, <1>9 DEF IInv
  <2>2. InTurn(ActionNames)' /\ UpToDate(ActionNames)' /\ OwnPaster'
    BY <1>1, <1>6, <2>1, ReportsKept DEF Alone, UpToDate, OwnPaster
  <2>3. Tail(frames') = <<>>
    BY <1>3, <1>5, <2>1 DEF Alone
  <2>4. \A i \in DOMAIN threadQueue' : threadQueue'[i] # "patch"
    <3> SUFFICES ASSUME NEW i \in DOMAIN threadQueue', threadQueue'[i] = "patch" PROVE FALSE
      OBVIOUS
    <3>1. i + 1 = 1 /\ i \in Nat /\ i >= 1
      BY <1>3, <2>1 DEF Alone
    <3> QED
      BY <3>1
  <2>5. "patch" \notin Calls'
    BY <2>4 DEF Calls
  <2> QED
    BY <1>1, <2>1, <2>2, <2>3, <2>4, <2>5 DEF Alone
<1>10. ASSUME "stop" \notin met' PROVE StopsKnown' /\ Answered'
  <2>1. StopsKnown
    BY <1>1, <1>10 DEF IInv
  <2>2. ~stop
    BY <1>3, <2>1 DEF StopsKnown
  <2>3. \A i, j \in DOMAIN threadQueue' : threadQueue'[i] = "patch" /\ threadQueue'[j] = "requestStop" => i < j
    <3> SUFFICES ASSUME NEW i \in DOMAIN threadQueue', NEW j \in DOMAIN threadQueue',
                        threadQueue'[i] = "patch", threadQueue'[j] = "requestStop"
                 PROVE  i < j
      OBVIOUS
    <3>1. i + 1 < j + 1 /\ i \in Nat /\ j \in Nat
      BY <1>3, <2>1 DEF StopsKnown
    <3> QED
      BY <3>1
  <2>4. Heard' => Heard
    BY <1>1, <1>3 DEF Heard
  <2>5. StopsKnown'
    BY <1>1, <2>1, <2>2, <2>3, <2>4 DEF StopsKnown
  <2>6. Answered'
    BY <1>1, <1>5, <2>2 DEF Answered
  <2> QED
    BY <2>5, <2>6
<1>11. ASSUME met' \cap {"call", "reports"} = {} PROVE GivenUp'
  <2>1. GivenUp
    BY <1>1, <1>11 DEF IInv
  <2>2. guiQueue = <<>> /\ isPatching
    BY <1>3, <2>1 DEF GivenUp
  <2>3. Heard => Heard'
    BY <1>1, <1>3 DEF Heard
  <2>4. DOMAIN guiQueue' = {}
    BY <1>1, <2>2
  <2> QED
    BY <1>1, <1>3, <2>1, <2>2, <2>3, <2>4 DEF GivenUp
<1> QED
  BY <1>7, <1>8, <1>9, <1>10, <1>11 DEF IInv

LEMMA StepAbortPatch ==
  ASSUME IInv, AbortPatch
  PROVE  IInv'
<1>1. /\ frames # <<>> /\ Top.pc = "before" /\ stop /\ paster' = 0 /\ frames' = Tail(frames)
      /\ UNCHANGED <<isPatching, guiStop, currentAction, status, guiQueue, threadQueue, stop, created, misnamed, met>>
  BY DEF AbortPatch, guiVars
<1>2. Types
  BY DEF IInv
<1>3. /\ frames' \in Seq(Frames)
      /\ frames' # <<>> => Tail(frames') \in Seq(Polled) /\ Top'.pc = "poll" /\ Action' # "Done"
  BY <1>1, <1>2, FramePop
<1>4. Calls' = Calls /\ Heard' = Heard /\ Last' = Last
  BY <1>1 DEF Calls, Heard, Last
<1>5. Types'
  BY <1>1, <1>2, <1>3 DEF Types
<1>6. InTurn({"Done"})' /\ UpToDate({"Done"})'
  BY <1>1, <1>3, ReportsKept DEF IInv, UpToDate
<1>7. ASSUME "call" \notin met' PROVE Alone' /\ frames' = <<>>
  <2>1. Alone /\ frames' = <<>>
    BY <1>1, <1>7 DEF IInv, Alone
  <2>2. InTurn(ActionNames)' /\ UpToDate(ActionNames)' /\ OwnPaster'
    BY <1>1, <2>1, ReportsKept DEF Alone, UpToDate, OwnPaster
  <2> QED
    BY <1>1, <2>1, <2>2 DEF Alone
<1>8. ASSUME "stop" \notin met' PROVE StopsKnown' /\ Answered'
  <2>1. StopsKnown /\ Answered
    BY <1>1, <1>8 DEF IInv
  <2>2. StopsKnown'
    BY <1>1, <1>4, <2>1 DEF StopsKnown
  <2>3. isPatching => guiStop /\ guiQueue # <<>> /\ Last.kind = "completed"
    BY <1>1, <2>1 DEF StopsKnown, Heard, Answered
  <2>4. Answered'
    BY <1>1, <1>3, <1>4, <2>3 DEF Answered
  <2> QED
    BY <2>2, <2>4
<1>9. ASSUME met' \cap {"call", "reports"} = {} PROVE GivenUp'
  <2>1. GivenUp /\ frames' = <<>>
    BY <1>1, <1>7, <1>9 DEF IInv
  <2> QED
    BY <1>1, <1>4, <2>1 DEF GivenUp
<1> QED
  BY <1>5, <1>6, <1>7, <1>8, <1>9 DEF IInv

LEMMA StepBeginAction ==
  ASSUME IInv, BeginAction
  PROVE  IInv'
<1> DEFINE e == Started(Action)
           f == [Top EXCEPT !.pc = IF Items(Action) > 0 /\ Action # "CheckImage" THEN "poll" ELSE "run",
                            !.items = Items(Action), !.paster = paster']
<1>1. /\ frames # <<>> /\ Top.pc = "before" /\ ~stop /\ guiQueue' = Append(guiQueue, e)
      /\ IF Action = "Init"
           THEN paster' = created + 1 /\ created' = created + 1
           ELSE paster' = paster /\ created' = created
      /\ SetTop(f)
      /\ UNCHANGED <<isPatching, guiStop, currentAction, status, threadQueue, stop, misnamed, met>>
  BY DEF BeginAction, guiVars
<1>2. Types
  BY DEF IInv
<1>3. Top \in Frames /\ Top \in FrameType /\ IsRest(Top.left) /\ Action = Head(Top.left) /\ Action \in ActionNames
  BY <1>1, <1>2, TopIs
<1>4. ~Top.inItem
  BY <1>1, <1>3 DEF Frames
<1>5. paster \in Nat /\ created \in Nat /\ paster' \in Nat /\ created' \in Nat
  BY <1>1, <1>2 DEF Types
<1>6. Items(Action) \in Nat /\ (Action = "Done" => Items(Action) = 0)
  BY SettingsAssumption DEF Items
<1>7. /\ f \in Frames /\ f.left = Top.left /\ f.pc # "before" /\ f.paster = paster'
  <2>1. /\ f \in FrameType /\ f.left = Top.left /\ f.pc # "before" /\ f.paster = paster' /\ ~f.inItem
        /\ f.items = Items(Action) /\ (~(Items(Action) > 0) => f.pc = "run")
    BY <1>3, <1>4, <1>5, <1>6 DEF FrameType
  <2> HIDE DEF f
  <2>2. Head(f.left) = "Done" => f.pc = "run" /\ f.items = 0
    BY <1>3, <1>6, <2>1
  <2> QED
    BY <1>3, <2>1, <2>2 DEF Frames
<1>8. e \in Events /\ e.kind # "completed" /\ Started(Action) = e
  BY <1>3 DEF Started, Events
<1> HIDE DEF f, e
<1>9. /\ frames' \in Seq(Frames) /\ frames' # <<>> /\ Tail(frames') = Tail(frames)
      /\ Tail(frames') \in Seq(Polled) /\ Top' = f
  BY <1>1, <1>2, <1>7, FrameSet
<1>10. Action' = Action
  BY <1>7, <1>9 DEF Action
<1>11. /\ guiQueue' \in Seq(Events) /\ guiQueue' # <<>> /\ Last' = e
       /\ \A i \in DOMAIN guiQueue' : (i \in DOMAIN guiQueue /\ guiQueue'[i] = guiQueue[i]) \/ guiQueue'[i] = e
  BY <1>1, <1>2, <1>8, ReportAppended
<1>12. Types'
  BY <1>1, <1>2, <1>5, <1>9, <1>11 DEF Types
<1>13. ASSUME NEW S, InTurn(S) PROVE InTurn(S)' /\ UpToDate(S)'
  <2>1. InTurn(S)'
    BY <1>1, <1>2, <1>8, <1>13, InTurnAppended
  <2>2. Started(Action)' = e
    BY <1>8, <1>10 DEF Started
  <2>3. UpToDate(S)'
    BY <1>11, <2>2 DEF UpToDate
  <2> QED
    BY <2>1, <2>3
<1>14. Calls' = Calls /\ Heard' = Heard
  BY <1>1 DEF Calls, Heard
<1>15. ASSUME "call" \notin met' PROVE Alone' /\ Alone
  <2>1. Alone
    BY <1>1, <1>15 DEF IInv
  <2>2. InTurn(ActionNames)' /\ UpToDate(ActionNames)'
    BY <1>13, <2>1 DEF Alone
  <2>3. paster' # 0
    BY <1>1, <1>5, <2>1 DEF Alone, OwnPaster
  <2>4. OwnPaster'
    BY <1>7, <1>9, <2>3 DEF OwnPaster
  <2> QED
    BY <1>1, <1>9, <1>14, <2>1, <2>2, <2>4 DEF Alone
<1>16. ASSUME "stop" \notin met' PROVE StopsKnown' /\ Answered'
  <2>1. StopsKnown
    BY <1>1, <1>16 DEF IInv
  <2> QED
    BY <1>1, <1>9, <1>14, <2>1 DEF StopsKnown, Answered
<1>17. ASSUME met' \cap {"call", "reports"} = {} PROVE GivenUp'
  <2>1. GivenUp /\ "patch" \notin Calls
    BY <1>1, <1>15, <1>17 DEF IInv, Alone
  <2>2. \A i \in DOMAIN guiQueue : ~(guiQueue[i].kind = "completed" /\ guiQueue[i].action = "Done")
    BY <1>1, <2>1 DEF GivenUp
  <2>3. \A i \in DOMAIN guiQueue' : ~(guiQueue'[i].kind = "completed" /\ guiQueue'[i].action = "Done")
    BY <1>8, <1>11, <2>2
  <2> QED
    BY <1>1, <1>14, <2>1, <2>3 DEF GivenUp
<1>18. InTurn({"Done"})' /\ UpToDate({"Done"})'
  BY <1>13 DEF IInv
<1> QED
  BY <1>12, <1>15, <1>16, <1>17, <1>18 DEF IInv

LEMMA StepCompleteAction ==
  ASSUME IInv, CompleteAction
  PROVE  IInv'
<1> DEFINE e == Completed(Action, TRUE)
           f == [Top EXCEPT !.left = Tail(@), !.pc = "before"]
<1>1. /\ frames # <<>> /\ Top.pc = "run" /\ guiQueue' = Append(guiQueue, e)
      /\ \/ Action = "Done" /\ paster' = 0 /\ frames' = Tail(frames)
         \/ Action # "Done" /\ SetTop(f) /\ paster' = paster
      /\ Top.items = 0
      /\ UNCHANGED <<isPatching, guiStop, currentAction, status, threadQueue, stop, created, misnamed, met>>
  BY DEF CompleteAction, Running, guiVars
<1>2. Types
  BY DEF IInv
<1>3. Top \in Frames /\ Top \in FrameType /\ IsRest(Top.left) /\ Action = Head(Top.left) /\ Action \in ActionNames
  BY <1>1, <1>2, TopIs
<1>4. e.kind = "completed" /\ e.action = Action /\ e.success = TRUE /\ e \in Events
  BY <1>3 DEF Completed, Events
<1> HIDE DEF e
<1>5. /\ guiQueue' \in Seq(Events) /\ guiQueue' # <<>> /\ Last' = e
      /\ \A i \in DOMAIN guiQueue' : (i \in DOMAIN guiQueue /\ guiQueue'[i] = guiQueue[i]) \/ guiQueue'[i] = e
  BY <1>1, <1>2, <1>4, ReportAppended
<1>6. ASSUME NEW S, InTurn(S), UpToDate(S) PROVE InTurn(S)'
  <2>1. e.action \in S => /\ guiQueue = <<>> => e.action = currentAction
                          /\ guiQueue # <<>> => Last = Started(e.action)
    BY <1>1, <1>4, <1>6 DEF UpToDate
  <2> QED
    BY <1>1, <1>2, <1>4, <1>6, <2>1, InTurnAppended
<1>7. Calls' = Calls /\ Heard' = Heard
  BY <1>1 DEF Calls, Heard
<1>8. /\ frames' \in Seq(Frames)
      /\ frames' # <<>> => Tail(frames') \in Seq(Polled)
      /\ \/ /\ Action = "Done" /\ frames' = Tail(frames)
            /\ frames' # <<>> => Top'.pc = "poll" /\ Action' # "Done"
         \/ /\ Action # "Done" /\ paster' = paster
            /\ frames' # <<>> /\ Tail(frames') = Tail(frames) /\ Top'.pc = "before" /\ Action' # "Init"
  <2>1. CASE Action = "Done" /\ frames' = Tail(frames)
    BY <1>1, <1>2, <2>1, FramePop
  <2>2. CASE Action # "Done" /\ SetTop(f) /\ paster' = paster
    <3>1. IsRest(Tail(Top.left)) /\ Head(Tail(Top.left)) # "Init" /\ Tail(Top.left) \in Seq(ActionNames)
      BY <1>3, <2>2, RestOfRest DEF IsRest
    <3>2. ~Top.inItem
      BY <1>1, <1>3 DEF Frames, FrameType
    <3>3. f \in FrameType /\ f.left = Tail(Top.left) /\ f.pc = "before" /\ ~f.inItem
      BY <1>3, <3>1, <3>2 DEF FrameType
    <3> HIDE DEF f
    <3>4. f \in Frames
      BY <3>1, <3>3 DEF Frames
    <3>5. /\ frames' \in Seq(Frames) /\ frames' # <<>> /\ Tail(frames') = Tail(frames)
          /\ Tail(frames') \in Seq(Polled) /\ Top' = f
      BY <1>1, <1>2, <2>2, <3>4, FrameSet
    <3>6. Action' = Head(Tail(Top.left))
      BY <3>3, <3>5 DEF Action
    <3> QED
      BY <2>2, <3>1, <3>3, <3>5, <3>6
  <2> QED
    BY <1>1, <2>1, <2>2
<1>9. Types'
  <2>1. paster' \in Nat
    BY <1>1, <1>2 DEF Types
  <2> QED
    BY <1>1, <1>2, <1>5, <1>8, <2>1 DEF Types
<1>10. InTurn({"Done"})' /\ UpToDate({"Done"})'
  BY <1>6, <1>8 DEF IInv, UpToDate
<1>11. ASSUME "call" \notin met' PROVE Alone' /\ Alone /\ (Action = "Done" => frames' = <<>>)
  <2>1. Alone /\ "patch" \notin Calls
    BY <1>1, <1>11 DEF IInv, Alone
  <2>2. InTurn(ActionNames)'
    BY <1>6, <2>1 DEF Alone
  <2>3. Action = "Done" => frames' = <<>>
    BY <1>1, <1>8, <2>1 DEF Alone
  <2>4. UpToDate(ActionNames)'
    BY <1>8, <2>3 DEF UpToDate
  <2>5. OwnPaster'
    BY <1>1, <1>8, <2>1, <2>3 DEF Alone, OwnPaster
  <2>6. frames' # <<>> => Tail(frames') = <<>>
    BY <1>1, <1>8, <2>1, <2>3 DEF Alone
  <2> QED
    BY <1>1, <1>7, <2>1, <2>2, <2>3, <2>4, <2>5, <2>6 DEF Alone
<1>12. ASSUME "stop" \notin met' PROVE StopsKnown' /\ Answered'
  <2>1. StopsKnown
    BY <1>1, <1>12 DEF IInv
  <2>2. StopsKnown'
    BY <1>1, <1>7, <2>1 DEF StopsKnown
  <2>3. frames' = <<>> => Last'.action = "Done"
    BY <1>4, <1>5, <1>8
  <2>4. Answered'
    BY <1>4, <1>5, <2>3 DEF Answered
  <2> QED
    BY <2>2, <2>4
<1>13. ASSUME met' \cap {"call", "reports"} = {} PROVE GivenUp'
  <2>1. GivenUp /\ Alone /\ "patch" \notin Calls /\ (Action = "Done" => frames' = <<>>)
    BY <1>1, <1>11, <1>13 DEF IInv, Alone
  <2>2. \A i \in DOMAIN guiQueue : ~(guiQueue[i].kind = "completed" /\ guiQueue[i].action = "Done")
    BY <1>1, <2>1 DEF GivenUp
  <2>3. \A i \in DOMAIN guiQueue' :
          guiQueue'[i].kind = "completed" /\ guiQueue'[i].action = "Done" => frames' = <<>>
    BY <1>4, <1>5, <2>1, <2>2
  <2> QED
    BY <1>1, <1>7, <2>1, <2>3 DEF GivenUp
<1> QED
  BY <1>9, <1>10, <1>11, <1>12, <1>13 DEF IInv

LEMMA StepFailAction ==
  ASSUME IInv, FailAction
  PROVE  IInv'
<1> DEFINE e == Completed(Action, FALSE)
<1>1. /\ frames # <<>> /\ Top.pc = "run" /\ (Action = "Init" \/ Top.items > 0)
      /\ guiQueue' = Append(guiQueue, e) /\ paster' = 0 /\ frames' = Tail(frames)
      /\ UNCHANGED <<isPatching, guiStop, currentAction, status, threadQueue, stop, created, misnamed, met>>
  BY DEF FailAction, Running, guiVars
<1>2. Types
  BY DEF IInv
<1>3. Top \in Frames /\ Top \in FrameType /\ Action = Head(Top.left) /\ Action \in ActionNames
  BY <1>1, <1>2, TopIs
<1>4. /\ e.kind = "completed" /\ e.action = Action /\ e.success = FALSE /\ e \in Events
  BY <1>3 DEF Completed, Events
<1> HIDE DEF e
<1>5. Action # "Done"
  BY <1>1, <1>3 DEF Frames
<1>6. /\ guiQueue' \in Seq(Events) /\ guiQueue' # <<>> /\ Last' = e
      /\ \A i \in DOMAIN guiQueue' : (i \in DOMAIN guiQueue /\ guiQueue'[i] = guiQueue[i]) \/ guiQueue'[i] = e
  BY <1>1, <1>2, <1>4, ReportAppended
<1>7. ASSUME NEW S, InTurn(S), UpToDate(S) PROVE InTurn(S)'
  <2>1. e.action \in S => /\ guiQueue = <<>> => e.action = currentAction
                          /\ guiQueue # <<>> => Last = Started(e.action)
    BY <1>1, <1>4, <1>7 DEF UpToDate
  <2> QED
    BY <1>1, <1>2, <1>4, <1>7, <2>1, InTurnAppended
<1>8. Calls' = Calls /\ Heard' = Heard
  BY <1>1 DEF Calls, Heard
<1>9. /\ frames' \in Seq(Frames)
      /\ frames' # <<>> => Tail(frames') \in Seq(Polled) /\ Top'.pc = "poll" /\ Action' # "Done"
  BY <1>1, <1>2, FramePop
<1>10. Types'
  BY <1>1, <1>2, <1>6, <1>9 DEF Types
<1>11. InTurn({"Done"})' /\ UpToDate({"Done"})'
  BY <1>7, <1>9 DEF IInv, UpToDate
<1>12. ASSUME "call" \notin met' PROVE Alone' /\ Alone /\ frames' = <<>>
  <2>1. Alone /\ frames' = <<>>
    BY <1>1, <1>12 DEF IInv, Alone
  <2>2. InTurn(ActionNames)' /\ UpToDate(ActionNames)' /\ OwnPaster'
    BY <1>7, <2>1 DEF Alone, UpToDate, OwnPaster
  <2> QED
    BY <1>1, <2>1, <2>2 DEF Alone
<1>13. ASSUME "stop" \notin met' PROVE StopsKnown' /\ Answered'
  <2>1. StopsKnown
    BY <1>1, <1>13 DEF IInv
  <2>2. StopsKnown'
    BY <1>1, <1>8, <2>1 DEF StopsKnown
  <2>3. Answered'
    BY <1>4, <1>6, <1>9 DEF Answered
  <2> QED
    BY <2>2, <2>3
<1>14. ASSUME met' \cap {"call", "reports"} = {} PROVE GivenUp'
  <2>1. GivenUp /\ Alone /\ "patch" \notin Calls /\ frames' = <<>>
    BY <1>1, <1>12, <1>14 DEF IInv, Alone
  <2> QED
    BY <1>1, <1>8, <2>1 DEF GivenUp
<1> QED
  BY <1>10, <1>11, <1>12, <1>13, <1>14 DEF IInv

(* What the steps within an action have in common.                         *)
LEMMA StepWithin ==
  ASSUME IInv, frames # <<>>, Top.pc # "before", NEW f \in Frames, SetTop(f),
         f.left = Top.left, f.pc # "before", f.paster = Top.paster,
         UNCHANGED <<isPatching, guiStop, currentAction, status, guiQueue, threadQueue, stop, paster,
                     created, misnamed, met>>
  PROVE  IInv'
<1>1. Types
  BY DEF IInv
<1>2. /\ frames' \in Seq(Frames) /\ frames' # <<>> /\ Tail(frames') = Tail(frames)
      /\ Tail(frames') \in Seq(Polled) /\ Top' = f
  BY <1>1, FrameSet
<1>3. Action' = Action /\ Calls' = Calls /\ Heard' = Heard /\ Last' = Last
  BY <1>2 DEF Action, Calls, Heard, Last
<1>4. Types'
  BY <1>1, <1>2 DEF Types
<1>5. ASSUME NEW S, UpToDate(S) PROVE UpToDate(S)'
  BY <1>2, <1>3, <1>5 DEF UpToDate, Started
<1>6. InTurn({"Done"})' /\ UpToDate({"Done"})'
  BY <1>5, ReportsKept DEF IInv
<1>7. ASSUME "call" \notin met' PROVE Alone'
  <2>1. Alone
    BY <1>7 DEF IInv
  <2>2. InTurn(ActionNames)' /\ UpToDate(ActionNames)'
    BY <1>5, <2>1, ReportsKept DEF Alone
  <2>3. OwnPaster'
    BY <1>2, <2>1 DEF Alone, OwnPaster
  <2> QED
    BY <1>2, <1>3, <2>1, <2>2, <2>3 DEF Alone
<1>8. ASSUME "stop" \notin met' PROVE StopsKnown' /\ Answered'
  <2>1. StopsKnown
    BY <1>8 DEF IInv
  <2> QED
    BY <1>2, <1>3, <2>1 DEF StopsKnown, Answered
<1>9. ASSUME met' \cap {"call", "reports"} = {} PROVE GivenUp'
  <2>1. GivenUp
    BY <1>9 DEF IInv
  <2> QED
    BY <1>2, <1>3, <2>1 DEF GivenUp
<1> QED
  BY <1>4, <1>6, <1>7, <1>8, <1>9 DEF IInv

LEMMA StepInAction ==
  ASSUME IInv, Poll \/ EndPoll \/ BeginItem \/ EndItem
  PROVE  IInv'
<1> DEFINE Same == UNCHANGED <<isPatching, guiStop, currentAction, status, guiQueue, threadQueue, stop, paster,
                               created, misnamed, met>>
<1>1. ASSUME frames # <<>> PROVE Top \in FrameType /\ Top \in Frames
  BY <1>1, TopIs DEF IInv
<1>2. CASE Poll
  <2> DEFINE f == [Top EXCEPT !.pc = "poll"]
  <2>1. frames # <<>> /\ Top.pc = "run" /\ Top.inItem /\ SetTop(f) /\ Same
    BY <1>2 DEF Poll, Running, guiVars
  <2>2. /\ f \in FrameType /\ f.left = Top.left /\ f.pc = "poll" /\ f.paster = Top.paster
        /\ f.items = Top.items /\ f.inItem = Top.inItem /\ Top.items \in Nat
    BY <1>1, <2>1 DEF FrameType
  <2> HIDE DEF f
  <2>3. f \in Frames
    BY <1>1, <2>1, <2>2 DEF Frames
  <2> QED
    BY <2>1, <2>2, <2>3, StepWithin
<1>3. CASE EndPoll
  <2> DEFINE f == [Top EXCEPT !.pc = "run"]
  <2>1. frames # <<>> /\ Top.pc = "poll" /\ SetTop(f) /\ Same
    BY <1>3 DEF EndPoll, guiVars
  <2>2. /\ f \in FrameType /\ f.left = Top.left /\ f.pc = "run" /\ f.paster = Top.paster
        /\ f.items = Top.items /\ f.inItem = Top.inItem
    BY <1>1, <2>1 DEF FrameType
  <2> HIDE DEF f
  <2>3. f \in Frames
    BY <1>1, <2>1, <2>2 DEF Frames
  <2> QED
    BY <2>1, <2>2, <2>3, StepWithin
<1>4. CASE BeginItem
  <2> DEFINE f == [Top EXCEPT !.inItem = TRUE]
  <2>1. frames # <<>> /\ Top.pc = "run" /\ Top.items > 0 /\ SetTop(f) /\ Same
    BY <1>4 DEF BeginItem, Running, guiVars
  <2>2. /\ f \in FrameType /\ f.left = Top.left /\ f.pc = "run" /\ f.paster = Top.paster
        /\ f.items = Top.items
    BY <1>1, <2>1 DEF FrameType
  <2> HIDE DEF f
  <2>3. f \in Frames
    BY <1>1, <2>1, <2>2 DEF Frames
  <2> QED
    BY <2>1, <2>2, <2>3, StepWithin
<1>5. CASE EndItem
  <2> DEFINE f == [Top EXCEPT !.inItem = FALSE, !.items = @ - 1,
                              !.pc = IF Top.items > 1 THEN "poll" ELSE "run"]
  <2>1. frames # <<>> /\ Top.pc = "run" /\ Top.inItem /\ SetTop(f) /\ Same
    BY <1>5 DEF EndItem, Running, guiVars
  <2>2. Top.items \in Nat /\ Top.items > 0 /\ Head(Top.left) # "Done" /\ IsRest(Top.left)
    BY <1>1, <2>1 DEF Frames, FrameType
  <2>3. /\ f \in FrameType /\ f.left = Top.left /\ f.pc # "before" /\ f.paster = Top.paster
        /\ f.inItem = FALSE
    <3>1. Top.items - 1 \in Nat
      BY <2>2
    <3> QED
      BY <1>1, <2>1, <3>1 DEF FrameType
  <2> HIDE DEF f
  <2>4. f \in Frames
    BY <2>2, <2>3 DEF Frames
  <2> QED
    BY <2>1, <2>3, <2>4, StepWithin
<1> QED
  BY <1>2, <1>3, <1>4, <1>5

-----------------------------------------------------------------------------
(* Theorems                                                                *)

LEMMA Initial == Init => IInv
<1> SUFFICES ASSUME Init PROVE IInv
  OBVIOUS
<1>1. /\ frames = <<>> /\ guiQueue = <<>> /\ threadQueue = <<>> /\ ~isPatching /\ ~guiStop /\ ~stop
      /\ paster = 0 /\ created = 0 /\ ~misnamed
  BY DEF Init
<1>2. Calls = {} /\ DOMAIN guiQueue = {} /\ DOMAIN threadQueue = {}
  BY <1>1 DEF Calls
<1>3. Types
  <2>1. <<>> \in Seq(Events) /\ <<>> \in Seq(Requests) /\ <<>> \in Seq(Frames)
    OBVIOUS
  <2> QED
    BY <2>1 DEF Init, Types
<1>4. \A S : InTurn(S) /\ UpToDate(S)
  BY <1>1, <1>2 DEF InTurn, UpToDate
<1>5. Alone
  BY <1>1, <1>2, <1>4 DEF Alone, OwnPaster
<1>6. StopsKnown /\ Answered /\ GivenUp
  BY <1>1, <1>2 DEF StopsKnown, Heard, Answered, GivenUp
<1> QED
  BY <1>3, <1>4, <1>5, <1>6 DEF IInv

LEMMA Stutter == ASSUME IInv, UNCHANGED vars PROVE IInv'
<1>1. UNCHANGED <<isPatching, guiStop, currentAction, status, guiQueue, threadQueue, stop, paster,
                  created, frames, misnamed, met>>
  BY DEF vars
<1>2. Top' = Top /\ Action' = Action /\ Calls' = Calls /\ Heard' = Heard /\ Last' = Last
  BY <1>1, TopKept DEF Calls, Heard, Last
<1>3. Types'
  BY <1>1 DEF IInv, Types
<1>4. InTurn({"Done"})' /\ UpToDate({"Done"})'
  BY <1>1, ReportsKept, UpToDateKept DEF IInv
<1>5. ASSUME "call" \notin met' PROVE Alone'
  <2>1. Alone
    BY <1>1, <1>5 DEF IInv
  <2>2. InTurn(ActionNames)' /\ UpToDate(ActionNames)'
    BY <1>1, <2>1, ReportsKept, UpToDateKept DEF Alone
  <2> QED
    BY <1>1, <1>2, <2>1, <2>2 DEF Alone, OwnPaster
<1>6. ASSUME "stop" \notin met' PROVE StopsKnown' /\ Answered'
  <2>1. StopsKnown /\ Answered
    BY <1>1, <1>6 DEF IInv
  <2> QED
    BY <1>1, <1>2, <2>1 DEF StopsKnown, Answered
<1>7. ASSUME met' \cap {"call", "reports"} = {} PROVE GivenUp'
  <2>1. GivenUp
    BY <1>1, <1>7 DEF IInv
  <2> QED
    BY <1>1, <1>2, <2>1 DEF GivenUp
<1> QED
  BY <1>3, <1>4, <1>5, <1>6, <1>7 DEF IInv

LEMMA Step == ASSUME IInv, [Next]_vars PROVE IInv'
<1>1. CASE User
  BY <1>1, StepPressStart, StepPressCancel DEF User
<1>2. CASE Gui
  BY <1>2, StepOnActionStarted, StepOnActionCompleted DEF Gui
<1>3. CASE Thread
  BY <1>3, StepOnRequestStop, StepPatch, StepAbortPatch, StepBeginAction, StepCompleteAction,
     StepInAction DEF Thread
<1>4. CASE Work \/ Poll
  BY <1>4, StepFailAction, StepInAction DEF Work
<1>5. CASE UNCHANGED vars
  BY <1>5, Stutter
<1> QED
  BY <1>1, <1>2, <1>3, <1>4, <1>5 DEF Next

LEMMA Invariant == Spec => []IInv
<1>1. Init => IInv
  BY Initial
<1>2. IInv /\ [Next]_vars => IInv'
  BY Step
<1> QED
  BY <1>1, <1>2, PTL DEF Spec

(* As long as every start has found the last patch() gone, the runs do not *)
(* meet: patch() never calls patch(), an action works on the DataPaster of *)
(* its run, and MainFrame names the action that a completion is about,     *)
(* even if reports of the old run or a stop of it come after the start.    *)
THEOREM RunsApart == Spec => []OnlyCallsMeet
<1>1. IInv => OnlyCallsMeet
  <2> SUFFICES ASSUME IInv, "call" \notin met PROVE RunsDoNotMeet
    BY DEF OnlyCallsMeet
  <2>1. Types /\ Alone
    BY DEF IInv
  <2>2. CASE frames = <<>>
    BY <2>1, <2>2 DEF Alone, RunsDoNotMeet, OnePatchAtATime
  <2>3. CASE frames # <<>>
    <3>1. frames \in Seq(Frames) /\ Len(Tail(frames)) = 0 /\ Len(frames) = Len(Tail(frames)) + 1
      BY <2>1, <2>3, Dropped DEF Types, Alone
    <3>2. Len(frames) = 1
      BY <3>1
    <3>3. OnOwnPaster(Top)
      BY <2>1, <2>3 DEF Alone, OwnPaster, OnOwnPaster
    <3>4. \A i \in 1 .. Len(frames) : frames[i] = Top
      BY <3>2 DEF Top
    <3> QED
      BY <2>1, <3>2, <3>3, <3>4 DEF Alone, RunsDoNotMeet, OnePatchAtATime
  <2> QED
    BY <2>2, <2>3
<1> QED
  BY <1>1, Invariant, PTL

(* MainFrame shows Cancel only while there is a run to cancel, a call or a *)
(* completion that is still on its way, or a failure to look at, however   *)
(* the runs meet, as long as no start has found a stop still on its way.   *)
THEOREM CancelIsOfUse == Spec => []CancelHasARun
<1>1. IInv => CancelHasARun
  <2> SUFFICES ASSUME IInv, "stop" \notin met, isPatching, frames = <<>>, ~InQueue("patch", threadQueue),
                      status # "failed"
               PROVE  \E i \in 1 .. Len(guiQueue) : guiQueue[i].kind = "completed"
    BY DEF CancelHasARun
  <2>1. Types /\ Answered
    BY DEF IInv
  <2>2. "patch" \notin Calls
    BY <2>1 DEF Calls, InQueue, Types
  <2>3. guiQueue # <<>> /\ Last.kind = "completed"
    BY <2>1, <2>2 DEF Answered
  <2>4. Len(guiQueue) \in 1 .. Len(guiQueue)
    <3>1. guiQueue \in Seq(Events) /\ guiQueue # <<>>
      BY <2>1, <2>3 DEF Types
    <3> QED
      BY <3>1, EmptySeq
  <2> QED
    BY <2>3, <2>4 DEF Last
<1> QED
  BY <1>1, Invariant, PTL

(* A run that MainFrame has given up stops by itself: the thread has the   *)
(* request or will get it, as long as no start has found a patch() or      *)
(* reports of the last run.                                                *)
THEOREM AbortArrives == Spec => []AbortReachesThread
<1>1. IInv => AbortReachesThread
  <2> SUFFICES ASSUME IInv, met \cap {"call", "reports"} = {}, ~isPatching, frames # <<>>, ~stop
               PROVE  InQueue("requestStop", threadQueue)
    BY DEF AbortReachesThread
  <2>1. Types /\ GivenUp
    BY DEF IInv
  <2>2. "requestStop" \in Calls
    BY <2>1 DEF GivenUp, Heard
  <2>3. DOMAIN threadQueue = 1 .. Len(threadQueue)
    BY <2>1 DEF Types
  <2> QED
    BY <2>2, <2>3 DEF Calls, InQueue
<1> QED
  BY <1>1, Invariant, PTL
=============================================================================
