----------------------- MODULE ExecutablePatcherProofs -----------------------
(* The strings placed by ExecutablePatcher::apply do not overlap, for      *)
(* every alignment, every patch with disjoint spaces, and any run.         *)
EXTENDS ExecutablePatcher, SequenceTheorems, WellFoundedInduction, TLAPS

PlaceType ==
  /\ patch \in Patches
  /\ holes \in Seq(Hole)
  /\ record \in Nat \ {0}
  /\ pc \in {"idle", "record", "string", "targets", "done", "failed"}
  /\ \A p \in placed : p.of \in Nat /\ p.offset \in Nat /\ p.size \in Nat

(* A record is placed once: those placed are behind the record at hand, or *)
(* are that record when its string is being written.                       *)
PlacedOnce ==
  /\ \A p \in placed : p.of <= record
  /\ pc = "record" => \A p \in placed : p.of # record

HolesApart == \A i, j \in DOMAIN holes : i # j => Apart(holes[i], holes[j])

HolesFree == \A p \in placed : \A i \in DOMAIN holes : Apart(p, holes[i])

HolesWithin == \A i \in DOMAIN holes : \E k \in DOMAIN patch.spaces : Within(holes[i], patch.spaces[k])

(* What is placed is apart from what is free, and both are in the spaces.  *)
IInv == PlaceType /\ PlacedOnce /\ HolesApart /\ HolesFree /\ HolesWithin /\ StringsApart

-----------------------------------------------------------------------------
(* Rounding up never gives less.                                           *)
LEMMA AlignUpGrows ==
  ASSUME NEW v \in Nat
  PROVE  AlignUp(v) \in Nat /\ v <= AlignUp(v)
<1>1. Align \in Nat /\ Align > 0
  BY SizesAssumption
<1> DEFINE t == v + Align - 1
<1>2. t \in Nat
  BY <1>1
<1>3. t % Align \in 0 .. Align - 1
  BY <1>1, <1>2
<1>4. AlignUp(v) = t - (t % Align)
  BY DEF AlignUp
<1>5. t = v + Align - 1
  OBVIOUS
<1> HIDE DEF t
<1> QED
  BY <1>1, <1>2, <1>3, <1>4, <1>5

(* What is taken from a hole, and whatever lies in that hole behind it, is *)
(* apart from all that is apart from the hole.                             *)
LEMMA InsideApart ==
  ASSUME NEW p \in Hole, NEW q \in [offset : Nat, size : Nat], NEW x,
         x.offset \in Nat, x.size \in Nat,
         Within(q, p), Apart(x, p)
  PROVE  Apart(x, q)
BY DEF Within, Apart, Hole

(* Removing an element from a sequence.                                    *)
LEMMA Removed ==
  ASSUME NEW S, NEW s \in Seq(S), NEW i \in DOMAIN s
  PROVE  /\ RemoveAt(s, i) \in Seq(S)
         /\ DOMAIN RemoveAt(s, i) = 1 .. Len(s) - 1
         /\ \A j \in 1 .. Len(s) - 1 : RemoveAt(s, i)[j] = s[IF j < i THEN j ELSE j + 1]
<1>1. i \in 1 .. Len(s) /\ Len(s) \in Nat
  OBVIOUS
<1> DEFINE left == SubSeq(s, 1, i - 1)
           right == SubSeq(s, i + 1, Len(s))
<1>2. left \in Seq(S) /\ Len(left) = i - 1 /\ \A j \in 1 .. i - 1 : left[j] = s[j]
  BY <1>1
<1>3. right \in Seq(S) /\ Len(right) = Len(s) - i /\ \A j \in 1 .. Len(s) - i : right[j] = s[i + j]
  BY <1>1
<1>4. RemoveAt(s, i) = left \o right
  BY DEF RemoveAt
<1> HIDE DEF left, right
<1>5. /\ left \o right \in Seq(S)
      /\ Len(left \o right) = Len(left) + Len(right)
      /\ \A j \in 1 .. Len(left) + Len(right) :
           (left \o right)[j] = IF j <= Len(left) THEN left[j] ELSE right[j - Len(left)]
  BY <1>2, <1>3, ConcatProperties
<1> DEFINE both == left \o right
<1>6. /\ both \in Seq(S) /\ Len(both) = Len(s) - 1
      /\ \A j \in 1 .. Len(s) - 1 :
           both[j] = IF j <= i - 1 THEN left[j] ELSE right[j - (i - 1)]
  <2>1. Len(left) = i - 1 /\ Len(left) + Len(right) = Len(s) - 1
    BY <1>1, <1>2, <1>3
  <2> QED
    BY <1>5, <2>1
<1> HIDE DEF both
<1>7. \A j \in 1 .. Len(s) - 1 : both[j] = s[IF j < i THEN j ELSE j + 1]
  <2> SUFFICES ASSUME NEW j \in 1 .. Len(s) - 1
               PROVE  both[j] = s[IF j < i THEN j ELSE j + 1]
    OBVIOUS
  <2>1. CASE j < i
    BY <1>1, <1>2, <1>6, <2>1
  <2>2. CASE ~ (j < i)
    <3>1. both[j] = right[j - (i - 1)]
      BY <1>1, <1>6, <2>2
    <3>2. j - (i - 1) \in 1 .. Len(s) - i /\ i + (j - (i - 1)) = j + 1
      BY <1>1, <2>2
    <3> QED
      BY <1>3, <2>2, <3>1, <3>2
  <2> QED
    BY <2>1, <2>2
<1>8. RemoveAt(s, i) = both
  BY <1>4 DEF both
<1>9. DOMAIN both = 1 .. Len(s) - 1
  BY <1>6
<1> QED
  BY <1>6, <1>7, <1>8, <1>9

(* The holes after a string of a certain size was put into one: each lies  *)
(* in a hole there was before, no two in the same, and behind the string.  *)
LEMMA TakenHoles ==
  ASSUME NEW s \in Seq(Hole), NEW i \in DOMAIN s, NEW n \in Nat, n <= s[i].size
  PROVE  /\ Taken(s, i, n) \in Seq(Hole)
         /\ \A j \in DOMAIN Taken(s, i, n) : \E k \in DOMAIN s :
              /\ Within(Taken(s, i, n)[j], s[k])
              /\ k = i => s[i].offset + n <= Taken(s, i, n)[j].offset
         /\ (\A j, k \in DOMAIN s : j # k => Apart(s[j], s[k]))
            => \A j, k \in DOMAIN Taken(s, i, n) : j # k => Apart(Taken(s, i, n)[j], Taken(s, i, n)[k])
<1> DEFINE a == AlignUp(n)
           rest == [offset |-> s[i].offset + a, size |-> s[i].size - a]
<1>1. a \in Nat /\ n <= a
  BY AlignUpGrows
<1>2. s[i] \in Hole /\ \A j \in DOMAIN s : s[j] \in Hole
  OBVIOUS
<1>3. s[i].offset \in Nat \ {0} /\ s[i].size \in Nat \ {0}
  BY <1>2 DEF Hole
<1>4. Taken(s, i, n) = IF rest.size <= 0 THEN RemoveAt(s, i) ELSE [s EXCEPT ![i] = rest]
  BY DEF Taken
<1>5. rest.offset = s[i].offset + a /\ rest.size = s[i].size - a
  OBVIOUS
<1> HIDE DEF a
<1>6. \A j \in DOMAIN s : Within(s[j], s[j])
  <2> SUFFICES ASSUME NEW j \in DOMAIN s PROVE Within(s[j], s[j])
    OBVIOUS
  <2>1. s[j].offset \in Nat /\ s[j].size \in Nat
    BY <1>2 DEF Hole
  <2> QED
    BY <2>1 DEF Within
<1>7. CASE rest.size <= 0
  <2>1. Taken(s, i, n) = RemoveAt(s, i)
    BY <1>4, <1>7
  <2> DEFINE f(j) == IF j < i THEN j ELSE j + 1
  <2>2. RemoveAt(s, i) \in Seq(Hole) /\ DOMAIN RemoveAt(s, i) = 1 .. Len(s) - 1
    BY Removed
  <2>3. \A j \in 1 .. Len(s) - 1 : RemoveAt(s, i)[j] = s[f(j)]
    BY Removed
  <2>4. \A j \in 1 .. Len(s) - 1 : f(j) \in DOMAIN s /\ f(j) # i
    OBVIOUS
  <2>5. \A j, k \in 1 .. Len(s) - 1 : j # k => f(j) # f(k)
    OBVIOUS
  <2> HIDE DEF f
  <2> QED
    BY <1>6, <2>1, <2>2, <2>3, <2>4, <2>5
<1>8. CASE ~ (rest.size <= 0)
  <2>1. Taken(s, i, n) = [s EXCEPT ![i] = rest]
    BY <1>4, <1>8
  <2>2. rest \in Hole
    <3>1. s[i].offset + a \in Nat \ {0}
      BY <1>1, <1>3
    <3>2. s[i].size - a \in Nat \ {0}
      BY <1>1, <1>3, <1>5, <1>8
    <3> QED
      BY <3>1, <3>2 DEF Hole
  <2>3. Within(rest, s[i]) /\ s[i].offset + n <= rest.offset
    BY <1>1, <1>3, <1>5, <1>8 DEF Within
  <2> HIDE DEF rest
  <2> DEFINE new == [s EXCEPT ![i] = rest]
  <2>4. new \in Seq(Hole) /\ DOMAIN new = DOMAIN s
    BY <2>2
  <2>5. new[i] = rest /\ \A j \in DOMAIN s : j # i => new[j] = s[j]
    OBVIOUS
  <2> HIDE DEF new
  <2>6. \A j \in DOMAIN new : \E k \in DOMAIN s :
          Within(new[j], s[k]) /\ (k = i => s[i].offset + n <= new[j].offset)
    <3> SUFFICES ASSUME NEW j \in DOMAIN s
                 PROVE  \E k \in DOMAIN s :
                          Within(new[j], s[k]) /\ (k = i => s[i].offset + n <= new[j].offset)
      BY <2>4
    <3>1. CASE j = i
      BY <2>3, <2>5, <3>1
    <3>2. CASE j # i
      BY <1>6, <2>5, <3>2
    <3> QED
      BY <3>1, <3>2
  <2>7. ASSUME \A j, k \in DOMAIN s : j # k => Apart(s[j], s[k]),
               NEW j \in DOMAIN s, NEW k \in DOMAIN s, j # k
        PROVE  Apart(new[j], new[k])
    <3>1. s[j] \in Hole /\ s[k] \in Hole
      BY <1>2
    <3>2. s[j].offset \in Nat /\ s[j].size \in Nat /\ s[k].offset \in Nat /\ s[k].size \in Nat
      BY <3>1 DEF Hole
    <3>3. rest.offset \in Nat /\ rest.size \in Nat
      BY <2>2 DEF Hole
    <3>4. Apart(s[j], s[k]) /\ Apart(s[k], s[j])
      BY <2>7
    <3>5. CASE j = i
      <4>0. Apart(s[k], s[i])
        BY <3>4, <3>5
      <4>1. Apart(s[k], rest)
        BY <1>2, <2>2, <2>3, <3>2, <4>0, InsideApart DEF Hole
      <4>2. new[j] = rest /\ new[k] = s[k]
        BY <2>5, <2>7, <3>5
      <4> QED
        BY <4>1, <4>2 DEF Apart
    <3>6. CASE k = i
      <4>1. Apart(s[j], rest)
        BY <2>3, <3>1, <3>2, <3>3, <3>4, <3>6, SMTT(30) DEF Apart, Within
      <4>2. new[k] = rest /\ new[j] = s[j]
        BY <2>5, <2>7, <3>6
      <4> QED
        BY <4>1, <4>2 DEF Apart
    <3>7. CASE j # i /\ k # i
      BY <2>5, <3>4, <3>7
    <3> QED
      BY <3>5, <3>6, <3>7
  <2>8. Taken(s, i, n) = new
    BY <2>1 DEF new
  <2> QED
    BY <2>4, <2>6, <2>7, <2>8
<1> QED
  BY <1>7, <1>8

(* Every space of a patch lies within itself.                              *)
LEMMA EveryHoleWithin ==
  ASSUME NEW s \in Seq(Hole)
  PROVE  \A i \in DOMAIN s : Within(s[i], s[i])
<1> SUFFICES ASSUME NEW i \in DOMAIN s PROVE Within(s[i], s[i])
  OBVIOUS
<1>1. s[i] \in Hole
  OBVIOUS
<1>2. s[i].offset \in Nat /\ s[i].size \in Nat
  BY <1>1 DEF Hole
<1> QED
  BY <1>2 DEF Within

-----------------------------------------------------------------------------
LEMMA InitialPlaces == Init => IInv
<1> SUFFICES ASSUME Init PROVE IInv
  OBVIOUS
<1>1. patch \in Patches /\ holes = patch.spaces /\ placed = {} /\ pc = "idle" /\ record = 1
  BY DEF Init
<1>2. HolesApart /\ holes \in Seq(Hole)
  BY <1>1, PatchesAssumption DEF HolesApart
<1>3. HolesWithin
  BY <1>1, <1>2, EveryHoleWithin DEF HolesWithin
<1> QED
  BY <1>1, <1>2, <1>3 DEF IInv, PlaceType, PlacedOnce, HolesFree, StringsApart

(* A step that touches neither holes nor strings and does not turn back.   *)
LEMMA Elsewhere ==
  ASSUME IInv, UNCHANGED <<patch, holes, placed>>, record' \in Nat \ {0}, record <= record',
         pc' \in {"idle", "record", "string", "targets", "done", "failed"},
         pc' = "record" => record < record'
  PROVE  IInv'
<1>1. PlaceType'
  BY DEF IInv, PlaceType
<1>2. PlacedOnce'
  BY DEF IInv, PlaceType, PlacedOnce
<1>3. HolesApart' /\ HolesFree' /\ HolesWithin' /\ StringsApart'
  BY DEF IInv, HolesApart, HolesFree, HolesWithin, StringsApart
<1> QED
  BY <1>1, <1>2, <1>3 DEF IInv

(* A run begins with all of the space and no strings.                      *)
LEMMA StartKeeps == ASSUME IInv, StartApply PROVE IInv'
<1>1. /\ patch' = patch /\ patch \in Patches /\ holes' = patch.spaces
      /\ placed' = {} /\ record' = 1 /\ pc' = "record"
  BY DEF IInv, PlaceType, StartApply, FreshHoles
<1>2. HolesApart' /\ patch.spaces \in Seq(Hole)
  BY <1>1, PatchesAssumption DEF HolesApart
<1>3. HolesWithin'
  BY <1>1, <1>2, EveryHoleWithin DEF HolesWithin
<1>4. PlaceType' /\ PlacedOnce' /\ HolesFree' /\ StringsApart'
  BY <1>1, <1>2 DEF PlaceType, PlacedOnce, HolesFree, StringsApart
<1> QED
  BY <1>2, <1>3, <1>4 DEF IInv

(* A string is put into a hole: it is apart from the strings placed before *)
(* because the hole was, and from what is left of the space.               *)
LEMMA AllocKeeps == ASSUME IInv, AllocSpace PROVE IInv'
<1> DEFINE n == Current.size
<1>1. PICK i \in DOMAIN holes :
        /\ n <= holes[i].size
        /\ holes' = Taken(holes, i, n)
        /\ placed' = placed \union {[of |-> record, offset |-> holes[i].offset, size |-> n]}
  BY DEF AllocSpace, Fits
<1> DEFINE new == [of |-> record, offset |-> holes[i].offset, size |-> n]
<1>2. patch' = patch /\ record' = record /\ pc = "record" /\ pc' = "string"
  BY DEF AllocSpace
<1>3. patch \in Patches /\ holes \in Seq(Hole) /\ record \in Nat \ {0}
  BY DEF IInv, PlaceType
<1>4. n \in Nat
  <2>1. patch.records \in Seq(Record)
    BY <1>3, PatchesAssumption
  <2>2. record \in DOMAIN patch.records
    BY <1>3, <2>1 DEF AllocSpace
  <2>3. Current \in Record
    BY <2>1, <2>2 DEF Current
  <2> QED
    BY <2>3 DEF Record
<1>5. /\ holes' \in Seq(Hole)
      /\ \A j \in DOMAIN holes' : \E k \in DOMAIN holes :
           Within(holes'[j], holes[k]) /\ (k = i => holes[i].offset + n <= holes'[j].offset)
      /\ HolesApart'
  BY <1>1, <1>3, <1>4, TakenHoles DEF IInv, HolesApart
<1>6. \A j \in DOMAIN holes : holes[j] \in Hole
  BY <1>3
<1>7. \A j \in DOMAIN holes' : holes'[j] \in Hole
  BY <1>5
<1>8. new.of = record /\ new.offset = holes[i].offset /\ new.size = n /\ placed' = placed \union {new}
  BY <1>1
<1>9. new.offset \in Nat /\ new.size \in Nat
  BY <1>4, <1>6, <1>8 DEF Hole
<1> HIDE DEF n, new
<1>10. Within(new, holes[i])
  <2>1. holes[i].offset \in Nat /\ holes[i].size \in Nat
    BY <1>6 DEF Hole
  <2> QED
    BY <1>1, <1>4, <1>8, <2>1 DEF Within
<1>11. PlaceType' /\ PlacedOnce'
  BY <1>2, <1>3, <1>5, <1>8, <1>9 DEF IInv, PlaceType, PlacedOnce
<1>12. HolesFree'
  <2> SUFFICES ASSUME NEW p \in placed', NEW j \in DOMAIN holes' PROVE Apart(p, holes'[j])
    BY DEF HolesFree
  <2>1. PICK k \in DOMAIN holes :
          Within(holes'[j], holes[k]) /\ (k = i => holes[i].offset + n <= holes'[j].offset)
    BY <1>5
  <2>2. holes[k] \in Hole /\ holes'[j] \in Hole
    BY <1>6, <1>7
  <2>3. holes'[j] \in [offset : Nat, size : Nat]
    BY <2>2 DEF Hole
  <2>4. CASE p \in placed
    <3>1. Apart(p, holes[k]) /\ p.offset \in Nat /\ p.size \in Nat
      BY <2>4 DEF IInv, HolesFree, PlaceType
    <3> QED
      BY <2>1, <2>2, <2>3, <3>1, InsideApart
  <2>5. CASE p = new /\ k # i
    <3>1. Apart(holes[i], holes[k]) /\ holes[i] \in Hole
      BY <1>6, <2>5 DEF IInv, HolesApart
    <3>2. Apart(new, holes[k])
      BY <1>9, <1>10, <2>2, <3>1 DEF Apart, Within, Hole
    <3> QED
      BY <1>9, <2>1, <2>2, <2>3, <2>5, <3>2, InsideApart
  <2>6. CASE p = new /\ k = i
    BY <1>4, <1>8, <1>9, <2>1, <2>2, <2>6 DEF Apart, Hole
  <2> QED
    BY <1>8, <2>4, <2>5, <2>6
<1>13. HolesWithin'
  <2> SUFFICES ASSUME NEW j \in DOMAIN holes'
               PROVE  \E m \in DOMAIN patch.spaces : Within(holes'[j], patch.spaces[m])
    BY <1>2 DEF HolesWithin
  <2>1. PICK k \in DOMAIN holes : Within(holes'[j], holes[k])
    BY <1>5
  <2>2. PICK m \in DOMAIN patch.spaces : Within(holes[k], patch.spaces[m])
    BY DEF IInv, HolesWithin
  <2>3. patch.spaces[m] \in Hole
    BY <1>3, PatchesAssumption
  <2> QED
    BY <1>6, <1>7, <2>1, <2>2, <2>3 DEF Within, Hole
<1>14. StringsApart'
  <2>1. \A p \in placed : Apart(p, new) /\ Apart(new, p)
    <3> SUFFICES ASSUME NEW p \in placed PROVE Apart(p, new) /\ Apart(new, p)
      OBVIOUS
    <3>1. Apart(p, holes[i]) /\ p.offset \in Nat /\ p.size \in Nat
      BY DEF IInv, HolesFree, PlaceType
    <3>2. holes[i].offset \in Nat /\ holes[i].size \in Nat
      BY <1>6 DEF Hole
    <3> QED
      BY <1>9, <1>10, <3>1, <3>2 DEF Apart, Within
  <2>2. \A p, q \in placed' : p.of # q.of => Apart(p, q)
    BY <1>8, <2>1 DEF IInv, StringsApart
  <2>3. \E m \in DOMAIN patch.spaces : Within(new, patch.spaces[m])
    <3>1. PICK m \in DOMAIN patch.spaces : Within(holes[i], patch.spaces[m])
      BY DEF IInv, HolesWithin
    <3>0. patch.spaces[m] \in Hole
      BY <1>3, PatchesAssumption
    <3>2. patch.spaces[m].offset \in Nat /\ patch.spaces[m].size \in Nat
      BY <3>0 DEF Hole
    <3>3. holes[i].offset \in Nat /\ holes[i].size \in Nat
      BY <1>6 DEF Hole
    <3> QED
      BY <1>9, <1>10, <3>1, <3>2, <3>3 DEF Within
  <2>4. \A p \in placed' : \E m \in DOMAIN patch.spaces : Within(p, patch.spaces[m])
    BY <1>8, <2>3 DEF IInv, StringsApart
  <2> QED
    BY <1>2, <2>2, <2>4 DEF StringsApart
<1> QED
  BY <1>5, <1>11, <1>12, <1>13, <1>14 DEF IInv

LEMMA StepKeeps == IInv /\ [Next]_vars => IInv'
<1> SUFFICES ASSUME IInv, [Next]_vars PROVE IInv'
  OBVIOUS
<1>0. record \in Nat \ {0}
  BY DEF IInv, PlaceType
<1>1. CASE StartApply
  BY <1>1, StartKeeps
<1>2. CASE AllocSpace
  BY <1>2, AllocKeeps
<1>3. CASE RefuseRecord
  BY <1>0, <1>3, Elsewhere DEF RefuseRecord, Fails
<1>4. CASE EnterRecord
  BY <1>0, <1>4, Elsewhere DEF EnterRecord
<1>5. CASE WriteString
  BY <1>0, <1>5, Elsewhere DEF WriteString
<1>6. ASSUME GoOn, pc = "targets" PROVE IInv'
  <2>1. CASE target < Len(Current.offsets)
    BY <1>0, <1>6, <2>1, Elsewhere DEF GoOn
  <2>2. CASE ~ (target < Len(Current.offsets))
    BY <1>0, <1>6, <2>2, Elsewhere DEF GoOn
  <2> QED
    BY <2>1, <2>2
<1>7. CASE WriteTarget
  BY <1>6, <1>7 DEF WriteTarget
<1>8. CASE WriteTargetUnnoticed
  BY <1>6, <1>8 DEF WriteTargetUnnoticed
<1>9. CASE FailWrite
  BY <1>0, <1>9, Elsewhere DEF FailWrite, Fails
<1>10. CASE Finish
  BY <1>0, <1>10, Elsewhere DEF Finish
<1>11. CASE UNCHANGED vars
  <2>1. UNCHANGED <<patch, holes, placed, record, pc>>
    BY <1>11 DEF vars
  <2> QED
    BY <2>1 DEF IInv, PlaceType, PlacedOnce, HolesApart, HolesFree, HolesWithin, StringsApart
<1> QED
  BY <1>1, <1>2, <1>3, <1>4, <1>5, <1>7, <1>8, <1>9, <1>10, <1>11 DEF Next

(* However strings and spaces are sized, and wherever a run fails: the     *)
(* strings allocSpace places are apart and inside the space of the patch.  *)
THEOREM PlacesApart == Spec => []StringsApart
<1>1. IInv => StringsApart
  BY DEF IInv
<1> QED
  BY <1>1, InitialPlaces, StepKeeps, PTL DEF Spec

-----------------------------------------------------------------------------
(* The places are the same in every run                                    *)

(* Of the naturals in a set there is a least.                              *)
LEMMA LeastNat ==
  ASSUME NEW T, T \subseteq Nat, T # {}
  PROVE  \E x \in T : \A y \in T : x <= y
<1>1. PICK x \in T : \A y \in T : ~(<<y, x>> \in OpToRel(<, Nat))
  BY NatLessThanWellFounded, WFMin
<1>2. \A y \in T : ~(y < x)
  BY <1>1 DEF OpToRel
<1> QED
  BY <1>2

AllocatesIn(p, r) == p.records[r].kind = "string" /\ ~ p.records[r].inplace

FirstFit(hs, i, n) == i \in DOMAIN hs /\ n <= hs[i].size /\ \A j \in 1 .. i - 1 : ~ (n <= hs[j].size)

Chosen(hs, n) == CHOOSE i \in DOMAIN hs : FirstFit(hs, i, n)

(* What a record leaves of the space.                                      *)
After(p, hs, r) ==
  IF AllocatesIn(p, r) /\ \E i \in DOMAIN hs : FirstFit(hs, i, p.records[r].size)
  THEN Taken(hs, Chosen(hs, p.records[r].size), p.records[r].size)
  ELSE hs

IsPlan(p, plan, n) ==
  /\ plan \in [0 .. n -> Seq(Hole)] /\ plan[0] = p.spaces
  /\ \A r \in 1 .. n : plan[r] = After(p, plan[r - 1], r)

(* What the first r records leave of it, and where the string of one goes. *)
Plan(p) == CHOOSE plan : IsPlan(p, plan, Len(p.records))

Place(p, r) == LET hs == Plan(p)[r - 1] IN hs[Chosen(hs, p.records[r].size)].offset

LEMMA FirstFitUnique ==
  ASSUME NEW hs \in Seq(Hole), NEW n, NEW i, FirstFit(hs, i, n)
  PROVE  Chosen(hs, n) = i
<1>1. \A j : FirstFit(hs, j, n) => j = i
  <2> SUFFICES ASSUME NEW j, FirstFit(hs, j, n) PROVE j = i
    OBVIOUS
  <2>1. i \in Nat \ {0} /\ j \in Nat \ {0}
    BY DEF FirstFit
  <2>2. n <= hs[i].size /\ n <= hs[j].size
    BY DEF FirstFit
  <2>3. ~ (j \in 1 .. i - 1) /\ ~ (i \in 1 .. j - 1)
    BY <2>2 DEF FirstFit
  <2> QED
    BY <2>1, <2>3
<1>2. i \in DOMAIN hs
  BY DEF FirstFit
<1> QED
  BY <1>1, <1>2 DEF Chosen

LEMMA RecordTyped ==
  ASSUME NEW p \in Patches
  PROVE  /\ Len(p.records) \in Nat /\ p.spaces \in Seq(Hole)
         /\ DOMAIN p.records = 1 .. Len(p.records)
         /\ \A r \in 1 .. Len(p.records) :
              /\ p.records[r] \in Record /\ p.records[r].size \in Nat
              /\ p.records[r].offsets \in Seq(Nat) /\ Len(p.records[r].offsets) \in Nat \ {0}
              /\ \A t \in 1 .. Len(p.records[r].offsets) : p.records[r].offsets[t] \in Nat
<1>1. p.records \in Seq(Record) /\ p.spaces \in Seq(Hole)
  BY PatchesAssumption
<1>2. DOMAIN p.records = 1 .. Len(p.records) /\ Len(p.records) \in Nat
  BY <1>1
<1>3. \A r \in 1 .. Len(p.records) : p.records[r] \in Record
  BY <1>1
<1>4. ASSUME NEW r \in 1 .. Len(p.records)
      PROVE  /\ p.records[r].size \in Nat /\ p.records[r].offsets \in Seq(Nat)
             /\ Len(p.records[r].offsets) > 0
  BY <1>2, <1>3, <1>4, PatchesAssumption DEF Record
<1> QED
  BY <1>1, <1>2, <1>3, <1>4, SMTT(30)

LEMMA AfterTyped ==
  ASSUME NEW p \in Patches, NEW hs \in Seq(Hole), NEW r \in 1 .. Len(p.records)
  PROVE  After(p, hs, r) \in Seq(Hole)
<1> DEFINE n == p.records[r].size
<1>1. n \in Nat
  BY RecordTyped
<1> HIDE DEF n
<1>2. CASE AllocatesIn(p, r) /\ \E i \in DOMAIN hs : FirstFit(hs, i, n)
  <2>1. PICK i \in DOMAIN hs : FirstFit(hs, i, n)
    BY <1>2
  <2>2. Chosen(hs, n) = i /\ n <= hs[i].size
    BY <2>1, FirstFitUnique DEF FirstFit
  <2>3. Taken(hs, i, n) \in Seq(Hole)
    BY <1>1, <2>2, TakenHoles
  <2> QED
    BY <1>2, <2>2, <2>3 DEF After, n
<1>3. CASE ~ (AllocatesIn(p, r) /\ \E i \in DOMAIN hs : FirstFit(hs, i, n))
  BY <1>3 DEF After, n
<1> QED
  BY <1>2, <1>3

(* By induction over the records, as the least number without a plan.      *)
LEMMA PlanExists ==
  ASSUME NEW p \in Patches
  PROVE  IsPlan(p, Plan(p), Len(p.records))
<1> DEFINE T == {n \in 0 .. Len(p.records) : ~ \E plan : IsPlan(p, plan, n)}
<1>1. Len(p.records) \in Nat /\ p.spaces \in Seq(Hole)
  BY RecordTyped
<1>2. ASSUME T # {} PROVE FALSE
  <2>1. T \subseteq Nat
    BY <1>1
  <2>2. PICK n \in T : \A m \in T : n <= m
    BY <1>2, <2>1, LeastNat
  <2>3. n \in 0 .. Len(p.records) /\ ~ \E plan : IsPlan(p, plan, n)
    OBVIOUS
  <2>4. CASE n = 0
    <3>1. IsPlan(p, [r \in 0 .. 0 |-> p.spaces], 0)
      BY <1>1 DEF IsPlan
    <3> QED
      BY <2>3, <2>4, <3>1
  <2>5. CASE n # 0
    <3>1. n - 1 \in 0 .. Len(p.records) /\ n - 1 \notin T /\ n \in 1 .. Len(p.records)
      BY <1>1, <2>1, <2>2, <2>3, <2>5
    <3>2. PICK plan : IsPlan(p, plan, n - 1)
      BY <3>1
    <3> DEFINE new == [r \in 0 .. n |-> IF r = n THEN After(p, plan[n - 1], n) ELSE plan[r]]
    <3>3. plan \in [0 .. n - 1 -> Seq(Hole)] /\ plan[n - 1] \in Seq(Hole)
      BY <3>1, <3>2 DEF IsPlan
    <3>4. After(p, plan[n - 1], n) \in Seq(Hole)
      BY <3>1, <3>3, AfterTyped
    <3>5. /\ new[n] = After(p, plan[n - 1], n)
          /\ \A r \in 0 .. n - 1 : new[r] = plan[r]
      BY <3>1
    <3>6. new \in [0 .. n -> Seq(Hole)]
      BY <3>1, <3>3, <3>4
    <3> HIDE DEF new
    <3>7. \A r \in 1 .. n : new[r] = After(p, new[r - 1], r)
      <4> SUFFICES ASSUME NEW r \in 1 .. n PROVE new[r] = After(p, new[r - 1], r)
        OBVIOUS
      <4>1. new[r - 1] = plan[r - 1]
        BY <3>1, <3>5
      <4>2. CASE r = n
        BY <3>5, <4>1, <4>2
      <4>3. CASE r # n
        <5>1. r \in 1 .. n - 1 /\ new[r] = plan[r]
          BY <3>1, <3>5, <4>3
        <5> QED
          BY <3>2, <4>1, <5>1 DEF IsPlan
      <4> QED
        BY <4>2, <4>3
    <3>8. new[0] = p.spaces
      BY <3>1, <3>2, <3>5 DEF IsPlan
    <3>9. IsPlan(p, new, n)
      BY <3>6, <3>7, <3>8 DEF IsPlan
    <3> QED
      BY <2>3, <3>9
  <2> QED
    BY <2>4, <2>5
<1>3. \E plan : IsPlan(p, plan, Len(p.records))
  BY <1>1, <1>2
<1> QED
  BY <1>3 DEF Plan

-----------------------------------------------------------------------------
(* What a run writes, and where                                            *)

(* The run is where the plan is: so every run puts the same string to the  *)
(* same place.                                                             *)
Planned ==
  /\ patch \in Patches
  /\ pc \in {"idle", "record", "string", "targets", "done", "failed"}
  /\ pc = "record" => /\ record \in 1 .. Len(patch.records) + 1 /\ target = 1
                      /\ holes = Plan(patch)[record - 1]
  /\ pc \in {"string", "targets"} =>
       /\ record \in 1 .. Len(patch.records) /\ target \in 1 .. Len(Current.offsets)
       /\ holes = Plan(patch)[record]
       /\ AllocatesIn(patch, record) => strOffset = Place(patch, record) /\ strOffset \in Nat
  /\ pc = "string" => AllocatesIn(patch, record) /\ target = 1
  /\ pc = "done" => record = Len(patch.records) + 1

StringArea(p, r) ==
  IF AllocatesIn(p, r)
  THEN FileOffset(Place(p, r)) .. FileOffset(Place(p, r)) + p.records[r].size - 1 ELSE {}

TargetSize(p, r) == IF AllocatesIn(p, r) THEN Pointer ELSE p.records[r].size

TargetArea(p, r, t) ==
  FileOffset(p.records[r].offsets[t]) .. FileOffset(p.records[r].offsets[t]) + TargetSize(p, r) - 1

Area(p, r) == StringArea(p, r) \union UNION {TargetArea(p, r, t) : t \in 1 .. Len(p.records[r].offsets)}

Areas(p) == UNION {Area(p, r) : r \in 1 .. Len(p.records)}

(* Nothing but the places of the patch has changed, by whatever run.       *)
Changed ==
  /\ DOMAIN file = 0 .. FileSize - 1
  /\ \A o \in DOMAIN file : o \in Areas(patch) \/ file[o] = Original(o)

(* This run has written the records it has come past.                      *)
Covered ==
  pc \in {"record", "string", "targets", "done"} /\ ~ unnoticed =>
    /\ \A r \in 1 .. record - 1 : r \in 1 .. Len(patch.records) => Area(patch, r) \subseteq written
    /\ pc = "targets" =>
         /\ StringArea(patch, record) \subseteq written
         /\ \A t \in 1 .. target - 1 : TargetArea(patch, record, t) \subseteq written

PlanInv == Planned /\ Changed /\ Covered

LEMMA FileOffsetTyped ==
  ASSUME NEW a \in Nat
  PROVE  FileOffset(a) \in Nat
<1> DEFINE T == {i \in DOMAIN Segments : InSegment(Segments[i], a)}
<1>1. CASE T = {}
  BY <1>1 DEF FileOffset
<1>2. CASE T # {}
  <2>1. T \subseteq Nat
    BY SizesAssumption
  <2>2. \E i \in T : \A j \in T : i <= j
    BY <1>2, <2>1, LeastNat
  <2>3. Min(T) \in T
    BY <2>2 DEF Min
  <2>4. Segments[Min(T)] \in Segment
    BY <2>3, SizesAssumption
  <2> DEFINE s == Segments[Min(T)]
  <2>5. s.memory <= a /\ s.memory \in Nat /\ s.file \in Nat
    BY <2>3, <2>4 DEF InSegment, Segment
  <2>6. FileOffset(a) = s.file + (a - s.memory)
    BY <1>2 DEF FileOffset
  <2> HIDE DEF s
  <2> QED
    BY <2>5, <2>6
<1> QED
  BY <1>1, <1>2

LEMMA BytesSize ==
  ASSUME NEW by, NEW of, NEW n \in Nat
  PROVE  /\ Size(Bytes(by, of, n)) = n
         /\ \A k \in 0 .. n - 1 : Bytes(by, of, n)[k] = [by |-> by, of |-> of, at |-> k]
<1>1. DOMAIN Bytes(by, of, n) = 0 .. n - 1
  BY DEF Bytes
<1>2. CASE n = 0
  BY <1>1, <1>2 DEF Size
<1>3. CASE n # 0
  <2>1. n - 1 \in 0 .. n - 1 /\ \A k \in 0 .. n - 1 : n - 1 >= k
    BY <1>3
  <2>2. \A m \in 0 .. n - 1 : (\A k \in 0 .. n - 1 : m >= k) => m = n - 1
    BY <2>1
  <2>3. Max(0 .. n - 1) = n - 1
    BY <2>1, <2>2 DEF Max
  <2>4. 0 .. n - 1 # {}
    BY <2>1
  <2>5. Size(Bytes(by, of, n)) = Max(0 .. n - 1) + 1
    BY <1>1, <2>4 DEF Size
  <2>6. n - 1 + 1 = n
    OBVIOUS
  <2> QED
    BY <1>1, <2>3, <2>5, <2>6 DEF Bytes
<1> QED
  BY <1>2, <1>3 DEF Bytes

(* The bytes of a target are as many as it has place for.                  *)
LEMMA TargetBytesSize ==
  ASSUME Planned, pc = "targets"
  PROVE  Size(TargetBytes) = TargetSize(patch, record) /\ TargetSize(patch, record) \in Nat
<1>1. Current \in Record /\ Current.size \in Nat /\ Pointer \in Nat
  BY RecordTyped, SizesAssumption DEF Planned, Current
<1>2. Current.kind \in {"string", "values"}
  BY <1>1 DEF Record
<1>3. AllocatesIn(patch, record) <=> Current.kind = "string" /\ ~ Current.inplace
  BY DEF AllocatesIn, Current
<1>4. CASE Current.kind = "values"
  BY <1>1, <1>3, <1>4, BytesSize DEF TargetBytes, TargetSize, Current
<1>5. CASE Current.kind = "string" /\ Current.inplace
  BY <1>1, <1>3, <1>5, BytesSize DEF TargetBytes, TargetSize, Current
<1>6. CASE Current.kind = "string" /\ ~ Current.inplace
  BY <1>1, <1>3, <1>6, BytesSize DEF TargetBytes, TargetSize, Current
<1> QED
  BY <1>2, <1>4, <1>5, <1>6

LEMMA WriteKeepsChanged ==
  ASSUME Changed, NEW o, NEW bytes, NEW n, WriteAt(o, bytes, n), patch' = patch,
         o .. o + n - 1 \subseteq Areas(patch)
  PROVE  Changed'
BY DEF Changed, WriteAt

(* The steps of the plan.                                                  *)
LEMMA PlanFollowed ==
  ASSUME Planned, NEW r \in 1 .. Len(patch.records)
  PROVE  /\ Plan(patch)[0] = patch.spaces
         /\ Plan(patch)[r - 1] \in Seq(Hole)
         /\ Plan(patch)[r] = After(patch, Plan(patch)[r - 1], r)
BY PlanExists, RecordTyped DEF Planned, IsPlan

LEMMA PlanBegins ==
  ASSUME Planned
  PROVE  Plan(patch)[0] = patch.spaces
BY PlanExists DEF Planned, IsPlan

LEMMA AreasIn ==
  ASSUME NEW p, NEW r \in 1 .. Len(p.records)
  PROVE  /\ StringArea(p, r) \subseteq Areas(p)
         /\ \A t \in 1 .. Len(p.records[r].offsets) : TargetArea(p, r, t) \subseteq Areas(p)
BY DEF Areas, Area

LEMMA PlanInit == Init => PlanInv
<1> SUFFICES ASSUME Init PROVE PlanInv
  OBVIOUS
<1>1. file = [o \in 0 .. FileSize - 1 |-> Original(o)] /\ pc = "idle" /\ patch \in Patches
  BY DEF Init
<1> QED
  BY <1>1 DEF PlanInv, Planned, Changed, Covered

LEMMA PlanStart == PlanInv /\ StartApply => PlanInv'
<1> SUFFICES ASSUME PlanInv, StartApply PROVE PlanInv'
  OBVIOUS
<1> USE DEF PlanInv
<1>1. /\ pc' = "record" /\ record' = 1 /\ target' = 1 /\ holes' = patch.spaces
      /\ UNCHANGED <<patch, file>>
  BY DEF StartApply, FreshHoles
<1>2. Len(patch.records) \in Nat
  BY RecordTyped DEF Planned
<1>3. Planned'
  BY <1>1, <1>2, PlanBegins DEF Planned
<1>4. Changed' /\ Covered'
  BY <1>1 DEF Changed, Covered
<1> QED
  BY <1>3, <1>4

LEMMA PlanAlloc == PlanInv /\ AllocSpace => PlanInv'
<1> SUFFICES ASSUME PlanInv, AllocSpace PROVE PlanInv'
  OBVIOUS
<1> USE DEF PlanInv
<1> DEFINE n == patch.records[record].size
<1>1. /\ pc = "record" /\ record <= Len(patch.records) /\ AllocatesIn(patch, record)
      /\ pc' = "string"
      /\ UNCHANGED <<patch, file, record, target, runs, written, unnoticed>>
  BY DEF AllocSpace, Allocates, AllocatesIn, Current
<1>2. PICK i \in DOMAIN holes : /\ FirstFit(holes, i, n)
                                /\ strOffset' = holes[i].offset
                                /\ holes' = Taken(holes, i, n)
  <2>1. PICK i \in DOMAIN holes : /\ Fits(i) /\ \A j \in 1 .. i - 1 : ~ Fits(j)
                                  /\ strOffset' = holes[i].offset
                                  /\ holes' = Taken(holes, i, Current.size)
    BY DEF AllocSpace
  <2>2. holes \in Seq(Hole)
    BY <1>1, PlanFollowed, RecordTyped DEF Planned
  <2>3. \A j \in 1 .. i - 1 : j \in DOMAIN holes
    BY <2>1, <2>2
  <2> QED
    BY <2>1, <2>3 DEF Fits, FirstFit, Current
<1>3. /\ record \in 1 .. Len(patch.records) /\ target = 1 /\ holes = Plan(patch)[record - 1]
      /\ patch \in Patches
  BY <1>1, RecordTyped DEF Planned
<1>4. holes \in Seq(Hole) /\ Plan(patch)[record] = After(patch, holes, record)
  BY <1>3, PlanFollowed
<1>5. Chosen(holes, n) = i
  BY <1>2, <1>4, FirstFitUnique
<1>6. holes' = Plan(patch)[record]
  BY <1>1, <1>2, <1>4, <1>5 DEF After
<1>7. strOffset' = Place(patch, record) /\ strOffset' \in Nat
  <2>1. holes[i] \in Hole
    BY <1>4
  <2>2. Place(patch, record) = holes[Chosen(holes, n)].offset
    BY <1>3 DEF Place
  <2> QED
    BY <1>2, <1>5, <2>1, <2>2 DEF Hole
<1>8. 1 \in 1 .. Len(Current.offsets)
  BY <1>3, RecordTyped DEF Current
<1>9. Planned'
  BY <1>1, <1>3, <1>6, <1>7, <1>8 DEF Planned, Current
<1>10. Changed' /\ Covered'
  BY <1>1 DEF Changed, Covered
<1> QED
  BY <1>9, <1>10

LEMMA PlanEnter == PlanInv /\ EnterRecord => PlanInv'
<1> SUFFICES ASSUME PlanInv, EnterRecord PROVE PlanInv'
  OBVIOUS
<1> USE DEF PlanInv
<1>1. /\ pc = "record" /\ record <= Len(patch.records) /\ ~ AllocatesIn(patch, record)
      /\ pc' = "targets"
      /\ UNCHANGED <<patch, file, record, target, holes, strOffset, runs, placed, written, unnoticed>>
  BY DEF EnterRecord, Allocates, AllocatesIn, Current
<1>2. /\ record \in 1 .. Len(patch.records) /\ target = 1 /\ holes = Plan(patch)[record - 1]
      /\ patch \in Patches
  BY <1>1, RecordTyped DEF Planned
<1>3. holes = Plan(patch)[record]
  BY <1>1, <1>2, PlanFollowed DEF After
<1>4. 1 \in 1 .. Len(Current.offsets)
  BY <1>2, RecordTyped DEF Current
<1>5. Planned'
  BY <1>1, <1>2, <1>3, <1>4 DEF Planned, Current
<1>6. Covered'
  BY <1>1, <1>2 DEF Covered, StringArea
<1> QED
  BY <1>1, <1>5, <1>6 DEF Changed

LEMMA PlanString == PlanInv /\ WriteString => PlanInv'
<1> SUFFICES ASSUME PlanInv, WriteString PROVE PlanInv'
  OBVIOUS
<1> USE DEF PlanInv
<1> DEFINE o == FileOffset(strOffset)
           bytes == Bytes("string", record, Current.size)
<1>1. /\ pc = "string" /\ pc' = "targets" /\ WriteAt(o, bytes, Current.size)
      /\ UNCHANGED <<patch, record, target, holes, strOffset, runs, placed, unnoticed>>
  BY DEF WriteString
<1>2. /\ record \in 1 .. Len(patch.records) /\ AllocatesIn(patch, record) /\ target = 1
      /\ strOffset = Place(patch, record)
  BY <1>1 DEF Planned
<1>3. o .. o + Current.size - 1 = StringArea(patch, record)
  BY <1>2 DEF StringArea, Current
<1> HIDE DEF o, bytes
<1>4. Changed'
  BY <1>1, <1>2, <1>3, AreasIn, WriteKeepsChanged
<1>5. written' = written \union StringArea(patch, record)
  BY <1>1, <1>3 DEF WriteAt
<1>6. Covered'
  <2>1. Place(patch, record)' = Place(patch, record)
    BY <1>1 DEF Place, Plan
  <2> QED
    BY <1>1, <1>2, <1>5 DEF Covered
<1>7. Planned'
  BY <1>1 DEF Planned, Current
<1> QED
  BY <1>4, <1>6, <1>7

(* The run goes on to the next target or the next record.                  *)
LEMMA PlanGoOn ==
  ASSUME PlanInv, pc = "targets", GoOn, Changed',
         written \subseteq written',
         ~ unnoticed' => ~ unnoticed /\ TargetArea(patch, record, target) \subseteq written'
  PROVE  PlanInv'
<1> USE DEF PlanInv
<1>1. /\ record \in 1 .. Len(patch.records) /\ target \in 1 .. Len(Current.offsets)
      /\ holes = Plan(patch)[record] /\ patch \in Patches
      /\ AllocatesIn(patch, record) => strOffset = Place(patch, record) /\ strOffset \in Nat
  BY DEF Planned
<1>2. Len(patch.records) \in Nat /\ Len(Current.offsets) \in Nat
  BY <1>1, RecordTyped DEF Current
<1>3. UNCHANGED <<patch, holes, strOffset>>
  BY DEF GoOn
<1>4. ASSUME ~ unnoticed'
      PROVE  /\ \A r \in 1 .. record - 1 : Area(patch, r) \subseteq written'
             /\ StringArea(patch, record) \subseteq written'
             /\ \A t \in 1 .. target : TargetArea(patch, record, t) \subseteq written'
  <2>1. /\ \A r \in 1 .. record - 1 : r \in 1 .. Len(patch.records) => Area(patch, r) \subseteq written
        /\ StringArea(patch, record) \subseteq written
        /\ \A t \in 1 .. target - 1 : TargetArea(patch, record, t) \subseteq written
    BY <1>4 DEF Covered
  <2>2. \A r \in 1 .. record - 1 : r \in 1 .. Len(patch.records)
    BY <1>1, <1>2
  <2>3. \A t \in 1 .. target : t \in 1 .. target - 1 \/ t = target
    BY <1>1, <1>2
  <2> QED
    BY <1>4, <2>1, <2>2, <2>3
<1>5. CASE target < Len(Current.offsets)
  <2>1. target' = target + 1 /\ UNCHANGED <<pc, record>>
    BY <1>5 DEF GoOn
  <2>2. target + 1 \in 1 .. Len(Current.offsets)
    BY <1>1, <1>2, <1>5
  <2>3. Planned'
    BY <1>1, <1>3, <2>1, <2>2 DEF Planned, Current
  <2>4. \A t \in 1 .. target' - 1 : t \in 1 .. target
    BY <1>1, <1>2, <2>1
  <2>5. Covered'
    BY <1>3, <1>4, <2>1, <2>4 DEF Covered
  <2> QED
    BY <2>3, <2>5
<1>6. CASE ~ (target < Len(Current.offsets))
  <2>1. target' = 1 /\ record' = record + 1 /\ pc' = "record" /\ target = Len(Current.offsets)
    BY <1>1, <1>2, <1>6 DEF GoOn
  <2>2. record + 1 \in 1 .. Len(patch.records) + 1 /\ (record + 1) - 1 = record
    BY <1>1, <1>2
  <2>3. Planned'
    BY <1>1, <1>3, <2>1, <2>2 DEF Planned
  <2>4. ASSUME ~ unnoticed' PROVE Area(patch, record) \subseteq written'
    BY <1>4, <2>1, <2>4 DEF Area, Current
  <2>5. \A r \in 1 .. record' - 1 : r \in 1 .. record - 1 \/ r = record
    BY <1>1, <1>2, <2>1
  <2>6. Covered'
    BY <1>3, <1>4, <2>1, <2>4, <2>5 DEF Covered
  <2> QED
    BY <2>3, <2>6
<1> QED
  BY <1>5, <1>6

LEMMA TargetPlace ==
  ASSUME Planned, pc = "targets"
  PROVE  LET o == FileOffset(Current.offsets[target])
         IN /\ o \in Nat /\ Size(TargetBytes) \in Nat
            /\ o .. o + Size(TargetBytes) - 1 = TargetArea(patch, record, target)
            /\ TargetArea(patch, record, target) \subseteq Areas(patch)
<1>1. /\ record \in 1 .. Len(patch.records) /\ target \in 1 .. Len(Current.offsets) /\ patch \in Patches
  BY DEF Planned
<1>2. Current.offsets[target] \in Nat
  BY <1>1, RecordTyped DEF Current
<1>3. FileOffset(Current.offsets[target]) \in Nat
  BY <1>2, FileOffsetTyped
<1> QED
  BY <1>1, <1>3, TargetBytesSize, AreasIn DEF TargetArea, Current

LEMMA PlanTarget == PlanInv /\ (WriteTarget \/ WriteTargetUnnoticed) => PlanInv'
<1> SUFFICES ASSUME PlanInv, WriteTarget \/ WriteTargetUnnoticed PROVE PlanInv'
  OBVIOUS
<1> DEFINE o == FileOffset(Current.offsets[target])
           size == Size(TargetBytes)
<1>1. pc = "targets" /\ GoOn /\ patch' = patch
  BY DEF WriteTarget, WriteTargetUnnoticed, GoOn
<1>2. /\ o \in Nat /\ size \in Nat
      /\ o .. o + size - 1 = TargetArea(patch, record, target)
      /\ TargetArea(patch, record, target) \subseteq Areas(patch)
  BY <1>1, TargetPlace DEF PlanInv
<1>3. CASE WriteTarget
  <2>1. WriteAt(o, TargetBytes, size) /\ unnoticed' = unnoticed
    BY <1>3 DEF WriteTarget
  <2> HIDE DEF o, size
  <2>2. Changed'
    BY <1>1, <1>2, <2>1, WriteKeepsChanged DEF PlanInv
  <2>3. written' = written \union TargetArea(patch, record, target)
    BY <1>2, <2>1 DEF WriteAt
  <2> QED
    BY <1>1, <2>1, <2>2, <2>3, PlanGoOn
<1>4. CASE WriteTargetUnnoticed
  <2>1. PICK n \in 0 .. size - 1 : WriteAt(o, TargetBytes, n)
    BY <1>4 DEF WriteTargetUnnoticed
  <2>2. unnoticed' = TRUE
    BY <1>4 DEF WriteTargetUnnoticed
  <2> HIDE DEF o, size
  <2>3. o .. o + n - 1 \subseteq o .. o + size - 1
    BY <1>2, <2>1
  <2>4. o .. o + n - 1 \subseteq Areas(patch)
    BY <1>2, <2>3
  <2>5. Changed'
    BY <1>1, <2>1, <2>4, WriteKeepsChanged DEF PlanInv
  <2>6. written \subseteq written'
    BY <2>1 DEF WriteAt
  <2> QED
    BY <1>1, <2>2, <2>5, <2>6, PlanGoOn
<1> QED
  BY <1>3, <1>4

LEMMA PlanFail == PlanInv /\ FailWrite => PlanInv'
<1> SUFFICES ASSUME PlanInv, FailWrite PROVE PlanInv'
  OBVIOUS
<1> USE DEF PlanInv
<1> DEFINE bytes == IF pc = "string" THEN Bytes("string", record, Current.size) ELSE TargetBytes
           o == FileOffset(IF pc = "string" THEN strOffset ELSE Current.offsets[target])
           size == Size(bytes)
<1>1. /\ pc \in {"string", "targets"} /\ pc' = "failed" /\ patch' = patch
      /\ \E n \in 0 .. size - 1 : WriteAt(o, bytes, n)
  BY DEF FailWrite, Fails
<1>2. PICK n \in 0 .. size - 1 : WriteAt(o, bytes, n)
  BY <1>1
<1>3. o \in Nat /\ size \in Nat /\ o .. o + size - 1 \subseteq Areas(patch)
  <2>1. CASE pc = "string"
    <3>1. /\ record \in 1 .. Len(patch.records) /\ AllocatesIn(patch, record)
          /\ strOffset = Place(patch, record) /\ strOffset \in Nat /\ patch \in Patches
      BY <2>1 DEF Planned
    <3>2. size = Current.size /\ Current.size \in Nat
      <4>1. Current.size \in Nat
        BY <3>1, RecordTyped DEF Current
      <4>2. size = Size(Bytes("string", record, Current.size))
        BY <2>1
      <4> QED
        BY <4>1, <4>2, BytesSize
    <3>3. o = FileOffset(Place(patch, record)) /\ o \in Nat
      BY <2>1, <3>1, FileOffsetTyped
    <3>4. o .. o + size - 1 = StringArea(patch, record)
      BY <3>1, <3>2, <3>3 DEF StringArea, Current
    <3> QED
      BY <3>1, <3>2, <3>3, <3>4, AreasIn
  <2>2. CASE pc = "targets"
    BY <2>2, TargetPlace
  <2> QED
    BY <1>1, <2>1, <2>2
<1> HIDE DEF o, bytes, size
<1>4. o .. o + n - 1 \subseteq o .. o + size - 1
  BY <1>2, <1>3
<1>5. Changed'
  BY <1>1, <1>2, <1>3, <1>4, WriteKeepsChanged
<1>6. Planned' /\ Covered'
  BY <1>1 DEF Planned, Covered
<1> QED
  BY <1>5, <1>6

LEMMA PlanStep == PlanInv /\ [Next]_vars => PlanInv'
<1> SUFFICES ASSUME PlanInv, [Next]_vars PROVE PlanInv'
  OBVIOUS
<1>1. CASE RefuseRecord
  BY <1>1 DEF RefuseRecord, Fails, PlanInv, Planned, Changed, Covered
<1>2. CASE Finish
  <2>1. /\ pc = "record" /\ record > Len(patch.records) /\ pc' = "done"
        /\ UNCHANGED <<patch, file, record, target, holes, strOffset, written, unnoticed>>
    BY <1>2 DEF Finish
  <2>2. record = Len(patch.records) + 1
    BY <2>1, RecordTyped DEF PlanInv, Planned
  <2> QED
    BY <2>1, <2>2 DEF PlanInv, Planned, Changed, Covered
<1>3. CASE UNCHANGED vars
  <2>1. UNCHANGED <<patch, file, pc, record, target, holes, strOffset, written, unnoticed>>
    BY <1>3 DEF vars
  <2> QED
    BY <2>1 DEF PlanInv, Planned, Changed, Covered, Current
<1> QED
  BY <1>1, <1>2, <1>3, PlanStart, PlanAlloc, PlanEnter, PlanString, PlanTarget, PlanFail DEF Next

LEMMA PlanHolds == Spec => []PlanInv
BY PlanInit, PlanStep, PTL DEF Spec

(* A run of ExecutablePatcher::apply that succeeds and noticed all errors  *)
(* has written over everything the failed runs before it have left: each   *)
(* starts from the spaces of the patch and so puts the same strings to the *)
(* same places.                                                            *)
THEOREM LeavesNothing == Spec => []NothingLeftOver
<1>1. PlanInv => NothingLeftOver
  <2> SUFFICES ASSUME PlanInv, pc = "done", ~ unnoticed, NEW o \in DOMAIN file, file[o] # Original(o)
               PROVE  o \in written
    BY DEF NothingLeftOver
  <2>1. o \in Areas(patch)
    BY DEF PlanInv, Changed
  <2>2. PICK r \in 1 .. Len(patch.records) : o \in Area(patch, r)
    BY <2>1 DEF Areas
  <2>3. record = Len(patch.records) + 1 /\ Len(patch.records) \in Nat
    BY RecordTyped DEF PlanInv, Planned
  <2>4. r \in 1 .. record - 1
    BY <2>3
  <2> QED
    BY <2>2, <2>4 DEF PlanInv, Covered
<1> QED
  BY <1>1, PlanHolds, PTL

-----------------------------------------------------------------------------
(* What a string leaves of its hole, and where it lies                     *)

IsRange(x) == x.offset \in Nat /\ x.size \in Nat

LEMMA WithinWithin ==
  ASSUME NEW x, NEW y, NEW z, IsRange(x), IsRange(y), IsRange(z), Within(x, y), Within(y, z)
  PROVE  Within(x, z)
BY DEF IsRange, Within

LEMMA WithinApart ==
  ASSUME NEW x, NEW y, NEW a, NEW b, IsRange(x), IsRange(y), IsRange(a), IsRange(b),
         Within(x, a), Within(y, b), Apart(a, b)
  PROVE  Apart(x, y) /\ Apart(y, x)
BY DEF IsRange, Within, Apart

LEMMA WithinItself ==
  ASSUME NEW x, IsRange(x)
  PROVE  Within(x, x)
BY DEF IsRange, Within

LEMMA HoleRanges ==
  ASSUME NEW hs \in Seq(Hole)
  PROVE  \A i \in DOMAIN hs : IsRange(hs[i])
<1> SUFFICES ASSUME NEW i \in DOMAIN hs PROVE IsRange(hs[i])
  OBVIOUS
<1>1. hs[i] \in Hole
  OBVIOUS
<1> QED
  BY <1>1 DEF Hole, IsRange

(* A string put into a hole lies in it, and apart from what is left.       *)
LEMMA PieceTaken ==
  ASSUME NEW hs \in Seq(Hole), NEW i \in DOMAIN hs, NEW n \in Nat, n <= hs[i].size,
         \A j, k \in DOMAIN hs : j # k => Apart(hs[j], hs[k]),
         NEW x, x.offset = hs[i].offset, x.size = n
  PROVE  /\ Within(x, hs[i])
         /\ \A j \in DOMAIN Taken(hs, i, n) : Apart(x, Taken(hs, i, n)[j])
<1>1. \A k \in DOMAIN hs : IsRange(hs[k])
  BY HoleRanges
<1>2. IsRange(x) /\ IsRange(hs[i])
  BY <1>1 DEF IsRange
<1>3. Within(x, hs[i])
  BY <1>2 DEF Within, IsRange
<1>4. ASSUME NEW j \in DOMAIN Taken(hs, i, n) PROVE Apart(x, Taken(hs, i, n)[j])
  <2>1. PICK left : left = Taken(hs, i, n)[j]
    OBVIOUS
  <2>2. PICK k \in DOMAIN hs : Within(left, hs[k]) /\ (k = i => hs[i].offset + n <= left.offset)
    BY <1>4, <2>1, TakenHoles
  <2>3. IsRange(left)
    BY <1>4, <2>1, TakenHoles, HoleRanges
  <2>4. CASE k = i
    <3>1. x.offset + x.size <= left.offset
      BY <2>2, <2>4
    <3>2. Apart(x, left)
      BY <3>1 DEF Apart
    <3> QED
      BY <2>1, <3>2
  <2>5. CASE k # i
    <3>1. Apart(hs[i], hs[k]) /\ IsRange(hs[k])
      BY <1>1, <2>5
    <3>2. Apart(x, left)
      BY <1>2, <1>3, <2>2, <2>3, <3>1, WithinApart
    <3> QED
      BY <2>1, <3>2
  <2> QED
    BY <2>4, <2>5
<1> QED
  BY <1>3, <1>4

Piece(p, r) == [offset |-> Place(p, r), size |-> p.records[r].size]

(* There is a place for the string of a record.                            *)
Fitted(p, r) ==
  /\ AllocatesIn(p, r)
  /\ \E i \in DOMAIN Plan(p)[r - 1] : FirstFit(Plan(p)[r - 1], i, p.records[r].size)

(* The strings of the first n records, and what they leave of the space.   *)
PlanApart(p, n) ==
  LET hs == Plan(p)[n] IN
  /\ \A i, j \in DOMAIN hs : i # j => Apart(hs[i], hs[j])
  /\ \A i \in DOMAIN hs : \E s \in DOMAIN p.spaces : Within(hs[i], p.spaces[s])
  /\ \A q \in 1 .. n : Fitted(p, q) =>
       /\ \E s \in DOMAIN p.spaces : Within(Piece(p, q), p.spaces[s])
       /\ \A i \in DOMAIN hs : Apart(Piece(p, q), hs[i])
  /\ \A q, u \in 1 .. n : q # u /\ Fitted(p, q) /\ Fitted(p, u) => Apart(Piece(p, q), Piece(p, u))

LEMMA PlanKnown ==
  ASSUME NEW p \in Patches
  PROVE  /\ Plan(p)[0] = p.spaces
         /\ \A n \in 0 .. Len(p.records) : Plan(p)[n] \in Seq(Hole)
         /\ \A n \in 1 .. Len(p.records) : Plan(p)[n] = After(p, Plan(p)[n - 1], n)
BY PlanExists DEF IsPlan

(* The record of a place found: the hole, and what is left of the space.   *)
LEMMA PieceFound ==
  ASSUME NEW p \in Patches, NEW r \in 1 .. Len(p.records), Fitted(p, r)
  PROVE  \E i \in DOMAIN Plan(p)[r - 1] :
           /\ p.records[r].size <= Plan(p)[r - 1][i].size
           /\ Piece(p, r).offset = Plan(p)[r - 1][i].offset
           /\ Plan(p)[r] = Taken(Plan(p)[r - 1], i, p.records[r].size)
<1> DEFINE hs == Plan(p)[r - 1]
           n == p.records[r].size
<1>1. hs \in Seq(Hole) /\ Plan(p)[r] = After(p, hs, r)
  <2>1. r - 1 \in 0 .. Len(p.records)
    BY RecordTyped
  <2> QED
    BY <2>1, PlanKnown
<1>2. PICK i \in DOMAIN hs : FirstFit(hs, i, n)
  BY DEF Fitted
<1>3. Chosen(hs, n) = i
  BY <1>1, <1>2, FirstFitUnique
<1>4. Plan(p)[r] = Taken(hs, i, n)
  BY <1>1, <1>2, <1>3 DEF After, Fitted
<1>5. Piece(p, r).offset = hs[i].offset
  BY <1>3 DEF Piece, Place
<1>6. n <= hs[i].size
  BY <1>2 DEF FirstFit
<1> QED
  BY <1>4, <1>5, <1>6

LEMMA PieceRange ==
  ASSUME NEW p \in Patches, NEW r \in 1 .. Len(p.records), Fitted(p, r)
  PROVE  IsRange(Piece(p, r))
<1>1. r - 1 \in 0 .. Len(p.records)
  BY RecordTyped
<1>2. PICK i \in DOMAIN Plan(p)[r - 1] : Piece(p, r).offset = Plan(p)[r - 1][i].offset
  BY PieceFound
<1>3. IsRange(Plan(p)[r - 1][i])
  BY <1>1, PlanKnown, HoleRanges
<1>4. Piece(p, r).size \in Nat
  BY RecordTyped DEF Piece
<1> QED
  BY <1>2, <1>3, <1>4 DEF IsRange

LEMMA PlanApartStep ==
  ASSUME NEW p \in Patches, NEW n \in 1 .. Len(p.records), PlanApart(p, n - 1)
  PROVE  PlanApart(p, n)
<1> DEFINE hs == Plan(p)[n - 1]
           new == Plan(p)[n]
           size == p.records[n].size
<1>1. /\ n - 1 \in 0 .. Len(p.records) /\ n \in 0 .. Len(p.records) /\ n \in Nat
      /\ \A q \in 1 .. n : q \in 1 .. n - 1 \/ q = n
  BY RecordTyped
<1>2. hs \in Seq(Hole) /\ new \in Seq(Hole) /\ new = After(p, hs, n) /\ size \in Nat
  BY <1>1, PlanKnown, RecordTyped
<1>3. /\ \A i, j \in DOMAIN hs : i # j => Apart(hs[i], hs[j])
      /\ \A i \in DOMAIN hs : \E s \in DOMAIN p.spaces : Within(hs[i], p.spaces[s])
      /\ \A q \in 1 .. n - 1 : Fitted(p, q) =>
           /\ \E s \in DOMAIN p.spaces : Within(Piece(p, q), p.spaces[s])
           /\ \A i \in DOMAIN hs : Apart(Piece(p, q), hs[i])
      /\ \A q, u \in 1 .. n - 1 : q # u /\ Fitted(p, q) /\ Fitted(p, u) => Apart(Piece(p, q), Piece(p, u))
  BY DEF PlanApart
<1>4. CASE ~ Fitted(p, n)
  <2>1. new = hs
    BY <1>2, <1>4 DEF Fitted, After
  <2> HIDE DEF hs, new
  <2>2. /\ \A i, j \in DOMAIN new : i # j => Apart(new[i], new[j])
        /\ \A i \in DOMAIN new : \E s \in DOMAIN p.spaces : Within(new[i], p.spaces[s])
        /\ \A q \in 1 .. n : Fitted(p, q) =>
             /\ \E s \in DOMAIN p.spaces : Within(Piece(p, q), p.spaces[s])
             /\ \A i \in DOMAIN new : Apart(Piece(p, q), new[i])
        /\ \A q, u \in 1 .. n : q # u /\ Fitted(p, q) /\ Fitted(p, u) => Apart(Piece(p, q), Piece(p, u))
    BY <1>1, <1>3, <1>4, <2>1
  <2> QED
    BY <2>2 DEF PlanApart, new
<1>5. CASE Fitted(p, n)
  <2>1. PICK i \in DOMAIN hs :
          /\ size <= hs[i].size /\ Piece(p, n).offset = hs[i].offset /\ new = Taken(hs, i, size)
    BY <1>5, PieceFound
  <2>2. Piece(p, n).size = size
    BY DEF Piece
  <2>3. /\ \A j, k \in DOMAIN new : j # k => Apart(new[j], new[k])
        /\ \A j \in DOMAIN new : \E k \in DOMAIN hs : Within(new[j], hs[k])
    <3> HIDE DEF hs, new, size
    <3> QED
      BY <1>2, <1>3, <2>1, TakenHoles
  <2>4. Within(Piece(p, n), hs[i]) /\ \A j \in DOMAIN new : Apart(Piece(p, n), new[j])
    <3> HIDE DEF hs, new, size
    <3> QED
      BY <1>2, <1>3, <2>1, <2>2, PieceTaken
  <2>5. \A k \in DOMAIN hs : IsRange(hs[k])
    BY <1>2, HoleRanges
  <2>6. \A j \in DOMAIN new : IsRange(new[j])
    BY <1>2, HoleRanges
  <2>7. \A s \in DOMAIN p.spaces : IsRange(p.spaces[s])
    BY PatchesAssumption, HoleRanges
  <2>8. IsRange(Piece(p, n))
    BY <1>2, <2>1, <2>2, <2>5 DEF IsRange
  <2> HIDE DEF hs, new, size
  <2>9. \A j \in DOMAIN new : \E s \in DOMAIN p.spaces : Within(new[j], p.spaces[s])
    <3> SUFFICES ASSUME NEW j \in DOMAIN new
                 PROVE  \E s \in DOMAIN p.spaces : Within(new[j], p.spaces[s])
      OBVIOUS
    <3>1. PICK k \in DOMAIN hs : Within(new[j], hs[k])
      BY <2>3
    <3>2. PICK s \in DOMAIN p.spaces : Within(hs[k], p.spaces[s])
      BY <1>3
    <3> QED
      BY <2>5, <2>6, <2>7, <3>1, <3>2, WithinWithin
  <2>10. \E s \in DOMAIN p.spaces : Within(Piece(p, n), p.spaces[s])
    <3>1. PICK s \in DOMAIN p.spaces : Within(hs[i], p.spaces[s])
      BY <1>3
    <3> QED
      BY <2>4, <2>5, <2>7, <2>8, <3>1, WithinWithin
  <2>11. ASSUME NEW q \in 1 .. n - 1, Fitted(p, q)
         PROVE  /\ \E s \in DOMAIN p.spaces : Within(Piece(p, q), p.spaces[s])
                /\ \A j \in DOMAIN new : Apart(Piece(p, q), new[j])
                /\ Apart(Piece(p, q), Piece(p, n)) /\ Apart(Piece(p, n), Piece(p, q))
    <3>1. \A k \in DOMAIN hs : Apart(Piece(p, q), hs[k])
      BY <1>3, <2>11
    <3>2. IsRange(Piece(p, q)) /\ Within(Piece(p, q), Piece(p, q))
      <4>1. q \in 1 .. Len(p.records)
        BY <1>1, RecordTyped
      <4> QED
        BY <2>11, <4>1, PieceRange, WithinItself
    <3>3. \A j \in DOMAIN new : Apart(Piece(p, q), new[j])
      <4> SUFFICES ASSUME NEW j \in DOMAIN new PROVE Apart(Piece(p, q), new[j])
        OBVIOUS
      <4>1. PICK k \in DOMAIN hs : Within(new[j], hs[k])
        BY <2>3
      <4> QED
        BY <2>5, <2>6, <3>1, <3>2, <4>1, WithinApart
    <3>4. Apart(Piece(p, q), Piece(p, n)) /\ Apart(Piece(p, n), Piece(p, q))
      BY <2>4, <2>5, <2>8, <3>1, <3>2, WithinApart
    <3> QED
      BY <1>3, <2>11, <3>3, <3>4
  <2>12. \A q \in 1 .. n : Fitted(p, q) =>
           /\ \E s \in DOMAIN p.spaces : Within(Piece(p, q), p.spaces[s])
           /\ \A j \in DOMAIN new : Apart(Piece(p, q), new[j])
    BY <1>1, <2>4, <2>10, <2>11
  <2>13. \A q, u \in 1 .. n : q # u /\ Fitted(p, q) /\ Fitted(p, u) => Apart(Piece(p, q), Piece(p, u))
    BY <1>1, <1>3, <2>11
  <2> QED
    BY <2>3, <2>9, <2>12, <2>13 DEF PlanApart, new
<1> QED
  BY <1>4, <1>5

(* By induction over the records: all the strings of a plan are apart.     *)
LEMMA PlanIsApart ==
  ASSUME NEW p \in Patches
  PROVE  PlanApart(p, Len(p.records))
<1> DEFINE T == {n \in 0 .. Len(p.records) : ~ PlanApart(p, n)}
<1>1. Len(p.records) \in Nat /\ p.spaces \in Seq(Hole)
  BY RecordTyped
<1>2. ASSUME T # {} PROVE FALSE
  <2>1. T \subseteq Nat
    BY <1>1
  <2>2. PICK n \in T : \A m \in T : n <= m
    BY <1>2, <2>1, LeastNat
  <2>3. n \in 0 .. Len(p.records) /\ ~ PlanApart(p, n)
    OBVIOUS
  <2>4. CASE n = 0
    <3>1. Plan(p)[0] = p.spaces
      BY PlanKnown
    <3>2. \A i, j \in DOMAIN p.spaces : i # j => Apart(p.spaces[i], p.spaces[j])
      BY PatchesAssumption
    <3>3. \A i \in DOMAIN p.spaces : Within(p.spaces[i], p.spaces[i])
      BY <1>1, EveryHoleWithin
    <3>4. \A q \in 1 .. 0 : FALSE
      OBVIOUS
    <3>5. PlanApart(p, 0)
      BY <3>1, <3>2, <3>3, <3>4 DEF PlanApart
    <3> QED
      BY <2>3, <2>4, <3>5
  <2>5. CASE n # 0
    <3>1. n - 1 \in 0 .. Len(p.records) /\ n \in 1 .. Len(p.records) /\ ~ (n <= n - 1)
      BY <1>1, <2>1, <2>3, <2>5
    <3>2. PlanApart(p, n - 1)
      BY <2>2, <3>1
    <3> QED
      BY <2>3, <3>1, <3>2, PlanApartStep
  <2> QED
    BY <2>4, <2>5
<1> QED
  BY <1>1, <1>2

-----------------------------------------------------------------------------
(* Pointers lead to their strings                                          *)

(* The addresses of the space of a patch.                                  *)
Room(p) == UNION {p.spaces[s].offset .. p.spaces[s].offset + p.spaces[s].size - 1 : s \in DOMAIN p.spaces}

(* The places of the pointers to the string of a record.                   *)
PointerArea(p, r) ==
  UNION {TargetArea(p, r, t) : t \in {u \in 1 .. Len(p.records[r].offsets) : FileOffset(p.records[r].offsets[u]) # 0}}

(* What the program does not check of a patch and its data has to fulfil:  *)
(* the addresses of the space have places of their own in the file, nothing*)
(* else is written there, and no place has pointers to two strings.        *)
Separate(p) ==
  /\ \A a, b \in Room(p) : FileOffset(a) = FileOffset(b) => a = b
  /\ \A r \in 1 .. Len(p.records) : \A t \in 1 .. Len(p.records[r].offsets) :
       FileOffset(p.records[r].offsets[t]) # 0 =>
         \A a \in Room(p) : FileOffset(a) \notin TargetArea(p, r, t)
  /\ \A q, r \in 1 .. Len(p.records) :
       q # r /\ AllocatesIn(p, q) /\ AllocatesIn(p, r) => PointerArea(p, q) \cap PointerArea(p, r) = {}

Sound(p) == Separate(p) /\ \A s \in DOMAIN p.spaces : InOnePiece(p.spaces[s])

(* The file has the whole string of a record at its place.                 *)
Whole(p, r, f) ==
  \A k \in 0 .. p.records[r].size - 1 :
    LET o == FileOffset(Place(p, r) + k)
    IN o \in DOMAIN f /\ f[o] = [by |-> "string", of |-> r, at |-> k]

(* Every byte of a pointer belongs to a record whose string is whole.      *)
Pointing ==
  \A x \in DOMAIN file : file[x].by = "pointer" =>
    \E r \in 1 .. Len(patch.records) :
      /\ Fitted(patch, r) /\ x \in PointerArea(patch, r)
      /\ file[x].of = Place(patch, r) /\ Whole(patch, r, file)

StringFirst ==
  /\ pc \in {"string", "targets"} /\ AllocatesIn(patch, record) => Fitted(patch, record)
  /\ pc = "targets" /\ AllocatesIn(patch, record) => Whole(patch, record, file)

LeadInv == Sound(patch) => Pointing /\ StringFirst

LEMMA InsideRange ==
  ASSUME NEW a \in Nat, NEW n \in Nat, NEW h \in Nat, NEW m \in Nat,
         h <= a, a + n <= h + m, NEW k \in 0 .. n - 1
  PROVE  /\ a - h \in 0 .. m - 1 /\ (a - h) + k \in 0 .. m - 1 /\ a - h \in Nat
         /\ h + (a - h) = a /\ h + ((a - h) + k) = a + k
         /\ a + k \in h .. h + m - 1
OBVIOUS

LEMMA ByteInside ==
  ASSUME NEW o \in Nat, NEW n \in Nat, NEW m \in Nat, o + n <= m, NEW k \in 0 .. n - 1
  PROVE  o + k \in o .. o + n - 1 /\ o + k \in 0 .. m - 1 /\ (o + k) - o = k
OBVIOUS

LEMMA ApartBytes ==
  ASSUME NEW a \in Nat, NEW n \in Nat, NEW b \in Nat, NEW m \in Nat,
         a + n <= b \/ b + m <= a, NEW k \in 0 .. n - 1, NEW l \in 0 .. m - 1
  PROVE  a + k # b + l
OBVIOUS

(* The bytes of a string are at its addresses, and these in the room.      *)
LEMMA PieceInFile ==
  ASSUME NEW p \in Patches, Sound(p), NEW r \in 1 .. Len(p.records), Fitted(p, r),
         NEW k \in 0 .. p.records[r].size - 1
  PROVE  /\ Place(p, r) + k \in Room(p)
         /\ FileOffset(Place(p, r) + k) = FileOffset(Place(p, r)) + k
         /\ FileOffset(Place(p, r)) \in Nat
<1> DEFINE x == Piece(p, r)
<1>1. IsRange(x)
  BY PieceRange
<1>2. PICK s \in DOMAIN p.spaces : Within(x, p.spaces[s])
  <2>1. r \in 1 .. Len(p.records) /\ PlanApart(p, Len(p.records))
    BY PlanIsApart
  <2> QED
    BY <2>1 DEF PlanApart
<1>3. PICK hole : hole = p.spaces[s]
  OBVIOUS
<1>4. IsRange(hole) /\ Within(x, hole)
  BY <1>2, <1>3, PatchesAssumption, HoleRanges
<1>5. x.offset = Place(p, r) /\ x.size = p.records[r].size
  BY DEF Piece
<1> DEFINE d == Place(p, r) - hole.offset
<1> HIDE DEF x
<1>7. /\ d \in 0 .. hole.size - 1 /\ d + k \in 0 .. hole.size - 1 /\ d \in Nat
      /\ hole.offset + d = Place(p, r) /\ hole.offset + (d + k) = Place(p, r) + k
      /\ Place(p, r) + k \in hole.offset .. hole.offset + hole.size - 1
  <2>1. /\ Place(p, r) \in Nat /\ p.records[r].size \in Nat
        /\ hole.offset \in Nat /\ hole.size \in Nat
    BY <1>1, <1>4, <1>5 DEF IsRange
  <2>2. /\ hole.offset <= Place(p, r)
        /\ Place(p, r) + p.records[r].size <= hole.offset + hole.size
    BY <1>4, <1>5 DEF Within
  <2> QED
    BY <2>1, <2>2, InsideRange
<1> HIDE DEF d
<1>8. \A j \in 0 .. hole.size - 1 : FileOffset(hole.offset + j) = FileOffset(hole.offset) + j
  BY <1>3 DEF Sound, InOnePiece
<1>9. FileOffset(hole.offset) \in Nat
  BY <1>4, FileOffsetTyped DEF IsRange
<1>10. /\ FileOffset(Place(p, r)) = FileOffset(hole.offset) + d
       /\ FileOffset(Place(p, r) + k) = FileOffset(hole.offset) + (d + k)
  BY <1>7, <1>8
<1>11. Place(p, r) + k \in Room(p)
  BY <1>3, <1>7 DEF Room
<1> QED
  BY <1>7, <1>9, <1>10, <1>11

(* The strings of two records have no byte of the file in common.          *)
LEMMA PiecesDiffer ==
  ASSUME NEW p \in Patches, Sound(p),
         NEW q \in 1 .. Len(p.records), NEW r \in 1 .. Len(p.records), q # r,
         Fitted(p, q), Fitted(p, r),
         NEW k \in 0 .. p.records[q].size - 1, NEW l \in 0 .. p.records[r].size - 1
  PROVE  FileOffset(Place(p, q) + k) # FileOffset(Place(p, r) + l)
<1>1. Apart(Piece(p, q), Piece(p, r))
  BY PlanIsApart DEF PlanApart
<1>2. IsRange(Piece(p, q)) /\ IsRange(Piece(p, r))
  BY PieceRange
<1>3. /\ Piece(p, q).offset = Place(p, q) /\ Piece(p, q).size = p.records[q].size
      /\ Piece(p, r).offset = Place(p, r) /\ Piece(p, r).size = p.records[r].size
  BY DEF Piece
<1>4. Place(p, q) + k # Place(p, r) + l
  <2>1. /\ Place(p, q) \in Nat /\ p.records[q].size \in Nat
        /\ Place(p, r) \in Nat /\ p.records[r].size \in Nat
    BY <1>2, <1>3 DEF IsRange
  <2>2. \/ Place(p, q) + p.records[q].size <= Place(p, r)
        \/ Place(p, r) + p.records[r].size <= Place(p, q)
    BY <1>1, <1>3 DEF Apart
  <2> QED
    BY <2>1, <2>2, ApartBytes
<1> QED
  BY <1>4, PieceInFile DEF Sound, Separate

(* Writing some or all of a string keeps all the strings.                  *)
LEMMA StringWritten ==
  ASSUME PlanInv, Sound(patch), pc = "string", Fitted(patch, record),
         NEW n \in 0 .. Current.size,
         WriteAt(FileOffset(strOffset), Bytes("string", record, Current.size), n),
         NEW q \in 1 .. Len(patch.records), Fitted(patch, q), Whole(patch, q, file)
  PROVE  Whole(patch, q, file')
<1> DEFINE o == FileOffset(strOffset)
           size == Current.size
<1>1. /\ record \in 1 .. Len(patch.records) /\ strOffset = Place(patch, record)
      /\ patch \in Patches /\ AllocatesIn(patch, record) /\ size = patch.records[record].size
      /\ size \in Nat
  BY RecordTyped DEF PlanInv, Planned, Fitted, Current
<1>2. file' = [x \in DOMAIN file |-> IF x \in o .. o + n - 1
                                     THEN Bytes("string", record, size)[x - o] ELSE file[x]]
  BY DEF WriteAt
<1> SUFFICES ASSUME NEW k \in 0 .. patch.records[q].size - 1
             PROVE  LET x == FileOffset(Place(patch, q) + k)
                    IN x \in DOMAIN file' /\ file'[x] = [by |-> "string", of |-> q, at |-> k]
  BY DEF Whole
<1>3. PICK x : x = FileOffset(Place(patch, q) + k)
  OBVIOUS
<1>4. x \in DOMAIN file /\ file[x] = [by |-> "string", of |-> q, at |-> k]
  BY <1>3 DEF Whole
<1>5. x \in DOMAIN file' /\ file'[x] = IF x \in o .. o + n - 1
                                       THEN Bytes("string", record, size)[x - o] ELSE file[x]
  BY <1>2, <1>4
<1>6. CASE x \in o .. o + n - 1
  <2>1. o \in Nat
    <3>1. strOffset \in Nat
      BY <1>1 DEF PlanInv, Planned
    <3> QED
      BY <3>1, FileOffsetTyped
  <2>2. PICK l \in 0 .. size - 1 : x = o + l
    <3>1. x - o \in 0 .. size - 1 /\ x = o + (x - o)
      BY <1>1, <1>6, <2>1, SMTT(30)
    <3> QED
      BY <3>1
  <2>3. x = FileOffset(Place(patch, record) + l)
    BY <1>1, <2>2, PieceInFile
  <2>4. q = record
    BY <1>1, <1>3, <2>2, <2>3, PiecesDiffer
  <2>5. x = o + k /\ x - o = k /\ k \in 0 .. size - 1
    <3>1. x = o + k
      BY <1>1, <1>3, <2>4, PieceInFile
    <3> QED
      BY <1>1, <2>1, <2>4, <3>1
  <2>6. file'[x] = Bytes("string", record, size)[k]
    BY <1>5, <1>6, <2>5
  <2> HIDE DEF size
  <2> QED
    BY <1>1, <1>3, <1>5, <2>4, <2>5, <2>6, BytesSize, SMTT(30)
<1>7. CASE x \notin o .. o + n - 1
  BY <1>3, <1>4, <1>5, <1>7
<1> QED
  BY <1>6, <1>7

(* A write of a part of a target's bytes keeps all the strings.            *)
LEMMA TargetKeepsStrings ==
  ASSUME PlanInv, Sound(patch), pc = "targets",
         NEW o, o = FileOffset(Current.offsets[target]), o # 0,
         NEW n \in 0 .. Size(TargetBytes), WriteAt(o, TargetBytes, n),
         NEW q \in 1 .. Len(patch.records), Fitted(patch, q), Whole(patch, q, file)
  PROVE  Whole(patch, q, file')
<1>1. /\ record \in 1 .. Len(patch.records) /\ target \in 1 .. Len(Current.offsets)
      /\ patch \in Patches
  BY DEF PlanInv, Planned
<1>2. /\ o \in Nat /\ Size(TargetBytes) \in Nat
      /\ o .. o + Size(TargetBytes) - 1 = TargetArea(patch, record, target)
  BY TargetPlace DEF PlanInv
<1>3. o .. o + n - 1 \subseteq TargetArea(patch, record, target)
  <2>1. o .. o + n - 1 \subseteq o .. o + Size(TargetBytes) - 1
    BY <1>2
  <2> QED
    BY <1>2, <2>1
<1>4. \A a \in Room(patch) : FileOffset(a) \notin TargetArea(patch, record, target)
  BY <1>1 DEF Sound, Separate, Current
<1> SUFFICES ASSUME NEW k \in 0 .. patch.records[q].size - 1
             PROVE  LET x == FileOffset(Place(patch, q) + k)
                    IN x \in DOMAIN file' /\ file'[x] = [by |-> "string", of |-> q, at |-> k]
  BY DEF Whole
<1>5. PICK x : x = FileOffset(Place(patch, q) + k)
  OBVIOUS
<1>6. x \in DOMAIN file /\ file[x] = [by |-> "string", of |-> q, at |-> k]
  BY <1>5 DEF Whole
<1>7. x \notin o .. o + n - 1
  BY <1>1, <1>3, <1>4, <1>5, PieceInFile
<1>8. x \in DOMAIN file' /\ file'[x] = file[x]
  BY <1>6, <1>7 DEF WriteAt
<1> QED
  BY <1>5, <1>6, <1>8

(* The bytes of a target that are of a pointer are those of the string the *)
(* record has placed.                                                      *)
LEMMA TargetKind ==
  ASSUME PlanInv, pc = "targets", NEW k \in 0 .. Size(TargetBytes) - 1,
         TargetBytes[k].by = "pointer"
  PROVE  AllocatesIn(patch, record) /\ TargetBytes[k].of = Place(patch, record)
<1>1. /\ record \in 1 .. Len(patch.records) /\ patch \in Patches
      /\ AllocatesIn(patch, record) => strOffset = Place(patch, record)
  BY DEF PlanInv, Planned
<1>2. Current \in Record /\ Current.size \in Nat /\ Pointer \in Nat
  BY <1>1, RecordTyped, SizesAssumption DEF Current
<1>3. AllocatesIn(patch, record) <=> Current.kind = "string" /\ ~ Current.inplace
  BY DEF AllocatesIn, Current
<1>4. Current.kind \in {"string", "values"}
  BY <1>2 DEF Record
<1>5. CASE ~ AllocatesIn(patch, record)
  <2>1. PICK by \in {"string", "values"} : TargetBytes = Bytes(by, record, Current.size)
    BY <1>3, <1>4, <1>5 DEF TargetBytes
  <2>2. k \in 0 .. Current.size - 1
    BY <1>2, <2>1, BytesSize
  <2>3. TargetBytes[k] = [by |-> by, of |-> record, at |-> k]
    BY <1>2, <2>1, <2>2, BytesSize
  <2> QED
    BY <2>3
<1>6. CASE AllocatesIn(patch, record)
  <2>1. TargetBytes = Bytes("pointer", strOffset, Pointer)
    BY <1>3, <1>6 DEF TargetBytes, PointerValue
  <2>2. k \in 0 .. Pointer - 1
    BY <1>2, <2>1, BytesSize
  <2>3. TargetBytes[k] = [by |-> "pointer", of |-> strOffset, at |-> k]
    BY <1>2, <2>1, <2>2, BytesSize
  <2> QED
    BY <1>1, <1>6, <2>3
<1> QED
  BY <1>5, <1>6

(* A write of some of a target's bytes, with no place in the file or with. *)
LEMMA TargetWritten ==
  ASSUME PlanInv, Sound(patch), Pointing, StringFirst, pc = "targets", patch' = patch,
         NEW o, o = FileOffset(Current.offsets[target]),
         NEW n \in 0 .. Size(TargetBytes), o = 0 => n = 0, WriteAt(o, TargetBytes, n)
  PROVE  /\ Pointing'
         /\ AllocatesIn(patch, record) => Whole(patch, record, file')
<1>1. /\ record \in 1 .. Len(patch.records) /\ target \in 1 .. Len(Current.offsets)
      /\ patch \in Patches
  BY DEF PlanInv, Planned
<1>2. /\ o \in Nat /\ Size(TargetBytes) \in Nat
      /\ o .. o + Size(TargetBytes) - 1 = TargetArea(patch, record, target)
  BY TargetPlace DEF PlanInv
<1>3. file' = [x \in DOMAIN file |-> IF x \in o .. o + n - 1 THEN TargetBytes[x - o] ELSE file[x]]
  BY DEF WriteAt
<1>4. ASSUME NEW q \in 1 .. Len(patch.records), Fitted(patch, q), Whole(patch, q, file)
      PROVE  Whole(patch, q, file')
  <2>1. CASE o = 0
    <3>1. \A x \in DOMAIN file : x \notin o .. o + n - 1
      BY <1>2, <2>1
    <3>2. DOMAIN file' = DOMAIN file /\ \A x \in DOMAIN file : file'[x] = file[x]
      BY <1>3, <3>1
    <3> QED
      BY <1>4, <3>2 DEF Whole
  <2>2. CASE o # 0
    BY <1>4, <2>2, TargetKeepsStrings
  <2> QED
    BY <2>1, <2>2
<1>5. AllocatesIn(patch, record) => Fitted(patch, record) /\ Whole(patch, record, file')
  BY <1>1, <1>4 DEF StringFirst
<1>6. ASSUME NEW x \in DOMAIN file, file'[x].by = "pointer"
      PROVE  \E r \in 1 .. Len(patch.records) :
               /\ Fitted(patch, r) /\ x \in PointerArea(patch, r)
               /\ file'[x].of = Place(patch, r) /\ Whole(patch, r, file')
  <2>1. CASE x \in o .. o + n - 1
    <3>1. o # 0
      BY <2>1
    <3>2. PICK k : k = x - o
      OBVIOUS
    <3>3. k \in 0 .. Size(TargetBytes) - 1 /\ x \in o .. o + Size(TargetBytes) - 1
      BY <1>2, <2>1, <3>2
    <3>4. file'[x] = TargetBytes[k]
      BY <1>3, <2>1, <3>2
    <3>5. AllocatesIn(patch, record) /\ file'[x].of = Place(patch, record)
      BY <1>6, <3>3, <3>4, TargetKind
    <3>6. x \in PointerArea(patch, record)
      BY <1>1, <1>2, <3>1, <3>3 DEF PointerArea, Current
    <3> QED
      BY <1>1, <1>5, <3>5, <3>6
  <2>2. CASE x \notin o .. o + n - 1
    <3>1. file'[x] = file[x]
      BY <1>3, <2>2
    <3>2. PICK r \in 1 .. Len(patch.records) :
            /\ Fitted(patch, r) /\ x \in PointerArea(patch, r)
            /\ file[x].of = Place(patch, r) /\ Whole(patch, r, file)
      BY <1>6, <3>1 DEF Pointing
    <3>3. Whole(patch, r, file')
      BY <1>4, <3>2
    <3> QED
      BY <3>1, <3>2, <3>3
  <2> QED
    BY <2>1, <2>2
<1>7. Pointing'
  BY <1>3, <1>6 DEF Pointing
<1> QED
  BY <1>5, <1>7

LEMMA LeadInit == Init => LeadInv
<1> SUFFICES ASSUME Init PROVE LeadInv
  OBVIOUS
<1>1. pc = "idle" /\ \A x \in DOMAIN file : file[x].by # "pointer"
  BY DEF Init, Original
<1> QED
  BY <1>1 DEF LeadInv, Pointing, StringFirst

(* A step that writes nothing, and does not come to the targets of a       *)
(* string.                                                                 *)
LEMMA LeadElsewhere ==
  ASSUME LeadInv, UNCHANGED <<patch, file>>,
         pc' \in {"string", "targets"} => ~ AllocatesIn(patch, record')
  PROVE  LeadInv'
<1>1. patch' = patch /\ file' = file
  OBVIOUS
<1>2. Pointing => Pointing'
  BY <1>1 DEF Pointing
<1>3. StringFirst'
  BY <1>1 DEF StringFirst
<1> QED
  BY <1>1, <1>2, <1>3 DEF LeadInv

LEMMA LeadAlloc == PlanInv /\ LeadInv /\ AllocSpace => LeadInv'
<1> SUFFICES ASSUME PlanInv, LeadInv, AllocSpace, Sound(patch) PROVE Pointing' /\ StringFirst'
  BY DEF LeadInv, AllocSpace
<1>1. /\ pc = "record" /\ record <= Len(patch.records) /\ AllocatesIn(patch, record)
      /\ pc' = "string" /\ UNCHANGED <<patch, file, record>>
  BY DEF AllocSpace, Allocates, AllocatesIn, Current
<1>2. PICK i \in DOMAIN holes : Fits(i) /\ \A j \in 1 .. i - 1 : ~ Fits(j)
  BY DEF AllocSpace
<1>3. record \in 1 .. Len(patch.records) /\ holes = Plan(patch)[record - 1]
  BY <1>1, RecordTyped DEF PlanInv, Planned
<1>4. holes \in Seq(Hole)
  BY <1>3, PlanFollowed DEF PlanInv
<1>5. \A j \in 1 .. i - 1 : j \in DOMAIN holes
  BY <1>2, <1>4
<1>6. FirstFit(holes, i, patch.records[record].size)
  BY <1>2, <1>5 DEF Fits, FirstFit, Current
<1>7. Fitted(patch, record)
  BY <1>1, <1>3, <1>6 DEF Fitted
<1> QED
  BY <1>1, <1>7 DEF LeadInv, Pointing, StringFirst

(* Writing some or all of a string: the pointers are as they were.         *)
LEMMA StringKeepsPointing ==
  ASSUME PlanInv, Sound(patch), Pointing, pc = "string", Fitted(patch, record), patch' = patch,
         NEW n \in 0 .. Current.size,
         WriteAt(FileOffset(strOffset), Bytes("string", record, Current.size), n)
  PROVE  Pointing'
<1> DEFINE o == FileOffset(strOffset)
<1>1. /\ record \in 1 .. Len(patch.records) /\ strOffset \in Nat /\ patch \in Patches
      /\ Current.size \in Nat
  BY RecordTyped DEF PlanInv, Planned, Fitted, Current
<1>2. o \in Nat
  BY <1>1, FileOffsetTyped
<1> HIDE DEF o
<1>3. file' = [x \in DOMAIN file |-> IF x \in o .. o + n - 1
                                     THEN Bytes("string", record, Current.size)[x - o] ELSE file[x]]
  BY DEF WriteAt, o
<1>4. ASSUME NEW x \in DOMAIN file, file'[x].by = "pointer"
      PROVE  \E r \in 1 .. Len(patch.records) :
               /\ Fitted(patch, r) /\ x \in PointerArea(patch, r)
               /\ file'[x].of = Place(patch, r) /\ Whole(patch, r, file')
  <2>1. CASE x \in o .. o + n - 1
    <3>1. PICK k : k = x - o
      OBVIOUS
    <3>2. k \in 0 .. Current.size - 1
      BY <1>1, <1>2, <2>1, <3>1
    <3>3. file'[x] = [by |-> "string", of |-> record, at |-> k]
      BY <1>1, <1>3, <2>1, <3>1, <3>2, BytesSize
    <3> QED
      BY <1>4, <3>3
  <2>2. CASE x \notin o .. o + n - 1
    <3>1. file'[x] = file[x]
      BY <1>3, <2>2
    <3>2. PICK r \in 1 .. Len(patch.records) :
            /\ Fitted(patch, r) /\ x \in PointerArea(patch, r)
            /\ file[x].of = Place(patch, r) /\ Whole(patch, r, file)
      BY <1>4, <3>1 DEF Pointing
    <3>3. Whole(patch, r, file')
      BY <3>2, StringWritten
    <3> QED
      BY <3>1, <3>2, <3>3
  <2> QED
    BY <2>1, <2>2
<1> QED
  BY <1>3, <1>4 DEF Pointing

LEMMA LeadString == PlanInv /\ LeadInv /\ WriteString => LeadInv'
<1> SUFFICES ASSUME PlanInv, LeadInv, WriteString, Sound(patch) PROVE Pointing' /\ StringFirst'
  BY DEF LeadInv, WriteString
<1> DEFINE o == FileOffset(strOffset)
<1>1. /\ pc = "string" /\ pc' = "targets" /\ o + Current.size <= FileSize
      /\ WriteAt(o, Bytes("string", record, Current.size), Current.size)
      /\ UNCHANGED <<patch, record>>
  BY DEF WriteString
<1>2. /\ record \in 1 .. Len(patch.records) /\ AllocatesIn(patch, record)
      /\ strOffset = Place(patch, record) /\ strOffset \in Nat /\ patch \in Patches
      /\ Current.size \in Nat /\ Current.size = patch.records[record].size
  BY <1>1, RecordTyped DEF PlanInv, Planned, Current
<1>3. Fitted(patch, record) /\ Pointing
  BY <1>1, <1>2 DEF LeadInv, StringFirst
<1>4. Current.size \in 0 .. Current.size
  BY <1>2
<1>5. Pointing'
  BY <1>1, <1>3, <1>4, StringKeepsPointing
<1>6. Whole(patch, record, file')
  <2>1. o \in Nat /\ FileSize \in Nat /\ DOMAIN file = 0 .. FileSize - 1
    BY <1>2, FileOffsetTyped, SizesAssumption DEF PlanInv, Changed
  <2> SUFFICES ASSUME NEW k \in 0 .. patch.records[record].size - 1
               PROVE  LET x == FileOffset(Place(patch, record) + k)
                      IN x \in DOMAIN file' /\ file'[x] = [by |-> "string", of |-> record, at |-> k]
    BY DEF Whole
  <2>2. FileOffset(Place(patch, record) + k) = o + k
    BY <1>2, <1>3, PieceInFile
  <2> HIDE DEF o
  <2>3. k \in 0 .. Current.size - 1
    BY <1>2
  <2>4. o + k \in o .. o + Current.size - 1 /\ o + k \in 0 .. FileSize - 1 /\ (o + k) - o = k
    <3>1. o + Current.size <= FileSize
      BY <1>1 DEF o
    <3> QED
      BY <1>2, <2>1, <2>3, <3>1, ByteInside
  <2>5. /\ o + k \in DOMAIN file'
        /\ file'[o + k] = Bytes("string", record, Current.size)[(o + k) - o]
    BY <1>1, <2>1, <2>4 DEF WriteAt
  <2>6. file'[o + k] = [by |-> "string", of |-> record, at |-> k]
    BY <1>2, <2>3, <2>4, <2>5, BytesSize
  <2> QED
    BY <2>2, <2>5, <2>6
<1>7. StringFirst'
  BY <1>1, <1>3, <1>6 DEF StringFirst
<1> QED
  BY <1>5, <1>7

LEMMA LeadTarget == PlanInv /\ LeadInv /\ (WriteTarget \/ WriteTargetUnnoticed) => LeadInv'
<1> SUFFICES ASSUME PlanInv, LeadInv, WriteTarget \/ WriteTargetUnnoticed, Sound(patch)
             PROVE  Pointing' /\ StringFirst'
  BY DEF LeadInv, WriteTarget, WriteTargetUnnoticed, GoOn
<1> DEFINE o == FileOffset(Current.offsets[target])
           size == Size(TargetBytes)
<1>1. pc = "targets" /\ GoOn /\ patch' = patch /\ size \in Nat
  BY TargetPlace DEF PlanInv, WriteTarget, WriteTargetUnnoticed, GoOn
<1>2. Pointing /\ StringFirst
  BY DEF LeadInv
<1>3. PICK n \in 0 .. size : o # 0 /\ WriteAt(o, TargetBytes, n)
  <2>1. CASE WriteTarget
    <3>1. o # 0 /\ WriteAt(o, TargetBytes, size)
      BY <2>1 DEF WriteTarget
    <3> HIDE DEF o, size
    <3> QED
      BY <1>1, <3>1
  <2>2. CASE WriteTargetUnnoticed
    <3>1. o # 0 /\ \E n \in 0 .. size - 1 : WriteAt(o, TargetBytes, n)
      BY <2>2 DEF WriteTargetUnnoticed
    <3> HIDE DEF o, size
    <3> QED
      BY <1>1, <3>1
  <2> QED
    BY <2>1, <2>2
<1>4. Pointing' /\ (AllocatesIn(patch, record) => Whole(patch, record, file'))
  BY <1>1, <1>2, <1>3, TargetWritten
<1>5. CASE target < Len(Current.offsets)
  <2>1. pc' = pc /\ record' = record
    BY <1>1, <1>5 DEF GoOn
  <2> QED
    BY <1>1, <1>2, <1>4, <2>1 DEF StringFirst
<1>6. CASE ~ (target < Len(Current.offsets))
  <2>1. pc' = "record"
    BY <1>1, <1>6 DEF GoOn
  <2> QED
    BY <1>4, <2>1 DEF StringFirst
<1> QED
  BY <1>5, <1>6

LEMMA LeadFail == PlanInv /\ LeadInv /\ FailWrite => LeadInv'
<1> SUFFICES ASSUME PlanInv, LeadInv, FailWrite, Sound(patch) PROVE Pointing' /\ StringFirst'
  BY DEF LeadInv, FailWrite
<1>1. pc \in {"string", "targets"} /\ pc' = "failed" /\ patch' = patch
  BY DEF FailWrite, Fails
<1>2. StringFirst'
  BY <1>1 DEF StringFirst
<1>3. CASE pc = "string"
  <2> DEFINE bytes == Bytes("string", record, Current.size)
  <2>1. PICK n \in 0 .. Size(bytes) - 1 : WriteAt(FileOffset(strOffset), bytes, n)
    BY <1>3 DEF FailWrite
  <2>2. record \in 1 .. Len(patch.records) /\ Current.size \in Nat /\ AllocatesIn(patch, record)
    BY <1>3, RecordTyped DEF PlanInv, Planned, Current
  <2>3. Size(bytes) = Current.size
    BY <2>2, BytesSize
  <2> HIDE DEF bytes
  <2>4. n \in 0 .. Current.size
    BY <2>1, <2>2, <2>3
  <2>5. Fitted(patch, record) /\ Pointing
    BY <1>3, <2>2 DEF LeadInv, StringFirst
  <2>6. Pointing'
    BY <1>1, <1>3, <2>1, <2>4, <2>5, StringKeepsPointing DEF bytes
  <2> QED
    BY <1>2, <2>6
<1>4. CASE pc = "targets"
  <2> DEFINE o == FileOffset(Current.offsets[target])
  <2>1. PICK n \in 0 .. Size(TargetBytes) - 1 : (o = 0 => n = 0) /\ WriteAt(o, TargetBytes, n)
    BY <1>4 DEF FailWrite
  <2>2. Size(TargetBytes) \in Nat
    BY <1>4, TargetPlace DEF PlanInv
  <2>3. n \in 0 .. Size(TargetBytes)
    BY <2>1, <2>2
  <2>4. Pointing /\ StringFirst
    BY DEF LeadInv
  <2>5. Pointing'
    BY <1>1, <1>4, <2>1, <2>3, <2>4, TargetWritten
  <2> QED
    BY <1>2, <2>5
<1> QED
  BY <1>1, <1>3, <1>4

LEMMA LeadStep == PlanInv /\ LeadInv /\ [Next]_vars => LeadInv'
<1> SUFFICES ASSUME PlanInv, LeadInv, [Next]_vars PROVE LeadInv'
  OBVIOUS
<1>1. CASE StartApply
  BY <1>1, LeadElsewhere DEF StartApply
<1>2. CASE RefuseRecord
  BY <1>2, LeadElsewhere DEF RefuseRecord, Fails
<1>3. CASE EnterRecord
  <2>1. record' = record /\ ~ AllocatesIn(patch, record) /\ UNCHANGED <<patch, file>>
    BY <1>3 DEF EnterRecord, Allocates, AllocatesIn, Current
  <2> QED
    BY <2>1, LeadElsewhere
<1>4. CASE Finish
  BY <1>4, LeadElsewhere DEF Finish
<1>5. CASE UNCHANGED vars
  <2>1. UNCHANGED <<patch, file, pc, record>>
    BY <1>5 DEF vars
  <2> QED
    BY <2>1 DEF LeadInv, Pointing, StringFirst
<1> QED
  BY <1>1, <1>2, <1>3, <1>4, <1>5, LeadAlloc, LeadString, LeadTarget, LeadFail DEF Next

(* Whenever a patch is sound, and however many runs have failed: a pointer *)
(* the patch has written leads to the whole string of its record, because  *)
(* a string is written before its pointers, its place is its own, and the  *)
(* next run puts it there again.                                           *)
THEOREM StringsReached == Spec => [](Separate(patch) => PointersLead)
<1>1. PlanInv /\ LeadInv => (Separate(patch) => PointersLead)
  <2> SUFFICES ASSUME PlanInv, LeadInv, Separate(patch),
                      \A i \in DOMAIN patch.spaces : InOnePiece(patch.spaces[i]),
                      NEW r \in DOMAIN patch.records,
                      patch.records[r].kind = "string", ~ patch.records[r].inplace,
                      NEW t \in DOMAIN patch.records[r].offsets,
                      NEW o, o = FileOffset(patch.records[r].offsets[t]),
                      NEW address, o # 0, o + Pointer <= FileSize,
                      \A k \in 0 .. Pointer - 1 :
                        file[o + k] = [by |-> "pointer", of |-> address, at |-> k],
                      NEW k \in 0 .. patch.records[r].size - 1
               PROVE  file[FileOffset(address + k)] = [by |-> "string", of |-> r, at |-> k]
    BY DEF PointersLead
  <2>1. /\ r \in 1 .. Len(patch.records) /\ t \in 1 .. Len(patch.records[r].offsets)
        /\ patch.records[r].offsets[t] \in Nat /\ AllocatesIn(patch, r) /\ patch \in Patches
    <3>1. patch \in Patches /\ r \in 1 .. Len(patch.records) /\ AllocatesIn(patch, r)
      BY RecordTyped DEF PlanInv, Planned, AllocatesIn
    <3>2. patch.records[r].offsets \in Seq(Nat)
      BY <3>1, RecordTyped
    <3> QED
      BY <3>1, <3>2
  <2>2. o \in Nat /\ Pointer \in Nat \ {0} /\ FileSize \in Nat
    BY <2>1, FileOffsetTyped, SizesAssumption
  <2>3. o \in DOMAIN file /\ 0 \in 0 .. Pointer - 1 /\ o + 0 = o
    BY <2>2 DEF PlanInv, Changed
  <2>4. file[o].by = "pointer" /\ file[o].of = address
    <3>1. file[o + 0] = [by |-> "pointer", of |-> address, at |-> 0]
      BY <2>3
    <3>2. file[o] = [by |-> "pointer", of |-> address, at |-> 0]
      BY <2>3, <3>1
    <3> QED
      BY <3>2
  <2>5. Sound(patch) /\ Pointing
    BY DEF Sound, LeadInv
  <2>6. PICK q \in 1 .. Len(patch.records) :
          /\ Fitted(patch, q) /\ o \in PointerArea(patch, q)
          /\ file[o].of = Place(patch, q) /\ Whole(patch, q, file)
    BY <2>3, <2>4, <2>5 DEF Pointing
  <2>7. o \in PointerArea(patch, r)
    <3>1. o \in o .. o + Pointer - 1
      BY <2>2
    <3>2. o \in TargetArea(patch, r, t)
      BY <2>1, <3>1 DEF TargetArea, TargetSize
    <3> QED
      BY <2>1, <3>2 DEF PointerArea
  <2>8. q = r
    BY <2>1, <2>6, <2>7 DEF Separate, Fitted
  <2> QED
    BY <2>4, <2>6, <2>8 DEF Whole
<1> QED
  BY <1>1, PlanInit, PlanStep, LeadInit, LeadStep, PTL DEF Spec
=============================================================================
