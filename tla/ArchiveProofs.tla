---------------------------- MODULE ArchiveProofs ----------------------------
(* The parts of a rebuilt archive do not overlap and its records are what  *)
(* they should be, for every alignment, every archive, and whatever is     *)
(* replaced and merged; and what is read of a replaced file is that file,  *)
(* patched, in chunks of any size (from "The files replaced" on).          *)
EXTENDS Archive, FileSources, SequenceTheorems, WellFoundedInduction, FiniteSetTheorems, TLAPS

HeaderEnd == HeaderSize + RecordSize * Len(Records) + (IF marker THEN MarkerSize \div 2 ELSE 0)

JobType == job \in Inputs /\ marker \in BOOLEAN

Bounded(x) == x.from \in Nat /\ x.to \in Nat /\ x.from <= x.to

(* While records are written, all of them lie between the place kept free  *)
(* for the header and the place of the next.                               *)
InOrder ==
  /\ position \in Nat
  /\ DataStart <= position
  /\ \A x \in extents : Bounded(x)
  /\ pc = "records" => \A x \in extents : DataStart <= x.from /\ x.to <= position

IInv == JobType /\ InOrder /\ LayoutDisjoint

(* Rounding up to the alignment never gives less.                          *)
LEMMA AlignUp ==
  ASSUME NEW s \in Nat
  PROVE  AlignSize(s) \in Nat /\ s <= AlignSize(s)
<1>1. Alignment \in Nat /\ Alignment > 0
  BY SizesAssumption
<1> DEFINE t == s + Alignment - 1
<1>2. t \in Nat
  BY <1>1
<1>3. t % Alignment \in 0 .. Alignment - 1
  BY <1>1, <1>2
<1>4. AlignSize(s) = t - (t % Alignment)
  BY DEF AlignSize
<1>5. t = s + Alignment - 1
  OBVIOUS
<1> HIDE DEF t
<1> QED
  BY <1>1, <1>2, <1>3, <1>4, <1>5

(* The header fits into the place kept free for it.                        *)
LEMMA HeaderFits ==
  ASSUME JobType
  PROVE  /\ HeaderEnd \in Nat /\ DataStart \in Nat
         /\ HeaderEnd <= DataStart
<1> DEFINE table == RecordSize * Len(Records)
<1>1. Len(Records) \in Nat
  BY InputsAssumption DEF JobType, Input, Records
<1>2. table \in Nat
  BY <1>1, SizesAssumption
<1> DEFINE m == IF marker THEN MarkerSize ELSE 0
           h == IF marker THEN MarkerSize \div 2 ELSE 0
<1>3. m \in Nat /\ h \in Nat /\ h <= m
  BY SizesAssumption
<1>4. Len(Records) * RecordSize = table
  BY <1>1, SizesAssumption
<1>5. DataStart = AlignSize(table + HeaderSize + m) /\ HeaderEnd = HeaderSize + table + h
  BY <1>4 DEF DataStart, HeaderEnd
<1>6. HeaderSize \in Nat
  BY SizesAssumption
<1> HIDE DEF table, m, h
<1>7. table + HeaderSize + m \in Nat
  BY <1>2, <1>3, <1>6
<1>8. AlignSize(table + HeaderSize + m) \in Nat /\ table + HeaderSize + m <= AlignSize(table + HeaderSize + m)
  BY <1>7, AlignUp
<1> QED
  BY <1>2, <1>3, <1>5, <1>6, <1>8

(* What is written for a record has a size.                                *)
LEMMA StoredType ==
  ASSUME JobType, position \in Nat, NEW h \in Hashes
  PROVE  NewRecord(h).stored \in Nat
<1> DEFINE r == Records[h]
           s == job.source[h]
<1>1. r \in Record
  BY InputsAssumption DEF JobType, Input, Records, Hashes
<1>2. s \in {Kept} \cup Nat
  BY InputsAssumption DEF JobType, Input, Records, Hashes
<1>3. r.stored \in Nat
  BY <1>1 DEF Record
<1>4. CASE s = Kept
  <2>1. NewRecord(h) = [r EXCEPT !.offset = position]
    BY <1>4 DEF NewRecord
  <2>2. [r EXCEPT !.offset = position].stored = r.stored
    BY <1>1 DEF Record
  <2> QED
    BY <1>3, <2>1, <2>2
<1>5. CASE s # Kept
  <2>1. s \in Nat
    BY <1>2, <1>5
  <2>2. NewRecord(h).stored = IF IsPacked(r) THEN s + ZlibSize ELSE s
    BY <1>5 DEF NewRecord
  <2> HIDE DEF s
  <2> QED
    BY <2>1, <2>2, SizesAssumption
<1> QED
  BY <1>4, <1>5

LEMMA InitialLayout == Init => IInv
<1> SUFFICES ASSUME Init PROVE IInv
  OBVIOUS
<1>1. JobType
  BY DEF Init, HasMarker, JobType
<1>2. DataStart \in Nat
  BY <1>1, HeaderFits
<1>3. extents = {} /\ position = DataStart
  BY DEF Init
<1> QED
  BY <1>1, <1>2, <1>3 DEF IInv, InOrder, LayoutDisjoint

(* A file goes behind all the others.                                      *)
LEMMA StoreRecordLayout == IInv /\ StoreRecord => IInv'
<1> SUFFICES ASSUME IInv, StoreRecord PROVE IInv'
  OBVIOUS
<1> DEFINE new == NewRecord(Current)
           x == Extent(position, new.stored, Current, IsPacked(Records[Current]))
<1>1. JobType /\ InOrder /\ LayoutDisjoint /\ pc = "records"
  BY DEF IInv, StoreRecord
<1>2. Current \in Hashes /\ position' = AlignSize(position + new.stored) /\ extents' = extents \cup {x}
      /\ UNCHANGED <<job, marker, pc>>
  BY DEF StoreRecord
<1>3. position \in Nat /\ DataStart <= position
  BY <1>1 DEF InOrder
<1>4. new.stored \in Nat
  BY <1>1, <1>2, <1>3, StoredType
<1>5. position + new.stored \in Nat
  BY <1>3, <1>4
<1>6. position' \in Nat /\ position + new.stored <= position'
  BY <1>2, <1>5, AlignUp
<1>7. x.from = position /\ x.to = position + new.stored
  BY DEF Extent
<1>8. DataStart' = DataStart
  BY <1>2 DEF DataStart, Records
<1>9. DataStart \in Nat
  BY <1>1, HeaderFits
<1> HIDE DEF new, x
<1>10. Bounded(x) /\ DataStart <= x.from /\ x.to <= position'
  BY <1>3, <1>4, <1>6, <1>7 DEF Bounded
<1>11. JobType'
  BY <1>1, <1>2 DEF JobType
<1>12. ASSUME NEW y \in extents
       PROVE  /\ Bounded(y) /\ DataStart <= y.from /\ y.to <= position'
              /\ y.to <= x.from
  <2>1. Bounded(y) /\ DataStart <= y.from /\ y.to <= position
    BY <1>1 DEF InOrder
  <2> QED
    BY <2>1, <1>3, <1>4, <1>6, <1>7 DEF Bounded
<1>13. \A y \in extents' : Bounded(y) /\ DataStart <= y.from /\ y.to <= position'
  BY <1>2, <1>10, <1>12
<1>14. DataStart <= position'
  BY <1>3, <1>4, <1>6, <1>9
<1>15. InOrder'
  BY <1>6, <1>8, <1>13, <1>14 DEF InOrder, Bounded
<1>16. LayoutDisjoint'
  BY <1>1, <1>2, <1>12 DEF LayoutDisjoint
<1> QED
  BY <1>11, <1>15, <1>16 DEF IInv

(* The names go behind the files, the header before them.                  *)
LEMMA FinishRebuildLayout == IInv /\ FinishRebuild => IInv'
<1> SUFFICES ASSUME IInv, FinishRebuild PROVE IInv'
  OBVIOUS
<1> DEFINE n == Extent(position, NameSize * Len(Records), Names, FALSE)
           d == Extent(0, HeaderSize + RecordSize * Len(Records) + (IF marker THEN MarkerSize \div 2 ELSE 0),
                       Header, FALSE)
<1>1. JobType /\ InOrder /\ LayoutDisjoint /\ pc = "records"
  BY DEF IInv, FinishRebuild
<1>2. /\ extents' = extents \cup {d} \cup (IF job.origins THEN {n} ELSE {})
      /\ pc' = "done" /\ UNCHANGED <<job, marker, position>>
  BY DEF FinishRebuild
<1>3. Len(Records) \in Nat
  BY <1>1, InputsAssumption DEF JobType, Input, Records
<1>4. NameSize * Len(Records) \in Nat
  BY <1>3, SizesAssumption
<1>5. n.from = position /\ n.to = position + NameSize * Len(Records)
  BY DEF Extent
<1>6. HeaderEnd \in Nat /\ DataStart \in Nat /\ HeaderEnd <= DataStart
  BY <1>1, HeaderFits
<1>7. d.from = 0 /\ d.to = HeaderEnd
  <2>1. d = Extent(0, HeaderEnd, Header, FALSE)
    BY DEF HeaderEnd
  <2>2. d.from = 0 /\ d.to = 0 + HeaderEnd
    BY <2>1 DEF Extent
  <2> HIDE DEF d
  <2> QED
    BY <2>2, <1>6
<1>8. position \in Nat /\ DataStart <= position
  BY <1>1 DEF InOrder
<1>9. extents' \subseteq extents \cup {d, n}
  BY <1>2
<1>10. DataStart' = DataStart
  BY <1>2 DEF DataStart, Records
<1> DEFINE namesSize == NameSize * Len(Records)
<1>11. namesSize \in Nat /\ n.to = position + namesSize
  BY <1>4, <1>5
<1> HIDE DEF n, d, namesSize
<1>12. Bounded(n) /\ Bounded(d) /\ d.to <= n.from
  BY <1>5, <1>6, <1>7, <1>8, <1>11 DEF Bounded
<1>13. ASSUME NEW y \in extents
       PROVE  Bounded(y) /\ d.to <= y.from /\ y.to <= n.from
  <2>1. Bounded(y) /\ DataStart <= y.from /\ y.to <= position
    BY <1>1 DEF InOrder
  <2> QED
    BY <2>1, <1>5, <1>6, <1>7, <1>8 DEF Bounded
<1>14. \A y \in extents' : Bounded(y)
  BY <1>9, <1>12, <1>13
<1>15. InOrder'
  BY <1>2, <1>8, <1>10, <1>14 DEF InOrder, Bounded
<1>16. ASSUME NEW y \in extents \cup {d, n}, NEW z \in extents \cup {d, n}, y # z
       PROVE  y.to <= z.from \/ z.to <= y.from
  <2>1. CASE y \in extents /\ z \in extents
    BY <1>1, <1>16, <2>1 DEF LayoutDisjoint
  <2>2. CASE y \in {d, n} \/ z \in {d, n}
    BY <1>12, <1>13, <1>16, <2>2
  <2> QED
    BY <2>1, <2>2, <1>16
<1>17. LayoutDisjoint'
  BY <1>9, <1>16 DEF LayoutDisjoint
<1>18. JobType'
  BY <1>1, <1>2 DEF JobType
<1> QED
  BY <1>15, <1>17, <1>18 DEF IInv

(* The other steps write nothing.                                          *)
LEMMA QuietLayout ==
  IInv /\ UNCHANGED <<job, marker, position, extents>> /\ (pc' = "records" => pc = "records") => IInv'
BY DEF IInv, JobType, InOrder, LayoutDisjoint, Bounded, DataStart, Records, AlignSize

LEMMA LayoutStep == IInv /\ [Next]_vars => IInv'
<1> SUFFICES ASSUME IInv, [Next]_vars PROVE IInv'
  OBVIOUS
<1>1. CASE StopRebuild
  BY <1>1, QuietLayout DEF StopRebuild
<1>2. CASE MergeRecord
  BY <1>2, QuietLayout DEF MergeRecord
<1>3. CASE PassBadRecord
  BY <1>3, QuietLayout DEF PassBadRecord
<1>4. CASE StoreRecord
  BY <1>4, StoreRecordLayout
<1>5. CASE FinishRebuild
  BY <1>5, FinishRebuildLayout
<1>6. CASE UNCHANGED vars
  BY <1>6, QuietLayout DEF vars
<1> QED
  BY <1>1, <1>2, <1>3, <1>4, <1>5, <1>6 DEF Next

(* Archive::rebuild never lets two parts of the new archive overlap: not   *)
(* the files, whose sizes are known only once they are compressed, nor     *)
(* the names behind them, nor the header written last.                     *)
THEOREM PartsDisjoint == Spec => []LayoutDisjoint
<1>1. IInv => LayoutDisjoint
  BY DEF IInv
<1> QED
  BY InitialLayout, LayoutStep, <1>1, PTL DEF Spec

-----------------------------------------------------------------------------
(* The records                                                             *)

Ends(xs) == {0} \cup {x.to : x \in {x \in xs : ~NoExtent(x)}}

(* One of the files ends the archive.                                      *)
HasLast == \E m \in Ends(extents) : \A n \in Ends(extents) : m >= n

(* What the entries made so far stand for: a merged record has a target    *)
(* that stays, a sound one is a file in its place, and a bad one is where  *)
(* the next will be.                                                       *)
MergesChecked ==
  \A h \in 1 .. Len(entries) : Merged(h) => job.merge[h] \in Hashes /\ ~Merged(job.merge[h])

FilesStored ==
  \A h \in 1 .. Len(entries) : ~Merged(h) /\ ~IsBad(Records, h) =>
    /\ EmptyReplacement(h) \/ IsPacked(entries[h]) = IsPacked(Records[h])
    /\ \E x \in extents : /\ x.from = entries[h].offset /\ x.to - x.from = entries[h].stored
                          /\ x.of = h /\ x.packed = IsPacked(Records[h])

BadPlaced ==
  \A h \in 1 .. Len(entries) : ~Merged(h) /\ IsBad(Records, h) =>
    entries[h].offset = IF h < Len(entries) THEN entries[h + 1].offset ELSE position

Places == position % Alignment = 0 /\ zeroed \in Nat \cup {None}

RecordsInv ==
  /\ IInv /\ Places /\ entries \in Seq(Record) /\ Len(entries) <= Len(Records)
  /\ pc \in {"records", "done", "failed"}
  /\ pc = "records" => HasLast /\ MergesChecked /\ FilesStored /\ BadPlaced
  /\ FilesKept /\ MergedFollowTarget /\ BadFollowNext

(* What rebuild is given.                                                  *)
LEMMA GivenShape ==
  ASSUME JobType
  PROVE  /\ Records \in Seq(Record) /\ Len(Records) \in Nat \ {0} /\ Hashes = 1 .. Len(Records)
         /\ \A h \in Hashes : /\ Records[h] \in Record /\ job.merge[h] \in Nat
                              /\ job.source[h] \in {Kept} \cup Nat
         /\ job \in Input
BY InputsAssumption DEF JobType, Input, Records, Hashes

LEMMA Aligned ==
  ASSUME NEW s \in Nat
  PROVE  /\ AlignSize(s) \in Nat /\ s <= AlignSize(s) /\ AlignSize(s) % Alignment = 0
         /\ AlignSize(s) <= s + Alignment - 1
<1>1. Alignment \in Nat /\ Alignment > 0
  BY SizesAssumption
<1> DEFINE t == s + Alignment - 1
           q == t \div Alignment
<1>2. t \in Nat /\ q \in Nat
  BY <1>1
<1>3. t = Alignment * q + (t % Alignment) /\ t % Alignment \in 0 .. Alignment - 1
  BY <1>1, <1>2
<1>4. Alignment * q \in Nat
  BY <1>1, <1>2
<1>5. AlignSize(s) = Alignment * q
  <2>1. AlignSize(s) = t - (t % Alignment)
    BY DEF AlignSize
  <2> HIDE DEF t, q
  <2> QED
    BY <1>3, <1>4, <2>1
<1>6. (Alignment * q) % Alignment = 0
  <2> HIDE DEF q
  <2> QED
    BY <1>1, <1>2
<1>7. AlignSize(s) \in Nat /\ s <= AlignSize(s)
  BY AlignUp
<1>8. AlignSize(s) <= t
  <2> HIDE DEF t, q
  <2> QED
    BY <1>2, <1>3, <1>4, <1>5
<1> QED
  BY <1>5, <1>6, <1>7, <1>8

LEMMA RecordsInit == Init => RecordsInv
<1> SUFFICES ASSUME Init PROVE RecordsInv
  OBVIOUS
<1>1. IInv /\ JobType
  BY InitialLayout DEF IInv
<1>2. pc = "records" /\ position = DataStart /\ entries = <<>> /\ extents = {} /\ zeroed = None
  BY DEF Init
<1>3. Len(Records) \in Nat
  BY <1>1, GivenShape
<1>4. position % Alignment = 0
  <2> DEFINE table == Len(Records) * RecordSize
             m == IF marker THEN MarkerSize ELSE 0
  <2>1. table \in Nat /\ m \in Nat /\ HeaderSize \in Nat
    BY <1>3, SizesAssumption
  <2>2. position = AlignSize(table + HeaderSize + m)
    BY <1>2 DEF DataStart
  <2> HIDE DEF table, m
  <2> QED
    BY <2>1, <2>2, Aligned
<1>5. entries \in Seq(Record) /\ Len(entries) = 0
  BY <1>2
<1>6. HasLast
  BY <1>2 DEF HasLast, Ends
<1>7. MergesChecked /\ FilesStored /\ BadPlaced
  BY <1>5 DEF MergesChecked, FilesStored, BadPlaced
<1>8. ~Done
  BY <1>2 DEF Done
<1> QED
  BY <1>1, <1>2, <1>3, <1>4, <1>5, <1>6, <1>7, <1>8
  DEF RecordsInv, Places, FilesKept, MergedFollowTarget, BadFollowNext

(* A record that is written, merged or passed over adds one entry, at the  *)
(* place the writer has come to.                                           *)
LEMMA EntryAdded ==
  ASSUME RecordsInv, pc = "records", Current \in Hashes, NEW e \in Record,
         entries' = Append(entries, e), job' = job
  PROVE  /\ entries' \in Seq(Record) /\ Len(entries') <= Len(Records')
         /\ Len(entries) \in Nat /\ Len(entries') = Len(entries) + 1
         /\ \A h \in 1 .. Len(entries) : entries'[h] = entries[h]
         /\ entries'[Current] = e
         /\ 1 .. Len(entries') = (1 .. Len(entries)) \cup {Current}
<1>1. entries \in Seq(Record) /\ Len(entries) \in Nat /\ Len(Records) \in Nat /\ Hashes = 1 .. Len(Records)
  BY GivenShape DEF RecordsInv, IInv
<1>2. /\ entries' \in Seq(Record) /\ Len(entries') = Len(entries) + 1
      /\ \A h \in 1 .. Len(entries) : entries'[h] = entries[h]
      /\ entries'[Len(entries) + 1] = e
  BY <1>1, AppendProperties
<1>3. Len(entries') <= Len(Records')
  BY <1>1, <1>2 DEF Current, Records
<1> QED
  BY <1>1, <1>2, <1>3 DEF Current

LEMMA BadPlacedNext ==
  ASSUME RecordsInv, pc = "records", Current \in Hashes, NEW e \in Record,
         entries' = Append(entries, e), job' = job, e.offset = position,
         ~Merged(Current) /\ IsBad(Records, Current) => position' = position
  PROVE  BadPlaced'
<1>1. /\ Len(entries) \in Nat /\ Len(entries') = Len(entries) + 1 /\ Current = Len(entries) + 1
      /\ \A h \in 1 .. Len(entries) : entries'[h] = entries[h]
      /\ entries'[Current] = e
      /\ 1 .. Len(entries') = (1 .. Len(entries)) \cup {Current}
  BY EntryAdded DEF Current
<1> SUFFICES ASSUME NEW h \in 1 .. Len(entries'), ~Merged(h), IsBad(Records, h)
             PROVE  entries'[h].offset = IF h < Len(entries') THEN entries'[h + 1].offset ELSE position'
  BY DEF BadPlaced, Merged, Records
<1>2. CASE h = Current
  BY <1>1, <1>2
<1>3. CASE h \in 1 .. Len(entries)
  <2>1. entries'[h].offset = IF h < Len(entries) THEN entries[h + 1].offset ELSE position
    BY <1>1, <1>3 DEF RecordsInv, BadPlaced
  <2>2. CASE h < Len(entries)
    BY <1>1, <1>3, <2>1, <2>2
  <2>3. CASE h = Len(entries)
    BY <1>1, <2>1, <2>3
  <2> QED
    BY <1>1, <1>3, <2>2, <2>3
<1> QED
  BY <1>1, <1>2, <1>3

(* A record that is merged or passed over writes nothing.                  *)
LEMMA NothingWritten ==
  ASSUME RecordsInv, pc = "records", Current \in Hashes,
         entries' = Append(entries, [Records[Current] EXCEPT !.offset = position]),
         UNCHANGED <<job, marker, pc, position, extents, zeroed>>,
         Merged(Current) \/ IsBad(Records, Current),
         Merged(Current) => job.merge[Current] \in Hashes /\ ~Merged(job.merge[Current])
  PROVE  RecordsInv'
<1> DEFINE e == [Records[Current] EXCEPT !.offset = position]
<1>1. e \in Record /\ e.offset = position
  BY GivenShape DEF RecordsInv, IInv, InOrder, Record
<1> HIDE DEF e
<1>2. entries' = Append(entries, e)
  BY DEF e
<1>3. /\ entries' \in Seq(Record) /\ Len(entries') <= Len(Records')
      /\ Len(entries) \in Nat /\ Len(entries') = Len(entries) + 1 /\ Current = Len(entries) + 1
      /\ \A h \in 1 .. Len(entries) : entries'[h] = entries[h]
      /\ 1 .. Len(entries') = (1 .. Len(entries)) \cup {Current}
  BY <1>1, <1>2, EntryAdded DEF Current
<1>4. BadPlaced'
  BY <1>1, <1>2, BadPlacedNext
<1>5. MergesChecked'
  <2> SUFFICES ASSUME NEW h \in 1 .. Len(entries'), Merged(h)
               PROVE  job.merge[h] \in Hashes /\ ~Merged(job.merge[h])
    BY DEF MergesChecked, Merged, Hashes, Records
  <2> QED
    BY <1>3 DEF RecordsInv, MergesChecked
<1>6. FilesStored'
  <2> SUFFICES ASSUME NEW h \in 1 .. Len(entries'), ~Merged(h), ~IsBad(Records, h)
               PROVE  /\ EmptyReplacement(h) \/ IsPacked(entries'[h]) = IsPacked(Records[h])
                      /\ \E x \in extents : /\ x.from = entries'[h].offset /\ x.to - x.from = entries'[h].stored
                                            /\ x.of = h /\ x.packed = IsPacked(Records[h])
    BY DEF FilesStored, Merged, Records, EmptyReplacement
  <2>1. h \in 1 .. Len(entries)
    BY <1>3
  <2>2. entries'[h] = entries[h]
    BY <1>3, <2>1
  <2> QED
    BY <2>1, <2>2 DEF RecordsInv, FilesStored
<1>7. IInv'
  BY QuietLayout DEF RecordsInv
<1>8. HasLast' /\ Places' /\ ~Done'
  BY DEF RecordsInv, HasLast, Ends, Places, Done
<1> QED
  BY <1>3, <1>4, <1>5, <1>6, <1>7, <1>8
  DEF RecordsInv, FilesKept, MergedFollowTarget, BadFollowNext

(* The new record of a file is as packed as the old one, unless the file   *)
(* was replaced by an empty one.                                           *)
LEMMA NewRecordShape ==
  ASSUME JobType, position \in Nat, NEW h \in Hashes
  PROVE  /\ NewRecord(h) \in Record /\ NewRecord(h).offset = position
         /\ EmptyReplacement(h) \/ IsPacked(NewRecord(h)) = IsPacked(Records[h])
<1> DEFINE r == Records[h]
           s == job.source[h]
<1>1. r \in Record /\ s \in {Kept} \cup Nat /\ ZlibSize \in Nat
  BY GivenShape, SizesAssumption
<1>2. CASE s = Kept
  <2>1. NewRecord(h) = [r EXCEPT !.offset = position]
    BY <1>2 DEF NewRecord
  <2> HIDE DEF r
  <2>2. /\ NewRecord(h) \in Record /\ NewRecord(h).offset = position
        /\ NewRecord(h).unpacked = r.unpacked
    BY <1>1, <2>1 DEF Record
  <2> QED
    BY <2>2 DEF IsPacked, r
<1>3. CASE s # Kept
  <2>1. s \in Nat
    BY <1>1, <1>3
  <2>2. NewRecord(h) = [offset |-> position,
                        stored |-> IF IsPacked(r) THEN s + ZlibSize ELSE s,
                        unpacked |-> IF IsPacked(r) THEN s ELSE 0]
    BY <1>3 DEF NewRecord
  <2>3. EmptyReplacement(h) <=> IsPacked(r) /\ s = 0
    BY DEF EmptyReplacement
  <2> HIDE DEF r, s
  <2>4. NewRecord(h) \in Record /\ NewRecord(h).offset = position
    BY <1>1, <2>1, <2>2 DEF Record
  <2>5. EmptyReplacement(h) \/ IsPacked(NewRecord(h)) = IsPacked(r)
    <3>1. NewRecord(h).unpacked = IF IsPacked(r) THEN s ELSE 0
      BY <2>2
    <3>2. IsPacked(NewRecord(h)) = (NewRecord(h).unpacked # 0)
      BY DEF IsPacked
    <3>3. IsPacked(r) \in BOOLEAN
      BY DEF IsPacked
    <3>4. CASE IsPacked(r)
      BY <2>3, <3>1, <3>2, <3>3, <3>4
    <3>5. CASE ~IsPacked(r)
      BY <3>1, <3>2, <3>3, <3>5
    <3> QED
      BY <3>3, <3>4, <3>5
  <2> QED
    BY <2>4, <2>5 DEF r
<1> QED
  BY <1>2, <1>3

LEMMA StoreRecordKeeps == RecordsInv /\ StoreRecord => RecordsInv'
<1> SUFFICES ASSUME RecordsInv, StoreRecord PROVE RecordsInv'
  OBVIOUS
<1> DEFINE e == NewRecord(Current)
           x == Extent(position, e.stored, Current, IsPacked(Records[Current]))
<1>1. /\ pc = "records" /\ Current \in Hashes /\ ~Merged(Current) /\ ~IsBad(Records, Current)
      /\ entries' = Append(entries, e) /\ extents' = extents \cup {x}
      /\ position' = AlignSize(position + e.stored) /\ UNCHANGED <<job, marker, pc, zeroed>>
  BY DEF StoreRecord
<1>2. JobType /\ position \in Nat
  BY DEF RecordsInv, IInv, InOrder
<1>3. /\ e \in Record /\ e.offset = position /\ e.stored \in Nat
      /\ EmptyReplacement(Current) \/ IsPacked(e) = IsPacked(Records[Current])
  BY <1>1, <1>2, NewRecordShape DEF Record
<1>4. /\ x.from = position /\ x.to = position + e.stored
      /\ x.of = Current /\ x.packed = IsPacked(Records[Current])
  BY DEF Extent
<1> HIDE DEF e, x
<1>5. /\ entries' \in Seq(Record) /\ Len(entries') <= Len(Records')
      /\ Len(entries) \in Nat /\ Len(entries') = Len(entries) + 1 /\ Current = Len(entries) + 1
      /\ \A h \in 1 .. Len(entries) : entries'[h] = entries[h]
      /\ entries'[Current] = e
      /\ 1 .. Len(entries') = (1 .. Len(entries)) \cup {Current}
  BY <1>1, <1>3, EntryAdded DEF Current
<1>6. BadPlaced'
  BY <1>1, <1>3, BadPlacedNext
<1>7. MergesChecked'
  <2> SUFFICES ASSUME NEW h \in 1 .. Len(entries'), Merged(h)
               PROVE  job.merge[h] \in Hashes /\ ~Merged(job.merge[h])
    BY <1>1 DEF MergesChecked, Merged, Hashes, Records
  <2> QED
    BY <1>1, <1>5 DEF RecordsInv, MergesChecked
<1>8. FilesStored'
  <2> SUFFICES ASSUME NEW h \in 1 .. Len(entries'), ~Merged(h), ~IsBad(Records, h)
               PROVE  /\ EmptyReplacement(h) \/ IsPacked(entries'[h]) = IsPacked(Records[h])
                      /\ \E y \in extents' : /\ y.from = entries'[h].offset /\ y.to - y.from = entries'[h].stored
                                             /\ y.of = h /\ y.packed = IsPacked(Records[h])
    BY <1>1 DEF FilesStored, Merged, Records, EmptyReplacement
  <2>1. CASE h = Current
    <3>1. x.to - x.from = e.stored
      BY <1>2, <1>3, <1>4
    <3> QED
      BY <1>1, <1>3, <1>4, <1>5, <2>1, <3>1
  <2>2. CASE h \in 1 .. Len(entries)
    <3>1. entries'[h] = entries[h]
      BY <1>5, <2>2
    <3> QED
      BY <1>1, <2>2, <3>1 DEF RecordsInv, FilesStored
  <2> QED
    BY <1>5, <2>1, <2>2
<1>9. IInv'
  BY StoreRecordLayout DEF RecordsInv
<1>10. Places'
  <2>1. position + e.stored \in Nat
    BY <1>2, <1>3
  <2> QED
    BY <1>1, <2>1, Aligned DEF RecordsInv, Places
<1>11. HasLast'
  <2>1. PICK m \in Ends(extents) : \A n \in Ends(extents) : m >= n
    BY <1>1 DEF RecordsInv, HasLast
  <2>2. CASE NoExtent(x)
    <3>1. Ends(extents') = Ends(extents)
      BY <1>1, <2>2 DEF Ends
    <3> QED
      BY <2>1, <3>1 DEF HasLast
  <2>3. CASE ~NoExtent(x)
    <3>1. Ends(extents') = Ends(extents) \cup {x.to}
      BY <1>1, <2>3 DEF Ends
    <3>2. \A n \in Ends(extents) : x.to >= n
      <4> SUFFICES ASSUME NEW n \in Ends(extents) PROVE x.to >= n
        OBVIOUS
      <4>1. CASE n = 0
        BY <1>2, <1>3, <1>4, <4>1
      <4>2. CASE n # 0
        <5>1. PICK y \in extents : n = y.to
          BY <4>2 DEF Ends
        <5>2. y.to \in Nat /\ y.to <= position
          BY <1>1 DEF RecordsInv, IInv, InOrder, Bounded
        <5> QED
          BY <1>2, <1>3, <1>4, <5>1, <5>2
      <4> QED
        BY <4>1, <4>2
    <3>3. x.to >= x.to
      BY <1>2, <1>3, <1>4
    <3> QED
      BY <3>1, <3>2, <3>3 DEF HasLast
  <2> QED
    BY <2>2, <2>3
<1>12. ~Done'
  BY <1>1 DEF Done
<1> QED
  BY <1>1, <1>5, <1>6, <1>7, <1>8, <1>9, <1>10, <1>11, <1>12
  DEF RecordsInv, FilesKept, MergedFollowTarget, BadFollowNext

(* The padding reaches into the last file only.                            *)
LEMMA PaddingSpoils ==
  ASSUME RecordsInv, FinishRebuild, NEW y \in extents', zeroed' \in y.from .. y.to - 1
  PROVE  zeroed' = y.to - 1 /\ y.to % Alignment = 0
<1> DEFINE size == FileSize(extents)
           d == Extent(0, HeaderSize + RecordSize * Len(Records) + (IF marker THEN MarkerSize \div 2 ELSE 0),
                       Header, FALSE)
<1>1. /\ pc = "records"
      /\ zeroed' = IF ~job.origins /\ size # size % Alignment THEN AlignSize(size) - 1 ELSE None
      /\ ~job.origins => extents' = extents \cup {d}
      /\ \A x \in extents' : Bounded(x)
  <2>1. IInv'
    BY FinishRebuildLayout DEF RecordsInv
  <2> QED
    BY <2>1 DEF FinishRebuild, IInv, InOrder
<1>2. y.from \in Nat /\ y.to \in Nat /\ zeroed' >= 0
  BY <1>1 DEF Bounded
<1>3. ~job.origins /\ size # size % Alignment /\ zeroed' = AlignSize(size) - 1
  BY <1>1, <1>2 DEF None
<1>4. PICK m \in Ends(extents) : \A n \in Ends(extents) : m >= n
  BY <1>1 DEF RecordsInv, HasLast
<1>5. size = CHOOSE k \in Ends(extents) : \A n \in Ends(extents) : k >= n
  BY DEF FileSize, Ends, Max
<1>6. size \in Ends(extents) /\ \A n \in Ends(extents) : size >= n
  <2> HIDE DEF size
  <2> QED
    BY <1>4, <1>5
<1>7. \A x \in extents : x.from \in Nat /\ x.to \in Nat /\ x.from <= x.to /\ DataStart <= x.from
  BY <1>1 DEF RecordsInv, IInv, InOrder, Bounded
<1>8. d.to = HeaderEnd /\ HeaderEnd \in Nat /\ DataStart \in Nat /\ HeaderEnd <= DataStart
  <2>1. HeaderEnd \in Nat /\ DataStart \in Nat /\ HeaderEnd <= DataStart
    BY HeaderFits DEF RecordsInv, IInv
  <2>2. d = Extent(0, HeaderEnd, Header, FALSE)
    BY DEF HeaderEnd
  <2>3. d.to = 0 + HeaderEnd
    BY <2>2 DEF Extent
  <2> HIDE DEF d
  <2> QED
    BY <2>1, <2>3
<1> HIDE DEF size, d
<1>9. Alignment \in Nat \ {0}
  BY SizesAssumption
<1>10. size # 0
  BY <1>3, <1>9
<1>11. PICK x \in extents : ~NoExtent(x) /\ size = x.to
  BY <1>6, <1>10 DEF Ends
<1>12. size \in Nat /\ DataStart < size
  BY <1>7, <1>8, <1>11 DEF NoExtent
<1>13. AlignSize(size) \in Nat /\ size <= AlignSize(size) /\ AlignSize(size) % Alignment = 0
  BY <1>12, Aligned
<1>14. CASE y = d
  BY <1>3, <1>8, <1>12, <1>13, <1>14
<1>15. CASE y \in extents
  <2>1. AlignSize(size) <= y.to
    BY <1>2, <1>3, <1>13
  <2>2. ~NoExtent(y)
    BY <1>2 DEF NoExtent
  <2>3. y.to <= size
    BY <1>6, <1>15, <2>2 DEF Ends
  <2>4. y.to = AlignSize(size)
    BY <1>2, <1>12, <1>13, <2>1, <2>3
  <2> QED
    BY <1>3, <1>13, <2>4
<1> QED
  BY <1>1, <1>3, <1>14, <1>15

LEMMA FinishRebuildKeeps == RecordsInv /\ FinishRebuild => RecordsInv'
<1> SUFFICES ASSUME RecordsInv, FinishRebuild PROVE RecordsInv'
  OBVIOUS
<1> DEFINE resolved == ResolveMapping(entries)
<1>1. /\ pc = "records" /\ Current \notin Hashes /\ pc' = "done"
      /\ entries' = FixBadRecords(resolved) /\ extents \subseteq extents'
      /\ UNCHANGED <<job, marker, position>>
  BY DEF FinishRebuild
<1>2. /\ JobType /\ entries \in Seq(Record) /\ Len(entries) <= Len(Records)
      /\ MergesChecked /\ FilesStored /\ BadPlaced
  BY <1>1 DEF RecordsInv, IInv
<1>3. Len(Records) \in Nat \ {0} /\ Hashes = 1 .. Len(Records)
  BY <1>2, GivenShape
<1>4. Len(entries) = Len(Records)
  BY <1>1, <1>2, <1>3 DEF Current
<1>5. \A h \in Hashes : resolved[h] = IF Merged(h) THEN entries[job.merge[h]] ELSE entries[h]
  BY DEF ResolveMapping
<1>6. entries' = [h \in Hashes |-> IF IsBad(Records, h) /\ ~Merged(h)
                                   THEN [resolved[h] EXCEPT !.offset = resolved[h + 1].offset]
                                   ELSE resolved[h]]
  BY <1>1 DEF FixBadRecords
<1> HIDE DEF resolved
<1>7. \A h \in Hashes : /\ entries[h] \in Record
                        /\ Merged(h) => job.merge[h] \in Hashes /\ ~Merged(job.merge[h])
  BY <1>2, <1>3, <1>4 DEF MergesChecked
<1>8. \A h \in Hashes : resolved[h] \in Record
  BY <1>5, <1>7
<1>9. \A h \in Hashes : IsBad(Records, h) => h + 1 \in Hashes
  BY <1>3 DEF IsBad
<1>10. \A h \in Hashes : /\ ~(IsBad(Records, h) /\ ~Merged(h)) => entries'[h] = resolved[h]
                         /\ IsBad(Records, h) /\ ~Merged(h) => entries'[h].offset = resolved[h + 1].offset
                         /\ entries'[h].stored = resolved[h].stored
                         /\ entries'[h].unpacked = resolved[h].unpacked
                         /\ entries'[h] \in Record
  BY <1>6, <1>8, <1>9 DEF Record
<1>11. entries' \in Seq(Record) /\ Len(entries') <= Len(Records')
  <2>1. entries' \in [1 .. Len(Records) -> Record]
    BY <1>3, <1>6, <1>10
  <2>2. entries' \in Seq(Record) /\ Len(entries') = Len(Records)
    BY <1>3, <2>1
  <2> QED
    BY <1>1, <1>3, <2>2 DEF Records
<1>12. \A h \in Hashes : IsBad(Records, h) /\ ~Merged(h) => entries[h].offset = entries[h + 1].offset
  BY <1>2, <1>3, <1>4, <1>9 DEF BadPlaced
<1>13. FilesKept'
  <2>1. ASSUME NEW h \in Hashes, ~Merged(h), ~IsBad(Records, h), ~EmptyReplacement(h)
        PROVE  \E x \in extents' : /\ x.from = entries'[h].offset /\ x.to - x.from = entries'[h].stored
                                   /\ x.of = h /\ x.packed = IsPacked(entries'[h])
    <3>1. entries'[h] = entries[h]
      BY <1>5, <1>10, <2>1
    <3>2. IsPacked(entries[h]) = IsPacked(Records[h])
      BY <1>2, <1>3, <1>4, <2>1 DEF FilesStored
    <3>3. PICK x \in extents : /\ x.from = entries[h].offset /\ x.to - x.from = entries[h].stored
                               /\ x.of = h /\ x.packed = IsPacked(Records[h])
      BY <1>2, <1>3, <1>4, <2>1 DEF FilesStored
    <3> QED
      BY <1>1, <3>1, <3>2, <3>3
  <2>2. \A x \in extents' : zeroed' \in x.from .. x.to - 1 => zeroed' = x.to - 1 /\ x.to % Alignment = 0
    BY PaddingSpoils
  <2> QED
    BY <1>1, <2>1, <2>2 DEF FilesKept, Reads, Spoilt, Hashes, Records, Merged, EmptyReplacement
<1>14. MergedFollowTarget'
  <2> SUFFICES ASSUME NEW h \in Hashes, Merged(h)
               PROVE  LET t == job.merge[h]
                      IN /\ entries'[h].stored = entries'[t].stored
                         /\ entries'[h].unpacked = entries'[t].unpacked
                         /\ \/ entries'[h].offset = entries'[t].offset
                            \/ IsBad(Records, t) /\ ~Merged(t) /\ Merged(t + 1)
    BY <1>1 DEF MergedFollowTarget, Hashes, Records, Merged, Displaced
  <2> DEFINE t == job.merge[h]
  <2>1. t \in Hashes /\ ~Merged(t)
    BY <1>7
  <2> HIDE DEF t
  <2>2. entries'[h] = entries[t] /\ resolved[t] = entries[t]
    BY <1>5, <1>10, <2>1 DEF t
  <2>3. entries'[t].stored = entries[t].stored /\ entries'[t].unpacked = entries[t].unpacked
    BY <1>10, <2>1, <2>2
  <2>4. CASE ~IsBad(Records, t)
    <3>1. entries'[t] = entries[t]
      BY <1>10, <2>1, <2>2, <2>4
    <3> QED
      BY <2>2, <3>1 DEF t
  <2>5. CASE IsBad(Records, t) /\ ~Merged(t + 1)
    <3>1. entries'[t].offset = resolved[t + 1].offset /\ t + 1 \in Hashes
      BY <1>9, <1>10, <2>1, <2>5
    <3>2. resolved[t + 1] = entries[t + 1] /\ entries[t].offset = entries[t + 1].offset
      BY <1>5, <1>12, <2>1, <2>5, <3>1
    <3> QED
      BY <2>2, <2>3, <3>1, <3>2 DEF t
  <2>6. CASE IsBad(Records, t) /\ Merged(t + 1)
    BY <2>1, <2>2, <2>3, <2>6 DEF t
  <2> QED
    BY <2>4, <2>5, <2>6
<1>15. BadFollowNext'
  <2> SUFFICES ASSUME NEW h \in Hashes, IsBad(Records, h), ~Merged(h)
               PROVE  \/ entries'[h].offset = entries'[h + 1].offset
                      \/ IsBad(Records, h + 1) /\ ~Merged(h + 1) /\ Merged(h + 2)
    <3>1. \A h \in Hashes : (h + 1) + 1 = h + 2
      BY <1>3
    <3> QED
      BY <1>1, <3>1 DEF BadFollowNext, Hashes, Records, Merged, Displaced
  <2>1. h + 1 \in Hashes /\ entries'[h].offset = resolved[h + 1].offset
    BY <1>9, <1>10
  <2>2. CASE ~(IsBad(Records, h + 1) /\ ~Merged(h + 1))
    BY <1>10, <2>1, <2>2
  <2>3. CASE IsBad(Records, h + 1) /\ ~Merged(h + 1) /\ ~Merged(h + 2)
    <3>1. h + 2 \in Hashes /\ (h + 1) + 1 = h + 2
      BY <1>3, <1>9, <2>1, <2>3
    <3>2. entries'[h + 1].offset = resolved[h + 2].offset
      BY <1>10, <2>1, <2>3, <3>1
    <3>3. resolved[h + 1] = entries[h + 1] /\ resolved[h + 2] = entries[h + 2]
      BY <1>5, <2>1, <2>3, <3>1
    <3>4. entries[h + 1].offset = entries[h + 2].offset
      BY <1>12, <2>1, <2>3, <3>1
    <3> QED
      BY <2>1, <3>2, <3>3, <3>4
  <2> QED
    BY <2>2, <2>3
<1>16. Places'
  <2>1. zeroed' \in Nat \cup {None}
    <3> DEFINE size == FileSize(extents)
    <3>1. zeroed' = IF ~job.origins /\ size # size % Alignment THEN AlignSize(size) - 1 ELSE None
      BY DEF FinishRebuild
    <3>2. PICK m \in Ends(extents) : \A n \in Ends(extents) : m >= n
      BY <1>1 DEF RecordsInv, HasLast
    <3>3. size = CHOOSE k \in Ends(extents) : \A n \in Ends(extents) : k >= n
      BY DEF FileSize, Ends, Max
    <3> HIDE DEF size
    <3>4. size \in Ends(extents)
      BY <3>2, <3>3
    <3>5. size \in Nat
      BY <3>4 DEF Ends, RecordsInv, IInv, InOrder, Bounded
    <3>6. size # size % Alignment => AlignSize(size) - 1 \in Nat
      <4>1. Alignment \in Nat \ {0} /\ 0 % Alignment = 0
        BY SizesAssumption
      <4>2. AlignSize(size) \in Nat /\ size <= AlignSize(size)
        BY <3>5, Aligned
      <4> QED
        BY <3>5, <4>1, <4>2
    <3> QED
      BY <3>1, <3>6
  <2> QED
    BY <1>1, <2>1 DEF RecordsInv, Places
<1>17. IInv'
  BY FinishRebuildLayout DEF RecordsInv
<1> QED
  BY <1>1, <1>11, <1>13, <1>14, <1>15, <1>16, <1>17 DEF RecordsInv

LEMMA RecordsStep == RecordsInv /\ [Next]_vars => RecordsInv'
<1> SUFFICES ASSUME RecordsInv, [Next]_vars PROVE RecordsInv'
  OBVIOUS
<1>1. CASE StopRebuild
  <2>1. IInv'
    BY <1>1, QuietLayout DEF RecordsInv, StopRebuild
  <2> QED
    BY <1>1, <2>1 DEF StopRebuild, RecordsInv, Places, Records, Done, FilesKept, MergedFollowTarget,
      BadFollowNext
<1>2. CASE MergeRecord
  <2>1. CASE job.merge[Current] \in Hashes /\ ~Merged(job.merge[Current])
    BY <1>2, <2>1, NothingWritten DEF MergeRecord
  <2>2. CASE ~(job.merge[Current] \in Hashes /\ ~Merged(job.merge[Current]))
    <3>1. pc' = "failed" /\ UNCHANGED <<job, marker, position, entries, extents, zeroed>>
      BY <1>2, <2>2 DEF MergeRecord
    <3>2. IInv'
      BY <3>1, QuietLayout DEF RecordsInv
    <3> QED
      BY <3>1, <3>2 DEF RecordsInv, Places, Records, Done, FilesKept, MergedFollowTarget, BadFollowNext
  <2> QED
    BY <2>1, <2>2
<1>3. CASE PassBadRecord
  BY <1>3, NothingWritten DEF PassBadRecord
<1>4. CASE StoreRecord
  BY <1>4, StoreRecordKeeps
<1>5. CASE FinishRebuild
  BY <1>5, FinishRebuildKeeps
<1>6. CASE UNCHANGED vars
  <2>1. IInv'
    BY <1>6, QuietLayout DEF RecordsInv, vars
  <2> QED
    BY <1>6, <2>1 DEF vars, RecordsInv, Places, HasLast, MergesChecked, FilesStored, BadPlaced,
      FilesKept, MergedFollowTarget, BadFollowNext, Done, Records, Hashes, Merged, Displaced,
      EmptyReplacement, Reads, Spoilt
<1> QED
  BY <1>1, <1>2, <1>3, <1>4, <1>5, <1>6 DEF Next

LEMMA RecordsHold == Spec => []RecordsInv
BY RecordsInit, RecordsStep, PTL DEF Spec

(* A rebuild keeps its types: it is at an aligned place, and has an entry  *)
(* for each record it has come past.                                       *)
THEOREM TypeCorrect == Spec => []TypeOK
<1>1. RecordsInv => TypeOK
  BY GivenShape DEF RecordsInv, IInv, InOrder, Bounded, JobType, Places, TypeOK
<1> QED
  BY <1>1, RecordsHold, PTL

(* Every sound file, replaced or not, is where its record in the new       *)
(* archive says and as packed as it says, and of all that is written the   *)
(* padding spoils at most the last byte of the file that ends the archive. *)
THEOREM FilesSurvive == Spec => []FilesKept
<1>1. RecordsInv => FilesKept
  BY DEF RecordsInv
<1> QED
  BY <1>1, RecordsHold, PTL

(* A merged record ends up with the sizes of its target, which rebuild has *)
(* asked to be a record that is not merged itself, and with its place, if  *)
(* the target is not a bad record before a merged one: such a record is    *)
(* moved after those merged into it have been given the place it had.      *)
THEOREM MergedAreTargets == Spec => []MergedFollowTarget
<1>1. RecordsInv => MergedFollowTarget
  BY DEF RecordsInv
<1> QED
  BY <1>1, RecordsHold, PTL

(* A bad record still shares the offset of its successor, unless that is   *)
(* moved again after it.                                                   *)
THEOREM BadShareNext == Spec => []BadFollowNext
<1>1. RecordsInv => BadFollowNext
  BY DEF RecordsInv
<1> QED
  BY <1>1, RecordsHold, PTL

-----------------------------------------------------------------------------
(* The files replaced while an archive is rebuilt, as FileSources has them *)
(* read.  First, numbers.                                                  *)

(* Of the naturals in a set there is a least.                              *)
LEMMA LeastNat ==
  ASSUME NEW T, T \subseteq Nat, T # {}
  PROVE  \E x \in T : \A y \in T : x <= y
<1>1. PICK x \in T : \A y \in T : ~(<<y, x>> \in OpToRel(<, Nat))
  BY NatLessThanWellFounded, WFMin
<1>2. \A y \in T : ~(y < x)
  BY <1>1 DEF OpToRel
<1> QED
  BY <1>2

LEMMA DivMod ==
  ASSUME NEW i \in Int, NEW B \in Nat \ {0}
  PROVE  \E q, r \in Int : r = i % B /\ i = q * B + r /\ 0 <= r /\ r < B
<1>1. i % B \in Int /\ i \div B \in Int
  OBVIOUS
<1>2. i = (i \div B) * B + (i % B) /\ 0 <= i % B /\ i % B < B
  OBVIOUS
<1> QED
  BY <1>1, <1>2

LEMMA ModUnique ==
  ASSUME NEW B \in Nat \ {0}, NEW q \in Int, NEW r \in Int, 0 <= r, r < B
  PROVE  (q * B + r) % B = r
<1>1. \A n \in Int, u \in Int, s \in Int : n = u * B + s /\ 0 <= s /\ s < B => s = n % B
  OBVIOUS
<1>2. q * B + r \in Int
  OBVIOUS
<1> QED
  BY <1>1, <1>2

(* There is one way to fill up a size to a multiple.                       *)
LEMMA FillUnique ==
  ASSUME NEW B \in Nat \ {0}, NEW s \in Int, NEW n \in Int, NEW m \in Int,
         0 <= n, n <= m, m < B, (s + n) % B = 0, (s + m) % B = 0
  PROVE  n = m
<1>1. s + n \in Int /\ s + m \in Int
  OBVIOUS
<1>2. PICK a, r \in Int : r = (s + n) % B /\ s + n = a * B + r
  BY <1>1, DivMod
<1>3. PICK u \in Int : u = a * B
  OBVIOUS
<1>4. m - n \in Int /\ 0 <= m - n /\ m - n < B
  OBVIOUS
<1>5. (a * B + (m - n)) % B = m - n
  BY <1>4, ModUnique
<1>6. s + m = u + (m - n)
  BY <1>2, <1>3
<1> QED
  BY <1>3, <1>5, <1>6

LEMMA FillIs ==
  ASSUME NEW B \in Nat \ {0}, NEW s \in Int, NEW n \in 0 .. B - 1, (s + n) % B = 0
  PROVE  (CHOOSE m \in 0 .. B - 1 : (s + m) % B = 0) = n
<1>1. PICK m : m = CHOOSE k \in 0 .. B - 1 : (s + k) % B = 0
  OBVIOUS
<1>2. m \in 0 .. B - 1 /\ (s + m) % B = 0
  BY <1>1
<1>3. m \in Int /\ n \in Int /\ 0 <= m /\ m < B /\ 0 <= n /\ n < B
  BY <1>2
<1>4. CASE n <= m
  BY <1>1, <1>2, <1>3, <1>4, FillUnique
<1>5. CASE m <= n
  BY <1>1, <1>2, <1>3, <1>5, FillUnique
<1> QED
  BY <1>3, <1>4, <1>5

(* Rounding up fills up, and so does what the stop marker states.          *)
LEMMA RoundedUp ==
  ASSUME NEW B \in Nat \ {0}, NEW s \in Nat
  PROVE  LET n == ((s + B - 1) - ((s + B - 1) % B)) - s IN
         n \in 0 .. B - 1 /\ (s + n) % B = 0
<1>1. PICK t \in Int : t = s + B - 1
  OBVIOUS
<1>2. PICK q, r \in Int : r = t % B /\ t = q * B + r /\ 0 <= r /\ r < B
  BY <1>1, DivMod
<1>3. PICK u \in Int : u = q * B
  OBVIOUS
<1>4. PICK n : n = (t - r) - s
  OBVIOUS
<1>5. n \in 0 .. B - 1 /\ s + n = u
  BY <1>1, <1>2, <1>3, <1>4
<1>6. (q * B + 0) % B = 0
  BY ModUnique
<1>7. (s + n) % B = 0
  BY <1>3, <1>5, <1>6
<1> QED
  BY <1>1, <1>2, <1>4, <1>5, <1>7

LEMMA FilledUp ==
  ASSUME NEW B \in Nat \ {0}, NEW s \in Nat
  PROVE  \A n : n = (B - (s % B)) % B => n \in 0 .. B - 1 /\ (s + n) % B = 0
<1> SUFFICES ASSUME NEW n, n = (B - (s % B)) % B
             PROVE  n \in 0 .. B - 1 /\ (s + n) % B = 0
  OBVIOUS
<1>0. s \in Int
  OBVIOUS
<1>1. PICK q, r \in Int : r = s % B /\ s = q * B + r /\ 0 <= r /\ r < B
  BY <1>0, DivMod
<1>2. PICK u \in Int : u = q * B
  OBVIOUS
<1>3. CASE r = 0
  <2>1. (1 * B + 0) % B = 0
    BY ModUnique
  <2>2. B - r = 1 * B + 0
    BY <1>3
  <2>3. (B - (s % B)) % B = 0
    BY <1>1, <2>1, <2>2
  <2>4. s + 0 = s /\ s % B = 0 /\ 0 \in 0 .. B - 1
    BY <1>1, <1>3
  <2>5. n = 0
    BY <2>3
  <2> QED
    BY <2>4, <2>5
<1>4. CASE r # 0
  <2>1. PICK m \in Int : m = B - r
    BY <1>1
  <2>2. m \in 0 .. B - 1 /\ 0 <= m /\ m < B /\ m = 0 * B + m
    BY <1>1, <1>4, <2>1
  <2>3. (0 * B + m) % B = m
    BY <2>2, ModUnique
  <2>4. ((q + 1) * B + 0) % B = 0
    BY ModUnique
  <2>5. s + m = (q + 1) * B + 0
    <3>1. PICK v \in Int : v = (q + 1) * B + 0
      OBVIOUS
    <3>2. v = u + B
      <4>1. v = q * B + B
        BY <3>1
      <4> QED
        BY <1>2, <4>1
    <3>3. s = q * B + r
      BY <1>1
    <3>4. s = u + r
      BY <1>2, <3>3
    <3>5. s + m = u + B
      BY <2>1, <3>4
    <3> QED
      BY <3>1, <3>2, <3>5
  <2>6. (B - (s % B)) % B = m
    BY <1>1, <2>1, <2>2, <2>3
  <2> QED
    BY <2>2, <2>4, <2>5, <2>6
<1> QED
  BY <1>3, <1>4

-----------------------------------------------------------------------------
(* The segments of a file                                                  *)

LEMMA SegmentSizeTyped ==
  ASSUME NEW s \in Segment
  PROVE  SegmentSize(s) \in Nat /\ SegmentSize(s) = 1 + (IF s.font THEN 1 ELSE 0) + s.size /\ s.size \in Nat
BY DEF Segment, SegmentSize

LEMMA SegmentTyped ==
  ASSUME NEW ss \in Seq(Segment), NEW i \in 1 .. Len(ss)
  PROVE  ss[i] \in Segment
OBVIOUS

(* Positions, up to a segment.                                             *)
IsPositions(ss, f, n) ==
  f = [i \in 1 .. n + 1 |-> IF i = 1 THEN 0 ELSE f[i - 1] + 1 + SegmentSize(ss[i - 1])]

LEMMA PositionsExist ==
  ASSUME NEW ss, NEW n \in Nat
  PROVE  \E f : IsPositions(ss, f, n)
<1> DEFINE T == {m \in Nat : ~ \E f : IsPositions(ss, f, m)}
<1> SUFFICES ASSUME T # {} PROVE FALSE
  OBVIOUS
<1>1. PICK m \in T : \A y \in T : m <= y
  <2>1. T \subseteq Nat
    OBVIOUS
  <2> HIDE DEF T
  <2> QED
    BY <2>1, LeastNat
<1>2. CASE m = 0
  <2> DEFINE g == [i \in 1 .. 1 |-> 0]
  <2>1. g = [i \in 1 .. 0 + 1 |-> IF i = 1 THEN 0 ELSE g[i - 1] + 1 + SegmentSize(ss[i - 1])]
    OBVIOUS
  <2>2. IsPositions(ss, g, 0)
    BY <2>1 DEF IsPositions
  <2> QED
    BY <1>1, <1>2, <2>2
<1>3. CASE m # 0
  <2>1. m - 1 \in Nat /\ m \in Nat /\ m - 1 \notin T /\ m - 1 + 1 = m
    BY <1>1, <1>3
  <2>2. PICK f : IsPositions(ss, f, m - 1)
    BY <2>1
  <2>3. \A i \in 1 .. m : f[i] = IF i = 1 THEN 0 ELSE f[i - 1] + 1 + SegmentSize(ss[i - 1])
    <3>1. f = [i \in 1 .. m |-> IF i = 1 THEN 0 ELSE f[i - 1] + 1 + SegmentSize(ss[i - 1])]
      BY <2>1, <2>2 DEF IsPositions
    <3> QED
      BY <3>1, Zenon
  <2>4. PICK g : g = [i \in 1 .. m + 1 |-> IF i = m + 1 THEN f[m] + 1 + SegmentSize(ss[m]) ELSE f[i]]
    OBVIOUS
  <2>5. ASSUME NEW i \in 1 .. m + 1
        PROVE  g[i] = IF i = 1 THEN 0 ELSE g[i - 1] + 1 + SegmentSize(ss[i - 1])
    <3>1. CASE i = m + 1
      <4>1. g[m] = f[m] /\ g[m + 1] = f[m] + 1 + SegmentSize(ss[m])
        BY <1>3, <2>1, <2>4
      <4>2. i - 1 = m /\ i # 1
        BY <1>3, <2>1, <3>1
      <4> QED
        BY <3>1, <4>1, <4>2
    <3>2. CASE i # m + 1 /\ i # 1
      <4>1. i \in 1 .. m /\ i - 1 \in 1 .. m + 1 /\ i - 1 # m + 1
        BY <2>1, <3>2
      <4>2. g[i] = f[i] /\ g[i - 1] = f[i - 1]
        BY <2>4, <3>2, <4>1
      <4> QED
        BY <2>3, <3>2, <4>1, <4>2
    <3>3. CASE i # m + 1 /\ i = 1
      <4>1. i \in 1 .. m
        BY <2>1, <3>3
      <4> QED
        BY <2>3, <2>4, <3>3, <4>1
    <3> QED
      BY <3>1, <3>2, <3>3
  <2>6. g = [i \in 1 .. m + 1 |-> g[i]]
    BY <2>4
  <2>7. IsPositions(ss, g, m)
    BY <2>5, <2>6 DEF IsPositions
  <2> QED
    BY <1>1, <2>7
<1> QED
  BY <1>2, <1>3

LEMMA PositionsAre ==
  ASSUME NEW ss \in Seq(Segment)
  PROVE  /\ Positions(ss)[1] = 0
         /\ \A i \in 1 .. Len(ss) + 1 : Positions(ss)[i] \in Nat
         /\ \A i \in 1 .. Len(ss) : Positions(ss)[i + 1] = Positions(ss)[i] + 1 + SegmentSize(ss[i])
<1>1. Positions(ss) = CHOOSE f : IsPositions(ss, f, Len(ss))
  BY DEF Positions, IsPositions
<1>2. PICK f : f = Positions(ss)
  OBVIOUS
<1>3. Len(ss) \in Nat
  OBVIOUS
<1>4. IsPositions(ss, f, Len(ss))
  BY <1>1, <1>2, <1>3, PositionsExist
<1>5. \A i \in 1 .. Len(ss) + 1 : f[i] = IF i = 1 THEN 0 ELSE f[i - 1] + 1 + SegmentSize(ss[i - 1])
  BY <1>4, Zenon DEF IsPositions
<1>6. f[1] = 0
  BY <1>3, <1>5
<1>7. ASSUME NEW i \in 1 .. Len(ss)
      PROVE  f[i + 1] = f[i] + 1 + SegmentSize(ss[i])
  <2>1. i + 1 \in 1 .. Len(ss) + 1 /\ i + 1 - 1 = i /\ i + 1 # 1
    BY <1>3
  <2> QED
    BY <1>5, <2>1
<1> DEFINE T == {i \in 1 .. Len(ss) + 1 : f[i] \notin Nat}
<1>8. T = {}
  <2> SUFFICES ASSUME T # {} PROVE FALSE
    OBVIOUS
  <2>1. PICK i \in T : \A y \in T : i <= y
    <3>1. T \subseteq Nat
      OBVIOUS
    <3> HIDE DEF T
    <3> QED
      BY <3>1, LeastNat
  <2>2. i # 1 /\ i \in 1 .. Len(ss) + 1
    BY <1>6, <2>1
  <2>3. i - 1 \in 1 .. Len(ss) /\ i - 1 + 1 = i /\ i - 1 \in 1 .. Len(ss) + 1
    BY <1>3, <2>2
  <2>4. f[i - 1] \in Nat
    BY <2>1, <2>3
  <2>5. f[i] = f[i - 1] + 1 + SegmentSize(ss[i - 1])
    BY <1>7, <2>3
  <2>6. SegmentSize(ss[i - 1]) \in Nat
    BY <2>3, SegmentTyped, SegmentSizeTyped
  <2> QED
    BY <2>1, <2>4, <2>5, <2>6
<1>9. \A i \in 1 .. Len(ss) + 1 : f[i] \in Nat
  BY <1>8
<1> QED
  BY <1>2, <1>6, <1>7, <1>9

LEMMA PositionsGrow ==
  ASSUME NEW ss \in Seq(Segment), NEW i \in 1 .. Len(ss) + 1, NEW j \in 1 .. Len(ss) + 1, i <= j
  PROVE  Positions(ss)[i] <= Positions(ss)[j]
<1>1. PICK f : f = Positions(ss)
  OBVIOUS
<1>2. Len(ss) \in Nat /\ i \in Nat /\ j \in Nat
  OBVIOUS
<1>3. /\ \A k \in 1 .. Len(ss) + 1 : f[k] \in Nat
      /\ \A k \in 1 .. Len(ss) : f[k + 1] = f[k] + 1 + SegmentSize(ss[k])
  BY <1>1, PositionsAre
<1> DEFINE T == {k \in i .. Len(ss) + 1 : ~ (f[i] <= f[k])}
<1>4. T = {}
  <2> SUFFICES ASSUME T # {} PROVE FALSE
    OBVIOUS
  <2>1. PICK k \in T : \A y \in T : k <= y
    <3>1. T \subseteq Nat
      BY <1>2
    <3> HIDE DEF T
    <3> QED
      BY <3>1, LeastNat
  <2>2. k \in i .. Len(ss) + 1 /\ ~ (f[i] <= f[k])
    OBVIOUS
  <2>3. k # i
    BY <1>2, <1>3, <2>2
  <2>4. k - 1 \in i .. Len(ss) + 1 /\ k - 1 \in 1 .. Len(ss) /\ k - 1 + 1 = k /\ ~ (k <= k - 1)
    BY <1>2, <2>2, <2>3
  <2>5. f[i] <= f[k - 1]
    BY <2>1, <2>4
  <2>6. f[k] = f[k - 1] + 1 + SegmentSize(ss[k - 1]) /\ SegmentSize(ss[k - 1]) \in Nat
    BY <1>3, <2>4, SegmentTyped, SegmentSizeTyped
  <2>7. f[i] \in Nat /\ f[k - 1] \in Nat
    BY <1>2, <1>3, <2>4
  <2> QED
    BY <2>2, <2>5, <2>6, <2>7
<1>5. j \in i .. Len(ss) + 1
  BY <1>2
<1> QED
  BY <1>1, <1>4, <1>5

-----------------------------------------------------------------------------
(* Bytes                                                                   *)

Tags == {"stream", "raster", "palette", "segment", "info", "font", "glyph", "X", "stop", "zero"}
Byte == Tags \X Int \X Int

LEMMA TagsAre ==
  /\ "stream" \in Tags /\ "raster" \in Tags /\ "palette" \in Tags /\ "segment" \in Tags
  /\ "info" \in Tags /\ "font" \in Tags /\ "glyph" \in Tags /\ "X" \in Tags
  /\ "stop" \in Tags /\ "zero" \in Tags
BY DEF Tags

LEMMA Joined ==
  ASSUME NEW a \in Seq(Byte), NEW b \in Seq(Byte)
  PROVE  a \o b \in Seq(Byte) /\ Len(a \o b) = Len(a) + Len(b) /\ Len(a) \in Nat /\ Len(b) \in Nat
BY ConcatProperties

LEMMA JoinedInAnyOrder ==
  ASSUME NEW a \in Seq(Byte), NEW b \in Seq(Byte), NEW c \in Seq(Byte)
  PROVE  a \o b \o c = a \o (b \o c)
BY ConcatAssociative

LEMMA ByteTyped ==
  ASSUME NEW tag \in Tags, NEW i \in Int, NEW n \in Int
  PROVE  <<tag, i, n>> \in Byte
BY DEF Byte

LEMMA BytesTyped ==
  ASSUME NEW tag \in Tags, NEW i \in Int, NEW from \in Int, NEW n \in Nat
  PROVE  /\ Bytes(tag, i, from, n) \in Seq(Byte) /\ Len(Bytes(tag, i, from, n)) = n
         /\ \A k \in 1 .. n : Bytes(tag, i, from, n)[k] = <<tag, i, from + k - 1>>
<1>1. ASSUME NEW k \in 1 .. n PROVE <<tag, i, from + k - 1>> \in Byte
  <2>1. from + k - 1 \in Int
    OBVIOUS
  <2> QED
    BY <2>1, ByteTyped
<1>2. PICK b : b = [k \in 1 .. n |-> <<tag, i, from + k - 1>>]
  OBVIOUS
<1>3. \A k \in 1 .. n : b[k] = <<tag, i, from + k - 1>>
  BY <1>2
<1>4. b = [k \in 1 .. n |-> b[k]] /\ \A k \in 1 .. n : b[k] \in Byte
  BY <1>1, <1>2, <1>3
<1>5. b \in Seq(Byte) /\ Len(b) = n
  BY <1>4
<1>6. Bytes(tag, i, from, n) = b
  BY <1>2 DEF Bytes
<1> QED
  BY <1>3, <1>5, <1>6

(* Bytes of the stream, and of the font put into it.                       *)
LEMMA CopiedTyped ==
  ASSUME NEW from \in Nat, NEW n \in Nat
  PROVE  /\ Bytes("stream", 0, from, n) \in Seq(Byte) /\ Len(Bytes("stream", 0, from, n)) = n
         /\ Bytes("glyph", 0, from, n) \in Seq(Byte) /\ Len(Bytes("glyph", 0, from, n)) = n
<1>1. 0 \in Int /\ from \in Int
  OBVIOUS
<1>2. Bytes("stream", 0, from, n) \in Seq(Byte) /\ Len(Bytes("stream", 0, from, n)) = n
  <2>1. "stream" \in Tags
    BY TagsAre
  <2> QED
    BY <1>1, <2>1, BytesTyped, Zenon
<1>3. Bytes("glyph", 0, from, n) \in Seq(Byte) /\ Len(Bytes("glyph", 0, from, n)) = n
  <2>1. "glyph" \in Tags
    BY TagsAre
  <2> QED
    BY <1>1, <2>1, BytesTyped, Zenon
<1> QED
  BY <1>2, <1>3

LEMMA NoBytes ==
  ASSUME NEW tag \in Tags, NEW i \in Int, NEW from \in Int
  PROVE  Bytes(tag, i, from, 0) = <<>>
<1>1. Bytes(tag, i, from, 0) \in Seq(Byte) /\ Len(Bytes(tag, i, from, 0)) = 0
  BY BytesTyped
<1> QED
  BY <1>1, EmptySeq

(* A run of bytes is that of its first n and that of those that follow.    *)
Splits(tag, i, from, n, m) ==
  Bytes(tag, i, from, n) \o Bytes(tag, i, from + n, m) = Bytes(tag, i, from, n + m)

LEMMA BytesSplit ==
  ASSUME NEW tag \in Tags, NEW i \in Int, NEW from \in Int, NEW n \in Nat, NEW m \in Nat
  PROVE  Splits(tag, i, from, n, m)
<1>1. PICK a : a = Bytes(tag, i, from, n)
  OBVIOUS
<1>2. PICK b : b = Bytes(tag, i, from + n, m)
  OBVIOUS
<1>3. PICK c : c = Bytes(tag, i, from, n + m)
  OBVIOUS
<1>4. from + n \in Int /\ n + m \in Nat
  OBVIOUS
<1>5. /\ a \in Seq(Byte) /\ Len(a) = n /\ \A k \in 1 .. n : a[k] = <<tag, i, from + k - 1>>
      /\ b \in Seq(Byte) /\ Len(b) = m /\ \A k \in 1 .. m : b[k] = <<tag, i, from + n + k - 1>>
      /\ c \in Seq(Byte) /\ Len(c) = n + m /\ \A k \in 1 .. n + m : c[k] = <<tag, i, from + k - 1>>
  <2>1. a \in Seq(Byte) /\ Len(a) = n /\ \A k \in 1 .. n : a[k] = <<tag, i, from + k - 1>>
    BY <1>1, BytesTyped
  <2>2. b \in Seq(Byte) /\ Len(b) = m /\ \A k \in 1 .. m : b[k] = <<tag, i, from + n + k - 1>>
    BY <1>2, <1>4, BytesTyped
  <2>3. c \in Seq(Byte) /\ Len(c) = n + m /\ \A k \in 1 .. n + m : c[k] = <<tag, i, from + k - 1>>
    BY <1>3, <1>4, BytesTyped
  <2> QED
    BY <2>1, <2>2, <2>3
<1>6. a \o b \in Seq(Byte) /\ Len(a \o b) = n + m
  <2>1. a \in Seq(Byte) /\ b \in Seq(Byte) /\ Len(a) = n /\ Len(b) = m
    BY <1>5
  <2>2. a \o b \in Seq(Byte) /\ Len(a \o b) = Len(a) + Len(b)
    BY <2>1, Joined
  <2> QED
    BY <2>1, <2>2
<1>7. ASSUME NEW k \in 1 .. n + m
      PROVE  (a \o b)[k] = c[k]
  <2>1. CASE k <= n
    <3>1. k \in 1 .. n /\ (a \o b)[k] = a[k]
      BY <1>5, <2>1
    <3> QED
      BY <1>5, <3>1
  <2>2. CASE ~ (k <= n)
    <3>1. k - n \in 1 .. m /\ (a \o b)[k] = b[k - n]
      BY <1>5, <2>2
    <3>2. from + n + (k - n) - 1 = from + k - 1
      OBVIOUS
    <3>3. b[k - n] = <<tag, i, from + n + (k - n) - 1>>
      BY <1>5, <3>1
    <3> QED
      BY <1>5, <3>1, <3>2, <3>3
  <2> QED
    BY <2>1, <2>2
<1>8. a \o b = c
  <2>1. \A k \in 1 .. Len(a \o b) : (a \o b)[k] = c[k]
    BY <1>6, <1>7
  <2> QED
    BY <1>5, <1>6, <2>1, SeqEqual
<1> QED
  BY <1>1, <1>2, <1>3, <1>8 DEF Splits

LEMMA FillTyped ==
  ASSUME NEW b \in Byte, NEW n \in Nat
  PROVE  [k \in 1 .. n |-> b] \in Seq(Byte) /\ Len([k \in 1 .. n |-> b]) = n
OBVIOUS

(* One sequence is how another begins.                                     *)
Begins(a, b) == \E x \in Seq(Byte) : b = a \o x

LEMMA BeginsItself ==
  ASSUME NEW a \in Seq(Byte)
  PROVE  Begins(a, a)
<1>1. <<>> \in Seq(Byte)
  OBVIOUS
<1>2. a \o <<>> = a
  BY ConcatEmptySeq
<1> QED
  BY <1>1, <1>2 DEF Begins

LEMMA BeginsFurther ==
  ASSUME NEW a \in Seq(Byte), NEW b, NEW c, Begins(a, b), Begins(b, c)
  PROVE  Begins(a, c)
<1>1. PICK x \in Seq(Byte) : b = a \o x
  BY DEF Begins
<1>2. PICK y \in Seq(Byte) : c = b \o y
  BY DEF Begins
<1>3. c = a \o (x \o y) /\ x \o y \in Seq(Byte)
  BY <1>1, <1>2, ConcatAssociative, ConcatProperties
<1> QED
  BY <1>3 DEF Begins

LEMMA BeginsIs ==
  ASSUME NEW a \in Seq(Byte), NEW b, Begins(a, b)
  PROVE  Len(a) <= Len(b) /\ a = SubSeq(b, 1, Len(a)) /\ b \in Seq(Byte)
<1>1. PICK x \in Seq(Byte) : b = a \o x
  BY DEF Begins
<1>2. /\ b \in Seq(Byte) /\ Len(b) = Len(a) + Len(x) /\ Len(a) \in Nat /\ Len(x) \in Nat
      /\ \A k \in 1 .. Len(a) : b[k] = a[k]
  BY <1>1
<1>3. \A k \in 1 .. Len(a) : b[k] \in Byte
  BY <1>2
<1>4. /\ SubSeq(b, 1, Len(a)) \in Seq(Byte) /\ Len(SubSeq(b, 1, Len(a))) = Len(a)
      /\ \A k \in 1 .. Len(a) : SubSeq(b, 1, Len(a))[k] = b[k]
  BY <1>2, <1>3
<1>5. a = SubSeq(b, 1, Len(a))
  BY <1>2, <1>4, SeqEqual
<1> QED
  BY <1>2, <1>5

(* Bytes taken off the front.                                              *)
LEMMA TakenApart ==
  ASSUME NEW b \in Seq(Byte), NEW n \in 0 .. Len(b)
  PROVE  /\ SubSeq(b, 1, n) \in Seq(Byte) /\ SubSeq(b, n + 1, Len(b)) \in Seq(Byte)
         /\ Len(SubSeq(b, 1, n)) = n
         /\ SubSeq(b, 1, n) \o SubSeq(b, n + 1, Len(b)) = b
<1>1. PICK x : x = SubSeq(b, 1, n)
  OBVIOUS
<1>2. PICK y : y = SubSeq(b, n + 1, Len(b))
  OBVIOUS
<1>3. Len(b) \in Nat /\ n \in Nat
  OBVIOUS
<1>4. x \in Seq(Byte) /\ Len(x) = n /\ \A k \in 1 .. n : x[k] = b[k]
  <2>1. \A k \in 1 .. n : b[k] \in Byte
    BY <1>3
  <2>2. /\ x \in Seq(Byte) /\ Len(x) = (IF 1 <= n THEN n - 1 + 1 ELSE 0)
        /\ \A k \in 1 .. n - 1 + 1 : x[k] = b[1 + k - 1]
    BY <1>1, <1>3, <2>1, SubSeqProperties
  <2>3. n - 1 + 1 = n /\ \A k \in 1 .. n : 1 + k - 1 = k
    BY <1>3
  <2> QED
    BY <1>3, <2>2, <2>3
<1>5. /\ y \in Seq(Byte) /\ Len(y) = Len(b) - n
      /\ \A k \in 1 .. Len(b) - n : y[k] = b[n + k]
  <2>1. \A k \in n + 1 .. Len(b) : b[k] \in Byte
    BY <1>3
  <2>2. /\ y \in Seq(Byte) /\ Len(y) = (IF n + 1 <= Len(b) THEN Len(b) - (n + 1) + 1 ELSE 0)
        /\ \A k \in 1 .. Len(b) - (n + 1) + 1 : y[k] = b[n + 1 + k - 1]
    <3>1. n + 1 \in Int /\ Len(b) \in Int
      BY <1>3
    <3> QED
      BY <1>2, <2>1, <3>1, SubSeqProperties
  <2>3. ASSUME NEW k \in 1 .. Len(b) - n PROVE y[k] = b[n + k]
    <3>1. k \in 1 .. Len(b) - (n + 1) + 1 /\ n + 1 + k - 1 = n + k
      BY <1>3
    <3> QED
      BY <2>2, <3>1
  <2>4. Len(y) = Len(b) - n
    BY <1>3, <2>2
  <2> QED
    BY <2>2, <2>3, <2>4
<1>6. x \o y \in Seq(Byte) /\ Len(x \o y) = Len(b)
  BY <1>3, <1>4, <1>5
<1>7. ASSUME NEW k \in 1 .. Len(b)
      PROVE  (x \o y)[k] = b[k]
  <2>1. CASE k <= n
    BY <1>3, <1>4, <1>5, <2>1
  <2>2. CASE ~ (k <= n)
    <3>1. k - n \in 1 .. Len(b) - n /\ n + (k - n) = k /\ (x \o y)[k] = y[k - n]
      BY <1>3, <1>4, <1>5, <2>2
    <3> QED
      BY <1>5, <3>1
  <2> QED
    BY <2>1, <2>2
<1>8. x \o y = b
  BY <1>6, <1>7, SeqEqual
<1> QED
  BY <1>1, <1>2, <1>4, <1>5, <1>8

-----------------------------------------------------------------------------
(* What is rebuilt                                                         *)

LEMMA HeaderTyped ==
  ASSUME NEW i \in Int, NEW n \in Int
  PROVE  SegmentHeader(i, n) \in Seq(Byte)
<1>1. <<"segment", i, n>> \in Byte /\ <<"info", i, 0>> \in Byte
  BY ByteTyped, TagsAre
<1> QED
  BY <1>1 DEF SegmentHeader

Xs(n) == [k \in 1 .. n |-> <<"X", 0, 0>>]

LEMMA XsTyped ==
  ASSUME NEW n \in Nat
  PROVE  Xs(n) \in Seq(Byte) /\ Len(Xs(n)) = n
<1>1. <<"X", 0, 0>> \in Byte
  BY ByteTyped, TagsAre
<1> QED
  BY <1>1, FillTyped DEF Xs

LEMMA FontFill ==
  ASSUME NEW size \in Nat
  PROVE  /\ FontAligned(size) \in Int /\ FontAligned(size) - size \in Nat
         /\ (CHOOSE n \in 0 .. Align - 1 : (size + n) % Align = 0) = FontAligned(size) - size
<1>1. PICK n : n = ((size + Align - 1) - ((size + Align - 1) % Align)) - size
  OBVIOUS
<1>2. Align \in Nat \ {0}
  BY ReaderAssumption
<1>3. n \in 0 .. Align - 1 /\ (size + n) % Align = 0
  BY <1>1, <1>2, RoundedUp
<1>4. FontAligned(size) - size = n
  BY <1>1 DEF FontAligned
<1>5. FontAligned(size) \in Int
  <2>1. size + Align - 1 \in Int
    BY <1>2
  <2>2. (size + Align - 1) % Align \in Int
    BY <1>2, <2>1
  <2> QED
    BY <2>1, <2>2 DEF FontAligned
<1>6. (CHOOSE m \in 0 .. Align - 1 : (size + m) % Align = 0) = n
  BY <1>2, <1>3, FillIs
<1> QED
  BY <1>2, <1>3, <1>4, <1>5, <1>6

LEMMA FontContent ==
  ASSUME NEW ss \in Seq(Segment), NEW i \in 1 .. Len(ss), NEW size \in Nat, ss[i].font
  PROVE  /\ Content(ss, size, i) \in Seq(Byte)
         /\ Content(ss, size, i) =
              <<<<"font", 0, size>>>> \o (Bytes("glyph", 0, 0, size) \o Xs(FontAligned(size) - size))
         /\ 1 + Len(Content(ss, size, i)) = 2 + FontAligned(size)
<1>1. PICK fill : fill = FontAligned(size) - size
  OBVIOUS
<1>2. PICK f : f = <<<<"font", 0, size>>>>
  OBVIOUS
<1>3. PICK g : g = Bytes("glyph", 0, 0, size)
  OBVIOUS
<1>4. PICK x : x = Xs(fill)
  OBVIOUS
<1>5. fill \in Nat /\ FontAligned(size) \in Int /\ FontAligned(size) = size + fill
  BY <1>1, FontFill
<1>6. f \in Seq(Byte) /\ Len(f) = 1
  <2>1. <<"font", 0, size>> \in Byte
    BY ByteTyped, TagsAre
  <2> QED
    BY <1>2, <2>1
<1>7. g \in Seq(Byte) /\ Len(g) = size /\ x \in Seq(Byte) /\ Len(x) = fill
  <2>1. g \in Seq(Byte) /\ Len(g) = size
    <3>1. 0 \in Int /\ "glyph" \in Tags
      BY TagsAre
    <3> QED
      BY <1>3, <3>1, BytesTyped, Zenon
  <2> QED
    BY <1>4, <1>5, <2>1, XsTyped
<1>8. Content(ss, size, i) = f \o g \o x
  <2>1. (CHOOSE n \in 0 .. Align - 1 : (size + n) % Align = 0) = fill
    BY <1>1, FontFill
  <2> QED
    BY <1>2, <1>3, <1>4, <2>1 DEF Content, Xs
<1>9. f \o g \o x = f \o (g \o x)
  BY <1>6, <1>7, JoinedInAnyOrder
<1>10. f \o g \o x \in Seq(Byte) /\ Len(f \o g \o x) = 1 + size + fill
  <2>1. f \o g \in Seq(Byte) /\ Len(f \o g) = Len(f) + Len(g)
    BY <1>6, <1>7, Joined, Zenon
  <2>2. f \o g \o x \in Seq(Byte) /\ Len(f \o g \o x) = Len(f \o g) + Len(x)
    BY <1>7, <2>1, Joined, Zenon
  <2> QED
    BY <1>6, <1>7, <2>1, <2>2
<1>11. Content(ss, size, i) = f \o (g \o x)
  BY <1>8, <1>9
<1>12. 1 + Len(Content(ss, size, i)) = 2 + FontAligned(size)
  BY <1>5, <1>8, <1>10
<1>13. Content(ss, size, i) \in Seq(Byte)
  BY <1>8, <1>10
<1> QED
  BY <1>1, <1>2, <1>3, <1>4, <1>11, <1>12, <1>13

LEMMA PlainContent ==
  ASSUME NEW ss \in Seq(Segment), NEW i \in 1 .. Len(ss), NEW size \in Nat, ~ ss[i].font
  PROVE  /\ Content(ss, size, i) \in Seq(Byte)
         /\ Content(ss, size, i) = Bytes("stream", 0, Positions(ss)[i] + 2, ss[i].size)
         /\ 1 + Len(Content(ss, size, i)) = SegmentSize(ss[i])
<1>1. Positions(ss)[i] \in Nat
  BY PositionsAre
<1>2. ss[i].size \in Nat /\ SegmentSize(ss[i]) = 1 + ss[i].size
  BY SegmentTyped, SegmentSizeTyped
<1>3. Content(ss, size, i) = Bytes("stream", 0, Positions(ss)[i] + 2, ss[i].size)
  BY DEF Content
<1>4. /\ Bytes("stream", 0, Positions(ss)[i] + 2, ss[i].size) \in Seq(Byte)
      /\ Len(Bytes("stream", 0, Positions(ss)[i] + 2, ss[i].size)) = ss[i].size
  <2>1. Positions(ss)[i] + 2 \in Nat
    BY <1>1
  <2> QED
    BY <1>2, <2>1, CopiedTyped
<1> QED
  BY <1>2, <1>3, <1>4

(* The whole of a segment.                                                 *)
SegmentOf(ss, size, i) ==
  SegmentHeader(i, 1 + Len(Content(ss, size, i))) \o Content(ss, size, i)

LEMMA SegmentOfTyped ==
  ASSUME NEW ss \in Seq(Segment), NEW i \in 1 .. Len(ss), NEW size \in Nat
  PROVE  /\ Content(ss, size, i) \in Seq(Byte)
         /\ SegmentHeader(i, 1 + Len(Content(ss, size, i))) \in Seq(Byte)
         /\ SegmentOf(ss, size, i) \in Seq(Byte)
<1>1. Content(ss, size, i) \in Seq(Byte)
  BY FontContent, PlainContent
<1>2. 1 + Len(Content(ss, size, i)) \in Int
  BY <1>1
<1>3. SegmentHeader(i, 1 + Len(Content(ss, size, i))) \in Seq(Byte)
  BY <1>2, HeaderTyped
<1> QED
  BY <1>1, <1>3, ConcatProperties DEF SegmentOf

IsRebuilt(ss, size, f, n) ==
  f = [i \in 0 .. n |->
         IF i = 0 THEN <<>>
         ELSE f[i - 1] \o SegmentHeader(i, 1 + Len(Content(ss, size, i))) \o Content(ss, size, i)]

LEMMA RebuiltExists ==
  ASSUME NEW ss, NEW size, NEW n \in Nat
  PROVE  \E f : IsRebuilt(ss, size, f, n)
<1> DEFINE T == {m \in Nat : ~ \E f : IsRebuilt(ss, size, f, m)}
           Then(b, i) == b \o SegmentHeader(i, 1 + Len(Content(ss, size, i))) \o Content(ss, size, i)
<1>0. \A f, m : IsRebuilt(ss, size, f, m) <=> f = [i \in 0 .. m |-> IF i = 0 THEN <<>> ELSE Then(f[i - 1], i)]
  BY DEF IsRebuilt
<1> SUFFICES ASSUME T # {} PROVE FALSE
  OBVIOUS
<1>1. PICK m \in T : \A y \in T : m <= y
  <2>1. T \subseteq Nat
    OBVIOUS
  <2> HIDE DEF T
  <2> QED
    BY <2>1, LeastNat
<1>2. m \in Nat /\ ~ \E f : IsRebuilt(ss, size, f, m)
  OBVIOUS
<1>3. m # 0 => \E f : IsRebuilt(ss, size, f, m - 1)
  BY <1>1, <1>2
<1> HIDE DEF Then, T
<1>4. CASE m = 0
  <2> DEFINE g == [i \in 0 .. 0 |-> <<>>]
  <2>1. g = [i \in 0 .. 0 |-> IF i = 0 THEN <<>> ELSE Then(g[i - 1], i)]
    OBVIOUS
  <2>2. IsRebuilt(ss, size, g, 0)
    BY <1>0, <2>1
  <2> QED
    BY <1>2, <1>4, <2>2
<1>5. CASE m # 0
  <2>1. m - 1 \in Nat /\ m \in Nat
    BY <1>2, <1>5
  <2>2. PICK f : IsRebuilt(ss, size, f, m - 1)
    BY <1>3, <1>5
  <2>3. \A i \in 0 .. m - 1 : f[i] = IF i = 0 THEN <<>> ELSE Then(f[i - 1], i)
    <3>1. f = [i \in 0 .. m - 1 |-> IF i = 0 THEN <<>> ELSE Then(f[i - 1], i)]
      BY <1>0, <2>2
    <3> QED
      BY <3>1, Zenon
  <2>4. PICK g : g = [i \in 0 .. m |-> IF i = m THEN Then(f[m - 1], m) ELSE f[i]]
    OBVIOUS
  <2>5. ASSUME NEW i \in 0 .. m
        PROVE  g[i] = IF i = 0 THEN <<>> ELSE Then(g[i - 1], i)
    <3>1. CASE i = m
      <4>1. g[m - 1] = f[m - 1] /\ g[m] = Then(f[m - 1], m)
        BY <2>1, <2>4
      <4> QED
        BY <1>5, <3>1, <4>1
    <3>2. CASE i # m /\ i # 0
      <4>1. i \in 0 .. m - 1 /\ i - 1 \in 0 .. m /\ i - 1 # m
        BY <2>1, <3>2
      <4>2. g[i] = f[i] /\ g[i - 1] = f[i - 1]
        BY <2>4, <3>2, <4>1
      <4> QED
        BY <2>3, <3>2, <4>1, <4>2
    <3>3. CASE i # m /\ i = 0
      <4>1. i \in 0 .. m - 1
        BY <2>1, <3>3
      <4> QED
        BY <2>3, <2>4, <3>3, <4>1
    <3> QED
      BY <3>1, <3>2, <3>3
  <2>6. g = [i \in 0 .. m |-> g[i]]
    BY <2>4
  <2>7. g = [i \in 0 .. m |-> IF i = 0 THEN <<>> ELSE Then(g[i - 1], i)]
    BY <2>5, <2>6
  <2>8. IsRebuilt(ss, size, g, m)
    BY <1>0, <2>7
  <2> QED
    BY <1>2, <2>8
<1> QED
  BY <1>4, <1>5

LEMMA RebuiltIs ==
  ASSUME NEW ss \in Seq(Segment), NEW size \in Nat
  PROVE  /\ Rebuilt(ss, size)[0] = <<>>
         /\ \A i \in 0 .. Len(ss) : Rebuilt(ss, size)[i] \in Seq(Byte)
         /\ \A i \in 1 .. Len(ss) :
              Rebuilt(ss, size)[i] = Rebuilt(ss, size)[i - 1] \o SegmentOf(ss, size, i)
<1> DEFINE Then(b, i) == b \o SegmentHeader(i, 1 + Len(Content(ss, size, i))) \o Content(ss, size, i)
<1>1. Rebuilt(ss, size) = CHOOSE f : IsRebuilt(ss, size, f, Len(ss))
  BY DEF Rebuilt, IsRebuilt
<1>2. PICK f : f = Rebuilt(ss, size)
  OBVIOUS
<1>3. Len(ss) \in Nat
  OBVIOUS
<1>4. IsRebuilt(ss, size, f, Len(ss))
  BY <1>1, <1>2, <1>3, RebuiltExists
<1>5. f = [i \in 0 .. Len(ss) |-> IF i = 0 THEN <<>> ELSE Then(f[i - 1], i)]
  BY <1>4 DEF IsRebuilt
<1>6. ASSUME NEW b \in Seq(Byte), NEW i \in 1 .. Len(ss)
      PROVE  Then(b, i) = b \o SegmentOf(ss, size, i) /\ Then(b, i) \in Seq(Byte)
  <2>1. PICK h : h = SegmentHeader(i, 1 + Len(Content(ss, size, i)))
    OBVIOUS
  <2>2. PICK c : c = Content(ss, size, i)
    OBVIOUS
  <2>3. h \in Seq(Byte) /\ c \in Seq(Byte)
    BY <2>1, <2>2, SegmentOfTyped
  <2>4. b \o h \o c = b \o (h \o c)
    BY <2>3, JoinedInAnyOrder
  <2>5. b \o h \in Seq(Byte)
    BY <2>3, Joined
  <2>6. b \o h \o c \in Seq(Byte)
    BY <2>3, <2>5, Joined
  <2> QED
    BY <2>1, <2>2, <2>4, <2>6 DEF SegmentOf
<1> HIDE DEF Then
<1>7. \A i \in 0 .. Len(ss) : f[i] = IF i = 0 THEN <<>> ELSE Then(f[i - 1], i)
  BY <1>5, Zenon
<1>8. f[0] = <<>>
  BY <1>3, <1>7
<1>9. \A i \in 1 .. Len(ss) : f[i] = Then(f[i - 1], i)
  BY <1>3, <1>7
<1> DEFINE T == {i \in 0 .. Len(ss) : f[i] \notin Seq(Byte)}
<1>10. T = {}
  <2> SUFFICES ASSUME T # {} PROVE FALSE
    OBVIOUS
  <2>1. PICK i \in T : \A y \in T : i <= y
    <3>1. T \subseteq Nat
      OBVIOUS
    <3> HIDE DEF T
    <3> QED
      BY <3>1, LeastNat
  <2>2. i # 0 /\ i \in 0 .. Len(ss) /\ f[i] \notin Seq(Byte)
    <3>1. <<>> \in Seq(Byte)
      OBVIOUS
    <3> QED
      BY <1>8, <2>1, <3>1
  <2>3. i \in 1 .. Len(ss) /\ i - 1 \in 0 .. Len(ss) /\ ~ (i <= i - 1)
    BY <1>3, <2>2
  <2>4. f[i - 1] \in Seq(Byte)
    BY <2>1, <2>3
  <2> QED
    BY <1>6, <1>9, <2>2, <2>3, <2>4
<1>11. \A i \in 0 .. Len(ss) : f[i] \in Seq(Byte)
  BY <1>10
<1>12. ASSUME NEW i \in 1 .. Len(ss) PROVE f[i] = f[i - 1] \o SegmentOf(ss, size, i)
  <2>1. i - 1 \in 0 .. Len(ss)
    BY <1>3
  <2>2. f[i - 1] \in Seq(Byte)
    BY <1>11, <2>1
  <2> QED
    BY <1>6, <1>9, <2>2
<1> QED
  BY <1>2, <1>8, <1>11, <1>12

LEMMA RebuiltBegins ==
  ASSUME NEW ss \in Seq(Segment), NEW size \in Nat, NEW i \in 0 .. Len(ss), NEW j \in i .. Len(ss)
  PROVE  Begins(Rebuilt(ss, size)[i], Rebuilt(ss, size)[j])
<1>1. PICK f : f = Rebuilt(ss, size)
  OBVIOUS
<1>2. Len(ss) \in Nat /\ i \in Nat /\ j \in Nat
  OBVIOUS
<1>3. /\ \A k \in 0 .. Len(ss) : f[k] \in Seq(Byte)
      /\ \A k \in 1 .. Len(ss) : f[k] = f[k - 1] \o SegmentOf(ss, size, k)
  BY <1>1, RebuiltIs
<1> DEFINE T == {k \in i .. Len(ss) : ~ Begins(f[i], f[k])}
<1>4. T = {}
  <2> SUFFICES ASSUME T # {} PROVE FALSE
    OBVIOUS
  <2>1. PICK k \in T : \A y \in T : k <= y
    <3>1. T \subseteq Nat
      BY <1>2
    <3> HIDE DEF T
    <3> QED
      BY <3>1, LeastNat
  <2>2. k \in i .. Len(ss) /\ ~ Begins(f[i], f[k])
    OBVIOUS
  <2>3. k # i
    BY <1>2, <1>3, <2>2, BeginsItself
  <2>4. k - 1 \in i .. Len(ss) /\ k \in 1 .. Len(ss) /\ ~ (k <= k - 1)
    BY <1>2, <2>2, <2>3
  <2>5. Begins(f[i], f[k - 1])
    BY <2>1, <2>4
  <2>6. Begins(f[k - 1], f[k])
    <3>1. SegmentOf(ss, size, k) \in Seq(Byte) /\ f[k] = f[k - 1] \o SegmentOf(ss, size, k)
      BY <1>3, <2>4, SegmentOfTyped
    <3> QED
      BY <3>1 DEF Begins
  <2>7. f[i] \in Seq(Byte)
    BY <1>3
  <2> QED
    BY <2>2, <2>5, <2>6, <2>7, BeginsFurther
<1> QED
  BY <1>1, <1>4

-----------------------------------------------------------------------------
(* The end of a segmented file                                             *)

Zeros(n) == [k \in 1 .. n |-> <<"zero", 0, 0>>]
Marker(n) == <<<<"stop", 0, n>>>> \o Zeros(n)

LEMMA MarkerTyped ==
  ASSUME NEW n \in Nat
  PROVE  /\ Marker(n) \in Seq(Byte)
         /\ \A b \in Seq(Byte) : b \o Marker(n) = b \o <<<<"stop", 0, n>>>> \o Zeros(n)
<1>1. PICK z : z = Zeros(n)
  OBVIOUS
<1>2. PICK m : m = <<<<"stop", 0, n>>>>
  OBVIOUS
<1>3. z \in Seq(Byte)
  <2>1. <<"zero", 0, 0>> \in Byte
    BY ByteTyped, TagsAre
  <2> QED
    BY <1>1, <2>1, FillTyped DEF Zeros
<1>4. m \in Seq(Byte)
  <2>1. <<"stop", 0, n>> \in Byte
    BY ByteTyped, TagsAre
  <2> QED
    BY <1>2, <2>1
<1>5. \A b \in Seq(Byte) : b \o (m \o z) = b \o m \o z
  BY <1>3, <1>4, JoinedInAnyOrder
<1>6. m \o z \in Seq(Byte)
  BY <1>3, <1>4, Joined
<1> QED
  BY <1>1, <1>2, <1>5, <1>6 DEF Marker

Ended(m, bytes) ==
  IF ~m THEN bytes
  ELSE LET padding == CHOOSE n \in 0 .. Page - 1 : (Len(bytes) + 1 + n) % Page = 0
       IN bytes \o <<<<"stop", 0, padding>>>> \o Zeros(padding)

EndMark(m, bytes) ==
  IF ~m THEN <<>>
  ELSE LET padding == (Page - ((Len(bytes) + 1) % Page)) % Page
       IN Marker(padding)

(* The stop marker ends the file as it should end.                         *)
LEMMA EndMarkEnds ==
  ASSUME NEW m \in BOOLEAN, NEW bytes \in Seq(Byte)
  PROVE  EndMark(m, bytes) \in Seq(Byte) /\ bytes \o EndMark(m, bytes) = Ended(m, bytes)
<1>1. CASE ~m
  <2>1. EndMark(m, bytes) = <<>> /\ Ended(m, bytes) = bytes
    BY <1>1 DEF EndMark, Ended
  <2>2. <<>> \in Seq(Byte)
    OBVIOUS
  <2>3. bytes \o <<>> = bytes
    BY ConcatEmptySeq
  <2> QED
    BY <2>1, <2>2, <2>3
<1>2. CASE m
  <2>1. Page \in Nat \ {0} /\ Len(bytes) + 1 \in Nat
    BY ReaderAssumption
  <2>2. PICK n : n = (Page - ((Len(bytes) + 1) % Page)) % Page
    OBVIOUS
  <2>3. n \in 0 .. Page - 1 /\ (Len(bytes) + 1 + n) % Page = 0
    BY <2>1, <2>2, FilledUp
  <2>4. (CHOOSE k \in 0 .. Page - 1 : (Len(bytes) + 1 + k) % Page = 0) = n
    BY <2>1, <2>3, FillIs
  <2>5. n \in Nat
    BY <2>1, <2>3
  <2>6. EndMark(m, bytes) = Marker(n)
    BY <1>2, <2>2 DEF EndMark
  <2>7. Ended(m, bytes) = bytes \o <<<<"stop", 0, n>>>> \o Zeros(n)
    BY <1>2, <2>4 DEF Ended
  <2> QED
    BY <2>5, <2>6, <2>7, MarkerTyped
<1> QED
  BY <1>1, <1>2

LEMMA EndedBegins ==
  ASSUME NEW m \in BOOLEAN, NEW bytes \in Seq(Byte)
  PROVE  Begins(bytes, Ended(m, bytes)) /\ Ended(m, bytes) \in Seq(Byte)
<1>1. EndMark(m, bytes) \in Seq(Byte) /\ Ended(m, bytes) = bytes \o EndMark(m, bytes)
  BY EndMarkEnds
<1>2. Ended(m, bytes) \in Seq(Byte)
  BY <1>1, Joined
<1> QED
  BY <1>1, <1>2 DEF Begins

-----------------------------------------------------------------------------
(* The font file                                                           *)

(* What is still to come of the segment that is being read.                *)
Rest(font, at, place, count, size) ==
  IF font THEN Bytes("glyph", 0, at, count) \o Xs(FontAligned(size) - size)
  ELSE Bytes("stream", 0, place, count)

LEMMA RestTyped ==
  ASSUME NEW font \in BOOLEAN, NEW at \in Nat, NEW place \in Nat, NEW count \in Nat,
         NEW size \in Nat
  PROVE  Rest(font, at, place, count, size) \in Seq(Byte)
<1>1. CASE font
  <2>1. Bytes("glyph", 0, at, count) \in Seq(Byte)
    BY CopiedTyped
  <2>2. Xs(FontAligned(size) - size) \in Seq(Byte)
    BY FontFill, XsTyped
  <2>3. Bytes("glyph", 0, at, count) \o Xs(FontAligned(size) - size) \in Seq(Byte)
    BY <2>1, <2>2, Joined
  <2> QED
    BY <1>1, <2>3 DEF Rest
<1>2. CASE ~font
  <2>1. Bytes("stream", 0, place, count) \in Seq(Byte)
    BY CopiedTyped
  <2> QED
    BY <1>2, <2>1 DEF Rest
<1> QED
  BY <1>1, <1>2

LEMMA NoRest ==
  ASSUME NEW at \in Nat, NEW place \in Nat, NEW size \in Nat
  PROVE  Rest(FALSE, at, place, 0, size) = <<>>
BY NoBytes, TagsAre DEF Rest

(* A part of what is to come is copied.                                    *)
Follows(copied, rest, whole) == whole = copied \o rest

LEMMA RestOfSegment ==
  ASSUME NEW at \in Nat, NEW place \in Nat, NEW count \in Nat, NEW n \in 0 .. count,
         NEW size \in Nat
  PROVE  Follows(Bytes("stream", 0, place, n), Rest(FALSE, at, place + n, count - n, size),
                 Rest(FALSE, at, place, count, size))
<1>1. PICK m \in Nat : m = count - n
  OBVIOUS
<1>2. n \in Nat /\ n + m = count /\ place \in Int
  BY <1>1
<1>3. Splits("stream", 0, place, n, m)
  BY <1>2, TagsAre, BytesSplit
<1> QED
  BY <1>1, <1>2, <1>3 DEF Rest, Splits, Follows

LEMMA RestOfFont ==
  ASSUME NEW at \in Nat, NEW place \in Nat, NEW count \in Nat, NEW n \in 0 .. count,
         NEW size \in Nat
  PROVE  Follows(Bytes("glyph", 0, at, n), Rest(TRUE, at + n, place, count - n, size),
                 Rest(TRUE, at, place, count, size))
<1>1. PICK m \in Nat : m = count - n
  OBVIOUS
<1>2. n \in Nat /\ n + m = count /\ at \in Int /\ at + n \in Int
  BY <1>1
<1>3. PICK x : x = Xs(FontAligned(size) - size)
  OBVIOUS
<1>4. PICK a : a = Bytes("glyph", 0, at, n)
  OBVIOUS
<1>5. PICK b : b = Bytes("glyph", 0, at + n, m)
  OBVIOUS
<1>6. a \o b = Bytes("glyph", 0, at, count)
  <2>1. Splits("glyph", 0, at, n, m)
    BY <1>2, TagsAre, BytesSplit
  <2> QED
    BY <1>2, <1>4, <1>5, <2>1 DEF Splits
<1>7. a \in Seq(Byte) /\ b \in Seq(Byte)
  <2>1. at + n \in Nat
    BY <1>2
  <2> QED
    BY <1>2, <1>4, <1>5, <2>1, CopiedTyped
<1>8. x \in Seq(Byte)
  BY <1>3, FontFill, XsTyped
<1>9. a \o b \o x = a \o (b \o x)
  BY <1>7, <1>8, JoinedInAnyOrder
<1> QED
  BY <1>1, <1>3, <1>4, <1>5, <1>6, <1>9 DEF Rest, Follows

LEMMA FontDone ==
  ASSUME NEW at \in Nat, NEW place \in Nat, NEW size \in Nat
  PROVE  Rest(TRUE, at, place, 0, size) = Xs(FontAligned(size) - size)
<1>1. Bytes("glyph", 0, at, 0) = <<>>
  BY NoBytes, TagsAre
<1>2. PICK x \in Seq(Byte) : x = Xs(FontAligned(size) - size)
  BY FontFill, XsTyped
<1>3. <<>> \o x = x
  BY ConcatEmptySeq
<1> QED
  BY <1>1, <1>2, <1>3 DEF Rest

(* What is read of a file so far, and what is to come of the segment, are  *)
(* the file as it should be up to that segment.                            *)
FontTyped ==
  /\ segments \in Seq(Segment)
  /\ \A i, j \in 1 .. Len(segments) : segments[i].font /\ segments[j].font => i = j
  /\ fontSize \in Nat \ {0} /\ marked \in BOOLEAN /\ packed \in BOOLEAN
  /\ next \in 1 .. Len(segments) + 1
  /\ pos \in Nat /\ left \in Nat /\ fontAt \in Nat /\ want \in Nat /\ chunk \in Nat
  /\ out \in Seq(Byte) /\ buffered \in Seq(Byte)
  /\ inFont \in BOOLEAN /\ finalized \in BOOLEAN /\ seekLost \in BOOLEAN

InPlain ==
  next > 1 /\ ~segments[next - 1].font => ~inFont /\ pos + left = Positions(segments)[next]

InTheFont ==
  next > 1 /\ segments[next - 1].font => pos <= Positions(segments)[next] /\ (inFont \/ left = 0)

GlyphsLeft ==
  inFont => next > 1 /\ segments[next - 1].font /\ left > 0 /\ left = fontSize - fontAt

NoGlyphs == (\A i \in 1 .. next - 1 : ~segments[i].font) => fontAt = 0

SoFar ==
  out \o (buffered \o Rest(inFont, fontAt, pos, left, fontSize)) = Rebuilt(segments, fontSize)[next - 1]

FontRead ==
  /\ ~seekLost
  /\ next = 1 => pos = 0 /\ left = 0
  /\ InPlain /\ InTheFont /\ GlyphsLeft /\ NoGlyphs /\ SoFar

FontEnded ==
  /\ left = 0
  /\ out \o buffered =
       Ended(marked, Rebuilt(segments, fontSize)[IF seekLost THEN next - 1 ELSE Len(segments)])

FontInv ==
  /\ FontTyped
  /\ ~finalized => FontRead
  /\ finalized => FontEnded
  /\ seekLost => packed /\ next > 1 /\ segments[next - 1].font
  /\ done => finalized /\ buffered = <<>> /\ ~inRead

fontVars == <<segments, fontSize, marked, packed, next, pos, left, fontAt, chunk,
              out, buffered, inFont, finalized, seekLost>>

LEMMA FontStart ==
  InitFont /\ ReaderInit => FontInv
<1> SUFFICES ASSUME InitFont, ReaderInit PROVE FontInv
  OBVIOUS
<1>1. segments \in Seq(Segment) /\ \A i, j \in 1 .. Len(segments) : segments[i].font /\ segments[j].font => i = j
  BY FontsAssumption DEF InitFont
<1>2. fontSize \in Nat \ {0} /\ marked \in BOOLEAN /\ chunk \in Nat
  BY ReaderAssumption DEF InitFont, ReaderInit
<1>3. /\ out = <<>> /\ buffered = <<>> /\ next = 1 /\ pos = 0 /\ left = 0 /\ fontAt = 0 /\ want = 0
      /\ inFont = FALSE /\ finalized = FALSE /\ seekLost = FALSE /\ packed \in BOOLEAN /\ done = FALSE
  BY DEF ReaderInit
<1>4. FontTyped
  <2>1. <<>> \in Seq(Byte)
    OBVIOUS
  <2>2. 1 \in 1 .. Len(segments) + 1
    BY <1>1
  <2> QED
    BY <1>1, <1>2, <1>3, <2>1, <2>2 DEF FontTyped
<1>5. SoFar
  <2>1. Rest(inFont, fontAt, pos, left, fontSize) = <<>>
    BY <1>2, <1>3, NoRest
  <2>2. Rebuilt(segments, fontSize)[0] = <<>>
    BY <1>1, <1>2, RebuiltIs
  <2>3. <<>> \o (<<>> \o <<>>) = <<>>
    OBVIOUS
  <2> QED
    BY <1>3, <2>1, <2>2, <2>3 DEF SoFar
<1> QED
  BY <1>3, <1>4, <1>5 DEF FontInv, FontRead, InPlain, InTheFont, GlyphsLeft, NoGlyphs

LEMMA FontKept ==
  ASSUME FontInv, UNCHANGED fontVars, want' \in Nat, done' => finalized /\ buffered = <<>> /\ ~inRead'
  PROVE  FontInv'
BY DEF FontInv, FontTyped, FontRead, FontEnded, InPlain, InTheFont, GlyphsLeft, NoGlyphs, SoFar, fontVars

LEMMA LeastIs ==
  ASSUME NEW a \in Int, NEW b \in Int
  PROVE  Least(a, b) \in {a, b} /\ Least(a, b) <= a /\ Least(a, b) <= b
BY DEF Least

LEMMA TakeBufferedFont ==
  ASSUME FontInv, TakeBuffered
  PROVE  FontInv'
<1> DEFINE n == Least(Len(buffered), want)
<1>1. /\ out \in Seq(Byte) /\ buffered \in Seq(Byte) /\ want \in Nat /\ want > 0 /\ Len(buffered) > 0
      /\ Len(buffered) \in Nat
  BY EmptySeq DEF FontInv, FontTyped, TakeBuffered, InLoop
<1>2. n \in 0 .. Len(buffered) /\ n \in 0 .. want
  BY <1>1 DEF Least
<1>3. PICK a : a = SubSeq(buffered, 1, n)
  OBVIOUS
<1>4. PICK b : b = SubSeq(buffered, n + 1, Len(buffered))
  OBVIOUS
<1>5. out' = out \o a /\ want' = want - Len(a) /\ buffered' = b
  BY <1>3, <1>4 DEF TakeBuffered, Give
<1> HIDE DEF n
<1>6. a \in Seq(Byte) /\ b \in Seq(Byte) /\ Len(a) = n /\ a \o b = buffered
  BY <1>1, <1>2, <1>3, <1>4, TakenApart
<1>7. UNCHANGED <<segments, fontSize, marked, packed, chunk, pos, next, left, fontAt, inFont, finalized,
                  seekLost, done, inRead>>
  BY DEF TakeBuffered, input
<1>8. inRead
  BY DEF TakeBuffered, InLoop
<1>9. out \o a \in Seq(Byte) /\ want - Len(a) \in Nat
  BY <1>1, <1>2, <1>6, Joined
<1>10. FontTyped'
  BY <1>5, <1>6, <1>7, <1>9 DEF FontInv, FontTyped
<1>11. ASSUME ~finalized PROVE FontRead'
  <2>1. PICK r : r = Rest(inFont, fontAt, pos, left, fontSize)
    OBVIOUS
  <2>2. r \in Seq(Byte)
    BY <2>1, RestTyped DEF FontInv, FontTyped
  <2>3. (out \o a) \o (b \o r) = out \o (buffered \o r)
    <3>1. b \o r \in Seq(Byte)
      BY <1>6, <2>2, Joined
    <3>2. (out \o a) \o (b \o r) = out \o (a \o (b \o r))
      <4>1. out \in Seq(Byte) /\ a \in Seq(Byte)
        BY <1>1, <1>6
      <4> QED
        BY <3>1, <4>1, JoinedInAnyOrder
    <3>3. a \o b \o r = a \o (b \o r)
      BY <1>6, <2>2, JoinedInAnyOrder
    <3> QED
      BY <1>6, <3>2, <3>3
  <2>4. SoFar'
    BY <1>5, <1>7, <1>11, <2>1, <2>3 DEF FontInv, FontRead, SoFar
  <2> QED
    BY <1>7, <1>11, <2>4 DEF FontInv, FontRead, InPlain, InTheFont, GlyphsLeft, NoGlyphs
<1>12. ASSUME finalized PROVE FontEnded'
  <2>1. (out \o a) \o b = out \o buffered
    BY <1>1, <1>6, JoinedInAnyOrder
  <2> QED
    BY <1>5, <1>7, <1>12, <2>1 DEF FontInv, FontEnded
<1>13. ~done
  BY <1>8 DEF FontInv
<1> QED
  BY <1>7, <1>10, <1>11, <1>12, <1>13 DEF FontInv

LEMMA CopyFontFont ==
  ASSUME FontInv, CopyFont
  PROVE  FontInv'
<1> DEFINE n == Least(left, want)
<1>1. /\ out \in Seq(Byte) /\ buffered = <<>> /\ want \in Nat /\ want > 0 /\ left > 0 /\ left \in Nat
      /\ pos \in Nat /\ fontAt \in Nat /\ fontSize \in Nat /\ inFont /\ inFont \in BOOLEAN /\ inRead
  BY DEF FontInv, FontTyped, CopyFont, InLoop
<1>2. n \in 1 .. left /\ n \in 1 .. want
  BY <1>1 DEF Least
<1>3. PICK a : a = Bytes("glyph", 0, fontAt, n)
  OBVIOUS
<1>4. /\ out' = out \o a /\ want' = want - Len(a) /\ fontAt' = fontAt + n /\ left' = left - n
      /\ inFont' = (fontAt + n # fontSize)
      /\ buffered' = IF fontAt + n = fontSize THEN Xs(FontAligned(fontSize) - fontSize) ELSE <<>>
  BY <1>3 DEF CopyFont, Give, Padding, Xs
<1> HIDE DEF n
<1>5. n \in Nat /\ n \in 0 .. left
  BY <1>1, <1>2
<1>6. a \in Seq(Byte) /\ Len(a) = n
  <2>1. fontAt \in Nat
    BY <1>1
  <2> QED
    BY <1>3, <1>5, <2>1, CopiedTyped
<1>7. UNCHANGED <<segments, fontSize, marked, packed, chunk, pos, next, finalized, seekLost, done, inRead>>
  BY DEF CopyFont, input
<1>8. ~finalized
  BY <1>1 DEF FontInv, FontEnded
<1>9. FontRead
  BY <1>8 DEF FontInv
<1>10. next > 1 /\ segments[next - 1].font /\ left = fontSize - fontAt
  BY <1>1, <1>9 DEF FontRead, GlyphsLeft
<1>11. (fontAt + n = fontSize) <=> (n = left)
  BY <1>1, <1>5, <1>10
<1>12. out \o a \in Seq(Byte) /\ want - Len(a) \in Nat /\ left - n \in Nat /\ fontAt + n \in Nat
  BY <1>1, <1>2, <1>5, <1>6, Joined
<1>13. buffered' \in Seq(Byte)
  <2>1. Xs(FontAligned(fontSize) - fontSize) \in Seq(Byte)
    BY <1>1, FontFill, XsTyped
  <2>2. <<>> \in Seq(Byte)
    OBVIOUS
  <2> QED
    BY <1>4, <2>1, <2>2
<1>14. FontTyped'
  BY <1>4, <1>7, <1>12, <1>13 DEF FontInv, FontTyped
<1>15. SoFar'
  <2>1. PICK r : r = Rest(TRUE, fontAt + n, pos, left - n, fontSize)
    OBVIOUS
  <2>2. r \in Seq(Byte)
    BY <1>1, <1>12, <2>1, RestTyped
  <2>3. Rest(inFont, fontAt, pos, left, fontSize) = a \o r
    <3>1. inFont = TRUE
      BY <1>1
    <3>2. Follows(a, r, Rest(TRUE, fontAt, pos, left, fontSize))
      BY <1>1, <1>3, <1>5, <2>1, RestOfFont
    <3> QED
      BY <3>1, <3>2 DEF Follows
  <2>4. <<>> \o (a \o r) = a \o r /\ <<>> \o r = r /\ r \o <<>> = r
    <3>1. a \o r \in Seq(Byte)
      BY <1>6, <2>2, Joined
    <3> QED
      BY <2>2, <3>1, ConcatEmptySeq
  <2>5. out \o (a \o r) = Rebuilt(segments, fontSize)[next - 1]
    BY <1>1, <1>9, <2>3, <2>4 DEF FontRead, SoFar
  <2>6. (out \o a) \o r = out \o (a \o r)
    BY <1>1, <1>6, <2>2, JoinedInAnyOrder
  <2>7. buffered' \o Rest(inFont', fontAt', pos', left', fontSize') = r
    <3>1. CASE n = left
      <4>1. left - n = 0 /\ inFont' = FALSE /\ left' = 0
        <5>1. inFont' = (fontAt + n # fontSize) /\ fontAt + n = fontSize
          BY <1>4, <1>11, <3>1
        <5>2. left - n = 0 /\ left' = left - n
          BY <1>1, <1>4, <3>1
        <5> QED
          BY <5>1, <5>2
      <4>2. r = Xs(FontAligned(fontSize) - fontSize)
        <5>1. r = Rest(TRUE, fontAt + n, pos, 0, fontSize)
          BY <2>1, <4>1
        <5>2. fontAt + n \in Nat /\ pos \in Nat /\ fontSize \in Nat
          BY <1>1, <1>12
        <5> QED
          BY <5>1, <5>2, FontDone
      <4>3. Rest(FALSE, fontAt + n, pos, 0, fontSize) = <<>>
        BY <1>1, <1>12, NoRest
      <4>4. buffered' = r
        BY <1>4, <1>11, <3>1, <4>2
      <4> QED
        BY <1>4, <1>7, <2>4, <4>1, <4>3, <4>4
    <3>2. CASE n # left
      <4>1. inFont' = TRUE /\ buffered' = <<>>
        BY <1>4, <1>11, <3>2
      <4> QED
        BY <1>4, <1>7, <2>1, <2>4, <4>1
    <3> QED
      BY <3>1, <3>2
  <2> QED
    BY <1>4, <1>7, <2>5, <2>6, <2>7 DEF SoFar
<1>16. GlyphsLeft'
  <2>1. inFont' => n # left
    BY <1>4, <1>11
  <2>2. left - n = fontSize - (fontAt + n) /\ (n # left => left - n > 0)
    BY <1>1, <1>5, <1>10
  <2> QED
    BY <1>4, <1>7, <1>10, <2>1, <2>2 DEF GlyphsLeft
<1>17. NoGlyphs'
  <2>1. next - 1 \in 1 .. next - 1
    BY <1>10 DEF FontInv, FontTyped
  <2> QED
    BY <1>7, <1>10, <2>1 DEF NoGlyphs
<1>18. InTheFont' /\ InPlain'
  <2>1. inFont' \/ left' = 0
    <3>1. CASE n = left
      BY <1>1, <1>4, <3>1
    <3>2. CASE n # left
      BY <1>4, <1>11, <3>2
    <3> QED
      BY <3>1, <3>2
  <2> QED
    BY <1>7, <1>9, <1>10, <2>1 DEF FontRead, InTheFont, InPlain
<1>19. FontRead'
  BY <1>7, <1>9, <1>10, <1>15, <1>16, <1>17, <1>18 DEF FontRead, FontInv, FontTyped
<1>20. ~done
  BY <1>1 DEF FontInv
<1> QED
  BY <1>7, <1>8, <1>14, <1>19, <1>20 DEF FontInv

LEMMA StreamReaches ==
  ASSUME NEW ss \in Seq(Segment), NEW i \in 1 .. Len(ss)
  PROVE  /\ Positions(ss)[i] \in Nat /\ Positions(ss)[i + 1] \in Nat /\ Positions(ss)[Len(ss) + 1] \in Nat
         /\ Positions(ss)[i + 1] <= Positions(ss)[Len(ss) + 1]
         /\ Positions(ss)[i + 1] = Positions(ss)[i] + 2 + (IF ss[i].font THEN 1 ELSE 0) + ss[i].size
         /\ ss[i].size \in Nat
<1>1. Len(ss) \in Nat /\ i \in 1 .. Len(ss) + 1 /\ i + 1 \in 1 .. Len(ss) + 1 /\ Len(ss) + 1 \in 1 .. Len(ss) + 1
  OBVIOUS
<1>2. Positions(ss)[i] \in Nat /\ Positions(ss)[i + 1] \in Nat /\ Positions(ss)[Len(ss) + 1] \in Nat
  BY <1>1, PositionsAre
<1>3. i + 1 <= Len(ss) + 1
  BY <1>1
<1>4. Positions(ss)[i + 1] <= Positions(ss)[Len(ss) + 1]
  BY <1>1, <1>3, PositionsGrow
<1>5. Positions(ss)[i + 1] = Positions(ss)[i] + 1 + SegmentSize(ss[i])
  BY PositionsAre
<1>6. SegmentSize(ss[i]) = 1 + (IF ss[i].font THEN 1 ELSE 0) + ss[i].size /\ ss[i].size \in Nat
  BY SegmentTyped, SegmentSizeTyped
<1>7. PICK size \in Nat : size = ss[i].size
  BY <1>6
<1>8. PICK extra \in {0, 1} : extra = IF ss[i].font THEN 1 ELSE 0
  OBVIOUS
<1>9. Positions(ss)[i + 1] = Positions(ss)[i] + 1 + (1 + extra + size)
  BY <1>5, <1>6, <1>7, <1>8
<1>10. Positions(ss)[i + 1] = Positions(ss)[i] + 2 + extra + size
  BY <1>2, <1>9
<1>11. Positions(ss)[i + 1] = Positions(ss)[i] + 2 + (IF ss[i].font THEN 1 ELSE 0) + ss[i].size
  BY <1>7, <1>8, <1>10
<1> QED
  BY <1>2, <1>4, <1>6, <1>11

LEMMA CopySegmentFont ==
  ASSUME FontInv, CopySegment
  PROVE  FontInv'
<1> DEFINE n == Least(left, want)
<1>1. /\ out \in Seq(Byte) /\ buffered = <<>> /\ want \in Nat /\ want > 0 /\ left > 0 /\ left \in Nat
      /\ pos \in Nat /\ fontAt \in Nat /\ fontSize \in Nat /\ inFont = FALSE /\ inRead
      /\ segments \in Seq(Segment) /\ next \in 1 .. Len(segments) + 1
  BY DEF FontInv, FontTyped, CopySegment, InLoop
<1>2. n \in 1 .. left /\ n \in 1 .. want
  BY <1>1 DEF Least
<1>3. PICK a : a = Bytes("stream", 0, pos, n)
  OBVIOUS
<1>4. out' = out \o a /\ want' = want - Len(a) /\ left' = left - n
  BY <1>3 DEF CopySegment, Give
<1>5. pos' = Least(pos + n, StreamSize)
  BY DEF CopySegment, Advance
<1>6. StreamSize = Positions(segments)[Len(segments) + 1] + (IF marked THEN 1 ELSE 0)
  BY DEF CopySegment, StreamSize, Position
<1> HIDE DEF n
<1>7. n \in Nat /\ n \in 0 .. left
  BY <1>1, <1>2
<1>8. a \in Seq(Byte) /\ Len(a) = n
  <2>1. pos \in Nat
    BY <1>1
  <2> QED
    BY <1>3, <1>7, <2>1, CopiedTyped
<1>9. UNCHANGED <<segments, fontSize, marked, packed, chunk, next, inFont, fontAt, buffered, finalized,
                  seekLost, done, inRead>>
  BY DEF CopySegment, input
<1>10. ~finalized
  BY <1>1 DEF FontInv, FontEnded
<1>11. FontRead
  BY <1>10 DEF FontInv
<1>12. next > 1 /\ ~segments[next - 1].font /\ pos + left = Positions(segments)[next]
  <2>1. next # 1
    BY <1>1, <1>11 DEF FontRead
  <2>2. next > 1
    BY <1>1, <2>1
  <2> QED
    BY <1>1, <1>11, <2>2 DEF FontRead, InTheFont, InPlain
<1>13. pos' = pos + n
  <2>1. PICK i \in 1 .. Len(segments) : i = next - 1 /\ i + 1 = next
    BY <1>1, <1>12
  <2>2. /\ Positions(segments)[next] \in Nat /\ Positions(segments)[Len(segments) + 1] \in Nat
        /\ Positions(segments)[next] <= Positions(segments)[Len(segments) + 1]
    BY <1>1, <2>1, StreamReaches
  <2>3. pos + n <= StreamSize /\ StreamSize \in Nat
    BY <1>1, <1>6, <1>7, <1>12, <2>2
  <2> QED
    BY <1>1, <1>5, <1>7, <2>3 DEF Least
<1>14. out \o a \in Seq(Byte) /\ want - Len(a) \in Nat /\ left - n \in Nat /\ pos + n \in Nat
  BY <1>1, <1>2, <1>7, <1>8, Joined
<1>15. FontTyped'
  BY <1>4, <1>9, <1>13, <1>14 DEF FontInv, FontTyped
<1>16. SoFar'
  <2>1. PICK r : r = Rest(FALSE, fontAt, pos + n, left - n, fontSize)
    OBVIOUS
  <2>2. r \in Seq(Byte)
    BY <1>1, <1>14, <2>1, RestTyped
  <2>3. Rest(inFont, fontAt, pos, left, fontSize) = a \o r
    <3>1. Follows(a, r, Rest(FALSE, fontAt, pos, left, fontSize))
      BY <1>1, <1>3, <1>7, <2>1, RestOfSegment
    <3> QED
      BY <1>1, <3>1 DEF Follows
  <2>4. <<>> \o (a \o r) = a \o r /\ <<>> \o r = r
    <3>1. a \o r \in Seq(Byte)
      BY <1>8, <2>2, Joined
    <3> QED
      BY <2>2, <3>1, ConcatEmptySeq
  <2>5. out \o (a \o r) = Rebuilt(segments, fontSize)[next - 1]
    BY <1>1, <1>11, <2>3, <2>4 DEF FontRead, SoFar
  <2>6. (out \o a) \o r = out \o (a \o r)
    BY <1>1, <1>8, <2>2, JoinedInAnyOrder
  <2>7. buffered' \o Rest(inFont', fontAt', pos', left', fontSize') = r
    BY <1>1, <1>4, <1>9, <1>13, <2>1, <2>4
  <2> QED
    BY <1>4, <1>9, <2>5, <2>6, <2>7 DEF SoFar
<1>17. InPlain'
  <2>1. (pos + n) + (left - n) = pos + left
    BY <1>1, <1>7
  <2> QED
    BY <1>1, <1>4, <1>9, <1>12, <1>13, <2>1 DEF InPlain
<1>18. InTheFont' /\ GlyphsLeft' /\ NoGlyphs'
  BY <1>1, <1>9, <1>11, <1>12 DEF FontRead, InTheFont, GlyphsLeft, NoGlyphs
<1>19. FontRead'
  <2>1. next' # 1 /\ seekLost' = FALSE
    BY <1>1, <1>9, <1>11, <1>12 DEF FontRead, FontInv, FontTyped
  <2> QED
    BY <1>16, <1>17, <1>18, <2>1 DEF FontRead
<1>20. ~done
  BY <1>1 DEF FontInv
<1> QED
  BY <1>9, <1>10, <1>15, <1>19, <1>20 DEF FontInv

(* The segment that is begun: what is buffered and what is to come of it   *)
(* are that segment as it should be.                                       *)
LEMMA PlainBegun ==
  ASSUME NEW ss \in Seq(Segment), NEW i \in 1 .. Len(ss), NEW size \in Nat, ~ ss[i].font, NEW at \in Nat
  PROVE  /\ SegmentHeader(i, SegmentSize(ss[i])) \in Seq(Byte)
         /\ Follows(SegmentHeader(i, SegmentSize(ss[i])),
                    Rest(FALSE, at, Positions(ss)[i] + 2, ss[i].size, size), SegmentOf(ss, size, i))
<1>1. PICK c : c = Content(ss, size, i)
  OBVIOUS
<1>2. PICK h : h = SegmentHeader(i, SegmentSize(ss[i]))
  OBVIOUS
<1>3. c = Bytes("stream", 0, Positions(ss)[i] + 2, ss[i].size) /\ 1 + Len(c) = SegmentSize(ss[i])
  BY <1>1, PlainContent
<1>4. SegmentOf(ss, size, i) = h \o c
  BY <1>1, <1>2, <1>3 DEF SegmentOf
<1>5. h \in Seq(Byte)
  BY <1>1, <1>2, <1>3, SegmentOfTyped
<1>6. Rest(FALSE, at, Positions(ss)[i] + 2, ss[i].size, size) = c
  BY <1>3 DEF Rest
<1> QED
  BY <1>2, <1>4, <1>5, <1>6 DEF Follows

LEMMA FontBegun ==
  ASSUME NEW ss \in Seq(Segment), NEW i \in 1 .. Len(ss), NEW size \in Nat, ss[i].font, NEW place \in Nat
  PROVE  /\ Append(SegmentHeader(i, 2 + FontAligned(size)), <<"font", 0, size>>) \in Seq(Byte)
         /\ Follows(Append(SegmentHeader(i, 2 + FontAligned(size)), <<"font", 0, size>>),
                    Rest(TRUE, 0, place, size, size), SegmentOf(ss, size, i))
<1>1. PICK c : c = Content(ss, size, i)
  OBVIOUS
<1>2. PICK h : h = SegmentHeader(i, 2 + FontAligned(size))
  OBVIOUS
<1>3. PICK f : f = <<<<"font", 0, size>>>>
  OBVIOUS
<1>4. PICK r : r = Rest(TRUE, 0, place, size, size)
  OBVIOUS
<1>5. /\ c \in Seq(Byte) /\ 1 + Len(c) = 2 + FontAligned(size)
      /\ c = <<<<"font", 0, size>>>> \o (Bytes("glyph", 0, 0, size) \o Xs(FontAligned(size) - size))
  BY <1>1, FontContent
<1>6. c = f \o r
  BY <1>3, <1>4, <1>5 DEF Rest
<1>7. SegmentOf(ss, size, i) = h \o c
  BY <1>1, <1>2, <1>5 DEF SegmentOf
<1>8. h \in Seq(Byte)
  BY <1>1, <1>2, <1>5, SegmentOfTyped
<1>9. <<"font", 0, size>> \in Byte
  BY ByteTyped, TagsAre
<1>10. f \in Seq(Byte)
  BY <1>3, <1>9
<1>11. r \in Seq(Byte)
  <2>1. 0 \in Nat /\ TRUE \in BOOLEAN
    OBVIOUS
  <2> QED
    BY <1>4, <2>1, RestTyped
<1>12. Append(h, <<"font", 0, size>>) = h \o f
  BY <1>3, <1>8, <1>9, AppendIsConcat
<1>13. h \o f \in Seq(Byte) /\ h \o f \o r = h \o (f \o r)
  <2>1. h \o f \in Seq(Byte)
    BY <1>8, <1>10, Joined
  <2>2. h \o f \o r = h \o (f \o r)
    BY <1>8, <1>10, <1>11, JoinedInAnyOrder
  <2> QED
    BY <2>1, <2>2
<1> QED
  BY <1>2, <1>4, <1>6, <1>7, <1>12, <1>13 DEF Follows

LEMMA NextSegmentFont ==
  ASSUME FontInv, kind = "font", NextSegment
  PROVE  FontInv'
<1>1. /\ out \in Seq(Byte) /\ buffered = <<>> /\ want \in Nat /\ left = 0
      /\ pos \in Nat /\ fontAt \in Nat /\ fontSize \in Nat /\ fontSize > 0 /\ inFont \in BOOLEAN /\ inRead
      /\ segments \in Seq(Segment) /\ next \in 1 .. Len(segments) + 1 /\ ~finalized
      /\ marked \in BOOLEAN
  BY DEF FontInv, FontTyped, NextSegment, InLoop
<1>2. FontRead
  BY <1>1 DEF FontInv
<1>3. inFont = FALSE
  BY <1>1, <1>2 DEF FontRead, GlyphsLeft
<1>4. UNCHANGED <<segments, fontSize, marked, packed, chunk, out, want, fontAt, done, inRead>>
  BY DEF NextSegment, input
<1>5. PICK found \in SeekReturns(Positions(segments)[next]) :
        IF found /\ next <= Len(segments)
        THEN LET s == segments[next]
             IN /\ Advance(Positions(segments)[next] - pos + 2)
                /\ next' = next + 1
                /\ inFont' = (inFont \/ s.font)
                /\ left' = IF s.font THEN fontSize ELSE s.size
                /\ buffered' = IF s.font
                               THEN Append(SegmentHeader(next, 2 + FontAligned(fontSize)), <<"font", 0, fontSize>>)
                               ELSE SegmentHeader(next, SegmentSize(s))
                /\ UNCHANGED <<finalized, seekLost>>
        ELSE /\ finalized' = TRUE
             /\ buffered' = StopMarker
             /\ seekLost' = ~found
             /\ pos' = StreamSize /\ ended' = TRUE
             /\ UNCHANGED <<next, inFont, left>>
  BY DEF NextSegment, Position
<1>6. StreamSize = Positions(segments)[Len(segments) + 1] + (IF marked THEN 1 ELSE 0)
  BY DEF StreamSize, Position
<1>7. ~done
  BY <1>1 DEF FontInv
<1>8. out = Rebuilt(segments, fontSize)[next - 1]
  <2>1. Rest(inFont, fontAt, pos, left, fontSize) = <<>>
    BY <1>1, <1>3, NoRest
  <2>2. out \o (<<>> \o <<>>) = out
    <3>1. <<>> \o <<>> = <<>>
      OBVIOUS
    <3>2. out \o <<>> = out
      BY <1>1, ConcatEmptySeq
    <3> QED
      BY <3>1, <3>2
  <2> QED
    BY <1>1, <1>2, <2>1, <2>2 DEF FontRead, SoFar
<1>9. pos <= Positions(segments)[next]
  <2>1. Positions(segments)[1] = 0 /\ Positions(segments)[next] \in Nat
    BY <1>1, PositionsAre
  <2>2. CASE next = 1
    BY <1>1, <1>2, <2>1, <2>2 DEF FontRead
  <2>3. CASE next > 1
    BY <1>1, <1>2, <2>1, <2>3 DEF FontRead, InPlain, InTheFont
  <2> QED
    BY <1>1, <2>2, <2>3
<1>10. CASE found /\ next <= Len(segments)
  <2>1. next \in 1 .. Len(segments) /\ next + 1 \in 1 .. Len(segments) + 1 /\ next + 1 > 1
        /\ next + 1 - 1 = next
    BY <1>1, <1>10
  <2>2. PICK s : s = segments[next]
    OBVIOUS
  <2>3. /\ Advance(Positions(segments)[next] - pos + 2)
        /\ next' = next + 1
        /\ inFont' = (inFont \/ s.font)
        /\ left' = IF s.font THEN fontSize ELSE s.size
        /\ buffered' = IF s.font
                       THEN Append(SegmentHeader(next, 2 + FontAligned(fontSize)), <<"font", 0, fontSize>>)
                       ELSE SegmentHeader(next, SegmentSize(s))
        /\ UNCHANGED <<finalized, seekLost>>
    BY <1>5, <1>10, <2>2
  <2>4. s \in Segment /\ s.font \in BOOLEAN /\ s.size \in Nat
    BY <1>1, <2>1, <2>2, SegmentTyped DEF Segment
  <2>5. PICK p \in Nat : p = Positions(segments)[next]
    BY <1>1, PositionsAre
  <2>6. PICK q \in Nat : q = Positions(segments)[next + 1]
    BY <1>1, <2>1, PositionsAre
  <2>7. q = p + 2 + (IF s.font THEN 1 ELSE 0) + s.size
    BY <1>1, <2>1, <2>2, <2>5, <2>6, StreamReaches
  <2>8. PICK z \in Nat : z = Positions(segments)[Len(segments) + 1]
    BY <1>1, PositionsAre
  <2>9. q <= z
    BY <1>1, <2>1, <2>6, <2>8, StreamReaches
  <2>10. pos' = Least(pos + (p - pos + 2), StreamSize)
    BY <2>3, <2>5 DEF Advance
  <2>11. pos' = p + 2
    <3>1. pos + (p - pos + 2) = p + 2
      BY <1>1, <2>5
    <3>2. p + 2 <= q
      BY <2>4, <2>7
    <3>3. StreamSize \in Nat /\ z <= StreamSize
      BY <1>6, <2>8
    <3>4. p + 2 <= StreamSize
      BY <2>9, <3>2, <3>3
    <3> QED
      BY <2>10, <3>1, <3>3, <3>4 DEF Least
  <2>12. inFont' = s.font
    BY <1>3, <2>3, <2>4
  <2>13. buffered' \in Seq(Byte) /\ Follows(buffered', Rest(inFont', fontAt', pos', left', fontSize'), SegmentOf(segments, fontSize, next))
         /\ (s.font => fontAt = 0)
    <3>1. CASE s.font
      <4>1. buffered' = Append(SegmentHeader(next, 2 + FontAligned(fontSize)), <<"font", 0, fontSize>>)
            /\ left' = fontSize /\ inFont' = TRUE
        BY <2>3, <2>12, <3>1
      <4>2. ASSUME NEW i \in 1 .. next - 1 PROVE ~segments[i].font
        <5>1. i \in 1 .. Len(segments) /\ i # next
          BY <1>1, <2>1
        <5> QED
          BY <2>1, <2>2, <3>1, <5>1 DEF FontInv, FontTyped
      <4>3. fontAt = 0
        BY <1>2, <4>2 DEF FontRead, NoGlyphs
      <4>4. /\ Append(SegmentHeader(next, 2 + FontAligned(fontSize)), <<"font", 0, fontSize>>) \in Seq(Byte)
            /\ Follows(Append(SegmentHeader(next, 2 + FontAligned(fontSize)), <<"font", 0, fontSize>>),
                       Rest(TRUE, 0, p + 2, fontSize, fontSize), SegmentOf(segments, fontSize, next))
        <5>1. p + 2 \in Nat
          OBVIOUS
        <5> QED
          BY <1>1, <2>1, <2>2, <3>1, <5>1, FontBegun
      <4> QED
        BY <1>4, <2>11, <4>1, <4>3, <4>4
    <3>2. CASE ~s.font
      <4>1. buffered' = SegmentHeader(next, SegmentSize(s)) /\ left' = s.size /\ inFont' = FALSE
        BY <2>3, <2>4, <2>12, <3>2
      <4>2. /\ SegmentHeader(next, SegmentSize(s)) \in Seq(Byte)
            /\ Follows(SegmentHeader(next, SegmentSize(s)), Rest(FALSE, fontAt, p + 2, s.size, fontSize),
                       SegmentOf(segments, fontSize, next))
        BY <1>1, <2>1, <2>2, <2>5, <3>2, PlainBegun
      <4> QED
        BY <1>4, <2>11, <3>2, <4>1, <4>2
    <3> QED
      BY <3>1, <3>2
  <2>14. left' \in Nat /\ pos' \in Nat /\ inFont' \in BOOLEAN
    BY <1>1, <2>3, <2>4, <2>11, <2>12
  <2>15. FontTyped'
    BY <1>4, <2>1, <2>3, <2>13, <2>14 DEF FontInv, FontTyped
  <2>16. SoFar'
    <3>1. Rebuilt(segments, fontSize)[next] = out \o SegmentOf(segments, fontSize, next)
      BY <1>1, <1>8, <2>1, RebuiltIs
    <3>2. SegmentOf(segments, fontSize, next) = buffered' \o Rest(inFont', fontAt', pos', left', fontSize')
      BY <2>13 DEF Follows
    <3>3. out \o (buffered' \o Rest(inFont', fontAt', pos', left', fontSize')) = Rebuilt(segments, fontSize)[next]
      BY <3>1, <3>2
    <3>4. next' - 1 = next /\ out' = out /\ segments' = segments /\ fontSize' = fontSize
      BY <1>4, <2>1, <2>3
    <3> QED
      BY <3>3, <3>4 DEF SoFar
  <2>17. InPlain'
    <3>1. ~s.font => (p + 2) + s.size = q
      BY <2>4, <2>7
    <3>2. ~s.font => left' = s.size
      BY <2>3
    <3> QED
      BY <1>4, <2>1, <2>2, <2>3, <2>6, <2>11, <2>12, <3>1, <3>2 DEF InPlain
  <2>18. InTheFont'
    <3>1. p + 2 <= q
      BY <2>4, <2>7
    <3> QED
      BY <1>4, <2>1, <2>2, <2>3, <2>6, <2>11, <2>12, <3>1 DEF InTheFont
  <2>19. GlyphsLeft'
    <3>1. s.font => left' = fontSize /\ fontAt = 0
      BY <2>3, <2>13
    <3>2. fontSize - 0 = fontSize
      BY <1>1
    <3>3. inFont' => left' > 0 /\ left' = fontSize' - fontAt'
      BY <1>1, <1>4, <2>12, <3>1, <3>2
    <3>4. next' - 1 = next /\ next' > 1 /\ segments' = segments
      BY <1>4, <2>1, <2>3
    <3>5. inFont' => segments'[next' - 1].font
      BY <2>2, <2>12, <3>4
    <3> QED
      BY <3>3, <3>4, <3>5 DEF GlyphsLeft
  <2>20. NoGlyphs'
    <3>1. (\A i \in 1 .. next : ~segments[i].font) => (\A i \in 1 .. next - 1 : ~segments[i].font)
      BY <2>1
    <3>2. (\A i \in 1 .. next : ~segments[i].font) => fontAt = 0
      BY <1>2, <3>1 DEF FontRead, NoGlyphs
    <3> QED
      BY <1>4, <2>1, <2>3, <3>2 DEF NoGlyphs
  <2>21. FontRead'
    BY <1>2, <2>1, <2>3, <2>16, <2>17, <2>18, <2>19, <2>20 DEF FontRead
  <2> QED
    BY <1>1, <1>2, <1>4, <1>7, <2>3, <2>15, <2>21 DEF FontInv, FontRead
<1>11. CASE ~(found /\ next <= Len(segments))
  <2>1. /\ finalized' = TRUE /\ buffered' = StopMarker /\ seekLost' = ~found
        /\ pos' = StreamSize
        /\ UNCHANGED <<next, inFont, left>>
    BY <1>5, <1>11
  <2>2. StopMarker = EndMark(marked, out)
    BY DEF StopMarker, EndMark, Marker, Zeros
  <2>3. buffered' \in Seq(Byte) /\ out \o buffered' = Ended(marked, out)
    BY <1>1, <2>1, <2>2, EndMarkEnds
  <2>4. found \in BOOLEAN /\ (~found => packed /\ pos < Positions(segments)[next])
    BY <1>5 DEF SeekReturns
  <2>5. StreamSize \in Nat
    <3>1. Positions(segments)[Len(segments) + 1] \in Nat
      BY <1>1, PositionsAre
    <3> QED
      BY <1>6, <3>1
  <2>6. FontTyped'
    BY <1>4, <2>1, <2>3, <2>4, <2>5 DEF FontInv, FontTyped
  <2>7. found => next - 1 = Len(segments)
    BY <1>1, <1>11
  <2>8. FontEnded'
    BY <1>1, <1>4, <1>8, <2>1, <2>3, <2>4, <2>7 DEF FontEnded
  <2>9. ~found => packed /\ next > 1 /\ segments[next - 1].font
    <3> SUFFICES ASSUME ~found PROVE packed /\ next > 1 /\ segments[next - 1].font
      OBVIOUS
    <3>1. Positions(segments)[1] = 0 /\ Positions(segments)[next] \in Nat
      BY <1>1, PositionsAre
    <3>2. next # 1
      BY <1>1, <2>4, <3>1
    <3>3. next > 1
      BY <1>1, <3>2
    <3>4. ~segments[next - 1].font => pos = Positions(segments)[next]
      BY <1>1, <1>2, <3>1, <3>3 DEF FontRead, InPlain
    <3> QED
      BY <1>1, <2>4, <3>1, <3>3, <3>4
  <2> QED
    BY <1>4, <1>7, <2>1, <2>6, <2>8, <2>9 DEF FontInv
<1> QED
  BY <1>10, <1>11

LEMMA FontStep ==
  ASSUME FontInv, kind = "font", [ReaderNext]_readerVars
  PROVE  FontInv'
<1>1. CASE BeginRead
  <2>1. UNCHANGED fontVars /\ want' = chunk /\ ~done /\ done' = done
    BY <1>1 DEF BeginRead, input, rebuilder, fontVars
  <2>2. want' \in Nat
    BY <2>1 DEF FontInv, FontTyped
  <2> QED
    BY <2>1, <2>2, FontKept
<1>2. CASE ReturnRead
  <2>1. UNCHANGED fontVars /\ want' = want /\ inRead' = FALSE /\ done' = done
    BY <1>2 DEF ReturnRead, input, rebuilder, fontVars
  <2>2. want' \in Nat
    BY <2>1 DEF FontInv, FontTyped
  <2>3. done' => finalized /\ buffered = <<>> /\ ~inRead'
    BY <2>1 DEF FontInv
  <2> QED
    BY <2>1, <2>2, <2>3, FontKept
<1>3. CASE FinishFile
  <2>1. UNCHANGED fontVars /\ want' = want /\ ~inRead /\ inRead' = inRead /\ AtEnd
    BY <1>3 DEF FinishFile, input, rebuilder, fontVars
  <2>2. want' \in Nat
    BY <2>1 DEF FontInv, FontTyped
  <2>3. finalized /\ buffered = <<>>
    BY <2>1 DEF AtEnd
  <2> QED
    BY <2>1, <2>2, <2>3, FontKept
<1>4. CASE CopyStream
  BY <1>4 DEF CopyStream
<1>5. CASE CopyPart
  BY <1>5 DEF CopyPart
<1>6. CASE TakeBuffered
  BY <1>6, TakeBufferedFont
<1>7. CASE NextSegment
  BY <1>7, NextSegmentFont
<1>8. CASE CopyFont
  BY <1>8, CopyFontFont
<1>9. CASE CopySegment
  BY <1>9, CopySegmentFont
<1>10. CASE UNCHANGED readerVars
  <2>1. UNCHANGED fontVars /\ want' = want /\ done' = done /\ inRead' = inRead
    BY <1>10 DEF readerVars, input, rebuilder, fontVars
  <2>2. want' \in Nat
    BY <2>1 DEF FontInv, FontTyped
  <2>3. done' => finalized /\ buffered = <<>> /\ ~inRead'
    BY <2>1 DEF FontInv
  <2> QED
    BY <2>1, <2>2, <2>3, FontKept
<1> QED
  BY <1>1, <1>2, <1>3, <1>4, <1>5, <1>6, <1>7, <1>8, <1>9, <1>10 DEF ReaderNext

LEMMA WithEndIs ==
  \A bytes : WithEnd(bytes) = Ended(marked, bytes)
BY DEF WithEnd, Ended, Zeros

LEMMA FontOutputRight ==
  ASSUME FontInv, kind = "font"
  PROVE  OutputRight /\ AllIsRead
<1>1. /\ out \in Seq(Byte) /\ buffered \in Seq(Byte) /\ segments \in Seq(Segment) /\ fontSize \in Nat
      /\ next \in 1 .. Len(segments) + 1 /\ marked \in BOOLEAN /\ finalized \in BOOLEAN
  BY DEF FontInv, FontTyped
<1>2. PICK R : R = Rebuilt(segments, fontSize)
  OBVIOUS
<1>3. Expected = Ended(marked, R[IF seekLost THEN next - 1 ELSE Len(segments)])
  BY <1>2, WithEndIs DEF Expected
<1>4. CASE ~finalized
  <2>1. FontRead
    BY <1>4 DEF FontInv
  <2>2. PICK r : r = buffered \o Rest(inFont, fontAt, pos, left, fontSize)
    OBVIOUS
  <2>3. r \in Seq(Byte)
    <3>1. Rest(inFont, fontAt, pos, left, fontSize) \in Seq(Byte)
      BY <1>1, RestTyped DEF FontInv, FontTyped
    <3> QED
      BY <1>1, <2>2, <3>1, Joined
  <2>4. out \o r = R[next - 1]
    BY <1>2, <2>1, <2>2 DEF FontRead, SoFar
  <2>5. Begins(out, R[next - 1])
    BY <2>3, <2>4 DEF Begins
  <2>6. next - 1 \in 0 .. Len(segments) /\ Len(segments) \in next - 1 .. Len(segments)
    BY <1>1
  <2>7. Begins(R[next - 1], R[Len(segments)])
    BY <1>1, <1>2, <2>6, RebuiltBegins
  <2>8. R[Len(segments)] \in Seq(Byte)
    <3>1. Len(segments) \in 0 .. Len(segments)
      BY <1>1
    <3> QED
      BY <1>1, <1>2, <3>1, RebuiltIs
  <2>9. Begins(R[Len(segments)], Ended(marked, R[Len(segments)]))
    BY <1>1, <2>8, EndedBegins
  <2>10. R[next - 1] \in Seq(Byte)
    BY <1>1, <2>3, <2>4, Joined
  <2>11. Begins(out, R[Len(segments)])
    BY <1>1, <2>5, <2>7, BeginsFurther
  <2>12. Begins(out, Ended(marked, R[Len(segments)]))
    BY <1>1, <2>9, <2>11, BeginsFurther
  <2>13. Expected = Ended(marked, R[Len(segments)]) /\ ~seekLost /\ ~done
    BY <1>3, <1>4, <2>1 DEF FontRead, FontInv
  <2>14. Len(out) <= Len(Expected) /\ out = SubSeq(Expected, 1, Len(out))
    BY <1>1, <2>12, <2>13, BeginsIs
  <2> QED
    BY <2>13, <2>14 DEF OutputRight, AllIsRead
<1>5. CASE finalized
  <2>1. out \o buffered = Expected
    BY <1>2, <1>3, <1>5 DEF FontInv, FontEnded
  <2>2. Begins(out, Expected)
    BY <1>1, <2>1 DEF Begins
  <2>3. Len(out) <= Len(Expected) /\ out = SubSeq(Expected, 1, Len(out))
    BY <1>1, <2>2, BeginsIs
  <2>4. done => out = Expected
    <3>1. out \o <<>> = out
      BY <1>1, ConcatEmptySeq
    <3> QED
      BY <2>1, <3>1 DEF FontInv
  <2>5. seekLost => packed /\ segments[next - 1].font
    BY DEF FontInv
  <2> QED
    BY <2>3, <2>4, <2>5 DEF OutputRight, AllIsRead
<1> QED
  BY <1>1, <1>4, <1>5

-----------------------------------------------------------------------------
(* The file with textures over parts of it                                 *)

End(p) == p.offset + p.size

(* Parts in the order they lie in, each texture with one raster.           *)
PartsInOrder(ps) ==
  /\ ps \in Seq(Part)
  /\ \A k \in 1 .. Len(ps) : ps[k].size > 0 /\ End(ps[k]) <= DataSize
  /\ \A j, k \in 1 .. Len(ps) : j < k => End(ps[j]) <= ps[k].offset
  /\ \A k \in 1 .. Len(ps) : \E j \in 1 .. Len(ps) : ps[j].tex = ps[k].tex /\ ps[j].type = "raster"
  /\ \A j, k \in 1 .. Len(ps) :
       ps[j].type = "raster" /\ ps[k].type = "raster" /\ ps[j].tex = ps[k].tex => j = k

LEMMA PartTyped ==
  ASSUME NEW ps, PartsInOrder(ps), NEW k \in 1 .. Len(ps)
  PROVE  /\ ps[k] \in Part /\ ps[k].tex \in Nat /\ ps[k].type \in {"raster", "palette"}
         /\ ps[k].offset \in Nat /\ ps[k].size \in Nat /\ End(ps[k]) \in Nat
         /\ ps[k].offset < End(ps[k]) /\ End(ps[k]) <= DataSize /\ End(ps[k]) = ps[k].offset + ps[k].size
<1>1. ps[k] \in Part
  BY DEF PartsInOrder
<1>2. /\ ps[k].tex \in Nat /\ ps[k].type \in {"raster", "palette"}
      /\ ps[k].offset \in Nat /\ ps[k].size \in Nat
  BY <1>1 DEF Part
<1>3. ps[k].size > 0 /\ End(ps[k]) <= DataSize
  BY DEF PartsInOrder
<1> QED
  BY <1>1, <1>2, <1>3 DEF End

LEMMA SortedInOrder ==
  ASSUME NEW ps \in Patched, NEW s \in Sorted(ps)
  PROVE  PartsInOrder(s)
<1>1. /\ ps \subseteq Part /\ IsFiniteSet(ps)
      /\ \A p \in ps : /\ p.size > 0 /\ p.offset + p.size <= DataSize
                       /\ \E q \in ps : q.tex = p.tex /\ q.type = "raster"
      /\ \A p, q \in ps : p # q => /\ Apart(p, q)
                                   /\ p.type = "raster" /\ q.type = "raster" => p.tex # q.tex
  BY PatchedAssumption
<1>2. PICK n \in Nat : n = Cardinality(ps)
  BY <1>1, FS_CardinalityType
<1>3. s \in [1 .. n -> ps] /\ Range(s) = ps /\ \A j, k \in 1 .. n : j < k => s[j].offset < s[k].offset
  BY <1>2 DEF Sorted
<1>4. s \in Seq(Part) /\ Len(s) = n /\ DOMAIN s = 1 .. n
  <2>1. s \in [1 .. n -> Part]
    BY <1>1, <1>3
  <2> QED
    BY <2>1
<1>5. \A k \in 1 .. n : s[k] \in ps /\ s[k].offset \in Nat /\ s[k].size \in Nat
  <2> SUFFICES ASSUME NEW k \in 1 .. n PROVE s[k] \in ps /\ s[k].offset \in Nat /\ s[k].size \in Nat
    OBVIOUS
  <2>1. s[k] \in ps
    BY <1>3
  <2>2. s[k] \in Part
    BY <1>1, <2>1
  <2> QED
    BY <2>1, <2>2 DEF Part
<1>6. \A k \in 1 .. n : s[k].size > 0 /\ End(s[k]) <= DataSize
  BY <1>1, <1>5 DEF End
<1>7. ASSUME NEW j \in 1 .. n, NEW k \in 1 .. n, j < k
      PROVE  End(s[j]) <= s[k].offset
  <2>1. s[j].offset < s[k].offset
    BY <1>3, <1>7
  <2>2. s[j] # s[k]
    BY <1>5, <2>1
  <2>3. Apart(s[j], s[k])
    BY <1>1, <1>5, <2>2
  <2>4. s[j].offset + s[j].size <= s[k].offset \/ s[k].offset + s[k].size <= s[j].offset
    BY <2>3 DEF Apart
  <2> QED
    BY <1>5, <2>1, <2>4 DEF End
<1>8. ASSUME NEW k \in 1 .. n
      PROVE  \E j \in 1 .. n : s[j].tex = s[k].tex /\ s[j].type = "raster"
  <2>1. PICK q \in ps : q.tex = s[k].tex /\ q.type = "raster"
    BY <1>1, <1>5
  <2>2. PICK j \in 1 .. n : s[j] = q
    BY <1>3, <1>4 DEF Range
  <2> QED
    BY <2>1, <2>2
<1>9. ASSUME NEW j \in 1 .. n, NEW k \in 1 .. n,
             s[j].type = "raster", s[k].type = "raster", s[j].tex = s[k].tex
      PROVE  j = k
  <2>1. s[j] = s[k]
    BY <1>1, <1>5, <1>9
  <2>2. ~ (j < k) /\ ~ (k < j)
    BY <1>3, <1>5, <2>1
  <2> QED
    BY <2>2
<1> QED
  BY <1>4, <1>6, <1>7, <1>8, <1>9 DEF PartsInOrder

(* The byte of the patched file, and of a texture's file, by its place.    *)
ByteAt(ps, i) ==
  LET over == {k \in 1 .. Len(ps) : i \in ps[k].offset .. ps[k].offset + ps[k].size - 1}
  IN IF over = {} THEN <<"stream", 0, i>>
     ELSE LET p == ps[CHOOSE k \in over : TRUE] IN <<p.type, p.tex, i - p.offset>>

RasterOf(ps, t) ==
  LET raster == CHOOSE k \in 1 .. Len(ps) : ps[k].tex = t /\ ps[k].type = "raster"
  IN ps[raster].size + 1
StartOf(ps, p) == IF p.type = "palette" THEN RasterOf(ps, p.tex) ELSE 0
TextureByte(ps, t, at) == IF at < RasterOf(ps, t) THEN <<"raster", t, at>>
                          ELSE <<"palette", t, at - RasterOf(ps, t)>>

LEMMA NoPartOver ==
  ASSUME NEW ps, PartsInOrder(ps), NEW i \in Nat,
         \A k \in 1 .. Len(ps) : End(ps[k]) <= i \/ i < ps[k].offset
  PROVE  ByteAt(ps, i) = <<"stream", 0, i>>
<1>1. ASSUME NEW k \in 1 .. Len(ps), i \in ps[k].offset .. ps[k].offset + ps[k].size - 1
      PROVE  FALSE
  <2>1. /\ ps[k].offset \in Nat /\ ps[k].size \in Nat /\ End(ps[k]) = ps[k].offset + ps[k].size
    BY PartTyped
  <2> QED
    BY <1>1, <2>1
<1> QED
  BY <1>1 DEF ByteAt

LEMMA PartOver ==
  ASSUME NEW ps, PartsInOrder(ps), NEW k \in 1 .. Len(ps), NEW i \in Nat, ps[k].offset <= i, i < End(ps[k])
  PROVE  ByteAt(ps, i) = <<ps[k].type, ps[k].tex, i - ps[k].offset>>
<1> DEFINE over == {j \in 1 .. Len(ps) : i \in ps[j].offset .. ps[j].offset + ps[j].size - 1}
<1>1. \A j \in 1 .. Len(ps) : /\ ps[j].offset \in Nat /\ ps[j].size \in Nat
                              /\ End(ps[j]) = ps[j].offset + ps[j].size
  BY PartTyped
<1>2. k \in over
  BY <1>1
<1>3. ASSUME NEW j \in over PROVE j = k
  <2>1. j \in 1 .. Len(ps) /\ ps[j].offset <= i /\ i < End(ps[j])
    BY <1>1
  <2>2. ~ (j < k)
    <3>1. j < k => End(ps[j]) <= ps[k].offset
      BY <2>1 DEF PartsInOrder
    <3>2. ps[k].offset \in Nat /\ End(ps[j]) \in Nat
      BY <2>1, PartTyped
    <3> QED
      BY <2>1, <3>1, <3>2
  <2>3. ~ (k < j)
    <3>1. k < j => End(ps[k]) <= ps[j].offset
      BY <2>1 DEF PartsInOrder
    <3>2. ps[j].offset \in Nat /\ End(ps[k]) \in Nat
      BY <2>1, PartTyped
    <3> QED
      BY <2>1, <3>1, <3>2
  <2> QED
    BY <2>1, <2>2, <2>3
<1>4. (CHOOSE j \in over : TRUE) = k
  BY <1>2, <1>3
<1> QED
  BY <1>2, <1>4 DEF ByteAt

LEMMA RasterIs ==
  ASSUME NEW ps, PartsInOrder(ps), NEW k \in 1 .. Len(ps)
  PROVE  /\ RasterOf(ps, ps[k].tex) \in Nat
         /\ ps[k].type = "raster" => RasterOf(ps, ps[k].tex) = ps[k].size + 1
<1>1. PICK r : r = CHOOSE j \in 1 .. Len(ps) : ps[j].tex = ps[k].tex /\ ps[j].type = "raster"
  OBVIOUS
<1>2. r \in 1 .. Len(ps) /\ ps[r].tex = ps[k].tex /\ ps[r].type = "raster"
  BY <1>1 DEF PartsInOrder
<1>3. RasterOf(ps, ps[k].tex) = ps[r].size + 1
  BY <1>1 DEF RasterOf
<1>4. ps[k].type = "raster" => k = r
  BY <1>2 DEF PartsInOrder
<1>5. ps[r].size \in Nat
  BY <1>2, PartTyped
<1> QED
  BY <1>3, <1>4, <1>5

(* A texture's file holds at the place a part starts what belongs there.   *)
LEMMA TextureBytes ==
  ASSUME NEW ps, PartsInOrder(ps), NEW k \in 1 .. Len(ps), NEW n \in Nat, n < ps[k].size
  PROVE  /\ StartOf(ps, ps[k]) \in Nat
         /\ TextureByte(ps, ps[k].tex, StartOf(ps, ps[k]) + n) = <<ps[k].type, ps[k].tex, n>>
<1>1. PICK r \in Nat : r = RasterOf(ps, ps[k].tex)
  BY RasterIs
<1>2. ps[k].type = "raster" => r = ps[k].size + 1
  BY <1>1, RasterIs
<1>3. ps[k].type \in {"raster", "palette"} /\ ps[k].size \in Nat
  BY PartTyped
<1>4. CASE ps[k].type = "raster"
  <2>1. StartOf(ps, ps[k]) = 0 /\ 0 + n = n
    BY <1>4 DEF StartOf
  <2>2. n < r
    BY <1>2, <1>3, <1>4
  <2> QED
    BY <1>1, <1>4, <2>1, <2>2 DEF TextureByte
<1>5. CASE ps[k].type = "palette"
  <2>1. StartOf(ps, ps[k]) = r
    BY <1>1, <1>5 DEF StartOf
  <2>2. ~ (r + n < r) /\ (r + n) - r = n
    BY <1>1
  <2> QED
    BY <1>1, <1>5, <2>1, <2>2 DEF TextureByte
<1> QED
  BY <1>3, <1>4, <1>5

LEMMA ByteAtTyped ==
  ASSUME NEW ps, PartsInOrder(ps), NEW i \in Nat
  PROVE  ByteAt(ps, i) \in Byte
<1>1. CASE \A k \in 1 .. Len(ps) : End(ps[k]) <= i \/ i < ps[k].offset
  <2>1. ByteAt(ps, i) = <<"stream", 0, i>>
    BY <1>1, NoPartOver
  <2> QED
    BY <2>1, ByteTyped, TagsAre
<1>2. CASE ~ \A k \in 1 .. Len(ps) : End(ps[k]) <= i \/ i < ps[k].offset
  <2>1. PICK k \in 1 .. Len(ps) : ~ (End(ps[k]) <= i) /\ ~ (i < ps[k].offset)
    BY <1>2
  <2>2. ps[k].tex \in Nat /\ ps[k].type \in {"raster", "palette"} /\ ps[k].offset \in Nat /\ End(ps[k]) \in Nat
    BY PartTyped
  <2>3. ps[k].type \in Tags
    BY <2>2, TagsAre
  <2>4. ps[k].offset <= i /\ i < End(ps[k]) /\ i - ps[k].offset \in Int /\ ps[k].tex \in Int
    BY <2>1, <2>2
  <2>5. ByteAt(ps, i) = <<ps[k].type, ps[k].tex, i - ps[k].offset>>
    BY <2>4, PartOver
  <2> QED
    BY <2>3, <2>4, <2>5, ByteTyped
<1> QED
  BY <1>1, <1>2

(* Bytes are those of the patched file from a place on.                    *)
AreThose(ps, bytes, from) == \A k \in 1 .. Len(bytes) : bytes[k] = ByteAt(ps, from + k - 1)

LEMMA ThoseThatFollow ==
  ASSUME NEW ps, NEW a \in Seq(Byte), NEW b \in Seq(Byte),
         AreThose(ps, a, 0), AreThose(ps, b, Len(a))
  PROVE  AreThose(ps, a \o b, 0)
<1>1. Len(a) \in Nat /\ Len(b) \in Nat /\ Len(a \o b) = Len(a) + Len(b)
  BY Joined
<1>2. ASSUME NEW k \in 1 .. Len(a \o b)
      PROVE  (a \o b)[k] = ByteAt(ps, 0 + k - 1)
  <2>1. CASE k <= Len(a)
    <3>1. k \in 1 .. Len(a) /\ (a \o b)[k] = a[k]
      BY <1>1, <2>1
    <3> QED
      BY <3>1 DEF AreThose
  <2>2. CASE ~ (k <= Len(a))
    <3>1. k - Len(a) \in 1 .. Len(b) /\ (a \o b)[k] = b[k - Len(a)]
      BY <1>1, <2>2
    <3>2. b[k - Len(a)] = ByteAt(ps, Len(a) + (k - Len(a)) - 1)
      BY <3>1 DEF AreThose
    <3>3. Len(a) + (k - Len(a)) - 1 = 0 + k - 1
      BY <1>1
    <3> QED
      BY <3>1, <3>2, <3>3
  <2> QED
    BY <2>1, <2>2
<1> QED
  BY <1>2 DEF AreThose

(* Between the parts the stream is read, and in a part its texture.        *)
LEMMA BetweenParts ==
  ASSUME NEW ps, PartsInOrder(ps), NEW from \in Nat, NEW n \in Nat,
         \A k \in 1 .. Len(ps) : End(ps[k]) <= from \/ from + n <= ps[k].offset
  PROVE  /\ AreThose(ps, Bytes("stream", 0, from, n), from)
         /\ Bytes("stream", 0, from, n) \in Seq(Byte) /\ Len(Bytes("stream", 0, from, n)) = n
<1>1. PICK b : b = Bytes("stream", 0, from, n)
  OBVIOUS
<1>2. /\ b \in Seq(Byte) /\ Len(b) = n
      /\ \A k \in 1 .. n : b[k] = <<"stream", 0, from + k - 1>>
  <2>1. 0 \in Int /\ from \in Int
    OBVIOUS
  <2>2. PICK t \in Tags : t = "stream"
    BY TagsAre
  <2>3. /\ Bytes(t, 0, from, n) \in Seq(Byte) /\ Len(Bytes(t, 0, from, n)) = n
        /\ \A k \in 1 .. n : Bytes(t, 0, from, n)[k] = <<t, 0, from + k - 1>>
    BY <2>1, BytesTyped, Zenon
  <2> QED
    BY <1>1, <2>2, <2>3
<1>3. ASSUME NEW k \in 1 .. n PROVE b[k] = ByteAt(ps, from + k - 1)
  <2>1. PICK i \in Nat : i = from + k - 1 /\ from <= i /\ i < from + n
    OBVIOUS
  <2>2. ASSUME NEW j \in 1 .. Len(ps) PROVE End(ps[j]) <= i \/ i < ps[j].offset
    <3>1. ps[j].offset \in Nat /\ End(ps[j]) \in Nat
      BY PartTyped
    <3>2. End(ps[j]) <= from \/ from + n <= ps[j].offset
      OBVIOUS
    <3> QED
      BY <2>1, <3>1, <3>2
  <2>3. ByteAt(ps, i) = <<"stream", 0, i>>
    BY <2>2, NoPartOver
  <2> QED
    BY <1>2, <2>1, <2>3
<1>4. AreThose(ps, b, from)
  BY <1>2, <1>3 DEF AreThose
<1> QED
  BY <1>1, <1>2, <1>4

FromTexture(ps, p, from, n) ==
  [k \in 1 .. n |-> TextureByte(ps, p.tex, StartOf(ps, p) + (from - p.offset) + k - 1)]

LEMMA InsidePart ==
  ASSUME NEW ps, PartsInOrder(ps), NEW i \in 1 .. Len(ps), NEW from \in Nat, NEW n \in Nat,
         ps[i].offset <= from, from + n <= End(ps[i]), NEW bytes,
         bytes = FromTexture(ps, ps[i], from, n)
  PROVE  AreThose(ps, bytes, from) /\ bytes \in Seq(Byte) /\ Len(bytes) = n
<1>0. bytes = [k \in 1 .. n |-> TextureByte(ps, ps[i].tex, StartOf(ps, ps[i]) + (from - ps[i].offset) + k - 1)]
  BY DEF FromTexture
<1>1. /\ ps[i].offset \in Nat /\ ps[i].size \in Nat /\ End(ps[i]) = ps[i].offset + ps[i].size
      /\ ps[i].offset < End(ps[i])
  BY PartTyped
<1>2. PICK st \in Nat : st = StartOf(ps, ps[i])
  <2>1. 0 \in Nat /\ 0 < ps[i].size
    BY <1>1
  <2> QED
    BY <2>1, TextureBytes
<1>3. ASSUME NEW k \in 1 .. n
      PROVE  bytes[k] = ByteAt(ps, from + k - 1) /\ ByteAt(ps, from + k - 1) \in Byte
  <2>1. PICK m \in Nat : m = (from - ps[i].offset) + k - 1
    BY <1>1
  <2>2. m < ps[i].size
    <3>1. PICK off \in Nat : off = ps[i].offset
      BY <1>1
    <3>2. PICK size \in Nat : size = ps[i].size
      BY <1>1
    <3>3. from + n <= off + size
      BY <1>1, <3>1, <3>2
    <3>4. m = (from - off) + k - 1
      BY <2>1, <3>1
    <3>5. m < size
      BY <3>3, <3>4
    <3> QED
      BY <3>2, <3>5
  <2>3. TextureByte(ps, ps[i].tex, st + m) = <<ps[i].type, ps[i].tex, m>>
    BY <1>2, <2>2, TextureBytes
  <2>4. bytes[k] = TextureByte(ps, ps[i].tex, st + (from - ps[i].offset) + k - 1)
    BY <1>0, <1>2
  <2>5. st + (from - ps[i].offset) + k - 1 = st + m
    BY <1>1, <2>1
  <2>6. PICK at \in Nat : at = from + k - 1
    OBVIOUS
  <2>7. ps[i].offset <= at /\ at < End(ps[i]) /\ at - ps[i].offset = m
    <3>1. PICK off \in Nat : off = ps[i].offset
      BY <1>1
    <3>2. PICK end \in Nat : end = End(ps[i])
      BY <1>1
    <3>3. off <= from /\ from + n <= end
      BY <3>1, <3>2
    <3>4. off <= at /\ at < end /\ at - off = m
      BY <2>1, <2>6, <3>1, <3>3
    <3> QED
      BY <3>1, <3>2, <3>4
  <2>8. ByteAt(ps, at) = <<ps[i].type, ps[i].tex, m>>
    BY <2>7, PartOver
  <2>9. ByteAt(ps, at) \in Byte
    BY ByteAtTyped
  <2> QED
    BY <2>3, <2>4, <2>5, <2>6, <2>8, <2>9
<1>4. bytes = [k \in 1 .. n |-> bytes[k]]
  BY <1>0
<1>5. bytes \in Seq(Byte) /\ Len(bytes) = n
  <2>1. \A k \in 1 .. n : bytes[k] \in Byte
    BY <1>3
  <2> QED
    BY <1>4, <2>1
<1>6. AreThose(ps, bytes, from)
  BY <1>3, <1>5 DEF AreThose
<1> QED
  BY <1>5, <1>6

(* What is read is how the patched file begins; the part being looked at   *)
(* is the first that is not used up, and if some of it is read, its        *)
(* texture's file is open at the place that follows.                       *)
TexturesTyped ==
  /\ PartsInOrder(parts)
  /\ out \in Seq(Byte) /\ pos = Len(out) /\ pos <= DataSize
  /\ want \in Nat /\ chunk \in Nat
  /\ index \in 0 .. Len(parts) /\ ended \in BOOLEAN /\ seekLost = FALSE

LookingAt(ps, i, p, at, file, place) ==
  /\ p = NullPart \/ (i < Len(ps) /\ p = ps[i + 1])
  /\ \A k \in 1 .. i : End(ps[k]) <= at
  /\ i < Len(ps) =>
       /\ at < End(ps[i + 1])
       /\ ps[i + 1].offset < at =>
            file = ps[i + 1].tex /\ place = StartOf(ps, ps[i + 1]) + (at - ps[i + 1].offset)

TexturesInv ==
  /\ TexturesTyped
  /\ AreThose(parts, out, 0)
  /\ LookingAt(parts, index, info, pos, partFile, partAt)
  /\ ended => pos = DataSize
  /\ done => ended /\ ~inRead

texturesVars == <<parts, out, pos, chunk, index, ended, seekLost, info, partFile, partAt>>

LEMMA TexturesStart ==
  InitTextures /\ ReaderInit => TexturesInv
<1> SUFFICES ASSUME InitTextures, ReaderInit PROVE TexturesInv
  OBVIOUS
<1>1. PartsInOrder(parts)
  BY SortedInOrder DEF InitTextures
<1>2. chunk \in Nat /\ DataSize \in Nat
  BY ReaderAssumption DEF ReaderInit
<1>3. /\ out = <<>> /\ pos = 0 /\ index = 0 /\ info = NullPart /\ ended = FALSE /\ seekLost = FALSE
      /\ want = 0 /\ done = FALSE
  BY DEF ReaderInit
<1>4. <<>> \in Seq(Byte) /\ Len(<<>>) = 0
  OBVIOUS
<1>5. Len(parts) \in Nat
  BY <1>1 DEF PartsInOrder
<1>6. TexturesTyped
  <2>1. out \in Seq(Byte) /\ Len(out) = 0
    BY <1>3, <1>4
  <2>2. 0 \in 0 .. Len(parts) /\ 0 <= DataSize
    BY <1>2, <1>5
  <2> QED
    BY <1>1, <1>2, <1>3, <2>1, <2>2 DEF TexturesTyped
<1>7. AreThose(parts, out, 0)
  BY <1>3, <1>4 DEF AreThose
<1>8. ASSUME 0 < Len(parts)
      PROVE  0 < End(parts[0 + 1]) /\ ~ (parts[0 + 1].offset < 0)
  <2>1. 0 + 1 \in 1 .. Len(parts)
    BY <1>5, <1>8
  <2>2. /\ parts[0 + 1].offset \in Nat /\ End(parts[0 + 1]) \in Nat
        /\ parts[0 + 1].offset < End(parts[0 + 1])
    BY <1>1, <2>1, PartTyped
  <2> QED
    BY <2>2
<1>9. LookingAt(parts, 0, NullPart, 0, partFile, partAt)
  BY <1>8 DEF LookingAt
<1> QED
  BY <1>3, <1>6, <1>7, <1>9 DEF TexturesInv

LEMMA TexturesKept ==
  ASSUME TexturesInv, UNCHANGED texturesVars, want' \in Nat, done' => ended /\ ~inRead'
  PROVE  TexturesInv'
BY DEF TexturesInv, TexturesTyped, texturesVars

LEMMA PartIsNotNull ==
  ASSUME NEW ps, PartsInOrder(ps), NEW k \in 1 .. Len(ps)
  PROVE  ~IsNull(ps[k])
<1>1. ps[k].size > 0
  BY DEF PartsInOrder
<1> QED
  BY <1>1, PartTyped DEF IsNull

LEMMA CurrentIs ==
  ASSUME TexturesInv
  PROVE  IF index < Len(parts) THEN CurrentPart = parts[index + 1] /\ ~IsNull(CurrentPart)
         ELSE CurrentPart = NullPart /\ IsNull(CurrentPart)
<1>1. PartsInOrder(parts) /\ index \in 0 .. Len(parts) /\ Len(parts) \in Nat
  <2>1. PartsInOrder(parts) /\ index \in 0 .. Len(parts)
    BY DEF TexturesInv, TexturesTyped
  <2>2. Len(parts) \in Nat
    BY <2>1 DEF PartsInOrder
  <2> QED
    BY <2>1, <2>2
<1>2. info = NullPart \/ (index < Len(parts) /\ info = parts[index + 1])
  BY DEF TexturesInv, LookingAt
<1>3. IsNull(NullPart)
  BY DEF IsNull, NullPart
<1>4. CASE index < Len(parts)
  <2>1. index + 1 \in 1 .. Len(parts)
    BY <1>1, <1>4
  <2>2. ~IsNull(parts[index + 1])
    BY <1>1, <2>1, PartIsNotNull
  <2> QED
    BY <1>2, <1>3, <1>4, <2>2 DEF CurrentPart
<1>5. CASE ~ (index < Len(parts))
  BY <1>2, <1>3, <1>5 DEF CurrentPart
<1> QED
  BY <1>4, <1>5

(* The stream moves on as far as it goes.                                  *)
LEMMA StreamMoves ==
  ASSUME NEW asked \in Nat, kind = "textures", pos \in Nat, pos <= DataSize, Advance(asked)
  PROVE  /\ pos' = pos + Least(asked, DataSize - pos) /\ pos' <= DataSize
         /\ ended' \in BOOLEAN
         /\ ended' => pos' = DataSize
<1>1. DataSize \in Nat /\ StreamSize = DataSize
  BY ReaderAssumption DEF StreamSize
<1>2. pos' = Least(pos + asked, DataSize)
  BY <1>1 DEF Advance
<1>3. pos' = pos + Least(asked, DataSize - pos) /\ pos' <= DataSize
  BY <1>1, <1>2 DEF Least
<1>4. ended' \in BOOLEAN /\ (ended' => pos + asked >= DataSize)
  <2>1. ended' \in IF packed
                   THEN {e \in BOOLEAN : /\ pos + asked < DataSize => ~e
                                         /\ pos + asked > DataSize => e}
                   ELSE {pos + asked >= DataSize}
    BY <1>1 DEF Advance
  <2>2. CASE packed
    <3>1. ended' \in BOOLEAN /\ (pos + asked < DataSize => ~ended')
      BY <2>1, <2>2
    <3> QED
      BY <1>1, <3>1
  <2>3. CASE ~packed
    <3>1. ended' = (pos + asked >= DataSize)
      BY <2>1, <2>3
    <3>2. (pos + asked >= DataSize) \in BOOLEAN
      OBVIOUS
    <3>3. ended' \in BOOLEAN
      BY <3>1, <3>2, Zenon
    <3>4. ended' => pos + asked >= DataSize
      BY <3>1, Zenon
    <3> QED
      BY <3>3, <3>4
  <2> QED
    BY <2>2, <2>3
<1>5. pos + asked >= DataSize => pos' = DataSize
  BY <1>1, <1>2 DEF Least
<1> QED
  BY <1>3, <1>4, <1>5

LEMMA CopyStreamTextures ==
  ASSUME TexturesInv, CopyStream
  PROVE  TexturesInv'
<1> DEFINE asked == IF IsNull(CurrentPart) THEN want ELSE Least(want, CurrentPart.offset - pos)
           n == Least(asked, DataSize - pos)
<1>1. /\ PartsInOrder(parts) /\ Len(parts) \in Nat /\ out \in Seq(Byte) /\ pos = Len(out) /\ pos <= DataSize
      /\ pos \in Nat /\ want \in Nat /\ index \in 0 .. Len(parts) /\ kind = "textures" /\ inRead
      /\ DataSize \in Nat
  <2>1. /\ PartsInOrder(parts) /\ out \in Seq(Byte) /\ pos = Len(out) /\ pos <= DataSize
        /\ want \in Nat /\ index \in 0 .. Len(parts)
    BY DEF TexturesInv, TexturesTyped
  <2>2. kind = "textures" /\ inRead
    BY DEF CopyStream, InLoop
  <2>3. Len(parts) \in Nat
    BY <2>1 DEF PartsInOrder
  <2>4. pos \in Nat
    BY <2>1
  <2>5. DataSize \in Nat
    BY ReaderAssumption
  <2> QED
    BY <2>1, <2>2, <2>3, <2>4, <2>5
<1>2. IsNull(CurrentPart) \/ pos < CurrentPart.offset
  BY DEF CopyStream
<1>3. index < Len(parts) => CurrentPart = parts[index + 1] /\ ~IsNull(CurrentPart)
                           /\ index + 1 \in 1 .. Len(parts) /\ pos < CurrentPart.offset
  BY <1>1, <1>2, CurrentIs
<1>4. ~ (index < Len(parts)) => CurrentPart = NullPart /\ IsNull(CurrentPart) /\ index = Len(parts)
  BY <1>1, CurrentIs
<1>5. index < Len(parts) => CurrentPart.offset \in Nat /\ CurrentPart.offset <= DataSize
                            /\ CurrentPart.offset < End(CurrentPart)
  <2> SUFFICES ASSUME index < Len(parts)
               PROVE  CurrentPart.offset \in Nat /\ CurrentPart.offset <= DataSize
                      /\ CurrentPart.offset < End(CurrentPart)
    OBVIOUS
  <2>1. PICK k \in 1 .. Len(parts) : k = index + 1 /\ CurrentPart = parts[k]
    BY <1>3
  <2>2. /\ parts[k].offset \in Nat /\ End(parts[k]) \in Nat
        /\ parts[k].offset < End(parts[k]) /\ End(parts[k]) <= DataSize
    BY <1>1, PartTyped
  <2> QED
    BY <1>1, <2>1, <2>2
<1>6. asked \in Nat /\ asked <= want
      /\ (index < Len(parts) => asked <= CurrentPart.offset - pos)
  <2>1. CASE index < Len(parts)
    BY <1>1, <1>3, <1>5, <2>1 DEF Least
  <2>2. CASE ~ (index < Len(parts))
    BY <1>1, <1>4, <2>2
  <2> QED
    BY <2>1, <2>2
<1>7. n \in Nat /\ n <= asked
  BY <1>1, <1>6 DEF Least
<1>8. out' = out \o Bytes("stream", 0, pos, n) /\ want' = want - Len(Bytes("stream", 0, pos, n))
      /\ Advance(asked)
  BY <1>1 DEF CopyStream, Give, StreamSize
<1>9. pos' = pos + n /\ pos' <= DataSize /\ ended' \in BOOLEAN /\ (ended' => pos' = DataSize)
  BY <1>1, <1>6, <1>8, StreamMoves
<1>10. UNCHANGED <<parts, chunk, index, seekLost, partFile, partAt, done, inRead>> /\ info' = CurrentPart
  BY DEF CopyStream, input
<1>11. LookingAt(parts, index, info, pos, partFile, partAt)
  BY DEF TexturesInv
<1> HIDE DEF asked, n
<1>12. ASSUME NEW k \in 1 .. Len(parts)
       PROVE  End(parts[k]) <= pos \/ pos + n <= parts[k].offset
  <2>1. parts[k].offset \in Nat /\ End(parts[k]) \in Nat
    BY <1>1, PartTyped
  <2>2. CASE k <= index
    BY <1>1, <1>11, <2>2 DEF LookingAt
  <2>3. CASE ~ (k <= index)
    <3>1. index < Len(parts) /\ index + 1 \in 1 .. Len(parts)
      BY <1>1, <2>3
    <3>2. PICK i \in 1 .. Len(parts) : i = index + 1
      BY <3>1
    <3>3. parts[i].offset <= parts[k].offset
      <4>1. CASE i = k
        BY <2>1, <4>1
      <4>2. CASE i # k
        <5>1. i < k
          BY <1>1, <2>3, <3>2, <4>2
        <5>2. End(parts[i]) <= parts[k].offset
          BY <1>1, <5>1 DEF PartsInOrder
        <5>3. parts[i].offset < End(parts[i]) /\ parts[i].offset \in Nat /\ End(parts[i]) \in Nat
          BY <1>1, PartTyped
        <5> QED
          BY <2>1, <5>2, <5>3
      <4> QED
        BY <4>1, <4>2
    <3>4. CurrentPart.offset = parts[i].offset /\ CurrentPart.offset \in Nat /\ pos + n <= CurrentPart.offset
      BY <1>1, <1>3, <1>5, <1>6, <1>7, <3>1, <3>2
    <3> QED
      BY <1>1, <1>7, <2>1, <3>3, <3>4
  <2> QED
    BY <2>2, <2>3
<1>13. PICK b : b = Bytes("stream", 0, pos, n)
  OBVIOUS
<1>14. AreThose(parts, b, pos) /\ b \in Seq(Byte) /\ Len(b) = n
  <2>1. PartsInOrder(parts) /\ pos \in Nat
    BY <1>1
  <2> QED
    BY <1>7, <1>12, <1>13, <2>1, BetweenParts
<1>15. AreThose(parts, out \o b, 0)
  BY <1>1, <1>14, ThoseThatFollow DEF TexturesInv
<1>16. out \o b \in Seq(Byte) /\ Len(out \o b) = pos + n /\ want - Len(b) \in Nat
  BY <1>1, <1>6, <1>7, <1>14, Joined
<1>17. TexturesTyped'
  BY <1>1, <1>8, <1>9, <1>10, <1>13, <1>16 DEF TexturesInv, TexturesTyped
<1>18. LookingAt(parts, index, CurrentPart, pos + n, partFile, partAt)
  <2>1. CurrentPart = NullPart \/ (index < Len(parts) /\ CurrentPart = parts[index + 1])
    BY <1>3, <1>4
  <2>2. ASSUME NEW k \in 1 .. index PROVE End(parts[k]) <= pos + n
    <3>1. End(parts[k]) <= pos
      BY <1>11 DEF LookingAt
    <3>2. k \in 1 .. Len(parts)
      BY <1>1
    <3>3. End(parts[k]) \in Nat
      BY <1>1, <3>2, PartTyped
    <3> QED
      BY <1>1, <1>7, <3>1, <3>3
  <2>3. ASSUME index < Len(parts)
        PROVE  pos + n < End(parts[index + 1]) /\ ~ (parts[index + 1].offset < pos + n)
    <3>1. pos + n <= CurrentPart.offset /\ CurrentPart.offset \in Nat /\ pos + n \in Nat
      BY <1>1, <1>5, <1>6, <1>7, <2>3
    <3>2. parts[index + 1] = CurrentPart /\ CurrentPart.offset < End(CurrentPart) /\ End(CurrentPart) \in Nat
      BY <1>1, <1>3, <1>5, <2>3, PartTyped
    <3> QED
      BY <3>1, <3>2
  <2> QED
    BY <2>1, <2>2, <2>3 DEF LookingAt
<1>19. ~done
  BY <1>1 DEF TexturesInv
<1>20. LookingAt(parts, index, info, pos, partFile, partAt)'
  BY <1>9, <1>10, <1>18
<1>21. AreThose(parts, out, 0)'
  BY <1>8, <1>10, <1>13, <1>15
<1> QED
  BY <1>9, <1>10, <1>17, <1>19, <1>20, <1>21 DEF TexturesInv

(* What the operators of the model are when named by the sequence of parts. *)
LEMMA TextureNames ==
  /\ \A t : RasterInFile(t) = RasterOf(parts, t)
  /\ \A p : StartInFile(p) = StartOf(parts, p)
  /\ \A t, at : FileByte(t, at) = TextureByte(parts, t, at)
  /\ \A i : PatchedByte(i) = ByteAt(parts, i)
<1>1. \A t : RasterInFile(t) = RasterOf(parts, t)
  BY DEF RasterInFile, RasterOf
<1>2. \A p : StartInFile(p) = StartOf(parts, p)
  BY <1>1 DEF StartInFile, StartOf
<1>3. \A t, at : FileByte(t, at) = TextureByte(parts, t, at)
  BY <1>1 DEF FileByte, TextureByte
<1>4. \A i : PatchedByte(i) = ByteAt(parts, i)
  BY DEF PatchedByte, ByteAt
<1> QED
  BY <1>1, <1>2, <1>3, <1>4

LEMMA CopyPartTextures ==
  ASSUME TexturesInv, CopyPart
  PROVE  TexturesInv'
<1>1. /\ PartsInOrder(parts) /\ Len(parts) \in Nat /\ out \in Seq(Byte) /\ pos = Len(out) /\ pos <= DataSize
      /\ pos \in Nat /\ want \in Nat /\ want > 0 /\ index \in 0 .. Len(parts) /\ kind = "textures" /\ inRead
      /\ DataSize \in Nat /\ index < Len(parts) /\ ended \in BOOLEAN /\ ~ended
  <2>1. /\ PartsInOrder(parts) /\ out \in Seq(Byte) /\ pos = Len(out) /\ pos <= DataSize
        /\ want \in Nat /\ index \in 0 .. Len(parts) /\ ended \in BOOLEAN
    BY DEF TexturesInv, TexturesTyped
  <2>2. kind = "textures" /\ inRead /\ want > 0 /\ ~AtEnd /\ index < Len(parts)
    BY DEF CopyPart, InLoop
  <2>3. Len(parts) \in Nat
    BY <2>1 DEF PartsInOrder
  <2>4. pos \in Nat
    BY <2>1
  <2>5. DataSize \in Nat
    BY ReaderAssumption
  <2>6. ~ended
    BY <2>2 DEF AtEnd
  <2> QED
    BY <2>1, <2>2, <2>3, <2>4, <2>5, <2>6
<1>2. PICK i \in 1 .. Len(parts) : i = index + 1
  BY <1>1
<1>3. CurrentPart = parts[i]
  BY <1>1, <1>2, CurrentIs
<1>4. PICK p : p = parts[i]
  OBVIOUS
<1>5. PICK from \in Nat : from = p.offset
  BY <1>1, <1>4, PartTyped
<1>6. PICK end \in Nat : end = p.offset + p.size /\ end = End(p) /\ from < end /\ end <= DataSize
  <2>1. /\ End(p) \in Nat /\ p.offset < End(p) /\ End(p) <= DataSize /\ End(p) = p.offset + p.size
    BY <1>1, <1>4, PartTyped
  <2> QED
    BY <1>5, <2>1
<1>7. LookingAt(parts, index, info, pos, partFile, partAt)
  BY DEF TexturesInv
<1>8. from <= pos /\ pos < end
  <2>1. from <= pos
    BY <1>1, <1>3, <1>4, <1>5 DEF CopyPart
  <2>2. pos < End(parts[index + 1])
    BY <1>1, <1>7 DEF LookingAt
  <2> QED
    BY <1>2, <1>4, <1>6, <2>1, <2>2
<1>9. PICK n \in Nat : n = Least(want, end - pos) /\ n > 0 /\ n <= want /\ pos + n <= end
  BY <1>1, <1>6, <1>8 DEF Least
<1>10. PICK file : file = IF from = pos THEN p.tex ELSE partFile
  OBVIOUS
<1>11. PICK at : at = IF from = pos THEN StartOf(parts, p) ELSE partAt
  OBVIOUS
<1>12. PICK st \in Nat : st = StartOf(parts, p)
  <2>1. 0 \in Nat /\ 0 < p.size
    BY <1>1, <1>4 DEF PartsInOrder
  <2> QED
    BY <1>1, <1>4, <2>1, TextureBytes
<1>13. file = p.tex /\ at = st + (pos - from)
  <2>1. CASE from = pos
    <3>1. st + (pos - from) = st
      BY <1>5, <2>1
    <3> QED
      BY <1>10, <1>11, <1>12, <2>1, <3>1
  <2>2. CASE from # pos
    <3>1. from < pos
      BY <1>1, <1>5, <1>8, <2>2
    <3>2. /\ partFile = parts[index + 1].tex
          /\ partAt = StartOf(parts, parts[index + 1]) + (pos - parts[index + 1].offset)
      BY <1>1, <1>2, <1>4, <1>5, <1>7, <3>1 DEF LookingAt
    <3> QED
      BY <1>2, <1>4, <1>5, <1>10, <1>11, <1>12, <2>2, <3>2
  <2> QED
    BY <2>1, <2>2
<1>14. PICK bytes : bytes = [k \in 1 .. n |-> TextureByte(parts, file, at + k - 1)]
  OBVIOUS
<1>15. /\ out' = out \o bytes /\ want' = want - Len(bytes)
       /\ partFile' = file /\ partAt' = at + n /\ Advance(n)
  <2>1. LET opened == from = pos
            fil == IF opened THEN p.tex ELSE partFile
            a == IF opened THEN StartInFile(p) ELSE partAt
            e == p.offset + p.size
            count == IF pos < e THEN Least(want, e - pos) ELSE 0
        IN /\ Give([k \in 1 .. count |-> FileByte(fil, a + k - 1)])
           /\ partFile' = fil /\ partAt' = a + count
           /\ IF count > 0 THEN Advance(count) ELSE UNCHANGED <<pos, ended>>
    BY <1>3, <1>4, <1>5 DEF CopyPart
  <2>2. at = IF from = pos THEN StartInFile(p) ELSE partAt
    BY <1>11, TextureNames
  <2>3. n = IF pos < p.offset + p.size THEN Least(want, (p.offset + p.size) - pos) ELSE 0
    BY <1>6, <1>8, <1>9
  <2>4. /\ Give([k \in 1 .. n |-> FileByte(file, at + k - 1)])
        /\ partFile' = file /\ partAt' = at + n
        /\ IF n > 0 THEN Advance(n) ELSE UNCHANGED <<pos, ended>>
    BY <1>10, <2>1, <2>2, <2>3
  <2>5. [k \in 1 .. n |-> FileByte(file, at + k - 1)] = bytes
    <3>1. \A k \in 1 .. n : FileByte(file, at + k - 1) = TextureByte(parts, file, at + k - 1)
      BY TextureNames
    <3> QED
      BY <1>14, <3>1
  <2> QED
    BY <1>9, <2>4, <2>5 DEF Give
<1>16. AreThose(parts, bytes, pos) /\ bytes \in Seq(Byte) /\ Len(bytes) = n
  <2>1. bytes = FromTexture(parts, parts[i], pos, n)
    BY <1>4, <1>5, <1>12, <1>13, <1>14 DEF FromTexture
  <2>2. parts[i].offset <= pos /\ pos + n <= End(parts[i])
    BY <1>4, <1>5, <1>6, <1>8, <1>9
  <2>3. PartsInOrder(parts) /\ pos \in Nat
    BY <1>1
  <2> QED
    BY <2>1, <2>2, <2>3, InsidePart
<1>17. pos' = pos + n /\ pos' <= DataSize /\ ended' \in BOOLEAN /\ (ended' => pos' = DataSize)
  <2>1. Least(n, DataSize - pos) = n
    <3>0. pos \in Nat /\ DataSize \in Nat
      BY <1>1
    <3>1. n <= DataSize - pos
      BY <1>6, <1>9, <3>0
    <3>2. (DataSize - pos) \in Int
      BY <3>0
    <3> QED
      BY <3>1, <3>2 DEF Least
  <2> QED
    BY <1>1, <1>15, <2>1, StreamMoves
<1>18. AreThose(parts, out \o bytes, 0)
  BY <1>1, <1>16, ThoseThatFollow DEF TexturesInv
<1>19. out \o bytes \in Seq(Byte) /\ Len(out \o bytes) = pos + n /\ want - Len(bytes) \in Nat
  <2>1. out \o bytes \in Seq(Byte) /\ Len(out \o bytes) = Len(out) + Len(bytes)
    BY <1>1, <1>16, Joined
  <2>2. want - n \in Nat
    BY <1>1, <1>9
  <2> QED
    BY <1>1, <1>16, <2>1, <2>2
<1>20. UNCHANGED <<parts, chunk, seekLost, done, inRead>>
  BY DEF CopyPart, input
<1>21. IF pos + n = end
       THEN index' = index + 1 /\ info' = (IF index + 1 >= Len(parts) THEN NullPart ELSE parts[index + 2])
       ELSE index' = index /\ info' = p
  BY <1>3, <1>4, <1>6, <1>17 DEF CopyPart, NextPart
<1>22. index' \in 0 .. Len(parts) /\ LookingAt(parts, index', info', pos + n, file, at + n)
  <2>1. ASSUME NEW k \in 1 .. index PROVE End(parts[k]) <= pos + n
    <3>1. End(parts[k]) <= pos
      BY <1>7 DEF LookingAt
    <3>2. k \in 1 .. Len(parts)
      BY <1>1
    <3>3. End(parts[k]) \in Nat
      BY <1>1, <3>2, PartTyped
    <3> QED
      BY <1>1, <1>9, <3>1, <3>3
  <2>2. CASE pos + n = end
    <3>1. index' = index + 1 /\ info' = (IF index + 1 >= Len(parts) THEN NullPart ELSE parts[index + 2])
      BY <1>21, <2>2
    <3>2. index + 1 \in 0 .. Len(parts) /\ index + 1 + 1 = index + 2
      BY <1>1
    <3>3. info' = NullPart \/ (index + 1 < Len(parts) /\ info' = parts[index + 1 + 1])
      BY <1>1, <3>1, <3>2
    <3>4. ASSUME NEW k \in 1 .. index + 1 PROVE End(parts[k]) <= pos + n
      <4>1. CASE k = index + 1
        BY <1>2, <1>4, <1>6, <2>2, <4>1
      <4>2. CASE k # index + 1
        <5>1. k \in 1 .. index
          BY <1>1, <4>2
        <5> QED
          BY <2>1, <5>1
      <4> QED
        BY <4>1, <4>2
    <3>5. ASSUME index + 1 < Len(parts)
          PROVE  pos + n < End(parts[index + 1 + 1]) /\ ~ (parts[index + 1 + 1].offset < pos + n)
      <4>1. PICK j \in 1 .. Len(parts) : j = index + 1 + 1 /\ i < j
        BY <1>1, <1>2, <3>5
      <4>2. End(parts[i]) <= parts[j].offset
        BY <1>1, <4>1 DEF PartsInOrder
      <4>3. parts[j].offset < End(parts[j]) /\ parts[j].offset \in Nat /\ End(parts[j]) \in Nat
        BY <1>1, PartTyped
      <4> QED
        BY <1>4, <1>6, <2>2, <4>1, <4>2, <4>3
    <3>6. LookingAt(parts, index + 1, info', pos + n, file, at + n)
      BY <3>3, <3>4, <3>5 DEF LookingAt
    <3> QED
      BY <3>1, <3>2, <3>6
  <2>3. CASE pos + n # end
    <3>1. index' = index /\ info' = p
      BY <1>21, <2>3
    <3>2. info' = NullPart \/ (index < Len(parts) /\ info' = parts[index + 1])
      BY <1>1, <1>2, <1>4, <3>1
    <3>3. pos + n < End(parts[index + 1])
      BY <1>1, <1>2, <1>4, <1>6, <1>9, <2>3
    <3>4. /\ file = parts[index + 1].tex
          /\ at + n = StartOf(parts, parts[index + 1]) + ((pos + n) - parts[index + 1].offset)
      <4>1. at + n = st + ((pos + n) - from)
        <5>0. pos \in Nat
          BY <1>1
        <5>1. PICK d \in Int : d = pos - from
          BY <5>0
        <5>2. at = st + d /\ (pos + n) - from = d + n
          BY <1>1, <1>13, <5>1
        <5> QED
          BY <5>2
      <4> QED
        BY <1>2, <1>4, <1>5, <1>12, <1>13, <4>1
    <3>5. LookingAt(parts, index, info', pos + n, file, at + n)
      BY <2>1, <3>2, <3>3, <3>4 DEF LookingAt
    <3> QED
      BY <1>1, <3>1, <3>5
  <2> QED
    BY <2>2, <2>3
<1>23. TexturesTyped'
  BY <1>1, <1>15, <1>17, <1>19, <1>20, <1>22 DEF TexturesInv, TexturesTyped
<1>24. LookingAt(parts, index, info, pos, partFile, partAt)'
  BY <1>15, <1>17, <1>20, <1>22
<1>25. AreThose(parts, out, 0)'
  BY <1>15, <1>18, <1>20
<1>26. ~done
  BY <1>1 DEF TexturesInv
<1> QED
  BY <1>17, <1>20, <1>23, <1>24, <1>25, <1>26 DEF TexturesInv

LEMMA TexturesStep ==
  ASSUME TexturesInv, kind = "textures", [ReaderNext]_readerVars
  PROVE  TexturesInv'
<1>1. CASE BeginRead
  <2>1. UNCHANGED texturesVars /\ want' = chunk /\ ~done /\ done' = done
    BY <1>1 DEF BeginRead, input, onFly, texturesVars
  <2>2. want' \in Nat
    BY <2>1 DEF TexturesInv, TexturesTyped
  <2> QED
    BY <2>1, <2>2, TexturesKept
<1>2. CASE ReturnRead
  <2>1. UNCHANGED texturesVars /\ want' = want /\ inRead' = FALSE /\ done' = done
    BY <1>2 DEF ReturnRead, input, onFly, texturesVars
  <2>2. want' \in Nat
    BY <2>1 DEF TexturesInv, TexturesTyped
  <2>3. done' => ended /\ ~inRead'
    BY <2>1 DEF TexturesInv
  <2> QED
    BY <2>1, <2>2, <2>3, TexturesKept
<1>3. CASE FinishFile
  <2>1. UNCHANGED texturesVars /\ want' = want /\ ~inRead /\ inRead' = inRead /\ AtEnd
    BY <1>3 DEF FinishFile, input, onFly, texturesVars
  <2>2. want' \in Nat
    BY <2>1 DEF TexturesInv, TexturesTyped
  <2>3. ended
    BY <2>1 DEF AtEnd
  <2> QED
    BY <2>1, <2>2, <2>3, TexturesKept
<1>4. CASE CopyStream
  BY <1>4, CopyStreamTextures
<1>5. CASE CopyPart
  BY <1>5, CopyPartTextures
<1>6. CASE TakeBuffered \/ NextSegment \/ CopyFont \/ CopySegment
  BY <1>6 DEF TakeBuffered, NextSegment, CopyFont, CopySegment
<1>7. CASE UNCHANGED readerVars
  <2>1. UNCHANGED texturesVars /\ want' = want /\ done' = done /\ inRead' = inRead
    BY <1>7 DEF readerVars, input, onFly, texturesVars
  <2>2. want' \in Nat
    BY <2>1 DEF TexturesInv, TexturesTyped
  <2>3. done' => ended /\ ~inRead'
    BY <2>1 DEF TexturesInv
  <2> QED
    BY <2>1, <2>2, <2>3, TexturesKept
<1> QED
  BY <1>1, <1>2, <1>3, <1>4, <1>5, <1>6, <1>7 DEF ReaderNext

LEMMA TexturesOutputRight ==
  ASSUME TexturesInv, kind = "textures"
  PROVE  OutputRight /\ AllIsRead
<1>1. PartsInOrder(parts) /\ out \in Seq(Byte) /\ pos = Len(out) /\ pos <= DataSize /\ seekLost = FALSE
  BY DEF TexturesInv, TexturesTyped
<1>2. DataSize \in Nat /\ Len(out) \in Nat
  BY <1>1, ReaderAssumption
<1>3. PICK e : e = [i \in 1 .. DataSize |-> ByteAt(parts, i - 1)]
  OBVIOUS
<1>4. Expected = e
  <2>1. Expected = [i \in 1 .. DataSize |-> PatchedByte(i - 1)]
    BY DEF Expected
  <2>2. \A i \in 1 .. DataSize : PatchedByte(i - 1) = ByteAt(parts, i - 1)
    BY TextureNames
  <2> QED
    BY <1>3, <2>1, <2>2
<1>5. \A i \in 1 .. DataSize : e[i] = ByteAt(parts, i - 1)
  BY <1>3
<1>6. ASSUME NEW i \in 1 .. DataSize PROVE e[i] \in Byte
  <2>1. i - 1 \in Nat
    BY <1>2
  <2> QED
    BY <1>1, <1>5, <2>1, ByteAtTyped
<1>7. e \in Seq(Byte) /\ Len(e) = DataSize
  <2>1. e = [i \in 1 .. DataSize |-> e[i]]
    BY <1>3
  <2> QED
    BY <1>2, <1>6, <2>1
<1>8. ASSUME NEW i \in 1 .. Len(out) PROVE out[i] = e[i]
  <2>1. AreThose(parts, out, 0)
    BY DEF TexturesInv
  <2>2. out[i] = ByteAt(parts, 0 + i - 1)
    BY <2>1 DEF AreThose
  <2>3. i \in 1 .. DataSize /\ 0 + i - 1 = i - 1
    BY <1>1, <1>2
  <2> QED
    BY <1>5, <2>2, <2>3
<1>9. out = SubSeq(e, 1, Len(out))
  <2>1. PICK a : a = SubSeq(e, 1, Len(out))
    OBVIOUS
  <2>2. Len(out) \in 0 .. Len(e)
    BY <1>1, <1>2, <1>7
  <2>3. a \in Seq(Byte) /\ Len(a) = Len(out)
    BY <1>7, <2>1, <2>2, TakenApart
  <2>4. \A i \in 1 .. Len(out) : a[i] = e[i]
    BY <1>2, <1>7, <2>1, <2>2
  <2> QED
    BY <1>1, <1>8, <2>1, <2>3, <2>4, SeqEqual
<1>10. OutputRight
  BY <1>1, <1>4, <1>7, <1>9 DEF OutputRight
<1>11. done => out = e
  <2> SUFFICES ASSUME done PROVE out = e
    OBVIOUS
  <2>1. Len(out) = Len(e)
    BY <1>1, <1>7 DEF TexturesInv
  <2> QED
    BY <1>1, <1>7, <1>8, <2>1, SeqEqual
<1> QED
  BY <1>1, <1>4, <1>10, <1>11 DEF AllIsRead

-----------------------------------------------------------------------------
ReaderInv == (kind = "font" => FontInv) /\ (kind = "textures" => TexturesInv)

LEMMA ReaderStep ==
  ReaderInv /\ [ReaderNext]_readerVars => ReaderInv'
<1> SUFFICES ASSUME ReaderInv, [ReaderNext]_readerVars PROVE ReaderInv'
  OBVIOUS
<1>1. kind' = kind
  BY DEF ReaderNext, readerVars, input, BeginRead, ReturnRead, FinishFile, CopyStream, CopyPart,
         TakeBuffered, NextSegment, CopyFont, CopySegment
<1>2. kind = "font" => FontInv'
  BY FontStep DEF ReaderInv
<1>3. kind = "textures" => TexturesInv'
  BY TexturesStep DEF ReaderInv
<1> QED
  BY <1>1, <1>2, <1>3 DEF ReaderInv

LEMMA ReaderKinds ==
  ReaderInit => kind \in {"font", "textures"}
BY DEF ReaderInit, InitFont, InitTextures

LEMMA ReaderStart ==
  ReaderInit => ReaderInv
<1>1. InitFont => kind = "font"
  BY DEF InitFont
<1>2. InitTextures => kind = "textures"
  BY DEF InitTextures
<1> QED
  BY <1>1, <1>2, FontStart, TexturesStart DEF ReaderInv, ReaderInit

LEMMA ReaderInvariant ==
  ReaderSpec => [](ReaderInv /\ kind \in {"font", "textures"})
<1>1. ReaderInit => ReaderInv /\ kind \in {"font", "textures"}
  BY ReaderStart, ReaderKinds
<1>2. [ReaderNext]_readerVars => kind' = kind
  BY DEF ReaderNext, readerVars, input, BeginRead, ReturnRead, FinishFile, CopyStream, CopyPart,
         TakeBuffered, NextSegment, CopyFont, CopySegment
<1>3. ReaderInv /\ kind \in {"font", "textures"} /\ [ReaderNext]_readerVars
        => (ReaderInv /\ kind \in {"font", "textures"})'
  BY <1>2, ReaderStep
<1> QED
  BY <1>1, <1>3, PTL DEF ReaderSpec

(* However a file that Archive::rebuild has replaced is cut into chunks    *)
(* and however it is stored, OnFlyPatchStream and FontStreamRebuilder give *)
(* the beginning of the patched file at any time.                          *)
THEOREM PatchedAsRead == ReaderSpec => []OutputRight
<1>1. ReaderInv /\ kind \in {"font", "textures"} => OutputRight
  BY FontOutputRight, TexturesOutputRight DEF ReaderInv
<1> QED
  BY <1>1, ReaderInvariant, PTL

(* When Archive::rebuild stops reading such a file it has read all of it,  *)
(* but that a packed font file may lose the segments behind its font.      *)
THEOREM NothingMissed == ReaderSpec => []AllIsRead
<1>1. ReaderInv /\ kind \in {"font", "textures"} => AllIsRead
  BY FontOutputRight, TexturesOutputRight DEF ReaderInv
<1> QED
  BY <1>1, ReaderInvariant, PTL
=============================================================================
