------------------------------ MODULE Archive ------------------------------
(***************************************************************************)
(* Archive::rebuild of Shattered Memories: a new archive is written from   *)
(* an open one, with some files replaced and some records merged into      *)
(* others, one record at a time.                                           *)
(*                                                                         *)
(* The files have the hashes 1 .. n, in the order of their records; a hash *)
(* above n belongs to no record.  What a file contains is the number of    *)
(* its record.  Sizes and offsets are counted in units of any size.        *)
(***************************************************************************)
EXTENDS Integers, Sequences, FiniteSetsExt

CONSTANTS
  Alignment,    \* m_alignment
  HeaderSize, RecordSize, MarkerSize, NameSize,
  ZlibSize,     \* what compression adds to a file, at least
  Inputs        \* archives and what is to be done with them, see Input

(* An archive with the files that replace its own (by size, Kept if none)  *)
(* and the merge map, 0 for a hash it does not have.                       *)
Kept == -1
Record == [offset : Nat, stored : Nat, unpacked : Nat]
Input == [records : Seq(Record), source : Seq({Kept} \cup Nat), merge : Seq(Nat), origins : BOOLEAN]

ASSUME SizesAssumption ==
  /\ Alignment \in Nat \ {0}
  /\ HeaderSize \in Nat \ {0} /\ RecordSize \in Nat \ {0} /\ MarkerSize \in Nat
  /\ NameSize \in Nat \ {0} /\ ZlibSize \in Nat \ {0}
ASSUME InputsAssumption ==
  \A j \in Inputs : /\ j \in Input
                    /\ Len(j.records) > 0
                    /\ Len(j.source) = Len(j.records) /\ Len(j.merge) = Len(j.records)

VARIABLES
  job,       \* the archive opened, and the arguments of rebuild
  marker,    \* m_hasMagicMarker
  pc,        \* records, done or failed
  position,
  entries,   \* entryList
  extents,   \* what is in the file, and where: a hash, Names or Header
  zeroed     \* where the last byte of the padding is written, or None

vars == <<job, marker, pc, position, entries, extents, zeroed>>

None == -1
Records == job.records
Hashes == 1 .. Len(Records)
Current == Len(entries) + 1

-----------------------------------------------------------------------------
(* Archive                                                                 *)

AlignSize(size) ==
  LET s == size + Alignment - 1 IN s - (s % Alignment)

IsPacked(r) == r.unpacked # 0
IsValid(r, next) == r.offset # next.offset \/ (r.stored = next.stored /\ r.unpacked = next.unpacked)
IsBad(rs, h) == h < Len(rs) /\ ~IsValid(rs[h], rs[h + 1])

Merged(h) == job.merge[h] # 0

(* Mutated: the first file follows the header at once.                     *)
DataStartUnaligned == Len(Records) * RecordSize + HeaderSize + (IF marker THEN MarkerSize ELSE 0)

DataStart ==
  AlignSize(Len(Records) * RecordSize + HeaderSize + (IF marker THEN MarkerSize ELSE 0))

(* Mutated: a file replaced raw gets the size of an unpacked one.          *)
NewRecordUnpacked(h) ==
  LET r == Records[h]
      size == job.source[h]
  IN IF size = Kept THEN [r EXCEPT !.offset = position]
     ELSE [offset |-> position, stored |-> IF IsPacked(r) THEN size + ZlibSize ELSE size, unpacked |-> size]

(* The record of a file after it is written: as it was, replaced raw or    *)
(* compressed.                                                             *)
NewRecord(h) ==
  LET r == Records[h]
      size == job.source[h]
  IN IF size = Kept THEN [r EXCEPT !.offset = position]
     ELSE [offset |-> position,
           stored |-> IF IsPacked(r) THEN size + ZlibSize ELSE size,
           unpacked |-> IF IsPacked(r) THEN size ELSE 0]

Extent(from, size, of, packed) == [from |-> from, to |-> from + size, of |-> of, packed |-> packed]
Names == 0
Header == -1
NoExtent(x) == x.from = x.to

StopRebuild ==
  /\ pc = "records" /\ Current \in Hashes
  /\ pc' = "failed"
  /\ UNCHANGED <<job, marker, position, entries, extents, zeroed>>

MergeRecord ==
  /\ pc = "records" /\ Current \in Hashes
  /\ Merged(Current)
  /\ IF job.merge[Current] \in Hashes /\ ~Merged(job.merge[Current])
     THEN /\ entries' = Append(entries, [Records[Current] EXCEPT !.offset = position])
          /\ UNCHANGED pc
     ELSE /\ pc' = "failed"
          /\ UNCHANGED entries
  /\ UNCHANGED <<job, marker, position, extents, zeroed>>

PassBadRecord ==
  /\ pc = "records" /\ Current \in Hashes
  /\ ~Merged(Current)
  /\ IsBad(Records, Current)
  /\ entries' = Append(entries, [Records[Current] EXCEPT !.offset = position])
  /\ UNCHANGED <<job, marker, pc, position, extents, zeroed>>

(* Mutated: the place of the next file follows from the old size.          *)
StoreRecordOldSize ==
  /\ pc = "records" /\ Current \in Hashes
  /\ ~Merged(Current)
  /\ ~IsBad(Records, Current)
  /\ LET new == NewRecord(Current)
     IN /\ entries' = Append(entries, new)
        /\ extents' = extents \cup {Extent(position, new.stored, Current, IsPacked(Records[Current]))}
        /\ position' = AlignSize(position + Records[Current].stored)
  /\ UNCHANGED <<job, marker, pc, zeroed>>

StoreRecord ==
  /\ pc = "records" /\ Current \in Hashes
  /\ ~Merged(Current)
  /\ ~IsBad(Records, Current)
  /\ LET new == NewRecord(Current)
     IN /\ entries' = Append(entries, new)
        /\ extents' = extents \cup {Extent(position, new.stored, Current, IsPacked(Records[Current]))}
        /\ position' = AlignSize(position + new.stored)
  /\ UNCHANGED <<job, marker, pc, zeroed>>

(* Mutated: what the old archive says of the target.                       *)
ResolveMappingFromOld(rs) ==
  [h \in Hashes |-> IF Merged(h) THEN Records[job.merge[h]] ELSE rs[h]]

ResolveMapping(rs) == [h \in Hashes |-> IF Merged(h) THEN rs[job.merge[h]] ELSE rs[h]]

(* Mutated: a bad record keeps the place it was given.                     *)
FixBadRecordsNever(rs) == rs

(* Each bad record takes the offset the next one has by then, which a bad  *)
(* one has still to correct.                                               *)
FixBadRecords(rs) ==
  [h \in Hashes |-> IF IsBad(Records, h) /\ ~Merged(h)
                    THEN [rs[h] EXCEPT !.offset = rs[h + 1].offset]
                    ELSE rs[h]]

FileSize(xs) == Max({0} \cup {x.to : x \in {x \in xs : ~NoExtent(x)}})

(* The names, or else the padding, then the header over the start.         *)
FinishRebuild ==
  /\ pc = "records" /\ Current \notin Hashes
  /\ pc' = "done"
  /\ LET names == Extent(position, NameSize * Len(Records), Names, FALSE)
         header == Extent(0, HeaderSize + RecordSize * Len(Records) + (IF marker THEN MarkerSize \div 2 ELSE 0),
                           Header, FALSE)
         size == FileSize(extents)
     IN /\ extents' = extents \cup {header} \cup (IF job.origins THEN {names} ELSE {})
        /\ zeroed' = IF ~job.origins /\ size # size % Alignment THEN AlignSize(size) - 1 ELSE None
  /\ entries' = FixBadRecords(ResolveMapping(entries))
  /\ UNCHANGED <<job, marker, position>>

(* open() sets the marker when there is room for it before the first file; *)
(* otherwise it is what the constructor left it at, which is nothing.      *)
HasMarker(rs) ==
  IF rs[1].offset >= HeaderSize + RecordSize * Len(rs) + MarkerSize THEN {TRUE} ELSE BOOLEAN

Init ==
  /\ job \in Inputs
  /\ marker \in HasMarker(Records)
  /\ pc = "records"
  /\ position = DataStart
  /\ entries = <<>> /\ extents = {} /\ zeroed = None

Next == StopRebuild \/ MergeRecord \/ PassBadRecord \/ StoreRecord \/ FinishRebuild

Spec == Init /\ [][Next]_vars

-----------------------------------------------------------------------------
(* Properties                                                              *)

Done == pc = "done"

TypeOK ==
  /\ job \in Input /\ marker \in BOOLEAN
  /\ pc \in {"records", "done", "failed"}
  /\ position \in Nat /\ position % Alignment = 0
  /\ entries \in Seq(Record) /\ Len(entries) <= Len(Records)
  /\ \A x \in extents : x.from \in Nat /\ x.to \in Nat /\ x.from <= x.to
  /\ zeroed \in Nat \cup {None}

(* No two parts of the file overlap, although sizes are known only when a  *)
(* file has been compressed and the header is written last, over a place   *)
(* kept free at the start.                                                 *)
LayoutDisjoint ==
  \A x, y \in extents : x # y => x.to <= y.from \/ y.to <= x.from

(* What opening the file of a record in the new archive gives.             *)
Reads(entry, of) ==
  \/ entry.stored = 0
  \/ \E x \in extents : /\ x.from = entry.offset /\ x.to - x.from = entry.stored
                        /\ x.of = of /\ x.packed = IsPacked(entry)

(* The padding puts its zero over the last byte of a file that ends where  *)
(* the archive may end.                                                    *)
Spoilt(x) == zeroed = x.to - 1 /\ x.to % Alignment = 0

(* A packed file replaced by an empty one looks unpacked.                  *)
EmptyReplacement(h) == IsPacked(Records[h]) /\ job.source[h] = 0

(* Every file that was sound is read back from the new archive, replaced   *)
(* or not; only the last byte of the archive may be lost to the padding.   *)
FilesKept ==
  Done =>
    /\ \A h \in Hashes : ~Merged(h) /\ ~IsBad(Records, h) /\ ~EmptyReplacement(h) => Reads(entries[h], h)
    /\ \A x \in extents : zeroed \in x.from .. x.to - 1 => Spoilt(x)

(* A bad record whose successor is merged away is moved after the merged   *)
(* records were resolved, and after a bad record before it.                *)
Displaced(h) == IsBad(Records, h) /\ ~Merged(h) /\ Merged(h + 1)

(* A merged record has the sizes of its target and is read from where that *)
(* is, unless the target is a bad record that is moved after it: merged    *)
(* records are given their places first.                                   *)
MergedFollowTarget ==
  Done => \A h \in Hashes :
    Merged(h) => /\ entries[h].stored = entries[job.merge[h]].stored
                 /\ entries[h].unpacked = entries[job.merge[h]].unpacked
                 /\ entries[h].offset = entries[job.merge[h]].offset \/ Displaced(job.merge[h])

(* A bad record, which shares the offset of its successor, still does,     *)
(* unless the successor is a bad record moved after it.                    *)
BadFollowNext ==
  Done => \A h \in Hashes :
    IsBad(Records, h) /\ ~Merged(h) =>
      entries[h].offset = entries[h + 1].offset \/ Displaced(h + 1)
=============================================================================
