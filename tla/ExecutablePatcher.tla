-------------------------- MODULE ExecutablePatcher --------------------------
(***************************************************************************)
(* ExecutablePatcher::apply of Shattered Memories: strings are placed into *)
(* the free space of an executable, pointers to them and other values are  *)
(* written over the old ones.  A patch names memory addresses; the         *)
(* segments say where in the file they are.  The file is changed in place, *)
(* so a run that ends early leaves what it wrote, and the next one starts  *)
(* from there.                                                             *)
(*                                                                         *)
(* A byte of the file says what put it there: the original, the string of  *)
(* a record, a value of a record or a pointer, and which byte of it it is. *)
(***************************************************************************)
EXTENDS Integers, Sequences, SequencesExt

CONSTANTS
  Align,      \* strings start at multiples of this (4) in a hole
  Pointer,    \* bytes of a pointer (4)
  Segments,   \* a sequence of [memory, size, file]
  FileSize,
  Patches,    \* the patches considered: spaces and records
  MaxRuns     \* bound on the calls of apply

Segment == [memory : Nat, size : Nat, file : Nat]
Hole == [offset : Nat \ {0}, size : Nat \ {0}]
Record == [kind : {"string", "values"}, inplace : BOOLEAN, known : BOOLEAN,
           size : Nat, limit : Nat, offsets : Seq(Nat)]

ASSUME SizesAssumption ==
  /\ Align \in Nat \ {0} /\ Pointer \in Nat \ {0} /\ FileSize \in Nat /\ MaxRuns \in Nat
  /\ Segments \in Seq(Segment)

Apart(p, q) == p.offset + p.size <= q.offset \/ q.offset + q.size <= p.offset
Within(p, q) == q.offset <= p.offset /\ p.offset + p.size <= q.offset + q.size

(* The loader refuses a record without offsets; it does not check that the *)
(* spaces of a patch are disjoint.                                         *)
ASSUME PatchesAssumption ==
  \A p \in Patches :
    /\ p.spaces \in Seq(Hole) /\ p.records \in Seq(Record)
    /\ \A i \in DOMAIN p.records : Len(p.records[i].offsets) > 0
    /\ \A i, j \in DOMAIN p.spaces : i # j => Apart(p.spaces[i], p.spaces[j])

VARIABLES
  patch,      \* m_spaceRecords, m_patchRecords
  file,       \* the executable
  pc, record, target, \* where the run is: a record and which of its offsets
  holes,      \* spaceRecords, what is left of the space
  strOffset,
  runs,
  placed,     \* the strings placed in this run
  written,    \* the bytes written in this run
  unnoticed   \* a write of this run failed and nobody looked

vars == <<patch, file, pc, record, target, holes, strOffset, runs, placed, written, unnoticed>>

Original(o) == [by |-> "original", of |-> 0, at |-> o]

-----------------------------------------------------------------------------
AlignDown(v) == v - (v % Align)       \* mutated: no rounding up

AlignUp(v) == (v + Align - 1) - ((v + Align - 1) % Align)

(* What allocSpace leaves of the space.                                    *)
Taken(space, i, size) ==
  LET rest == [offset |-> space[i].offset + AlignUp(size), size |-> space[i].size - AlignUp(size)]
  IN IF rest.size <= 0 THEN RemoveAt(space, i) ELSE [space EXCEPT ![i] = rest]

InSegment(s, address) == s.memory <= address /\ address < s.memory + s.size

(* 0: no segment has this address.                                         *)
FileOffset(address) ==
  IF \E i \in DOMAIN Segments : InSegment(Segments[i], address)
  THEN LET s == Segments[Min({i \in DOMAIN Segments : InSegment(Segments[i], address)})]
       IN s.file + (address - s.memory)
  ELSE 0

Current == patch.records[record]

Bytes(by, of, size) == [k \in 0 .. size - 1 |-> [by |-> by, of |-> of, at |-> k]]

(* Mutated: the place in the file instead of the address in memory.        *)
PointerValueInFile == FileOffset(strOffset)
PointerValue == strOffset

(* What is written at each offset of a record.                             *)
TargetBytes ==
  IF Current.kind = "values" THEN Bytes("values", record, Current.size)
  ELSE IF Current.inplace THEN Bytes("string", record, Current.size)
  ELSE Bytes("pointer", PointerValue, Pointer)

Size(bytes) == IF DOMAIN bytes = {} THEN 0 ELSE Max(DOMAIN bytes) + 1

(* The first n bytes are written at a place of the file.                   *)
WriteAt(o, bytes, n) ==
  /\ file' = [x \in DOMAIN file |-> IF x \in o .. o + n - 1 THEN bytes[x - o] ELSE file[x]]
  /\ written' = written \union (o .. o + n - 1)

Fails == pc' = "failed" /\ UNCHANGED <<record, target, holes, strOffset, runs, placed, unnoticed>>

-----------------------------------------------------------------------------
(* Mutated: the space is taken from the patch itself, not from a copy.     *)
FreshHolesKept == IF runs = 0 THEN patch.spaces ELSE holes
FreshHoles == patch.spaces

StartApply ==
  /\ pc \in {"idle", "done", "failed"}
  /\ runs < MaxRuns
  /\ runs' = runs + 1
  /\ pc' = "record"
  /\ record' = 1 /\ target' = 1 /\ strOffset' = 0
  /\ holes' = FreshHoles
  /\ placed' = {} /\ written' = {} /\ unnoticed' = FALSE
  /\ UNCHANGED <<patch, file>>

Allocates == Current.kind = "string" /\ ~ Current.inplace

Fits(i) == i \in DOMAIN holes /\ Current.size <= holes[i].size

(* allocSpace: the first hole that is large enough.                        *)
AllocSpace ==
  /\ pc = "record"
  /\ record <= Len(patch.records)
  /\ Allocates /\ Current.known
  /\ \E i \in DOMAIN holes :
       /\ Fits(i)
       /\ \A j \in 1 .. i - 1 : ~ Fits(j)
       /\ strOffset' = holes[i].offset
       /\ holes' = Taken(holes, i, Current.size)
       /\ placed' = placed \union {[of |-> record, offset |-> holes[i].offset, size |-> Current.size]}
  /\ pc' = "string"
  /\ UNCHANGED <<patch, file, record, target, runs, written, unnoticed>>

(* A message that is missing, or too long for the place it was given, or   *)
(* for which there is no place.                                            *)
RefuseRecord ==
  /\ pc = "record"
  /\ record <= Len(patch.records)
  /\ Current.kind = "string"
  /\ \/ ~ Current.known
     \/ Current.inplace /\ Current.limit # 0 /\ Current.limit < Current.size
     \/ ~ Current.inplace /\ \A i \in DOMAIN holes : ~ Fits(i)
  /\ Fails
  /\ UNCHANGED <<patch, file, written>>

(* The other records are written to their offsets at once.                 *)
EnterRecord ==
  /\ pc = "record"
  /\ record <= Len(patch.records)
  /\ ~ Allocates
  /\ Current.kind = "string" =>
       Current.known /\ (Current.limit = 0 \/ Current.size <= Current.limit)
  /\ pc' = "targets"
  /\ UNCHANGED <<patch, file, record, target, holes, strOffset, runs, placed, written, unnoticed>>

WriteString ==
  /\ pc = "string"
  /\ LET o == FileOffset(strOffset)
     IN /\ o # 0 /\ o + Current.size <= FileSize
        /\ WriteAt(o, Bytes("string", record, Current.size), Current.size)
  /\ pc' = "targets"
  /\ UNCHANGED <<patch, record, target, holes, strOffset, runs, placed, unnoticed>>

GoOn ==
  /\ IF target < Len(Current.offsets)
     THEN target' = target + 1 /\ UNCHANGED <<pc, record>>
     ELSE target' = 1 /\ record' = record + 1 /\ pc' = "record"
  /\ UNCHANGED <<patch, holes, strOffset, runs, placed>>

WriteTarget ==
  /\ pc = "targets"
  /\ LET o == FileOffset(Current.offsets[target])
     IN /\ o # 0 /\ o + Size(TargetBytes) <= FileSize
        /\ WriteAt(o, TargetBytes, Size(TargetBytes))
  /\ UNCHANGED unnoticed
  /\ GoOn

(* What writeUInt32 and the like return is not looked at.                  *)
WriteTargetUnnoticed ==
  /\ pc = "targets"
  /\ ~ (Current.kind = "string" /\ Current.inplace)
  /\ LET o == FileOffset(Current.offsets[target])
     IN /\ o # 0
        /\ \E n \in 0 .. Size(TargetBytes) - 1 : o + n <= FileSize /\ WriteAt(o, TargetBytes, n)
  /\ unnoticed' = TRUE
  /\ GoOn

(* No segment has the address, the seek or the write fails, or the program *)
(* ends: some of the bytes are written, and the run is over.               *)
FailWrite ==
  /\ pc \in {"string", "targets"}
  /\ LET bytes == IF pc = "string" THEN Bytes("string", record, Current.size) ELSE TargetBytes
         o == FileOffset(IF pc = "string" THEN strOffset ELSE Current.offsets[target])
     IN \E n \in 0 .. Size(bytes) - 1 :
          /\ o = 0 => n = 0
          /\ o + n <= FileSize
          /\ WriteAt(o, bytes, n)
  /\ Fails
  /\ UNCHANGED patch

Finish ==
  /\ pc = "record"
  /\ record > Len(patch.records)
  /\ pc' = "done"
  /\ UNCHANGED <<patch, file, record, target, holes, strOffset, runs, placed, written, unnoticed>>

-----------------------------------------------------------------------------
Init ==
  /\ patch \in Patches
  /\ file = [o \in 0 .. FileSize - 1 |-> Original(o)]
  /\ pc = "idle"
  /\ record = 1 /\ target = 1 /\ strOffset = 0
  /\ holes = patch.spaces
  /\ runs = 0
  /\ placed = {} /\ written = {} /\ unnoticed = FALSE

Next ==
  \/ StartApply \/ AllocSpace \/ RefuseRecord \/ EnterRecord
  \/ WriteString \/ WriteTarget \/ WriteTargetUnnoticed \/ FailWrite \/ Finish

Spec == Init /\ [][Next]_vars
-----------------------------------------------------------------------------
(* Properties                                                              *)

(* The strings of a run do not overlap, and each lies in a space of the    *)
(* patch, although a hole is compared with the length of a string and      *)
(* shrunk by that length rounded up, which may be more than it has.        *)
StringsApart ==
  /\ \A p, q \in placed : p.of # q.of => Apart(p, q)
  /\ \A p \in placed : \E i \in DOMAIN patch.spaces : Within(p, patch.spaces[i])

(* A space of which the file keeps the bytes together.                     *)
InOnePiece(hole) ==
  \A k \in 0 .. hole.size - 1 :
    FileOffset(hole.offset) # 0 /\ FileOffset(hole.offset + k) = FileOffset(hole.offset) + k

(* At every moment, in the middle of a run and after any number of runs    *)
(* that failed, a pointer of the file that a patch has written leads to    *)
(* the whole string of its record.                                         *)
PointersLead ==
  (\A i \in DOMAIN patch.spaces : InOnePiece(patch.spaces[i])) =>
    \A r \in DOMAIN patch.records : LET rec == patch.records[r] IN
      rec.kind = "string" /\ ~ rec.inplace =>
        \A t \in DOMAIN rec.offsets : LET o == FileOffset(rec.offsets[t]) IN
          \A address \in {file[x].of : x \in o .. o + Pointer - 1} :
            /\ o # 0 /\ o + Pointer <= FileSize
            /\ \A k \in 0 .. Pointer - 1 :
                 file[o + k] = [by |-> "pointer", of |-> address, at |-> k]
            => \A k \in 0 .. rec.size - 1 :
                 file[FileOffset(address + k)] = [by |-> "string", of |-> r, at |-> k]

(* A run that succeeds and whose errors were all noticed leaves nothing of *)
(* the runs before it that failed: what it did not write itself is the     *)
(* original.                                                               *)
NothingLeftOver ==
  pc = "done" /\ ~ unnoticed =>
    \A o \in DOMAIN file : o \in written \/ file[o] = Original(o)
=============================================================================
