---------------------------- MODULE SearchBuffer ----------------------------
(***************************************************************************)
(* The buffer the Resident Evil 3 packer searches in: a CyclicBuffer that  *)
(* holds the search window and the bytes ahead of the pattern, and a       *)
(* SearchTree of the strings that start in the window.                     *)
(*                                                                         *)
(* The tree stores only the slots where strings start, so its order rests  *)
(* on bytes of the buffer that must not change under it.  It is modelled   *)
(* as the set of its strings, each with the bytes it had when it was       *)
(* inserted.  find() returns a longest match, any one of them: which one   *)
(* the search path meets first depends on how the tree is balanced.        *)
(***************************************************************************)
EXTENDS Integers, Sequences, FiniteSetsExt

CONSTANTS
  Bytes,        \* the bytes of the input; 0 fills a new buffer
  WindowSize,   \* how far back a string may start
  MaxEncoding,  \* the length of the longest match
  MinRef        \* how far back a string must at least start

ASSUME BytesAssumption == 0 \in Bytes /\ Bytes \subseteq 0 .. 255
ASSUME WindowAssumption ==
  /\ WindowSize \in Nat /\ MaxEncoding \in Nat \ {0} /\ MinRef \in Nat \ {0}
  /\ MinRef <= WindowSize

BufferSize == WindowSize + MaxEncoding

(* A source assertion: nothing if it holds, its name if it does not.       *)
Broken(cond, name) == IF cond THEN {} ELSE {name}

-----------------------------------------------------------------------------
(* CyclicBuffer and SearchTree                                             *)

Slot(i) == i % BufferSize

(* The n bytes that start at a slot.                                       *)
StringAt(buffer, slot, n) == [k \in 1 .. n |-> buffer[Slot(slot + k - 1)]]

(* SearchTree::insert: a string equal to one of the tree replaces it.      *)
Insert(b, slot) ==
  LET key == StringAt(b.buffer, slot, MaxEncoding)
  IN [b EXCEPT !.tree = {e \in @ : e.slot # slot /\ StringAt(b.buffer, e.slot, MaxEncoding) # key}
                           \cup {[slot |-> slot, key |-> key]},
               !.faults = @ \cup Broken(\A e \in b.tree : e.slot # slot, "slotTaken")]

(* How far the strings at two slots agree, up to n bytes.                  *)
Agreement(buffer, s, t, n) ==
  Max({k \in 0 .. n : StringAt(buffer, s, k) = StringAt(buffer, t, k)})

(* SearchTree::find                                                        *)
MatchLength(b, slot, n) ==
  Max({0} \cup {Agreement(b.buffer, slot, e.slot, n) : e \in b.tree})
Matches(b, slot, n) ==
  {e.slot : e \in {e \in b.tree : Agreement(b.buffer, slot, e.slot, n) = MatchLength(b, slot, n)}}

-----------------------------------------------------------------------------
(* SearchBuffer                                                            *)

NewSearchBuffer ==
  [position |-> 0, buffer |-> [i \in 0 .. BufferSize - 1 |-> 0], tree |-> {},
   finishing |-> FALSE, left |-> 0, faults |-> {}]

(* Mutated: a window one longer.                                           *)
RemoveOldestStringLate(b) ==
  LET oldest == b.position - MaxEncoding - WindowSize - 1
  IN IF oldest >= 0 THEN [b EXCEPT !.tree = {e \in @ : e.slot # Slot(oldest)}] ELSE b

RemoveOldestString(b) ==
  LET oldest == b.position - MaxEncoding - WindowSize
  IN IF oldest >= 0 THEN [b EXCEPT !.tree = {e \in @ : e.slot # Slot(oldest)}] ELSE b

(* Mutated: a string is inserted before its last byte is there.            *)
InsertNewStringEarly(b, ahead) ==
  LET pattern == b.position - ahead + MinRef + 1
  IN IF pattern >= MinRef THEN Insert(b, Slot(pattern - MinRef)) ELSE b

InsertNewString(b, ahead) ==
  LET pattern == b.position - ahead
  IN IF pattern >= MinRef THEN Insert(b, Slot(pattern - MinRef)) ELSE b

Write(b, c) ==
  LET r == RemoveOldestString(b)
      w == [r EXCEPT !.buffer[Slot(b.position)] = c, !.position = @ + 1,
                     !.faults = @ \cup Broken(~b.finishing, "writeWhenFinishing")]
  IN InsertNewString(w, MaxEncoding)

ProcessLastByte(b) ==
  LET l == [b EXCEPT !.left = @ - 1,
                     !.faults = @ \cup Broken(b.finishing, "notFinishing")
                                  \cup Broken(b.left >= 1, "nothingLeft")]
  IN InsertNewString(l, b.left - 1)

SetFinishingMode(b, n) ==
  [b EXCEPT !.left = n, !.finishing = TRUE,
            !.faults = @ \cup Broken(~b.finishing, "finishingTwice")]
=============================================================================
