--------------------------- MODULE CompressorProofs ---------------------------
(***************************************************************************)
(* What is proved of Compressor, for inputs, windows and runs of any size. *)
(*                                                                         *)
(* While there is input left, every string of the search tree lies in the  *)
(* window, with room for all of its bytes between the one to be written    *)
(* next and the one that write will destroy (InWindow).  The buffer always *)
(* holds the bytes last read (Holds).  The blocks written cut the input up *)
(* to the first byte not yet decided on (Cut), and unpacking them gives it *)
(* back.                                                                   *)
(***************************************************************************)
EXTENDS Compressor, WellFoundedInduction, SequenceTheorems, TLAPS

-----------------------------------------------------------------------------
(* Sizes and slots                                                         *)

LEMMA Sizes ==
  /\ BufferSize \in Nat \ {0} /\ BufferSize = WindowSize + MaxEncoding
  /\ MaxEncoding \in Nat \ {0} /\ MinRef \in Nat \ {0} /\ WindowSize \in Nat
  /\ MinRef <= WindowSize /\ MinLen \in Nat \ {0}
  /\ MaxRun \in Nat \ {0} /\ MaxRun <= WindowSize
  BY WindowAssumption, SizesAssumption DEF BufferSize

LEMMA DivMod ==
  ASSUME NEW i \in Int, NEW B \in Nat \ {0}
  PROVE  \E q, r \in Int : r = i % B /\ q = i \div B /\ i = q * B + r /\ 0 <= r /\ r < B
<1>1. i % B \in Int /\ i \div B \in Int
  OBVIOUS
<1>2. i = (i \div B) * B + (i % B) /\ 0 <= i % B /\ i % B < B
  OBVIOUS
<1> QED
  BY <1>1, <1>2

LEMMA ModUnique ==
  ASSUME NEW B \in Nat \ {0}, NEW q \in Int, NEW r \in Int, 0 <= r, r < B
  PROVE  (q * B + r) % B = r
<1>1. \A n \in Int, u \in Int, s \in Int : n = u * B + s /\ 0 <= s /\ s < B => s = n % B
  OBVIOUS
<1>2. q * B + r \in Int
  OBVIOUS
<1> QED
  BY <1>1, <1>2

LEMMA DivUnique ==
  ASSUME NEW B \in Nat \ {0}, NEW b \in Nat, NEW a \in Nat, a < B
  PROVE  (b * B + a) % B = a /\ (b * B + a) \div B = b
<1>1. (b * B + a) % B = a
  BY ModUnique
<1>2. PICK n \in Int : n = b * B + a
  OBVIOUS
<1>3. PICK q, r \in Int : r = n % B /\ q = n \div B /\ n = q * B + r
  BY DivMod
<1>4. q * B = b * B
  BY <1>1, <1>2, <1>3
<1>5. q = b
  BY <1>4
<1> QED
  BY <1>1, <1>2, <1>3, <1>5

LEMMA ModShift ==
  ASSUME NEW i \in Int, NEW B \in Nat \ {0}
  PROVE  (i + B) % B = i % B
<1>1. PICK q, r \in Int : r = i % B /\ i = q * B + r /\ 0 <= r /\ r < B
  BY DivMod
<1>2. i + B = (q + 1) * B + r /\ q + 1 \in Int
  BY <1>1
<1>3. ((q + 1) * B + r) % B = r
  BY <1>1, <1>2, ModUnique
<1> QED
  BY <1>1, <1>2, <1>3

LEMMA ModNear ==
  ASSUME NEW i \in Int, NEW j \in Int, NEW B \in Nat \ {0}, i < j, j - i < B
  PROVE  i % B # j % B
<1>1. PICK q, r \in Int : r = i % B /\ q = i \div B /\ i = q * B + r /\ 0 <= r /\ r < B
  BY DivMod
<1>2. PICK u, s \in Int : s = j % B /\ u = j \div B /\ j = u * B + s /\ 0 <= s /\ s < B
  BY DivMod
<1>3. r = s => FALSE
  <2>1. r = s => j - i = (u - q) * B
    BY <1>1, <1>2
  <2>2. PICK d \in Int : d = u - q
    OBVIOUS
  <2>3. \A d_1 \in Int : 0 < d_1 * B => d_1 * B >= B
    OBVIOUS
  <2> QED
    BY <2>1, <2>2, <2>3
<1> QED
  BY <1>1, <1>2, <1>3

LEMMA ModInner ==
  ASSUME NEW i \in Int, NEW k \in Int, NEW B \in Nat \ {0}
  PROVE  ((i % B) + k) % B = (i + k) % B
<1>1. PICK q, r \in Int : r = i % B /\ q = i \div B /\ i = q * B + r /\ 0 <= r /\ r < B
  BY DivMod
<1>2. r + k \in Int
  BY <1>1
<1>3. PICK u, s \in Int : s = (r + k) % B /\ r + k = u * B + s /\ 0 <= s /\ s < B
  BY <1>2, DivMod
<1>4. i + k = (q + u) * B + s /\ q + u \in Int
  <2>1. i = q * B + r /\ r + k = u * B + s /\ q \in Int /\ u \in Int /\ r \in Int /\ s \in Int
    BY <1>1, <1>3
  <2>2. (q + u) * B = q * B + u * B
    OBVIOUS
  <2> QED
    BY <2>1, <2>2
<1>5. ((q + u) * B + s) % B = s
  BY <1>3, <1>4, ModUnique
<1> QED
  BY <1>1, <1>3, <1>4, <1>5

LEMMA ModOfMultiple ==
  ASSUME NEW i \in Int, NEW k \in Int, NEW B \in Nat \ {0}, i % B = 0, 0 <= k, k < B
  PROVE  (i + k) % B = k
<1>1. PICK q, r \in Int : r = i % B /\ i = q * B + r
  BY DivMod
<1>2. i + k = q * B + k
  BY <1>1
<1> QED
  BY <1>1, <1>2, ModUnique

LEMMA ModStart ==
  ASSUME NEW i \in Int, NEW B \in Nat \ {0}
  PROVE  (i - (i % B)) % B = 0
<1>1. PICK q, r \in Int : r = i % B /\ i = q * B + r
  BY DivMod
<1>2. i - r = q * B + 0
  BY <1>1
<1>3. (q * B + 0) % B = 0
  BY <1>1, ModUnique
<1> QED
  BY <1>1, <1>2, <1>3

LEMMA ModAtMost ==
  ASSUME NEW i \in Nat, NEW B \in Nat \ {0}
  PROVE  i % B <= i
<1>0. i \in Int
  OBVIOUS
<1>1. PICK q, r \in Int : r = i % B /\ i = q * B + r /\ 0 <= r /\ r < B
  BY <1>0, DivMod
<1>2. \A x \in Int : x < 0 => x * B <= 0 - B
  OBVIOUS
<1>3. \A x \in Int : x >= 0 => x * B >= 0
  OBVIOUS
<1>4. PICK m \in Int : m = q * B
  BY <1>1
<1>5. q < 0 => m <= 0 - B
  BY <1>2, <1>4
<1>6. q >= 0 => m >= 0
  BY <1>3, <1>4
<1>7. i = m + r /\ r \in Int /\ r < B
  BY <1>1, <1>4
<1>8. r <= i
  BY <1>5, <1>6, <1>7
<1> QED
  BY <1>1, <1>8

LEMMA SlotTyped ==
  ASSUME NEW i \in Int
  PROVE  Slot(i) \in Slots /\ Slot(i) \in Int
<1>1. PICK r \in Int : r = i % BufferSize /\ 0 <= r /\ r < BufferSize
  BY Sizes, DivMod
<1> QED
  BY <1>1, Sizes DEF Slot, Slots

(* Two bytes less than a buffer apart have different slots.                *)
LEMMA SlotsDiffer ==
  ASSUME NEW i \in Int, NEW j \in Int, i # j, i - j < BufferSize, j - i < BufferSize
  PROVE  Slot(i) # Slot(j)
<1>1. CASE i < j
  BY <1>1, Sizes, ModNear DEF Slot
<1>2. CASE j < i
  BY <1>2, Sizes, ModNear DEF Slot
<1> QED
  BY <1>1, <1>2

LEMMA SlotOfSum ==
  ASSUME NEW i \in Int, NEW k \in Int
  PROVE  Slot(Slot(i) + k - 1) = Slot(i + k - 1)
<1>1. k - 1 \in Int /\ Slot(i) \in Int
  BY SlotTyped
<1>2. Slot(Slot(i) + (k - 1)) = Slot(i + (k - 1))
  BY <1>1, Sizes, ModInner DEF Slot
<1> QED
  BY <1>1, <1>2

LEMMA SlotAround ==
  ASSUME NEW i \in Int
  PROVE  Slot(i + 2 * BufferSize) = Slot(i)
<1>1. i + BufferSize \in Int /\ i + 2 * BufferSize = (i + BufferSize) + BufferSize
  BY Sizes
<1>2. Slot(i + BufferSize) = Slot(i)
  BY Sizes, ModShift DEF Slot
<1>3. Slot((i + BufferSize) + BufferSize) = Slot(i + BufferSize)
  BY <1>1, Sizes, ModShift DEF Slot
<1> QED
  BY <1>1, <1>2, <1>3

(* AbsolutePosition finds the byte a slot holds.                           *)
LEMMA AbsoluteIs ==
  ASSUME NEW b, b.position \in Nat, NEW slot \in Slots
  PROVE  /\ AbsolutePosition(b, slot) \in Int
         /\ b.position - BufferSize <= AbsolutePosition(b, slot)
         /\ AbsolutePosition(b, slot) < b.position
         /\ Slot(AbsolutePosition(b, slot)) = slot
<1> DEFINE p == b.position
           start == p - Slot(p)
           B == BufferSize
<1>1. /\ p \in Nat /\ B \in Nat \ {0} /\ Slot(p) \in Nat /\ Slot(p) <= p
      /\ slot \in Nat /\ slot < B /\ Slot(p) < B
  <2>1. Slot(p) \in 0 .. B - 1 /\ slot \in 0 .. B - 1 /\ B \in Nat \ {0} /\ p \in Nat
    BY Sizes, SlotTyped DEF Slots
  <2>2. Slot(p) <= p
    BY <2>1, ModAtMost DEF Slot
  <2> QED
    BY <2>1, <2>2
<1>2. start \in Int /\ start % B = 0
  BY <1>1, ModStart DEF Slot
<1>3. (start - B) % B = 0
  <2>1. start - B \in Int /\ (start - B) + B = start
    BY <1>1, <1>2
  <2> QED
    BY <2>1, <1>1, <1>2, ModShift
<1>4. CASE slot >= Slot(p)
  <2>1. AbsolutePosition(b, slot) = (start - B) + slot
    BY <1>4 DEF AbsolutePosition
  <2>2. Slot((start - B) + slot) = slot
    BY <1>1, <1>2, <1>3, ModOfMultiple DEF Slot
  <2> HIDE DEF B
  <2> QED
    BY <1>1, <1>2, <1>4, <2>1, <2>2 DEF B
<1>5. CASE ~ (slot >= Slot(p))
  <2>1. AbsolutePosition(b, slot) = start + slot
    BY <1>5 DEF AbsolutePosition
  <2>2. Slot(start + slot) = slot
    BY <1>1, <1>2, ModOfMultiple DEF Slot
  <2> QED
    BY <1>1, <1>2, <1>5, <2>1, <2>2
<1> QED
  BY <1>4, <1>5

-----------------------------------------------------------------------------
(* Induction over naturals, and the longest match                          *)

LEMMA LeastNat ==
  ASSUME NEW T, T \subseteq Nat, T # {}
  PROVE  \E x \in T : \A y \in T : x <= y
<1>1. PICK x \in T : \A y \in T : ~(<<y, x>> \in OpToRel(<, Nat))
  BY NatLessThanWellFounded, WFMin
<1>2. \A y \in T : ~(y < x)
  BY <1>1 DEF OpToRel
<1> QED
  BY <1>2

LEMMA MaxIs ==
  ASSUME NEW S, NEW n \in Nat, S \subseteq 0 .. n, S # {}
  PROVE  Max(S) \in S /\ \A y \in S : y <= Max(S)
<1> DEFINE T == {n - x : x \in S}
<1>0. \A y \in S : y \in Int /\ 0 <= y /\ y <= n
  OBVIOUS
<1>1. T \subseteq Nat /\ T # {}
  <2>1. PICK y \in S : TRUE
    OBVIOUS
  <2>2. n - y \in T
    OBVIOUS
  <2>3. \A y_1 \in S : n - y_1 \in Nat
    BY <1>0
  <2> QED
    BY <2>2, <2>3
<1>2. PICK t \in T : \A u \in T : t <= u
  BY <1>1, LeastNat
<1>3. PICK x \in S : t = n - x
  BY <1>2
<1>4. \A y \in S : x >= y
  <2> TAKE y \in S
  <2>1. n - y \in T
    OBVIOUS
  <2>2. n - x <= n - y
    BY <2>1, <1>2, <1>3
  <2>3. x \in Int /\ y \in Int
    BY <1>0
  <2> QED
    BY <2>2, <2>3
<1>5. Max(S) \in S /\ \A y \in S : Max(S) >= y
  BY <1>3, <1>4 DEF Max
<1> QED
  BY <1>0, <1>5

LEMMA AgreementIs ==
  ASSUME NEW buffer, NEW s, NEW t, NEW n \in Nat
  PROVE  /\ Agreement(buffer, s, t, n) \in 0 .. n
         /\ StringAt(buffer, s, Agreement(buffer, s, t, n)) = StringAt(buffer, t, Agreement(buffer, s, t, n))
<1> DEFINE S == {k \in 0 .. n : StringAt(buffer, s, k) = StringAt(buffer, t, k)}
<1>1. StringAt(buffer, s, 0) = StringAt(buffer, t, 0)
  <2>1. 1 .. 0 = {}
    OBVIOUS
  <2> QED
    BY <2>1 DEF StringAt
<1>2. 0 \in S /\ S \subseteq 0 .. n
  BY <1>1
<1>3. Max(S) \in S
  BY <1>2, MaxIs
<1> QED
  BY <1>3 DEF Agreement

(* What find returns: as many bytes as it says are the same at the pattern *)
(* and at the place it names, which is in the tree.                        *)
LEMMA MatchIs ==
  ASSUME NEW b, NEW slot, NEW n \in Nat
  PROVE  /\ MatchLength(b, slot, n) \in 0 .. n
         /\ \A s \in Matches(b, slot, n) :
              /\ \E e \in b.tree : s = e.slot
              /\ StringAt(b.buffer, slot, MatchLength(b, slot, n))
                   = StringAt(b.buffer, s, MatchLength(b, slot, n))
<1> DEFINE S == {0} \cup {Agreement(b.buffer, slot, e.slot, n) : e \in b.tree}
<1>1. S \subseteq 0 .. n /\ S # {}
  BY AgreementIs
<1>2. Max(S) \in 0 .. n
  BY <1>1, MaxIs
<1>3. MatchLength(b, slot, n) = Max(S)
  BY DEF MatchLength
<1>4. ASSUME NEW s \in Matches(b, slot, n)
      PROVE  /\ \E e \in b.tree : s = e.slot
             /\ StringAt(b.buffer, slot, MatchLength(b, slot, n))
                  = StringAt(b.buffer, s, MatchLength(b, slot, n))
  <2>1. PICK e \in b.tree : /\ s = e.slot
                            /\ Agreement(b.buffer, slot, e.slot, n) = MatchLength(b, slot, n)
    BY <1>4 DEF Matches
  <2> QED
    BY <2>1, AgreementIs
<1> QED
  BY <1>2, <1>3, <1>4

-----------------------------------------------------------------------------
(* The search buffer                                                       *)

Strings == [slot : Slots, key : [1 .. MaxEncoding -> Bytes]]
Buffers == [position : Nat, buffer : [Slots -> Bytes], tree : SUBSET Strings,
            finishing : BOOLEAN, left : Int, faults : SUBSET FaultNames]

(* The faults no search may find while there is input left.                *)
Misplaced == {"slotTaken", "referenceTooFar", "referenceTooNear"}

(* The strings of the tree still have the bytes they were inserted with.   *)
Intact(b) == \A e \in b.tree : e.key = StringAt(b.buffer, e.slot, MaxEncoding)

(* They start in the window, and all of their bytes have been read.        *)
InWindow(b) ==
  \A e \in b.tree : \E p \in Nat : /\ e.slot = Slot(p)
                                   /\ b.position - BufferSize <= p
                                   /\ p + MaxEncoding + MinRef <= b.position

LEMMA StringTyped ==
  ASSUME NEW buffer \in [Slots -> Bytes], NEW slot \in Int, NEW n \in Nat
  PROVE  StringAt(buffer, slot, n) \in [1 .. n -> Bytes]
<1>1. ASSUME NEW k \in 1 .. n PROVE buffer[Slot(slot + k - 1)] \in Bytes
  <2>1. slot + k - 1 \in Int
    OBVIOUS
  <2> QED
    BY <2>1, SlotTyped
<1> QED
  BY <1>1 DEF StringAt

LEMMA NewTyped ==
  /\ NewSearchBuffer \in Buffers /\ Intact(NewSearchBuffer) /\ InWindow(NewSearchBuffer)
  /\ NewSearchBuffer.position = 0 /\ NewSearchBuffer.faults = {}
  /\ \A i \in Slots : NewSearchBuffer.buffer[i] = 0
<1>1. [i \in 0 .. BufferSize - 1 |-> 0] \in [Slots -> Bytes]
  BY BytesAssumption DEF Slots
<1> QED
  BY <1>1 DEF NewSearchBuffer, Buffers, Intact, InWindow, Slots

LEMMA InsertIs ==
  ASSUME NEW b \in Buffers, NEW slot \in Slots
  PROVE  LET i == Insert(b, slot) IN
         /\ i \in Buffers
         /\ i.position = b.position /\ i.buffer = b.buffer
         /\ i.finishing = b.finishing /\ i.left = b.left
         /\ \A e \in i.tree : \/ e \in b.tree
                              \/ e.slot = slot /\ e.key = StringAt(b.buffer, slot, MaxEncoding)
         /\ b.faults \subseteq i.faults
         /\ \A f \in i.faults : f \in b.faults \/ (f = "slotTaken" /\ \E e \in b.tree : e.slot = slot)
<1> DEFINE key == StringAt(b.buffer, slot, MaxEncoding)
           tree == {e \in b.tree : e.slot # slot /\ StringAt(b.buffer, e.slot, MaxEncoding) # key}
                     \cup {[slot |-> slot, key |-> key]}
           broken == Broken(\A e \in b.tree : e.slot # slot, "slotTaken")
<1>1. PICK t : t = tree
  OBVIOUS
<1>2. PICK fs : fs = b.faults \cup broken
  OBVIOUS
<1>3. Insert(b, slot) = [b EXCEPT !.tree = t, !.faults = fs]
  BY <1>1, <1>2 DEF Insert
<1>4. slot \in Int /\ MaxEncoding \in Nat
  BY Sizes DEF Slots
<1>5. key \in [1 .. MaxEncoding -> Bytes]
  BY <1>4, StringTyped DEF Buffers
<1>6. t \subseteq Strings
  BY <1>1, <1>5 DEF Buffers, Strings
<1>7. broken \subseteq FaultNames
  BY DEF Broken, FaultNames
<1>8. fs \subseteq FaultNames /\ b.faults \subseteq fs
  BY <1>2, <1>7 DEF Buffers
<1>9. \A e \in t : e \in b.tree \/ (e.slot = slot /\ e.key = key)
  BY <1>1
<1>10. \A f \in fs : f \in b.faults \/ (f = "slotTaken" /\ \E e \in b.tree : e.slot = slot)
  BY <1>2 DEF Broken
<1> HIDE DEF key
<1>11. PICK i : i = Insert(b, slot)
  OBVIOUS
<1>12. /\ i \in Buffers /\ i.tree = t /\ i.faults = fs
       /\ i.position = b.position /\ i.buffer = b.buffer
       /\ i.finishing = b.finishing /\ i.left = b.left
  BY <1>3, <1>6, <1>8, <1>11 DEF Buffers
<1> QED
  BY <1>8, <1>9, <1>10, <1>11, <1>12 DEF key

LEMMA RemoveIs ==
  ASSUME NEW b \in Buffers
  PROVE  LET r == RemoveOldestString(b) IN
         /\ r \in Buffers
         /\ r.position = b.position /\ r.buffer = b.buffer
         /\ r.finishing = b.finishing /\ r.left = b.left /\ r.faults = b.faults
         /\ \A e \in r.tree : /\ e \in b.tree
                              /\ b.position >= BufferSize => e.slot # Slot(b.position - BufferSize)
<1> DEFINE oldest == b.position - MaxEncoding - WindowSize
<1>1. oldest = b.position - BufferSize /\ b.position \in Nat /\ BufferSize \in Nat
  BY Sizes DEF Buffers
<1>2. CASE oldest >= 0
  <2>1. PICK t : t = {e \in b.tree : e.slot # Slot(oldest)}
    OBVIOUS
  <2>2. RemoveOldestString(b) = [b EXCEPT !.tree = t]
    BY <1>2, <2>1 DEF RemoveOldestString
  <2>3. PICK r : r = RemoveOldestString(b)
    OBVIOUS
  <2>4. t \subseteq b.tree /\ \A e \in t : e.slot # Slot(b.position - BufferSize)
    BY <1>1, <2>1
  <2>5. /\ r \in Buffers /\ r.tree = t
        /\ r.position = b.position /\ r.buffer = b.buffer
        /\ r.finishing = b.finishing /\ r.left = b.left /\ r.faults = b.faults
    BY <2>2, <2>3, <2>4 DEF Buffers
  <2> QED
    BY <2>3, <2>4, <2>5
<1>3. CASE ~ (oldest >= 0)
  <2>1. RemoveOldestString(b) = b /\ ~ (b.position >= BufferSize)
    BY <1>1, <1>3 DEF RemoveOldestString
  <2> QED
    BY <2>1
<1> QED
  BY <1>2, <1>3

(* InsertNewString inserts at most the string that ends where only MinRef  *)
(* bytes and those ahead are left.                                         *)
LEMMA InsertNewIs ==
  ASSUME NEW b \in Buffers, NEW ahead \in Int
  PROVE  LET i == InsertNewString(b, ahead)
             p == b.position - ahead - MinRef IN
         /\ i \in Buffers
         /\ i.position = b.position /\ i.buffer = b.buffer
         /\ i.finishing = b.finishing /\ i.left = b.left
         /\ \A e \in i.tree : \/ e \in b.tree
                              \/ /\ p >= 0 /\ e.slot = Slot(p)
                                 /\ e.key = StringAt(b.buffer, e.slot, MaxEncoding)
         /\ b.faults \subseteq i.faults
         /\ \A f \in i.faults : \/ f \in b.faults
                                \/ f = "slotTaken" /\ p >= 0 /\ \E e \in b.tree : e.slot = Slot(p)
<1>1. /\ b.position - ahead - MinRef \in Int
      /\ b.position - ahead >= MinRef => b.position - ahead - MinRef >= 0
      /\ Slot(b.position - ahead - MinRef) \in Slots
  BY Sizes, SlotTyped DEF Buffers
<1>2. CASE b.position - ahead >= MinRef
  <2>1. InsertNewString(b, ahead) = Insert(b, Slot(b.position - ahead - MinRef))
    BY <1>2 DEF InsertNewString
  <2> QED
    BY <1>1, <1>2, <2>1, InsertIs
<1>3. CASE ~ (b.position - ahead >= MinRef)
  <2>1. InsertNewString(b, ahead) = b
    BY <1>3 DEF InsertNewString
  <2> QED
    BY <2>1
<1> QED
  BY <1>2, <1>3

(* One byte is written.  The string that would lose a byte is removed      *)
(* first, and what is inserted was complete.                               *)
LEMMA WriteIs ==
  ASSUME NEW b \in Buffers, NEW c \in Bytes
  PROVE  LET w == Write(b, c)
             p == b.position + 1 - MaxEncoding - MinRef IN
         /\ w \in Buffers
         /\ w.position = b.position + 1
         /\ w.buffer = [b.buffer EXCEPT ![Slot(b.position)] = c]
         /\ w.finishing = b.finishing /\ w.left = b.left
         /\ \A e \in w.tree : \/ /\ e \in b.tree
                                 /\ b.position >= BufferSize => e.slot # Slot(b.position - BufferSize)
                              \/ /\ p >= 0 /\ e.slot = Slot(p)
                                 /\ e.key = StringAt(w.buffer, e.slot, MaxEncoding)
         /\ b.faults \subseteq w.faults
         /\ \A f \in w.faults : \/ f \in b.faults \/ f = "writeWhenFinishing"
                                \/ /\ f = "slotTaken" /\ p >= 0
                                   /\ \E e \in b.tree : e.slot = Slot(p)
<1>1. PICK r : r = RemoveOldestString(b)
  OBVIOUS
<1>2. /\ r \in Buffers /\ r.position = b.position /\ r.buffer = b.buffer
      /\ r.finishing = b.finishing /\ r.left = b.left /\ r.faults = b.faults
      /\ \A e \in r.tree : /\ e \in b.tree
                           /\ b.position >= BufferSize => e.slot # Slot(b.position - BufferSize)
  BY <1>1, RemoveIs
<1>3. PICK broken : broken = Broken(~ b.finishing, "writeWhenFinishing")
  OBVIOUS
<1>4. broken \subseteq {"writeWhenFinishing"}
  BY <1>3 DEF Broken
<1> DEFINE u == [RemoveOldestString(b) EXCEPT
                   !.buffer[Slot(b.position)] = c, !.position = @ + 1,
                   !.faults = @ \cup Broken(~ b.finishing, "writeWhenFinishing")]
<1>5. PICK v : v = u
  OBVIOUS
<1>6. PICK buffer : buffer = [b.buffer EXCEPT ![Slot(b.position)] = c]
  OBVIOUS
<1>7. buffer \in [Slots -> Bytes]
  BY <1>6 DEF Buffers
<1>8. PICK fs : fs = b.faults \cup broken
  OBVIOUS
<1>9. fs \subseteq FaultNames
  BY <1>4, <1>8 DEF Buffers, FaultNames
<1>10. v = [r EXCEPT !.buffer = buffer, !.position = b.position + 1, !.faults = fs]
  BY <1>1, <1>2, <1>3, <1>5, <1>6, <1>8 DEF Buffers
<1> HIDE DEF u
<1>11. /\ v \in Buffers /\ v.buffer = buffer /\ v.position = b.position + 1 /\ v.faults = fs
       /\ v.tree = r.tree /\ v.finishing = b.finishing /\ v.left = b.left
  <2>1. b.position + 1 \in Nat /\ fs \in SUBSET FaultNames
    BY <1>9 DEF Buffers
  <2>2. r \in Buffers
    BY <1>2
  <2>3. v \in Buffers
    BY <1>7, <1>10, <2>1, <2>2 DEF Buffers
  <2>4. v.buffer = buffer /\ v.position = b.position + 1 /\ v.faults = fs
    BY <1>10, <2>2 DEF Buffers
  <2>5. v.tree = r.tree /\ v.finishing = r.finishing /\ v.left = r.left
    BY <1>10, <2>2 DEF Buffers
  <2> QED
    BY <1>2, <2>3, <2>4, <2>5
<1>12. Write(b, c) = InsertNewString(v, MaxEncoding)
  <2>1. Write(b, c) = InsertNewString(u, MaxEncoding)
    BY DEF Write, u
  <2> QED
    BY <1>5, <2>1
<1>13. MaxEncoding \in Int /\ v.position - MaxEncoding - MinRef = b.position + 1 - MaxEncoding - MinRef
  BY <1>11, Sizes DEF Buffers
<1> DEFINE p == b.position + 1 - MaxEncoding - MinRef
<1>14. PICK w : w = InsertNewString(v, MaxEncoding)
  OBVIOUS
<1>15. /\ w \in Buffers /\ w.position = v.position /\ w.buffer = v.buffer
       /\ w.finishing = v.finishing /\ w.left = v.left
       /\ \A e \in w.tree : \/ e \in v.tree
                            \/ /\ p >= 0 /\ e.slot = Slot(p)
                               /\ e.key = StringAt(v.buffer, e.slot, MaxEncoding)
       /\ v.faults \subseteq w.faults
       /\ \A f \in w.faults : \/ f \in v.faults
                              \/ f = "slotTaken" /\ p >= 0 /\ \E e \in v.tree : e.slot = Slot(p)
  <2> HIDE DEF p
  <2>1. p = v.position - MaxEncoding - MinRef
    BY <1>13 DEF p
  <2> QED
    BY <1>11, <1>13, <1>14, <2>1, InsertNewIs
<1> HIDE DEF p
<1>16. \A e \in w.tree : \/ /\ e \in b.tree
                            /\ b.position >= BufferSize => e.slot # Slot(b.position - BufferSize)
                         \/ /\ p >= 0 /\ e.slot = Slot(p)
                            /\ e.key = StringAt(w.buffer, e.slot, MaxEncoding)
  BY <1>2, <1>11, <1>15
<1>17. /\ b.faults \subseteq w.faults
       /\ \A f \in w.faults : \/ f \in b.faults \/ f = "writeWhenFinishing"
                              \/ /\ f = "slotTaken" /\ p >= 0
                                 /\ \E e \in b.tree : e.slot = Slot(p)
  BY <1>2, <1>4, <1>8, <1>11, <1>15
<1> QED
  BY <1>6, <1>11, <1>12, <1>14, <1>15, <1>16, <1>17 DEF p

(* A byte is where it was, or the byte written.                            *)
LEMMA ByteAfterWrite ==
  ASSUME NEW b \in Buffers, NEW c \in Bytes, NEW i \in Int,
         b.position - BufferSize < i, i <= b.position
  PROVE  Write(b, c).buffer[Slot(i)] = IF i = b.position THEN c ELSE b.buffer[Slot(i)]
<1>1. b.position \in Int /\ BufferSize \in Nat /\ b.buffer \in [Slots -> Bytes]
  BY Sizes DEF Buffers
<1>2. Slot(i) \in Slots /\ Slot(b.position) \in Slots
  BY <1>1, SlotTyped
<1>3. i # b.position => Slot(i) # Slot(b.position)
  BY <1>1, SlotsDiffer
<1> QED
  BY <1>1, <1>2, <1>3, WriteIs

(* The string at a place in the window is spared by a write.               *)
LEMMA StringAfterWrite ==
  ASSUME NEW b \in Buffers, NEW c \in Bytes, NEW p \in Nat,
         b.position - BufferSize < p, p + MaxEncoding <= b.position
  PROVE  StringAt(Write(b, c).buffer, Slot(p), MaxEncoding) = StringAt(b.buffer, Slot(p), MaxEncoding)
<1>1. ASSUME NEW k \in 1 .. MaxEncoding
      PROVE  Write(b, c).buffer[Slot(Slot(p) + k - 1)] = b.buffer[Slot(Slot(p) + k - 1)]
  <2>1. p + k - 1 \in Int /\ b.position - BufferSize < p + k - 1 /\ p + k - 1 < b.position
    BY Sizes DEF Buffers
  <2>2. Write(b, c).buffer[Slot(p + k - 1)] = b.buffer[Slot(p + k - 1)]
    BY <2>1, ByteAfterWrite DEF Buffers
  <2> QED
    BY <2>2, SlotOfSum
<1> QED
  BY <1>1 DEF StringAt

LEMMA WriteKeeps ==
  ASSUME NEW b \in Buffers, NEW c \in Bytes, Intact(b), InWindow(b)
  PROVE  /\ Intact(Write(b, c)) /\ InWindow(Write(b, c))
         /\ Write(b, c).faults \cap Misplaced = b.faults \cap Misplaced
<1>1. PICK w : w = Write(b, c)
  OBVIOUS
<1> DEFINE new == b.position + 1 - MaxEncoding - MinRef
<1>2. /\ b.position \in Nat /\ BufferSize \in Nat /\ new \in Int /\ new < b.position
      /\ new + MaxEncoding + MinRef = b.position + 1 /\ b.position + 1 - BufferSize <= new
      /\ MinRef \in Nat \ {0} /\ MaxEncoding \in Nat
  BY Sizes DEF Buffers
<1>3. /\ w \in Buffers /\ w.position = b.position + 1
      /\ \A e \in w.tree : \/ /\ e \in b.tree
                              /\ b.position >= BufferSize => e.slot # Slot(b.position - BufferSize)
                           \/ /\ new >= 0 /\ e.slot = Slot(new)
                              /\ e.key = StringAt(w.buffer, e.slot, MaxEncoding)
      /\ b.faults \subseteq w.faults
      /\ \A f \in w.faults : \/ f \in b.faults \/ f = "writeWhenFinishing"
                             \/ /\ f = "slotTaken" /\ new >= 0
                                /\ \E e \in b.tree : e.slot = Slot(new)
  BY <1>1, WriteIs
<1> HIDE DEF new
<1>4. ASSUME NEW e \in b.tree, b.position >= BufferSize => e.slot # Slot(b.position - BufferSize)
      PROVE  /\ e.key = StringAt(w.buffer, e.slot, MaxEncoding)
             /\ \E p \in Nat : /\ e.slot = Slot(p)
                               /\ b.position + 1 - BufferSize <= p
                               /\ p + MaxEncoding + MinRef <= b.position + 1
  <2>1. PICK p \in Nat : /\ e.slot = Slot(p) /\ b.position - BufferSize <= p
                         /\ p + MaxEncoding + MinRef <= b.position
    BY DEF InWindow
  <2>2. p # b.position - BufferSize
    BY <1>2, <1>4, <2>1
  <2>3. b.position - BufferSize < p /\ p + MaxEncoding <= b.position
    BY <1>2, <2>1, <2>2
  <2>4. StringAt(w.buffer, Slot(p), MaxEncoding) = StringAt(b.buffer, Slot(p), MaxEncoding)
    BY <1>1, <2>3, StringAfterWrite
  <2>5. e.key = StringAt(b.buffer, e.slot, MaxEncoding)
    BY DEF Intact
  <2>6. b.position + 1 - BufferSize <= p /\ p + MaxEncoding + MinRef <= b.position + 1
    BY <1>2, <2>1, <2>3
  <2> QED
    BY <2>1, <2>4, <2>5, <2>6
<1>5. Intact(w)
  BY <1>3, <1>4 DEF Intact
<1>6. InWindow(w)
  <2> SUFFICES ASSUME NEW e \in w.tree
               PROVE  \E p \in Nat : /\ e.slot = Slot(p) /\ w.position - BufferSize <= p
                                     /\ p + MaxEncoding + MinRef <= w.position
    BY DEF InWindow
  <2>1. CASE e \in b.tree /\ (b.position >= BufferSize => e.slot # Slot(b.position - BufferSize))
    <3>1. PICK p \in Nat : /\ e.slot = Slot(p) /\ b.position + 1 - BufferSize <= p
                           /\ p + MaxEncoding + MinRef <= b.position + 1
      BY <1>4, <2>1
    <3>2. w.position - BufferSize <= p /\ p + MaxEncoding + MinRef <= w.position
      BY <1>2, <1>3, <3>1
    <3> QED
      BY <3>1, <3>2
  <2>2. CASE new >= 0 /\ e.slot = Slot(new)
    <3>1. new \in Nat
      BY <1>2, <2>2
    <3>2. w.position - BufferSize <= new /\ new + MaxEncoding + MinRef <= w.position
      BY <1>2, <1>3
    <3> QED
      BY <2>2, <3>1, <3>2
  <2> QED
    BY <1>3, <2>1, <2>2
<1>7. ASSUME NEW e \in b.tree PROVE e.slot # Slot(new)
  <2>1. PICK p \in Nat : /\ e.slot = Slot(p) /\ b.position - BufferSize <= p
                         /\ p + MaxEncoding + MinRef <= b.position
    BY DEF InWindow
  <2>2. p < new /\ new - p < BufferSize
    BY <1>2, <2>1
  <2> QED
    BY <1>2, <2>1, <2>2, SlotsDiffer
<1>8. w.faults \cap Misplaced = b.faults \cap Misplaced
  BY <1>3, <1>7 DEF Misplaced
<1> QED
  BY <1>1, <1>5, <1>6, <1>8

LEMMA ProcessLastIs ==
  ASSUME NEW b \in Buffers
  PROVE  LET l == ProcessLastByte(b) IN
         /\ l \in Buffers /\ l.position = b.position /\ l.buffer = b.buffer
         /\ l.finishing = b.finishing
         /\ b.faults \subseteq l.faults
         /\ Intact(b) => Intact(l)
<1>1. PICK v : v = [b EXCEPT !.left = @ - 1,
                             !.faults = @ \cup Broken(b.finishing, "notFinishing")
                                          \cup Broken(b.left >= 1, "nothingLeft")]
  OBVIOUS
<1>2. PICK fs : fs = b.faults \cup Broken(b.finishing, "notFinishing") \cup Broken(b.left >= 1, "nothingLeft")
  OBVIOUS
<1>3. b.faults \subseteq fs /\ fs \subseteq FaultNames
  BY <1>2 DEF Broken, FaultNames, Buffers
<1>4. v = [b EXCEPT !.left = b.left - 1, !.faults = fs]
  BY <1>1, <1>2 DEF Buffers
<1>5. /\ v \in Buffers /\ v.position = b.position /\ v.buffer = b.buffer
      /\ v.tree = b.tree /\ v.finishing = b.finishing /\ v.faults = fs
  <2>1. b.left - 1 \in Int /\ fs \in SUBSET FaultNames
    BY <1>3 DEF Buffers
  <2>2. v \in Buffers
    BY <1>4, <2>1 DEF Buffers
  <2>3. /\ v.position = b.position /\ v.buffer = b.buffer
        /\ v.tree = b.tree /\ v.finishing = b.finishing /\ v.faults = fs
    BY <1>4 DEF Buffers
  <2> QED
    BY <2>2, <2>3
<1>6. PICK l : l = InsertNewString(v, b.left - 1)
  OBVIOUS
<1>7. ProcessLastByte(b) = l
  BY <1>1, <1>6 DEF ProcessLastByte
<1>8. b.left - 1 \in Int
  BY DEF Buffers
<1>9. /\ l \in Buffers /\ l.position = v.position /\ l.buffer = v.buffer
      /\ l.finishing = v.finishing
      /\ \A e \in l.tree : e \in v.tree \/ e.key = StringAt(v.buffer, e.slot, MaxEncoding)
      /\ v.faults \subseteq l.faults
  BY <1>5, <1>6, <1>8, InsertNewIs
<1> QED
  BY <1>3, <1>5, <1>7, <1>9 DEF Intact

LEMMA SetFinishingIs ==
  ASSUME NEW b \in Buffers, NEW n \in Nat
  PROVE  LET s == SetFinishingMode(b, n) IN
         /\ s \in Buffers /\ s.position = b.position /\ s.buffer = b.buffer /\ s.tree = b.tree
         /\ b.faults \subseteq s.faults
<1>1. PICK fs : fs = b.faults \cup Broken(~ b.finishing, "finishingTwice")
  OBVIOUS
<1>2. b.faults \subseteq fs /\ fs \subseteq FaultNames
  BY <1>1 DEF Broken, FaultNames, Buffers
<1>3. SetFinishingMode(b, n) = [b EXCEPT !.left = n, !.finishing = TRUE, !.faults = fs]
  BY <1>1 DEF SetFinishingMode, Buffers
<1>4. n \in Int /\ TRUE \in BOOLEAN /\ fs \in SUBSET FaultNames
  BY <1>2
<1>5. PICK s : s = SetFinishingMode(b, n)
  OBVIOUS
<1>6. s \in Buffers
  BY <1>3, <1>4, <1>5 DEF Buffers
<1>7. s.position = b.position /\ s.buffer = b.buffer /\ s.tree = b.tree /\ s.faults = fs
  BY <1>3, <1>5 DEF Buffers
<1> QED
  BY <1>2, <1>5, <1>6, <1>7

-----------------------------------------------------------------------------
(* What the buffer holds                                                   *)

(* The byte of an input at a position, where those before the first are    *)
(* the zeros of a new buffer.                                              *)
ByteAt(in, i) == IF i < 0 THEN 0 ELSE in[i + 1]

Holds(in, b) ==
  \A i \in Int : b.position - BufferSize <= i /\ i < b.position
                   => b.buffer[Slot(i)] = ByteAt(in, i)

LEMMA NewHolds ==
  ASSUME NEW in
  PROVE  Holds(in, NewSearchBuffer)
<1> SUFFICES ASSUME NEW i \in Int, i < 0
             PROVE  NewSearchBuffer.buffer[Slot(i)] = ByteAt(in, i)
  BY NewTyped DEF Holds
<1>1. Slot(i) \in Slots
  BY SlotTyped
<1> QED
  BY <1>1, NewTyped DEF ByteAt

LEMMA WriteHolds ==
  ASSUME NEW in \in Seq(Bytes), NEW b \in Buffers, b.position < Len(in), Holds(in, b)
  PROVE  Holds(in, Write(b, in[b.position + 1]))
<1>1. PICK c \in Bytes : c = in[b.position + 1]
  <2>1. b.position + 1 \in 1 .. Len(in)
    BY DEF Buffers
  <2> QED
    BY <2>1
<1>2. PICK w : w = Write(b, c)
  OBVIOUS
<1>3. w.position = b.position + 1 /\ b.position \in Nat /\ BufferSize \in Nat
  BY <1>2, WriteIs, Sizes DEF Buffers
<1> SUFFICES ASSUME NEW i \in Int, w.position - BufferSize <= i, i < w.position
             PROVE  w.buffer[Slot(i)] = ByteAt(in, i)
  BY <1>1, <1>2 DEF Holds
<1>4. b.position - BufferSize < i /\ i <= b.position
  BY <1>3
<1>5. w.buffer[Slot(i)] = IF i = b.position THEN c ELSE b.buffer[Slot(i)]
  BY <1>2, <1>4, ByteAfterWrite
<1>6. CASE i = b.position
  BY <1>1, <1>3, <1>5, <1>6 DEF ByteAt
<1>7. CASE i # b.position
  <2>1. b.position - BufferSize <= i /\ i < b.position
    BY <1>3, <1>4, <1>7
  <2> QED
    BY <1>5, <1>7, <2>1 DEF Holds
<1> QED
  BY <1>6, <1>7

(* A string read back from the buffer is a piece of the input.             *)
LEMMA StringHeld ==
  ASSUME NEW in, NEW b \in Buffers, Holds(in, b), NEW i \in Int, NEW n \in Nat,
         b.position - BufferSize <= i, i + n <= b.position
  PROVE  StringAt(b.buffer, Slot(i), n) = [k \in 1 .. n |-> ByteAt(in, i + k - 1)]
<1>1. ASSUME NEW k \in 1 .. n
      PROVE  b.buffer[Slot(Slot(i) + k - 1)] = ByteAt(in, i + k - 1)
  <2>1. /\ i + k - 1 \in Int /\ b.position - BufferSize <= i + k - 1
        /\ i + k - 1 < b.position
    BY Sizes DEF Buffers
  <2>2. b.buffer[Slot(i + k - 1)] = ByteAt(in, i + k - 1)
    BY <2>1 DEF Holds
  <2> QED
    BY <2>2, SlotOfSum
<1> QED
  BY <1>1 DEF StringAt

-----------------------------------------------------------------------------
(* Several bytes written                                                   *)

IsWritten(b, f, n) == f = [k \in 0 .. n |-> IF k = 0 THEN b ELSE Write(f[k - 1], input[b.position + k])]

LEMMA WrittenExists ==
  ASSUME NEW b, NEW n \in Nat
  PROVE  \E f : IsWritten(b, f, n)
<1> DEFINE T == {m \in Nat : ~ \E f : IsWritten(b, f, m)}
<1> SUFFICES ASSUME T # {} PROVE FALSE
  OBVIOUS
<1>1. PICK m \in T : \A y \in T : m <= y
  <2>1. T \subseteq Nat
    OBVIOUS
  <2> HIDE DEF T
  <2> QED
    BY <2>1, LeastNat
<1>2. CASE m = 0
  <2> DEFINE g == [k \in 0 .. 0 |-> b]
  <2>1. g = [k \in 0 .. 0 |-> IF k = 0 THEN b ELSE Write(g[k - 1], input[b.position + k])]
    OBVIOUS
  <2>2. IsWritten(b, g, 0)
    BY <2>1 DEF IsWritten
  <2> QED
    BY <1>1, <1>2, <2>2
<1>3. CASE m # 0
  <2>1. m - 1 \in Nat /\ m \in Nat /\ m - 1 \notin T
    BY <1>1, <1>3
  <2>2. PICK f : IsWritten(b, f, m - 1)
    BY <2>1
  <2>3. \A k \in 0 .. m - 1 : f[k] = IF k = 0 THEN b ELSE Write(f[k - 1], input[b.position + k])
    BY <2>1, <2>2, Zenon DEF IsWritten
  <2>4. PICK g : g = [k \in 0 .. m |-> IF k = m THEN Write(f[m - 1], input[b.position + m]) ELSE f[k]]
    OBVIOUS
  <2>5. ASSUME NEW k \in 0 .. m
        PROVE  g[k] = IF k = 0 THEN b ELSE Write(g[k - 1], input[b.position + k])
    <3>1. CASE k = m
      <4>1. g[m - 1] = f[m - 1] /\ g[m] = Write(f[m - 1], input[b.position + m])
        BY <2>1, <2>4
      <4> QED
        BY <1>3, <3>1, <4>1
    <3>2. CASE k # m /\ k # 0
      <4>1. k \in 0 .. m - 1 /\ k - 1 \in 0 .. m /\ k - 1 # m
        BY <2>1, <3>2
      <4>2. g[k] = f[k] /\ g[k - 1] = f[k - 1]
        BY <2>4, <3>2, <4>1
      <4> QED
        BY <2>3, <3>2, <4>1, <4>2
    <3>3. CASE k # m /\ k = 0
      <4>1. 0 \in 0 .. m - 1 /\ g[0] = f[0]
        BY <2>1, <2>4, <3>3
      <4> QED
        BY <2>3, <3>3, <4>1
    <3> QED
      BY <3>1, <3>2, <3>3
  <2>6. g = [k \in 0 .. m |-> IF k = 0 THEN b ELSE Write(g[k - 1], input[b.position + k])]
    <3>1. PICK h : h = [k \in 0 .. m |-> IF k = 0 THEN b ELSE Write(g[k - 1], input[b.position + k])]
      OBVIOUS
    <3>2. \A k \in 0 .. m : g[k] = h[k]
      BY <2>5, <3>1
    <3>3. g = [k \in 0 .. m |-> g[k]] /\ h = [k \in 0 .. m |-> h[k]]
      BY <2>4, <3>1
    <3>4. g = h
      BY <3>2, <3>3
    <3> QED
      BY <3>1, <3>4
  <2>7. IsWritten(b, g, m)
    BY <2>6 DEF IsWritten
  <2> QED
    BY <1>1, <2>7
<1> QED
  BY <1>2, <1>3

LEMMA WrittenIs ==
  ASSUME NEW b, NEW n \in Nat
  PROVE  \E f : /\ f[0] = b /\ WriteFromInput(b, n) = f[n]
                /\ \A k \in 1 .. n : f[k] = Write(f[k - 1], input[b.position + k])
<1>1. WriteFromInput(b, n) = (CHOOSE f : IsWritten(b, f, n))[n]
  BY DEF WriteFromInput, IsWritten
<1>2. PICK f : f = CHOOSE f_1 : IsWritten(b, f_1, n)
  OBVIOUS
<1>3. IsWritten(b, f, n)
  BY <1>2, WrittenExists
<1>4. \A k \in 0 .. n : f[k] = IF k = 0 THEN b ELSE Write(f[k - 1], input[b.position + k])
  BY <1>3, Zenon DEF IsWritten
<1>5. f[0] = b
  BY <1>4
<1>6. \A k \in 1 .. n : f[k] = Write(f[k - 1], input[b.position + k])
  BY <1>4
<1> QED
  BY <1>1, <1>2, <1>5, <1>6

(* Reading bytes of the input into the buffer keeps all of the above.      *)
LEMMA ReadKeeps ==
  ASSUME NEW b \in Buffers, NEW n \in Nat, input \in Seq(Bytes),
         b.position + n <= Len(input), Holds(input, b)
  PROVE  LET w == WriteFromInput(b, n) IN
         /\ w \in Buffers /\ w.position = b.position + n /\ w.finishing = b.finishing
         /\ b.faults \subseteq w.faults
         /\ Holds(input, w)
         /\ n = 0 => w = b
         /\ Intact(b) /\ InWindow(b) =>
              Intact(w) /\ InWindow(w) /\ w.faults \cap Misplaced = b.faults \cap Misplaced
<1>1. PICK f : /\ f[0] = b /\ WriteFromInput(b, n) = f[n]
               /\ \A k \in 1 .. n : f[k] = Write(f[k - 1], input[b.position + k])
  BY WrittenIs
<1> DEFINE Good(k) ==
             /\ f[k] \in Buffers /\ f[k].position = b.position + k
             /\ f[k].finishing = b.finishing /\ b.faults \subseteq f[k].faults
             /\ Holds(input, f[k])
             /\ Intact(b) /\ InWindow(b) =>
                  /\ Intact(f[k]) /\ InWindow(f[k])
                  /\ f[k].faults \cap Misplaced = b.faults \cap Misplaced
           T == {k \in 0 .. n : ~ Good(k)}
<1>2. Good(0)
  <2>1. b.position = b.position + 0
    BY DEF Buffers
  <2> QED
    BY <1>1, <2>1
<1>3. ASSUME NEW k \in 1 .. n, Good(k - 1)
      PROVE  Good(k)
  <2>1. PICK v : v = f[k - 1]
    OBVIOUS
  <2>2. /\ v \in Buffers /\ v.position = b.position + (k - 1) /\ v.finishing = b.finishing
        /\ b.faults \subseteq v.faults /\ Holds(input, v)
        /\ Intact(b) /\ InWindow(b) =>
             Intact(v) /\ InWindow(v) /\ v.faults \cap Misplaced = b.faults \cap Misplaced
    BY <1>3, <2>1
  <2>3. b.position \in Nat /\ Len(input) \in Nat
    BY DEF Buffers
  <2>4. /\ v.position < Len(input) /\ v.position + 1 = b.position + k
        /\ v.position + 1 \in 1 .. Len(input)
    BY <2>2, <2>3
  <2>5. PICK c \in Bytes : c = input[v.position + 1]
    BY <2>4
  <2>6. PICK w : w = Write(v, c)
    OBVIOUS
  <2>7. f[k] = w
    BY <1>1, <2>1, <2>4, <2>5, <2>6
  <2>8. /\ w \in Buffers /\ w.position = v.position + 1 /\ w.finishing = v.finishing
        /\ v.faults \subseteq w.faults
    BY <2>2, <2>6, WriteIs
  <2>9. Holds(input, w)
    BY <2>2, <2>4, <2>5, <2>6, WriteHolds
  <2>10. Intact(v) /\ InWindow(v) =>
           Intact(w) /\ InWindow(w) /\ w.faults \cap Misplaced = v.faults \cap Misplaced
    BY <2>2, <2>6, WriteKeeps
  <2> QED
    BY <2>2, <2>4, <2>7, <2>8, <2>9, <2>10
<1> HIDE DEF Good
<1>4. T = {}
  <2> SUFFICES ASSUME T # {} PROVE FALSE
    OBVIOUS
  <2>1. PICK k \in T : \A y \in T : k <= y
    <3>1. T \subseteq Nat
      OBVIOUS
    <3> HIDE DEF T
    <3> QED
      BY <3>1, LeastNat
  <2>2. k \in 1 .. n /\ k - 1 \in 0 .. n /\ ~ (k <= k - 1)
    BY <1>2, <2>1
  <2>3. Good(k - 1)
    BY <2>1, <2>2
  <2> QED
    BY <1>3, <2>1, <2>2, <2>3
<1>5. Good(n)
  BY <1>4
<1>6. n = 0 => f[n] = b
  BY <1>1
<1> QED
  BY <1>1, <1>5, <1>6 DEF Good

-----------------------------------------------------------------------------
(* The encoder's invariant                                                 *)

EncoderTypes ==
  /\ input \in Seq(Bytes)
  /\ pc \in {"start", "encode", "decode", "done", "garbled"}
  /\ sb \in Buffers /\ sb.position <= Len(input) /\ Holds(input, sb)
  /\ forward \in 0 .. MaxEncoding /\ toCopy \in 0 .. MaxRun - 1
  /\ forward + toCopy <= sb.position

NotStarted ==
  pc = "start" => /\ sb = NewSearchBuffer /\ forward = 0 /\ toCopy = 0
                  /\ output = <<>> /\ blockCount = 0 /\ decoded = <<>> /\ faults = {}

(* The pattern is as long as it can be until the input ends.               *)
FullUntilEnd == pc # "start" /\ InputLeft(sb) > 0 => forward = MaxEncoding

TreeInv ==
  /\ Intact(sb)
  /\ InputLeft(sb) > 0 => InWindow(sb) /\ AllFaults \cap Misplaced = {}

EncoderInv == EncoderTypes /\ NotStarted /\ FullUntilEnd /\ TreeInv

LEMMA EncoderInit == Init => EncoderInv
<1> SUFFICES ASSUME Init PROVE EncoderInv
  OBVIOUS
<1>1. input \in Seq(Bytes)
  <2>1. PICK n \in 0 .. MaxInput : input \in [1 .. n -> Bytes]
    BY Zenon DEF Init
  <2>2. n \in Nat
    BY <2>1, SizesAssumption
  <2> QED
    BY <2>1, <2>2
<1>2. Holds(input, sb)
  BY NewHolds DEF Init
<1>3. 0 \in 0 .. MaxEncoding /\ 0 \in 0 .. MaxRun - 1
  BY Sizes
<1>4. EncoderTypes
  BY <1>1, <1>2, <1>3, NewTyped DEF Init, EncoderTypes
<1>5. AllFaults = {}
  BY NewTyped DEF Init, AllFaults
<1> QED
  BY <1>4, <1>5, NewTyped DEF Init, EncoderInv, NotStarted, FullUntilEnd, TreeInv

(* The top of the loop changes nothing but the mode, and only at the end.  *)
LEMMA CurrentIs ==
  ASSUME EncoderInv, pc = "encode"
  PROVE  /\ Current \in Buffers /\ Current.position = sb.position /\ Current.buffer = sb.buffer
         /\ Current.tree = sb.tree /\ sb.faults \subseteq Current.faults
         /\ InputLeft(Current) = InputLeft(sb) /\ InputLeft(sb) \in Nat
         /\ InputLeft(sb) > 0 => Current = sb
         /\ Holds(input, Current) /\ Intact(Current)
<1> USE DEF EncoderInv, EncoderTypes
<1>1. /\ Current \in Buffers /\ Current.position = sb.position /\ Current.buffer = sb.buffer
      /\ Current.tree = sb.tree /\ sb.faults \subseteq Current.faults
  <2>1. forward \in Nat
    BY Sizes
  <2>2. CASE forward < MaxEncoding /\ ~ sb.finishing
    BY <2>1, <2>2, SetFinishingIs DEF Current
  <2>3. CASE ~ (forward < MaxEncoding /\ ~ sb.finishing)
    BY <2>3 DEF Current
  <2> QED
    BY <2>2, <2>3
<1>2. InputLeft(Current) = InputLeft(sb) /\ InputLeft(sb) \in Nat
  <2>1. Len(input) \in Nat /\ sb.position \in Nat
    BY DEF Buffers
  <2> QED
    BY <1>1, <2>1 DEF InputLeft
<1>3. InputLeft(sb) > 0 => Current = sb
  <2>1. InputLeft(sb) > 0 => ~ (forward < MaxEncoding)
    BY Sizes DEF FullUntilEnd
  <2> QED
    BY <2>1 DEF Current
<1>4. Holds(input, Current)
  BY <1>1 DEF Holds
<1>5. Intact(Current)
  BY <1>1 DEF Intact, TreeInv
<1> QED
  BY <1>1, <1>2, <1>3, <1>4, <1>5

(* What is known of a match that is going to be a reference.               *)
LEMMA MatchFacts ==
  ASSUME EncoderInv, Encoding, Found >= MinLen,
         NEW slot \in Matches(Current, Slot(PatternPosition), forward)
  PROVE  /\ PatternPosition \in Nat /\ PatternPosition = sb.position - forward
         /\ Found \in MinLen .. forward
         /\ AbsolutePosition(Current, slot) \in Int
         /\ sb.position - BufferSize <= AbsolutePosition(Current, slot)
         /\ AbsolutePosition(Current, slot) < sb.position
         /\ InputLeft(sb) > 0 =>
              /\ PatternPosition - AbsolutePosition(Current, slot) <= WindowSize
              /\ PatternPosition - AbsolutePosition(Current, slot) >= MinRef
         /\ AbsolutePosition(Current, slot) <= PatternPosition =>
              \A k \in 1 .. Found : ByteAt(input, PatternPosition + k - 1)
                                      = ByteAt(input, AbsolutePosition(Current, slot) + k - 1)
<1> DEFINE q == PatternPosition
           a == AbsolutePosition(Current, slot)
<1>1. /\ Current \in Buffers /\ Current.position = sb.position /\ Current.buffer = sb.buffer
      /\ Current.tree = sb.tree
      /\ InputLeft(sb) > 0 => Current = sb
      /\ Holds(input, Current)
  BY CurrentIs DEF Encoding
<1>2. /\ sb.position \in Nat /\ forward \in Nat /\ forward <= MaxEncoding
      /\ forward <= sb.position /\ q = sb.position - forward /\ q \in Nat
  <2>1. /\ sb.position \in Nat /\ forward \in 0 .. MaxEncoding
        /\ toCopy \in Nat /\ forward + toCopy <= sb.position
    BY Sizes DEF EncoderInv, EncoderTypes, Buffers
  <2>2. q = sb.position - forward
    BY <1>1 DEF PatternPosition
  <2> QED
    BY <2>1, <2>2, Sizes
<1>3. Found = MatchLength(Current, Slot(q), forward)
  BY Sizes DEF Found
<1>4. /\ Found \in 0 .. forward
      /\ \E e \in Current.tree : slot = e.slot
      /\ StringAt(Current.buffer, Slot(q), Found) = StringAt(Current.buffer, slot, Found)
  <2> HIDE DEF q
  <2> QED
    BY <1>2, <1>3, MatchIs DEF q
<1>5. Found \in MinLen .. forward /\ Found \in Nat
  BY <1>2, <1>4, Sizes
<1>6. PICK e \in sb.tree : slot = e.slot
  BY <1>1, <1>4
<1>7. slot \in Slots
  BY <1>6 DEF EncoderInv, EncoderTypes, Buffers, Strings
<1>8. a \in Int /\ sb.position - BufferSize <= a /\ a < sb.position /\ Slot(a) = slot
  BY <1>1, <1>2, <1>7, AbsoluteIs
<1> HIDE DEF a, q
<1>9. ASSUME InputLeft(sb) > 0
      PROVE  q - a <= WindowSize /\ q - a >= MinRef
  <2>1. PICK p \in Nat : /\ e.slot = Slot(p) /\ sb.position - BufferSize <= p
                         /\ p + MaxEncoding + MinRef <= sb.position
    BY <1>6, <1>9 DEF EncoderInv, TreeInv, InWindow
  <2>2. forward = MaxEncoding
    BY <1>9 DEF EncoderInv, FullUntilEnd, Encoding
  <2>3. a - p < BufferSize /\ p - a < BufferSize
    BY <1>2, <1>8, <2>1, Sizes
  <2>4. a = p
    BY <1>6, <1>8, <2>1, <2>3, SlotsDiffer
  <2> QED
    BY <1>2, <1>8, <2>1, <2>2, <2>4, Sizes
<1>10. ASSUME a <= q, NEW k \in 1 .. Found
       PROVE  ByteAt(input, q + k - 1) = ByteAt(input, a + k - 1)
  <2>1. /\ q + k - 1 \in Int /\ sb.position - BufferSize <= q + k - 1 /\ q + k - 1 < sb.position
        /\ a + k - 1 \in Int /\ sb.position - BufferSize <= a + k - 1 /\ a + k - 1 < sb.position
    BY <1>2, <1>5, <1>8, <1>10, Sizes
  <2>2. /\ Current.buffer[Slot(q + k - 1)] = ByteAt(input, q + k - 1)
        /\ Current.buffer[Slot(a + k - 1)] = ByteAt(input, a + k - 1)
    BY <1>1, <2>1 DEF Holds
  <2>3. StringAt(Current.buffer, Slot(q), Found)[k] = Current.buffer[Slot(Slot(q) + k - 1)]
    BY DEF StringAt
  <2>4. StringAt(Current.buffer, slot, Found)[k] = Current.buffer[Slot(slot + k - 1)]
    BY DEF StringAt
  <2>5. Slot(Slot(q) + k - 1) = Slot(q + k - 1) /\ Slot(slot + k - 1) = Slot(a + k - 1)
    BY <1>2, <1>8, SlotOfSum
  <2> QED
    BY <1>4, <2>2, <2>3, <2>4, <2>5
<1> QED
  BY <1>2, <1>5, <1>8, <1>9, <1>10 DEF a, q

LEMMA StartKeeps ==
  ASSUME EncoderInv, StartEncode
  PROVE  EncoderInv'
<1> USE DEF EncoderInv
<1>1. PICK n : n = Lesser(MaxEncoding, Len(input))
  OBVIOUS
<1>2. /\ n \in Nat /\ n <= MaxEncoding /\ n <= Len(input) /\ Len(input) \in Nat
      /\ n < MaxEncoding => n = Len(input)
  BY <1>1, Sizes DEF Lesser, EncoderTypes
<1>3. PICK w : w = WriteFromInput(sb, n)
  OBVIOUS
<1>4. /\ pc = "start" /\ pc' = "encode" /\ forward' = n /\ sb' = w
      /\ input' = input /\ toCopy' = 0 /\ faults' = faults /\ toCopy = 0 /\ faults = {}
      /\ sb = NewSearchBuffer
  BY <1>1, <1>3 DEF StartEncode, NotStarted
<1>5. sb.position = 0 /\ sb.faults = {} /\ InWindow(sb) /\ Intact(sb)
  BY <1>4, NewTyped
<1>6. /\ w \in Buffers /\ w.position = sb.position + n /\ Holds(input, w)
      /\ Intact(w) /\ InWindow(w) /\ w.faults \cap Misplaced = sb.faults \cap Misplaced
  BY <1>2, <1>3, <1>5, ReadKeeps DEF EncoderTypes
<1>7. w.position = n /\ w.position <= Len(input)
  BY <1>2, <1>5, <1>6
<1>8. forward' \in 0 .. MaxEncoding /\ forward' + toCopy' <= sb'.position /\ toCopy' \in 0 .. MaxRun - 1
  BY <1>2, <1>4, <1>7, Sizes
<1>9. EncoderTypes'
  BY <1>4, <1>6, <1>7, <1>8 DEF EncoderTypes
<1>10. NotStarted'
  BY <1>4 DEF NotStarted
<1>11. FullUntilEnd'
  BY <1>2, <1>4, <1>7, Sizes DEF FullUntilEnd, InputLeft
<1>12. AllFaults' \cap Misplaced = {}
  BY <1>4, <1>5, <1>6 DEF AllFaults
<1>13. TreeInv'
  BY <1>4, <1>6, <1>12 DEF TreeInv
<1> QED
  BY <1>9, <1>10, <1>11, <1>13

(* A byte more is left to copy; the pattern moves on by one.               *)
LEMMA LiteralFacts ==
  ASSUME EncoderInv, EncodeLiteral
  PROVE  /\ sb' \in Buffers /\ sb'.position <= Len(input) /\ Holds(input, sb')
         /\ forward' \in 0 .. MaxEncoding
         /\ sb'.position - forward' = sb.position - forward + 1
         /\ sb.faults \subseteq sb'.faults
         /\ Len(input) - sb'.position > 0 => forward' = MaxEncoding
         /\ Intact(sb')
         /\ Len(input) - sb'.position > 0 =>
              /\ InputLeft(sb) > 0 /\ InWindow(sb')
              /\ sb'.faults \cap Misplaced = sb.faults \cap Misplaced
<1>1. PICK c : c = Current
  OBVIOUS
<1>2. /\ c \in Buffers /\ c.position = sb.position /\ sb.faults \subseteq c.faults
      /\ InputLeft(c) = InputLeft(sb) /\ InputLeft(sb) \in Nat
      /\ Holds(input, c) /\ Intact(c)
  BY <1>1, CurrentIs DEF EncodeLiteral, Encoding
<1>3. InputLeft(sb) > 0 => c = sb /\ forward = MaxEncoding /\ InWindow(c)
  BY <1>1, CurrentIs DEF EncodeLiteral, Encoding, EncoderInv, FullUntilEnd, TreeInv
<1>4. /\ input \in Seq(Bytes) /\ Len(input) \in Nat /\ sb.position \in Nat
      /\ forward \in 0 .. MaxEncoding /\ forward > 0 /\ sb.position <= Len(input)
      /\ InputLeft(sb) = Len(input) - sb.position
  BY DEF EncoderInv, EncoderTypes, EncodeLiteral, Encoding, Buffers, InputLeft
<1>5. CASE InputLeft(c) > 0 /\ sb' = WriteFromInput(c, 1) /\ forward' = forward
  <2>1. PICK w : w = WriteFromInput(c, 1)
    OBVIOUS
  <2>2. c = sb /\ forward = MaxEncoding /\ InWindow(c) /\ c.position + 1 <= Len(input)
    BY <1>2, <1>3, <1>4, <1>5
  <2>3. /\ w \in Buffers /\ w.position = c.position + 1 /\ c.faults \subseteq w.faults
        /\ Holds(input, w) /\ Intact(w) /\ InWindow(w)
        /\ w.faults \cap Misplaced = c.faults \cap Misplaced
    BY <1>2, <1>4, <2>1, <2>2, ReadKeeps
  <2>4. sb'.position - forward' = sb.position - forward + 1 /\ forward' \in 0 .. MaxEncoding
    BY <1>4, <1>5, <2>1, <2>2, <2>3, Sizes, SMTT(30)
  <2>5. sb' = w /\ sb'.position <= Len(input)
    BY <1>5, <2>1, <2>2, <2>3
  <2> QED
    BY <1>2, <1>5, <2>2, <2>3, <2>4, <2>5
<1>6. CASE InputLeft(c) = 0 /\ sb' = ProcessLastByte(c) /\ forward' = forward - 1
  <2>1. PICK l : l = ProcessLastByte(c)
    OBVIOUS
  <2>2. /\ l \in Buffers /\ l.position = c.position /\ l.buffer = c.buffer
        /\ c.faults \subseteq l.faults /\ Intact(l)
    BY <1>2, <2>1, ProcessLastIs
  <2>3. Holds(input, l)
    BY <1>2, <2>2 DEF Holds
  <2>4. sb'.position - forward' = sb.position - forward + 1 /\ forward' \in 0 .. MaxEncoding
    BY <1>2, <1>4, <1>6, <2>1, <2>2, Sizes
  <2>5. ~ (Len(input) - sb'.position > 0) /\ sb'.position <= Len(input)
    BY <1>2, <1>4, <1>6, <2>1, <2>2
  <2> QED
    BY <1>2, <1>6, <2>1, <2>2, <2>3, <2>4, <2>5
<1> QED
  BY <1>1, <1>5, <1>6 DEF EncodeLiteral

LEMMA LiteralKeeps ==
  ASSUME EncoderInv, EncodeLiteral
  PROVE  EncoderInv'
<1>1. /\ pc = "encode" /\ pc' = "encode" /\ input' = input /\ faults' = faults
      /\ toCopy' = 0 \/ (toCopy + 1 < MaxRun /\ toCopy' = toCopy + 1)
  BY DEF EncodeLiteral, Encoding
<1>2. toCopy' \in 0 .. MaxRun - 1 /\ toCopy' <= toCopy + 1
  BY <1>1, Sizes DEF EncoderInv, EncoderTypes
<1>3. forward' + toCopy' <= sb'.position
  <2>1. /\ forward \in Int /\ forward' \in Int /\ toCopy \in Int /\ toCopy' \in Int
        /\ sb.position \in Int /\ sb'.position \in Int /\ forward + toCopy <= sb.position
    BY <1>2, LiteralFacts, Sizes DEF EncoderInv, EncoderTypes, Buffers
  <2>2. sb'.position - forward' = sb.position - forward + 1
    BY LiteralFacts
  <2> QED
    BY <1>2, <2>1, <2>2
<1>4. EncoderTypes'
  BY <1>1, <1>2, <1>3, LiteralFacts DEF EncoderInv, EncoderTypes
<1>5. NotStarted'
  BY <1>1 DEF NotStarted
<1>6. FullUntilEnd'
  BY <1>1, LiteralFacts DEF FullUntilEnd, InputLeft
<1>7. TreeInv'
  <2>1. (InputLeft(sb) > 0)' => InWindow(sb)' /\ (AllFaults \cap Misplaced = {})'
    BY <1>1, LiteralFacts DEF EncoderInv, TreeInv, AllFaults, InputLeft
  <2> QED
    BY <2>1, LiteralFacts DEF TreeInv
<1> QED
  BY <1>4, <1>5, <1>6, <1>7 DEF EncoderInv

(* A reference is written; the pattern moves on by the match.              *)
LEMMA MatchKeeps ==
  ASSUME EncoderInv, EncodeMatch
  PROVE  /\ EncoderInv'
         /\ sb'.position - forward' = sb.position - forward + Found
         /\ sb.faults \subseteq sb'.faults
<1>1. PICK c : c = Current
  OBVIOUS
<1>2. /\ c \in Buffers /\ c.position = sb.position /\ sb.faults \subseteq c.faults
      /\ InputLeft(c) = InputLeft(sb) /\ InputLeft(sb) \in Nat
      /\ Holds(input, c) /\ Intact(c)
  BY <1>1, CurrentIs DEF EncodeMatch, Encoding
<1>3. InputLeft(sb) > 0 => c = sb /\ forward = MaxEncoding /\ InWindow(c)
  BY <1>1, CurrentIs DEF EncodeMatch, Encoding, EncoderInv, FullUntilEnd, TreeInv
<1>4. /\ input \in Seq(Bytes) /\ Len(input) \in Nat /\ sb.position \in Nat
      /\ forward \in 0 .. MaxEncoding /\ forward > 0 /\ sb.position <= Len(input)
      /\ InputLeft(sb) = Len(input) - sb.position /\ forward \in Nat /\ forward <= sb.position
  BY Sizes DEF EncoderInv, EncoderTypes, EncodeMatch, Encoding, Buffers, InputLeft
<1>5. PICK slot \in Matches(Current, Slot(PatternPosition), forward) :
        LET reference == PatternPosition - AbsolutePosition(Current, slot)
            available == Lesser(InputLeft(Current), Found)
        IN /\ faults' = faults \cup Broken(reference <= WindowSize, "referenceTooFar")
                               \cup Broken(reference >= MinRef, "referenceTooNear")
           /\ sb' = WriteFromInput(Current, available)
           /\ forward' = forward - Found + available
  BY DEF EncodeMatch
<1>6. PICK reference : reference = PatternPosition - AbsolutePosition(Current, slot)
  OBVIOUS
<1>7. PICK n : n = Lesser(InputLeft(sb), Found)
  OBVIOUS
<1>8. /\ Found \in MinLen .. forward
      /\ InputLeft(sb) > 0 => reference <= WindowSize /\ reference >= MinRef
  BY <1>5, <1>6, MatchFacts DEF EncodeMatch
<1>9. /\ Found \in Nat /\ n \in Nat /\ n <= Found /\ n <= InputLeft(sb) /\ Found <= forward
      /\ n < Found => n = InputLeft(sb)
  BY <1>2, <1>4, <1>7, <1>8, Sizes DEF Lesser
<1>10. PICK w : w = WriteFromInput(c, n)
  OBVIOUS
<1>11. sb' = w /\ forward' = forward - Found + n
  BY <1>1, <1>2, <1>5, <1>7, <1>10
<1>12. /\ w \in Buffers /\ w.position = c.position + n /\ c.faults \subseteq w.faults
       /\ Holds(input, w)
       /\ n = 0 => w = c
       /\ Intact(c) /\ InWindow(c) =>
            Intact(w) /\ InWindow(w) /\ w.faults \cap Misplaced = c.faults \cap Misplaced
  <2>1. c.position + n <= Len(input)
    BY <1>2, <1>4, <1>9
  <2> QED
    BY <1>2, <1>4, <1>9, <1>10, <2>1, ReadKeeps
<1>13. /\ forward' \in 0 .. MaxEncoding /\ sb'.position <= Len(input)
       /\ sb'.position - forward' = sb.position - forward + Found /\ forward' <= sb'.position
  BY <1>2, <1>4, <1>9, <1>11, <1>12, Sizes
<1>14. pc = "encode" /\ pc' = "encode" /\ input' = input /\ toCopy' = 0
  BY DEF EncodeMatch, Encoding
<1>15. EncoderTypes'
  <2>1. toCopy' \in 0 .. MaxRun - 1 /\ forward' + toCopy' <= sb'.position
    BY <1>13, <1>14, Sizes
  <2> QED
    BY <1>4, <1>11, <1>12, <1>13, <1>14, <2>1 DEF EncoderTypes
<1>16. NotStarted'
  BY <1>14 DEF NotStarted
<1>17. FullUntilEnd'
  <2>1. ASSUME Len(input) - sb'.position > 0
        PROVE  forward' = MaxEncoding
    <3>1. InputLeft(sb) - n > 0
      BY <1>2, <1>4, <1>9, <1>11, <1>12, <2>1
    <3>2. n = Found /\ InputLeft(sb) > 0
      BY <1>2, <1>9, <3>1
    <3> QED
      BY <1>3, <1>4, <1>9, <1>11, <3>2
  <2> QED
    BY <1>14, <2>1 DEF FullUntilEnd, InputLeft
<1>18. TreeInv'
  <2>1. CASE InputLeft(sb) > 0
    <3>1. Intact(w) /\ InWindow(w) /\ w.faults \cap Misplaced = sb.faults \cap Misplaced
      BY <1>2, <1>3, <1>12, <2>1
    <3>2. faults' = faults
      BY <1>5, <1>6, <1>8, <2>1 DEF Broken
    <3>3. AllFaults' \cap Misplaced = {}
      BY <1>11, <2>1, <3>1, <3>2 DEF AllFaults, EncoderInv, TreeInv
    <3> QED
      BY <1>11, <3>1, <3>3 DEF TreeInv
  <2>2. CASE ~ (InputLeft(sb) > 0)
    <3>1. n = 0 /\ ~ (Len(input) - sb'.position > 0)
      BY <1>2, <1>4, <1>9, <1>11, <1>12, <2>2
    <3> QED
      BY <1>2, <1>11, <1>12, <1>14, <3>1 DEF TreeInv, InputLeft
  <2> QED
    BY <2>1, <2>2
<1> QED
  BY <1>2, <1>11, <1>12, <1>13, <1>15, <1>16, <1>17, <1>18 DEF EncoderInv

LEMMA RestKeeps ==
  ASSUME EncoderInv, EndEncode \/ DecodeBlock \/ EndDecode \/ UNCHANGED vars
  PROVE  EncoderInv'
<1>1. /\ input' = input /\ sb' = sb /\ forward' = forward /\ faults' = faults
      /\ toCopy' = toCopy \/ toCopy' = 0
  BY DEF EndEncode, DecodeBlock, EndDecode, vars
<1>2. /\ pc' \in {"start", "encode", "decode", "done", "garbled"}
      /\ pc' = "start" => pc = "start" /\ UNCHANGED vars
      /\ pc = "start" => pc' = "start"
  BY DEF EndEncode, DecodeBlock, EndDecode, vars, EncoderInv, EncoderTypes
<1>3. toCopy' \in 0 .. MaxRun - 1 /\ forward' + toCopy' <= sb'.position
  BY <1>1, Sizes DEF EncoderInv, EncoderTypes, Buffers
<1>4. EncoderTypes'
  BY <1>1, <1>2, <1>3 DEF EncoderInv, EncoderTypes
<1>5. NotStarted'
  BY <1>2 DEF EncoderInv, NotStarted, vars
<1>6. FullUntilEnd' /\ TreeInv'
  BY <1>1, <1>2 DEF EncoderInv, FullUntilEnd, TreeInv, InputLeft, AllFaults
<1> QED
  BY <1>4, <1>5, <1>6 DEF EncoderInv

LEMMA EncoderStep == EncoderInv /\ [Next]_vars => EncoderInv'
  BY StartKeeps, LiteralKeeps, MatchKeeps, RestKeeps DEF Next

(* The order of the search tree is not undermined: the bytes of a string   *)
(* in it are still those it was inserted with, whatever the size of the    *)
(* window and of the input, since removeOldestString comes before write    *)
(* and a string is inserted when its last byte is there.                   *)
THEOREM OrderNotUndermined == Spec => []KeysIntact
<1>1. EncoderInv => KeysIntact
  BY DEF EncoderInv, TreeInv, Intact, KeysIntact
<1> QED
  BY <1>1, EncoderInit, EncoderStep, PTL DEF Spec

(* Until the input ends, what encode finds is at a distance a reference    *)
(* can express, and no string is inserted where another one starts.        *)
THEOREM ReferencesFit == Spec => []ReferencesFitBeforeEnd
<1>1. EncoderInv => ReferencesFitBeforeEnd
  BY DEF EncoderInv, TreeInv, Misplaced, ReferencesFitBeforeEnd
<1> QED
  BY <1>1, EncoderInit, EncoderStep, PTL DEF Spec

-----------------------------------------------------------------------------
(* What the blocks stand for                                               *)

Blocks == [kind : {"literals"}, bytes : Seq(Bytes)] \cup [kind : {"reference"}, word : Nat]

(* The input up to a position, and a piece of it that repeats what stands  *)
(* some bytes before it.                                                   *)
Prefix(in, n) == [i \in 1 .. n |-> in[i]]

Repeats(in, from, to, back) == \A i \in from .. to - 1 : ByteAt(in, i) = ByteAt(in, i - back)

(* A block that unpacks to the bytes of the input between two positions.   *)
StandsFor(in, block, from, to) ==
  \/ /\ block.kind = "literals"
     /\ block.bytes = [k \in 1 .. to - from |-> in[from + k]]
  \/ /\ block.kind = "reference" /\ block.word < TopBit
     /\ to - from = (block.word \div RefValues) + MinLen
     /\ Repeats(in, from, to, (block.word % RefValues) + MinRef)

(* Blocks that cut up the input from one position to another.              *)
Ends(in, blocks, ends, from, to) ==
  /\ ends \in [0 .. Len(blocks) -> 0 .. Len(in)]
  /\ ends[0] = from /\ ends[Len(blocks)] = to
  /\ \A j \in 1 .. Len(blocks) : ends[j - 1] <= ends[j] /\ StandsFor(in, blocks[j], ends[j - 1], ends[j])

Cut(in, blocks, from, to) == blocks \in Seq(Blocks) /\ \E ends : Ends(in, blocks, ends, from, to)

LEMMA CutNone ==
  ASSUME NEW in \in Seq(Bytes), NEW x \in 0 .. Len(in)
  PROVE  Cut(in, <<>>, x, x)
<1>1. PICK ends : ends = [j \in 0 .. 0 |-> x]
  OBVIOUS
<1>2. Ends(in, <<>>, ends, x, x)
  <2>1. Len(<<>>) = 0 /\ 1 .. 0 = {}
    OBVIOUS
  <2> QED
    BY <1>1, <2>1 DEF Ends
<1>3. <<>> \in Seq(Blocks)
  OBVIOUS
<1> QED
  BY <1>2, <1>3 DEF Cut

LEMMA CutMore ==
  ASSUME NEW in \in Seq(Bytes), NEW blocks, NEW block \in Blocks, NEW x \in Int, NEW y \in Int, NEW z \in Int,
         Cut(in, blocks, x, y), StandsFor(in, block, y, z), y <= z, z <= Len(in)
  PROVE  Cut(in, Append(blocks, block), x, z)
<1>1. PICK ends : Ends(in, blocks, ends, x, y)
  BY DEF Cut
<1>2. PICK n \in Nat : n = Len(blocks)
  BY DEF Cut
<1>3. PICK more : more = Append(blocks, block)
  OBVIOUS
<1>4. /\ blocks \in Seq(Blocks) /\ more \in Seq(Blocks) /\ Len(more) = n + 1
      /\ more[n + 1] = block /\ \A j \in 1 .. n : more[j] = blocks[j]
  BY <1>2, <1>3, AppendProperties DEF Cut
<1>5. PICK e : e = [j \in 0 .. n + 1 |-> IF j = n + 1 THEN z ELSE ends[j]]
  OBVIOUS
<1>6. /\ ends \in [0 .. n -> 0 .. Len(in)] /\ ends[0] = x /\ ends[n] = y
      /\ \A j \in 1 .. n : ends[j - 1] <= ends[j] /\ StandsFor(in, blocks[j], ends[j - 1], ends[j])
  BY <1>1, <1>2 DEF Ends
<1>7. Len(in) \in Nat /\ y \in 0 .. Len(in) /\ z \in 0 .. Len(in)
  BY <1>6
<1>8. e \in [0 .. n + 1 -> 0 .. Len(in)] /\ e[0] = x /\ e[n + 1] = z
  <2>1. \A j \in 0 .. n + 1 : j # n + 1 => j \in 0 .. n
    OBVIOUS
  <2> QED
    BY <1>5, <1>6, <1>7, <2>1
<1>9. ASSUME NEW j \in 1 .. n + 1
      PROVE  e[j - 1] <= e[j] /\ StandsFor(in, more[j], e[j - 1], e[j])
  <2>1. CASE j = n + 1
    <3>1. e[n] = y /\ e[n + 1] = z /\ j - 1 = n
      BY <1>5, <1>6, <2>1
    <3> QED
      BY <1>4, <2>1, <3>1
  <2>2. CASE j # n + 1
    <3>1. j \in 1 .. n /\ j - 1 \in 0 .. n + 1 /\ j - 1 # n + 1 /\ j \in 0 .. n + 1
      BY <2>2
    <3>2. e[j - 1] = ends[j - 1] /\ e[j] = ends[j]
      BY <1>5, <2>2, <3>1
    <3> QED
      BY <1>4, <1>6, <3>1, <3>2
  <2> QED
    BY <2>1, <2>2
<1>10. Ends(in, more, e, x, z)
  BY <1>4, <1>8, <1>9 DEF Ends
<1> QED
  BY <1>3, <1>4, <1>10 DEF Cut

LEMMA CutHead ==
  ASSUME NEW in \in Seq(Bytes), NEW blocks, NEW x, NEW z, Cut(in, blocks, x, z), blocks # <<>>
  PROVE  \E y \in 0 .. Len(in) : /\ x \in 0 .. Len(in) /\ x <= y
                                 /\ StandsFor(in, Head(blocks), x, y) /\ Cut(in, Tail(blocks), y, z)
<1>1. PICK ends : Ends(in, blocks, ends, x, z)
  BY DEF Cut
<1>2. blocks \in Seq(Blocks)
  BY DEF Cut
<1>3. PICK n \in Nat \ {0} : n = Len(blocks)
  <2>1. Len(blocks) \in Nat /\ Len(blocks) # 0
    BY <1>2, EmptySeq
  <2> QED
    BY <2>1
<1>4. PICK rest : rest = Tail(blocks)
  OBVIOUS
<1>5. /\ rest \in Seq(Blocks) /\ Len(rest) = n - 1 /\ Head(blocks) = blocks[1]
      /\ \A j \in 1 .. n - 1 : rest[j] = blocks[j + 1]
  BY <1>2, <1>3, <1>4, HeadTailProperties
<1>6. PICK e : e = [j \in 0 .. n - 1 |-> ends[j + 1]]
  OBVIOUS
<1>7. /\ ends \in [0 .. n -> 0 .. Len(in)] /\ ends[0] = x /\ ends[n] = z
      /\ \A j \in 1 .. n : ends[j - 1] <= ends[j] /\ StandsFor(in, blocks[j], ends[j - 1], ends[j])
  BY <1>1, <1>3 DEF Ends
<1>8. e \in [0 .. n - 1 -> 0 .. Len(in)] /\ e[0] = ends[1] /\ e[n - 1] = z
  <2>1. \A j \in 0 .. n - 1 : j + 1 \in 0 .. n
    OBVIOUS
  <2>2. 0 \in 0 .. n - 1 /\ n - 1 \in 0 .. n - 1 /\ n - 1 + 1 = n /\ 0 + 1 = 1
    OBVIOUS
  <2> QED
    BY <1>6, <1>7, <2>1, <2>2
<1>9. ASSUME NEW j \in 1 .. n - 1
      PROVE  e[j - 1] <= e[j] /\ StandsFor(in, rest[j], e[j - 1], e[j])
  <2>1. /\ j - 1 \in 0 .. n - 1 /\ j \in 0 .. n - 1 /\ j + 1 \in 1 .. n
        /\ j - 1 + 1 = j /\ j + 1 - 1 = j
    OBVIOUS
  <2>2. e[j - 1] = ends[j] /\ e[j] = ends[j + 1]
    BY <1>6, <2>1
  <2>3. ends[j + 1 - 1] <= ends[j + 1] /\ StandsFor(in, blocks[j + 1], ends[j + 1 - 1], ends[j + 1])
    BY <1>7, <2>1
  <2> QED
    BY <1>5, <2>1, <2>2, <2>3
<1>10. Ends(in, rest, e, ends[1], z)
  BY <1>5, <1>8, <1>9 DEF Ends
<1>11. 1 \in 1 .. n /\ 0 \in 0 .. n /\ 1 \in 0 .. n /\ 1 - 1 = 0
  OBVIOUS
<1>12. ends[0] <= ends[1] /\ StandsFor(in, blocks[1], ends[0], ends[1]) /\ ends[1] \in 0 .. Len(in)
  BY <1>7, <1>11
<1> QED
  BY <1>4, <1>5, <1>7, <1>10, <1>11, <1>12 DEF Cut

LEMMA CutAll ==
  ASSUME NEW in, NEW x, NEW z, Cut(in, <<>>, x, z)
  PROVE  x = z
  BY DEF Cut, Ends

(* A reference that fits is packed without loss.                           *)
LEMMA PackIs ==
  ASSUME NEW reference \in MinRef .. WindowSize, NEW length \in MinLen .. MaxEncoding
  PROVE  /\ Pack(reference, length) \in Nat /\ Pack(reference, length) < TopBit
         /\ (Pack(reference, length) % RefValues) + MinRef = reference
         /\ (Pack(reference, length) \div RefValues) + MinLen = length
<1>1. PICK x \in Nat : x = reference - MinRef
  BY Sizes
<1>2. PICK h \in Nat : h = length - MinLen
  BY Sizes
<1>3. PICK R \in Nat \ {0} : R = RefValues
  BY SizesAssumption
<1>4. PICK L \in Nat \ {0} : L = LenValues
  BY SizesAssumption
<1>5. x < R
  BY <1>1, <1>3, Sizes, SizesAssumption
<1>6. h < L
  BY <1>2, <1>4, Sizes, SizesAssumption
<1>7. PICK t \in Nat : t = R * L
  BY <1>3, <1>4
<1>8. t >= R
  BY <1>3, <1>4, <1>7
<1>9. x % (2 * t) = x
  <2>1. 2 * t \in Nat \ {0} /\ x < 2 * t /\ 0 * (2 * t) + x = x
    BY <1>5, <1>7, <1>8
  <2> QED
    BY <2>1, ModUnique
<1>10. \A a \in Nat, b \in Nat, m \in Nat \ {0} : a < m => (b * m + a) % m = a /\ (b * m + a) \div m = b
  BY DivUnique
<1>11. x % R = x /\ x \div R = 0
  <2>1. 0 * R + x = x
    OBVIOUS
  <2> QED
    BY <1>5, <1>10, <2>1
<1>12. Pack(reference, length) = x + R * h
  <2>1. (reference - MinRef) % (2 * TopBit) = x
    BY <1>1, <1>3, <1>4, <1>7, <1>9 DEF TopBit
  <2>2. Or(x \div RefValues, length - MinLen) = h
    BY <1>2, <1>3, <1>11 DEF Or
  <2>3. Pack(reference, length) = ((x % RefValues) + RefValues * Or(x \div RefValues, length - MinLen))
    BY <2>1 DEF Pack
  <2> QED
    BY <1>3, <1>11, <2>2, <2>3
<1>13. x + R * h = h * R + x
  OBVIOUS
<1>14. x + R * h \in Nat /\ x + R * h < t
  BY <1>5, <1>6, <1>7
<1>15. (x + R * h) % R = x /\ (x + R * h) \div R = h
  BY <1>5, <1>10, <1>13
<1>16. TopBit = t
  BY <1>3, <1>4, <1>7 DEF TopBit
<1>17. x + MinRef = reference /\ h + MinLen = length
  BY <1>1, <1>2, Sizes
<1> QED
  BY <1>3, <1>12, <1>14, <1>15, <1>16, <1>17

(* The bytes left to copy are at most one run, and the buffer has them.    *)
LEMMA FlushIs ==
  ASSUME NEW in \in Seq(Bytes), NEW b \in Buffers, Holds(in, b), b.position <= Len(in),
         NEW n \in 0 .. MaxRun, NEW ahead \in 0 .. MaxEncoding, ahead + n <= b.position
  PROVE  /\ n = 0 => FlushUncompressed(b, n, ahead) = <<>>
         /\ n > 0 => /\ FlushUncompressed(b, n, ahead) =
                          <<Literals([k \in 1 .. n |-> in[b.position - ahead - n + k]])>>
                     /\ [k \in 1 .. n |-> in[b.position - ahead - n + k]] \in Seq(Bytes)
<1>1. PICK from : from = b.position - ahead - n
  OBVIOUS
<1>2. /\ n \in Nat /\ ahead \in Nat /\ b.position \in Nat /\ from \in Nat /\ MaxRun \in Nat \ {0}
      /\ n <= MaxRun /\ ahead <= MaxEncoding /\ MaxRun <= WindowSize
      /\ BufferSize = WindowSize + MaxEncoding /\ WindowSize \in Nat /\ MaxEncoding \in Nat
  BY <1>1, Sizes DEF Buffers
<1>3. PICK runs : runs = FlushUncompressed(b, n, ahead)
  OBVIOUS
<1>4. PICK count : count = (n + MaxRun - 1) \div MaxRun
  OBVIOUS
<1>5. n = 0 => count = 0
  <2> HAVE n = 0
  <2>1. MaxRun - 1 \in Nat /\ MaxRun - 1 < MaxRun /\ n + MaxRun - 1 = 0 * MaxRun + (MaxRun - 1)
    BY <1>2
  <2>2. (0 * MaxRun + (MaxRun - 1)) \div MaxRun = 0
    BY <1>2, <2>1, DivUnique
  <2> QED
    BY <1>4, <2>1, <2>2
<1>6. n > 0 => count = 1
  <2> HAVE n > 0
  <2>1. n - 1 \in Nat /\ n - 1 < MaxRun /\ n + MaxRun - 1 = 1 * MaxRun + (n - 1)
    BY <1>2
  <2>2. (1 * MaxRun + (n - 1)) \div MaxRun = 1
    BY <1>2, <2>1, DivUnique
  <2> QED
    BY <1>4, <2>1, <2>2
<1> DEFINE Run(r) == LET chunk == Lesser(n - (r - 1) * MaxRun, MaxRun)
                     IN Literals(StringAt(b.buffer, Slot(b.position + 2 * BufferSize - chunk - ahead), chunk))
<1>7. runs = [r \in 1 .. count |-> Run(r)]
  BY <1>3, <1>4 DEF FlushUncompressed, Runs
<1>8. Run(1) = Literals([k \in 1 .. n |-> in[from + k]])
  <2>1. Lesser(n - (1 - 1) * MaxRun, MaxRun) = n
    BY <1>2 DEF Lesser
  <2>2. Run(1) = Literals(StringAt(b.buffer, Slot(b.position + 2 * BufferSize - n - ahead), n))
    BY <2>1
  <2>3. /\ b.position + 2 * BufferSize - n - ahead = from + 2 * BufferSize
        /\ b.position - BufferSize <= from /\ from + n <= b.position
    BY <1>1, <1>2, SMTT(30)
  <2>4. Slot(from + 2 * BufferSize) = Slot(from)
    BY <1>2, SlotAround
  <2>5. StringAt(b.buffer, Slot(from), n) = [k \in 1 .. n |-> ByteAt(in, from + k - 1)]
    BY <1>2, <2>3, StringHeld
  <2>6. \A k \in 1 .. n : ByteAt(in, from + k - 1) = in[from + k]
    BY <1>2 DEF ByteAt
  <2>7. [k \in 1 .. n |-> ByteAt(in, from + k - 1)] = [k \in 1 .. n |-> in[from + k]]
    BY <2>6
  <2> HIDE DEF Run
  <2> QED
    BY <2>2, <2>3, <2>4, <2>5, <2>7
<1>9. [k \in 1 .. n |-> in[from + k]] \in Seq(Bytes)
  <2>1. \A k \in 1 .. n : from + k \in 1 .. Len(in)
    BY <1>1, <1>2
  <2>2. \A k \in 1 .. n : in[from + k] \in Bytes
    BY <2>1
  <2> QED
    BY <1>2, <2>2
<1> HIDE DEF Run
<1>10. CASE n = 0
  <2>1. 1 .. 0 = {}
    OBVIOUS
  <2>2. runs = <<>>
    BY <1>5, <1>7, <1>10, <2>1
  <2> QED
    BY <1>3, <1>10, <2>2
<1>11. CASE n > 0
  <2>1. runs = [r \in 1 .. 1 |-> Run(r)]
    BY <1>6, <1>7, <1>11
  <2>2. \A r \in 1 .. 1 : r = 1
    OBVIOUS
  <2>3. [r \in 1 .. 1 |-> Run(r)] = <<Run(1)>>
    BY <2>2
  <2> QED
    BY <1>1, <1>3, <1>8, <1>9, <1>11, <2>1, <2>3
<1> QED
  BY <1>2, <1>10, <1>11

(* So flushing moves the end of the cut up to the pattern.                 *)
LEMMA FlushCuts ==
  ASSUME NEW in \in Seq(Bytes), NEW b \in Buffers, Holds(in, b), b.position <= Len(in),
         NEW n \in 0 .. MaxRun, NEW ahead \in 0 .. MaxEncoding, ahead + n <= b.position,
         NEW blocks, Cut(in, blocks, 0, b.position - ahead - n)
  PROVE  /\ Cut(in, blocks \o FlushUncompressed(b, n, ahead), 0, b.position - ahead)
         /\ Len(blocks \o FlushUncompressed(b, n, ahead)) = Len(blocks) + Len(FlushUncompressed(b, n, ahead))
         /\ FlushUncompressed(b, n, ahead) \in Seq(Blocks)
<1>1. PICK y \in Int : y = b.position - ahead - n
  BY Sizes DEF Buffers
<1>2. PICK z \in Int : z = b.position - ahead
  BY Sizes DEF Buffers
<1>3. /\ n \in Nat /\ z = y + n /\ z <= Len(in) /\ z - y = n
  BY <1>1, <1>2, Sizes DEF Buffers
<1>4. blocks \in Seq(Blocks) /\ Cut(in, blocks, 0, y)
  BY <1>1 DEF Cut
<1>5. CASE n = 0
  <2>1. FlushUncompressed(b, n, ahead) = <<>> /\ y = z
    <3>1. y = z
      BY <1>3, <1>5
    <3>2. n = 0 => FlushUncompressed(b, n, ahead) = <<>>
      BY FlushIs
    <3> QED
      BY <1>5, <3>1, <3>2
  <2>2. blocks \o <<>> = blocks /\ Len(<<>>) = 0 /\ Len(blocks) \in Nat /\ <<>> \in Seq(Blocks)
    BY <1>4, ConcatEmptySeq
  <2> QED
    BY <1>2, <1>4, <2>1, <2>2
<1>6. CASE n > 0
  <2>1. PICK block : block = Literals([k \in 1 .. n |-> in[y + k]])
    OBVIOUS
  <2>2. /\ FlushUncompressed(b, n, ahead) = <<block>>
        /\ [k \in 1 .. n |-> in[y + k]] \in Seq(Bytes)
    <3>1. [k \in 1 .. n |-> in[b.position - ahead - n + k]] = [k \in 1 .. n |-> in[y + k]]
      BY <1>1
    <3>2. /\ FlushUncompressed(b, n, ahead) =
               <<Literals([k \in 1 .. n |-> in[b.position - ahead - n + k]])>>
          /\ [k \in 1 .. n |-> in[b.position - ahead - n + k]] \in Seq(Bytes)
      BY <1>6, FlushIs
    <3> QED
      BY <2>1, <3>1, <3>2
  <2>3. block \in Blocks
    BY <2>1, <2>2 DEF Literals, Blocks
  <2>4. StandsFor(in, block, y, z)
    BY <1>3, <2>1 DEF Literals, StandsFor
  <2>5. y <= z
    BY <1>3
  <2>6. Cut(in, Append(blocks, block), 0, z)
    BY <1>3, <1>4, <2>3, <2>4, <2>5, CutMore
  <2>7. /\ blocks \o <<block>> = Append(blocks, block) /\ Len(<<block>>) = 1
        /\ Len(Append(blocks, block)) = Len(blocks) + 1 /\ <<block>> \in Seq(Blocks)
    BY <1>4, <2>3
  <2> QED
    BY <1>2, <2>2, <2>6, <2>7
<1> QED
  BY <1>3, <1>5, <1>6

(* Copying what the input itself repeats gives more of the input.          *)
LEMMA ReplyIs ==
  ASSUME NEW in \in Seq(Bytes), NEW from \in Nat, NEW n \in Nat, NEW back \in Nat \ {0},
         from + n <= Len(in), NEW bytes, bytes = Prefix(in, from),
         Repeats(in, from, from + n, back)
  PROVE  Reply(bytes, back, n) = Prefix(in, from + n)
<1> DEFINE Copied(f) == f = [i \in 1 .. from + n |->
                               IF i <= from THEN bytes[i] ELSE IF back >= i THEN 0 ELSE f[i - back]]
<1>0. bytes = [i \in 1 .. from |-> in[i]]
  BY DEF Prefix
<1>1. PICK g : g = [i \in 1 .. from + n |-> in[i]]
  OBVIOUS
<1>2. Len(bytes) = from
  <2>1. \A i \in 1 .. from : in[i] \in Bytes
    OBVIOUS
  <2>2. bytes \in Seq(Bytes)
    BY <1>0, <2>1
  <2> QED
    BY <1>0, <2>2
<1>3. ASSUME NEW i \in 1 .. from + n
      PROVE  in[i] = IF i <= from THEN bytes[i] ELSE IF back >= i THEN 0 ELSE in[i - back]
  <2>1. CASE i <= from
    BY <1>0, <2>1
  <2>2. CASE ~ (i <= from)
    <3>1. i - 1 \in from .. from + n - 1
      BY <2>2
    <3>2. ByteAt(in, i - 1) = ByteAt(in, i - 1 - back)
      BY <3>1 DEF Repeats
    <3>3. ByteAt(in, i - 1) = in[i]
      BY <2>2 DEF ByteAt
    <3>4. ByteAt(in, i - 1 - back) = IF back >= i THEN 0 ELSE in[i - back]
      BY DEF ByteAt
    <3> QED
      BY <2>2, <3>2, <3>3, <3>4
  <2> QED
    BY <2>1, <2>2
<1>4. Copied(g)
  <2>1. PICK h : h = [i \in 1 .. from + n |->
                        IF i <= from THEN bytes[i] ELSE IF back >= i THEN 0 ELSE g[i - back]]
    OBVIOUS
  <2>2. ASSUME NEW i \in 1 .. from + n PROVE g[i] = h[i]
    <3>1. back < i => i - back \in 1 .. from + n
      OBVIOUS
    <3> QED
      BY <1>1, <1>3, <2>1, <3>1
  <2>3. g = [i \in 1 .. from + n |-> g[i]] /\ h = [i \in 1 .. from + n |-> h[i]]
    BY <1>1, <2>1
  <2>4. g = h
    BY <2>2, <2>3
  <2> QED
    BY <2>1, <2>4
<1>5. PICK f : f = CHOOSE f_1 : Copied(f_1)
  OBVIOUS
<1>6. Copied(f)
  BY <1>4, <1>5
<1>7. \A i \in 1 .. from + n :
        f[i] = IF i <= from THEN bytes[i] ELSE IF back >= i THEN 0 ELSE f[i - back]
  BY <1>6, Zenon
<1>8. Reply(bytes, back, n) = f
  BY <1>2, <1>5 DEF Reply
<1> DEFINE T == {i \in 1 .. from + n : f[i] # in[i]}
<1>9. T = {}
  <2> SUFFICES ASSUME T # {} PROVE FALSE
    OBVIOUS
  <2>1. PICK i \in T : \A y \in T : i <= y
    <3>1. T \subseteq Nat
      OBVIOUS
    <3> HIDE DEF T
    <3> QED
      BY <3>1, LeastNat
  <2>2. i \in 1 .. from + n /\ f[i] # in[i]
    BY <2>1
  <2>3. f[i] = IF i <= from THEN bytes[i] ELSE IF back >= i THEN 0 ELSE f[i - back]
    BY <1>7, <2>2
  <2>4. in[i] = IF i <= from THEN bytes[i] ELSE IF back >= i THEN 0 ELSE in[i - back]
    BY <1>3, <2>2
  <2>5. ~ (i <= from) /\ back < i /\ f[i - back] # in[i - back]
    BY <2>2, <2>3, <2>4
  <2>6. i - back \in 1 .. from + n /\ ~ (i <= i - back)
    BY <2>2, <2>5
  <2> QED
    BY <2>1, <2>5, <2>6
<1>10. f = [i \in 1 .. from + n |-> f[i]]
  <2>1. PICK h : h = [i \in 1 .. from + n |->
                        IF i <= from THEN bytes[i] ELSE IF back >= i THEN 0 ELSE f[i - back]]
    OBVIOUS
  <2>2. f = h
    BY <1>6, <2>1
  <2>3. h = [i \in 1 .. from + n |-> h[i]]
    BY <2>1
  <2> QED
    BY <2>2, <2>3
<1>11. \A i \in 1 .. from + n : f[i] = in[i]
  BY <1>9
<1>12. f = [i \in 1 .. from + n |-> in[i]]
  BY <1>10, <1>11
<1> QED
  BY <1>8, <1>12 DEF Prefix

-----------------------------------------------------------------------------
(* Packing and unpacking                                                   *)

(* As long as no ASSERT was false, the blocks cut up the input as far as   *)
(* it is decided on; then what is left of them completes what they gave.   *)
OutputInv ==
  AllFaults = {} =>
    /\ pc = "encode" => Cut(input, output, 0, sb.position - forward - toCopy)
    /\ pc \in {"start", "encode"} => decoded = <<>>
    /\ pc \in {"encode", "decode"} => blockCount = Len(output)
    /\ pc = "decode" => \E d \in 0 .. Len(input) : /\ decoded = Prefix(input, d)
                                                   /\ Cut(input, output, d, Len(input))
    /\ pc = "done" => decoded = input
    /\ pc # "garbled"

PackerInv == EncoderInv /\ OutputInv

LEMMA OutputInit == Init => OutputInv
  BY DEF Init, OutputInv

LEMMA StartOutput ==
  ASSUME PackerInv, StartEncode
  PROVE  OutputInv'
<1> USE DEF PackerInv
<1>1. /\ pc = "start" /\ pc' = "encode" /\ input' = input /\ output = <<>> /\ output' = output
      /\ blockCount' = blockCount /\ blockCount = 0 /\ decoded' = decoded /\ decoded = <<>>
      /\ toCopy' = 0 /\ sb.position = 0
  BY NewTyped DEF StartEncode, EncoderInv, NotStarted
<1>2. input \in Seq(Bytes) /\ Len(input) \in Nat
  BY DEF EncoderInv, EncoderTypes
<1>3. PICK n : n = Lesser(MaxEncoding, Len(input))
  OBVIOUS
<1>4. n \in Nat /\ n <= Len(input)
  BY <1>2, <1>3, Sizes DEF Lesser
<1>5. PICK w : w = WriteFromInput(sb, n)
  OBVIOUS
<1>6. w.position = sb.position + n
  BY <1>1, <1>4, <1>5, ReadKeeps DEF EncoderInv, EncoderTypes
<1>7. forward' = n /\ sb' = w
  BY <1>3, <1>5 DEF StartEncode
<1>8. sb'.position - forward' - toCopy' = 0 /\ 0 \in 0 .. Len(input)
  BY <1>1, <1>2, <1>4, <1>6, <1>7
<1>9. Cut(input, <<>>, 0, 0)
  BY <1>2, <1>8, CutNone
<1>10. Len(<<>>) = 0
  OBVIOUS
<1> QED
  BY <1>1, <1>8, <1>9, <1>10 DEF OutputInv

LEMMA LiteralOutput ==
  ASSUME PackerInv, EncodeLiteral, AllFaults' = {}
  PROVE  OutputInv'
<1> USE DEF PackerInv
<1>1. pc = "encode" /\ pc' = "encode" /\ input' = input /\ decoded' = decoded /\ faults' = faults
  BY DEF EncodeLiteral, Encoding
<1>2. /\ input \in Seq(Bytes) /\ forward \in Nat /\ toCopy \in Nat /\ toCopy < MaxRun
      /\ forward + toCopy <= sb.position /\ sb.position \in Nat /\ Len(input) \in Nat
  BY Sizes DEF EncoderInv, EncoderTypes, Buffers
<1>3. PICK b : b = sb'
  OBVIOUS
<1>4. PICK f : f = forward'
  OBVIOUS
<1>5. /\ b \in Buffers /\ b.position <= Len(input) /\ Holds(input, b) /\ f \in 0 .. MaxEncoding
      /\ b.position - f = sb.position - forward + 1 /\ sb.faults \subseteq b.faults
  BY <1>3, <1>4, LiteralFacts
<1>6. AllFaults = {}
  BY <1>1, <1>3, <1>5 DEF AllFaults
<1>7. /\ Cut(input, output, 0, sb.position - forward - toCopy) /\ decoded = <<>>
      /\ blockCount = Len(output)
  BY <1>1, <1>6 DEF OutputInv
<1>8. b.position \in Nat /\ f \in Nat
  BY <1>5, Sizes DEF Buffers
<1>9. CASE toCopy + 1 >= MaxRun
  <2>1. PICK n : n = toCopy + 1
    OBVIOUS
  <2>2. n \in 0 .. MaxRun /\ f + n <= b.position /\ b.position - f - n = sb.position - forward - toCopy
    <3>1. n \in Nat /\ n <= MaxRun
      BY <1>2, <2>1, Sizes
    <3>2. /\ b.position \in Int /\ f \in Int /\ sb.position \in Int /\ forward \in Int /\ toCopy \in Int
          /\ forward + toCopy <= sb.position
      BY <1>2, <1>8
    <3>3. b.position - f = sb.position - forward + 1
      BY <1>5
    <3>4. f + n <= b.position /\ b.position - f - n = sb.position - forward - toCopy
      BY <2>1, <3>2, <3>3
    <3> QED
      BY <3>1, <3>4, Sizes
  <2>3. PICK runs : runs = FlushUncompressed(b, n, f)
    OBVIOUS
  <2>4. /\ Cut(input, output \o runs, 0, b.position - f)
        /\ Len(output \o runs) = Len(output) + Len(runs)
    BY <1>2, <1>5, <1>7, <2>2, <2>3, FlushCuts
  <2>5. output' = output \o runs /\ blockCount' = blockCount + Len(runs) /\ toCopy' = 0
    BY <1>2, <1>3, <1>4, <1>9, <2>1, <2>3, Sizes DEF EncodeLiteral
  <2>6. sb'.position - forward' - toCopy' = b.position - f
    BY <1>3, <1>4, <1>8, <2>5
  <2> QED
    BY <1>1, <1>7, <2>4, <2>5, <2>6 DEF OutputInv
<1>10. CASE ~ (toCopy + 1 >= MaxRun)
  <2>1. toCopy' = toCopy + 1 /\ output' = output /\ blockCount' = blockCount
    BY <1>2, <1>10, Sizes DEF EncodeLiteral
  <2>2. sb'.position - forward' - toCopy' = sb.position - forward - toCopy
    BY <1>2, <1>3, <1>4, <1>5, <1>8, <2>1, SMTT(30)
  <2> QED
    BY <1>1, <1>7, <2>1, <2>2 DEF OutputInv
<1> QED
  BY <1>9, <1>10

LEMMA MatchOutput ==
  ASSUME PackerInv, EncodeMatch, AllFaults' = {}
  PROVE  OutputInv'
<1> USE DEF PackerInv
<1>1. pc = "encode" /\ pc' = "encode" /\ input' = input /\ decoded' = decoded /\ toCopy' = 0
  BY DEF EncodeMatch, Encoding
<1>2. /\ input \in Seq(Bytes) /\ forward \in 0 .. MaxEncoding /\ forward \in Nat
      /\ toCopy \in Nat /\ toCopy \in 0 .. MaxRun
      /\ forward + toCopy <= sb.position /\ sb.position \in Nat /\ sb.position <= Len(input)
      /\ Len(input) \in Nat
  BY Sizes DEF EncoderInv, EncoderTypes, Buffers
<1>3. PICK slot \in Matches(Current, Slot(PatternPosition), forward) :
        LET reference == PatternPosition - AbsolutePosition(Current, slot)
            runs == FlushUncompressed(Current, toCopy, forward)
        IN /\ faults' = faults \cup Broken(reference <= WindowSize, "referenceTooFar")
                               \cup Broken(reference >= MinRef, "referenceTooNear")
           /\ output' = output \o Append(runs, Reference(Pack(reference, Found)))
           /\ blockCount' = blockCount + Len(runs) + 1
  BY DEF EncodeMatch
<1>4. PICK c : c = Current
  OBVIOUS
<1>5. c \in Buffers /\ c.position = sb.position /\ Holds(input, c)
  BY <1>1, <1>4, CurrentIs
<1>6. PICK a : a = AbsolutePosition(Current, slot)
  OBVIOUS
<1>7. PICK q : q = PatternPosition
  OBVIOUS
<1>8. PICK found : found = Found
  OBVIOUS
<1>9. /\ q \in Nat /\ q = sb.position - forward /\ found \in MinLen .. forward /\ a \in Int
      /\ a <= q => \A k \in 1 .. found : ByteAt(input, q + k - 1) = ByteAt(input, a + k - 1)
  BY <1>6, <1>7, <1>8, MatchFacts DEF EncodeMatch
<1>10. PICK back : back = q - a
  OBVIOUS
<1>11. faults' = {}
  BY DEF AllFaults
<1>12. back \in MinRef .. WindowSize
  <2>1. Broken(back <= WindowSize, "referenceTooFar") = {} /\ Broken(back >= MinRef, "referenceTooNear") = {}
    BY <1>3, <1>6, <1>7, <1>10, <1>11
  <2>2. back <= WindowSize /\ back >= MinRef
    BY <2>1 DEF Broken
  <2> QED
    BY <1>9, <1>10, <2>2, Sizes
<1>13. found \in MinLen .. MaxEncoding /\ found \in Nat /\ found <= forward
  BY <1>2, <1>9, Sizes
<1>14. PICK word : word = Pack(back, found)
  OBVIOUS
<1>15. /\ word \in Nat /\ word < TopBit /\ (word % RefValues) + MinRef = back
       /\ (word \div RefValues) + MinLen = found
  BY <1>12, <1>13, <1>14, PackIs
<1>16. AllFaults = {}
  BY <1>3, MatchKeeps DEF AllFaults
<1>17. /\ Cut(input, output, 0, c.position - forward - toCopy) /\ decoded = <<>>
       /\ blockCount = Len(output)
  BY <1>1, <1>5, <1>16 DEF OutputInv
<1>18. PICK runs : runs = FlushUncompressed(c, toCopy, forward)
  OBVIOUS
<1>19. /\ Cut(input, output \o runs, 0, q) /\ Len(output \o runs) = Len(output) + Len(runs)
       /\ runs \in Seq(Blocks) /\ output \in Seq(Blocks)
  <2>1. /\ Cut(input, output \o runs, 0, c.position - forward)
        /\ Len(output \o runs) = Len(output) + Len(runs) /\ runs \in Seq(Blocks)
    <3>1. forward + toCopy <= c.position /\ c.position <= Len(input)
      BY <1>2, <1>5
    <3> QED
      BY <1>2, <1>5, <1>17, <1>18, <3>1, FlushCuts
  <2>2. c.position - forward = q
    BY <1>5, <1>9
  <2> QED
    BY <1>17, <2>1, <2>2 DEF Cut
<1>20. PICK block : block = Reference(word)
  OBVIOUS
<1>21. block \in Blocks /\ block.kind = "reference" /\ block.word = word
  BY <1>15, <1>20 DEF Reference, Blocks
<1>22. StandsFor(input, block, q, q + found)
  <2>1. PICK z : z = q + found
    OBVIOUS
  <2>2. z \in Int /\ z - q = found
    BY <1>9, <1>13, <2>1
  <2>3. ASSUME NEW i \in q .. z - 1
        PROVE  ByteAt(input, i) = ByteAt(input, i - back)
    <3>1. a <= q /\ i \in Int
      BY <1>9, <1>10, <1>12, <2>2, Sizes
    <3>2. PICK k \in 1 .. found : i = q + k - 1
      <4>1. i - q + 1 \in 1 .. found /\ i = q + (i - q + 1) - 1
        BY <1>9, <1>13, <2>1
      <4> QED
        BY <4>1
    <3>3. i - back = a + k - 1
      BY <1>9, <1>10, <3>2
    <3> QED
      BY <1>9, <3>1, <3>2, <3>3
  <2>4. Repeats(input, q, z, back)
    BY <2>3, Zenon DEF Repeats
  <2>5. back = (block.word % RefValues) + MinRef
    BY <1>15, <1>21
  <2>6. Repeats(input, q, z, (block.word % RefValues) + MinRef)
    BY <2>4, <2>5, Zenon
  <2>7. z - q = (block.word \div RefValues) + MinLen /\ block.word < TopBit
    BY <1>15, <1>21, <2>2
  <2>8. StandsFor(input, block, q, z)
    BY <1>21, <2>6, <2>7, Zenon DEF StandsFor
  <2> QED
    BY <2>1, <2>8
<1>23. Cut(input, Append(output \o runs, block), 0, q + found)
  <2>1. q + found \in Int /\ q <= q + found /\ q + found <= Len(input) /\ q \in Int
    BY <1>2, <1>9, <1>13
  <2> QED
    BY <1>2, <1>19, <1>21, <1>22, <2>1, CutMore
<1>24. output \o Append(runs, block) = Append(output \o runs, block)
  BY <1>19, <1>21
<1>25. output' = Append(output \o runs, block) /\ blockCount' = blockCount + Len(runs) + 1
  BY <1>3, <1>4, <1>6, <1>7, <1>8, <1>10, <1>14, <1>18, <1>20, <1>24
<1>26. Len(output') = Len(output) + Len(runs) + 1
  <2>1. output \o runs \in Seq(Blocks)
    BY <1>19
  <2> QED
    BY <1>19, <1>21, <1>25, <2>1
<1>27. sb'.position - forward' - toCopy' = q + found
  <2>1. sb'.position - forward' = sb.position - forward + Found
    BY MatchKeeps
  <2>2. sb'.position - forward' = q + found
    BY <1>8, <1>9, <2>1
  <2> QED
    BY <1>1, <1>9, <1>13, <2>2
<1> QED
  BY <1>1, <1>17, <1>23, <1>25, <1>26, <1>27 DEF OutputInv

LEMMA EndEncodeOutput ==
  ASSUME PackerInv, EndEncode, AllFaults' = {}
  PROVE  OutputInv'
<1> USE DEF PackerInv
<1>1. /\ pc = "encode" /\ pc' = "decode" /\ input' = input /\ decoded' = decoded /\ forward = 0
      /\ sb' = sb /\ faults' = faults
  BY DEF EndEncode
<1>2. /\ input \in Seq(Bytes) /\ sb \in Buffers /\ Holds(input, sb) /\ sb.position <= Len(input)
      /\ toCopy \in Nat /\ toCopy \in 0 .. MaxRun /\ toCopy <= sb.position
      /\ sb.position \in Nat /\ Len(input) \in Nat
  BY <1>1, Sizes DEF EncoderInv, EncoderTypes, Buffers
<1>3. sb.position = Len(input)
  <2>1. ~ (InputLeft(sb) > 0)
    BY <1>1, Sizes DEF EncoderInv, FullUntilEnd
  <2> QED
    BY <1>2, <2>1 DEF InputLeft
<1>4. AllFaults = {}
  BY <1>1 DEF AllFaults
<1>5. /\ Cut(input, output, 0, sb.position - 0 - toCopy) /\ decoded = <<>>
      /\ blockCount = Len(output)
  BY <1>1, <1>4 DEF OutputInv
<1>6. PICK runs : runs = FlushUncompressed(sb, toCopy, 0)
  OBVIOUS
<1>7. Cut(input, output \o runs, 0, sb.position - 0) /\ Len(output \o runs) = Len(output) + Len(runs)
  <2>1. 0 \in 0 .. MaxEncoding /\ 0 + toCopy <= sb.position
    BY <1>2, Sizes
  <2> QED
    BY <1>2, <1>5, <1>6, <2>1, FlushCuts
<1>8. output' = output \o runs /\ blockCount' = blockCount + Len(runs)
  BY <1>1, <1>6 DEF EndEncode
<1>9. Cut(input, output', 0, Len(input)) /\ 0 \in 0 .. Len(input)
  <2>1. sb.position - 0 = Len(input)
    BY <1>2, <1>3
  <2> QED
    BY <1>2, <1>7, <1>8, <2>1
<1>10. decoded' = Prefix(input, 0)
  <2>1. 1 .. 0 = {}
    OBVIOUS
  <2> QED
    BY <1>1, <1>5, <2>1 DEF Prefix
<1> QED
  BY <1>1, <1>5, <1>7, <1>8, <1>9, <1>10 DEF OutputInv

LEMMA DecodeOutput ==
  ASSUME PackerInv, DecodeBlock, AllFaults' = {}
  PROVE  OutputInv'
<1> USE DEF PackerInv
<1>1. /\ pc = "decode" /\ input' = input /\ sb' = sb /\ faults' = faults /\ output # <<>>
      /\ output' = Tail(output) /\ blockCount' = blockCount - 1
  BY DEF DecodeBlock
<1>2. AllFaults = {} /\ input \in Seq(Bytes) /\ Len(input) \in Nat
  BY <1>1 DEF AllFaults, EncoderInv, EncoderTypes
<1>3. PICK d \in 0 .. Len(input) : /\ decoded = Prefix(input, d)
                                   /\ Cut(input, output, d, Len(input))
  BY <1>1, <1>2 DEF OutputInv
<1>4. PICK y \in 0 .. Len(input) : /\ d <= y /\ StandsFor(input, Head(output), d, y)
                                   /\ Cut(input, Tail(output), y, Len(input))
  BY <1>1, <1>2, <1>3, CutHead
<1>5. PICK block : block = Head(output)
  OBVIOUS
<1>6. PICK n : n = y - d
  OBVIOUS
<1>7. n \in Nat /\ d \in Nat /\ y = d + n /\ d + n <= Len(input)
  BY <1>2, <1>4, <1>6
<1>8. /\ output \in Seq(Blocks) /\ block \in Blocks
  BY <1>1, <1>3, <1>5, HeadTailProperties DEF Cut
<1>9. CASE block.kind = "literals"
  <2>1. block.bytes = [k \in 1 .. n |-> input[d + k]]
    BY <1>4, <1>5, <1>6, <1>9 DEF StandsFor
  <2>2. decoded' = decoded \o block.bytes /\ pc' = "decode"
    BY <1>1, <1>5, <1>9 DEF DecodeBlock
  <2>3. Len(decoded) = d /\ Len(block.bytes) = n
    BY <1>3, <1>7, <2>1 DEF Prefix
  <2>4. decoded \o block.bytes = Prefix(input, d + n)
    <3>0. decoded = [i \in 1 .. d |-> input[i]]
      BY <1>3 DEF Prefix
    <3>1. PICK s : s = decoded \o block.bytes
      OBVIOUS
    <3>2. s = [i \in 1 .. d + n |-> IF i <= d THEN decoded[i] ELSE block.bytes[i - d]]
      BY <2>3, <3>1, SMTT(30)
    <3>3. ASSUME NEW i \in 1 .. d + n PROVE s[i] = input[i]
      <4>1. CASE i <= d
        <5>1. i \in 1 .. d
          BY <1>7, <4>1
        <5> QED
          BY <3>0, <3>2, <4>1, <5>1
      <4>2. CASE ~ (i <= d)
        <5>1. i - d \in 1 .. n /\ d + (i - d) = i
          BY <1>7, <4>2
        <5> QED
          BY <2>1, <3>2, <4>2, <5>1
      <4> QED
        BY <4>1, <4>2
    <3>4. s = [i \in 1 .. d + n |-> s[i]]
      BY <3>2
    <3>5. s = [i \in 1 .. d + n |-> input[i]]
      BY <3>3, <3>4
    <3> QED
      BY <3>1, <3>5 DEF Prefix
  <2>5. decoded' = Prefix(input, y)
    BY <1>7, <2>2, <2>4
  <2> QED
    BY <1>1, <1>2, <1>4, <1>8, <2>2, <2>5, HeadTailProperties DEF OutputInv
<1>10. CASE block.kind # "literals"
  <2>1. /\ block.kind = "reference" /\ block.word < TopBit /\ block.word \in Nat
        /\ n = (block.word \div RefValues) + MinLen
        /\ Repeats(input, d, y, (block.word % RefValues) + MinRef)
    BY <1>4, <1>5, <1>6, <1>8, <1>10 DEF StandsFor, Blocks
  <2>2. PICK back : back = (block.word % RefValues) + MinRef
    OBVIOUS
  <2>3. back \in Nat \ {0}
    <3>1. PICK r \in Int : r = block.word % RefValues /\ 0 <= r
      <4>1. block.word \in Int /\ RefValues \in Nat \ {0}
        BY <2>1, SizesAssumption
      <4> QED
        BY <4>1, DivMod
    <3> QED
      BY <2>2, <3>1, Sizes
  <2>4. ~ (block.word >= TopBit)
    BY <2>1, SizesAssumption DEF TopBit
  <2>5. decoded' = Reply(decoded, back, n) /\ pc' = "decode"
    BY <1>1, <1>5, <1>10, <2>1, <2>2, <2>4 DEF DecodeBlock
  <2>6. Repeats(input, d, d + n, back)
    BY <1>7, <2>1, <2>2
  <2>7. Reply(decoded, back, n) = Prefix(input, d + n)
    <3>1. d \in Nat /\ n \in Nat /\ d + n <= Len(input) /\ input \in Seq(Bytes)
      BY <1>2, <1>7
    <3> QED
      BY <1>3, <2>3, <2>6, <3>1, ReplyIs
  <2>8. decoded' = Prefix(input, y)
    BY <1>7, <2>5, <2>7
  <2> QED
    BY <1>1, <1>2, <1>4, <1>8, <2>5, <2>8, HeadTailProperties DEF OutputInv
<1> QED
  BY <1>9, <1>10

LEMMA EndDecodeOutput ==
  ASSUME PackerInv, EndDecode, AllFaults' = {}
  PROVE  OutputInv'
<1> USE DEF PackerInv
<1>1. /\ pc = "decode" /\ input' = input /\ sb' = sb /\ faults' = faults /\ decoded' = decoded
      /\ blockCount = 0 \/ output = <<>>
      /\ pc' = IF blockCount = 0 THEN "done" ELSE "garbled"
  BY DEF EndDecode
<1>2. AllFaults = {} /\ input \in Seq(Bytes)
  BY <1>1 DEF AllFaults, EncoderInv, EncoderTypes
<1>3. /\ blockCount = Len(output)
      /\ \E d \in 0 .. Len(input) : /\ decoded = Prefix(input, d)
                                    /\ Cut(input, output, d, Len(input))
  BY <1>1, <1>2 DEF OutputInv
<1>4. PICK d \in 0 .. Len(input) : /\ decoded = Prefix(input, d)
                                   /\ Cut(input, output, d, Len(input))
  BY <1>3
<1>5. output = <<>> /\ blockCount = 0
  <2>1. output \in Seq(Blocks)
    BY <1>4 DEF Cut
  <2> QED
    BY <1>1, <1>3, <2>1, EmptySeq
<1>6. d = Len(input)
  BY <1>4, <1>5, CutAll
<1>7. decoded = input
  <2>1. input = [i \in 1 .. Len(input) |-> input[i]]
    BY <1>2
  <2> QED
    BY <1>4, <1>6, <2>1 DEF Prefix
<1> QED
  BY <1>1, <1>5, <1>7 DEF OutputInv

LEMMA PackerStep == PackerInv /\ [Next]_vars => PackerInv'
<1> SUFFICES ASSUME PackerInv, [Next]_vars PROVE PackerInv'
  OBVIOUS
<1>1. EncoderInv'
  BY EncoderStep DEF PackerInv
<1>2. OutputInv'
  <2>1. CASE ~ (AllFaults' = {})
    BY <2>1 DEF OutputInv
  <2>2. CASE AllFaults' = {} /\ Next
    BY <2>2, StartOutput, LiteralOutput, MatchOutput, EndEncodeOutput, DecodeOutput, EndDecodeOutput DEF Next
  <2>3. CASE UNCHANGED vars
    <3>1. /\ AllFaults' = AllFaults /\ input' = input /\ pc' = pc /\ sb' = sb /\ forward' = forward
          /\ toCopy' = toCopy /\ output' = output /\ blockCount' = blockCount /\ decoded' = decoded
      BY <2>3 DEF AllFaults, vars
    <3> QED
      BY <3>1 DEF PackerInv, OutputInv
  <2> QED
    BY <2>1, <2>2, <2>3
<1> QED
  BY <1>1, <1>2 DEF PackerInv

(* Unless an ASSERT of the encoder was false, decode gives back the input, *)
(* for every input and whichever of the longest matches find returns.      *)
THEOREM AssertsSuffice == Spec => []AssertionsGuardOutput
<1>1. Init => PackerInv
  BY EncoderInit, OutputInit DEF PackerInv
<1>2. PackerInv => AssertionsGuardOutput
  BY DEF PackerInv, OutputInv, AssertionsGuardOutput, Finished
<1> QED
  BY <1>1, <1>2, PackerStep, PTL DEF Spec
=============================================================================
