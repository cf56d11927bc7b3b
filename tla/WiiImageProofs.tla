--------------------------- MODULE WiiImageProofs ---------------------------
(***************************************************************************)
(* Proofs about the writes to a partition of WiiImage, for any number of   *)
(* clusters, subgroups and units, and any ranges of bytes written.         *)
(***************************************************************************)
EXTENDS WiiImage, FiniteSetTheorems, TLAPS

-----------------------------------------------------------------------------
(* Clusters, subgroups and groups                                          *)

Rows == 0 .. Sub - 1
Columns == 0 .. Units - 1
Row(c) == (c \div Sub) * Sub      \* the first cluster of its subgroup

LEMMA Division ==
  ASSUME NEW a \in Nat, NEW b \in Nat \ {0}
  PROVE  /\ a \div b \in Nat /\ a % b \in 0 .. b - 1 /\ a = (a \div b) * b + (a % b)
         /\ (a \div b) * b <= a /\ a < (a \div b + 1) * b
OBVIOUS

LEMMA Quotient ==
  ASSUME NEW b \in Nat \ {0}, NEW k \in Nat, NEW r \in 0 .. b - 1
  PROVE  /\ k * b + r \in Nat /\ (k * b + r) \div b = k /\ (k * b + r) % b = r
<1>1. k * b \in Nat
  OBVIOUS
<1>2. PICK a \in Nat : a = k * b + r
  BY <1>1
<1>3. a \div b = k /\ a % b = r
  BY <1>2
<1> QED
  BY <1>2, <1>3

LEMMA Between ==
  ASSUME NEW a \in Nat, NEW b \in Nat \ {0}, NEW k \in Nat
  PROVE  a \div b = k <=> k * b <= a /\ a < (k + 1) * b
OBVIOUS

LEMMA Sizes == Sub \in Nat \ {0} /\ Count \in Nat \ {0} /\ Units \in Nat \ {0} /\ Group \in Nat \ {0}
BY SizesAssumption DEF Group

LEMMA GroupBounds ==
  ASSUME NEW c \in Clusters, NEW g, GroupOf(c) = g
  PROVE  g \in Groups /\ g \in Nat /\ c \in InGroup(g) /\ g * Group <= c /\ c < (g + 1) * Group
<1>1. c \in Nat
  BY Sizes DEF Clusters
<1> QED
  BY <1>1, Sizes, Division DEF GroupOf, Groups, InGroup

LEMMA GroupRange ==
  ASSUME NEW g \in Groups
  PROVE  /\ g \in Nat /\ g * Group \in Nat /\ (g + 1) * Group = g * Group + Group
         /\ \A c : c \in InGroup(g) <=> c \in Nat /\ g * Group <= c /\ c < g * Group + Group /\ c < Count
         /\ g * Group \in InGroup(g)
         /\ InGroup(g) \subseteq Clusters
<1>1. PICK d \in Clusters : g = GroupOf(d)
  BY DEF Groups
<1>2. g \in Nat /\ g * Group <= d /\ d < (g + 1) * Group
  BY <1>1, GroupBounds
<1>3. g * Group \in Nat /\ (g + 1) * Group = g * Group + Group
  BY <1>2, Sizes
<1>4. \A c \in Nat : GroupOf(c) = g <=> g * Group <= c /\ c < g * Group + Group
  BY <1>2, <1>3, Sizes, Between DEF GroupOf
<1>5. \A c : c \in Clusters <=> c \in Nat /\ c < Count
  BY Sizes DEF Clusters
<1>6. \A c : c \in InGroup(g) <=> c \in Nat /\ g * Group <= c /\ c < g * Group + Group /\ c < Count
  BY <1>4, <1>5 DEF InGroup
<1>7. g * Group \in InGroup(g)
  <2>1. g * Group < Count /\ g * Group < g * Group + Group
    BY <1>1, <1>2, <1>3, <1>5, Sizes
  <2> QED
    BY <1>3, <1>6, <2>1
<1> QED
  BY <1>2, <1>3, <1>6, <1>7 DEF InGroup

LEMMA GroupSize ==
  ASSUME NEW g \in Groups
  PROVE  /\ Cardinality(InGroup(g)) \in Nat
         /\ \A k \in Nat : k < Cardinality(InGroup(g)) => g * Group + k \in InGroup(g)
<1>1. /\ g * Group \in Nat
      /\ \A c : c \in InGroup(g) <=> c \in Nat /\ g * Group <= c /\ c < g * Group + Group /\ c < Count
      /\ g * Group \in InGroup(g)
  BY GroupRange
<1>2. PICK b \in Nat : b = g * Group
  BY <1>1
<1>3. PICK top \in Nat : top = (IF b + Group <= Count THEN b + Group - 1 ELSE Count - 1) /\ b <= top
  BY <1>1, <1>2, Sizes
<1>4. InGroup(g) = b .. top
  <2>1. \A c : c \in InGroup(g) <=> c \in b .. top
    BY <1>1, <1>2, <1>3, Sizes
  <2> QED
    BY <2>1
<1>5. Cardinality(b .. top) = top - b + 1
  <2>1. b \in Int /\ top \in Int /\ ~(b > top)
    BY <1>2, <1>3
  <2> QED
    BY <2>1, FS_Interval
<1> QED
  BY <1>2, <1>3, <1>4, <1>5

(* All the clusters of a full group exist.                                 *)
LEMMA FullGroup ==
  ASSUME NEW g \in FullGroups
  PROVE  /\ g \in Groups /\ g * Group + Group <= Count
         /\ \A k \in 0 .. Group - 1 : g * Group + k \in InGroup(g)
<1>1. g \in Groups /\ Cardinality(InGroup(g)) = Group
  BY DEF FullGroups
<1>2. /\ g * Group \in Nat
      /\ \A c : c \in InGroup(g) <=> c \in Nat /\ g * Group <= c /\ c < g * Group + Group /\ c < Count
      /\ g * Group \in InGroup(g)
  BY <1>1, GroupRange
<1>3. PICK b \in Nat : b = g * Group
  BY <1>2
<1>4. b + Group <= Count
  <2>1. SUFFICES ASSUME Count < b + Group PROVE FALSE
    BY <1>3, Sizes
  <2>2. b < Count
    BY <1>2, <1>3
  <2>3. InGroup(g) = b .. Count - 1
    <3>1. \A c : c \in InGroup(g) <=> c \in b .. Count - 1
      BY <1>2, <1>3, <2>1, <2>2, Sizes
    <3> QED
      BY <3>1
  <2>4. Cardinality(b .. Count - 1) = Count - b
    <3>1. b \in Int /\ Count - 1 \in Int /\ ~(b > Count - 1) /\ (Count - 1) - b + 1 = Count - b
      BY <2>2, Sizes
    <3> QED
      BY <3>1, FS_Interval
  <2> QED
    BY <1>1, <2>1, <2>3, <2>4, Sizes
<1>5. \A k \in 0 .. Group - 1 : b + k \in InGroup(g)
  <2>1. \A k \in 0 .. Group - 1 : b + k \in Nat /\ b <= b + k /\ b + k < b + Group /\ b + k < Count
    BY <1>4, Sizes
  <2> QED
    BY <1>2, <1>3, <2>1
<1> QED
  BY <1>1, <1>3, <1>4, <1>5

(* Where the clusters of a full group are in it.                           *)
LEMMA FullRows ==
  ASSUME NEW g \in FullGroups
  PROVE  /\ \A i, j \in Rows : FirstOf(g, i) + j \in InGroup(g)
         /\ \A i \in Rows : FirstOf(g, i) \in InGroup(g) /\ Row(FirstOf(g, i)) = FirstOf(g, i)
         /\ \A c \in InGroup(g) : (c % Group) \div Sub \in Rows
                                  /\ Row(c) = FirstOf(g, (c % Group) \div Sub)
         /\ \A c \in InGroup(g), j \in Rows : Row(c) + j \in InGroup(g)
<1>1. g \in Groups /\ g \in Nat /\ g * Group \in Nat /\ Group = Sub * Sub
  BY FullGroup, GroupRange DEF Group
<1>2. \A k \in 0 .. Group - 1 : g * Group + k \in InGroup(g)
  BY FullGroup
<1>3. \A i, j \in Rows : i * Sub + j \in 0 .. Group - 1 /\ i * Sub \in 0 .. Group - 1
  <2> SUFFICES ASSUME NEW i \in Rows, NEW j \in Rows
               PROVE  i * Sub + j \in 0 .. Group - 1 /\ i * Sub \in 0 .. Group - 1
    OBVIOUS
  <2>1. i \in Nat /\ i + 1 <= Sub /\ j \in Nat /\ j + 1 <= Sub
    BY Sizes DEF Rows
  <2>2. i * Sub \in Nat /\ (i + 1) * Sub <= Sub * Sub /\ (i + 1) * Sub = i * Sub + Sub
    BY <2>1, Sizes
  <2> QED
    BY <1>1, <2>1, <2>2, Sizes
<1>4. \A i, j \in Rows : FirstOf(g, i) + j \in InGroup(g) /\ FirstOf(g, i) \in InGroup(g)
  <2>1. \A i, j \in Rows : /\ g * Group + (i * Sub + j) \in InGroup(g) /\ g * Group + i * Sub \in InGroup(g)
                           /\ i * Sub \in Nat /\ j \in Nat
    BY <1>2, <1>3, Sizes DEF Rows
  <2>2. \A i, j \in Rows : g * Group + (i * Sub + j) = (g * Group + i * Sub) + j
    BY <1>1, <2>1
  <2> QED
    BY <2>1, <2>2 DEF FirstOf
<1>5. \A i \in Rows : FirstOf(g, i) = (g * Sub + i) * Sub /\ g * Sub + i \in Nat
  BY <1>1, Sizes DEF Rows, FirstOf
<1>6. \A i \in Rows : Row(FirstOf(g, i)) = FirstOf(g, i)
  <2> SUFFICES ASSUME NEW i \in Rows PROVE Row(FirstOf(g, i)) = FirstOf(g, i)
    OBVIOUS
  <2>1. PICK k \in Nat : k = g * Sub + i
    BY <1>5
  <2>2. 0 \in 0 .. Sub - 1 /\ (k * Sub + 0) \div Sub = k /\ k * Sub + 0 = k * Sub
    BY Sizes, Quotient
  <2> QED
    BY <1>5, <2>1, <2>2 DEF Row
<1>7. ASSUME NEW c \in InGroup(g)
      PROVE  (c % Group) \div Sub \in Rows /\ Row(c) = FirstOf(g, (c % Group) \div Sub)
  <2>1. c \in Nat /\ c \div Group = g
    BY Sizes DEF InGroup, Clusters, GroupOf
  <2>2. PICK r \in Nat : r = c % Group /\ r < Group /\ c = g * Group + r
    <3>1. c = (c \div Group) * Group + (c % Group) /\ c % Group \in 0 .. Group - 1
      BY <2>1, Sizes, Division
    <3> QED
      BY <2>1, <3>1, Sizes
  <2>3. PICK i \in Nat, s \in 0 .. Sub - 1 : i = r \div Sub /\ r = i * Sub + s
    BY Sizes, Division
  <2>4. i < Sub
    <3>1. i * Sub \in Nat /\ i * Sub < Sub * Sub
      BY <1>1, <2>2, <2>3, Sizes
    <3> QED
      BY <3>1, Sizes
  <2>5. i \in Rows
    BY <2>3, <2>4, Sizes DEF Rows
  <2>6. PICK k \in Nat : k = g * Sub + i
    BY <1>1, Sizes
  <2>7. k * Sub \in Nat /\ k * Sub = g * Group + i * Sub
    BY <1>5, <2>5, <2>6, Sizes DEF FirstOf
  <2>8. c = k * Sub + s
    <3>1. PICK x \in Nat, y \in Nat : x = g * Group /\ y = i * Sub
      BY <1>1, <2>3, Sizes
    <3>2. c = x + (y + s) /\ k * Sub = x + y /\ s \in Nat
      BY <2>2, <2>3, <2>7, <3>1, Sizes
    <3> QED
      BY <3>1, <3>2
  <2>9. c \div Sub = k
    <3>1. (k * Sub + s) \div Sub = k
      BY <2>3, Sizes, Quotient
    <3> QED
      BY <2>8, <3>1
  <2> QED
    BY <1>5, <2>2, <2>3, <2>5, <2>6, <2>9 DEF Row
<1>8. \A c \in InGroup(g), j \in Rows : Row(c) + j \in InGroup(g)
  BY <1>4, <1>7
<1>9. \A i \in Rows : FirstOf(g, i) \in InGroup(g)
  BY <1>4
<1> QED
  BY <1>4, <1>6, <1>7, <1>8, <1>9

(* The units of a cluster.                                                 *)
LEMMA UnitPlace ==
  ASSUME NEW c \in Clusters, NEW u \in Columns
  PROVE  /\ c * Units \in Nat /\ c * Units + u \in 0 .. Count * Units - 1 /\ (c * Units + u) \div Units = c
         /\ (c + 1) * Units = c * Units + Units
<1>1. c \in Nat /\ c + 1 <= Count /\ u \in 0 .. Units - 1
  BY Sizes DEF Clusters, Columns
<1>2. c * Units \in Nat /\ (c + 1) * Units = c * Units + Units /\ (c + 1) * Units <= Count * Units
  BY <1>1, Sizes
<1>3. (c * Units + u) \div Units = c
  BY <1>1, Sizes, Quotient
<1>4. Count * Units \in Nat
  BY Sizes
<1> QED
  BY <1>1, <1>2, <1>3, <1>4, Sizes

LEMMA ClusterOfUnit ==
  ASSUME NEW v \in 0 .. Count * Units - 1
  PROVE  /\ v \div Units \in Clusters /\ v \in Nat
         /\ (v \div Units) * Units <= v /\ v < (v \div Units) * Units + Units
<1>1. v \in Nat /\ v < Count * Units
  BY Sizes
<1>2. PICK c \in Nat : c = v \div Units /\ c * Units <= v /\ v < (c + 1) * Units
  BY <1>1, Sizes, Division
<1>3. c < Count
  BY <1>1, <1>2, Sizes
<1>4. (c + 1) * Units = c * Units + Units
  BY Sizes
<1> QED
  BY <1>1, <1>2, <1>3, <1>4, Sizes DEF Clusters

-----------------------------------------------------------------------------
(* Inductive invariant                                                     *)
(*                                                                         *)
(* What it says of clusters is said of the clusters of a group, with the   *)
(* state as arguments, so that it can be said of the group in memory too.  *)

Block == [Columns -> Values]
Headers == [h0 : Block, h1 : [Rows -> Block], h2 : [Rows -> [Rows -> Block]]]

PlainOf(d, h, s) == IF s = h THEN d ELSE [d EXCEPT ![0] = Garbage]

(* The clusters not in doubt, d, have their hashes in H0 and H1.           *)
Hashed(g, hd, dt, sl, sus) ==
  /\ \A c \in InGroup(g) : c \notin sus => hd[c].h0 = PlainOf(dt[c], hd[c], sl[c])
  /\ g \in FullGroups =>
       \A c \in InGroup(g), j \in Rows :
         Row(c) + j \notin sus => hd[c].h1[j] = hd[Row(c) + j].h0

(* All have the same H2, which hashes those not in doubt.                  *)
TopIs(g, hd, sus, top) ==
  /\ \A c \in InGroup(g) : hd[c].h2 = top
  /\ \A i, j \in Rows : FirstOf(g, i) + j \notin sus => top[i][j] = hd[FirstOf(g, i) + j].h0

Kept(g, hd, dt, sl, int) ==
  \A c \in InGroup(g), u \in Columns :
    int[c * Units + u] = Garbage \/ PlainOf(dt[c], hd[c], sl[c])[u] = int[c * Units + u]

(* A group is open while it is written back.                               *)
Open == call.pc \in {"header", "data"}
Half == call.pc = "data"
OpenGroup(g) == Open /\ g = CurrentGroup

Touched(from, to, g) == \E u \in from .. to - 1 : GroupOf(u \div Units) = g

Types ==
  /\ data \in [Clusters -> Block]
  /\ header \in [Clusters -> Headers] /\ seal \in [Clusters -> Headers]
  /\ DOMAIN h3 = Groups /\ DOMAIN m_h3 = Groups
  /\ writes \in 0 .. MaxWrites
  /\ intended \in [0 .. Count * Units - 1 -> Values]
  /\ suspect \subseteq Clusters

Calls == [pc : {"idle", "loop", "header", "data", "h4", "sign"}, from : Int, size : Int,
          written : Int, at : Int, todo : Int]
USE DEF Calls

CallIsOn ==
  /\ call.from \in Nat /\ call.size \in Nat \ {0} /\ call.from + call.size <= Count * Units
  /\ call.written \in 0 .. call.size /\ call.at = call.from + call.written

CallOK ==
  /\ call \in Calls
  /\ call.pc # "idle" => CallIsOn
  /\ Open =>
       /\ call.written < call.size /\ call.todo \in InGroup(CurrentGroup)
       /\ buffer.data \in [InGroup(CurrentGroup) -> Block]
       /\ buffer.header \in [InGroup(CurrentGroup) -> Headers]
  /\ call.pc \in {"h4", "sign"} => call.written = call.size

RootOK ==
  /\ ~rootLost => h4 = h3 /\ signed = h4
  /\ call.pc \in {"h4", "sign"} => h3 = m_h3
  /\ call.pc = "sign" => h4 = m_h3

(* The groups that are not open.                                           *)
AtRest ==
  \A g \in Groups : ~OpenGroup(g) => Hashed(g, header, data, seal, suspect)

TopAtRest ==
  \A g \in FullGroups : ~OpenGroup(g) /\ g \notin behind => TopIs(g, header, suspect, h3[g])

ContentAtRest ==
  \A g \in Groups : ~OpenGroup(g) => Kept(g, header, data, seal, intended)

(* H3 in memory is new for the groups the call has written.                *)
TopInMemory ==
  call.pc \in {"loop", "header", "data"} =>
    \A g \in FullGroups : ~OpenGroup(g) =>
      IF Touched(call.from, call.at, g) THEN TopIs(g, header, suspect, m_h3[g]) ELSE m_h3[g] = h3[g]

(* Of a cluster that is written, or not in doubt.                          *)
Known(at, n, sus, c) == Covers(at, n, c) \/ c \notin sus

(* The group in memory, as it will be on the disc; its first n units from  *)
(* at on are being written.                                                *)
BufferHashed(g, bh, bd, sus, top, at, n) ==
  /\ \A c \in InGroup(g) : Known(at, n, sus, c) => bh[c].h0 = bd[c]
  /\ g \in FullGroups =>
       /\ \A c \in InGroup(g), j \in Rows : Known(at, n, sus, Row(c) + j) => bh[c].h1[j] = bh[Row(c) + j].h0
       /\ \A c \in InGroup(g) : bh[c].h2 = top
       /\ \A i, j \in Rows :
            Known(at, n, sus, FirstOf(g, i) + j) => top[i][j] = bh[FirstOf(g, i) + j].h0

BufferKept(g, bd, int) ==
  \A c \in InGroup(g), u \in Columns : int[c * Units + u] = Garbage \/ bd[c][u] = int[c * Units + u]

(* The group on the disc: written before t, of t the header if half.       *)
Written(g, hd, dt, sl, bh, bd, t, half) ==
  /\ \A c \in InGroup(g) : c < t => hd[c] = bh[c] /\ dt[c] = bd[c] /\ sl[c] = hd[c]
  /\ half => hd[t] = bh[t]

StillHashed(g, hd, dt, sl, bh, sus, at, n, t, half) ==
  /\ \A c \in InGroup(g) : ~Covers(at, n, c) => bh[c].h0 = hd[c].h0
  /\ \A c \in InGroup(g) :
       c \notin sus /\ (c > t \/ (c = t /\ ~half)) => hd[c].h0 = PlainOf(dt[c], hd[c], sl[c])
  /\ g \in FullGroups =>
       \A c \in InGroup(g), j \in Rows :
         Row(c) + j \notin sus /\ ~Covers(at, n, Row(c) + j) => hd[c].h1[j] = hd[Row(c) + j].h0

(* The units that are not to be written, of clusters that are; but the     *)
(* first of a cluster whose header has changed is garbage.                 *)
StillKept(g, hd, dt, sl, int, at, n, t, half) ==
  \A c \in InGroup(g), u \in Columns :
    c >= t /\ c * Units + u \notin at .. at + n - 1 /\ (c = t /\ half => u # 0) =>
      int[c * Units + u] = Garbage \/ PlainOf(dt[c], hd[c], sl[c])[u] = int[c * Units + u]

OpenHashed ==
  Open =>
    /\ BufferHashed(CurrentGroup, buffer.header, buffer.data, suspect, m_h3[CurrentGroup], call.at, ToWrite)
    /\ Written(CurrentGroup, header, data, seal, buffer.header, buffer.data, call.todo, Half)
    /\ StillHashed(CurrentGroup, header, data, seal, buffer.header, suspect, call.at, ToWrite,
                   call.todo, Half)

OpenKept ==
  Open =>
    /\ BufferKept(CurrentGroup, buffer.data, intended)
    /\ StillKept(CurrentGroup, header, data, seal, intended, call.at, ToWrite, call.todo, Half)

IInv == /\ Types /\ CallOK /\ RootOK
        /\ AtRest /\ TopAtRest /\ ContentAtRest /\ TopInMemory
        /\ OpenHashed /\ OpenKept

-----------------------------------------------------------------------------
(* Groups that a step leaves alone                                         *)

LEMMA Apart ==
  ASSUME NEW g, NEW h, NEW c, c \in InGroup(g), c \in InGroup(h)
  PROVE  g = h
BY DEF InGroup

LEMMA HashedSame ==
  ASSUME NEW g \in Groups, NEW hd, NEW dt, NEW sl, NEW sus, NEW hd2, NEW dt2, NEW sl2, NEW sus2,
         Hashed(g, hd, dt, sl, sus),
         \A c \in InGroup(g) : hd2[c] = hd[c] /\ dt2[c] = dt[c] /\ sl2[c] = sl[c] /\ (c \in sus => c \in sus2)
  PROVE  Hashed(g, hd2, dt2, sl2, sus2)
<1>1. \A c \in InGroup(g) : c \notin sus2 => hd2[c].h0 = PlainOf(dt2[c], hd2[c], sl2[c])
  BY DEF Hashed
<1>2. ASSUME g \in FullGroups, NEW c \in InGroup(g), NEW j \in Rows, Row(c) + j \notin sus2
      PROVE  hd2[c].h1[j] = hd2[Row(c) + j].h0
  <2>1. Row(c) + j \in InGroup(g)
    BY <1>2, FullRows
  <2> QED
    BY <1>2, <2>1 DEF Hashed
<1> QED
  BY <1>1, <1>2 DEF Hashed

LEMMA TopSame ==
  ASSUME NEW g \in FullGroups, NEW hd, NEW sus, NEW hd2, NEW sus2, NEW top,
         TopIs(g, hd, sus, top),
         \A c \in InGroup(g) : hd2[c] = hd[c] /\ (c \in sus => c \in sus2)
  PROVE  TopIs(g, hd2, sus2, top)
<1>1. \A i, j \in Rows : FirstOf(g, i) + j \in InGroup(g)
  BY FullRows
<1> QED
  BY <1>1 DEF TopIs

LEMMA KeptSame ==
  ASSUME NEW g \in Groups, NEW hd, NEW dt, NEW sl, NEW int, NEW hd2, NEW dt2, NEW sl2, NEW int2,
         Kept(g, hd, dt, sl, int),
         \A c \in InGroup(g) : hd2[c] = hd[c] /\ dt2[c] = dt[c] /\ sl2[c] = sl[c],
         \A c \in InGroup(g), u \in Columns :
           int2[c * Units + u] = Garbage \/ int2[c * Units + u] = int[c * Units + u]
  PROVE  Kept(g, hd2, dt2, sl2, int2)
BY DEF Kept

-----------------------------------------------------------------------------
(* What a call writes next                                                 *)

LEMMA DivisionOrder ==
  ASSUME NEW a \in Nat, NEW b \in Nat \ {0}, NEW k \in Nat
  PROVE  /\ a < k * b => a \div b < k
         /\ k * b <= a => k <= a \div b
         /\ k * b < (a + 1) * b => k <= a
OBVIOUS

LEMMA Extent ==
  ASSUME CallIsOn, call.written < call.size
  PROVE  /\ CurrentGroup \in Groups /\ ToWrite \in Nat \ {0} /\ call.at \in Nat
         /\ call.at + ToWrite <= Count * Units /\ call.written + ToWrite <= call.size
         /\ call.at + ToWrite = call.from + (call.written + ToWrite)
         /\ \A c \in Nat : Covers(call.at, ToWrite, c) => c \in InGroup(CurrentGroup)
         /\ \A v \in call.at .. call.at + ToWrite - 1 : v \div Units \in InGroup(CurrentGroup)
         /\ ToWrite = Group * Units =>
              \A c \in InGroup(CurrentGroup), u \in Columns :
                c * Units + u \in call.at .. call.at + ToWrite - 1
         /\ \A c \in Clusters, u \in Columns :
              c * Units + u \in call.at .. call.at + ToWrite - 1 => Covers(call.at, ToWrite, c)
<1>1. PICK a \in Nat : a = call.at
  BY DEF CallIsOn
<1>2. PICK left \in Nat \ {0} : left = call.size - call.written /\ a + left <= Count * Units
  BY <1>1 DEF CallIsOn
<1>3. a \in 0 .. Count * Units - 1
  BY <1>1, <1>2, Sizes
<1>4. PICK d \in Clusters : d = a \div Units /\ d * Units <= a /\ a < d * Units + Units
  BY <1>3, ClusterOfUnit
<1>5. PICK g \in Groups : g = GroupOf(d) /\ g \in Nat /\ g * Group <= d /\ d < (g + 1) * Group
  BY <1>4, GroupBounds
<1>6. CurrentGroup = g
  BY <1>1, <1>4, <1>5 DEF CurrentGroup
<1>7. PICK low \in Nat : low = g * Group
  BY <1>5, Sizes
<1>8. (g + 1) * Group = low + Group /\ low <= d /\ d < low + Group /\ d \in Nat
  BY <1>5, <1>7, Sizes DEF Clusters
<1>9. PICK high \in Nat : high = (low + Group) * Units
  BY <1>7, Sizes
<1>10. a < high
  <2>1. (d + 1) * Units = d * Units + Units /\ d + 1 <= low + Group /\ d * Units \in Nat
    BY <1>7, <1>8, Sizes
  <2>2. (d + 1) * Units <= (low + Group) * Units
    BY <1>7, <1>8, <2>1, Sizes
  <2> QED
    BY <1>4, <1>8, <1>9, <2>1, <2>2, Sizes
<1>11. ToEndOfGroup(a) = high - a
  <2>1. ToEndOfGroup(a) = (GroupOf(d) + 1) * Group * Units - a
    BY <1>4 DEF ToEndOfGroup
  <2>2. (GroupOf(d) + 1) * Group * Units = high
    BY <1>5, <1>8, <1>9
  <2> QED
    BY <2>1, <2>2
<1>12. PICK n \in Nat \ {0} : n = ToWrite /\ a + n <= high /\ n <= left
  BY <1>1, <1>2, <1>10, <1>11, <1>9 DEF ToWrite
<1>13. \A c : c \in InGroup(g) <=> c \in Nat /\ low <= c /\ c < low + Group /\ c < Count
  BY <1>5, <1>7, GroupRange
<1>14. low * Units <= a
  BY <1>4, <1>7, <1>8, Sizes
<1>15. \A c \in Clusters : c \in Nat /\ c < Count
  BY Sizes DEF Clusters
<1>16. ASSUME NEW c \in Nat, Covers(a, n, c) PROVE c \in InGroup(g)
  <2>1. a < (c + 1) * Units /\ c * Units < a + n
    BY <1>16 DEF Covers
  <2>2. c \in Nat /\ c < Count /\ c * Units \in Nat /\ (c + 1) * Units \in Nat /\ low * Units \in Nat
    <3>1. c * Units < Count * Units /\ c * Units \in Nat
      BY <1>2, <1>12, <2>1, Sizes
    <3>2. c < Count
      BY <3>1, Sizes
    <3> QED
      BY <1>7, <3>1, <3>2, Sizes
  <2>3. c * Units < (low + Group) * Units /\ low * Units < (c + 1) * Units
    BY <1>9, <1>12, <1>14, <2>1, <2>2
  <2>4. low <= c
    BY <1>7, <2>2, <2>3, Sizes, DivisionOrder
  <2>5. c < low + Group
    <3>1. PICK k \in Nat : k = low + Group
      BY <1>7, Sizes
    <3> QED
      BY <2>2, <2>3, <3>1, Sizes
  <2> QED
    BY <1>13, <2>2, <2>4, <2>5
<1>17. ASSUME NEW v \in a .. a + n - 1 PROVE v \div Units \in InGroup(g)
  <2>1. v \in 0 .. Count * Units - 1 /\ v < high /\ a <= v
    BY <1>2, <1>12, Sizes
  <2>2. v \div Units \in Clusters /\ v \in Nat
    BY <2>1, ClusterOfUnit
  <2>3. low <= v \div Units
    <3>1. low * Units <= v
      BY <1>7, <1>14, <2>1, <2>2, Sizes
    <3> QED
      BY <1>7, <2>2, <3>1, Sizes, DivisionOrder
  <2>4. v \div Units < low + Group
    <3>1. PICK k \in Nat : k = low + Group
      BY <1>7, Sizes
    <3> QED
      BY <1>9, <2>1, <2>2, <3>1, Sizes, DivisionOrder
  <2> QED
    BY <1>13, <1>15, <2>2, <2>3, <2>4
<1>18. ASSUME n = Group * Units, NEW c \in InGroup(g), NEW u \in Columns
       PROVE  c * Units + u \in a .. a + n - 1
  <2>1. high = low * Units + Group * Units /\ low * Units \in Nat /\ Group * Units \in Nat
    BY <1>7, <1>9, Sizes
  <2>2. a = low * Units /\ a + n = high
    BY <1>12, <1>14, <1>18, <2>1
  <2>3. c \in Nat /\ low <= c /\ c + 1 <= low + Group
    BY <1>7, <1>13, <1>18, Sizes
  <2>4. low * Units <= c * Units /\ c * Units \in Nat
    BY <1>7, <2>3, Sizes
  <2>5. (c + 1) * Units <= (low + Group) * Units /\ (c + 1) * Units = c * Units + Units
    BY <1>7, <2>3, Sizes
  <2>6. u \in Nat /\ u < Units
    BY Sizes DEF Columns
  <2> QED
    BY <1>9, <2>2, <2>4, <2>5, <2>6, Sizes
<1>19. ASSUME NEW c \in Clusters, NEW u \in Columns, c * Units + u \in a .. a + n - 1 PROVE Covers(a, n, c)
  <2>1. c * Units \in Nat /\ (c + 1) * Units = c * Units + Units /\ u \in Nat /\ u < Units
    BY UnitPlace, Sizes DEF Columns
  <2> QED
    BY <1>19, <2>1, Sizes DEF Covers
<1>20. a + n <= Count * Units /\ call.written + n <= call.size /\ a + n = call.from + (call.written + n)
  <2>1. call.written \in Nat /\ call.size \in Nat /\ a = call.from + call.written /\ call.from \in Nat
    BY <1>1 DEF CallIsOn
  <2> QED
    BY <1>2, <1>12, <2>1, Sizes
<1> QED
  BY <1>1, <1>5, <1>6, <1>12, <1>16, <1>17, <1>18, <1>19, <1>20

-----------------------------------------------------------------------------
(* The initial state                                                       *)

LEMMA TableType ==
  ASSUME NEW S, NEW x \in S
  PROVE  Table(x) \in [Rows -> S] /\ \A j \in Rows : Table(x)[j] = x
BY DEF Table, Rows

LEMMA Initial == Init => IInv
<1> SUFFICES ASSUME Init PROVE IInv
  OBVIOUS
<1>1. /\ Original \in Block /\ InitHeader \in Headers /\ InitHeader.h0 = Original
      /\ \A j \in Rows : InitHeader.h1[j] = Original
      /\ \A i, j \in Rows : InitHeader.h2[i][j] = Original
  <2>1. 0 \in Values
    BY SizesAssumption DEF Values
  <2>2. Original = [u \in Columns |-> 0] /\ Original \in Block
    BY <2>1 DEF Original, Filled, Block, Columns
  <2> HIDE DEF Original
  <2>3. Table(Original) \in [Rows -> Block] /\ \A j \in Rows : Table(Original)[j] = Original
    BY <2>2, TableType
  <2>4. /\ Table(Table(Original)) \in [Rows -> [Rows -> Block]]
        /\ \A j \in Rows : Table(Table(Original))[j] = Table(Original)
    BY <2>3, TableType
  <2> QED
    BY <2>2, <2>3, <2>4 DEF InitHeader, Headers
<1>2. \A c \in Clusters : data[c] = Original /\ header[c] = InitHeader /\ seal[c] = InitHeader
  BY DEF Init
<1>3. \A g \in Groups : h3[g] = InitHeader.h2
  BY DEF Init
<1>4. /\ call = Idle /\ m_h3 = h3 /\ h4 = h3 /\ signed = h3 /\ suspect = {} /\ behind = {} /\ ~rootLost
      /\ intended = [u \in 0 .. Count * Units - 1 |-> 0]
  BY DEF Init
<1>5. ~Open /\ call.pc = "idle"
  BY <1>4 DEF Open, Idle
<1>6. Types
  <2>1. data = [c \in Clusters |-> Original] /\ header = [c \in Clusters |-> InitHeader] /\ seal = header
    BY DEF Init
  <2>2. DOMAIN h3 = Groups /\ writes \in 0 .. MaxWrites
    BY SizesAssumption DEF Init
  <2>3. intended \in [0 .. Count * Units - 1 -> Values]
    BY <1>4, SizesAssumption DEF Values
  <2> HIDE DEF Original, InitHeader
  <2> QED
    BY <1>1, <1>4, <2>1, <2>2, <2>3 DEF Types
<1>7. CallOK
  <2>1. call \in Calls
    BY <1>4 DEF Idle
  <2> QED
    BY <1>5, <2>1 DEF CallOK, Open
<1>8. RootOK
  BY <1>4, <1>5 DEF RootOK
<1> HIDE DEF Original, InitHeader
<1>9. ASSUME NEW g \in Groups PROVE Hashed(g, header, data, seal, suspect)
  <2>1. \A c \in InGroup(g) : c \in Clusters
    BY <1>9, GroupRange
  <2>2. \A c \in InGroup(g) : header[c].h0 = PlainOf(data[c], header[c], seal[c])
    BY <1>1, <1>2, <2>1 DEF PlainOf
  <2>3. ASSUME g \in FullGroups, NEW c \in InGroup(g), NEW j \in Rows
        PROVE  header[c].h1[j] = header[Row(c) + j].h0
    <3>1. Row(c) + j \in InGroup(g)
      BY <2>3, FullRows
    <3> QED
      BY <1>1, <1>2, <2>1, <3>1
  <2> QED
    BY <2>2, <2>3 DEF Hashed
<1>10. ASSUME NEW g \in FullGroups PROVE TopIs(g, header, suspect, h3[g])
  <2>1. /\ g \in Groups /\ \A c \in InGroup(g) : c \in Clusters
        /\ \A i, j \in Rows : FirstOf(g, i) + j \in InGroup(g)
    BY <1>10, FullGroup, GroupRange, FullRows
  <2> QED
    BY <1>1, <1>2, <1>3, <2>1 DEF TopIs
<1>11. ASSUME NEW g \in Groups PROVE Kept(g, header, data, seal, intended)
  <2> SUFFICES ASSUME NEW c \in InGroup(g), NEW u \in Columns
               PROVE  PlainOf(data[c], header[c], seal[c])[u] = intended[c * Units + u]
    BY DEF Kept
  <2>1. c \in Clusters
    BY <1>11, GroupRange
  <2>2. c * Units + u \in 0 .. Count * Units - 1
    BY <2>1, UnitPlace
  <2>3. Original[u] = 0
    BY DEF Original, Filled, Columns
  <2> QED
    BY <1>2, <1>4, <2>1, <2>2, <2>3 DEF PlainOf
<1>12. AtRest /\ TopAtRest /\ ContentAtRest
  BY <1>9, <1>10, <1>11 DEF AtRest, TopAtRest, ContentAtRest
<1>13. TopInMemory /\ OpenHashed /\ OpenKept
  BY <1>5 DEF TopInMemory, OpenHashed, OpenKept
<1> QED
  BY <1>6, <1>7, <1>8, <1>12, <1>13 DEF IInv

-----------------------------------------------------------------------------
(* Steps that leave the clusters alone                                     *)

LEMMA CallSame ==
  ASSUME UNCHANGED call
  PROVE  /\ CurrentGroup' = CurrentGroup /\ ToWrite' = ToWrite
         /\ Open' = Open /\ Half' = Half /\ CallIsOn' = CallIsOn
BY DEF CurrentGroup, ToWrite, ToEndOfGroup, Open, Half, CallIsOn

LEMMA RestSame ==
  ASSUME IInv, ~Open, ~Open', UNCHANGED <<data, header, seal, suspect, behind, intended, h3>>
  PROVE  AtRest' /\ TopAtRest' /\ ContentAtRest'
<1>1. \A g : ~OpenGroup(g)
  BY DEF OpenGroup
<1>2. AtRest'
  BY <1>1 DEF IInv, AtRest
<1>3. TopAtRest'
  BY <1>1 DEF IInv, TopAtRest
<1>4. ContentAtRest'
  BY <1>1 DEF IInv, ContentAtRest
<1> QED
  BY <1>2, <1>3, <1>4

LEMMA StepSame ==
  ASSUME IInv, UNCHANGED <<data, header, seal, h3, h4, signed, buffer, m_h3, call, writes,
                           suspect, behind, intended, rootLost>>
  PROVE  IInv'
<1>1. /\ CurrentGroup' = CurrentGroup /\ ToWrite' = ToWrite
      /\ Open' = Open /\ Half' = Half /\ CallIsOn' = CallIsOn
  BY CallSame
<1>2. Types' /\ RootOK'
  BY DEF IInv, Types, RootOK
<1>3. CallOK'
  BY <1>1 DEF IInv, CallOK
<1>4. AtRest' /\ TopAtRest' /\ ContentAtRest'
  BY <1>1 DEF IInv, AtRest, TopAtRest, ContentAtRest, OpenGroup
<1>5. TopInMemory'
  BY <1>1 DEF IInv, TopInMemory, OpenGroup
<1>6. OpenHashed' /\ OpenKept'
  BY <1>1 DEF IInv, OpenHashed, OpenKept
<1> QED
  BY <1>2, <1>3, <1>4, <1>5, <1>6 DEF IInv

LEMMA StepBeginWrite ==
  ASSUME IInv, NEW from \in Starts, NEW end \in Ends, from < end, BeginWrite(from, end - from)
  PROVE  IInv'
<1>1. PICK size \in Nat \ {0} : size = end - from /\ from \in Nat /\ from + size <= Count * Units
  BY SizesAssumption
<1>2. /\ call.pc = "idle" /\ writes < MaxWrites /\ writes' = writes + 1
      /\ call' = [pc |-> "loop", from |-> from, size |-> size, written |-> 0, at |-> from, todo |-> 0]
      /\ m_h3' = h3
      /\ UNCHANGED <<data, header, seal, h3, h4, signed, buffer, suspect, behind, intended, rootLost>>
  BY <1>1 DEF BeginWrite, ghosts
<1>3. ~Open /\ ~Open' /\ call'.pc = "loop"
  BY <1>2 DEF Open
<1>4. Types'
  <2>1. writes' \in 0 .. MaxWrites
    BY <1>2, SizesAssumption DEF IInv, Types
  <2> QED
    BY <1>2, <2>1 DEF IInv, Types
<1>5. CallOK'
  <2>1. CallIsOn'
    BY <1>1, <1>2 DEF CallIsOn
  <2>2. call' \in Calls
    BY <1>1, <1>2
  <2> QED
    BY <1>3, <2>1, <2>2 DEF CallOK
<1>6. RootOK'
  BY <1>2, <1>3 DEF IInv, RootOK
<1>7. AtRest' /\ TopAtRest' /\ ContentAtRest'
  BY <1>2, <1>3, RestSame
<1>8. TopInMemory'
  <2>1. \A g : ~Touched(call'.from, call'.at, g)
    <3>1. call'.from = from /\ call'.at = from
      BY <1>2
    <3>2. from .. from - 1 = {}
      BY <1>1
    <3> QED
      BY <3>1, <3>2 DEF Touched
  <2> QED
    BY <1>2, <2>1 DEF TopInMemory
<1>9. OpenHashed' /\ OpenKept'
  BY <1>3 DEF OpenHashed, OpenKept
<1> QED
  BY <1>4, <1>5, <1>6, <1>7, <1>8, <1>9 DEF IInv

LEMMA StepWriteH3 ==
  ASSUME IInv, WriteH3
  PROVE  IInv'
<1>1. /\ call.pc = "loop" /\ call.written = call.size /\ h3' = m_h3 /\ rootLost' = TRUE
      /\ behind' = behind \ {GroupOf(u \div Units) : u \in call.from .. call.from + call.size - 1}
      /\ call' = [call EXCEPT !.pc = "h4"]
      /\ UNCHANGED <<data, header, seal, h4, signed, buffer, m_h3, writes, suspect, intended>>
  BY DEF WriteH3, NewH3
<1>2. /\ call'.pc = "h4" /\ call'.from = call.from /\ call'.size = call.size /\ call'.written = call.written
      /\ call'.at = call.at
      /\ call' \in Calls
  BY <1>1 DEF IInv, CallOK
<1>3. ~Open /\ ~Open' /\ CallIsOn
  BY <1>1, <1>2 DEF Open, IInv, CallOK
<1>4. Types'
  BY <1>1 DEF IInv, Types
<1>5. CallOK'
  BY <1>1, <1>2, <1>3 DEF CallOK, CallIsOn
<1>6. RootOK'
  BY <1>1, <1>2 DEF IInv, RootOK
<1>7. AtRest' /\ ContentAtRest'
  BY <1>1, <1>3 DEF IInv, AtRest, ContentAtRest, OpenGroup
<1>8. TopAtRest'
  <2> SUFFICES ASSUME NEW g \in FullGroups, g \notin behind' PROVE TopIs(g, header, suspect, m_h3[g])
    BY <1>1 DEF TopAtRest
  <2>1. CASE Touched(call.from, call.at, g)
    BY <1>1, <1>3, <2>1 DEF IInv, TopInMemory, OpenGroup
  <2>2. CASE ~Touched(call.from, call.at, g)
    <3>1. m_h3[g] = h3[g]
      BY <1>1, <1>3, <2>2 DEF IInv, TopInMemory, OpenGroup
    <3>2. call.from .. call.from + call.size - 1 = call.from .. call.at - 1
      BY <1>1, <1>3 DEF CallIsOn
    <3> DEFINE gone == {GroupOf(u \div Units) : u \in call.from .. call.from + call.size - 1}
    <3>3. g \notin gone
      <4> SUFFICES ASSUME NEW u \in call.from .. call.from + call.size - 1, g = GroupOf(u \div Units)
                   PROVE  FALSE
        OBVIOUS
      <4>1. u \in call.from .. call.at - 1
        BY <3>2
      <4> QED
        BY <2>2, <4>1 DEF Touched
    <3>4. behind' = behind \ gone
      BY <1>1
    <3> HIDE DEF gone
    <3>5. g \notin behind
      BY <3>3, <3>4
    <3> QED
      BY <1>3, <3>1, <3>5 DEF IInv, TopAtRest, OpenGroup
  <2> QED
    BY <2>1, <2>2
<1>9. TopInMemory' /\ OpenHashed' /\ OpenKept'
  BY <1>2, <1>3 DEF TopInMemory, OpenHashed, OpenKept
<1> QED
  BY <1>4, <1>5, <1>6, <1>7, <1>8, <1>9 DEF IInv

LEMMA StepRoot ==
  ASSUME IInv, WriteH4 \/ Sign
  PROVE  IInv'
<1>1. /\ call.pc \in {"h4", "sign"} /\ call'.pc \in {"sign", "idle"}
      /\ UNCHANGED <<data, header, seal, h3, buffer, m_h3, writes, suspect, behind, intended>>
  BY DEF WriteH4, Sign, ghosts, Idle, IInv, CallOK
<1>2. ~Open /\ ~Open'
  BY <1>1 DEF Open
<1>3. Types'
  BY <1>1 DEF IInv, Types
<1>4. CallOK'
  <2>1. CASE WriteH4
    <3>1. call' = [call EXCEPT !.pc = "sign"]
      BY <2>1 DEF WriteH4
    <3>2. /\ call'.pc = "sign" /\ call'.from = call.from /\ call'.size = call.size
          /\ call'.written = call.written /\ call'.at = call.at
          /\ call' \in Calls
      BY <3>1 DEF IInv, CallOK
    <3> QED
      BY <1>1, <1>2, <3>2 DEF IInv, CallOK, CallIsOn
  <2>2. CASE Sign
    <3>1. call' = Idle /\ call'.pc = "idle"
      BY <2>2 DEF Sign, Idle
    <3>2. call' \in Calls
      BY <3>1 DEF Idle
    <3> QED
      BY <1>2, <3>1, <3>2 DEF CallOK
  <2> QED
    BY <2>1, <2>2
<1>5. RootOK'
  <2>1. CASE WriteH4
    BY <2>1 DEF WriteH4, ghosts, IInv, RootOK, CallOK
  <2>2. CASE Sign
    BY <2>2 DEF Sign, Idle, IInv, RootOK
  <2> QED
    BY <2>1, <2>2
<1>6. AtRest' /\ TopAtRest' /\ ContentAtRest'
  BY <1>1, <1>2, RestSame
<1>7. TopInMemory' /\ OpenHashed' /\ OpenKept'
  BY <1>1, <1>2 DEF TopInMemory, OpenHashed, OpenKept
<1> QED
  BY <1>3, <1>4, <1>5, <1>6, <1>7 DEF IInv

-----------------------------------------------------------------------------
(* A group is read into memory                                             *)

LEMMA PlainFacts ==
  ASSUME NEW d \in Block, NEW h, NEW s
  PROVE  /\ PlainOf(d, h, s) \in Block
         /\ \A u \in Columns : u # 0 => PlainOf(d, h, s)[u] = d[u]
         /\ s = h => PlainOf(d, h, s) = d
<1>1. Garbage \in Values
  BY DEF Values
<1> QED
  BY <1>1 DEF PlainOf, Block

(* What NewGroup makes of a group, for got of the n units delivered.       *)
LEMMA NewGroupMade ==
  ASSUME Types, NEW g \in Groups, NEW at \in Nat, NEW n \in Nat \ {0}, NEW got \in Nat, got <= n,
         \A c \in Nat : Covers(at, n, c) => c \in InGroup(g),
         n = Group * Units =>
           \A c \in InGroup(g), u \in Columns : c * Units + u \in at .. at + n - 1,
         \A c \in Clusters, u \in Columns : c * Units + u \in at .. at + n - 1 => Covers(at, n, c),
         Hashed(g, header, data, seal, suspect),
         NEW new, new = NewGroup(g, at, n, got)
  PROVE  /\ new.data \in [InGroup(g) -> Block] /\ new.header \in [InGroup(g) -> Headers]
         /\ \A c \in InGroup(g) : ~Covers(at, n, c) => new.header[c].h0 = header[c].h0
         /\ BufferHashed(g, new.header, new.data, suspect, new.header[g * Group].h2, at, n)
         /\ \A c \in InGroup(g), u \in Columns :
              /\ c * Units + u \in at .. at + got - 1 => new.data[c][u] = writes
              /\ c * Units + u \notin at .. at + n - 1 =>
                   new.data[c][u] = PlainOf(data[c], header[c], seal[c])[u]
<1> DEFINE C == InGroup(g)
           od == [c \in C |-> Plain(c)]
           oh == [c \in C |-> header[c]]
           nd == NewData(od, at, n, got)
           h0 == NewH0(oh, nd, at, n)
           h1 == NewH1(oh, h0, at, n)
           h2 == NewH2(h1, g)
<1>1. new = [data |-> nd, header |-> [c \in C |-> [h0 |-> h0[c], h1 |-> h1[c], h2 |-> h2]]]
  BY DEF NewGroup, GroupRead
<1>2. new.data = nd /\ new.header = [c \in C |-> [h0 |-> h0[c], h1 |-> h1[c], h2 |-> h2]]
  BY <1>1
<1>3. C \subseteq Clusters /\ g * Group \in C
  BY GroupRange
<1>4. /\ \A c \in C : data[c] \in Block /\ header[c] \in Headers /\ od[c] = PlainOf(data[c], header[c], seal[c])
      /\ \A c \in C : od[c] \in Block /\ oh[c] = header[c]
      /\ DOMAIN od = C /\ DOMAIN oh = C
  <2>1. \A c \in C : data[c] \in Block /\ header[c] \in Headers /\ od[c] = PlainOf(data[c], header[c], seal[c])
    BY <1>3 DEF Types, Plain, PlainOf
  <2>2. \A c \in C : od[c] \in Block
    BY <2>1, PlainFacts
  <2> QED
    BY <2>1, <2>2
<1> HIDE DEF od, oh
<1>5. \A c \in C, u \in Columns :
        nd[c][u] = IF at <= c * Units + u /\ c * Units + u < at + got THEN writes
                   ELSE IF n = Group * Units THEN Zero ELSE od[c][u]
  BY <1>4 DEF NewData, Columns
<1>6. nd \in [C -> Block]
  <2>1. writes \in Values /\ Zero \in Values
    BY SizesAssumption DEF Types, Values
  <2>2. \A c \in C, u \in Columns : nd[c][u] \in Values
    BY <1>4, <1>5, <2>1 DEF Block
  <2>3. nd = [c \in C |-> [u \in Columns |->
               IF at <= c * Units + u /\ c * Units + u < at + got THEN writes
               ELSE IF n = Group * Units THEN Zero ELSE od[c][u]]]
    BY <1>4 DEF NewData, Columns
  <2>4. \A c \in C : nd[c] \in Block
    BY <2>2, <2>3 DEF Block
  <2>5. DOMAIN nd = C /\ nd = [c \in C |-> nd[c]]
    BY <2>3
  <2> QED
    BY <2>4, <2>5
<1>7. /\ h0 \in [C -> Block]
      /\ \A c \in C : h0[c] = IF Covers(at, n, c) THEN nd[c] ELSE header[c].h0
  <2>1. h0 = [c \in C |-> IF Covers(at, n, c) THEN nd[c] ELSE oh[c].h0]
    BY <1>4 DEF NewH0
  <2>2. \A c \in C : nd[c] \in Block /\ header[c].h0 \in Block
    BY <1>4, <1>6 DEF Headers
  <2> QED
    BY <1>4, <2>1, <2>2
<1> HIDE DEF nd, h0
<1>8. /\ h1 \in [C -> [Rows -> Block]]
      /\ \A c \in C, j \in Rows :
           h1[c][j] = IF Covers(at, n, Row(c) + j) THEN h0[Row(c) + j] ELSE header[c].h1[j]
  <2>1. h1 = [c \in C |-> [j \in Rows |->
               IF Covers(at, n, Row(c) + j) THEN h0[Row(c) + j] ELSE oh[c].h1[j]]]
    BY <1>4 DEF NewH1, Rows, Row
  <2>2. \A c \in C, j \in Rows : Row(c) + j \in Nat
    <3>1. \A c \in C : c \in Nat
      BY <1>3, Sizes DEF Clusters
    <3>2. ASSUME NEW c \in Nat PROVE Row(c) \in Nat
      <4>1. c \div Sub \in Nat /\ Sub \in Nat
        BY Sizes, Division
      <4> QED
        BY <4>1 DEF Row
    <3> QED
      BY <3>1, <3>2 DEF Rows
  <2>3. \A c \in C, j \in Rows : header[c].h1[j] \in Block /\ oh[c].h1[j] = header[c].h1[j]
    BY <1>4 DEF Headers
  <2>4. \A c \in C, j \in Rows :
          (IF Covers(at, n, Row(c) + j) THEN h0[Row(c) + j] ELSE oh[c].h1[j]) \in Block
    BY <1>7, <2>2, <2>3
  <2> QED
    BY <2>1, <2>3, <2>4
<1> HIDE DEF h1
<1>9. PICK m \in Nat : /\ m = Cardinality(C)
                       /\ \A k \in Nat : k < m => g * Group + k \in C
                       /\ g \in FullGroups => m = Group
  BY GroupSize DEF FullGroups
<1>10. /\ h2 \in [Rows -> [Rows -> Block]]
       /\ \A i \in Rows : i * Sub < m => h2[i] = h1[FirstOf(g, i)]
  <2> DEFINE T(v) == Table(Filled(v))
  <2>1. T(Garbage) \in [Rows -> Block] /\ T(Zero) \in [Rows -> Block]
    <3>1. Filled(Garbage) \in Block /\ Filled(Zero) \in Block
      BY DEF Filled, Block, Columns, Values
    <3> QED
      BY <3>1, TableType
  <2>2. h2 = [i \in Rows |-> IF i * Sub > m THEN T(Garbage) ELSE IF i * Sub = m THEN T(Zero)
                             ELSE h1[FirstOf(g, i)]]
    <3>1. DOMAIN h1 = C
      BY <1>8
    <3> QED
      BY <1>9, <3>1 DEF NewH2, Rows
  <2> HIDE DEF h2, T
  <2>3. \A i \in Rows : i * Sub \in Nat /\ (i * Sub < m => h1[FirstOf(g, i)] \in [Rows -> Block])
    BY <1>8, <1>9, Sizes DEF Rows, FirstOf
  <2>4. \A i \in Rows : (IF i * Sub > m THEN T(Garbage) ELSE IF i * Sub = m THEN T(Zero)
                         ELSE h1[FirstOf(g, i)]) \in [Rows -> Block]
    BY <2>1, <2>3
  <2>5. h2 \in [Rows -> [Rows -> Block]]
    BY <2>2, <2>4
  <2>6. \A i \in Rows : i * Sub < m => h2[i] = h1[FirstOf(g, i)]
    BY <2>2, <2>3
  <2> QED
    BY <2>5, <2>6
<1> HIDE DEF h2
<1>11. \A c \in C : /\ new.header[c] = [h0 |-> h0[c], h1 |-> h1[c], h2 |-> h2]
                    /\ new.header[c].h0 = h0[c] /\ new.header[c].h1 = h1[c] /\ new.header[c].h2 = h2
  BY <1>2
<1>12. new.header \in [C -> Headers]
  <2>1. \A c \in C : [h0 |-> h0[c], h1 |-> h1[c], h2 |-> h2] \in Headers
    BY <1>7, <1>8, <1>10 DEF Headers
  <2> QED
    BY <1>2, <2>1
<1>13. \A c \in C : ~Covers(at, n, c) => new.header[c].h0 = header[c].h0
  BY <1>7, <1>11
<1>14. ASSUME NEW c \in C, NEW u \in Columns
       PROVE  /\ c * Units + u \in at .. at + got - 1 => new.data[c][u] = writes
              /\ c * Units + u \notin at .. at + n - 1 =>
                   new.data[c][u] = PlainOf(data[c], header[c], seal[c])[u]
  <2>1. PICK v \in Nat : v = c * Units + u
    BY <1>3, UnitPlace
  <2>2. new.data[c][u] = IF at <= v /\ v < at + got THEN writes
                         ELSE IF n = Group * Units THEN Zero ELSE od[c][u]
    BY <1>2, <1>5, <2>1
  <2>3. v \in at .. at + got - 1 => at <= v /\ v < at + got
    OBVIOUS
  <2>4. v \notin at .. at + n - 1 => ~(at <= v /\ v < at + got) /\ n # Group * Units
    BY <1>14, <2>1
  <2> QED
    BY <1>4, <2>1, <2>2, <2>3, <2>4
<1>15. ASSUME NEW c \in C, ~Covers(at, n, c) PROVE new.data[c] = PlainOf(data[c], header[c], seal[c])
  <2>1. \A u \in Columns : c * Units + u \notin at .. at + n - 1
    BY <1>3, <1>15
  <2>2. \A u \in Columns : new.data[c][u] = PlainOf(data[c], header[c], seal[c])[u]
    BY <1>14, <2>1
  <2>3. new.data[c] \in Block /\ PlainOf(data[c], header[c], seal[c]) \in Block
    BY <1>2, <1>4, <1>6, PlainFacts
  <2> QED
    BY <2>2, <2>3 DEF Block
<1>16. \A c \in C : Covers(at, n, c) => new.header[c].h0 = new.data[c]
  BY <1>2, <1>7, <1>11
<1>17. \A c \in C : Known(at, n, suspect, c) => new.header[c].h0 = new.data[c]
  <2> SUFFICES ASSUME NEW c \in C, ~Covers(at, n, c), c \notin suspect
               PROVE  new.header[c].h0 = new.data[c]
    BY <1>16 DEF Known
  <2>1. header[c].h0 = PlainOf(data[c], header[c], seal[c])
    BY DEF Hashed
  <2> QED
    BY <1>13, <1>15, <2>1
<1>18. ASSUME g \in FullGroups, NEW c \in C, NEW j \in Rows, Known(at, n, suspect, Row(c) + j)
       PROVE  h1[c][j] = new.header[Row(c) + j].h0
  <2>1. Row(c) + j \in C
    BY <1>18, FullRows
  <2>2. CASE Covers(at, n, Row(c) + j)
    BY <1>8, <1>11, <2>1, <2>2
  <2>3. CASE ~Covers(at, n, Row(c) + j)
    <3>1. header[c].h1[j] = header[Row(c) + j].h0
      BY <1>18, <2>3 DEF Known, Hashed
    <3> QED
      BY <1>8, <1>13, <2>1, <2>3, <3>1
  <2> QED
    BY <2>2, <2>3
<1>19. ASSUME g \in FullGroups, NEW i \in Rows, NEW j \in Rows, Known(at, n, suspect, FirstOf(g, i) + j)
       PROVE  h2[i][j] = new.header[FirstOf(g, i) + j].h0
  <2>1. FirstOf(g, i) \in C /\ Row(FirstOf(g, i)) = FirstOf(g, i)
    BY <1>19, FullRows
  <2>2. i * Sub < m
    <3>1. i \in Nat /\ i + 1 <= Sub
      BY Sizes DEF Rows
    <3>2. (i + 1) * Sub <= Sub * Sub /\ (i + 1) * Sub = i * Sub + Sub /\ i * Sub \in Nat
      BY <3>1, Sizes
    <3> QED
      BY <1>9, <1>19, <3>2, Sizes DEF Group
  <2> QED
    BY <1>10, <1>18, <1>19, <2>1, <2>2
<1>20. BufferHashed(g, new.header, new.data, suspect, new.header[g * Group].h2, at, n)
  <2>1. new.header[g * Group].h2 = h2
    BY <1>3, <1>11
  <2>2. ASSUME g \in FullGroups, NEW c \in C, NEW j \in Rows, Known(at, n, suspect, Row(c) + j)
        PROVE  new.header[c].h1[j] = new.header[Row(c) + j].h0
    <3>1. new.header[c].h1 = h1[c]
      BY <1>11
    <3>2. h1[c][j] = new.header[Row(c) + j].h0
      BY <1>18, <2>2
    <3> QED
      BY <3>1, <3>2
  <2>3. \A c \in C : new.header[c].h2 = h2
    BY <1>11
  <2>4. PICK nh, nb, top : nh = new.header /\ nb = new.data /\ top = h2
    OBVIOUS
  <2>5. \A c \in C : Known(at, n, suspect, c) => nh[c].h0 = nb[c]
    BY <1>17, <2>4
  <2>6. ASSUME g \in FullGroups
        PROVE  /\ \A c \in C, j \in Rows : Known(at, n, suspect, Row(c) + j) => nh[c].h1[j] = nh[Row(c) + j].h0
               /\ \A i, j \in Rows :
                    Known(at, n, suspect, FirstOf(g, i) + j) => top[i][j] = nh[FirstOf(g, i) + j].h0
    BY <1>19, <2>2, <2>4, <2>6
  <2>7. \A c \in C : nh[c].h2 = top
    BY <2>3, <2>4
  <2>8. BufferHashed(g, nh, nb, suspect, top, at, n)
    BY <2>5, <2>6, <2>7 DEF BufferHashed
  <2> QED
    BY <2>1, <2>4, <2>8
<1>21. new.data \in [C -> Block]
  BY <1>2, <1>6
<1> QED
  BY <1>12, <1>13, <1>14, <1>20, <1>21

LEMMA StepBeginGroup ==
  ASSUME IInv, BeginGroup
  PROVE  IInv'
<1>1. /\ call.pc = "loop" /\ call.written < call.size /\ CallIsOn /\ ~Open
      /\ call' = [call EXCEPT !.pc = "header", !.todo = CurrentGroup * Group]
      /\ UNCHANGED <<data, header, seal, h3, h4, signed, writes, suspect, behind, rootLost>>
  BY DEF BeginGroup, disc, IInv, CallOK, Open
<1>2. PICK g \in Groups, n \in Nat \ {0}, at \in Nat : g = CurrentGroup /\ n = ToWrite /\ at = call.at
  BY <1>1, Extent
<1>3. PICK got \in {n, n - 1} :
        LET new == NewGroup(g, at, n, got)
        IN /\ buffer' = new
           /\ m_h3' = [m_h3 EXCEPT ![g] = new.header[g * Group].h2]
           /\ intended' = [u \in DOMAIN intended |->
                IF u \in at .. at + got - 1 THEN writes
                ELSE IF u \in at .. at + n - 1 THEN Garbage ELSE intended[u]]
  BY <1>2 DEF BeginGroup
<1>4. PICK new : /\ new = NewGroup(g, at, n, got) /\ buffer' = new
                 /\ m_h3' = [m_h3 EXCEPT ![g] = new.header[g * Group].h2]
                 /\ intended' = [u \in DOMAIN intended |->
                      IF u \in at .. at + got - 1 THEN writes
                      ELSE IF u \in at .. at + n - 1 THEN Garbage ELSE intended[u]]
  BY <1>3
<1>5. got \in Nat /\ got <= n
  OBVIOUS
<1>6. /\ at + n <= Count * Units
      /\ \A c \in Nat : Covers(at, n, c) => c \in InGroup(g)
      /\ n = Group * Units => \A c \in InGroup(g), u \in Columns : c * Units + u \in at .. at + n - 1
      /\ \A c \in Clusters, u \in Columns : c * Units + u \in at .. at + n - 1 => Covers(at, n, c)
  BY <1>1, <1>2, Extent
<1>7. Hashed(g, header, data, seal, suspect) /\ Kept(g, header, data, seal, intended) /\ Types
  BY <1>1, <1>2 DEF IInv, AtRest, ContentAtRest, OpenGroup
<1>8. /\ new.data \in [InGroup(g) -> Block] /\ new.header \in [InGroup(g) -> Headers]
      /\ \A c \in InGroup(g) : ~Covers(at, n, c) => new.header[c].h0 = header[c].h0
      /\ BufferHashed(g, new.header, new.data, suspect, new.header[g * Group].h2, at, n)
      /\ \A c \in InGroup(g), u \in Columns :
           /\ c * Units + u \in at .. at + got - 1 => new.data[c][u] = writes
           /\ c * Units + u \notin at .. at + n - 1 =>
                new.data[c][u] = PlainOf(data[c], header[c], seal[c])[u]
  BY <1>2, <1>4, <1>5, <1>6, <1>7, NewGroupMade, SMTT(30)
<1>9. g * Group \in InGroup(g) /\ InGroup(g) \subseteq Clusters /\ g * Group \in Nat
      /\ \A c \in InGroup(g) : c >= g * Group
  BY <1>2, GroupRange
<1>10. /\ call'.pc = "header" /\ call'.todo = g * Group /\ call'.at = at /\ call'.from = call.from
       /\ call'.size = call.size /\ call'.written = call.written
       /\ call' \in Calls
  <2>1. PICK k \in Nat : k = g * Group
    BY <1>9
  <2>2. call' = [call EXCEPT !.pc = "header", !.todo = k]
    BY <1>1, <1>2, <2>1
  <2>3. call \in Calls
    BY DEF IInv, CallOK
  <2>4. /\ call'.pc = "header" /\ call'.todo = k /\ call'.at = call.at /\ call'.from = call.from
        /\ call'.size = call.size /\ call'.written = call.written
        /\ call' \in Calls
    <3>1. PICK b : b = [call EXCEPT !.pc = "header"]
      OBVIOUS
    <3>2. /\ b.pc = "header" /\ b.at = call.at /\ b.from = call.from
          /\ b.size = call.size /\ b.written = call.written
          /\ b \in Calls
      BY <2>3, <3>1
    <3>3. call' = [b EXCEPT !.todo = k]
      BY <2>2, <2>3, <3>1
    <3> QED
      BY <2>1, <3>2, <3>3
  <2> QED
    BY <1>2, <2>1, <2>4
<1>11. CurrentGroup' = g /\ ToWrite' = n /\ Open' /\ ~Half' /\ CallIsOn'
  <2>1. CurrentGroup' = g
    BY <1>2, <1>10 DEF CurrentGroup
  <2>2. ToWrite' = n
    BY <1>2, <1>10 DEF ToWrite
  <2> QED
    BY <1>1, <1>2, <1>10, <2>1, <2>2 DEF CallIsOn, Open, Half
<1>12. buffer'.data = new.data /\ buffer'.header = new.header /\ m_h3'[g] = new.header[g * Group].h2
       /\ DOMAIN m_h3' = Groups /\ \A h \in Groups : h # g => m_h3'[h] = m_h3[h]
  BY <1>2, <1>4, <1>7 DEF Types
<1>13. \A v \in 0 .. Count * Units - 1 :
         intended'[v] = IF v \in at .. at + got - 1 THEN writes
                        ELSE IF v \in at .. at + n - 1 THEN Garbage ELSE intended[v]
  BY <1>4, <1>7 DEF Types
<1>14. Types'
  <2>1. writes \in Values /\ Garbage \in Values
    BY <1>7 DEF Types, Values
  <2>2. intended' \in [0 .. Count * Units - 1 -> Values]
    BY <1>4, <1>7, <2>1 DEF Types
  <2> QED
    BY <1>1, <1>7, <1>12, <2>2 DEF Types
<1>15. CallOK'
  BY <1>1, <1>8, <1>9, <1>10, <1>11, <1>12 DEF CallOK
<1>16. RootOK'
  BY <1>1, <1>10 DEF IInv, RootOK
<1>17. AtRest' /\ TopAtRest'
  BY <1>1 DEF IInv, AtRest, TopAtRest, OpenGroup
<1>18. ContentAtRest'
  <2> SUFFICES ASSUME NEW h \in Groups, h # g PROVE Kept(h, header, data, seal, intended')
    BY <1>1, <1>11 DEF ContentAtRest, OpenGroup
  <2>1. Kept(h, header, data, seal, intended)
    BY <1>1 DEF IInv, ContentAtRest, OpenGroup
  <2>2. ASSUME NEW c \in InGroup(h), NEW u \in Columns
        PROVE  intended'[c * Units + u] = intended[c * Units + u]
    <3>1. c \in Clusters /\ c \in Nat
      BY GroupRange
    <3>2. ~Covers(at, n, c)
      BY <1>6, <3>1, Apart
    <3>3. c * Units + u \in 0 .. Count * Units - 1 /\ c * Units + u \notin at .. at + n - 1
      BY <1>6, <3>1, <3>2, UnitPlace
    <3>4. PICK v : v = c * Units + u
      OBVIOUS
    <3>5. v \notin at .. at + got - 1
      BY <3>3, <3>4
    <3> QED
      BY <1>13, <3>3, <3>4, <3>5
  <2> QED
    BY <2>1, <2>2, KeptSame
<1>19. TopInMemory'
  <2> SUFFICES ASSUME NEW h \in FullGroups, h # g
               PROVE  IF Touched(call.from, at, h) THEN TopIs(h, header, suspect, m_h3'[h])
                                                   ELSE m_h3'[h] = h3[h]
    BY <1>1, <1>10, <1>11 DEF TopInMemory, OpenGroup
  <2>1. m_h3'[h] = m_h3[h]
    BY <1>12, FullGroup
  <2> QED
    BY <1>1, <1>2, <2>1 DEF IInv, TopInMemory, OpenGroup
<1>20. OpenHashed'
  <2>1. BufferHashed(g, buffer'.header, buffer'.data, suspect, m_h3'[g], at, n)
    BY <1>8, <1>12
  <2>2. Written(g, header, data, seal, buffer'.header, buffer'.data, g * Group, FALSE)
    <3>1. \A c \in InGroup(g) : ~(c < g * Group)
      BY <1>9 DEF Clusters
    <3> QED
      BY <3>1 DEF Written
  <2>3. StillHashed(g, header, data, seal, buffer'.header, suspect, at, n, g * Group, FALSE)
    BY <1>7, <1>8, <1>12 DEF StillHashed, Hashed
  <2> QED
    BY <1>1, <1>2, <1>10, <1>11, <2>1, <2>2, <2>3 DEF OpenHashed, Half
<1>21. OpenKept'
  <2>1. ASSUME NEW c \in InGroup(g), NEW u \in Columns, NEW v, v = c * Units + u
        PROVE  /\ intended'[v] = Garbage \/ new.data[c][u] = intended'[v]
               /\ v \notin at .. at + n - 1 =>
                    intended'[v] = Garbage \/ PlainOf(data[c], header[c], seal[c])[u] = intended'[v]
    <3>1. v \in 0 .. Count * Units - 1
      BY <1>9, <2>1, UnitPlace
    <3>2. intended[v] = Garbage \/ PlainOf(data[c], header[c], seal[c])[u] = intended[v]
      BY <1>7, <2>1 DEF Kept
    <3>3. v \notin at .. at + n - 1 => v \notin at .. at + got - 1
      OBVIOUS
    <3>4. intended'[v] = IF v \in at .. at + got - 1 THEN writes
                         ELSE IF v \in at .. at + n - 1 THEN Garbage ELSE intended[v]
      BY <1>13, <3>1
    <3>5. /\ v \in at .. at + got - 1 => new.data[c][u] = writes
          /\ v \notin at .. at + n - 1 => new.data[c][u] = PlainOf(data[c], header[c], seal[c])[u]
      BY <1>8, <2>1
    <3> QED
      BY <3>2, <3>3, <3>4, <3>5
  <2>2. BufferKept(g, buffer'.data, intended')
    BY <1>12, <2>1 DEF BufferKept
  <2>3. StillKept(g, header, data, seal, intended', at, n, g * Group, FALSE)
    BY <2>1 DEF StillKept
  <2> QED
    BY <1>1, <1>2, <1>10, <1>11, <2>2, <2>3 DEF OpenKept, Half
<1> QED
  BY <1>14, <1>15, <1>16, <1>17, <1>18, <1>19, <1>20, <1>21 DEF IInv

-----------------------------------------------------------------------------
(* A cluster is written                                                    *)

(* The group that is open, and what is left of it to write.                *)
LEMMA OpenCall ==
  ASSUME IInv, Open
  PROVE  /\ CallIsOn /\ call.written < call.size
         /\ CurrentGroup \in Groups /\ call.todo \in InGroup(CurrentGroup) /\ call.todo \in Nat
         /\ CurrentGroup \in Nat /\ ToWrite \in Nat \ {0} /\ call.at \in Nat
         /\ buffer.data \in [InGroup(CurrentGroup) -> Block]
         /\ buffer.header \in [InGroup(CurrentGroup) -> Headers]
         /\ InGroup(CurrentGroup) \subseteq Clusters
<1>1. CallIsOn /\ call.written < call.size
      /\ call.todo \in InGroup(CurrentGroup)
      /\ buffer.data \in [InGroup(CurrentGroup) -> Block]
      /\ buffer.header \in [InGroup(CurrentGroup) -> Headers]
  BY DEF IInv, CallOK, Open
<1>2. CurrentGroup \in Groups /\ ToWrite \in Nat \ {0} /\ call.at \in Nat
  BY <1>1, Extent
<1>3. CurrentGroup \in Nat /\ InGroup(CurrentGroup) \subseteq Clusters /\ call.todo \in Nat
  BY <1>1, <1>2, GroupRange
<1> QED
  BY <1>1, <1>2, <1>3

LEMMA StepWriteHeader ==
  ASSUME IInv, WriteHeader
  PROVE  IInv'
<1>1. /\ call.pc = "header" /\ call' = [call EXCEPT !.pc = "data"]
      /\ header' = [header EXCEPT ![call.todo] = buffer.header[call.todo]]
      /\ UNCHANGED <<data, seal, h3, h4, signed, buffer, m_h3, writes, suspect, behind, intended, rootLost>>
  BY DEF WriteHeader, ghosts
<1>2. Open /\ ~Half
  BY <1>1 DEF Open, Half
<1>3. PICK g \in Groups, t \in Nat, n \in Nat \ {0}, at \in Nat :
        g = CurrentGroup /\ t = call.todo /\ t \in InGroup(g) /\ n = ToWrite /\ at = call.at
  BY <1>2, OpenCall
<1>4. PICK bh \in [InGroup(g) -> Headers], bd \in [InGroup(g) -> Block] :
        bh = buffer.header /\ bd = buffer.data
  BY <1>2, <1>3, OpenCall
<1>5. /\ call'.pc = "data" /\ call'.todo = t /\ call'.at = at /\ call'.from = call.from
      /\ call'.size = call.size /\ call'.written = call.written
      /\ call' \in Calls
  BY <1>1, <1>3 DEF IInv, CallOK
<1>6. CurrentGroup' = g /\ ToWrite' = n /\ Open' /\ Half' /\ CallIsOn'
  <2>1. CurrentGroup' = g
    BY <1>3, <1>5 DEF CurrentGroup
  <2>2. ToWrite' = n
    BY <1>3, <1>5 DEF ToWrite
  <2>3. CallIsOn
    BY <1>2, OpenCall
  <2> QED
    BY <1>3, <1>5, <2>1, <2>2, <2>3 DEF CallIsOn, Open, Half
<1>7. InGroup(g) \subseteq Clusters /\ \A c \in InGroup(g) : c \in Nat
  BY GroupRange
<1>8. /\ header \in [Clusters -> Headers] /\ data \in [Clusters -> Block]
      /\ header' \in [Clusters -> Headers]
      /\ header'[t] = bh[t] /\ \A c \in Clusters : c # t => header'[c] = header[c]
  <2>1. header \in [Clusters -> Headers] /\ data \in [Clusters -> Block] /\ t \in Clusters /\ bh[t] \in Headers
    BY <1>3, <1>7 DEF IInv, Types
  <2>2. header' = [header EXCEPT ![t] = bh[t]]
    BY <1>1, <1>3, <1>4
  <2> QED
    BY <2>1, <2>2
<1>9. Types'
  BY <1>1, <1>8 DEF IInv, Types
<1>10. CallOK'
  BY <1>1, <1>2, <1>3, <1>4, <1>5, <1>6, OpenCall DEF CallOK
<1>11. RootOK'
  BY <1>1, <1>5 DEF IInv, RootOK
<1>12. \A h \in Groups : h # g => \A c \in InGroup(h) : c # t /\ c \in Clusters /\ header'[c] = header[c]
  BY <1>3, <1>8, Apart, GroupRange
<1>13. AtRest'
  <2> SUFFICES ASSUME NEW h \in Groups, h # g PROVE Hashed(h, header', data, seal, suspect)
    BY <1>1, <1>6 DEF AtRest, OpenGroup
  <2>1. Hashed(h, header, data, seal, suspect)
    BY <1>3 DEF IInv, AtRest, OpenGroup
  <2> QED
    BY <1>12, <2>1, HashedSame
<1>14. TopAtRest'
  <2> SUFFICES ASSUME NEW h \in FullGroups, h # g, h \notin behind
               PROVE  TopIs(h, header', suspect, h3[h])
    BY <1>1, <1>6 DEF TopAtRest, OpenGroup
  <2>1. TopIs(h, header, suspect, h3[h]) /\ h \in Groups
    BY <1>3, FullGroup DEF IInv, TopAtRest, OpenGroup
  <2> QED
    BY <1>12, <2>1, TopSame
<1>15. ContentAtRest'
  <2> SUFFICES ASSUME NEW h \in Groups, h # g PROVE Kept(h, header', data, seal, intended)
    BY <1>1, <1>6 DEF ContentAtRest, OpenGroup
  <2>1. Kept(h, header, data, seal, intended)
    BY <1>3 DEF IInv, ContentAtRest, OpenGroup
  <2> QED
    BY <1>12, <2>1, KeptSame
<1>16. TopInMemory'
  <2> SUFFICES ASSUME NEW h \in FullGroups, h # g
               PROVE  IF Touched(call.from, at, h) THEN TopIs(h, header', suspect, m_h3[h])
                                                   ELSE m_h3[h] = h3[h]
    BY <1>1, <1>5, <1>6 DEF TopInMemory, OpenGroup
  <2>1. h \in Groups
    BY FullGroup
  <2>2. IF Touched(call.from, at, h) THEN TopIs(h, header, suspect, m_h3[h]) ELSE m_h3[h] = h3[h]
    BY <1>1, <1>3 DEF IInv, TopInMemory, OpenGroup
  <2> QED
    BY <1>12, <2>1, <2>2, TopSame
<1>17. /\ BufferHashed(g, bh, bd, suspect, m_h3[g], at, n)
       /\ Written(g, header, data, seal, bh, bd, t, FALSE)
       /\ StillHashed(g, header, data, seal, bh, suspect, at, n, t, FALSE)
       /\ BufferKept(g, bd, intended)
       /\ StillKept(g, header, data, seal, intended, at, n, t, FALSE)
  <2>1. Half = FALSE
    BY <1>1 DEF Half
  <2>2. /\ BufferHashed(g, bh, bd, suspect, m_h3[g], at, n)
        /\ Written(g, header, data, seal, bh, bd, t, Half)
        /\ StillHashed(g, header, data, seal, bh, suspect, at, n, t, Half)
        /\ BufferKept(g, bd, intended)
        /\ StillKept(g, header, data, seal, intended, at, n, t, Half)
    BY <1>2, <1>3, <1>4 DEF IInv, OpenHashed, OpenKept
  <2> QED
    BY <2>1, <2>2
<1>18. Written(g, header', data, seal, bh, bd, t, TRUE)
  BY <1>7, <1>8, <1>17 DEF Written
<1>19. StillHashed(g, header', data, seal, bh, suspect, at, n, t, TRUE)
  <2>1. \A c \in InGroup(g) : ~Covers(at, n, c) => bh[c].h0 = header'[c].h0
    BY <1>7, <1>8, <1>17 DEF StillHashed
  <2>2. \A c \in InGroup(g) : c \notin suspect /\ c > t => header'[c].h0 = PlainOf(data[c], header'[c], seal[c])
    BY <1>7, <1>8, <1>17 DEF StillHashed
  <2>3. ASSUME g \in FullGroups, NEW c \in InGroup(g), NEW j \in Rows,
               Row(c) + j \notin suspect, ~Covers(at, n, Row(c) + j)
        PROVE  header'[c].h1[j] = header'[Row(c) + j].h0
    <3>1. Row(c) + j \in InGroup(g)
      BY <2>3, FullRows
    <3>2. bh[c].h1[j] = bh[Row(c) + j].h0 /\ header[c].h1[j] = header[Row(c) + j].h0
      BY <1>17, <2>3 DEF BufferHashed, StillHashed, Known
    <3>3. bh[Row(c) + j].h0 = header'[Row(c) + j].h0 /\ bh[Row(c) + j].h0 = header[Row(c) + j].h0
      BY <1>17, <2>1, <2>3, <3>1 DEF StillHashed
    <3> QED
      BY <1>7, <1>8, <3>2, <3>3
  <2> QED
    BY <2>1, <2>2, <2>3 DEF StillHashed
<1>20. StillKept(g, header', data, seal, intended, at, n, t, TRUE)
  <2> SUFFICES ASSUME NEW c \in InGroup(g), NEW u \in Columns, c >= t,
                      c * Units + u \notin at .. at + n - 1, c = t => u # 0
               PROVE  intended[c * Units + u] = Garbage
                      \/ PlainOf(data[c], header'[c], seal[c])[u] = intended[c * Units + u]
    BY DEF StillKept
  <2>1. intended[c * Units + u] = Garbage \/ PlainOf(data[c], header[c], seal[c])[u] = intended[c * Units + u]
    BY <1>17 DEF StillKept
  <2>2. PlainOf(data[c], header'[c], seal[c])[u] = PlainOf(data[c], header[c], seal[c])[u]
    <3>1. data[c] \in Block
      BY <1>7, <1>8
    <3> QED
      BY <1>7, <1>8, <3>1, PlainFacts
  <2> QED
    BY <2>1, <2>2
<1>21. OpenHashed' /\ OpenKept'
  BY <1>1, <1>4, <1>5, <1>6, <1>17, <1>18, <1>19, <1>20 DEF OpenHashed, OpenKept
<1> QED
  BY <1>9, <1>10, <1>11, <1>13, <1>14, <1>15, <1>16, <1>21 DEF IInv

(* After the last cluster of a group there is no other.                    *)
LEMMA LastCluster ==
  ASSUME NEW g \in Groups, NEW t \in InGroup(g), t + 1 \notin InGroup(g), NEW c \in InGroup(g)
  PROVE  c <= t
<1>1. \A x : x \in InGroup(g) <=> x \in Nat /\ g * Group <= x /\ x < g * Group + Group /\ x < Count
  BY GroupRange
<1>2. PICK b \in Nat : b = g * Group
  BY GroupRange
<1> QED
  BY <1>1, <1>2, Sizes

(* The group in memory and the group on the disc while one is open.        *)
LEMMA OpenFacts ==
  ASSUME IInv, Open, NEW g, g = CurrentGroup, NEW half \in BOOLEAN, half = Half
  PROVE  /\ BufferHashed(g, buffer.header, buffer.data, suspect, m_h3[g], call.at, ToWrite)
         /\ Written(g, header, data, seal, buffer.header, buffer.data, call.todo, half)
         /\ StillHashed(g, header, data, seal, buffer.header, suspect, call.at, ToWrite, call.todo, half)
         /\ BufferKept(g, buffer.data, intended)
         /\ StillKept(g, header, data, seal, intended, call.at, ToWrite, call.todo, half)
BY DEF IInv, OpenHashed, OpenKept

LEMMA StepWriteData ==
  ASSUME IInv, WriteData
  PROVE  IInv'
<1>1. /\ call.pc = "data"
      /\ data' = [data EXCEPT ![call.todo] = buffer.data[call.todo]]
      /\ seal' = [seal EXCEPT ![call.todo] = buffer.header[call.todo]]
      /\ \/ /\ LastOfGroup
            /\ call' = [call EXCEPT !.pc = "loop", !.written = @ + ToWrite, !.at = @ + ToWrite]
            /\ suspect' = {c \in suspect : ~ Covers(call.at, ToWrite, c)}
            /\ behind' = behind \union {CurrentGroup}
         \/ /\ ~LastOfGroup
            /\ call' = [call EXCEPT !.pc = "header", !.todo = @ + 1]
            /\ UNCHANGED <<buffer, suspect, behind>>
      /\ UNCHANGED <<header, h3, h4, signed, m_h3, writes, intended, rootLost>>
  BY DEF WriteData
<1>2. Open /\ Half = TRUE
  BY <1>1 DEF Open, Half
<1>3. PICK g \in Groups, t \in Nat, n \in Nat \ {0}, at \in Nat :
        /\ g = CurrentGroup /\ t = call.todo /\ t \in InGroup(g) /\ n = ToWrite /\ at = call.at
        /\ CallIsOn /\ call.written < call.size
  BY <1>2, OpenCall
<1>4. PICK bh \in [InGroup(g) -> Headers], bd \in [InGroup(g) -> Block] :
        bh = buffer.header /\ bd = buffer.data
  BY <1>2, <1>3, OpenCall
<1>5. /\ \A c \in Nat : Covers(at, n, c) => c \in InGroup(g)
      /\ \A v \in at .. at + n - 1 : v \div Units \in InGroup(g)
      /\ call.written + n <= call.size /\ at + n = call.from + (call.written + n)
  BY <1>3, Extent
<1>6. /\ call \in Calls
      /\ call.from \in Nat /\ call.size \in Nat /\ call.written \in Nat
  BY <1>3 DEF IInv, CallOK, CallIsOn
<1>7. InGroup(g) \subseteq Clusters /\ \A c \in InGroup(g) : c \in Nat
  BY GroupRange
<1>8. /\ header \in [Clusters -> Headers] /\ data \in [Clusters -> Block] /\ seal \in [Clusters -> Headers]
      /\ data' \in [Clusters -> Block] /\ seal' \in [Clusters -> Headers]
      /\ data'[t] = bd[t] /\ seal'[t] = bh[t]
      /\ \A c \in Clusters : c # t => data'[c] = data[c] /\ seal'[c] = seal[c]
  <2>1. /\ header \in [Clusters -> Headers] /\ data \in [Clusters -> Block] /\ seal \in [Clusters -> Headers]
        /\ t \in Clusters /\ bh[t] \in Headers /\ bd[t] \in Block
    BY <1>3, <1>4, <1>7 DEF IInv, Types
  <2>2. data' = [data EXCEPT ![t] = bd[t]] /\ seal' = [seal EXCEPT ![t] = bh[t]]
    BY <1>1, <1>3, <1>4
  <2> QED
    BY <2>1, <2>2
<1>9. /\ BufferHashed(g, bh, bd, suspect, m_h3[g], at, n)
      /\ Written(g, header, data, seal, bh, bd, t, TRUE)
      /\ StillHashed(g, header, data, seal, bh, suspect, at, n, t, TRUE)
      /\ BufferKept(g, bd, intended)
      /\ StillKept(g, header, data, seal, intended, at, n, t, TRUE)
  BY <1>2, <1>3, <1>4, OpenFacts
<1>10. \A c \in InGroup(g) : c <= t => header[c] = bh[c] /\ data'[c] = bd[c] /\ seal'[c] = header[c]
  <2>1. header[t] = bh[t] /\ \A c \in InGroup(g) : c < t => header[c] = bh[c] /\ data[c] = bd[c] /\ seal[c] = header[c]
    BY <1>9 DEF Written
  <2>2. \A c \in InGroup(g) : c <= t => c < t \/ c = t
    BY <1>3, <1>7
  <2> QED
    BY <1>3, <1>7, <1>8, <2>1, <2>2
<1>11. \A h \in Groups : h # g =>
         \A c \in InGroup(h) : c # t /\ data'[c] = data[c] /\ seal'[c] = seal[c] /\ (c \in suspect => c \in suspect')
  <2> SUFFICES ASSUME NEW h \in Groups, h # g, NEW c \in InGroup(h)
               PROVE  c # t /\ data'[c] = data[c] /\ seal'[c] = seal[c] /\ (c \in suspect => c \in suspect')
    OBVIOUS
  <2>1. c # t /\ c \notin InGroup(g) /\ c \in Clusters /\ c \in Nat
    BY <1>3, Apart, GroupRange
  <2>2. ~Covers(at, n, c)
    BY <1>5, <2>1
  <2>3. c \in suspect => c \in suspect'
    BY <1>1, <1>3, <2>2
  <2> QED
    BY <1>8, <2>1, <2>3
<1>12. Types'
  BY <1>1, <1>8 DEF IInv, Types
<1>13. RootOK'
  <2>1. call'.pc \in {"loop", "header"}
    BY <1>1, <1>6
  <2> QED
    BY <1>1, <2>1 DEF IInv, RootOK
<1>14. \A h \in Groups : h # g => Hashed(h, header, data', seal', suspect')
  <2> SUFFICES ASSUME NEW h \in Groups, h # g PROVE Hashed(h, header, data', seal', suspect')
    OBVIOUS
  <2>1. Hashed(h, header, data, seal, suspect)
    BY <1>3 DEF IInv, AtRest, OpenGroup
  <2> QED
    BY <1>11, <2>1, HashedSame
<1>15. \A h \in FullGroups : h # g /\ h \notin behind' => TopIs(h, header, suspect', h3[h])
  <2> SUFFICES ASSUME NEW h \in FullGroups, h # g, h \notin behind'
               PROVE  TopIs(h, header, suspect', h3[h])
    OBVIOUS
  <2>1. h \notin behind /\ h \in Groups
    BY <1>1, FullGroup
  <2>2. TopIs(h, header, suspect, h3[h])
    BY <1>3, <2>1 DEF IInv, TopAtRest, OpenGroup
  <2> QED
    BY <1>11, <2>1, <2>2, TopSame
<1>16. \A h \in Groups : h # g => Kept(h, header, data', seal', intended)
  <2> SUFFICES ASSUME NEW h \in Groups, h # g PROVE Kept(h, header, data', seal', intended)
    OBVIOUS
  <2>1. Kept(h, header, data, seal, intended)
    BY <1>3 DEF IInv, ContentAtRest, OpenGroup
  <2> QED
    BY <1>11, <2>1, KeptSame
<1>17. \A h \in FullGroups : h # g =>
         IF Touched(call.from, at, h) THEN TopIs(h, header, suspect', m_h3[h]) ELSE m_h3[h] = h3[h]
  <2> SUFFICES ASSUME NEW h \in FullGroups, h # g
               PROVE  IF Touched(call.from, at, h) THEN TopIs(h, header, suspect', m_h3[h])
                                                   ELSE m_h3[h] = h3[h]
    OBVIOUS
  <2>1. h \in Groups
    BY FullGroup
  <2>2. IF Touched(call.from, at, h) THEN TopIs(h, header, suspect, m_h3[h]) ELSE m_h3[h] = h3[h]
    BY <1>1, <1>3 DEF IInv, TopInMemory, OpenGroup
  <2> QED
    BY <1>11, <2>1, <2>2, TopSame
<1>18. CASE ~LastOfGroup
  <2>1. /\ call' = [call EXCEPT !.pc = "header", !.todo = @ + 1]
        /\ UNCHANGED <<buffer, suspect, behind>>
    BY <1>1, <1>18
  <2>2. t + 1 \in InGroup(g)
    BY <1>3, <1>4, <1>18 DEF LastOfGroup
  <2>3. /\ call'.pc = "header" /\ call'.todo = t + 1 /\ call'.at = at /\ call'.from = call.from
        /\ call'.size = call.size /\ call'.written = call.written
        /\ call' \in Calls
    <3>1. PICK b : b = [call EXCEPT !.pc = "header"]
      OBVIOUS
    <3>2. /\ b.pc = "header" /\ b.at = at /\ b.from = call.from
          /\ b.size = call.size /\ b.written = call.written
          /\ b \in Calls
      BY <1>3, <1>6, <3>1
    <3>3. call' = [b EXCEPT !.todo = t + 1]
      BY <1>3, <1>6, <2>1, <3>1
    <3> QED
      BY <1>3, <3>2, <3>3
  <2>4. CurrentGroup' = g /\ ToWrite' = n /\ Open' /\ Half' = FALSE /\ CallIsOn'
    <3>1. CurrentGroup' = g
      BY <1>3, <2>3 DEF CurrentGroup
    <3>2. ToWrite' = n
      BY <1>3, <2>3 DEF ToWrite
    <3> QED
      BY <1>3, <2>3, <3>1, <3>2 DEF CallIsOn, Open, Half
  <2>5. CallOK'
    BY <1>3, <1>4, <2>1, <2>2, <2>3, <2>4 DEF CallOK
  <2>6. AtRest' /\ TopAtRest' /\ ContentAtRest'
    BY <1>1, <1>14, <1>15, <1>16, <2>1, <2>4, FullGroup DEF AtRest, TopAtRest, ContentAtRest, OpenGroup
  <2>7. TopInMemory'
    BY <1>1, <1>17, <2>1, <2>3, <2>4 DEF TopInMemory, OpenGroup
  <2>8. Written(g, header, data', seal', bh, bd, t + 1, FALSE)
    <3>1. \A c \in InGroup(g) : c < t + 1 => c <= t
      BY <1>3, <1>7
    <3> QED
      BY <1>10, <3>1 DEF Written
  <2>9. StillHashed(g, header, data', seal', bh, suspect, at, n, t + 1, FALSE)
    <3>1. \A c \in InGroup(g) : c > t + 1 \/ c = t + 1 => c > t /\ c # t /\ data'[c] = data[c] /\ seal'[c] = seal[c]
      BY <1>3, <1>7, <1>8
    <3> QED
      BY <1>9, <3>1 DEF StillHashed
  <2>10. StillKept(g, header, data', seal', intended, at, n, t + 1, FALSE)
    <3>1. \A c \in InGroup(g) : c >= t + 1 => c >= t /\ c # t /\ data'[c] = data[c] /\ seal'[c] = seal[c]
      BY <1>3, <1>7, <1>8
    <3> QED
      BY <1>9, <3>1 DEF StillKept
  <2>11. OpenHashed' /\ OpenKept'
    BY <1>1, <1>4, <1>9, <2>1, <2>3, <2>4, <2>8, <2>9, <2>10 DEF OpenHashed, OpenKept
  <2> QED
    BY <1>12, <1>13, <2>5, <2>6, <2>7, <2>11 DEF IInv
<1>19. CASE LastOfGroup
  <2>1. /\ call' = [call EXCEPT !.pc = "loop", !.written = @ + n, !.at = @ + n]
        /\ suspect' = {c \in suspect : ~ Covers(at, n, c)}
        /\ behind' = behind \union {g}
    BY <1>1, <1>3, <1>19
  <2>2. \A c \in InGroup(g) : header[c] = bh[c] /\ data'[c] = bd[c] /\ seal'[c] = header[c]
    <3>1. t + 1 \notin InGroup(g)
      BY <1>3, <1>4, <1>19 DEF LastOfGroup
    <3>2. \A c \in InGroup(g) : c <= t
      BY <1>3, <3>1, LastCluster
    <3> QED
      BY <1>10, <3>2
  <2>3. /\ call'.pc = "loop" /\ call'.at = at + n /\ call'.from = call.from
        /\ call'.size = call.size /\ call'.written = call.written + n
        /\ call' \in Calls
    <3>1. PICK b : b = [call EXCEPT !.pc = "loop"]
      OBVIOUS
    <3>2. /\ b.pc = "loop" /\ b.at = at /\ b.from = call.from
          /\ b.size = call.size /\ b.written = call.written
          /\ b \in Calls
      BY <1>3, <1>6, <3>1
    <3>3. PICK d : d = [b EXCEPT !.written = call.written + n]
      OBVIOUS
    <3>4. /\ d.pc = "loop" /\ d.at = at /\ d.from = call.from
          /\ d.size = call.size /\ d.written = call.written + n
          /\ d \in Calls
      BY <1>3, <1>6, <3>2, <3>3
    <3>5. call' = [d EXCEPT !.at = at + n]
      BY <1>3, <1>6, <2>1, <3>1, <3>3
    <3> QED
      BY <1>3, <3>4, <3>5
  <2>4. ~Open' /\ CallIsOn'
    BY <1>3, <1>5, <1>6, <2>3 DEF Open, CallIsOn
  <2>5. CallOK'
    BY <2>3, <2>4 DEF CallOK
  <2>6. \A c \in InGroup(g) : c \notin suspect' => Known(at, n, suspect, c)
    BY <2>1 DEF Known
  <2>7. Hashed(g, header, data', seal', suspect')
    <3>1. \A c \in InGroup(g) : c \notin suspect' => header[c].h0 = PlainOf(data'[c], header[c], seal'[c])
      BY <1>9, <2>2, <2>6 DEF BufferHashed, PlainOf
    <3>2. ASSUME g \in FullGroups, NEW c \in InGroup(g), NEW j \in Rows, Row(c) + j \notin suspect'
          PROVE  header[c].h1[j] = header[Row(c) + j].h0
      <4>1. Row(c) + j \in InGroup(g)
        BY <3>2, FullRows
      <4> QED
        BY <1>9, <2>2, <2>6, <3>2, <4>1 DEF BufferHashed
    <3> QED
      BY <3>1, <3>2 DEF Hashed
  <2>8. Kept(g, header, data', seal', intended)
    BY <1>9, <2>2 DEF BufferKept, Kept, PlainOf
  <2>9. g \in FullGroups => TopIs(g, header, suspect', m_h3[g])
    <3> SUFFICES ASSUME g \in FullGroups PROVE TopIs(g, header, suspect', m_h3[g])
      OBVIOUS
    <3>1. \A i, j \in Rows : FirstOf(g, i) + j \in InGroup(g)
      BY FullRows
    <3>2. PICK top : top = m_h3[g]
      OBVIOUS
    <3>3. /\ \A c \in InGroup(g) : bh[c].h2 = top
          /\ \A i, j \in Rows :
               Known(at, n, suspect, FirstOf(g, i) + j) => top[i][j] = bh[FirstOf(g, i) + j].h0
      BY <1>9, <3>2 DEF BufferHashed
    <3>4. TopIs(g, header, suspect', top)
      BY <2>2, <2>6, <3>1, <3>3 DEF TopIs
    <3> QED
      BY <3>2, <3>4
  <2>10. AtRest' /\ ContentAtRest'
    BY <1>1, <1>14, <1>16, <2>7, <2>8 DEF AtRest, ContentAtRest
  <2>11. TopAtRest'
    BY <1>1, <1>15, <2>1 DEF TopAtRest
  <2>12. \A h : h # g => (Touched(call.from, at + n, h) <=> Touched(call.from, at, h))
    <3> SUFFICES ASSUME NEW h, h # g
                 PROVE  Touched(call.from, at + n, h) <=> Touched(call.from, at, h)
      OBVIOUS
    <3>1. \A v \in call.from .. at + n - 1 : v \in call.from .. at - 1 \/ v \in at .. at + n - 1
      BY <1>3, <1>6
    <3>2. \A v \in call.from .. at - 1 : v \in call.from .. at + n - 1
      BY <1>3, <1>6
    <3>3. \A v \in at .. at + n - 1 : GroupOf(v \div Units) # h
      BY <1>5 DEF InGroup
    <3> QED
      BY <3>1, <3>2, <3>3 DEF Touched
  <2>13. Touched(call.from, at + n, g)
    <3>1. at \in at .. at + n - 1 /\ at \in call.from .. at + n - 1
      BY <1>3, <1>6 DEF CallIsOn
    <3>2. GroupOf(at \div Units) = g
      BY <1>5, <3>1 DEF InGroup
    <3> QED
      BY <3>1, <3>2 DEF Touched
  <2>14. TopInMemory'
    <3> SUFFICES ASSUME NEW h \in FullGroups
                 PROVE  IF Touched(call.from, at + n, h) THEN TopIs(h, header, suspect', m_h3[h])
                                                         ELSE m_h3[h] = h3[h]
      BY <1>1, <2>3 DEF TopInMemory
    <3>1. CASE h = g
      BY <2>9, <2>13, <3>1
    <3>2. CASE h # g
      BY <1>17, <2>12, <3>2
    <3> QED
      BY <3>1, <3>2
  <2>15. OpenHashed' /\ OpenKept'
    BY <2>4 DEF OpenHashed, OpenKept
  <2> QED
    BY <1>12, <1>13, <2>5, <2>10, <2>11, <2>14, <2>15 DEF IInv
<1> QED
  BY <1>18, <1>19

-----------------------------------------------------------------------------
(* A call that ends early                                                  *)

LEMMA Ended ==
  ASSUME IInv, call' = Idle, UNCHANGED <<header, h3, h4, signed, writes, rootLost>>,
         data' \in [Clusters -> Block], seal' \in [Clusters -> Headers], DOMAIN m_h3' = Groups,
         intended' \in [0 .. Count * Units - 1 -> Values], suspect' \subseteq Clusters,
         AtRest', TopAtRest', ContentAtRest'
  PROVE  IInv'
<1>1. call'.pc = "idle" /\ ~Open'
  BY DEF Idle, Open
<1>2. Types'
  BY DEF IInv, Types
<1>3. CallOK'
  <2>1. call' \in Calls
    BY DEF Idle
  <2> QED
    BY <1>1, <2>1 DEF CallOK
<1>4. RootOK' /\ TopInMemory' /\ OpenHashed' /\ OpenKept'
  BY <1>1 DEF IInv, RootOK, TopInMemory, OpenHashed, OpenKept
<1> QED
  BY <1>2, <1>3, <1>4 DEF IInv

(* Between groups nothing on the disc is in doubt.                         *)
LEMMA EndsClosed ==
  ASSUME IInv, ~Open, NEW torn, Abandon(torn), UNCHANGED <<data, seal>>, DOMAIN m_h3' = Groups
  PROVE  IInv'
<1>1. /\ call' = Idle /\ UNCHANGED <<header, h3, h4, signed, writes, rootLost, suspect, behind>>
      /\ intended' = [u \in DOMAIN intended |-> intended[u]]
  BY DEF Abandon, Open
<1>2. Types
  BY DEF IInv
<1>3. intended' = intended
  BY <1>1, <1>2 DEF Types
<1>4. ~Open'
  BY <1>1 DEF Open, Idle
<1>5. AtRest' /\ TopAtRest' /\ ContentAtRest'
  BY <1>1, <1>3, <1>4, RestSame
<1> QED
  BY <1>1, <1>2, <1>3, <1>5, Ended DEF Types

(* Of the group that was open only what was left of the old contents, and  *)
(* what was written whole, is expected to be read.                         *)
LEMMA EndsOpen ==
  ASSUME IInv, Open, NEW torn, Abandon(torn), DOMAIN m_h3' = Groups,
         \A v \in torn : v \div Units = call.todo,
         torn = {} => ~Half /\ UNCHANGED <<data, seal>>,
         data' \in [Clusters -> Block], seal' \in [Clusters -> Headers],
         \A c \in Clusters : c # call.todo => data'[c] = data[c] /\ seal'[c] = seal[c],
         \A u \in Columns :
           \/ call.todo * Units + u \in torn \union (call.at .. call.at + ToWrite - 1)
           \/ intended[call.todo * Units + u] = Garbage
           \/ PlainOf(data'[call.todo], header[call.todo], seal'[call.todo])[u]
                = intended[call.todo * Units + u]
  PROVE  IInv'
<1>1. PICK g \in Groups, t \in Nat, n \in Nat \ {0}, at \in Nat :
        g = CurrentGroup /\ t = call.todo /\ t \in InGroup(g) /\ n = ToWrite /\ at = call.at
  BY OpenCall
<1>2. PICK bh \in [InGroup(g) -> Headers], bd \in [InGroup(g) -> Block] :
        bh = buffer.header /\ bd = buffer.data
  BY <1>1, OpenCall
<1>3. PICK half \in BOOLEAN : half = Half
  BY DEF Half
<1>4. /\ BufferHashed(g, bh, bd, suspect, m_h3[g], at, n)
      /\ Written(g, header, data, seal, bh, bd, t, half)
      /\ StillHashed(g, header, data, seal, bh, suspect, at, n, t, half)
      /\ BufferKept(g, bd, intended)
      /\ StillKept(g, header, data, seal, intended, at, n, t, half)
  BY <1>1, <1>2, <1>3, OpenFacts
<1>5. PICK lost : lost = torn \union (at .. at + n - 1)
  OBVIOUS
<1>6. /\ call' = Idle /\ UNCHANGED <<header, h3, h4, signed, writes, rootLost>>
      /\ suspect' = suspect \union {c \in Clusters : Covers(at, n, c) /\ GroupOf(c) = g}
                            \union {u \div Units : u \in torn}
      /\ behind' = behind \union {g}
      /\ intended' = [u \in DOMAIN intended |-> IF u \in lost THEN Garbage ELSE intended[u]]
  BY <1>1, <1>5 DEF Abandon, Open
<1>7. InGroup(g) \subseteq Clusters /\ \A c \in InGroup(g) : c \in Nat
  BY GroupRange
<1>8. Types
  BY DEF IInv
<1>9. /\ intended' \in [0 .. Count * Units - 1 -> Values]
      /\ \A v \in 0 .. Count * Units - 1 : intended'[v] = IF v \in lost THEN Garbage ELSE intended[v]
  <2>1. Garbage \in Values
    BY DEF Values
  <2> QED
    BY <1>6, <1>8, <2>1 DEF Types
<1>10. suspect' \subseteq Clusters /\ suspect \subseteq suspect'
  <2>1. \A v \in torn : v \div Units \in Clusters
    BY <1>1, <1>7
  <2> QED
    BY <1>6, <1>8, <2>1 DEF Types
<1>11. \A c \in InGroup(g) : c \notin suspect' =>
         c \notin suspect /\ ~Covers(at, n, c) /\ (c = t => ~half /\ data'[c] = data[c] /\ seal'[c] = seal[c])
  <2> SUFFICES ASSUME NEW c \in InGroup(g), c \notin suspect'
               PROVE  c \notin suspect /\ ~Covers(at, n, c)
                      /\ (c = t => ~half /\ data'[c] = data[c] /\ seal'[c] = seal[c])
    OBVIOUS
  <2>1. c \notin suspect /\ ~Covers(at, n, c)
    BY <1>6 DEF InGroup
  <2>2. c = t => torn = {}
    BY <1>1, <1>6
  <2> QED
    BY <1>3, <2>1, <2>2
<1>12. ~Open'
  BY <1>6 DEF Open, Idle
<1>13. \A h \in Groups : h # g => \A c \in InGroup(h) : data'[c] = data[c] /\ seal'[c] = seal[c]
  BY <1>1, Apart, GroupRange
<1>14. AtRest'
  <2> SUFFICES ASSUME NEW h \in Groups PROVE Hashed(h, header, data', seal', suspect')
    BY <1>6 DEF AtRest
  <2>1. CASE h # g
    <3>1. Hashed(h, header, data, seal, suspect)
      BY <1>1, <2>1 DEF IInv, AtRest, OpenGroup
    <3> QED
      BY <1>10, <1>13, <2>1, <3>1, HashedSame
  <2>2. CASE h = g
    <3>1. ASSUME NEW c \in InGroup(g), c \notin suspect'
          PROVE  header[c].h0 = PlainOf(data'[c], header[c], seal'[c])
      <4>1. c \notin suspect /\ c \in Nat /\ c \in Clusters
        BY <1>7, <1>11, <3>1
      <4>2. CASE c < t
        <5>1. header[c] = bh[c] /\ data'[c] = bd[c] /\ seal'[c] = header[c]
          BY <1>1, <1>4, <4>1, <4>2 DEF Written
        <5>2. bh[c].h0 = bd[c]
          BY <1>4, <4>1 DEF BufferHashed, Known
        <5> QED
          BY <5>1, <5>2 DEF PlainOf
      <4>3. CASE c >= t
        <5>1. data'[c] = data[c] /\ seal'[c] = seal[c] /\ (c > t \/ (c = t /\ ~half))
          BY <1>1, <1>11, <3>1, <4>1, <4>3
        <5> QED
          BY <1>4, <4>1, <5>1 DEF StillHashed
      <4> QED
        BY <1>1, <4>1, <4>2, <4>3
    <3>2. ASSUME g \in FullGroups, NEW c \in InGroup(g), NEW j \in Rows, Row(c) + j \notin suspect'
          PROVE  header[c].h1[j] = header[Row(c) + j].h0
      <4>1. Row(c) + j \in InGroup(g)
        BY <3>2, FullRows
      <4>2. Row(c) + j \notin suspect /\ ~Covers(at, n, Row(c) + j)
        BY <1>11, <3>2, <4>1
      <4> QED
        BY <1>4, <3>2, <4>2 DEF StillHashed
    <3>3. Hashed(g, header, data', seal', suspect')
      BY <3>1, <3>2 DEF Hashed
    <3> QED
      BY <2>2, <3>3
  <2> QED
    BY <2>1, <2>2
<1>15. TopAtRest'
  <2> SUFFICES ASSUME NEW h \in FullGroups, h # g, h \notin behind PROVE TopIs(h, header, suspect', h3[h])
    BY <1>6 DEF TopAtRest
  <2>1. TopIs(h, header, suspect, h3[h])
    BY <1>1 DEF IInv, TopAtRest, OpenGroup
  <2> QED
    BY <1>10, <2>1, TopSame
<1>16. ContentAtRest'
  <2> SUFFICES ASSUME NEW h \in Groups PROVE Kept(h, header, data', seal', intended')
    BY <1>6 DEF ContentAtRest
  <2>1. CASE h # g
    <3>1. Kept(h, header, data, seal, intended)
      BY <1>1, <2>1 DEF IInv, ContentAtRest, OpenGroup
    <3>2. ASSUME NEW c \in InGroup(h), NEW u \in Columns
          PROVE  intended'[c * Units + u] = Garbage \/ intended'[c * Units + u] = intended[c * Units + u]
      <4>1. c * Units + u \in 0 .. Count * Units - 1
        BY UnitPlace, GroupRange
      <4> QED
        BY <1>9, <4>1
    <3> QED
      BY <1>13, <2>1, <3>1, <3>2, KeptSame
  <2>2. CASE h = g
    <3>1. ASSUME NEW c \in InGroup(g), NEW u \in Columns, NEW v, v = c * Units + u
          PROVE  intended'[v] = Garbage \/ PlainOf(data'[c], header[c], seal'[c])[u] = intended'[v]
      <4>1. v \in 0 .. Count * Units - 1 /\ c \in Nat /\ c \in Clusters
        BY <1>7, <3>1, UnitPlace
      <4>2. CASE v \in lost
        BY <1>9, <4>1, <4>2
      <4>3. CASE v \notin lost
        <5>1. intended'[v] = intended[v] /\ v \notin at .. at + n - 1
          BY <1>5, <1>9, <4>1, <4>3
        <5>2. CASE c < t
          <6>1. header[c] = bh[c] /\ data'[c] = bd[c] /\ seal'[c] = header[c]
            BY <1>1, <1>4, <4>1, <5>2 DEF Written
          <6>2. intended[v] = Garbage \/ bd[c][u] = intended[v]
            BY <1>4, <3>1 DEF BufferKept
          <6> QED
            BY <5>1, <6>1, <6>2 DEF PlainOf
        <5>3. CASE c = t
          <6>1. v = call.todo * Units + u /\ c = call.todo
            BY <1>1, <3>1, <5>3
          <6>2. v \notin torn \union (call.at .. call.at + ToWrite - 1)
            BY <1>1, <1>5, <4>3
          <6> QED
            BY <5>1, <6>1, <6>2
        <5>4. CASE c > t
          <6>1. data'[c] = data[c] /\ seal'[c] = seal[c] /\ c >= t /\ c # t
            BY <1>1, <4>1, <5>4
          <6> QED
            BY <1>4, <3>1, <5>1, <6>1 DEF StillKept
        <5> QED
          BY <1>1, <4>1, <5>2, <5>3, <5>4
      <4> QED
        BY <4>2, <4>3
    <3>2. Kept(g, header, data', seal', intended')
      BY <3>1 DEF Kept
    <3> QED
      BY <2>2, <3>2
  <2> QED
    BY <2>1, <2>2
<1> QED
  BY <1>6, <1>9, <1>10, <1>14, <1>15, <1>16, Ended

(* Nothing of the cluster that was to be written has been.                 *)
LEMMA EndsBetween ==
  ASSUME IInv, call.pc # "idle", Abandon(FirstUnit), UNCHANGED <<data, seal>>, DOMAIN m_h3' = Groups
  PROVE  IInv'
<1>1. CASE ~Open
  BY <1>1, EndsClosed
<1>2. CASE Open
  <2>1. PICK g \in Groups, t \in Nat, n \in Nat \ {0}, at \in Nat :
          g = CurrentGroup /\ t = call.todo /\ t \in InGroup(g) /\ n = ToWrite /\ at = call.at
    BY <1>2, OpenCall
  <2>2. t \in Clusters /\ 0 \in Columns /\ t * Units \in Nat
    BY <2>1, GroupRange, Sizes DEF Columns
  <2>3. (t * Units) \div Units = t
    <3>1. (t * Units + 0) \div Units = t
      BY <2>2, UnitPlace
    <3> QED
      BY <2>2, <3>1
  <2>4. \A v \in FirstUnit : v \div Units = call.todo
    BY <2>1, <2>3 DEF FirstUnit
  <2>5. FirstUnit = {} => ~Half
    BY DEF FirstUnit, Half
  <2>6. data' \in [Clusters -> Block] /\ seal' \in [Clusters -> Headers]
    BY DEF IInv, Types
  <2>7. PICK half \in BOOLEAN : half = Half
    BY DEF Half
  <2>8. StillKept(g, header, data, seal, intended, at, n, t, half)
    BY <1>2, <2>1, <2>7, OpenFacts
  <2>9. ASSUME NEW u \in Columns
        PROVE  \/ t * Units + u \in FirstUnit \union (at .. at + n - 1)
               \/ intended[t * Units + u] = Garbage
               \/ PlainOf(data[t], header[t], seal[t])[u] = intended[t * Units + u]
    <3>1. half /\ u = 0 => t * Units + u \in FirstUnit
      <4>1. half => FirstUnit = {t * Units}
        BY <2>1, <2>7 DEF FirstUnit, Half
      <4>2. u = 0 => t * Units + u = t * Units
        BY <2>2
      <4> QED
        BY <4>1, <4>2
    <3>2. t >= t
      BY <2>1
    <3> QED
      BY <2>1, <2>8, <3>1, <3>2 DEF StillKept
  <2>10. \A u \in Columns :
           \/ call.todo * Units + u \in FirstUnit \union (call.at .. call.at + ToWrite - 1)
           \/ intended[call.todo * Units + u] = Garbage
           \/ PlainOf(data'[call.todo], header[call.todo], seal'[call.todo])[u]
                = intended[call.todo * Units + u]
    BY <2>1, <2>9
  <2> QED
    BY <1>2, <2>4, <2>5, <2>6, <2>10, EndsOpen
<1> QED
  BY <1>1, <1>2

(* Some units of a cluster have been written.                              *)
LEMMA StepTornWrite ==
  ASSUME IInv, TornWrite
  PROVE  IInv'
<1>1. PICK k \in 1 .. Units - 1 :
        /\ data' = [data EXCEPT ![call.todo] =
             [u \in 0 .. Units - 1 |->
               IF u < k THEN buffer.data[call.todo][u] ELSE IF u = k THEN Garbage ELSE @[u]]]
        /\ Abandon({call.todo * Units + k})
  BY DEF TornWrite
<1>2. call.pc = "data" /\ seal' = [seal EXCEPT ![call.todo] = buffer.header[call.todo]] /\ UNCHANGED m_h3
  BY DEF TornWrite
<1>3. Open /\ Half = TRUE
  BY <1>2 DEF Open, Half
<1>4. PICK g \in Groups, t \in Nat, n \in Nat \ {0}, at \in Nat :
        g = CurrentGroup /\ t = call.todo /\ t \in InGroup(g) /\ n = ToWrite /\ at = call.at
  BY <1>3, OpenCall
<1>5. PICK bh \in [InGroup(g) -> Headers], bd \in [InGroup(g) -> Block] :
        bh = buffer.header /\ bd = buffer.data
  BY <1>3, <1>4, OpenCall
<1>6. /\ Written(g, header, data, seal, bh, bd, t, TRUE)
      /\ BufferKept(g, bd, intended)
      /\ StillKept(g, header, data, seal, intended, at, n, t, TRUE)
  BY <1>3, <1>4, <1>5, OpenFacts
<1>7. t \in Clusters /\ k \in Columns /\ k \in Nat /\ k # 0 /\ \A u \in Columns : u \in Nat
  BY <1>4, GroupRange, Sizes DEF Columns
<1>8. Types
  BY DEF IInv
<1>9. PICK x : x = [u \in Columns |-> IF u < k THEN bd[t][u] ELSE IF u = k THEN Garbage ELSE data[t][u]]
  OBVIOUS
<1>10. x \in Block
  <2>1. Garbage \in Values
    BY DEF Values
  <2>2. bd[t] \in Block /\ data[t] \in Block
    BY <1>4, <1>5, <1>7, <1>8 DEF Types
  <2> QED
    BY <1>9, <2>1, <2>2 DEF Block
<1>11. data' = [data EXCEPT ![t] = x] /\ seal' = [seal EXCEPT ![t] = bh[t]]
  BY <1>1, <1>2, <1>4, <1>5, <1>9 DEF Columns
<1>12. /\ data' \in [Clusters -> Block] /\ seal' \in [Clusters -> Headers] /\ data'[t] = x /\ seal'[t] = bh[t]
       /\ \A c \in Clusters : c # t => data'[c] = data[c] /\ seal'[c] = seal[c]
  BY <1>4, <1>5, <1>7, <1>8, <1>10, <1>11 DEF Types
<1>13. header[t] = bh[t]
  BY <1>6 DEF Written
<1>14. (t * Units + k) \div Units = t
  BY <1>7, UnitPlace
<1>15. ASSUME NEW u \in Columns
       PROVE  \/ t * Units + u \in {t * Units + k} \union (at .. at + n - 1)
              \/ intended[t * Units + u] = Garbage
              \/ PlainOf(data'[t], header[t], seal'[t])[u] = intended[t * Units + u]
  <2>1. PlainOf(data'[t], header[t], seal'[t])[u] = x[u]
    BY <1>12, <1>13 DEF PlainOf
  <2>2. CASE u = k
    BY <2>2
  <2>3. CASE u < k
    <3>1. x[u] = bd[t][u]
      BY <1>9, <2>3
    <3> QED
      BY <1>4, <1>6, <2>1, <3>1 DEF BufferKept
  <2>4. CASE u > k
    <3>1. ~(u < k) /\ u # k /\ u # 0
      BY <1>7, <1>15, <2>4
    <3>2. x[u] = data[t][u]
      BY <1>9, <1>15, <3>1
    <3>3. data[t] \in Block
      BY <1>7, <1>8 DEF Types
    <3>4. PlainOf(data[t], header[t], seal[t])[u] = data[t][u]
      BY <1>15, <3>1, <3>3, PlainFacts
    <3>5. t >= t
      BY <1>4
    <3> QED
      BY <1>4, <1>6, <2>1, <3>1, <3>2, <3>4, <3>5 DEF StillKept
  <2> QED
    BY <1>7, <2>2, <2>3, <2>4
<1>16. \A u \in Columns :
         \/ call.todo * Units + u \in {call.todo * Units + k} \union (call.at .. call.at + ToWrite - 1)
         \/ intended[call.todo * Units + u] = Garbage
         \/ PlainOf(data'[call.todo], header[call.todo], seal'[call.todo])[u]
              = intended[call.todo * Units + u]
  BY <1>4, <1>15
<1>17. DOMAIN m_h3' = Groups
  BY <1>2, <1>8 DEF Types
<1>18. \A v \in {call.todo * Units + k} : v \div Units = call.todo
  BY <1>4, <1>14
<1>19. \A c \in Clusters : c # call.todo => data'[c] = data[c] /\ seal'[c] = seal[c]
  BY <1>4, <1>12
<1> QED
  BY <1>1, <1>3, <1>12, <1>16, <1>17, <1>18, <1>19, EndsOpen

-----------------------------------------------------------------------------
(* The invariant, and what follows from it                                 *)

LEMMA Step == ASSUME IInv, [Next]_vars PROVE IInv'
<1>1. CASE \E c \in Clusters : Read(c)
  BY <1>1, StepSame DEF Read, ghosts
<1>2. CASE \E from \in Starts, end \in Ends : from < end /\ BeginWrite(from, end - from)
  BY <1>2, StepBeginWrite
<1>3. CASE BeginGroup
  BY <1>3, StepBeginGroup
<1>4. CASE WriteHeader
  BY <1>4, StepWriteHeader
<1>5. CASE WriteData
  BY <1>5, StepWriteData
<1>6. CASE WriteH3
  BY <1>6, StepWriteH3
<1>7. CASE WriteH4 \/ Sign
  BY <1>7, StepRoot
<1>8. DOMAIN m_h3 = Groups /\ DOMAIN h3 = Groups
  BY DEF IInv, Types
<1>9. CASE Stop
  <2>1. ~Open /\ Abandon({}) /\ UNCHANGED <<data, seal, m_h3>>
    BY <1>9 DEF Stop, Open
  <2> QED
    BY <1>8, <2>1, EndsClosed
<1>10. CASE WriteError
  <2>1. call.pc # "idle" /\ Abandon(FirstUnit) /\ UNCHANGED <<data, seal, m_h3>>
    BY <1>10 DEF WriteError
  <2> QED
    BY <1>8, <2>1, EndsBetween
<1>11. CASE TornWrite
  BY <1>11, StepTornWrite
<1>12. CASE Crash
  <2>1. call.pc # "idle" /\ Abandon(FirstUnit) /\ m_h3' = h3 /\ UNCHANGED <<data, seal>>
    BY <1>12 DEF Crash
  <2> QED
    BY <1>8, <2>1, EndsBetween
<1>13. CASE UNCHANGED vars
  BY <1>13, StepSame DEF vars
<1> QED
  BY <1>1, <1>2, <1>3, <1>4, <1>5, <1>6, <1>7, <1>9, <1>10, <1>11, <1>12, <1>13 DEF Next

LEMMA Invariant == Spec => []IInv
BY Initial, Step, PTL DEF Spec

(* When no call runs, no group is open.                                    *)
LEMMA Quiet ==
  ASSUME IInv, call.pc = "idle"
  PROVE  /\ \A g \in Groups : Hashed(g, header, data, seal, suspect) /\ Kept(g, header, data, seal, intended)
         /\ \A g \in FullGroups : g \notin behind => TopIs(g, header, suspect, h3[g])
<1>1. \A g : ~OpenGroup(g)
  BY DEF OpenGroup, Open
<1> QED
  BY <1>1 DEF IInv, AtRest, TopAtRest, ContentAtRest

(* A group nobody left in doubt verifies through all its hashes.           *)
LEMMA Verifies ==
  ASSUME Types, NEW g \in FullGroups, suspect \cap InGroup(g) = {},
         Hashed(g, header, data, seal, suspect), TopIs(g, header, suspect, h3[g])
  PROVE  VerifiesGroup(g)
<1>1. g \in Groups /\ InGroup(g) \subseteq Clusters /\ g * Group \in InGroup(g)
  BY FullGroup, GroupRange
<1>2. /\ \A i, j \in Rows : FirstOf(g, i) + j \in InGroup(g)
      /\ \A i \in Rows : FirstOf(g, i) \in InGroup(g) /\ Row(FirstOf(g, i)) = FirstOf(g, i)
      /\ \A c \in InGroup(g) : (c % Group) \div Sub \in Rows /\ Row(c) = FirstOf(g, (c % Group) \div Sub)
      /\ \A c \in InGroup(g), j \in Rows : Row(c) + j \in InGroup(g)
  BY FullRows
<1>3. \A c \in InGroup(g) : header[c] \in Headers /\ c \notin suspect
  BY <1>1 DEF Types
<1>4. \A i \in Rows : H1Of(g, i) \in [Rows -> Block]
                      /\ \A j \in Rows : H1Of(g, i)[j] = header[FirstOf(g, i) + j].h0
  BY <1>2, <1>3 DEF H1Of, Rows, Headers
<1>5. \A c \in InGroup(g) : header[c].h0 = Plain(c)
  BY <1>3 DEF Hashed, Plain, PlainOf
<1>6. ASSUME NEW c \in InGroup(g) PROVE header[c].h1 = H1Of(g, (c % Group) \div Sub)
  <2>1. PICK i \in Rows : i = (c % Group) \div Sub /\ Row(c) = FirstOf(g, i)
    BY <1>2
  <2>2. \A j \in Rows : header[c].h1[j] = header[FirstOf(g, i) + j].h0
    BY <1>2, <1>3, <2>1 DEF Hashed
  <2>3. header[c].h1 \in [Rows -> Block]
    BY <1>3 DEF Headers
  <2>4. header[c].h1 = H1Of(g, i)
    <3>1. PICK a, b : a = header[c].h1 /\ b = H1Of(g, i)
      OBVIOUS
    <3>2. a \in [Rows -> Block] /\ b \in [Rows -> Block]
      BY <1>4, <2>1, <2>3, <3>1
    <3>3. \A j \in Rows : a[j] = b[j]
      BY <1>4, <2>1, <2>2, <3>1
    <3>4. a = b
      BY <3>2, <3>3
    <3> QED
      BY <3>1, <3>4
  <2> QED
    BY <2>1, <2>4
<1>7. h3[g] = H2Of(g)
  <2>1. h3[g] = header[g * Group].h2
    BY <1>1 DEF TopIs
  <2>2. h3[g] \in [Rows -> [Rows -> Block]]
    BY <1>1, <1>3, <2>1 DEF Headers
  <2>3. \A i, j \in Rows : h3[g][i][j] = header[FirstOf(g, i) + j].h0
    BY <1>2, <1>3 DEF TopIs
  <2>4. \A i \in Rows : h3[g][i] = H1Of(g, i)
    BY <1>4, <2>2, <2>3
  <2>5. H2Of(g) = [i \in Rows |-> H1Of(g, i)]
    BY DEF H2Of, Rows
  <2> QED
    BY <2>2, <2>4, <2>5
<1>8. \A c \in InGroup(g) : header[c].h2 = H2Of(g)
  BY <1>7 DEF TopIs
<1> QED
  BY <1>5, <1>6, <1>7, <1>8 DEF VerifiesGroup

(* However calls of wii_write_data_file end, by success, an error, the     *)
(* listener or the death of the process, and whatever ranges they write, a *)
(* full group passes checkPartition through H0, H1, H2 and H3 unless a     *)
(* call left a cluster of it in doubt or did not get to write its H3; a    *)
(* call that writes the clusters in doubt again mends it.                  *)
THEOREM DoubtIsKnown == Spec => []UnverifiedKnown
<1>1. ASSUME IInv PROVE UnverifiedKnown
  <2> SUFFICES ASSUME call.pc = "idle", NEW g \in FullGroups, suspect \cap InGroup(g) = {}, g \notin behind
               PROVE  VerifiesGroup(g)
    BY DEF UnverifiedKnown
  <2>1. /\ g \in Groups /\ Hashed(g, header, data, seal, suspect)
        /\ TopIs(g, header, suspect, h3[g])
    BY <1>1, FullGroup, Quiet
  <2>2. Types
    BY <1>1 DEF IInv
  <2> QED
    BY <2>1, <2>2, Verifies
<1> QED
  BY <1>1, Invariant, PTL

(* The read-modify-write of whole groups in wii_write_data_file never      *)
(* changes what decrypts from the units outside of the range a call        *)
(* writes, and those in it read as written, for any alignment of the range *)
(* in clusters and groups; the exceptions are the units a failed call was  *)
(* writing and the one that its torn cluster makes garbage.                *)
THEOREM OthersKept == Spec => []ContentKept
<1>1. ASSUME IInv PROVE ContentKept
  <2> SUFFICES ASSUME call.pc = "idle", NEW c \in Clusters, NEW u \in 0 .. Units - 1
               PROVE  intended[c * Units + u] = Garbage \/ Plain(c)[u] = intended[c * Units + u]
    BY DEF ContentKept
  <2>1. GroupOf(c) \in Groups /\ c \in InGroup(GroupOf(c)) /\ u \in Columns
    BY DEF Groups, InGroup, Columns
  <2>2. Kept(GroupOf(c), header, data, seal, intended)
    BY <1>1, <2>1, Quiet
  <2> QED
    BY <2>1, <2>2 DEF Kept, Plain, PlainOf
<1> QED
  BY <1>1, Invariant, PTL

(* H4 is the hash of H3 and the title metadata is signed for it, unless a  *)
(* call of wii_write_data_file ended between writing H3 and signing.       *)
THEOREM RootFollows == Spec => []RootIsSigned
<1>1. IInv => RootIsSigned
  BY DEF IInv, RootOK, RootIsSigned
<1> QED
  BY <1>1, Invariant, PTL

-----------------------------------------------------------------------------
(* The cache of decryptBlock                                               *)

Bytes == 0 .. Count * Units - 1

(* It was filled between two calls; what callers may expect of its cluster *)
(* is what it holds, or was written since.                                 *)
CacheOK ==
  cache.block # None =>
    /\ cache.block \in Clusters
    /\ cache.at \in 0 .. writes
    /\ call.pc # "idle" => cache.at < writes
    /\ \A u \in Columns :
         LET written == intended[cache.block * Units + u]
         IN written \in {Garbage, cache.data[u]} \/ written > cache.at

LEMMA UnitIsByte == \A c \in Clusters, u \in Columns : c * Units + u \in Bytes
BY UnitPlace DEF Bytes

(* A step of a call: callers may expect what they did, what the call wrote *)
(* or anything.                                                            *)
LEMMA CacheInCall ==
  ASSUME CacheOK, call.pc # "idle", cache' = cache, writes' = writes, writes \in Nat,
         \A x \in Bytes : intended'[x] \in {intended[x], Garbage, writes}
  PROVE  CacheOK'
<1> SUFFICES ASSUME cache.block # None PROVE CacheOK'
  BY DEF CacheOK
<1>1. /\ cache.block \in Clusters /\ cache.at \in 0 .. writes /\ cache.at < writes
      /\ \A u \in Columns :
           \/ intended[cache.block * Units + u] \in {Garbage, cache.data[u]}
           \/ intended[cache.block * Units + u] > cache.at
  BY DEF CacheOK
<1>2. ASSUME NEW u \in Columns
      PROVE  \/ intended'[cache.block * Units + u] \in {Garbage, cache.data[u]}
             \/ intended'[cache.block * Units + u] > cache.at
  <2>1. PICK x \in Bytes : x = cache.block * Units + u
    BY <1>1, UnitIsByte
  <2>2. \/ intended[x] \in {Garbage, cache.data[u]}
        \/ intended[x] > cache.at
    BY <1>1, <2>1
  <2> QED
    BY <1>1, <2>1, <2>2
<1> QED
  BY <1>1, <1>2 DEF CacheOK, Columns

LEMMA CacheEnded ==
  ASSUME CacheOK, Types, call.pc # "idle", NEW torn, Abandon(torn), cache' = cache
  PROVE  CacheOK'
<1>1. writes' = writes /\ writes \in Nat
  BY SizesAssumption DEF Abandon, Types
<1>2. DOMAIN intended = Bytes
  BY DEF Types, Bytes
<1>3. \A x \in Bytes : intended'[x] \in {intended[x], Garbage}
  BY <1>2 DEF Abandon
<1> QED
  BY <1>1, <1>3, CacheInCall

LEMMA CacheStep ==
  ASSUME CacheOK, IInv, ContentKept, [Next]_vars
  PROVE  CacheOK'
<1>1. Types /\ writes \in Nat /\ DOMAIN intended = Bytes
  BY SizesAssumption DEF IInv, Types, Bytes
<1>2. CASE \E c \in Clusters : Read(c)
  <2>1. PICK c \in Clusters : Read(c)
    BY <1>2
  <2>2. call.pc = "idle" /\ call' = call /\ writes' = writes /\ intended' = intended
    BY <2>1 DEF Read, ghosts
  <2>3. CASE cache.block = c
    BY <2>1, <2>2, <2>3 DEF Read, Cached, CacheOK
  <2>4. CASE cache.block # c
    <3>1. cache' = Decrypted(c)
      BY <2>1, <2>4 DEF Read, Cached
    <3>2. cache'.block = c /\ cache'.data = Plain(c) /\ cache'.at = writes
      BY <3>1 DEF Decrypted
    <3>3. \A u \in Columns : intended[c * Units + u] \in {Garbage, Plain(c)[u]}
      BY <2>2 DEF ContentKept, Columns
    <3> QED
      BY <1>1, <2>2, <3>2, <3>3 DEF CacheOK
  <2> QED
    BY <2>3, <2>4
<1>3. CASE \E from \in Starts, end \in Ends : from < end /\ BeginWrite(from, end - from)
  BY <1>1, <1>3 DEF BeginWrite, ghosts, CacheOK
<1>4. CASE BeginGroup
  <2>1. call.pc # "idle" /\ cache' = cache /\ writes' = writes
    BY <1>4 DEF BeginGroup
  <2>2. PICK got \in {ToWrite, ToWrite - 1} :
          intended' = [u \in DOMAIN intended |->
            IF u \in call.at .. call.at + got - 1 THEN writes
            ELSE IF u \in call.at .. call.at + ToWrite - 1 THEN Garbage ELSE intended[u]]
    BY <1>4 DEF BeginGroup
  <2>3. \A x \in Bytes : intended'[x] \in {intended[x], Garbage, writes}
    BY <1>1, <2>2
  <2> QED
    BY <1>1, <2>1, <2>3, CacheInCall
<1>5. CASE WriteHeader \/ WriteData \/ WriteH3 \/ WriteH4 \/ Sign
  <2>1. call.pc # "idle" /\ cache' = cache /\ writes' = writes /\ intended' = intended
    BY <1>5 DEF WriteHeader, WriteData, WriteH3, WriteH4, Sign, ghosts
  <2> QED
    BY <1>1, <2>1, CacheInCall
<1>6. CASE Stop \/ WriteError
  <2>1. PICK torn : Abandon(torn) /\ call.pc # "idle" /\ cache' = cache
    BY <1>6 DEF Stop, WriteError
  <2> QED
    BY <1>1, <2>1, CacheEnded
<1>7. CASE TornWrite
  <2>1. PICK torn : Abandon(torn) /\ call.pc # "idle" /\ cache' = cache
    BY <1>7 DEF TornWrite
  <2> QED
    BY <1>1, <2>1, CacheEnded
<1>8. CASE Crash
  BY <1>8 DEF Crash, NoCache, CacheOK
<1>9. CASE UNCHANGED vars
  BY <1>9 DEF vars, CacheOK
<1> QED
  BY <1>2, <1>3, <1>4, <1>5, <1>6, <1>7, <1>8, <1>9 DEF Next

(* A read of a cluster returns what the calls of wii_write_data_file wrote *)
(* there, whatever became of them, up to the last one before decryptBlock  *)
(* decrypted it: the cluster it keeps is stale only in what was written    *)
(* after that.                                                             *)
THEOREM ReadsFollowWrites == Spec => []ReadsBack
<1>1. Init => CacheOK
  BY DEF Init, NoCache, CacheOK
<1>2. CacheOK /\ IInv /\ ContentKept /\ [Next]_vars => CacheOK'
  BY CacheStep
<1>3. CacheOK => ReadsBack
  BY DEF CacheOK, ReadsBack, Columns
<1> QED
  BY <1>1, <1>2, <1>3, Invariant, OthersKept, PTL DEF Spec
=============================================================================
