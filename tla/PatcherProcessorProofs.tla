------------------------ MODULE PatcherProcessorProofs ------------------------
(* What PatcherProcessor does to an image, for every alignment, all sizes  *)
(* and any number of runs: nothing is written beyond its place, nothing of *)
(* the originals is lost, and a checked image is a patched one.            *)
EXTENDS PatcherProcessor, SequenceTheorems, TLAPS

Ops == {Rebuild(a) : a \in Archives} \cup {Write(r) : r \in Regions}
         \cup {WriteSize(a) : a \in Archives} \cup {Check(r) : r \in Regions}

(* What an operation of a program relies on having been done before it.    *)
Before(p, x, y) == \A j \in DOMAIN p : p[j] = y => \E i \in 1 .. j - 1 : p[i] = x

InOrder(p) ==
  /\ \A i, j \in DOMAIN p : p[i] = p[j] => i = j
  /\ \A a \in Archives : Before(p, Rebuild(a), Write(a))
  /\ Before(p, Rebuild("main"), Write("header"))
  /\ Before(p, Rebuild("ui"), WriteSize("ui"))
  /\ Before(p, WriteSize("ui"), Write("ui"))
  /\ Before(p, Rebuild("embedded"), WriteSize("embedded"))
  /\ Before(p, WriteSize("embedded"), Check("embedded"))
  /\ Before(p, Rebuild("embedded"), Check("embedded"))
  /\ \A i \in DOMAIN p : p[i] = Write("embedded") => i + 1 \in DOMAIN p /\ p[i + 1] = WriteSize("embedded")
  /\ \A i \in DOMAIN p : p[i] = WriteSize("embedded") => i - 1 \in DOMAIN p /\ p[i - 1] = Write("embedded")

Has(p, x) == \E i \in DOMAIN p : p[i] = x

Complete(p, parts) ==
  p[Len(p)] = Check("main") =>
    /\ Has(p, Check("embedded"))
    /\ \A r \in parts : Has(p, Write(r))

Shaped ==
  pc # 0 => /\ program \in Seq(Ops) /\ Len(program) \in Nat \ {0}
            /\ InOrder(program) /\ Complete(program, Replaced)
            /\ uiContainer = "main" => Before(program, Rebuild("ui"), Rebuild("main"))

(* The operations this run has carried out.                                *)
CarriedOut == IF pc = 0 THEN {} ELSE {program[i] : i \in 1 .. pc - 1}

(* A size field of ui.arc leaves the place behind it alone.                *)
UiPlace == AlignSize(size["ui"]) = AlignSize(OldSize["ui"])

(* An archive that was rebuilt in this run is this run's, and sound.       *)
Rebuilt ==
  \A a \in Archives : Rebuild(a) \in CarriedOut =>
    temp[a].of = run /\ (Unhurt(a) => temp[a].sound)

ImageSound == \A a \in Archives : Unhurt(a) => image[a].sound

EmbeddedSized ==
  /\ accidents = {} => image["embedded"].length <= size["embedded"] \/ At(WriteSize("embedded"))
  /\ Write("embedded") \in CarriedOut => image["embedded"] = temp["embedded"]
  /\ Check("embedded") \in CarriedOut => size["embedded"] = temp["embedded"].length

UiSized ==
  "sizeLost" \notin accidents =>
    /\ image["ui"].length <= size["ui"]
    /\ WriteSize("ui") \in CarriedOut => temp["ui"].length <= size["ui"]

Written == \A r \in Regions : Write(r) \in CarriedOut => image[r].of = run

IInv ==
  /\ TypeOK /\ Shaped /\ UiPlace /\ WritesFit
  /\ Rebuilt /\ ImageSound /\ EmbeddedSized /\ UiSized /\ Written

-----------------------------------------------------------------------------
(* The programs of a run, spelled out                                      *)

OwnUnchecked == <<
    Rebuild("ui"), Rebuild("embedded"), Rebuild("main"),
    Write("embedded"), WriteSize("embedded"), WriteSize("ui"),
    Write("ui"), Write("main"), Write("header"), Write("executable"),
    Write("files")>>

OwnChecked == <<
    Rebuild("ui"), Rebuild("embedded"), Rebuild("main"),
    Write("embedded"), WriteSize("embedded"), WriteSize("ui"),
    Write("ui"), Write("main"), Write("header"), Write("executable"),
    Write("files"),
    Check("embedded"), Check("ui"), Check("header"), Check("main")>>

MainUnchecked == <<
    Rebuild("ui"), Rebuild("embedded"), Rebuild("main"),
    Write("embedded"), WriteSize("embedded"), Write("main"),
    Write("header"), Write("executable"), Write("files")>>

MainChecked == <<
    Rebuild("ui"), Rebuild("embedded"), Rebuild("main"),
    Write("embedded"), WriteSize("embedded"), Write("main"),
    Write("header"), Write("executable"), Write("files"),
    Check("embedded"), Check("ui"), Check("header"), Check("main")>>

PlainUnchecked == <<
    Rebuild("embedded"), Rebuild("main"),
    Write("embedded"), WriteSize("embedded"), Write("main"),
    Write("executable"), Write("files")>>

PlainChecked == <<
    Rebuild("embedded"), Rebuild("main"),
    Write("embedded"), WriteSize("embedded"), Write("main"),
    Write("executable"), Write("files"),
    Check("embedded"), Check("main")>>

LEMMA OpsTyped == RebuildOps \in Seq(Ops) /\ ReplaceOps \in Seq(Ops) /\ CheckOps \in Seq(Ops)
<1>1. \A a \in Archives : Rebuild(a) \in Ops /\ WriteSize(a) \in Ops
  BY DEF Ops
<1>2. \A r \in Regions : Write(r) \in Ops /\ Check(r) \in Ops
  BY DEF Ops
<1>3. /\ Archives = {"ui", "embedded", "main"}
      /\ Regions = {"embedded", "ui", "main", "header", "executable", "files"}
  BY DEF Archives, Regions
<1> QED
  BY <1>1, <1>2, <1>3 DEF RebuildOps, ReplaceOps, CheckOps

(* The programs with ui.arc in a container of its own.                     *)
LEMMA OwnPrograms ==
  ASSUME uiContainer = "own"
  PROVE  /\ RebuildOps \o ReplaceOps \o <<>> = OwnUnchecked
         /\ RebuildOps \o ReplaceOps \o CheckOps = OwnChecked
<1> DEFINE p == RebuildOps \o ReplaceOps \o <<>>
           q == RebuildOps \o ReplaceOps \o CheckOps
<1>1. p \in Seq(Ops) /\ q \in Seq(Ops)
  BY OpsTyped
<1>2. OwnUnchecked \in Seq(Ops) /\ OwnChecked \in Seq(Ops)
  BY DEF OwnUnchecked, OwnChecked, Ops, Archives, Regions
<1>3. Len(p) = 11 /\ Len(OwnUnchecked) = 11
  BY DEF OwnUnchecked, RebuildOps, ReplaceOps, HasUi
<1>4. \A i \in 1 .. 11 : p[i] = OwnUnchecked[i]
  BY DEF OwnUnchecked, RebuildOps, ReplaceOps, HasUi
<1>5. Len(q) = 15 /\ Len(OwnChecked) = 15
  BY DEF OwnChecked, RebuildOps, ReplaceOps, CheckOps, HasUi
<1>6. \A i \in 1 .. 15 : q[i] = OwnChecked[i]
  BY DEF OwnChecked, RebuildOps, ReplaceOps, CheckOps, HasUi
<1> HIDE DEF p, q
<1>7. p = OwnUnchecked /\ q = OwnChecked
  BY <1>1, <1>2, <1>3, <1>4, <1>5, <1>6, SeqEqual
<1> QED
  BY <1>7 DEF p, q

LEMMA OwnShaped ==
  ASSUME uiContainer = "own", NEW p \in {OwnUnchecked, OwnChecked}
  PROVE  /\ p \in Seq(Ops) /\ Len(p) \in Nat \ {0}
         /\ InOrder(p) /\ Complete(p, Replaced)
         /\ uiContainer = "main" => Before(p, Rebuild("ui"), Rebuild("main"))
<1>1. OwnUnchecked \in Seq(Ops) /\ OwnChecked \in Seq(Ops)
  BY DEF OwnUnchecked, OwnChecked, Ops, Archives, Regions
<1>2. /\ Len(OwnUnchecked) = 11 /\ Len(OwnChecked) = 15
      /\ Len(OwnUnchecked) \in Nat \ {0} /\ Len(OwnChecked) \in Nat \ {0}
  BY DEF OwnUnchecked, OwnChecked
<1>3. InOrder(OwnUnchecked)
  BY DEF InOrder, OwnUnchecked, Before, Rebuild, WriteSize, Write, Check, Archives
<1>4. InOrder(OwnChecked)
  BY DEF InOrder, OwnChecked, Before, Rebuild, WriteSize, Write, Check, Archives
<1>5. Len(ReplaceOps) = 8 /\ DOMAIN ReplaceOps = 1 .. 8
  BY OpsTyped DEF ReplaceOps, HasUi
<1>6. \A i \in 1 .. 8 : ReplaceOps[i][2] \in {"embedded", "ui", "main", "header", "executable", "files"}
  BY DEF ReplaceOps, HasUi, Write, WriteSize
<1>7. Replaced \subseteq {"embedded", "ui", "main", "header", "executable", "files"}
  BY <1>5, <1>6 DEF Replaced
<1>8. Complete(OwnUnchecked, Replaced)
  BY <1>2 DEF Complete, OwnUnchecked, Write, Check
<1>9. Complete(OwnChecked, Replaced)
  <2>1. DOMAIN OwnChecked = 1 .. 15
    BY <1>1, <1>2
  <2>2. Has(OwnChecked, Write("embedded"))
    <3>1. OwnChecked[4] = Write("embedded")
      BY DEF OwnChecked
    <3> QED
      BY <2>1, <3>1 DEF Has
  <2>3. Has(OwnChecked, Write("ui"))
    <3>1. OwnChecked[7] = Write("ui")
      BY DEF OwnChecked
    <3> QED
      BY <2>1, <3>1 DEF Has
  <2>4. Has(OwnChecked, Write("main"))
    <3>1. OwnChecked[8] = Write("main")
      BY DEF OwnChecked
    <3> QED
      BY <2>1, <3>1 DEF Has
  <2>5. Has(OwnChecked, Write("header"))
    <3>1. OwnChecked[9] = Write("header")
      BY DEF OwnChecked
    <3> QED
      BY <2>1, <3>1 DEF Has
  <2>6. Has(OwnChecked, Write("executable"))
    <3>1. OwnChecked[10] = Write("executable")
      BY DEF OwnChecked
    <3> QED
      BY <2>1, <3>1 DEF Has
  <2>7. Has(OwnChecked, Write("files"))
    <3>1. OwnChecked[11] = Write("files")
      BY DEF OwnChecked
    <3> QED
      BY <2>1, <3>1 DEF Has
  <2>8. Has(OwnChecked, Check("embedded"))
    <3>1. OwnChecked[12] = Check("embedded")
      BY DEF OwnChecked
    <3> QED
      BY <2>1, <3>1 DEF Has
  <2> QED
    BY <1>7, <2>2, <2>3, <2>4, <2>5, <2>6, <2>7, <2>8 DEF Complete
<1> QED
  BY <1>1, <1>2, <1>3, <1>4, <1>8, <1>9

(* The programs with ui.arc in the main archive.                           *)
LEMMA MainPrograms ==
  ASSUME uiContainer = "main"
  PROVE  /\ RebuildOps \o ReplaceOps \o <<>> = MainUnchecked
         /\ RebuildOps \o ReplaceOps \o CheckOps = MainChecked
<1> DEFINE p == RebuildOps \o ReplaceOps \o <<>>
           q == RebuildOps \o ReplaceOps \o CheckOps
<1>1. p \in Seq(Ops) /\ q \in Seq(Ops)
  BY OpsTyped
<1>2. MainUnchecked \in Seq(Ops) /\ MainChecked \in Seq(Ops)
  BY DEF MainUnchecked, MainChecked, Ops, Archives, Regions
<1>3. Len(p) = 9 /\ Len(MainUnchecked) = 9
  BY DEF MainUnchecked, RebuildOps, ReplaceOps, HasUi
<1>4. \A i \in 1 .. 9 : p[i] = MainUnchecked[i]
  BY DEF MainUnchecked, RebuildOps, ReplaceOps, HasUi
<1>5. Len(q) = 13 /\ Len(MainChecked) = 13
  BY DEF MainChecked, RebuildOps, ReplaceOps, CheckOps, HasUi
<1>6. \A i \in 1 .. 13 : q[i] = MainChecked[i]
  BY DEF MainChecked, RebuildOps, ReplaceOps, CheckOps, HasUi
<1> HIDE DEF p, q
<1>7. p = MainUnchecked /\ q = MainChecked
  BY <1>1, <1>2, <1>3, <1>4, <1>5, <1>6, SeqEqual
<1> QED
  BY <1>7 DEF p, q

LEMMA MainShaped ==
  ASSUME uiContainer = "main", NEW p \in {MainUnchecked, MainChecked}
  PROVE  /\ p \in Seq(Ops) /\ Len(p) \in Nat \ {0}
         /\ InOrder(p) /\ Complete(p, Replaced)
         /\ uiContainer = "main" => Before(p, Rebuild("ui"), Rebuild("main"))
<1>1. MainUnchecked \in Seq(Ops) /\ MainChecked \in Seq(Ops)
  BY DEF MainUnchecked, MainChecked, Ops, Archives, Regions
<1>2. /\ Len(MainUnchecked) = 9 /\ Len(MainChecked) = 13
      /\ Len(MainUnchecked) \in Nat \ {0} /\ Len(MainChecked) \in Nat \ {0}
  BY DEF MainUnchecked, MainChecked
<1>3. InOrder(MainUnchecked)
  BY DEF InOrder, MainUnchecked, Before, Rebuild, WriteSize, Write, Check, Archives
<1>4. InOrder(MainChecked)
  BY DEF InOrder, MainChecked, Before, Rebuild, WriteSize, Write, Check, Archives
<1>5. Len(ReplaceOps) = 6 /\ DOMAIN ReplaceOps = 1 .. 6
  BY OpsTyped DEF ReplaceOps, HasUi
<1>6. \A i \in 1 .. 6 : ReplaceOps[i][2] \in {"embedded", "main", "header", "executable", "files"}
  BY DEF ReplaceOps, HasUi, Write, WriteSize
<1>7. Replaced \subseteq {"embedded", "main", "header", "executable", "files"}
  BY <1>5, <1>6 DEF Replaced
<1>8. Complete(MainUnchecked, Replaced)
  BY <1>2 DEF Complete, MainUnchecked, Write, Check
<1>9. Complete(MainChecked, Replaced)
  <2>1. DOMAIN MainChecked = 1 .. 13
    BY <1>1, <1>2
  <2>2. Has(MainChecked, Write("embedded"))
    <3>1. MainChecked[4] = Write("embedded")
      BY DEF MainChecked
    <3> QED
      BY <2>1, <3>1 DEF Has
  <2>3. Has(MainChecked, Write("main"))
    <3>1. MainChecked[6] = Write("main")
      BY DEF MainChecked
    <3> QED
      BY <2>1, <3>1 DEF Has
  <2>4. Has(MainChecked, Write("header"))
    <3>1. MainChecked[7] = Write("header")
      BY DEF MainChecked
    <3> QED
      BY <2>1, <3>1 DEF Has
  <2>5. Has(MainChecked, Write("executable"))
    <3>1. MainChecked[8] = Write("executable")
      BY DEF MainChecked
    <3> QED
      BY <2>1, <3>1 DEF Has
  <2>6. Has(MainChecked, Write("files"))
    <3>1. MainChecked[9] = Write("files")
      BY DEF MainChecked
    <3> QED
      BY <2>1, <3>1 DEF Has
  <2>7. Has(MainChecked, Check("embedded"))
    <3>1. MainChecked[10] = Check("embedded")
      BY DEF MainChecked
    <3> QED
      BY <2>1, <3>1 DEF Has
  <2> QED
    BY <1>7, <2>2, <2>3, <2>4, <2>5, <2>6, <2>7 DEF Complete
<1>10. Before(MainUnchecked, Rebuild("ui"), Rebuild("main"))
  BY DEF Before, MainUnchecked, Rebuild, Write, WriteSize
<1>11. Before(MainChecked, Rebuild("ui"), Rebuild("main"))
  BY DEF Before, MainChecked, Rebuild, Write, WriteSize, Check
<1>12. CASE p = MainUnchecked
  BY <1>1, <1>2, <1>3, <1>8, <1>10, <1>12
<1>13. CASE p = MainChecked
  BY <1>1, <1>2, <1>4, <1>9, <1>11, <1>13
<1> QED
  BY <1>12, <1>13

(* The programs with no ui.arc.                                            *)
LEMMA PlainPrograms ==
  ASSUME uiContainer = "none"
  PROVE  /\ RebuildOps \o ReplaceOps \o <<>> = PlainUnchecked
         /\ RebuildOps \o ReplaceOps \o CheckOps = PlainChecked
<1> DEFINE p == RebuildOps \o ReplaceOps \o <<>>
           q == RebuildOps \o ReplaceOps \o CheckOps
<1>1. p \in Seq(Ops) /\ q \in Seq(Ops)
  BY OpsTyped
<1>2. PlainUnchecked \in Seq(Ops) /\ PlainChecked \in Seq(Ops)
  BY DEF PlainUnchecked, PlainChecked, Ops, Archives, Regions
<1>3. Len(p) = 7 /\ Len(PlainUnchecked) = 7
  BY DEF PlainUnchecked, RebuildOps, ReplaceOps, HasUi
<1>4. \A i \in 1 .. 7 : p[i] = PlainUnchecked[i]
  BY DEF PlainUnchecked, RebuildOps, ReplaceOps, HasUi
<1>5. Len(q) = 9 /\ Len(PlainChecked) = 9
  BY DEF PlainChecked, RebuildOps, ReplaceOps, CheckOps, HasUi
<1>6. \A i \in 1 .. 9 : q[i] = PlainChecked[i]
  BY DEF PlainChecked, RebuildOps, ReplaceOps, CheckOps, HasUi
<1> HIDE DEF p, q
<1>7. p = PlainUnchecked /\ q = PlainChecked
  BY <1>1, <1>2, <1>3, <1>4, <1>5, <1>6, SeqEqual
<1> QED
  BY <1>7 DEF p, q

LEMMA PlainShaped ==
  ASSUME uiContainer = "none", NEW p \in {PlainUnchecked, PlainChecked}
  PROVE  /\ p \in Seq(Ops) /\ Len(p) \in Nat \ {0}
         /\ InOrder(p) /\ Complete(p, Replaced)
         /\ uiContainer = "main" => Before(p, Rebuild("ui"), Rebuild("main"))
<1>1. PlainUnchecked \in Seq(Ops) /\ PlainChecked \in Seq(Ops)
  BY DEF PlainUnchecked, PlainChecked, Ops, Archives, Regions
<1>2. /\ Len(PlainUnchecked) = 7 /\ Len(PlainChecked) = 9
      /\ Len(PlainUnchecked) \in Nat \ {0} /\ Len(PlainChecked) \in Nat \ {0}
  BY DEF PlainUnchecked, PlainChecked
<1>3. InOrder(PlainUnchecked)
  BY DEF InOrder, PlainUnchecked, Before, Rebuild, WriteSize, Write, Check, Archives
<1>4. InOrder(PlainChecked)
  BY DEF InOrder, PlainChecked, Before, Rebuild, WriteSize, Write, Check, Archives
<1>5. Len(ReplaceOps) = 5 /\ DOMAIN ReplaceOps = 1 .. 5
  BY OpsTyped DEF ReplaceOps, HasUi
<1>6. \A i \in 1 .. 5 : ReplaceOps[i][2] \in {"embedded", "main", "executable", "files"}
  BY DEF ReplaceOps, HasUi, Write, WriteSize
<1>7. Replaced \subseteq {"embedded", "main", "executable", "files"}
  BY <1>5, <1>6 DEF Replaced
<1>8. Complete(PlainUnchecked, Replaced)
  BY <1>2 DEF Complete, PlainUnchecked, Write, Check
<1>9. Complete(PlainChecked, Replaced)
  <2>1. DOMAIN PlainChecked = 1 .. 9
    BY <1>1, <1>2
  <2>2. Has(PlainChecked, Write("embedded"))
    <3>1. PlainChecked[3] = Write("embedded")
      BY DEF PlainChecked
    <3> QED
      BY <2>1, <3>1 DEF Has
  <2>3. Has(PlainChecked, Write("main"))
    <3>1. PlainChecked[5] = Write("main")
      BY DEF PlainChecked
    <3> QED
      BY <2>1, <3>1 DEF Has
  <2>4. Has(PlainChecked, Write("executable"))
    <3>1. PlainChecked[6] = Write("executable")
      BY DEF PlainChecked
    <3> QED
      BY <2>1, <3>1 DEF Has
  <2>5. Has(PlainChecked, Write("files"))
    <3>1. PlainChecked[7] = Write("files")
      BY DEF PlainChecked
    <3> QED
      BY <2>1, <3>1 DEF Has
  <2>6. Has(PlainChecked, Check("embedded"))
    <3>1. PlainChecked[8] = Check("embedded")
      BY DEF PlainChecked
    <3> QED
      BY <2>1, <3>1 DEF Has
  <2> QED
    BY <1>7, <2>2, <2>3, <2>4, <2>5, <2>6 DEF Complete
<1> QED
  BY <1>1, <1>2, <1>3, <1>4, <1>8, <1>9

-----------------------------------------------------------------------------
(* Operators                                                               *)

(* What fits before the next multiple of the alignment leaves it there.    *)
LEMMA AlignSizeKeeps ==
  ASSUME NEW x \in Nat, NEW y \in Nat
  PROVE  /\ AlignSize(x) \in Nat
         /\ x <= y /\ y <= AlignSize(x) => AlignSize(y) = AlignSize(x)
<1>1. Alignment \in Nat \ {0}
  BY LayoutAssumption
<1> DEFINE q == (x + Alignment - 1) \div Alignment
           k == (y + Alignment - 1) \div Alignment
<1>2. q \in Nat /\ k \in Nat
  BY <1>1
<1>3. /\ Alignment * q <= x + Alignment - 1 /\ x + Alignment - 1 < Alignment * q + Alignment
      /\ Alignment * k <= y + Alignment - 1 /\ y + Alignment - 1 < Alignment * k + Alignment
  BY <1>1
<1>4. AlignSize(x) = Alignment * q /\ AlignSize(y) = Alignment * k
  BY <1>1, <1>2 DEF AlignSize
<1> HIDE DEF q, k
<1>5. Alignment * q \in Nat /\ Alignment * k \in Nat
  BY <1>1, <1>2
<1>6. ASSUME x <= y, y <= AlignSize(x) PROVE q = k
  <2>1. CASE q < k
    <3>1. Alignment * q + Alignment <= Alignment * k
      BY <1>1, <1>2, <2>1
    <3> QED
      BY <1>1, <1>3, <1>4, <1>5, <1>6, <3>1
  <2>2. CASE k < q
    <3>1. Alignment * k + Alignment <= Alignment * q
      BY <1>1, <1>2, <2>2
    <3> QED
      BY <1>1, <1>3, <1>5, <1>6, <3>1
  <2> QED
    BY <1>2, <2>1, <2>2
<1> QED
  BY <1>4, <1>5, <1>6

LEMMA AlignSizeCovers ==
  ASSUME NEW x \in Nat
  PROVE  x <= AlignSize(x)
<1>1. Alignment \in Nat \ {0}
  BY LayoutAssumption
<1> DEFINE q == (x + Alignment - 1) \div Alignment
<1>2. q \in Nat /\ x + Alignment - 1 < Alignment * q + Alignment
  BY <1>1
<1>3. AlignSize(x) = Alignment * q
  BY <1>1, <1>2 DEF AlignSize
<1> HIDE DEF q
<1>4. Alignment * q \in Nat
  BY <1>1, <1>2
<1> QED
  BY <1>1, <1>2, <1>3, <1>4

(* What has been carried out after a step, and at the beginning of a run.  *)
LEMMA Stepped ==
  ASSUME TypeOK, Shaped, NEW op, At(op), pc' = pc + 1, UNCHANGED <<program, uiContainer>>
  PROVE  /\ CarriedOut' = CarriedOut \cup {op} /\ Shaped'
         /\ pc' \in 0 .. Len(program) + 1 /\ program[pc] = op /\ pc # 0 /\ pc' # 0
<1>1. /\ pc \in DOMAIN program /\ program[pc] = op /\ pc # 0 /\ pc \in Nat /\ pc' # 0
      /\ Len(program) \in Nat /\ pc <= Len(program) /\ program \in Seq(Ops)
  BY DEF At, Shaped
<1>2. CarriedOut = {program[i] : i \in 1 .. pc - 1} /\ CarriedOut' = {program[i] : i \in 1 .. pc}
  BY <1>1 DEF CarriedOut
<1>3. 1 .. pc = (1 .. pc - 1) \cup {pc}
  BY <1>1
<1>4. Shaped'
  <2>1. Replaced' = Replaced
    BY DEF Replaced, ReplaceOps, HasUi
  <2> QED
    BY <1>1, <2>1 DEF Shaped
<1>5. CarriedOut' = CarriedOut \cup {op}
  BY <1>1, <1>2, <1>3
<1> QED
  BY <1>1, <1>4, <1>5

LEMMA NothingDone ==
  ASSUME pc' \in {0, 1}
  PROVE  CarriedOut' = {}
<1>1. CASE pc' = 0
  BY <1>1 DEF CarriedOut
<1>2. CASE pc' = 1
  <2>1. 1 .. pc' - 1 = {}
    BY <1>2
  <2> QED
    BY <2>1 DEF CarriedOut
<1> QED
  BY <1>1, <1>2

(* An operation is carried out once, after those it relies on.             *)
LEMMA DoneOnce ==
  ASSUME TypeOK, Shaped, NEW x, NEW y, At(x),
         x = y \/ Before(program, x, y)
  PROVE  y \notin CarriedOut
<1>1. pc \in DOMAIN program /\ program[pc] = x /\ Len(program) \in Nat /\ program \in Seq(Ops)
  BY DEF At, Shaped
<1>2. \A i, j \in DOMAIN program : program[i] = program[j] => i = j
  BY <1>1 DEF Shaped, InOrder
<1> SUFFICES ASSUME y \in CarriedOut PROVE FALSE
  OBVIOUS
<1>3. PICK j \in 1 .. pc - 1 : program[j] = y
  BY <1>1 DEF CarriedOut
<1>4. j \in DOMAIN program
  BY <1>1
<1>5. CASE x = y
  BY <1>1, <1>2, <1>3, <1>4, <1>5
<1>6. CASE Before(program, x, y)
  <2>1. PICK i \in 1 .. j - 1 : program[i] = x
    BY <1>3, <1>4, <1>6 DEF Before
  <2>2. i \in DOMAIN program /\ i # pc
    BY <1>1, <1>4
  <2> QED
    BY <1>1, <1>2, <2>1, <2>2
<1> QED
  BY <1>5, <1>6

LEMMA Relied ==
  ASSUME TypeOK, Shaped, NEW x, NEW y, At(y), Before(program, x, y)
  PROVE  x \in CarriedOut
<1>1. pc \in DOMAIN program /\ program[pc] = y /\ pc # 0 /\ program \in Seq(Ops)
  BY DEF At, Shaped
<1>2. PICK i \in 1 .. pc - 1 : program[i] = x
  BY <1>1 DEF Before
<1> QED
  BY <1>1, <1>2 DEF CarriedOut

(* The order of the operations of a program.                               *)
LEMMA Order ==
  ASSUME Shaped, pc # 0
  PROVE  /\ \A a \in Archives : Before(program, Rebuild(a), Write(a))
         /\ Before(program, Rebuild("main"), Write("header"))
         /\ Before(program, Rebuild("ui"), WriteSize("ui"))
         /\ Before(program, WriteSize("ui"), Write("ui"))
         /\ Before(program, Rebuild("embedded"), WriteSize("embedded"))
         /\ Before(program, WriteSize("embedded"), Check("embedded"))
         /\ Before(program, Rebuild("embedded"), Check("embedded"))
         /\ uiContainer = "main" => Before(program, Rebuild("ui"), Rebuild("main"))
BY DEF Shaped, InOrder

LEMMA EmbeddedFirst ==
  ASSUME TypeOK, Shaped, At(WriteSize("embedded"))
  PROVE  Write("embedded") \in CarriedOut
<1>1. pc \in DOMAIN program /\ program[pc] = WriteSize("embedded") /\ pc # 0 /\ program \in Seq(Ops)
  BY DEF At, Shaped
<1>2. pc - 1 \in DOMAIN program /\ program[pc - 1] = Write("embedded")
  BY <1>1 DEF Shaped, InOrder
<1>3. pc - 1 \in 1 .. pc - 1
  BY <1>1, <1>2
<1> QED
  BY <1>1, <1>2, <1>3 DEF CarriedOut

LEMMA OpsDiffer ==
  ASSUME NEW x, NEW y
  PROVE  /\ Rebuild(x) # Write(y) /\ Rebuild(x) # WriteSize(y) /\ Rebuild(x) # Check(y)
         /\ Write(x) # WriteSize(y) /\ Write(x) # Check(y) /\ WriteSize(x) # Check(y)
         /\ Rebuild(x) = Rebuild(y) => x = y
         /\ Write(x) = Write(y) => x = y
         /\ WriteSize(x) = WriteSize(y) => x = y
         /\ Check(x) = Check(y) => x = y
BY DEF Rebuild, Write, WriteSize, Check

LEMMA NotAt ==
  ASSUME NEW x, NEW y, At(x), x # y
  PROVE  ~At(y)
BY DEF At

-----------------------------------------------------------------------------
(* The steps                                                               *)

LEMMA SizesNat == \A x \in Sizes \cup {0} : x \in Nat
BY LayoutAssumption

LEMMA InitKeeps == Init => IInv
<1> SUFFICES ASSUME Init PROVE IInv
  OBVIOUS
<1> USE DEF Init
<1>1. OldSize \in [Archives -> Sizes] /\ \A a \in Archives : OldSize[a] \in Nat
  BY LayoutAssumption
<1>2. TypeOK
  <2>1. \A r \in Regions : image[r] \in Contents
    <3> SUFFICES ASSUME NEW r \in Regions PROVE image[r] \in Contents
      OBVIOUS
    <3>1. image[r] = Data(0, TRUE, IF r \in Archives THEN OldSize[r] ELSE 0)
      OBVIOUS
    <3>2. (IF r \in Archives THEN OldSize[r] ELSE 0) \in Sizes \cup {0}
      BY <1>1
    <3>3. 0 \in Nobody .. MaxRuns
      BY LayoutAssumption DEF Nobody
    <3> QED
      BY <3>1, <3>2, <3>3 DEF Data, Contents
  <2>2. image \in [Regions -> Contents]
    BY <2>1
  <2>3. size \in [{"embedded", "ui"} -> Sizes \cup {0}]
    BY <1>1 DEF Archives
  <2>4. temp \in [Archives -> Contents]
    BY LayoutAssumption DEF Data, Contents, Nobody
  <2>5. program \in Seq(Ops)
    OBVIOUS
  <2>6. pc \in 0 .. Len(program) + 1 /\ run \in 0 .. MaxRuns
    BY <2>5, LayoutAssumption
  <2> QED
    BY <2>2, <2>3, <2>4, <2>5, <2>6 DEF TypeOK, Ops
<1>3. /\ image["embedded"] = Data(0, TRUE, OldSize["embedded"])
      /\ image["ui"] = Data(0, TRUE, OldSize["ui"]) /\ image["main"] = Data(0, TRUE, OldSize["main"])
      /\ size["embedded"] = OldSize["embedded"] /\ size["ui"] = OldSize["ui"]
  BY DEF Archives, Regions
<1>4. CarriedOut = {}
  BY DEF CarriedOut
<1>5. OldSize["ui"] \in Nat /\ OldSize["embedded"] \in Nat /\ OldSize["main"] \in Nat
  BY <1>1 DEF Archives
<1>6. OldSize["ui"] <= AlignSize(OldSize["ui"])
  BY <1>5, AlignSizeCovers
<1>7. WritesFit
  BY <1>3, <1>5, <1>6, LayoutAssumption DEF WritesFit, Data
<1>8. \A a \in Archives : image[a].sound
  BY <1>3 DEF Archives, Data
<1>9. image["embedded"].length <= size["embedded"] /\ image["ui"].length <= size["ui"]
  BY <1>3, <1>5 DEF Data
<1> QED
  BY <1>2, <1>3, <1>4, <1>7, <1>8, <1>9
  DEF IInv, Shaped, UiPlace, Rebuilt, ImageSound, EmbeddedSized, UiSized, Written

LEMMA StartKeeps == IInv /\ Start => IInv'
<1> SUFFICES ASSUME IInv, Start PROVE IInv'
  OBVIOUS
<1> USE DEF IInv
<1>1. /\ pc = 0 /\ pc' = 1 /\ UNCHANGED <<uiContainer, image, size, temp, accidents>>
      /\ run \in 0 .. MaxRuns /\ run < MaxRuns /\ run' = run + 1
  BY DEF Start, TypeOK
<1>2. \/ program' = RebuildOps \o ReplaceOps \o <<>>
      \/ program' = RebuildOps \o ReplaceOps \o CheckOps
  BY DEF Start
<1>3. /\ program' \in Seq(Ops) /\ Len(program') \in Nat \ {0}
      /\ InOrder(program') /\ Complete(program', Replaced)
      /\ uiContainer = "main" => Before(program', Rebuild("ui"), Rebuild("main"))
  <2>1. CASE uiContainer = "own"
    <3>1. program' \in {OwnUnchecked, OwnChecked}
      BY <1>2, <2>1, OwnPrograms
    <3> QED
      BY <2>1, <3>1, OwnShaped
  <2>2. CASE uiContainer = "main"
    <3>1. program' \in {MainUnchecked, MainChecked}
      BY <1>2, <2>2, MainPrograms
    <3> QED
      BY <2>2, <3>1, MainShaped
  <2>3. CASE uiContainer = "none"
    <3>1. program' \in {PlainUnchecked, PlainChecked}
      BY <1>2, <2>3, PlainPrograms
    <3> QED
      BY <2>3, <3>1, PlainShaped
  <2> QED
    BY <2>1, <2>2, <2>3 DEF TypeOK
<1>4. Shaped'
  <2>1. Replaced' = Replaced
    BY <1>1 DEF Replaced, ReplaceOps, HasUi
  <2> QED
    BY <1>1, <1>3, <2>1 DEF Shaped
<1>5. CarriedOut' = {}
  BY <1>1, NothingDone
<1>6. TypeOK'
  <2>1. run' \in 0 .. MaxRuns /\ pc' \in 0 .. Len(program') + 1
    BY <1>1, <1>3, LayoutAssumption
  <2> QED
    BY <1>1, <1>3, <2>1 DEF TypeOK, Ops
<1>7. ~At(WriteSize("embedded"))
  BY <1>1 DEF At
<1> QED
  BY <1>1, <1>4, <1>5, <1>6, <1>7
  DEF UiPlace, WritesFit, Rebuilt, ImageSound, EmbeddedSized, UiSized, Written, Unhurt

(* What a run finds sound in the image, it rebuilds sound.                 *)
LEMMA FoundSound ==
  ASSUME IInv, NEW a \in Archives, Unhurt(a), ~(a = "embedded" /\ At(WriteSize(a)))
  PROVE  Sound(a)
<1> USE DEF IInv
<1>1. /\ image["ui"].length <= size["ui"]
      /\ a = "embedded" => image["embedded"].length <= size["embedded"]
  BY DEF EmbeddedSized, UiSized, Unhurt
<1>2. /\ Place(a) \in Archives /\ (Place(a) = "embedded" => a = "embedded")
      /\ Unhurt(Place(a))
  BY DEF Place, Archives, Unhurt
<1>3. image[Place(a)].sound
  BY <1>2 DEF ImageSound
<1> QED
  BY <1>1, <1>2, <1>3 DEF Sound, Archives

LEMMA RebuildKeeps == ASSUME NEW a \in Archives PROVE IInv /\ RebuildArchive(a) => IInv'
<1> SUFFICES ASSUME IInv, RebuildArchive(a) PROVE IInv'
  OBVIOUS
<1> USE DEF IInv
<1>1. /\ At(Rebuild(a)) /\ pc' = pc + 1
      /\ UNCHANGED <<uiContainer, image, size, program, run, accidents>>
  BY DEF RebuildArchive, Advance
<1> DEFINE sound == Sound(a) /\ (a = "main" /\ uiContainer = "main" => temp["ui"].sound)
<1>2. PICK length \in Sizes : temp' = [temp EXCEPT ![a] = Data(run, sound, length)]
  BY DEF RebuildArchive
<1>3. /\ CarriedOut' = CarriedOut \cup {Rebuild(a)} /\ Shaped' /\ pc # 0 /\ pc' # 0
      /\ pc' \in 0 .. Len(program) + 1
  BY <1>1, Stepped
<1>4. sound \in BOOLEAN
  OBVIOUS
<1>5. Unhurt(a) => sound
  <2> SUFFICES ASSUME Unhurt(a) PROVE sound
    OBVIOUS
  <2>1. ~At(WriteSize("embedded"))
    BY <1>1, NotAt, OpsDiffer
  <2>2. Sound(a)
    BY <2>1, FoundSound
  <2>3. ASSUME a = "main", uiContainer = "main" PROVE temp["ui"].sound
    <3>1. Rebuild("ui") \in CarriedOut
      BY <1>1, <1>3, <2>3, Order, Relied
    <3>2. Unhurt("ui") /\ "ui" \in Archives
      BY DEF Unhurt, Archives
    <3> QED
      BY <3>1, <3>2 DEF Rebuilt
  <2> QED
    BY <2>2, <2>3
<1> HIDE DEF sound
<1>6. temp'[a] = Data(run, sound, length) /\ \A b \in Archives : b # a => temp'[b] = temp[b]
  BY <1>2 DEF TypeOK
<1>7. TypeOK'
  <2>1. Data(run, sound, length) \in Contents
    BY <1>4, LayoutAssumption DEF Data, Contents, Nobody, TypeOK
  <2>2. temp' \in [Archives -> Contents]
    BY <1>2, <2>1 DEF TypeOK
  <2> QED
    BY <1>1, <1>3, <2>2 DEF TypeOK
<1>8. Rebuilt'
  <2> SUFFICES ASSUME NEW b \in Archives, Rebuild(b) \in CarriedOut'
               PROVE  temp'[b].of = run /\ (Unhurt(b) => temp'[b].sound)
    BY <1>1 DEF Rebuilt, Unhurt
  <2>1. CASE b = a
    BY <1>5, <1>6, <2>1 DEF Data
  <2>2. CASE b # a
    <3>1. Rebuild(b) \in CarriedOut
      BY <1>3, <2>2, OpsDiffer
    <3> QED
      BY <1>6, <2>2, <3>1 DEF Rebuilt
  <2> QED
    BY <2>1, <2>2
<1>9. EmbeddedSized'
  <2>1. ~At(WriteSize("embedded"))
    BY <1>1, NotAt, OpsDiffer
  <2>2. /\ Write("embedded") \in CarriedOut' => Write("embedded") \in CarriedOut
        /\ Check("embedded") \in CarriedOut' => Check("embedded") \in CarriedOut
    BY <1>3, OpsDiffer
  <2>3. CASE a = "embedded"
    <3>1. Write("embedded") \notin CarriedOut /\ Check("embedded") \notin CarriedOut
      BY <1>1, <1>3, <2>3, Order, DoneOnce
    <3> QED
      BY <1>1, <2>1, <2>2, <3>1 DEF EmbeddedSized
  <2>4. CASE a # "embedded"
    <3>1. temp'["embedded"] = temp["embedded"]
      BY <1>6, <2>4 DEF Archives
    <3> QED
      BY <1>1, <2>1, <2>2, <3>1 DEF EmbeddedSized
  <2> QED
    BY <2>3, <2>4
<1>10. UiSized'
  <2>1. WriteSize("ui") \in CarriedOut' => WriteSize("ui") \in CarriedOut
    BY <1>3, OpsDiffer
  <2>2. CASE a = "ui"
    <3>1. WriteSize("ui") \notin CarriedOut
      BY <1>1, <1>3, <2>2, Order, DoneOnce
    <3> QED
      BY <1>1, <2>1, <3>1 DEF UiSized
  <2>3. CASE a # "ui"
    <3>1. temp'["ui"] = temp["ui"]
      BY <1>6, <2>3 DEF Archives
    <3> QED
      BY <1>1, <2>1, <3>1 DEF UiSized
  <2> QED
    BY <2>2, <2>3
<1>11. Written'
  <2>1. \A r \in Regions : Write(r) \in CarriedOut' => Write(r) \in CarriedOut
    BY <1>3, OpsDiffer
  <2> QED
    BY <1>1, <2>1 DEF Written
<1>12. UiPlace' /\ WritesFit' /\ ImageSound'
  BY <1>1 DEF UiPlace, WritesFit, ImageSound, Unhurt
<1> QED
  BY <1>3, <1>7, <1>8, <1>9, <1>10, <1>11, <1>12

(* What a write puts into the image.                                       *)
LEMMA SourceWritten ==
  ASSUME IInv, NEW r \in Regions, At(Write(r))
  PROVE  /\ Source(r) \in Contents /\ Source(r).of = run
         /\ r \in Archives /\ Unhurt(r) => Source(r).sound
<1> USE DEF IInv
<1>1. pc # 0
  BY DEF At, Shaped
<1>2. CASE r \in Archives
  <2>1. Source(r) = temp[r] /\ temp[r] \in Contents
    BY <1>2 DEF Source, TypeOK, Archives
  <2>2. Rebuild(r) \in CarriedOut
    BY <1>1, <1>2, Order, Relied
  <2> QED
    BY <1>2, <2>1, <2>2 DEF Rebuilt
<1>3. CASE r = "header"
  <2>1. Source(r) = temp["main"] /\ temp["main"] \in Contents
    BY <1>3 DEF Source, TypeOK, Archives
  <2>2. Rebuild("main") \in CarriedOut
    BY <1>1, <1>3, Order, Relied
  <2> QED
    BY <1>3, <2>1, <2>2 DEF Rebuilt, Archives
<1>4. CASE r \notin Archives /\ r # "header"
  <2>1. Source(r) = Data(run, TRUE, 0)
    BY <1>4 DEF Source
  <2>2. Data(run, TRUE, 0) \in Contents
    BY LayoutAssumption DEF TypeOK, Data, Contents, Nobody
  <2> QED
    BY <1>4, <2>1, <2>2 DEF Data
<1> QED
  BY <1>2, <1>3, <1>4

(* What fits stays within its place.                                       *)
LEMMA FitsInPlace ==
  ASSUME IInv, NEW r \in Regions, Fits(r), NEW data, data.length = Source(r).length,
         image' = [image EXCEPT ![r] = data]
  PROVE  WritesFit'
<1> USE DEF IInv
<1>1. /\ image'[r] = data
      /\ \A q \in Regions : q # r => image'[q] = image[q]
  BY DEF TypeOK
<1>2. CASE r \notin Archives
  <2>1. \A a \in {"embedded", "ui", "main"} : image'[a] = image[a]
    BY <1>1, <1>2 DEF Archives, Regions
  <2> QED
    BY <2>1 DEF WritesFit
<1>3. CASE r = "ui"
  <2>1. data.length <= AlignSize(OldSize["ui"])
    BY <1>3 DEF Fits, Source, Archives, UiPlace
  <2>2. image'["embedded"] = image["embedded"] /\ image'["main"] = image["main"]
    BY <1>1, <1>3 DEF Regions
  <2> QED
    BY <1>1, <1>3, <2>1, <2>2 DEF WritesFit
<1>4. CASE r \in {"embedded", "main"}
  <2>1. data.length <= Room[r]
    BY <1>4 DEF Fits, Source, Archives
  <2>2. \A q \in {"embedded", "ui", "main"} : q # r => image'[q] = image[q]
    BY <1>1 DEF Regions
  <2> QED
    BY <1>1, <1>4, <2>1, <2>2 DEF WritesFit
<1> QED
  BY <1>2, <1>3, <1>4 DEF Archives

(* The size of ui.arc covers what is about to be written there.            *)
LEMMA UiCovered ==
  ASSUME IInv, At(Write("ui")), "sizeLost" \notin accidents
  PROVE  temp["ui"].length <= size["ui"]
<1>1. pc # 0
  BY DEF IInv, At, Shaped
<1>2. WriteSize("ui") \in CarriedOut
  BY <1>1, Order, Relied DEF IInv
<1> QED
  BY <1>2 DEF IInv, UiSized

LEMMA WriteKeeps == ASSUME NEW r \in Regions PROVE IInv /\ WriteData(r) => IInv'
<1> SUFFICES ASSUME IInv, WriteData(r) PROVE IInv'
  OBVIOUS
<1> USE DEF IInv
<1>1. /\ At(Write(r)) /\ Fits(r) /\ pc' = pc + 1
      /\ image' = [image EXCEPT ![r] = Source(r)]
      /\ UNCHANGED <<uiContainer, size, temp, program, run, accidents>>
  BY DEF WriteData, Advance
<1>2. /\ CarriedOut' = CarriedOut \cup {Write(r)} /\ Shaped' /\ pc' \in 0 .. Len(program) + 1
  BY <1>1, Stepped
<1>3. /\ Source(r) \in Contents /\ Source(r).of = run
      /\ r \in Archives /\ Unhurt(r) => Source(r).sound
  BY <1>1, SourceWritten
<1>4. image'[r] = Source(r) /\ \A q \in Regions : q # r => image'[q] = image[q]
  BY <1>1 DEF TypeOK
<1>5. TypeOK'
  <2>1. image' \in [Regions -> Contents]
    BY <1>1, <1>3 DEF TypeOK
  <2> QED
    BY <1>1, <1>2, <2>1 DEF TypeOK
<1>6. WritesFit'
  BY <1>1, FitsInPlace
<1>7. UiPlace'
  BY <1>1 DEF UiPlace
<1>8. Rebuilt'
  <2>1. \A a \in Archives : Rebuild(a) \in CarriedOut' => Rebuild(a) \in CarriedOut
    BY <1>2, OpsDiffer
  <2> QED
    BY <1>1, <2>1 DEF Rebuilt, Unhurt
<1>9. ImageSound'
  <2> SUFFICES ASSUME NEW a \in Archives, Unhurt(a) PROVE image'[a].sound
    BY <1>1 DEF ImageSound, Unhurt
  <2>1. a \in Regions
    BY DEF Archives, Regions
  <2> QED
    BY <1>3, <1>4, <2>1 DEF ImageSound
<1>10. Check("embedded") \in CarriedOut' => Check("embedded") \in CarriedOut
  BY <1>2, OpsDiffer
<1>11. EmbeddedSized'
  <2>1. CASE r = "embedded"
    <3>1. image'["embedded"] = temp["embedded"]
      BY <1>4, <2>1 DEF Source, Archives
    <3>2. At(WriteSize("embedded"))'
      <4>1. pc \in DOMAIN program /\ program[pc] = Write("embedded") /\ program \in Seq(Ops) /\ pc # 0
        BY <1>1, <2>1 DEF At, Shaped
      <4>2. pc + 1 \in DOMAIN program /\ program[pc + 1] = WriteSize("embedded")
        BY <4>1 DEF Shaped, InOrder
      <4> QED
        BY <1>1, <4>1, <4>2 DEF At
    <3> QED
      BY <1>1, <1>10, <3>1, <3>2 DEF EmbeddedSized
  <2>2. CASE r # "embedded"
    <3>1. image'["embedded"] = image["embedded"]
      BY <1>4, <2>2 DEF Regions
    <3>2. Write("embedded") \in CarriedOut' => Write("embedded") \in CarriedOut
      BY <1>2, <2>2, OpsDiffer
    <3>3. ~At(WriteSize("embedded"))
      BY <1>1, NotAt, OpsDiffer
    <3> QED
      BY <1>1, <1>10, <3>1, <3>2, <3>3 DEF EmbeddedSized
  <2> QED
    BY <2>1, <2>2
<1>12. UiSized'
  <2>1. WriteSize("ui") \in CarriedOut' => WriteSize("ui") \in CarriedOut
    BY <1>2, OpsDiffer
  <2>2. CASE r = "ui"
    <3>1. image'["ui"] = temp["ui"]
      BY <1>4, <2>2 DEF Source, Archives
    <3>2. "sizeLost" \notin accidents => temp["ui"].length <= size["ui"]
      BY <1>1, <2>2, UiCovered
    <3> QED
      BY <1>1, <2>1, <3>1, <3>2 DEF UiSized
  <2>3. CASE r # "ui"
    <3>1. image'["ui"] = image["ui"]
      BY <1>4, <2>3 DEF Regions
    <3> QED
      BY <1>1, <2>1, <3>1 DEF UiSized
  <2> QED
    BY <2>2, <2>3
<1>13. Written'
  <2> SUFFICES ASSUME NEW q \in Regions, Write(q) \in CarriedOut' PROVE image'[q].of = run
    BY <1>1 DEF Written
  <2>1. CASE q = r
    BY <1>3, <1>4, <2>1
  <2>2. CASE q # r
    <3>1. Write(q) \in CarriedOut
      BY <1>2, <2>2, OpsDiffer
    <3> QED
      BY <1>4, <2>2, <3>1 DEF Written
  <2> QED
    BY <2>1, <2>2
<1> QED
  BY <1>2, <1>5, <1>6, <1>7, <1>8, <1>9, <1>11, <1>12, <1>13

LEMMA TearKeeps == ASSUME NEW r \in Regions PROVE IInv /\ TearWrite(r) => IInv'
<1> SUFFICES ASSUME IInv, TearWrite(r) PROVE IInv'
  OBVIOUS
<1> USE DEF IInv
<1> DEFINE torn == Data(Nobody, FALSE, Source(r).length)
<1>1. /\ At(Write(r)) /\ Fits(r) /\ pc' = 0
      /\ image' = [image EXCEPT ![r] = torn] /\ accidents' = accidents \cup {"torn"}
      /\ UNCHANGED <<uiContainer, size, temp, program, run>>
  BY DEF TearWrite
<1>2. CarriedOut' = {} /\ Shaped'
  BY <1>1, NothingDone DEF Shaped
<1>3. Source(r) \in Contents
  BY <1>1, SourceWritten
<1>4. torn \in Contents /\ torn.length = Source(r).length
  BY <1>3, LayoutAssumption DEF Contents, Data, Nobody
<1> HIDE DEF torn
<1>5. image'[r] = torn /\ \A q \in Regions : q # r => image'[q] = image[q]
  BY <1>1 DEF TypeOK
<1>6. TypeOK'
  <2>1. image' \in [Regions -> Contents]
    BY <1>1, <1>4 DEF TypeOK
  <2>2. pc' \in 0 .. Len(program) + 1 /\ accidents' \subseteq {"torn", "sizeLost", "gap"}
    BY <1>1 DEF TypeOK
  <2> QED
    BY <1>1, <2>1, <2>2 DEF TypeOK
<1>7. WritesFit'
  BY <1>1, <1>4, FitsInPlace
<1>8. /\ accidents' # {} /\ ("sizeLost" \notin accidents' => "sizeLost" \notin accidents)
      /\ \A a \in Archives : ~Unhurt(a)'
  BY <1>1 DEF Unhurt
<1>9. UiSized'
  <2>1. CASE r = "ui"
    <3>1. torn.length = temp["ui"].length
      BY <1>4, <2>1 DEF Source, Archives
    <3>2. "sizeLost" \notin accidents => temp["ui"].length <= size["ui"]
      BY <1>1, <2>1, UiCovered
    <3> QED
      BY <1>1, <1>2, <1>5, <1>8, <2>1, <3>1, <3>2 DEF UiSized
  <2>2. CASE r # "ui"
    <3>1. image'["ui"] = image["ui"]
      BY <1>5, <2>2 DEF Regions
    <3> QED
      BY <1>1, <1>2, <1>8, <3>1 DEF UiSized
  <2> QED
    BY <2>1, <2>2
<1> QED
  BY <1>1, <1>2, <1>6, <1>7, <1>8, <1>9
  DEF UiPlace, Rebuilt, ImageSound, EmbeddedSized, Written

LEMMA SizeKeeps == ASSUME NEW a \in {"embedded", "ui"} PROVE IInv /\ WriteSizeField(a) => IInv'
<1> SUFFICES ASSUME IInv, WriteSizeField(a) PROVE IInv'
  OBVIOUS
<1> USE DEF IInv
<1>1. /\ At(WriteSize(a)) /\ Fits(a) /\ pc' = pc + 1
      /\ UNCHANGED <<uiContainer, image, temp, program, run>>
      /\ \/ size' = [size EXCEPT ![a] = NewSize(a)] /\ accidents' = accidents
         \/ size' = size /\ accidents' = accidents \cup {"sizeLost"}
  BY DEF WriteSizeField, Advance
<1>2. /\ CarriedOut' = CarriedOut \cup {WriteSize(a)} /\ Shaped' /\ pc' \in 0 .. Len(program) + 1
      /\ pc # 0
  BY <1>1, Stepped
<1>3. /\ temp[a].length \in Sizes \cup {0} /\ temp[a].length \in Nat
      /\ size[a] \in Sizes \cup {0} /\ size[a] \in Nat
  BY SizesNat DEF TypeOK, Contents, Archives
<1>4. /\ NewSize(a) \in Sizes \cup {0} /\ temp[a].length <= NewSize(a)
      /\ a = "embedded" => NewSize(a) = temp[a].length
      /\ a = "ui" => size[a] <= NewSize(a)
  BY <1>3 DEF NewSize
<1>5. TypeOK'
  BY <1>1, <1>2, <1>4 DEF TypeOK
<1>6. UiPlace'
  <2>1. CASE size'["ui"] = size["ui"]
    BY <2>1 DEF UiPlace
  <2>2. CASE size'["ui"] # size["ui"]
    <3>1. a = "ui" /\ size'["ui"] = NewSize("ui")
      BY <1>1, <2>2 DEF TypeOK
    <3>2. NewSize("ui") <= AlignSize(size["ui"])
      <4>1. temp["ui"].length <= AlignSize(size["ui"])
        BY <1>1, <3>1 DEF Fits, Archives
      <4>2. size["ui"] <= AlignSize(size["ui"])
        BY <1>3, <3>1, AlignSizeCovers
      <4> QED
        BY <4>1, <4>2 DEF NewSize
    <3>3. NewSize("ui") \in Nat /\ size["ui"] <= NewSize("ui")
      BY <1>3, <1>4, <3>1, SizesNat
    <3>4. AlignSize(NewSize("ui")) = AlignSize(size["ui"])
      BY <1>3, <3>1, <3>2, <3>3, AlignSizeKeeps
    <3> QED
      BY <3>1, <3>4 DEF UiPlace
  <2> QED
    BY <2>1, <2>2
<1>7. /\ accidents' = {} => accidents = {} /\ size' = [size EXCEPT ![a] = NewSize(a)]
      /\ \A b \in Archives : Unhurt(b)' => Unhurt(b)
  BY <1>1 DEF Unhurt
<1>8. Rebuilt'
  <2>1. \A b \in Archives : Rebuild(b) \in CarriedOut' => Rebuild(b) \in CarriedOut
    BY <1>2, OpsDiffer
  <2> QED
    BY <1>1, <1>7, <2>1 DEF Rebuilt
<1>9. /\ Write("embedded") \in CarriedOut' => Write("embedded") \in CarriedOut
      /\ Check("embedded") \in CarriedOut' => Check("embedded") \in CarriedOut
  BY <1>2, OpsDiffer
<1>10. EmbeddedSized'
  <2>1. CASE a = "embedded"
    <3>1. image["embedded"] = temp["embedded"]
      BY <1>1, <2>1, EmbeddedFirst DEF EmbeddedSized
    <3>2. Check("embedded") \notin CarriedOut
      BY <1>1, <1>2, <2>1, Order, DoneOnce
    <3>3. accidents' = {} => size'["embedded"] = temp["embedded"].length
      BY <1>4, <1>7, <2>1 DEF TypeOK
    <3>4. accidents' = {} => image'["embedded"].length <= size'["embedded"]
      BY <1>1, <1>3, <2>1, <3>1, <3>3
    <3> QED
      BY <1>1, <1>9, <3>1, <3>2, <3>4 DEF EmbeddedSized
  <2>2. CASE a = "ui"
    <3>1. size'["embedded"] = size["embedded"]
      BY <1>1, <2>2 DEF TypeOK
    <3>2. ~At(WriteSize("embedded"))
      BY <1>1, <2>2, NotAt, OpsDiffer
    <3> QED
      BY <1>1, <1>7, <1>9, <3>1, <3>2 DEF EmbeddedSized
  <2> QED
    BY <2>1, <2>2
<1>11. UiSized'
  <2> SUFFICES ASSUME "sizeLost" \notin accidents'
               PROVE  /\ image["ui"].length <= size'["ui"]
                      /\ WriteSize("ui") \in CarriedOut' => temp["ui"].length <= size'["ui"]
    BY <1>1 DEF UiSized
  <2>1. size' = [size EXCEPT ![a] = NewSize(a)] /\ "sizeLost" \notin accidents
    BY <1>1
  <2>2. image["ui"].length <= size["ui"] /\ image["ui"].length \in Nat
    BY <2>1, SizesNat DEF UiSized, TypeOK, Contents, Regions
  <2>3. CASE a = "ui"
    <3>1. size'["ui"] = NewSize("ui") /\ NewSize("ui") \in Nat
      BY <1>4, <2>1, <2>3, SizesNat DEF TypeOK
    <3> QED
      BY <1>3, <1>4, <2>2, <2>3, <3>1
  <2>4. CASE a = "embedded"
    <3>1. size'["ui"] = size["ui"]
      BY <2>1, <2>4 DEF TypeOK
    <3>2. WriteSize("ui") \in CarriedOut' => WriteSize("ui") \in CarriedOut
      BY <1>2, <2>4, OpsDiffer
    <3> QED
      BY <2>1, <2>2, <3>1, <3>2 DEF UiSized
  <2> QED
    BY <2>3, <2>4
<1>12. Written'
  <2>1. \A r \in Regions : Write(r) \in CarriedOut' => Write(r) \in CarriedOut
    BY <1>2, OpsDiffer
  <2> QED
    BY <1>1, <2>1 DEF Written
<1>13. WritesFit' /\ ImageSound'
  BY <1>1, <1>7 DEF WritesFit, ImageSound
<1> QED
  BY <1>2, <1>5, <1>6, <1>8, <1>10, <1>11, <1>12, <1>13

LEMMA CheckKeeps == ASSUME NEW r \in Regions PROVE IInv /\ CheckData(r) => IInv'
<1> SUFFICES ASSUME IInv, CheckData(r) PROVE IInv'
  OBVIOUS
<1> USE DEF IInv
<1>1. /\ At(Check(r)) /\ Same(r) /\ pc' = pc + 1
      /\ UNCHANGED <<uiContainer, image, size, temp, program, run, accidents>>
  BY DEF CheckData, Advance
<1>2. CarriedOut' = CarriedOut \cup {Check(r)} /\ Shaped' /\ pc' \in 0 .. Len(program) + 1
  BY <1>1, Stepped
<1>3. TypeOK'
  BY <1>1, <1>2 DEF TypeOK
<1>4. /\ \A a \in Archives : Rebuild(a) \in CarriedOut' => Rebuild(a) \in CarriedOut
      /\ \A q \in Regions : Write(q) \in CarriedOut' => Write(q) \in CarriedOut
      /\ Write("embedded") \in CarriedOut' => Write("embedded") \in CarriedOut
      /\ WriteSize("ui") \in CarriedOut' => WriteSize("ui") \in CarriedOut
      /\ Check("embedded") \in CarriedOut' => Check("embedded") \in CarriedOut \/ r = "embedded"
  BY <1>2, OpsDiffer
<1>5. EmbeddedSized'
  <2>1. ~At(WriteSize("embedded"))
    BY <1>1, NotAt, OpsDiffer
  <2>2. r = "embedded" => size["embedded"] = temp["embedded"].length
    BY <1>1 DEF Same
  <2> QED
    BY <1>1, <1>4, <2>1, <2>2 DEF EmbeddedSized
<1>6. UiPlace' /\ WritesFit' /\ ImageSound'
  BY <1>1 DEF UiPlace, WritesFit, ImageSound, Unhurt
<1>7. Rebuilt' /\ UiSized' /\ Written'
  BY <1>1, <1>4 DEF Rebuilt, UiSized, Written, Unhurt
<1> QED
  BY <1>2, <1>3, <1>5, <1>6, <1>7

LEMMA EndKeeps == IInv /\ (EndEarly \/ Finish) => IInv'
<1> SUFFICES ASSUME IInv, EndEarly \/ Finish PROVE IInv'
  OBVIOUS
<1> USE DEF IInv
<1>1. pc' = 0 /\ UNCHANGED <<uiContainer, image, size, temp, program, run>>
  BY DEF EndEarly, Finish
<1>2. /\ accidents' \in {accidents, accidents \cup {"gap"}}
      /\ accidents' = {} => /\ accidents = {}
                            /\ At(WriteSize("embedded")) => ~(temp["embedded"].length > size["embedded"])
  <2>1. CASE EndEarly
    BY <2>1 DEF EndEarly
  <2>2. CASE Finish
    <3>1. Len(program) \in Nat /\ pc \in Nat
      BY DEF TypeOK
    <3>2. ~At(WriteSize("embedded"))
      BY <2>2, <3>1 DEF Finish, Finished, At
    <3> QED
      BY <2>2, <3>2 DEF Finish
  <2> QED
    BY <2>1, <2>2
<1>3. CarriedOut' = {} /\ Shaped'
  BY <1>1, NothingDone DEF Shaped
<1>4. TypeOK'
  <2>1. pc' \in 0 .. Len(program) + 1
    BY <1>1 DEF TypeOK
  <2> QED
    BY <1>1, <1>2, <2>1 DEF TypeOK
<1>5. accidents' = {} => image["embedded"].length <= size["embedded"]
  <2> SUFFICES ASSUME accidents' = {}, At(WriteSize("embedded"))
               PROVE  image["embedded"].length <= size["embedded"]
    BY <1>2 DEF EmbeddedSized
  <2>1. image["embedded"] = temp["embedded"]
    BY EmbeddedFirst DEF EmbeddedSized
  <2>2. temp["embedded"].length \in Nat /\ size["embedded"] \in Nat
    BY SizesNat DEF TypeOK, Contents, Archives
  <2> QED
    BY <1>2, <2>1, <2>2
<1>6. EmbeddedSized'
  BY <1>1, <1>3, <1>5 DEF EmbeddedSized
<1>7. UiSized'
  BY <1>1, <1>2, <1>3 DEF UiSized
<1>8. \A a \in Archives : Unhurt(a)' => Unhurt(a)
  BY <1>2 DEF Unhurt
<1> QED
  BY <1>1, <1>3, <1>4, <1>6, <1>7, <1>8 DEF UiPlace, WritesFit, Rebuilt, ImageSound, Written

LEMMA StepKeeps == IInv /\ [Next]_vars => IInv'
<1> SUFFICES ASSUME IInv, [Next]_vars PROVE IInv'
  OBVIOUS
<1>1. CASE UNCHANGED vars
  <2>1. Replaced' = Replaced
    BY <1>1 DEF vars, Replaced, ReplaceOps, HasUi
  <2> QED
    BY <1>1, <2>1 DEF vars, IInv, TypeOK, Shaped, UiPlace, WritesFit, Rebuilt, ImageSound,
      EmbeddedSized, UiSized, Written, CarriedOut, At, Unhurt
<1>2. CASE Next
  BY <1>2, StartKeeps, EndKeeps, RebuildKeeps, WriteKeeps, TearKeeps, CheckKeeps, SizeKeeps DEF Next
<1> QED
  BY <1>1, <1>2

LEMMA Invariance == Spec => []IInv
BY InitKeeps, StepKeeps, PTL DEF Spec

-----------------------------------------------------------------------------
(* Results                                                                 *)

(* However many runs patch what earlier ones left, the archives written    *)
(* with replaceArchive stay within the places the original image has for   *)
(* them: the size field that limits ui.arc may grow with each run, but not *)
(* past the padding it had at first.                                       *)
THEOREM PlacesKept == Spec => []WritesFit
<1>1. IInv => WritesFit
  BY DEF IInv
<1> QED
  BY <1>1, Invariance, PTL

(* Runs that are refused, stopped or killed between two operations, as     *)
(* many as there are, leave an image all of whose archives can be read in  *)
(* full, except that one killed after the content of a longer embedded     *)
(* archive and before its size costs that archive; no other depends on it. *)
THEOREM OriginalsKept == Spec => []NothingLost
<1>1. IInv => NothingLost
  BY FoundSound DEF NothingLost
<1> QED
  BY <1>1, Invariance, PTL

(* A run whose check has passed left all it wrote as its own, with the     *)
(* size of the embedded archive; that of ui.arc is short only if it could  *)
(* not be written.  For the archives and the header it is the check that   *)
(* says so; the executable and the files, which are never read back, are   *)
(* this run's because a write that ended early would have ended the run.   *)
THEOREM CheckMeansPatched == Spec => []CheckedIsPatched
<1>1. IInv => CheckedIsPatched
  <2> SUFFICES ASSUME IInv, Checked
               PROVE  /\ \A r \in Replaced : image[r].of = run
                      /\ size["embedded"] = image["embedded"].length
                      /\ size["ui"] < image["ui"].length => "sizeLost" \in accidents
    BY DEF CheckedIsPatched
  <2> USE DEF IInv
  <2>1. /\ program \in Seq(Ops) /\ pc # 0 /\ pc > Len(program) /\ pc \in 0 .. Len(program) + 1
        /\ Len(program) \in Nat
    BY DEF Checked, Finished, Shaped, TypeOK
  <2>2. CarriedOut = {program[i] : i \in DOMAIN program}
    <3>1. 1 .. pc - 1 = DOMAIN program
      BY <2>1
    <3> QED
      BY <2>1, <3>1 DEF CarriedOut
  <2>3. Has(program, Check("embedded")) /\ \A r \in Replaced : Has(program, Write(r))
    BY <2>1 DEF Checked, Shaped, Complete
  <2>4. \A r \in Replaced : image[r].of = run
    <3> SUFFICES ASSUME NEW r \in Replaced PROVE image[r].of = run
      OBVIOUS
    <3>1. PICK i \in DOMAIN program : program[i] = Write(r)
      BY <2>3 DEF Has
    <3>2. Write(r) \in Ops /\ Write(r) \in CarriedOut
      BY <2>1, <2>2, <3>1
    <3>3. r \in Regions
      BY <3>2, OpsDiffer DEF Ops
    <3> QED
      BY <3>2, <3>3 DEF Written
  <2>5. size["embedded"] = image["embedded"].length
    <3>1. PICK i \in DOMAIN program : program[i] = Check("embedded")
      BY <2>3 DEF Has
    <3>2. PICK j \in 1 .. i - 1 : program[j] = WriteSize("embedded")
      BY <2>1, <3>1, Order DEF Before
    <3>3. j \in DOMAIN program
      BY <2>1, <3>1, <3>2
    <3>4. j - 1 \in DOMAIN program /\ program[j - 1] = Write("embedded")
      BY <2>1, <3>2, <3>3 DEF Shaped, InOrder
    <3> QED
      BY <2>2, <3>1, <3>4 DEF EmbeddedSized
  <2>6. ASSUME size["ui"] < image["ui"].length PROVE "sizeLost" \in accidents
    <3>1. size["ui"] \in Nat /\ image["ui"].length \in Nat
      BY SizesNat DEF TypeOK, Contents, Regions
    <3> QED
      BY <2>6, <3>1 DEF UiSized
  <2> QED
    BY <2>4, <2>5, <2>6
<1> QED
  BY <1>1, Invariance, PTL

=============================================================================
