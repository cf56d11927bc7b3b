-------------------------- MODULE PatcherProcessor --------------------------
(***************************************************************************)
(* What PatcherProcessor of Shattered Memories does to a disc image.  A    *)
(* run rebuilds the archives of the image into a temporary directory,      *)
(* writes them over the old ones, together with their sizes, and reads     *)
(* them back.  It may end anywhere, by an error, a stop or a crash, also   *)
(* in the middle of a write, and a later run patches what it left.         *)
(*                                                                         *)
(* What an archive contains is abstracted to the run that rebuilt it, its  *)
(* length, and whether all of its files are sound.                         *)
(***************************************************************************)
EXTENDS Integers, Sequences

CONSTANTS
  Alignment,  \* of the files in the container of ui.arc
  Sizes,      \* the lengths an archive may have
  OldSize,    \* those in the original image
  Room,       \* for the embedded and the main archive
  MaxRuns     \* bound on the runs

Regions == {"embedded", "ui", "main", "header", "executable", "files"}
Archives == {"ui", "embedded", "main"}

ASSUME LayoutAssumption ==
  /\ Alignment \in Nat \ {0} /\ MaxRuns \in Nat
  /\ Sizes \subseteq Nat /\ OldSize \in [Archives -> Sizes]
  /\ Room \in [{"embedded", "main"} -> Nat]
  /\ OldSize["embedded"] <= Room["embedded"] /\ OldSize["main"] <= Room["main"]

VARIABLES
  uiContainer, \* where ui.arc is: an archive of its "own", the "main" one, or "none"
  image,       \* for each region what was written there last
  size,        \* the size fields of the embedded archive and of ui.arc
  temp,        \* the rebuilt archives
  program,     \* the operations of the run
  pc,          \* the operation it is at; 0 if none runs
  run,         \* the number of the run
  accidents    \* what went wrong that no later run can see

vars == <<uiContainer, image, size, temp, program, pc, run, accidents>>

Data(of, sound, length) == [of |-> of, sound |-> sound, length |-> length]
Nobody == -1   \* wrote data that is a mixture of two runs

AlignSize(s) == ((s + Alignment - 1) \div Alignment) * Alignment

-----------------------------------------------------------------------------
(* The operations of a run                                                 *)

Rebuild(a) == <<"rebuild", a>>
Write(r) == <<"write", r>>
WriteSize(a) == <<"size", a>>
Check(r) == <<"check", r>>

HasUi == uiContainer # "none"

RebuildOps == (IF HasUi THEN <<Rebuild("ui")>> ELSE <<>>) \o <<Rebuild("embedded"), Rebuild("main")>>

(* Mutated: the size of ui.arc is written after it, as the embedded one's. *)
ReplaceOpsUiFirst ==
  <<Write("embedded"), WriteSize("embedded")>>
    \o (IF uiContainer = "own" THEN <<Write("ui"), WriteSize("ui")>> ELSE <<>>)
    \o <<Write("main")>>
    \o (IF HasUi THEN <<Write("header")>> ELSE <<>>)
    \o <<Write("executable"), Write("files")>>

ReplaceOps ==
  <<Write("embedded"), WriteSize("embedded")>>
    \o (IF uiContainer = "own" THEN <<WriteSize("ui"), Write("ui")>> ELSE <<>>)
    \o <<Write("main")>>
    \o (IF HasUi THEN <<Write("header")>> ELSE <<>>)
    \o <<Write("executable"), Write("files")>>

CheckOps ==
  <<Check("embedded")>>
    \o (IF HasUi THEN <<Check("ui"), Check("header")>> ELSE <<>>)
    \o <<Check("main")>>

At(op) == pc \in 1 .. Len(program) /\ program[pc] = op
Advance == pc' = pc + 1

(* The steps of the controller, without those that leave the image and the *)
(* archives alone.                                                         *)
Start ==
  /\ pc = 0
  /\ run < MaxRuns
  /\ run' = run + 1
  /\ \E check \in BOOLEAN :
       program' = RebuildOps \o ReplaceOps \o (IF check THEN CheckOps ELSE <<>>)
  /\ pc' = 1
  /\ UNCHANGED <<uiContainer, image, size, temp, accidents>>

(* Where a part of the image is found.                                     *)
Place(r) == IF r = "ui" /\ uiContainer = "main" THEN "main" ELSE r

(* Of an archive no more is read than its size field says.                 *)
Sound(a) ==
  LET at == Place(a)
  IN image[at].sound /\ (at # "main" => image[at].length <= size[at])

(* The main archive takes in the rebuilt ui.arc if it contains one.        *)
RebuildArchive(a) ==
  /\ At(Rebuild(a))
  /\ LET sound == Sound(a) /\ (a = "main" /\ uiContainer = "main" => temp["ui"].sound)
     IN \E length \in Sizes : temp' = [temp EXCEPT ![a] = Data(run, sound, length)]
  /\ Advance
  /\ UNCHANGED <<uiContainer, image, size, program, run, accidents>>

Source(r) ==
  CASE r \in Archives -> temp[r]
    [] r = "header" -> temp["main"]
    [] OTHER -> Data(run, TRUE, 0)

(* Mutated: what fits is not asked of ui.arc.                              *)
FitsAnyUi(r) ==
  \/ r \notin {"embedded", "main"}
  \/ r \in {"embedded", "main"} /\ temp[r].length <= Room[r]

(* ui.arc may grow into the padding behind it; files and the header are as *)
(* long as what they replace.                                              *)
Fits(r) ==
  \/ r \notin Archives
  \/ r = "ui" /\ temp[r].length <= AlignSize(size[r])
  \/ r \in {"embedded", "main"} /\ temp[r].length <= Room[r]

WriteData(r) ==
  /\ At(Write(r))
  /\ Fits(r)
  /\ image' = [image EXCEPT ![r] = Source(r)]
  /\ Advance
  /\ UNCHANGED <<uiContainer, size, temp, program, run, accidents>>

(* A write that ends in the middle, and the run with it.                   *)
TearWrite(r) ==
  /\ At(Write(r))
  /\ Fits(r)
  /\ image' = [image EXCEPT ![r] = Data(Nobody, FALSE, Source(r).length)]
  /\ accidents' = accidents \cup {"torn"}
  /\ pc' = 0
  /\ UNCHANGED <<uiContainer, size, temp, program, run>>

(* ui.arc is asked to fit before its size is written.  An error is not     *)
(* noticed.                                                                *)
NewSize(a) == IF a = "ui" /\ temp[a].length <= size[a] THEN size[a] ELSE temp[a].length

WriteSizeField(a) ==
  /\ At(WriteSize(a))
  /\ Fits(a)
  /\ \/ /\ size' = [size EXCEPT ![a] = NewSize(a)]
        /\ UNCHANGED accidents
     \/ /\ size[a] # NewSize(a)
        /\ UNCHANGED size
        /\ accidents' = accidents \cup {"sizeLost"}
  /\ Advance
  /\ UNCHANGED <<uiContainer, image, temp, program, run>>

(* Mutated: only the bytes both have are compared.                         *)
SameShorter(r) == image[Place(r)] = Source(Place(r))

(* compareStreams: the size counts only for the embedded archive.          *)
Same(r) ==
  /\ image[Place(r)] = Source(Place(r))
  /\ r = "embedded" => size[r] = temp[r].length

CheckData(r) ==
  /\ At(Check(r))
  /\ Same(r)
  /\ Advance
  /\ UNCHANGED <<uiContainer, image, size, temp, program, run, accidents>>

(* The run ends before its next operation: something could not be opened   *)
(* or does not fit or differs, or it is stopped, or crashes.  An embedded   *)
(* archive that has grown is cut off if its size was still to be written.  *)
EndEarly ==
  /\ pc \in 1 .. Len(program)
  /\ pc' = 0
  /\ accidents' = IF At(WriteSize("embedded")) /\ temp["embedded"].length > size["embedded"]
                  THEN accidents \cup {"gap"} ELSE accidents
  /\ UNCHANGED <<uiContainer, image, size, temp, program, run>>

Finished == pc > Len(program)

Finish ==
  /\ Finished /\ pc # 0
  /\ pc' = 0
  /\ UNCHANGED <<uiContainer, image, size, temp, program, run, accidents>>

Init ==
  /\ uiContainer \in {"own", "main", "none"}
  /\ image = [r \in Regions |-> Data(0, TRUE, IF r \in Archives THEN OldSize[r] ELSE 0)]
  /\ size = [a \in {"embedded", "ui"} |-> OldSize[a]]
  /\ temp = [a \in Archives |-> Data(0, TRUE, 0)]
  /\ program = <<>> /\ pc = 0 /\ run = 0
  /\ accidents = {}

Next ==
  \/ Start \/ EndEarly \/ Finish
  \/ \E a \in Archives : RebuildArchive(a)
  \/ \E r \in Regions : WriteData(r) \/ TearWrite(r) \/ CheckData(r)
  \/ \E a \in {"embedded", "ui"} : WriteSizeField(a)

Spec == Init /\ [][Next]_vars

-----------------------------------------------------------------------------
(* Properties                                                              *)

Contents == [of : Nobody .. MaxRuns, sound : BOOLEAN, length : Sizes \cup {0}]

TypeOK ==
  /\ uiContainer \in {"own", "main", "none"}
  /\ image \in [Regions -> Contents]
  /\ size \in [{"embedded", "ui"} -> Sizes \cup {0}]
  /\ temp \in [Archives -> Contents]
  /\ program \in Seq({Rebuild(a) : a \in Archives} \cup {Write(r) : r \in Regions}
                       \cup {WriteSize(a) : a \in Archives} \cup {Check(r) : r \in Regions})
  /\ pc \in 0 .. Len(program) + 1
  /\ run \in 0 .. MaxRuns
  /\ accidents \subseteq {"torn", "sizeLost", "gap"}

(* No archive is ever written beyond the place the original image has for  *)
(* it, however many runs patch what earlier ones left.                     *)
WritesFit ==
  /\ \A a \in {"embedded", "main"} : image[a].length <= Room[a]
  /\ image["ui"].length <= AlignSize(OldSize["ui"])

(* What the accidents so far leave alone: after an end between a longer    *)
(* embedded archive and its size, all archives but that one.               *)
Unhurt(a) == accidents = {} \/ (accidents = {"gap"} /\ a # "embedded")

(* Runs that are refused, stopped or killed may leave an image in which    *)
(* some archives are replaced and others not, but nothing of the originals *)
(* is lost: every archive can be read in full, and the next run rebuilds   *)
(* it.  An end between a longer embedded archive and its size costs that   *)
(* archive, and no other, however many runs follow.  Of images with a      *)
(* write ended in the middle, or a size whose error was not noticed,       *)
(* nothing is said.                                                        *)
NothingLost ==
  \A a \in Archives :
    Unhurt(a) => (a = "embedded" /\ At(WriteSize(a))) \/ Sound(a)

(* When a run has passed the check of the archives, all of the image is of *)
(* that run, even if a size could not be written on the way.  Of ui.arc    *)
(* the check ignores the size.                                             *)
Replaced == {ReplaceOps[i][2] : i \in DOMAIN ReplaceOps}
Checked == Finished /\ pc # 0 /\ program[Len(program)] = Check("main")
CheckedIsPatched ==
  Checked =>
    /\ \A r \in Replaced : image[r].of = run
    /\ size["embedded"] = image["embedded"].length
    /\ size["ui"] < image["ui"].length => "sizeLost" \in accidents
=============================================================================
