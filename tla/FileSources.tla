----------------------------- MODULE FileSources -----------------------------
(***************************************************************************)
(* The streams PatcherTexturesFileSource hands to Archive::rebuild in      *)
(* place of a file of the archive, while they are read in chunks:          *)
(*   OnFlyPatchStream     the file, with textures put over parts of it     *)
(*   FontStreamRebuilder  the font file, with another font in it           *)
(* Both read an underlying stream that keeps its own position: a           *)
(* PartStream of the archive, or a DecompressionStream over one.           *)
(* A byte is named by where it comes from; a header is one byte long.      *)
(***************************************************************************)
EXTENDS Integers, Sequences, FiniteSets, Functions

CONSTANTS
  Chunks,    \* the sizes of the chunks a stream is read in
  Patched,   \* sets of texture parts: what a texture database may say of a file
  DataSize,  \* the size of that file
  Fonts,     \* segmented files: sequences of [font : BOOLEAN, size : Nat]
  FontSizes, \* sizes of the font put into them
  Align,     \* alignment of a font (4 bytes)
  Page       \* alignment of a segmented file (4096 bytes)

Part == [tex : Nat, type : {"raster", "palette"}, offset : Nat, size : Nat]
NullPart == [tex |-> 0, type |-> "raster", offset |-> 0, size |-> 0]
Segment == [font : BOOLEAN, size : Nat]
Apart(p, q) == p.offset + p.size <= q.offset \/ q.offset + q.size <= p.offset

ASSUME ReaderAssumption ==
  /\ Chunks \subseteq Nat \ {0} /\ FontSizes \subseteq Nat \ {0}
  /\ Align \in Nat \ {0} /\ Page \in Nat \ {0} /\ DataSize \in Nat

(* Parts lie inside the file and apart from one another, each texture has  *)
(* one raster, and a file has one font at most.                            *)
ASSUME PatchedAssumption ==
  \A ps \in Patched :
    /\ ps \subseteq Part /\ IsFiniteSet(ps)
    /\ \A p \in ps : /\ p.size > 0 /\ p.offset + p.size <= DataSize
                     /\ \E q \in ps : q.tex = p.tex /\ q.type = "raster"
    /\ \A p, q \in ps : p # q => /\ Apart(p, q)
                                 /\ p.type = "raster" /\ q.type = "raster" => p.tex # q.tex
ASSUME FontsAssumption ==
  \A ss \in Fonts : /\ ss \in Seq(Segment)
                    /\ \A i, j \in 1 .. Len(ss) : ss[i].font /\ ss[j].font => i = j

VARIABLES
  kind,      \* "textures" or "font"
  parts, segments, fontSize, marked, packed, chunk,  \* the input
  \* The underlying stream
  pos, ended,
  \* Archive::rebuild and Stream::writeStream
  out, inRead, want, second, done,
  \* OnFlyPatchStream
  index, info, partFile, partAt,
  \* FontStreamRebuilder and its DataStreamParser
  buffered, inFont, finalized, left, next, fontAt,
  seekLost   \* History: a seek that skipped did not return where it got to

input == <<kind, parts, segments, fontSize, marked, packed, chunk>>
onFly == <<index, info, partFile, partAt>>
rebuilder == <<buffered, inFont, finalized, left, next, fontAt>>
readerVars == <<input, pos, ended, out, inRead, want, second, done, onFly, rebuilder, seekLost>>

Least(a, b) == IF a < b THEN a ELSE b
Bytes(tag, i, from, count) == [k \in 1 .. count |-> <<tag, i, from + k - 1>>]

(* The segments of a file: a header, the information that is part of its   *)
(* size, for a font a second header, and the content; a stop marker or     *)
(* nothing at the end.                                                     *)
SegmentSize(s) == 1 + (IF s.font THEN 1 ELSE 0) + s.size
Positions(ss) ==
  LET at[i \in 1 .. Len(ss) + 1] == IF i = 1 THEN 0 ELSE at[i - 1] + 1 + SegmentSize(ss[i - 1])
  IN at
Position == Positions(segments)
StreamSize == IF kind = "textures" THEN DataSize
              ELSE Position[Len(segments) + 1] + (IF marked THEN 1 ELSE 0)

-----------------------------------------------------------------------------
(* The underlying stream: PartStream knows its end by its position,        *)
(* DecompressionStream by zlib, which may say so only when asked for more. *)
Advance(count) ==
  /\ pos' = Least(pos + count, StreamSize)
  /\ ended' \in IF packed
                THEN {e \in BOOLEAN : /\ pos + count < StreamSize => ~e
                                      /\ pos + count > StreamSize => e}
                ELSE {pos + count >= StreamSize}

(* ZlibStream::seek returns skip(...) + position(), in whichever order the *)
(* compiler has them evaluated.                                            *)
SeekReturns(target) == IF packed /\ pos < target THEN BOOLEAN ELSE {TRUE}

AtEnd == IF kind = "textures" THEN ended ELSE finalized /\ buffered = <<>>

-----------------------------------------------------------------------------
(* Archive::rebuild looks for the end before each writeStream, which reads *)
(* two chunks unless the first comes out short.                            *)
BeginRead ==
  /\ ~inRead /\ ~done
  /\ second \/ ~AtEnd
  /\ inRead' = TRUE /\ want' = chunk
  /\ UNCHANGED <<input, pos, ended, out, second, done, onFly, rebuilder, seekLost>>

ReturnRead ==
  /\ inRead
  /\ want = 0 \/ AtEnd
  /\ inRead' = FALSE
  /\ second' = (want = 0 /\ ~second)
  /\ UNCHANGED <<input, pos, ended, out, want, done, onFly, rebuilder, seekLost>>

FinishFile ==
  /\ ~inRead /\ ~done /\ ~second /\ AtEnd
  /\ done' = TRUE
  /\ UNCHANGED <<input, pos, ended, out, inRead, want, second, onFly, rebuilder, seekLost>>

Give(bytes) == out' = out \o bytes /\ want' = want - Len(bytes)

-----------------------------------------------------------------------------
(* OnFlyPatchStream                                                        *)

IsNull(p) == p.offset = 0 /\ p.size = 0
CurrentPart == IF index < Len(parts) /\ IsNull(info) THEN parts[index + 1] ELSE info

InLoop == inRead /\ want > 0 /\ ~AtEnd

CopyStream ==
  /\ kind = "textures" /\ InLoop
  /\ IsNull(CurrentPart) \/ pos < CurrentPart.offset
  /\ LET asked == IF IsNull(CurrentPart) THEN want ELSE Least(want, CurrentPart.offset - pos)
         got == Least(asked, StreamSize - pos)
     IN Give(Bytes("stream", 0, pos, got)) /\ Advance(asked)
  /\ info' = CurrentPart
  /\ UNCHANGED <<input, inRead, second, done, index, partFile, partAt, rebuilder, seekLost>>

(* A texture file holds its raster, with mipmaps the record may leave out, *)
(* and behind it the palette.  getAt opens the file, or rewinds it if it   *)
(* is the one opened last.                                                 *)
RasterInFile(t) ==
  LET raster == CHOOSE k \in 1 .. Len(parts) : parts[k].tex = t /\ parts[k].type = "raster"
  IN parts[raster].size + 1
(* Mutated: a palette starts where the file does.                          *)
StartInFileRewound(p) == 0
StartInFile(p) == IF p.type = "palette" THEN RasterInFile(p.tex) ELSE 0
FileByte(t, at) == IF at < RasterInFile(t) THEN <<"raster", t, at>>
                   ELSE <<"palette", t, at - RasterInFile(t)>>

(* The part that follows, when this one is used up.                        *)
(* Mutated: the number is counted, the part is not looked up.              *)
NextPartStays == /\ index' = IF pos' = CurrentPart.offset + CurrentPart.size THEN index + 1 ELSE index
                 /\ info' = CurrentPart
NextPart ==
  IF pos' = CurrentPart.offset + CurrentPart.size
  THEN /\ index' = index + 1
       /\ info' = IF index + 1 >= Len(parts) THEN NullPart ELSE parts[index + 2]
  ELSE UNCHANGED index /\ info' = CurrentPart

CopyPart ==
  /\ kind = "textures" /\ InLoop
  /\ ~IsNull(CurrentPart) /\ pos >= CurrentPart.offset
  /\ index < Len(parts)
  /\ LET opened == CurrentPart.offset = pos
         file == IF opened THEN CurrentPart.tex ELSE partFile
         at == IF opened THEN StartInFile(CurrentPart) ELSE partAt
         end == CurrentPart.offset + CurrentPart.size
         count == IF pos < end THEN Least(want, end - pos) ELSE 0
     IN /\ Give([k \in 1 .. count |-> FileByte(file, at + k - 1)])
        /\ partFile' = file /\ partAt' = at + count
        /\ IF count > 0 THEN Advance(count) ELSE UNCHANGED <<pos, ended>>
  /\ NextPart
  /\ UNCHANGED <<input, inRead, second, done, rebuilder, seekLost>>

-----------------------------------------------------------------------------
(* FontStreamRebuilder                                                     *)

FontAligned(size) == (size + Align - 1) - ((size + Align - 1) % Align)

TakeBuffered ==
  /\ kind = "font" /\ InLoop /\ buffered # <<>>
  /\ LET count == Least(Len(buffered), want)
     IN /\ Give(SubSeq(buffered, 1, count))
        /\ buffered' = SubSeq(buffered, count + 1, Len(buffered))
  /\ UNCHANGED <<input, pos, ended, inRead, second, done, onFly,
                 inFont, finalized, left, next, fontAt, seekLost>>

SegmentHeader(i, size) == << <<"segment", i, size>>, <<"info", i, 0>> >>

(* The end marker says how much padding follows it; Origins has none.      *)
(* Mutated: the marker itself is not counted.                              *)
StopMarkerShort ==
  IF ~marked THEN <<>>
  ELSE LET padding == (Page - (Len(out) % Page)) % Page
       IN <<<<"stop", 0, padding>>>> \o [k \in 1 .. padding |-> <<"zero", 0, 0>>]

StopMarker ==
  IF ~marked THEN <<>>
  ELSE LET padding == (Page - ((Len(out) + 1) % Page)) % Page
       IN <<<<"stop", 0, padding>>>> \o [k \in 1 .. padding |-> <<"zero", 0, 0>>]

(* initSegment seeks to the segment after the last, however little of that *)
(* was read, and fails at the end marker, at the end, or if the seek seems *)
(* to have failed.                                                         *)
NextSegment ==
  /\ kind = "font" /\ InLoop /\ buffered = <<>> /\ ~finalized /\ left = 0
  /\ \E found \in SeekReturns(Position[next]) :
       IF found /\ next <= Len(segments)
       THEN LET s == segments[next]
            IN /\ Advance(Position[next] - pos + 2)
               /\ next' = next + 1
               /\ inFont' = (inFont \/ s.font)
               /\ left' = IF s.font THEN fontSize ELSE s.size
               /\ buffered' = IF s.font
                              THEN Append(SegmentHeader(next, 2 + FontAligned(fontSize)), <<"font", 0, fontSize>>)
                              ELSE SegmentHeader(next, SegmentSize(s))
               /\ UNCHANGED <<finalized, seekLost>>
       ELSE /\ finalized' = TRUE
            /\ buffered' = StopMarker
            /\ seekLost' = ~found
            /\ pos' = StreamSize /\ ended' = TRUE
            /\ UNCHANGED <<next, inFont, left>>
  /\ UNCHANGED <<input, out, inRead, want, second, done, onFly, fontAt>>

Padding == [k \in 1 .. FontAligned(fontSize) - fontSize |-> <<"X", 0, 0>>]

CopyFont ==
  /\ kind = "font" /\ InLoop /\ buffered = <<>> /\ left > 0 /\ inFont
  /\ LET count == Least(left, want)
     IN /\ Give(Bytes("glyph", 0, fontAt, count))
        /\ fontAt' = fontAt + count
        /\ left' = left - count
        /\ inFont' = (fontAt + count # fontSize)
        /\ buffered' = IF fontAt + count = fontSize THEN Padding ELSE <<>>
  /\ UNCHANGED <<input, pos, ended, inRead, second, done, onFly, finalized, next, seekLost>>

CopySegment ==
  /\ kind = "font" /\ InLoop /\ buffered = <<>> /\ left > 0 /\ ~inFont
  /\ LET count == Least(left, want)
     IN /\ Give(Bytes("stream", 0, pos, count)) /\ Advance(count)
        /\ left' = left - count
  /\ UNCHANGED <<input, inRead, second, done, onFly, buffered, inFont, finalized, next, fontAt, seekLost>>

-----------------------------------------------------------------------------
Sorted(ps) == {s \in [1 .. Cardinality(ps) -> ps] :
                 /\ Range(s) = ps
                 /\ \A j, k \in DOMAIN s : j < k => s[j].offset < s[k].offset}

InitTextures ==
  /\ kind = "textures"
  /\ \E ps \in Patched : parts \in Sorted(ps)
  /\ segments = <<>> /\ fontSize = 0 /\ marked = FALSE

InitFont ==
  /\ kind = "font"
  /\ parts = <<>>
  /\ segments \in Fonts /\ fontSize \in FontSizes /\ marked \in BOOLEAN

ReaderInit ==
  /\ InitTextures \/ InitFont
  /\ packed \in BOOLEAN /\ chunk \in Chunks
  /\ pos = 0 /\ ended = FALSE
  /\ out = <<>> /\ inRead = FALSE /\ want = 0 /\ second = FALSE /\ done = FALSE
  /\ index = 0 /\ info = NullPart /\ partFile = 0 /\ partAt = 0
  /\ buffered = <<>> /\ inFont = FALSE /\ finalized = FALSE /\ left = 0 /\ next = 1 /\ fontAt = 0
  /\ seekLost = FALSE

ReaderNext ==
  \/ BeginRead \/ ReturnRead \/ FinishFile
  \/ CopyStream \/ CopyPart
  \/ TakeBuffered \/ NextSegment \/ CopyFont \/ CopySegment

ReaderSpec == ReaderInit /\ [][ReaderNext]_readerVars /\ WF_readerVars(ReaderNext)

-----------------------------------------------------------------------------
(* What a reader should get.                                               *)

PatchedByte(i) ==
  LET over == {k \in 1 .. Len(parts) : i \in parts[k].offset .. parts[k].offset + parts[k].size - 1}
  IN IF over = {} THEN <<"stream", 0, i>>
     ELSE LET p == parts[CHOOSE k \in over : TRUE] IN <<p.type, p.tex, i - p.offset>>

Content(ss, size, i) ==
  IF ss[i].font
  THEN LET fill == CHOOSE n \in 0 .. Align - 1 : (size + n) % Align = 0
       IN <<<<"font", 0, size>>>> \o Bytes("glyph", 0, 0, size)
            \o [k \in 1 .. fill |-> <<"X", 0, 0>>]
  ELSE Bytes("stream", 0, Positions(ss)[i] + 2, ss[i].size)

Rebuilt(ss, size) ==
  LET bytes[i \in 0 .. Len(ss)] ==
        IF i = 0 THEN <<>>
        ELSE bytes[i - 1] \o SegmentHeader(i, 1 + Len(Content(ss, size, i))) \o Content(ss, size, i)
  IN bytes

WithEnd(bytes) ==
  IF ~marked THEN bytes
  ELSE LET padding == CHOOSE n \in 0 .. Page - 1 : (Len(bytes) + 1 + n) % Page = 0
       IN bytes \o <<<<"stop", 0, padding>>>> \o [k \in 1 .. padding |-> <<"zero", 0, 0>>]

Expected == IF kind = "textures"
            THEN [i \in 1 .. DataSize |-> PatchedByte(i - 1)]
            ELSE WithEnd(Rebuilt(segments, fontSize)[IF seekLost THEN next - 1 ELSE Len(segments)])

(* However the file is cut into chunks and however it is stored, what has  *)
(* been read so far is how the patched file begins: the parts lie where    *)
(* the database says, the segments have the sizes their headers state, and *)
(* the padding fills the page.                                             *)
OutputRight == Len(out) <= Len(Expected) /\ out = SubSeq(Expected, 1, Len(out))

(* And when the reader stops it has read all of it, except that, when the  *)
(* file is packed, the segments behind the font may be lost.               *)
AllIsRead ==
  /\ done => out = Expected
  /\ seekLost => packed /\ segments[next - 1].font

(* The reader stops.                                                       *)
ReaderStops == <>done
=============================================================================
