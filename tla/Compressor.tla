----------------------------- MODULE Compressor -----------------------------
(***************************************************************************)
(* The LZ77 packer of the Resident Evil 3 tools: Compressor::encode over a *)
(* SearchBuffer, then Compressor::decode of what it wrote.                 *)
(*                                                                         *)
(* When the input ends the encoder goes on in a finishing mode, in which   *)
(* the search buffer indexes positions without writing any more bytes.     *)
(***************************************************************************)
EXTENDS SearchBuffer

CONSTANTS
  MaxInput,  \* bound on the length of the input
  RefValues, LenValues,  \* how many values the two fields of a reference have (2^11 and 2^4)
  MinLen,    \* s_lenghtIncrement
  MaxRun     \* the longest run of unpacked bytes in a block (0x7F)

ASSUME SizesAssumption ==
  /\ MaxInput \in Nat /\ MaxRun \in Nat \ {0}
  /\ RefValues \in Nat \ {0} /\ LenValues \in Nat \ {0} /\ MinLen \in Nat \ {0}
  /\ WindowSize = RefValues - 1 + MinRef
  /\ MaxEncoding = LenValues - 1 + MinLen
  /\ MaxRun <= WindowSize /\ MaxEncoding <= WindowSize

VARIABLES
  input,
  pc,       \* start, encode, decode, done, or garbled
  sb,       \* the SearchBuffer
  forward,  \* forwardBufferSize
  toCopy,   \* bytesToCopy
  output,   \* the blocks written
  blockCount,
  decoded,
  faults    \* the ASSERTs of encode that were false

vars == <<input, pc, sb, forward, toCopy, output, blockCount, decoded, faults>>

-----------------------------------------------------------------------------
(* Compressor::encode                                                      *)

Lesser(a, b) == IF a < b THEN a ELSE b
InputLeft(b) == Len(input) - b.position
WriteFromInput(b, n) ==
  LET written[k \in 0 .. n] == IF k = 0 THEN b ELSE Write(written[k - 1], input[b.position + k])
  IN written[n]

Literals(bytes) == [kind |-> "literals", bytes |-> bytes]
Reference(word) == [kind |-> "reference", word |-> word]

(* The runs flushUncompressed cuts n bytes into.  Each is read from the    *)
(* bytes that end where the pattern begins.                                *)
Runs(b, n, ahead) ==
  [r \in 1 .. (n + MaxRun - 1) \div MaxRun |->
     LET chunk == Lesser(n - (r - 1) * MaxRun, MaxRun)
     IN Literals(StringAt(b.buffer, Slot(b.position + 2 * BufferSize - chunk - ahead), chunk))]

(* Mutated: the bytes ahead of the pattern are not left out.               *)
FlushUncompressedAtEnd(b, n, ahead) == Runs(b, n, 0)

FlushUncompressed(b, n, ahead) == Runs(b, n, ahead)

(* Where in the input the string at a slot starts, worked out from the     *)
(* place of the slot in the cyclic buffer.                                 *)
AbsolutePosition(b, slot) ==
  LET start == b.position - Slot(b.position)
  IN IF slot >= Slot(b.position) THEN start - BufferSize + slot ELSE start + slot

(* The 16-bit word of a reference; its top bit marks a run instead.  The  *)
(* fields are put together by |: what of a reference too far goes over the *)
(* length is mixed with it bit by bit.                                     *)
TopBit == RefValues * LenValues
Bit(a, k) == (a \div 2 ^ k) % 2
Or(a, b) == IF a = 0 THEN b
            ELSE MapThenSumSet(LAMBDA k : Max({Bit(a, k), Bit(b, k)}) * 2 ^ k, 0 .. LenValues)
Pack(reference, length) ==
  LET field == (reference - MinRef) % (2 * TopBit)
  IN (field % RefValues) + RefValues * Or(field \div RefValues, length - MinLen)

StartEncode ==
  /\ pc = "start"
  /\ pc' = "encode"
  /\ forward' = Lesser(MaxEncoding, Len(input))
  /\ sb' = WriteFromInput(sb, forward')
  /\ UNCHANGED <<input, toCopy, output, blockCount, decoded, faults>>

(* The top of the loop.                                                    *)
Current == IF forward < MaxEncoding /\ ~sb.finishing THEN SetFinishingMode(sb, forward) ELSE sb
PatternPosition == Current.position - forward
Found == IF PatternPosition >= MinRef THEN MatchLength(Current, Slot(PatternPosition), forward) ELSE 0

Encoding == pc = "encode" /\ forward > 0

EncodeLiteral ==
  /\ Encoding
  /\ Found < MinLen
  /\ \/ /\ InputLeft(Current) > 0
        /\ sb' = WriteFromInput(Current, 1)
        /\ UNCHANGED forward
     \/ /\ InputLeft(Current) = 0
        /\ sb' = ProcessLastByte(Current)
        /\ forward' = forward - 1
  /\ \/ /\ toCopy + 1 >= MaxRun
        /\ LET runs == FlushUncompressed(sb', toCopy + 1, forward')
           IN /\ output' = output \o runs
              /\ blockCount' = blockCount + Len(runs)
        /\ toCopy' = 0
     \/ /\ toCopy + 1 < MaxRun
        /\ toCopy' = toCopy + 1
        /\ UNCHANGED <<output, blockCount>>
  /\ UNCHANGED <<input, pc, decoded, faults>>

EncodeMatch ==
  /\ Encoding
  /\ Found >= MinLen
  /\ \E slot \in Matches(Current, Slot(PatternPosition), forward) :
       LET reference == PatternPosition - AbsolutePosition(Current, slot)
           runs == FlushUncompressed(Current, toCopy, forward)
           available == Lesser(InputLeft(Current), Found)
       IN /\ faults' = faults \cup Broken(reference <= WindowSize, "referenceTooFar")
                              \cup Broken(reference >= MinRef, "referenceTooNear")
          /\ output' = output \o Append(runs, Reference(Pack(reference, Found)))
          /\ blockCount' = blockCount + Len(runs) + 1
          /\ sb' = WriteFromInput(Current, available)
          /\ forward' = forward - Found + available
  /\ toCopy' = 0
  /\ UNCHANGED <<input, pc, decoded>>

EndEncode ==
  /\ pc = "encode"
  /\ forward = 0
  /\ pc' = "decode"
  /\ LET runs == FlushUncompressed(sb, toCopy, forward)
     IN /\ output' = output \o runs
        /\ blockCount' = blockCount + Len(runs)
  /\ toCopy' = 0
  /\ UNCHANGED <<input, sb, forward, decoded, faults>>

-----------------------------------------------------------------------------
(* Compressor::decode                                                      *)

(* CyclicBuffer::reply: n bytes copied one by one from so far back, where  *)
(* bytes before the first are those of a new cache.                        *)
Reply(bytes, back, n) ==
  LET copied[i \in 1 .. Len(bytes) + n] ==
        IF i <= Len(bytes) THEN bytes[i] ELSE IF back >= i THEN 0 ELSE copied[i - back]
  IN copied

DecodeBlock ==
  /\ pc = "decode"
  /\ blockCount > 0 /\ output # <<>>
  /\ LET block == Head(output)
     IN \/ /\ block.kind = "literals"
           /\ decoded' = decoded \o block.bytes
           /\ UNCHANGED pc
        \/ /\ block.kind = "reference" /\ block.word < TopBit
           /\ decoded' = Reply(decoded, (block.word % RefValues) + MinRef,
                               (block.word \div RefValues) + MinLen)
           /\ UNCHANGED pc
        \/ /\ block.kind = "reference" /\ block.word >= TopBit
           \* the word is taken for the header of a run: what follows is out of step
           /\ pc' = "garbled"
           /\ UNCHANGED decoded
  /\ output' = Tail(output)
  /\ blockCount' = blockCount - 1
  /\ UNCHANGED <<input, sb, forward, toCopy, faults>>

EndDecode ==
  /\ pc = "decode"
  /\ blockCount = 0 \/ output = <<>>
  /\ pc' = IF blockCount = 0 THEN "done" ELSE "garbled"
  /\ UNCHANGED <<input, sb, forward, toCopy, output, blockCount, decoded, faults>>

-----------------------------------------------------------------------------
Init ==
  /\ input \in UNION {[1 .. n -> Bytes] : n \in 0 .. MaxInput}
  /\ pc = "start" /\ sb = NewSearchBuffer
  /\ forward = 0 /\ toCopy = 0
  /\ output = <<>> /\ blockCount = 0 /\ decoded = <<>>
  /\ faults = {}

Next == StartEncode \/ EncodeLiteral \/ EncodeMatch \/ EndEncode \/ DecodeBlock \/ EndDecode

(* The packer runs to its end.                                             *)
Spec == Init /\ [][Next]_vars /\ WF_vars(Next)

Finished == pc \in {"done", "garbled"}
AllFaults == faults \cup sb.faults

-----------------------------------------------------------------------------
(* Types                                                                   *)

FaultNames == {"slotTaken", "writeWhenFinishing", "notFinishing", "nothingLeft",
               "finishingTwice", "referenceTooFar", "referenceTooNear"}
Slots == 0 .. BufferSize - 1

TypeOK ==
  /\ input \in Seq(Bytes) /\ Len(input) <= MaxInput
  /\ pc \in {"start", "encode", "decode", "done", "garbled"}
  /\ sb.position \in 0 .. Len(input) /\ sb.buffer \in [Slots -> Bytes]
  /\ \A e \in sb.tree : e.slot \in Slots /\ e.key \in [1 .. MaxEncoding -> Bytes]
  /\ sb.finishing \in BOOLEAN /\ sb.left \in -1 .. MaxEncoding
  /\ forward \in 0 .. MaxEncoding /\ toCopy \in 0 .. MaxRun
  /\ blockCount = Len(output)
  /\ decoded \in Seq(Bytes)
  /\ AllFaults \subseteq FaultNames

-----------------------------------------------------------------------------
(* Safety                                                                  *)

(* The order of the search tree is never undermined: the bytes of a string *)
(* in the tree are still those it was inserted with, although the buffer   *)
(* is cyclic and the tree holds positions only.                            *)
KeysIntact ==
  \A e \in sb.tree : e.key = StringAt(sb.buffer, e.slot, MaxEncoding)

(* Until the input ends, the tree holds only strings at distances that a   *)
(* reference can express, so the assertions on references hold.            *)
ReferencesFitBeforeEnd ==
  InputLeft(sb) > 0 => AllFaults \cap {"slotTaken", "referenceTooFar", "referenceTooNear"} = {}

(* What decode makes of the blocks is the input, unless an ASSERT of the   *)
(* encoder failed on the way: nothing else can spoil the output.           *)
AssertionsGuardOutput ==
  Finished /\ AllFaults = {} => pc = "done" /\ decoded = input
=============================================================================
