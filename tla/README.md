# A verification project for consolgames-tools

The repository holds the tools of a group that translates console games: patchers
with a graphical front end for disc images, archive packers and rebuilders,
compressors, image streams, and editors of fonts, scripts and textures. Paths
below are relative to `src/`; `SM` is `game-specific/Shattered Memories`, `MP3` is
`game-specific/Metroid Prime 3`, `RE3` is `game-specific/Resident Evil 3`.

This directory models the parts with a protocol or an algorithm of their own in
TLA+, checks small instances with TLC and proves theorems about them with TLAPS.
`PROJECT.json` lists the runs, the mutants that show that each property can be
broken, the hazards, and the source lines of every definition.

## 1. The system

### 1.1 Components

| Component | Where | State it keeps | Operations | What makes it correct |
|---|---|---|---|---|
| Patcher controller and front ends | `SM/PatcherLib/PatcherController.cpp`, `SM/Patcher/wizard/ProgressPage.cpp`, `SM/WorkPatcher/MainFrame.cpp` | steps left and current, stop request, worker thread | start, stop request, step completed or failed, message boxes | one step at a time, one outcome per run, no stop lost, no thread or worker left or used after deletion |
| Patcher worker and progress notifiers | `SM/PatcherLib/PatcherWorker.cpp`, `*ProgressNotifier.cpp` | processor, listener bound to the compound notifier, stop flags | one slot per step, bind and unbind, poll for a stop | not reentered by the events it handles while polling; a stop reaches the phase at work |
| Patcher processor | `SM/PatcherLib/PatcherProcessor.cpp` | image, archives rebuilt in the temporary directory | initialize, rebuild, replace, check | checked images equal what was rebuilt; what does not fit is refused before a byte is written |
| Archive | `SM/Compression/Archive.cpp` | records (hash, offset, sizes), names | open, extract, rebuild with replacements and merges | files do not overlap; records lead to their files |
| Executable patcher | `SM/PatcherLib/ExecutablePatcher.cpp` | what is left of the free space; the executable, changed in place | apply: place strings, write pointers and values | strings do not overlap; a pointer leads to its whole string; a run that succeeds leaves nothing of runs that failed |
| Replaced files | `SM/PatcherLib/OnFlyPatchStream.cpp`, `FontStreamRebuilder.cpp`, `PatcherTexturesFileSource.cpp` | position, current part or segment, what is buffered | read in chunks | the same bytes however they are read, all of them, and an end |
| Packer | `RE3/Compression` | cyclic buffer, search tree, forward buffer | encode, decode | what is packed unpacks to the same bytes |
| Paster | `MP3/Paster`, `MP3/PasterLib` | the queue of actions, stop flags | start, cancel, one action after the other | one patch at a time; cancel ends the run and gives the window back |
| Patcher of Metroid Prime 3 | `MP3/Patcher`, `MP3/PasterLib/DataPaster.cpp` | steps left, stop request, two handlers; temporary files; image | a slot per step, request to stop, removal of the temporary files | only archives rebuilt whole get into the image; completed means done; files and thread are gone afterwards |
| Pak archives | `MP3/ExtractorLib` | segments, records, merges | open, extract, rebuild | as Archive |
| Wii image | `platform-specific/wii/streams/WiiImage.cpp` | encrypted clusters, four levels of hashes, signature, the cluster decrypted last | read, write, verify | a write leaves a partition that verifies and the data around it as it was; after an error it is known what does not |
| Streams | `core/streams` | position, bounds | read, write, seek | positions and sizes agree with the parent stream |
| PSP LZ77 | `game-specific/Final Fantasy PSP/LZ77` | prefix tables | encode, decode | round trip |
| Editors and converters | fonts, textures, scripts, package tools | documents | user interface, format conversion | no protocol: not modelled |
| Vendored code | `externals/` | – | libjpeg, libpng, zlib, minilzo, libimagequant, texture tools | not the project's own |

### 1.2 How they interact

* A front end owns a controller (or a thread) and speaks to it in the GUI thread.
  The controller posts steps to a worker that lives in a `QThread`, with *queued*
  calls; the worker answers with queued signals. The thread's own `quit()` is queued
  to the GUI thread, since a `QThread` object lives where it was created.
* A stop request goes controller → worker → compound notifier → current listener.
  The listener's flag is read by long work (archive, image) when it reports progress.
  The compound notifier is a plain member of the worker and is not moved to its
  thread, so its slots run in the GUI thread.
* Long work polls by **processing the events of its own thread**. Everything posted to
  the worker meanwhile runs in the middle of the step.
* Message boxes run nested event loops in the GUI thread, so a handler that asks a
  question continues in a later state than it began.
* The processor rebuilds archives with `Archive::rebuild`, writes them into the image
  through `WiiFileStream`/`PartStream`, and reads them back to compare.

### 1.3 Which behaviours are hard

Interleavings of two threads over queued calls; handlers interrupted by nested event
loops; deferred deletion against calls on their way; a stop that races the end of a
phase, a step or the run; a restart while the previous thread is still ending; images
written in place, several parts one after the other; offsets and sizes in a layout
known only as the files are compressed; a cyclic buffer whose index must be shrunk
before it is overwritten; hashes of hashes over data of which a write changes a part;
streams built on streams, read in pieces of any size. There is no network and no persistent state besides the
image itself. `PROJECT.json` lists each hazard at its line, with the properties that
would catch it.

## 2. Modules

```
PatchRun  <- implemented by -  PatcherController  <- MCPatcherController
                                      ^-- PatcherControllerProofs
SearchBuffer      <-- Compressor  <-- CompressorProofs
Archive           <-- MCArchive, ArchiveProofs
PatcherProcessor  <-- MCPatcherProcessor, PatcherProcessorProofs
ExecutablePatcher <-- MCExecutablePatcher, ExecutablePatcherProofs
FileSources       <-- MCFileSources, ArchiveProofs
WiiImage          <-- WiiImageProofs
PasterThread      <-- PasterThreadProofs
Mp3Patcher        <-- Mp3PatcherProofs
```

| Module | Models |
|---|---|
| `PatchRun` | the promise of a patching run: the steps of the plan in order, at most one outcome, canceled only if asked |
| `PatcherController` | controller, both front ends, worker, thread, notifiers and every queued call between them |
| `MCPatcherController` | the phases of the steps of two games, for TLC |
| `PatcherControllerProofs` | type correctness; the protocol between controller and worker; that no stop is lost; that the wizard has its thread; that the run implements `PatchRun` |
| `SearchBuffer` | the cyclic buffer of the packer and the search tree over it |
| `Compressor`, `CompressorProofs` | `Compressor::encode` and `decode`; that the tree is never undermined, and that false ASSERTs are all that can spoil what is unpacked |
| `Archive`, `MCArchive`, `ArchiveProofs` | `Archive::rebuild`: layout, replaced files, merged and bad records; that parts never overlap and every record leads where it should, and of `FileSources` that what is read is the patched file |
| `PatcherProcessor`, `MCPatcherProcessor`, `PatcherProcessorProofs` | what a patching run does to the image: rebuild, replace, check, in runs that may end anywhere; what such runs keep, and what a check means |
| `ExecutablePatcher`, `MCExecutablePatcher`, `ExecutablePatcherProofs` | `ExecutablePatcher::apply`: free space, addresses, writes in place, in runs that may end anywhere; that strings never overlap, that pointers lead to them, and that nothing of a failed run is left |
| `FileSources`, `MCFileSources` | the streams handed to `Archive::rebuild` in place of a file, read in chunks |
| `WiiImage`, `WiiImageProofs` | a partition: clusters, hashes, signature, cache; writes that may stop, fail, tear or crash; that what does not verify is known and what is not written is kept |
| `PasterThread`, `PasterThreadProofs` | window and thread of the Metroid Prime 3 paster; when its runs can meet, and what a cancel is worth |
| `Mp3Patcher`, `Mp3PatcherProofs` | controller, wizard page, worker and `DataPaster` of the Metroid Prime 3 patcher; what gets into the image and what is left behind |

The `TypeOK` of `PatcherController` and `Archive` are checked and proved, that of `PatcherProcessor` is part of its inductive
invariant. Those of `Compressor`, `PasterThread` and `Mp3Patcher` describe the state for the reader.

### 2.1 PatcherController

*State.* The GUI thread has the controller's members (`started`, `stopRequested`, `steps`,
`currentStep`), the front end's list of actions (`plan`), the message box that is open (`modal`)
and its event queue `guiQ`. The worker thread has its queue `wq`, the workers not yet destroyed
(`alive`) and those to be (`doomed`), the step it is in (`wStep`, `wPhase`, `wPc`), and the
notifiers. A *phase* is a stretch of a step with one listener bound. `Phases`, a constant, says
which phases each step has; the proofs hold for every choice.

*Actions.* `OnStepCompleted`, `OnStepFailed`, `ProcessCancel` and `Finish` are the methods of those
names. `Start` and `EndWait` are `start()` before and after it waits for the old thread.
`PressCancel`/`AnswerCancel` are the wizard's question and its answer, `PressStop` and
`CloseCanceledBox` the button and the box of WorkPatcher. `OnNotifierStop` and `ForwardStop` split
`CompoundProgressNotifier::requestStop` where the worker thread may interfere: between reading
`m_currentNotifier` and using it. `NestedDeliverStop` is the `processEvents()` of a polling phase.
`ExitThread` and `DestroyWorker` are the deferred deletion and the end of the `QThread`.

*Abstractions.* Progress numbers and texts are left out. Reads and writes of a `bool` or a pointer
shared by the threads are atomic and in order (the code has no locks there; the builds targeted
x86). An `ASSERT` or `VERIFY` does not end a release build: a false one adds its name to
`faults`, and the model goes on. `MainFrame::onFailed`'s box is not modelled, nor is closing
the window.

### 2.2 SearchBuffer and Compressor

The buffer is a function from slots to bytes and the tree a set of slots. `MatchLength` is the
longest match at a slot in the set, `Matches` all slots that attain it: which one the AVL tree
finds depends on its shape, so `EncodeMatch` takes any. `RemoveOldestString`,
`InsertNewString`, `ProcessLastByte` and `SetFinishingMode` are the methods; their ASSERTs
are recorded in `faults`. `Compressor` has the loop of `encode` as one action per turn
(`EncodeLiteral`, `EncodeMatch`), with `StartEncode`/`EndEncode` before and after, and one action per
block of `decode`. A decoder that reads a block that was not written as one is out of step:
`pc = "garbled"`. `RefValues` and `LenValues` are the numbers of values of the two fields of a reference. What is computed in a loop
is a closed form or a recursive function (`Runs`, `WriteFromInput`, `Reply`), and `Pack` spells out the `|` of the code bit by bit (`Or`), so
that all of it can be proved about.

### 2.3 Archive

`Archive::rebuild`, one record at a time: `StoreRecord`, `MergeRecord` and `PassBadRecord` are
the three ways through the loop, `FinishRebuild` what follows it, `StopRebuild` the return when a stop is
seen. `extents` is what has been written and where. `m_hasMagicMarker` is not initialised by two of
the three constructors, so without room for a marker it may be either. Hashes are taken as distinct.

### 2.4 PatcherProcessor

A run is a sequence of operations: rebuild an archive, write a part, write a size, check a part. A part
is abstracted to the run that wrote it, its length and whether all its files are sound. A
run may end before any operation (`EndEarly`: an error, a stop or a crash look alike to the image),
in the middle of a write (`TearWrite`), and an error of `writeUInt32` is not noticed
(`WriteSizeField`). `accidents` remembers what cannot be seen from the image.

### 2.5 PasterThread

`frames` is the stack of `patch()` calls of the thread: handling events inside a progress report
lets one call run inside another. `Poll`, `OnRequestStop`, `Patch` and `EndPoll` are that event
handling; `BeginAction`, `BeginItem`, `EndItem`, `CompleteAction` and `FailAction` the work;
`OnActionStarted` and `OnActionCompleted` the slots of the window. `PressStart` is possible whenever the window offers it: nothing
in the code asks whether the last run is over. `met` remembers what a start found left of earlier runs (`Leftovers`): a *call* of `patch()`
at work or on its way, a *stop* on its way to the thread, or *reports* on their way to the window. The properties say which of these
each of their promises depends on.

### 2.6 Mp3Patcher

The older relative of `PatcherController`, here with its work. `OnStepCompleted`, `OnStepFailed`, `RequestStop`,
`Finish` and `ProcessCancel` are the controller's methods, `PressCancel`/`AnswerCancel` the wizard's question,
`OnHandlerStop` the two `ProgressHandler`s, which stay in the GUI thread. `DeliverStop`, `DeliverFinalize` and
`DeliverDelete` are the worker's slots, called by the event loop of its thread or by the one that
`ProgressHandler::progress` runs every 300 ms; since any call of `progress` may be the one that does,
they are possible wherever it is called. `EnterPak`, `FinishPak`, `LeavePaks`, `StopPak` and the failures are the loops of
`DataPaster`; `wStep` says which. `RemoveTempFile` is a turn of `removeTempFiles`, which reports progress too, so
that `removals` is a stack of such calls, each with the files it has left (in which order it takes them is left open): a cancel that arrives while the last step cleans up removes the
files inside the outer call and destroys `m_paster` under it. `DestroyWorker` is the deferred deletion. It takes place in the thread's
own event loop or, when the slot that posts it was itself called there, in the one inside the removal. That happens in a run without any stop,
because the last step is answered before `finalizeInternal` is called; `removeTempFiles` then goes on in a deleted worker,
recorded as the fault `finalizeInternal`. The model goes on as if the memory were still as it was left.

`temp` and `image` say of each file whether it is of an earlier run, whole, a part or torn. Left out:
what the paks contain, how progress is counted, closing the wizard. The Riivolution package differs in its list of checks only
and appears as that list.

### 2.7 ExecutablePatcher

`apply`, one record and one of its targets at a time. `AllocSpace` is `allocSpace`, `FileOffset` the mapping of an
address to the file, `RefuseRecord` and `FailWrite` the early returns, `WriteTargetUnnoticed` a `writeUInt32` whose result nobody
looks at. A byte of the file says what put it there. The patch, which `loadFromStream` reads and hardly checks,
is a constant; that its spaces are disjoint and no record is without a target are assumptions the loader does not establish. A
string is its size in UTF-8, with the terminator.

### 2.8 FileSources

What `Archive::rebuild` reads in place of a file: `OnFlyPatchStream` (`CopyStream`, `CopyPart`) and `FontStreamRebuilder` with its
`DataStreamParser` (`TakeBuffered`, `NextSegment`, `CopyFont`, `CopySegment`). `BeginRead`, `ReturnRead` and `FinishFile` are
`Stream::writeStream` and the loop over it. Below lies a `PartStream`, which knows its end at once, or
a `DecompressionStream`, which may know it only when asked for more. A byte is named by where it comes from; a
header counts as one. `ZlibStream::seek` adds `skip(...)` and `position()`, of which the first changes the second, so what it returns
depends on the compiler: `SeekReturns` is a choice.

Preconditions (`PatchedAssumption`, `FontsAssumption`): parts of textures are disjoint and inside the file, each texture has one raster, texture files are complete (`getAt` asserts it), the new font is not
empty, and a file has one font segment at most and no segment of unknown type. Parts that overlap would let a
read start in the middle of a part, for which no stream is open. A stop during a read ends the rebuild and is
modelled in `Archive`.

### 2.9 WiiImage

A partition is clusters of `Units` units; the header of a cluster has H0, H1 and H2. `BeginWrite`, `BeginGroup` and so on
are `wii_write_data_file` and the calls it makes, down to one action for each header and each stretch of data written.
`NewGroup` is `wii_write_clusters` up to there, with its quirks: only the clusters written are hashed anew, and the last subgroup
of a partition that ends inside a group is hashed from an empty or uninitialised one. `Read` is `decryptBlock` with its one-cluster
cache. `Stop`, `WriteError`, `TornWrite` and `Crash` end a call; `Abandon` records what that leaves in doubt.

A hash is what it was computed from, so hashes do not collide. The data of a cluster is chained to its encrypted
header: with a header that was written without its data the first unit decrypts to garbage (`seal`). A header, H3, H4 and the
metadata are written whole or not at all. A stream that ends early is not noticed, as in the code, nor is a signature that
fails. `checkPartition` looks neither at H4 and the signature nor at a group that is not full. Narrowing of positions to `int`
is not modelled. Reads do not fail in the model: `wii_read_cluster` ignores the result of `io_read` (`WiiImage.cpp:1351`), so
after a failed read the code would decrypt, hash and write back whatever its buffer holds, of which the properties say nothing.

## 3. Runs

| Run | Instance | States | Shows |
|---|---|---|---|
| `wizard` | wizard, Wii image, all phases | 3 801 | one step at a time; no event handled inside a step starts another or deletes the worker; a stop asked for is always somewhere on its way; the run implements `PatchRun`; a stop ends the run; finite work ends; nothing is left behind |
| `mainframe_restarts` | WorkPatcher, two runs, ISO image | 169 387 | the same protocol when a second run starts at any moment after the first; a stop finds its worker |
| `packer_safety` | inputs of up to 9 bytes over 3 | 470 869 | the tree never refers to overwritten bytes; references fit their field before the end; output is wrong only if an ASSERT failed |
| `archive` | all archives of 3 records | 666 624 | parts do not overlap; files, merged and bad records are found again |
| `image` | 2 runs, 3 layouts, archives that grow, shrink or do not fit | 138 485 | nothing is written beyond its place; what interrupted runs can lose and what they cannot; what a passed check means |
| `executable` | 2 runs, patches of 2 or 3 records, one or two holes, two segments | 788 422 | strings do not overlap and stay in their spaces; a pointer leads to its whole string, also in the middle of a run; a run that succeeds leaves nothing of one that failed |
| `file_sources` | a file of 5 bytes under up to 3 texture parts; files of up to 3 segments | 205 825 | what is read is the patched file, whole, in chunks of any size, packed or not; the reader stops |
| `wii_image` | 2 writes into a group and a half | 641 739 | what does not verify is known; other files keep their data; the signature covers the hashes; a read is no older than the cluster kept by `decryptBlock` |
| `paster` | 2 runs, 2 archives, 2 presses of Cancel | 481 675 | runs meet only if a start found the last `patch()` still called or at work; Cancel is answered, reaches the thread and ends the run, but for the exceptions of section 6 |
| `mp3_patcher` | a wizard run over 3 paks, files of an earlier run | 103 593 | only paks rebuilt whole are written; completed means written and checked; the paster outlives its use and no temporary file is left, but for the exceptions of section 6; a stop ends the run |
| `late_cancel`, `paster_restart` | | | the findings of section 6 |

*Bounds.* `MaxRuns = 2` of the controller is the first number at which a run can meet its predecessor; a third run
would meet only one of them again. Each kind of phase occurs in one of the two assignments of
phases. The packer's buffer of 8 slots is overwritten within 9 bytes, so slots are
reused, and the 4 values a reference has here (`RefValues`) with a window of 5 let references overflow. In `archive`,
sizes 0 and 2 with an alignment of 3 give empty, unaligned and (packed: one more) aligned files;
three records are enough for a bad record before a merged one with another merged into the first. In
`image`, lengths 2 to 4 with room for 3 cover growing into padding, shrinking and
not fitting. In `executable`, strings of 0 to 3 bytes with an alignment of 2 fill holes of 3, 4, 5 and 6 exactly, almost and by one
too much after rounding; one hole crosses the border of the segments; the second run meets what any failure of the first
left. In `file_sources`, parts of 1 to 3 bytes touch each other and both ends of the file, chunks of 1, 2, 3 and 7
end before, at and after every border, fonts of 1 to 3 bytes need padding or not, and so do pages. In `wii_image`, subgroups of two clusters of two
units are the smallest with an inside and an outside at each level; the writes lie within a subgroup, across subgroups
and across the groups, and the second overwrites, touches or misses what the first left; `MaxWrites = 2` is what repairing a failed write
takes. In `paster`, two archives give a place between archives, two presses a
second request behind the first, and two starts a run that meets another. In `mp3_patcher`, three paks give one done, one at work and one not begun. The cfgs say
`CHECK_DEADLOCK FALSE` because each of these systems stops when its last run has ended.

*Fairness.* In `PatcherController` both event loops handle what is queued, a blocked wait ends, and the worker goes on with
whatever takes a bounded time (`FairLoops`). The user owes nothing. A phase whose listener is polled may
go on for ever; only `RunEnds` assumes otherwise, as its hypothesis `FiniteWork`. So `StopEndsRun` really
depends on the stop reaching the listener. A phase without a bound listener is assumed to finish, since nothing could
end it. In `Mp3Patcher` likewise: the threads run, work that no stop reaches ends, a loop enters its next pak and looks at its flags;
neither an answer to the question nor the end of the work on a pak is owed. In the paster, weak fairness of the window and the thread, and
strong fairness of `Work`: an archive is finished however often it reports progress in between. The packer and the readers of
`FileSources` are sequential and need fairness (weak, of their whole next-state relation) only not to stop. `WiiImage`, `ExecutablePatcher`, `PatcherProcessor` and `Archive` state no liveness.

## 4. Proofs

All with TLAPS, for every value of the constants that the assumptions named below allow. Each theorem follows from an inductive
invariant, whose proof has one step per action of `Next`.

**The patching run** (`PatcherControllerProofs`), for every number of runs, both front ends where not said otherwise, and every
`Phases`; `Safe` is `Spec` without fairness. Assumptions: `ClientAssumption`, `MaxRunsAssumption`, `PhasesAssumption`. Queues are
reasoned about through the lemmas on `Queued`, what is in a queue after an append or a take.

* `TypeCorrect`: `Safe => []TypeOK`.
* `ProtocolHolds`: `Safe => []StepProtocol`, the inductive invariant.
  The step of a run is *one token*: a call in `wq`, the step the worker is in, or a result in
  `guiQ`, never two of them, and none once the run has ended (`StepIsOneToken`); and the worker of a run
  that is on is alive and not about to be deleted (`WorkerOutlivesRun`).
* `ExactlyOneStep`, `NeverReentrant`: `OneStepOutstanding` and `NoReentrancy`. Neither is inductive: that a result
  handed in does not find another step posted needs the absence of tokens in *all* queues, and that the events
  handled inside a step contain no deletion needs that `deleteLater` is posted only once the token is gone.
* `MainFrameStopFindsWorker`: with `Client = "MainFrame"` a stop request finds its worker alive. For the wizard
  this is false, see `late_cancel`.
* `StopIsNeverLost`: `Safe => []StopNeverLost`. The invariant `StopInv` adds to the protocol that the worker
  of a run is there to be told (`WorkerKept`), that a notifier is bound to listeners of its own worker and no later worker has been told
  (`NotesMatch`), that a request is queued for the worker, queued for the notifier or known to it (`StopOnItsWay`), and that
  the listener bound to a notifier that knows is told or being told (`ListenersTold`). The hard step is a bind between the two halves of
  the notifier's slot.
* `WizardHasItsThread`: with `Client = "ProgressPage"`, while a run is on its thread runs (`RunHasItsThread`, which no run lists: it is proved only). `OneThread` says that the wizard's only
  thread is asked to quit after its worker is gone. With WorkPatcher a second run may find the thread of the first (section 6).
* `RunKeepsPromise`: `Safe => ImplementsPatchRun`, step simulation under the refinement mapping of
  `PatcherController`. `RunInv` adds to the protocol that an outcome is reported exactly when the run is not active (`AsReported`),
  and that the steps taken, the step under way and the steps left make up the plan (`OnPlan`), whose middle part is
  missing just while a result is queued. Every action maps to a step of `PatchRun` or to a stutter.

**The packer** (`CompressorProofs`), for every input, every size of window, buffer and runs, any two fields, and whichever of the longest matches
the tree returns. Assumptions: `BytesAssumption`, `WindowAssumption`, and `SizesAssumption`, which relates the sizes as the constants of `Compressor.h` and
`SearchBuffer.h` do (the window is as far as a reference reaches, the look-ahead as long as one can be).

* `OrderNotUndermined`, `ReferencesFit`: `KeysIntact` and `ReferencesFitBeforeEnd`. Not inductive alone: that a write leaves all strings intact needs
  to know how far each is from the slot written. `InWindow` says so: while there is input, a string starts at one of the last `WindowSize` places, no two at
  the same, and the place that the next write is about to destroy is the oldest. Once the input has ended strings may be left over in the slots to be
  read as look-ahead; of these `Intact` is all that is true and enough. The lemmas under it are on slots: different places less than a buffer apart
  have different slots (`ModShift` and its kin), proved from one statement on division.
* `AssertsSuffice`: `AssertionsGuardOutput`. `Holds` says that the buffer has the bytes of the input last read, `Cut` that the blocks written stand for the
  input up to the first byte not decided on: each for the bytes between two positions, a reference because it repeats (`Repeats`) what stands before it. The
  encoder appends to the cut (`FlushCuts`, `PackIs`: a reference that passes the ASSERTs is packed without loss), the decoder takes blocks
  off its front and has the rest of the input to come (`ReplyIs`, by the least position that would be wrong, also where a reference overlaps what it
  writes).

**The image** (`PatcherProcessorProofs`), for every alignment, room and set of sizes, and the three games' programs of operations.
Assumption: `LayoutAssumption`, that the original archives fit into their places.

* `PlacesKept`, `OriginalsKept`, `CheckMeansPatched`: `WritesFit`, `NothingLost` and `CheckedIsPatched`. What a run has done is
  the set of operations before `pc` in its program. The invariant states what each has left (`Rebuilt`, `Written`, the two
  size fields in `EmbeddedSized` and `UiSized`); the order of the operations enters through `Shaped` alone: which of them
  comes before which, proved once for the programs spelled out. `UiPlace` is why the field of `ui.arc` may
  grow: it never grows past the padding of the original.

**The archive** (`ArchiveProofs`), for every archive and all that may be replaced or merged in it. Assumptions: `SizesAssumption` (only
that sizes are natural numbers), `InputsAssumption` (as many replacements and mappings as records).

* `TypeCorrect`, and `PartsDisjoint`: `LayoutDisjoint`. The
  invariant `InOrder` says that while records are written all files lie between the place kept free for the header and
  the next position; it rests on two lemmas, that rounding up never gives less (`AlignUp`) and that the header
  fits into its place whether or not the marker is written (`HeaderFits`).
* `FilesSurvive`, `MergedAreTargets`, `BadShareNext`: `FilesKept`, `MergedFollowTarget` and `BadFollowNext`. `RecordsInv` says what the
  entries made so far stand for: a merged one has a target that is not merged itself, a sound one is a file in its place, a bad
  one is where the next will be. The last step, which resolves the merged ones and moves the bad ones, is where all three are won.

**The replaced files** (`ArchiveProofs` again), for every file, database of textures, font file, font, alignment and size of chunk.
Assumptions: `ReaderAssumption` (sizes are natural numbers, and alignments, chunks and fonts are not empty), `PatchedAssumption` and `FontsAssumption` (section 2.8).

* `PatchedAsRead`, `NothingMissed`: `OutputRight` and `AllIsRead`. For textures `LookingAt` says that the part looked at is the first that is not used up and
  that, once some of it is read, its texture's file is the one open, at the place that follows; so each chunk is what the
  database says (`BetweenParts`, `InsidePart`). For fonts `SoFar` says that what has been read, what is buffered and the rest
  of the segment (`Rest`) make up the file as it should be up to that segment, and `FontEnded` the same with the end marker; `InPlain`,
  `InTheFont` and `GlyphsLeft` say how far the stream is from the next segment, and `NoGlyphs` that the new font is not begun before the old one is met.
  That a rounded size and a filled page are the only ones there are (`FillIs`) lets the formulas of the code be compared with
  the definitions.

**The executable** (`ExecutablePatcherProofs`), for every alignment and every patch. Assumptions: `SizesAssumption`,
`PatchesAssumption` (the spaces of a patch are disjoint, and each record has a target).

* `PlacesApart`: `StringsApart`. A hole is compared with a size and
  shrunk by that size rounded up, so the invariant says where each hole is: inside a space, apart from the other holes and
  from all that is placed; a hole that would end below zero is removed, so what is left is always a true remainder.
* `LeavesNothing`: `NothingLeftOver`. `Plan` is the holes after each record as a function of the patch alone: every run, wherever it
  fails, places the same strings (`Planned`), all that differs from the original lies in the places of the plan (`Changed`), and what this run has come
  past is written by it (`Covered`).
* `StringsReached`: `Separate(patch) => PointersLead` at every moment. `Separate` is what the program does not check of a patch and what its data has to
  fulfil: different addresses of the space lie at different places of the file, no other target lies there, and no place has pointers to two
  strings. Two thirds of the patches of the instance (1020 of 1530) fulfil it with every space in one segment; the run checks the property for the others as well.

**The Wii partition** (`WiiImageProofs`), for every number of clusters, subgroups and units, and writes of any ranges. Assumption:
`SizesAssumption` (a write ends inside the partition).

* `DoubtIsKnown`, `OthersKept`, `RootFollows`: `UnverifiedKnown`, `ContentKept` and `RootIsSigned`. Of a group *at rest* the invariant says that clusters not
  in doubt have their hash in H0 and in the H1 of their subgroup (`Hashed`), that the H2 is one for all and has those hashes (`TopIs`), against
  `h3` or, for what the call under way has written, against `m_h3` (`TopInMemory`), and that what is intended is read (`Kept`). For the
  one group that is *open* it says so of the group in memory (`BufferHashed`, `BufferKept`), that the clusters before `call.todo` are already
  those of the memory (`Written`), and that the clusters from there on are what they were, up to the first unit of a cluster
  that has its new header and its old data (`StillHashed`, `StillKept`). `NewGroupMade` is the heart: what `NewGroup` computes is hashed where it is written
  or was not in doubt before.
* `ReadsFollowWrites`: `ReadsBack`, from `OthersKept` and `CacheOK`: the cache was filled between two calls, and what is intended for its cluster is what it holds or
  was written since.

**The paster** (`PasterThreadProofs`), for every number of archives, checks, starts and presses. Assumption: `SettingsAssumption`.

* `RunsApart`, `CancelIsOfUse`, `AbortArrives`: `OnlyCallsMeet`, `CancelHasARun` and `AbortReachesThread`. Nothing is assumed of the user; each part of the
  invariant says under which `met` it holds. Always: the completion of `Done`, which no event handling interrupts, comes right after its start
  (`InTurn`, `UpToDate`). While no start has met a call: there is one `patch()`, called or at work, on its own `DataPaster`, and all actions report as `Done` does
  (`Alone`). While no start has met a stop: the thread hears only of stops that the window knows of (`StopsKnown`), so a run that
  ends has said so (`Answered`). While no start has met a call or reports: the window gives up a run only at its end or with a stop that the thread
  hears of (`GivenUp`).

**The patcher of Metroid Prime 3** (`Mp3PatcherProofs`), for every number of paks. Assumption: `PakCountAssumption` (there is one).

* `ImageGetsRebuilt`, `CompletedIsTrue`, `PasterNotMissed`, `TempFilesGo`: `OnlyRebuiltWritten`, `CompletedMeansDone`, `PasterOutlivesUse` and `TempFilesGone`. A
  rebuild broken off by a stop answers as a success, so it matters that the controller knows of a stop before any flag is set and before anything about it is
  queued (`StopsKnown`); the invariant says for each phase of a run where its one call or answer is and which facts hold given
  the steps that are left (`Facts`), of the nested removals that those interrupted find nothing left unless one failed (`RemovalsInv`), and of what was used after its end
  in which of the two ways it came about (`UsesInv`).

**Not proved, only model-checked.**

* All liveness: `RunEnds`, `StopEndsRun` (both), `ThreadReaped`, `CancelEndsRun`, `ReaderStops`. The prover has no fairness and no `ENABLED`.
* What `SearchTree.h` does inside: `Compressor` has the set of strings it keeps.

The library's induction theorems cannot be instantiated by the backends; where an induction over natural numbers was needed (the plan of the
executable, the recursive functions of the packer, the positions and the contents of segments) it is by the least counterexample (`LeastNat`).

## 5. What is not modelled

* Vendored and third-party code (`externals/`, libjpeg, libpng, zlib, LZO, AES and SHA, nvidia-texture-tools). By far
  most lines of C and C++ in the repository are these; they have their own projects.
* Codecs and converters of textures, fonts, scripts, subtitles, packages and messages: sequential functions from a file to a file, without
  a protocol, whose correctness is the format's. Modelling them would repeat them line by line.
* Editors: windows over a document, without threads or state shared with anything else.
* The pak archives of Metroid Prime 3: an ancestor of the archive that `Archive` models, without its merging. In
  `Mp3Patcher` rebuilding one succeeds, fails or stops.
* The PSP LZ77 coder: sequential, with a table where the modelled packer has a cyclic buffer.
* The balance of the search tree: it is a set here, so that the search needs logarithmic time is not shown.
* The manifest, the loader of executable patches, texture databases and directories: they choose the constants of the models.
* Closing a window (`MainFrame::closeEvent` of WorkPatcher, of the paster and of the wizard): it ends the program.
* The older disc reader (`WiiDisc`, `WiiStream`), which no patcher uses, and the listing of files and partitions.
* The core streams, except as far as `FileSources` reads them: thin positions over a file or a buffer.
* The Pascal programs, which are older versions of the same tools; release data and build scripts.

## 6. Findings

Each is a run that TLC ends with a counterexample, against a line of the repository.

* `paster_restart`: after a cancel the paster's window offers Start again while the thread still works. The new run takes back the stop, is carried out inside the
  old one and deletes its `DataPaster`; the result `AlreadyRunning` (`PasterThread.h:75`) is returned by nobody.
* `late_cancel`: the wizard's cancel question outlives the run; answering it calls through `m_worker`, which is never
  cleared, although `PatcherController.cpp:158` verifies the call.

What the passing runs except, stated in the properties themselves or kept in the models as recorded faults:

* A phase that fails before its archive is rebuilt destroys its listener while it is bound, and a phase may end
  between the test of `m_currentNotifier` and its use (`CompoundProgressNotifier.cpp:40`): fault `forwardStop`.
* `StopNeverLost`, `StopEndsRun` of the controller: in a phase without a bound listener a stop is noticed only when the step ends.
* `ReferencesFitBeforeEnd`: in the finishing mode no string is removed, so references exceed the window (`Compressor.cpp:128`).
* `AssertionsGuardOutput`: inputs on which an ASSERT is false. An input whose last bytes fill the look-ahead and begin with no match is packed with the
  finishing mode entered one byte too late (`Compressor.cpp:96`): `ASSERT(m_finishingMode)` (`SearchBuffer.cpp:42`) is false, a string ahead of the pattern is
  found, and what is packed does not unpack. With the sizes of the code 17 bytes are enough, such as `12345ABcdefghiAB!`.
* `start()` waits for the thread of the last run while it blocks the event that would end it, and then asserts that it has ended
  (`PatcherController.cpp:185`); a quick second run of WorkPatcher starts on a thread that is about to quit: fault `start`.
* `OnlyCallsMeet`: runs whose start found the last `patch()` at work or called. Then anything may happen, as in `paster_restart`.
* `CancelHasARun`: after a failed action of the paster Cancel stays for ever, no completion follows; and a stop of an old run that arrives
  late ends the new one without a word.
* `AbortReachesThread`: a start takes back the stop of a `patch()` still at work, and reports of the old run, which the window takes for those of the new one,
  may make it give up a run whose stop has gone to the old one.
* `CancelEndsRun`: `init()` of the next archive forgets a stop of the last one; the archives of an action may all still be finished.
* `PasterOutlivesUse`: a cancel during the last step destroys `m_paster` under the outer `removeTempFiles`, which goes on to use it only if a
  file could not be removed the first time and could the second; and the worker may be deleted from the event loop inside `removeTempFiles`, which then goes on in it.
* `TempFilesGone`: the first file that cannot be removed ends the removal of all; nothing is said when the worker was deleted inside its removal.
* A late answer to the question of the Metroid Prime 3 wizard calls a worker that is gone, as in `late_cancel` (fault `requestStop`).
* `FilesKept`: the padding of a rebuilt archive writes a zero over its last byte when the size is already aligned; a packed file
  replaced by an empty one looks unpacked.
* `MergedFollowTarget`, `BadFollowNext`: a bad record whose successor is merged away is moved after the merged ones were resolved.
* `AllIsRead`: of a packed font file the segments behind the font may be lost, depending on the order in which the
  compiler evaluates `ZlibStream.cpp:47`.
* `PointersLead`: a string placed across the border of two segments is written in one piece from where its first byte is, wherever the second segment lies in the file.
* `NothingLeftOver`: a failed `writeUInt32` is not noticed.
* `NothingLost`: the content of the embedded archive is written before its size, so a run that ends in between cuts off an
  archive that has grown, and the next run rebuilds from what is left; the other archives are not touched by that. (`ui.arc` is written in the safe order.)
* `CheckedIsPatched`: the executable and the replaced files are never read back; that they are of the run follows from the order of its operations. The check ignores the size of `ui.arc`, so an unnoticed error in writing it stays unnoticed.
* `ReadsBack`: the cluster decrypted last is kept by `decryptBlock` (`WiiImage.cpp:485`), and a write does not make it be forgotten, so it reads as it was until another
  is read. (`WiiImageTests.cpp:129` compares what is read back; the patcher checks an image through the object it wrote it with.)
* `UnverifiedKnown`, `RootIsSigned`: after a call that ended early only repeating it, or writing over the same clusters, mends the partition;
  `ContentKept`: a header written without its data spoils the first bytes of its cluster, even if the call was not to change them.

## 7. Plan

The order is by importance to the program.

Done: all modules of section 2, and every safety invariant that a passing run checks is also a theorem, two of them for a part of the
instances only: `StopFindsWorker` with the MainFrame as front end, and `PointersLead` for patches that are `Separate`.

Left:

* `SearchTree`: rotations and removal of the AVL tree against the set of `SearchBuffer`, as a refinement.
