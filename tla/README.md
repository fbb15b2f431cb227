# A TLA+ model of akvcam

akvcam is a Linux kernel module that creates virtual cameras. A process writes
frames to an *output* device; the *capture* devices connected to it show them to
other processes. This directory holds TLA+ specifications of the driver, model
checked with TLC on small instances, and theorems about them proved with TLAPS
for all instances. Paths are relative to the root of the repository.

## 1. The system

| Component | Source | State | Operations |
|---|---|---|---|
| Buffer queue | `src/src/buffers.c` | the driver's list of buffers, a frame counter, the format of the buffers; videobuf2's lists and buffer states around them | queue_setup, buffer_prepare, buffer_queue, start_streaming, stop_streaming (called by videobuf2), read_frame, write_frame (called by the clock thread) |
| Device | `src/src/device.c` | clock thread, current frame, format, connected devices, node, reference count | clock_start, clock_stop, clock_timeout, clock_run_once, stop_streaming, register, unregister, ref, delete, set_format, controls_updated |
| Driver | `src/src/driver.c` | list of devices, default frame | init (read formats and devices, connect, register), uninit |
| V4L2 ioctls | `src/src/ioctl.c` | none of its own | TRY_FMT, S_FMT, S_PARM, G_*, ENUM_* |
| Formats | `src/src/format.c`, `format_specs.c` | one format: pixel format, size, rate, and the sizes of its planes | nearest, enumerations, update_params |
| Frame pipeline | `src/src/frame.c`, `frame_filter.c`, `converter.c`, `color_convert.c` | frames, conversion parameters cached by the converter | load, convert, mirror, swap, hsl, contrast, gamma, gray |
| Settings | `src/src/settings.c`, `map.c`, `list.c`, `file_read.c`, `rbuffer.c` | the settings by group and key; a file and its read-ahead ring buffer | load, parse, begin_group, begin_array, value_*; read_line; queue, dequeue |
| Controls | `src/src/controls.c`, `attributes.c` | control values, copied to the device and from an output to its captures | set, get, sysfs stores |
| Rest | `module.c`, `proc.c`, `log.c`, `utils.c` | none that lasts | entry points, text |

How they interact:

* The kernel's videobuf2 calls the buffer queue with `buffers_mutex` held, so
  that the ioctls of one queue come one after the other.
* Starting a stream (STREAMON, or the QBUF that completes the minimum) signals
  the device, which runs a *clock thread*; stopping joins it. The thread of an
  output takes a frame from its queue and copies it to the `current_frame` of each
  connected capture, under that capture's `frame_mutex`. The thread of a capture
  takes its current frame, or the default frame, through the pipeline into a buffer
  of its own queue. The threads of all devices run at their own rates.
* The clock thread and QBUF share the driver's list under `frames_mutex`, which
  QBUF waits for interruptibly.
* The other ioctls run under `device_mutex`, concurrently with those of the queue.
* The driver builds the devices and their connections once, from the settings,
  which it reads line by line through the file reader's ring buffer. The default
  frame is a bitmap read through the same reader.
* A control set on a capture is stored in the device; one set on an output also in
  every capture connected to it. The clock thread reads them without a lock, at
  three moments of each frame.

What is hard:

* **Concurrency.** Per device a process and a thread; per connection one thread
  that writes what another reads, and reads a pointer (`thread`) it does not lock.
* **Interruption.** Every lock is taken interruptibly and every failure path has
  to leave list, buffers and frames consistent.
* **Stopping.** `kthread_stop` waits for a thread with two mutexes held.
* **Partial failure.** A thread that cannot be started, a device that cannot be
  registered after others have been.
* **Counting.** Devices that refer to each other; a counter and distances that
  wrap around.
* **Stale state.** A frame of a former session, a format that changed since a
  buffer was allocated, cached conversion parameters, a border painted once.
* **Arithmetic.** Tables of scaled offsets, planes and fields of components, fixed
  point colours; positions in a ring buffer; runs and padded rows of a bitmap.
* **Text.** Lines that end at a block's or the file's end, quotes and escapes,
  malformed lines; lists combined with a bounded stack.

The hazards are listed with their lines in `PROJECT.json`.

## 2. Modules

| Module | Models | Checked by |
|---|---|---|
| `VideoQueue` | one device's queue, its clock thread, videobuf2 | |
| `BufferLoan` | abstract specification of the queue | |
| `VideoQueueProperties` | properties of the queue; refinement mapping to `BufferLoan` | `MCVideoQueue` |
| `VideoQueueProofs` | theorems about the queue; that it implements `BufferLoan` | TLAPS |
| `FrameRelay` | one output, the captures connected to it | `MCFrameRelay` |
| `FrameRelayProofs` | theorems about the relay | TLAPS |
| `Driver` | reading, connecting, registering, unloading | `MCDriver` |
| `DriverProofs` | theorems about the driver | TLAPS |
| `FormatNegotiation` | choosing a format while buffers exist | `MCFormatNegotiation` |
| `FormatNegotiationProofs` | theorems about formats and buffers | TLAPS |
| `PixelFormats` | the table of pixel formats; planes and components of a format | |
| `ColourConversion` | the matrices and their application, in fixed point | |
| `FrameScaling` | sizes and tables of source columns and lines | |
| `FrameConversion` | parameters and functions of the converter | |
| `FrameFilter` | what the controls do to a frame | |
| `FramePipeline` | one capture's clock with its two converters, while controls, frames and formats change | `MCFramePipeline` |
| `FramePipelineProofs` | theorems about tables, curves, controls, the converters' memory and the way of a pixel | TLAPS |
| `RingBuffer` | the operations of the ring buffer | |
| `BoundedQueue` | abstract specification of the ring buffer | |
| `RingQueue` | a ring buffer by itself; refinement mapping to `BoundedQueue` | `MCConfiguration` |
| `RingQueueProofs` | theorems about the ring buffer | TLAPS |
| `FileReader` | a file read in blocks through a ring buffer | |
| `Settings` | lines, groups, keys, values; formats and devices found there | |
| `Picture` | loading a bitmap | |
| `Configuration` | reading files, settings and pictures, with reads that fail | `MCConfiguration` |
| `ConfigurationProofs` | theorems about the file reader and what is read with it | TLAPS |
| `SequenceLemmas` | sequences without repeats, for the proofs | TLAPS |

`FramePipeline` composes `FrameConversion` (with `FrameScaling`,
`ColourConversion` and `PixelFormats` below it) and `FrameFilter`; `Configuration` composes `Settings`,
`FileReader` (with `RingBuffer`) and `Picture`.

### VideoQueue

The state is videobuf2's (`vb`, `waiting`, `doneList`, `streaming`,
`startCalled`), the driver's (`buffers`, `sequence`, `framesMutex`, `seqOf`), the
thread's (`thread`, `shouldStop`, `held`) and the progress of the one ioctl that
holds `buffers_mutex` (`ioctl`). videobuf2 is not in this repository; its actions
follow its documented behaviour as far as `buffers.c` depends on it and are marked
external in `PROJECT.json`.

* `read_frame` and `write_frame` are one model (`ClockLock`, `ClockTake` or
  `ClockFindsNone`, `ClockComplete`): they differ in the direction of the copy.
  Lock and unlock are separate steps on the thread's side, so that a QBUF can find
  the mutex taken; the QBUF's critical section is one step.
* `mutex_lock_interruptible` takes a free mutex whatever signals are pending, so
  that `BufferQueueInterrupted` is possible only while the thread holds it. In
  `stop_streaming` the thread has exited and the mutex is free.
* `clock_stop` is two steps: `StreamOffRunning` asks, `StopStreaming` goes on when
  the thread has exited.
* `AddTail` says what `list_add_tail` does to an entry that is already linked,
  which happens after a failed start.

`BufferLoan` is what a process may rely on: buffers are served in the order they
were lent, numbered without gaps since the start, each returned once. The mapping
puts the buffer held by the thread, the driver's list and videobuf2's waiting list
into one sequence, `pending`.

### FrameRelay

Frames are numbers in the order they are written. The output's queue is reduced to
a sequence (that it is one is what `VideoQueue` shows), and a capture's queue to
whether it has room (`DeliverFrame` or `DropFrame`). The default frame and the
random frame are one value, `Substitute`. `sessionFirst`, `received`,
`cleared` and `shown` are history: no guard reads them. Failing starts are in `VideoQueue` only.

### Driver

Cameras and connection lists are chosen when they are read, so that one run covers
all settings within the bounds. A device is its position in the driver's list.
`SkipCamera` is a camera the code cannot use. A connection list with nodes that do
not parse, are out of range or have the wrong role is dropped whole. Registration
has its two rounds; each may fail at any device. `PutDevice` is
`akvcam_device_delete` with the recursion of `akvcam_device_free` turned into a list
of references still to be dropped.

### FormatNegotiation

The device's and the queue's copy of the format, an ioctl that is between writing
the one and the other, and one buffer with its size and payload. `Nearest` is
`akvcam_format_nearest` with its arithmetic modulo `SizeModulus`, so that distances
wrap around as they do in 64 bits.

### FramePipeline

A frame is a format and its bytes (`data`, from the first plane on), and
`FrameConversion` reads and writes it by planes, bytes and fields the way the code
does: a format of `PixelFormats` carries the line sizes and offsets of its planes,
as `akvcam_format` keeps them up to date, and each component is a field of a byte
or of a 16 bit word. `Parameters` is
`akvcam_frame_convert_parameters_configure` and what it calls: the rectangles of
the aspect ratio modes, the tables of source columns and lines (`x`, `y`, with
`from`, `next`, `to` and the weight `k`), the matrix and which of the families of
conversion functions is taken. `Convert` has the loops of the functions themselves,
over the lines and columns of the picture (`Painted`), around the operator that
computes one pixel, of which there is one for each function. The source generates them with macros for one and three components, with and without
alpha, for 8 bits and for any depth, for Linear and Fast scaling and for up, down
and the same size. The functions for one component and for 16 and 32 bit data serve
formats that are not in the table and are left out.

`ConvertFrame` has the two early returns of `akvcam_converter_convert` and the
cache: `IsCurrent` compares what the code compares, and the frame painted on is kept
with the parameters. The clock is four steps, `ReadFrame`, `ConvertIn`, `Filter`
and `ConvertOut`, because it reads the controls at three moments; each of them may
change in between (`SetCaptureControl`, `SetOutputControl`), as may the output's
frame (`Send`) and the format (`SetFormat`, see `ioctl.c:276`). `used` records what
a step read, for the properties only. Random bytes are all the same; what the code
leaves uninitialised in a frame is not compared by any property.

### RingQueue and Configuration

An element of the ring buffer is a byte, so that sizes count elements.
`QueueBytes` and `DequeueBytes` keep the code's arithmetic; `RingQueue` offers
every operation that has a caller, in any order, with two limits that the callers
keep: nothing empty is queued, and a buffer is cleared before its memory is given
up.

`FileReader` has the reader's fields. A `kernel` record says what the kernel does
during one operation: the size of a block (`Blocks`, instead of the 512 of `AKVCAM_READ_BLOCK`) and after how
many reads it gives nothing (`MaxFailures`). `Configuration` is in one of three
situations, its `task`: a reader used freely (`read`), a settings file that is loaded
(`settings`), or a picture that is loaded (`picture`). The text of a settings file is a sequence in
which whole words and numerals stand for their characters; `Numbers` and `Codes`
give the values of numerals and escapes. The entries of a document are written as
lines by the model's own writer, `Written`, and the properties compare what the code
reads from the lines with what the entries mean. In the same way `FileOf` writes a
picture as a bitmap: as colours of 24 or 32 bits, as indices of 8 bits, or as runs,
literals or moves, with the last line ended like the others or by the end of the bitmap
only, and from the bottom or from the top. `Combine` pops from a stack of
`Len(rows) * RowFrames + 1` frames, as `akvcam_matrix_combine` does with 64 for
`RowFrames`.

## 3. Runs

| Run | Bounds | Shows |
|---|---|---|
| `video_queue` | 3 buffers, minimum 2, counter modulo 4 | `TypeOK`, `Ownership`, `NothingOutlivesStream`, `CollectedInOrder`, `ImplementsLoan`, `StopReturns`, `EveryBufferReturns` |
| `frame_relay` | 2 captures, 3 frames, 2 buffers | `TypeOK`, `FanOut`, `ClearedStaysGone`, `NeverBackwards` |
| `frame_relay_live` | 1 capture, 4 frames, 2 buffers | `Relayed`, `FallsBack`, `StopsReturn` |
| `driver` | 3 cameras, lists of up to 3 nodes, 4 device numbers of which one is taken | `TypeOK`, `ConnectionsSound`, `NumbersHonoured`, `AllOrNothing`, `FreedIsUnreachable` |
| `format_negotiation` | every list of up to 3 of 5 formats, 4 bit sizes, 8 bit sums | `TypeOK`, `SizeIsConfigured`, `EnumeratedSizesAccepted`, `PayloadFits` |
| `frame_pipeline` | all pixel formats, frames of 2 to 6 columns (16 where fewer give a plane no bytes) and 2 to 4 lines, every scaling and aspect ratio mode, 2 frames, 2 changes | `TypeOK`, `WrittenIsFresh`, `TablesStayInside`, `UniformStaysUniform`, `ColoursArePlaced`, `BordersStayBlack`, `GrayIsGray`, `CurvesRise`, `FlipsAreKnown`, `LumaIsKept` |
| `configuration` | files of up to 5 characters, settings of up to 18 lines, bitmaps of up to 4 by 3, blocks of 1, 5 and 16, one failing operation; ring buffers of 0 to 4 | `TypeOK`, `ReadsContent`, `SettingsAreRead`, `FormatsAreCombined`, `PictureIsLoaded`, `RingIsQueue`, `LoadingEnds` |

Why the bounds are enough. Three buffers let one be held by the thread, one be
listed and one be handed over at the same moment, with a minimum greater than one;
modulo 4 the counter wraps with three numbered buffers uncollected. Two captures
are the least that a fan-out can treat differently; with three frames there is one
current, one on its way and one queued, over several sessions. Liveness is checked
with one capture, which the output serves as it does the others. An output and two
captures let captures compete for an output, and two outputs for a capture. The
sizes of `MCFormatNegotiation` lie at both ends of their range, so that squares of
differences exceed the modulus.

In `frame_pipeline` every supported format is converted to a device's format and
from a source's, which takes every conversion function of the supported formats;
sizes that divide each other and sizes that do not make every table scale up, down
and not at all. Two frames with a change between any two steps are the least with
which a cache can be stale, and a second change can take back the first. Every
contrast, gamma, hue and saturation that has an early return, a limit or a change
of sign in its table is there. In `configuration` a block of one character makes
every position the boundary of a block, five cut lines and rows in the middle, and
16 take a small file at once; the ring buffer, of the size of a block and more,
wraps around in each. `RowFrames` is 1, so that among the documents there are lists
whose combinations fit the stack and lists for which it is full, as happens to the
driver beyond 256 values. The ring buffer by itself is filled, overtaken and resized
with sequences shorter than, as long as and longer than it.

Deadlock is checked except in `driver`, `frame_pipeline` and `configuration`, which
have done all they do: an unloaded module does nothing more, the changes and frames
of a bounded number are over, and the settings or the picture are loaded.

What the two last runs leave out of their properties, because the code does
otherwise; the reader of the code may want to know:

* `UniformStaysUniform` excludes averages (Linear, down) with Keep and Fit: their
  divisors belong to the whole frame. On the 8 bit path averages are never computed
  at all, and a picture scaled down is black.
* With Keep the tables of a picture so narrow that no column is left to show name
  the column beside it (`TablesStayInside`), and with Fit or Keep a blended neighbour
  may lie outside with weight 0. The tables of Keep are longer than what is allocated
  for them.
* `ColoursArePlaced` is about 8 bit RGB: fields of 16 bit formats are read and
  written as single bytes. An ARGB32 frame made of one without alpha is transparent,
  and black on a 16 bit device. Swapping red and blue swaps alpha and green.
* The size of a chroma line is halved twice, so that planar frames wider than 64
  (128 for the formats with a quarter of the columns) have lines that are too short;
  the bounds stay below, and above the width where such a line has no bytes.
* `FlipsAreKnown` does not say which device's flip is applied: any control of the
  output that changes also overwrites the capture's flips, which V4L2 goes on to
  report as set.
* `FormatsAreCombined` says which formats there are and how often, and leaves their
  order open. The stack returns them from the last listed value to the first, and drops
  combinations when it is full. The documentation has the opposite order
  (`share/config_example.ini:66-67` and `77-82`, `driver.c:440`); that is what
  `MCFirstDefined.cfg` shows, below.
* A read of the settings file that fails with nothing read ahead gives an empty line,
  and the load asks again as long as reads fail; one that fails within a line makes a
  line of its first part. `LoadingEnds` bounds the failures, and `SettingsAreRead` is
  about loads in which none happened.
* `PictureIsLoaded` says what becomes of each form of a bitmap. The rows of 24 bits are
  read without their padding, so that it claims nothing of a width that needs some; that
  such a picture comes out wrong is what `MCSupportedPictures.cfg` shows. Pictures of 8 bits
  are loaded although the documentation excludes them (`MCSupportedDepths.cfg`). Runs that end
  the last line, before the end of the bitmap, are refused; stored from the top they are
  accepted, because the height that limits the lines is then a negative number, taken
  for a large one.

Five runs look for a violation and find one. Each states what the repository says
of itself, and `PROJECT.json` quotes it:

| Run | What happens |
|---|---|
| `start_failure` | A stream that cannot start its thread leaves its buffers in the driver's list, though videobuf2 has taken them back. |
| `stale_session` | A capture shows the last frame of the output's former session when the output starts again. |
| `all_devices_freed` | Connected devices reference each other and are never freed. |
| `direct_formats` | A capture in direct mode gets an output that is not, of another format, whose frames it copies plane by plane. |
| `intervals` | S_PARM uses the interval it is given as a rate: listed intervals select something else. |

Three more configurations of `MCConfiguration` are kept beside these runs. Each checks
one sentence of the comments of `share/config_example.ini`, and TLC finds each violated
within seconds (`tlc -config <cfg> MCConfiguration`):

| Configuration | Property | The documentation | The code |
|---|---|---|---|
| `MCFirstDefined.cfg` | `FirstDefinedIsDefault` | Lines 66-67: "First format defined is the default frame format for 'capture'/'output'." Lines 77-82 list the combinations from the first values on; `driver.c:440` says "In direct_mode only the first configured format is used." | `akvcam_matrix_combine` pushes the values of a list in their order and pops the last one first (`list.c:421`): the front of the list, which is the default (`device.c:115`) and all that direct mode keeps, is made of the values listed last. |
| `MCSupportedPictures.cfg` | `SupportedPicturesLoad` | Line 97: "Only 24 bpp and 32 bpp BMP files are supported." | The rows of 24 bits are read without the bytes that pad them to a multiple of four (`frame.c:814`; those of 8 bits are read, `frame.c:775`), so that a picture whose width is not a multiple of four comes out wrong. |
| `MCSupportedDepths.cfg` | `OnlySupportedDepths` | The same line. | Bitmaps of 8 bits, plain or run length encoded, are loaded and shown as well (`frame.c:765`). |

Each property of a passing run has a mutant of the code that TLC finds to violate
it, an operator marked *(wrong: ...)* before the definition it stands in for.

### Fairness

* `VideoQueue`: weak fairness of the clock thread and of the steps that end an
  ioctl that has begun; strong fairness of `BufferQueue`, because a kernel mutex
  that is released again and again goes to its waiter. No fairness of any ioctl:
  properties hold if the process never calls again.
* `Configuration`: weak fairness of `LoadSettings`, which reads and stores one line:
  the loop of `akvcam_settings_load` runs in the process that loads the module and
  waits for nobody.
* `FrameRelay`: the same for both threads and mutexes, and strong fairness of
  `DeliverFrame`, which says that the reader keeps giving buffers back; without
  such a reader no frame can arrive. The process that writes, starts and stops is
  free to do nothing.

## 4. Proofs

The theorems hold for every value of the constants that the named assumption of the
module allows, and TLC evaluates these assumptions on every run. The code justifies
what they ask for:

* `VideoQueueAssumption`: finitely many buffers, a minimum, and a counter of some
  width. Four theorems further assume `StartMayFail = FALSE`: with failing starts
  they are false, which is what `start_failure` shows.
* `FrameRelayAssumption`: a list of captures without repeats. That the lists of
  connected devices are such is `ConnectionsSound` of `Driver`.
* `DriverAssumption`: finitely many device numbers, of which the host has some.
* `FormatNegotiationAssumption`: the formats of a list have positive rates
  (`akvcam_driver_read_format` drops the others); distances are computed modulo the
  square of the word of a size, a power of two (32 bit sizes, 64 bit `size_t`).
* `ConfigurationConstants` and `DocumentsAreTexts`: files are sequences of characters,
  and so is what the model's writer makes of a document; a read of the kernel gives at
  least one. `Characters` names the two strings the driver itself writes down besides
  `STRING`, because no prover knows of a literal that it is a string.
* `FramePipelineAssumption`: formats of the table, at least two pixels wide and high, as
  everywhere in the model, and whole frames of bytes to start from, as
  `akvcam_frame_new` makes them; controls have values in the ranges that `controls.c`
  gives V4L2 (`ControlValues`).

### The buffer queue

`VideoQueueProofs` proves

* `TypeCorrect`: `Spec => []TypeOK`.
* `OwnershipHolds`: if starts succeed, `Spec => []Ownership`.
* `NothingOutlivesStreamHolds`: if starts succeed, `Spec => []NothingOutlivesStream`.

`TypeOK` is not inductive, because the thread's copy writes the state of `held` and
the interrupted QBUF that of the first waiting buffer: `TypeInv` adds that there is
one in those phases. `Ownership` needs two more parts. `Phases` ties the ioctl's
progress to the thread's: with no stream there is no thread and no list, a buffer is
held exactly while it is copied, and one buffer waits while a QBUF hands it over.
`Places` ties videobuf2's lists to its states: the waiting buffers are queued, the
completed ones done or failed, each once. `QueueInv == Ownership /\ Places /\ Phases`
is inductive relative to `TypeInv` (`OwnershipStep`, `PlacesStep`, `PhasesStep`, one
step per action); TLC agrees on the instance of `video_queue`.

On this rest, if starts succeed,

* `CollectedInOrderHolds`: `Spec => []CollectedInOrder`.
* `QueueImplementsLoan`: `Spec => ImplementsLoan`, the refinement of `BufferLoan`.

`CollectedInOrder` is an instance of `InOrder(list, vb, seqOf, sequence)`, of which the
lemmas say what it means for a list to grow by the frame just taken
(`FrameAppended`), by buffers with errors (`ErrorsAppended`), and to lose its oldest
(`OldestCollected`). It is inductive together with `QueueInv` and `Unstarted`: before
the start nothing is done, so that numbering begins with the list empty. In the
refinement `LoanStep` maps every action to the step of `BufferLoan` it is, or to a
stutter: taking the lock, taking a buffer (which stays the first pending one),
finding none and sleeping change nothing there, `ClockComplete` returns the first
buffer, and stopping returns all of them at once. The mapping makes entries of
buffers, states and numbers; `EntriesKept`, `EntriesAppend`, `EntriesConcat` and
`EntriesTail` say that it goes through the operations on lists.

### The relay of frames

`FrameRelayProofs` proves `TypesHold`, `FanOutHolds`, `ClearedStaysGoneHolds` and
`NeverBackwardsHolds` (`Spec => NeverBackwards`, an action property). Between the
process that writes and the reader of a capture lie four copies of the number of a
frame: `queued`, `outFrame`, `received` (what the capture was given) and `capFrame`
(what its thread took). The inductive invariant orders them: `FramesOrdered` says that the
queue rises and is ahead of what the thread works on and of what any capture was
given, `ReaderBehind` that a capture's reader is behind the frame on its way to it,
and that one behind what the capture was given. `FanOut`, that the captures before
`outNext` have the thread's frame and the others an older one, is what makes
`StoreFrame` give no capture the same frame twice or an older one
(`ReceivedRises`); with it every part is preserved. `NeverBackwards` follows, because
only a frame in between is ever shown.
`ClearedStaysGone` needs three parts more. `JoinedFirst` says that when `stop_streaming`
goes on to delete the current frame, the capture's thread has exited and holds no frame:
this is what the join is for. `CurrentIsLatest`, that there is no current frame but the
last one given, and `ClearedBehind`, that what was deleted was given before, hold the
rest together: a frame stored later is newer by `FanOut`, and an interrupted stop deletes
nothing.

### The life of the driver

`DriverProofs` proves `TypesHold`, `ConnectionsSoundHolds`, `NumbersHonouredHolds`,
`AllOrNothingHolds` and `FreedIsUnreachableHolds` from one invariant, `DriverInv`.
`Counted` is its core: a device's count is the number of its connections, plus one
while the list of the driver refers to it. So a device with a connection is never
freed, which is why `FreedIsUnreachable` holds (and why connected devices are never
freed at all, the finding of `all_devices_freed`). `AcceptedCaptures` shows that what
is left of a list of nodes after it was checked is a list of captures without
repeats that have no output yet; `ListIsValid` and `PutKeepsConnections` carry the
symmetry of the connections through connecting and unloading. `Numbering` follows
the two rounds: after the first one exactly the devices that asked have a number,
theirs, and the second only takes numbers that are left.

### Formats

`FormatNegotiationProofs` proves `TypesHold`, `SizeIsConfiguredHolds`,
`PayloadFitsHolds` and `EnumeratedSizesAcceptedHolds`. The first three rest on
`CopiesAgree`, which says where the two copies of the format stand while one is being
set. The last is arithmetic: the format asked for has distance 0, and is found unless
another one has it too. Distances are sums of squares modulo `SizeModulus`, and such
a sum may well wrap around; that it does not become 0 is because the square of a
power of two is neither the sum of two smaller squares nor one more than such a sum
(`NoSumOfTwoSquares`, `NoSumOfThreeSquares`, by descent over the power of two, with
the remainders of squares modulo 4).

### The frame pipeline

`FramePipelineProofs` proves `TablesStayInsideHolds`, `FlipsAreKnownHolds`,
`CurvesRiseHolds`, `WrittenIsFreshHolds`, `FramePipelineTypes` and
`ColoursArePlacedHolds`.

* `AxisStaysInside` is about one table of the converter. A target column is mapped to
  its share of the source (`Mapped`, the macros `x_dst_to_src` and `x_src_to_dst`,
  which round down twice). `MappedGrows` says that this goes from the first column to
  the last in order, and `MappedBack` that going there and back is not ahead, and
  there, one on and back not behind: so the weights lie between 0 and 8, and are 0
  in the last column, whose right neighbour may be outside. `PictureFits` and
  `RectInside` give the sizes of the aspect ratio modes that `AxisStaysInside` asks for.
  The invariant `PipelineInv` says that the converters are configured for the sizes
  they are compared with (`IsConverter`), whatever was converted before, and that the
  frames on their way are pictures (`SizeRemains`: converting to ARGB32 does not change
  the size).
* `ControlsInv` says that the controls keep their ranges and that those of an output
  are those of its captures. `FlipsAreKnown` is a part of it.
* `CurvesRise` is arithmetic from there. `ContrastRises` divides a product that grows.
  The polynomial of `GammaRises` is not monotone: below 0 it is a product of two
  factors of which the smaller may be negative, and above 255 it falls again, but
  there the result is cut off.

* `WrittenIsFreshHolds` (`Spec => []WrittenIsFresh`) is about what a converter keeps: the
  parameters, compared by their key, and the frame it paints on. The first is a matter
  of what `IsCurrent` compares. The second needs that painting over an old frame leaves
  nothing of it, bit by bit, since a component is written by clearing its bits and
  adding the value's. `ChainAgain` is that for one byte, into which up to four
  components are put one after the other: it holds when every bit is cleared before
  it is written or never set (`Settled`). `AllKinds` goes through the table of formats,
  of which there are three kinds. Components of whole bytes clear what they write
  (`EightSettles`). Fields of a 16 bit word all go to its lower byte, and together
  cover it from the lowest bit on (`WordsSettle`). BGRX555 leaves a gap between its
  fields, and would go wrong with a value too large for them; but it is always made of
  ARGB32, a format with alpha, so that its values are bounded (`BgrxSettles`,
  `BgrxRed`). `PaintedAgain` and `ConvertTwice` carry this to frames. The inductive
  invariant is `FreshInv`: what each converter keeps is as good as new (`Kept`), and
  what the clock has made so far is what fresh converters would have made of what it has
  read (`ChainInv`). It speaks of all frames a converter may yet be given, so that TLC
  checks `WrittenIsFresh` only.
* `FramePipelineTypes` (`Spec => []TypeOK`) says that every frame is whole: a byte for
  each that its format names, none more, and nothing that is not a byte. It needs three
  things. The layout: `AllMade` and `AllLayouts` go through the table of formats for
  what its planes and components are, and `FormatLaidOut` and `PlaneFound` say that
  lines and planes of every size follow each other without overlapping and fill the
  frame. The conversions: a byte painted on is one again (`PaintedBytes`), and so is one
  that is copied from the first pixels of its plane (`RepeatedBytes`); the frame of a
  converter is of the format it was configured for, in whatever size (`WholeFrameMade`).
  The filters: ARGB32 has four bytes for each pixel, all of them inside
  (`PixelOfBytes`), each way to mirror reads inside (`MirrorWhole`), and hue,
  saturation, brightness, the curves and gray make bytes of bytes (`HslColours`,
  `CurvePixel`, `GrayPixel`, `ApplyWhole`). `WholeInv` carries this along the clock's
  steps, the frames that the two converters keep included (`HasFrame`).
* `ColoursArePlacedHolds` (`Spec => []ColoursArePlaced`) follows a pixel through both
  converters and the filters. `WrittenIsFresh` makes the frame written a function of the
  frame read and of what the clock noted down; `UsedInv` says what that is when it has
  finished. In a picture of the same size each table of the scaling maps a column to
  itself (`MappedToItself`, `SameSizeScale`), so that the conversion copies a pixel to
  its own place, whatever the mode (`CopiedPixel`), and what it copies are the whole
  bytes of a colour (`CopiedColours`). Filters at their neutral values keep the colours
  (`AppliedNeutral`), and a mirror draws each pixel from its partner across, in each of
  the three ways the code has (`HorizontalColour`, `VerticalColour`, `BothColour`).
  What is drawn pixel by pixel takes the place of a byte apart again: that a byte
  belongs to one pixel needs lines whose length is a multiple of 4 (`LinesAligned`,
  `ByteTaken`).
  `PlacedColours` puts them together.

### The ring buffer

`RingQueueProofs` proves, for every set of elements, of sizes and inputs (`RingInputs`):

* `RingStaysConsistent`: `RingSpec => []RingConsistent`.
* `RingImplementsQueue`: `RingSpec => RingIsQueue`, the refinement of `BoundedQueue`.

`IsRing` is the inductive invariant: the record's fields, the positions within the
size, and `write` ahead of `read` by `data_size`. The steps rest on arithmetic of
positions that are at most one turn ahead (`Wrap`, `Turn`): `ReaderMoves` shows that
the comparisons of `MoveRead` find out exactly whether the new elements fit beside
the old ones, `ElementsStay` where element k of the result comes from. With them
`QueuedContents` turns queueing into the last elements of a concatenation, and
`DequeuedRing`, `ResizedRing` and `ClearedRing` do the other operations.

### The file reader and the settings

`ConfigurationProofs` proves `ConfigurationTypes` (`Spec => []TypeOK`) and
`ReadsContentHolds` (`Spec => []ReadsContent`) from one invariant, `ConfigurationInv`.
Its core, `IsFile`, is what the reader's four counts mean: the ring buffer, of which
`IsRing` is taken from `RingQueueProofs`, holds exactly the part of the file between
`bytes_read`, where its user is, and `file_bytes_read`, up to where the kernel was
asked. Each operation of the reader keeps it: a seek inside what was read ahead drops
the elements before (`SoughtIsFile`), `BlocksEnough` and `FilledIsFile` are about the
blocks read ahead, `FetchedIsFile` says that unless a read fails the buffer afterwards
holds what is wanted or the rest of the file, and `FoundFirst` that the first line
break in the buffer is the first one in the file. `ReadGives` and `LineGives` then say
what a read and a line return, for the user (`BytesReturn`, `LineReturns`) as for the
driver that loads its settings (`LineLoads`). For `TypeOK` the settings have to be
followed only as far as that no group is without a name (`ParsedGroup`,
`StoredIsSettings`).

### Only model checked

* Everything under fairness (`StopReturns`, `EveryBufferReturns`, `Relayed`,
  `FallsBack`, `StopsReturn`, `LoadingEnds`), which is out of the proof system's reach.
* `UniformStaysUniform`, `BordersStayBlack`, `GrayIsGray` and `LumaIsKept` compare
  colours of any two formats: where each byte comes from in a picture of another size,
  what an average is, a sum over a set, and what the matrices that `RgbToYuv` and
  `YuvToRgb` load, rounded numbers, make of a gray.
* `SettingsAreRead`, `FormatsAreCombined` and `PictureIsLoaded`: parsing, combining and
  loading a picture are recursive functions of the text, a stack or the file, or folds
  over them, and what those compute for all inputs has to be proved by induction over
  data.

## 5. Not modelled

Text output (`proc.c`, `log.c`, the printing functions, the `show` functions of
`attributes.c`) and the module's entry points keep no state. `attributes.c` stores a
control the way the ioctl does, and of `controls.c` the limits, menus and events are
left out: `FramePipeline` has the values and who receives them. Conversion functions
and matrices for formats that the table does not have, functions without a caller
(copies, iterators of a map, groups and keys of the settings), and reference counts
other than the devices' are left out. Read and write I/O (`vb2_fop_read`,
`vb2_fop_write`) runs the same queue from inside videobuf2 and adds no calls to the
driver. Memory exhaustion is modelled where it changes control (the clock thread,
registration) and not in every allocation. Kernel version differences in the ioctl
tables are left out.

## 6. Plan

1. The limits and events of the controls, together with the sysfs stores.
