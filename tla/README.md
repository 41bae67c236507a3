# Verification of utlib

TLA+ modules that model utlib, TLC configurations that check them on small
instances, and TLAPS proofs for every instance. Paths in this file are
relative to the repository.

    tlc -workers 2 -config BackedBuffer.cfg MCBackedBuffer.tla
    tlapm BackedBuffer_proofs.tla

`PROJECT.json` holds the same inventory in machine-readable form: the lines
each definition models, the runs, the mutants (broken variants of a definition
with which the run must fail), the findings, the hazards, the theorems.

## 1. Inventory

utlib is a library. It starts no threads; it is used from several threads
where it offers a mutex or a condition variable, and from one thread at a time
everywhere else. It has no network code of its own. The hard parts are the
queues, the file-backed buffer and its failures, the synchronised wrappers, and
boundary cases of small algorithms.

| Component | State | Operations | Interacts with | Hard because | Correct if |
|---|---|---|---|---|---|
| `Mailbox` (storage) | ring buffer, delegate, mutex | put, poll, setDelegate, clearDelegate | RingBuffer, Synchronizable, delegates called under the lock | threads, callbacks that call back | no message lost, doubled, torn or overtaken; callbacks tell the truth; a removed delegate is quiet |
| `Synchronizable`, `AutoMutex`, `ReentrantMutex` | recursive mutex | lock on entry, unlock on return | Mailbox, Backed | nesting, several threads | exclusive; given back as often as taken |
| `RingBuffer` | slots, r, w | read, write, put, skip, align, clear, copy | base of SortedRingBuffer, part of Mailbox | wrap-around, full against empty | a bounded queue; all views of the content agree |
| `SortedRingBuffer` | + keys | insert, append, copy | RingBuffer | order across the wrap-around, inherited writers | content in key order; insert adds one entry |
| `ResizableRingBuffer`, `Array`, `SortedArray` | slots, pointers, capacity, keys | as above, resize | - | capacities that differ | as above |
| `BackedBuffer` | memory, page table, counter, file, streams, flag | init, resize, detach, views, persist | file system, ByteView | every I/O call can fail half-way | cannot be told from an image read up front; saves all that was modified and nothing else; recovers |
| `Buffer` | pointer, size, managed pointer | alloc, resize, strip, compress | Compressible, Files | failed allocations, aliasing | size and pointer fit; managed pointer follows |
| `ZipArchive` | handle, path | open, write, uncompress, replace | zip library, file system | failure between two steps of replace() | archive or its replacement exists, handle open or null |
| `Wakeable` | flag, condition variable | waitForWakeUp, wakeUp | Time | lost wake-ups, timeouts | a wake-up ends the wait that it precedes or meets |
| `Backed` | value, snapshot, getter, mutex | current, backed, record, invalidate | Synchronizable | reference that leaves the lock | snapshot is some value of the getter since the last invalidation |
| `Sticky` | old value, new value, time of change | get, set | - | quick changes | each value shown stays for the configured time, then the newest is shown |
| `Animated` | current, maximum, delta | fadeIn, fadeOut, shift | - | both ends, zero steps | stays in range, arrives |
| `Clock`, `StopWatch`, `Time` | start, elapsed, paused | stop, go, restart, getElapsedTime, sleep | system clock | any order of calls | running time counted once, paused time never |
| `Compressible` | none | rle, unrle, gzip, lz4 | zlib, lz4 | run lengths at 255 | decoding undoes encoding |
| `Dumpable` | two counters | dump | data provider | formats without data | ends |
| `Hashable` | none | hashes and checksums | - | - | values of the standards |
| `Loggable`, `Reportable`, `Streamable` | - | text output | streams | - | wording |
| `Reflectable`, `Parser` | none | parseEnum, parsePartialEnum, parseNum | ParseError | abbreviations | unique match or an error |
| `Files` | the file system | sync, prune, mirror, makeUniquePath | other processes | kinds of entries that differ, times, failures half-way, races | mirror equals source |
| `TempFile` | a path | create, move, reset | file system | ownership, races | file removed once |
| `Streams`, `Formatter` | none | head, tail, printTable | - | boundary sizes | each line, each cell once |
| `Range`, `ClosedRange` | bounds | coalesce, translate | - | duplicates, last element | same set of values |
| `ByteView`, `BitView` | window on bytes | cyclic access, forward | Buffer, BackedBuffer | alignment, wrap-around | fast path equals slow path |
| `Bits`, `Strings` | none | replace, text helpers | - | end of the buffer | first match replaced |
| types, gfx, math | - | values | softfloat | - | arithmetic |

Every hazard of this code that we know of is listed in `PROJECT.json`
("hazards") at its line, with the properties that cover it or a note.

## 2. What is modelled

### BackedBuffer (`BackedBuffer.tla`, `PersistentImage.tla`)

`include/utl/storage/BackedBuffer.h`, `src/storage/BackedBuffer.cpp`.

The variables are the members of the class (`mem`, `bytes`, `pages`,
`dirtyPages`, `fileBytes`, `readOnly`; `backed` stands for a path that is not
empty, `out` for the output stream: closed, or left open by a failed write),
the file itself (`disk`, `diskLen`), the bytes the caller may write through the
mutable view taken last (`views`), the number of failures to come, and whether
`resize()` has failed to complete a page (`torn`, history).

The class is for one thread at a time, so a public call is one action, and a
call that throws is an action of its own for each place where it can throw,
with the state the exception leaves behind:

| Code | Actions |
|---|---|
| `init(size)`, `init(size, path)`, `dealloc()` | `InitMem`, `InitFile`, `Dealloc` |
| `byteView()`, `mutableByteView()` | `ByteView`, `MutableByteView`, `ViewFails` |
| writing through a view | `WriteThroughView` |
| `resize()` | `Shrink`, `Grow`, `GrowFails` |
| `detach()` | `Detach`, `DetachFails` |
| the flag `readOnly` | `SetReadOnly` |
| `persist()` | `PersistOk`, `PersistGrowFails`, `PersistOpenFails`, `PersistWriteFails`, `PersistStuck`, `PersistFlushFails` |
| the file while no buffer uses it | `ForeignWrite`, `ForeignResize` |

Abstractions. A failed write may leave any subset of the dirty bytes in the
file, because streams buffer. Failed allocations change nothing (`resize()`) or
leave what `dealloc()` leaves (`init()`) and have no action. An `init()` that
finds no readable file throws before it changes anything and has no action
either. Nobody else changes the file while the buffer has it, as the class
comment demands; it may change before and after. What a broken stream may still
flush when it is finally closed is bytes of dirty pages, which an earlier
failed write may have put there as well, and is not modelled apart. Moving a
buffer, and an `init()` in which `fs::file_size()` throws although the file was
opened, are not modelled.

`PersistentImage.tla` is the promise of the class comment without lazy loading:
contents, modified pages, the file. `LooksLikeImage` maps each byte of the
detailed buffer to the image: memory where the page is loaded, file or zero
where it is not. That a step of the detailed buffer is a step of the image or
leaves it alone says, for instance, that loading a page cannot be observed. From the moment
that `torn` is set this does not hold (finding 2), so the property speaks of the
steps before, as do `CleanUnlessTorn` and `InitialisedUnlessTorn`; all other
failures are in. `KeepViews` says whether callers go on writing through views
taken before `persist()`, see finding 3.

### RingBuffer (`RingBuffer.tla`, `BoundedQueue.tla`)

`include/utl/storage/RingBuffer.h`. Slots, both pointers and the last value read,
one action per member function, each guarded by the function's assertion. `skip()`
and `align()` do not check whether they move a pointer past the other one;
`ForwardInOrder` and `PlaceInOrder` are the calls that do not. `BoundedQueue.tla` is
a queue with room for `Capacity - 1` items; it can also become one of the given
`Copies`, which are the contents of the buffers that `operator=` copies from.

### SortedRingBuffer (`SortedRingBuffer.tla`, `SortedQueue.tla`)

The same header. The module adds the keys and instantiates RingBuffer for the base
class. The loop of `insert()` is the number of elements the new one passes. `use`,
chosen at the start, says what a client does with the buffer: only what the base
class has and with the pointers in order ("plain"), only writers with keys and the
pointers in order ("sorted"), or everything ("any"), which leaves stale keys behind
and moves pointers past each other. What is true of a queue is said of the first,
what is true of a sorted queue of the second, and what each single operation
promises, and that the views of the content agree, of all three. `SortedQueue.tla`
orders entries by key; `insert()` puts an entry before those with the same key,
`append()` behind them.

### Mailbox (`Mailbox.tla`)

`include/utl/storage/Mailbox.h` with `Synchronizable.h`, `AutoMutex.h`,
`ReentrantMutex.h`. A call is a frame on the stack of its thread and runs step
by step: taking the mutex, the test for a full queue, storing the slot,
advancing the pointer, the callback, reading the pointer, copying the slot,
releasing the mutex. A callback may call the mailbox again, which puts a second
frame on the same stack; the mutex is recursive. The model does not assume that
the mutex protects anything: every step of every thread interleaves with every
other one unless the mutex forbids it. The queue inside is an instance of
RingBuffer, and the abstract specification is BoundedQueue again.

### Wakeable (`Wakeable.tla`)

`src/abilities/Wakeable.cpp`. The members are `ready`, the mutex `owner`, and
the place of each thread (`pc`). Both functions are cut into the steps another
thread can get between: taking the mutex, the predicate, the block (which
gives back the mutex in the same step, as `std::condition_variable` promises),
waking up, taking the mutex again, resetting the flag; setting the flag, and
`notify_one()` after the mutex is free. A sleeper may wake up at any time, for
no reason or for its deadline, which is fixed before the mutex is asked for and
may pass from then on (`late`). `wakeUps` and `early` are history.

### Backed (`Backed.tla`)

`include/utl/wrappers/Backed.h` with `Synchronizable.h`. Every operation runs
step by step, the getter and the store of what it returned apart. The value
changes at any time without a lock. A value is its age, so that "older" can be
said; `sure` remembers what `record()`, `invalidate()` and `clear()` have
promised their callers. `backed()` returns a reference into the snapshot which is read after
the mutex is free; the model says what the snapshot is, not what such a reader
sees while another thread writes it, which is a data race.

### Sticky, Animated, Clock (`Sticky.tla`, `Animated.tla`, `Clock.tla`)

`include/utl/wrappers/Sticky.h`, `include/utl/wrappers/Animated.h`,
`src/chrono/Clock.cpp`; one action per member function, plus the passing of
time. `Sticky` is read and set at the current time, as the class demands of its
callers; history is when the value shown changed, and whether `set()` changed
it. In `Animated` the doubles are whole numbers of a small unit, and each
addition is off by up to one unit, so that n steps of an n-th need not be the whole.
`Clock` has the time it ran as history.

### Buffer (`Buffer.tla`)

`src/storage/Buffer.cpp`. A heap of blocks with addresses that are handed out
again, the members, and the client's managed pointer (`view`). Allocations fail
anywhere. `alloc()` keeps a failure to itself: the variants of `init()` that
look at the pointer leave an empty buffer (`init`), the one that is given a
vector, in which `compress()` and `uncompress()` end, writes to null
(`initVector`). After a failed `resize()` with padding the assertion of `clear()`
fails, where assertions are compiled in (`resizePad`). `alive` says that neither
has happened; the program takes no step after it. What new memory holds is any
content.

### ZipArchive (`ZipArchive.tla`)

`src/storage/ZipArchive.cpp`. Several objects with paths and handles, the open
handles of the zip library, and what is at each path: nothing, an archive, or
the remains of one that was not closed well. `replace()` is three actions, for
where it ends. The paths are the name of one archive with zero or more ".tmp".

### TempFile (`TempFile.tla`)

`include/utl/io/TempFile.h`. The constructor tests a name and creates the file
in two steps, between which other processes make files under names that are
free and remove the files they have made, also when we have taken one over
(`theirs`). `shared` remembers the names that were theirs when we picked them:
of these nothing can be promised. A removal may fail; such files are `orphans`.

### Files (`Mirror.tla`)

`mirrorDirectory()` with `syncDirectory()`, `getPruneList()` and
`pruneDirectory()` in `src/io/Files.cpp`. Source and destination are trees of
directories, files and other things; one entry is copied or removed per step.
`mirrorDirectory()` adds the results of its two halves, and C++ does not say which
operand comes first, so `left` has the halves that have not begun and either may
be next. Any step of the copying half, and making the list of what to remove, may
throw (`fail`): a directory cannot be read or created. A copy that fails may leave part
of a file with a new modification time. Removals fail unnoticed.
Between two calls both trees are edited, and files get any time up to the present:
they are moved there with their old times, or have them set. Of a file
`needsUpdate` sees that it exists, its size and its time. `odd` has the entries
that were edited in the destination, or whose source got a file that is not
newer than the copy.

### SortedArray, ResizableRingBuffer (`SortedArray.tla`, `ResizableRingBuffer.tla`)

`include/utl/storage/RingBuffer.h`. The elements of the array are numbered by
their arrival. Its `write()` appends without looking at the order, and `align()`
can move the write pointer over slots that hold nothing; the callers of the model do neither
out of order. `ResizableRingBuffer` uses the module of the fixed-size buffer for
each capacity, and adds `resize()`. Its `operator=` is modelled between
buffers of equal capacity only, see section 7.

### Compressible (`RunLength.tla`)

The run-length coder of `src/abilities/Compressible.cpp`. `rle()` is a state
machine that reads one byte per step, `unrle()` a recursive function of the
number of bytes read: a fold, written so that it can be reasoned about. The
largest number of a byte is a constant.

### BitView (`BitView.tla`)

`include/utl/primitives/BitView.h`: memory as bits, a window, and for each
access the addresses it touches, by the fast path or bit by bit. Windows
start and end anywhere, as `subview()`, `slice()` and the constructor allow.
`Overshoots` says for which bits of a byte the fast path goes beyond the end of
a window, and `Place` where each bit of a byte is.

### Composites (`Wrappers.tla`, `Storage.tla`, `MCStorage.tla`)

These components do not use each other. `Wrappers` (Wakeable, Backed, Sticky,
Animated, Clock) and `Storage` (the rest from Buffer to BitView) put them next
to each other for one run each: `part` says which one moves, is chosen at the
start, and the others stay as they were made. Thus the states add up rather than
multiply, and each component is explored in full. What a component assumes of
its constants is an operator of its module (`WakeableConstants`,
`BufferConstants`, ...) that the composite assumes. `MCStorage` only gives
values to constants that a configuration cannot write.

## 3. What the runs show

Deadlock is checked in all runs.

| Run | Question | Bounds |
|---|---|---|
| `BackedBuffer` | invariant of the proofs; counter; clean pages equal the file and nothing is uninitialised until `torn`; what may reach the file; refinement; a caller who retries gets through unless a write has failed | 2 pages of 2 bytes, buffers and files of 0..3 bytes, 2 byte values, 2 failures of any kind |
| `BackedBufferUninit` | violated: see finding 2 | 2 pages, 1 failure "complete" |
| `BackedBufferStuck` | violated: see finding 1 | 1 page, 1 failure "write" |
| `BackedBufferStale` | violated: see finding 3 | 1 page, no failure |
| `RingBuffers` | a bounded queue ("plain"); content in key order, a sorted queue ("sorted"); each operation does what its name says, insert() adds one entry and all views agree (also "any") | 4 slots, keys -1, 0, 2, 2 values |
| `Mailbox` | a bounded queue in every interleaving; callbacks tell the truth; a removed delegate is quiet; the mutex is given back | 2 threads, 3 slots, 2 messages, 1 delegate, one nested call per callback |
| `Wrappers` | no lost wake-up, each early end of a wait has its wake-up, a set flag is taken; no snapshot older than `invalidate()`; a value that `set()` shows at once stays; fades end on time; pauses never count | 3 threads and 2 wake-ups; 2 threads and 2 changes of the value; stickiness 3 within 8 units of time; 3 steps of 12 units |
| `Sticky` | violated: see finding 5 | as `Wrappers` |
| `Storage` | block, size and managed pointer fit; handles, files and their owners; replace() keeps the old archive; mirror equals source but for `odd` files; arrays and buffers of any capacity; decoding undoes encoding; fast and slow path agree but where the fast one overshoots | 2 objects each; blocks of 0..2 at 3 addresses; 2 handles, 1 entry, 2 times ".tmp"; 3 names, 2 attempts; a tree of 3 paths with 3 edits; arrays of 3, buffers of 2..4 slots; runs up to 7 of bytes 0..2; windows on 3 bytes of 2 bits |
| `ZipReplace` | violated: see finding 4 | as `Storage` |
| `Mirror` | violated: see finding 6 | as `Storage` |
| `BitView` | violated: see finding 7 | as `Storage` |

Why the bounds are enough. Two pages of which the second is partial have files that
end before, on and behind the boundary, and buffers that end in either page. Two
failures are one that leaves something behind and one that meets it. A load that
steps over a loaded page needs three pages; it is covered by the proofs. Four slots
with up to three elements put the pointers in every relation to each other. Of two
threads in the mailbox one is anywhere in its call, or in a callback, while the
other one starts. Three threads are a waker and two waits it can confuse. With 8
units of time and a stickiness of 3 an immediate change is followed by delayed ones
and by the first immediate one after them. A block can be freed, its address handed
out again while a stale pointer is kept, and a third block leaked. Runs of 7 with
bytes up to 2 pass the threshold and twice the largest number. Windows of 1 to 6
bits at any offset are shorter than, as long as, and no multiple of a byte, and
start with one or inside. The three edits around the calls of `mirrorDirectory()`
let a file take the place of a directory after a failed copy, and an older file of
the same size that of a newer one. The proofs in section 5 do not depend on any of
these bounds.

Fairness. `RetrySucceeds` and `RetryUnlessStuck` assume that a caller with something
to save calls `persist()` again, and that only finitely many calls fail
(`MaxFaults`). `LockReleased` assumes that a thread that can take a step takes one
and that callbacks return; nothing is assumed of the order in which the mutex serves
waiting threads, so a thread may wait for ever and no property denies it.
`FlagIsTaken` assumes the same of threads in `Wakeable`; no deadline ever has to
pass and no sleeper has to wake up by itself, so it is the wake-up that does it.

Every property of a passing run has a mutant in `PROJECT.json`: a definition
with a plausible bug, for which the run fails.

## 4. Findings

1. **A failed write is final.** `BackedBuffer::writeFile()` throws and leaves `out`
   open with its error state set. The next `persist()` does not reopen it and
   nothing clears the state, so each further call throws, although the header
   promises that the next `persist()` writes all pages again (`BackedBuffer.h:197`).
   Closing the stream before throwing, as `closeFile()` does, would be enough: as
   long as no write has failed the same is true of all other failures
   (`RetryUnlessStuck`).
2. **A failed resize() shows uninitialised memory.** `resize()` changes size and
   page table before it completes the last page from the file. If that read throws,
   the page counts as loaded and its new bytes are what `realloc()` found, against
   `BackedBuffer.h:138`. Until this has happened nothing is uninitialised
   (`InitialisedUnlessTorn`), whatever else fails, and that is proved.
3. **Views outlive their pages' dirty state.** The class comment says that
   views stay valid until `dealloc()` or `resize()`, but what is written through one
   after `persist()` is in no dirty page and never saved. Callers have to take
   a new view after each `persist()`; `KeepViews` tells the two kinds of callers apart.
4. **replace() does not replace.** `ZipArchive::replace()` makes a name for the new
   archive with `path.concat(".tmp")`, which changes the member `path`. It then
   renames the new archive to itself, and the old one stays. `OldArchiveKept`
   holds, `ReplacedOnDisk` does not.
5. **A sticky value may stay too long.** Each assignment that changes the value
   starts the interval anew (`Sticky.h:89-90`), so that assignments in quick succession
   keep an old value on display for as long as they go on. The comment says that
   the new value takes effect when the interval has elapsed (`Sticky.h:21-22`), and its
   table shows it: in the row for stickiness 4 (line 30) 4 follows on 3 after
   four units, where the code goes on showing 3. `TakesEffect` does not hold. What
   `set()` has shown at once does stay for the interval (`StaysVisible`). A value that
   became visible because its time had come may be replaced at once,
   although line 18 promises a minimum duration for each assigned value.
6. **A mirror may differ from its source.** `needsUpdate()` passes over a file of
   the destination that has the size of its source and is not older: one that was
   edited there, or whose source was replaced by a file with an older time.
   `Files.h:93` calls the function a full rsync-like operation, and a test says that it
   makes the destination match the source exactly (`src/unittests/files_tests.cpp:242`);
   `MirrorExact` does not hold. `MirrorExactButOdd` holds and is proved: these
   are the only files that differ.
7. **The fast path leaves the window.** `getByte()` and `setByte()` test that the
   address of a byte and the length of the window are multiples of eight, and take
   that for "a byte-aligned view" (`BitView.h:124`, 186). In a window of that length
   that starts inside a byte, the byte that lies across its end passes the
   test too, and bits behind the window are read and written instead of
   those at its start. `StaysInWindow` does not hold; `PathsAgree` says that
   nothing else goes wrong.

Seen on the way:

- `TempFile`: its comment says that several at once cannot collide. Two
  threads that have tested the same free name both create it, and the object
  destroyed first removes the file of the other; they also share a random
  generator without a lock. The runs and the proof have one constructing thread.
- `TempFile` takes over a file that another process has created under the same
  name between test and creation, and removes it in the end.
- `Buffer::init()` of a vector writes to a null pointer when the allocation has
  failed, which `alloc()` does not tell (`Buffer.cpp:114-115`); `compress()` and
  `uncompress()` end in it. `resize(elements, pad)` then calls `clear()` with a
  range beyond the size, against the assertion of line 186; with assertions
  compiled out nothing more happens. `PointersFit` says that nothing but
  a failed allocation ends the program, not that it goes on.
- `Buffer::resize()` resets the managed pointer and does not set it again, and
  forgets its old block when the allocation fails. The pointer never dangles,
  which is what `PointersFit` says, but is null.
- `mirrorDirectory()` throws on every further call once a file has taken the place
  of a directory in the source, or the other way round; it removes nothing before.
- `operator=` of ResizableRingBuffer copies as many slots as it has itself, and the
  pointers of the other buffer as they are, without comparing the capacities.
- `rle3()` calls the decoder; `ClosedRange::translate()` accepts an offset one
  too large; `Range::coalesce()` makes two ranges of a duplicate; `Formatter`
  repeats cells of ragged column-major tables; `replace()` in `Bits.cpp` misses
  a match at the end; `tail()` with zero lines; the decrementing postfix
  operator of the cyclic byte iterator increments. These are single cases of
  pure functions, which a unit test shows best.
- `Mailbox.h` uses RingBuffer without including its header.

## 5. What is proved

`BackedBuffer_proofs.tla`, for all page sizes, sizes, byte values and numbers
of failures:

- `TypeCorrect`, `CounterCorrect`, `OnlyModifiedReachesFile` from
  `ConstantsAssumption` alone. The counter is not inductive without the types,
  and what may reach the file needs both.
  They hold for callers that keep their views over `persist()` as well.
- `InvariantHolds`, `CleanPagesCorrect`, `AllInitialised` and `BufferIsImage` under one
  further assumption, which is finding 3: `KeepViews = FALSE`. They say what holds until
  `resize()` has failed to complete a page (`torn`), which is finding 2.

The inductive invariant is `IndInv`. That clean pages match the file is not
inductive as it stands: writing through a view must not touch a clean page
(`ViewsAreDirty`), loading a page must read the file that is there
(`FileLengthKnown`, `FileEnds`), and growing must not meet stale entries of the
page table (`PageTableFits`). Initialised memory needs the same parts, because
`persist()` copies memory to the file and loading copies it back. TLC checks
`IndInv` in the run `BackedBuffer`. The refinement proof has one lemma per action;
loads, and growing under the invariant, map to stuttering or to `Resize`.

`RingBuffer_proofs.tla`, for all capacities and element sets: `OperationsCorrect`,
which says operation by operation what happens to the queue, whatever else the
client does; and `RingBufferIsQueue` for clients that use the buffer as plain, any
copies included. The lemmas say where the k-th element is after each pointer
moved. The types are those of `SortedRingBuffer_proofs`, which it extends.

`Wrappers_proofs.tla`, from what the five classes assume of their constants
alone, is about the composition that the run `Wrappers` checks. `PartsAsAlone`
says that each class behaves in it as its own specification says, so that what
is proved of the class carries over; `TypesCorrect` joins the types. Then, class by class:

- Wakeable, for any finite set of threads and number of wake-ups:
  `SleepersAreWoken` and `WaitsHaveWakeUps`. All need mutual exclusion and that
  the flag is down while a thread is about to block (`Protected`): a thread
  between its test and its block holds the mutex, so nobody sets the flag behind
  its back. That threads go through `wakeUp()` no more often than the bound
  allows needs the cardinality of those on their way (`WithinBound`).
- Backed, for any finite set of threads and number of changes:
  `SnapshotsAreFresh`. A call that is about to store what its getter has read
  may hold a value that is out of date; the invariant adds that it still holds
  the mutex (`Relies`), so no `invalidate()`, `record()` or `clear()` has
  returned since it read the value.
- Sticky, for any values and interval: `ShownStaysVisible`.
- Animated, for any maxima and numbers of steps of which one divides the other
  and the rounding errors of a whole fade are less than a step
  (`AnimatedConstants`; a unit is as small as the rounding error of a double):
  `FadesArrive`. The invariant is that what is left of a fade fits into the
  steps that are left, even if each of them loses a unit (`FadeFits`).
- Clock: `ClockCountsRunningTime`. The invariant is that the time the clock ran
  is what an update of `elapsed` would give now, running or paused.

`StorageFiles_proofs.tla`, `StorageArrays_proofs.tla` and `Storage_proofs.tla`
do the same for the composition that the run `Storage` checks, again with
`PartsAsAlone` and `TypesCorrect`:

- ZipArchive, for any objects, entries and finite number of ".tmp":
  `HandlesHaveOwners` and `ReplaceIsSafe`. `HandlesAccounted` counts owners with
  a set comprehension; the proof uses `Owned`, which says the same with
  quantifiers.
- TempFile, for any objects, names and attempts, and one constructing thread
  (the composite gives it one): `FilesHaveOwners`. The invariant adds that a
  name that has been tested is no file of ours, and that what other
  processes may remove is not taken for ours without being remembered.
- Files, for every tree, every edit of source and destination between two calls and
  every time it leaves, both orders of the halves and failures anywhere:
  `MirrorsAreExact`. The invariant `MirrorInv` says for each half what is true
  of the entries it has dealt with, and of all entries once it is done
  (`Halfway`, with `Copied` and `Pruned`), and two things about
  what `needsUpdate()` sees: nothing is newer than the present, and a file of the
  destination that is not older than its source, and not odd, is a copy of it,
  whole or cut off (`NewerIsCopy`). The sizes tell a whole copy from one that
  was cut off.
- SortedArray, for every capacity and all keys: `ArrayIsStable`. `StableOrder`
  says that the content are `w` different elements; the invariant says that no
  two slots hold the same one, and the lemmas that `position` exists and
  where the elements are after the move. The arrival number of the new element
  is above all others, which makes the order among equal keys inductive.
- ResizableRingBuffer, for every set of capacities: `ResizableBufferIsQueue`. The
  lemmas are those of RingBuffer, for whichever capacity there is, and
  `resize()` keeps the pointers in range because it resets them.
- Buffer, for all sizes, addresses and failures: `ManagedPointerFits`. With the
  types it is inductive as it stands.
- BitView, for every width of a byte, every memory and every window:
  `PathsAreTheSame`. The lemmas about remainders say that a byte whose address
  and window length are multiples of the width does not wrap around in a window
  that starts with a byte, that in any other it overshoots or does not wrap around
  either, that it ends within memory in any case, and that in a window of at least a
  byte its bits are different.
- Compressible, for every threshold, every largest number of a byte and every
  input: `DecodingUndoesEncoding`. `Pending` is the invariant: what has been
  written decodes to the input in front of the run under way, and the decoder
  does not take that run for part of the one before it. The lemmas run the decoder
  over equal bytes, over the largest number, and over a whole run.

`SortedRingBuffer_proofs.tla`, for all capacities from 2, all elements and all sets
of keys (`SortedConstants`): `TypeCorrect` and `InsertCorrect`, for callers that mix
all operations; `ViewsAreTheSame` for the same callers; `ContentInOrder` and
`SortedBufferIsQueue` for callers that use keys only (`use = "sorted"`), if the
buffers that are copied are in order (`CopiesSorted`). The lemmas say at which
distance from the write pointer each entry is before and after a move by n slots.
`InOrder` is inductive: the loop of `insert()` stops where smaller keys begin only
because the keys in front of that slot are smaller too. The walk of `vector()` is a
recursive function; the proof shows that the k-th slot is `(r + k) % Capacity` and
that it meets the write pointer after `count()` steps and not before.

`Mailbox_proofs.tla`, for any threads, delegates, messages, capacities and depths of
nested calls, from the assumptions of the module alone: `TypeCorrect`,
`OneThreadInside`, `RemovedDelegatesAreQuiet`, `DelegateIsToldTheTruth` and
`MailboxIsQueue`, the refinement. All rest on `LockInv`: the number of calls that
a thread has past `lock()` is the depth of the mutex if it is the owner, and
zero otherwise. Mutual exclusion alone is not inductive, because a call that
returns gives the mutex back only if it is the outermost one. On top of
it, `SeenInv` says that what a call has seen of the queue is still true,
`QuietInv` that the installed delegate is not a retired one. A message that is
between `read()` and the copy by the caller counts as the head of the queue, so
`store` and `read` map to stuttering, `advance` to `Enqueue`, `copy` to `Take`.

The prover cannot cite the library's induction theorems, which have operators
as parameters. Where a proof needs induction (the walk of `vector()`, the decoder),
it takes the least number for which the claim fails (`LeastNumber`), which
follows from the well-foundedness of the natural numbers.
That a recursive function is what its definition says needs a
function that satisfies the definition: for the walk one is given by sums, for the
decoder it grows with the code (`Decodes`).

Every invariant and every action property of a passing run is thus a theorem.
Only model-checked is liveness: `LockReleased`, `FlagIsTaken` and
`RetryUnlessStuck`, which rest on fairness and are out of the prover's reach.

What the theorems do not say. Four theorems about BackedBuffer exclude finding 3 by
assumption and finding 2 by speaking of the time before it; `RingBufferIsQueue`,
`ContentInOrder` and `SortedBufferIsQueue` are about callers that keep to one use
of the buffer; `FilesHaveOwners` about one constructing thread;
`MirrorsAreExact` excludes the files of finding 6, and `PathsAreTheSame` the bits
of finding 7, by naming them; `ManagedPointerFits` lets a failed allocation
end the program.

## 6. What is left

In the order of what it would add:

- Two threads in the constructor of TempFile, as a run of its own that shows what
  is said in section 4.
- Two BackedBuffers that are moved into each other.

## 7. Not modelled

- Moves of BackedBuffer: assignments one after the other, without failure or
  another thread in between. An `init()` whose `fs::file_size()` fails: the file
  would have to disappear after it was opened, which the class comment excludes.
- `operator=` of ResizableRingBuffer between buffers of different capacity: it reads
  slots that do not exist, or leaves pointers outside of its array. No comment
  says what it should do, and nothing in the repository calls it.
- Reading and writing files in `Buffer`, gzip and LZ4 in `Compressible`: single
  calls into the file system and third-party code.
- `Range`, `ByteView` iterators, `Bits`, `Formatter`, `Streams`, `Reflectable`,
  `Parser`, the loop of `Dumpable`: pure functions on values or text. A model of
  one would repeat its code; a table of cases tests it better.
- `makeUniquePath()` and the path functions of `Files`: strings, and a test
  that promises nothing to its caller. `Time` and `StopWatch`: an integer with
  formatting; `sleep()` is a call of the system.
- The application's locks: a delegate of the mailbox is called with the
  mutex held, so it must not wait for a lock whose holder may post a message.
- Text and logging, hashes and checksums (values, better tested against
  vectors), colours, images and floating point, identifiers and literals.
- Vendored code (zip, lz4, miniz, softfloat, JSON, HTTP), which is most of the
  lines of the repository.
