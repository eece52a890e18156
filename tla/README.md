# TLA+ models of the geco engine

This directory specifies the parts of the engine (`src/src/`) that keep state and
are hard to test: the timer queue and its callbacks, the timing wheels, the
lock-free queue between two threads, the pooled allocator, the bit stream, the static
linked list, the nested profiles and the tree of watchers. TLC checks each on a small
instance; TLAPS proves the safety properties of the timer queue, the timing wheels, the
queue of two threads, the allocator, the nested profiles and the tree of watchers for
every instance.

Paths below are relative to `src/src/`; `timer_queue_t.h:436` is a line of
`common/debugging/timer_queue_t.h`. `PROJECT.json` maps every definition that models
code to its lines, and lists the runs, the faults that show that each property bites,
the hazards with the properties that watch over them, the findings and the theorems.

## 1. Inventory

The engine is a C++ library. Nearly everything runs in one thread; what makes it hard
is code that calls back into the code that is calling it, structures that reuse their
memory, arithmetic on wrapping counters, and one queue shared by two threads. Nothing
is persisted and (outside the guarder, which does not link) no protocol is run over
the network.

### Parts that are modelled

**TimeQueueT, TimerHandler** (`common/debugging/timer_queue_t.h`). A priority queue of
heap-allocated nodes ordered by time, each PENDING, EXECUTING or CANCELLED.
State: `timeQueue_`, `pProcessingNode_`, `lastProcessTime_`, `numCancelled_`; per
node its time, interval, state and handler; per handler `numTimesRegistered_`.
Operations: `add`, `TimerID::cancel`, `process(now)`, `clear`, the destructor, `legal`,
the interval of a timer. A cancelled node stays in the queue; it is dropped when it
reaches the top, or when more than half of the queue is cancelled
(`purgeCancelledNodes`). `process` pops a node, calls `handleTimeout`, and pushes it
again if it repeats. *Hard*: `handleTimeout` and `onRelease` are client code that adds
and cancels timers, the one that is firing included; the count of cancelled nodes is
kept by hand in four places; node addresses are reused; time stamps wrap when a
repeating timer moves on. *Correct if*: no assertion fails, the count is exact, handles
that were not released are alive, every registration is undone once, a cancelled timer
never fires, timers fire in order, and calls return unless a time wraps to one that is
due.

**wtimers_t** (`common/ultils/geco-ds-wheel-timer.{h,cpp}`). Wheels of lists of timers,
a mask of non-empty slots per wheel, the list of expired timers, the current time.
Operations: `init`, `add_timer`, `stop_timer`, `update`/`step`, `get_expired_timer`,
`get_interval`, `reset`, `close`. *Hard*: which slot a time belongs to at a boundary of
a wheel, which slots a jump in time passes, the masks that must follow the lists, the
wait that must be neither too long nor zero. *Correct if*: masks and lists agree,
nothing is missed, nothing is early, waits are safe and make progress, a repeating timer
keeps its phase.

**spsc_queue_t** (`common/ds/spsc-queue.h`). A ring of bytes with two wrapping
`unsigned int` indices. Each of `push_back` and `pop_front` loops over *sample the
other's index, copy, publish the own index*. *Hard*: two threads, a ring
that wraps or has no room, indices that wrap. *Correct if*: the copies
never overlap, elements come out whole and in order, and full and empty are told apart.

**default_alloc** (`common/ultils/geco-ds-malloc.h`). Free lists by unit size, a pool
cut into units, and chunks from `malloc`. Operations: `allocate`, `deallocate`,
`reallocate`, `destroy`. *Hard*: the failure of `malloc` half way (a unit of another
list becomes the pool), left-over pieces, units of one list freed into another.
*Correct if*: every byte of every chunk has one owner.

**geco_bit_stream_t** (`common/ds/geco-bit-stream.{h,cpp}`). A buffer of bits with a
position to write at and one to read at, its memory in the object or on the heap, and the
Huffman code of `geco_string_compressor_t`. Operations: a pair of write and read for each
kind of field, `reset`, re-reading, padding, copying a stream into another, the stream a
receiver makes of the bytes. *Hard*: fields begin in the middle of a byte and what is
written is ORed into it, memory is never cleared, the buffer grows and moves in the middle
of a field, the reader must move by as many bits as the writer, whose number depends on the
value. *Correct if*: every field is read as it was written.

**arrlist** (`common/ds/arrlist.h`). Two chains (elements, free components) in one
array. Operations: `InitList`, `ListInsert`, `ListDelete`, `ListLength`. *Correct if*
it is a sequence.

**ProfileVal, ProfileGroup, ScopedProfile** (`network/networkstats.{h,cpp}`). A stack of
running profiles, and per profile a nesting count, a total and an "internal" time (that
of the profiles started meanwhile taken out). *Hard*: recursion, one field that is a
point of time while a profile is innermost and a duration otherwise, a reset in the
middle. *Correct if*: each stamp that passes is counted once where it belongs, and a reset
of a running profile spoils no other.

**Watchers** (`common/debugging/gecowatchert.{h,cc}`). A tree of directors, each an
ordered container of labelled children; values are added, removed and read by path,
and a query calls its requester back once per answer. *Hard*: paths through entries
that are not directories, failures that leave directories behind, two classes of
watchers with opposite return codes, a set that reads the value, in the watcher's own
type, before it knows whether it may. *Correct if*: a path names one watcher, a query of a
directory visits all that is in it, and a value that is answered as set is the value that
was asked for, if it had the type of what is watched.

### Parts that are not modelled

| part | why |
|---|---|
| `geco_malloc_ext` (`geco-malloc.cpp`) | planned on top of Allocator; `realloc` has no caller |
| `Profiler` (`networkstats.cpp:61`) | its constructor deletes the object under construction: no state after it is defined |
| statistics, `ema` | floating-point averages |
| run-length coding in `geco_bit_stream_t` | it writes its counts with `WriteMini` (section 5) and the count of a run wraps in an `unsigned char` |
| floats, vectors, addresses in `geco_bit_stream_t` | conversions of floating-point numbers; the rest is written with the operations that are modelled |
| the three-byte aligned fields of `geco_bit_stream_t`, ranged fields of no bits | the first swap the bytes of a `uint24`'s four and leave one out; the second read with `ReadBits`, which asserts that there are bits to read |
| watched strings, `bool`, floats and sequences; method watchers without a getter; the path a requester reads when notified | section 3, WatcherTree |
| `array_t` | sequential and without callbacks; planned as a refinement of a sequence |
| `geco_cmdline_t` | parsing of strings at start-up |
| guarder | its static members are defined nowhere, so it does not link: there is no program to be faithful to |
| network types, endpoints | value types, tables filled by constructors, wrappers of socket calls |
| base64, math, debug, timestamps, stack tracker, threads, singletons, platform | no behaviour of their own (pure conversions, output, readings of a clock, empty locks) |
| EASTL, spdlog, thirdparty, `gcc/timeout` | third-party code |

### How the parts interact

Client code drives every part by calls; the timer queue and the watchers call client
code back. The `TimerHandler` of the timer queue and the requester of a watcher query
are the only callbacks. Networkstats register their profiles as watchers and allocate
from the pool; the models keep them apart because the calls carry no state back. There
is no shared state but that of `spsc_queue_t`.

## 2. Plan

Done, most important first: `TimerQueue`, `WheelTimer`, `SpscQueue`, `Allocator`, `ProfileGroup`,
`WatcherTree`, `BitStream` (these with their proofs), `StaticList`; each with an abstract
specification where the code promises one.

Left:

1. `ArrayT`: `array.h` as an implementation of a sequence.
2. `MallocExt`: the size-prefixed blocks of `geco-malloc.cpp` on top of `Allocator`.
3. In `WatcherTree`, the functions that a function watcher calls, the requester's wait for
   an answer, and the watcher of a sequence.
4. Proofs: that `HuffmanCode` decodes what it encodes, for every table of frequencies.

## 3. Modules

### TimerQueue, TimerService, TimerQueueInv, and their proofs

The C++ call stack is the explicit sequence `frame[1..depth]`: a step of the model runs
up to the next place where client code gets control, so that callbacks interleave with
the queue as the code lets them. A frame says where its function stands: `process` at
the head of the loop, `fired` while a node is triggered, `timeout` and `release` in the
two callbacks, `clear` and `clearing`.

| model | code |
|---|---|
| `node[n]`, state `FREE` | the memory at address n; FREE: not allocated |
| `heap`, `IsTop`, `IsBack` | `timeQueue_`, `top()`, `unsafePopBack()`: any least element; any leaf |
| `numCancelled`, `processing`, `lastProcessTime` | the members of that name |
| `held` | handles clients may still use: added, `onRelease` not yet called |
| `failed` | the assertion, or use of a deleted node, that ended the run |
| `Add`, `SetInterval`, `Cancel`, `Process`, `Clear` | the calls of clients |
| `EndCancel` | the rest of `TimeQueueNode::cancel` after `onRelease`: `onCancel`, the purge |
| `ProcessDue`, `ProcessCancelled`, `TimeoutReturns`, `FinishFired`, `ProcessReturns` | `process` and `triggerTimer`, cut at the callbacks |
| `ClearCancel`, `ClearCancelled`, `ClearDelete`, `ClearReturns` | `clear`, cut at the callback |

`TopOps`, `TimeoutOps`, `ReleaseOps` and `ClearOps` say which calls clients make from
outside the queue, from `handleTimeout`, from `onRelease`, and from the `onRelease` that
`clear` calls: what a run assumes of its clients.
`CallbacksDoNotReenter` names the assumption under which the safety theorems hold: no
callback runs or clears the queue, and `onRelease` does not cancel. The engine neither
documents nor checks it; the run `timer_queue_release_cancels` shows that it is needed.
Times are numbers modulo `TimeMod` where the code adds to them (a repeating timer). When
that sum wraps to a time that is not past `now`, the timer is due again at once, and
`process()` may fire it for ever (the hazard at `timer_queue_t.h:722`): `WrapsToDue` is that
step, and `CallsReturn` says that every call returns if it and the additions of callbacks
stop. A timer that is late by several intervals and does not wrap is caught up with.

`TimerService` is what a client sees: timers are armed, fire in the order of their due
times, repeat one period later, and are gone as soon as they are cancelled. It knows no
cancelled nodes, no purges and no stack; `ImplementsService` says that `TimerQueue` is
that service.

### WheelTimer, WheelTimerProofs

One action per operation. A list of timers is the set of its members (`list[t]` is
`wtimer_t::pending`): `merge()` orders the expired list by address, so any expired timer
may be collected first. The masks are sets of slot numbers and their rotations modular
arithmetic. `step` is `update` at the current time plus a step. `GetInterval` is the
pure operator for `get_interval`.

### SpscQueue, Fifo, SpscQueueProofs

A pass of either loop is three steps, cut at the two memory barriers: sample, copy,
publish. The copies are byte by byte into the ring, so that a torn element would show.
The copy is one step: what two copies in progress at once could do to each other is what
`NoOverlap` excludes (it looks at the ranges between a sample and its publish). `Fifo` is
the bounded queue; a push takes effect when its index is published.

### Allocator, AllocatorInv, AllocatorProofs

Memory is a line of byte addresses and `malloc` returns fresh ones or fails, at every
call. `Allocate` and its helpers give the possible results of `alloc_units` with their recursion
written out; `destroy` may run when no pooled block is live, as its comment demands. When
`pools_` has no slot for a chunk, the code has counted it and made it the pool before it
calls `abort()`: `NewChunkUnslotted`, the last state of such a run.

`Partition` counts owners for each byte: the clients' units, the places of the free lists
(the same unit at two places would be two owners) and the pool each name their bytes, and
every byte of every chunk has exactly one.

### BitBuffer, HuffmanCode, BitCodec, BitStream, BitStreamProofs

`BitBuffer` is the memory as the set of the positions of its ones, the two positions,
and the operations every other is made of: `Grow`, `PutBits` (`PutByte` is one pass of its
loop, with its OR, its assignment and its right alignment), `GetBits`, single bits,
padding, and `Received`, the stream over the bytes of another one. `junk` says whether the
memory that `malloc` and `realloc` return is ones or zeros. `HuffmanCode` makes the tree
from a table of frequencies, as the code does with its ordered list, and the array of bytes
of a text. `BitCodec` is the kinds of fields, a `Put...` and a `Get...` each; a number is
given by its bytes, least significant first, as on the little-endian hosts the code runs on.
In `BitStream` the owner of a stream writes fields, reads them, reads them again, resets
the stream and uses it for another message, pads it, copies another stream into it, and
sends it to a receiver. Each of these is one action, whatever number of calls it makes,
because one thread runs them and nothing is called back.

Two faults of the code bound what the fields of the passing run may be. `WriteMini` loses
some values (section 5): the fields of `bit_stream` avoid them, and `bit_stream_mini` shows
them. `Write(stream, n)` copies more bits than `n` (the hazard at
`geco-bit-stream.cpp:873`): the bits asked for are checked, but as the next field would not
be where the reader looks for it, a copy ends its message; and as room was made for `n` bits
only, `Copy` is there when the buffer happens to have the room (`HasRoom`).

`IsField` is what an owner may write: values of their types (`HasType`), ranges with their
bounds in order, values in the range unless those outside are allowed, texts whose code is
whole bytes of bits and has a length that fits an unsigned int (TLC evaluates it for the
texts of the runs). `Lossless` is which of these should survive: no half byte
that `WriteMini` drops and `ReadMini` does not restore (`KeepsHalf`), for short integers, for
those outside a range and for the length of a text; and a text that its code decodes to. The
first part is an assumption that TLC evaluates for the fields of `bit_stream`; the second is
what the run would find violated (it is what the mutant of `Padding` breaks).

### StaticList, BoundedList

`data` and `cur` are the two fields of the array's components, `ListInsert` and
`ListDelete` with the `Malloc_SLL` and `Free_SLL` they call. `BoundedList` is a sequence.

### ProfileGroup, ProfileClock, ProfileGroupInv, ProfileGroupProofs

`val` is the record of each profile, `stack` the group's, `scopes` the open
`ScopedProfile`s; `now` the time stamp. `ProfileClock` counts each stamp once for every open
profile and once, as internal time, for the innermost.

`ProfileVal::reset()` has no guard, and `ResetVal` has none: a profile may be reset inside
its own scopes, the group's running time always is. Then `inProgress_` is 0 while scopes are
open and -1 or less when they have ended, so `running()` is wrong, and the times are taken
from zero. `lost` is the set of profiles whose last reset was inside one of their scopes; it
is no state of the code. What such a profile says of itself is what `RunningExact` and
`ImplementsClock` ask nothing about (the hazard at `networkstats.h:231`). They ask
that it never says to be running without an open scope, that no other profile loses a stamp
by it although they credit one another, that the assertion does not fail, and that a reset
outside its scopes makes it exact again.

`ProfileGroup::reset` is not an action: it starts the running time on top of the stack it
does not empty, so the next `stop()` of a scope that is open fails its assertion (the hazard
at `networkstats.cpp:505`).

### WatcherTree, WatcherTable, WatcherTreeProofs

`dirs` maps the path of each director to its ordered container; `AddWatcher` and
`RemoveWatcher` change it, `GetWatcherValue` and `VisitChildren` leave in `reply` whom the
query was notified of. The recursive walks of the code are quantifiers over the labels of
a path: `At` is what a path leads to, `Missing` the directors that `add_watcher` makes on
its way, and `MakeDirs` the tree with them, each with its entry. `SetWatcherValue` and
`SetFromString` change `value`, what the watchers watch; `Writable` are those that are not
read-only.

What is watched is the bytes of an integral type (`Contents`), and a query that sets carries
a type, a mode and the bytes of a value of that type (`Streams`). Four things of the code show
here.

- `set_from_stream` reads as many bytes as the watcher's own type has, whatever the type
  that came with them (`Read`): a longer value is cut, a shorter one is completed with what
  the memory behind it holds, which is any byte.
- A value watcher reads them into place, and looks at the type and the mode after that
  (`StoresValue`), so a set that is refused has been made.
- The type is only compared with `WT_DIRECTORY` (`Acceptable`), which is 3, as `WVT_UINT16`
  is: every set of a `uint16` is refused, and made; one of any other wrong type is answered as
  done. So `DoneIsDone` promises the value that was asked for only if the types agree, and
  otherwise the leading bytes (the hazard at `gecowatchert.h:796`).
- `WatcherSucceeds` is 0, which `set_watcher_value` takes for a failure: a value that was
  set is answered twice, and a refused one not at all (`DoneIsDone` says what the first answer
  is still worth).

A text sets any value of the type (`Converted`): what a stream makes of a text that is no
number, of one too large or of a letter is not modelled, and no property is about it.

Not modelled: watched strings, `bool` and floating-point numbers, whose values are not so
many bytes; method watchers without a getter, whose `get_as_stream` returns an error and
notifies nobody (`gecowatchert.h:1141`), so `Functions` have one; and the path that the
requester finds in the query: when a director notifies, it is its parent's again
(`gecowatchert.cc:261`). `reply.notified` names who notified, so `VisitsAll` says nothing of
what the requester reads there.

`WatcherTable` is a set of folders, a table from paths to watchers, and the values: it has no order and no tree. Empty labels before the last are left out
(`PathsAssumption`; see the hazard at `gecowatchert.cc:143`).

## 4. Runs

| run | shows | instance, and why it is enough |
|---|---|---|
| `timer_queue` | no assertion fails; the count of cancelled nodes, the handles and the registrations are right; cancel is final; the service is implemented; the inductive invariant `QueueInv`; every call returns, unless callbacks add timers for ever or a timer wraps, for ever, to a time that is due | three nodes, one handler, times modulo 4, a stack of 3; callbacks add and cancel, except while `clear` or the destructor cancels the timers. Three nodes are the fewest with a purge that leaves a node, drops one and has one executing. With `now` 0 or 2, a timer of interval 1 is late by several intervals and caught up with, one of interval 2 wraps and is due again for ever, and one whose interval its callback changes wraps and then gets past `now` |
| `wheel_timer` | missed timers, waits, phase; the inductive invariant `WheelInv` (masks and slots) | two wheels of four slots, two timers: both wheels wrap, timeouts below, at and above the wheel boundaries and above `TIMEOUT_MAX`; two timers share a slot or not |
| `spsc_queue` | no overlap, whole elements, a FIFO, no mutual waiting; the inductive invariant `SpscInv` | elements of two bytes and `nSize` 4, hence a ring of four bytes (`nSize` counts elements, but as four elements fill a power of two of bytes, `spsc-queue.h:26` leaves `m_nSize` at 4 bytes: two elements), indices modulo 8: full, empty, both indices wrap. The element's size divides the ring's; where it does not, elements are torn (the hazard at `spsc-queue.h:62`) |
| `allocator` | every byte has exactly one owner; blocks never overlap; the inductive invariant `AllocInv` | two free lists, units of 4 and 8 bytes, two cut at a time, 72 bytes in all: two chunks and the `abort()` when a third finds no slot in `pools_`, left-overs of a pool (a chunk is larger by a sixteenth of `heap_size`, rounded up, so that it is not whole units of 8), reuse of a unit of the larger list after `malloc` failed, blocks larger than any unit |
| `profile_group` | the assertion on the stack, `running()`, the times; the inductive invariant `ProfileInv` | two profiles, three scopes, five stamps: recursion at once and through the other profile, and resets of every profile at any time, inside its scopes and outside |
| `bit_stream` | every field is read as it was written; reader and writer move alike; the rest of the last byte is zeros | bytes of four bits, an object of two bytes, a doubling limit of four: a message of three fields moves to the heap and grows past the limit. One field of each kind and case: flags set and not, whole and half last bytes, negative numbers, values in a range, at its edge and outside it, texts that need padding and that do not; two streams to copy, from an aligned and from an unaligned bit; clean and dirty memory |
| `watcher_tree` | the directors form a tree with labels in order; the tree is a table; queries visit all; what is answered as set is set | two watchers, an `int16` and a read-only `int8`, bytes of two values; values sent of the right type, a shorter, a longer and another one of the same size (`WVT_UINT16`), and of the wrong mode; nine paths of up to three labels, some ending in a slash; each watcher may be at several paths |
| five `violation` runs | section 5 | the smallest instance that shows it |

A byte of four bits keeps all that the code of the bit stream does with a byte (halves,
alignment, shifts) at a sixteenth of its values; `bit_stream_mini` has bytes of eight.

Bounds: `MaxDepth` and `MaxRegistered` (timer queue), `MaxTime` and `MaxExpires` (wheels:
the current time and the due times), `MaxBlocks` and `MaxMemory` (allocator), `MaxTime`
and `MaxScopes` (profiles), `MaxWrites` (bit stream: fields over all messages). Each is a guard; the values make the interesting cases occur,
as the seeded faults show: for each property, a plausible fault in a definition (a
dropped count, an order, a reset or a limit left out; the definitions named
`...Without...`, `...Unless...`, `...Always`) makes the run fail.

`CHECK_DEADLOCK FALSE` stands where a run stops at a bound, or where the model stops as
the program does after `abort()` or a failed assertion.

*Symmetry.* Nodes, handlers, timers and profiles are only compared for
equality, so runs of invariants and action properties permute them. Runs of liveness
properties (`timer_queue`, `spsc_queue`) do not, nor do those of the watchers, one of
which is read-only.

*Fairness.* `TimerQueue!FairSpec`: a call in progress runs on (weak fairness of
`QueueStep`: one thread, no blocking); a callback that was entered returns, though it may
call the queue any number of times before (strong fairness, since the calls it makes
disable the return). `SpscQueue!FairSpec`: each thread goes on with the loop it is in;
nothing obliges a thread to push or pop. Other runs check safety only.

## 5. Findings

| run | the code |
|---|---|
| `timer_queue_release_cancels` | `cancel()` marks its node and calls `onRelease` before `onCancel()` counts it. An `onRelease` that cancels another timer may purge the node that was not counted: `numCancelled_` leaves {0, 1} and the assertion of `timer_queue_t.h:461` fails |
| `wheel_timer_early` | `update()` expires every timer of a slot it passes, also on a higher wheel, whose timers are due up to two of its ticks later; the test expects none to be early (`src/unittest/test-time.cc:457`) |
| `static_list_delete` | `ListDelete` links over the component numbered `pos` instead of the `pos`-th one (`arrlist.h:106`) |
| `bit_stream_mini` | `WriteMini()`, "lossless" (`geco-bit-stream.h:675`), writes half of the last byte when the other half is 0000 or 1111, and `ReadMini()` puts 0000 back for unsigned types and 1111 for signed ones: 0xF5 is read as 0x05, -251 as -11, and a string whose code has 240 to 255 bits as the empty string |
| `watcher_tree_functions` | the visit of a directory ends at the first function watcher, whose success is 0 (`gecowatchert.cc:58`) |

`StaticList` therefore has no passing run: its deletion is the code's, and wrong.
`Allocator`, `SpscQueue` and the rest were found right in what the runs ask.

## 6. Proofs

`TimerQueueProofs` proves, for any number of nodes and handlers, any times, and any
depth of the stack:

- `TypeCorrect`: `Spec => []TypeOK`, with no assumption on clients.
- `CancelNeverUndone`: a cancelled node is only ever deleted (`CancelIsFinal`), with no
  assumption on clients either: what the code does after a callback looks at the node's
  state again and never at what it knew before.
- `NoAssertionEverFails`, `CancelledCountCorrect`: if `CallbacksDoNotReenter`, no
  assertion fails and `numCancelled_` is exact between calls.

They assume `ConstantsAssumption` of `TimerQueue` (finite sets of nodes and handlers, a
positive modulus, times and intervals below it), which the runs evaluate.

Neither `NoAssertionFails` nor `CancelledCountExact` is inductive. The assertion in the
purge looks at `numCancelled_` minus the cancelled nodes it removed; so the count must be
known in the middle of calls too. `SafeInv` (in `TimerQueueInv`, a conjunct of the
`QueueInv` that `timer_queue` checks) says

- `StackShape`: which frames can be on top of each other;
- `NodePlaces`: a pending node is in the heap; an executing one is that of the `fired`
  frame at the bottom, and in no heap;
- `CountInv`: `numCancelled_` is the number of cancelled nodes in the heap, plus one if
  the node that fires was cancelled, minus one while `onRelease` of a cancel runs;
- `HeldNotCancelled`: a node whose handle is held is not cancelled, so that a handle is
  never cancelled twice.

There is one lemma for each action (`SafeAdd`, `SafeCancel`, ...), `SafeNext` puts them
together, and the theorems follow by temporal reasoning. `SafeEndCancel` is the core: the
purge brings the count back to 0 or 1, whichever the node that fires accounts for.

`TimerQueueProofs` also proves what clients rely on, if `CallbacksDoNotReenter` and
`ClearIsComplete` (no timer is dropped without a cancel, none is added while `clear`
cancels): `AlwaysAtMostHalfCancelled`, `AlwaysHandlesAreLive`, `RegistrationsAlwaysExact`,
`LegalAlwaysExact`, and `QueueImplementsService`, that the queue implements
`TimerService`. They follow from `AlwaysQueueInv`: to `SafeInv`, `QueueInv` adds
`ServiceInv`, that is

- `HeldInv` and `RegistrationsExact`: the handles are those of the nodes that wait or
  execute, and each is registered once;
- `HalfInv`: the bound on cancelled nodes, which a node that `process()` holds shifts by
  one, and which does not hold between the two halves of a cancel or while `clear` runs;
- `ClearInv`: `clear` has a cancel left for each live node in the heap, so that it deletes
  none without `onRelease`;
- `ProcessingInv`: which node `pProcessingNode_` is while a callback runs;
- `FiredRepeats`: a timer that goes back on the heap has an interval.

Again one lemma per action. For the refinement, `Invisible` says that a step which changes
only nodes that are not live changes nothing the service sees (late deletion, the purge,
the end of a cancel), and `ReleaseDisarms`, `DueFires`, `FiredRearms` and the others that
each remaining step is the service's.

`ProfileGroupProofs` proves, for any number of profiles, any depth of the scopes and any
time, all that the run `profile_group` checks: `ProfileTypeCorrect`,
`AssertionNeverFails`, `RunningIsExact`, and `ProfilesKeepTheClock`, that `ProfileGroup`
implements `ProfileClock`, for resets of any profile at any time. They assume `ConstantsAssumption` of `ProfileGroup`: the
running time is none of the clients' profiles, the bounds are numbers.

A sum of differences stays within the time that has passed only if each profile's parts
do not overlap, so the types are not inductive alone. `ProfileInv` (in `ProfileGroupInv`)
adds `StackMirrorsScopes` (the group's stack is the running time and the open scopes, so
`stop()` finds its profile on top), `NestingExact` (the nesting counts the open scopes, so
that the outermost `stop()` is known; of a profile in `lost` it is at most their number)
and `TimesBounded` (what was measured before the last start fits before it). `StartedEffect` and `StoppedEffect` say what `start()` and
`stop()` make of each profile, also when the profile credited and the one started are the
same; `StartKeepsMeasured` and `StopKeepsMeasured` that the time measured so far, what is
in progress included, does not change; one lemma for each action (`StartStep`, ...) keeps
the invariant and gives the step of the clock.

`AllocatorProofs` proves, for every granularity, any number of lists, any sizes and any
memory, all that the run `allocator` checks: `AlwaysTypeOK`, `AlwaysBlocksApart` (no two
blocks that clients hold share a byte), `AlwaysPartition` (every byte of every chunk
has exactly one owner) and `AlwaysAllocInv`. They assume `ConstantsAssumption` of
`Allocator` (positive sizes, a positive granularity). `BlocksApart` is not inductive: the next block comes from a free
list, from the pool or from `malloc`. `AllocInv` (in `AllocatorInv`) says that units in
use, free units, the pool and the memory that `malloc` has not given yet are apart, each
with the bytes it is rounded up to, and that the pool is a whole number of granules
(`PoolAligned`): only then does the left-over that goes to a list have the size of that
list's units. `Sound` is that for a heap and a set of blocks, and `Unused` says of some
bytes that nobody has them. The lemmas are the moves between the two: a unit is popped
(`PopSound`) or pushed (`PushSound`), bytes become a block (`Handed`) or a block unused bytes
(`Taken`), the pool is given up (`PoolGone`), set (`PoolSet`) or cut (`CutSound`), and the
units that were cut become a list (`ListSound`). Each operation is a sequence of such moves
(`ExtendedSound`, `BuiltSound`, `AllocatedEnds`, `ReallocatedEnds`, ...), whatever `malloc`
refused on the way. `RoundUpSum` and its neighbours are the arithmetic of `round_up`.

That no byte is lost is the other half of `AllocInv`: `Covered` says that the bytes of units
in use, free units and the pool are those of the chunks, and that `heap_size` counts them.
`Owned` names these bytes, and one lemma for each move says what it does to them
(`OwnedPushed`, `OwnedPopped`, `OwnedListed`, `OwnedHanded`, `OwnedTaken`, `OwnedPool`);
`CutBytes` says that the units cut off a pool and the rest make up the pool. So each
operation keeps `Whole`, that is `Sound` and `Covered` (`BuiltCovered`, `NewChunkCovered`,
`ReuseCovered`, `DeallocatedWhole`, ...), also when it fails: `throw` gives up a pool whose
left-over is on a list. After `abort()` the chunk that found no slot is the pool, counted in
`heap_size`, and in no slot: `AllocInv` says `Covered` of the heap with that chunk in a slot
(`Recorded`, `UnslottedSound`).

`Partition` follows (`PartitionHolds`): an owner is a client's unit, a free unit or the pool
(`OwnerKinds`), two of them have no byte in common, whether they are of the same kind or not
(`OwnersApart`), and together they own the chunks (`OwnersOwn`). So each byte has an owner,
and one only.

`WheelTimerProofs` proves, for any number of wheels of any size, any timers and any times,
all that the run `wheel_timer` checks: `AlwaysTypeOK`, `NothingEverMissed`, `PhaseIsKept`,
`IntervalAlwaysSafe` (if there are at least two wheels), `IntervalAlwaysAccurate` and
`AlwaysWheelInv`. They assume `ConstantsAssumption` of `WheelTimer` and
`PowersAssumption`, what exponents of two add up to: the provers know no exponentiation,
so the module states it as an assumption about its constants, and TLC evaluates it. With
one wheel a timer that is due in exactly one turn is in the current slot, and
`get_interval()` returns 0: hence the two wheels.

That no timer is missed is not inductive, as `update()` looks at the masks and at slots
only. `WheelInv` says that the masks mark exactly the lists that are not empty
(`BitsExact`); that a timer is in the slot of its expiry, that this tick is still to come,
and within a turn unless the wheel is the last (`PlacesExact`); and that only a repeating
timer has an interval (`IntervalsRepeat`). `DivIs` and `ModUnique` (of `Numbers`) are the
arithmetic of slots; `ScheduleKeepsBits`, `StopKeepsBits` and `UpdateKeepsBits` keep the masks.
`SweepsWhatIsDue` is the core: if the tick of a slot passes, `update()` sweeps the slot
(`PassedAre`, also when the wheel turned more than once), and it gets as far as that wheel,
because each lower wheel passed its slot 0 on the way (`TickIsReached`). For the waits,
`DistanceOfTimer` relates the distance of a marked slot to the ticks its timers have left.

`SpscQueueProofs` proves, for elements and rings of any size and any width of the indices,
`AlwaysTypeOK`, and, if the ring holds whole elements (`ElementsFit`), `AlwaysSpscInv`,
`NeverOverlaps` and `RingImplementsFifo`, that the ring implements `Fifo`. Without
`ElementsFit` elements are torn (the hazard at `spsc-queue.h:62`). They assume
`ConstantsAssumption` of `SpscQueue` and `PowersAssumption`: the sizes are positive, and the
range of an index is a number of rings, which follows from both being powers of two.

Neither the order of the elements nor `NoOverlap` is inductive: a thread acts on a sample
that is old when it copies and publishes. `SpscInv` says

- `IndicesExact`: the indices are at elements, and what is between them fits in the ring;
- `PassesWhole`: a pass copies a whole element or nothing, and there is still room for it,
  or still that much to take, whatever the other thread published since the sample;
- `ElementsWhole`: what is between the indices is elements that were pushed;
- `CopiesExact`: a copy that is not published is that of the element pushed, or of the
  oldest one in the ring;
- `OperationsOpen` and `PopsWholeElement`: a thread has an argument while it is in its
  operation, and what was popped is an element.

As the indices are at elements, no copy wraps (`NoWrap`), so the code that copies the rest
to the start of the ring only ever copies nothing. `PushCopied` is the core: the copy leaves
the bytes between the indices alone, as places less than a ring apart are different bytes
(`ModApart`), also when an index wrapped (`WrappedIs`). For the refinement, a copy is
invisible (`CopyIsInvisible`), and publishing adds the element last or takes the first away
(`PublishPushes`, `PublishPops`). `Numbers` holds the facts about quotients and remainders
that these proofs and those of the wheels need.

`WatcherTreeProofs` proves, for any watchers, values and paths, all that the run
`watcher_tree` checks: `AlwaysTypeOK`, `AlwaysTreeInv`, `AlwaysDoneIsDone`,
`AlwaysVisitsAll`, and `TreeImplementsTable`, that `WatcherTree` implements `WatcherTable`.
They assume `WatchersAssumption` (every watcher has a type with a width, and 0 is a byte),
`StreamsAssumption` (a query carries a value of the type that it names), `KindsAssumption`
(directors and NULL are no watchers) and `PathsAssumption` (a path that is added has no
empty label before its last). `AlwaysVisitsAll` says `VisitsAll` of the states in which no
watcher in the tree has a function (`NoFunctionIn`): a visit ends at one that has, which is
the finding of `watcher_tree_functions`.

`TreeInv` is what makes the search and the hand-made insertion right: labels in a container
are strictly in order (`LabelsInOrder`), every director has its entry in the one above
(`DirsAreEntries`) and every such entry its director (`EntriesAreDirs`), and all directors on
the way to one are there (`WaysAreDirs`). With the last of these it is inductive, and its
proof needs no induction over the depth of a path. `PlaceIs` finds the place of a new label;
`InsertIs` and `RemoveIs` say that an insertion and a removal keep the order and change one
entry; `FindIs` that the first match of a label is the only one. `AtIs` reduces a walk to its
last step, and `WhatIsAt` says what a path leads to in terms of entries. `MadeIs`,
`MadeTree`, `AddedTree` and `RemovedTree` are the operations: directors made on the way
leave a tree, whether or not the watcher is then added; a watcher under a free label leaves
a tree; so does the removal of an entry with all that is below. For the refinement,
`TableIs` says that the table has exactly what the paths lead to, `AboveIs` that the
directors that are missing are the folders the table makes, `BlockedIs` that their parent is
reached if and only if no watcher is in the way, and `NothingBelow` that a path that leads to
nothing has nothing below it, so a removal that finds nothing may do nothing.

`VisitsAll` does need one: the answers of a visit are computed by recursion over the
directors below. The tree has an end (`Bounded`, which every step keeps: `WithWatcherBounded`),
so the answers exist (`VisitsExist`, from the deepest directors up, by `UpTo` of `Numbers`),
and those of each director enumerate all that is below it, without repetition (`AnswersAre`).
One level of it is `VisitIs`: what is below a director is the union of what is below it
`Through` each entry (`BelowThrough`), these differ in their first label as labels differ
(`ThroughDiffer`), and lists without a common element, one after the other, enumerate the
union (`FlattenLists`).

`BitStreamProofs` proves, for any fields, any streams to copy, any sizes to pad to, bytes of
2, 4 or 8 bits, and any size of the object's memory, of an unsigned int and of the step of
growth, all that the run `bit_stream` checks. `AlwaysTypeOK` needs no more than the
assumptions of the modules: `BufferAssumption`, `HuffmanAssumption`, `CodecAssumption` and
`FieldsAssumption` (every field is one that an owner may write, `IsField`).
`AlwaysReadsWhatWasWritten`, `AlwaysPositionsAgree` and `AlwaysTailIsZero` are about owners
who write what survives: they assume that every field is `Lossless`, which is all that
`bit_stream_mini` shows to be needed, and no more than the run's fields meet. What they leave
to the run is that a text is what its own code decodes to: a fact about every tree that
`HuffmanCode` makes, which would need an induction over its construction.

That fields are read as they were written is a fact about two calls that may be any number
of others apart. It is made of facts about one call each:

- A writer of the buffer `Appends` bits at known offsets: it keeps every bit before, has
  room for what it writes, and, if the rest of the byte that was begun is zeros (`Clean`),
  puts those bits and leaves the rest of the last byte zeros. `PutByteIs` is one pass of
  `WriteBits`, with its OR into the byte that was begun and its assignment of the next;
  `GrowIs` the move to the heap; `PutBitsIs`, `PutBitIs`, `PutZerosIs`, `PadIs` the writers. The
  loops are recursive functions, which exist by `IteratesExist`.
- A reader of the buffer gets the bits it passes and no others (`GetBitsBack`, `GetBitsSame`).
- A number is what its bytes add up to (`ByteOfValue`, `NumberOfBytes`), and its low bits are
  its remainder (`NumberOfLow`).
- So each kind of field is written behind what is there (`Follows`), and a reader who stands
  where it was written gets its value and stops where the writer did (`Reader`, `Result`):
  `IntRead`, `AlignedRead`, `ChangedRead`, `MiniRead`, `RangedRead`, `RunRead`, `StringRead`,
  `CopyRead`; `FieldFollows` and `FieldRead` put them together. The core is `MiniRead`: the
  bytes that `WriteMini` leaves out are those that `ReadMini` puts back, and so is the half
  byte, if `KeepsHalf`.
- `Shows` says that the bits between two positions are a field, to every reader: it depends
  on these bits only (`ShowsSame`), so whatever keeps them keeps it.

The inductive invariant is `TypeInv` (what is stored is in the memory, the bookkeeping is in
range) with `LayoutInv`: there are positions, one for each field of the script and one for
its end, such that each field is shown between its own and the next (`Shown`), the reader is
at the position of the field that it reads next, the end is the writer's while the stream is
open, and only zeros follow it until bits of another stream are copied. `TypeInv` is proved
without it, from what readers do whatever they find (`GetMoves`).

Only model-checked: liveness (`CallsReturn`, `SomeoneReturns`), which is out of the reach of
these provers; and that the texts of `bit_stream` are what their codes decode to.

## 7. Checking

    tlc -config MCTimerQueue.cfg MCTimerQueue
    tlapm TimerQueueProofs.tla
    tlapm ProfileGroupProofs.tla
    tlapm AllocatorProofs.tla
    tlapm Numbers.tla
    tlapm WheelTimerProofs.tla
    tlapm SpscQueueProofs.tla
    tlapm WatcherTreeProofs.tla
    tlapm BitStreamProofs.tla

Runs take from a second to two minutes. A run's configuration names the MC module it
goes with in `PROJECT.json`.
