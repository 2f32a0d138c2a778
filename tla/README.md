# The malloc lab in TLA+

Specifications, model-checking configurations and machine-checked proofs for
the CS:APP malloc lab in this repository: a simulated heap (`memlib.c`), three
allocators on it (`mm-firstfit.c`, `mm.c`, `mm2.c`), the driver that judges an
allocator (`mdriver.c`) and the timing packages it uses (`fcyc.c`, `clock.c`,
`ftimer.c`, `fsecs.c`).

Everything is sequential: one process, no threads, no messages, nothing kept on
disk. What is hard is the *pointer arithmetic over long sequences of legal
calls*, memory that keeps stale tags and data, limits, and a judge that has to
agree with what it judges. The one thing that happens asynchronously is the
timer interrupt, between two instructions of `clock.c`.

## 1. Inventory

**memlib** (`src/memlib.c`, `config.h`). State: `mem_start_brk` and
`mem_max_addr` (fixed by `mem_init`) and `mem_brk`. Operations: `mem_sbrk`,
`mem_reset_brk`, queries. Used by the allocators (to grow) and by the driver (to
reset the heap, and as the bounds of its tests). Hard: the limit is tested on a
pointer sum that may wrap round; a `size_t` arrives in an `int` parameter.
Correct when: a byte is handed out once, the break stays inside the area, and only
`mem_reset_brk` moves it down.

**mm-firstfit** (`src/mm-firstfit.c`), the complete allocator. State:
the words of the heap; no list other than the headers themselves. Operations:
`mm_init`, `mm_malloc`, `mm_free`, `mm_realloc`; inside them `find_fit`, `place`,
`extend_heap`, `coalesce`. Hard: neighbours are found through tags that may be
stale; splitting at a boundary; four cases of coalescing at the edges of the heap;
`memcpy` of a block *with* its tags; exhaustion of the area; a second pass over
memory the first one left behind. Correct when: the list of blocks is sound in
every state, payloads never overlap and keep what was written, nothing leaks, no
two free neighbours remain, and every call returns.

**The allocator interface** (`src/mm.h`, `TODO.md`, the tests of
`eval_mm_valid`): what a client may rely on, whichever allocator is linked.

**mm** (`src/mm.c`), segregated lists with reallocation tags, as submitted. It
does not compile as it is (`ptr` on line 224 is undeclared). State: 20 list heads,
and the heap, whose free blocks hold their links in their payload areas and
whose tags carry a third bit that reserves a block for a neighbour's next
`mm_realloc`. Hard: the search of `mm_malloc` halves the size without ever going on
to the next list; insertion, deletion and search each find the list of a size on
their own; a tag survives its owner unless someone takes it away. Correct when:
a call returns, the lists hold exactly the free blocks, tags have owners, data
survive.

**mm2** (`src/mm2.c`), an explicit list, unfinished: `mm_free` is empty,
`mm_realloc` and `coalesce` return `NULL`, and the first `mm_malloc` calls
`mm_check`, six loops over blocks and links, of which the third follows a
successor pointer nobody has written. Correct when: the checker returns.

**mdriver** (`src/mdriver.c`). State: the trace in memory, `trace->blocks` and
`trace->block_sizes`, the range list, `total_size` and `max_total_size`, the
number of errors, and the verdicts in `mm_stats`. Operations: `read_trace`,
`add_range`, `remove_range`, `eval_mm_valid`, `eval_mm_util`, `eval_mm_speed`, with `-l`
`eval_libc_valid` and `eval_libc_speed`, and the two loops of `main`. It calls the allocator and memlib, and (for the speed) fsecs. Hard:
it stops in the middle of a trace when it complains, and the next trace must see
nothing of that; pointers of freed blocks and of earlier evaluations remain in
`trace->blocks`; interval tests; comparison of `char` with a byte value. Correct
when: an allocator is blamed exactly when it deserves it, and the figures agree with
what it did.

**fcyc** (`src/fcyc.c`). State: seven parameters, the cache buffer, the array
of the k smallest samples and their count. Hard: more than k or fewer than k samples,
k larger than the limit, parameters and buffer that outlive a measurement.
Correct when: the array is what it says, and sampling stops when it should.

**clock** (`src/clock.c`). State: `cyc_hi`, `cyc_lo`, `start_tick`,
`cyc_per_tick`. Hard: borrow between words; interrupts that
fall between two readings. Correct when: the cycles and the ticks are those of the
interval that is measured.

**ftimer, fsecs** (`src/ftimer.c`, `src/fsecs.c`). No state of their own
that lasts, as they are compiled here (`USE_GETTOD`): `fsecs` runs its argument ten
times. **traces**: data. **`#mdriver.c#`**: an editor's copy, not built.

## 2. The modules

```
Memlib ──┬── MemlibClient ── MCMemlib
         │        └───────── MemlibProof
         ├── FirstFit ── FirstFitProps ──┬── MCFirstFit ──┐
         │      (AllocContract, by a     └── FirstFitInv ─┴── MCFirstFitInv
         │       refinement mapping)            └── FirstFitLemmas ── FirstFitProof
         ├── Driver ── DriverProps ──┬── DriverOnFirstFit ── MCDriver
         │                           │    (FirstFit, by INSTANCE)
         │                           └── DriverProof
         ├── SegFit ── SegFitProps ── SegFitInv ──┬── MCSegFit
         │                (FirstFitInv, by INSTANCE) └── SegFitLemmas ── SegFitProof
         │                                          (FirstFitLemmas, by INSTANCE)
         └── ExplicitList
Fcyc ── FcycProof     Clock ── ClockProof
```

In all of them a definition `X_slip` is **not** the program: it is what a
plausible slip in the code would make of `X`, the definition next to it; with it in
place of `X`, a property is violated, which shows that the property says something.

**Memlib** is a component without a specification of its own: the operators on
`mem_brk`. `WORD_MOD` stands for 2^32 (the Makefile builds with `-m32`); addresses
and `size_t` are numbers below it and sums of pointers are taken modulo it.
`MemlibClient` calls it in any order with any `int`.

**FirstFit** models the heap *word by word*: `mem[a]` is the 32-bit word at `a`,
whether the allocator wrote it as a tag or the client as data. The macros
(`GET_SIZE`, `HDRP`, `FTRP`, `NEXT_BLKP`, ...) are operators on that memory, and
`coalesce`, `place`, `extend_heap` and `mm_free` functions from memory to memory that
write the same words in the same order as the code. A call is several steps:
entry (`mm_malloc`, `mm_realloc`), the loop of `find_fit` (one step per turn), `extend`
or `extend_fails`, `place...`, `copy_and_free`. `mm_free` and `mm_init` are one step
each. The client's part is that of `eval_mm_valid`: `fill` writes the low byte of
the index into the payload and remembers pointer and size. The client keeps to the
interface: it frees and reallocates what it holds. So `mm_realloc(NULL, n)`, which
the code does not handle although `TODO.md` asks for it, is not called (nor does the
driver do so). `exit(1)` in `mm_realloc` is the state `"exit"`.

| code | state or action |
|---|---|
| contents of the area | `mem` |
| `bp`, `size`, `asize` of the call under way | `bp`, `call` |
| `trace->blocks`, `trace->block_sizes` | `blocks`, `block_sizes` |
| `mem_reset_brk` + `mm_init` before each pass | `mm_init` |
| `mm_malloc(size)` | `mm_malloc`, `find_fit_*`, `extend`, `place_and_return`, ... |
| `mm_realloc(ptr, size)` | `mm_realloc`, `find_fit_*`, `extend`, `place_for_realloc`, `copy_and_free` |
| `mm_free(bp)` | `client_free` |

**AllocContract** is the abstract specification: the payloads a client holds, with the
words in them, and what `Grant`, `Resize`, `Release`, `Write` and `Restart` may do to
them. `FirstFitProps` maps FirstFit to it: a block counts as held from the moment
its pointer is returned.

**Driver** models the driver with an allocator behind `mm.h`, chosen at the
beginning (`allocator`): with `"any"`, `Answer` may return any pointer of `Pointers`;
with `"honest"` it keeps to the interface. Payload data is
one bit per `mm_realloc` ("the data was kept"). Each operation of a trace is one
action, per evaluation: `valid_malloc`, `valid_realloc`, `valid_free` with the range list;
`util_*` with the totals; `speed_*`; and `libc_*` for the replay on libc that comes first
with `-l` (`libc_left` is the number of traces still to be replayed there, 0 without the
option). libc's allocator is always honest. Traces are `InOrder`: they allocate a block that is not in
use, and reallocate and free one that is, as all traces of the repository do (`TracesInOrder`). The blocks
in use before a line (`InUse`) are the reference for the range list, the totals and the
calls; nothing in the driver knows them. `read_trace` ends in `"assert"` when one of the two
assertions at its end fails, or in `"crash"` when the file has more lines than its header announces
(`Overruns`): they are written behind `trace->ops` (`mdriver.c:533`), and what that destroys may be noticed
before the assertion looks. A file that cannot be opened, or a line of no known type, ends the
program (`read_trace_exits`). `app_error` (and `exit`) is the state `"exit"`.

**DriverOnFirstFit** is the composition, the program as the Makefile can build it: where
`allocator` is `"mm-firstfit"`, the answers, the growth of the heap and the fate of the data the
driver wrote are computed by the routines of FirstFit (`INSTANCE`), on one memory that goes
through all three evaluations of a trace. A call is one step here, the
driver being blocked while it lasts; FirstFit takes it apart. `FirstFitIsHonest` says that every
step of that program is a step of the driver with the honest allocator, so that what the
driver promises about honest allocators holds of mm-firstfit without an assumption about it.

**SegFit** models `mm.c`, all routines, word by word like FirstFit, and reads the undeclared
`ptr` as `bp`. `ListStep` is what a turn of the search adds to `list`: 0 is the file as it
stands, with which no call of `mm_malloc` returns; with 1, which is what the comment over the loop
describes, the routines behind it are reached: `insert_block`, `delete_block`, `place`,
`coalesce` with the tags, `extend_heap`, `mm_free`, `mm_realloc`. Behind the search the model follows
the program up to three points at which it goes wrong for good, and names them in `ruined`:
`"tag"`, when `coalesce` meets a tagged free block before and an allocated one behind and falls into the
case that merges all three (`mm.c:455`); `"words"`, when `mm_realloc` hands `extend_heap` bytes where it
expects words, or gets an area that is not behind its block (`mm.c:286`); `"NULL"`, when
`mm_realloc` does not look at the answer of `mm_malloc` (`mm.c:297`). The properties are about what precedes; only
`ReallocKeepsData` also looks at the block `mm_realloc` returns after `"words"`.
Other things the model shows, which break no property: `mm_realloc(p, 0)` answers `NULL` and keeps the
block; `insert_block` never sorts a list by size, since the size it compares with has been halved to
1; two untagged free neighbours may remain side by side; and `memmove` copies the number
of bytes asked for, also when the old block is smaller, so that it reads behind it.

**ExplicitList** models what runs of `mm2.c`: `mm_init`, and the first `mm_malloc` with the loops of
`mm_check`, one turn a step. It faults in the third loop. (On a heap it could walk
it would answer 0 for "consistent", where `TODO.md:58-59` asks for a nonzero value.)

**Fcyc** models all seven settings, `init_sampler`, `clear`, `add_sample`,
`has_converged` and the loop of `fcyc`; `epsilon` counts hundredths instead of being a
double. **Clock** models the counter as two words of `WORD` values (or one, in the
version for the Alpha; `machine` is the version that was compiled), real time and the
ticks of user time, with a step of time between any two readings, be they of the counter or of `times()`, in
`callibrate` too (`callibrate`, `first_look`, `look`, `look_at_ticks`: one reading each).

## 3. What is checked

| run | module | what it shows |
|---|---|---|
| `MemlibLow` | MCMemlib | `mem_sbrk` with every `int`, in any order: `AreasDisjoint`, `HeapIsHandedOut`, `HeapNeverShrinks` |
| `FirstFit` | MCFirstFitInv | two passes on the same memory: `HeapConsistent` (what `mm_checkheap` looks for, and no two free neighbours), `AllocatedIsHeld` (nothing leaks), `LowestFit` (first fit, and refused only if nothing fits), `PayloadsDisjoint`, `PayloadsInHeap`, `PayloadIntact`, `CopyAreasApart`, `CallsReturn`; `ImplementsContract`, which includes that `mm_realloc` keeps the data; and `IInv`, on which the proofs rest and which holds the types |
| `Driver` | MCDriver | with each of the three allocators: `NoFalseAlarm`, `CallsAreLegal`, `TotalIsInUse`, `UtilAtMostOne`, `RangesTrackBlocks`, `RangesSound`, `ErrorsAreInvalidTraces`; and `FirstFitIsHonest`, of the two linked |
| `FcycKBest` | Fcyc | `ValuesAreBest`, `StopsWhenConverged`, `NoSampleTooMany`, `BufferFits`, `Measured` |
| `ClockBoth` | Clock | `CountsCycles`, `CostIsSmallest`, `TicksCovered` |
| `SegFitLists` | MCSegFit | `mm.c` with `ListStep = 1`: `BlocksTileHeap`, `ListsHoldFreeBlocks`, `TagsHaveOwners`, `PayloadIntact`, `ReallocKeepsData`, `FoundOnFirstList`, `SearchEnds` |
| `FirstFitReallocZero` | MCFirstFit | *violated*: `mm_realloc(p, 0)` ends the process instead of freeing `p` |
| `FirstFitHugeRequest` | MCFirstFit | *violated*: a request near 2^32 wraps round and gets a block of no size |
| `DriverOverlap` | MCDriver | *violated*: `add_range` accepts a payload that contains an older one |
| `DriverHighIndex` | MCDriver | *violated*: a correct `mm_realloc` of a block with an index of 128 to 255 (modulo 256) is blamed |
| `SegFitMalloc` | MCSegFit | *violated*: the search of `mm.c`'s `mm_malloc`, as it stands, does not end |
| `ExplicitListMalloc` | ExplicitList | *violated*: the first `mm_check` of `mm2.c` does not return, it faults |

What the disagreements are, line by line, is in the `findings` of `PROJECT.json`. Three more
came up in modelling and have no run: on the Alpha `get_counter` borrows from a
high word that does not exist, so that a measurement during which the counter passes
zero is off by 2^64 (`clock.c:128`; `CountsCycles` says exactly where it is right);
`traces/coalesceCase3.rep` and `coalesceCase4.rep` announce fewer requests than they have,
so that `read_trace` writes behind its array (`mdriver.c:533`) and then, if it gets that far, fails its
assertion (`mdriver.c:560`; both are among the traces of the `Driver` run, and so is one whose header
announces too few blocks); and when the area lies
in the upper half of the address space, `mem_brk + incr` in `mem_sbrk` can
wrap round, pass the test and move the break *down* (`memlib.c:62`; no call the
allocators make for the traces comes near it, and the theorems about memlib assume
`RoomAbove`).

### Bounds, and why they are enough

*Memory.* `WORD_MOD` is reduced with the sizes, so that the ends of the address space are
as reachable as 2^32 is for the program; where wrap-round is not the question it is 1024, far
above the area. Heaps of 64 bytes have the prologue's 16 and 48 for blocks, that is three minimal
blocks, so that a block can be between two free ones, two allocated ones, one of each, or at
either edge: all cases of `coalesce`, `place` with and without a remainder, and
exhaustion all occur. Request sizes (4, 20) make blocks of 16 and of 32 bytes, so that a
request may fit one free block and not another, and 0 is there where the code has a case for
it. `mm_init` makes a chunk of 24 bytes (`CHUNKSIZE`), neither a minimal block nor a multiple of
one, so that the heap is extended once more and `place` also leaves 8 bytes unsplit.
`Passes = 2` lets a second `mm_init` run over the real leftovers of every first pass.

*Client.* Three blocks, since two neighbours
and a third that is moved between them are needed to overwrite one another; with the block
of an `mm_realloc` under way, four, one more than the heap has room for.

*mm.c.* 96 bytes of heap, two blocks, and the 8 bytes (`BUFFER`; 128 in the code) that `mm_realloc`
adds to a block. 4 makes small blocks, of 16 bytes and of 24 after `mm_realloc`, 44 large ones, of 56 and of
64: each size of request has a list of its own, a small block fits in what a large one leaves, and a small
one can be between two others. That is enough for reserved blocks, for the takeover of the next block and for
each of the three points where the program goes wrong: since `mm_realloc` extends the heap by
four times what it means to, it takes 64 free bytes behind a first block to see it succeed. Six lists (20 in the
code), so that the largest sizes share the last one, as in the code.

*Driver.* Traces of three operations over two indices with the allocator that answers
anything, of four with the other two: every order of
allocating, reallocating and freeing two blocks, also a block freed and allocated again; two
traces in a row suffice to see what one leaves to the next, since nothing but the range list,
the errors and the verdicts remains. `Pointers` has unaligned, overlapping, containing
and outside payloads for `Requests`. The heap of 48 bytes has room for two small blocks or for
a large one, so that mm-firstfit also refuses, and `mm_realloc` ends the
program. `SpeedRuns` is 2 (in the code 10): one repetition.

*Fcyc.* k is 1, 2 or 3 and the limit 0, 2, 4 or 5, below, at and above k; four sample
values in every order, of which some pairs agree within epsilon and some do not. `Settings` bounds
the number of calls of the setters.

*Clock.* Words of four values: the low word wraps several times and the whole counter
once within the `Horizon`. A gap is 1 or 3 cycles long and `THRESHOLD` is 2, so that `callibrate` passes
over some gaps and takes others, and `NEVENT` is 2, so that the second cost may be smaller or larger than
the first. Time stops at the horizon, which is why deadlock is not
checked in this run; nor is it in `ExplicitListMalloc`, where the program ends by a fault. No
other run has that exception. The states of `exit`, of a failed
assertion and of the end of the driver have a stuttering step of their own.

### Fairness

A single thread goes on executing a loop it has entered, and nothing else is assumed:
`FairSpec` of FirstFit is weak fairness of the two steps of the loop in `find_fit` (the rest of a call has no
loop), of SegFit that of `Search`, of ExplicitList that of the turns of `mm_check`, of Fcyc that of
`Run`, the measuring loop. Nothing is
assumed of the client (no call need ever be made) nor of the samples. With it, `CallsReturn`,
`Measured` and, with `ListStep = 1`, `SearchEnds` hold; `SearchEnds` of `mm.c` as it stands and `CheckReturns`
fail nevertheless.

## 4. What is proved

With TLAPS, for every value of the constants that satisfies the named assumptions. The theorems of
SegFitProof marked † are about the time *before* one of the three events that ruin the heap of `mm.c` (`ruined`; the tagged
case of `coalesce`, an extension counted in words, an unchecked `NULL`): their properties are
implications from `Sound`, and behind these events, where `mm.c` does lose blocks and write into
blocks in use, nothing is claimed.

| theorem | states |
|---|---|
| `FirstFitProof!Invariance` | `Spec => []IInv` |
| `FirstFitProof!TypeCorrect` | `Spec => []TypeOK` |
| `FirstFitProof!Disjointness` | `Spec => []PayloadsDisjoint` |
| `FirstFitProof!Inside` | `Spec => []PayloadsInHeap` |
| `FirstFitProof!CopyDefined` | `Spec => []CopyAreasApart` |
| `MemlibProof!BreakInside` | `RoomAbove` (no argument makes the sum of `memlib.c:62` wrap round) implies `Spec => []TypeOK`: the break stays in the area |
| `MemlibProof!AreasApart` | `RoomAbove` implies `Spec => [](TypeOK /\ AreasDisjoint)` |
| `FirstFitProof!Intact` | `Spec => []PayloadIntact` |
| `FirstFitProof!Refines` | `Spec => ImplementsContract`: mm-firstfit.c implements `AllocContract` |
| `FirstFitProof!Consistent` | `Spec => []HeapConsistent` |
| `FirstFitProof!NoLeak` | `Spec => []AllocatedIsHeld` |
| `FirstFitProof!FirstFits` | `Spec => []LowestFit` |
| `MemlibProof!NeverShrinks` | `RoomAbove` implies `Spec => HeapNeverShrinks` |
| `MemlibProof!AllHandedOut` | `RoomAbove` implies `Spec => []HeapIsHandedOut` |
| `SegFitProof!Invariant` | `Spec => []IInv` (of SegFitInv), with the search as it stands and with `ListStep = 1` |
| `SegFitProof!Typed` | `Spec => []TypeOK` |
| `SegFitProof!HeapTiled` † | `Spec => []BlocksTileHeap` |
| `SegFitProof!ListsExact` † | `Spec => []ListsHoldFreeBlocks` |
| `SegFitProof!TagsAnswered` † | `Spec => []TagsHaveOwners` |
| `SegFitProof!NothingOverwritten` † | `Spec => []PayloadIntact` |
| `SegFitProof!DataMoves` | `Spec => []ReallocKeepsData`: also when the heap is extended (`"words"`), but not after the tagged case of `coalesce` or a `NULL` |
| `SegFitProof!FirstListFirst` † | `Spec => []FoundOnFirstList` |
| `ClockProof!CounterRight` | `Spec => []CountsCycles` |
| `ClockProof!SmallestCost` | `Spec => []CostIsSmallest` |
| `ClockProof!Compensated` | `Spec => []TicksCovered` |
| `FcycProof!TypeCorrect` | `Spec => []TypeOK` |
| `FcycProof!Limited` | `Spec => []NoSampleTooMany` |
| `FcycProof!Cleared` | `Spec => []BufferFits` |
| `FcycProof!Best` | `Spec => []ValuesAreBest`: the array holds the smallest samples, and the answer is the smallest of all |
| `FcycProof!Converges` | `Spec => []StopsWhenConverged` |
| `DriverProof!TypeCorrect` | `RoomAbove` implies `Spec => []TypeOK`: what is replayed is an operation of the trace with an index of `trace->blocks`; the writes of `read_trace` are not covered |
| `DriverProof!RangesTracked` | `RoomAbove` implies `Spec => []RangesTrackBlocks` |
| `DriverProof!RangesAreSound` | `RoomAbove` implies `Spec => []RangesSound` |
| `DriverProof!ErrorsCounted` | `RoomAbove` implies `Spec => []ErrorsAreInvalidTraces` |
| `DriverProof!TotalCounted` | `RoomAbove` implies `Spec => []TotalIsInUse` |
| `DriverProof!LegalCalls` | `RoomAbove`, and an allocator that answers anything or keeps to the interface, imply `Spec => []CallsAreLegal` |
| `DriverProof!UtilizationBounded` | ... imply `Spec => []UtilAtMostOne` |
| `DriverProof!NoFalseAlarms` | ... and `LowIndices` imply `Spec => []NoFalseAlarm` |

*Assumptions.* `MemlibAssumption` (an aligned area inside the address space),
`FirstFitAssumption` (a chunk is a multiple of 8 of at least 16 bytes and fits the
area), and `RequestAssumption`: no request is so large that `size + 15`, or the
end of the area plus the block, exceeds the address space. Without the last one
`PayloadsInHeap` is false, which is what `FirstFitHugeRequest` shows. TLC evaluates all of
them in the passing runs. `mm.c` has the like: `SegFitAssumption` (chunk and buffer are multiples of 8, there is
a list, and the area holds the prologue and a chunk) and a `RequestAssumption` of its own, which is stronger, as
`mm_realloc` hands the bytes it is short of to a routine that takes words: the end of the area and *four* times
the block lie within the address space. Of the traces, `DriverAssumption` gives the types (a size fits an `int`) and
`TracesInOrder` the order. Hypotheses of theorems: `RoomAbove` of MemlibProof (no argument carries the break beyond the
address space) and of DriverProof (the space above the area is as large as the area, so that a payload's end does not
wrap round into it), both true of an area in the lower half of the address space; `LowIndices` (no index is 128
to 255 modulo 256), without which `NoFalseAlarm` is false, as `DriverHighIndex` shows; and for the
last three theorems that `Allocators` has `"any"` and `"honest"` only: what mm-firstfit answers is open in `Driver`
and settled in `DriverOnFirstFit`, where `FirstFitIsHonest` makes it a case of `"honest"`.

*The heap.* "Payloads do not overlap" is not inductive: whether a step keeps it
depends on the tags. `IInv` (module FirstFitInv) says that there *is* a set `S` of block
pointers such that

- `Tiling`: every block of `S` but the last ends where another one of `S` begins, none
  lies inside another, and each one's header and footer agree; the first is the prologue, the
  last the epilogue at `mem_brk`;
- `Coalesced`: no two neighbours in `S` are free, without which `coalesce` would not
  restore the tiling to a fully coalesced one;
- `HeldOK`: what the client holds are allocated blocks of `S`, large enough, no two of them
  the same;
- and what the call under way has found so far (`bp` is in `S`; at `"place"` it is
  free and large enough; at `"copy"` it is a block nobody holds).

`FirstFitLemmas` shows what each routine does to such a set: splitting
adds one element, merging takes one away, extending adds one, and writing inside a
payload changes nothing. `FirstFitProof` has one step per action. The properties about payloads
follow, since two different blocks of a tiling are apart.

*The contract.* The second part of `FirstFitProof` adds what each routine leaves as it was: the words inside the
payload of any block of `S` that it does not place, copy into or free. From this follow
`PayloadIntact` and, step by step, the refinement: `find_fit`, `extend` and `place` stutter until
the pointer is returned, which is `Grant` or `Resize`, the copied words being those of the old
payload; `client_free` is `Release`, `fill` is `Write`, and a second `mm_init` is `Restart`.

*The walk.* `HeapConsistent`, `AllocatedIsHeld` and `LowestFit` speak of the blocks a walk along the
headers meets, a recursive function on the memory. Its third part shows that for any
memory the recursion has a solution, and that over a tiled heap the walk is the tiling
(`WalkTiles`). The induction, along the heap from its end, is by least elements: every set of natural
numbers has one (`Least`, from the well-foundedness of the order). Two strengthenings
of the invariant are needed besides: `NothingLost`, an allocated block always has an owner,
be it the call under way, and `Searched`, no block before `bp` fits while `find_fit` looks on.

*The segregated lists.* Of `mm.c` all properties of its run but liveness are proved. That blocks tile the heap is
shown through mm-firstfit's lemmas: `Untagged` takes bit 1, the reallocation tag, off every word of the area,
and what is left is a heap those lemmas are about (`TilesMeans`), although free blocks need not be
coalesced there. `IInv` of SegFitInv says that, as long as nothing has ruined the heap, there is a set `S` such that

- `Tiles`: the blocks of `S` tile the heap;
- `ListsHold`: list *l* is a chain, linked both ways and without a block twice, of exactly the free blocks
  `insert_block` would sort into *l* (`Chain`, `Sorted`);
- `Owned`: no free block is in front of a tag: the tag `mm_realloc` sets on the block behind its own goes
  when its own is freed;
- `Owners` and `Filled`: the blocks in use are the prologue, those the client holds, each once and with room for
  what was asked, and during a move the new one; and their data are there;
- `SearchOK`: lists below `list` have no block that fits and is not reserved, nor has the
  part of this list that is behind (`WalkedTo`), and a block found is of the first list that has one;
- `Kept`: when `mm_realloc` returns, its block has the old data.

Inside a call the lists are not those of the heap: between `delete_block` and `insert_block`, blocks are free
and on no list. The lemmas are therefore about a heap that is `Loose`, whose lists hold some of the free blocks;
`Whole` is the case of all of them. There is a lemma for what each kind of write does to a loose heap (`Unlink`, `Link`,
`Retag`, `Cut`, `HeaderTag`, `Grow`, `Write`), where writing links is harmless since they lie inside free blocks, which
have room for them, and links are multiples of 8 where no header is. `coalesce`, `extend_heap`, `place`,
`mm_free` and the ways of `mm_realloc` are put together from these, and `SegFitProof` has one step per
action. After one of the three events that ruin a heap, `IInv` claims no more than the types, with one exception: when
`mm_realloc` has extended the heap, the data of its block is there (`Kept`), since the header says a size that is
at least the old one and the footer and the tag lie behind the old data (`GrownWrites`). What else holds then is
an open question, and the properties do not speak of it. The theorems hold for both values of `ListStep`, but
with the search as it stands no call of `mm_malloc` comes that far.

*The clock.* The counter of `x86` is two words; `CounterRight` is that the borrow of
`get_counter` makes the difference modulo the square of the word. Its invariant (`StartInv`) says that what
`start_counter` stored is the time it read, split. `TickInv` is what the readings at both ends of the
interval have in common with the true number of ticks.

*The sampler.* That values are the smallest samples is not stated by sorting: x is the kth of some numbers if
fewer than k of them are smaller and at least k not larger (`IsSmallest`). The invariant says more
(`Tallied`): for every x, of the samples that are at most x the array has all, or is full of them. A sample more
changes this tally by one, wherever it falls, and the insertion sort, a bijection of places,
does not change it (`SunkOrders`, `KeptTallies`); with the array in order, `SmallestFirst` follows for all
places at once, and from its last place that of `StopsWhenConverged`.

*The driver.* `Ctl` is its course: which evaluation comes after which, with the number of errors counted. `RangesInv`
says that the range list is nested (of two ranges that overlap, the newer one has the older one inside) and follows the
blocks in use; since lower ends then differ, `remove_range` takes away the right one. It needs no honest allocator: an
answer that breaks the rules is either refused or one of those `add_range` lets through. `Figures` has the sum of
the sizes in use. With an honest allocator, or libc's, `HeldInv` says that what it has handed out are
the payloads of the blocks in use, one for each, although `trace->blocks` also keeps pointers of freed blocks and of earlier
evaluations; `FittingInv` that they are apart and in the heap, so that the bytes in use fit it (`FitAlways`), which gives
`MarkInv`, the bound of the high-water mark; and `AlarmInv` collects why none of the tests of
`eval_mm_valid` fails. What a line does to the blocks in use, the new state being that before the next
line, is shown once (`InUse`) and used by all of them.

*Only model-checked*: liveness (`CallsReturn`, `Measured`, `SearchEnds`), which is out of the provers'
reach; and `FirstFitIsHonest`, the composition of the driver with mm-firstfit. `IInv` of `mm.c` quantifies over
sets of blocks and over sequences, so that TLC does not evaluate it; the properties that follow from it are checked.

## 5. What is not modelled

- `mm2.c` behind its first `mm_check`: nothing of it runs, since that call never returns.
- `mm.c` behind the three points at which it goes wrong for good (`ruined`): what it
  does then depends on words no routine meant to be read.
- The heap checkers of `mm-firstfit.c` and `mm.c` as code: they only look and print. What
  they look for is `HeapConsistent` and `BlocksTileHeap`. The one of `mm2.c` is modelled, since it is what fails.
- `main`'s command line, team check, printing and the performance index; `mem_deinit`,
  which nothing calls; `#mdriver.c#`, an editor's copy that is not built.
- The interval timers of `ftimer.c` and the other variants of `fsecs.c`, which are not
  compiled in; `mhz` and `ovhd` of `clock.c`, which only compute and print.
- The value of payload bytes one by one: `memcpy` and `memset` are word-wise, as payloads
  are padded to multiples of eight bytes.

## 6. Plan

Done: all components that run, the driver linked with mm-firstfit, and the theorems of section 4.

What is left is to *prove* `FirstFitIsHonest`: a call of the composition is a run of FirstFit from request to
return, so that `IInv` of the linked program is that of FirstFit. Liveness stays with TLC.
