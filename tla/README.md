# Pin_Tools in TLA+

The repository is a copy of the Intel Pin kit (`src/pin-3.11`) with four tool directories of its
own under `source/tools/`: `Workload_Char`, `Workload_Analysis`, `Garbage_Collection` and `PUM`.
A pintool registers *analysis routines*; Pin calls them before each instruction of an arbitrary
program, on whichever thread of that program executes it. The tools have no threads of their
own: all concurrency is that of the instrumented program, and it meets in the tool's statics.
This project models those four directories. The Pin kit is third-party and only appears through
the calls the tools make of it.

Paths below are relative to `src/pin-3.11/source/tools/`.

## Inventory

| component | state | operations | what makes it correct |
|---|---|---|---|
| tag array + LRU (`Workload_Char/include/CacheSim/tags/`) | blocks of a set: valid, dirty, tag, time touched | `accessBlock`, `insertBlock`, `inval` | one copy of a block, strict LRU order, dirty only if written, right victim address |
| cache hierarchy (`Workload_Char/include/CacheSim/cache.hh`) | a tag array, a clock and seven counters per cache | `send` (down), `inval` (up) | inclusion; counters that agree between caches and with what moves; no modification lost |
| MMU (`Workload_Char/include/System/mmu.hh`) | page table, free and used frames | `va2pa` | two pages never share a frame; a page keeps its frame |
| `wl_char_roi.cpp` | fast-forwarding flag, count, lock, the caches and the MMU | `increCount`, `simInstrCache`, `simMemOpr`, `HandleMagicOp`, `Fini` | the caches see whole requests, one at a time; nothing is used after exit deleted it; what is counted is what is fetched |
| access splitting (`simMemOpr`) | two vectors and a remainder | two loops | the chunks tile the access, one per block |
| `trace_extr.cpp` | ROI flag, fast-forwarding flag, count, lock, trace file, a count per thread | `increCount`, `nonBranchNorMem`, `bpTrace`, `memTrace`, `HandleMagicOp` | exact count and phases, LIMIT, no record lost, records that replay each thread |
| `trace_extr_only_roi.cpp` | the same without fast-forwarding | the same | the same |
| `Garbage_Collection/trace_extr.cpp` | ROI flag, a table pointer -> size, one size global, count, lock, trace file | `MallocBefore`, `MallocAfter`, `FreeBefore`, `increCount`, magic ops | FREE lines match MALLOC lines; the lines replay the table; sizes are those asked for; the exit loses next to nothing |
| `Workload_Analysis/profiler.cpp` | start flag, two counts and a trace, all unlocked | `increCount`, `bpSim`, `memAccessSim`, `nonBranchNorMem` | starts at SKIP, ends at the limit, lines that replay the program |
| `Workload_Analysis/src/CacheSim/` | non-inclusive caches, fully associative tags as a linked list and a hash | `send`, `reInitialize` | behaves as a write-back memory; list and hash agree |
| `Workload_Analysis/src/Branch_Predictor/` | saturating counters, histories, a BTB, a loop predictor | `predict`, `update` | counters in range, the entry just inserted is found |
| `Workload_Analysis/src/System/mmu.hh` | counters per page | `va2pa` | the permutation of pages is one-to-one |
| `Workload_Char/include/Sim/data.hh` | block data, original and new | never called | - |
| configuration, statistics, PUM, hooks | - | input and output | - |

How they interact: `wl_char_roi` calls `MMU::va2pa` and then `Cache::send` on a first level; `send`
calls `send` of the next level, and the last level calls back `inval` of the previous ones *while*
their `send` is waiting for it. The other modelled tools only have the program's threads, their
statics and a file. Hard behaviours: unlocked tests of a flag that is used under a lock; `exit(0)` on
one thread while others run; the callback from L2 into a first level in the middle of its miss;
long request sequences that leave stale bits behind; calls of malloc and free that overlap. There
is no persistent state and no message passing, hence no crash recovery, loss or retry to model.
`PROJECT.json` lists each hazard at its line.

## Modules

    SetAssocTags  <-EXTENDS- InclusiveHierarchy <-INSTANCE- WlCharRoi -EXTENDS-> PageMapper, BlockSplit
    BlockSplit    <-EXTENDS- AccessSplit
    TraceExtr                HeapTrace                Profiler
    FALRU         <-EXTENDS- WOFACache -INSTANCE-> LRUBuffer

* **SetAssocTags**: the tag array of one cache as a value; each C++ method is an operator from the
  array before to the array after. Addresses are block numbers, since `blkAlign` clears the offset
  first; masks and shifts become `%` and `\div`, which is the same for a power of two and lets the
  proofs hold for any number of sets.
* **InclusiveHierarchy**: L1I and L1D over L2, as `main` wires them ("cortex a-76 setup"). A request is
  one step, because the tool makes it under `pinLock`; inside the step `sendL1` and `sendLLC` follow
  the order of `Cache::send`: tally, load from L2 (which may invalidate in this very L1), choose the
  victim in the array as it is now, insert, write back, invalidate upwards. `modified` is history.
* **PageMapper**: `SingleNode`. The shuffled vector of free frames is a set, any of which may be first.
* **BlockSplit**: what `simMemOpr` has to compute for an access; **AccessSplit**: the loops that compute
  it, one action per iteration, with addresses and sizes that wrap.
* **WlCharRoi**: the analysis routines of `wl_char_roi.cpp` over the former. `calls[t]` is what Pin still
  has to call for the instruction of thread `t`. Nothing but `fast_forwarding` is touched without the
  lock, so that a critical section is one step, except that `simMemOpr` is one step for each
  chunk it sends. It uses `ChunkAddrs` of BlockSplit, which AccessSplit's run shows to be what the
  loops produce.
* **TraceExtr**: `trace_extr.cpp` and `trace_extr_only_roi.cpp`, which are one program but for the skipping:
  Init chooses the `tool`, and four definitions look at it (Execute, Proceeds, Asserted and the initial
  `fast_forwarding`). It is finer than WlCharRoi: the unlocked test, waiting, the load and the store of
  `++insn_count`, and the rest of a critical section are steps of their own, so that mutual exclusion
  is something the model shows and not something it assumes. The reset of the thread's own
  count after the release is part of the record's step: no other thread sees it.
* **HeapTrace**: the malloc/free tracer, with no lock at all. `MallocAfter` is two steps, the insertion and
  the line, and reads `last_malloc_size` in both; `FreeBefore` is two, the line (`FreeBefore`) and the erasure
  (`FreeErase`). The test of the ROI flag and the look-up go with the first of them: the entry is that of a block the
  caller still owns. `malloc` and `free` are an environment: malloc returns any place that is
  not in use, or NULL; the program is correct and frees a block once, after its malloc has returned. It calls
  nothing else: the tool hooks neither `realloc` nor `calloc` (`Image`, lines 272-306).
  `increCount(t)` is the LIMIT-th instruction: it closes the file and calls exit(0) with `pinLock` held. Which
  instruction that is has nothing to do with malloc, so that it may be any between two routines. From
  then on a thread stops at its next instruction, in its own `increCount`; the routine due at its present one
  still runs, and its line goes to a closed stream (`lost`).
* **Profiler**: `Workload_Analysis/profiler.cpp`, which shares two counts and a trace between all threads and has
  no lock. Each step is one access to them: the loads and stores of `++insn_count` and
  `num_exes_before_mem++`, a printed item, the reset. As the tool is built (`-O3`, `makefile.unix.config:164`) the
  tests of `increCount` and the print of `memAccessSim` use the value in the register, not the variable;
  gcc's code for these two functions is like that. The exit of one thread leaves the others running until
  EndProcess, and what they print in the meantime is written or dropped.
* **FALRU**: the doubly linked LRU list of `fa_lru.hh` as the value of its pointers; `upgrade` and `downgrade` are
  operators built from cutting a block out at the tail, the head or the middle and joining it again.
* **WOFACache**: the write-only fully associative cache of `Workload_Analysis/src/CacheSim/cache.hh:174`, with the
  blocks, the hash and the list that `FATags` keeps for it: one action for each way out of `send`, and
  `reInitialize`. The profiler builds such a cache and returns before it sends it anything, so the module
  takes every request type from any caller; `next_level` is what `sent` records. **LRUBuffer** is what the class
  promises: a sequence of written addresses in LRU order, with no pointers, hash or blocks. The refinement
  mapping walks the list from the head and takes the tags of as many blocks as are valid: the free ones are last.
* `MC*.tla` give TLC its constants, symmetry and views; `*Proofs.tla` hold the theorems.

## Runs

| run | instance | shows |
|---|---|---|
| `inclusive` | L1I 1 way, L1D 2 ways, L2 2 sets x 2 ways, 4 blocks | inclusion, no duplicates, strict LRU, counters that agree, dirty only if written, off-chip traffic equals what enters and leaves L2 |
| `lost_modification` | the same | violation: see findings |
| `trace` | both tools, 2 threads, LIMIT 2, 2 skipped, 6 instructions | exact count, no record after the close, records replay the threads, bound on what is extracted, lock released |
| `trace_assertion`, `trace_limit` | 2 threads; 1 thread | violations: see findings |
| `heap` | 2 threads, 2 places, sizes 0 and 8, 7 calls | for programs of malloc and free: FREE paired with MALLOC, no freed pointer in the table, lines that replay the table, one line a thread lost at the exit, exactness for a thread alone |
| `heap_threads`, `heap_roi` | 2 threads, 4 calls; 1 thread, 7 calls | violations: see findings |
| `profiler` | 2 threads, SKIP 2, 3 traced, 6 instructions | never early, borders not jumped over, exactness for a thread alone, the run ends |
| `split` | blocks of 8 in a 64-byte space, every access up to 31 bytes | the chunks tile the access |
| `wl_char` | 2 threads, 2 pages, 2 blocks a page, LIMIT 3, 4 instructions | implements InclusiveHierarchy, frames exclusive, cached blocks are mapped, fetches counted, no use after delete |
| `wofa_cache` | 4 blocks, 5 addresses, 6 requests between two `reInitialize` | list, hash and blocks consistent, free blocks last, statistics balanced; implements LRUBuffer |

### Bounds, views and symmetry

* `inclusive`: the clocks and counters are unbounded. The VIEW keeps the valid blocks, the *order* of the
  timestamps, `modified`, and the truth of the two properties that look at clocks and counters. The
  successors of a state, as far as the view and the step property OffChipTraffic see, depend on
  nothing else: an invalid way is chosen by position, a valid one by order, and counters only move
  by amounts the view decides. So the search covers request sequences of any length. Three of the four
  blocks fall into one set of L2 and overflow it; L1D's two ways let a dirty block survive while L2
  evicts its copy; L1I has one way, so that every fetch replaces.
* `trace`: six instructions enter the ROI, skip two, extract to the limit and leave one in flight on the
  other thread. ExtractionBound is tight for both tools: with one less it fails. The run has no
  symmetry reduction, since LockIsReleased is a liveness property of each thread; the others use
  the symmetry of threads (and of pointers in HeapTrace), which no definition tells apart.
* `heap`: seven calls are ROI_BEGIN and three pairs of malloc and free, enough to reuse a place twice
  by either thread, to leave the ROI and come back; the exit may come after any of them.
* `profiler`: the END is five increments away and six instructions are executed, so that one increment may be
  lost on the way to it; two stores of the same value, a stale store that takes the count back over
  SKIP, and a thread that goes on past SKIP before the other has tested all occur. A thread alone prints counts
  of 1 and 2 and leaves some out. No symmetry, since LimitEndsRun is a liveness property.
* `wl_char`: the operands are a store over a page border (three blocks) and a read-modify-write; L2 has
  one way in each set, so the store evicts its own blocks while it is sent. FetchesCounted is tight on both
  sides.
* `wofa_cache`: with four blocks a middle block has a middle neighbour, which three cannot show, and the fifth
  address forces evictions. The bound is on the counters alone: `reInitialize` starts them again and keeps the
  cache, so that the list, the hash and the blocks go through sequences of any length.
* Frames: the model has one for each page the program touches, as the code needs (`mmu.hh:138`).
* `split`: Init leaves out accesses in the last block of the address space, where the first loop would
  never end (listed as a hazard); no program has it mapped.

### Fairness

`trace` and `profiler` need it: weak fairness of the analysis steps of each thread, as long as the process is
there. A thread inside an analysis routine is runnable, and the operating system schedules
runnable threads; nothing is assumed about the program executing another instruction, nor about who
gets the lock (weak fairness of a thread whose turn never comes demands nothing). LockIsReleased
only asks that an owner of the lock gives it back, unless the process is on its way out. LimitEndsRun is about
routines that never wait: it asks that the thread that stored the last value gets to test it.

### Findings

* **lost_modification** - `cache.hh:157`. A store leaves L1D's copy dirty and L2's clean. When L2 replaces the
  block, it invalidates L1D's copy and looks at its own dirty bit only: the modification disappears
  with no write-back, and off-chip writes are under-counted.
* **trace_assertion** - `trace_extr.cpp:73`. `entering_roi` is tested without the lock at line 48; ROI_END on
  another thread makes `assert(entering_roi == true)` fail.
* **trace_limit** - `trace_extr.cpp:40`. After ROI_END nothing is counted, yet everything is still traced:
  LIMIT is not the maximum of instructions extracted.
* **heap_threads** - `Garbage_Collection/trace_extr.cpp:248`. One size global for all threads.
* **heap_roi** - `Garbage_Collection/trace_extr.cpp:253`. A free outside the ROI leaves its entry in the table,
  which then gives a wrong size for the block allocated in its place.

## Proofs

`tlapm` checks every theorem for all values of the constants; `PROJECT.json` lists those a reader should know.
Assumptions on the constants, all named, all evaluated by TLC in the runs:

* GeometryAssumption, HierarchyAssumption: positive numbers of sets and ways, the three caches, block numbers;
* ExtractorAssumption, WlCharAssumption: finitely many threads (the bounds count them; WlChar has one at
  least), NoThread is none of them, a positive LIMIT, and a page of whole blocks;
* HeapAssumption (0 is a size, NULL is no pointer); ProfilerAssumption (SKIP and LENGTH positive);
* PageAssumption, BlockSizeAssumption; WidthAssumption: the address space is whole blocks, and no operand is
  larger than a size can say. It also says that the powers of two are natural numbers, which is true of any
  width and follows by the induction that the prover cannot do;
* FALRUAssumption (two blocks at least, as `tagsInit` needs) and WOFACacheAssumption.

The arguments, module by module:

* **SetAssocTagsProofs**, **InclusiveHierarchyProofs**: every property of the `inclusive` run. None of the invariants
  can be had alone: inclusion after a miss needs that L2's insertion removes exactly one block, which needs unique tags;
  DirtyIsModified needs InvalidIsClean, since `insertBlock` keeps the dirty bit of a way it finds invalid; that the
  new block is the youngest needs that no timestamp is ahead of the clock. A request is a chain of calls on
  intermediate hierarchies that no state shows, so the invariants are stated as `Sound(h, M, C)` of such a hierarchy:
  `SendLLCSound` shows that a call of L2 keeps it and leaves the block in L2, `SendL1Sound` composes that with the
  insertion, which adds to L1 only what L2 was just made to hold. The counters agree between requests only, so
  each call is described by what it adds to them (`SendLLCTraffic`), and a request of L1 adds up one call of L2
  for the load and one for the write-back. SetAssocTagsProofs has the facts of the operators: what a hit, an insertion
  and an invalidation do to the cached and the dirty blocks and to the order.
* **TraceExtrProofs**: TypeOK, mutual exclusion, CountExact, NoRecordLost, TraceReplays, ExtractionBound; the theorems
  hold of both tools. Strengthening: exactly the owner is past the lock; a loaded register equals the count; a closed
  file comes with a thread that is exiting, and it keeps the lock; only `trace_extr` fast-forwards. TraceReplays
  counts positions of a sequence, and is inductive by lemmas on what appending one event does to the counts.
  ExtractionBound needs ExtractInv: increCount comes first in an instruction (CallsInv), the phases of the ROI
  (RoiInv), and FlightInv: the instructions extracted, with those past `increCount` that can still leave a first
  mark, are no more than those admitted by the count and those under way when tracing was switched on.
* **HeapTraceProofs**: TypeOK, NoStaleEntry, FreesArePaired, TableReplays, OneLineLost, ExactAlone. Strengthening:
  calls under way are about different live blocks; in a program that stays in the ROI a block being freed is
  forgotten; a thread that lost a line is stopped, and the one that exits lost none. TableReplays is inductive with
  these (an entry whose FREE line is printed belongs to the freeing thread until it is erased, and does not count), and FreesArePaired needs it: that an entry of the table has a MALLOC line which no FREE follows. AloneInv
  says what a lone caller finds between MallocBefore and MallocPrint: the flag and the size it left there.
* **ProfilerProofs**: TypeOK, NeverEarly, BordersNoticed, ExactAlone. Strengthening: a value of the count, in memory or
  in a register, is at most the number of stores so far; and BordersNoticed for the registers as well as for the memory,
  because a thread may hold a value past a border, lose the race and store it much later. A store makes
  only one new value, one above what its thread loaded: either the border was behind that already, or the
  new value is the border itself and the thread has yet to test it. The test lets it go, and sets the flag.
  For a lone caller, CountAlone ties the count, the register and both flags to the instructions executed, and
  FileAlone the file and the pending count to what the program did, at each place inside a routine.
* **AccessSplitProofs**: TypeOK, SplitExact. Each loop has made a prefix of the requests (AddrsInv) and of their
  chunks (SizesInv); what is left to cut starts where the next chunk does, so that the loops end together and
  nothing wraps on the way.
* **WlCharRoiProofs**: every property of the `wl_char` run. `RoiImplementsHierarchy`: each step is a request of a
  block that exists, or leaves the caches alone. NoUseAfterDelete needs that a deleted state has an exiting thread that holds
  the lock, or no call left. `RoiCachesCorrect` puts the first to use: the inductive invariant of
  InclusiveHierarchyProofs, instantiated with the caches of the tool, holds in it whatever its threads do;
  `RoiOffChip` does the same for the steps.
  CachedAreMapped uses that a request brings no block into a cache but its own (and those L2 had). FetchesCounted
  needs FetchInv: the count and the fetches differ by the instructions that are counted and not fetched yet, which only the
  threads with such a call pending can have; the thread that ends fast-forwarding has none, hence one less on one side.
* **WOFACacheProofs**: every property of the `wofa_cache` run. That a chain of
  pointers reaches every block is not a first-order fact; it is proved with a numbering of the
  blocks: a list is well formed if some numbering agrees with all its pointers, and moving a block to the
  front (or the back) renumbers the blocks before (or behind) it. `UpgradeNumbers` and `DowngradeNumbers` do the pointer
  cases. The invariant is the conjunction of TypeOK, ListThreaded, HashAgrees, FreeBlocksLast and ResidentIsDirty: that
  the victim's key leaves the hash needs that valid blocks are keys; that free blocks stay last needs the numbering; that
  each eviction is counted needs that valid blocks are dirty. `InvalidatedList` shows that `downgrade` never moves anything
  in this class: the victim is already at the tail.
  `WOFAImplementsBuffer` adds the refinement of LRUBuffer. `Walk` is a recursive function; `WalkUnfolds` shows that it
  satisfies its equation, because a numbering gives one function that does, and `WalkNumbered` that it numbers the
  blocks as the pointers do. Both would be inductions; they are done by a smallest counterexample instead (`Least`,
  from the well-foundedness of <), which needs no operator parameter. `MovedToFront` and `PutInFront` then turn what
  a request does to the numbers into what it does to the sequence, one lemma for each way out of `send`.

Only model-checked: LockIsReleased and LimitEndsRun, which are liveness properties under fairness, and with ENABLED
beyond the prover. The five violations under Findings are TLC's counterexamples. No module uses RECURSIVE.

## Not modelled

* Undefined behaviour that has no outcomes to enumerate: two threads inside the `unordered_map` of the heap
  tracer, an empty frame pool, an access in the last block of memory (which SplitExact
  therefore says nothing about), and a stream of the profiler used after `exit(0)` destroyed it: LimitEndsRun is about
  the routines, not about what the stream does.
* `realloc` and `calloc` in the program of the heap tracer: it does not hook them. A block that realloc moves keeps its
  entry, so NoStaleEntry and ExactAlone hold for programs that call malloc and free only.
* `va2pa` and `send` of one request apart: both are one step of WlCharRoi, as simMemOpr and simInstrCache hold `pinLock`
  throughout. So HierarchySpec and FetchesCounted do not show that the lock keeps two requests from mixing; what that
  run shows of the lock is NoUseAfterDelete, which fails if it is released between the chunks of an access.
* Whether Pin runs `Fini` after `exit(0)` from an analysis routine (it would delete the caches twice).
* Thread data of `wl_char_roi` (written, never read), `Mapper`, the skylake wiring and all other commented-out
  code; formatting, knobs, configuration files, statistics.
* `memTrace` and `nonBranchNorMem` of the heap tracer: they change a count per thread that nothing prints
  (`Garbage_Collection/trace_extr.cpp:127-140` is commented out); that they test the ROI flag the other way round than
  their siblings has no effect. Its `assert(entering_roi == true)` (line 57) is that of `trace_extr.cpp:73`.
* Dead code of `Workload_Analysis`: `profiler.cpp` returns at lines 70, 128 and 154 before it uses the predictors, the
  MMU and the caches it builds. Only the fully associative cache, whose list and hash are worth it, is modelled all
  the same. Two things a reader of that code should know before reviving it: `Cache::reInitialize` (`cache.hh:100`) sets the
  clock of the LRU back and leaves the timestamps of the blocks, and `Way::init` of the BTB
  (`Pentium/pentium_m_btb.hh:64`) assigns its tag to itself.
* The text of a line: two threads of the profiler may mix the insertions of one line, since nothing locks the stream.
* A build of the profiler with `DEBUG=1` (`-O0`), whose tests read the count again: the mutant `tested_reread` of the
  module is that build, and it jumps over the borders.
* `PUM`: `pum_trace.cpp` prints a line for each magic instruction and keeps nothing. `normal_trace.cpp` remembers the last
  store, to print the value before and after it; what it prints are values of the program's memory, and its two
  hazards are in the list.
* The Pin kit: third-party. It is nearly all of the repository; the tools' own code is some 7,000 lines.
* `FATags::reInitialize`: nothing calls it (`cache.hh:98` is commented out).

## Plan

Done: SetAssocTags, InclusiveHierarchy, TraceExtr (both tools), HeapTrace with its exit, BlockSplit, AccessSplit,
PageMapper, WlCharRoi, FALRU, WOFACache, LRUBuffer and Profiler, with the proofs above: each safety property that a run
finds to hold is a theorem. Of the tools' own code that runs and keeps state, the last store of
`PUM/normal_trace.cpp` is what is not modelled. What is left:

1. A theorem that joins AccessSplit and WlCharRoi: that the chunks the tool sends are those the loops make. Now both
   are stated with `ChunkAddrs` of BlockSplit, and the join is by reading.
2. Exact bounds: that ExtractionBound and FetchesCounted are tight is shown by runs only.

Should the profiler use its caches again, a module for its non-inclusive `send` over a write-back memory comes first.
