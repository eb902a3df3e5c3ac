# Verification of spmv-cache-trace

`spmv-cache-trace` predicts the cache misses of sparse matrix-vector
multiplication (SpMV) and measures what the machine really does.  It reads a
configuration (caches, their hierarchy, the threads' placement), builds a
matrix and a kernel, and then either *traces* (simulates every cache on the
memory reference strings of the threads) or *profiles* (runs the kernel in an
OpenMP team with hardware counters).

This directory models that program in TLA+, checks the models with TLC on small
instances, and proves the central results for every instance with TLAPS.
Paths below are relative to the repository's `src/` directory.

## 1. Inventory

| Part | Source | State | Operations | Interacts with |
|---|---|---|---|---|
| Circular buffer | `util/circular-buffer.hpp` | vector `v`, `head`, `tail` | `emplace_back`, `push_back`, `pop_front`, `front`, iteration | held by LRU |
| Replacement policies | `cache-simulation/lru.cpp`, `fifo.cpp`, `rand.cpp` | `memory_references` (hash set), `q` (recency or insertion order) | constructor, `allocate` | called once per memory reference |
| Simulation of reference strings | `cache-simulation/replacement.cpp` | loop counters, `cache_misses`, global `print_progress`, the process's alarm and SIGALRM disposition | `trace_cache_misses`, `signal_handler` | drives a policy; the kernel of the OS calls the handler at any point |
| Trace configuration | `trace-config.cpp` | caches with parents, thread affinities | reading JSON, checks | read by all parts below |
| Cache trace | `cache-trace.cpp` | map of results, active threads | `trace_cache_misses`, `active_threads`, `cache_has_ancestor` | asks the kernel for each thread's string, simulates twice when warming up |
| Profiling | `profile-kernel.cpp` | one event-group vector per thread, `profiling_runs`, the stored exception | `profile_kernel`, `profile_kernel_run`, `flush_cache` | OpenMP team; kernel; perf events |
| Hardware performance events | `util/perf-events.cpp` | file descriptors, counts, times | `make_event_group`, `enable`, `disable`, `update` | used by each thread of the team |
| Kernels | `kernels/*.cpp` | matrix, vectors, workspace | `init`, `prepare`, `run`, `memory_reference_string` | `run` by the team, the string by the trace |
| Matrix formats | `matrix/coo-matrix.cpp`, `csr-matrix*.cpp`, `ell-matrix.cpp`, `hybrid-matrix.cpp` | index and value arrays | conversion, `spmv`, reference string | built from Matrix Market |
| Matrix Market, reordering | `matrix/matrix-market*.cpp` | header and entries | parse, sort, permute, RCM and partitioning orders | reads through the streams |
| Page distribution | `util/aligned-allocator.hpp` | placement of pages | `distribute_pages`, `thread_of_index` | two barriers inside `prepare()`; the reference strings use the same arithmetic |
| Streams | `util/tarstream.cpp`, `zlibstream.cpp`, `*-ostreambuf.cpp` | buffers and positions | `underflow`, `overflow` | wrap files |
| JSON parser | `util/json.c` | the text and the position in it, the elements allocated so far | `json_parse` and a function for each kind of value | read by the trace configuration |
| Statistics, command line | `util/sample.hpp`, `main.cpp` | none to speak of | | |

What is hard here, and what each part owes:

* **Policies** keep the resident lines twice and synchronise them by hand; the
  buffer's window slides and is rotated only after a long run.  They owe that
  set and queue agree, that the line which leaves is the right one, and that
  the capacity is used in full and never exceeded.
* **The simulation** interleaves strings of different lengths while a signal
  may arrive between any two statements.  It owes the miss counts that the
  definition of the policy gives, for the right CPU and NUMA domain, from a
  cold or a warmed cache, and that the progress reports neither kill the
  program nor fall silent.
* **The cache trace** follows a hierarchy that comes from a file.  It owes that
  each cache is simulated for exactly the threads below it, that each row of
  the result is put at its thread, and that it ends.
* **Profiling** is a team of threads that meets at barriers and may lose
  members through exceptions.  It owes that a sample belongs to one run of the
  kernel in every thread, that the time covers the kernel, that the master
  reads no event group while it changes, and that a failure is reported.
* **Kernels** are worksharing loops, some without a barrier at their end, some
  with a workspace that the threads share, over arrays that a conversion has laid
  out for a number of threads that the team need not have.  They owe the product,
  run after run, and no data race.
* **Reference strings and page placement** restate by hand what the schedules of
  those loops, the OpenMP runtime and the page distribution do; nothing but
  agreement of the two makes a prediction mean anything.
* **Performance events** are counters of the operating system that are shared out
  in time, with descriptors that must be closed whatever fails.  They owe counts of
  the run that was measured.
* **Reading a matrix** goes through two buffers that each end anywhere.  It owes the
  matrix of the file or an error, for every file that can be on a disk, and an end;
  the reordering owes a reverse Cuthill-McKee order.
* **The JSON parser** recurses through every error path with elements it owns.  It
  owes the tree the text denotes, and no element lost.

`PROJECT.json` lists each part with its status, and under `hazards` each place
where these can go wrong with the properties that would notice.

## 2. Modules

    CircularBuffer          operators on a buffer record
      LRU                   allocate() of lru.cpp         AbstractLRU
        LRU_proofs                                          (what LRU promises)
        ReplacementPolicies LRU, a smaller LRU, FIFO, RAND on the same references
          MCReplacementPolicies
        TraceCacheMisses    replacement.cpp + the two calls of cache-trace.cpp
          MCTraceCacheMisses, CacheSimulation_proofs (also for ReplacementPolicies)
    ReuseDistance           misses defined without a cache
      TraceCacheMisses, CacheTrace
    CacheTrace              cache-trace.cpp, checks of trace-config.cpp
      MCCacheTrace, CacheTrace_proofs
    ProfileKernel           profile-kernel.cpp and the parts of perf-events it drives
      ProfileKernel_proofs
    PerfEvents              perf-events.cpp, the groups of one thread
      MCPerfEvents, PerfEvents_proofs
    StaticSchedule          who gets which iterations of a loop
      PageDistribution      aligned-allocator.hpp
    AvxRow                  the loads of the vectorised inner loops
      MatrixFormats         coordinates to CSR, ELLPACK, COO, hybrid
        MatrixFormats_proofs  (also for StaticSchedule, PageDistribution and AvxRow)
        SpmvTeam            the spmv functions, in a team (with StaticSchedule)
          MCSpmvTeam, SpmvTeam_proofs
        ReferenceStrings    the strings of every kernel (with PageDistribution)
          MCReferenceStrings, ReferenceStrings_proofs
    ZlibStream              zlibstream.cpp
      TarStream             tarstream.cpp
        MatrixReader        matrix-market.cpp: load_matrix (with Reordering)
          MCMatrixReader
    Reordering              matrix-market-reorder.cpp
    JsonParser              json.c
      MCJsonParser

**CircularBuffer** has the code's `v`, `head`, `tail` in a record.  Positions
are the code's plus one, because `v` is a TLA+ sequence.  `MakeRoom` is the
rotation that `emplace_back` and `push_back` begin with.

**LRU, FIFO, RAND** have one action per branch of `allocate()`: `Hit`, `Fill`,
`Evict`; `ret` is the value returned (1 is a miss).  `MoveToBack` is the search
through reverse iterators and the `std::rotate` of a hit.  The insertion into
the set before the size test is one step with the test, because nothing can
observe the state in between.  `RAND` gives up `*begin()` of a hash set: any
resident line.  The addresses are numbers, divided by the line size as in the
code.

**AbstractLRU** has neither set nor queue: every line has an age, a reference
makes its line the youngest.  `LRU` implements it under the mapping that reads a
line's age off the queue (`RefinesAbstractLRU`).

**ReplacementPolicies** gives all policies, and a second smaller LRU cache, the
same references.  `seen` is a history variable.

**TraceCacheMisses** takes the loops of `replacement.cpp:41-95` apart at every
statement that the signal can separate: reset the flag, install the handler,
arm the alarm, test the flag, clear it, rearm, simulate one reference, disarm,
restore.  `SigAlarm` may happen between any of them.  The warmup call and the
counted call of `cache-trace.cpp:128-154` follow each other on the same cache.
`ReuseDistance` says what the misses are without simulating anything: a
reference hits if its line occurred before with fewer than `n` other lines
since.

**CacheTrace** takes any assignment of parents and affinities, applies the
checks of the `TraceConfig` constructor, and runs the search for ancestors one
recursive call a step, so that an endless recursion shows.  The simulation of
one cache is a single step given by `ReuseDistance`, which the run
`trace_cache_misses` shows to be what the loops compute.

**ProfileKernel** has one program counter per thread and one barrier for the
team.  A thread throws at a point chosen at the start (`fault`, and for points
inside a run `faultRun`), is caught by the handler of the region, and goes to
the region's end.  Counters are the set of kernel runs they counted, so that a
sample shows which runs are in it; the clock is the interval between `t0` and
`t1`.  `distribute_pages`, which a kernel's `prepare()` calls for each of its
arrays, appears once: its two barriers and the part of the master.  It is the
variant built with libnuma; the other is empty.  `RunKernel` is one step per
thread: the barriers inside a kernel's own loops only add points where the
threads meet.

When a thread has left the region, OpenMP leaves the barriers of the others
undefined.  The model admits both outcomes a build can produce: they wait for
ever, or (`BarrierWithoutAll`) a runtime like libgomp, whose region ends at the
team's own barrier, takes the thread that ended for one that arrived, once.

**PerfEvents** follows one thread through `make_event_group`, the profiling runs
and `~EventGroup`.  What the operating system does is modelled by what the code
relies on: descriptors are given out in order, a group counts while it is
scheduled (`Tick`; a preempted group's time goes on and its counters do not), a
reset zeroes the counts and not the times.  `opened` and `open` are history and
state of the descriptors; a failure may come at any call that can fail.

**StaticSchedule** has the schedules OpenMP prescribes (`schedule(static)` and
`schedule(static, chunk)`) and the code's own arithmetic for the same;
**PageDistribution** builds on it `thread_of_page`, `page_of_index` and
`thread_of_index` for arrays that start anywhere in a page.

**AvxRow** gives the sequence of loads by which the two AVX loops of
`csr-matrix-spmv.cpp` go over a row, peeled at both ends.  A load is a position
and a width, so that an element loaded twice, lost or unaligned shows.

**MatrixFormats** has the four conversions from the coordinates of a Matrix Market
matrix.  Repeated entries, which the sort may leave in any order, stay in that of
the file: their sum is the same.  Values are integers.

**SpmvTeam** reads a `spmv` function as a list of worksharing loops, each with a
schedule and with or without the barrier at its end.  A thread carries the list of
updates it still has to make; every `+=` on shared memory is a load (`LoadSum`)
and a store (`StoreSum`), unless it is `omp atomic`.  The team may be smaller than
the number of threads the arrays were laid out for.  The product each run should
add is defined from the coordinates alone.

**ReferenceStrings** lists, for each kernel, its arrays, the pages `prepare()`
places, and the string of every thread.  They are compared with what the threads
touch under the schedules of `SpmvTeam` and with the placement.

**ZlibStream** and **TarStream** keep the buffers and the positions in them, with
an action for each turn of the loops of `underflow`; a byte of a compressed file stands for the units of text it decodes
to.  **MatrixReader** is `load_matrix` as a machine: it asks a stream for the next
unit (`Ask`, `Stream`), one turn of a loop below it a step, and parses the header, comments,
size and entries.  A file is described by what `gzip` and `tar` were given, how
much they compressed it, and what has happened to it since: cut at a byte, a byte
damaged, bytes appended.  **Reordering** has the breadth-first order one node a
step (neighbours of equal degree in any order, as `std::sort` leaves them), the
reversal and `permute`.

**JsonParser** has the recursive calls of `json.c` on an explicit stack, one
action for each way a function goes on, and counts the elements that were
allocated and not freed.  Its reference definition is the grammar, as a set of
values a text denotes.

## 3. Runs

| Run | Instance | Question and answer |
|---|---|---|
| `replacement_policies` | caches of 3 lines, an LRU cache of 2, 4 lines of 2 bytes, 5 addresses, every initial state | Do set and queue agree, is LRU an LRU cache that includes a smaller one, do all policies fill before they evict?  Yes. |
| `trace_cache_misses` | 2 CPUs, every pair of strings up to length 3 over 3 lines and 2 domains, cache of 2 lines, reports on and off | Are the counts those of the reuse distances, cold and warm; is the alarm handled without loss or death; do both calls return?  Yes. |
| `cache_trace` | 3 caches of 1, 2 and 3 lines, every assignment of parents (also unknown ones), 2 threads, 5 pairs of strings | Does every row belong to its thread and hierarchy, does a parent miss no more, does the trace of a hierarchy end?  Yes. |
| `cache_trace_cycle` | the same | Does everything the constructor accepts get traced?  **No**: a cycle of parents passes, and the search never returns. |
| `profile_kernel` | 3 threads, 2 runs, every combination of faults | Are samples and times of their run, is there no race on the event groups, is no failure swallowed, does a team that fails together report it?  Yes. |
| `profile_failure` | 2 threads, 1 run | Is it reported when some thread's counters cannot be opened?  **No**: the team hangs at the next barrier. |
| `spmv_team` | 3 matrices (1, 3 and 5 rows; empty, long, repeated and reversed rows), every kernel and inner loop, 1 to 3 threads configured and given, 2 runs | Is there no data race, does each run add the product, do all threads come to the end?  Yes, where a kernel with a workspace adds its COO part once more in every further run. |
| `reference_strings` | 3 matrices of 1, 4 and 7 rows, every kernel, up to 4 threads, pages of 4 bytes and arrays that start in and at a page | Do the strings fill their arrays, refer to each entry once, to what the schedule gives the thread, and to the domain its page was moved to?  Yes, within the limits of section 5. |
| `perf_events` | 5 configurations of groups, 2 runs, 2 ticks of the scheduler, reads of up to 3 values | Are counts those of the run, can small groups always be read, are descriptors closed?  Yes, with the exceptions the properties name. |
| `matrix_reader` | graphs of 3 and 5 nodes; archives of up to 3 members, each whole, cut and damaged at every byte, and padded; buffers of 3 and 4 units, blocks of 2 | Is the matrix that of the file and its order a reverse Cuthill-McKee order, and does loading end?  Yes, unless bytes follow the compressed stream. |
| `truncated_matrix` | the same | Is a file with too few entries reported, as the message in the code says?  **No**: it becomes a matrix with its last entry repeated. |
| `json_parser` | all texts of 4 to 6 tokens over the tokens of each part of the grammar, alone and inside an array or an object | Does the parser accept and return what the grammar says, and keep or free every element?  Yes, apart from three deviations. |

The three violations are described under `findings` in `PROJECT.json`.

**Bounds.**  The cache sizes are the least at which the cases differ: with three
lines the buffer has six slots, so that windows of every length start at every
position and both rotations happen, and the fourth line makes evictions; two
LRU sizes are needed for inclusion.  `MaxLength` bounds the strings: with three
references over three lines and two lines of cache there are hits at every
distance, evictions, and strings of different length, two CPUs share and do not
share lines, and the second call sees every cache the first can leave.  The state
of the policies is finite without any bound on the number of references.  Three
caches make chains, siblings, self-loops and cycles of all lengths up to three;
one of the sizes is smaller than the others.  Two profiling runs let a sample hold an
earlier run, three threads let two fail and one wait.  In `spmv_team`, one row
is fewer than there are threads, five rows are not a multiple of two or three, and
four entries in a row that starts odd take the AVX loops through all of their
parts; two runs show what a run leaves behind.  `reference_strings` has a
vector `x` of several pages and arrays whose first page is shared.  The buffers of
`matrix_reader` end inside headers, entries and blocks, as they are not multiples
of each other; three members are one before and one after the one wanted.
`MAX_EVENT_VALUES` is 3, so that groups of two, three and four events lie on both
sides of it; `MaxTicks` bounds how often the scheduler acts in a run, and two
are enough for a group to be preempted and to return.  `MaxTicks` and
`MaxLength` are the only bounds that are not of the code.

**Fairness.**  `TraceSpec` is weakly fair to the main program, not to the signal:
the alarm need never go off, and may go off as often as it is armed.  `CacheTrace`
is a single thread that always takes its next step.  In `ProfileKernel` each
thread that can run does, the runtime opens a barrier when every thread is at it,
and the caller continues when all have ended; nothing is assumed of a barrier that
not all threads reach.  The operating system's scheduler justifies the first,
the OpenMP runtime the second.  `SpmvTeam` assumes the same of its threads and
barriers.  `MatrixReader` is a single thread and always takes its next step.  Deadlock is not checked in the runs whose system
ends (`CHECK_DEADLOCK FALSE`): tracing and profiling return, a matrix is loaded, a
team comes to the end of its last run, a parser to the end of its text.  The
liveness properties of those runs find every state in which it stops too early.

## 4. Proofs

The proofs assume of the constants what the modules state: at least one line per
cache, lines of at least one byte, addresses that are natural numbers, and of the
initial state that it is what the callers construct (distinct lines that fit).

* `LRU_proofs` begins with the circular buffer: `EmplaceBackWindow`, for any capacity
  and a window anywhere, says that `emplace_back` keeps the order of the elements,
  appends one, and gives up the oldest exactly when the buffer was full.  It rests on
  `MakeRoomWindow` for the rotation, with the cases `head = 0` (an element is lost)
  and `head > 0` (none is).

  About the cache it has `Invariance`, `TypeCorrect`, `SetAlwaysMatchesQueue`.  The
  inductive invariant `IInv` is `TypeOK /\ SetMatchesQueue`.  Neither part is
  inductive alone: that `Evict` pops a line which is in the queue needs the set to
  be as large as the queue (`CardinalityIsSize`, from the bijection between the
  slots and the set), and that the rotation gives up nothing needs the queue to be
  at most half of its vector.  `MoveToBackMoves`, `FillAppends` and `EvictAppends`
  say what a branch does to the slots, counted from the oldest; `MovedKeepsLists`
  and `AppendedLists` say that the slots still list the set, each line once.
  `ImplementsAbstractLRU` says that every behaviour of `LRU` is one of `AbstractLRU`.
  With `AgeOfSlot` (a line's age is the number of slots behind its own) each branch
  becomes the abstract reference: on a hit the lines behind the slot age by one, on a
  miss all do, and the oldest of a full cache reaches `CacheLines`, which is to be
  absent.
* `CacheSimulation_proofs` has two parts.  About the policies: `StackProperty`, `MissesShrinkWithSize`,
  `FifoAgrees`, `AlwaysFilled`, `PoliciesTypeCorrect`, for every two sizes.  That
  the larger LRU cache includes the smaller is not inductive on the sets: which line
  each evicts depends on the order.  The invariant is `YoungEnd`, that the queue of
  the smaller is the young end of the queue of the larger, and is shorter only if it
  is full.  `AllocateByAge` (in `LRU_proofs`) says what a call does to the lines
  counted from the youngest, and `SP`, a second instance of `LRU_proofs`, says it of
  the smaller cache.  A reference hits both (`BothRefreshed`), only the larger
  (`EnteredAndRefreshed`: the smaller is full then, and all it holds is younger than
  the line) or neither (`BothEntered`).  What a policy holds follows from `Filled`,
  all lines it was given or `CacheLines` of them (`StaysFilled`), once for the three
  policies.
  About the simulation: `TracingIsNeverKilled` and `NoReportIsTheLast`, for
  any strings and with the signal between any two statements, from `SignalInv`: an
  armed alarm has its handler, outside the loop the alarm is off, and within it one
  of the alarm, the flag and the rearming is there.  `TraceTypeCorrect` and
  `SharedCacheAgrees` compose the simulation with the cache: a `Visit` is a step of
  `LRU`, so that the proof about `allocate()` holds for the cache that all CPUs and
  both calls share.  `MaxOfBoundedSet` shows that the bound of the outer loop exists
  (a finite set has a smallest subset of the form "all that is at least x").
  `MissesAreReuseDistances` is the main result about the simulation: the counts of
  the cold call and of the call after the warmup are those `ReuseDistance` defines,
  for any strings and every size.  Its invariant `MissInv` (`MissInvariance`) says
  that the lines are in the queue in the order of their last references among those
  made so far (`Recency`), and that the counters hold the misses of these references.
  `InQueueIsNear` turns a place in the queue into a number of other lines since the
  line's last reference; `RefreshedKeepsRecency` and `EnteredKeepsRecency` are its two
  steps.  Given the invariant, `WarmupAddsNoMisses` is about
  the definition alone: a reference that hits in the first call has the same past, back
  to its line's last reference, in the second one (`HitsStayHits`).
* `CacheTrace_proofs`: `RowsFollow` and `ParentsMissNoMore`, for any hierarchy, any
  number of threads and any strings.  The invariant says that the active threads
  found so far are those below the cache in ascending order, that the climb for the
  present thread has not passed the cache (`AboveTheParent`, `RootIsAlone`), and that
  the results are as expected for the caches before `k`.  A cache is above another
  if it is in every set of caches that has the parents of its members.  The code
  simulates the active threads alone and then distributes the rows; that this is the
  simulation of all threads, with empty strings for those not below, is
  `ScatteredRows`: the order-preserving renaming of threads changes no reuse distance
  (`SinceSelected`, `HitsSelected`).  The invariant holds also where the hierarchy has
  a cycle; what fails then is termination (`cache_trace_cycle`).
* `ProfileKernel_proofs`: for teams of any size, any number of runs and faults
  anywhere.  `IInv` says that the threads still in the region are between the same
  two barriers (`Stretches`) of the same run; a step stays within a stretch
  (`StepStays`), a barrier takes all of them to the next (`BarrierKeepsInvariant`,
  also when it opens for a thread that has gone).  `EventGroupsAreNotRacedOn` is a
  consequence.  What samples and times mean needs a second invariant, `RunsInv`: a
  thread's counters count the run it is in, a thread that has not failed is not past
  its fault, and until an exception is stored nobody is missing: a thread that has
  thrown keeps the others before their next barrier until it has stored the
  exception.  From it follow `SamplesCountTheirRun`, `TimesCoverTheKernel` and
  `FailuresAreNotSwallowed`; `TypeCorrect` follows from the first.
* `PerfEvents_proofs`: for any groups, any number of runs and a failure at any call.
  `IInv` says where the loops are (`LoopsInv`), that the descriptors of a group are
  in a row behind that of its leader (`GroupsInv`), that its map knows the first
  event of each name (`MapsInv`), that only destructors close (`OpenInv`), that the
  groups read so far could be read (`ReadInv`), and that counters that are on have
  counted what happened since they were reset (`CountsInv`).  No part stands alone:
  which counter a value read belongs to follows from the row of descriptors, and that
  from what the failing calls leave behind.  `ShapeKept` serves the steps that only
  count.  From it follow `CountsAreRight`, `OnlyLargeGroupsFail`,
  `DescriptorsAreClosed` and `TypeCorrect`.
* `MatrixFormats_proofs` is about the functions the kernels are built from, for every
  matrix and all sizes.  Arithmetic: `SharesFollowSchedule`: the shares that the strings
  and the page distribution compute are those the loops' schedule clause gives, because
  `ceil(n / T)` leaves at most `T` chunks, so that none is dealt out in a second turn.
  `LookupFindsPlace`: `page_of_index` finds the page an element lies on, which exists, so
  that `thread_of_index` agrees with `distribute_pages` wherever in its page the array
  begins.  `Avx128LoadsOnce` and `Avx256LoadsOnce`: the peeled elements and pairs and the
  loop between them load each element of a row once and aligned; a pair is left out at
  the front only where the row ends.  `LoopLoadsOnce` is about one loop, `LoopsLoadOnce`
  joins two.

  Conversions: `CsrIs`, `PaddedIs`, `NumCooEntriesIs` and `HybridIs` say what the arrays
  are in terms of the entries sorted by row.  The sort is a permutation that puts the
  rows in order (`PlacedPermutes`, from `RanksAreAll`: ranks in a linear order are 0, 1,
  ...), hence the places of a row are an interval (`RowPlaces`); positions of an ELL
  array that hold an entry correspond one to one to the first places of the rows
  (`PlacesOfKept`), and the histogram counts the other places (`NumCooEntriesIs`, a sum
  over row lengths against the number of entries that the second loop keeps).

  Sums and sequences: the community modules define `SumFunction` and `FlattenSeq` by
  recursive functions, and induction theorems take an operator, which no prover here can
  instantiate.  The induction is therefore over sets: a set `G` that has 0 and, with `k`,
  `k + 1` has all numbers up to `n` (`UpTo`, from the smallest number outside it), and a
  set of sets that has `{}` and, with `T`, `T \cup {a}`, has every finite set
  (`SetsGrow`).  With these, `SumWith`, `SumOfParts` and `SumRenamed` say that sums are
  what they should be, and `FlattenedIs` that a flattened sequence has the elements of
  its parts and as many of them.

  Products: `CsrRowIs`, `VectorRowIs`, `EllRowIs`, `EllProductIs`, `CooRowIs` and
  `HybridRowIs` say that the inner loop of each format, over the arrays its conversion
  made, adds up the product of the row, which is defined from the coordinates in the
  order of the file.  The terms of a row are those of its entries, renamed by the sort
  (`CsrRowIs`); shared out to the loads of a vector loop (`Avx128LoadsOnce`,
  `SumOfShares`); or cut off at the padding, whose terms are 0, so that it makes no
  difference whether the loop skips it or multiplies (`EllRowIs`).  Of a hybrid row the
  ELL part has the first entries and the COO part the others.
* `ReferenceStrings_proofs`: all four properties of the reference strings, for every
  matrix, every kernel, any number of threads, any page size and arrays that start
  anywhere within the first page.  The inductive invariant `IInv` says that the pages and
  strings made so far are the values of the functions (`PagesInv`, `StringsInv`) for
  options that do not change (`OptionsInv`); its content is in the lemmas about those
  functions.  Each kernel's string is described once (`CsrStringIs`, `EllStringIs`,
  `CooStringIs`, ...): which references are in it, and, for any set `Q` of references,
  how many of it are in `Q`, if the numbers of the single iterations are the differences
  of some function `H`; `RefsAre` and `RowsOfRefs` say this of one loop and of nested
  ones, where the sum telescopes.  From it follow
  `StringsAreFilled` (`Q` is all references), and `EntriesAreReferencedOnce` (`Q` is the
  references `About` one element, and `H` is `Before`, the number of iterations so far
  that hit it): a thread's count is a difference at the two ends of its share, and the
  shares cover the loop from 0 to the end (`SharesTally`, whence `Tallied`).  How many
  iterations hit a column of `x` is a number of entries by `CsrColumn`, `CooColumn`,
  `EllColumn` and `SpilledColumn`, which rest on the bijections of the conversions.
  `OwnersAreThoseOfPages` uses that every reference is `Sound` (to an element its array
  has, by a thread there is) and `LookupFindsPlace`; `StringsAreOfTheSchedule` compares
  the described references with what the loops touch and uses `SharesFollowSchedule`.
* `SpmvTeam_proofs`: `NoRace`, `TypeCorrect` and `RunsAddProducts`, for every matrix,
  every kernel and inner loop, any number of threads configured and any team granted.
  That no two threads race has two halves.  What a thread has left of a loop is of its own share (`SharesInv`):
  `Targets` and `Sources` bound what a loop may touch, and `UpdatesAreOwn` shows it of
  each of the seven loops, for which the rows of the coordinates, sorted and split
  between the parts of the hybrid, must be rows of the matrix (`CooIsValid`).  And no thread is past a barrier that another has still to come to
  (`BarriersInv`), so that two threads are in the same loop or in one of two pairs
  joined by `nowait` (`LoopsTogether`).  `LoopsApart` brings them together: the
  iterations of a static schedule (`ScheduledApart`) or the blocks of the default one
  (`BlocksApart`) are disjoint, as are the slices of the workspace (`PartialApart`)
  and the groups of unrolled rows from the remaining ones (`RemainderIsApart`), which
  one thread alone has (`single`, in `WaitsInv`).

  `RunsAddProducts` says that at the end of each run every element of `y` is what it
  should be.  Its invariant `SumsInv` keeps an account (`LedgerInv`): what is in a cell
  of `y` or of the workspace, and what the threads have left to add to it in this run
  (`Left`: the updates of their loops, the loops ahead of them, and the remaining rows
  that nobody has taken yet), are together the cell's `Goal` at the end of the run.
  That entry is a claim about any moment of a run, in any order of the threads, and
  holds for two reasons.  A store adds what its update is worth: a sum that a thread has
  loaded is still current when it is stored (`TmpInv`, from `NoDataRace`), and a
  reduction reads the workspace only when nobody has anything left to add to it
  (`ReadsAreDone`, from the barrier before it).  And the account comes out when a run
  starts: `RunReachesGoal` says that what the loops of a run add is the difference of two
  goals.  It rests on one lemma for each loop (`RowsOwe`, `DirectOwe`, `AtomicOwe`,
  `PartialOwe`, `ReduceOwe`, `UnrolledOwe`, `RemainderAdds`), which says what all threads
  together add to a cell, because the schedules share the iterations out, and on the
  theorems about the rows.  The workspace is not zeroed, and its goal grows with the
  runs; that is where the triangular number in `RunAddsProduct` comes from.

The constants are assumed positive where the modules say so (`PAssumption`,
`NumThreadsAssumption`, `RunsAssumption`).  `GroupChoicesAssumption` says only that
configurations are non-empty lists of lists of names; the assumptions of `CacheTrace`
that the keys of a map are distinct, that the two names outside the configuration are,
and that a cache is a whole number of lines, which its constructor checks.
`MatricesAssumption` says that a matrix has rows, columns and entries, that the
entries lie in it, and that its columns are numbered by an `index_type`, of which the
largest value marks padding (`IsMatrix`); `XAssumption`, that the vector's elements are
integers, as the values are.  `SizesAssumption` says that an array starts at an
address that elements are aligned to and that is given as its offset in a page, which
is all `thread_of_index` and `distribute_pages` depend on.

Only model-checked: the streams, the
reader and the order, whose properties compare a machine at the end with what a whole
file or graph denotes, and have no inductive invariant yet; and the parser, which
declares recursive operators and is out of the provers' reach.  Liveness (termination
and the reporting of failures) is checked by TLC alone, as TLAPS has no means for
fairness here.

## 5. Not modelled

Left out: sample statistics (floating point), the option parser, the two output
buffers and the text of every report, the walk over the JSON tree in
`trace-config.cpp`, the MKL kernel (a library call, without a reference string),
METIS (the partitioning order is the identity in a build without it), the Knights
Corner and AVX-512 inner loops (not built here), and the allocators.  The overload
of `trace_cache_misses` for one string is the case of one CPU.  A cache of size
zero is excluded by assumption: the code would read an empty vector.  A negative
`numa_domain` passes the check of `trace-config.cpp:120` and indexes before an array;
its outcome is not determined by the code.

Where the properties stop, and why:

* *Kernels.*  Nothing zeroes the workspace of the COO and hybrid kernels between
  runs, so that the n-th run adds the COO part n times; `RunAddsProduct` states
  this sum.
* *Strings.*  `StringsFollowSchedule` leaves out what the strings do differently
  from the loops: the rows of the COO reduction are scheduled with a chunk of
  ceil(nnz / threads) and those of the hybrid's COO part with ceil(rows / threads),
  the string of a single thread refers to a workspace the code does not touch, and
  triad uses the default schedule.  `OwnersMatchPages` leaves out the arrays that a
  string charges to the row's thread while `prepare()` shares their pages evenly
  (CSR values, ELLPACK, `row_ptr`), and pages that begin with another thread's
  elements.  The product `page * page_size` overflows an `int` only above 2 GiB.
* *Reading.*  A number of the text is a unit and never cut in half; a cut between
  units is what the run explores.  An archive with two members of which one name
  begins with the other is read by the model as by the code, and `Sound` excludes it
  from the claim, as it does damaged files.  Sizes of 8 GiB and more in a tar header
  are not modelled.  Bytes after the compressed stream keep `underflow` in its loop:
  `ReadingEnds` excludes them.  A first entry that cannot be read is (0, 0, 0).
* *JSON.*  `Deviates` names where `json.c` differs from the grammar: `--5` is 5,
  `-0.5` is 0.5, bytes from 0x80 up are refused in strings.  Text after the value is
  ignored, the character 0x1F accepted; overflow of exponents and exhausted memory
  are not modelled.

## 6. Plan

Done: the core (policies, simulation, cache trace, profiling), the kernels with
their formats, strings and pages, performance events, reading and reordering, the
JSON parser; proofs of the LRU cache, of the comparison of policies, of the
simulation (signals, types, and that the counts are those of the reuse distances), of
the cache trace, of profiling, of the performance events, and of the kernels' freedom
from data races and the product they add; proofs of the arithmetic of schedules, pages
and vector loads, of the conversions, and of all properties of the reference strings.
Left: in `TraceConfig`, the check of NUMA domains as a step, and what the simulation
indexes with it; inductive invariants for the reader and the order.
