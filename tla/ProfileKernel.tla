--------------------------- MODULE ProfileKernel ----------------------------
(***************************************************************************)
(* profile-kernel.cpp: an OpenMP team profiles a kernel.  The threads meet *)
(* at the barriers of the parallel region; thread 0 is the master, takes   *)
(* the times and collects every thread's counter values.  Any thread may   *)
(* throw where the code calls the system; it then leaves the region, past  *)
(* the barriers that are still ahead of it.                                *)
(***************************************************************************)
EXTENDS Naturals, FiniteSets

CONSTANTS NumThreads, Runs

ASSUME NumThreadsAssumption == NumThreads \in Nat \ {0}
ASSUME RunsAssumption == Runs \in Nat \ {0}

Threads == 0 .. NumThreads - 1

\* Where a thread can throw.  The points of one segment have no barrier
\* between them; "prepare" is in the master construct of distribute_pages.
Segments ==
  {{"affinity", "open"}, {"prepare"}, {"enable"}, {"disable", "update"}}
FaultPoints == UNION Segments

VARIABLES
  warmup, flush_caches,   \* the options
  fault,         \* [Threads -> FaultPoints \cup {"none"}]: where each throws
  faultRun,      \* and in which profiling run
  pc,            \* [Threads -> labels]
  run,           \* [Threads -> Nat]: the loop counter
  enabled,       \* [Threads -> BOOLEAN]: the thread's counters count
  counter,       \* [Threads -> sets of runs]: the kernel runs they counted
  value,         \* [Threads -> sets of runs]: as last stored by update()
  timing,        \* the master has taken t0, and not yet t1
  profiling_runs,   \* [1 .. Runs -> [Threads -> sets of runs]]
  exception,     \* the thread whose exception was stored, or NumThreads
  outcome        \* of profile_kernel: "running", "returned" or "rethrown"

options == <<warmup, flush_caches, fault, faultRun>>
counters == <<enabled, counter, value>>
profileVars ==
  <<options, pc, run, counters, timing, profiling_runs, exception, outcome>>

NoException == NumThreads

Init ==
  /\ warmup \in BOOLEAN /\ flush_caches \in BOOLEAN
  /\ fault \in [Threads -> FaultPoints \cup {"none"}]
  /\ \A i \in Threads \ {0} : fault[i] # "prepare"
  /\ faultRun \in 1 .. Runs
  /\ pc = [i \in Threads |-> "affinity"]
  /\ run = [i \in Threads |-> 0]
  /\ enabled = [i \in Threads |-> FALSE]
  /\ counter = [i \in Threads |-> {}]
  /\ value = [i \in Threads |-> {}]
  /\ timing = FALSE
  /\ profiling_runs = [r \in 1 .. Runs |-> [i \in Threads |-> {}]]
  /\ exception = NoException
  /\ outcome = "running"

Goto(i, from, to) == pc[i] = from /\ pc' = [pc EXCEPT ![i] = to]

Throws(i, point) ==
  /\ fault[i] = point
  /\ point \in {"enable", "disable", "update"} => run[i] = faultRun

Throw(i) ==
  /\ pc[i] \in FaultPoints /\ Throws(i, pc[i])
  /\ pc' = [pc EXCEPT ![i] = "catch"]
  /\ UNCHANGED <<options, run, counters, timing, profiling_runs, exception, outcome>>

\* One call of the prologue that does not throw: sched_setaffinity,
\* make_event_group, and the part of prepare() between two barriers.
Call(i, point, to) ==
  /\ Goto(i, point, to) /\ ~ Throws(i, point)
  /\ UNCHANGED <<options, run, counters, timing, profiling_runs, exception, outcome>>

SetAffinity(i) == Call(i, "affinity", "open")
OpenEvents(i) == Call(i, "open", "prepare_in")
PrepareKernel(i) == Call(i, "prepare", "prepare_out")

\* Mutant of LoopHead: one run too many.
LoopHeadOneMore(done) ==
  IF done > Runs THEN "final" ELSE IF flush_caches THEN "flush_1" ELSE "start"

\* The head of the loop over the runs, after `done` of them.
LoopHead(done) ==
  IF done = Runs THEN "final" ELSE IF flush_caches THEN "flush_1" ELSE "start"

\* kernel.run() before the first profiling run, with the counters off.
WarmUp(i) ==
  /\ Goto(i, "warmup", LoopHead(0))
  /\ run' = [run EXCEPT ![i] = 1]
  /\ counter' = IF warmup /\ enabled[i]
                THEN [counter EXCEPT ![i] = @ \cup {0}] ELSE counter
  /\ UNCHANGED <<options, enabled, value, timing, profiling_runs, exception, outcome>>

\* Mutant of Enable: the counters go on from the previous run.
EnableWithoutReset(i) ==
  /\ Goto(i, "enable", "begin") /\ ~ Throws(i, "enable")
  /\ enabled' = [enabled EXCEPT ![i] = TRUE]
  /\ UNCHANGED <<options, run, counter, value, timing, profiling_runs, exception, outcome>>

\* EventGroup::enable resets the counters and starts them.
Enable(i) ==
  /\ Goto(i, "enable", "begin") /\ ~ Throws(i, "enable")
  /\ enabled' = [enabled EXCEPT ![i] = TRUE]
  /\ counter' = [counter EXCEPT ![i] = {}]
  /\ UNCHANGED <<options, run, value, timing, profiling_runs, exception, outcome>>

\* Mutant of TakeStartTime: no barrier between it and the kernel.
StartAtOnce(i) ==
  /\ Goto(i, "begin", "kernel")
  /\ timing' = IF i = 0 THEN TRUE ELSE timing
  /\ UNCHANGED <<options, run, counters, profiling_runs, exception, outcome>>

TakeStartTime(i) ==
  /\ Goto(i, "begin", "go")
  /\ timing' = IF i = 0 THEN TRUE ELSE timing
  /\ UNCHANGED <<options, run, counters, profiling_runs, exception, outcome>>

\* The thread's share of kernel.run().
RunKernel(i) ==
  /\ Goto(i, "kernel", "stop")
  /\ counter' = IF enabled[i] THEN [counter EXCEPT ![i] = @ \cup {run[i]}]
                ELSE counter
  /\ UNCHANGED <<options, run, enabled, value, timing, profiling_runs, exception, outcome>>

TakeEndTime(i) ==
  /\ Goto(i, "stopped", "disable")
  /\ timing' = IF i = 0 THEN FALSE ELSE timing
  /\ UNCHANGED <<options, run, counters, profiling_runs, exception, outcome>>

Disable(i) ==
  /\ Goto(i, "disable", "update") /\ ~ Throws(i, "disable")
  /\ enabled' = [enabled EXCEPT ![i] = FALSE]
  /\ UNCHANGED <<options, run, counter, value, timing, profiling_runs, exception, outcome>>

\* Mutants of Update: no barrier before the master reads the values; the
\* barrier is in the master construct.
UpdateWithoutBarrier(i) ==
  /\ Goto(i, "update", "record") /\ ~ Throws(i, "update")
  /\ value' = [value EXCEPT ![i] = counter[i]]
  /\ UNCHANGED <<options, run, enabled, counter, timing, profiling_runs, exception, outcome>>

UpdateMasterBarrier(i) ==
  /\ Goto(i, "update", IF i = 0 THEN "end" ELSE "record") /\ ~ Throws(i, "update")
  /\ value' = [value EXCEPT ![i] = counter[i]]
  /\ UNCHANGED <<options, run, enabled, counter, timing, profiling_runs, exception, outcome>>

\* EventGroup::update reads the counters.
Update(i) ==
  /\ Goto(i, "update", "end") /\ ~ Throws(i, "update")
  /\ value' = [value EXCEPT ![i] = counter[i]]
  /\ UNCHANGED <<options, run, enabled, counter, timing, profiling_runs, exception, outcome>>

\* The master stores the values of all threads; then the next run begins.
Record(i) ==
  /\ Goto(i, "record", LoopHead(run[i]))
  /\ profiling_runs' = IF i = 0 THEN [profiling_runs EXCEPT ![run[i]] = value]
                       ELSE profiling_runs
  /\ run' = [run EXCEPT ![i] = @ + 1]
  /\ UNCHANGED <<options, counters, timing, exception, outcome>>

\* Mutant of Catch: the exception is not stored.
CatchAndForget(i) ==
  /\ Goto(i, "catch", "leave")
  /\ UNCHANGED <<options, run, counters, timing, profiling_runs, exception, outcome>>

\* The handler, under the mutex: the first exception is kept.
Catch(i) ==
  /\ Goto(i, "catch", "leave")
  /\ exception' = IF exception = NoException THEN i ELSE exception
  /\ UNCHANGED <<options, run, counters, timing, profiling_runs, outcome>>

\* The barriers, explicit and implied by `omp for`, and what follows each.
AfterBarrier ==
  [prepare_in |-> "prepare", prepare_out |-> "warmup",
   flush_1 |-> "flush_2", flush_2 |-> "start",
   start |-> "enable", go |-> "kernel", stop |-> "stopped", end |-> "record",
   final |-> "leave"]

\* The team has one barrier: it opens when every thread waits at it.
Barrier ==
  /\ \A i \in Threads : pc[i] \in DOMAIN AfterBarrier
  /\ pc' = [i \in Threads |-> AfterBarrier[pc[i]]]
  /\ UNCHANGED <<options, run, counters, timing, profiling_runs, exception, outcome>>

\* Waiting at a barrier that a thread has left the region past is undefined
\* in OpenMP.  The team may wait forever.  A runtime whose region ends at
\* the team's one barrier (libgomp's) may take the thread at the region's
\* end for one that arrives: that barrier opens, and the thread is gone from
\* the next; if it is the master, it returns to the caller, and rethrows.
BarrierWithoutAll ==
  /\ \A i \in Threads : pc[i] \in DOMAIN AfterBarrier \cup {"leave"}
  /\ \E i, j \in Threads : pc[i] = "leave" /\ pc[j] # "leave"
  /\ pc' = [i \in Threads |-> IF pc[i] = "leave" THEN "gone" ELSE AfterBarrier[pc[i]]]
  /\ outcome' = IF pc[0] = "leave" THEN "rethrown" ELSE outcome
  /\ UNCHANGED <<options, run, counters, timing, profiling_runs, exception>>

\* The end of the parallel region waits for all threads; the caller then
\* rethrows the exception that was stored.
Join ==
  /\ outcome = "running"
  /\ \A i \in Threads : pc[i] = "leave"
  /\ outcome' = IF exception = NoException THEN "returned" ELSE "rethrown"
  /\ UNCHANGED <<options, pc, run, counters, timing, profiling_runs, exception>>

Step(i) ==
  \/ SetAffinity(i) \/ OpenEvents(i) \/ PrepareKernel(i) \/ WarmUp(i)
  \/ Enable(i) \/ TakeStartTime(i) \/ RunKernel(i) \/ TakeEndTime(i)
  \/ Disable(i) \/ Update(i) \/ Record(i) \/ Throw(i) \/ Catch(i)

Next == Barrier \/ BarrierWithoutAll \/ Join \/ \E i \in Threads : Step(i)

\* The operating system runs every thread, and the runtime opens a barrier
\* that every thread waits at; it owes nothing to an incomplete one.
Fairness ==
  /\ WF_profileVars(Barrier) /\ WF_profileVars(Join)
  /\ \A i \in Threads : WF_profileVars(Step(i))

Spec == Init /\ [][Next]_profileVars /\ Fairness

-----------------------------------------------------------------------------
(* Correctness *)

Labels == DOMAIN AfterBarrier \cup FaultPoints
            \cup {"warmup", "begin", "kernel", "stopped", "record", "catch", "leave",
                   "gone"}

TypeOK ==
  /\ pc \in [Threads -> Labels]
  /\ run \in [Threads -> 0 .. Runs + 1]
  /\ enabled \in [Threads -> BOOLEAN]
  /\ {counter, value} \subseteq [Threads -> SUBSET (0 .. Runs)]
  /\ timing \in BOOLEAN
  /\ profiling_runs \in [1 .. Runs -> [Threads -> SUBSET (0 .. Runs)]]
  /\ exception \in 0 .. NumThreads
  /\ outcome \in {"running", "returned", "rethrown"}

\* Every sample that profile_kernel returns counts its own run of the
\* kernel, in every thread, and neither an earlier run nor the warmup.
SamplesAreOfTheirRun ==
  outcome = "returned" =>
    \A r \in 1 .. Runs, i \in Threads : profiling_runs[r][i] = {r}

\* The execution time covers the kernel: no thread is in kernel.run()
\* before the master has taken t0 or after it has taken t1, and by then
\* every thread's counters are on.  (Once a thread has failed there is no
\* result that the times could be part of.)
MeasurementCoversKernel ==
  exception = NoException =>
    \A i \in Threads :
      pc[i] = "kernel" => timing /\ \A j \in Threads : enabled[j]

\* The master reads the event groups of all threads while no thread can
\* change its own.
NoRaceOnEventGroups ==
  pc[0] = "record" =>
    \A i \in Threads : pc[i] \notin {"enable", "disable", "update"}

\* profile_kernel returns samples only if no thread failed on the way.
NoFailureSwallowed ==
  outcome = "returned" => \A i \in Threads : fault[i] = "none"

\* When no thread fails, or all of them do before the same barrier, the call
\* ends: nobody waits for a thread that has left the region.
TeamFailureReported ==
  (\/ \A i \in Threads : fault[i] = "none"
   \/ \E S \in Segments : \A i \in Threads : fault[i] \in S)
  => <>(outcome # "running")

\* README.md:201-202, on "perf_event_open(...): Permission denied": "If you
\* see this message, then you may not have sufficient permissions".  When
\* the counters of some threads cannot be opened, the call ends and says so.
OpenFailureReported ==
  (\A i \in Threads : fault[i] \in {"none", "open"}) => <>(outcome # "running")
=============================================================================
