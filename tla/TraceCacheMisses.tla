------------------------- MODULE TraceCacheMisses ---------------------------
(***************************************************************************)
(* cache-simulation/replacement.cpp: trace_cache_misses for several CPUs   *)
(* sharing one cache, called once to warm the cache up and once to count   *)
(* (cache-trace.cpp), with the progress report that a one-shot SIGALRM     *)
(* requests.  The signal may arrive between any two statements.            *)
(***************************************************************************)
EXTENDS LRU, ReuseDistance, FiniteSetsExt

CONSTANTS
  P,                \* the number of CPUs that share the cache
  NumNumaDomains,   \* num_numa_domains
  References,       \* the <<address, NUMA domain>> pairs a string may hold
  MaxLength         \* bound: the length of a reference string

CPUs == 0 .. P - 1
Domains == 0 .. NumNumaDomains - 1

ASSUME PAssumption == P \in Nat \ {0}
ASSUME MaxLengthAssumption == MaxLength \in Nat
ASSUME ReferencesAssumption == References \subseteq Addresses \X Domains

VARIABLES
  ws,               \* the reference string of each CPU
  progress,         \* verbose && progress_interval > 0
  run,              \* 1: the warmup call, 2: the counted call
  pc,
  t, p,             \* the loop counters
  cache_misses,     \* [CPUs -> [Domains -> Nat]] of the current call
  warmup_misses,    \* what the warmup call returned, which the code drops
  print_progress,   \* the flag the signal handler sets
  alarm,            \* "off" or "armed"
  disposition       \* of SIGALRM: "default" or "handler"

loopVars == <<run, t, p, cache_misses, warmup_misses>>
signalVars == <<print_progress, alarm, disposition>>
traceVars == <<vars, ws, progress, pc, loopVars, signalVars>>

NoMisses == [c \in CPUs |-> [d \in Domains |-> 0]]

TMax == Max({Len(ws[c]) : c \in CPUs} \cup {0})

Goto(from, to) == pc = from /\ pc' = to

TraceInit ==
  /\ Constructed(<<>>)
  /\ ws \in [CPUs -> UNION {[1 .. n -> References] : n \in 0 .. MaxLength}]
  /\ progress \in BOOLEAN
  /\ run = 1 /\ pc = "reset" /\ t = 0 /\ p = 0
  /\ cache_misses = NoMisses /\ warmup_misses = NoMisses
  /\ print_progress = 0 /\ alarm = "off" /\ disposition = "default"

\* print_progress = 0; signal(SIGALRM, signal_handler); alarm(interval).
ResetFlag ==
  /\ Goto("reset", IF progress THEN "install" ELSE "loop")
  /\ print_progress' = IF progress THEN 0 ELSE print_progress
  /\ UNCHANGED <<vars, ws, progress, loopVars, alarm, disposition>>

InstallHandler ==
  /\ Goto("install", "arm")
  /\ disposition' = "handler"
  /\ UNCHANGED <<vars, ws, progress, loopVars, print_progress, alarm>>

ArmAlarm ==
  /\ Goto("arm", "loop")
  /\ alarm' = "armed"
  /\ UNCHANGED <<vars, ws, progress, loopVars, print_progress, disposition>>

\* The head of the loop over t, with the test of the flag.
LoopHead ==
  /\ pc = "loop"
  /\ pc' = IF t < TMax
           THEN IF progress /\ print_progress = 1 THEN "clear" ELSE "visit"
           ELSE IF progress THEN "disarm" ELSE "return"
  /\ UNCHANGED <<vars, ws, progress, loopVars, signalVars>>

\* After a report: print_progress = 0; alarm(progress_interval).
ClearFlag ==
  /\ Goto("clear", "rearm")
  /\ print_progress' = 0
  /\ UNCHANGED <<vars, ws, progress, loopVars, alarm, disposition>>

\* Mutant of RearmAlarm: the one-shot alarm is not set again.
RearmForgotten ==
  /\ Goto("rearm", "visit")
  /\ UNCHANGED <<vars, ws, progress, loopVars, signalVars>>

RearmAlarm ==
  /\ Goto("rearm", "visit")
  /\ alarm' = "armed"
  /\ UNCHANGED <<vars, ws, progress, loopVars, print_progress, disposition>>

\* Mutant of NextCPU: the loop over p runs to P inclusive.
NextCPUOffByOne ==
  /\ p' = IF p = P THEN 0 ELSE p + 1
  /\ t' = IF p = P THEN t + 1 ELSE t
  /\ pc' = IF p = P THEN "loop" ELSE "visit"

\* The end of the body of the loop over p, and of the loop over t.
NextCPU ==
  /\ p' = IF p = P - 1 THEN 0 ELSE p + 1
  /\ t' = IF p = P - 1 THEN t + 1 ELSE t
  /\ pc' = IF p = P - 1 THEN "loop" ELSE "visit"

\* One reference of CPU p goes through the cache.
Visit ==
  /\ pc = "visit" /\ t < Len(ws[p])
  /\ LET x == ws[p][t + 1]
     IN  /\ Allocate(x[1])
         /\ cache_misses' = [cache_misses EXCEPT ![p][x[2]] = @ + ret']
  /\ NextCPU
  /\ UNCHANGED <<ws, progress, run, warmup_misses, signalVars>>

\* Mutant of SkipShort: the last index is compared wrongly.
SkipShortOffByOne ==
  /\ pc = "visit" /\ t > Len(ws[p])
  /\ NextCPU
  /\ UNCHANGED <<vars, ws, progress, run, cache_misses, warmup_misses, signalVars>>

\* CPU p's string has ended before the longest one.
SkipShort ==
  /\ pc = "visit" /\ t >= Len(ws[p])
  /\ NextCPU
  /\ UNCHANGED <<vars, ws, progress, run, cache_misses, warmup_misses, signalVars>>

\* Mutant of DisarmAlarm: a pending alarm is left alone.
DisarmForgotten ==
  /\ Goto("disarm", "restore")
  /\ UNCHANGED <<vars, ws, progress, loopVars, signalVars>>

\* alarm(0); signal(SIGALRM, SIG_DFL).
DisarmAlarm ==
  /\ Goto("disarm", "restore")
  /\ alarm' = "off"
  /\ UNCHANGED <<vars, ws, progress, loopVars, print_progress, disposition>>

RestoreDefault ==
  /\ Goto("restore", "return")
  /\ disposition' = "default"
  /\ UNCHANGED <<vars, ws, progress, loopVars, print_progress, alarm>>

\* Mutants of ReturnWarmup: the counts go on from the warmup call's; the
\* counted call gets a new, empty cache.
ReturnWarmupAccumulates ==
  /\ run = 1 /\ Goto("return", "reset")
  /\ run' = 2 /\ t' = 0 /\ p' = 0
  /\ warmup_misses' = cache_misses
  /\ UNCHANGED <<vars, ws, progress, cache_misses, signalVars>>

ReturnWarmupCold ==
  /\ run = 1 /\ Goto("return", "reset")
  /\ run' = 2 /\ t' = 0 /\ p' = 0
  /\ warmup_misses' = cache_misses
  /\ cache_misses' = NoMisses
  /\ memory_references' = {} /\ q' = NewBuffer(Capacity) /\ ret' = 0
  /\ UNCHANGED <<ws, progress, signalVars>>

\* The warmup call returns; the counted call starts on the same cache.
ReturnWarmup ==
  /\ run = 1 /\ Goto("return", "reset")
  /\ run' = 2 /\ t' = 0 /\ p' = 0
  /\ warmup_misses' = cache_misses
  /\ cache_misses' = NoMisses
  /\ UNCHANGED <<vars, ws, progress, signalVars>>

ReturnCount ==
  /\ run = 2 /\ Goto("return", "done")
  /\ UNCHANGED <<vars, ws, progress, loopVars, signalVars>>

\* The alarm goes off.  The handler sets the flag; the default disposition
\* of SIGALRM ends the process.
SigAlarm ==
  /\ alarm = "armed"
  /\ alarm' = "off"
  /\ IF disposition = "handler"
     THEN print_progress' = 1 /\ UNCHANGED pc
     ELSE pc' = "killed" /\ UNCHANGED print_progress
  /\ UNCHANGED <<vars, ws, progress, loopVars, disposition>>

Main ==
  \/ ResetFlag \/ InstallHandler \/ ArmAlarm \/ LoopHead \/ ClearFlag
  \/ RearmAlarm \/ Visit \/ SkipShort \/ DisarmAlarm \/ RestoreDefault
  \/ ReturnWarmup \/ ReturnCount

TraceNext == Main \/ SigAlarm

\* The thread that traces keeps running; the alarm need not go off.
TraceSpec == TraceInit /\ [][TraceNext]_traceVars /\ WF_traceVars(Main)

-----------------------------------------------------------------------------
(* Correctness *)

TraceTypeOK ==
  /\ TypeOK
  /\ pc \in {"reset", "install", "arm", "loop", "clear", "rearm", "visit",
             "disarm", "restore", "return", "done", "killed"}
  /\ run \in {1, 2} /\ t \in 0 .. MaxLength /\ p \in CPUs
  /\ {cache_misses, warmup_misses} \subseteq [CPUs -> [Domains -> Nat]]
  /\ print_progress \in {0, 1} /\ alarm \in {"off", "armed"}
  /\ disposition \in {"default", "handler"}

\* What either call returns is what the reuse distances in the perfectly
\* interleaved string say, for each CPU and each NUMA domain; the counted
\* call's include the history that the warmup call left in the cache.
MissesMatchReuseDistance ==
  pc = "return" =>
    \A c \in CPUs, d \in Domains :
      cache_misses[c][d] = MissesOf(ws, run, c, d, CacheLines, CacheLineSize)

\* No reference that hit a cold cache misses the warmed-up one: at no point
\* of the counted call has a CPU more misses than its warmup call had.
WarmupNeverAddsMisses ==
  run = 2 => \A c \in CPUs, d \in Domains :
               cache_misses[c][d] <= warmup_misses[c][d]

\* SIGALRM never arrives while its disposition is to end the process.
NeverKilled == pc # "killed"

\* While the loop runs with progress reports on, either the alarm is armed,
\* or the flag waits to be seen, or the alarm is about to be armed again:
\* no request is lost between the test of the flag and the rearming.
ReportsKeepComing ==
  progress /\ pc \in {"loop", "clear", "rearm", "visit"} =>
    \/ alarm = "armed"
    \/ print_progress = 1
    \/ pc = "rearm"

\* However often the alarm goes off, both calls return.
TracingTerminates == <>(pc = "done")
=============================================================================
