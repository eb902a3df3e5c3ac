------------------------ MODULE ProfileKernel_proofs ------------------------
(***************************************************************************)
(* What keeps the threads of a team of any size together, for any number   *)
(* of runs and whichever of them fail: the threads still in the region     *)
(* are between the same two barriers, in the same run.                     *)
(***************************************************************************)
EXTENDS ProfileKernel, Integers, TLAPS

Gone == {"catch", "leave", "gone"}

\* The first barrier of a run.
RunHead == {"final", IF flush_caches THEN "flush_1" ELSE "start"}

\* The labels between two barriers.
Stretches ==
  {{"affinity", "open", "prepare_in"}, {"prepare", "prepare_out"},
   RunHead \cup {"warmup"}, RunHead \cup {"record"}, {"flush_2"}, {"start"},
   {"enable", "begin", "go"}, {"kernel", "stop"},
   {"stopped", "disable", "update", "end"}}

BeforeRuns == {"affinity", "open", "prepare_in", "prepare", "prepare_out", "warmup"}

\* The run that the thread is in or, at the end of one, the next one.
Coming(i) == IF pc[i] \in {"warmup", "record"} THEN run[i] + 1 ELSE run[i]

RunsInStep ==
  \A i \in Threads :
    /\ pc[i] \in BeforeRuns => run[i] = 0
    /\ pc[i] = "final" => run[i] = Runs + 1
    /\ pc[i] \notin BeforeRuns \cup {"final"} \cup Gone => run[i] \in 1 .. Runs
    /\ pc[i] \in {"flush_1", "flush_2"} => flush_caches

Lockstep ==
  \A i, j \in Threads : pc[i] \notin Gone /\ pc[j] \notin Gone =>
    /\ \E S \in Stretches : pc[i] \in S /\ pc[j] \in S
    /\ Coming(i) = Coming(j)

IInv == TypeOK /\ RunsInStep /\ Lockstep

LEMMA BarrierLabels ==
  /\ DOMAIN AfterBarrier = {"prepare_in", "prepare_out", "flush_1", "flush_2", "start",
                            "go", "stop", "end", "final"}
  /\ AfterBarrier["prepare_in"] = "prepare" /\ AfterBarrier["prepare_out"] = "warmup"
  /\ AfterBarrier["flush_1"] = "flush_2" /\ AfterBarrier["flush_2"] = "start"
  /\ AfterBarrier["start"] = "enable" /\ AfterBarrier["go"] = "kernel"
  /\ AfterBarrier["stop"] = "stopped" /\ AfterBarrier["end"] = "record"
  /\ AfterBarrier["final"] = "leave"
BY DEF AfterBarrier

LEMMA PointsAreThese ==
  FaultPoints = {"affinity", "open", "prepare", "enable", "disable", "update"}
BY DEF FaultPoints, Segments

LEMMA LabelsAreThese ==
  Labels = {"prepare_in", "prepare_out", "flush_1", "flush_2", "start", "go", "stop", "end",
            "final", "affinity", "open", "prepare", "enable", "disable", "update", "warmup",
            "begin", "kernel", "stopped", "record", "catch", "leave", "gone"}
BY BarrierLabels, PointsAreThese DEF Labels

\* The type of the parts of the state that a step moves, thread by thread.
LEMMA TypesByThread ==
  ASSUME TypeOK, NEW i \in Threads
  PROVE  /\ pc[i] \in Labels /\ run[i] \in 0 .. Runs + 1 /\ enabled[i] \in BOOLEAN
         /\ counter[i] \in SUBSET (0 .. Runs) /\ value[i] \in SUBSET (0 .. Runs)
BY DEF TypeOK

LEMMA HeadOfLoop ==
  ASSUME NEW done \in 0 .. Runs
  PROVE  /\ LoopHead(done) \in RunHead /\ LoopHead(done) \in Labels \ Gone
         /\ LoopHead(done) \notin BeforeRuns
         /\ LoopHead(done) = "final" <=> done = Runs
         /\ LoopHead(done) \in {"flush_1", "flush_2"} => flush_caches
BY LabelsAreThese DEF LoopHead, RunHead, Gone, BeforeRuns

\* Threads that wait at a barrier wait at the same one.
LEMMA SameBarrier ==
  ASSUME IInv, NEW i \in Threads, NEW j \in Threads,
         pc[i] \in DOMAIN AfterBarrier, pc[j] \in DOMAIN AfterBarrier
  PROVE  pc[i] = pc[j] /\ run[i] = run[j]
<1>1. /\ pc[i] \notin Gone \cup {"warmup", "record"}
      /\ pc[j] \notin Gone \cup {"warmup", "record"}
  BY BarrierLabels DEF Gone
<1>2. PICK S \in Stretches : pc[i] \in S /\ pc[j] \in S
  BY <1>1 DEF IInv, Lockstep
<1>3. run[i] = run[j]
  BY <1>1 DEF IInv, Lockstep, Coming
<1>4. run[i] \in Nat
  BY RunsAssumption DEF IInv, TypeOK
<1>5. pc[i] = "final" <=> pc[j] = "final"
  BY <1>1, <1>3, <1>4, BarrierLabels, RunsAssumption DEF IInv, RunsInStep, BeforeRuns, Gone
<1>6. QED
  BY <1>2, <1>3, <1>5, BarrierLabels DEF Stretches, RunHead

-----------------------------------------------------------------------------
(* The invariant is kept. *)

LEMMA InitEstablishes == Init => IInv
<1> SUFFICES ASSUME Init PROVE IInv
  OBVIOUS
<1>1. TypeOK
  <2>1. "affinity" \in Labels /\ 0 \in 0 .. Runs + 1 /\ NumThreads \in 0 .. NumThreads
    BY LabelsAreThese, NumThreadsAssumption, RunsAssumption
  <2>2. /\ pc \in [Threads -> Labels] /\ run \in [Threads -> 0 .. Runs + 1]
        /\ enabled \in [Threads -> BOOLEAN]
        /\ counter \in [Threads -> SUBSET (0 .. Runs)]
        /\ value \in [Threads -> SUBSET (0 .. Runs)]
    BY <2>1 DEF Init
  <2>3. profiling_runs \in [1 .. Runs -> [Threads -> SUBSET (0 .. Runs)]]
    BY DEF Init
  <2>4. QED
    BY <2>1, <2>2, <2>3 DEF Init, TypeOK, NoException
<1>2. RunsInStep
  BY DEF Init, RunsInStep, BeforeRuns, Gone
<1>3. Lockstep
  BY DEF Init, Lockstep, Stretches, Coming
<1>4. QED
  BY <1>1, <1>2, <1>3 DEF IInv

\* What thread i's invariant says when the others are left aside.
RunInStep(i) ==
  /\ pc[i] \in BeforeRuns => run[i] = 0
  /\ pc[i] = "final" => run[i] = Runs + 1
  /\ pc[i] \notin BeforeRuns \cup {"final"} \cup Gone => run[i] \in 1 .. Runs
  /\ pc[i] \in {"flush_1", "flush_2"} => flush_caches

\* A step of thread i leaves the others where they are, and itself either
\* leaves the region or stays between the same barriers, in the same run.
Stays(i) ==
  /\ UNCHANGED options
  /\ \A j \in Threads \ {i} : pc'[j] = pc[j] /\ run'[j] = run[j]
  /\ RunInStep(i)'
  /\ \/ pc'[i] \in Gone
     \/ /\ pc[i] \notin Gone /\ Coming(i)' = Coming(i)
        /\ \A S \in Stretches : pc[i] \in S => pc'[i] \in S

LEMMA StepStays ==
  ASSUME IInv, NEW i \in Threads, Step(i)
  PROVE  Stays(i)
<1>1. /\ DOMAIN pc = Threads /\ DOMAIN run = Threads
      /\ run[i] \in 0 .. Runs + 1 /\ RunInStep(i) /\ Runs \in Nat
  BY RunsAssumption DEF IInv, TypeOK, RunsInStep, RunInStep
<1>2. ASSUME NEW from \in Labels \ Gone, NEW to \in Labels \ Gone, Goto(i, from, to),
             <<from, to>> \in
               {<<"affinity", "open">>, <<"open", "prepare_in">>, <<"prepare", "prepare_out">>,
                <<"enable", "begin">>, <<"begin", "go">>, <<"kernel", "stop">>,
                <<"stopped", "disable">>, <<"disable", "update">>, <<"update", "end">>},
             UNCHANGED <<options, run>>
      PROVE  Stays(i)
  <2>1. pc[i] = from /\ pc'[i] = to /\ \A j \in Threads \ {i} : pc'[j] = pc[j]
    BY <1>1, <1>2 DEF Goto
  <2>2. \A S \in Stretches : from \in S => to \in S
    BY <1>2 DEF Stretches, RunHead
  <2>3. RunInStep(i)'
    BY <1>1, <1>2, <2>1 DEF RunInStep, BeforeRuns, Gone, options
  <2>4. Coming(i)' = Coming(i)
    BY <1>2, <2>1 DEF Coming
  <2>5. QED
    BY <1>2, <2>1, <2>2, <2>3, <2>4 DEF Stays
<1>3. CASE SetAffinity(i)
  BY <1>2, <1>3, LabelsAreThese DEF SetAffinity, Call, Gone
<1>4. CASE OpenEvents(i)
  BY <1>2, <1>4, LabelsAreThese DEF OpenEvents, Call, Gone
<1>5. CASE PrepareKernel(i)
  BY <1>2, <1>5, LabelsAreThese DEF PrepareKernel, Call, Gone
<1>6. CASE WarmUp(i)
  <2>1. /\ pc[i] = "warmup" /\ pc'[i] = LoopHead(0) /\ run[i] = 0 /\ run'[i] = 1
        /\ \A j \in Threads \ {i} : pc'[j] = pc[j] /\ run'[j] = run[j]
        /\ UNCHANGED options
    BY <1>1, <1>6 DEF WarmUp, Goto, RunInStep, BeforeRuns
  <2>2. /\ pc'[i] \in RunHead \ Gone /\ pc'[i] \notin BeforeRuns /\ pc'[i] # "final"
        /\ pc'[i] \in {"flush_1", "flush_2"} => flush_caches
    BY <2>1, HeadOfLoop, RunsAssumption
  <2>3. RunInStep(i)'
    BY <2>1, <2>2, RunsAssumption DEF RunInStep, options
  <2>4. Coming(i)' = Coming(i)
    BY <2>1, <2>2 DEF Coming, RunHead
  <2>5. \A S \in Stretches : "warmup" \in S => pc'[i] \in S
    BY <2>2 DEF Stretches, RunHead
  <2>6. QED
    BY <2>1, <2>2, <2>3, <2>4, <2>5 DEF Stays, Gone
<1>7. CASE Enable(i)
  BY <1>2, <1>7, LabelsAreThese DEF Enable, Gone
<1>8. CASE TakeStartTime(i)
  BY <1>2, <1>8, LabelsAreThese DEF TakeStartTime, Gone
<1>9. CASE RunKernel(i)
  BY <1>2, <1>9, LabelsAreThese DEF RunKernel, Gone
<1>10. CASE TakeEndTime(i)
  BY <1>2, <1>10, LabelsAreThese DEF TakeEndTime, Gone
<1>11. CASE Disable(i)
  BY <1>2, <1>11, LabelsAreThese DEF Disable, Gone
<1>12. CASE Update(i)
  BY <1>2, <1>12, LabelsAreThese DEF Update, Gone
<1>13. CASE Record(i)
  <2>1. /\ pc[i] = "record" /\ pc'[i] = LoopHead(run[i])
        /\ run[i] \in 1 .. Runs /\ run'[i] = run[i] + 1
        /\ \A j \in Threads \ {i} : pc'[j] = pc[j] /\ run'[j] = run[j]
        /\ UNCHANGED options
    BY <1>1, <1>13 DEF Record, Goto, RunInStep, BeforeRuns, Gone
  <2>2. /\ pc'[i] \in RunHead \ Gone /\ pc'[i] \notin BeforeRuns
        /\ pc'[i] = "final" <=> run[i] = Runs
        /\ pc'[i] \in {"flush_1", "flush_2"} => flush_caches
    BY <1>1, <2>1, HeadOfLoop
  <2>3. RunInStep(i)'
    BY <1>1, <2>1, <2>2 DEF RunInStep, options
  <2>4. Coming(i)' = Coming(i)
    BY <2>1, <2>2 DEF Coming, RunHead
  <2>5. \A S \in Stretches : "record" \in S => pc'[i] \in S
    BY <2>2 DEF Stretches, RunHead
  <2>6. QED
    BY <2>1, <2>2, <2>3, <2>4, <2>5 DEF Stays, Gone
<1>14. ASSUME NEW to \in Gone, pc' = [pc EXCEPT ![i] = to], UNCHANGED <<options, run>>
       PROVE  Stays(i)
  BY <1>1, <1>14 DEF Stays, RunInStep, Gone, BeforeRuns
<1>15. CASE Throw(i)
  BY <1>14, <1>15 DEF Throw, Gone
<1>16. CASE Catch(i)
  BY <1>14, <1>16 DEF Catch, Goto, Gone
<1>17. QED
  BY <1>3, <1>4, <1>5, <1>6, <1>7, <1>8, <1>9, <1>10, <1>11, <1>12, <1>13, <1>15, <1>16 DEF Step

LEMMA StayingKeepsStep ==
  ASSUME IInv, NEW i \in Threads, Stays(i)
  PROVE  RunsInStep' /\ Lockstep'
<1>1. flush_caches' = flush_caches /\ Stretches' = Stretches
  BY DEF Stays, options, Stretches, RunHead
<1>2. RunsInStep'
  BY <1>1 DEF IInv, RunsInStep, Stays, RunInStep
<1>3. Lockstep'
  <2> SUFFICES ASSUME NEW k \in Threads, NEW j \in Threads,
                      pc'[k] \notin Gone, pc'[j] \notin Gone
               PROVE  /\ \E S \in Stretches : pc'[k] \in S /\ pc'[j] \in S
                      /\ Coming(k)' = Coming(j)'
    BY <1>1 DEF Lockstep
  <2>1. \A l \in {k, j} : /\ pc[l] \notin Gone /\ Coming(l)' = Coming(l)
                          /\ \A S \in Stretches : pc[l] \in S => pc'[l] \in S
    BY DEF Stays, Coming
  <2>2. QED
    BY <2>1 DEF IInv, Lockstep
<1>4. QED
  BY <1>2, <1>3

LEMMA StepKeepsType ==
  ASSUME IInv, NEW i \in Threads, Step(i)
  PROVE  TypeOK'
<1> USE DEF IInv
<1>1. /\ pc \in [Threads -> Labels] /\ run \in [Threads -> 0 .. Runs + 1]
      /\ enabled \in [Threads -> BOOLEAN]
      /\ counter \in [Threads -> SUBSET (0 .. Runs)]
      /\ value \in [Threads -> SUBSET (0 .. Runs)]
      /\ Runs \in Nat /\ RunInStep(i)
  BY RunsAssumption DEF TypeOK, RunsInStep, RunInStep
<1>2. ASSUME NEW to \in Labels, pc' = [pc EXCEPT ![i] = to]
      PROVE  pc' \in [Threads -> Labels]
  BY <1>1, <1>2
<1>3. CASE SetAffinity(i) \/ OpenEvents(i) \/ PrepareKernel(i)
  <2>1. PICK to \in Labels : pc' = [pc EXCEPT ![i] = to]
    BY <1>3, LabelsAreThese DEF SetAffinity, OpenEvents, PrepareKernel, Call, Goto
  <2>2. UNCHANGED <<run, counters, timing, profiling_runs, exception, outcome>>
    BY <1>3 DEF SetAffinity, OpenEvents, PrepareKernel, Call
  <2>3. QED
    BY <1>2, <2>1, <2>2 DEF TypeOK, counters
<1>4. CASE WarmUp(i)
  <2>1. LoopHead(0) \in Labels /\ 1 \in 0 .. Runs + 1
    BY HeadOfLoop, RunsAssumption
  <2>2. pc' \in [Threads -> Labels] /\ run' \in [Threads -> 0 .. Runs + 1]
    BY <1>1, <1>4, <2>1 DEF WarmUp, Goto
  <2>3. counter' \in [Threads -> SUBSET (0 .. Runs)]
    BY <1>1, <1>4 DEF WarmUp
  <2>4. QED
    BY <1>4, <2>2, <2>3 DEF TypeOK, WarmUp
<1>5. CASE Enable(i)
  <2>1. pc' \in [Threads -> Labels]
    BY <1>2, <1>5, LabelsAreThese DEF Enable, Goto
  <2>2. /\ enabled' \in [Threads -> BOOLEAN]
        /\ counter' \in [Threads -> SUBSET (0 .. Runs)]
    BY <1>1, <1>5 DEF Enable
  <2>3. QED
    BY <1>5, <2>1, <2>2 DEF TypeOK, Enable
<1>6. CASE TakeStartTime(i) \/ TakeEndTime(i)
  <2>1. pc' \in [Threads -> Labels]
    BY <1>2, <1>6, LabelsAreThese DEF TakeStartTime, TakeEndTime, Goto
  <2>2. timing' \in BOOLEAN
    BY <1>6 DEF TakeStartTime, TakeEndTime, TypeOK
  <2>3. UNCHANGED <<run, counters, profiling_runs, exception, outcome>>
    BY <1>6 DEF TakeStartTime, TakeEndTime
  <2>4. QED
    BY <2>1, <2>2, <2>3 DEF TypeOK, counters
<1>7. CASE RunKernel(i)
  <2>1. pc' \in [Threads -> Labels] /\ pc[i] = "kernel"
    BY <1>2, <1>7, LabelsAreThese DEF RunKernel, Goto
  <2>2. run[i] \in 0 .. Runs
    BY <1>1, <2>1 DEF RunInStep, BeforeRuns, Gone
  <2>3. counter' \in [Threads -> SUBSET (0 .. Runs)]
    BY <1>1, <1>7, <2>2 DEF RunKernel
  <2>4. QED
    BY <1>7, <2>1, <2>3 DEF TypeOK, RunKernel
<1>8. CASE Disable(i)
  <2>1. pc' \in [Threads -> Labels]
    BY <1>2, <1>8, LabelsAreThese DEF Disable, Goto
  <2>2. enabled' \in [Threads -> BOOLEAN]
    BY <1>1, <1>8 DEF Disable
  <2>3. QED
    BY <1>8, <2>1, <2>2 DEF TypeOK, Disable
<1>9. CASE Update(i)
  <2>1. pc' \in [Threads -> Labels]
    BY <1>2, <1>9, LabelsAreThese DEF Update, Goto
  <2>2. value' \in [Threads -> SUBSET (0 .. Runs)]
    BY <1>1, <1>9 DEF Update
  <2>3. QED
    BY <1>9, <2>1, <2>2 DEF TypeOK, Update
<1>10. CASE Record(i)
  <2>1. run[i] \in 1 .. Runs
    BY <1>1, <1>10 DEF Record, Goto, RunInStep, BeforeRuns, Gone
  <2>2. LoopHead(run[i]) \in Labels /\ run[i] + 1 \in 0 .. Runs + 1
    BY <1>1, <2>1, HeadOfLoop
  <2>3. pc' \in [Threads -> Labels] /\ run' \in [Threads -> 0 .. Runs + 1]
    BY <1>1, <1>10, <2>2 DEF Record, Goto
  <2>4. profiling_runs' \in [1 .. Runs -> [Threads -> SUBSET (0 .. Runs)]]
    BY <1>1, <1>10, <2>1 DEF Record, TypeOK
  <2>5. QED
    BY <1>10, <2>3, <2>4 DEF TypeOK, Record, counters
<1>11. CASE Throw(i)
  <2>1. pc' \in [Threads -> Labels]
    BY <1>2, <1>11, LabelsAreThese DEF Throw
  <2>2. QED
    BY <1>11, <2>1 DEF TypeOK, Throw, counters
<1>12. CASE Catch(i)
  <2>1. pc' \in [Threads -> Labels]
    BY <1>2, <1>12, LabelsAreThese DEF Catch, Goto
  <2>2. exception' \in 0 .. NumThreads
    BY <1>12, NumThreadsAssumption DEF Catch, TypeOK, Threads
  <2>3. QED
    BY <1>12, <2>1, <2>2 DEF TypeOK, Catch, counters
<1>13. QED
  BY <1>3, <1>4, <1>5, <1>6, <1>7, <1>8, <1>9, <1>10, <1>11, <1>12 DEF Step

\* When a barrier opens, the threads at it go on together; those that have
\* left the region stay away.
LEMMA BarrierKeepsInvariant ==
  ASSUME IInv, UNCHANGED <<options, run, counters, timing, profiling_runs, exception>>,
         outcome' \in {"running", "returned", "rethrown"},
         pc' \in [Threads -> Labels],
         \A i \in Threads :
           \/ pc[i] \in DOMAIN AfterBarrier /\ pc'[i] = AfterBarrier[pc[i]]
           \/ pc[i] = "leave" /\ pc'[i] = "gone"
  PROVE  IInv'
<1>1. flush_caches' = flush_caches /\ Stretches' = Stretches
  BY DEF options, Stretches, RunHead
<1>2. TypeOK'
  BY DEF IInv, TypeOK, counters
<1>3. RunsInStep'
  <2> SUFFICES ASSUME NEW i \in Threads PROVE RunInStep(i)'
    BY DEF RunsInStep, RunInStep
  <2>1. RunInStep(i)
    BY DEF IInv, RunsInStep, RunInStep
  <2>2. CASE pc[i] = "leave" /\ pc'[i] = "gone"
    BY <2>2 DEF RunInStep, BeforeRuns, Gone
  <2>3. CASE pc[i] \in DOMAIN AfterBarrier /\ pc'[i] = AfterBarrier[pc[i]]
    BY <1>1, <2>1, <2>3, BarrierLabels DEF RunInStep, BeforeRuns, Gone
  <2>4. QED
    BY <2>2, <2>3
<1>4. Lockstep'
  <2> SUFFICES ASSUME NEW i \in Threads, NEW j \in Threads,
                      pc'[i] \notin Gone, pc'[j] \notin Gone
               PROVE  /\ \E S \in Stretches : pc'[i] \in S /\ pc'[j] \in S
                      /\ Coming(i)' = Coming(j)'
    BY <1>1 DEF Lockstep
  <2>1. \A k \in {i, j} : pc[k] \in DOMAIN AfterBarrier /\ pc'[k] = AfterBarrier[pc[k]]
    BY DEF Gone
  <2>2. pc[i] = pc[j] /\ run[i] = run[j]
    BY <2>1, SameBarrier
  <2>3. pc'[i] = pc'[j] /\ Coming(i)' = Coming(j)'
    BY <2>1, <2>2 DEF Coming
  <2>4. pc'[i] \in {"prepare", "warmup", "flush_2", "start", "enable", "kernel",
                    "stopped", "record"}
    BY <2>1, BarrierLabels DEF Gone
  <2>5. \E S \in Stretches : pc'[i] \in S
    BY <2>4 DEF Stretches
  <2>6. QED
    BY <2>3, <2>5
<1>5. QED
  BY <1>2, <1>3, <1>4 DEF IInv

LEMMA NextKeepsInvariant ==
  ASSUME IInv, [Next]_profileVars
  PROVE  IInv'
<1>1. CASE UNCHANGED profileVars
  <2>1. Stretches' = Stretches /\ \A i \in Threads : Coming(i)' = Coming(i)
    BY <1>1 DEF profileVars, options, Stretches, RunHead, Coming
  <2>2. TypeOK'
    BY <1>1 DEF IInv, TypeOK, profileVars, counters
  <2>3. RunsInStep' /\ Lockstep'
    BY <1>1, <2>1 DEF IInv, RunsInStep, Lockstep, profileVars, options
  <2>4. QED
    BY <2>2, <2>3 DEF IInv
<1>2. CASE Barrier
  <2>1. \A i \in Threads : AfterBarrier[pc[i]] \in Labels
    BY <1>2, BarrierLabels, LabelsAreThese DEF Barrier
  <2>2. pc' \in [Threads -> Labels]
    BY <1>2, <2>1 DEF Barrier
  <2>3. outcome' \in {"running", "returned", "rethrown"}
    BY <1>2 DEF Barrier, IInv, TypeOK
  <2>4. QED
    BY <1>2, <2>2, <2>3, BarrierKeepsInvariant DEF Barrier
<1>3. CASE BarrierWithoutAll
  <2>1. \A i \in Threads : pc[i] # "leave" => AfterBarrier[pc[i]] \in Labels
    BY <1>3, BarrierLabels, LabelsAreThese DEF BarrierWithoutAll
  <2>2. "gone" \in Labels
    BY LabelsAreThese
  <2>3. pc' \in [Threads -> Labels]
    BY <1>3, <2>1, <2>2 DEF BarrierWithoutAll
  <2>4. outcome' \in {"running", "returned", "rethrown"}
    BY <1>3 DEF BarrierWithoutAll, IInv, TypeOK
  <2>5. "leave" \notin DOMAIN AfterBarrier
    BY BarrierLabels
  <2>6. \A i \in Threads :
           \/ pc[i] \in DOMAIN AfterBarrier /\ pc'[i] = AfterBarrier[pc[i]]
           \/ pc[i] = "leave" /\ pc'[i] = "gone"
    BY <1>3, <2>5 DEF BarrierWithoutAll
  <2>7. QED
    BY <1>3, <2>3, <2>4, <2>6, BarrierKeepsInvariant DEF BarrierWithoutAll
<1>4. CASE Join
  <2>1. Stretches' = Stretches /\ \A i \in Threads : Coming(i)' = Coming(i)
    BY <1>4 DEF Join, options, Stretches, RunHead, Coming
  <2>2. TypeOK'
    BY <1>4 DEF IInv, TypeOK, Join, counters
  <2>3. RunsInStep' /\ Lockstep'
    BY <1>4, <2>1 DEF IInv, RunsInStep, Lockstep, Join, options
  <2>4. QED
    BY <2>2, <2>3 DEF IInv
<1>5. CASE \E i \in Threads : Step(i)
  BY <1>5, StepStays, StayingKeepsStep, StepKeepsType DEF IInv
<1>6. QED
  BY <1>1, <1>2, <1>3, <1>4, <1>5 DEF Next

-----------------------------------------------------------------------------
\* In every team, for any number of runs and wherever threads fail, those
\* still in the region are between the same two barriers of the same run.
THEOREM Invariance == Spec => []IInv
<1>1. Init => IInv
  BY InitEstablishes
<1>2. IInv /\ [Next]_profileVars => IInv'
  BY NextKeepsInvariant
<1>3. QED
  BY <1>1, <1>2, PTL DEF Spec

\* The labels and values stay in their ranges: no thread starts a run more
\* than there are, and no sample is stored outside profiling_runs.
THEOREM TypeCorrect == Spec => []TypeOK
<1>1. IInv => TypeOK
  BY DEF IInv
<1>2. QED
  BY <1>1, Invariance, PTL

\* While the master copies the values of all event groups, no thread enables,
\* disables or updates its own (profile_kernel_run and the master construct
\* that follows it).
THEOREM EventGroupsAreNotRacedOn == Spec => []NoRaceOnEventGroups
<1>1. IInv => NoRaceOnEventGroups
  <2> SUFFICES ASSUME IInv, pc[0] = "record", NEW i \in Threads,
                      pc[i] \in {"enable", "disable", "update"}
               PROVE  FALSE
    BY DEF NoRaceOnEventGroups
  <2>1. 0 \in Threads
    BY NumThreadsAssumption DEF Threads
  <2>2. PICK S \in Stretches : pc[0] \in S /\ pc[i] \in S
    BY <2>1 DEF IInv, Lockstep, Gone
  <2>3. QED
    BY <2>2 DEF Stretches, RunHead
<1>2. QED
  BY <1>1, Invariance, PTL

-----------------------------------------------------------------------------
(* What the samples, the times and the stored exception rest on. *)

\* The counters of thread i hold the run it is in, from the kernel on, and
\* the stored value does from update() until the next one.
CountsTheRun(i) ==
  /\ pc[i] \in {"begin", "go", "kernel", "stop", "stopped", "disable"} => enabled[i]
  /\ pc[i] \in {"begin", "go", "kernel"} => counter[i] = {}
  /\ pc[i] \in {"stop", "stopped", "disable", "update"} => counter[i] = {run[i]}
  /\ pc[i] \in {"end", "record"} => value[i] = {run[i]}
  /\ pc[i] \in {"flush_1", "flush_2", "start", "final"} /\ run[i] > 1
       => value[i] = {run[i] - 1}

UntilEnable == {"flush_1", "flush_2", "start", "enable"}
UntilDisable == UntilEnable \cup {"begin", "go", "kernel", "stop", "stopped", "disable"}

\* A thread that has not failed yet is not past the point where it will.
FaultAhead(i) ==
  pc[i] \notin Gone =>
    /\ fault[i] = "affinity" => pc[i] = "affinity"
    /\ fault[i] = "open" => pc[i] \in {"affinity", "open"}
    /\ fault[i] = "prepare" => pc[i] \in {"affinity", "open", "prepare_in", "prepare"}
    /\ fault[i] = "enable" =>
         run[i] < faultRun \/ (run[i] = faultRun /\ pc[i] \in UntilEnable)
    /\ fault[i] = "disable" =>
         run[i] < faultRun \/ (run[i] = faultRun /\ pc[i] \in UntilDisable)
    /\ fault[i] = "update" =>
         run[i] < faultRun \/ (run[i] = faultRun /\ pc[i] \in UntilDisable \cup {"update"})

\* As long as no exception is stored, the threads leave the region together,
\* and one that has just thrown keeps the others before the next barrier.
NobodyMissing(i) ==
  /\ pc[i] # "gone"
  /\ pc[i] = "leave" => /\ fault[i] = "none" /\ run[i] = Runs + 1
                        /\ \A j \in Threads : pc[j] = "leave"
  /\ pc[i] = "catch" => /\ fault[i] \in FaultPoints
                        /\ \A j \in Threads : pc[j] \notin Gone =>
                             \E S \in Stretches : fault[i] \in S /\ pc[j] \in S

SamplesStored ==
  \A r \in 1 .. Runs : r < run[0] => \A i \in Threads : profiling_runs[r][i] = {r}

RunsInv ==
  /\ fault \in [Threads -> FaultPoints \cup {"none"}] /\ faultRun \in 1 .. Runs
  /\ \A i \in Threads : CountsTheRun(i) /\ FaultAhead(i)
  /\ pc[0] \in {"go", "kernel", "stop", "stopped"} => timing
  /\ exception = NoException => SamplesStored /\ \A i \in Threads : NobodyMissing(i)
  /\ outcome = "returned" => exception = NoException /\ \A i \in Threads : pc[i] = "leave"

\* What thread i's own step leaves true of it.
LEMMA OwnStep ==
  ASSUME IInv, RunsInv, NEW i \in Threads, Step(i)
  PROVE  CountsTheRun(i)' /\ FaultAhead(i)'
<1>1. /\ DOMAIN pc = Threads /\ DOMAIN run = Threads /\ DOMAIN enabled = Threads
      /\ DOMAIN counter = Threads /\ DOMAIN value = Threads
      /\ run[i] \in 0 .. Runs + 1 /\ Runs \in Nat \ {0}
      /\ faultRun \in 1 .. Runs /\ CountsTheRun(i) /\ FaultAhead(i) /\ RunInStep(i)
  BY RunsAssumption DEF IInv, TypeOK, RunsInv, RunsInStep, RunInStep
<1>2. CASE SetAffinity(i) \/ OpenEvents(i) \/ PrepareKernel(i)
  BY <1>1, <1>2 DEF SetAffinity, OpenEvents, PrepareKernel, Call, Goto, Throws, options,
     counters, CountsTheRun, FaultAhead, UntilEnable, UntilDisable, Gone
<1>3. CASE WarmUp(i)
  <2>1. /\ pc[i] = "warmup" /\ pc'[i] = LoopHead(0) /\ run'[i] = 1
        /\ UNCHANGED <<options, value>>
    BY <1>1, <1>3 DEF WarmUp, Goto
  <2>2. pc'[i] \in {"flush_1", "start"}
    BY <1>1, <2>1 DEF LoopHead
  <2>3. QED
    BY <1>1, <2>1, <2>2 DEF CountsTheRun, FaultAhead, UntilEnable, UntilDisable, Gone, options
<1>4. CASE Enable(i)
  BY <1>1, <1>4 DEF Enable, Goto, Throws, options, CountsTheRun, FaultAhead, UntilEnable,
     UntilDisable, Gone
<1>5. CASE TakeStartTime(i)
  BY <1>1, <1>5 DEF TakeStartTime, Goto, options, counters, CountsTheRun, FaultAhead,
     UntilEnable, UntilDisable, Gone
<1>6. CASE RunKernel(i)
  <2>1. pc[i] = "kernel" /\ pc'[i] = "stop" /\ enabled[i] /\ counter[i] = {}
    BY <1>1, <1>6 DEF RunKernel, Goto, CountsTheRun
  <2>2. counter'[i] = {run[i]} /\ run'[i] = run[i] /\ enabled'[i]
    BY <1>1, <1>6, <2>1 DEF RunKernel
  <2>3. UNCHANGED options
    BY <1>6 DEF RunKernel
  <2>4. QED
    BY <1>1, <2>1, <2>2, <2>3 DEF CountsTheRun, FaultAhead, UntilEnable, UntilDisable, Gone, options
<1>7. CASE TakeEndTime(i)
  BY <1>1, <1>7 DEF TakeEndTime, Goto, options, counters, CountsTheRun, FaultAhead,
     UntilEnable, UntilDisable, Gone
<1>8. CASE Disable(i)
  BY <1>1, <1>8 DEF Disable, Goto, Throws, options, CountsTheRun, FaultAhead, UntilEnable,
     UntilDisable, Gone
<1>9. CASE Update(i)
  BY <1>1, <1>9 DEF Update, Goto, Throws, options, CountsTheRun, FaultAhead, UntilEnable,
     UntilDisable, Gone
<1>10. CASE Record(i)
  <2>1. /\ pc[i] = "record" /\ pc'[i] = LoopHead(run[i]) /\ run'[i] = run[i] + 1
        /\ UNCHANGED <<options, value>>
    BY <1>1, <1>10 DEF Record, Goto, counters
  <2>2. run[i] \in 1 .. Runs /\ value'[i] = {run'[i] - 1}
    BY <1>1, <2>1 DEF RunInStep, BeforeRuns, Gone, CountsTheRun
  <2>3. pc'[i] \in {"flush_1", "start", "final"} /\ (pc'[i] = "final" <=> run[i] = Runs)
    BY <2>1 DEF LoopHead
  <2>4. fault'[i] \notin {"affinity", "open", "prepare"}
    BY <1>1, <2>1 DEF FaultAhead, Gone, options
  <2>5. fault'[i] \in {"enable", "disable", "update"} => run[i] < faultRun
    BY <1>1, <2>1 DEF FaultAhead, Gone, options, UntilEnable, UntilDisable
  <2>6. CountsTheRun(i)'
    BY <2>2, <2>3 DEF CountsTheRun
  <2>7. fault'[i] \in {"enable", "disable", "update"} =>
          \/ run'[i] < faultRun' 
          \/ run'[i] = faultRun' /\ pc'[i] \in UntilEnable
    BY <1>1, <2>1, <2>2, <2>3, <2>5 DEF options, UntilEnable
  <2>8. FaultAhead(i)'
    BY <2>4, <2>7 DEF FaultAhead, UntilDisable
  <2>9. QED
    BY <2>6, <2>8
<1>11. CASE Throw(i) \/ Catch(i)
  BY <1>1, <1>11 DEF Throw, Catch, Goto, CountsTheRun, FaultAhead, Gone
<1>12. QED
  BY <1>2, <1>3, <1>4, <1>5, <1>6, <1>7, <1>8, <1>9, <1>10, <1>11 DEF Step

\* It changes nothing that the others count or store.
LEMMA OthersStand ==
  ASSUME IInv, NEW i \in Threads, Step(i), NEW j \in Threads \ {i}
  PROVE  UNCHANGED <<options, pc[j], run[j], enabled[j], counter[j], value[j]>>
BY DEF IInv, TypeOK, counters, Step, SetAffinity, OpenEvents, PrepareKernel, Call, Goto,
   WarmUp, Enable, TakeStartTime, RunKernel, TakeEndTime, Disable, Update, Record, Throw, Catch

\* Every thread that the master stores the value of has stored that of its run.
LEMMA RecordStores ==
  ASSUME IInv, RunsInv, exception = NoException, pc[0] = "record", NEW i \in Threads
  PROVE  value[i] = {run[0]}
<1>1. 0 \in Threads
  BY NumThreadsAssumption DEF Threads
<1>2. run[0] \in 1 .. Runs /\ Runs \in Nat /\ run[i] \in 0 .. Runs + 1
  BY <1>1, RunsAssumption DEF IInv, TypeOK, RunsInStep, BeforeRuns, Gone
<1>3. pc[i] \notin Gone
  <2>1. NobodyMissing(i)
    BY DEF RunsInv
  <2>2. pc[i] # "catch"
    BY <1>1, <2>1, PointsAreThese DEF NobodyMissing, Stretches, RunHead, Gone
  <2>3. QED
    BY <1>1, <2>1, <2>2 DEF NobodyMissing, Gone
<1>4. PICK S \in Stretches : "record" \in S /\ pc[i] \in S
  BY <1>1, <1>3 DEF IInv, Lockstep, Gone
<1>5. pc[i] = "record" \/ pc[i] \in {"flush_1", "start", "final"}
  BY <1>4 DEF Stretches, RunHead
<1>6. run[0] + 1 = IF pc[i] = "record" THEN run[i] + 1 ELSE run[i]
  BY <1>1, <1>3, <1>5 DEF IInv, Lockstep, Coming, Gone
<1>7. QED
  BY <1>2, <1>5, <1>6 DEF RunsInv, CountsTheRun

LEMMA StepKeepsRuns ==
  ASSUME IInv, RunsInv, NEW i \in Threads, Step(i)
  PROVE  RunsInv'
<1>1. /\ DOMAIN pc = Threads /\ DOMAIN run = Threads /\ DOMAIN value = Threads
      /\ 0 \in Threads /\ Runs \in Nat /\ run[0] \in 0 .. Runs + 1
      /\ NoException \notin Threads
  BY NumThreadsAssumption, RunsAssumption DEF IInv, TypeOK, Threads, NoException
<1>2. /\ UNCHANGED <<options, outcome>>
      /\ pc[i] \notin {"leave", "gone"} /\ pc'[i] \notin {"gone"}
      /\ pc[i] # "record" => UNCHANGED profiling_runs
      /\ pc[i] # "catch" => UNCHANGED exception
  <2>1. pc[i] = "warmup" => LoopHead(0) # "gone"
    BY DEF LoopHead
  <2>2. pc[i] = "record" => LoopHead(run[i]) # "gone"
    BY DEF LoopHead
  <2>3. QED
    BY <1>1, <2>1, <2>2, PointsAreThese
       DEF Step, SetAffinity, OpenEvents, PrepareKernel, Call, Goto, WarmUp, Enable,
           TakeStartTime, RunKernel, TakeEndTime, Disable, Update, Record, Throw, Catch
<1>3. fault' \in [Threads -> FaultPoints \cup {"none"}] /\ faultRun' \in 1 .. Runs
  BY <1>2 DEF RunsInv, options
<1>4. \A j \in Threads : CountsTheRun(j)' /\ FaultAhead(j)'
  <2> TAKE j \in Threads
  <2>1. CASE j = i
    BY <2>1, OwnStep
  <2>2. CASE j # i
    <3>1. UNCHANGED <<options, pc[j], run[j], enabled[j], counter[j], value[j]>>
      BY <2>2, OthersStand
    <3>2. CountsTheRun(j) /\ FaultAhead(j)
      BY DEF RunsInv
    <3>3. QED
      BY <3>1, <3>2 DEF CountsTheRun, FaultAhead, options
  <2>3. QED
    BY <2>1, <2>2
<1>5. pc'[0] \in {"go", "kernel", "stop", "stopped"} => timing'
  <2>1. CASE i # 0
    <3>1. UNCHANGED <<pc[0], timing>>
      BY <1>1, <2>1, OthersStand
         DEF Step, SetAffinity, OpenEvents, PrepareKernel, Call, WarmUp, Enable,
             TakeStartTime, RunKernel, TakeEndTime, Disable, Update, Record, Throw, Catch
    <3>2. QED
      BY <3>1 DEF RunsInv
  <2>2. CASE i = 0
    <3>1. LoopHead(0) \notin {"go", "kernel", "stop", "stopped"}
      BY DEF LoopHead
    <3>2. LoopHead(run[0]) \notin {"go", "kernel", "stop", "stopped"}
      BY DEF LoopHead
    <3>3. QED
      BY <1>1, <2>2, <3>1, <3>2
         DEF RunsInv, Step, SetAffinity, OpenEvents, PrepareKernel, Call, Goto, WarmUp, Enable,
             TakeStartTime, RunKernel, TakeEndTime, Disable, Update, Record, Throw, Catch
  <2>3. QED
    BY <2>1, <2>2
<1>6. exception' = NoException => exception = NoException /\ pc[i] # "catch" /\ pc'[i] # "leave"
  <2>1. CASE pc[i] = "catch"
    <3>1. Catch(i)
      BY <2>1, PointsAreThese
         DEF Step, SetAffinity, OpenEvents, PrepareKernel, Call, Goto, WarmUp, Enable,
             TakeStartTime, RunKernel, TakeEndTime, Disable, Update, Record, Throw
    <3>2. QED
      BY <1>1, <3>1 DEF Catch
  <2>2. CASE pc[i] # "catch"
    <3>1. LoopHead(0) # "leave" /\ LoopHead(run[i]) # "leave"
      BY DEF LoopHead
    <3>2. pc'[i] # "leave"
      BY <1>1, <2>2, <3>1
         DEF Step, SetAffinity, OpenEvents, PrepareKernel, Call, Goto, WarmUp, Enable,
             TakeStartTime, RunKernel, TakeEndTime, Disable, Update, Record, Throw, Catch
    <3>3. QED
      BY <1>2, <2>2, <3>2
  <2>3. QED
    BY <2>1, <2>2
<1>7. ASSUME exception' = NoException
      PROVE  SamplesStored' /\ \A j \in Threads : NobodyMissing(j)'
  <2>1. exception = NoException /\ SamplesStored /\ \A j \in Threads : NobodyMissing(j)
    BY <1>6, <1>7 DEF RunsInv
  <2>2. SamplesStored'
    <3>1. CASE i = 0 /\ pc[0] = "record"
      <4>1. /\ profiling_runs' = [profiling_runs EXCEPT ![run[0]] = value]
            /\ run'[0] = run[0] + 1
        <5>1. Record(0)
          BY <3>1, PointsAreThese
             DEF Step, SetAffinity, OpenEvents, PrepareKernel, Call, Goto, WarmUp, Enable,
                 TakeStartTime, RunKernel, TakeEndTime, Disable, Update, Throw, Catch
        <5>2. QED
          BY <1>1, <5>1 DEF Record
      <4>2. \A j \in Threads : value[j] = {run[0]}
        BY <2>1, <3>1, RecordStores
      <4>3. SUFFICES ASSUME NEW r \in 1 .. Runs, r < run[0] + 1, NEW j \in Threads
                     PROVE  profiling_runs'[r][j] = {r}
        BY <4>1 DEF SamplesStored
      <4>4. DOMAIN profiling_runs = 1 .. Runs
        BY DEF IInv, TypeOK
      <4>5. CASE r = run[0]
        BY <4>1, <4>2, <4>4, <4>5
      <4>6. CASE r # run[0]
        <5>1. r < run[0]
          BY <1>1, <4>3, <4>6
        <5>2. profiling_runs[r][j] = {r}
          BY <2>1, <5>1 DEF SamplesStored
        <5>3. QED
          BY <4>1, <4>6, <5>2, <4>4
      <4>7. QED
        BY <4>5, <4>6
    <3>2. CASE i = 0 /\ pc[0] # "record"
      <4>1. UNCHANGED profiling_runs
        BY <1>2, <3>2
      <4>2. run'[0] = run[0] \/ run'[0] = 1
        BY <1>1, <3>2
           DEF Step, SetAffinity, OpenEvents, PrepareKernel, Call, Goto, WarmUp, Enable,
               TakeStartTime, RunKernel, TakeEndTime, Disable, Update, Record, Throw, Catch
      <4>3. QED
        BY <1>1, <2>1, <4>1, <4>2 DEF SamplesStored
    <3>3. CASE i # 0
      <4>1. run'[0] = run[0]
        BY <1>1, <3>3, OthersStand
      <4>2. UNCHANGED profiling_runs
        BY <3>3
           DEF Step, SetAffinity, OpenEvents, PrepareKernel, Call, Goto, WarmUp, Enable,
               TakeStartTime, RunKernel, TakeEndTime, Disable, Update, Record, Throw, Catch
      <4>3. QED
        BY <2>1, <4>1, <4>2 DEF SamplesStored
    <3>4. QED
      BY <3>1, <3>2, <3>3
  <2>3. ASSUME NEW j \in Threads PROVE NobodyMissing(j)'
    <3>1. \A k \in Threads : pc[k] # "leave"
      BY <1>2, <2>1 DEF NobodyMissing
    <3>2. \A k \in Threads : pc'[k] # "leave" /\ pc'[k] # "gone"
      <4> TAKE k \in Threads
      <4>1. CASE k = i
        BY <1>2, <1>6, <1>7, <4>1
      <4>2. CASE k # i
        <5>1. pc'[k] = pc[k]
          BY <4>2, OthersStand
        <5>2. QED
          BY <2>1, <3>1, <5>1 DEF NobodyMissing
      <4>3. QED
        BY <4>1, <4>2
    <3>3. Stretches' = Stretches /\ UNCHANGED fault
      BY <1>2 DEF options, Stretches, RunHead
    <3>4. ASSUME pc'[j] = "catch", NEW k \in Threads, pc'[k] \notin Gone
          PROVE  fault[j] \in FaultPoints /\ \E S \in Stretches : fault[j] \in S /\ pc'[k] \in S
      <4>1. Stays(i)
        BY StepStays
      <4>2. /\ pc[k] \notin Gone
            /\ \A S \in Stretches : pc[k] \in S => pc'[k] \in S
        BY <3>4, <4>1 DEF Stays
      <4>3. CASE j = i
        <5>1. Throw(i)
          <6>1. pc[i] # "catch"
            BY <1>6, <1>7
          <6>2. LoopHead(0) # "catch" /\ LoopHead(run[i]) # "catch"
            BY DEF LoopHead
          <6>3. QED
            BY <1>1, <3>4, <4>3, <6>1, <6>2
               DEF Step, SetAffinity, OpenEvents, PrepareKernel, Call, Goto, WarmUp, Enable,
                   TakeStartTime, RunKernel, TakeEndTime, Disable, Update, Record, Catch
        <5>2. fault[j] = pc[j] /\ pc[j] \in FaultPoints
          BY <4>3, <5>1 DEF Throw, Throws
        <5>3. \E S \in Stretches : pc[j] \in S /\ pc[k] \in S
          BY <4>2, <5>2, PointsAreThese DEF IInv, Lockstep, Gone
        <5>4. QED
          BY <4>2, <5>2, <5>3
      <4>4. CASE j # i
        <5>1. pc[j] = "catch"
          BY <3>4, <4>4, OthersStand
        <5>2. QED
          BY <2>1, <4>2, <5>1 DEF NobodyMissing
      <4>5. QED
        BY <4>3, <4>4
    <3>5. pc'[j] = "catch" => fault[j] \in FaultPoints
      <4>1. CASE j = i /\ pc'[j] = "catch"
        <5>1. pc[i] # "catch" /\ LoopHead(0) # "catch" /\ LoopHead(run[i]) # "catch"
          BY <1>6, <1>7 DEF LoopHead
        <5>2. Throw(i)
          BY <1>1, <4>1, <5>1
             DEF Step, SetAffinity, OpenEvents, PrepareKernel, Call, Goto, WarmUp, Enable,
                 TakeStartTime, RunKernel, TakeEndTime, Disable, Update, Record, Catch
        <5>3. QED
          BY <4>1, <5>2 DEF Throw, Throws
      <4>2. CASE j # i /\ pc'[j] = "catch"
        <5>1. pc[j] = "catch"
          BY <4>2, OthersStand
        <5>2. QED
          BY <2>1, <5>1 DEF NobodyMissing
      <4>3. QED
        BY <4>1, <4>2
    <3>6. QED
      BY <3>2, <3>3, <3>4, <3>5 DEF NobodyMissing
  <2>4. QED
    BY <2>2, <2>3
<1>8. outcome' = "returned" => exception' = NoException /\ \A j \in Threads : pc'[j] = "leave"
  BY <1>2 DEF RunsInv
<1>9. QED
  BY <1>3, <1>4, <1>5, <1>7, <1>8 DEF RunsInv

LEMMA BarrierKeepsRuns ==
  ASSUME IInv, RunsInv,
         UNCHANGED <<options, run, counters, timing, profiling_runs, exception>>,
         outcome' = "returned" => outcome = "returned",
         \E i \in Threads : pc[i] \in DOMAIN AfterBarrier,
         \A i \in Threads :
           \/ pc[i] \in DOMAIN AfterBarrier /\ pc'[i] = AfterBarrier[pc[i]]
           \/ pc[i] = "leave" /\ pc'[i] = "gone"
  PROVE  RunsInv'
<1>1. /\ 0 \in Threads /\ Runs \in Nat /\ faultRun \in 1 .. Runs
      /\ fault \in [Threads -> FaultPoints \cup {"none"}]
      /\ UNCHANGED <<fault, faultRun, run, enabled, counter, value>>
  BY NumThreadsAssumption, RunsAssumption DEF Threads, RunsInv, options, counters
<1>2. PICK w \in Threads : pc[w] \in DOMAIN AfterBarrier
  OBVIOUS
<1>3. pc[w] # "leave"
  BY <1>2, BarrierLabels
<1>4. \A i \in Threads : CountsTheRun(i)' /\ FaultAhead(i)'
  <2> SUFFICES ASSUME NEW i \in Threads PROVE CountsTheRun(i)' /\ FaultAhead(i)'
    OBVIOUS
  <2>1. CountsTheRun(i) /\ FaultAhead(i)
    BY DEF RunsInv
  <2>2. CASE pc[i] = "leave" /\ pc'[i] = "gone"
    BY <2>2 DEF CountsTheRun, FaultAhead, Gone
  <2>3. CASE pc[i] \in DOMAIN AfterBarrier /\ pc'[i] = AfterBarrier[pc[i]]
    <3>1. CountsTheRun(i)'
      BY <1>1, <2>1, <2>3, BarrierLabels DEF CountsTheRun
    <3>2. FaultAhead(i)'
      BY <1>1, <2>1, <2>3, BarrierLabels DEF FaultAhead, UntilEnable, UntilDisable, Gone
    <3>3. QED
      BY <3>1, <3>2
  <2>4. QED
    BY <2>2, <2>3
<1>5. pc'[0] \in {"go", "kernel", "stop", "stopped"} => timing'
  BY <1>1, BarrierLabels DEF RunsInv
<1>6. ASSUME exception' = NoException
      PROVE  SamplesStored' /\ \A i \in Threads : NobodyMissing(i)'
  <2>1. exception = NoException /\ SamplesStored /\ \A i \in Threads : NobodyMissing(i)
    BY <1>6 DEF RunsInv, NoException
  <2>2. SamplesStored'
    BY <2>1 DEF SamplesStored
  <2>3. \A i \in Threads : pc[i] \in DOMAIN AfterBarrier /\ pc'[i] = AfterBarrier[pc[i]]
    BY <1>3, <2>1 DEF NobodyMissing
  <2>4. \A i \in Threads : pc'[i] # "gone" /\ pc'[i] # "catch"
    BY <2>3, BarrierLabels
  <2>5. ASSUME NEW i \in Threads, pc'[i] = "leave"
        PROVE  /\ fault'[i] = "none" /\ run'[i] = Runs + 1
               /\ \A j \in Threads : pc'[j] = "leave"
    <3>1. pc[i] = "final"
      BY <2>3, <2>5, BarrierLabels
    <3>2. run[i] = Runs + 1
      BY <3>1 DEF IInv, RunsInStep
    <3>3. FaultAhead(i) /\ fault[i] \in FaultPoints \cup {"none"}
      BY <1>1 DEF RunsInv
    <3>4. fault[i] = "none"
      BY <1>1, <3>1, <3>2, <3>3, PointsAreThese
         DEF FaultAhead, Gone, UntilEnable, UntilDisable
    <3>5. \A j \in Threads : pc[j] = pc[i]
      BY <2>3, SameBarrier
    <3>6. QED
      BY <1>1, <2>3, <2>5, <3>2, <3>4, <3>5
  <2>6. QED
    BY <2>2, <2>4, <2>5 DEF NobodyMissing
<1>7. outcome' # "returned"
  BY <1>3 DEF RunsInv
<1>8. QED
  BY <1>1, <1>4, <1>5, <1>6, <1>7 DEF RunsInv

LEMMA InitEstablishesRuns == Init => RunsInv
<1> SUFFICES ASSUME Init PROVE RunsInv
  OBVIOUS
<1>1. 0 \in Threads /\ Runs \in Nat /\ faultRun \in 1 .. Runs
  BY NumThreadsAssumption, RunsAssumption DEF Threads, Init
<1>2. ASSUME NEW i \in Threads
      PROVE  CountsTheRun(i) /\ FaultAhead(i) /\ NobodyMissing(i)
  <2>1. pc[i] = "affinity" /\ run[i] = 0
    BY DEF Init
  <2>2. QED
    BY <1>1, <2>1 DEF CountsTheRun, FaultAhead, NobodyMissing
<1>3. SamplesStored
  BY <1>1 DEF SamplesStored, Init
<1>4. QED
  BY <1>1, <1>2, <1>3 DEF RunsInv, Init

LEMMA NextKeepsRuns ==
  ASSUME IInv, RunsInv, [Next]_profileVars
  PROVE  RunsInv'
<1>1. ASSUME UNCHANGED <<options, pc, run, counters, timing, profiling_runs, exception>>,
             outcome' = "returned" =>
               exception = NoException /\ \A i \in Threads : pc[i] = "leave"
      PROVE  RunsInv'
  <2>1. Stretches' = Stretches
    BY <1>1 DEF options, Stretches, RunHead
  <2>2. \A i \in Threads : /\ CountsTheRun(i)' <=> CountsTheRun(i)
                           /\ FaultAhead(i)' <=> FaultAhead(i)
                           /\ NobodyMissing(i)' <=> NobodyMissing(i)
    BY <1>1, <2>1 DEF CountsTheRun, FaultAhead, NobodyMissing, options, counters
  <2>3. SamplesStored' <=> SamplesStored
    BY <1>1 DEF SamplesStored
  <2>4. QED
    BY <1>1, <2>2, <2>3 DEF RunsInv, options, NoException
<1>2. CASE UNCHANGED profileVars
  BY <1>1, <1>2 DEF profileVars, RunsInv
<1>3. CASE Barrier
  <2>1. \E i \in Threads : pc[i] \in DOMAIN AfterBarrier
    BY <1>3, NumThreadsAssumption DEF Barrier, Threads
  <2>2. QED
    BY <1>3, <2>1, BarrierKeepsRuns DEF Barrier
<1>4. CASE BarrierWithoutAll
  <2>1. \E i \in Threads : pc[i] \in DOMAIN AfterBarrier
    BY <1>4 DEF BarrierWithoutAll
  <2>2. "leave" \notin DOMAIN AfterBarrier
    BY BarrierLabels
  <2>3. \A i \in Threads :
           \/ pc[i] \in DOMAIN AfterBarrier /\ pc'[i] = AfterBarrier[pc[i]]
           \/ pc[i] = "leave" /\ pc'[i] = "gone"
    BY <1>4, <2>2 DEF BarrierWithoutAll
  <2>4. QED
    BY <1>4, <2>1, <2>3, BarrierKeepsRuns DEF BarrierWithoutAll
<1>5. CASE Join
  BY <1>1, <1>5 DEF Join
<1>6. CASE \E i \in Threads : Step(i)
  BY <1>6, StepKeepsRuns
<1>7. QED
  BY <1>2, <1>3, <1>4, <1>5, <1>6 DEF Next

-----------------------------------------------------------------------------
\* The counters of a thread count the run it is in, and until an exception is
\* stored the threads stay together up to the next barrier.
THEOREM RunsInvariance == Spec => []RunsInv
<1>1. Init => RunsInv
  BY InitEstablishesRuns
<1>2. IInv /\ RunsInv /\ [Next]_profileVars => RunsInv'
  BY NextKeepsRuns
<1>3. QED
  BY <1>1, <1>2, Invariance, PTL DEF Spec

\* Every sample profile_kernel returns counts its own run in every thread, for
\* every number of threads and runs: enable() resets what the warmup and the
\* earlier runs counted, and the master stores what update() has read.
THEOREM SamplesCountTheirRun == Spec => []SamplesAreOfTheirRun
<1>1. RunsInv => SamplesAreOfTheirRun
  <2> SUFFICES ASSUME RunsInv, outcome = "returned", NEW r \in 1 .. Runs, NEW i \in Threads
               PROVE  profiling_runs[r][i] = {r}
    BY DEF SamplesAreOfTheirRun
  <2>1. 0 \in Threads
    BY NumThreadsAssumption DEF Threads
  <2>2. SamplesStored /\ run[0] = Runs + 1
    BY <2>1 DEF RunsInv, NobodyMissing
  <2>3. QED
    BY <2>2, RunsAssumption DEF SamplesStored
<1>2. QED
  BY <1>1, RunsInvariance, PTL

\* Until some thread's exception is stored, no thread is in kernel.run() outside
\* the interval from t0 to t1, or while some thread's counters are off.
THEOREM TimesCoverTheKernel == Spec => []MeasurementCoversKernel
<1>1. IInv /\ RunsInv => MeasurementCoversKernel
  <2> SUFFICES ASSUME IInv, RunsInv, exception = NoException,
                      NEW i \in Threads, pc[i] = "kernel"
               PROVE  timing /\ \A j \in Threads : enabled[j]
    BY DEF MeasurementCoversKernel
  <2>1. ASSUME NEW j \in Threads PROVE pc[j] \in {"kernel", "stop"}
    <3>1. NobodyMissing(j)
      BY DEF RunsInv
    <3>2. pc[j] # "leave" /\ pc[j] # "gone"
      BY <3>1 DEF NobodyMissing
    <3>3. pc[j] # "catch"
      BY <3>1, PointsAreThese DEF NobodyMissing, Stretches, RunHead, Gone
    <3>4. QED
      BY <3>2, <3>3 DEF IInv, Lockstep, Stretches, RunHead, Gone
  <2>2. timing
    BY <2>1, NumThreadsAssumption DEF RunsInv, Threads
  <2>3. QED
    BY <2>1, <2>2 DEF RunsInv, CountsTheRun
<1>2. QED
  BY <1>1, Invariance, RunsInvariance, PTL

\* If a thread threw, whichever and wherever, profile_kernel does not return a
\* Profiling: the handler of the region stored the exception.
THEOREM FailuresAreNotSwallowed == Spec => []NoFailureSwallowed
<1>1. RunsInv => NoFailureSwallowed
  BY DEF RunsInv, NobodyMissing, NoFailureSwallowed
<1>2. QED
  BY <1>1, RunsInvariance, PTL
=============================================================================
