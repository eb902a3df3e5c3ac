----------------------------- MODULE PerfEvents -----------------------------
(***************************************************************************)
(* perf-events.cpp: the event groups of one thread, from make_event_group  *)
(* over the profiling runs (profile-kernel.cpp) to their destruction.  The *)
(* kernel's side of perf_event_open, ioctl and read is modelled by what    *)
(* the code relies on: a group of counters that is on counts while it is   *)
(* scheduled, and its times run while it is on.  A reset leaves the times. *)
(***************************************************************************)
EXTENDS Integers, Sequences, FiniteSets

CONSTANTS
  GroupChoices,       \* what a configuration may list: sequences of groups,
                      \* each a sequence of names of events
  Runs,
  MaxTicks,           \* bound on the time slices of a run
  MAX_EVENT_VALUES

ASSUME BoundsAssumption ==
  Runs \in Nat \ {0} /\ MaxTicks \in Nat /\ MAX_EVENT_VALUES \in Nat \ {0}

ASSUME GroupChoicesAssumption == GroupChoices \subseteq Seq(Seq(STRING)) \ {<<>>}

NotOpen == 0     \* also the groupfd of a group without events

VARIABLES
  config,          \* the names of the events of each group
  failing,         \* <<group, event>> perf_event_open fails for, or enable()
                   \* if event is 0; <<>> if nothing does
  pc, run,
  group,           \* the position of the group in the loop of pc
  event,           \* the position of the event in make_event_group
  groups,          \* the vector of EventGroups; the last one may be under way
  exception,       \* "none", "open", "ioctl", "read" or "id"
  open, opened,    \* the file descriptors, and how many were opened so far
  counters,        \* [descriptor -> [leader, on, count, enabled, running]]
  happened,        \* [name -> how often, since the groups were enabled]
  ticks, preempted \* time slices of this run; leaders ever off their CPU

kernel == <<open, opened, counters>>
choices == <<config, failing>>
vars == <<choices, pc, run, group, event, groups, exception, kernel, happened, ticks, preempted>>

Names == UNION {UNION {{config[g][i] : i \in DOMAIN config[g]} : g \in DOMAIN config}}
Zero == [fd |-> NotOpen, count |-> 0, extrapolated |-> 0]
NoEvents == [name \in {} |-> Zero]
NewGroup == [groupfd |-> NotOpen, events |-> NoEvents,
             enabled |-> FALSE, time_enabled |-> 0, time_running |-> 0]

Members(leader) == {fd \in open : counters[fd].leader = leader}

Init ==
  /\ config \in GroupChoices
  /\ failing \in {<<>>} \cup UNION {{<<g, i>> : i \in 0 .. Len(config[g])} : g \in DOMAIN config}
  /\ pc = "make" /\ run = 0 /\ group = 1 /\ event = 1
  /\ groups = <<NewGroup>> /\ exception = "none"
  /\ open = {} /\ opened = 0 /\ counters = <<>>
  /\ happened = [name \in Names |-> 0] /\ ticks = 0 /\ preempted = {}

\* An exception leaves profile_kernel; the groups made so far are destroyed.
Throw(what) == pc' = "destroy" /\ group' = 1 /\ exception' = what

\* std::map::emplace: a name that is there keeps its event.
Keep(events, name, fd) ==
  [n \in DOMAIN events \cup {name} |->
     IF n \in DOMAIN events THEN events[n] ELSE [Zero EXCEPT !.fd = fd]]

\* Mutant of Leader: every event leads a group of its own.
LeaderItself(fd) == fd

\* The groupfd that perf_event_open gets: -1 for the first event.
Leader(fd) == IF event = 1 THEN fd ELSE groups[group].groupfd

\* make_event, for the next event: the first one leads the group.
MakeEvent ==
  /\ pc = "make" /\ group <= Len(config) /\ event <= Len(config[group])
  /\ failing # <<group, event>>
  /\ LET fd == opened + 1
         name == config[group][event]
         leader == Leader(fd)
     IN  /\ open' = open \cup {fd} /\ opened' = fd
         /\ counters' = Append(counters, [leader |-> leader, on |-> event > 1, count |-> 0,
                                          enabled |-> 0, running |-> 0])
         /\ groups' = [groups EXCEPT ![group].groupfd = leader,
                                     ![group].events = Keep(@, name, fd)]
  /\ event' = event + 1
  /\ UNCHANGED <<choices, pc, run, group, exception, happened, ticks, preempted>>

\* perf_event_open fails; the map of the group is lost, not its descriptors.
MakeEventFails ==
  /\ pc = "make" /\ failing = <<group, event>>
  /\ Throw("open")
  /\ groups' = SubSeq(groups, 1, group - 1)
  /\ UNCHANGED <<choices, run, event, kernel, happened, ticks, preempted>>

\* emplace_back moves the group into the vector.
MakeGroup ==
  /\ pc = "make" /\ group <= Len(config) /\ event > Len(config[group])
  /\ groups' = IF group < Len(config) THEN Append(groups, NewGroup) ELSE groups
  /\ group' = IF group < Len(config) THEN group + 1 ELSE 1
  /\ pc' = IF group < Len(config) THEN "make" ELSE "enable"
  /\ event' = 1
  /\ UNCHANGED <<choices, run, exception, kernel, happened, ticks, preempted>>

\* The loop over the groups goes on to the next one, or to what follows it.
NextGroup(here, after) ==
  IF group < Len(groups) THEN group' = group + 1 /\ pc' = here
  ELSE group' = 1 /\ pc' = after

HasEvents(g) == groups[g].events # NoEvents /\ groups[g].groupfd # NotOpen

\* PERF_EVENT_IOC_RESET and PERF_EVENT_IOC_ENABLE for the whole group.
ResetAndEnable(leader) ==
  [fd \in DOMAIN counters |->
     IF fd \in Members(leader) THEN [counters[fd] EXCEPT !.on = TRUE, !.count = 0]
     ELSE counters[fd]]

Enable ==
  /\ pc = "enable" /\ ~ (failing = <<group, 0>> /\ HasEvents(group))
  /\ counters' = IF HasEvents(group) THEN ResetAndEnable(groups[group].groupfd) ELSE counters
  /\ groups' = [groups EXCEPT ![group].enabled = TRUE]
  /\ happened' = [name \in Names |-> 0] /\ ticks' = 0
  /\ NextGroup("enable", "kernel")
  /\ UNCHANGED <<choices, run, event, exception, open, opened, preempted>>

EnableFails ==
  /\ pc = "enable" /\ failing = <<group, 0>> /\ HasEvents(group)
  /\ Throw("ioctl")
  /\ UNCHANGED <<choices, run, event, groups, kernel, happened, ticks, preempted>>

\* A time slice of the kernel: the events in `now` happen; the counters of
\* some groups are on the PMU, the others have to wait.
Tick ==
  /\ pc = "kernel" /\ ticks < MaxTicks
  /\ \E now \in SUBSET Names, waiting \in SUBSET {groups[g].groupfd : g \in DOMAIN groups} :
       LET Counts(fd) == \E name \in now : \E g \in DOMAIN config :
             \E i \in DOMAIN config[g] : /\ config[g][i] = name
                                         /\ fd = groups[g].groupfd + i - 1
           Next1(fd) ==
             LET c == counters[fd]
                 on == counters[c.leader].on /\ c.on
                 runs == on /\ c.leader \notin waiting
             IN  [c EXCEPT !.enabled = IF on THEN @ + 1 ELSE @,
                           !.running = IF runs THEN @ + 1 ELSE @,
                           !.count = IF runs /\ Counts(fd) THEN @ + 1 ELSE @]
       IN  /\ counters' = [fd \in DOMAIN counters |-> Next1(fd)]
           /\ happened' = [name \in Names |-> IF name \in now THEN happened[name] + 1
                                              ELSE happened[name]]
           /\ preempted' = preempted \cup waiting
  /\ ticks' = ticks + 1
  /\ UNCHANGED <<choices, pc, run, group, event, groups, exception, open, opened>>

KernelReturns ==
  /\ pc = "kernel"
  /\ pc' = "disable"
  /\ UNCHANGED <<choices, run, group, event, groups, exception, kernel, happened, ticks, preempted>>

SwitchedOff(leader) ==
  [fd \in DOMAIN counters |->
     IF fd \in Members(leader) THEN [counters[fd] EXCEPT !.on = FALSE] ELSE counters[fd]]

Disable ==
  /\ pc = "disable"
  /\ counters' = IF HasEvents(group) THEN SwitchedOff(groups[group].groupfd) ELSE counters
  /\ groups' = [groups EXCEPT ![group].enabled = FALSE]
  /\ NextGroup("disable", "update")
  /\ UNCHANGED <<choices, run, event, exception, open, opened, happened, ticks, preempted>>

\* The words of a group read, n values with their ids after n and the times.
GroupRead(n) == 3 + 2 * n

\* Mutant of Readable: a read that fills the buffer is one.
ReadableIfFull(n) == GroupRead(n) <= GroupRead(MAX_EVENT_VALUES)

\* read() fails if the buffer is too small; a full one is taken for a failure.
Readable(n) == GroupRead(n) < GroupRead(MAX_EVENT_VALUES)

Extrapolate(enabled, running, count) ==
  IF running = 0 THEN 0 ELSE (count * enabled) \div running

\* Mutant of Updated: extrapolates with the times of the last update.
UpdatedWithOldTimes(g) ==
  LET leader == counters[g.groupfd]
      Event(e) == LET n == counters[e.fd].count IN
                  [e EXCEPT !.count = n,
                            !.extrapolated = Extrapolate(g.time_enabled, g.time_running, n)]
  IN  [g EXCEPT !.time_enabled = leader.enabled, !.time_running = leader.running,
                !.events = [name \in DOMAIN g.events |-> Event(g.events[name])]]

\* The group g with the times and counts that a read gives.
Updated(g) ==
  LET leader == counters[g.groupfd]
      Event(e) == LET n == counters[e.fd].count IN
                  [e EXCEPT !.count = n,
                            !.extrapolated = Extrapolate(leader.enabled, leader.running, n)]
  IN  [g EXCEPT !.time_enabled = leader.enabled, !.time_running = leader.running,
                !.events = [name \in DOMAIN g.events |-> Event(g.events[name])]]

Known(g) == {groups[g].events[name].fd : name \in DOMAIN groups[g].events}

Update ==
  /\ pc = "update"
  /\ HasEvents(group) => /\ Readable(Cardinality(Members(groups[group].groupfd)))
                         /\ Members(groups[group].groupfd) \subseteq Known(group)
  /\ groups' = IF HasEvents(group) THEN [groups EXCEPT ![group] = Updated(@)] ELSE groups
  /\ NextGroup("update", "record")
  /\ UNCHANGED <<choices, run, event, exception, kernel, happened, ticks, preempted>>

\* What was stored before an unknown id is not used again.
UpdateFails ==
  /\ pc = "update" /\ HasEvents(group)
  /\ LET members == Members(groups[group].groupfd) IN
     \/ ~ Readable(Cardinality(members)) /\ Throw("read")
     \/ /\ Readable(Cardinality(members)) /\ ~ members \subseteq Known(group)
        /\ Throw("id")
  /\ UNCHANGED <<choices, run, event, groups, kernel, happened, ticks, preempted>>

\* The master takes the values over into the ProfilingRun.
EndOfRun ==
  /\ pc = "record"
  /\ run' = run + 1
  /\ pc' = IF run + 1 < Runs THEN "enable" ELSE "destroy"
  /\ UNCHANGED <<choices, group, event, groups, exception, kernel, happened, ticks, preempted>>

\* Mutant of Closed: the descriptor of the group, not those of its events.
ClosedLeader(g) == open \ {groups[g].groupfd}

Closed(g) == open \ Known(g)

\* ~EventGroup, for the next group of the vector.
Destroy ==
  /\ pc = "destroy" /\ group <= Len(groups)
  /\ counters' = IF groups[group].enabled /\ HasEvents(group)
                 THEN SwitchedOff(groups[group].groupfd) ELSE counters
  /\ open' = Closed(group)
  /\ group' = group + 1
  /\ UNCHANGED <<choices, pc, run, event, groups, exception, opened, happened, ticks, preempted>>

Return ==
  /\ pc = "destroy" /\ group > Len(groups)
  /\ pc' = "done"
  /\ UNCHANGED <<choices, run, group, event, groups, exception, kernel, happened, ticks, preempted>>

Next ==
  \/ MakeEvent \/ MakeEventFails \/ MakeGroup \/ Enable \/ EnableFails \/ Tick
  \/ KernelReturns \/ Disable \/ Update \/ UpdateFails \/ EndOfRun \/ Destroy \/ Return

Spec == Init /\ [][Next]_vars

-----------------------------------------------------------------------------
Repeated(g) == {i \in DOMAIN config[g] : \E k \in 1 .. i - 1 : config[g][k] = config[g][i]}
Distinct(g) == Repeated(g) = {}
Unscheduled(g) == groups[g].groupfd \in preempted

\* Each group leads its events, and the events of the map are open until the
\* group is destroyed (make_event_group: the first event is the leader).
PerfTypeOK ==
  /\ pc \in {"make", "enable", "kernel", "disable", "update", "record", "destroy", "done"}
  /\ run \in 0 .. Runs /\ ticks \in 0 .. MaxTicks /\ open \subseteq 1 .. opened
  /\ \A g \in DOMAIN groups :
       (pc \in {"destroy", "done"} => g >= group) =>
         /\ Known(g) \subseteq Members(groups[g].groupfd)
         /\ HasEvents(g) => config[g][1] \in DOMAIN groups[g].events

\* What is recorded of a run is what happened in it, name by name and in every
\* group: the counts are reset, and none is extrapolated in a group that never
\* had to wait.  A group that waited in an earlier run is still extrapolated in
\* a later one, because the reset leaves the times (EventGroup::enable, update).
CountsAreOfTheRun ==
  pc = "record" =>
    \A g \in DOMAIN groups : HasEvents(g) =>
      \A name \in DOMAIN groups[g].events :
        LET e == groups[g].events[name] IN
        /\ e.count <= happened[name]
        /\ ~ Unscheduled(g) /\ groups[g].time_enabled > 0
             => e.count = happened[name] /\ e.extrapolated = happened[name]

\* The counters of a run can be read, unless a group names an event twice or
\* has MAX_EVENT_VALUES events or more: one less than update() says it takes
\* (perf_event_group_read against "Expected fewer than", perf-events.cpp).
ReadFailsOnlyForLargeGroups ==
  LET readable(g) == Distinct(g) /\ Len(config[g]) < MAX_EVENT_VALUES IN
  /\ exception \in {"read", "id"} => \E g \in DOMAIN config : ~ readable(g)
  /\ pc = "record" => \A g \in DOMAIN config : readable(g)

\* When the groups are gone all descriptors are closed but those of repeated
\* names, which the map did not take, and of the group that could not be made
\* (make_event_group and ~EventGroup).
DescriptorsClosed ==
  pc = "done" =>
    open = {fd \in 1 .. opened :
              \/ fd > opened - (event - 1) /\ exception = "open"
              \/ \E g \in DOMAIN groups : fd - groups[g].groupfd + 1 \in Repeated(g)}
=============================================================================
