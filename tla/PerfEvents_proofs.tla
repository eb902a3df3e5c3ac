------------------------- MODULE PerfEvents_proofs --------------------------
(***************************************************************************)
(* What perf-events.cpp does with the descriptors and the counts of any    *)
(* list of event groups, for any number of runs and wherever a call fails: *)
(* each group's descriptors stay in a row behind its leader, its map knows *)
(* the first event of each name, and what is recorded of a run happened in *)
(* that run.                                                               *)
(***************************************************************************)
EXTENDS PerfEvents, FiniteSetTheorems, TLAPS

EventRecord == [fd : Nat, count : Nat, extrapolated : Nat]
EventMaps == UNION {[S -> EventRecord] : S \in SUBSET STRING}
GroupRecord == [groupfd : Nat, events : EventMaps, enabled : BOOLEAN,
                time_enabled : Nat, time_running : Nat]
CounterRecord == [leader : Nat, on : BOOLEAN, count : Nat, enabled : Nat, running : Nat]

Labels == {"make", "enable", "kernel", "disable", "update", "record", "destroy", "done"}
After == {"destroy", "done"}

\* Where the group's i-th event is, if the descriptors of a group are in a row.
Slot(g, i) == groups[g].groupfd + i - 1

\* How many events of the group have been opened.
Opened(g) == IF pc = "make" /\ g = group THEN event - 1 ELSE Len(config[g])

\* The first opened event of each name.
Firsts(g) == {i \in 1 .. Opened(g) : i \notin Repeated(g)}

\* The descriptors that a failed make_event_group leaves behind.
Lost(fd) == exception = "open" /\ fd > opened - (event - 1)

\* Where the loops over the groups and the events can be.
LoopsInv ==
  /\ config \in GroupChoices /\ pc \in Labels
  /\ groups \in Seq(GroupRecord) /\ Len(groups) <= Len(config)
  /\ counters \in Seq(CounterRecord) /\ Len(counters) = opened /\ opened \in Nat
  /\ run \in 0 .. Runs /\ ticks \in 0 .. MaxTicks
  /\ event \in Nat \ {0} /\ group \in Nat \ {0}
  /\ pc \notin After => run < Runs /\ exception = "none"
  /\ pc = "make" => group = Len(groups) /\ event <= Len(config[group]) + 1
  /\ pc \in {"enable", "disable", "update"} => group <= Len(groups)
  /\ pc \in {"kernel", "record"} => group = 1
  /\ pc \in After => group <= Len(groups) + 1
  /\ pc = "done" => group = Len(groups) + 1
  /\ pc # "make" /\ exception # "open" => event = 1 /\ Len(groups) = Len(config)

\* The descriptors of the groups are apart, in the order of the groups, and led
\* by the first one of their own group; there are no others but the lost ones.
GroupsInv ==
  /\ pc = "make" /\ event > 1 => Slot(group, event) = opened + 1
  /\ \A g \in DOMAIN groups : \A i \in 1 .. Opened(g) :
       /\ Slot(g, i) \in 1 .. opened /\ ~ Lost(Slot(g, i))
       /\ counters[Slot(g, i)].leader = groups[g].groupfd
       /\ \A h \in DOMAIN groups : \A k \in 1 .. Opened(h) : g < h => Slot(g, i) < Slot(h, k)
  /\ \A fd \in 1 .. opened :
       Lost(fd) \/ \E g \in DOMAIN groups : \E i \in 1 .. Opened(g) : fd = Slot(g, i)

\* The map of a group knows the first event of each name.
MapsInv ==
  \A g \in DOMAIN groups :
    /\ Opened(g) = 0 <=> groups[g].groupfd = NotOpen
    /\ \A i \in 1 .. Opened(g) : config[g][i] \in DOMAIN groups[g].events
    /\ \A name \in DOMAIN groups[g].events : \E i \in Firsts(g) : name = config[g][i]
    /\ \A i \in Firsts(g) : groups[g].events[config[g][i]].fd = Slot(g, i)

\* Only the destructors close descriptors, each those that its map knows.
OpenInv ==
  \A fd : fd \in open <=>
    /\ fd \in 1 .. opened
    /\ pc \in After => \A g \in DOMAIN groups : g < group => fd \notin Known(g)

\* The groups that the loop over them has read are those that can be read.
CanBeRead(g) == Distinct(g) /\ Len(config[g]) < MAX_EVENT_VALUES

ReadInv ==
  /\ pc = "update" => \A g \in DOMAIN groups : g < group => CanBeRead(g)
  /\ pc = "record" => \A g \in DOMAIN groups : CanBeRead(g)
  /\ exception \in {"read", "id"} => \E g \in DOMAIN config : ~ CanBeRead(g)

\* The counters that are on count what happens since they were reset, unless
\* their group has to wait; then its leader's times differ.
CountsUp(g, i) ==
  LET c == counters[Slot(g, i)] IN
  /\ pc = "enable" /\ g < group => c.on /\ c.count = 0
  /\ pc = "kernel" => c.on
  /\ pc \in {"kernel", "disable", "update", "record"} =>
       /\ c.count <= happened[config[g][i]]
       /\ ~ Unscheduled(g) => c.count = happened[config[g][i]]

CountsInv ==
  /\ happened \in [Names -> Nat]
  /\ pc = "enable" /\ group > 1 => \A name \in Names : happened[name] = 0
  /\ \A g \in DOMAIN groups : Opened(g) > 0 =>
       /\ ~ Unscheduled(g) =>
            counters[groups[g].groupfd].enabled = counters[groups[g].groupfd].running
       /\ \A i \in 1 .. Opened(g) : CountsUp(g, i)
       /\ (pc = "update" /\ g < group) \/ pc = "record" => groups[g] = Updated(groups[g])

IInv == LoopsInv /\ GroupsInv /\ MapsInv /\ OpenInv /\ ReadInv /\ CountsInv

-----------------------------------------------------------------------------
(* What the invariant says of a group                                      *)

LEMMA ReplaceInSequence ==
  ASSUME NEW R, NEW s \in Seq(R), NEW i \in 1 .. Len(s), NEW x \in R
  PROVE  /\ [s EXCEPT ![i] = x] \in Seq(R) /\ Len([s EXCEPT ![i] = x]) = Len(s)
         /\ DOMAIN [s EXCEPT ![i] = x] = DOMAIN s
         /\ [s EXCEPT ![i] = x][i] = x
         /\ \A k \in 1 .. Len(s) : k # i => [s EXCEPT ![i] = x][k] = s[k]
OBVIOUS

LEMMA MapInSequence ==
  ASSUME NEW R, NEW n \in Nat, NEW f, DOMAIN f = 1 .. n, f = [i \in 1 .. n |-> f[i]],
         \A i \in 1 .. n : f[i] \in R
  PROVE  f \in Seq(R) /\ Len(f) = n
OBVIOUS

LEMMA ConfigIsSequences ==
  ASSUME config \in GroupChoices
  PROVE  /\ config \in Seq(Seq(STRING)) /\ Len(config) \in Nat \ {0}
         /\ DOMAIN config = 1 .. Len(config)
         /\ \A g \in DOMAIN config :
              /\ Len(config[g]) \in Nat /\ DOMAIN config[g] = 1 .. Len(config[g])
              /\ \A i \in 1 .. Len(config[g]) : config[g][i] \in STRING
                                                /\ config[g][i] \in Names
BY GroupChoicesAssumption DEF Names

\* The ranges of the indices, group by group.
LEMMA GroupRanges ==
  ASSUME LoopsInv
  PROVE  /\ DOMAIN groups = 1 .. Len(groups) /\ Len(groups) \in Nat
         /\ DOMAIN counters = 1 .. opened
         /\ pc \notin {"make"} \cup After => DOMAIN groups = DOMAIN config
         /\ \A g \in DOMAIN groups :
              /\ g \in DOMAIN config /\ g \in Nat \ {0} /\ groups[g] \in GroupRecord
              /\ groups[g].groupfd \in Nat /\ groups[g].events \in EventMaps
              /\ Opened(g) \in Nat /\ Opened(g) <= Len(config[g])
<1>1. /\ DOMAIN groups = 1 .. Len(groups) /\ Len(groups) \in Nat
      /\ DOMAIN counters = 1 .. opened
      /\ \A g \in DOMAIN groups : groups[g] \in GroupRecord
  BY DEF LoopsInv
<1>2. \A g \in DOMAIN groups : g \in DOMAIN config /\ g \in Nat \ {0}
  <2>1. config \in GroupChoices /\ Len(groups) <= Len(config)
    BY DEF LoopsInv
  <2>2. DOMAIN config = 1 .. Len(config) /\ Len(config) \in Nat
    BY <2>1, ConfigIsSequences
  <2>3. QED
    BY <1>1, <2>1, <2>2
<1>3. \A g \in DOMAIN groups : groups[g].groupfd \in Nat /\ groups[g].events \in EventMaps
  BY <1>1 DEF GroupRecord
<1>4. pc \notin {"make"} \cup After => DOMAIN groups = DOMAIN config
  BY <1>1, ConfigIsSequences DEF LoopsInv
<1>5. \A g \in DOMAIN groups : Opened(g) \in Nat /\ Opened(g) <= Len(config[g])
  <2> TAKE g \in DOMAIN groups
  <2>1. Len(config[g]) \in Nat
    BY <1>2, ConfigIsSequences DEF LoopsInv
  <2>2. pc = "make" /\ g = group => event - 1 \in Nat /\ event - 1 <= Len(config[g])
    BY <2>1 DEF LoopsInv
  <2>3. QED
    BY <2>1, <2>2 DEF Opened
<1>6. QED
  BY <1>1, <1>2, <1>3, <1>4, <1>5

LEMMA EventTypes ==
  ASSUME LoopsInv, NEW g \in DOMAIN groups, NEW name \in DOMAIN groups[g].events
  PROVE  groups[g].events[name] \in EventRecord
<1>1. PICK S \in SUBSET STRING : groups[g].events \in [S -> EventRecord]
  BY GroupRanges DEF EventMaps
<1>2. QED
  BY <1>1

LEMMA SlotsDiffer ==
  ASSUME LoopsInv, GroupsInv, NEW g \in DOMAIN groups, NEW h \in DOMAIN groups,
         NEW i \in 1 .. Opened(g), NEW k \in 1 .. Opened(h), Slot(g, i) = Slot(h, k)
  PROVE  g = h /\ i = k
<1>1. /\ g \in Nat /\ h \in Nat /\ groups[g].groupfd \in Nat /\ groups[h].groupfd \in Nat
      /\ Opened(g) \in Nat /\ Opened(h) \in Nat
  BY GroupRanges
<1>2. ~ (g < h) /\ ~ (h < g)
  <2>1. g < h => Slot(g, i) < Slot(h, k)
    BY DEF GroupsInv
  <2>2. h < g => Slot(h, k) < Slot(g, i)
    BY DEF GroupsInv
  <2>3. Slot(g, i) \in Int /\ Slot(h, k) \in Int
    BY <1>1 DEF Slot
  <2>4. QED
    BY <2>1, <2>2, <2>3
<1>3. g = h
  BY <1>1, <1>2
<1>4. i = k
  BY <1>1, <1>3 DEF Slot
<1>5. QED
  BY <1>3, <1>4

LEMMA KnownSlots ==
  ASSUME LoopsInv, MapsInv, NEW g \in DOMAIN groups
  PROVE  Known(g) = {Slot(g, i) : i \in Firsts(g)} /\ Firsts(g) \subseteq 1 .. Opened(g)
<1>1. Firsts(g) \subseteq 1 .. Opened(g)
  BY DEF Firsts
<1>2. \A i \in Firsts(g) : /\ config[g][i] \in DOMAIN groups[g].events
                           /\ groups[g].events[config[g][i]].fd = Slot(g, i)
  BY <1>1 DEF MapsInv
<1>3. \A name \in DOMAIN groups[g].events : \E i \in Firsts(g) :
        name = config[g][i] /\ groups[g].events[name].fd = Slot(g, i)
  BY <1>2 DEF MapsInv
<1>4. QED
  BY <1>1, <1>2, <1>3 DEF Known

LEMMA WithEvents ==
  ASSUME LoopsInv, MapsInv, NEW g \in DOMAIN groups
  PROVE  HasEvents(g) <=> Opened(g) > 0
<1>1. Opened(g) \in Nat
  BY GroupRanges
<1>2. ASSUME Opened(g) > 0 PROVE HasEvents(g)
  <2>1. 1 \in 1 .. Opened(g) /\ groups[g].groupfd # NotOpen
    BY <1>1, <1>2 DEF MapsInv
  <2>2. config[g][1] \in DOMAIN groups[g].events
    BY <2>1 DEF MapsInv
  <2>3. DOMAIN NoEvents = {}
    BY DEF NoEvents
  <2>4. QED
    BY <2>1, <2>2, <2>3 DEF HasEvents
<1>3. ASSUME ~ (Opened(g) > 0) PROVE ~ HasEvents(g)
  BY <1>1, <1>3 DEF MapsInv, HasEvents
<1>4. QED
  BY <1>2, <1>3

\* While no destructor has run, the members of a group are its descriptors.
LEMMA MembersAreSlots ==
  ASSUME LoopsInv, GroupsInv, MapsInv, OpenInv, pc \notin After,
         NEW g \in DOMAIN groups, Opened(g) > 0
  PROVE  Members(groups[g].groupfd) = {Slot(g, i) : i \in 1 .. Opened(g)}
<1>1. open = 1 .. opened /\ exception = "none"
  BY DEF OpenInv, LoopsInv
<1>2. \A i \in 1 .. Opened(g) : Slot(g, i) \in Members(groups[g].groupfd)
  BY <1>1 DEF GroupsInv, Members
<1>3. ASSUME NEW fd \in Members(groups[g].groupfd)
      PROVE  \E i \in 1 .. Opened(g) : fd = Slot(g, i)
  <2>1. fd \in 1 .. opened /\ counters[fd].leader = groups[g].groupfd
    BY <1>1 DEF Members
  <2>2. PICK h \in DOMAIN groups : \E i \in 1 .. Opened(h) : fd = Slot(h, i)
    BY <1>1, <2>1 DEF GroupsInv, Lost
  <2>3. PICK i \in 1 .. Opened(h) : fd = Slot(h, i)
    BY <2>2
  <2>4. groups[h].groupfd = groups[g].groupfd
    BY <2>1, <2>3 DEF GroupsInv
  <2>5. 1 \in 1 .. Opened(g) /\ 1 \in 1 .. Opened(h)
    BY GroupRanges
  <2>6. Slot(h, 1) = Slot(g, 1)
    BY <2>4 DEF Slot
  <2>7. h = g
    BY <2>5, <2>6, SlotsDiffer
  <2>8. QED
    BY <2>3, <2>7
<1>4. QED
  BY <1>2, <1>3

\* The members of a group are as many as it has events.
LEMMA MembersCounted ==
  ASSUME LoopsInv, NEW g \in DOMAIN groups
  PROVE  Cardinality({Slot(g, i) : i \in 1 .. Opened(g)}) = Opened(g)
<1> DEFINE n == Opened(g)
           b == groups[g].groupfd
<1>1. n \in Nat /\ b \in Nat
  BY GroupRanges
<1>2. {Slot(g, i) : i \in 1 .. n} = b .. b + n - 1
  <2>1. \A i \in 1 .. n : Slot(g, i) = b + i - 1
    BY DEF Slot
  <2> HIDE DEF n, b
  <2>2. \A i \in 1 .. n : b + i - 1 \in b .. b + n - 1
    BY <1>1
  <2>3. \A fd \in b .. b + n - 1 : fd - b + 1 \in 1 .. n /\ b + (fd - b + 1) - 1 = fd
    BY <1>1
  <2>4. QED
    BY <2>1, <2>2, <2>3
<1> HIDE DEF n, b
<1>3. Cardinality(b .. b + n - 1) = n
  BY <1>1, FS_Interval
<1>4. QED
  BY <1>2, <1>3 DEF n

\* The maps know all members just if no name is repeated.
LEMMA AllKnown ==
  ASSUME LoopsInv, GroupsInv, MapsInv, pc # "make", NEW g \in DOMAIN groups
  PROVE  {Slot(g, i) : i \in 1 .. Opened(g)} \subseteq Known(g) <=> Distinct(g)
<1>1. Opened(g) = Len(config[g]) /\ DOMAIN config[g] = 1 .. Len(config[g])
  BY GroupRanges, ConfigIsSequences DEF Opened, LoopsInv
<1>2. ASSUME Distinct(g) PROVE {Slot(g, i) : i \in 1 .. Opened(g)} \subseteq Known(g)
  <2>1. Firsts(g) = 1 .. Opened(g)
    BY <1>2 DEF Firsts, Distinct
  <2>2. QED
    BY <2>1, KnownSlots
<1>3. ASSUME {Slot(g, i) : i \in 1 .. Opened(g)} \subseteq Known(g), ~ Distinct(g)
      PROVE  FALSE
  <2>1. PICK i \in Repeated(g) : TRUE
    BY <1>3 DEF Distinct
  <2>2. i \in 1 .. Opened(g)
    BY <1>1 DEF Repeated
  <2>3. Slot(g, i) \in Known(g)
    BY <1>3, <2>2
  <2>4. PICK k \in Firsts(g) : Slot(g, i) = Slot(g, k)
    BY <2>3, KnownSlots
  <2>5. i = k
    BY <2>2, <2>4, KnownSlots, SlotsDiffer
  <2>6. QED
    BY <2>4, <2>5 DEF Firsts
<1>4. QED
  BY <1>2, <1>3

-----------------------------------------------------------------------------
(* Making the groups *)

LEMMA NewGroupIsGroup ==
  NewGroup \in GroupRecord /\ DOMAIN NewGroup.events = {} /\ NewGroup.groupfd = NotOpen
<1>1. NoEvents \in [{} -> EventRecord]
  BY DEF NoEvents
<1>2. NoEvents \in EventMaps
  BY <1>1 DEF EventMaps
<1>3. DOMAIN NoEvents = {}
  BY DEF NoEvents
<1>4. QED
  BY <1>2, <1>3 DEF NewGroup, GroupRecord, NotOpen

LEMMA KeepAdds ==
  ASSUME NEW e \in EventMaps, NEW name \in STRING, NEW fd \in Nat
  PROVE  /\ Keep(e, name, fd) \in EventMaps
         /\ DOMAIN Keep(e, name, fd) = DOMAIN e \cup {name}
         /\ \A n \in DOMAIN e : Keep(e, name, fd)[n] = e[n]
         /\ name \notin DOMAIN e => Keep(e, name, fd)[name].fd = fd
<1>1. PICK S \in SUBSET STRING : e \in [S -> EventRecord]
  BY DEF EventMaps
<1>2. [Zero EXCEPT !.fd = fd] \in EventRecord /\ [Zero EXCEPT !.fd = fd].fd = fd
  BY DEF EventRecord, Zero, NotOpen
<1>3. Keep(e, name, fd) \in [S \cup {name} -> EventRecord]
  BY <1>1, <1>2 DEF Keep
<1>4. Keep(e, name, fd) \in EventMaps
  BY <1>3 DEF EventMaps
<1>5. QED
  BY <1>2, <1>4 DEF Keep

LEMMA InitEstablishes == Init => IInv
<1> SUFFICES ASSUME Init PROVE IInv
  OBVIOUS
<1>1. /\ config \in GroupChoices /\ pc = "make" /\ run = 0 /\ group = 1 /\ event = 1
      /\ groups = <<NewGroup>> /\ exception = "none" /\ open = {} /\ opened = 0
      /\ counters = <<>> /\ happened = [name \in Names |-> 0] /\ ticks = 0
  BY DEF Init
<1>2. Len(config) \in Nat \ {0} /\ Len(config[1]) \in Nat
  BY <1>1, ConfigIsSequences
<1>3. LoopsInv
  <2>1. groups \in Seq(GroupRecord) /\ Len(groups) = 1
    BY <1>1, NewGroupIsGroup
  <2>2. counters \in Seq(CounterRecord) /\ Len(counters) = 0
    BY <1>1
  <2>3. QED
    BY <1>1, <1>2, <2>1, <2>2, BoundsAssumption DEF LoopsInv, Labels, After
<1>4. DOMAIN groups = {1} /\ groups[1] = NewGroup /\ Opened(1) = 0
  BY <1>1 DEF Opened
<1>5. GroupsInv
  BY <1>1, <1>4 DEF GroupsInv
<1>6. MapsInv
  <2>1. Firsts(1) = {}
    BY <1>4 DEF Firsts
  <2>2. QED
    BY <1>4, <2>1, NewGroupIsGroup DEF MapsInv
<1>7. OpenInv /\ ReadInv
  BY <1>1 DEF OpenInv, ReadInv, After
<1>8. CountsInv
  BY <1>1, <1>4 DEF CountsInv
<1>9. QED
  BY <1>3, <1>5, <1>6, <1>7, <1>8 DEF IInv

\* What MakeEvent does, with its LET taken apart.
LEMMA MakeEventParts ==
  ASSUME LoopsInv, MakeEvent
  PROVE  \E name \in STRING, leader \in Nat, r \in GroupRecord, c \in CounterRecord :
           /\ name = config[group][event] /\ name \in Names
           /\ leader = IF event = 1 THEN opened + 1 ELSE groups[group].groupfd
           /\ r.groupfd = leader
           /\ r.events = Keep(groups[group].events, name, opened + 1)
           /\ groups' = [groups EXCEPT ![group] = r]
           /\ c.leader = leader /\ c.enabled = 0 /\ c.running = 0
           /\ counters' = Append(counters, c)
<1> DEFINE name == config[group][event]
           leader == Leader(opened + 1)
           r == [groups[group] EXCEPT !.groupfd = leader,
                                      !.events = Keep(groups[group].events, name, opened + 1)]
           c == [leader |-> leader, on |-> event > 1, count |-> 0, enabled |-> 0, running |-> 0]
<1>1. /\ opened \in Nat /\ groups[group] \in GroupRecord /\ group \in DOMAIN groups
      /\ groups[group].groupfd \in Nat /\ groups[group].events \in EventMaps
      /\ group \in DOMAIN config
  BY GroupRanges DEF LoopsInv, MakeEvent
<1>2. event \in 1 .. Len(config[group])
  BY <1>1, ConfigIsSequences DEF MakeEvent, LoopsInv
<1>3. name \in STRING /\ name \in Names /\ name = config[group][event]
  BY <1>1, <1>2, ConfigIsSequences DEF LoopsInv
<1>4. leader \in Nat /\ leader = IF event = 1 THEN opened + 1 ELSE groups[group].groupfd
  BY <1>1 DEF Leader
<1>5. c \in CounterRecord /\ c.leader = leader /\ c.enabled = 0 /\ c.running = 0
  BY <1>4 DEF CounterRecord
<1>6. counters' = Append(counters, c)
  BY DEF MakeEvent
<1>7. groups' = [groups EXCEPT ![group] = r]
  <2>1. groups' = [groups EXCEPT ![group].groupfd = leader,
                                 ![group].events = Keep(@, name, opened + 1)]
    BY DEF MakeEvent
  <2> HIDE DEF leader, name
  <2>2. QED
    BY <1>1, <2>1 DEF GroupRecord
<1>8. Keep(groups[group].events, name, opened + 1) \in EventMaps
  <2> HIDE DEF name
  <2>1. opened + 1 \in Nat
    BY <1>1
  <2>2. QED
    BY <1>1, <1>3, <2>1, KeepAdds
<1>9. /\ r \in GroupRecord /\ r.groupfd = leader
      /\ r.events = Keep(groups[group].events, name, opened + 1)
  <2> DEFINE e == Keep(groups[group].events, name, opened + 1)
  <2> HIDE DEF e, leader, name
  <2>1. QED
    BY <1>1, <1>4, <1>8 DEF GroupRecord, e
<1> HIDE DEF name, leader, r, c
<1>10. QED
  BY <1>3, <1>4, <1>5, <1>6, <1>7, <1>9

\* The slots after MakeEvent: those before it, and the new descriptor's.
LEMMA MakeEventKeeps == ASSUME IInv, MakeEvent PROVE IInv'
<1>1. PICK name \in STRING, leader \in Nat, r \in GroupRecord, c \in CounterRecord :
        /\ name = config[group][event] /\ name \in Names
        /\ leader = IF event = 1 THEN opened + 1 ELSE groups[group].groupfd
        /\ r.groupfd = leader
        /\ r.events = Keep(groups[group].events, name, opened + 1)
        /\ groups' = [groups EXCEPT ![group] = r]
        /\ c.leader = leader /\ c.enabled = 0 /\ c.running = 0
        /\ counters' = Append(counters, c)
  BY MakeEventParts DEF IInv
<1>2. /\ pc = "make" /\ pc' = "make" /\ config' = config /\ event' = event + 1
      /\ group' = group /\ exception' = exception /\ exception = "none" /\ run' = run
      /\ opened' = opened + 1 /\ open' = open \cup {opened + 1}
      /\ happened' = happened /\ ticks' = ticks /\ preempted' = preempted
      /\ event <= Len(config[group])
  BY DEF MakeEvent, choices, IInv, LoopsInv, After
<1>3. /\ group \in DOMAIN groups /\ group = Len(groups) /\ opened \in Nat
      /\ event \in Nat \ {0} /\ DOMAIN groups = 1 .. Len(groups) /\ Len(groups) \in Nat
      /\ groups \in Seq(GroupRecord) /\ counters \in Seq(CounterRecord)
      /\ Len(counters) = opened
  BY <1>2 DEF IInv, LoopsInv
<1>0. PICK G \in DOMAIN groups : G = group
  BY <1>3
<1>4. /\ groups' \in Seq(GroupRecord) /\ Len(groups') = Len(groups)
      /\ DOMAIN groups' = DOMAIN groups /\ groups'[G] = r
      /\ \A g \in DOMAIN groups : g # G => groups'[g] = groups[g]
  BY <1>0, <1>1, <1>3, ReplaceInSequence
<1>5. /\ counters' \in Seq(CounterRecord) /\ Len(counters') = opened + 1
      /\ counters'[opened + 1] = c
      /\ \A fd \in 1 .. opened : counters'[fd] = counters[fd]
  BY <1>0, <1>1, <1>3
<1>6. leader = opened + 2 - event /\ leader # NotOpen
  <2>1. CASE event = 1
    BY <1>0, <1>1, <1>3, <2>1 DEF NotOpen
  <2>2. CASE event # 1
    <3>1. leader = groups[G].groupfd /\ event > 1
      BY <1>0, <1>1, <1>3, <2>2
    <3>2. Slot(G, event) = opened + 1
      BY <1>0, <1>2, <3>1 DEF IInv, GroupsInv
    <3>3. leader = opened + 2 - event
      BY <1>0, <1>3, <3>1, <3>2 DEF Slot
    <3>4. Opened(G) # 0
      BY <1>0, <1>2, <1>3, <3>1 DEF Opened
    <3>5. QED
      BY <1>0, <1>3, <3>1, <3>3, <3>4 DEF IInv, MapsInv
  <2>3. QED
    BY <2>1, <2>2
<1>7. /\ Opened(G) = event - 1 /\ Opened(G)' = event
      /\ \A g \in DOMAIN groups : Opened(g) \in Nat
      /\ \A g \in DOMAIN groups : g # G => Opened(g)' = Opened(g)
  <2>1. \A g \in DOMAIN groups : Opened(g) \in Nat
    BY GroupRanges DEF IInv
  <2>2. QED
    BY <1>0, <1>2, <1>3, <2>1 DEF Opened
<1>8. /\ \A i : Slot(G, i)' = leader + i - 1
      /\ \A g \in DOMAIN groups : g # G => \A i : Slot(g, i)' = Slot(g, i)
  BY <1>0, <1>1, <1>4 DEF Slot
<1>9. \A i : i = event => Slot(G, i)' = opened + 1
  BY <1>0, <1>3, <1>6, <1>8
<1>10. \A i \in 1 .. event - 1 : Slot(G, i)' = Slot(G, i)
                                 /\ groups'[G].groupfd = groups[G].groupfd
  BY <1>0, <1>1, <1>3, <1>4, <1>8 DEF Slot
<1>11. \A g \in DOMAIN groups : \A i \in 1 .. Opened(g) :
         /\ i \in 1 .. Opened(g)' /\ Slot(g, i)' = Slot(g, i)
         /\ groups'[g].groupfd = groups[g].groupfd
  BY <1>0, <1>3, <1>4, <1>7, <1>8, <1>10
<1>12. \A g \in DOMAIN groups : \A i \in 1 .. Opened(g)' :
         i \in 1 .. Opened(g) \/ (g = G /\ i = event)
  BY <1>0, <1>3, <1>7
<1>13. LoopsInv'
  BY <1>0, <1>2, <1>3, <1>4, <1>5 DEF IInv, LoopsInv
<1>14. GroupsInv'
    <2>2. \A fd : ~ Lost(fd)' /\ ~ Lost(fd)
    BY <1>0, <1>2 DEF Lost
  <2>3. \A g \in DOMAIN groups : \A i \in 1 .. Opened(g) :
          Slot(g, i) \in 1 .. opened /\ counters[Slot(g, i)].leader = groups[g].groupfd
    BY DEF IInv, GroupsInv
  <2>4. \A g \in DOMAIN groups : \A i \in 1 .. Opened(g)' :
          /\ Slot(g, i)' \in 1 .. opened + 1
          /\ counters'[Slot(g, i)'].leader = groups'[g].groupfd
    <3> TAKE g \in DOMAIN groups
    <3> TAKE i \in 1 .. Opened(g)'
    <3>1. CASE i \in 1 .. Opened(g)
      BY <1>0, <1>3, <1>5, <1>11, <2>3, <3>1
    <3>2. CASE g = G /\ i = event
      BY <1>0, <1>1, <1>3, <1>4, <1>5, <1>9, <3>2
    <3>3. QED
      BY <1>12, <3>1, <3>2
  <2>5. ASSUME NEW g \in DOMAIN groups, NEW h \in DOMAIN groups, g < h,
               NEW i \in 1 .. Opened(g)', NEW k \in 1 .. Opened(h)'
        PROVE  Slot(g, i)' < Slot(h, k)'
    <3>1. g # G /\ i \in 1 .. Opened(g)
      BY <1>0, <1>3, <1>7, <2>5
    <3>2. Slot(g, i)' = Slot(g, i) /\ Slot(g, i) \in 1 .. opened
      BY <1>11, <2>3, <3>1
    <3>3. CASE k \in 1 .. Opened(h)
      <4>1. Slot(g, i) < Slot(h, k)
        BY <2>5, <3>1, <3>3 DEF IInv, GroupsInv
      <4>2. QED
        BY <1>11, <3>2, <3>3, <4>1
    <3>4. CASE h = G /\ k = event
      BY <1>0, <1>3, <1>9, <3>2, <3>4
    <3>5. QED
      BY <1>12, <3>3, <3>4
  <2>6. ASSUME NEW fd \in 1 .. opened + 1
        PROVE  \E g \in DOMAIN groups : \E i \in 1 .. Opened(g)' : fd = Slot(g, i)'
    <3>1. CASE fd = opened + 1
      <4>1. PICK e \in 1 .. Opened(G)' : e = event
        BY <1>0, <1>3, <1>7
      <4>2. QED
        BY <1>0, <1>3, <1>9, <3>1, <4>1
    <3>2. CASE fd # opened + 1
      <4>1. fd \in 1 .. opened
        BY <1>0, <1>3, <3>2
      <4>2. PICK g \in DOMAIN groups : \E i \in 1 .. Opened(g) : fd = Slot(g, i)
        BY <2>2, <4>1 DEF IInv, GroupsInv
      <4>3. QED
        BY <1>11, <4>2
    <3>3. QED
      BY <3>1, <3>2
  <2>7. groups'[group'].groupfd + event' - 1 = opened' + 1
    BY <1>0, <1>1, <1>2, <1>3, <1>4, <1>6
  <2>8. (pc = "make" /\ event > 1 => Slot(group, event) = opened + 1)'
    BY <2>7 DEF Slot
  <2>9. QED
    BY <1>2, <1>4, <2>2, <2>4, <2>5, <2>6, <2>8 DEF GroupsInv
<1>15. MapsInv'
  <2>1. \A g \in DOMAIN groups : Repeated(g)' = Repeated(g)
    BY <1>0, <1>2 DEF Repeated
  <2>2. ASSUME NEW g \in DOMAIN groups, g # G
        PROVE  Firsts(g)' = Firsts(g)
    BY <1>0, <1>7, <2>1, <2>2 DEF Firsts
  <2>3. \A i \in Firsts(G) : i \in Firsts(G)' /\ i \in 1 .. event - 1
    BY <1>0, <1>3, <1>7, <2>1 DEF Firsts
  <2>4. groups[G].events \in EventMaps /\ G \in DOMAIN config
    BY <1>0, <1>3, GroupRanges DEF IInv
  <2>5. /\ DOMAIN r.events = DOMAIN groups[G].events \cup {name}
        /\ \A n \in DOMAIN groups[G].events : r.events[n] = groups[G].events[n]
        /\ name \notin DOMAIN groups[G].events => r.events[name].fd = opened + 1
    <3> DEFINE fd == opened + 1
               e == groups[G].events
    <3>1. fd \in Nat /\ e \in EventMaps /\ r.events = Keep(e, name, fd)
      BY <1>0, <1>1, <1>3, <2>4
    <3> HIDE DEF fd, e
    <3>2. /\ DOMAIN r.events = DOMAIN e \cup {name}
          /\ \A n \in DOMAIN e : r.events[n] = e[n]
          /\ name \notin DOMAIN e => r.events[name].fd = fd
      BY <3>1, KeepAdds
    <3>3. QED
      BY <3>2 DEF fd, e
  <2>6. event \in Repeated(G) => name \in DOMAIN groups[G].events
    <3>1. ASSUME event \in Repeated(G) PROVE name \in DOMAIN groups[G].events
      <4>1. PICK k \in 1 .. event - 1 : config[G][k] = config[G][event]
        BY <3>1 DEF Repeated
      <4>2. QED
        BY <1>0, <1>1, <1>3, <1>7, <4>1 DEF IInv, MapsInv
    <3>2. QED
      BY <3>1
  <2>7. name \in DOMAIN groups[G].events => event \in Repeated(G)
    <3>1. ASSUME name \in DOMAIN groups[G].events PROVE event \in Repeated(G)
      <4>1. PICK k \in Firsts(G) : name = config[G][k]
        BY <1>0, <1>3, <3>1 DEF IInv, MapsInv
      <4>2. k \in 1 .. event - 1
        BY <2>3
      <4>3. event \in DOMAIN config[G]
        BY <1>0, <1>2, <1>3, <2>4, ConfigIsSequences DEF IInv, LoopsInv
      <4>4. QED
        BY <1>0, <1>1, <4>1, <4>2, <4>3 DEF Repeated
    <3>2. QED
      BY <3>1
  <2>8. Firsts(G)' \subseteq Firsts(G) \cup ({event} \ Repeated(G))
    BY <1>0, <1>3, <1>7, <2>1 DEF Firsts
  <2>9. event \notin Repeated(G) => event \in Firsts(G)'
    BY <1>0, <1>3, <1>7, <2>1 DEF Firsts
  <2>10. ASSUME NEW g \in DOMAIN groups, g # G
         PROVE  /\ Opened(g)' = 0 <=> groups'[g].groupfd = NotOpen
                /\ \A i \in 1 .. Opened(g)' : config'[g][i] \in DOMAIN groups'[g].events
                /\ \A n \in DOMAIN groups'[g].events : \E i \in Firsts(g)' : n = config'[g][i]
                /\ \A i \in Firsts(g)' : groups'[g].events[config'[g][i]].fd = Slot(g, i)'
    <3>1. groups'[g] = groups[g] /\ Opened(g)' = Opened(g) /\ Firsts(g)' = Firsts(g)
          /\ \A i : Slot(g, i)' = Slot(g, i)
      BY <1>0, <1>4, <1>7, <1>8, <2>2, <2>10
    <3>2. QED
      BY <1>0, <1>2, <3>1 DEF IInv, MapsInv
  <2>11. Opened(G)' # 0 /\ groups'[G].groupfd # NotOpen
    BY <1>0, <1>1, <1>3, <1>4, <1>6, <1>7
  <2>12. \A i \in 1 .. Opened(G)' : config'[G][i] \in DOMAIN groups'[G].events
    <3> TAKE i \in 1 .. Opened(G)'
    <3>1. CASE i \in 1 .. Opened(G)
      BY <1>0, <1>2, <1>3, <1>4, <2>5, <3>1 DEF IInv, MapsInv
    <3>2. CASE i = event
      BY <1>0, <1>1, <1>2, <1>4, <2>5, <3>2
    <3>3. QED
      BY <1>0, <1>3, <1>12, <3>1, <3>2
  <2>13. \A n \in DOMAIN groups'[G].events : \E i \in Firsts(G)' :
           n = config'[G][i]
    <3> TAKE n \in DOMAIN groups'[G].events
    <3>1. CASE n \in DOMAIN groups[G].events
      <4>1. PICK i \in Firsts(G) : n = config[G][i]
        BY <1>0, <1>3, <3>1 DEF IInv, MapsInv
      <4>2. QED
        BY <1>0, <1>2, <2>3, <4>1
    <3>2. CASE n \notin DOMAIN groups[G].events
      <4>1. n = name
        BY <1>4, <2>5, <3>2
      <4>2. QED
        BY <1>0, <1>1, <1>2, <2>6, <2>9, <3>2, <4>1
    <3>3. QED
      BY <3>1, <3>2
  <2>14. \A i \in Firsts(G)' :
           groups'[G].events[config'[G][i]].fd = Slot(G, i)'
    <3> TAKE i \in Firsts(G)'
    <3>1. CASE i \in Firsts(G)
      <4>1. i \in 1 .. Opened(G) /\ i \in 1 .. event - 1
        BY <1>0, <1>7, <2>3, <3>1
      <4>2. /\ config[G][i] \in DOMAIN groups[G].events
            /\ groups[G].events[config[G][i]].fd = Slot(G, i)
        BY <1>0, <1>3, <3>1, <4>1 DEF IInv, MapsInv
      <4>3. QED
        BY <1>0, <1>2, <1>4, <1>10, <2>5, <4>1, <4>2
    <3>2. CASE i = event /\ event \notin Repeated(G)
      BY <1>0, <1>1, <1>2, <1>4, <1>9, <2>5, <2>7, <3>2
    <3>3. QED
      BY <2>8, <3>1, <3>2
  <2>15. QED
    BY <1>4, <2>10, <2>11, <2>12, <2>13, <2>14 DEF MapsInv
<1>16. OpenInv' /\ ReadInv'
  <2>1. \A fd : fd \in open <=> fd \in 1 .. opened
    BY <1>0, <1>2 DEF IInv, OpenInv, After
  <2>2. \A fd : fd \in open' <=> fd \in 1 .. opened + 1
    BY <1>0, <1>2, <1>3, <2>1
  <2>3. QED
    BY <1>0, <1>2, <2>2 DEF OpenInv, ReadInv, After
<1>17. CountsInv'
  <2>1. Names' = Names
    BY <1>0, <1>2 DEF Names
  <2>2. ASSUME NEW g \in DOMAIN groups, Opened(g)' > 0, ~ Unscheduled(g)'
        PROVE  counters'[groups'[g].groupfd].enabled = counters'[groups'[g].groupfd].running
    <3>1. CASE 1 \in 1 .. Opened(g)
      <4>1. groups'[g].groupfd = groups[g].groupfd /\ ~ Unscheduled(g) /\ Opened(g) > 0
        BY <1>0, <1>2, <1>7, <1>11, <2>2, <3>1 DEF Unscheduled
      <4>2. Slot(g, 1) = groups[g].groupfd /\ Slot(g, 1) \in 1 .. opened
        <5>1. groups[g].groupfd \in Nat
          BY GroupRanges DEF IInv
        <5>2. QED
          BY <3>1, <5>1 DEF IInv, GroupsInv, Slot
      <4>3. counters'[groups'[g].groupfd] = counters[groups[g].groupfd]
        BY <1>5, <4>1, <4>2
      <4>4. QED
        BY <4>1, <4>3 DEF IInv, CountsInv
    <3>2. CASE 1 \notin 1 .. Opened(g)
      <4>1. g = G /\ event = 1
        BY <1>0, <1>3, <1>7, <1>12, <2>2, <3>2
      <4>2. groups'[g].groupfd = opened + 1
        BY <1>0, <1>1, <1>4, <4>1
      <4>3. QED
        BY <1>0, <1>1, <1>5, <4>2
    <3>3. QED
      BY <3>1, <3>2
  <2>3. \A g, i : CountsUp(g, i)'
    BY <1>0, <1>2 DEF CountsUp
  <2>4. QED
    BY <1>0, <1>2, <1>4, <2>1, <2>2, <2>3 DEF IInv, CountsInv
<1>18. QED
  BY <1>13, <1>14, <1>15, <1>16, <1>17 DEF IInv

LEMMA MakeEventFailsKeeps == ASSUME IInv, MakeEventFails PROVE IInv'
<1>1. /\ pc = "make" /\ pc' = "destroy" /\ config' = config /\ event' = event
      /\ group' = 1 /\ exception' = "open" /\ exception = "none" /\ run' = run
      /\ opened' = opened /\ open' = open /\ counters' = counters
      /\ happened' = happened /\ ticks' = ticks /\ preempted' = preempted
      /\ groups' = SubSeq(groups, 1, group - 1)
  BY DEF MakeEventFails, Throw, choices, kernel, IInv, LoopsInv, After
<1>2. /\ group \in DOMAIN groups /\ group = Len(groups) /\ opened \in Nat
      /\ event \in Nat \ {0} /\ DOMAIN groups = 1 .. Len(groups) /\ Len(groups) \in Nat
      /\ groups \in Seq(GroupRecord)
  BY <1>1 DEF IInv, LoopsInv
<1>3. /\ groups' \in Seq(GroupRecord) /\ Len(groups') = group - 1
      /\ DOMAIN groups' = 1 .. group - 1
      /\ \A g \in 1 .. group - 1 : groups'[g] = groups[g] /\ g \in DOMAIN groups /\ g < group
  BY <1>1, <1>2
<1>4. \A g \in 1 .. group - 1 : \A i : Slot(g, i)' = Slot(g, i)
  BY <1>3 DEF Slot
<1>5. \A g \in 1 .. group - 1 : Opened(g)' = Opened(g) /\ Firsts(g)' = Firsts(g)
  <2>1. \A g \in 1 .. group - 1 : Opened(g)' = Opened(g)
    BY <1>1, <1>2, <1>3 DEF Opened
  <2>2. \A g \in 1 .. group - 1 : Repeated(g)' = Repeated(g)
    BY <1>1 DEF Repeated
  <2>3. QED
    BY <2>1, <2>2 DEF Firsts
<1>6. /\ \A g \in DOMAIN groups : groups[g].groupfd \in Nat /\ Opened(g) \in Nat
      /\ Opened(group) = event - 1
  BY <1>1, <1>2, GroupRanges DEF IInv, Opened
<1>7. \A i \in 1 .. Opened(group) : Slot(group, i) = opened + 1 - event + i
  <2> TAKE i \in 1 .. Opened(group)
  <2>1. event > 1
    BY <1>2, <1>6
  <2>2. Slot(group, event) = opened + 1
    BY <1>1, <2>1 DEF IInv, GroupsInv
  <2>3. QED
    BY <1>2, <1>6, <2>2 DEF Slot
<1>8. \A fd \in 1 .. opened : ~ Lost(fd) /\ (Lost(fd)' <=> fd > opened - (event - 1))
  BY <1>1 DEF Lost
<1>9. LoopsInv'
  BY <1>1, <1>2, <1>3 DEF IInv, LoopsInv, After, Labels
<1>10. GroupsInv'
  <2>1. \A g \in 1 .. group - 1 : \A i \in 1 .. Opened(g) : Slot(g, i) \in 1 .. opened
    BY <1>3 DEF IInv, GroupsInv
  <2>2. ASSUME NEW g \in 1 .. group - 1, NEW i \in 1 .. Opened(g)
        PROVE  ~ Lost(Slot(g, i))'
    <3>1. ~ (Slot(g, i) > opened - (event - 1))
      <4>1. CASE event = 1
        BY <1>2, <2>1, <4>1
      <4>2. CASE event # 1
        <5>1. 1 \in 1 .. Opened(group)
          BY <1>2, <1>6, <4>2
        <5>2. Slot(g, i) < Slot(group, 1)
          BY <1>2, <1>3, <5>1 DEF IInv, GroupsInv
        <5>3. QED
          BY <1>2, <1>7, <2>1, <5>1, <5>2
      <4>3. QED
        BY <4>1, <4>2
    <3>2. Slot(g, i)' = Slot(g, i)
      BY <1>4
    <3>3. QED
      BY <1>1, <3>1, <3>2 DEF Lost
  <2>3. ASSUME NEW fd \in 1 .. opened
        PROVE  Lost(fd)' \/ \E g \in 1 .. group - 1 : \E i \in 1 .. Opened(g) : fd = Slot(g, i)
    <3>1. PICK g \in DOMAIN groups : \E i \in 1 .. Opened(g) : fd = Slot(g, i)
      BY <1>8 DEF IInv, GroupsInv
    <3>2. PICK i \in 1 .. Opened(g) : fd = Slot(g, i)
      BY <3>1
    <3>3. CASE g = group
      <4>1. fd = opened + 1 - event + i
        BY <1>7, <3>2, <3>3
      <4>2. fd > opened - (event - 1)
        BY <1>2, <1>6, <3>2, <3>3, <4>1
      <4>3. QED
        BY <1>8, <4>2
    <3>4. CASE g # group
      <4>1. g \in 1 .. group - 1
        BY <1>2, <3>4
      <4>2. QED
        BY <3>2, <4>1
    <3>5. QED
      BY <3>3, <3>4
  <2>4. \A g \in 1 .. group - 1 : \A i \in 1 .. Opened(g) :
          counters[Slot(g, i)].leader = groups[g].groupfd
    BY <1>3 DEF IInv, GroupsInv
  <2>5. \A g, h \in 1 .. group - 1 : \A i \in 1 .. Opened(g) : \A k \in 1 .. Opened(h) :
          g < h => Slot(g, i) < Slot(h, k)
    BY <1>3 DEF IInv, GroupsInv
  <2>6. \A g \in DOMAIN groups' : \A i \in 1 .. Opened(g)' :
          /\ Slot(g, i)' \in 1 .. opened' /\ ~ Lost(Slot(g, i))'
          /\ counters'[Slot(g, i)'].leader = groups'[g].groupfd
    BY <1>1, <1>3, <1>4, <1>5, <2>1, <2>2, <2>4
  <2>7. \A g, h \in DOMAIN groups' : \A i \in 1 .. Opened(g)' : \A k \in 1 .. Opened(h)' :
          g < h => Slot(g, i)' < Slot(h, k)'
    BY <1>3, <1>4, <1>5, <2>5
  <2>8. \A fd \in 1 .. opened' : Lost(fd)' \/
          \E g \in DOMAIN groups' : \E i \in 1 .. Opened(g)' : fd = Slot(g, i)'
    BY <1>1, <1>3, <1>4, <1>5, <2>3
  <2>9. QED
    BY <1>1, <2>6, <2>7, <2>8 DEF GroupsInv
<1>11. MapsInv'
  BY <1>1, <1>3, <1>4, <1>5 DEF IInv, MapsInv
<1>12. OpenInv' /\ ReadInv'
  <2>1. \A fd : fd \in open' <=> fd \in 1 .. opened
    BY <1>1 DEF IInv, OpenInv, After
  <2>2. \A g \in DOMAIN groups' : ~ (g < group')
    BY <1>1, <1>2, <1>3
  <2>3. QED
    BY <1>1, <2>1, <2>2 DEF OpenInv, ReadInv, After
<1>13. CountsInv'
  <2>1. Names' = Names
    BY <1>1 DEF Names
  <2>2. \A g, i : CountsUp(g, i)'
    BY <1>1 DEF CountsUp
  <2>3. \A g \in 1 .. group - 1 : Unscheduled(g)' <=> Unscheduled(g)
    BY <1>1, <1>3 DEF Unscheduled
  <2>4. QED
    BY <1>1, <1>3, <1>5, <2>1, <2>2, <2>3 DEF IInv, CountsInv
<1>14. QED
  BY <1>9, <1>10, <1>11, <1>12, <1>13 DEF IInv

\* The next group starts without events.
LEMMA NextGroupIsMade == ASSUME IInv, MakeGroup, group < Len(config) PROVE IInv'
<1>1. /\ pc = "make" /\ pc' = "make" /\ config' = config /\ event' = 1
      /\ group' = group + 1 /\ exception' = exception /\ exception = "none" /\ run' = run
      /\ opened' = opened /\ open' = open /\ counters' = counters
      /\ happened' = happened /\ ticks' = ticks /\ preempted' = preempted
      /\ groups' = Append(groups, NewGroup) /\ event > Len(config[group])
  BY DEF MakeGroup, choices, kernel, IInv, LoopsInv, After
<1>2. /\ group \in DOMAIN groups /\ group = Len(groups) /\ opened \in Nat
      /\ event \in Nat \ {0} /\ DOMAIN groups = 1 .. Len(groups) /\ Len(groups) \in Nat
      /\ groups \in Seq(GroupRecord) /\ event <= Len(config[group]) + 1
      /\ config \in GroupChoices
  BY <1>1 DEF IInv, LoopsInv
<1>3. /\ groups' \in Seq(GroupRecord) /\ Len(groups') = group + 1
      /\ DOMAIN groups' = 1 .. group + 1 /\ groups'[group + 1] = NewGroup
      /\ \A g \in DOMAIN groups : groups'[g] = groups[g] /\ g \in 1 .. group
  BY <1>1, <1>2, NewGroupIsGroup
<1>4. Len(config) \in Nat /\ \A g \in 1 .. Len(config) : Len(config[g]) \in Nat
  BY <1>2, ConfigIsSequences
<1>5. \A g \in DOMAIN groups : Opened(g)' = Opened(g)
  <2> TAKE g \in DOMAIN groups
  <2>1. g # group + 1
    BY <1>2, <1>3
  <2>2. Opened(g)' = Len(config[g])
    BY <1>1, <2>1 DEF Opened
  <2>3. g = group => event - 1 = Len(config[g])
    BY <1>1, <1>2, <1>4
  <2>4. QED
    BY <1>1, <2>2, <2>3 DEF Opened
<1>6. \A g : g = group + 1 => Opened(g)' = 0
  BY <1>1 DEF Opened
<1>7. \A g \in DOMAIN groups : \A i : Slot(g, i)' = Slot(g, i)
  BY <1>3 DEF Slot
<1>8. /\ \A g \in DOMAIN groups : Firsts(g)' = Firsts(g)
      /\ \A g : g = group + 1 => Firsts(g)' = {}
  <2>1. \A g : Repeated(g)' = Repeated(g)
    BY <1>1 DEF Repeated
  <2>2. QED
    BY <1>5, <1>6, <2>1 DEF Firsts
<1>9. \A g \in DOMAIN groups' : g \in DOMAIN groups \/ g = group + 1
  BY <1>2, <1>3
<1>10. LoopsInv'
  BY <1>1, <1>2, <1>3, <1>4 DEF IInv, LoopsInv, After, Labels
<1>11. GroupsInv'
  <2>1. \A fd : ~ Lost(fd) /\ ~ Lost(fd)'
    BY <1>1 DEF Lost
  <2>2. \A g \in DOMAIN groups' : \A i \in 1 .. Opened(g)' :
          /\ g \in DOMAIN groups /\ i \in 1 .. Opened(g) /\ Slot(g, i)' = Slot(g, i)
          /\ groups'[g] = groups[g]
    BY <1>3, <1>5, <1>6, <1>7, <1>9
  <2>3. \A fd \in 1 .. opened : \E g \in DOMAIN groups' : \E i \in 1 .. Opened(g)' :
          fd = Slot(g, i)'
    <3> TAKE fd \in 1 .. opened
    <3>1. PICK g \in DOMAIN groups : \E i \in 1 .. Opened(g) : fd = Slot(g, i)
      BY <2>1 DEF IInv, GroupsInv
    <3>2. PICK i \in 1 .. Opened(g) : fd = Slot(g, i)
      BY <3>1
    <3>3. g \in DOMAIN groups' /\ i \in 1 .. Opened(g)' /\ Slot(g, i)' = Slot(g, i)
      BY <1>2, <1>3, <1>5, <1>7
    <3>4. QED
      BY <3>2, <3>3
  <2>4. \A g \in DOMAIN groups : \A i \in 1 .. Opened(g) :
          /\ Slot(g, i) \in 1 .. opened /\ counters[Slot(g, i)].leader = groups[g].groupfd
          /\ \A h \in DOMAIN groups : \A k \in 1 .. Opened(h) :
               g < h => Slot(g, i) < Slot(h, k)
    BY DEF IInv, GroupsInv
  <2>5. QED
    BY <1>1, <2>1, <2>2, <2>3, <2>4 DEF GroupsInv
<1>12. MapsInv'
  <2>1. ASSUME NEW g \in DOMAIN groups'
        PROVE  /\ Opened(g)' = 0 <=> groups'[g].groupfd = NotOpen
               /\ \A i \in 1 .. Opened(g)' : config'[g][i] \in DOMAIN groups'[g].events
               /\ \A n \in DOMAIN groups'[g].events : \E i \in Firsts(g)' : n = config'[g][i]
               /\ \A i \in Firsts(g)' : groups'[g].events[config'[g][i]].fd = Slot(g, i)'
    <3>1. CASE g \in DOMAIN groups
      BY <1>1, <1>3, <1>5, <1>7, <1>8, <3>1 DEF IInv, MapsInv
    <3>2. CASE g = group + 1
      BY <1>3, <1>6, <1>8, <3>2, NewGroupIsGroup
    <3>3. QED
      BY <1>9, <3>1, <3>2
  <2>2. QED
    BY <2>1 DEF MapsInv
<1>13. OpenInv' /\ ReadInv'
  BY <1>1 DEF IInv, OpenInv, ReadInv, After
<1>14. CountsInv'
  <2>1. Names' = Names
    BY <1>1 DEF Names
  <2>2. \A g, i : CountsUp(g, i)'
    BY <1>1 DEF CountsUp
  <2>3. \A g \in DOMAIN groups : Unscheduled(g)' <=> Unscheduled(g)
    BY <1>1, <1>3 DEF Unscheduled
  <2>4. QED
    BY <1>1, <1>3, <1>5, <1>6, <1>9, <2>1, <2>2, <2>3 DEF IInv, CountsInv
<1>15. QED
  BY <1>10, <1>11, <1>12, <1>13, <1>14 DEF IInv

-----------------------------------------------------------------------------
(* The steps after the groups are made leave the descriptors where they are *)

SameEvents(r, s) ==
  /\ r.groupfd = s.groupfd /\ DOMAIN r.events = DOMAIN s.events
  /\ \A name \in DOMAIN s.events : r.events[name].fd = s.events[name].fd

SameShape ==
  /\ config' = config /\ opened' = opened /\ pc' # "make"
  /\ groups' \in Seq(GroupRecord) /\ Len(groups') = Len(groups)
  /\ counters' \in Seq(CounterRecord) /\ Len(counters') = opened
  /\ \A g \in DOMAIN groups : Opened(g)' = Opened(g) /\ SameEvents(groups'[g], groups[g])
  /\ \A fd \in 1 .. opened : counters'[fd].leader = counters[fd].leader
  /\ \A fd \in 1 .. opened : Lost(fd)' <=> Lost(fd)

LEMMA ShapeKept ==
  ASSUME IInv, SameShape
  PROVE  /\ GroupsInv' /\ MapsInv' /\ DOMAIN groups' = DOMAIN groups /\ Names' = Names
         /\ \A g \in DOMAIN groups :
              Known(g)' = Known(g) /\ Distinct(g)' = Distinct(g) /\ \A i : Slot(g, i)' = Slot(g, i)
<1>1. /\ groups \in Seq(GroupRecord) /\ opened \in Nat
      /\ DOMAIN groups' = DOMAIN groups
  BY DEF IInv, LoopsInv, SameShape
<1>2. \A g \in DOMAIN groups : \A i : Slot(g, i)' = Slot(g, i)
  BY DEF SameShape, SameEvents, Slot
<1>3. \A g : Repeated(g)' = Repeated(g) /\ Distinct(g)' = Distinct(g)
  BY DEF SameShape, Repeated, Distinct
<1>4. \A g \in DOMAIN groups : Opened(g)' = Opened(g) /\ Firsts(g)' = Firsts(g)
  BY <1>3 DEF SameShape, Firsts
<1>5. GroupsInv'
  <2>1. \A g \in DOMAIN groups : \A i \in 1 .. Opened(g) :
          /\ Slot(g, i) \in 1 .. opened /\ ~ Lost(Slot(g, i))
          /\ counters[Slot(g, i)].leader = groups[g].groupfd
    BY DEF IInv, GroupsInv
  <2>2. \A g \in DOMAIN groups : \A i \in 1 .. Opened(g)' :
          /\ Slot(g, i)' \in 1 .. opened' /\ ~ Lost(Slot(g, i))'
          /\ counters'[Slot(g, i)'].leader = groups'[g].groupfd
    <3> TAKE g \in DOMAIN groups
    <3> TAKE i \in 1 .. Opened(g)'
    <3>1. PICK fd \in 1 .. opened : fd = Slot(g, i) /\ fd = Slot(g, i)'
      BY <1>2, <1>4, <2>1
    <3>2. ~ Lost(fd)' /\ counters'[fd].leader = groups'[g].groupfd
      BY <1>4, <2>1, <3>1 DEF SameShape, SameEvents
    <3>3. ~ Lost(Slot(g, i))'
      BY <3>1, <3>2 DEF Lost
    <3>4. QED
      BY <3>1, <3>2, <3>3 DEF SameShape
  <2>3. \A g, h \in DOMAIN groups : \A i \in 1 .. Opened(g) : \A k \in 1 .. Opened(h) :
          g < h => Slot(g, i) < Slot(h, k)
    BY DEF IInv, GroupsInv
  <2>4. \A g, h \in DOMAIN groups : \A i \in 1 .. Opened(g)' : \A k \in 1 .. Opened(h)' :
          g < h => Slot(g, i)' < Slot(h, k)'
    BY <1>2, <1>4, <2>3
  <2>5. \A fd \in 1 .. opened :
          Lost(fd)' \/ \E g \in DOMAIN groups : \E i \in 1 .. Opened(g)' : fd = Slot(g, i)'
    <3> TAKE fd \in 1 .. opened
    <3>1. Lost(fd) \/ \E g \in DOMAIN groups : \E i \in 1 .. Opened(g) : fd = Slot(g, i)
      BY DEF IInv, GroupsInv
    <3>2. QED
      BY <1>2, <1>4, <3>1 DEF SameShape
  <2>6. opened' = opened /\ pc' # "make"
    BY DEF SameShape
  <2>7. QED
    BY <1>1, <2>2, <2>4, <2>5, <2>6 DEF GroupsInv
<1>6. ASSUME NEW g \in DOMAIN groups
      PROVE  /\ Opened(g)' = 0 <=> groups'[g].groupfd = NotOpen
             /\ \A i \in 1 .. Opened(g)' : config'[g][i] \in DOMAIN groups'[g].events
             /\ \A n \in DOMAIN groups'[g].events : \E i \in Firsts(g)' : n = config'[g][i]
             /\ \A i \in Firsts(g)' : groups'[g].events[config'[g][i]].fd = Slot(g, i)'
  <2>1. config' = config /\ SameEvents(groups'[g], groups[g])
    BY DEF SameShape
  <2>2. /\ Opened(g) = 0 <=> groups[g].groupfd = NotOpen
        /\ \A i \in 1 .. Opened(g) : config[g][i] \in DOMAIN groups[g].events
        /\ \A n \in DOMAIN groups[g].events : \E i \in Firsts(g) : n = config[g][i]
        /\ \A i \in Firsts(g) : groups[g].events[config[g][i]].fd = Slot(g, i)
    BY DEF IInv, MapsInv
  <2>3. Firsts(g) \subseteq 1 .. Opened(g)
    BY DEF Firsts
  <2>4. QED
    BY <1>2, <1>4, <2>1, <2>2, <2>3 DEF SameEvents
<1>7. MapsInv'
  BY <1>1, <1>6 DEF MapsInv
<1>8. \A g \in DOMAIN groups : Known(g)' = Known(g)
  BY DEF SameShape, SameEvents, Known
<1>9. Names' = Names
  BY DEF SameShape, Names
<1>10. QED
  BY <1>1, <1>2, <1>3, <1>5, <1>7, <1>8, <1>9

\* Only the loop's position moves.
LEMMA NothingMoves ==
  ASSUME IInv, pc # "make", pc' # "make", config' = config, opened' = opened,
         groups' = groups, counters' = counters, event' = event,
         exception' # "open", exception # "open"
  PROVE  SameShape
<1>1. \A g \in DOMAIN groups : Opened(g)' = Opened(g) /\ SameEvents(groups'[g], groups[g])
  BY DEF Opened, SameEvents
<1>2. \A fd \in 1 .. opened : Lost(fd)' <=> Lost(fd)
  BY DEF Lost
<1>3. QED
  BY <1>1, <1>2 DEF SameShape, IInv, LoopsInv

\* All groups are made.
LEMMA GroupsAreMade == ASSUME IInv, MakeGroup, ~ (group < Len(config)) PROVE IInv'
<1>1. /\ pc = "make" /\ pc' = "enable" /\ config' = config /\ event' = 1
      /\ group' = 1 /\ exception' = exception /\ exception = "none" /\ run' = run
      /\ opened' = opened /\ open' = open /\ counters' = counters
      /\ happened' = happened /\ ticks' = ticks /\ preempted' = preempted
      /\ groups' = groups /\ event > Len(config[group]) /\ group <= Len(config)
  BY DEF MakeGroup, choices, kernel, IInv, LoopsInv, After
<1>2. /\ group = Len(groups) /\ group \in Nat \ {0} /\ event \in Nat \ {0}
      /\ event <= Len(config[group]) + 1 /\ config \in GroupChoices
  BY <1>1 DEF IInv, LoopsInv
<1>3. Len(config) \in Nat /\ \A g \in 1 .. Len(config) : Len(config[g]) \in Nat
  BY <1>2, ConfigIsSequences
<1>4. group = Len(config) /\ event - 1 = Len(config[group])
  BY <1>1, <1>2, <1>3
<1>5. \A g \in DOMAIN groups : Opened(g)' = Opened(g)
  BY <1>1, <1>4 DEF Opened
<1>6. SameShape
  <2>1. \A g \in DOMAIN groups : SameEvents(groups'[g], groups[g])
    BY <1>1 DEF SameEvents
  <2>2. \A fd : Lost(fd)' <=> Lost(fd)
    BY <1>1 DEF Lost
  <2>3. QED
    BY <1>1, <1>5, <2>1, <2>2 DEF SameShape, IInv, LoopsInv
<1>7. LoopsInv'
  BY <1>1, <1>2, <1>4 DEF IInv, LoopsInv, After, Labels
<1>8. OpenInv' /\ ReadInv'
  BY <1>1 DEF IInv, OpenInv, ReadInv, After
<1>9. CountsInv'
  <2>1. \A g, i : g \in Nat \ {0} => CountsUp(g, i)'
    BY <1>1 DEF CountsUp
  <2>2. \A g : Unscheduled(g)' <=> Unscheduled(g)
    BY <1>1 DEF Unscheduled
  <2>3. \A g \in DOMAIN groups : g \in Nat \ {0}
    BY DEF IInv, LoopsInv
  <2>4. Names' = Names
    BY <1>6, ShapeKept
  <2>5. QED
    BY <1>1, <1>5, <2>1, <2>2, <2>3, <2>4 DEF IInv, CountsInv
<1>10. QED
  BY <1>6, <1>7, <1>8, <1>9, ShapeKept DEF IInv

\* A step of a loop over the groups changes one group, not its events.
LEMMA GroupIsReplaced ==
  ASSUME LoopsInv, NEW n \in DOMAIN groups, NEW r \in GroupRecord, SameEvents(r, groups[n]),
         NEW s, s = [groups EXCEPT ![n] = r]
  PROVE  /\ s \in Seq(GroupRecord) /\ Len(s) = Len(groups) /\ s[n] = r
         /\ \A g \in DOMAIN groups : SameEvents(s[g], groups[g]) /\ (g # n => s[g] = groups[g])
<1>1. groups \in Seq(GroupRecord) /\ DOMAIN groups = 1 .. Len(groups)
  BY DEF LoopsInv
<1>2. /\ s \in Seq(GroupRecord) /\ Len(s) = Len(groups) /\ s[n] = r
      /\ \A g \in DOMAIN groups : g # n => s[g] = groups[g]
  BY <1>1, ReplaceInSequence
<1>3. QED
  BY <1>2 DEF SameEvents

LEMMA FlagIsNoEvent ==
  ASSUME NEW r \in GroupRecord, NEW flag \in BOOLEAN
  PROVE  [r EXCEPT !.enabled = flag] \in GroupRecord /\ SameEvents([r EXCEPT !.enabled = flag], r)
<1> DEFINE Row == EventMaps
<1>1. GroupRecord = [groupfd : Nat, events : Row, enabled : BOOLEAN,
                     time_enabled : Nat, time_running : Nat]
  BY DEF GroupRecord
<1> HIDE DEF Row
<1>2. QED
  BY <1>1 DEF SameEvents

LEMMA CounterTypes ==
  ASSUME LoopsInv, NEW fd \in 1 .. opened
  PROVE  /\ counters[fd] \in CounterRecord
         /\ counters[fd].leader \in Nat /\ counters[fd].on \in BOOLEAN
         /\ counters[fd].count \in Nat /\ counters[fd].enabled \in Nat
         /\ counters[fd].running \in Nat
<1>1. counters[fd] \in CounterRecord
  BY DEF LoopsInv
<1>2. QED
  BY <1>1 DEF CounterRecord

\* What PERF_EVENT_IOC_RESET and _ENABLE do to a group.
LEMMA ResetAndEnableParts ==
  ASSUME LoopsInv, NEW leader
  PROVE  /\ ResetAndEnable(leader) \in Seq(CounterRecord) /\ Len(ResetAndEnable(leader)) = opened
         /\ \A fd \in 1 .. opened :
              /\ ResetAndEnable(leader)[fd].leader = counters[fd].leader
              /\ ResetAndEnable(leader)[fd].enabled = counters[fd].enabled
              /\ ResetAndEnable(leader)[fd].running = counters[fd].running
              /\ fd \notin Members(leader) => ResetAndEnable(leader)[fd] = counters[fd]
              /\ fd \in Members(leader) => /\ ResetAndEnable(leader)[fd].on
                                           /\ ResetAndEnable(leader)[fd].count = 0
<1> DEFINE f == ResetAndEnable(leader)
<1>1. DOMAIN counters = 1 .. opened /\ opened \in Nat
  BY DEF LoopsInv
<1>2. f = [fd \in 1 .. opened |->
             IF fd \in Members(leader) THEN [counters[fd] EXCEPT !.on = TRUE, !.count = 0]
             ELSE counters[fd]]
  BY <1>1 DEF ResetAndEnable
<1> HIDE DEF f
<1>3. ASSUME NEW fd \in 1 .. opened
      PROVE  /\ f[fd] \in CounterRecord /\ f[fd].leader = counters[fd].leader
             /\ f[fd].enabled = counters[fd].enabled /\ f[fd].running = counters[fd].running
             /\ fd \notin Members(leader) => f[fd] = counters[fd]
             /\ fd \in Members(leader) => f[fd].on /\ f[fd].count = 0
  <2>1. counters[fd] \in CounterRecord
    BY CounterTypes
  <2>2. QED
    BY <1>2, <2>1 DEF CounterRecord
<1>4. DOMAIN f = 1 .. opened /\ f = [fd \in 1 .. opened |-> f[fd]]
  BY <1>2
<1>5. f \in Seq(CounterRecord) /\ Len(f) = opened
  BY <1>1, <1>3, <1>4, MapInSequence
<1>6. QED
  BY <1>3, <1>5 DEF f

\* What PERF_EVENT_IOC_DISABLE does to a group.
LEMMA SwitchedOffParts ==
  ASSUME LoopsInv, NEW leader
  PROVE  /\ SwitchedOff(leader) \in Seq(CounterRecord) /\ Len(SwitchedOff(leader)) = opened
         /\ \A fd \in 1 .. opened :
              /\ SwitchedOff(leader)[fd].leader = counters[fd].leader
              /\ SwitchedOff(leader)[fd].enabled = counters[fd].enabled
              /\ SwitchedOff(leader)[fd].running = counters[fd].running
              /\ SwitchedOff(leader)[fd].count = counters[fd].count
<1> DEFINE f == SwitchedOff(leader)
<1>1. DOMAIN counters = 1 .. opened /\ opened \in Nat
  BY DEF LoopsInv
<1>2. f = [fd \in 1 .. opened |->
             IF fd \in Members(leader) THEN [counters[fd] EXCEPT !.on = FALSE] ELSE counters[fd]]
  BY <1>1 DEF SwitchedOff
<1> HIDE DEF f
<1>3. ASSUME NEW fd \in 1 .. opened
      PROVE  /\ f[fd] \in CounterRecord /\ f[fd].leader = counters[fd].leader
             /\ f[fd].enabled = counters[fd].enabled /\ f[fd].running = counters[fd].running
             /\ f[fd].count = counters[fd].count
  <2>1. counters[fd] \in CounterRecord
    BY CounterTypes
  <2>2. QED
    BY <1>2, <2>1 DEF CounterRecord
<1>4. DOMAIN f = 1 .. opened /\ f = [fd \in 1 .. opened |-> f[fd]]
  BY <1>2
<1>5. f \in Seq(CounterRecord) /\ Len(f) = opened
  BY <1>1, <1>3, <1>4, MapInSequence
<1>6. QED
  BY <1>3, <1>5 DEF f

\* What is known while the groups are in use.
LEMMA InUse ==
  ASSUME IInv, pc \notin {"make"} \cup After
  PROVE  /\ DOMAIN groups = DOMAIN config /\ DOMAIN groups = 1 .. Len(groups)
         /\ Len(groups) \in Nat \ {0} /\ Len(groups) = Len(config)
         /\ exception = "none" /\ event = 1 /\ run < Runs
         /\ \A g \in DOMAIN groups :
              /\ g \in Nat \ {0} /\ Opened(g) = Len(config[g]) /\ Opened(g) \in Nat
              /\ groups[g] \in GroupRecord
              /\ \A i \in 1 .. Opened(g) :
                   /\ Slot(g, i) \in 1 .. opened
                   /\ config[g][i] \in Names /\ config[g][i] \in DOMAIN groups[g].events
                   /\ counters[Slot(g, i)].leader = groups[g].groupfd
              /\ Opened(g) > 0 => /\ 1 \in 1 .. Opened(g) /\ Slot(g, 1) = groups[g].groupfd
                                  /\ groups[g].groupfd \in 1 .. opened
<1>1. config \in GroupChoices /\ LoopsInv
  BY DEF IInv, LoopsInv
<1>2. /\ DOMAIN groups = DOMAIN config /\ DOMAIN groups = 1 .. Len(groups)
      /\ Len(groups) \in Nat /\ exception = "none" /\ event = 1 /\ run < Runs
      /\ Len(groups) = Len(config)
  BY <1>1, GroupRanges DEF LoopsInv
<1>3. Len(groups) \in Nat \ {0}
  BY <1>1, <1>2, ConfigIsSequences
<1>4. ASSUME NEW g \in DOMAIN groups
      PROVE  /\ g \in Nat \ {0} /\ Opened(g) = Len(config[g]) /\ Opened(g) \in Nat
             /\ groups[g] \in GroupRecord
             /\ \A i \in 1 .. Opened(g) :
                  /\ Slot(g, i) \in 1 .. opened
                  /\ config[g][i] \in Names /\ config[g][i] \in DOMAIN groups[g].events
                  /\ counters[Slot(g, i)].leader = groups[g].groupfd
             /\ Opened(g) > 0 => /\ 1 \in 1 .. Opened(g) /\ Slot(g, 1) = groups[g].groupfd
                                 /\ groups[g].groupfd \in 1 .. opened
  <2>1. /\ g \in Nat \ {0} /\ Opened(g) = Len(config[g]) /\ Opened(g) \in Nat
        /\ groups[g] \in GroupRecord /\ groups[g].groupfd \in Nat
    BY <1>1, GroupRanges DEF Opened
  <2>2. \A i \in 1 .. Opened(g) :
          /\ Slot(g, i) \in 1 .. opened
          /\ config[g][i] \in Names /\ config[g][i] \in DOMAIN groups[g].events
          /\ counters[Slot(g, i)].leader = groups[g].groupfd
    BY <1>1, <1>2, <2>1, ConfigIsSequences DEF IInv, GroupsInv, MapsInv
  <2>3. Opened(g) > 0 => 1 \in 1 .. Opened(g) /\ Slot(g, 1) = groups[g].groupfd
    BY <2>1 DEF Slot
  <2>4. QED
    BY <2>1, <2>2, <2>3
<1>5. QED
  BY <1>2, <1>3, <1>4

LEMMA EnableKeeps == ASSUME IInv, Enable PROVE IInv'
<1>1. /\ pc = "enable" /\ config' = config /\ run' = run /\ event' = event
      /\ exception' = exception /\ open' = open /\ opened' = opened /\ preempted' = preempted
      /\ happened' = [name \in Names |-> 0] /\ ticks' = 0
      /\ counters' = IF HasEvents(group) THEN ResetAndEnable(groups[group].groupfd) ELSE counters
      /\ groups' = [groups EXCEPT ![group].enabled = TRUE]
      /\ \/ group < Len(groups) /\ group' = group + 1 /\ pc' = "enable"
         \/ group = Len(groups) /\ group' = 1 /\ pc' = "kernel"
  <2>1. pc = "enable" => group \in Nat /\ group <= Len(groups) /\ Len(groups) \in Nat
    BY DEF IInv, LoopsInv
  <2>2. QED
    BY <2>1 DEF Enable, choices, NextGroup
<1>2. /\ DOMAIN groups = 1 .. Len(groups) /\ Len(groups) \in Nat \ {0}
      /\ Len(groups) = Len(config) /\ exception = "none" /\ event = 1 /\ run < Runs
      /\ opened \in Nat /\ group \in DOMAIN groups /\ group \in Nat \ {0} /\ LoopsInv
  <2>1. pc \notin {"make"} \cup After /\ LoopsInv
    BY <1>1 DEF IInv, After
  <2>2. /\ DOMAIN groups = 1 .. Len(groups) /\ Len(groups) \in Nat \ {0}
        /\ Len(groups) = Len(config) /\ exception = "none" /\ event = 1 /\ run < Runs
    BY <2>1, InUse
  <2>3. opened \in Nat /\ group \in Nat \ {0} /\ group <= Len(groups)
    BY <1>1, <2>1 DEF LoopsInv
  <2>4. QED
    BY <2>1, <2>2, <2>3
<1>3. /\ \A g \in DOMAIN groups : Opened(g)' = Opened(g)
      /\ \A fd : ~ Lost(fd) /\ ~ Lost(fd)'
  BY <1>1, <1>2 DEF Opened, Lost
<1>4. /\ groups' \in Seq(GroupRecord) /\ Len(groups') = Len(groups)
      /\ \A g \in DOMAIN groups : SameEvents(groups'[g], groups[g])
  <2> DEFINE r == [groups[group] EXCEPT !.enabled = TRUE]
  <2>1. groups[group] \in GroupRecord
    BY <1>2 DEF LoopsInv
  <2>2. r \in GroupRecord /\ SameEvents(r, groups[group])
    BY <2>1, FlagIsNoEvent
  <2>3. groups' = [groups EXCEPT ![group] = r]
    BY <1>1
  <2> HIDE DEF r
  <2>4. QED
    BY <1>2, <2>2, <2>3, GroupIsReplaced
<1>5. /\ counters' \in Seq(CounterRecord) /\ Len(counters') = opened
      /\ \A fd \in 1 .. opened : /\ counters'[fd].leader = counters[fd].leader
                                 /\ counters'[fd].enabled = counters[fd].enabled
                                 /\ counters'[fd].running = counters[fd].running
  <2>1. CASE HasEvents(group)
    BY <1>1, <1>2, <2>1, ResetAndEnableParts
  <2>2. CASE ~ HasEvents(group)
    BY <1>1, <1>2, <2>2 DEF LoopsInv
  <2>3. QED
    BY <2>1, <2>2
<1>6. SameShape
  BY <1>1, <1>3, <1>4, <1>5 DEF SameShape
<1>7. LoopsInv'
  <2>1. pc' \in {"enable", "kernel"} /\ group' \in Nat \ {0} /\ group' <= Len(groups)
        /\ (pc' = "kernel" => group' = 1)
    BY <1>1, <1>2
  <2>2. 0 \in 0 .. MaxTicks
    BY BoundsAssumption
  <2>3. QED
    BY <1>1, <1>2, <1>4, <1>5, <2>1, <2>2 DEF LoopsInv, After, Labels
<1>8. OpenInv' /\ ReadInv'
  BY <1>1, <1>2 DEF IInv, OpenInv, ReadInv, After
<1>9. \A g \in DOMAIN groups : g <= group =>
        \A i \in 1 .. Opened(g) : counters'[Slot(g, i)].on /\ counters'[Slot(g, i)].count = 0
  <2> SUFFICES ASSUME NEW g \in DOMAIN groups, g <= group, NEW i \in 1 .. Opened(g)
               PROVE  counters'[Slot(g, i)].on /\ counters'[Slot(g, i)].count = 0
    OBVIOUS
  <2>1. PICK fd \in 1 .. opened : fd = Slot(g, i)
    BY <1>1, InUse DEF After
  <2>2. CASE g = group
    <3>1. Opened(g) > 0
      BY <1>1, InUse DEF After
    <3>2. HasEvents(group) /\ fd \in Members(groups[group].groupfd)
      BY <1>1, <2>1, <2>2, <3>1, WithEvents, MembersAreSlots DEF IInv, After
    <3>3. QED
      BY <1>1, <1>2, <2>1, <3>2, ResetAndEnableParts
  <2>3. CASE g # group
    <3>1. g < group
      BY <1>2, <2>3
    <3>2. counters[fd].on /\ counters[fd].count = 0
      <4>1. Opened(g) > 0
        BY <1>1, InUse DEF After
      <4>2. CountsUp(g, i)
        BY <4>1 DEF IInv, CountsInv
      <4>3. QED
        BY <1>1, <2>1, <3>1, <4>2 DEF CountsUp
    <3>3. CASE HasEvents(group)
      BY <1>1, <1>2, <2>1, <3>2, <3>3, ResetAndEnableParts
    <3>4. QED
      BY <1>1, <2>1, <3>2, <3>3
  <2>4. QED
    BY <2>2, <2>3
<1>10. CountsInv'
  <2>1. \A g \in DOMAIN groups : (Unscheduled(g)' <=> Unscheduled(g))
                                 /\ groups'[g].groupfd = groups[g].groupfd
    BY <1>1, <1>4 DEF Unscheduled, SameEvents
  <2>2. ASSUME NEW g \in DOMAIN groups, NEW i \in 1 .. Opened(g)
        PROVE  CountsUp(g, i)'
    <3>1. PICK fd \in 1 .. opened : fd = Slot(g, i) /\ fd = Slot(g, i)'
      BY <1>1, <1>6, InUse, ShapeKept DEF After
    <3>2. g \in Nat /\ config[g][i] \in Names
      BY <1>1, InUse DEF After
    <3>3. pc' = "kernel" \/ g < group' => g <= group
      BY <1>1, <1>2, <3>2
    <3>4. pc' = "kernel" \/ g < group' => counters'[fd].on /\ counters'[fd].count = 0
      BY <1>9, <3>1, <3>3
    <3>5. happened'[config[g][i]] = 0
      BY <1>1, <3>2
    <3>6. QED
      BY <1>1, <3>1, <3>4, <3>5 DEF CountsUp
  <2>3. ASSUME NEW g \in DOMAIN groups, Opened(g) > 0, ~ Unscheduled(g)
        PROVE  counters'[groups'[g].groupfd].enabled = counters'[groups'[g].groupfd].running
    <3>1. groups[g].groupfd \in 1 .. opened
      BY <1>1, <2>3, InUse DEF After
    <3>2. QED
      BY <1>5, <2>1, <2>3, <3>1 DEF IInv, CountsInv
  <2>4. Names' = Names /\ DOMAIN groups' = DOMAIN groups
    BY <1>6, ShapeKept
  <2>5. pc' \notin {"update", "record"}
    BY <1>1
  <2>6. happened' \in [Names -> Nat] /\ \A name \in Names : happened'[name] = 0
    BY <1>1
  <2>7. QED
    BY <1>3, <2>1, <2>2, <2>3, <2>4, <2>5, <2>6 DEF CountsInv
<1>11. QED
  BY <1>6, <1>7, <1>8, <1>10, ShapeKept DEF IInv

\* The kernel of the machine counts for a descriptor what happens of its event.
LEMMA SlotCounts ==
  ASSUME IInv, pc \notin {"make"} \cup After, NEW now \in SUBSET Names,
         NEW g \in DOMAIN groups, NEW i \in 1 .. Opened(g)
  PROVE  (\E name \in now : \E h \in DOMAIN config : \E k \in DOMAIN config[h] :
            config[h][k] = name /\ Slot(g, i) = groups[h].groupfd + k - 1)
         <=> config[g][i] \in now
<1>1. /\ DOMAIN groups = DOMAIN config
      /\ \A h \in DOMAIN config : DOMAIN config[h] = 1 .. Opened(h)
  BY InUse, ConfigIsSequences DEF IInv, LoopsInv
<1>2. ASSUME NEW h \in DOMAIN config, NEW k \in DOMAIN config[h],
             Slot(g, i) = groups[h].groupfd + k - 1
      PROVE  config[h][k] = config[g][i]
  <2>1. h \in DOMAIN groups /\ k \in 1 .. Opened(h)
    BY <1>1
  <2>2. Slot(g, i) = Slot(h, k)
    BY <1>2 DEF Slot
  <2>3. g = h /\ i = k
    BY <2>1, <2>2, SlotsDiffer DEF IInv
  <2>4. QED
    BY <2>3
<1>3. ASSUME config[g][i] \in now
      PROVE  \E name \in now : \E h \in DOMAIN config : \E k \in DOMAIN config[h] :
               config[h][k] = name /\ Slot(g, i) = groups[h].groupfd + k - 1
  <2>1. Slot(g, i) = groups[g].groupfd + i - 1
    BY DEF Slot
  <2>2. g \in DOMAIN config /\ i \in DOMAIN config[g]
    BY <1>1
  <2>3. QED
    BY <1>3, <2>1, <2>2
<1>4. QED
  BY <1>2, <1>3

LEMMA TickKeeps == ASSUME IInv, Tick PROVE IInv'
<1>1. /\ pc = "kernel" /\ pc' = "kernel" /\ config' = config /\ run' = run /\ event' = event
      /\ group' = group /\ exception' = exception /\ open' = open /\ opened' = opened
      /\ groups' = groups /\ ticks' = ticks + 1 /\ ticks < MaxTicks
  BY DEF Tick, choices
<1> DEFINE Counts(now, fd) ==
             \E name \in now : \E g \in DOMAIN config : \E i \in DOMAIN config[g] :
               config[g][i] = name /\ fd = groups[g].groupfd + i - 1
           On(fd) == counters[counters[fd].leader].on /\ counters[fd].on
           Next1(now, waiting, fd) ==
             [counters[fd] EXCEPT
                !.enabled = IF On(fd) THEN @ + 1 ELSE @,
                !.running = IF On(fd) /\ counters[fd].leader \notin waiting THEN @ + 1 ELSE @,
                !.count = IF (On(fd) /\ counters[fd].leader \notin waiting) /\ Counts(now, fd)
                          THEN @ + 1 ELSE @]
<1>2. PICK now \in SUBSET Names, waiting \in SUBSET {groups[g].groupfd : g \in DOMAIN groups} :
        /\ counters' = [fd \in DOMAIN counters |-> Next1(now, waiting, fd)]
        /\ happened' = [name \in Names |-> IF name \in now THEN happened[name] + 1
                                           ELSE happened[name]]
        /\ preempted' = preempted \cup waiting
  BY DEF Tick
<1>3. /\ group = 1 /\ exception = "none" /\ opened \in Nat /\ LoopsInv
      /\ pc \notin {"make"} \cup After /\ pc' \notin {"make"} \cup After
      /\ DOMAIN counters = 1 .. opened /\ happened \in [Names -> Nat]
      /\ DOMAIN groups = 1 .. Len(groups)
  BY <1>1, InUse DEF IInv, LoopsInv, After, CountsInv
<1>4. ASSUME NEW fd \in 1 .. opened
      PROVE  /\ counters'[fd] \in CounterRecord
             /\ counters'[fd].leader = counters[fd].leader /\ counters'[fd].on = counters[fd].on
             /\ counters'[fd].enabled = IF On(fd) THEN counters[fd].enabled + 1
                                        ELSE counters[fd].enabled
             /\ counters'[fd].running = IF On(fd) /\ counters[fd].leader \notin waiting
                                        THEN counters[fd].running + 1 ELSE counters[fd].running
             /\ counters'[fd].count =
                  IF (On(fd) /\ counters[fd].leader \notin waiting) /\ Counts(now, fd)
                  THEN counters[fd].count + 1 ELSE counters[fd].count
  <2>1. counters'[fd] = Next1(now, waiting, fd) /\ counters[fd] \in CounterRecord
    BY <1>2, <1>3, CounterTypes
  <2>2. /\ counters[fd].enabled \in Nat /\ counters[fd].running \in Nat
        /\ counters[fd].count \in Nat
    BY CounterTypes, <1>3
  <2> HIDE DEF Counts, On
  <2> DEFINE e == IF On(fd) THEN counters[fd].enabled + 1 ELSE counters[fd].enabled
             r == IF On(fd) /\ counters[fd].leader \notin waiting
                  THEN counters[fd].running + 1 ELSE counters[fd].running
             n == IF (On(fd) /\ counters[fd].leader \notin waiting) /\ Counts(now, fd)
                  THEN counters[fd].count + 1 ELSE counters[fd].count
             c == counters[fd]
             d == [c EXCEPT !.enabled = e, !.running = r, !.count = n]
  <2>3. e \in Nat /\ r \in Nat /\ n \in Nat
    BY <2>2
  <2>4. counters'[fd] = d /\ c \in CounterRecord
    BY <2>1 DEF Next1
  <2> HIDE DEF e, r, n, c
  <2>5. /\ d \in CounterRecord /\ d.leader = c.leader /\ d.on = c.on
        /\ d.enabled = e /\ d.running = r /\ d.count = n
    BY <2>3, <2>4 DEF CounterRecord
  <2> HIDE DEF d
  <2>6. QED
    BY <2>4, <2>5 DEF e, r, n, c
<1> HIDE DEF Next1
<1>5. counters' \in Seq(CounterRecord) /\ Len(counters') = opened
  <2>1. DOMAIN counters' = 1 .. opened /\ counters' = [fd \in 1 .. opened |-> counters'[fd]]
    BY <1>2, <1>3
  <2> DEFINE f == counters'
  <2> HIDE DEF f
  <2>2. DOMAIN f = 1 .. opened /\ f = [fd \in 1 .. opened |-> f[fd]]
    BY <2>1 DEF f
  <2>3. \A fd \in 1 .. opened : f[fd] \in CounterRecord
    BY <1>4 DEF f
  <2>4. f \in Seq(CounterRecord) /\ Len(f) = opened
    BY <1>3, <2>2, <2>3, MapInSequence
  <2>5. QED
    BY <2>4 DEF f
<1>6. SameShape
  <2>1. \A g \in DOMAIN groups : Opened(g)' = Opened(g) /\ SameEvents(groups'[g], groups[g])
    BY <1>1 DEF Opened, SameEvents
  <2>2. \A fd : Lost(fd)' <=> Lost(fd)
    BY <1>1, <1>3 DEF Lost
  <2>3. QED
    BY <1>1, <1>3, <1>4, <1>5, <2>1, <2>2 DEF SameShape, LoopsInv
<1>7. LoopsInv'
  <2>1. ticks + 1 \in 0 .. MaxTicks
    BY <1>1, BoundsAssumption DEF IInv, LoopsInv
  <2>2. QED
    BY <1>1, <1>3, <1>5, <2>1 DEF LoopsInv, After, Labels
<1>8. OpenInv' /\ ReadInv'
  BY <1>1, <1>3 DEF IInv, OpenInv, ReadInv, After
<1>9. ASSUME NEW g \in DOMAIN groups, NEW i \in 1 .. Opened(g)
      PROVE  /\ Opened(g) > 0 /\ Slot(g, i) \in 1 .. opened /\ config[g][i] \in Names
             /\ counters[Slot(g, i)].leader = groups[g].groupfd
             /\ counters[Slot(g, i)].on /\ On(Slot(g, i))
             /\ counters[Slot(g, i)].count <= happened[config[g][i]]
             /\ ~ Unscheduled(g) => counters[Slot(g, i)].count = happened[config[g][i]]
  <2>1. /\ Opened(g) > 0 /\ 1 \in 1 .. Opened(g) /\ Slot(g, 1) = groups[g].groupfd
        /\ Slot(g, i) \in 1 .. opened /\ config[g][i] \in Names
        /\ counters[Slot(g, i)].leader = groups[g].groupfd
    BY <1>3, InUse
  <2>2. CountsUp(g, i) /\ CountsUp(g, 1)
    BY <2>1 DEF IInv, CountsInv
  <2>3. counters[Slot(g, i)].on /\ counters[Slot(g, 1)].on
    BY <1>1, <2>2 DEF CountsUp
  <2>4. /\ counters[Slot(g, i)].count <= happened[config[g][i]]
        /\ ~ Unscheduled(g) => counters[Slot(g, i)].count = happened[config[g][i]]
    BY <1>1, <2>2 DEF CountsUp
  <2>5. QED
    BY <2>1, <2>3, <2>4
<1>10. \A g \in DOMAIN groups : ~ Unscheduled(g)' => ~ Unscheduled(g)
                                                     /\ groups[g].groupfd \notin waiting
  BY <1>1, <1>2 DEF Unscheduled
<1>11. CountsInv'
  <2>1. happened' \in [Names -> Nat]
    BY <1>2, <1>3
  <2>2. ASSUME NEW g \in DOMAIN groups, NEW i \in 1 .. Opened(g)
        PROVE  CountsUp(g, i)'
    <3>1. PICK fd \in 1 .. opened : fd = Slot(g, i) /\ fd = Slot(g, i)'
      BY <1>6, <1>9, ShapeKept
    <3> DEFINE name == config[g][i]
    <3>2. /\ name \in Names /\ counters[fd].leader = groups[g].groupfd
          /\ counters[fd].on /\ On(fd) /\ counters[fd].count <= happened[name]
          /\ ~ Unscheduled(g) => counters[fd].count = happened[name]
      BY <1>9, <3>1
    <3>3. Counts(now, Slot(g, i)) <=> name \in now
      BY <1>3, SlotCounts
    <3> HIDE DEF Counts, On, name
    <3>4. counters[fd].count \in Nat /\ happened[name] \in Nat
      BY <1>3, <3>2, CounterTypes
    <3>5. happened'[name] = IF name \in now THEN happened[name] + 1 ELSE happened[name]
      BY <1>2, <3>2
    <3>6. counters'[fd].count = IF groups[g].groupfd \notin waiting /\ name \in now
                                THEN counters[fd].count + 1 ELSE counters[fd].count
      BY <1>4, <3>1, <3>2, <3>3
    <3>7. counters'[fd].count <= happened'[name]
      BY <3>2, <3>4, <3>5, <3>6
    <3>8. ~ Unscheduled(g)' => counters'[fd].count = happened'[name]
      BY <1>10, <3>2, <3>5, <3>6
    <3>9. counters'[fd].on
      BY <1>4, <3>2
    <3>10. QED
      BY <1>1, <3>1, <3>7, <3>8, <3>9 DEF CountsUp, name
  <2>3. ASSUME NEW g \in DOMAIN groups, Opened(g) > 0, ~ Unscheduled(g)'
        PROVE  counters'[groups'[g].groupfd].enabled = counters'[groups'[g].groupfd].running
    <3>1. /\ 1 \in 1 .. Opened(g) /\ Slot(g, 1) = groups[g].groupfd
          /\ groups[g].groupfd \in 1 .. opened
      BY <1>3, <2>3, InUse
    <3>2. On(groups[g].groupfd) /\ counters[groups[g].groupfd].leader = groups[g].groupfd
      BY <1>9, <3>1
    <3>3. counters[groups[g].groupfd].enabled = counters[groups[g].groupfd].running
      BY <1>10, <2>3 DEF IInv, CountsInv
    <3> HIDE DEF Counts, On
    <3>4. QED
      BY <1>1, <1>4, <1>10, <2>3, <3>1, <3>2, <3>3
  <2>4. /\ Names' = Names /\ DOMAIN groups' = DOMAIN groups
        /\ \A g \in DOMAIN groups : Opened(g)' = Opened(g)
    BY <1>6, ShapeKept DEF SameShape
  <2>5. QED
    BY <1>1, <2>1, <2>2, <2>3, <2>4 DEF CountsInv
<1>12. QED
  BY <1>6, <1>7, <1>8, <1>11, ShapeKept DEF IInv

LEMMA KernelReturnsKeeps == ASSUME IInv, KernelReturns PROVE IInv'
<1>1. /\ pc = "kernel" /\ pc' = "disable" /\ config' = config /\ run' = run /\ event' = event
      /\ group' = group /\ exception' = exception /\ open' = open /\ opened' = opened
      /\ groups' = groups /\ ticks' = ticks /\ counters' = counters
      /\ happened' = happened /\ preempted' = preempted
  BY DEF KernelReturns, choices, kernel
<1>2. /\ group = 1 /\ exception = "none" /\ LoopsInv /\ Len(groups) \in Nat \ {0}
      /\ pc \notin {"make"} \cup After
  BY <1>1, InUse DEF IInv, LoopsInv, After
<1>3. SameShape
  BY <1>1, <1>2, NothingMoves
<1>4. LoopsInv'
  BY <1>1, <1>2 DEF LoopsInv, After, Labels
<1>5. OpenInv' /\ ReadInv'
  BY <1>1, <1>2 DEF IInv, OpenInv, ReadInv, After
<1>6. CountsInv'
  <2>1. /\ Names' = Names /\ \A g \in DOMAIN groups : Opened(g)' = Opened(g)
        /\ \A g \in DOMAIN groups : \A i : Slot(g, i)' = Slot(g, i)
    BY <1>3, ShapeKept DEF SameShape
  <2>2. ASSUME NEW g \in DOMAIN groups, NEW i \in 1 .. Opened(g)
        PROVE  CountsUp(g, i)'
    <3>1. Opened(g) > 0
      BY <1>2, InUse
    <3>2. CountsUp(g, i)
      BY <3>1 DEF IInv, CountsInv
    <3>3. Unscheduled(g)' <=> Unscheduled(g)
      BY <1>1 DEF Unscheduled
    <3>4. Slot(g, i)' = Slot(g, i)
      BY <2>1
    <3>5. QED
      BY <1>1, <3>2, <3>3, <3>4 DEF CountsUp
  <2>3. \A g : Unscheduled(g)' <=> Unscheduled(g)
    BY <1>1 DEF Unscheduled
  <2>4. QED
    BY <1>1, <2>1, <2>2, <2>3 DEF IInv, CountsInv
<1>7. QED
  BY <1>3, <1>4, <1>5, <1>6, ShapeKept DEF IInv

LEMMA DisableKeeps == ASSUME IInv, Disable PROVE IInv'
<1>1. /\ pc = "disable" /\ config' = config /\ run' = run /\ event' = event
      /\ exception' = exception /\ open' = open /\ opened' = opened /\ preempted' = preempted
      /\ happened' = happened /\ ticks' = ticks
      /\ counters' = IF HasEvents(group) THEN SwitchedOff(groups[group].groupfd) ELSE counters
      /\ groups' = [groups EXCEPT ![group].enabled = FALSE]
      /\ \/ group < Len(groups) /\ group' = group + 1 /\ pc' = "disable"
         \/ group = Len(groups) /\ group' = 1 /\ pc' = "update"
  <2>1. pc = "disable" => group \in Nat /\ group <= Len(groups) /\ Len(groups) \in Nat
    BY DEF IInv, LoopsInv
  <2>2. QED
    BY <2>1 DEF Disable, choices, NextGroup
<1>2. /\ DOMAIN groups = 1 .. Len(groups) /\ Len(groups) \in Nat \ {0}
      /\ Len(groups) = Len(config) /\ exception = "none" /\ event = 1 /\ run < Runs
      /\ opened \in Nat /\ group \in DOMAIN groups /\ group \in Nat \ {0} /\ LoopsInv
      /\ pc \notin {"make"} \cup After
  <2>1. pc \notin {"make"} \cup After /\ LoopsInv
    BY <1>1 DEF IInv, After
  <2>2. /\ DOMAIN groups = 1 .. Len(groups) /\ Len(groups) \in Nat \ {0}
        /\ Len(groups) = Len(config) /\ exception = "none" /\ event = 1 /\ run < Runs
    BY <2>1, InUse
  <2>3. opened \in Nat /\ group \in Nat \ {0} /\ group <= Len(groups)
    BY <1>1, <2>1 DEF LoopsInv
  <2>4. QED
    BY <2>1, <2>2, <2>3
<1>3. /\ \A g \in DOMAIN groups : Opened(g)' = Opened(g)
      /\ \A fd : ~ Lost(fd) /\ ~ Lost(fd)'
  BY <1>1, <1>2 DEF Opened, Lost
<1>4. /\ groups' \in Seq(GroupRecord) /\ Len(groups') = Len(groups)
      /\ \A g \in DOMAIN groups : SameEvents(groups'[g], groups[g])
  <2> DEFINE r == [groups[group] EXCEPT !.enabled = FALSE]
  <2>1. groups[group] \in GroupRecord
    BY <1>2 DEF LoopsInv
  <2>2. r \in GroupRecord /\ SameEvents(r, groups[group])
    BY <2>1, FlagIsNoEvent
  <2>3. groups' = [groups EXCEPT ![group] = r]
    BY <1>1
  <2> HIDE DEF r
  <2>4. QED
    BY <1>2, <2>2, <2>3, GroupIsReplaced
<1>5. /\ counters' \in Seq(CounterRecord) /\ Len(counters') = opened
      /\ \A fd \in 1 .. opened : /\ counters'[fd].leader = counters[fd].leader
                                 /\ counters'[fd].enabled = counters[fd].enabled
                                 /\ counters'[fd].running = counters[fd].running
                                 /\ counters'[fd].count = counters[fd].count
  <2>1. CASE HasEvents(group)
    BY <1>1, <1>2, <2>1, SwitchedOffParts
  <2>2. CASE ~ HasEvents(group)
    BY <1>1, <1>2, <2>2 DEF LoopsInv
  <2>3. QED
    BY <2>1, <2>2
<1>6. SameShape
  BY <1>1, <1>3, <1>4, <1>5 DEF SameShape
<1>7. LoopsInv'
  <2>1. pc' \in {"disable", "update"} /\ group' \in Nat \ {0} /\ group' <= Len(groups)
    BY <1>1, <1>2
  <2>2. QED
    BY <1>1, <1>2, <1>4, <1>5, <2>1 DEF LoopsInv, After, Labels
<1>8. OpenInv' /\ ReadInv'
  <2>1. pc' = "update" => \A g \in DOMAIN groups : ~ (g < group')
    BY <1>1, <1>2
  <2>2. DOMAIN groups' = DOMAIN groups
    BY <1>6, ShapeKept
  <2>3. QED
    BY <1>1, <1>2, <2>1, <2>2 DEF IInv, OpenInv, ReadInv, After
<1>9. CountsInv'
  <2>1. \A g \in DOMAIN groups : (Unscheduled(g)' <=> Unscheduled(g))
                                 /\ groups'[g].groupfd = groups[g].groupfd
    BY <1>1, <1>4 DEF Unscheduled, SameEvents
  <2>2. ASSUME NEW g \in DOMAIN groups, NEW i \in 1 .. Opened(g)
        PROVE  CountsUp(g, i)'
    <3>1. PICK fd \in 1 .. opened : fd = Slot(g, i) /\ fd = Slot(g, i)'
      BY <1>2, <1>6, InUse, ShapeKept
    <3>2. Opened(g) > 0
      BY <1>2, InUse
    <3>3. CountsUp(g, i)
      BY <3>2 DEF IInv, CountsInv
    <3>4. /\ counters[fd].count <= happened[config[g][i]]
          /\ ~ Unscheduled(g) => counters[fd].count = happened[config[g][i]]
      BY <1>1, <3>1, <3>3 DEF CountsUp
    <3>5. counters'[fd].count = counters[fd].count
      BY <1>5
    <3>6. QED
      BY <1>1, <2>1, <3>1, <3>4, <3>5 DEF CountsUp
  <2>3. ASSUME NEW g \in DOMAIN groups, Opened(g) > 0, ~ Unscheduled(g)
        PROVE  counters'[groups'[g].groupfd].enabled = counters'[groups'[g].groupfd].running
    <3>1. groups[g].groupfd \in 1 .. opened
      BY <1>2, <2>3, InUse
    <3>2. QED
      BY <1>5, <2>1, <2>3, <3>1 DEF IInv, CountsInv
  <2>4. Names' = Names /\ DOMAIN groups' = DOMAIN groups
    BY <1>6, ShapeKept
  <2>5. ~ (pc' = "update" /\ \E g \in DOMAIN groups : g < group') /\ pc' # "record"
        /\ pc' # "enable"
    BY <1>1, <1>2
  <2>6. happened' \in [Names -> Nat]
    BY <1>1 DEF IInv, CountsInv
  <2>7. QED
    BY <1>3, <2>1, <2>2, <2>3, <2>4, <2>5, <2>6 DEF CountsInv
<1>10. QED
  BY <1>6, <1>7, <1>8, <1>9, ShapeKept DEF IInv

\* The groups are left to their destructors.
LEMMA Leaving ==
  ASSUME IInv, pc \notin {"make"} \cup After, pc' = "destroy", group' = 1,
         config' = config, event' = event, open' = open, opened' = opened, groups' = groups,
         counters' = counters, happened' = happened, ticks' = ticks, preempted' = preempted,
         run' \in 0 .. Runs, exception' # "open", ReadInv'
  PROVE  IInv'
<1>1. /\ exception = "none" /\ LoopsInv /\ Len(groups) \in Nat \ {0} /\ event = 1
      /\ DOMAIN groups = 1 .. Len(groups) /\ Len(groups) = Len(config)
  BY InUse DEF IInv
<1>2. SameShape
  BY <1>1, NothingMoves
<1>3. LoopsInv'
  <2>1. /\ 1 \in Nat \ {0} /\ 1 <= Len(groups) + 1 /\ pc' = "destroy" /\ group' = 1
        /\ pc' \in Labels /\ pc' \in After
    BY <1>1 DEF Labels, After
  <2>2. /\ config \in GroupChoices /\ groups \in Seq(GroupRecord)
        /\ counters \in Seq(CounterRecord) /\ Len(counters) = opened /\ opened \in Nat
        /\ ticks \in 0 .. MaxTicks
    BY <1>1 DEF LoopsInv
  <2>3. QED
    BY <1>1, <2>1, <2>2 DEF LoopsInv
<1>4. OpenInv'
  <2>1. \A fd : fd \in open <=> fd \in 1 .. opened
    BY DEF IInv, OpenInv, After
  <2>2. \A g \in DOMAIN groups : ~ (g < group')
    BY <1>1
  <2>3. QED
    BY <2>1, <2>2 DEF OpenInv, After
<1>5. CountsInv'
  <2>1. Names' = Names /\ \A g \in DOMAIN groups : Opened(g)' = Opened(g)
    BY <1>2, ShapeKept DEF SameShape
  <2>2. \A g, i : CountsUp(g, i)'
    BY DEF CountsUp
  <2>3. \A g : Unscheduled(g)' <=> Unscheduled(g)
    BY DEF Unscheduled
  <2>4. QED
    BY <2>1, <2>2, <2>3 DEF IInv, CountsInv
<1>6. QED
  BY <1>2, <1>3, <1>4, <1>5, ShapeKept DEF IInv

LEMMA EnableFailsKeeps == ASSUME IInv, EnableFails PROVE IInv'
<1>1. /\ pc = "enable" /\ pc' = "destroy" /\ group' = 1 /\ exception' = "ioctl"
      /\ config' = config /\ run' = run /\ event' = event /\ open' = open /\ opened' = opened
      /\ groups' = groups /\ ticks' = ticks /\ counters' = counters
      /\ happened' = happened /\ preempted' = preempted
  BY DEF EnableFails, Throw, choices, kernel
<1>2. run' \in 0 .. Runs /\ ReadInv'
  BY <1>1 DEF IInv, LoopsInv, ReadInv
<1>3. QED
  BY <1>1, <1>2, Leaving DEF After

LEMMA EndOfRunKeeps == ASSUME IInv, EndOfRun PROVE IInv'
<1>1. /\ pc = "record" /\ run' = run + 1 /\ group' = group /\ exception' = exception
      /\ pc' = IF run + 1 < Runs THEN "enable" ELSE "destroy"
      /\ config' = config /\ event' = event /\ open' = open /\ opened' = opened
      /\ groups' = groups /\ ticks' = ticks /\ counters' = counters
      /\ happened' = happened /\ preempted' = preempted
  BY DEF EndOfRun, choices, kernel
<1>2. /\ group = 1 /\ exception = "none" /\ LoopsInv /\ Len(groups) \in Nat \ {0}
      /\ pc \notin {"make"} \cup After /\ DOMAIN groups = 1 .. Len(groups)
      /\ run' \in 0 .. Runs /\ Runs \in Nat
  BY <1>1, InUse, BoundsAssumption DEF IInv, LoopsInv, After
<1>3. ReadInv'
  BY <1>1, <1>2 DEF ReadInv
<1>4. CASE pc' = "destroy"
  BY <1>1, <1>2, <1>3, <1>4, Leaving
<1>5. CASE pc' = "enable" /\ run + 1 < Runs
  <2>1. SameShape
    BY <1>1, <1>2, <1>5, NothingMoves
  <2>2. LoopsInv'
    BY <1>1, <1>2, <1>5 DEF LoopsInv, After, Labels
  <2>3. OpenInv'
    BY <1>1, <1>2, <1>5 DEF IInv, OpenInv, After
  <2>4. CountsInv'
    <3>1. Names' = Names /\ \A g \in DOMAIN groups : Opened(g)' = Opened(g)
      BY <2>1, ShapeKept DEF SameShape
    <3>2. \A g \in DOMAIN groups : \A i : CountsUp(g, i)'
      BY <1>1, <1>2, <1>5 DEF CountsUp
    <3>3. \A g : Unscheduled(g)' <=> Unscheduled(g)
      BY <1>1 DEF Unscheduled
    <3>4. QED
      BY <1>1, <1>2, <1>5, <3>1, <3>2, <3>3 DEF IInv, CountsInv
  <2>5. QED
    BY <1>3, <2>1, <2>2, <2>3, <2>4, ShapeKept DEF IInv
<1>6. QED
  BY <1>1, <1>4, <1>5

LEMMA ReturnKeeps == ASSUME IInv, Return PROVE IInv'
<1>1. /\ pc = "destroy" /\ pc' = "done" /\ config' = config /\ run' = run /\ event' = event
      /\ group' = group /\ exception' = exception /\ open' = open /\ opened' = opened
      /\ groups' = groups /\ ticks' = ticks /\ counters' = counters /\ group > Len(groups)
      /\ happened' = happened /\ preempted' = preempted
  BY DEF Return, choices, kernel
<1>2. LoopsInv'
  BY <1>1 DEF IInv, LoopsInv, After, Labels
<1>3. /\ \A g : Opened(g)' = Opened(g) /\ Slot(g, 1)' = Slot(g, 1)
      /\ \A g : Unscheduled(g)' <=> Unscheduled(g)
      /\ \A fd : Lost(fd)' <=> Lost(fd)
  BY <1>1 DEF Opened, Slot, Unscheduled, Lost
<1>4. SameShape
  <2>1. \A g \in DOMAIN groups : SameEvents(groups'[g], groups[g])
    BY <1>1 DEF SameEvents
  <2>2. QED
    BY <1>1, <1>3, <2>1 DEF SameShape, IInv, LoopsInv
<1>5. OpenInv' /\ ReadInv'
  <2>1. \A g \in DOMAIN groups : Known(g)' = Known(g)
    BY <1>4, ShapeKept
  <2>2. \A g : CanBeRead(g)' <=> CanBeRead(g)
    BY <1>1 DEF CanBeRead, Distinct, Repeated
  <2>3. QED
    BY <1>1, <2>1, <2>2 DEF IInv, OpenInv, ReadInv, After
<1>6. CountsInv'
  <2>1. \A g, i : CountsUp(g, i)'
    BY <1>1 DEF CountsUp
  <2>2. Names' = Names
    BY <1>4, ShapeKept
  <2>3. QED
    BY <1>1, <1>3, <2>1, <2>2 DEF IInv, CountsInv
<1>7. QED
  BY <1>2, <1>4, <1>5, <1>6, ShapeKept DEF IInv

\* A group is taken as read just if it can be read.
LEMMA ReadDecides ==
  ASSUME IInv, pc = "update"
  PROVE  LET members == Members(groups[group].groupfd)
             taken == Readable(Cardinality(members)) /\ members \subseteq Known(group)
         IN  /\ HasEvents(group) => (taken <=> CanBeRead(group))
             /\ ~ HasEvents(group) => CanBeRead(group)
<1> DEFINE n == Opened(group)
<1>1. /\ group \in DOMAIN groups /\ LoopsInv /\ pc \notin {"make"} \cup After /\ pc \notin After
      /\ n \in Nat /\ n = Len(config[group]) /\ group \in DOMAIN config
  BY InUse DEF IInv, LoopsInv, After
<1>2. HasEvents(group) <=> n > 0
  BY <1>1, WithEvents DEF IInv
<1>3. ASSUME n > 0
      PROVE  LET members == Members(groups[group].groupfd) IN
             Readable(Cardinality(members)) /\ members \subseteq Known(group)
               <=> CanBeRead(group)
  <2> DEFINE members == Members(groups[group].groupfd)
             slots == {Slot(group, i) : i \in 1 .. Opened(group)}
  <2>1. members = slots
    BY <1>1, <1>3, MembersAreSlots DEF IInv
  <2>2. Cardinality(slots) = n
    BY <1>1, MembersCounted
  <2>3. slots \subseteq Known(group) <=> Distinct(group)
    BY <1>1, AllKnown DEF IInv
  <2>4. Readable(n) <=> n < MAX_EVENT_VALUES
    <3>1. MAX_EVENT_VALUES \in Nat
      BY BoundsAssumption
    <3> HIDE DEF n
    <3>2. QED
      BY <1>1, <3>1 DEF Readable, GroupRead
  <2> HIDE DEF members, slots, n
  <2>5. Readable(Cardinality(members)) /\ members \subseteq Known(group) <=> CanBeRead(group)
    BY <1>1, <2>1, <2>2, <2>3, <2>4 DEF CanBeRead
  <2>6. QED
    BY <2>5 DEF members
<1>4. ASSUME ~ (n > 0) PROVE CanBeRead(group)
  <2>1. Len(config[group]) = 0
    BY <1>1, <1>4
  <2>2. DOMAIN config[group] = {}
    BY <1>1, <2>1, ConfigIsSequences DEF LoopsInv
  <2>3. QED
    BY <2>1, <2>2, BoundsAssumption DEF CanBeRead, Distinct, Repeated
<1>5. QED
  BY <1>2, <1>3, <1>4

LEMMA UpdateFailsKeeps == ASSUME IInv, UpdateFails PROVE IInv'
<1>1. /\ pc = "update" /\ pc' = "destroy" /\ group' = 1 /\ exception' \in {"read", "id"}
      /\ config' = config /\ run' = run /\ event' = event /\ open' = open /\ opened' = opened
      /\ groups' = groups /\ ticks' = ticks /\ counters' = counters
      /\ happened' = happened /\ preempted' = preempted /\ HasEvents(group)
  BY DEF UpdateFails, Throw, choices, kernel
<1>2. LET members == Members(groups[group].groupfd) IN
      ~ (Readable(Cardinality(members)) /\ members \subseteq Known(group))
  BY DEF UpdateFails
<1>3. ~ CanBeRead(group)
  BY <1>1, <1>2, ReadDecides
<1>4. /\ group \in DOMAIN config /\ run' \in 0 .. Runs
      /\ pc \notin {"make"} \cup After
  BY <1>1, InUse DEF IInv, LoopsInv, After
<1>5. ReadInv'
  <2>1. \A g : CanBeRead(g)' <=> CanBeRead(g)
    BY <1>1 DEF CanBeRead, Distinct, Repeated
  <2>2. \E g \in DOMAIN config' : ~ CanBeRead(g)'
    BY <1>1, <1>3, <1>4, <2>1
  <2>3. QED
    BY <1>1, <2>2 DEF ReadInv
<1>6. exception' # "open"
  BY <1>1
<1>7. QED
  BY <1>1, <1>4, <1>5, <1>6, Leaving

\* What update() stores for an event, from the counters of the group.
Taken(e, leader) ==
  [e EXCEPT !.count = counters[e.fd].count,
            !.extrapolated = Extrapolate(leader.enabled, leader.running, counters[e.fd].count)]

LEMMA ExtrapolateIsNat ==
  ASSUME NEW e \in Nat, NEW r \in Nat, NEW c \in Nat
  PROVE  /\ Extrapolate(e, r, c) \in Nat
         /\ e = r /\ e > 0 => Extrapolate(e, r, c) = c
<1>1. c * e \in Nat
  OBVIOUS
<1>2. ASSUME r # 0 PROVE (c * e) \div r \in Nat
  <2> DEFINE p == c * e
  <2> HIDE DEF p
  <2>1. p \in Nat
    BY <1>1 DEF p
  <2>2. p \div r \in Nat
    BY <1>2, <2>1
  <2>3. QED
    BY <2>2 DEF p
<1>3. ASSUME e > 0 PROVE (c * e) \div e = c
  BY <1>3
<1>4. QED
  BY <1>2, <1>3 DEF Extrapolate

LEMMA TakenIsEvent ==
  ASSUME LoopsInv, NEW e \in EventRecord, e.fd \in 1 .. opened, NEW fd \in 1 .. opened
  PROVE  LET t == Taken(e, counters[fd]) IN
         t \in EventRecord /\ t.fd = e.fd /\ Taken(t, counters[fd]) = t
<1> DEFINE n == counters[e.fd].count
           x == Extrapolate(counters[fd].enabled, counters[fd].running, n)
           t == [e EXCEPT !.count = n, !.extrapolated = x]
<1>1. n \in Nat
  BY CounterTypes
<1>2. x \in Nat
  BY <1>1, CounterTypes, ExtrapolateIsNat
<1>3. Taken(e, counters[fd]) = t
  BY DEF Taken
<1>4. t \in EventRecord /\ t.fd = e.fd /\ t.count = n /\ t.extrapolated = x
  <2> HIDE DEF n, x
  <2>1. QED
    BY <1>1, <1>2 DEF EventRecord
<1>5. Taken(t, counters[fd]) = [t EXCEPT !.count = n, !.extrapolated = x]
  BY <1>4 DEF Taken
<1>6. [t EXCEPT !.count = n, !.extrapolated = x] = t
  <2> HIDE DEF n, x
  <2>1. QED
    BY <1>4 DEF EventRecord
<1>7. QED
  BY <1>3, <1>4, <1>5, <1>6

\* A group that was updated is a group with the same events, and to update it
\* again changes nothing as long as the counters stand.
LEMMA UpdatedIsGroup ==
  ASSUME IInv, pc \notin {"make"} \cup After, NEW g \in DOMAIN groups, Opened(g) > 0
  PROVE  LET u == Updated(groups[g]) IN
         u \in GroupRecord /\ SameEvents(u, groups[g]) /\ Updated(u) = u
<1> DEFINE r == groups[g]
           fd == r.groupfd
           leader == counters[fd]
           ev == [name \in DOMAIN r.events |-> Taken(r.events[name], leader)]
           u == [r EXCEPT !.time_enabled = leader.enabled, !.time_running = leader.running,
                          !.events = ev]
<1>1. /\ r \in GroupRecord /\ fd \in 1 .. opened /\ LoopsInv
      /\ leader.enabled \in Nat /\ leader.running \in Nat
  BY InUse, CounterTypes DEF IInv
<1>2. PICK S \in SUBSET STRING : r.events \in [S -> EventRecord]
  BY <1>1, GroupRanges DEF EventMaps
<1>3. \A name \in DOMAIN r.events :
        r.events[name] \in EventRecord /\ r.events[name].fd \in 1 .. opened
  <2> TAKE name \in DOMAIN r.events
  <2>1. r.events[name].fd \in Known(g)
    BY DEF Known
  <2>2. r.events[name].fd \in 1 .. opened
    BY <1>1, <2>1, KnownSlots, InUse DEF IInv
  <2>3. QED
    BY <1>2, <2>2
<1>4. \A name \in DOMAIN r.events :
        /\ Taken(r.events[name], leader) \in EventRecord
        /\ Taken(r.events[name], leader).fd = r.events[name].fd
        /\ Taken(Taken(r.events[name], leader), leader) = Taken(r.events[name], leader)
  BY <1>1, <1>3, TakenIsEvent
<1>5. ev \in [S -> EventRecord] /\ DOMAIN ev = DOMAIN r.events
  BY <1>2, <1>4
<1>6. ev \in EventMaps
  BY <1>5 DEF EventMaps
<1>7. Updated(r) = u
  BY DEF Updated, Taken
<1> HIDE DEF ev
<1>8. /\ u \in GroupRecord /\ u.groupfd = fd /\ u.events = ev
      /\ u.time_enabled = leader.enabled /\ u.time_running = leader.running
  <2> HIDE DEF r, leader, fd
  <2>1. r.groupfd = fd
    BY DEF fd
  <2>2. QED
    BY <1>1, <1>6, <2>1 DEF GroupRecord
<1>9. SameEvents(u, r)
  <2>1. \A name \in DOMAIN r.events : ev[name].fd = r.events[name].fd
    BY <1>4 DEF ev
  <2> HIDE DEF u
  <2>2. QED
    BY <1>5, <1>8, <2>1 DEF SameEvents
<1>10. Updated(u) = u
  <2> DEFINE ev2 == [name \in DOMAIN u.events |-> Taken(u.events[name], leader)]
  <2>1. ev2 = ev
    <3>1. \A name \in DOMAIN r.events : Taken(ev[name], leader) = ev[name]
      BY <1>4 DEF ev
    <3>2. ev2 = [name \in DOMAIN r.events |-> Taken(ev[name], leader)]
      BY <1>5, <1>8
    <3>3. ev2 = [name \in DOMAIN r.events |-> ev[name]]
      BY <3>1, <3>2
    <3>4. ev = [name \in DOMAIN r.events |-> ev[name]]
      BY DEF ev
    <3>5. QED
      BY <3>3, <3>4
  <2>2. Updated(u) = [u EXCEPT !.time_enabled = leader.enabled, !.time_running = leader.running,
                               !.events = ev2]
    <3> DEFINE w == u
    <3>1. w.groupfd = fd
      BY <1>8
    <3>2. Updated(w) = [w EXCEPT !.time_enabled = leader.enabled,
                                 !.time_running = leader.running,
                                 !.events = [name \in DOMAIN w.events |->
                                               Taken(w.events[name], leader)]]
      <4> HIDE DEF w
      <4>1. QED
        BY <3>1 DEF Updated, Taken
    <3>3. QED
      BY <3>2
  <2>3. Updated(u) = [u EXCEPT !.time_enabled = u.time_enabled, !.time_running = u.time_running,
                               !.events = u.events]
    BY <1>8, <2>1, <2>2
  <2> HIDE DEF u
  <2>4. [u EXCEPT !.time_enabled = u.time_enabled, !.time_running = u.time_running,
                  !.events = u.events] = u
    BY <1>8 DEF GroupRecord
  <2>5. QED
    BY <2>3, <2>4
<1>11. QED
  BY <1>7, <1>8, <1>9, <1>10

LEMMA UpdateKeeps == ASSUME IInv, Update PROVE IInv'
<1>1. /\ pc = "update" /\ config' = config /\ run' = run /\ event' = event
      /\ exception' = exception /\ open' = open /\ opened' = opened /\ preempted' = preempted
      /\ happened' = happened /\ ticks' = ticks /\ counters' = counters
      /\ groups' = IF HasEvents(group) THEN [groups EXCEPT ![group] = Updated(groups[group])]
                   ELSE groups
      /\ \/ group < Len(groups) /\ group' = group + 1 /\ pc' = "update"
         \/ group = Len(groups) /\ group' = 1 /\ pc' = "record"
  <2>1. pc = "update" => group \in Nat /\ group <= Len(groups) /\ Len(groups) \in Nat
    BY DEF IInv, LoopsInv
  <2>2. QED
    BY <2>1 DEF Update, choices, kernel, NextGroup
<1>2. /\ DOMAIN groups = 1 .. Len(groups) /\ Len(groups) \in Nat \ {0}
      /\ Len(groups) = Len(config) /\ exception = "none" /\ event = 1 /\ run < Runs
      /\ opened \in Nat /\ group \in DOMAIN groups /\ group \in Nat \ {0} /\ LoopsInv
      /\ pc \notin {"make"} \cup After
  <2>1. pc \notin {"make"} \cup After /\ LoopsInv
    BY <1>1 DEF IInv, After
  <2>2. /\ DOMAIN groups = 1 .. Len(groups) /\ Len(groups) \in Nat \ {0}
        /\ Len(groups) = Len(config) /\ exception = "none" /\ event = 1 /\ run < Runs
    BY <2>1, InUse
  <2>3. opened \in Nat /\ group \in Nat \ {0} /\ group <= Len(groups)
    BY <1>1, <2>1 DEF LoopsInv
  <2>4. QED
    BY <2>1, <2>2, <2>3
<1>3. CanBeRead(group)
  <2>1. HasEvents(group) => /\ Readable(Cardinality(Members(groups[group].groupfd)))
                            /\ Members(groups[group].groupfd) \subseteq Known(group)
    BY DEF Update
  <2>2. QED
    BY <1>1, <2>1, ReadDecides
<1>4. HasEvents(group) <=> Opened(group) > 0
  BY <1>2, WithEvents DEF IInv
<1>5. /\ groups' \in Seq(GroupRecord) /\ Len(groups') = Len(groups)
      /\ \A g \in DOMAIN groups : /\ SameEvents(groups'[g], groups[g])
                                  /\ g # group => groups'[g] = groups[g]
      /\ HasEvents(group) => Updated(groups'[group]) = groups'[group]
  <2>1. CASE HasEvents(group)
    <3> DEFINE u == Updated(groups[group])
    <3>1. u \in GroupRecord /\ SameEvents(u, groups[group]) /\ Updated(u) = u
      BY <1>2, <1>4, <2>1, UpdatedIsGroup
    <3>2. groups' = [groups EXCEPT ![group] = u]
      BY <1>1, <2>1
    <3> HIDE DEF u
    <3>3. /\ groups' \in Seq(GroupRecord) /\ Len(groups') = Len(groups) /\ groups'[group] = u
          /\ \A g \in DOMAIN groups : SameEvents(groups'[g], groups[g])
                                      /\ (g # group => groups'[g] = groups[g])
      BY <1>2, <3>1, <3>2, GroupIsReplaced
    <3>4. QED
      BY <3>1, <3>3
  <2>2. CASE ~ HasEvents(group)
    BY <1>1, <1>2, <2>2 DEF LoopsInv, SameEvents
  <2>3. QED
    BY <2>1, <2>2
<1>6. SameShape
  <2>1. \A g \in DOMAIN groups : Opened(g)' = Opened(g)
    BY <1>1 DEF Opened
  <2>2. \A fd : ~ Lost(fd) /\ ~ Lost(fd)'
    BY <1>1, <1>2 DEF Lost
  <2>3. QED
    BY <1>1, <1>2, <1>5, <2>1, <2>2 DEF SameShape, LoopsInv
<1>7. LoopsInv'
  <2>1. pc' \in {"update", "record"} /\ group' \in Nat \ {0} /\ group' <= Len(groups)
        /\ (pc' = "record" => group' = 1)
    BY <1>1, <1>2
  <2>2. QED
    BY <1>1, <1>2, <1>5, <2>1 DEF LoopsInv, After, Labels
<1>8. \A g \in DOMAIN groups : pc' = "record" \/ g < group' => g < group \/ g = group
  BY <1>1, <1>2
<1>9. OpenInv' /\ ReadInv'
  <2>1. \A g : CanBeRead(g)' <=> CanBeRead(g)
    BY <1>1 DEF CanBeRead, Distinct, Repeated
  <2>2. \A g \in DOMAIN groups : g < group => CanBeRead(g)
    BY <1>1 DEF IInv, ReadInv
  <2>3. DOMAIN groups' = DOMAIN groups
    BY <1>6, ShapeKept
  <2>4. \A g \in DOMAIN groups' : pc' = "record" \/ g < group' => CanBeRead(g)'
    BY <1>3, <1>8, <2>1, <2>2, <2>3
  <2>5. ReadInv'
    BY <1>1, <1>2, <2>4 DEF ReadInv
  <2>6. OpenInv'
    BY <1>1 DEF IInv, OpenInv, After
  <2>7. QED
    BY <2>5, <2>6
<1>10. CountsInv'
  <2>1. \A g \in DOMAIN groups : (Unscheduled(g)' <=> Unscheduled(g))
                                 /\ groups'[g].groupfd = groups[g].groupfd
    BY <1>1, <1>5 DEF Unscheduled, SameEvents
  <2>2. ASSUME NEW g \in DOMAIN groups, NEW i \in 1 .. Opened(g)
        PROVE  CountsUp(g, i)'
    <3>1. Opened(g) > 0
      BY <1>2, InUse
    <3>2. CountsUp(g, i)
      BY <3>1 DEF IInv, CountsInv
    <3>3. Slot(g, i)' = Slot(g, i)
      BY <1>6, ShapeKept
    <3>4. QED
      BY <1>1, <2>1, <3>2, <3>3 DEF CountsUp
  <2>3. ASSUME NEW g \in DOMAIN groups, Opened(g) > 0, ~ Unscheduled(g)
        PROVE  counters'[groups'[g].groupfd].enabled = counters'[groups'[g].groupfd].running
    BY <1>1, <2>1, <2>3 DEF IInv, CountsInv
  <2>4. ASSUME NEW g \in DOMAIN groups, Opened(g) > 0, pc' = "record" \/ g < group'
        PROVE  groups'[g] = Updated(groups[g])'
    <3>1. Updated(groups[g])' = Updated(groups'[g])
      BY <1>1 DEF Updated
    <3>2. CASE g < group
      <4>1. groups[g] = Updated(groups[g])
        BY <1>1, <2>4, <3>2 DEF IInv, CountsInv
      <4>2. g # group
        BY <1>2, <3>2
      <4>3. groups'[g] = groups[g]
        BY <1>5, <4>2
      <4>4. QED
        BY <3>1, <4>1, <4>3
    <3>3. CASE g = group
      BY <1>4, <1>5, <2>4, <3>1, <3>3
    <3>4. QED
      BY <1>8, <2>4, <3>2, <3>3
  <2>5. /\ Names' = Names /\ DOMAIN groups' = DOMAIN groups
        /\ \A g \in DOMAIN groups : Opened(g)' = Opened(g)
    BY <1>6, ShapeKept DEF SameShape
  <2>6. happened' \in [Names -> Nat] /\ pc' # "enable"
    BY <1>1 DEF IInv, CountsInv
  <2>7. QED
    BY <2>1, <2>2, <2>3, <2>4, <2>5, <2>6 DEF CountsInv
<1>11. QED
  BY <1>6, <1>7, <1>9, <1>10, ShapeKept DEF IInv

LEMMA DestroyKeeps == ASSUME IInv, Destroy PROVE IInv'
<1>1. /\ pc = "destroy" /\ pc' = "destroy" /\ config' = config /\ run' = run /\ event' = event
      /\ exception' = exception /\ opened' = opened /\ preempted' = preempted
      /\ happened' = happened /\ ticks' = ticks /\ groups' = groups /\ group' = group + 1
      /\ counters' = IF groups[group].enabled /\ HasEvents(group)
                     THEN SwitchedOff(groups[group].groupfd) ELSE counters
      /\ open' = open \ Known(group) /\ group <= Len(groups)
  BY DEF Destroy, choices, Closed
<1>2. /\ DOMAIN groups = 1 .. Len(groups) /\ Len(groups) \in Nat /\ opened \in Nat
      /\ group \in Nat \ {0} /\ group \in DOMAIN groups /\ LoopsInv
  BY <1>1 DEF IInv, LoopsInv
<1>3. /\ counters' \in Seq(CounterRecord) /\ Len(counters') = opened
      /\ \A fd \in 1 .. opened : /\ counters'[fd].leader = counters[fd].leader
                                 /\ counters'[fd].enabled = counters[fd].enabled
                                 /\ counters'[fd].running = counters[fd].running
  <2>1. CASE groups[group].enabled /\ HasEvents(group)
    BY <1>1, <1>2, <2>1, SwitchedOffParts
  <2>2. CASE ~ (groups[group].enabled /\ HasEvents(group))
    BY <1>1, <1>2, <2>2 DEF LoopsInv
  <2>3. QED
    BY <2>1, <2>2
<1>4. SameShape
  <2>1. \A g \in DOMAIN groups : Opened(g)' = Opened(g) /\ SameEvents(groups'[g], groups[g])
    BY <1>1 DEF Opened, SameEvents
  <2>2. \A fd : Lost(fd)' <=> Lost(fd)
    BY <1>1 DEF Lost
  <2>3. QED
    BY <1>1, <1>2, <1>3, <2>1, <2>2 DEF SameShape, LoopsInv
<1>5. LoopsInv'
  <2>1. group + 1 \in Nat \ {0} /\ group + 1 <= Len(groups) + 1
    BY <1>1, <1>2
  <2>2. QED
    BY <1>1, <1>2, <1>3, <2>1 DEF LoopsInv, After, Labels
<1>6. OpenInv'
  <2>1. \A fd : fd \in open <=> /\ fd \in 1 .. opened
                                /\ \A g \in DOMAIN groups : g < group => fd \notin Known(g)
    BY <1>1 DEF IInv, OpenInv, After
  <2>2. \A g \in DOMAIN groups : g < group + 1 <=> (g < group \/ g = group)
    BY <1>2
  <2>3. \A fd : fd \in open' <=> /\ fd \in 1 .. opened
                                 /\ \A g \in DOMAIN groups : g < group + 1 => fd \notin Known(g)
    BY <1>1, <1>2, <2>1, <2>2
  <2>4. DOMAIN groups' = DOMAIN groups /\ \A g \in DOMAIN groups : Known(g)' = Known(g)
    BY <1>4, ShapeKept
  <2>5. QED
    BY <1>1, <2>3, <2>4 DEF OpenInv, After
<1>7. ReadInv'
  <2>1. \A g : CanBeRead(g)' <=> CanBeRead(g)
    BY <1>1 DEF CanBeRead, Distinct, Repeated
  <2>2. QED
    BY <1>1, <2>1 DEF IInv, ReadInv
<1>8. CountsInv'
  <2>1. /\ Names' = Names /\ \A g \in DOMAIN groups : Opened(g)' = Opened(g)
    BY <1>4, ShapeKept DEF SameShape
  <2>2. \A g, i : CountsUp(g, i)'
    BY <1>1 DEF CountsUp
  <2>3. \A g : Unscheduled(g)' <=> Unscheduled(g)
    BY <1>1 DEF Unscheduled
  <2>4. ASSUME NEW g \in DOMAIN groups, Opened(g) > 0, ~ Unscheduled(g)
        PROVE  counters'[groups[g].groupfd].enabled = counters'[groups[g].groupfd].running
    <3>1. 1 \in 1 .. Opened(g) /\ groups[g].groupfd \in Nat
      BY <1>2, <2>4, GroupRanges
    <3>2. Slot(g, 1) \in 1 .. opened /\ Slot(g, 1) = groups[g].groupfd
      BY <3>1 DEF IInv, GroupsInv, Slot
    <3>3. QED
      BY <1>3, <2>4, <3>2 DEF IInv, CountsInv
  <2>5. happened' \in [Names -> Nat]
    BY <1>1 DEF IInv, CountsInv
  <2>6. QED
    BY <1>1, <2>1, <2>2, <2>3, <2>4, <2>5 DEF CountsInv
<1>9. QED
  BY <1>4, <1>5, <1>6, <1>7, <1>8, ShapeKept DEF IInv

\* A step that changes nothing.
LEMMA StutterKeeps == ASSUME IInv, UNCHANGED vars PROVE IInv'
<1>1. /\ config' = config /\ failing' = failing /\ pc' = pc /\ run' = run /\ group' = group
      /\ event' = event /\ groups' = groups /\ exception' = exception /\ open' = open
      /\ opened' = opened /\ counters' = counters /\ happened' = happened
      /\ ticks' = ticks /\ preempted' = preempted
  BY DEF vars, choices, kernel
<1>2. LoopsInv' /\ GroupsInv'
  BY <1>1 DEF IInv, LoopsInv, GroupsInv, Opened, Slot, Lost
<1>3. MapsInv'
  BY <1>1 DEF IInv, MapsInv, Firsts, Opened, Slot, Repeated
<1>4. OpenInv' /\ ReadInv'
  BY <1>1 DEF IInv, OpenInv, ReadInv, Known, CanBeRead, Distinct, Repeated
<1>5. CountsInv'
  <2>1. /\ Names' = Names
        /\ \A g : /\ Opened(g)' = Opened(g) /\ (Unscheduled(g)' <=> Unscheduled(g))
                  /\ Updated(groups[g])' = Updated(groups[g])
    BY <1>1 DEF Names, Opened, Unscheduled, Updated
  <2>2. \A g, i : Slot(g, i)' = Slot(g, i)
    BY <1>1 DEF Slot
  <2>3. \A g, i : CountsUp(g, i)' <=> CountsUp(g, i)
    BY <1>1, <2>1, <2>2 DEF CountsUp
  <2>4. QED
    BY <1>1, <2>1, <2>3 DEF IInv, CountsInv
<1>6. QED
  BY <1>2, <1>3, <1>4, <1>5 DEF IInv

-----------------------------------------------------------------------------
(* The theorems *)

\* The loops, the descriptors, the maps and the counts stay as IInv has them,
\* whatever is configured and whichever call fails (make_event_group, enable,
\* disable, update and ~EventGroup of perf-events.cpp).
THEOREM Invariance == Spec => []IInv
<1>1. ASSUME IInv, [Next]_vars PROVE IInv'
  <2>1. CASE MakeEvent
    BY <1>1, <2>1, MakeEventKeeps
  <2>2. CASE MakeEventFails
    BY <1>1, <2>2, MakeEventFailsKeeps
  <2>3. CASE MakeGroup
    BY <1>1, <2>3, NextGroupIsMade, GroupsAreMade
  <2>4. CASE Enable
    BY <1>1, <2>4, EnableKeeps
  <2>5. CASE EnableFails
    BY <1>1, <2>5, EnableFailsKeeps
  <2>6. CASE Tick
    BY <1>1, <2>6, TickKeeps
  <2>7. CASE KernelReturns
    BY <1>1, <2>7, KernelReturnsKeeps
  <2>8. CASE Disable
    BY <1>1, <2>8, DisableKeeps
  <2>9. CASE Update
    BY <1>1, <2>9, UpdateKeeps
  <2>10. CASE UpdateFails
    BY <1>1, <2>10, UpdateFailsKeeps
  <2>11. CASE EndOfRun
    BY <1>1, <2>11, EndOfRunKeeps
  <2>12. CASE Destroy
    BY <1>1, <2>12, DestroyKeeps
  <2>13. CASE Return
    BY <1>1, <2>13, ReturnKeeps
  <2>14. CASE UNCHANGED vars
    BY <1>1, <2>14, StutterKeeps
  <2>15. QED
    BY <1>1, <2>1, <2>2, <2>3, <2>4, <2>5, <2>6, <2>7, <2>8, <2>9, <2>10, <2>11, <2>12,
       <2>13, <2>14 DEF Next
<1>2. QED
  BY <1>1, InitEstablishes, PTL DEF Spec

\* The groups and the kernel's counters agree: a group that is not destroyed
\* leads the events that its map has, and its first event is one of them.
THEOREM TypeCorrect == Spec => []PerfTypeOK
<1>1. IInv => PerfTypeOK
  <2> SUFFICES ASSUME IInv PROVE PerfTypeOK
    OBVIOUS
  <2>1. /\ pc \in Labels /\ run \in 0 .. Runs /\ ticks \in 0 .. MaxTicks /\ opened \in Nat
        /\ open \subseteq 1 .. opened /\ LoopsInv
    BY DEF IInv, LoopsInv, OpenInv
  <2>2. ASSUME NEW g \in DOMAIN groups, pc \in After => g >= group
        PROVE  Known(g) \subseteq Members(groups[g].groupfd)
    <3>1. ASSUME NEW fd \in Known(g) PROVE fd \in open /\ counters[fd].leader = groups[g].groupfd
      <4>1. PICK i \in Firsts(g) : fd = Slot(g, i) /\ i \in 1 .. Opened(g)
        BY <3>1, KnownSlots DEF IInv
      <4>2. fd \in 1 .. opened /\ counters[fd].leader = groups[g].groupfd
        BY <4>1 DEF IInv, GroupsInv
      <4>3. ASSUME pc \in After, NEW h \in DOMAIN groups, h < group
            PROVE  fd \notin Known(h)
        <5>1. h # g
          BY <2>1, <2>2, <4>3, GroupRanges DEF LoopsInv
        <5>2. SUFFICES ASSUME fd \in Known(h) PROVE FALSE
          OBVIOUS
        <5>3. PICK k \in 1 .. Opened(h) : fd = Slot(h, k)
          BY <2>1, <5>2, KnownSlots DEF IInv
        <5>4. h = g
          BY <2>1, <4>1, <5>3, SlotsDiffer DEF IInv
        <5>5. QED
          BY <5>1, <5>4
      <4>4. fd \in open
        BY <4>2, <4>3 DEF IInv, OpenInv
      <4>5. QED
        BY <4>2, <4>4
    <3>2. QED
      BY <3>1 DEF Members
  <2>3. ASSUME NEW g \in DOMAIN groups, HasEvents(g)
        PROVE  config[g][1] \in DOMAIN groups[g].events
    <3>1. Opened(g) > 0 /\ Opened(g) \in Nat
      BY <2>1, <2>3, WithEvents, GroupRanges DEF IInv
    <3>2. 1 \in 1 .. Opened(g)
      BY <3>1
    <3>3. QED
      BY <3>2 DEF IInv, MapsInv
  <2>4. QED
    BY <2>1, <2>2, <2>3 DEF PerfTypeOK, Labels, After
<1>2. QED
  BY <1>1, Invariance, PTL

\* A run is recorded just if the counters of every group could be read: the
\* groups without a name twice and with fewer than MAX_EVENT_VALUES events
\* (perf_event_group_read and EventGroup::update).
THEOREM OnlyLargeGroupsFail == Spec => []ReadFailsOnlyForLargeGroups
<1>1. IInv => ReadFailsOnlyForLargeGroups
  <2> SUFFICES ASSUME IInv PROVE ReadFailsOnlyForLargeGroups
    OBVIOUS
  <2>1. pc = "record" => DOMAIN groups = DOMAIN config
    BY InUse DEF After
  <2>2. QED
    BY <2>1 DEF ReadFailsOnlyForLargeGroups, IInv, ReadInv, CanBeRead
<1>2. QED
  BY <1>1, Invariance, PTL

\* Nothing else stays open when the groups are gone than the descriptors of
\* repeated names and those of the group that could not be made
\* (make_event_group, std::map::emplace and ~EventGroup).
THEOREM DescriptorsAreClosed == Spec => []DescriptorsClosed
<1>1. IInv => DescriptorsClosed
  <2> SUFFICES ASSUME IInv, pc = "done"
               PROVE  open = {fd \in 1 .. opened :
                                \/ fd > opened - (event - 1) /\ exception = "open"
                                \/ \E g \in DOMAIN groups :
                                     fd - groups[g].groupfd + 1 \in Repeated(g)}
    BY DEF DescriptorsClosed
  <2>1. /\ group = Len(groups) + 1 /\ DOMAIN groups = 1 .. Len(groups) /\ Len(groups) \in Nat
        /\ LoopsInv /\ opened \in Nat
    BY DEF IInv, LoopsInv
  <2>2. \A g \in DOMAIN groups : g < group
    BY <2>1
  <2>3. \A fd : fd \in open <=> /\ fd \in 1 .. opened
                                /\ \A g \in DOMAIN groups : fd \notin Known(g)
    BY <2>2 DEF IInv, OpenInv, After
  <2>4. \A g \in DOMAIN groups : /\ Opened(g) \in Nat /\ Repeated(g) \subseteq 1 .. Opened(g)
                                 /\ groups[g].groupfd \in Nat
    <3> TAKE g \in DOMAIN groups
    <3>1. g \in DOMAIN config /\ Opened(g) = Len(config[g]) /\ Opened(g) \in Nat
          /\ groups[g].groupfd \in Nat
      BY <2>1, GroupRanges DEF Opened
    <3>2. DOMAIN config[g] = 1 .. Opened(g)
      BY <2>1, <3>1, ConfigIsSequences DEF LoopsInv
    <3>3. QED
      BY <3>1, <3>2 DEF Repeated
  <2>5. ASSUME NEW fd \in 1 .. opened, NEW g \in DOMAIN groups, NEW i \in 1 .. Opened(g),
               fd = Slot(g, i)
        PROVE  /\ ~ Lost(fd)
               /\ \A h \in DOMAIN groups : fd \in Known(h) => h = g /\ i \notin Repeated(g)
               /\ i \notin Repeated(g) => fd \in Known(g)
               /\ i \in Repeated(g) <=> \E h \in DOMAIN groups :
                                          fd - groups[h].groupfd + 1 \in Repeated(h)
    <3>1. ~ Lost(fd)
      BY <2>5 DEF IInv, GroupsInv
    <3>2. ASSUME NEW h \in DOMAIN groups, fd \in Known(h)
          PROVE  h = g /\ i \notin Repeated(g)
      <4>1. PICK k \in Firsts(h) : fd = Slot(h, k) /\ k \in 1 .. Opened(h)
        BY <2>1, <3>2, KnownSlots DEF IInv
      <4>2. k \in 1 .. Opened(h) /\ Slot(h, k) = Slot(g, i)
        BY <2>5, <4>1
      <4>3. h = g /\ k = i
        BY <2>1, <4>2, SlotsDiffer DEF IInv
      <4>4. QED
        BY <4>1, <4>3 DEF Firsts
    <3>3. i \notin Repeated(g) => fd \in Known(g)
      <4>1. i \notin Repeated(g) => i \in Firsts(g)
        BY DEF Firsts
      <4>2. QED
        BY <2>1, <2>5, <4>1, KnownSlots DEF IInv
    <3>4. fd - groups[g].groupfd + 1 = i
      BY <2>1, <2>4, <2>5 DEF Slot
    <3>5. ASSUME NEW h \in DOMAIN groups, fd - groups[h].groupfd + 1 \in Repeated(h)
          PROVE  i \in Repeated(g)
      <4> DEFINE k == fd - groups[h].groupfd + 1
      <4>1. k \in 1 .. Opened(h)
        BY <2>4, <3>5
      <4>2. Slot(h, k) = fd
        BY <2>1, <2>4 DEF Slot
      <4> HIDE DEF k
      <4>3. h = g /\ k = i
        BY <2>1, <2>5, <4>1, <4>2, SlotsDiffer DEF IInv
      <4>4. k \in Repeated(h)
        BY <3>5 DEF k
      <4>5. QED
        BY <4>3, <4>4
    <3>6. QED
      BY <3>1, <3>2, <3>3, <3>4, <3>5
  <2>6. ASSUME NEW fd \in 1 .. opened, Lost(fd)
        PROVE  \A g \in DOMAIN groups : fd \notin Known(g)
    <3> SUFFICES ASSUME NEW g \in DOMAIN groups, fd \in Known(g) PROVE FALSE
      OBVIOUS
    <3>1. PICK i \in 1 .. Opened(g) : fd = Slot(g, i)
      BY <2>1, KnownSlots DEF IInv
    <3>2. QED
      BY <2>5, <2>6, <3>1
  <2>7. ASSUME NEW fd \in 1 .. opened
        PROVE  fd \in open <=>
                 \/ Lost(fd)
                 \/ \E g \in DOMAIN groups : fd - groups[g].groupfd + 1 \in Repeated(g)
    <3>1. CASE Lost(fd)
      BY <2>3, <2>6, <3>1
    <3>2. CASE ~ Lost(fd)
      <4>1. PICK g \in DOMAIN groups : \E i \in 1 .. Opened(g) : fd = Slot(g, i)
        BY <3>2 DEF IInv, GroupsInv
      <4>2. PICK i \in 1 .. Opened(g) : fd = Slot(g, i)
        BY <4>1
      <4>3. /\ \A h \in DOMAIN groups : fd \in Known(h) => h = g /\ i \notin Repeated(g)
            /\ i \notin Repeated(g) => fd \in Known(g)
            /\ i \in Repeated(g) <=> \E h \in DOMAIN groups :
                                       fd - groups[h].groupfd + 1 \in Repeated(h)
        BY <2>5, <4>2
      <4>4. fd \in open <=> i \in Repeated(g)
        BY <2>3, <4>3
      <4>5. QED
        BY <3>2, <4>3, <4>4
    <3>3. QED
      BY <3>1, <3>2
  <2>8. QED
    BY <2>3, <2>7 DEF Lost
<1>2. QED
  BY <1>1, Invariance, PTL

\* What a run records of a name is at most what happened in that run, in each
\* group, and is just that in a group that never had to wait, extrapolated or
\* not (EventGroup::enable, disable and update, and the kernel of the machine
\* as far as they rely on it).
THEOREM CountsAreRight == Spec => []CountsAreOfTheRun
<1>1. IInv => CountsAreOfTheRun
  <2> SUFFICES ASSUME IInv, pc = "record", NEW g \in DOMAIN groups, HasEvents(g),
                      NEW name \in DOMAIN groups[g].events
               PROVE  LET e == groups[g].events[name] IN
                      /\ e.count <= happened[name]
                      /\ ~ Unscheduled(g) /\ groups[g].time_enabled > 0
                           => e.count = happened[name] /\ e.extrapolated = happened[name]
    BY DEF CountsAreOfTheRun
  <2> DEFINE e == groups[g].events[name]
             leader == counters[groups[g].groupfd]
  <2>1. LoopsInv /\ pc \notin {"make"} \cup After /\ Opened(g) > 0
    BY WithEvents DEF IInv, After
  <2>2. PICK i \in Firsts(g) : name = config[g][i] /\ e.fd = Slot(g, i)
    BY DEF IInv, MapsInv
  <2>3. i \in 1 .. Opened(g)
    BY DEF Firsts
  <2>4. PICK fd \in 1 .. opened : fd = e.fd
    BY <2>1, <2>2, <2>3, InUse
  <2>5. groups[g] = Updated(groups[g])
    BY <2>1 DEF IInv, CountsInv
  <2>6. /\ groups[g].time_enabled = leader.enabled
        /\ groups[g].events = [n \in DOMAIN groups[g].events |->
                                 Taken(groups[g].events[n], leader)]
        /\ groups[g] \in GroupRecord /\ e \in EventRecord
    <3> DEFINE r == groups[g]
    <3>1. r \in GroupRecord /\ e \in EventRecord
      BY <2>1, InUse, EventTypes
    <3> DEFINE ev == [n \in DOMAIN r.events |-> Taken(r.events[n], leader)]
               u == [r EXCEPT !.time_enabled = leader.enabled,
                              !.time_running = leader.running, !.events = ev]
    <3>2. r = u
      BY <2>5 DEF Updated, Taken
    <3>3. u.time_enabled = leader.enabled /\ u.events = ev
      <4> HIDE DEF r, ev
      <4>1. QED
        BY <3>1 DEF GroupRecord
    <3> HIDE DEF u
    <3>4. QED
      BY <3>1, <3>2, <3>3
  <2>7. e = Taken(e, leader)
    BY <2>6
  <2>8. /\ e.count = counters[fd].count
        /\ e.extrapolated = Extrapolate(leader.enabled, leader.running, counters[fd].count)
    <3> DEFINE n == counters[fd].count
               x == Extrapolate(leader.enabled, leader.running, n)
               t == [e EXCEPT !.count = n, !.extrapolated = x]
    <3>1. e = t
      BY <2>4, <2>7 DEF Taken
    <3>2. t.count = n /\ t.extrapolated = x
      <4> HIDE DEF e, n, x
      <4>1. QED
        BY <2>6 DEF EventRecord
    <3> HIDE DEF t
    <3>3. QED
      BY <3>1, <3>2
  <2>9. /\ counters[fd].count <= happened[name]
        /\ ~ Unscheduled(g) => counters[fd].count = happened[name]
    BY <2>1, <2>2, <2>3, <2>4 DEF IInv, CountsInv, CountsUp
  <2>10. /\ counters[fd].count \in Nat /\ leader.enabled \in Nat /\ leader.running \in Nat
    BY <2>1, InUse, CounterTypes
  <2>11. ~ Unscheduled(g) => leader.enabled = leader.running
    BY <2>1 DEF IInv, CountsInv
  <2>12. ~ Unscheduled(g) /\ leader.enabled > 0 => e.extrapolated = counters[fd].count
    <3> DEFINE n == counters[fd].count
               en == leader.enabled
    <3>1. n \in Nat /\ en \in Nat
      BY <2>10
    <3> HIDE DEF n, en
    <3>2. en > 0 => Extrapolate(en, en, n) = n
      BY <3>1, ExtrapolateIsNat
    <3>3. QED
      BY <2>8, <2>11, <3>2 DEF n, en
  <2> HIDE DEF e, leader
  <2>13. QED
    BY <2>6, <2>8, <2>9, <2>12 DEF e
<1>2. QED
  BY <1>1, Invariance, PTL
=============================================================================
