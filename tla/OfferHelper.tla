----------------------------- MODULE OfferHelper ----------------------------
(***************************************************************************)
(* How one offer is divided among the nodes that want some of it:          *)
(* common/offer.go, common/utils.go, and the two functions of              *)
(* scheduler/node.go that call them. Scheduler takes the outcome of this   *)
(* arithmetic for granted; here it is computed. Amounts are natural        *)
(* numbers (the code has float64, of which it adds, subtracts, compares).  *)
(***************************************************************************)
EXTENDS Integers, FiniteSetsExt, SequencesExt

CONSTANTS
    Nodes,              \* the nodes of all clusters, in the order of no map
    NoId,               \* a disk that is no persistent volume
    Offers,             \* the offers that may arrive, sequences of resources
    Need,               \* what each node asks for: Cpus, Mem, Disk
    CPUS_PER_EXECUTOR, MEM_PER_EXECUTOR, PORTS_PER_TASK

VARIABLES
    compatibilityMode,  \* the flag the framework was started with
    offer,              \* MesosOffer.Resources
    reserved,           \* ReservedResources, as far as they are left
    unreserved,         \* UnreservedResources, as far as they are left
    tasks,              \* TasksToLaunch
    toReserve,          \* nodes with a ResourcesToReserve and a VolumesToCreate
    toUnreserve,        \* ResourcesToUneserve
    toDestroy,          \* VolumesToDestroy
    seen,               \* nodes that ApplyOffer has been through
    answered            \* Operations() has been called

vars == <<compatibilityMode, offer, reserved, unreserved, tasks, toReserve, toUnreserve, toDestroy,
          seen, answered>>

-----------------------------------------------------------------------------
(* Resources and ranges of ports *)

Scalar(name, value, isReserved, id) ==
    [name |-> name, value |-> value, reserved |-> isReserved, id |-> id, ranges |-> <<>>]

Ports(ranges) ==
    [name |-> "ports", value |-> 0, reserved |-> FALSE, id |-> NoId, ranges |-> ranges]

RangesToArray(ranges) ==
    FoldLeft(LAMBDA ports, r : ports \o [i \in 1 .. (r[2] - r[1] + 1) |-> r[1] + i - 1], <<>>, ranges)

\* Mutant: a range is closed one port early.
AddPortShort(ranges, port) ==
    LET last == Len(ranges)
    IN  IF ranges # <<>> /\ port <= ranges[last][2]
        THEN [ranges EXCEPT ![last][2] = port]
        ELSE Append(ranges, <<port, port>>)

\* One more port of the sorted array: it extends the last range or opens one.
AddPort(ranges, port) ==
    LET last == Len(ranges)
    IN  IF ranges # <<>> /\ port <= ranges[last][2] + 1
        THEN [ranges EXCEPT ![last][2] = port]
        ELSE Append(ranges, <<port, port>>)

\* sort.Sort of an intarray.
Sorted(ports) ==
    LET order == CHOOSE p \in Bijection(DOMAIN ports, DOMAIN ports) :
                     \A i, j \in DOMAIN ports : i < j => ports[p[i]] <= ports[p[j]]
    IN  [i \in DOMAIN ports |-> ports[order[i]]]

ArrayToRanges(ports) == FoldLeft(AddPort, <<>>, Sorted(ports))

getResource(name, resources, withReservation) ==
    FoldLeft(LAMBDA sum, r : sum + (IF r.name = name /\ r.reserved = withReservation THEN r.value ELSE 0),
             0, resources)

getPorts(resources, withReservation) ==
    FoldLeft(LAMBDA ports, r : ports \o RangesToArray(r.ranges), <<>>,
             SelectSeq(resources, LAMBDA r : r.name = "ports" /\ r.reserved = withReservation))

FilterReservedVolumes(resources) ==
    {r \in Range(resources) : r.reserved /\ r.name = "disk" /\ r.id # NoId}

getPersistenceIds(resources) == {r.id : r \in FilterReservedVolumes(resources)}

FilterReservedResources(resources) == {r \in Range(resources) : r.reserved}

ResourceGroup(resources, withReservation) ==
    [cpus |-> getResource("cpus", resources, withReservation),
     mem |-> getResource("mem", resources, withReservation),
     disk |-> getResource("disk", resources, withReservation),
     ports |-> getPorts(resources, withReservation)]

\* Mesos offers amounts that are not negative, and no port twice.
ASSUME OfferAssumption ==
    /\ \A o \in Offers :
          /\ DOMAIN o = 1 .. Len(o) /\ Len(o) \in Nat
          /\ \A r \in Range(o) : r.value \in Nat /\ r.reserved \in BOOLEAN
    /\ \A o \in Offers, w \in BOOLEAN :
          LET ports == getPorts(o, w)
          IN  /\ ports \in Seq(Nat)
              /\ \A i, j \in 1 .. Len(ports) : ports[i] = ports[j] => i = j
    /\ Need \in [Nodes -> [cpus : Nat, mem : Nat, disk : Nat]]
    /\ CPUS_PER_EXECUTOR \in Nat /\ MEM_PER_EXECUTOR \in Nat /\ PORTS_PER_TASK \in Nat
    /\ NoId \notin Nodes /\ IsFiniteSet(Nodes)

-----------------------------------------------------------------------------
(* Taking from a group *)

CanFit(group, cpus, mem, disk, ports) ==
    /\ group.cpus >= cpus
    /\ group.mem >= mem
    /\ group.disk >= disk
    /\ Len(group.ports) >= ports

\* Where apply() may cut its ports out: rand.Intn excludes the last position,
\* and is not called when the ports fit exactly.
SliceLocs(group, ports) ==
    IF Len(group.ports) - ports > 0 THEN 0 .. (Len(group.ports) - ports - 1) ELSE {0}

TakingPorts(group, loc, ports) == [i \in 1 .. ports |-> group.ports[loc + i]]

\* Mutant: the second copy starts one port early.
LeavingPortsShifted(group, loc, ports) ==
    [i \in 1 .. (Len(group.ports) - ports) |->
        IF i <= loc THEN group.ports[i] ELSE group.ports[i + ports - 1]]

LeavingPorts(group, loc, ports) ==
    [i \in 1 .. (Len(group.ports) - ports) |->
        IF i <= loc THEN group.ports[i] ELSE group.ports[i + ports]]

\* apply(): what is left of a group.
Left(group, cpus, mem, disk, ports, loc) ==
    [cpus |-> group.cpus - cpus, mem |-> group.mem - mem, disk |-> group.disk - disk,
     ports |-> IF ports > 0 THEN LeavingPorts(group, loc, ports) ELSE group.ports]

\* Mutant: the disk is not put back.
MakeVolumeTwice(group, disk) == Left(group, 0, 0, disk, 0, 0)

\* MakeVolume: the disk is taken a second time and put back.
MakeVolume(group, disk) ==
    LET left == Left(group, 0, 0, disk, 0, 0)
    IN  [left EXCEPT !.disk = @ + disk]

-----------------------------------------------------------------------------
(* Nodes *)

\* The three ports that TaskData gets from the PortIterator.
ConfigPorts(ranges) ==
    LET ports == RangesToArray(ranges)
        At(i) == IF i <= Len(ports) THEN ports[i] ELSE 0
    IN  [HTTPPort |-> At(1), PBPort |-> At(2), DisterlPort |-> At(3)]

TaskInfo(n, taking) ==
    LET ranges == ArrayToRanges(taking)
    IN  [node |-> n, taking |-> taking, ranges |-> ranges, data |-> ConfigPorts(ranges)]

CanReserve(n) ==
    CanFit(unreserved, Need[n].cpus + CPUS_PER_EXECUTOR, Need[n].mem + MEM_PER_EXECUTOR,
           Need[n].disk, PORTS_PER_TASK)

\* A new node: reserve and make a volume now, launch from a later offer. What
\* the launch will need besides is withheld, so that a later node cannot have it.
ApplyUnreservedOffer(n) ==
    /\ ~compatibilityMode
    /\ CanReserve(n)
    /\ \E loc \in SliceLocs(unreserved, PORTS_PER_TASK) :
          LET withheld == Left(unreserved, CPUS_PER_EXECUTOR, MEM_PER_EXECUTOR, 0, PORTS_PER_TASK, loc)
              reservation == Left(withheld, Need[n].cpus, Need[n].mem, Need[n].disk, 0, 0)
          IN  unreserved' = MakeVolume(reservation, Need[n].disk)
    /\ toReserve' = toReserve \union {n}
    /\ UNCHANGED <<reserved, tasks>>

\* Mutant: the executor's own share is forgotten.
CanLaunchTaskOnly(n) ==
    IF compatibilityMode
    THEN CanFit(unreserved, Need[n].cpus, Need[n].mem, Need[n].disk, PORTS_PER_TASK)
    ELSE /\ CanFit(reserved, Need[n].cpus, Need[n].mem, Need[n].disk, 0)
         /\ CanFit(unreserved, 0, 0, 0, PORTS_PER_TASK)

CanLaunch(n) ==
    IF compatibilityMode
    THEN CanFit(unreserved, Need[n].cpus + CPUS_PER_EXECUTOR, Need[n].mem + MEM_PER_EXECUTOR,
                Need[n].disk, PORTS_PER_TASK)
    ELSE /\ CanFit(reserved, Need[n].cpus, Need[n].mem, Need[n].disk, 0)
         /\ CanFit(unreserved, CPUS_PER_EXECUTOR, MEM_PER_EXECUTOR, 0, PORTS_PER_TASK)

ApplyReservedOffer(n) ==
    /\ CanLaunch(n)
    /\ \E loc \in SliceLocs(unreserved, PORTS_PER_TASK) :
          LET task == IF compatibilityMode THEN Need[n] ELSE [cpus |-> 0, mem |-> 0, disk |-> 0]
              rest == Left(unreserved, task.cpus, task.mem, task.disk, PORTS_PER_TASK, loc)
          IN  /\ unreserved' = Left(rest, CPUS_PER_EXECUTOR, MEM_PER_EXECUTOR, 0, 0, 0)
              /\ tasks' = tasks \union {TaskInfo(n, TakingPorts(unreserved, loc, PORTS_PER_TASK))}
    /\ reserved' = IF compatibilityMode THEN reserved
                   ELSE Left(reserved, Need[n].cpus, Need[n].mem, Need[n].disk, 0, 0)
    /\ UNCHANGED toReserve

\* ApplyOffer comes to a node, in the random order of a map: the offer does
\* for it what its state asks for, or nothing.
ApplyOffer(n) ==
    /\ ~answered
    /\ n \notin seen
    /\ \/ ApplyReservedOffer(n)
       \/ ApplyUnreservedOffer(n)
       \/ UNCHANGED <<reserved, unreserved, tasks, toReserve>>
    /\ seen' = seen \union {n}
    /\ UNCHANGED <<compatibilityMode, offer, toUnreserve, toDestroy, answered>>

OfferHasReservations ==
    \/ reserved.cpus > 0 \/ reserved.mem > 0 \/ reserved.disk > 0 \/ reserved.ports # <<>>

\* createOperationsForOffers, after the last node.
MaybeUnreserve(needsReconciliation) ==
    /\ ~answered
    /\ seen = Nodes
    /\ answered' = TRUE
    /\ LET idle == ~needsReconciliation /\ tasks = {}
       IN  /\ toUnreserve' = IF idle /\ OfferHasReservations THEN FilterReservedResources(offer) ELSE {}
           /\ toDestroy' = IF idle THEN FilterReservedVolumes(offer) ELSE {}
    /\ UNCHANGED <<compatibilityMode, offer, reserved, unreserved, tasks, toReserve, seen>>

NewOfferHelper(o) ==
    /\ compatibilityMode \in BOOLEAN
    /\ offer = o
    /\ reserved = ResourceGroup(o, TRUE)
    /\ unreserved = ResourceGroup(o, FALSE)
    /\ tasks = {} /\ toReserve = {} /\ toUnreserve = {} /\ toDestroy = {}
    /\ seen = {} /\ answered = FALSE

Init == \E o \in Offers : NewOfferHelper(o)

Next ==
    \/ \E n \in Nodes : ApplyOffer(n)
    \/ \E b \in BOOLEAN : MaybeUnreserve(b)

Spec == Init /\ [][Next]_vars

\* Mutant: resources are given back before the volumes on them are destroyed.
OperationsSwapped ==
    LET Op(type, content) == IF content = {} THEN <<>> ELSE << <<type, content>> >>
    IN  Op("LAUNCH", tasks) \o Op("UNRESERVE", toUnreserve) \o Op("DESTROY", toDestroy)
          \o Op("RESERVE", toReserve) \o Op("CREATE", toReserve)

\* Operations(): those that are not empty, in the order in which the master
\* performs them.
Operations ==
    LET Op(type, content) == IF content = {} THEN <<>> ELSE << <<type, content>> >>
    IN  Op("LAUNCH", tasks) \o Op("DESTROY", toDestroy) \o Op("UNRESERVE", toUnreserve)
          \o Op("RESERVE", toReserve) \o Op("CREATE", toReserve)

-----------------------------------------------------------------------------
(* Properties *)

LaunchedNodes == {t.node : t \in tasks}

\* What each node asks for, of one resource, and what some of them do together.
Cpus == [n \in Nodes |-> Need[n].cpus]
Mem == [n \in Nodes |-> Need[n].mem]
Disk == [n \in Nodes |-> Need[n].disk]

Total(nodes, amount) == SumFunctionOnSet(amount, nodes)

\* Nothing of an offer is given twice and nothing gets lost: what is left, what
\* the tasks and their executors ask for and what is reserved or withheld add up
\* to what was offered, for cpus, memory and disk, reserved and not. It relates apply(), called up to four times for a node,
\* to the CanFit check made once before.
Conserved ==
    LET launchers == IF compatibilityMode THEN LaunchedNodes ELSE {}
        owners == LaunchedNodes \ launchers
        executors == Cardinality(LaunchedNodes) + Cardinality(toReserve)
        takers == launchers \union toReserve
    IN  /\ unreserved.cpus + Total(takers, Cpus) + executors * CPUS_PER_EXECUTOR
             = getResource("cpus", offer, FALSE)
        /\ unreserved.mem + Total(takers, Mem) + executors * MEM_PER_EXECUTOR
             = getResource("mem", offer, FALSE)
        /\ unreserved.disk + Total(takers, Disk) = getResource("disk", offer, FALSE)
        /\ reserved.cpus + Total(owners, Cpus) = getResource("cpus", offer, TRUE)
        /\ reserved.mem + Total(owners, Mem) = getResource("mem", offer, TRUE)
        /\ reserved.disk + Total(owners, Disk) = getResource("disk", offer, TRUE)

\* No group is ever overdrawn, whatever the nodes before have taken: the CanFit
\* checks cover the share of the executor as well as that of the task.
NeverOverdrawn ==
    \A g \in {reserved, unreserved} : g.cpus >= 0 /\ g.mem >= 0 /\ g.disk >= 0

\* Riak nodes on one agent never get the same port, nor one that is still to be
\* given away: the random slice of apply(), at the ends and in the middle.
PortsExclusive ==
    /\ IsInjective(unreserved.ports)
    /\ \A t \in tasks :
          /\ IsInjective(t.taking)
          /\ Range(t.taking) \intersect Range(unreserved.ports) = {}
          /\ \A u \in tasks : t # u => Range(t.taking) \intersect Range(u.taking) = {}

\* The ranges sent to Mesos are the ports taken, sorted, in as few ranges as
\* possible, and Riak is configured with three different ones of them.
RangesExact ==
    \A t \in tasks :
        /\ RangesToArray(t.ranges) = Sorted(t.taking)
        /\ \A i \in 1 .. (Len(t.ranges) - 1) : t.ranges[i][2] + 1 < t.ranges[i + 1][1]
        /\ PORTS_PER_TASK >= 3 =>
              /\ Cardinality(Range(t.data)) = 3
              /\ Range(t.data) \subseteq Range(t.taking)

-----------------------------------------------------------------------------
(* The master, performing the operations of an answer one after the other *)

Value == [r \in Range(offer) |-> r.value]

Pool ==
    [cpus |-> getResource("cpus", offer, FALSE), mem |-> getResource("mem", offer, FALSE),
     disk |-> getResource("disk", offer, FALSE),
     rcpus |-> getResource("cpus", offer, TRUE), rmem |-> getResource("mem", offer, TRUE),
     rdisk |-> getResource("disk", offer, TRUE) - Total(FilterReservedVolumes(offer), Value),
     vols |-> getPersistenceIds(offer), ok |-> TRUE]

Move(pool, cpus, mem, disk) ==
    [pool EXCEPT !.cpus = @ - cpus, !.mem = @ - mem, !.disk = @ - disk,
                 !.rcpus = @ + cpus, !.rmem = @ + mem, !.rdisk = @ + disk]

Perform(pool, op) ==
    LET content == op[2]
        Sum(name) == Total({r \in content : r.name = name}, Value)
        new == CASE op[1] = "LAUNCH" ->
                    LET nodes == {t.node : t \in content}
                        k == Cardinality(nodes)
                        own == IF compatibilityMode THEN nodes ELSE {}
                    IN  [pool EXCEPT
                           !.cpus = @ - Total(own, Cpus) - k * CPUS_PER_EXECUTOR,
                           !.mem = @ - Total(own, Mem) - k * MEM_PER_EXECUTOR,
                           !.disk = @ - Total(own, Disk),
                           !.rcpus = @ - Total(nodes \ own, Cpus),
                           !.rmem = @ - Total(nodes \ own, Mem),
                           !.vols = @ \ nodes]
                 [] op[1] = "DESTROY" ->
                    [pool EXCEPT !.rdisk = @ + Sum("disk"), !.vols = @ \ {r.id : r \in content},
                                 !.ok = @ /\ {r.id : r \in content} \subseteq pool.vols]
                 [] op[1] = "UNRESERVE" -> Move(pool, -Sum("cpus"), -Sum("mem"), -Sum("disk"))
                 [] op[1] = "RESERVE" ->
                    Move(pool, Total(content, Cpus), Total(content, Mem), Total(content, Disk))
                 [] op[1] = "CREATE" ->
                    [pool EXCEPT !.rdisk = @ - Total(content, Disk), !.vols = @ \union content]
    IN  [new EXCEPT !.ok = @ /\ \A f \in {"cpus", "mem", "disk", "rcpus", "rmem", "rdisk"} : new[f] >= 0]

\* The master can perform every answer from start to end: the volumes it destroys
\* and the reservations it gives up are there at that point, in that order, and
\* new reservations and volumes fit into what the launches have left. (A launch
\* that asks for a volume the agent does not have is refused on its own, with a
\* TASK_ERROR that Scheduler follows; here only amounts count for a launch.)
AnswersCanBePerformed == answered => FoldLeft(Perform, Pool, Operations).ok
=============================================================================
