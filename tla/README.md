# VIRO/VEIL: a verification project

VIRO (called VEIL in the code) connects Ethernet switches without IP routing. Every interface of a switch has a virtual
identifier (VID), a bit string. The distance of two VIDs is the position of the highest bit on which they differ; a
switch keeps one bucket of routes per distance and fills the bucket of level k by asking a rendezvous switch, computed
from its own VID, for a gateway to level k. VIDs are given out by a server (VCC) which learns the topology from reports
sent along a tree of paths to it. Hosts get VIDs from the switch they are attached to.

The implementation is a set of elements for the Click router in `src/click-cc/veil`, with the identifier type in
`src/click-cc/vid.hh`. Two simulators, in Python and in Java, implement the same protocol a second and a third time.

All definitions here are translated from the code; `PROJECT.json` gives the lines for each one.

## 1. Inventory

| component | state | operations | what makes it correct |
|---|---|---|---|
| VID (`vid.hh`) | none | distance, rendezvous point, bit flip, XOR order, switch part | the distance is an ultrametric; two switches near each other agree on rendezvous points; flipping shortens the distance |
| Interface table (`interfacetable.cc`) | VID -> index, index -> VID, which are set, all set | configure, assignment, lookups | an assigned VID leads to its interface; the two maps are inverse (they are not: see section 5) |
| Neighbour discovery (`neighbortable.cc`, `processhello*.cc`, `generatehello*.cc`) | MAC -> neighbour's VID and own VID, a timer each | hello timer, hello handler, expiry | used through the route table: nothing stale is used for ever |
| Route table (`routetable.cc`) | interface -> level -> bucket of 4 slots and a timer; a round-robin counter per level | update, three lookups, expiry | valid slots come first; the default route is slot 0; lookups return valid routes; every route has a timer |
| Routing (`buildroutetable.cc`, `processrdv.cc`, `rendezvoustable.cc`) | edges a rendezvous point was told of, with timers | route-building timer, publication, query, reply, expiry | a route of level k leads to level k; gateways really reach it; everything becomes reachable |
| Forwarding (`routepacket.cc`) | none | pick port and next hop, redirect, choose among several paths, loop back, count the TTL | no frame moves away from its destination, whichever gateways are chosen on its way |
| Host table (`hosttable.cc`) | host VID -> MAC, MAC -> VID, IP -> VID, VID -> interface, timers | host seen, VID generated, expiry, deletion | VIDs unique, tables in step, one timer per host, a host that stays keeps its VID |
| Paths to the server (`spanningtreestate.cc`, `generateVCCSTAdSub.cc`, `processVCCSTAdSub.cc`) | server -> parent and cost; child -> server; timers | advertise, subscribe, report, pass on, expiry | no path too short, parents are nearer, the tree heals |
| VID assignment (`networkTopoVIDAssignment.cc`, `generateVIDAssignmentPackets.cc`) | reported links with time of report; MAC -> VID | record a report, purge, cluster, dispatch | no invented links; distinct VIDs; prefixes are connected parts of the network; every interface gets its VID |
| Mapping table, access information (`mappingtable.cc`, `processaccessinfo.cc`, `publishaccessinfo.cc`) | IP -> host VID and MAC, at the access switch of the IP, with timers | publish, update, redirect, expiry | after a host moved, the mapping and the former switch follow |
| ARP and IP at the edge (`processarp.cc`, `processip.cc`, `icmppingreplyencap.cc`) | the tables above | register hosts, answer ARP, wrap, unwrap and redirect their packets | packets reach a host that has moved |
| Packet helpers (`click_veil.hh`, `utilities.hh`, `veil_packet.hh`) | none | headers and constants | fields survive being written and read |
| Python simulator (`sim-py`) | routing table, rendezvous store | server thread and round loop on shared state | as routing; no step of one thread breaks the other |
| Java simulator (`sim-java`) | routing table, rendezvous table, data waiting in sockets | a timer thread, a handler thread per connection | tables only hold what the network has, nothing leaves the subtree it is for, the death of one switch does not kill others, tables fill and stale gateways go |
| `confparse.cc`, scripts, data generators | - | - | vendored or offline; not part of the protocol |

**How they interact.** In a switch the elements call each other directly and share the tables by pointer. Click runs
one handler or timer at a time, to its end; a frame that a switch sends to itself is pushed back into its classifier
and handled within the same call. So handlers are atomic, and what interleaves is the switches (by frames), the
timers, and the expiry of every table entry on its own. Switches share nothing but frames, which Ethernet may lose and
the routing may reorder.

**What is hard.** Entries in different tables refer to each other and expire independently. VIDs change while tables
hold the old ones. Every message is sent once; the protocol relies on periods (5 to 30 s) that are shorter than the
lifetime of an entry (60 s). Replies may be old. The rendezvous point of a level is usually a VID nobody has, and
querier and publisher must nevertheless arrive at one switch. Costs and host numbers are 16 bits wide. The server must
work with a topology that is only partly reported. In the simulators threads share tables, a failed `connect` sends
updates while the send that failed is still at work, and an exception ends a thread or the whole switch. The list with
lines is under "hazards" in `PROJECT.json`.

## 2. Modules

| module | models | notes |
|---|---|---|
| `HashTable` | Click's `HashTable` as used here | external; `operator[]` inserts (`Touch`) |
| `VID` | `vid.hh` | a VID is a function `1..VidBits -> {0,1}`, position 1 the least significant; the lowest `HostBits` are the host's |
| `RouteBuckets` | the operations of `routetable.cc` on buckets | shared by the next two |
| `RouteTable`, `MCRouteTable` | one route table, any caller, with the VID assignment of `processSwitchVID` | `routes`, `entrytouse`, `interfaces` as in the code; one action per method |
| `HostTable` | `hosttable.cc` | the six tables; `generate_host_vid` in its three outcomes |
| `HostRegistry` | what `HostTable` promises, without its tables and timers | abstract; a host has at most one lease, no two leases share a VID |
| `Routing`, `MCRouting` | several switches: interface, neighbour, rendezvous and route tables, hello and route-building timers, `processhelloNew`, `processrdv`, `routepacket` | composes `RouteBuckets`; see below for `jobs` |
| `Directory` | what `AccessInfo` promises of where a host is: its places, the VIDs it holds, the VIDs others take it to have | abstract; a VID comes up only by the host being heard there |
| `AccessInfo`, `MCAccessInfo` | hosts and how they are found: `mappingtable`, `processaccessinfo`, `publishaccessinfo`, `processarp`, `processip` | see below for what it takes from `Routing` and `HostTable` |
| `SpanningTree`, `MCSpanningTree` | the tree of paths to the servers | any number of servers |
| `Clusters` | the clustering of `performVIDAssignment` as operators | ties in the order of hash tables are choices |
| `VIDClusters`, `MCVIDClusters` | its loop as a state machine | one joining per step |
| `VCC`, `MCVCC` | the tree, the reports, the server and the VID packets | composes `SpanningTree` and `Clusters` |
| `JavaTables` | `RTable.java`, `RTEntry.java`, `RdvTable.java`, the VID functions of `veil_switch.java` | tables are sequences, as the code's lists; shared by the next two |
| `JavaSwitch`, `MCJavaSwitch` | the switches of the Java simulator: `veil_switch.java`, `clientHandler.java` and the traffic source | composes `JavaTables`; see below for `job` |
| `VIDProofs`, `RouteTableProofs`, `HostTableProofs`, `RoutingProofs`, `VIDClustersProofs`, `VCCProofs`, `AccessInfoProofs`, `JavaSwitchProofs` | theorems | `VCCProofs` also holds those of `SpanningTree` |

Definitions whose comment says "Mutant" are not part of the specifications: each is a plausible mistake, and the
property it is paired with in `PROJECT.json` fails when it takes the place of the definition it varies.

*Time* is left out: a timer that is armed may fire. A table entry that the code refreshes by rescheduling a timer is
simply present; only where a timer's being armed can differ from the entry's presence (route buckets, hosts) is it
state of its own.

*Routing and `jobs`.* A handler of Click calls the next one. `jobs` is the rest of the handler that runs; while it is
not empty no other handler starts, on any switch. Freezing the other switches too is a reduction: handlers of two
switches share only the frames they send, and a frame sent early is one that arrives late. Each job is one call of the
code (`route`: `VEILRoutePacket::smaction`, `rdv` and `learn`: `VEILProcessRDV`, `build`: one round of the loops in
`VEILBuildRouteTable::run_timer`).
`Multipath` is the branch of `VEILRoutePacket::smaction` for the packets of hosts (`VEIL_ENCAP_MULTIPATH_IP`): a switch directs a
packet to the gateway its round robin offers, and the packet goes on to its final VID from there. The branch changes no
table, so it is a function of the tables and of the counter, and `MultipathStaysNear` asks of every state what it returns for every
packet and every value of the counter; `Directed` is what one switch guarantees to the next.

*Access information, hosts and `local`.* A frame for a VID, or for the access switch of an IP, reaches its switch in one
step: the way is the subject of `Routing`. Frames a switch sends to itself go to `local` and are handled first, as in
the code. A host table is its IP -> VID part only, with one MAC per IP: that VIDs are unique, that the other tables
agree and that one timer stands behind each entry is proved in `HostTableProofs`. `cache` is the hosts' own, filled by the ARP
replies they get; entries in it stay until replaced, which is the worst case. After `settle` hosts stay where they are,
nothing is lost, and entries that are refreshed do not expire.

*The Java simulator, `job` and `net`.* The methods through which packets are sent (`routeCtrlPacket`, `sendPacket`,
`checkEntryExpire`, `updateRTEntry`) are `static synchronized` in the class `veil_switch`, so one thread of a process is in
them at a time; the two sends of one publication or query, to the rendezvous switch and to its backup, are taken as one call. `job` is what the thread that holds this lock still has
to do, one item per call (`route`: `routeCtrlPacket`, `process`: `processPacket`, `delete`: `rTable.delEntry`, `learn`: the rest of
`updateRTEntry`, and so on); a send that fails puts the updates of `removeRTEntry` and its own repetition in front. While
`job` is not empty no other thread starts; threads of other processes commute with it, as they share nothing but
connections. The data handlers hold the lock only inside the calls they make (`routeDataPacket`, `removeRTEntry` and the loops of
`clientHandler` are not synchronized): before each retry, each update and each removal from the table such a handler may be
`parked` while the other threads of its switch run (`Park`, `Resume`). A loop that walks the table by its size may then read past the end (`Overrun`).
Three things are coarser than the code: the loops of a handler that reads a table, the timer's `RTbuilder` and `updateRdvTable`, which do not take this lock, and the timer's calls
between the two sends of one publication are taken together, and a table is not seen in the middle of one `addEntry` or `delEntry`. `net` holds the connections whose handler thread has not run. `timer[s]` is where the timer thread of `s` is between two
calls: a round builds its own entries, publishes or queries each bucket, and expires. The list it publishes is one that handlers may
shorten meanwhile, so `timer[s].end` is the length it read and `timer[s].j` the index it is at. A `RuntimeException` (the index
past the end, the removal under an iterator) ends the thread: `pc = "dead"` for the timer, a dropped packet for a
handler; an `IOException` in a handler runs `System.exit`. `proc[s]` is `"gone"` after such an exit or a `Crash`, and what was
waiting at the switch goes with it. Before that it is `"off"` until the process is started, and `"starting"` until its monitor thread has
opened the port: the timer runs at once (`RTinitialDelay` is 0, `veil_switch.java:49`, `:198`), the scripts in `test` start the processes one by
one (`fat-tree.sh`, `20hosttest.sh`), and a switch that does not listen yet refuses connections as one that is gone does. `refused` remembers who was refused. `Adjacent` is taken to be symmetric, as the generated adjacency files are; `Drifting` rules out bounds under which timers
would wait for each other in a circle.

*Undefined behaviour.* Erasing the entry an iterator stands on (`networkTopoVIDAssignment.cc:156`) is a choice of how
much of the rest is visited (`Purges`). The order of hash tables is a choice wherever it matters.

## 3. Runs

| run | instance | shows |
|---|---|---|
| `route_table` | 2 interfaces, VIDs of 1 switch and 1 host bit, 3 slots, 2 routes on offer | slots stay packed, default first, round robin on valid slots, a timer behind each route; buckets age out |
| `host_table` | 3 IPs, 2 MACs, 2 interfaces, 2 switch VIDs, 2 host numbers | unique VIDs, tables in step, one timer each; implements `HostRegistry`, whose hosts keep their VIDs |
| `routing` | 2 switches, 3 interfaces, 2-bit VIDs, all losses and expiries, VIDs confirmed by the server at any time | assigned VIDs lead to their interface, routes to their level, gateways reach it, frames never move away |
| `routing_converges` | 3 switches in a line, 3-bit VIDs, one rendezvous point nobody has | everything becomes reachable; packets with several paths stay near their destination at every switch |
| `access_info` | 2 switches, 2 hosts of which one moves between them, their access switches one each | the mapping and the former switch follow the host, and so do packets; packets go astray only to hosts that share an interface; implements `Directory` (46,544 states) |
| `spanning_tree_stale` | 3 switches, all left-over paths up to cost 4 | the tree heals |
| `vid_clusters` | all graphs of up to 5 nodes, `MAXITER = 4` rounds (58,680 states) | strings distinct in a cluster, prefixes connected, VIDs unique if the network is connected |
| `vcc` | server and a switch with two interfaces of which one leads nowhere, all faults (1,425,120 states) | no link between interfaces that are not joined, no path too short |
| `vcc_live` | server and two switches in a line, no faults | parents nearer, all interfaces get VIDs |
| `vcc_unique` | the same line, all faults | finding: one VID for two interfaces |
| `sim_java` | 4 switches on a line (0100, 0101, 0110, 0000), all started, one crash, one flow of data (754,404 states) | tables only hold what the network has, nothing leaves its subtree |
| `sim_java_live` | 3 switches on a line (00, 01, 10), all started or 00 or 01 late, one crash (18,696 states) | a switch only fails after a neighbour refused it; tables fill; what goes by way of a crashed gateway expires |

**Why the bounds are enough.** *Slots and routes*: two routes and their default variants compete for three slots, so
buckets fill, are purged by a default, expire and are revived; two interfaces are the least on which the shared
round-robin counter can be left over from another one. *Hosts*: three hosts compete for two numbers on two VIDs, so the
search wraps around and fails. *Routing*: in two switches with three interfaces there are routes by neighbour, by own
interface and by gateway; three switches are the least for a reply that crosses a switch and for a rendezvous VID that
nobody has. On the line a switch has one gateway per level, so `MultipathStaysNear` is about the redirection and about stale
counters there; several gateways compete on two switches joined by two wires (VIDs 00, 10 and 01, 11), where it was also
checked with 2-bit (8,502 states) and 3-bit VIDs (22,198 states), and the theorem covers all networks. *Clusters*: with five nodes clusters of different depth are joined, strings are padded, and zeros run out
(4-bit VIDs). The loop gives up after `MAXITER` = 5000 rounds; the run allows four, which five nodes just need, and the theorem says `Cardinality(N) <= MAXITER + 1`. *Tree*: a line of three is the least with a switch that only passes on; `vcc_live` uses it for reports and
VID packets.
*Access information*: two switches and one moving host are the least for a former and a present switch; the host's access
switch is one of them, so publications and updates come both by frame and looped back, and the talking host never
leaves the other, so requests go both ways. With one host per interface and one number the same VID comes back when the host
does, which is the hard case for updates that are late. The theorems cover any number of them.
*Server*: in `vcc` the interface of the server and the second one of the switch are not joined, so a report may err; its `VIEW` leaves `vids`
out, the VIDs the interfaces were given: no action reads them, their values come from packets and from `ether2vid`, and `SystemTypeCorrect` is proved with them.
*Java simulator*: the line has links at levels 1, 2 and 3 and none at level 4, rendezvous switches up to three hops away and some
that nobody is, and a switch whose crash leaves neighbours on both sides. `MaxInFlight` (timers wait while that many
packets are under way), `MaxDrift` (the steps of its round by which a timer may be ahead of another; `2 * MaxDrift` below the length of a
round keeps "ahead" well defined) and `MaxBusy` (timers publishing at once) bound the interleaving of timers: in the code each waits a minute
between rounds, and a round takes a fraction of it. They do not bound handlers, which run in any order. `MaxCrashes = 1`
already leads to exits of neighbours (their handlers fail to connect), so more than one switch is lost in one behaviour.
`LateStarts` are the sets of switches that may start late, any time after the others run: in `sim_java_live` none, the switch at the end, or the one
in the middle; in `sim_java` none, where the crash gives the refusals. Three timers publish at once in `sim_java_live`, one in `sim_java`.
`MaxTTL = 5` is more than the line is long, and small enough to run out on a packet that goes back and forth; the live
run has no data. The proofs need none of these bounds.
*`MaxInFlight = 0`* (1 for `access_info`, so that publications of two periods overtake each other there): a timer waits until what the previous one sent has arrived or is lost. One timer alone puts
several packets in flight at once, which then arrive in any order; what the bound excludes is packets of two periods
together, that are at least 5 s old. *`MaxCost`* stops advertisements before the 16-bit cost runs over (3 of 8 in `vcc`), so no run sees it wrap; what happens
then is discussed with the theorems. `vid_clusters` is checked up to renaming of nodes (the algorithm does not
compare MACs) and stops when the loop does, so it does not check for deadlock; nor do the Java runs, where every switch
may be gone. All others do.

**Fairness and why the code justifies it.** Click calls a timer when it is due, and every handler ends.
`RouteTable!FairSpec`: an armed bucket expires unless it is refreshed for ever. `Routing!StableSpec`,
`SpanningTree!StaleSpec` and `VCC!SteadySpec`: periodic timers fire again and again (strong fairness, as the bound on
packets in flight disables them for a while), packets arrive and handlers go on (weak fairness). The three assume links
that stay as they are and lose nothing: entries live 60 s and are refreshed every 5 to 30 s, so with links that work no
fresh entry expires, while in `StaleSpec` the left-over ones, which nobody refreshes, do. In `Routing` the fairness of
arrivals is per receiving interface, because in one queue a frame might be overtaken for ever.
`AccessInfo!FairSpec` assumes, after hosts settled: handlers end; frames arrive at each switch; the publication timer
(24 s) fires and entries that hosts left behind expire (60 s), strongly fair as the bound on frames disables them for a while;
every host sends something again and again, and the pairs that talk go on talking. The last is about hosts, not about
the code: a switch learns of a silent host by nothing at all. Nothing is claimed about
progress while packets keep getting lost, since nothing is ever retransmitted other than by the next period.
`JavaSwitch!FairSpec`: the thread that holds the class lock goes on, a switch is started and its monitor opens the port (weak fairness);
timers and handlers, parked ones too, run, strongly fair for each switch, because the lock and the bounds disable them for a while whenever another thread runs, and Java
lets each of them have the lock in the end. As timers wait until nothing is under way (`MaxInFlight = 1`) and the TTL ends every
packet, no connection is passed over for ever. Crashes and traffic are never required to happen. `TablesComplete` is claimed unless a timer dies, which a late start may bring about as
a crash does,
`StaleGatewaysExpire` of all: a switch that crashed vanishes from the tables of those whose timer thread still runs.

## 4. Proofs

The provers show for every value of the constants what the runs show for small ones. An invariant that is not
inductive is proved with a strengthening of it, named here.

* `VIDProofs`: the distance is an ultrametric (`DistanceUltrametric`), flipping the leading bit shortens it
  (`FlipReducesDistance`), rendezvous points agree (`RendezvousAgreement`). Any width; no assumption but
  `HostBits \in 0 .. VidBits`.
* `RouteTableProofs`: `TypeCorrect`, then `ValidPrefixHolds`, `RoundRobinSound`, `DefaultFirst`, `ValidRoutesExpire`.
  `IInv` is `TypeOK` with `BucketOK` of every bucket (valid slots first, the default valid and first, armed if any slot
  is valid). An update is a purge, an addition at the first free slot or nothing, an expiry is a reset, so one lemma per
  bucket operation carries the argument, and the lookups' results follow from "valid slots first".
* `HostTableProofs`: `TypeCorrect`, `UniqueHostVIDs`, `TablesInStep`, `TimersInStep`, `StableHostVIDs`. The four are
  inductive only together: that a free number is really free needs the tables in step, and that an expiry removes the
  right host needs the timer of each to carry its present VID. `RegistryImplemented`: under the mapping that reads a
  lease off the tables (`HostTable!leasesHeld`), every step of `HostTable` is a step of `HostRegistry` or changes no lease. The
  hard step is an expiry, which knows the host by its VID: with the tables in step it ends the lease of that host and no other's.
* `RoutingProofs`: `AssignedVIDStays`, an action property (`AssignedStays`) that assumes nothing of the server: whatever VIDs it hands out
  and moves between the interfaces of a switch, a new VID leads to its interface, and goes on doing so until the interface has another one
  or another interface of the switch is given the VID, which then leads there. An assignment takes the old entry of its own interface away and
  of other interfaces only the one that has the new VID; the entries the route builder inserts (`buildroutetable.cc:62`) are for VIDs
  that lead nowhere. So after a round of the server whose packets have all come, the VIDs being distinct, every VID leads to its interface.
  That an assigned VID leads to its interface at all times (`AssignedResolves`, checked for configured VIDs in `routing`) is not so when VIDs move: see section 5.
  The second part is about what travels and what is stored. `RoutingTypeCorrect`: types, with frames and jobs, for every
  assignment. `RouteLevelsHold`, `GatewaysReachLevelHolds`, `NeverMovesAwayHolds`: if VIDs are static (`StaticVIDs`: `UseStatic`,
  and the server only confirms what is configured), a route of a level leads to that level, its gateway really has a link to it,
  and no frame moves away from its destination. `SoundInv` says of every stored or travelling thing that it is sound with respect to the
  links and the configured VIDs alone: a neighbour entry, an edge at a rendezvous point, a route, a hello, each kind of
  frame, each kind of job. None of these depends on other tables, so losses, delays and expiries in any order preserve
  them; what is new is made of things that are there, and `DistanceUltrametric` carries a gateway's level from the
  rendezvous point to the querier. `MultipathStaysNearHolds` follows from the same invariant,
  with "valid slots first" in it for each bucket: the round robin then picks a valid route, whose gateway lies at the level where the
  destination is, nearer to it than the switch that picks. The premise is needed: when a VID changes, routes kept by interface index are of the
  old one. `RoutingAssumption` asks for finitely many interfaces, numbered from 0 without gaps at every switch.
* `VIDClustersProofs`: for every finite graph and every order of ties. `TypeCorrect` and `DistinctStrings`: `IInv` adds that
  clusters partition the nodes and that strings use positions up to their length; then the new top bit tells the two
  joined clusters apart, and padding does not merge strings.
  `PrefixesConnected` (`SubtreesConnected`): the nodes of a cluster whose strings agree from some position on form a connected part of
  the network. `TreeInv` adds that links go both ways. The union of two clusters that are joined is connected by the link that
  chose them; the new top bit tells the two apart, so any longer prefix belongs to one of them as before.
  `ConnectedUnique` (`UniqueIfConnected`): in a connected network the loop ends with one cluster, so VIDs are unique if they fit, as long as
  `MAXITER` rounds are enough: `Cardinality(N) <= MAXITER + 1`, 5001 interfaces in the code. Every round joins two clusters, so the nodes less the clusters count the rounds (`Joinings`).
  `EndInv` says that the loop stops only when one cluster is left, the rounds are used up or a smallest one has no neighbour, and a cluster that is not
  the whole of a connected network has one. The proof needs no induction on the number of clusters, only the least element of a set of
  numbers. `NodesAssumption`, that nodes are finite in number, is needed for it.
* `VCCProofs`, on the tree: `TypeCorrect`; `NoPathTooShort`, if `MaxCost + 1 < CostMod`: `CostInv` says that costs in the
  tables and in the packets under way are at least the distance; `NoCircles`, if moreover no path expires: `OrderInv`
  says that a parent's cost is smaller, and that an advertisement under way is not better than its sender's present
  path, which holds because costs never grow.
  Both premises are needed. Without the first the cost runs over 2^16 and a large one looks like a small one.
  Without the second two switches that lose the server may each take the other for their parent.
  On the whole system: `ImplementsTree`, it implements `SpanningTree`: a step of reports or VIDs is a stutter
  of the tree, any other step is a step of it. So `SystemPathsSound` and `ReportsApproach` follow from the theorems on
  the tree. `SystemTypeCorrect`. `NoFalseLinks`: what a report claims is true of the wires (`NeighborsSound`,
  `ReportsSound`), however late it is applied, because only neighbours heard on a wire and own interfaces are
  reported.
* `AccessInfoProofs`: for any network, any hosts and any moves. `AccessInfoTyped`; `MisdeliveryBounded`: a packet reaches
  another host than the one it is for only if the two may be attached to one interface. `IInv` says that every VID of a host
  that is held by a switch or told by a mapping, a cache or a frame is of a place of that host (`Placed`). It is
  proved with the bound as a parameter: whatever bound the VIDs of hosts keep before a step they keep after it, if the
  bound admits what the step hears. The types are the bound that admits all VIDs, the misdelivery is the bound `Placed`, and
  `DirectoryImplemented` is the bound of what was held and known before the step: so a step adds a VID of a host only
  by hearing it where it is, and the rest is a step of `Directory` that tells or forgets.
* `JavaSwitchProofs`: `TypeCorrect`, `TableSoundHolds`, `RdvEdgesSoundHolds`, `StaysInSubtreeHolds` and
  `FailureNeedsRefusalHolds`, for every network with symmetric links, every traffic, any late starts and any crashes. The argument is one about
  sets: `SoundEntries(s)`, `SoundEdges(s)`, `SoundItems(s)` and `SoundPackets` are what a table of `s`, the job at `s` and the
  network may hold, and none depends on the state. So refreshing, removing and losing things cannot hurt, and a thing is
  added only by way of things that are there. For the last theorem `SafeItems` lets a table shrink only at
  a switch that was refused a connection, and `WalksInside` says that until then a timer that walks its table stays inside it.

**Model-checked only.** Every invariant of a passing run, and both refinements, are theorems. What stays with TLC is everything under
fairness (`RoutesAgeOut`, `Convergence`, `Stabilizes`, `Distributed`, `DirectoryFollows`, `PacketsFollow`,
`TablesComplete`, `StaleGatewaysExpire`), which the provers used here do not reason about. The server of `VCC` clusters by
`Assignments`, a recursive function of the rounds; `VIDClustersProofs` is about the same rounds as steps of a state machine, and
that the function goes through the states of the machine is not proved. Three theorems state properties no run checks:
`StableHostVIDs` (`HostKeepsVID`), which `HostRegistry` says again, `TypeCorrect` of the tree, which `VCC`'s contains, and `AssignedVIDStays`,
whose interest is in VIDs that change, while those of the runs do not. `RoutingTypeCorrect` is proved for VIDs that change as well, for which `ViaNeighbor`
has the index of an entry that `lookupVidEntry` finds inconsistent, as the code.

## 5. Findings

* `vcc_unique` (`networkTopoVIDAssignment.cc:309`): after one lost report the reported topology is disconnected, the
  clustering loop breaks off, and two interfaces get the same VID.

Met on the way, contradicting no statement of the repository:

* `hosttable.cc:220`: when the MAC behind an IP changes, the entry of the old MAC stays and leads to a VID that is somebody
  else's or nobody's. `WithoutRhosts` models it; no property of the other tables depends on that entry.
* `buildroutetable.cc:62`: a read of the interface table with `operator[]` inserts the VID an interface had before the
  assignment, as one of interface 0 (`Touch` in `Routing`). `AssignedVIDStays` shows that it never hides a VID in use.
* `processVCCSTAdSub.cc:273-290`: when the server moves a VID from interface n' of a switch to n, as it may since ties are broken by hash order,
  and then gives n another one, n' keeps the VID in `rinterfaces` and nothing leads to it until n' is renumbered too. `AssignedStays` says that no other order loses a VID.
* `routepacket.cc:311`, `:328`: the result of `lookupVidEntry` is not looked at, and that function has written the index before it finds the entry
  inconsistent (`interfacetable.cc:76`): while VIDs change a frame may leave by the interface that had the neighbour's VID once, or by interface 0 for an entry that was only read. `ViaNeighbor` models it.
* `networkTopoVIDAssignment.cc:237`: the loop gives up after 5000 rounds and goes on to assign VIDs, so a network of more than 5001 interfaces is numbered like a disconnected one.
* `routepacket.cc:108`: `newgw` is not set by `getRoute` when the packet is for a VID of the switch itself, so the branch would
  direct it to the zero VID. Such packets are taken by `ProcessIP` before; `MultipathStaysNear` leaves them out.
* `routepacket.cc:115`: two gateways of one subtree may direct a packet to each other, each by its own round robin, until the
  TTL ends. `MultipathStaysNear` says that it stays as near as it was, not that it gets nearer with every hop.
* `routetable.cc:57`: `configure` enters the static routes of the configuration before `interfaces` is set (line 62), which
  `updateEntry` reads for each of them: an uninitialized pointer. The generated configuration has no static routes.
* `veil_switch.java`: the timer of a switch that a neighbour refuses a connection may end with an exception (`RTable.java:84-91`) and never run again, after which
  the switch publishes and expires nothing any more. A neighbour that has died refuses, and so does one that has not started yet: no crash is needed,
  and all neighbours may answer afterwards. `StaleGatewaysExpire` and `TablesComplete` have to except such switches, and
  `FailureNeedsRefusal` says that nothing but a refused connection brings it about.

## 6. Not modelled, and why

* Python simulator (`sim-py`): a second, threaded implementation of the protocol that the Java one implements too, with tables that are not locked. Its
  hazards are listed: the server thread tests, creates and fills a bucket in three steps, the main thread walks the bucket
  that it publishes, and a packet without a route is dropped silently. What it sends and stores is what `JavaSwitch` and
  `Routing` have; Python's dictionaries survive such races, so what is left is a lost entry that comes back in the next round.
* Java simulator: the registration of hosts and its table, which no other operation reads; `RTupdater` and `Test`, which
  nothing starts; the counters of packets.
* At the edge: the rewriting of addresses between hosts of one switch, forwarding type 0 (`ETHERTYPE_VEIL_IP`) with its
  `send_arp_query_packet`, which the generated configuration does not select, the TTL, and the search for a free host number that
  fails (`HostTable` has it).
* Forwarding: the frames of hosts are not sent hop by hop. `Multipath` is checked as one step of forwarding in every state of the tables, and
  `AccessInfo` delivers a frame in one step; the two are not composed, since tables and hosts together are out of TLC's reach.
* Neighbour discovery: `processhello` and the older hello generators, which the generated configuration does not connect.
* Configuration: static routes, neighbours, edges, mappings and links of the topology given as arguments of the elements. The generated
  configuration has none, and the models begin with its interfaces and empty tables.
* `vid2ether`, which is only printed; several servers for reports and VID packets, for which the code is not written
  either; read handlers and logging. The configuration parser is vendored; the data generators and measurement programs
  hold no state of the system.

## 7. Plan

Done, the important ones first: `VID`, `RouteBuckets`, `RouteTable`, `HostTable`, `Routing`, `SpanningTree`, `Clusters`, `VIDClusters`,
`VCC`, `AccessInfo`, `JavaTables`, `JavaSwitch` and the proofs about them; `HostRegistry` and `Directory` and their
refinements. What would come next:

1. `ConnectedUnique` for the server: `Assignments` of a topology that is connected gives distinct VIDs. The lemmas of
   `VIDClustersProofs` would have to be stated of a clustering and a graph, not of the variables, and be shared with `VCCProofs`; then the
   least round at which the recursive function leaves the invariant is one that does not exist.
2. Tables that are not empty at the beginning: static routes, neighbours and edges, as long as they are true of the network, in `SoundInv`.
3. The hazards that no property covers yet, in particular hellos of neighbours without a VID (`processhelloNew.cc:50`).
4. A run of `Routing` in which VIDs move between interfaces, for what `AssignedVIDStays` proves: routes are kept by interface index and must be
   shown to give way to those of the new VID once the VIDs are stable again.
