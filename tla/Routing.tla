------------------------------ MODULE Routing ------------------------------
(***************************************************************************)
(* How the switches build their routing tables and forward control frames: *)
(* the interface, neighbour, rendezvous and route tables of every switch,  *)
(* the hello and route-building timers (generatehelloNew.cc,               *)
(* buildroutetable.cc), the handlers of hellos and rendezvous frames       *)
(* (processhelloNew.cc, processrdv.cc) and the forwarding element          *)
(* (routepacket.cc), over a network that may lose and reorder.             *)
(*                                                                         *)
(* An interface is known by its MAC, the pair <<switch, index>>.  Click    *)
(* runs a handler to its end, looped-back frames included: jobs holds what *)
(* the running handler still has to do, and nothing else happens meanwhile *)
(* (switches share only frames, so handlers of different switches commute  *)
(* and may be taken one after the other).                                  *)
(***************************************************************************)
EXTENDS RouteBuckets, Sequences

CONSTANTS Switches,
          Macs,          \* interfaces: pairs <<switch, index>>
          Links,         \* the wires: two-element sets of interfaces
          ConfigVID,     \* MAC -> VID in the configuration
          UseStatic,     \* the configured VIDs are used as they are
          Assignable,    \* MAC -> VIDs the VCC may send to it
          ActiveBits,    \* ACTIVE_VID_LEN * 8, the levels queried for
          MaxTTL,        \* MAX_TTL
          MaxInFlight    \* bound: timers wait while more frames are under way

\* VIDs of interfaces: host bits zero.
SwitchVIDs == {v \in VIDs : getSwitchVID(v) = v}

ASSUME RoutingAssumption ==
  /\ Macs \subseteq Switches \X Nat /\ IsFiniteSet(Macs)
  /\ \A s \in Switches : <<s, 0>> \in Macs
  /\ \A m \in Macs : \A i \in 0 .. m[2] : <<m[1], i>> \in Macs
  /\ ConfigVID \in [Macs -> SwitchVIDs]
  /\ UseStatic \in BOOLEAN
  /\ UseStatic => \A m, p \in Macs : m[1] = p[1] /\ ConfigVID[m] = ConfigVID[p] => m = p
  /\ Assignable \in [Macs -> SUBSET SwitchVIDs]
  /\ ActiveBits \in HostBits .. VidBits
  /\ MaxTTL \in Nat

Indices(s)       == {m[2] : m \in {m \in Macs : m[1] = s}}
numInterfaces(s) == Cardinality(Indices(s))
Peers(m)         == {p \in Macs : p # m /\ {m, p} \in Links}

VARIABLES interfaces,            \* switch -> VID -> index
          rinterfaces,           \* switch -> index -> VID
          isvidset,              \* switch -> index -> BOOLEAN
          isVIDAssignmentDone,   \* switch -> BOOLEAN
          neighbors,             \* switch -> MAC -> [neighborVID, myVid]
          rdvedges,              \* switch -> set of edges <<src, dest>>
          routes,                \* switch -> index -> bucket number -> Bucket
          hellos,                \* hellos under way
          frames,                \* rendezvous frames under way
          jobs                   \* the rest of the running handler
ivars  == <<interfaces, rinterfaces, isvidset, isVIDAssignmentDone>>
tables == <<neighbors, rdvedges, routes>>
vars   == <<ivars, tables, hellos, frames, jobs>>

\* What the tables of neighbours and of rendezvous edges hold; the timers of
\* their entries are the actions that make them expire.
NeighborTableEntry == [neighborVID : SwitchVIDs, myVid : SwitchVIDs]
RendezvousEdge     == SwitchVIDs \X SwitchVIDs
RendezvousTable    == SUBSET RendezvousEdge

\* A rendezvous frame.  vids is its payload: the published neighbour or the
\* gateways of a reply; port is the PORT_ANNO annotation.
Frame == [type : {"PUBLISH", "QUERY", "REPLY"}, dhost : VIDs, shost : VIDs,
          svid : VIDs, dvid : VIDs, ttl : 0 .. MaxTTL, bucket : Nat,
          vids : Seq(VIDs), port : Nat]

Hello == [from : Macs, to : Macs, vid : SwitchVIDs, reply : BOOLEAN]

Jobs == [op : {"route", "rdv", "learn", "build"}, sw : Switches, frame : Frame, gw : Nat \ {0}]

TypeOK ==
  /\ \A s \in Switches :
       /\ IsTable(interfaces[s], SwitchVIDs, Indices(s))
       /\ rinterfaces[s] \in [Indices(s) -> SwitchVIDs]
       /\ isvidset[s] \in [Indices(s) -> BOOLEAN]
       /\ isVIDAssignmentDone[s] \in BOOLEAN
       /\ IsTable(neighbors[s], Macs, NeighborTableEntry)
       /\ rdvedges[s] \in RendezvousTable
       /\ DOMAIN routes[s] \subseteq Indices(s)
       /\ \A n \in DOMAIN routes[s] : IsTable(routes[s][n], HostBits + 1 .. VidBits, Bucket)
  /\ hellos \subseteq Hello
  /\ frames \subseteq [to : Macs, frame : Frame]
  /\ jobs \in Seq(Jobs)

Init ==
  /\ rinterfaces = [s \in Switches |-> [n \in Indices(s) |-> ConfigVID[<<s, n>>]]]
  /\ interfaces =
       [s \in Switches |->
          IF UseStatic
            THEN [v \in {ConfigVID[<<s, n>>] : n \in Indices(s)} |->
                    CHOOSE n \in Indices(s) : ConfigVID[<<s, n>>] = v]
            ELSE EmptyTable]
  /\ isvidset = [s \in Switches |-> [n \in Indices(s) |-> UseStatic]]
  /\ isVIDAssignmentDone = [s \in Switches |-> UseStatic]
  /\ neighbors = [s \in Switches |-> EmptyTable]
  /\ rdvedges = [s \in Switches |-> {}]
  /\ routes = [s \in Switches |-> EmptyTable]
  /\ hellos = {} /\ frames = {} /\ jobs = <<>>

Idle == jobs = <<>>

-----------------------------------------------------------------------------
(* The tables.                                                             *)

lookupVidEntry(s, v) ==
  v \in DOMAIN interfaces[s] /\ rinterfaces[s][interfaces[s][v]] = v

\* The VID and the MAC of the interface with index n.
lookupIntEntry(s, n) == rinterfaces[s][n]
getMacAddr(s, n)     == <<s, n>>

\* updateEntry of the two tables that hellos and publications keep fresh.
updateNeighbor(s, mac, nvid, my) ==
  neighbors' = [neighbors EXCEPT ![s] = Put(@, mac, [neighborVID |-> nvid, myVid |-> my])]
updateEdge(s, src, dest) == rdvedges' = [rdvedges EXCEPT ![s] = @ \cup {<<src, dest>>}]

\* The neighbour table searched by VID: a match in the table's own order.
NeighborsAt(s, v)  == {m \in DOMAIN neighbors[s] : neighbors[s][m].neighborVID = v}
NeighborMyVid(s, v) == neighbors[s][CHOOSE m \in NeighborsAt(s, v) : TRUE].myVid

\* Mutants: an edge to a lower level will do; the source may be anywhere.
RdvMatchesUpTo(s, k, svid) ==
  {e \in rdvedges[s] : /\ logical_distance(svid, e[2]) <= k
                       /\ logical_distance(svid, e[1]) < k}
RdvMatchesReversed(s, k, svid) ==
  {e \in rdvedges[s] : /\ logical_distance(svid, e[1]) = k
                       /\ logical_distance(svid, e[2]) < k}

\* The edges that lead from the subtree of svid to level k, and the gateways
\* getRdvPoint returns for them: the closest source first, then others up to
\* the number of edges found (a source counts once per edge) and MaxGw.
RdvMatches(s, k, svid) ==
  {e \in rdvedges[s] : /\ logical_distance(svid, e[2]) = k
                       /\ logical_distance(svid, e[1]) < k}

\* The first n edges of E in the order of the table.
InTableOrder(E, n) ==
  CHOOSE f \in [1 .. n -> E] : \A i, j \in 1 .. n : f[i] = f[j] => i = j

getRdvPoint(s, k, svid) ==
  LET matches == RdvMatches(s, k, svid)
      srcs    == {e[1] : e \in matches}
      default == CHOOSE v \in srcs : \A w \in srcs : ~ XORCloser(svid, w, v)
      others  == {e \in matches : e[1] # default}
      wanted  == (IF Cardinality(matches) > MaxGw THEN MaxGw ELSE Cardinality(matches)) - 1
      n       == IF Cardinality(others) < wanted THEN Cardinality(others) ELSE wanted
      picked  == InTableOrder(others, n)
  IN  IF matches = {} THEN <<>>
      ELSE [j \in 1 .. n + 1 |-> IF j = 1 THEN default ELSE picked[j - 1][1]]

-----------------------------------------------------------------------------
(* Forwarding: VEILRoutePacket.                                            *)

Nowhere(my) == [port |-> -1, nexthop |-> ZeroVID, myVid |-> my]

\* The port of the interface through which the neighbour was heard: what the
\* table of interfaces has under the VID it had then, which may be stale.
ViaNeighbor(s, my, nh) ==
  LET heard == NeighborMyVid(s, nh)
  IN  [port    |-> IF heard \in DOMAIN interfaces[s] THEN interfaces[s][heard] ELSE -1,
       nexthop |-> nh, myVid |-> my]

\* Port numInterfaces loops the frame back to the switch's own classifier.
Loopback(s, v) == [port |-> numInterfaces(s), nexthop |-> v, myVid |-> v]

DefaultRoute(s, my, dst) == RouteFor(routes[s], interfaces[s], 0, dst, my, TRUE)

getPort(s, my, dst) ==
  LET sw == getSwitchVID(dst)
      r  == DefaultRoute(s, my, dst)
  IN  IF SameSwitch(my, dst) THEN Loopback(s, my)
      ELSE IF NeighborsAt(s, sw) # {} THEN ViaNeighbor(s, my, sw)
      ELSE IF ~ r.found THEN Nowhere(my)
      ELSE IF NeighborsAt(s, r.nexthop) # {} THEN ViaNeighbor(s, my, r.nexthop)
      ELSE IF lookupVidEntry(s, r.nexthop) THEN Loopback(s, r.nexthop)
      ELSE Nowhere(my)

\* The VID of mine that a frame is routed from; a frame with none is dropped.
MyVIDs(s, f) == {v \in {f.dhost, f.shost, getSwitchVID(f.svid)} : v \in DOMAIN interfaces[s]}
MyVid(s, f) ==
  getSwitchVID(IF f.dhost \in DOMAIN interfaces[s] THEN f.dhost
               ELSE IF f.shost \in DOMAIN interfaces[s] THEN f.shost
               ELSE f.svid)

\* Mutant: no redirection.
Unredirected(s, my, f) == f.dvid

\* While there is no port for it, a publication or a query is redirected: the
\* leftmost bit on which its destination differs from my VID is flipped.  So
\* the destinations tried agree with my VID from some position t upwards.
FlippedDownTo(my, dst, t) == [i \in BitPos |-> IF i >= t THEN my[i] ELSE dst[i]]
Destination(s, my, f) ==
  LET Tries    == DiffBits(my, f.dvid) \cup {VidBits + 1}
      Works(t) == getPort(s, my, FlippedDownTo(my, f.dvid, t)).port # -1
  IN  IF f.type = "REPLY" THEN f.dvid
      ELSE FlippedDownTo(my, f.dvid,
             CHOOSE t \in Tries : Works(t) /\ \A u \in Tries : Works(u) => u <= t)

\* The frame as it leaves, and the job or the frames it becomes.
Outcome(s, f) ==
  LET dst == Destination(s, MyVid(s, f), f)
      r   == getPort(s, MyVid(s, f), dst)
  IN  [port  |-> IF MyVIDs(s, f) = {} \/ f.ttl = 0 THEN -1 ELSE r.port,
       frame |-> [f EXCEPT !.dvid = dst, !.dhost = r.nexthop, !.shost = r.myVid,
                           !.ttl = IF f.ttl = 0 THEN 0 ELSE f.ttl - 1]]

\* VEIL_ENCAP_MULTIPATH_IP, the packets of hosts under the forwarding type the
\* generated configuration selects: final is where a packet goes, dvid where
\* it is directed for now.  A packet that has got where it was directed goes
\* on to final; one that goes to final is directed to the gateway the round
\* robin offers, if that is another interface.  last is the counter of the
\* bucket.  getPort is called again after each change, with the VID of mine
\* the call before has left.  Without a port the packet is wrapped for the
\* access switch of its destination (AccessInfo).
Multipath(s, my, dvid, final, last) ==
  LET first      == getPort(s, my, dvid)
      dst        == IF lookupVidEntry(s, dvid) THEN final ELSE dvid
      alt        == RouteFor(routes[s], interfaces[s], last, dst, first.myVid, FALSE)
      redirected == /\ getSwitchVID(dst) = getSwitchVID(final) /\ first.port # -1
                    /\ alt.found /\ alt.gateway # first.myVid
      next       == IF redirected THEN alt.gateway ELSE dst
      second     == IF redirected THEN getPort(s, first.myVid, next) ELSE first
      r          == getPort(s, second.myVid, next)
  IN  [port |-> r.port, nexthop |-> r.nexthop, dvid |-> next]

-----------------------------------------------------------------------------
(* The jobs of a running handler.                                          *)

Job(op, s, f) == [op |-> op, sw |-> s, frame |-> f, gw |-> 1]

\* A control frame a switch makes: rdv_publish, rdv_query and the reply.
NewFrame(type, from, to, k, vids) ==
  [type |-> type, dhost |-> to, shost |-> from, svid |-> from, dvid |-> to,
   ttl |-> MaxTTL, bucket |-> k, vids |-> vids, port |-> 0]

rdv_publish(my, nexthop, k) ==
  NewFrame("PUBLISH", my, calculate_rdv_point(my, k), k, <<getSwitchVID(nexthop)>>)

rdv_query(my, k) == NewFrame("QUERY", my, calculate_rdv_point(my, k), k, <<>>)

\* RoutePacket: the frame goes back to the classifier, out, or is discarded.
smactionRoute ==
  /\ jobs # <<>> /\ Head(jobs).op = "route"
  /\ \E s \in {Head(jobs).sw} : \E o \in {Outcome(s, Head(jobs).frame)} :
         /\ jobs' = IF o.port = numInterfaces(s)
                      THEN <<Job("rdv", s, o.frame)>> \o Tail(jobs) ELSE Tail(jobs)
         /\ frames' = IF o.port \in Indices(s)
                        THEN frames \cup {[to |-> p, frame |-> o.frame] : p \in Peers(<<s, o.port>>)}
                        ELSE frames
  /\ UNCHANGED <<ivars, tables, hellos>>

\* ProcessRDV: what a frame that came in, or came back, leads to.
smactionRDV ==
  /\ jobs # <<>> /\ Head(jobs).op = "rdv"
  /\ LET s   == Head(jobs).sw
         f   == Head(jobs).frame
         gws == getRdvPoint(s, f.bucket, f.svid)
         mine == lookupVidEntry(s, f.dhost) /\ lookupVidEntry(s, f.dvid)
         reply == NewFrame("REPLY", lookupIntEntry(s, f.port), f.svid, f.bucket,
                           [j \in DOMAIN gws |-> getSwitchVID(gws[j])])
     IN  /\ jobs' =
              IF ~ lookupVidEntry(s, f.dhost) THEN Tail(jobs)
              ELSE IF ~ mine THEN <<Job("route", s, f)>> \o Tail(jobs)
              ELSE IF f.type = "QUERY" /\ gws # <<>>
                THEN <<Job("route", s, reply)>> \o Tail(jobs)
              ELSE IF f.type = "REPLY" /\ f.vids # <<>>
                THEN <<Job("learn", s, f)>> \o Tail(jobs)
              ELSE Tail(jobs)
         /\ IF mine /\ f.type = "PUBLISH" THEN updateEdge(s, f.svid, f.vids[1])
                                           ELSE UNCHANGED rdvedges
  /\ UNCHANGED <<ivars, neighbors, routes, hellos, frames>>

\* ProcessRDV on a reply, one gateway at a time: the next hop towards the
\* gateway becomes the next hop of the bucket, by default for the first one.
smactionReply ==
  /\ jobs # <<>> /\ Head(jobs).op = "learn"
  /\ LET job     == Head(jobs)
         s       == job.sw
         f       == job.frame
         gateway == f.vids[job.gw]
         r       == DefaultRoute(s, f.dvid, gateway)
     IN  /\ routes' = IF ~ SameSwitch(f.dvid, gateway) /\ r.found
                        THEN [routes EXCEPT ![s] =
                                UpdatedRoutes(@, interfaces[s], f.dvid, f.bucket,
                                              r.nexthop, gateway, job.gw = 1)]
                        ELSE routes
         /\ jobs' = IF job.gw < Len(f.vids)
                      THEN <<[job EXCEPT !.gw = job.gw + 1]>> \o Tail(jobs) ELSE Tail(jobs)
  /\ UNCHANGED <<ivars, neighbors, rdvedges, hellos, frames>>

\* Mutant: an edge of length 0 is not skipped.
buildStepUnskipped ==
  /\ jobs # <<>> /\ Head(jobs).op = "build"
  /\ LET s == Head(jobs).sw
         f == Head(jobs).frame
     IN  /\ routes' = IF f.type = "QUERY" THEN routes
                      ELSE [routes EXCEPT ![s] =
                              UpdatedRoutes(@, interfaces[s], f.svid, f.bucket,
                                            f.vids[1], f.svid, TRUE)]
         /\ jobs' = <<Job("route", s, f)>> \o Tail(jobs)
  /\ UNCHANGED <<ivars, neighbors, rdvedges, hellos, frames>>

\* BuildRouteTable, one publication or query: nothing for an interface without
\* VID or an edge of length 0; a direct route is entered before it is
\* published.
buildStep ==
  /\ jobs # <<>> /\ Head(jobs).op = "build"
  /\ LET s    == Head(jobs).sw
         f    == Head(jobs).frame
         skip == ~ isvidset[s][interfaces[s][f.svid]] \/ f.bucket = 0
     IN  /\ routes' = IF skip \/ f.type = "QUERY" THEN routes
                      ELSE [routes EXCEPT ![s] =
                              UpdatedRoutes(@, interfaces[s], f.svid, f.bucket,
                                            f.vids[1], f.svid, TRUE)]
         /\ jobs' = IF skip THEN Tail(jobs) ELSE <<Job("route", s, f)>> \o Tail(jobs)
  /\ UNCHANGED <<ivars, neighbors, rdvedges, hellos, frames>>

-----------------------------------------------------------------------------
(* Timers and arrivals: they start a handler.                              *)

InFlight == Cardinality(frames) + Cardinality(hellos)

\* GenerateHelloNew: a hello on every interface, with the zero VID as long as
\* the interface has none.
generateHello(s) ==
  /\ Idle /\ InFlight <= MaxInFlight
  /\ hellos' = hellos \cup
       {[from |-> getMacAddr(s, e[1]), to |-> e[2],
         vid  |-> IF isvidset[s][e[1]] THEN lookupIntEntry(s, e[1]) ELSE ZeroVID,
         reply |-> FALSE] :
            e \in {e \in Indices(s) \X Macs : e[2] \in Peers(getMacAddr(s, e[1]))}}
  /\ UNCHANGED <<ivars, tables, frames, jobs>>

\* ProcessHelloNew: a hello is turned into the HELLO_REPLY it is answered with,
\* which carries the VID of the interface whether it is set or not.
processHello(h) ==
  /\ Idle /\ h \in hellos
  /\ updateNeighbor(h.to[1], h.from, h.vid, lookupIntEntry(h.to[1], h.to[2]))
  /\ hellos' = (hellos \ {h}) \cup
       {[from |-> h.to, to |-> h.from, vid |-> lookupIntEntry(h.to[1], h.to[2]), reply |-> TRUE] :
            x \in IF h.reply THEN {} ELSE {h}}
  /\ UNCHANGED <<ivars, rdvedges, routes, frames, jobs>>

\* All the orders in which a hash table may be walked.
Orders(S) == {f \in [1 .. Cardinality(S) -> S] :
                \A i, j \in 1 .. Cardinality(S) : f[i] = f[j] => i = j}

\* interfaces after the walk over the neighbours: interfaces[myVid] inserts a
\* VID that is no longer there, with index 0 (buildroutetable.cc:62).
TouchedInterfaces(s) ==
  [v \in DOMAIN interfaces[s] \cup {neighbors[s][m].myVid : m \in DOMAIN neighbors[s]} |->
     IF v \in DOMAIN interfaces[s] THEN interfaces[s][v] ELSE 0]

\* BuildRouteTable, run_timer: the links to neighbours, then the pairs of own
\* interfaces, are entered and published; then every level is queried for.
buildRouteTable(s) ==
  /\ Idle /\ InFlight <= MaxInFlight
  /\ isVIDAssignmentDone[s]
  /\ interfaces' = [interfaces EXCEPT ![s] = TouchedInterfaces(s)]
  /\ LET n == Cardinality(DOMAIN TouchedInterfaces(s))
         levels == ActiveBits - HostBits
         Publish(v, w) == Job("build", s, rdv_publish(v, w, logical_distance(w, v)))
         Query(v, k)   == Job("build", s, rdv_query(v, k))
     IN  \E a \in Orders(DOMAIN neighbors[s]), o \in Orders(DOMAIN TouchedInterfaces(s)) :
           jobs' = [j \in DOMAIN a |-> Publish(neighbors[s][a[j]].myVid, neighbors[s][a[j]].neighborVID)]
                   \o [j \in 1 .. n * n |-> Publish(o[((j - 1) \div n) + 1], o[((j - 1) % n) + 1])]
                   \o [j \in 1 .. n * levels |->
                         Query(o[((j - 1) \div levels) + 1], HostBits + 1 + ((j - 1) % levels))]
  /\ UNCHANGED <<rinterfaces, isvidset, isVIDAssignmentDone, tables, hellos, frames>>

\* A frame arrives and is handed to ProcessRDV.
receive(m) ==
  /\ Idle /\ m \in frames
  /\ frames' = frames \ {m}
  /\ jobs' = <<Job("rdv", m.to[1], [m.frame EXCEPT !.port = m.to[2]])>>
  /\ UNCHANGED <<ivars, tables, hellos>>

\* Mutant: the VIDs of the index are erased after the new one is entered.
processSwitchVIDErasing(s, n, v) ==
  /\ Idle
  /\ interfaces' = [interfaces EXCEPT ![s] =
       [w \in {w \in DOMAIN @ : @[w] # n /\ w # v} |-> @[w]]]
  /\ rinterfaces' = [rinterfaces EXCEPT ![s][n] = v]
  /\ isvidset' = [isvidset EXCEPT ![s][n] = TRUE]
  /\ isVIDAssignmentDone' = [isVIDAssignmentDone EXCEPT ![s] =
       \A i \in Indices(s) : i # n => isvidset[s][i]]
  /\ UNCHANGED <<tables, hellos, frames, jobs>>

\* The VID server sends interface n of s the VID v (processVCCSTAdSub.cc).
processSwitchVID(s, n, v) ==
  /\ Idle
  /\ interfaces' = [interfaces EXCEPT ![s] =
       [w \in {w \in DOMAIN @ : @[w] # n} \cup {v} |-> IF w = v THEN n ELSE @[w]]]
  /\ rinterfaces' = [rinterfaces EXCEPT ![s][n] = v]
  /\ isvidset' = [isvidset EXCEPT ![s][n] = TRUE]
  /\ isVIDAssignmentDone' = [isVIDAssignmentDone EXCEPT ![s] =
       \A i \in Indices(s) : i # n => isvidset[s][i]]
  /\ UNCHANGED <<tables, hellos, frames, jobs>>

expireNeighbor(s, m) ==
  /\ Idle /\ m \in DOMAIN neighbors[s]
  /\ neighbors' = [neighbors EXCEPT ![s] = Erase(@, m)]
  /\ UNCHANGED <<ivars, rdvedges, routes, hellos, frames, jobs>>

expireEdge(s, e) ==
  /\ Idle /\ e \in rdvedges[s]
  /\ rdvedges' = [rdvedges EXCEPT ![s] = @ \ {e}]
  /\ UNCHANGED <<ivars, neighbors, routes, hellos, frames, jobs>>

expireRoute(s, n, b) ==
  /\ Idle /\ HasBucket(routes[s], n, b) /\ routes[s][n][b].armed
  /\ routes' = [routes EXCEPT ![s][n][b] = ExpireBucket(@)]
  /\ UNCHANGED <<ivars, neighbors, rdvedges, hellos, frames, jobs>>

loseFrame(m) ==
  /\ Idle /\ m \in frames
  /\ frames' = frames \ {m}
  /\ UNCHANGED <<ivars, tables, hellos, jobs>>

loseHello(h) ==
  /\ Idle /\ h \in hellos
  /\ hellos' = hellos \ {h}
  /\ UNCHANGED <<ivars, tables, frames, jobs>>

\* What switches do, and what else may happen to them.
Running == smactionRoute \/ smactionRDV \/ smactionReply \/ buildStep

Protocol ==
  \/ Running
  \/ \E s \in Switches : generateHello(s) \/ buildRouteTable(s)
  \/ \E h \in hellos : processHello(h)
  \/ \E m \in frames : receive(m)

Expiry ==
  \E s \in Switches :
     \/ \E m \in DOMAIN neighbors[s] : expireNeighbor(s, m)
     \/ \E e \in rdvedges[s] : expireEdge(s, e)
     \/ \E n \in DOMAIN routes[s] : \E b \in DOMAIN routes[s][n] : expireRoute(s, n, b)

Loss == (\E m \in frames : loseFrame(m)) \/ (\E h \in hellos : loseHello(h))

Renumber == \E m \in Macs : \E v \in Assignable[m] : processSwitchVID(m[1], m[2], v)

Next == Protocol \/ Expiry \/ Loss \/ Renumber

Spec == Init /\ [][Next]_vars

\* Nothing is lost and nothing expires: links stay up, and every entry is
\* refreshed (by hellos every 10 s, by the route timer every 30 s) before its
\* 60 s are over.  Periodic timers fire again and again, frames arrive, a
\* running handler finishes.
StableSpec ==
  /\ Init /\ [][Protocol]_vars
  /\ WF_vars(Running)
  /\ \A s \in Switches : SF_vars(generateHello(s)) /\ SF_vars(buildRouteTable(s))
  /\ \A p \in Macs : /\ WF_vars(\E h \in hellos : h.to = p /\ processHello(h))
                     /\ WF_vars(\E m \in frames : m.to = p /\ receive(m))

-----------------------------------------------------------------------------
\* P holds of every valid route e in bucket b of every interface VID v.
EachRoute(P(_, _, _)) ==
  \A s \in Switches : \A v \in DOMAIN interfaces[s] :
    LET n == interfaces[s][v] IN
    n \in DOMAIN routes[s] =>
      \A b \in DOMAIN routes[s][n] : \A j \in ValidSlots(routes[s][n][b]) :
         P(v, b, routes[s][n][b].buckets[j])

\* A route of bucket b leads straight to level b, or to a gateway in the own
\* subtree below level b, by a next hop that is no farther than the gateway.
RouteLevels ==
  EachRoute(LAMBDA v, b, e :
     \/ e.gateway = v /\ logical_distance(v, e.nexthop) = b
     \/ /\ logical_distance(v, e.gateway) \in HostBits + 1 .. b - 1
        /\ logical_distance(v, e.nexthop) <= logical_distance(v, e.gateway))

\* The next hop of a frame is never farther from its destination than the
\* switch that forwards it.
NeverMovesAway ==
  \A s \in Switches : \A my \in DOMAIN interfaces[s], dst \in VIDs :
     LET r == getPort(s, my, dst)
     IN  r.port # -1 => logical_distance(r.nexthop, dst) <= logical_distance(my, dst)

\* A packet for final may be directed to dvid: that is final itself or is on
\* the near side of the level on which final differs from my VID.
Directed(my, dvid, final) ==
  dvid = final \/ logical_distance(my, dvid) < logical_distance(my, final)

\* Whatever gateways the switches on its way choose for it, a packet with
\* several paths never moves away from its destination, and what it is
\* directed to stays on the near side for the next switch.  Packets for one's
\* own hosts are not routed (ProcessIP takes them).
MultipathStaysNear == Idle =>
  \A s \in Switches : \A my \in DOMAIN interfaces[s], final, dvid \in VIDs, last \in Slots :
     getSwitchVID(final) \notin DOMAIN interfaces[s] /\ Directed(my, dvid, final) =>
       LET r == Multipath(s, my, dvid, final, last)
       IN  r.port # -1 => /\ logical_distance(r.nexthop, final) <= logical_distance(my, final)
                          /\ Directed(r.nexthop, r.dvid, final)

\* v and w are VIDs of interfaces on one wire or on one switch.
Joined(v, w) ==
  \E m, p \in Macs : /\ ConfigVID[m] = v /\ ConfigVID[p] = w
                     /\ (m[1] = p[1] \/ p \in Peers(m))

\* The gateway of a route of bucket b really has a wire, or another interface
\* on its switch, that reaches level b.
GatewaysReachLevel ==
  EachRoute(LAMBDA v, b, e : \E w \in VIDs : Joined(e.gateway, w) /\ logical_distance(v, w) = b)

\* The VID of interface n leads to it; it leads to another one that has it too.
Resolves(s, n)  == /\ rinterfaces[s][n] \in DOMAIN interfaces[s]
                   /\ interfaces[s][rinterfaces[s][n]] = n
GivenAway(s, n) == \E i \in Indices(s) \ {n} :
                     rinterfaces[s][i] = rinterfaces[s][n] /\ Resolves(s, i)

\* Once an interface has been assigned a VID, that VID leads to it.
AssignedResolves == \A s \in Switches : \A n \in Indices(s) : isvidset[s][n] => Resolves(s, n)

\* A new VID leads to its interface, and does so until the interface has
\* another one or the server gives it to another interface of the switch.
AssignedStays ==
  \A s \in Switches : \A n \in Indices(s) :
     /\ rinterfaces'[s][n] # rinterfaces[s][n] => Resolves(s, n)'
     /\ isvidset'[s][n] /\ (isvidset[s][n] => Resolves(s, n)) => Resolves(s, n)' \/ GivenAway(s, n)'

\* A frame for dst that is at VID my of switch s is delivered within n hops.
Delivered(s0, my0, dst) ==
  LET Hop[n \in Nat, s \in Switches, my \in VIDs] ==
        LET r == getPort(s, my, dst)
        IN  \/ SameSwitch(my, dst)
            \/ /\ n > 0 /\ r.port = numInterfaces(s)
               /\ Hop[n - 1, s, r.nexthop]
            \/ /\ n > 0 /\ r.port \in Indices(s)
               /\ \E p \in Peers(<<s, r.port>>) :
                    lookupVidEntry(p[1], r.nexthop) /\ Hop[n - 1, p[1], r.nexthop]
  IN  Hop[MaxTTL, s0, my0]

\* The tables settle: from some point on every interface can be reached from
\* every other one, whatever the order in which timers fired and frames came.
Convergence ==
  <>[](\A m, p \in Macs : Delivered(m[1], ConfigVID[m], ConfigVID[p]))
=============================================================================
