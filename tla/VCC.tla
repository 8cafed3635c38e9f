-------------------------------- MODULE VCC ---------------------------------
(***************************************************************************)
(* The VID server (VCC) and what travels along the tree: every switch      *)
(* reports the neighbours of its interfaces (generateVCCSTAdSub.cc); the   *)
(* server keeps the topology, clusters it into VIDs and sends each         *)
(* interface its VID (networkTopoVIDAssignment.cc,                         *)
(* generateVIDAssignmentPackets.cc); switches pass both on                 *)
(* (processVCCSTAdSub.cc).  There is one server, as the code assumes.      *)
(*                                                                         *)
(* A packet that the server makes for itself is looped back and handled at *)
(* once, so it is part of the timer's action.  vid2ether, the inverse      *)
(* table, is only ever printed and is left out.                            *)
(***************************************************************************)
EXTENDS SpanningTree, Clusters

CONSTANTS vccmac, MAX_TTL

ASSUME VCCAssumption == VCCs = {vccmac} /\ MAX_TTL \in Nat

VARIABLES networktopo,          \* at the server: MAC -> MACs it is joined to
          lastNodeUpdateTime,   \* MAC -> "recent" (50 s) or "old"
          ether2vid,            \* MAC -> VID assigned
          vids,                 \* MAC -> VID the interface was given
          ltopos, vidpackets    \* packets under way
servervars == <<networktopo, lastNodeUpdateTime, ether2vid>>
vars == <<treevars, servervars, vids, ltopos, vidpackets>>

\* svid and dvid carry MACs here: the interface reported on, or assigned to.
LTopo  == [to : Macs, dhost : Macs, svid : Macs, neighbors : SUBSET Macs, ttl : 0 .. MAX_TTL]
VIDMsg == [to : Macs, dhost : Macs, dvid : Macs, vid : NodeVIDs, ttl : 0 .. MAX_TTL]

TypeOK ==
  /\ TreeTypeOK
  /\ IsTable(networktopo, Macs, SUBSET Macs)
  /\ IsTable(lastNodeUpdateTime, Macs, {"recent", "old"})
  /\ IsTable(ether2vid, Macs, NodeVIDs)
  /\ IsTable(vids, Macs, NodeVIDs)
  /\ ltopos \subseteq LTopo /\ vidpackets \subseteq VIDMsg

Init ==
  /\ TreeInit
  /\ networktopo = EmptyTable /\ lastNodeUpdateTime = EmptyTable
  /\ ether2vid = EmptyTable
  /\ vids = EmptyTable
  /\ ltopos = {} /\ vidpackets = {}

Server == vccmac[1]

\* One copy of packet m for each interface on the wire of own.
OnWire(own, m) == {[m EXCEPT !.to = p] : p \in Peers(own)}

-----------------------------------------------------------------------------
(* Reports: what a switch knows of its own interfaces.                     *)

\* Mutant: the neighbours heard on any interface are listed.
ReportedAll(m) == (Own(m[1]) \ {m}) \cup DOMAIN neighbors[m[1]]

\* The other interfaces of the switch, then the neighbours heard on m.
Reported(m) ==
  (Own(m[1]) \ {m}) \cup {p \in DOMAIN neighbors[m[1]] : neighbors[m[1]][p] = m}

\* removeNode, then addAnEdge both ways, for the reports r: MAC -> MACs.
Record(r) ==
  LET old  == DOMAIN networktopo \ DOMAIN r
      ends == UNION {r[m] : m \in DOMAIN r}
      back(p) == {m \in DOMAIN r : p \in r[m]}
  IN  /\ networktopo' =
           [p \in old \cup ends \cup {m \in DOMAIN r : r[m] # {}} |->
              IF p \in DOMAIN r THEN r[p] \cup back(p)
              ELSE IF p \in old THEN networktopo[p] \cup back(p) ELSE back(p)]
      /\ lastNodeUpdateTime' =
           [p \in DOMAIN lastNodeUpdateTime \cup DOMAIN r |->
              IF p \in DOMAIN r THEN "recent" ELSE lastNodeUpdateTime[p]]

\* The second half of run_timer.  The server's own reports go straight to its
\* table, unless its parent is another switch: then they are rejected.
sendNeighborInfotoVCC(s) ==
  LET known  == vccmac \in DOMAIN Paths(s)
      parent == Paths(s)[vccmac].ParentMac
  IN  /\ IF known /\ s = Server /\ parent \in Own(s)
           THEN Record([m \in Own(s) |-> Reported(m)])
           ELSE UNCHANGED <<networktopo, lastNodeUpdateTime>>
      /\ ltopos' =
           IF known /\ s # Server /\ parent \in DOMAIN neighbors[s]
             THEN ltopos \cup
               UNION {OnWire(neighbors[s][parent],
                        [to |-> parent, dhost |-> parent, svid |-> m,
                         neighbors |-> Reported(m), ttl |-> MAX_TTL]) : m \in Own(s)}
             ELSE ltopos

\* A report is recorded at the server, passed on to the parent, or dropped.
processLocalTopo(l) ==
  LET s      == l.to[1]
      parent == Paths(s)[vccmac].ParentMac
  IN  /\ l \in ltopos
      /\ IF l.dhost \in Own(s) /\ s = Server
           THEN Record([m \in {l.svid} |-> l.neighbors])
           ELSE UNCHANGED <<networktopo, lastNodeUpdateTime>>
      /\ ltopos' =
           (ltopos \ {l}) \cup
             IF /\ l.dhost \in Own(s) /\ s # Server
                /\ vccmac \in DOMAIN Paths(s)
                /\ parent \in DOMAIN neighbors[s]
                /\ l.ttl >= 1
               THEN OnWire(neighbors[s][parent], [l EXCEPT !.dhost = parent, !.ttl = @ - 1])
               ELSE {}
      /\ UNCHANGED <<treevars, ether2vid, vids, vidpackets>>

-----------------------------------------------------------------------------
(* Assignment.                                                             *)

\* Nodes that did not report for 50 s, or never.  Erasing one of them makes
\* the iterator over the table invalid: it is undefined how many more of them
\* the walk finds.
Outdated == {m \in DOMAIN networktopo :
               m \in DOMAIN lastNodeUpdateTime => lastNodeUpdateTime[m] = "old"}
Purges == {G \in SUBSET Outdated : Outdated # {} => G # {}}

\* The graph that is clustered: edges are taken both ways, and only between
\* nodes that are left.
Symmetric(P) ==
  [m \in P |-> {n \in P : n \in networktopo[m] \/ m \in networktopo[n]}]

\* The clusterings the loop may end with.
Ends(g) ==
  LET After[k \in 0 .. Cardinality(DOMAIN g)] ==
        IF k = 0 THEN {Start(DOMAIN g, z) : z \in DOMAIN g}
        ELSE UNION {Rounds(c, g) : c \in After[k - 1]}
  IN  UNION {{c \in After[k] : Breaks(c, g)} : k \in DOMAIN After}

\* The new VIDs: none for less than two nodes or strings that do not fit.
Assignments(g) ==
  IF Cardinality(DOMAIN g) <= 1 THEN {EmptyTable}
  ELSE {IF Fits(c)
          THEN [m \in DOMAIN g |-> NodeVID(c, m)] ELSE EmptyTable : c \in Ends(g)}

\* performVIDAssignment: gone is purged, a is assigned.
performVIDAssignment(gone, a) ==
  /\ networktopo' = [m \in DOMAIN networktopo \ gone |-> networktopo[m]]
  /\ lastNodeUpdateTime' =
       [m \in DOMAIN lastNodeUpdateTime \ gone |-> lastNodeUpdateTime[m]]
  /\ ether2vid' = [m \in (DOMAIN ether2vid \ gone) \cup DOMAIN a |->
                     IF m \in DOMAIN a THEN a[m] ELSE ether2vid[m]]

\* Copies of packet k for the children of s that are known neighbours.
ToChildren(s, k) ==
  UNION {OnWire(neighbors[s][c], [k EXCEPT !.dhost = c]) :
           c \in DOMAIN forwardingTableFromVCC[s] \cap DOMAIN neighbors[s]}

\* Mutant: only children of the server are sent their VIDs.
DispatchedDirect(m, v) ==
  LET k == [to |-> m, dhost |-> m, dvid |-> m, vid |-> v, ttl |-> MAX_TTL]
  IN  IF m \in DOMAIN forwardingTableFromVCC[Server] \cap DOMAIN neighbors[Server]
        THEN OnWire(neighbors[Server][m], k) ELSE {}

\* dispatch_one_vid_mac_pair, for an interface m of another switch: to m alone
\* if it is a child, otherwise to all children.
Dispatched(m, v) ==
  LET k == [to |-> m, dhost |-> m, dvid |-> m, vid |-> v, ttl |-> MAX_TTL]
  IN  IF m \notin DOMAIN forwardingTableFromVCC[Server] THEN ToChildren(Server, k)
      ELSE IF m \in DOMAIN neighbors[Server] THEN OnWire(neighbors[Server][m], k)
      ELSE {}

\* GenerateVIDAssignmentPackets, run_timer.
assignVIDs ==
  /\ \E gone \in Purges :
       \E a \in Assignments(Symmetric(DOMAIN networktopo \ gone)) : performVIDAssignment(gone, a)
  /\ vids' = [m \in DOMAIN vids \cup (DOMAIN ether2vid' \cap Own(Server)) |->
                IF m \in DOMAIN ether2vid' \cap Own(Server) THEN ether2vid'[m] ELSE vids[m]]
  /\ vidpackets' = vidpackets \cup
       UNION {Dispatched(m, ether2vid'[m]) : m \in DOMAIN ether2vid' \ Own(Server)}
  /\ UNCHANGED <<treevars, ltopos>>

\* A VID reaches its interface, is passed on to the children, or is dropped.
processSwitchVID(k) ==
  LET s == k.to[1]
      accepted == k.dhost \in Own(s) /\ k.ttl >= 1
  IN  /\ k \in vidpackets
      /\ vids' = IF accepted /\ k.dvid \in Own(s) THEN Put(vids, k.dvid, k.vid) ELSE vids
      /\ vidpackets' = (vidpackets \ {k}) \cup
           IF accepted /\ k.dvid \notin Own(s) THEN ToChildren(s, [k EXCEPT !.ttl = @ - 1]) ELSE {}
      /\ UNCHANGED <<treevars, servervars, ltopos>>

\* 50 s have passed since m reported.
age(m) ==
  /\ m \in DOMAIN lastNodeUpdateTime /\ lastNodeUpdateTime[m] = "recent"
  /\ lastNodeUpdateTime' = [lastNodeUpdateTime EXCEPT ![m] = "old"]
  /\ UNCHANGED <<treevars, networktopo, ether2vid, vids, ltopos, vidpackets>>

losePacket ==
  /\ \/ ltopos' \in {ltopos \ {l} : l \in ltopos} /\ vidpackets' = vidpackets
     \/ vidpackets' \in {vidpackets \ {k} : k \in vidpackets} /\ ltopos' = ltopos
  /\ UNCHANGED <<treevars, servervars, vids>>

-----------------------------------------------------------------------------
AllQuiet == Quiet /\ Cardinality(ltopos) + Cardinality(vidpackets) <= MaxInFlight

\* GenerateVCCSTAdSub, run_timer.
run_timer(s) ==
  /\ sendVCCAdandSubPackets(s) /\ sendNeighborInfotoVCC(s)
  /\ UNCHANGED <<ether2vid, vids, vidpackets>>

\* The timers fire every 25 s, the configured source every 5 s.
AllTimers ==
  \/ \E v \in VCCs : AllQuiet /\ datasAd(v) /\ UNCHANGED <<servervars, vids, ltopos, vidpackets>>
  \/ \E s \in Switches : AllQuiet /\ run_timer(s)
  \/ AllQuiet /\ assignVIDs

AllArrivals ==
  \/ Arrivals /\ UNCHANGED <<servervars, vids, ltopos, vidpackets>>
  \/ \E l \in ltopos : processLocalTopo(l)
  \/ \E k \in vidpackets : processSwitchVID(k)

Faults ==
  \/ (Expiry \/ lose) /\ UNCHANGED <<servervars, vids, ltopos, vidpackets>>
  \/ \E m \in DOMAIN lastNodeUpdateTime : age(m)
  \/ losePacket

Next == AllTimers \/ AllArrivals \/ Faults

Spec == Init /\ [][Next]_vars

\* Links are up and nothing is lost: every entry is refreshed in time.
SteadySpec ==
  /\ Init /\ [][AllTimers \/ AllArrivals]_vars
  /\ \A s \in Switches : SF_vars(AllQuiet /\ run_timer(s))
  /\ SF_vars(AllQuiet /\ assignVIDs)
  /\ WF_vars(\E a \in ads : processAD(a) /\ UNCHANGED <<servervars, vids, ltopos, vidpackets>>)
  /\ WF_vars(\E b \in subs : processSUBS(b) /\ UNCHANGED <<servervars, vids, ltopos, vidpackets>>)
  /\ \A m \in Macs : \A p \in Peers(m) :
       WF_vars(processHello(m, p) /\ UNCHANGED <<servervars, vids, ltopos, vidpackets>>)
  /\ WF_vars(\E l \in ltopos : processLocalTopo(l))
  /\ WF_vars(\E k \in vidpackets : processSwitchVID(k))

-----------------------------------------------------------------------------
\* Two interfaces are joined: one wire, or one switch.
Adjacent(m, p) == p \in Peers(m) \/ (m # p /\ m[1] = p[1])

\* The server never believes in a link that is not there.
TopologySound ==
  \A m \in DOMAIN networktopo : \A p \in networktopo[m] : Adjacent(m, p)

\* "Unique ID for each interface ... the uniqueness is with in the veil
\* network" (click_veil.hh:76): no two interfaces are assigned the same VID.
AssignedUnique ==
  \A m, p \in DOMAIN ether2vid : ether2vid[m] = ether2vid[p] => m = p

\* In the end the server knows the whole topology, has different VIDs for all
\* interfaces, and every interface has been given one.
Distributed ==
  <>[](/\ DOMAIN networktopo = Macs
       /\ \A m \in Macs : networktopo[m] = {p \in Macs : Adjacent(m, p)}
       /\ DOMAIN ether2vid = Macs /\ AssignedUnique
       /\ DOMAIN vids = Macs)
=============================================================================
