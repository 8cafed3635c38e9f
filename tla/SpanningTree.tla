---------------------------- MODULE SpanningTree ----------------------------
(***************************************************************************)
(* The tree of paths to the VID servers (VCCs): the tables of              *)
(* spanningtreestate.cc, the advertisements and subscriptions that         *)
(* generateVCCSTAdSub.cc sends and processVCCSTAdSub.cc handles, and the   *)
(* neighbour table they read.  VCC adds what travels along the tree.       *)
(*                                                                         *)
(* An interface is known by its MAC, the pair <<switch, index>>.  The      *)
(* wires do not change: a wire that never carries a packet is one that is  *)
(* down.                                                                   *)
(***************************************************************************)
EXTENDS Integers, FiniteSets, HashTable

CONSTANTS Switches,
          Macs,         \* interfaces: pairs <<switch, index>>
          Links,        \* the wires: two-element sets of interfaces
          VCCs,         \* the MACs of the VID servers
          Distance,     \* [VCCs -> [Switches -> Nat]]: wires to the VID server
          CostMod,      \* 2^16: costs are uint16_t
          MaxCost,      \* bound: a cost above it is not advertised
          MaxInFlight   \* bound: timers wait while more packets are under way

Peers(m) == {p \in Macs : p # m /\ {m, p} \in Links}

ASSUME SpanningTreeAssumption ==
  /\ Macs \subseteq Switches \X Nat
  /\ VCCs \subseteq Macs
  /\ \A m \in Macs : \A p \in Peers(m) : p[1] # m[1]
  /\ Distance \in [VCCs -> [Switches -> Nat]]
  /\ \A v \in VCCs : \A m \in Macs : \A p \in Peers(m) :
       Distance[v][p[1]] <= Distance[v][m[1]] + 1
  /\ \A v \in VCCs : Distance[v][v[1]] = 0
  /\ CostMod \in Nat /\ CostMod >= 2 /\ MaxCost \in Nat

VARIABLES neighbors,                \* switch -> MAC -> own MAC it was heard on
          forwardingTableToVCC,     \* switch -> VCC -> [ParentMac, hopsToVcc]
          forwardingTableFromVCC,   \* switch -> child MAC -> VCC
          ads, subs                 \* packets under way
treevars == <<neighbors, forwardingTableToVCC, forwardingTableFromVCC, ads, subs>>

Own(s)  == {m \in Macs : m[1] = s}
Cost    == 0 .. CostMod - 1
Parents == [ParentMac : Macs, hopsToVcc : Cost]

\* A packet from interface shost, on the wire to interface to.
Ad  == [shost : Macs, to : Macs, vcc : VCCs, cost : Cost]
Sub == [shost : Macs, to : Macs, dhost : Macs, vcc : VCCs]

TreeTypeOK ==
  /\ DOMAIN neighbors = Switches
  /\ DOMAIN forwardingTableToVCC = Switches /\ DOMAIN forwardingTableFromVCC = Switches
  /\ \A s \in Switches :
       /\ IsTable(neighbors[s], Macs, Own(s))
       /\ IsTable(forwardingTableToVCC[s], VCCs, Parents)
       /\ IsTable(forwardingTableFromVCC[s], Macs, VCCs)
  /\ ads \subseteq Ad /\ subs \subseteq Sub

-----------------------------------------------------------------------------
(* The tables.                                                             *)

\* Mutants: a worse cost replaces the parent; the cost of the neighbour is
\* taken over as it is.
updateCostToVCCAny(t, neighbormac, vcc, cost) ==
  Put(t, vcc, [ParentMac |-> neighbormac, hopsToVcc |-> (cost + 1) % CostMod])
updateCostToVCCSame(t, neighbormac, vcc, cost) ==
  IF vcc \in DOMAIN t => t[vcc].hopsToVcc >= cost
    THEN Put(t, vcc, [ParentMac |-> neighbormac, hopsToVcc |-> cost])
    ELSE t

\* The path through neighbormac, if there is none yet or it is not longer.
\* The sum is compared as an int and stored as a uint16_t.
updateCostToVCC(t, neighbormac, vcc, cost) ==
  IF vcc \in DOMAIN t => t[vcc].hopsToVcc >= cost + 1
    THEN Put(t, vcc, [ParentMac |-> neighbormac, hopsToVcc |-> (cost + 1) % CostMod])
    ELSE t

\* Mutant: key and value are swapped.
updateChildSwapped(t, childmac, vcc) == Put(t, vcc, childmac)

updateChild(t, childmac, vcc) == Put(t, childmac, vcc)

\* The server is configured with itself as parent, at cost 0.
Configured(s) ==
  [v \in VCCs \cap Own(s) |-> [ParentMac |-> v, hopsToVcc |-> 1]]

TreeInit ==
  /\ neighbors = [s \in Switches |-> EmptyTable]
  /\ forwardingTableToVCC = [s \in Switches |-> Configured(s)]
  /\ forwardingTableFromVCC = [s \in Switches |-> EmptyTable]
  /\ ads = {} /\ subs = {}

-----------------------------------------------------------------------------
(* The handlers and timers, as far as the tree is concerned.               *)

\* The source of advertisements in the server's configuration: every 5 s it
\* hands the switch one of cost 0 from itself.
datasAd(v) ==
  /\ forwardingTableToVCC' =
       [forwardingTableToVCC EXCEPT ![v[1]] = updateCostToVCC(@, v, v, 0)]
  /\ UNCHANGED <<neighbors, forwardingTableFromVCC, ads, subs>>

\* VEILProcessHello, for the part of the neighbour table read here.
processHello(m, p) ==
  /\ neighbors' = [neighbors EXCEPT ![m[1]] = Put(@, p, m)]
  /\ UNCHANGED <<forwardingTableToVCC, forwardingTableFromVCC, ads, subs>>

\* run_timer: every path is advertised on every interface and subscribed to
\* at the parent, if it is a known neighbour.  The server's own subscription
\* is looped back to it and rejected there.
sendVCCAdandSubPackets(s) ==
  /\ \A v \in DOMAIN forwardingTableToVCC[s] : forwardingTableToVCC[s][v].hopsToVcc <= MaxCost
  /\ LET t == forwardingTableToVCC[s]
         n == neighbors[s]
     IN  /\ ads' = ads \cup
              {[shost |-> w[1], to |-> w[2], vcc |-> w[3], cost |-> t[w[3]].hopsToVcc] :
                 w \in {w \in Own(s) \X Macs \X DOMAIN t : w[2] \in Peers(w[1])}}
         /\ subs' = subs \cup
              {[shost |-> n[t[w[1]].ParentMac], to |-> w[2], dhost |-> t[w[1]].ParentMac, vcc |-> w[1]] :
                 w \in {w \in (DOMAIN t \ Own(s)) \X Macs :
                          /\ t[w[1]].ParentMac \in DOMAIN n
                          /\ w[2] \in Peers(n[t[w[1]].ParentMac])}}
  /\ UNCHANGED <<neighbors, forwardingTableToVCC, forwardingTableFromVCC>>

processAD(a) ==
  /\ a \in ads
  /\ forwardingTableToVCC' =
       [forwardingTableToVCC EXCEPT ![a.to[1]] = updateCostToVCC(@, a.shost, a.vcc, a.cost)]
  /\ ads' = ads \ {a}
  /\ UNCHANGED <<neighbors, forwardingTableFromVCC, subs>>

\* A subscription for another switch is dropped.
processSUBS(b) ==
  /\ b \in subs
  /\ forwardingTableFromVCC' =
       IF b.dhost \in Own(b.to[1])
         THEN [forwardingTableFromVCC EXCEPT ![b.to[1]] = updateChild(@, b.shost, b.vcc)]
         ELSE forwardingTableFromVCC
  /\ subs' = subs \ {b}
  /\ UNCHANGED <<neighbors, forwardingTableToVCC, ads>>

expireParent(s, v) ==
  /\ v \in DOMAIN forwardingTableToVCC[s]
  /\ forwardingTableToVCC' = [forwardingTableToVCC EXCEPT ![s] = Erase(@, v)]
  /\ UNCHANGED <<neighbors, forwardingTableFromVCC, ads, subs>>

expireChild(s, c) ==
  /\ c \in DOMAIN forwardingTableFromVCC[s]
  /\ forwardingTableFromVCC' = [forwardingTableFromVCC EXCEPT ![s] = Erase(@, c)]
  /\ UNCHANGED <<neighbors, forwardingTableToVCC, ads, subs>>

expireNeighbor(s, p) ==
  /\ p \in DOMAIN neighbors[s]
  /\ neighbors' = [neighbors EXCEPT ![s] = Erase(@, p)]
  /\ UNCHANGED <<forwardingTableToVCC, forwardingTableFromVCC, ads, subs>>

lose ==
  /\ \/ ads' \in {ads \ {a} : a \in ads} /\ subs' = subs
     \/ subs' \in {subs \ {b} : b \in subs} /\ ads' = ads
  /\ UNCHANGED <<neighbors, forwardingTableToVCC, forwardingTableFromVCC>>

-----------------------------------------------------------------------------
(* The tree on its own.                                                    *)

Quiet == Cardinality(ads) + Cardinality(subs) <= MaxInFlight

Timers ==
  \/ \E v \in VCCs : Quiet /\ datasAd(v)
  \/ \E s \in Switches : Quiet /\ sendVCCAdandSubPackets(s)

Arrivals ==
  \/ \E m \in Macs : \E p \in Peers(m) : processHello(m, p)
  \/ \E a \in ads : processAD(a)
  \/ \E b \in subs : processSUBS(b)

Expiry ==
  \E s \in Switches :
     \/ \E v \in DOMAIN forwardingTableToVCC[s] : expireParent(s, v)
     \/ \E c \in DOMAIN forwardingTableFromVCC[s] : expireChild(s, c)
     \/ \E p \in DOMAIN neighbors[s] : expireNeighbor(s, p)

TreeNext == Timers \/ Arrivals \/ Expiry \/ lose

TreeSpec == TreeInit /\ [][TreeNext]_treevars

\* Paths are advertised every 25 s and kept for 60 s: as long as none expires.
SteadyTreeSpec ==
  TreeInit /\ [][TreeNext /\ ~ \E s \in Switches, v \in VCCs : expireParent(s, v)]_treevars

\* An advertisement of the parent's present path would refresh the path of s.
Refreshed(s, v) ==
  LET e == forwardingTableToVCC[s][v]
      q == e.ParentMac[1]
  IN  \/ e.ParentMac = v /\ q = s /\ e.hopsToVcc >= 1
      \/ /\ \E m \in Own(s) : e.ParentMac \in Peers(m)
         /\ v \in DOMAIN forwardingTableToVCC[q]
         /\ forwardingTableToVCC[q][v].hopsToVcc + 1 <= e.hopsToVcc

expireStale(s, v) == v \in DOMAIN forwardingTableToVCC[s] /\ ~ Refreshed(s, v) /\ expireParent(s, v)

\* Links have changed: the paths may be any, shorter than possible or through
\* neighbours that are gone.  From now on links stay and nothing is lost.
LeftOver(s) ==
  UNION {[D -> {e \in Parents : e.hopsToVcc <= MaxCost - 2}] : D \in SUBSET VCCs}

StaleInit ==
  /\ neighbors = [s \in Switches |->
       [p \in UNION {Peers(m) : m \in Own(s)} |-> CHOOSE m \in Own(s) : p \in Peers(m)]]
  /\ forwardingTableToVCC \in [Switches -> UNION {LeftOver(s) : s \in Switches}]
  /\ forwardingTableFromVCC = [s \in Switches |-> EmptyTable]
  /\ ads = {} /\ subs = {}

StaleSpec ==
  /\ StaleInit
  /\ [][Timers \/ Arrivals \/ \E s \in Switches, v \in VCCs : expireStale(s, v)]_treevars
  /\ \A v \in VCCs : SF_treevars(Quiet /\ datasAd(v))
  /\ \A s \in Switches : SF_treevars(Quiet /\ sendVCCAdandSubPackets(s))
  /\ WF_treevars(\E a \in ads : processAD(a))
  /\ WF_treevars(\E b \in subs : processSUBS(b))
  /\ \A s \in Switches, v \in VCCs : WF_treevars(expireStale(s, v))

-----------------------------------------------------------------------------
\* The paths of switch s.
Paths(s) == forwardingTableToVCC[s]

\* No path is shorter than the wires to the server, and none is advertised:
\* updateCostToVCC, whatever is lost, late or expired.
CostNotBelowDistance ==
  /\ \A s \in Switches : \A v \in DOMAIN Paths(s) : Paths(s)[v].hopsToVcc > Distance[v][s]
  /\ \A a \in ads : a.cost > Distance[a.vcc][a.shost[1]]

\* As long as no path expires the parent of a switch is nearer to the server
\* than the switch, so packets to the server never run in a circle.
ParentCloser ==
  \A s \in Switches : \A v \in DOMAIN Paths(s) \ Own(s) :
    LET q == Paths(s)[v].ParentMac[1]
    IN  v \in DOMAIN Paths(q) /\ Paths(q)[v].hopsToVcc < Paths(s)[v].hopsToVcc

\* Whatever links left behind: in the end every switch has a shortest path and
\* is subscribed at a switch that is nearer.
Stabilizes ==
  <>[](\A v \in VCCs, s \in Switches :
         /\ v \in DOMAIN Paths(s) /\ Paths(s)[v].hopsToVcc = Distance[v][s] + 1
         /\ v \in Own(s) \/ \E q \in Switches : /\ Distance[v][q] < Distance[v][s]
                                                /\ Own(s) \cap DOMAIN forwardingTableFromVCC[q] # {})
=============================================================================
