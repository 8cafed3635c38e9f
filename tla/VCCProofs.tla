----------------------------- MODULE VCCProofs ------------------------------
(***************************************************************************)
(* Theorems about SpanningTree, and about VCC, which extends it, for every *)
(* network.  The tree: what it keeps is well typed, no path is shorter     *)
(* than the wires allow, and, as long as no path expires, parents are      *)
(* nearer to the server.  The last two need that costs do not run over.    *)
(* The whole system implements its tree, so all this holds there too; all  *)
(* its state is well typed; and the server never believes in a link that   *)
(* is not there, whatever is lost, late, purged or expired.                *)
(*                                                                         *)
(* A link gets into the server's table from a report, and into the report  *)
(* from a neighbour table, maybe many expiries ago: both must be sound for *)
(* the server's table to stay so.                                          *)
(***************************************************************************)
EXTENDS VCC, TLAPS

LEMMA PutTable ==
  ASSUME NEW t, NEW K, NEW V, IsTable(t, K, V), NEW k \in K, NEW v \in V
  PROVE  IsTable(Put(t, k, v), K, V)
<1>1. DOMAIN Put(t, k, v) = DOMAIN t \cup {k}
  BY DEF Put
<1>2. DOMAIN t \cup {k} \subseteq K
  BY DEF IsTable
<1>3. Put(t, k, v) \in [DOMAIN t \cup {k} -> V]
  BY DEF Put, IsTable
<1> QED  BY <1>1, <1>2, <1>3 DEF IsTable

LEMMA EraseTable ==
  ASSUME NEW t, NEW K, NEW V, IsTable(t, K, V), NEW k
  PROVE  IsTable(Erase(t, k), K, V)
BY DEF IsTable, Erase

LEMMA NatMod ==
  ASSUME NEW c \in Nat, NEW m \in Nat, m >= 2
  PROVE  /\ c % m \in 0 .. m - 1
         /\ c < m => c % m = c
BY SMT

-----------------------------------------------------------------------------
(* Typing.                                                                 *)

LEMMA UpdateTyped ==
  ASSUME NEW t, IsTable(t, VCCs, Parents), NEW n \in Macs, NEW v \in VCCs, NEW c \in Cost
  PROVE  IsTable(updateCostToVCC(t, n, v, c), VCCs, Parents)
<1>1. [ParentMac |-> n, hopsToVcc |-> (c + 1) % CostMod] \in Parents
  <2>1. CostMod \in Nat /\ CostMod >= 2 /\ c + 1 \in Nat
    BY SpanningTreeAssumption DEF Cost
  <2>2. (c + 1) % CostMod \in Cost
    BY <2>1, NatMod DEF Cost
  <2> QED  BY <2>2 DEF Parents
<1> QED  BY <1>1, PutTable DEF updateCostToVCC

LEMMA InitTyped == TreeInit => TreeTypeOK
<1> SUFFICES ASSUME TreeInit PROVE TreeTypeOK
  OBVIOUS
<1>1. 1 \in Cost
  BY SpanningTreeAssumption DEF Cost
<1>2. ASSUME NEW s \in Switches PROVE IsTable(Configured(s), VCCs, Parents)
  BY <1>1, SpanningTreeAssumption DEF Configured, IsTable, Parents, Own
<1>3. ASSUME NEW K, NEW V PROVE IsTable(EmptyTable, K, V)
  BY DEF EmptyTable, IsTable
<1> QED  BY <1>2, <1>3 DEF TreeInit, TreeTypeOK

LEMMA NextTyped == TreeTypeOK /\ [TreeNext]_treevars => TreeTypeOK'
<1> SUFFICES ASSUME TreeTypeOK, [TreeNext]_treevars PROVE TreeTypeOK'
  OBVIOUS
<1> USE DEF TreeTypeOK
<1>1. CASE UNCHANGED treevars
  BY <1>1 DEF treevars
<1>2. ASSUME NEW v \in VCCs, datasAd(v) PROVE TreeTypeOK'
  <2>1. v \in Macs /\ v[1] \in Switches /\ 0 \in Cost
    BY SpanningTreeAssumption DEF Cost
  <2>2. IsTable(updateCostToVCC(forwardingTableToVCC[v[1]], v, v, 0), VCCs, Parents)
    BY <2>1, UpdateTyped
  <2> QED  BY <1>2, <2>1, <2>2 DEF datasAd
<1>3. ASSUME NEW s \in Switches, sendVCCAdandSubPackets(s) PROVE TreeTypeOK'
  <2>1. ads' \subseteq Ad
    <3>1. ASSUME NEW w \in Own(s) \X Macs \X DOMAIN forwardingTableToVCC[s]
          PROVE  [shost |-> w[1], to |-> w[2], vcc |-> w[3],
                  cost |-> forwardingTableToVCC[s][w[3]].hopsToVcc] \in Ad
      <4>1. forwardingTableToVCC[s][w[3]] \in Parents /\ w[3] \in VCCs
        BY DEF IsTable
      <4> QED  BY <4>1 DEF Ad, Parents, Own
    <3> QED  BY <1>3, <3>1 DEF sendVCCAdandSubPackets
  <2>2. subs' \subseteq Sub
    <3>1. ASSUME NEW w \in (DOMAIN forwardingTableToVCC[s] \ Own(s)) \X Macs,
                 forwardingTableToVCC[s][w[1]].ParentMac \in DOMAIN neighbors[s]
          PROVE  [shost |-> neighbors[s][forwardingTableToVCC[s][w[1]].ParentMac],
                  to |-> w[2], dhost |-> forwardingTableToVCC[s][w[1]].ParentMac,
                  vcc |-> w[1]] \in Sub
      <4>1. forwardingTableToVCC[s][w[1]].ParentMac \in Macs /\ w[1] \in VCCs
        BY DEF IsTable, Parents
      <4>2. neighbors[s][forwardingTableToVCC[s][w[1]].ParentMac] \in Macs
        BY <3>1 DEF IsTable, Own
      <4> QED  BY <4>1, <4>2 DEF Sub
    <3> QED  BY <1>3, <3>1 DEF sendVCCAdandSubPackets
  <2> QED  BY <1>3, <2>1, <2>2 DEF sendVCCAdandSubPackets
<1>4. ASSUME NEW m \in Macs, NEW p \in Peers(m), processHello(m, p) PROVE TreeTypeOK'
  <2>1. m[1] \in Switches /\ m \in Own(m[1]) /\ p \in Macs
    BY SpanningTreeAssumption DEF Own, Peers
  <2>2. IsTable(Put(neighbors[m[1]], p, m), Macs, Own(m[1]))
    BY <2>1, PutTable
  <2> QED  BY <1>4, <2>1, <2>2 DEF processHello
<1>5. ASSUME NEW a \in ads, processAD(a) PROVE TreeTypeOK'
  <2>1. a \in Ad /\ a.to[1] \in Switches
    BY SpanningTreeAssumption DEF Ad
  <2>2. IsTable(updateCostToVCC(forwardingTableToVCC[a.to[1]], a.shost, a.vcc, a.cost), VCCs, Parents)
    BY <2>1, UpdateTyped DEF Ad
  <2> QED  BY <1>5, <2>1, <2>2 DEF processAD
<1>6. ASSUME NEW b \in subs, processSUBS(b) PROVE TreeTypeOK'
  <2>1. b \in Sub /\ b.to[1] \in Switches
    BY SpanningTreeAssumption DEF Sub
  <2>2. IsTable(updateChild(forwardingTableFromVCC[b.to[1]], b.shost, b.vcc), Macs, VCCs)
    BY <2>1, PutTable DEF updateChild, Sub
  <2> QED  BY <1>6, <2>1, <2>2 DEF processSUBS
<1>7. CASE Expiry
  BY <1>7, EraseTable DEF Expiry, expireParent, expireChild, expireNeighbor
<1>8. CASE lose
  BY <1>8 DEF lose
<1> QED
  BY <1>1, <1>2, <1>3, <1>4, <1>5, <1>6, <1>7, <1>8 DEF TreeNext, Timers, Arrivals

\* What a switch keeps and what is under way is well typed, whatever comes
\* when: the handlers and timers of SpanningTree.
THEOREM TypeCorrect == TreeSpec => []TreeTypeOK
BY InitTyped, NextTyped, PTL DEF TreeSpec

-----------------------------------------------------------------------------
(* Costs.                                                                  *)

\* Advertisements travel over one wire and their costs have not run over.
AdsSound == \A a \in ads : a.to \in Peers(a.shost) /\ a.cost <= MaxCost

CostInv == TreeTypeOK /\ AdsSound /\ CostNotBelowDistance

LEMMA UpdateKeepsBound ==
  ASSUME MaxCost + 1 < CostMod,
         NEW t, IsTable(t, VCCs, Parents), NEW n \in Macs, NEW v \in VCCs,
         NEW c \in Cost, c <= MaxCost,
         NEW d \in [VCCs -> Nat], c + 1 > d[v],
         \A w \in DOMAIN t : t[w].hopsToVcc > d[w]
  PROVE  LET u == updateCostToVCC(t, n, v, c)
         IN  \A w \in DOMAIN u : u[w].hopsToVcc > d[w]
<1>1. CostMod \in Nat /\ CostMod >= 2 /\ MaxCost \in Nat /\ c + 1 \in Nat /\ c + 1 < CostMod
  BY SpanningTreeAssumption DEF Cost
<1>2. (c + 1) % CostMod = c + 1
  BY <1>1, NatMod
<1> QED  BY <1>2 DEF updateCostToVCC, Put

LEMMA InitCost == TreeInit => CostInv
<1> SUFFICES ASSUME TreeInit PROVE CostInv
  OBVIOUS
<1>1. TreeTypeOK
  BY InitTyped
<1>2. ASSUME NEW s \in Switches, NEW v \in DOMAIN Paths(s)
      PROVE  Paths(s)[v].hopsToVcc > Distance[v][s]
  <2>1. v \in VCCs /\ v[1] = s /\ Paths(s)[v].hopsToVcc = 1
    BY <1>2 DEF TreeInit, Paths, Configured, Own
  <2>2. Distance[v][s] = 0
    BY <2>1, SpanningTreeAssumption
  <2> QED  BY <2>1, <2>2
<1> QED  BY <1>1, <1>2 DEF CostInv, AdsSound, CostNotBelowDistance, TreeInit

LEMMA NextCost ==
  ASSUME MaxCost + 1 < CostMod
  PROVE  CostInv /\ [TreeNext]_treevars => CostInv'
<1> SUFFICES ASSUME CostInv, [TreeNext]_treevars PROVE CostInv'
  OBVIOUS
<1>0. TreeTypeOK'
  BY NextTyped DEF CostInv
<1> USE DEF AdsSound, CostNotBelowDistance, Paths
<1>1. CASE UNCHANGED treevars
  BY <1>0, <1>1 DEF CostInv, treevars
<1>2. ASSUME NEW v \in VCCs, datasAd(v) PROVE CostInv'
  <2>1. v[1] \in Switches /\ v \in Macs /\ 0 \in Cost /\ 0 <= MaxCost /\ Distance[v][v[1]] = 0
    BY SpanningTreeAssumption DEF Cost
  <2> DEFINE d == [w \in VCCs |-> Distance[w][v[1]]]
             t == forwardingTableToVCC[v[1]]
  <2>2. d \in [VCCs -> Nat] /\ d[v] = 0
    BY <2>1, SpanningTreeAssumption
  <2>3. IsTable(t, VCCs, Parents) /\ \A w \in DOMAIN t : t[w].hopsToVcc > d[w]
    BY <2>1 DEF CostInv, TreeTypeOK, IsTable
  <2>4. \A w \in DOMAIN updateCostToVCC(t, v, v, 0) :
           updateCostToVCC(t, v, v, 0)[w].hopsToVcc > d[w]
    <3> HIDE DEF d, t
    <3> QED  BY <2>1, <2>2, <2>3, UpdateKeepsBound
  <2>5. IsTable(updateCostToVCC(t, v, v, 0), VCCs, Parents)
    BY <2>1, <2>3, UpdateTyped
  <2>6. forwardingTableToVCC' = [forwardingTableToVCC EXCEPT ![v[1]] = updateCostToVCC(t, v, v, 0)]
        /\ ads' = ads
    BY <1>2 DEF datasAd
  <2>7. \A w \in DOMAIN updateCostToVCC(t, v, v, 0) :
           updateCostToVCC(t, v, v, 0)[w].hopsToVcc > Distance[w][v[1]]
    BY <2>4, <2>5 DEF IsTable
  <2> HIDE DEF d, t
  <2> QED  BY <1>0, <2>1, <2>6, <2>7 DEF CostInv, TreeTypeOK
<1>3. ASSUME NEW s \in Switches, sendVCCAdandSubPackets(s) PROVE CostInv'
  <2>1. ASSUME NEW w \in Own(s) \X Macs \X DOMAIN forwardingTableToVCC[s],
               w[2] \in Peers(w[1])
        PROVE  /\ w[1][1] = s
               /\ forwardingTableToVCC[s][w[3]].hopsToVcc <= MaxCost
               /\ forwardingTableToVCC[s][w[3]].hopsToVcc > Distance[w[3]][s]
    BY <1>3, <2>1 DEF sendVCCAdandSubPackets, CostInv, Own
  <2>2. \A a \in ads' : /\ a.to \in Peers(a.shost) /\ a.cost <= MaxCost
                        /\ a.cost > Distance[a.vcc][a.shost[1]]
    BY <1>3, <2>1 DEF sendVCCAdandSubPackets, CostInv
  <2>3. forwardingTableToVCC' = forwardingTableToVCC
    BY <1>3 DEF sendVCCAdandSubPackets
  <2> QED  BY <1>0, <2>2, <2>3 DEF CostInv
<1>4. ASSUME NEW m \in Macs, NEW p \in Peers(m), processHello(m, p) PROVE CostInv'
  BY <1>0, <1>4 DEF CostInv, processHello
<1>5. ASSUME NEW a \in ads, processAD(a) PROVE CostInv'
  <2> DEFINE q == a.to[1]
             d == [w \in VCCs |-> Distance[w][q]]
             t == forwardingTableToVCC[q]
             u == updateCostToVCC(t, a.shost, a.vcc, a.cost)
  <2>1. /\ a.shost \in Macs /\ a.to \in Macs /\ a.vcc \in VCCs /\ a.cost \in Cost
        /\ a.to \in Peers(a.shost) /\ a.cost <= MaxCost
        /\ a.cost > Distance[a.vcc][a.shost[1]]
    BY DEF CostInv, TreeTypeOK, Ad
  <2>2. q \in Switches /\ a.shost[1] \in Switches
    BY <2>1, SpanningTreeAssumption
  <2>3. d \in [VCCs -> Nat] /\ d[a.vcc] <= Distance[a.vcc][a.shost[1]] + 1
    BY <2>1, <2>2, SpanningTreeAssumption
  <2>4. d[a.vcc] \in Nat /\ Distance[a.vcc][a.shost[1]] \in Nat /\ a.cost \in Nat
    BY <2>1, <2>2, SpanningTreeAssumption DEF Cost
  <2>5. a.cost + 1 > d[a.vcc]
    <3> HIDE DEF d
    <3> QED  BY <2>1, <2>3, <2>4
  <2>6. IsTable(t, VCCs, Parents) /\ \A w \in DOMAIN t : t[w].hopsToVcc > d[w]
    BY <2>2 DEF CostInv, TreeTypeOK, IsTable
  <2>7. (\A w \in DOMAIN u : u[w].hopsToVcc > d[w]) /\ IsTable(u, VCCs, Parents)
    <3> HIDE DEF d, t, q
    <3> QED  BY <2>1, <2>3, <2>5, <2>6, UpdateKeepsBound, UpdateTyped
  <2>8. \A w \in DOMAIN u : u[w].hopsToVcc > Distance[w][q]
    BY <2>7 DEF IsTable
  <2>9. forwardingTableToVCC' = [forwardingTableToVCC EXCEPT ![q] = u] /\ ads' = ads \ {a}
    BY <1>5 DEF processAD
  <2> HIDE DEF d, t, q, u
  <2> QED  BY <1>0, <2>2, <2>8, <2>9 DEF CostInv, TreeTypeOK
<1>6. ASSUME NEW b \in subs, processSUBS(b) PROVE CostInv'
  BY <1>0, <1>6 DEF CostInv, processSUBS
<1>7. CASE Expiry
  <2>1. ASSUME NEW s \in Switches, NEW v \in DOMAIN forwardingTableToVCC[s], expireParent(s, v)
        PROVE  CostInv'
    BY <1>0, <2>1 DEF CostInv, TreeTypeOK, expireParent, Erase
  <2> QED  BY <1>0, <1>7, <2>1 DEF CostInv, Expiry, expireChild, expireNeighbor
<1>8. CASE lose
  BY <1>0, <1>8 DEF CostInv, lose
<1> QED
  BY <1>1, <1>2, <1>3, <1>4, <1>5, <1>6, <1>7, <1>8 DEF TreeNext, Timers, Arrivals

\* Whatever is lost, late or expired, updateCostToVCC never believes in a path
\* that is shorter than the wires to the server.
THEOREM NoPathTooShort ==
  ASSUME MaxCost + 1 < CostMod
  PROVE  TreeSpec => []CostNotBelowDistance
<1>1. TreeInit => CostInv
  BY InitCost
<1>2. CostInv /\ [TreeNext]_treevars => CostInv'
  BY NextCost
<1>3. CostInv => CostNotBelowDistance
  BY DEF CostInv
<1> QED  BY <1>1, <1>2, <1>3, PTL DEF TreeSpec

-----------------------------------------------------------------------------
(* The order of parents.                                                   *)

\* What was advertised still holds: without expiry paths only get shorter.
AdsBacked ==
  \A a \in ads : /\ a.vcc \in DOMAIN Paths(a.shost[1])
                 /\ Paths(a.shost[1])[a.vcc].hopsToVcc <= a.cost

OrderInv == CostInv /\ AdsBacked /\ ParentCloser

\* An update leaves other paths alone and makes its own no longer.
LEMMA UpdateShortens ==
  ASSUME MaxCost + 1 < CostMod,
         NEW t, IsTable(t, VCCs, Parents), NEW n \in Macs, NEW v \in VCCs,
         NEW c \in Cost, c <= MaxCost
  PROVE  LET u == updateCostToVCC(t, n, v, c)
         IN  /\ DOMAIN t \subseteq DOMAIN u
             /\ \A w \in DOMAIN t : u[w].hopsToVcc <= t[w].hopsToVcc
             /\ \A w \in DOMAIN u : w # v => w \in DOMAIN t /\ u[w] = t[w]
             /\ v \in DOMAIN u
             /\ \/ v \in DOMAIN t /\ u[v] = t[v]
                \/ u[v].ParentMac = n /\ u[v].hopsToVcc = c + 1
<1>1. CostMod \in Nat /\ CostMod >= 2 /\ MaxCost \in Nat /\ c + 1 \in Nat /\ c + 1 < CostMod
  BY SpanningTreeAssumption DEF Cost
<1>2. (c + 1) % CostMod = c + 1
  BY <1>1, NatMod
<1>3. \A w \in DOMAIN t : t[w].hopsToVcc \in Int
  BY <1>1 DEF IsTable, Parents, Cost
<1> QED  BY <1>1, <1>2, <1>3 DEF updateCostToVCC, Put

\* ParentCloser of the tables P.
Ordered(P) ==
  \A s \in Switches : \A v \in DOMAIN P[s] \ Own(s) :
    LET q == P[s][v].ParentMac[1]
    IN  v \in DOMAIN P[q] /\ P[q][v].hopsToVcc < P[s][v].hopsToVcc

\* If the paths of switch q become those of u, which only shortens them, and
\* the parent of what is new in u is nearer, then parents are still nearer.
LEMMA ReplaceOrdered ==
  ASSUME NEW P, DOMAIN P = Switches,
         \A s \in Switches : IsTable(P[s], VCCs, Parents),
         Ordered(P), NEW q \in Switches, NEW u, NEW v,
         IsTable(u, VCCs, Parents),
         DOMAIN P[q] \subseteq DOMAIN u,
         \A w \in DOMAIN P[q] : u[w].hopsToVcc <= P[q][w].hopsToVcc,
         \A w \in DOMAIN u : w # v => w \in DOMAIN P[q] /\ u[w] = P[q][w],
         \/ v \in DOMAIN P[q] /\ u[v] = P[q][v]
         \/ v \in Own(q)
         \/ /\ u[v].ParentMac[1] # q
            /\ v \in DOMAIN P[u[v].ParentMac[1]]
            /\ P[u[v].ParentMac[1]][v].hopsToVcc < u[v].hopsToVcc
  PROVE  Ordered([P EXCEPT ![q] = u])
<1> DEFINE R == [P EXCEPT ![q] = u]
<1>1. /\ \A s \in Switches : s # q => R[s] = P[s]
      /\ R[q] = u
  OBVIOUS
<1>2. \A s \in Switches : IsTable(R[s], VCCs, Parents)
  BY <1>1
<1> HIDE DEF R
<1>3. ASSUME NEW s \in Switches, NEW w \in DOMAIN P[s]
      PROVE  P[s][w].hopsToVcc \in Int /\ P[s][w].ParentMac[1] \in Switches
  BY SpanningTreeAssumption DEF IsTable, Parents, Cost
<1>4. ASSUME NEW s \in Switches, NEW w \in DOMAIN R[s]
      PROVE  R[s][w].hopsToVcc \in Int /\ R[s][w].ParentMac[1] \in Switches
  BY <1>2, SpanningTreeAssumption DEF IsTable, Parents, Cost
<1>5. ASSUME NEW r \in Switches, NEW w \in DOMAIN P[r]
      PROVE  w \in DOMAIN R[r] /\ R[r][w].hopsToVcc <= P[r][w].hopsToVcc
  <2>1. CASE r = q
    BY <1>1, <2>1
  <2>2. CASE r # q
    BY <1>1, <1>3, <2>2
  <2> QED  BY <2>1, <2>2
<1>6. ASSUME NEW s \in Switches, NEW w \in DOMAIN P[s], w \notin Own(s)
      PROVE  LET p == P[s][w].ParentMac[1]
             IN  w \in DOMAIN R[p] /\ R[p][w].hopsToVcc < P[s][w].hopsToVcc
  <2> DEFINE p == P[s][w].ParentMac[1]
  <2>1. p \in Switches /\ w \in DOMAIN P[p] /\ P[p][w].hopsToVcc < P[s][w].hopsToVcc
    BY <1>3, <1>6 DEF Ordered
  <2>2. P[s][w].hopsToVcc \in Int
    BY <1>3
  <2> HIDE DEF p
  <2>3. w \in DOMAIN R[p] /\ R[p][w].hopsToVcc <= P[p][w].hopsToVcc
    BY <1>5, <2>1
  <2>4. R[p][w].hopsToVcc \in Int /\ P[p][w].hopsToVcc \in Int
    BY <1>3, <1>4, <2>1, <2>3
  <2>5. R[p][w].hopsToVcc < P[s][w].hopsToVcc
    BY <2>1, <2>2, <2>3, <2>4
  <2> QED  BY <2>3, <2>5 DEF p
<1>7. ASSUME NEW s \in Switches, NEW w \in DOMAIN R[s], w \notin Own(s)
      PROVE  LET p == R[s][w].ParentMac[1]
             IN  w \in DOMAIN R[p] /\ R[p][w].hopsToVcc < R[s][w].hopsToVcc
  <2>1. CASE w \in DOMAIN P[s] /\ R[s][w] = P[s][w]
    BY <1>6, <1>7, <2>1
  <2>2. CASE ~ (w \in DOMAIN P[s] /\ R[s][w] = P[s][w])
    <3>1. s = q /\ w = v
      BY <1>1, <1>7, <2>2
    <3> DEFINE p == u[v].ParentMac[1]
    <3>2. p # q /\ v \in DOMAIN P[p] /\ P[p][v].hopsToVcc < u[v].hopsToVcc
      BY <1>1, <1>7, <2>2, <3>1
    <3>3. p \in Switches
      BY <1>1, <1>4, <1>7, <3>1
    <3>4. R[p] = P[p]
      BY <1>1, <3>2, <3>3
    <3> QED  BY <1>1, <3>1, <3>2, <3>4
  <2> QED  BY <2>1, <2>2
<1> QED  BY <1>7 DEF Ordered, R

LEMMA OrderedPaths == ParentCloser <=> Ordered(forwardingTableToVCC)
BY DEF ParentCloser, Ordered, Paths

LEMMA InitOrder == TreeInit => OrderInv
<1> SUFFICES ASSUME TreeInit PROVE OrderInv
  OBVIOUS
<1>1. CostInv
  BY InitCost
<1>2. \A s \in Switches : DOMAIN Paths(s) \subseteq Own(s)
  BY DEF TreeInit, Paths, Configured
<1> QED  BY <1>1, <1>2 DEF OrderInv, AdsBacked, ParentCloser, TreeInit

LEMMA NextOrder ==
  ASSUME MaxCost + 1 < CostMod
  PROVE  /\ OrderInv
         /\ [TreeNext /\ ~ \E s \in Switches, v \in VCCs : expireParent(s, v)]_treevars
         => OrderInv'
<1> SUFFICES ASSUME OrderInv,
                    [TreeNext /\ ~ \E s \in Switches, v \in VCCs : expireParent(s, v)]_treevars
             PROVE  OrderInv'
  OBVIOUS
<1>0. CostInv'
  BY NextCost DEF OrderInv
<1>a. /\ TreeTypeOK /\ AdsSound /\ DOMAIN forwardingTableToVCC = Switches
      /\ \A s \in Switches : IsTable(forwardingTableToVCC[s], VCCs, Parents)
  BY DEF OrderInv, CostInv, TreeTypeOK
\* A step that leaves the paths alone and sends nothing.
<1>b. ASSUME forwardingTableToVCC' = forwardingTableToVCC, ads' \subseteq ads PROVE OrderInv'
  BY <1>0, <1>b DEF OrderInv, AdsBacked, ParentCloser, Paths
\* A step that takes the path through n, at cost c, into the table of q.
<1>c. ASSUME NEW q \in Switches, NEW n \in Macs, NEW v \in VCCs, NEW c \in Cost, c <= MaxCost,
             forwardingTableToVCC' = [forwardingTableToVCC EXCEPT
                ![q] = updateCostToVCC(forwardingTableToVCC[q], n, v, c)],
             ads' \subseteq ads,
             \/ v \in Own(q)
             \/ /\ n[1] # q /\ v \in DOMAIN Paths(n[1])
                /\ Paths(n[1])[v].hopsToVcc <= c
      PROVE  OrderInv'
  <2> DEFINE t == forwardingTableToVCC[q]
             u == updateCostToVCC(t, n, v, c)
  <2>1. IsTable(t, VCCs, Parents) /\ IsTable(u, VCCs, Parents)
    BY <1>a, UpdateTyped
  <2>2. /\ DOMAIN t \subseteq DOMAIN u
        /\ \A w \in DOMAIN t : u[w].hopsToVcc <= t[w].hopsToVcc
        /\ \A w \in DOMAIN u : w # v => w \in DOMAIN t /\ u[w] = t[w]
        /\ v \in DOMAIN u
        /\ \/ v \in DOMAIN t /\ u[v] = t[v]
           \/ u[v].ParentMac = n /\ u[v].hopsToVcc = c + 1
    BY <1>c, <2>1, UpdateShortens
  <2>3. n[1] \in Switches /\ c \in Int
    BY SpanningTreeAssumption DEF Cost
  <2>4. v \in DOMAIN Paths(n[1]) => Paths(n[1])[v].hopsToVcc \in Int
    BY <1>a, <2>3, SpanningTreeAssumption DEF Paths, IsTable, Parents, Cost
  <2> HIDE DEF t, u
  <2>5. \/ v \in DOMAIN t /\ u[v] = t[v]
        \/ v \in Own(q)
        \/ /\ u[v].ParentMac[1] # q
           /\ v \in DOMAIN Paths(u[v].ParentMac[1])
           /\ Paths(u[v].ParentMac[1])[v].hopsToVcc < u[v].hopsToVcc
    BY <1>c, <2>2, <2>3, <2>4
  <2>6. forwardingTableToVCC' = [forwardingTableToVCC EXCEPT ![q] = u]
    BY <1>c DEF t, u
  <2>7. ParentCloser'
    <3>1. Ordered(forwardingTableToVCC)
      BY OrderedPaths DEF OrderInv
    <3>2. Ordered([forwardingTableToVCC EXCEPT ![q] = u])
      BY <1>a, <2>1, <2>2, <2>5, <3>1, ReplaceOrdered DEF t, Paths
    <3>3. Ordered(forwardingTableToVCC)'
      BY <2>6, <3>2 DEF Ordered
    <3> QED  BY <3>3, OrderedPaths, PTL
  <2>8. AdsBacked'
    <3>1. SUFFICES ASSUME NEW a \in ads
                   PROVE  /\ a.vcc \in DOMAIN forwardingTableToVCC'[a.shost[1]]
                          /\ forwardingTableToVCC'[a.shost[1]][a.vcc].hopsToVcc <= a.cost
      BY <1>c DEF AdsBacked, Paths
    <3>2. /\ a.vcc \in DOMAIN forwardingTableToVCC[a.shost[1]]
          /\ forwardingTableToVCC[a.shost[1]][a.vcc].hopsToVcc <= a.cost
          /\ a.shost[1] \in Switches /\ a.cost \in Int
      BY <1>a, SpanningTreeAssumption DEF OrderInv, AdsBacked, Paths, TreeTypeOK, Ad, Cost
    <3>3. CASE a.shost[1] # q
      BY <1>a, <2>6, <3>2, <3>3
    <3>4. CASE a.shost[1] = q
      <4>1. forwardingTableToVCC'[q] = u
        BY <1>a, <2>6
      <4>2. a.vcc \in DOMAIN t /\ t[a.vcc].hopsToVcc <= a.cost
        BY <3>2, <3>4 DEF t
      <4>3. a.vcc \in DOMAIN u /\ u[a.vcc].hopsToVcc <= t[a.vcc].hopsToVcc
        BY <2>2, <4>2
      <4>4. t[a.vcc].hopsToVcc \in Int /\ u[a.vcc].hopsToVcc \in Int
        BY <2>1, <4>2, <4>3, SpanningTreeAssumption DEF IsTable, Parents, Cost
      <4>5. u[a.vcc].hopsToVcc <= a.cost
        BY <3>2, <4>2, <4>3, <4>4
      <4> QED  BY <3>4, <4>1, <4>3, <4>5
    <3> QED  BY <3>3, <3>4
  <2> QED  BY <1>0, <2>7, <2>8 DEF OrderInv
<1>1. CASE UNCHANGED treevars
  BY <1>1, <1>b DEF treevars
<1>2. ASSUME NEW v \in VCCs, datasAd(v) PROVE OrderInv'
  <2>1. v[1] \in Switches /\ v \in Macs /\ v \in Own(v[1]) /\ 0 \in Cost /\ 0 <= MaxCost
    BY SpanningTreeAssumption DEF Cost, Own
  <2> QED  BY <1>2, <1>c, <2>1 DEF datasAd
<1>3. ASSUME NEW s \in Switches, sendVCCAdandSubPackets(s) PROVE OrderInv'
  <2>1. forwardingTableToVCC' = forwardingTableToVCC
    BY <1>3 DEF sendVCCAdandSubPackets
  <2>2. \A a \in ads' \ ads : /\ a.shost[1] = s /\ a.vcc \in DOMAIN forwardingTableToVCC[s]
                              /\ a.cost = forwardingTableToVCC[s][a.vcc].hopsToVcc
    BY <1>3 DEF sendVCCAdandSubPackets, Own
  <2>3. ASSUME NEW w \in DOMAIN forwardingTableToVCC[s]
        PROVE  forwardingTableToVCC[s][w].hopsToVcc \in Int
    BY <1>a, SpanningTreeAssumption DEF IsTable, Parents, Cost
  <2>4. AdsBacked'
    BY <2>1, <2>2, <2>3 DEF OrderInv, AdsBacked, Paths
  <2>5. ParentCloser'
    BY <2>1 DEF OrderInv, ParentCloser, Paths
  <2> QED  BY <1>0, <2>4, <2>5 DEF OrderInv
<1>4. ASSUME NEW m \in Macs, NEW p \in Peers(m), processHello(m, p) PROVE OrderInv'
  BY <1>4, <1>b DEF processHello
<1>5. ASSUME NEW a \in ads, processAD(a) PROVE OrderInv'
  <2>1. /\ a.shost \in Macs /\ a.to \in Macs /\ a.vcc \in VCCs /\ a.cost \in Cost
        /\ a.to \in Peers(a.shost) /\ a.cost <= MaxCost
    BY <1>a DEF TreeTypeOK, Ad, AdsSound
  <2>2. a.to[1] \in Switches /\ a.shost[1] # a.to[1]
    BY <2>1, SpanningTreeAssumption
  <2>3. a.vcc \in DOMAIN Paths(a.shost[1]) /\ Paths(a.shost[1])[a.vcc].hopsToVcc <= a.cost
    BY DEF OrderInv, AdsBacked
  <2> QED  BY <1>5, <1>c, <2>1, <2>2, <2>3 DEF processAD
<1>6. ASSUME NEW b \in subs, processSUBS(b) PROVE OrderInv'
  BY <1>6, <1>b DEF processSUBS
<1>7. CASE Expiry /\ ~ \E s \in Switches, v \in VCCs : expireParent(s, v)
  <2>1. forwardingTableToVCC' = forwardingTableToVCC /\ ads' = ads
    BY <1>7, <1>a DEF Expiry, expireChild, expireNeighbor, IsTable
  <2> QED  BY <1>b, <2>1
<1>8. CASE lose
  BY <1>8, <1>b DEF lose
<1> QED
  BY <1>1, <1>2, <1>3, <1>4, <1>5, <1>6, <1>7, <1>8 DEF TreeNext, Timers, Arrivals

\* As long as no path expires, the parent of every switch is nearer to the
\* server than the switch: packets to the server never run in a circle.
THEOREM NoCircles ==
  ASSUME MaxCost + 1 < CostMod
  PROVE  SteadyTreeSpec => []ParentCloser
<1>1. TreeInit => OrderInv
  BY InitOrder
<1>2. /\ OrderInv
      /\ [TreeNext /\ ~ \E s \in Switches, v \in VCCs : expireParent(s, v)]_treevars
      => OrderInv'
  BY NextOrder
<1>3. OrderInv => ParentCloser
  BY DEF OrderInv
<1> QED  BY <1>1, <1>2, <1>3, PTL DEF SteadyTreeSpec

-----------------------------------------------------------------------------
(* The system implements its tree.                                         *)

\* What each step of the system does to the tree.
LEMMA NextTree == [Next]_vars => [TreeNext]_treevars
<1> SUFFICES ASSUME [Next]_vars PROVE [TreeNext]_treevars
  OBVIOUS
<1>1. CASE UNCHANGED vars
  BY <1>1 DEF vars
<1>2. CASE AllTimers
  <2>1. ASSUME NEW v \in VCCs, AllQuiet, datasAd(v) PROVE TreeNext
    BY <2>1 DEF TreeNext, Timers, AllQuiet
  <2>2. ASSUME NEW s \in Switches, AllQuiet, run_timer(s) PROVE TreeNext
    BY <2>2 DEF TreeNext, Timers, AllQuiet, run_timer
  <2>3. ASSUME assignVIDs PROVE UNCHANGED treevars
    BY <2>3 DEF assignVIDs
  <2> QED  BY <1>2, <2>1, <2>2, <2>3 DEF AllTimers
<1>3. CASE AllArrivals
  BY <1>3 DEF AllArrivals, TreeNext, processLocalTopo, processSwitchVID
<1>4. CASE Faults
  BY <1>4 DEF Faults, TreeNext, age, losePacket
<1> QED  BY <1>1, <1>2, <1>3, <1>4 DEF Next

\* VCC implements SpanningTree: reports and VIDs never touch the tree.
THEOREM ImplementsTree == Spec => TreeSpec
<1>1. Init => TreeInit
  BY DEF Init
<1> QED  BY <1>1, NextTree, PTL DEF Spec, TreeSpec

-----------------------------------------------------------------------------
(* Typing.                                                                 *)

\* The type of what VCC adds to the tree.
ServerTypeOK ==
  /\ IsTable(networktopo, Macs, SUBSET Macs)
  /\ IsTable(lastNodeUpdateTime, Macs, {"recent", "old"})
  /\ IsTable(ether2vid, Macs, NodeVIDs)
  /\ IsTable(vids, Macs, NodeVIDs)
  /\ ltopos \subseteq LTopo /\ vidpackets \subseteq VIDMsg

LEMMA OwnMacs ==
  ASSUME NEW s PROVE Own(s) \subseteq Macs
BY DEF Own

LEMMA PeersMacs ==
  ASSUME NEW m PROVE Peers(m) \subseteq Macs
BY DEF Peers

\* Reports name interfaces only.
LEMMA ReportedMacs ==
  ASSUME TreeTypeOK, NEW m \in Macs
  PROVE  Reported(m) \subseteq Macs
<1>1. m[1] \in Switches
  BY SpanningTreeAssumption
<1> QED  BY <1>1, OwnMacs DEF Reported, TreeTypeOK, IsTable

LEMMA RecordTyped ==
  ASSUME ServerTypeOK, NEW r, DOMAIN r \subseteq Macs, \A m \in DOMAIN r : r[m] \subseteq Macs,
         Record(r)
  PROVE  /\ IsTable(networktopo, Macs, SUBSET Macs)'
         /\ IsTable(lastNodeUpdateTime, Macs, {"recent", "old"})'
<1>1. IsTable(networktopo, Macs, SUBSET Macs)'
  <2> DEFINE old  == DOMAIN networktopo \ DOMAIN r
             ends == UNION {r[m] : m \in DOMAIN r}
             back(p) == {m \in DOMAIN r : p \in r[m]}
             D == old \cup ends \cup {m \in DOMAIN r : r[m] # {}}
             N(p) == IF p \in DOMAIN r THEN r[p] \cup back(p)
                     ELSE IF p \in old THEN networktopo[p] \cup back(p) ELSE back(p)
  <2>1. networktopo' = [p \in D |-> N(p)]
    BY DEF Record
  <2>2. D \subseteq Macs
    BY DEF ServerTypeOK, IsTable
  <2>3. ASSUME NEW p \in D PROVE N(p) \in SUBSET Macs
    BY DEF ServerTypeOK, IsTable
  <2> HIDE DEF D, N
  <2> QED  BY <2>1, <2>2, <2>3 DEF IsTable
<1>2. IsTable(lastNodeUpdateTime, Macs, {"recent", "old"})'
  BY DEF Record, ServerTypeOK, IsTable
<1> QED  BY <1>1, <1>2

\* What is put on a wire.
LEMMA LTopoOnWire ==
  ASSUME NEW own, NEW l \in LTopo
  PROVE  OnWire(own, l) \subseteq LTopo
BY PeersMacs DEF OnWire, LTopo

LEMMA VIDOnWire ==
  ASSUME NEW own, NEW k \in VIDMsg
  PROVE  OnWire(own, k) \subseteq VIDMsg
BY PeersMacs DEF OnWire, VIDMsg

LEMMA ToChildrenTyped ==
  ASSUME TreeTypeOK, NEW s \in Switches, NEW k \in VIDMsg
  PROVE  ToChildren(s, k) \subseteq VIDMsg
<1>1. ASSUME NEW c \in DOMAIN forwardingTableFromVCC[s]
      PROVE  [k EXCEPT !.dhost = c] \in VIDMsg
  BY DEF TreeTypeOK, IsTable, VIDMsg
<1> QED  BY <1>1, VIDOnWire DEF ToChildren

LEMMA ServerSwitch == Server \in Switches /\ vccmac \in Macs
BY SpanningTreeAssumption, VCCAssumption DEF Server

LEMMA AssignTyped ==
  ASSUME TreeTypeOK, ServerTypeOK, assignVIDs
  PROVE  ServerTypeOK'
<1>1. PICK gone \in Purges :
         \E a \in Assignments(Symmetric(DOMAIN networktopo \ gone)) : performVIDAssignment(gone, a)
  BY DEF assignVIDs
<1> DEFINE g == Symmetric(DOMAIN networktopo \ gone)
<1>2. PICK a \in Assignments(g) : performVIDAssignment(gone, a)
  BY <1>1
<1>3. DOMAIN g \subseteq Macs
  BY DEF Symmetric, ServerTypeOK, IsTable
<1>4. IsTable(a, Macs, NodeVIDs)
  <2>1. CASE a = EmptyTable
    BY <2>1 DEF EmptyTable, IsTable
  <2>2. ASSUME NEW c, a = [m \in DOMAIN g |-> NodeVID(c, m)]
        PROVE  IsTable(a, Macs, NodeVIDs)
    <3>1. ASSUME NEW m PROVE NodeVID(c, m) \in NodeVIDs
      BY DEF NodeVID, NodeVIDs
    <3> HIDE DEF g
    <3> QED  BY <1>3, <2>2, <3>1 DEF IsTable
  <2> HIDE DEF g
  <2> QED  BY <1>2, <2>1, <2>2 DEF Assignments
<1> HIDE DEF g
<1>5. IsTable(ether2vid', Macs, NodeVIDs)
  BY <1>2, <1>4 DEF performVIDAssignment, ServerTypeOK, IsTable
<1>6. IsTable(networktopo', Macs, SUBSET Macs)
  BY <1>2 DEF performVIDAssignment, ServerTypeOK, IsTable
<1>7. IsTable(lastNodeUpdateTime', Macs, {"recent", "old"})
  BY <1>2 DEF performVIDAssignment, ServerTypeOK, IsTable
<1>8. IsTable(vids', Macs, NodeVIDs)
  BY <1>5 DEF assignVIDs, ServerTypeOK, IsTable
<1>9. vidpackets' \subseteq VIDMsg
  <2>1. ASSUME NEW m \in Macs, NEW v \in NodeVIDs PROVE Dispatched(m, v) \subseteq VIDMsg
    <3> DEFINE k == [to |-> m, dhost |-> m, dvid |-> m, vid |-> v, ttl |-> MAX_TTL]
    <3>1. k \in VIDMsg
      BY VCCAssumption DEF VIDMsg
    <3> HIDE DEF k
    <3>2. ToChildren(Server, k) \subseteq VIDMsg /\ \A own : OnWire(own, k) \subseteq VIDMsg
      BY <3>1, ToChildrenTyped, VIDOnWire, ServerSwitch
    <3> QED  BY <3>2 DEF Dispatched, k
  <2>2. \A m \in DOMAIN ether2vid' : m \in Macs /\ ether2vid'[m] \in NodeVIDs
    BY <1>5 DEF IsTable
  <2> QED  BY <2>1, <2>2 DEF assignVIDs, ServerTypeOK
<1> QED
  BY <1>5, <1>6, <1>7, <1>8, <1>9 DEF ServerTypeOK, assignVIDs

LEMMA RunTimerTyped ==
  ASSUME TreeTypeOK, ServerTypeOK, NEW s \in Switches, run_timer(s)
  PROVE  ServerTypeOK'
<1> DEFINE parent == Paths(s)[vccmac].ParentMac
<1>1. ASSUME NEW m \in Own(s) PROVE m \in Macs /\ Reported(m) \subseteq Macs
  BY <1>1, ReportedMacs, OwnMacs
<1>2. /\ IsTable(networktopo', Macs, SUBSET Macs)
      /\ IsTable(lastNodeUpdateTime', Macs, {"recent", "old"})
  <2>1. CASE Record([m \in Own(s) |-> Reported(m)])
    <3> DEFINE r == [m \in Own(s) |-> Reported(m)]
    <3>1. DOMAIN r \subseteq Macs /\ \A m \in DOMAIN r : r[m] \subseteq Macs
      BY <1>1, OwnMacs
    <3> HIDE DEF r
    <3>2. Record(r)
      BY <2>1 DEF r
    <3> QED  BY <3>1, <3>2, RecordTyped
  <2>2. CASE UNCHANGED <<networktopo, lastNodeUpdateTime>>
    BY <2>2 DEF ServerTypeOK, IsTable
  <2> QED  BY <2>1, <2>2 DEF run_timer, sendNeighborInfotoVCC
<1>3. ltopos' \subseteq LTopo
  <2>1. CASE vccmac \in DOMAIN Paths(s) /\ parent \in DOMAIN neighbors[s]
    <3>1. parent \in Macs
      BY <2>1 DEF TreeTypeOK, IsTable
    <3>2. ASSUME NEW m \in Own(s)
          PROVE  OnWire(neighbors[s][parent],
                   [to |-> parent, dhost |-> parent, svid |-> m,
                    neighbors |-> Reported(m), ttl |-> MAX_TTL]) \subseteq LTopo
      <4>1. [to |-> parent, dhost |-> parent, svid |-> m,
             neighbors |-> Reported(m), ttl |-> MAX_TTL] \in LTopo
        BY <1>1, <3>1, VCCAssumption DEF LTopo
      <4> QED  BY <4>1, LTopoOnWire
    <3> HIDE DEF parent
    <3> QED  BY <3>2 DEF run_timer, sendNeighborInfotoVCC, ServerTypeOK, parent
  <2>2. CASE ~ (vccmac \in DOMAIN Paths(s) /\ parent \in DOMAIN neighbors[s])
    BY <2>2 DEF run_timer, sendNeighborInfotoVCC, ServerTypeOK
  <2> QED  BY <2>1, <2>2
<1> QED  BY <1>2, <1>3 DEF run_timer, ServerTypeOK

\* A report as it is passed on.
LEMMA PassedOnTyped ==
  ASSUME TreeTypeOK, NEW l \in LTopo, NEW parent \in Macs, l.ttl >= 1
  PROVE  [l EXCEPT !.dhost = parent, !.ttl = @ - 1] \in LTopo
<1>1. l.ttl - 1 \in 0 .. MAX_TTL
  BY VCCAssumption DEF LTopo
<1>2. [l EXCEPT !.dhost = parent] \in LTopo
  BY DEF LTopo
<1> QED  BY <1>1, <1>2 DEF LTopo

LEMMA LocalTopoTyped ==
  ASSUME TreeTypeOK, ServerTypeOK, NEW l \in ltopos, processLocalTopo(l)
  PROVE  ServerTypeOK'
<1> DEFINE s == l.to[1]
           parent == Paths(s)[vccmac].ParentMac
<1>1. l \in LTopo /\ s \in Switches
  BY SpanningTreeAssumption DEF ServerTypeOK, LTopo
<1>2. /\ IsTable(networktopo', Macs, SUBSET Macs)
      /\ IsTable(lastNodeUpdateTime', Macs, {"recent", "old"})
  <2>1. CASE Record([m \in {l.svid} |-> l.neighbors])
    <3> DEFINE r == [m \in {l.svid} |-> l.neighbors]
    <3>1. DOMAIN r \subseteq Macs /\ \A m \in DOMAIN r : r[m] \subseteq Macs
      BY <1>1 DEF LTopo
    <3> HIDE DEF r
    <3>2. Record(r)
      BY <2>1 DEF r
    <3> QED  BY <3>1, <3>2, RecordTyped
  <2>2. CASE UNCHANGED <<networktopo, lastNodeUpdateTime>>
    BY <2>2 DEF ServerTypeOK, IsTable
  <2> QED  BY <2>1, <2>2 DEF processLocalTopo
<1>3. ltopos' \subseteq LTopo
  <2>1. CASE vccmac \in DOMAIN Paths(s) /\ l.ttl >= 1
    <3>1. parent \in Macs
      BY <1>1, <2>1 DEF TreeTypeOK, IsTable, Parents, Paths
    <3>2. OnWire(neighbors[s][parent], [l EXCEPT !.dhost = parent, !.ttl = @ - 1]) \subseteq LTopo
      BY <1>1, <2>1, <3>1, PassedOnTyped, LTopoOnWire
    <3> HIDE DEF parent, s
    <3> QED  BY <3>2 DEF processLocalTopo, ServerTypeOK, parent, s
  <2>2. CASE ~ (vccmac \in DOMAIN Paths(s) /\ l.ttl >= 1)
    BY <2>2 DEF processLocalTopo, ServerTypeOK
  <2> QED  BY <2>1, <2>2
<1> QED  BY <1>2, <1>3 DEF processLocalTopo, ServerTypeOK

LEMMA SwitchVIDTyped ==
  ASSUME TreeTypeOK, ServerTypeOK, NEW k \in vidpackets, processSwitchVID(k)
  PROVE  ServerTypeOK'
<1> DEFINE s == k.to[1]
           sent == [k EXCEPT !.ttl = @ - 1]
<1>1. k \in VIDMsg /\ s \in Switches
  BY SpanningTreeAssumption DEF ServerTypeOK, VIDMsg
<1>2. IsTable(vids', Macs, NodeVIDs)
  <2>1. IsTable(Put(vids, k.dvid, k.vid), Macs, NodeVIDs)
    BY <1>1, PutTable DEF ServerTypeOK, VIDMsg
  <2> QED  BY <2>1 DEF processSwitchVID, ServerTypeOK
<1>3. k.ttl >= 1 => ToChildren(s, sent) \subseteq VIDMsg
  <2> SUFFICES ASSUME k.ttl >= 1 PROVE ToChildren(s, sent) \subseteq VIDMsg
    OBVIOUS
  <2>1. sent \in VIDMsg
    BY <1>1, VCCAssumption DEF VIDMsg
  <2> HIDE DEF s, sent
  <2> QED  BY <1>1, <2>1, ToChildrenTyped
<1>4. vidpackets' \subseteq VIDMsg
  <2> HIDE DEF sent
  <2> QED  BY <1>3 DEF processSwitchVID, ServerTypeOK, sent
<1>5. UNCHANGED <<networktopo, lastNodeUpdateTime, ether2vid, ltopos>>
  BY DEF processSwitchVID, servervars
<1> QED  BY <1>2, <1>4, <1>5 DEF ServerTypeOK, IsTable

LEMMA NextServerTyped == TreeTypeOK /\ ServerTypeOK /\ [Next]_vars => ServerTypeOK'
<1> SUFFICES ASSUME TreeTypeOK, ServerTypeOK, [Next]_vars PROVE ServerTypeOK'
  OBVIOUS
<1>1. ASSUME UNCHANGED <<servervars, vids, ltopos, vidpackets>> PROVE ServerTypeOK'
  BY <1>1 DEF servervars, ServerTypeOK, IsTable
<1>2. CASE UNCHANGED vars
  BY <1>1, <1>2 DEF vars
<1>3. CASE AllTimers
  BY <1>1, <1>3, RunTimerTyped, AssignTyped DEF AllTimers
<1>4. CASE AllArrivals
  BY <1>1, <1>4, LocalTopoTyped, SwitchVIDTyped DEF AllArrivals
<1>5. ASSUME NEW m \in DOMAIN lastNodeUpdateTime, age(m) PROVE ServerTypeOK'
  <2>1. IsTable(lastNodeUpdateTime', Macs, {"recent", "old"})
    BY <1>5 DEF age, ServerTypeOK, IsTable
  <2> QED  BY <1>5, <2>1 DEF age, ServerTypeOK
<1>6. CASE losePacket
  BY <1>6 DEF losePacket, servervars, ServerTypeOK, IsTable
<1>7. CASE Faults
  BY <1>1, <1>5, <1>6, <1>7 DEF Faults
<1> QED  BY <1>2, <1>3, <1>4, <1>7 DEF Next

LEMMA InitServerTyped == Init => ServerTypeOK
BY DEF Init, ServerTypeOK, EmptyTable, IsTable

LEMMA TreeTyped == Spec => []TreeTypeOK
BY ImplementsTree, TypeCorrect, PTL

\* All state of the system, the packets under way included, is well typed:
\* the handlers of VCC and of SpanningTree together.
THEOREM SystemTypeCorrect == Spec => []TypeOK
<1>1. TreeTypeOK /\ ServerTypeOK => TypeOK
  BY DEF ServerTypeOK, TypeOK
<1> QED  BY TreeTyped, InitServerTyped, NextServerTyped, <1>1, PTL DEF Spec

\* A step of the system without faults lets no path expire.
LEMMA SteadyTree ==
  TreeTypeOK /\ [AllTimers \/ AllArrivals]_vars
  => [TreeNext /\ ~ \E s \in Switches, v \in VCCs : expireParent(s, v)]_treevars
<1> SUFFICES ASSUME TreeTypeOK, [AllTimers \/ AllArrivals]_vars
             PROVE  \/ TreeNext /\ ~ \E s \in Switches, v \in VCCs : expireParent(s, v)
                    \/ UNCHANGED treevars
  OBVIOUS
<1> DEFINE kept == \A s \in Switches : DOMAIN forwardingTableToVCC[s]
                                         \subseteq DOMAIN forwardingTableToVCC'[s]
<1>1. TreeNext \/ UNCHANGED treevars
  BY NextTree DEF Next
<1>2. ASSUME NEW t, NEW n, NEW v, NEW c
      PROVE  DOMAIN t \subseteq DOMAIN updateCostToVCC(t, n, v, c)
  BY DEF updateCostToVCC, Put
<1>3. ASSUME NEW v \in VCCs, datasAd(v) PROVE kept
  BY <1>2, <1>3 DEF datasAd, TreeTypeOK
<1>4. ASSUME NEW a \in ads, processAD(a) PROVE kept
  BY <1>2, <1>4 DEF processAD, TreeTypeOK
<1>5. ASSUME UNCHANGED forwardingTableToVCC PROVE kept
  BY <1>5
<1> HIDE DEF kept
<1>6. kept
  BY <1>3, <1>4, <1>5 DEF AllTimers, AllArrivals, Arrivals, run_timer, sendVCCAdandSubPackets,
     assignVIDs, processHello, processSUBS, processLocalTopo, processSwitchVID, vars, treevars
<1>7. ASSUME NEW s \in Switches, NEW v \in VCCs, expireParent(s, v) PROVE FALSE
  BY <1>6, <1>7 DEF expireParent, Erase, TreeTypeOK, kept
<1> QED  BY <1>1, <1>7

\* What NoPathTooShort says of the tree holds of the whole system.
THEOREM SystemPathsSound ==
  ASSUME MaxCost + 1 < CostMod
  PROVE  Spec => []CostNotBelowDistance
BY ImplementsTree, NoPathTooShort, PTL

\* What NoCircles says of the tree holds of the whole system: without faults
\* the reports of sendNeighborInfotoVCC come nearer to the server at each
\* switch that processLocalTopo passes them through.
THEOREM ReportsApproach ==
  ASSUME MaxCost + 1 < CostMod
  PROVE  SteadySpec => []ParentCloser
<1>1. [AllTimers \/ AllArrivals]_vars => [Next]_vars
  BY DEF Next
<1>2. SteadySpec => Spec
  BY <1>1, PTL DEF SteadySpec, Spec
<1>3. Init => TreeInit
  BY DEF Init
<1>4. SteadySpec => SteadyTreeSpec
  BY TreeTyped, SteadyTree, <1>2, <1>3, PTL DEF SteadySpec, SteadyTreeSpec
<1> QED  BY <1>4, NoCircles, PTL

-----------------------------------------------------------------------------
(* Soundness.                                                              *)

\* A neighbour is one on the wire of the interface it was heard on.
NeighborsSound ==
  \A s \in Switches : \A p \in DOMAIN neighbors[s] : p \in Peers(neighbors[s][p])

\* A report under way lists interfaces its subject is joined to.
ReportsSound == \A l \in ltopos : \A p \in l.neighbors : Adjacent(l.svid, p)

SoundInv == NeighborsSound /\ ReportsSound /\ TopologySound

LEMMA AdjacentSymmetric ==
  ASSUME NEW m \in Macs, NEW p \in Macs, Adjacent(m, p)
  PROVE  Adjacent(p, m)
<1>1. {m, p} = {p, m}
  OBVIOUS
<1> QED  BY <1>1 DEF Adjacent, Peers

LEMMA ReportedSound ==
  ASSUME TreeTypeOK, NeighborsSound, NEW m \in Macs, NEW p \in Reported(m)
  PROVE  Adjacent(m, p)
<1>1. m[1] \in Switches
  BY SpanningTreeAssumption
<1>2. CASE p \in Own(m[1]) \ {m}
  BY <1>2 DEF Own, Adjacent
<1>3. CASE p \in DOMAIN neighbors[m[1]] /\ neighbors[m[1]][p] = m
  BY <1>1, <1>3 DEF NeighborsSound, Adjacent
<1> QED  BY <1>2, <1>3 DEF Reported

\* A sound report keeps the server's table sound, in both directions.
LEMMA RecordSound ==
  ASSUME TopologySound, NEW r, DOMAIN r \subseteq Macs,
         \A m \in DOMAIN r : r[m] \subseteq Macs /\ \A p \in r[m] : Adjacent(m, p),
         Record(r)
  PROVE  TopologySound'
<1> DEFINE old  == DOMAIN networktopo \ DOMAIN r
           ends == UNION {r[m] : m \in DOMAIN r}
           back(p) == {m \in DOMAIN r : p \in r[m]}
           D == old \cup ends \cup {m \in DOMAIN r : r[m] # {}}
           N(p) == IF p \in DOMAIN r THEN r[p] \cup back(p)
                   ELSE IF p \in old THEN networktopo[p] \cup back(p) ELSE back(p)
<1>1. networktopo' = [p \in D |-> N(p)]
  BY DEF Record
<1>2. ASSUME NEW p, NEW q \in back(p) PROVE Adjacent(p, q)
  BY AdjacentSymmetric
<1>3. ASSUME NEW p \in D, NEW q \in N(p) PROVE Adjacent(p, q)
  <2>1. CASE q \in back(p)
    BY <1>2, <2>1
  <2>2. CASE q \notin back(p) /\ p \in DOMAIN r
    BY <1>3, <2>2
  <2>3. CASE q \notin back(p) /\ p \notin DOMAIN r
    BY <1>3, <2>3 DEF TopologySound
  <2> QED  BY <2>1, <2>2, <2>3
<1> HIDE DEF D, N
<1>4. \A m, p : Adjacent(m, p)' <=> Adjacent(m, p)
  BY DEF Adjacent
<1> QED  BY <1>1, <1>3, <1>4 DEF TopologySound

LEMMA NextSound == TreeTypeOK /\ ServerTypeOK /\ SoundInv /\ [Next]_vars => SoundInv'
<1> SUFFICES ASSUME TreeTypeOK, ServerTypeOK, SoundInv, [Next]_vars PROVE SoundInv'
  OBVIOUS
<1> USE DEF SoundInv
<1>a. ASSUME UNCHANGED neighbors PROVE NeighborsSound'
  BY <1>a DEF NeighborsSound
<1>b. ASSUME UNCHANGED <<ltopos, networktopo>> PROVE ReportsSound' /\ TopologySound'
  BY <1>b DEF ReportsSound, TopologySound, Adjacent
<1>1. CASE UNCHANGED vars
  BY <1>1, <1>a, <1>b DEF vars, treevars, servervars
<1>2. ASSUME NEW v \in VCCs, datasAd(v), UNCHANGED <<servervars, ltopos>> PROVE SoundInv'
  BY <1>2, <1>a, <1>b DEF datasAd, servervars
<1>3. ASSUME NEW s \in Switches, run_timer(s) PROVE SoundInv'
  <2> DEFINE parent == Paths(s)[vccmac].ParentMac
  <2>1. ASSUME NEW m \in Own(s)
        PROVE  m \in Macs /\ Reported(m) \subseteq Macs /\ \A p \in Reported(m) : Adjacent(m, p)
    BY <2>1, ReportedMacs, ReportedSound, OwnMacs
  <2>2. TopologySound'
    <3>1. CASE Record([m \in Own(s) |-> Reported(m)])
      <4> DEFINE r == [m \in Own(s) |-> Reported(m)]
      <4>1. /\ DOMAIN r \subseteq Macs
            /\ \A m \in DOMAIN r : r[m] \subseteq Macs /\ \A p \in r[m] : Adjacent(m, p)
        BY <2>1, OwnMacs
      <4> HIDE DEF r
      <4>2. Record(r)
        BY <3>1 DEF r
      <4> QED  BY <4>1, <4>2, RecordSound
    <3>2. CASE UNCHANGED networktopo
      BY <3>2 DEF TopologySound, Adjacent
    <3> QED  BY <1>3, <3>1, <3>2 DEF run_timer, sendNeighborInfotoVCC
  <2>3. ReportsSound'
    <3> DEFINE report(m) == [to |-> parent, dhost |-> parent, svid |-> m,
                             neighbors |-> Reported(m), ttl |-> MAX_TTL]
               sent(m) == OnWire(neighbors[s][parent], report(m))
    <3>1. ASSUME NEW m \in Own(s), NEW l \in sent(m)
          PROVE  l.svid = m /\ l.neighbors = Reported(m)
      BY <3>1 DEF OnWire
    <3>2. ASSUME NEW l \in ltopos', l \notin ltopos
          PROVE  \E m \in Own(s) : l.svid = m /\ l.neighbors = Reported(m)
      <4>1. ltopos' = ltopos \/ ltopos' = ltopos \cup UNION {sent(m) : m \in Own(s)}
        BY <1>3, Zenon DEF run_timer, sendNeighborInfotoVCC
      <4> HIDE DEF sent
      <4>2. PICK m \in Own(s) : l \in sent(m)
        BY <3>2, <4>1
      <4> QED  BY <3>1, <4>2
    <3>3. ASSUME NEW l \in ltopos', NEW p \in l.neighbors PROVE Adjacent(l.svid, p)
      BY <2>1, <3>2, <3>3 DEF ReportsSound
    <3> QED  BY <3>3 DEF ReportsSound, Adjacent
  <2> QED  BY <1>3, <1>a, <2>2, <2>3 DEF run_timer, sendVCCAdandSubPackets
<1>4. CASE assignVIDs
  <2>1. \A m \in DOMAIN networktopo' : m \in DOMAIN networktopo /\ networktopo'[m] = networktopo[m]
    BY <1>4 DEF assignVIDs, performVIDAssignment
  <2>2. UNCHANGED <<neighbors, ltopos>>
    BY <1>4 DEF assignVIDs, treevars
  <2> QED  BY <1>a, <2>1, <2>2 DEF ReportsSound, TopologySound, Adjacent
<1>5. CASE Arrivals /\ UNCHANGED <<servervars, ltopos>>
  <2>1. ASSUME NEW m \in Macs, NEW p \in Peers(m), processHello(m, p) PROVE NeighborsSound'
    <3>1. m[1] \in Switches
      BY SpanningTreeAssumption
    <3>2. neighbors' = [neighbors EXCEPT ![m[1]] = Put(neighbors[m[1]], p, m)]
      BY <2>1 DEF processHello
    <3> QED  BY <2>1, <3>1, <3>2 DEF NeighborsSound, Put, TreeTypeOK
  <2>2. ASSUME NEW a \in ads, processAD(a) PROVE NeighborsSound'
    BY <1>a, <2>2 DEF processAD
  <2>3. ASSUME NEW b \in subs, processSUBS(b) PROVE NeighborsSound'
    BY <1>a, <2>3 DEF processSUBS
  <2> QED  BY <1>5, <1>b, <2>1, <2>2, <2>3 DEF Arrivals, servervars
<1>6. ASSUME NEW l \in ltopos, processLocalTopo(l) PROVE SoundInv'
  <2>0. l \in LTopo /\ \A p \in l.neighbors : Adjacent(l.svid, p)
    BY DEF ServerTypeOK, ReportsSound
  <2>1. TopologySound'
    <3>1. CASE Record([m \in {l.svid} |-> l.neighbors])
      <4> DEFINE r == [m \in {l.svid} |-> l.neighbors]
      <4>1. /\ DOMAIN r \subseteq Macs
            /\ \A m \in DOMAIN r : r[m] \subseteq Macs /\ \A p \in r[m] : Adjacent(m, p)
        BY <2>0 DEF LTopo
      <4> HIDE DEF r
      <4>2. Record(r)
        BY <3>1 DEF r
      <4> QED  BY <4>1, <4>2, RecordSound
    <3>2. CASE UNCHANGED networktopo
      BY <3>2 DEF TopologySound, Adjacent
    <3> QED  BY <1>6, <3>1, <3>2 DEF processLocalTopo
  <2>2. ASSUME NEW k \in ltopos', k \notin ltopos
        PROVE  k.svid = l.svid /\ k.neighbors = l.neighbors
    <3>1. PICK own, parent : k \in OnWire(own, [l EXCEPT !.dhost = parent, !.ttl = @ - 1])
      BY <1>6, <2>2 DEF processLocalTopo
    <3>2. PICK p : k = [[l EXCEPT !.dhost = parent, !.ttl = @ - 1] EXCEPT !.to = p]
      BY <3>1 DEF OnWire
    <3> QED  BY <2>0, <3>2 DEF LTopo
  <2>3. ReportsSound'
    BY <2>0, <2>2 DEF ReportsSound, Adjacent
  <2> QED  BY <1>6, <1>a, <2>1, <2>3 DEF processLocalTopo, treevars
<1>7. ASSUME NEW k \in vidpackets, processSwitchVID(k) PROVE SoundInv'
  BY <1>7, <1>a, <1>b DEF processSwitchVID, treevars, servervars
<1>8. CASE (Expiry \/ lose) /\ UNCHANGED <<servervars, ltopos>>
  <2>1. ASSUME NEW s \in Switches, NEW p, expireNeighbor(s, p) PROVE NeighborsSound'
    BY <2>1 DEF expireNeighbor, NeighborsSound, Erase, TreeTypeOK
  <2>2. ASSUME NEW s \in Switches, NEW c, expireParent(s, c) \/ expireChild(s, c)
        PROVE  NeighborsSound'
    BY <1>a, <2>2 DEF expireParent, expireChild
  <2>3. ASSUME lose PROVE NeighborsSound'
    BY <1>a, <2>3 DEF lose
  <2> QED  BY <1>8, <1>b, <2>1, <2>2, <2>3 DEF Expiry, servervars
<1>9. ASSUME NEW m, age(m) PROVE SoundInv'
  BY <1>9, <1>a, <1>b DEF age, treevars
<1>10. CASE losePacket
  <2>1. ltopos' \subseteq ltopos /\ UNCHANGED <<neighbors, networktopo>>
    BY <1>10 DEF losePacket, treevars, servervars
  <2> QED  BY <1>a, <2>1 DEF ReportsSound, TopologySound, Adjacent
<1> QED
  BY <1>1, <1>2, <1>3, <1>4, <1>5, <1>6, <1>7, <1>8, <1>9, <1>10
     DEF Next, AllTimers, AllArrivals, Faults

\* The server's topology holds only links of the network: the reports of
\* sendNeighborInfotoVCC, passed on by processLocalTopo and recorded by
\* addAnEdge, are never wrong, only incomplete or old.
THEOREM NoFalseLinks == Spec => []TopologySound
<1>1. Init => SoundInv
  BY DEF Init, TreeInit, EmptyTable, SoundInv, NeighborsSound, ReportsSound, TopologySound
<1>2. Spec => []ServerTypeOK
  BY TreeTyped, InitServerTyped, NextServerTyped, PTL DEF Spec
<1>3. SoundInv => TopologySound
  BY DEF SoundInv
<1> QED  BY TreeTyped, NextSound, <1>1, <1>2, <1>3, PTL DEF Spec
=============================================================================
