-------------------------- MODULE HostTableProofs --------------------------
(***************************************************************************)
(* The host table keeps its tables and timers in step, for any sets of     *)
(* addresses, interfaces and host numbers.  Uniqueness of host VIDs is not *)
(* inductive on its own: a fresh VID is one that is absent from hosts, so  *)
(* it is fresh for the IPs only because hosts and iphosts list the same    *)
(* VIDs (TablesAgree), and expire keeps them in step only because a timer  *)
(* carries the VID its host has now (OneTimerPerHost).                     *)
(***************************************************************************)
EXTENDS HostTable, WellFoundedInduction, TLAPS

IInv == TypeOK /\ HostVIDsUnique /\ TablesAgree /\ OneTimerPerHost

LEMMA LeastExists ==
  ASSUME NEW S \in SUBSET Nat, S # {}
  PROVE  \E k \in S : \A i \in S : k <= i
<1>1. PICK m \in S : \A y \in S : ~ (<<y, m>> \in OpToRel(<, Nat))
  BY NatLessThanWellFounded, WFMin
<1>2. ASSUME NEW y \in S PROVE m <= y
  <2>1. ~ (y < m)
    BY <1>1 DEF OpToRel
  <2> QED BY <2>1
<1> QED BY <1>2

\* The linear search ends on a free number whenever there is one, wherever it
\* starts.
LEMMA FirstFreeIsFree ==
  ASSUME NEW h, NEW svid, NEW start \in Ids, FreeIds(h, svid) # {}
  PROVE  FirstFree(h, svid, start) \in FreeIds(h, svid)
<1> DEFINE F == FreeIds(h, svid)
           D == {d \in Ids : (start + d) % NumIds \in F}
           dist == CHOOSE d \in Ids : /\ (start + d) % NumIds \in F
                                      /\ \A e \in Ids : (start + e) % NumIds \in F => d <= e
<1>1. PICK id \in Ids : id \in F
  BY DEF FreeIds
<1>2. D # {}
  <2>1. CASE id >= start
    <3>1. id - start \in Ids /\ start + (id - start) = id
      BY <2>1, NumIdsAssumption DEF Ids
    <3>2. id % NumIds = id
      BY NumIdsAssumption DEF Ids
    <3> QED BY <1>1, <3>1, <3>2
  <2>2. CASE id < start
    <3>1. id - start + NumIds \in Ids /\ start + (id - start + NumIds) = id + NumIds
      BY <2>2, NumIdsAssumption DEF Ids
    <3>2. (id + NumIds) % NumIds = id
      BY NumIdsAssumption, Z3 DEF Ids
    <3> QED BY <1>1, <3>1, <3>2
  <2> QED BY <2>1, <2>2, NumIdsAssumption DEF Ids
<1>3. D \in SUBSET Nat
  BY NumIdsAssumption DEF Ids
<1>4. \E d \in D : \A e \in D : d <= e
  BY <1>2, <1>3, LeastExists
<1>5. (start + dist) % NumIds \in F
  BY <1>4
<1> QED BY <1>5 DEF FirstFree

-----------------------------------------------------------------------------
(* The invariant as a statement about five table values, so that it can be *)
(* followed through the intermediate tables of generate_host_vid.          *)

Entries == [interfaceid : Ports, expiry : Timers]

Typed(h, r, p, n, t) ==
  /\ IsTable(h, HostVIDs, MACs) /\ IsTable(r, MACs, HostVIDs)
  /\ IsTable(p, IPs, HostVIDs) /\ IsTable(n, IPs, Entries)
  /\ t \subseteq Timers

Good(h, r, p, n, t) ==
  /\ Typed(h, r, p, n, t)
  /\ \A a, b \in DOMAIN p : p[a] = p[b] => a = b
  /\ DOMAIN n = DOMAIN p
  /\ DOMAIN h = {p[ip] : ip \in DOMAIN p}
  /\ t = {n[ip].expiry : ip \in DOMAIN n}
  /\ \A ip \in DOMAIN n : n[ip].expiry = [ip |-> ip, hostvid |-> p[ip]]

LEMMA IInvIsGood ==
  IInv <=> Good(hosts, rhosts, iphosts, inthosts, timers) /\ running \in BOOLEAN
BY DEF IInv, Good, Typed, Entries, TypeOK, HostVIDsUnique, TablesAgree, OneTimerPerHost

\* Erasing an IP with its VID and its timer; what happens to rhosts does not
\* matter as long as it stays a table.
LEMMA EraseGood ==
  ASSUME NEW h, NEW r, NEW p, NEW n, NEW t, Good(h, r, p, n, t),
         NEW ip \in DOMAIN n, NEW r2, IsTable(r2, MACs, HostVIDs)
  PROVE  Good(Erase(h, p[ip]), r2, Erase(p, ip), Erase(n, ip), t \ {n[ip].expiry})
<1> DEFINE h2 == Erase(h, p[ip])
           p2 == Erase(p, ip)
           n2 == Erase(n, ip)
           t2 == t \ {n[ip].expiry}
<1>0. ip \in DOMAIN p
  BY DEF Good
<1>1. Typed(h2, r2, p2, n2, t2)
  BY DEF Good, Typed, IsTable, Erase
<1>2. DOMAIN p2 = DOMAIN p \ {ip} /\ \A a \in DOMAIN p2 : p2[a] = p[a]
  BY DEF Erase
<1>3. DOMAIN n2 = DOMAIN n \ {ip} /\ \A a \in DOMAIN n2 : n2[a] = n[a]
  BY DEF Erase
<1>4. DOMAIN h2 = DOMAIN h \ {p[ip]}
  BY DEF Erase
<1>5. DOMAIN h2 = {p2[a] : a \in DOMAIN p2}
  BY <1>0, <1>2, <1>4 DEF Good
<1>6. \A a, b \in DOMAIN n : a # b => n[a].expiry # n[b].expiry
  <2> SUFFICES ASSUME NEW a \in DOMAIN n, NEW b \in DOMAIN n, n[a].expiry = n[b].expiry
               PROVE  a = b
    OBVIOUS
  <2>1. n[a].expiry = [ip |-> a, hostvid |-> p[a]] /\ n[b].expiry = [ip |-> b, hostvid |-> p[b]]
    BY DEF Good
  <2>2. [ip |-> a, hostvid |-> p[a]].ip = [ip |-> b, hostvid |-> p[b]].ip
    BY <2>1
  <2> QED BY <2>2
<1>7. t2 = {n2[a].expiry : a \in DOMAIN n2}
  BY <1>3, <1>6 DEF Good
<1>8. \A a \in DOMAIN n2 : n2[a].expiry = [ip |-> a, hostvid |-> p2[a]]
  BY <1>2, <1>3 DEF Good
<1> HIDE DEF h2, p2, n2, t2
<1>9. Good(h2, r2, p2, n2, t2)
  BY <1>1, <1>2, <1>3, <1>5, <1>7, <1>8 DEF Good
<1> QED BY <1>9 DEF h2, p2, n2, t2

\* Adding an absent IP with a VID that hosts does not list.
LEMMA AddGood ==
  ASSUME NEW h, NEW r, NEW p, NEW n, NEW t, Good(h, r, p, n, t),
         NEW ip \in IPs, NEW mac \in MACs, NEW port \in Ports, NEW vid \in HostVIDs,
         ip \notin DOMAIN n, vid \notin DOMAIN h, NEW timer,
         timer = [ip |-> ip, hostvid |-> vid]
  PROVE  Good(Put(h, vid, mac), Put(r, mac, vid), Put(p, ip, vid),
              Put(n, ip, [interfaceid |-> port, expiry |-> timer]), t \cup {timer})
<1> DEFINE entry == [interfaceid |-> port, expiry |-> timer]
           h2 == Put(h, vid, mac)
           r2 == Put(r, mac, vid)
           p2 == Put(p, ip, vid)
           n2 == Put(n, ip, entry)
           t2 == t \cup {timer}
<1>0. timer \in Timers /\ entry \in Entries /\ entry.expiry = timer
  BY DEF Timers, Entries
<1> HIDE DEF entry
<1>1. Typed(h2, r2, p2, n2, t2)
  <2>1. IsTable(h2, HostVIDs, MACs)
    BY DEF Good, Typed, IsTable, Put
  <2>2. IsTable(r2, MACs, HostVIDs)
    BY DEF Good, Typed, IsTable, Put
  <2>3. IsTable(p2, IPs, HostVIDs)
    BY DEF Good, Typed, IsTable, Put
  <2>4. IsTable(n2, IPs, Entries)
    BY <1>0 DEF Good, Typed, IsTable, Put
  <2>5. t2 \subseteq Timers
    BY <1>0 DEF Good, Typed
  <2> HIDE DEF h2, r2, p2, n2, t2
  <2> QED BY <2>1, <2>2, <2>3, <2>4, <2>5 DEF Typed
<1>2. /\ DOMAIN p2 = DOMAIN p \cup {ip} /\ p2[ip] = vid
      /\ \A a \in DOMAIN p : p2[a] = p[a]
  BY DEF Put, Good
<1>3. /\ DOMAIN n2 = DOMAIN n \cup {ip} /\ n2[ip] = entry
      /\ \A a \in DOMAIN n : n2[a] = n[a]
  BY DEF Put
<1>4. DOMAIN h2 = DOMAIN h \cup {vid}
  BY DEF Put
<1> HIDE DEF h2, r2, p2, n2, t2
<1>5. DOMAIN h2 = {p2[a] : a \in DOMAIN p2}
  BY <1>2, <1>4 DEF Good
<1>6. ASSUME NEW a \in DOMAIN p2, NEW b \in DOMAIN p2, p2[a] = p2[b] PROVE a = b
  BY <1>2, <1>6 DEF Good
<1>7. t2 = {n2[a].expiry : a \in DOMAIN n2}
  BY <1>0, <1>3 DEF Good, t2
<1>8. \A a \in DOMAIN n2 : n2[a].expiry = [ip |-> a, hostvid |-> p2[a]]
  BY <1>0, <1>2, <1>3 DEF Good
<1>9. DOMAIN n2 = DOMAIN p2
  BY <1>2, <1>3 DEF Good
<1>10. Good(h2, r2, p2, n2, t2)
  BY <1>1, <1>5, <1>6, <1>7, <1>8, <1>9 DEF Good
<1> QED BY <1>10 DEF h2, r2, p2, n2, t2, entry

LEMMA EraseTable ==
  ASSUME NEW t, NEW K, NEW V, IsTable(t, K, V), NEW k
  PROVE  IsTable(Erase(t, k), K, V)
BY DEF IsTable, Erase

\* generate_host_vid's removal of the old mapping, whether there is one or
\* not.
LEMMA WithoutGood ==
  ASSUME IInv, NEW ip \in IPs, NEW mac \in MACs
  PROVE  /\ Good(WithoutHosts(ip), WithoutRhosts(ip, mac), WithoutIphosts(ip),
                 WithoutInthosts(ip), WithoutTimer(ip))
         /\ ip \notin DOMAIN WithoutInthosts(ip)
<1>1. Good(hosts, rhosts, iphosts, inthosts, timers)
  BY IInvIsGood
<1>2. CASE ip \in DOMAIN inthosts
  <2>1. IsTable(Erase(rhosts, mac), MACs, HostVIDs)
    BY <1>1, EraseTable DEF Good, Typed
  <2>2. Good(Erase(hosts, iphosts[ip]), Erase(rhosts, mac), Erase(iphosts, ip),
             Erase(inthosts, ip), timers \ {inthosts[ip].expiry})
    BY <1>1, <1>2, <2>1, EraseGood
  <2>3. ip \notin DOMAIN Erase(inthosts, ip)
    BY DEF Erase
  <2> QED BY <1>2, <2>2, <2>3 DEF WithoutHosts, WithoutRhosts, WithoutIphosts,
                                  WithoutInthosts, WithoutTimer
<1>3. CASE ip \notin DOMAIN inthosts
  BY <1>1, <1>3 DEF WithoutHosts, WithoutRhosts, WithoutIphosts,
                    WithoutInthosts, WithoutTimer
<1> QED BY <1>2, <1>3

\* What expire and deleteIP do to the tables of a known host.
LEMMA DropGood ==
  ASSUME IInv, NEW ip \in DOMAIN inthosts, DropVid(ip),
         timers' = timers \ {inthosts[ip].expiry}, UNCHANGED running
  PROVE  IInv'
<1>1. Good(hosts, rhosts, iphosts, inthosts, timers) /\ running \in BOOLEAN
  BY IInvIsGood
<1>2. IsTable(rhosts', MACs, HostVIDs)
  BY <1>1, EraseTable DEF DropVid, Good, Typed
<1>3. Good(hosts', rhosts', iphosts', inthosts', timers')
  <2>1. Good(Erase(hosts, iphosts[ip]), rhosts', Erase(iphosts, ip),
             Erase(inthosts, ip), timers \ {inthosts[ip].expiry})
    BY <1>1, <1>2, EraseGood
  <2> QED BY <2>1 DEF DropVid
<1>4. IInv <=> Good(hosts, rhosts, iphosts, inthosts, timers) /\ running \in BOOLEAN
  BY IInvIsGood
<1> QED BY <1>1, <1>3 DEF IInv, Good, Typed, Entries, TypeOK, HostVIDsUnique,
                          TablesAgree, OneTimerPerHost

-----------------------------------------------------------------------------
LEMMA InitIInv == Init => IInv
BY DEF Init, IInv, TypeOK, HostVIDsUnique, TablesAgree, OneTimerPerHost, IsTable, EmptyTable

\* The primed form of IInvIsGood.
LEMMA GoodIsIInv ==
  ASSUME Good(hosts', rhosts', iphosts', inthosts', timers'), running' \in BOOLEAN
  PROVE  IInv'
BY DEF IInv, Good, Typed, Entries, TypeOK, HostVIDsUnique, TablesAgree, OneTimerPerHost

LEMMA NextIInv == IInv /\ [Next]_vars => IInv'
<1> SUFFICES ASSUME IInv, [Next]_vars PROVE IInv'
  OBVIOUS
<1>0. Good(hosts, rhosts, iphosts, inthosts, timers) /\ running \in BOOLEAN
  BY IInvIsGood
<1>1. ASSUME NEW vid \in HostVIDs, NEW mac \in MACs, NEW ip \in IPs, NEW port \in Ports,
             cp_host(vid, mac, ip, port)
      PROVE  IInv'
  <2>1. Good(hosts', rhosts', iphosts', inthosts', timers')
    BY <1>0, <1>1, AddGood DEF cp_host, updateEntry
  <2> QED BY <1>0, <1>1, <2>1, GoodIsIInv DEF cp_host
<1>2. CASE configured
  BY <1>0, <1>2, GoodIsIInv DEF configured, tables
<1>3. ASSUME NEW ip \in IPs, NEW mac \in MACs, NEW port \in Ports, NEW svid \in SwitchVIDs,
             generate_host_vid(ip, mac, port, svid)
      PROVE  IInv'
  <2>1. CASE refreshHost(ip, mac, port, svid)
    <3>1. ip \in DOMAIN iphosts
      BY <2>1 DEF refreshHost, Unmoved
    <3>2. iphosts[ip] \in HostVIDs /\ iphosts[ip] \in DOMAIN hosts
      BY <1>0, <3>1 DEF Good, Typed, IsTable
    <3>3. /\ IsTable(hosts', HostVIDs, MACs) /\ DOMAIN hosts' = DOMAIN hosts
          /\ IsTable(rhosts', MACs, HostVIDs)
      BY <1>0, <2>1, <3>2 DEF refreshHost, Put, IsTable, Good, Typed
    <3>4. UNCHANGED <<iphosts, inthosts, timers, running>>
      BY <2>1 DEF refreshHost
    <3>5. Good(hosts', rhosts', iphosts', inthosts', timers')
      BY <1>0, <3>3, <3>4 DEF Good, Typed
    <3> QED BY <1>0, <3>4, <3>5, GoodIsIInv
  <2>2. ASSUME NEW start \in Ids, assignHost(ip, mac, port, svid, start)
        PROVE  IInv'
    <3> DEFINE h == WithoutHosts(ip)
               r == WithoutRhosts(ip, mac)
               p == WithoutIphosts(ip)
               n == WithoutInthosts(ip)
               t == WithoutTimer(ip)
               vid == <<svid, FirstFree(h, svid, start)>>
    <3>1. Good(h, r, p, n, t) /\ ip \notin DOMAIN n
      BY WithoutGood
    <3>2. FirstFree(h, svid, start) \in FreeIds(h, svid)
      BY <2>2, FirstFreeIsFree DEF assignHost
    <3>3. vid \in HostVIDs /\ vid \notin DOMAIN h
      BY <3>2 DEF FreeIds, HostVIDs
    <3>4. updateEntry(h, r, p, n, t, vid, mac, ip, port) /\ UNCHANGED running
      BY <2>2 DEF assignHost
    <3> HIDE DEF h, r, p, n, t, vid
    <3>5. Good(hosts', rhosts', iphosts', inthosts', timers')
      BY <3>1, <3>3, <3>4, AddGood DEF updateEntry
    <3> QED BY <1>0, <3>4, <3>5, GoodIsIInv
  <2>3. CASE exhausted(ip, mac, port, svid)
    <3>1. Good(hosts', rhosts', iphosts', inthosts', timers')
      BY <2>3, WithoutGood DEF exhausted
    <3> QED BY <1>0, <2>3, <3>1, GoodIsIInv DEF exhausted
  <2> QED BY <1>3, <2>1, <2>2, <2>3 DEF generate_host_vid
<1>4. ASSUME NEW t \in timers, expire(t)
      PROVE  IInv'
  <2>1. PICK ip \in DOMAIN inthosts : t = inthosts[ip].expiry
    BY <1>0 DEF Good
  <2>a. t = [ip |-> ip, hostvid |-> iphosts[ip]] /\ ip \in DOMAIN iphosts
    BY <1>0, <2>1 DEF Good
  <2>2. t.ip = ip /\ t.hostvid = iphosts[ip] /\ ip \in DOMAIN iphosts
    BY <2>a
  <2>3. DropVid(ip) /\ timers' = timers \ {inthosts[ip].expiry} /\ UNCHANGED running
    BY <1>4, <2>1, <2>2 DEF expire
  <2> QED BY <2>3, DropGood
<1>5. ASSUME NEW ip \in IPs, deleteIP(ip)
      PROVE  IInv'
  <2>1. ip \in DOMAIN inthosts /\ ip \in DOMAIN iphosts
    BY <1>0, <1>5 DEF deleteIP, Good
  <2>2. DropVid(ip) /\ timers' = timers \ {inthosts[ip].expiry} /\ UNCHANGED running
    BY <1>5, <2>1 DEF deleteIP
  <2> QED BY <2>1, <2>2, DropGood
<1>6. CASE UNCHANGED vars
  BY <1>0, <1>6, GoodIsIInv DEF vars
<1> QED BY <1>1, <1>2, <1>3, <1>4, <1>5, <1>6 DEF Next

LEMMA SpecIInv == Spec => []IInv
BY InitIInv, NextIInv, PTL DEF Spec

-----------------------------------------------------------------------------
\* The host table is well typed at all times.
THEOREM TypeCorrect == Spec => []TypeOK
<1>1. IInv => TypeOK
  BY DEF IInv
<1> QED BY <1>1, SpecIInv, PTL

\* No two hosts of a switch ever have the same VID.
THEOREM UniqueHostVIDs == Spec => []HostVIDsUnique
<1>1. IInv => HostVIDsUnique
  BY DEF IInv
<1> QED BY <1>1, SpecIInv, PTL

\* IPs with an interface, IPs with a VID and VIDs with a MAC are the same
\* hosts.
THEOREM TablesInStep == Spec => []TablesAgree
<1>1. IInv => TablesAgree
  BY DEF IInv
<1> QED BY <1>1, SpecIInv, PTL

\* Each host has one running timer, for its current VID.
THEOREM TimersInStep == Spec => []OneTimerPerHost
<1>1. IInv => OneTimerPerHost
  BY DEF IInv
<1> QED BY <1>1, SpecIInv, PTL

\* A host that stays at its interface, which keeps its VID, keeps its VID.
THEOREM StableHostVIDs == Spec => HostKeepsVID
<1> DEFINE Stays(ip) == /\ ip \in DOMAIN iphosts /\ ip \in DOMAIN iphosts'
                        /\ ip \in DOMAIN inthosts /\ ip \in DOMAIN inthosts'
                        /\ inthosts'[ip].interfaceid = inthosts[ip].interfaceid
                        /\ iphosts'[ip][1] = iphosts[ip][1]
           Keeps == \A ip \in IPs : Stays(ip) => iphosts'[ip] = iphosts[ip]
<1>1. ASSUME IInv, Next PROVE Keeps
  <2> SUFFICES ASSUME NEW ip \in IPs, Stays(ip) PROVE iphosts'[ip] = iphosts[ip]
    OBVIOUS
  <2>1. ASSUME NEW vid \in HostVIDs, NEW mac \in MACs, NEW i \in IPs, NEW port \in Ports,
               cp_host(vid, mac, i, port)
        PROVE  iphosts'[ip] = iphosts[ip]
    BY <2>1 DEF cp_host, updateEntry, Put
  <2>2. CASE configured
    BY <2>2 DEF configured, tables
  <2>3. ASSUME NEW i \in IPs, NEW mac \in MACs, NEW port \in Ports, NEW svid \in SwitchVIDs,
               generate_host_vid(i, mac, port, svid)
        PROVE  iphosts'[ip] = iphosts[ip]
    <3>1. CASE refreshHost(i, mac, port, svid)
      BY <3>1 DEF refreshHost
    <3>2. ASSUME NEW start \in Ids, assignHost(i, mac, port, svid, start)
          PROVE  iphosts'[ip] = iphosts[ip]
      <4> DEFINE vid == <<svid, FirstFree(WithoutHosts(i), svid, start)>>
                 e == [interfaceid |-> port, expiry |-> [ip |-> i, hostvid |-> vid]]
      <4>1. /\ iphosts' = Put(WithoutIphosts(i), i, vid)
            /\ inthosts' = Put(WithoutInthosts(i), i, e)
            /\ ~ Unmoved(i, port, svid)
        BY <3>2 DEF assignHost, updateEntry
      <4>2. vid[1] = svid /\ e.interfaceid = port
        OBVIOUS
      <4> HIDE DEF vid, e
      <4>3. CASE i = ip
        <5>1. iphosts'[ip] = vid /\ inthosts'[ip] = e
          BY <4>1, <4>3 DEF Put
        <5>2. Unmoved(i, port, svid)
          BY <4>2, <4>3, <5>1 DEF Unmoved
        <5> QED BY <4>1, <5>2
      <4>4. CASE i # ip
        BY <4>1, <4>4 DEF Put, Erase, WithoutIphosts
      <4> QED BY <4>3, <4>4
    <3>3. CASE exhausted(i, mac, port, svid)
      BY <3>3 DEF exhausted, WithoutIphosts, Erase
    <3> QED BY <2>3, <3>1, <3>2, <3>3 DEF generate_host_vid
  <2>4. ASSUME NEW t \in timers, expire(t)
        PROVE  iphosts'[ip] = iphosts[ip]
    BY <2>4 DEF expire, DropVid, Erase
  <2>5. ASSUME NEW i \in IPs, deleteIP(i)
        PROVE  iphosts'[ip] = iphosts[ip]
    BY <2>5 DEF deleteIP, DropVid, Erase
  <2> QED BY <1>1, <2>1, <2>2, <2>3, <2>4, <2>5 DEF Next
<1>2. IInv /\ [Next]_vars => [Keeps]_vars
  BY <1>1
<1> QED BY <1>2, SpecIInv, PTL DEF Spec, HostKeepsVID

-----------------------------------------------------------------------------
(* The tables implement HostRegistry.  A step that adds, changes or drops  *)
(* the entry of one IP leaves the lease of every other IP alone: its VID   *)
(* is another one (HostVIDsUnique), so its entry in hosts is another one.  *)

Leases(h, p, n) == [ip \in DOMAIN n |-> [vid |-> p[ip], mac |-> h[p[ip]],
                                         interfaceid |-> n[ip].interfaceid]]

\* Adding an absent IP with a VID that hosts does not list adds its lease.
LEMMA AddLease ==
  ASSUME NEW h, NEW r, NEW p, NEW n, NEW t, Good(h, r, p, n, t),
         NEW ip, NEW mac, NEW port, NEW vid, NEW e,
         ip \notin DOMAIN n, vid \notin DOMAIN h, e.interfaceid = port
  PROVE  Leases(Put(h, vid, mac), Put(p, ip, vid), Put(n, ip, e))
           = Put(Leases(h, p, n), ip, [vid |-> vid, mac |-> mac, interfaceid |-> port])
<1> DEFINE h2 == Put(h, vid, mac)
           p2 == Put(p, ip, vid)
           n2 == Put(n, ip, e)
           L  == Leases(h, p, n)
           new == [vid |-> vid, mac |-> mac, interfaceid |-> port]
<1>1. DOMAIN n2 = DOMAIN n \cup {ip} /\ n2[ip] = e /\ p2[ip] = vid /\ h2[vid] = mac
  BY DEF Put
<1>2. ASSUME NEW a \in DOMAIN n PROVE n2[a] = n[a] /\ p2[a] = p[a] /\ h2[p2[a]] = h[p[a]]
  <2>1. a \in DOMAIN p /\ a # ip /\ p[a] \in DOMAIN h /\ p[a] # vid
    BY DEF Good
  <2> QED BY <2>1 DEF Put
<1>3. DOMAIN L = DOMAIN n /\ \A a \in DOMAIN n :
        L[a] = [vid |-> p[a], mac |-> h[p[a]], interfaceid |-> n[a].interfaceid]
  BY DEF Leases
<1> HIDE DEF h2, p2, n2, L
<1>4. Leases(h2, p2, n2) = Put(L, ip, new)
  BY <1>1, <1>2, <1>3 DEF Leases, Put
<1> QED BY <1>4 DEF h2, p2, n2, L

\* Erasing an IP with its VID erases its lease.
LEMMA EraseLease ==
  ASSUME NEW h, NEW r, NEW p, NEW n, NEW t, Good(h, r, p, n, t), NEW ip \in DOMAIN n
  PROVE  Leases(Erase(h, p[ip]), Erase(p, ip), Erase(n, ip)) = Erase(Leases(h, p, n), ip)
<1> DEFINE h2 == Erase(h, p[ip])
           p2 == Erase(p, ip)
           n2 == Erase(n, ip)
<1>1. DOMAIN n2 = DOMAIN n \ {ip}
  BY DEF Erase
<1>2. ASSUME NEW a \in DOMAIN n2 PROVE n2[a] = n[a] /\ p2[a] = p[a] /\ h2[p2[a]] = h[p[a]]
  <2>1. a \in DOMAIN n /\ a # ip
    BY <1>1
  <2>2. a \in DOMAIN p /\ ip \in DOMAIN p /\ p[a] \in DOMAIN h /\ p[a] # p[ip]
    BY <2>1 DEF Good
  <2> QED BY <2>1, <2>2 DEF Erase
<1> HIDE DEF h2, p2, n2
<1>3. Leases(h2, p2, n2) = Erase(Leases(h, p, n), ip)
  BY <1>1, <1>2 DEF Leases, Erase
<1> QED BY <1>3 DEF h2, p2, n2

LEMMA LeasesHeld ==
  /\ leasesHeld = Leases(hosts, iphosts, inthosts)
  /\ leasesHeld' = Leases(hosts', iphosts', inthosts')
BY DEF leasesHeld, Leases

\* The old mapping that generate_host_vid removes is one lease, or none.
LEMMA WithoutLease ==
  ASSUME IInv, NEW ip \in IPs
  PROVE  Leases(WithoutHosts(ip), WithoutIphosts(ip), WithoutInthosts(ip))
           = IF ip \in DOMAIN inthosts THEN Erase(leasesHeld, ip) ELSE leasesHeld
<1>1. Good(hosts, rhosts, iphosts, inthosts, timers)
  BY IInvIsGood
<1>2. CASE ip \in DOMAIN inthosts
  BY <1>1, <1>2, EraseLease, LeasesHeld DEF WithoutHosts, WithoutIphosts, WithoutInthosts
<1>3. CASE ip \notin DOMAIN inthosts
  BY <1>3, LeasesHeld DEF WithoutHosts, WithoutIphosts, WithoutInthosts
<1> QED BY <1>2, <1>3

\* expire and deleteIP end the lease of a known host.
LEMMA DropLease ==
  ASSUME IInv, NEW ip \in DOMAIN inthosts, DropVid(ip)
  PROVE  Registry!Next
<1>1. Good(hosts, rhosts, iphosts, inthosts, timers)
  BY IInvIsGood
<1>2. leasesHeld' = Erase(leasesHeld, ip)
  BY <1>1, EraseLease, LeasesHeld DEF DropVid
<1>3. ip \in IPs /\ ip \in DOMAIN leasesHeld
  BY <1>1 DEF Good, Typed, IsTable, leasesHeld
<1> QED BY <1>2, <1>3 DEF Registry!Next, Registry!Forget, Registry!Erase, Erase

LEMMA SameLeases ==
  ASSUME UNCHANGED <<hosts, iphosts, inthosts>>
  PROVE  UNCHANGED leasesHeld
BY LeasesHeld

LEMMA StepIsRegistryStep ==
  ASSUME IInv, [Next]_vars
  PROVE  Registry!Next \/ UNCHANGED leasesHeld
<1>0. Good(hosts, rhosts, iphosts, inthosts, timers) /\ running \in BOOLEAN
  BY IInvIsGood
<1>a. DOMAIN leasesHeld = DOMAIN inthosts
  BY DEF leasesHeld
<1>b. \A a \in DOMAIN inthosts :
         /\ a \in DOMAIN iphosts /\ iphosts[a] \in DOMAIN hosts
         /\ leasesHeld[a].vid = iphosts[a]
         /\ leasesHeld[a].interfaceid = inthosts[a].interfaceid
  BY <1>0 DEF leasesHeld, Good
<1>1. ASSUME NEW vid \in HostVIDs, NEW mac \in MACs, NEW ip \in IPs, NEW port \in Ports,
             cp_host(vid, mac, ip, port)
      PROVE  Registry!Next
  <2> DEFINE lease == [vid |-> vid, mac |-> mac, interfaceid |-> port]
             e == [interfaceid |-> port, expiry |-> [ip |-> ip, hostvid |-> vid]]
  <2>1. /\ hosts' = Put(hosts, vid, mac) /\ iphosts' = Put(iphosts, ip, vid)
        /\ inthosts' = Put(inthosts, ip, e)
        /\ ip \notin DOMAIN inthosts /\ vid \notin DOMAIN hosts
    BY <1>1 DEF cp_host, updateEntry
  <2>2. e.interfaceid = port /\ lease \in Registry!Lease /\ lease.vid = vid
    BY DEF Registry!Lease
  <2> HIDE DEF e
  <2>3. leasesHeld' = Put(leasesHeld, ip, lease)
    BY <1>0, <2>1, <2>2, AddLease, LeasesHeld
  <2> HIDE DEF lease
  <2>4. Registry!Grant(ip, lease)
    BY <1>a, <1>b, <2>1, <2>2, <2>3 DEF Registry!Grant, Registry!Put, Put
  <2> QED BY <2>2, <2>4 DEF Registry!Next
<1>2. CASE configured
  BY <1>2, SameLeases DEF configured, tables
<1>3. ASSUME NEW ip \in IPs, NEW mac \in MACs, NEW port \in Ports, NEW svid \in SwitchVIDs,
             generate_host_vid(ip, mac, port, svid)
      PROVE  Registry!Next \/ UNCHANGED leasesHeld
  <2>1. CASE refreshHost(ip, mac, port, svid)
    <3>1. ip \in DOMAIN iphosts /\ ip \in DOMAIN inthosts
      BY <2>1 DEF refreshHost, Unmoved
    <3>2. /\ hosts' = Put(hosts, iphosts[ip], mac)
          /\ iphosts' = iphosts /\ inthosts' = inthosts
      BY <2>1 DEF refreshHost
    <3>3. /\ hosts'[iphosts[ip]] = mac
          /\ \A a \in DOMAIN inthosts : a # ip => hosts'[iphosts[a]] = hosts[iphosts[a]]
      BY <1>0, <3>1, <3>2 DEF Good, Put
    <3>4. leasesHeld' = [leasesHeld EXCEPT ![ip].mac = mac]
      BY <3>1, <3>2, <3>3 DEF leasesHeld
    <3>5. Registry!Relearn(ip, mac)
      BY <1>a, <3>1, <3>4 DEF Registry!Relearn
    <3> QED BY <3>5 DEF Registry!Next
  <2>2. ASSUME NEW start \in Ids, assignHost(ip, mac, port, svid, start)
        PROVE  Registry!Next
    <3> DEFINE h == WithoutHosts(ip)
               p == WithoutIphosts(ip)
               n == WithoutInthosts(ip)
               t == WithoutTimer(ip)
               r == WithoutRhosts(ip, mac)
               vid == <<svid, FirstFree(h, svid, start)>>
               lease == [vid |-> vid, mac |-> mac, interfaceid |-> port]
               e == [interfaceid |-> port, expiry |-> [ip |-> ip, hostvid |-> vid]]
    <3>1. Good(h, r, p, n, t) /\ ip \notin DOMAIN n
      BY WithoutGood
    <3>2. FirstFree(h, svid, start) \in FreeIds(h, svid)
      BY <2>2, FirstFreeIsFree DEF assignHost
    <3>3. vid \in HostVIDs /\ vid \notin DOMAIN h /\ vid[1] = svid
      BY <3>2 DEF FreeIds, HostVIDs
    <3>4. /\ hosts' = Put(h, vid, mac) /\ iphosts' = Put(p, ip, vid)
          /\ inthosts' = Put(n, ip, e) /\ ~ Unmoved(ip, port, svid)
      BY <2>2 DEF assignHost, updateEntry
    <3>5. Leases(h, p, n) = IF ip \in DOMAIN inthosts THEN Erase(leasesHeld, ip) ELSE leasesHeld
      BY WithoutLease
    <3>6. \A a \in DOMAIN inthosts \ {ip} : iphosts[a] \in DOMAIN h
      BY <1>0, <1>b DEF WithoutHosts, Erase, Good
    <3> HIDE DEF h, p, n, t, r, vid
    <3>7. e.interfaceid = port /\ lease \in Registry!Lease
            /\ lease.vid = vid /\ lease.interfaceid = port
      BY <3>3 DEF Registry!Lease
    <3> HIDE DEF e
    <3>8. leasesHeld' = Put(Leases(h, p, n), ip, lease)
      BY <3>1, <3>3, <3>4, <3>7, AddLease, LeasesHeld
    <3> HIDE DEF lease
    <3>9. leasesHeld' = Put(leasesHeld, ip, lease)
      BY <3>5, <3>8 DEF Put, Erase
    <3>10. ip \in DOMAIN inthosts => \/ leasesHeld[ip].interfaceid # lease.interfaceid
                                     \/ leasesHeld[ip].vid[1] # lease.vid[1]
      BY <1>b, <3>3, <3>4, <3>7 DEF Unmoved
    <3>11. \A a \in DOMAIN leasesHeld \ {ip} : leasesHeld[a].vid # lease.vid
      BY <1>a, <1>b, <3>3, <3>6, <3>7
    <3>12. Registry!Grant(ip, lease)
      BY <1>a, <3>9, <3>10, <3>11 DEF Registry!Grant, Registry!Put, Put
    <3> QED BY <3>7, <3>12 DEF Registry!Next
  <2>3. CASE exhausted(ip, mac, port, svid)
    <3>1. leasesHeld' = IF ip \in DOMAIN inthosts THEN Erase(leasesHeld, ip) ELSE leasesHeld
      BY <2>3, WithoutLease, LeasesHeld DEF exhausted
    <3>2. CASE ip \in DOMAIN inthosts
      BY <1>a, <3>1, <3>2 DEF Registry!Next, Registry!Forget, Registry!Erase, Erase
    <3> QED BY <3>1, <3>2
  <2> QED BY <1>3, <2>1, <2>2, <2>3 DEF generate_host_vid
<1>4. ASSUME NEW t \in timers, expire(t)
      PROVE  Registry!Next
  <2>1. PICK ip \in DOMAIN inthosts : t = inthosts[ip].expiry
    BY <1>0 DEF Good
  <2>2. t = [ip |-> ip, hostvid |-> iphosts[ip]] /\ ip \in DOMAIN iphosts
    BY <1>0, <2>1 DEF Good
  <2>3. t.ip = ip /\ t.hostvid = iphosts[ip]
    BY <2>2
  <2> QED BY <1>4, <2>2, <2>3, DropLease DEF expire
<1>5. ASSUME NEW ip \in IPs, deleteIP(ip)
      PROVE  Registry!Next
  <2>1. ip \in DOMAIN inthosts /\ ip \in DOMAIN iphosts
    BY <1>0, <1>5 DEF deleteIP, Good
  <2> QED BY <1>5, <2>1, DropLease DEF deleteIP
<1>6. CASE UNCHANGED vars
  BY <1>6, SameLeases DEF vars
<1> QED BY <1>1, <1>2, <1>3, <1>4, <1>5, <1>6 DEF Next

\* The host table implements the registry of leases, for any number of hosts,
\* interfaces and host numbers: every handler, timer and configuration line
\* grants, relearns or forgets one lease, or changes none.
THEOREM RegistryImplemented == Spec => ImplementsRegistry
<1>1. Init => Registry!Init
  BY DEF Init, Registry!Init, leasesHeld, EmptyTable, Registry!EmptyTable
<1>2. IInv /\ [Next]_vars => [Registry!Next]_leasesHeld
  BY StepIsRegistryStep
<1> QED BY <1>1, <1>2, SpecIInv, PTL DEF Spec, ImplementsRegistry, Registry!Spec

=============================================================================
