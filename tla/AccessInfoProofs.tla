-------------------------- MODULE AccessInfoProofs --------------------------
(***************************************************************************)
(* Theorems about AccessInfo, for every set of switches and hosts: its     *)
(* state is well typed, it implements Directory, and a packet is passed to *)
(* a host it is not for only if the two may be at one interface.           *)
(*                                                                         *)
(* The argument is about a bound K on what is told of each host.  A        *)
(* handler or timer makes its frames and entries of VIDs that are in       *)
(* frames, tables of hosts, mappings and caches already, so if those are   *)
(* within K, what is new is within K too (NextTold).  With all host VIDs   *)
(* for K this is typing; with what is known and held of a host it is the   *)
(* step of Directory.                                                      *)
(***************************************************************************)
EXTENDS AccessInfo, FiniteSetTheorems, SequenceTheorems, TLAPS

Types == {"MAP_PUBLISH", "MAP_UPDATE", "NO_VID", "ARP_REQUEST", "ARP_REPLY", "IP"}

Bounds == [IPs -> SUBSET HostVIDs]

\* The frames that tell of each host what K allows; tables that do.
Told(K) == {f \in Frame : /\ f.svid \in K[f.src]
                          /\ f.type # "ARP_REQUEST" => f.vid \in K[f.dst]}
Within(t, K) == IsTable(t, IPs, HostVIDs) /\ \A ip \in DOMAIN t : t[ip] \in K[ip]

HostsWithin(K) ==
  DOMAIN iphosts = Switches /\ \A s \in Switches : Within(iphosts[s], K)

MappingWithin(K) ==
  DOMAIN mapping = Switches /\ \A s \in Switches : Within(mapping[s], K)
CacheWithin(K) ==
  DOMAIN cache = IPs /\ \A q \in IPs : Within(cache[q], K)
FramesWithin(K) == frames \subseteq Told(K) /\ local \in Seq(Told(K))

ToldWithin(K) == MappingWithin(K) /\ CacheWithin(K) /\ FramesWithin(K)

-----------------------------------------------------------------------------
(* Tables and frames.                                                      *)

LEMMA PutWithin ==
  ASSUME NEW K, NEW t, Within(t, K), NEW ip \in IPs, NEW v \in HostVIDs, v \in K[ip]
  PROVE  Within(Put(t, ip, v), K)
<1>1. DOMAIN Put(t, ip, v) = DOMAIN t \cup {ip}
  BY DEF Put
<1>2. \A q \in DOMAIN t \cup {ip} : Put(t, ip, v)[q] = IF q = ip THEN v ELSE t[q]
  BY DEF Put
<1>3. Put(t, ip, v) \in [DOMAIN t \cup {ip} -> HostVIDs]
  BY DEF Put, Within, IsTable
<1>4. DOMAIN t \cup {ip} \subseteq IPs
  BY DEF Within, IsTable
<1> QED  BY <1>1, <1>2, <1>3, <1>4 DEF Within, IsTable

LEMMA EraseWithin ==
  ASSUME NEW K, NEW t, Within(t, K), NEW ip
  PROVE  Within(Erase(t, ip), K)
BY DEF Within, IsTable, Erase

LEMMA HomeTyped ==
  ASSUME NEW v \in HostVIDs PROVE v[1] \in Interfaces /\ Home(v) \in Switches
BY AccessAssumption DEF HostVIDs, Home

LEMMA NewTold ==
  ASSUME NEW K, NEW type \in Types, NEW to \in Switches,
         NEW src \in IPs, NEW svid \in HostVIDs, svid \in K[src],
         NEW dst \in IPs, NEW vid \in HostVIDs,
         type # "ARP_REQUEST" => vid \in K[dst]
  PROVE  NewFrame(type, to, src, svid, dst, vid) \in Told(K)
BY DEF NewFrame, Told, Frame, Types

LEMMA ToldFields ==
  ASSUME NEW K, NEW f \in Told(K)
  PROVE  /\ f \in Frame
         /\ f.type \in Types /\ f.to \in Switches /\ f.src \in IPs /\ f.dst \in IPs
         /\ f.svid \in HostVIDs /\ f.vid \in HostVIDs
         /\ f.svid \in K[f.src]
         /\ f.type # "ARP_REQUEST" => f.vid \in K[f.dst]
BY DEF Told, Frame, Types

LEMMA WhenIn ==
  ASSUME NEW P, NEW c, NEW f, c => f \in P
  PROVE  When(c, f) \in Seq(P)
BY DEF When

\* What a switch sends goes to local or to frames, with nothing added.
LEMMA EmitIn ==
  ASSUME NEW P, NEW s, NEW out \in Seq(P), NEW rest \in Seq(P), frames \subseteq P,
         Emit(s, out, rest)
  PROVE  frames' \subseteq P /\ local' \in Seq(P)
<1>1. \A j \in DOMAIN out : out[j] \in P
  BY LenProperties, ElementOfSeq
<1>2. Looped(s, out, 1) \in Seq(P) /\ Looped(s, out, 2) \in Seq(P)
  BY <1>1 DEF Looped
<1>3. Looped(s, out, 1) \o Looped(s, out, 2) \in Seq(P)
  BY <1>2, ConcatProperties
<1>4. Looped(s, out, 1) \o Looped(s, out, 2) \o rest \in Seq(P)
  BY <1>3, ConcatProperties
<1> QED  BY <1>1, <1>4 DEF Emit

LEMMA WholeConcat ==
  ASSUME NEW P, NEW s \in Seq(P), NEW t \in Seq(P) PROVE s \o t \in Seq(P)
BY ConcatProperties

\* The frame at hand, and what is left.
LEMMA AtHand ==
  ASSUME NEW K, FramesWithin(K), local # <<>>
  PROVE  Head(local) \in Told(K) /\ Tail(local) \in Seq(Told(K))
BY HeadTailProperties DEF FramesWithin

-----------------------------------------------------------------------------
(* What a step does to the hosts.                                          *)

HostsTyped ==
  /\ at \in [IPs -> Interfaces]
  /\ DOMAIN iphosts = Switches
  /\ \A s \in Switches : IsTable(iphosts[s], IPs, HostVIDs)

Heard(s, ip, v) ==
  /\ v[1] = at[ip]
  /\ iphosts' = [iphosts EXCEPT ![s] = Put(@, ip, v)]
  /\ at' = at

Forgotten(s, ip) ==
  /\ ip \in DOMAIN iphosts[s]
  /\ iphosts' = [iphosts EXCEPT ![s] = Erase(@, ip)]
  /\ at' = at

Moved(ip) ==
  /\ \E i \in Places[ip] : at' = [at EXCEPT ![ip] = i]
  /\ UNCHANGED <<iphosts, mapping, cache, frames, local>>

\* A host gets a VID of the interface it is at.
LEMMA GivenTyped ==
  ASSUME HostsTyped, NEW ip \in IPs, NEW v \in GivenVIDs(SwitchOf[at[ip]], ip, at[ip])
  PROVE  v \in HostVIDs /\ v[1] = at[ip] /\ SwitchOf[at[ip]] \in Switches
<1>1. at[ip] \in Interfaces /\ SwitchOf[at[ip]] \in Switches
  BY AccessAssumption DEF HostsTyped
<1>2. CASE Unmoved(SwitchOf[at[ip]], ip, at[ip])
  BY <1>1, <1>2 DEF GivenVIDs, Unmoved, HostsTyped, IsTable
<1>3. CASE ~ Unmoved(SwitchOf[at[ip]], ip, at[ip])
  BY <1>1, <1>3 DEF GivenVIDs, HostVIDs
<1> QED  BY <1>1, <1>2, <1>3

LEMMA HostsStep ==
  ASSUME HostsTyped, local \in Seq(Frame), [Next]_vars
  PROVE  \/ \E s \in Switches, ip \in IPs, v \in HostVIDs : Heard(s, ip, v)
         \/ \E s \in Switches, ip \in IPs : Forgotten(s, ip)
         \/ \E ip \in IPs : Moved(ip)
         \/ at' = at /\ iphosts' = iphosts
<1>1. CASE UNCHANGED vars
  BY <1>1 DEF vars
<1>2. CASE processPublish \/ processNoVid \/ processARPRequest \/ processARPReply \/ processIP
  BY <1>2 DEF processPublish, processNoVid, processARPRequest, processARPReply, processIP
<1>3. CASE processUpdate
  <2> DEFINE f == Head(local)
  <2>1. at' = at /\ (iphosts' = iphosts \/
           (f.dst \in DOMAIN iphosts[f.to] /\ iphosts' = [iphosts EXCEPT ![f.to] = Erase(@, f.dst)]))
    BY <1>3 DEF processUpdate, lookupIP
  <2>2. f \in Frame
    BY <1>3, HeadTailProperties DEF processUpdate, Handles
  <2>3. f.to \in Switches /\ f.dst \in IPs
    BY <2>2 DEF Frame
  <2> QED  BY <2>1, <2>2, <2>3 DEF Forgotten
<1>4. CASE Arrival
  BY <1>4 DEF Arrival, receive
<1>5. CASE Hosts
  <2>1. ASSUME NEW ip \in IPs, announce(ip) PROVE \E s \in Switches, v \in HostVIDs : Heard(s, ip, v)
    BY <2>1, GivenTyped DEF announce, Register, Heard
  <2>2. ASSUME NEW src \in IPs, NEW dst \in IPs, askFor(src, dst)
        PROVE  \E s \in Switches, v \in HostVIDs : Heard(s, src, v)
    BY <2>2, GivenTyped DEF askFor, Register, Heard
  <2>3. ASSUME NEW src \in IPs, NEW dst \in IPs, sendIP(src, dst)
        PROVE  \E s \in Switches, v \in HostVIDs : Heard(s, src, v)
    BY <2>3, GivenTyped DEF sendIP, Register, Heard
  <2>4. \A t \in Talks : t[1] \in IPs /\ t[2] \in IPs
    BY AccessAssumption
  <2> QED  BY <1>5, <2>1, <2>2, <2>3, <2>4 DEF Hosts
<1>6. CASE Timers
  <2>1. ASSUME NEW s \in Switches, publishAccessInfo(s) PROVE at' = at /\ iphosts' = iphosts
    BY <2>1 DEF publishAccessInfo
  <2>2. ASSUME NEW s \in Switches, NEW ip \in DOMAIN iphosts[s], expireHost(s, ip)
        PROVE  \E q \in IPs : Forgotten(s, q)
    BY <2>2 DEF expireHost, Forgotten, HostsTyped, IsTable
  <2>3. ASSUME NEW s \in Switches, NEW ip, expireMapping(s, ip) PROVE at' = at /\ iphosts' = iphosts
    BY <2>3 DEF expireMapping
  <2> QED  BY <1>6, <2>1, <2>2, <2>3 DEF Timers
<1>7. CASE World
  BY <1>7 DEF World, move, lose, settle, Moved
<1> QED  BY <1>1, <1>2, <1>3, <1>4, <1>5, <1>6, <1>7 DEF Next, Running

LEMMA NextHostsTyped ==
  ASSUME HostsTyped, local \in Seq(Frame), [Next]_vars
  PROVE  HostsTyped'
<1> DEFINE K0 == [ip \in IPs |-> HostVIDs]
<1>1. \A s \in Switches : Within(iphosts[s], K0)
  BY DEF HostsTyped, Within, IsTable
<1>2. ASSUME NEW s \in Switches, NEW ip \in IPs, NEW v \in HostVIDs, Heard(s, ip, v)
      PROVE  HostsTyped'
  <2>1. Within(Put(iphosts[s], ip, v), K0)
    BY <1>1, PutWithin
  <2> QED  BY <1>2, <2>1 DEF HostsTyped, Heard, Within
<1>3. ASSUME NEW s \in Switches, NEW ip \in IPs, Forgotten(s, ip) PROVE HostsTyped'
  <2>1. Within(Erase(iphosts[s], ip), K0)
    BY <1>1, EraseWithin
  <2> QED  BY <1>3, <2>1 DEF HostsTyped, Forgotten, Within
<1>4. ASSUME NEW ip \in IPs, Moved(ip) PROVE HostsTyped'
  BY <1>4, AccessAssumption DEF HostsTyped, Moved
<1> QED  BY HostsStep, <1>2, <1>3, <1>4 DEF HostsTyped
-----------------------------------------------------------------------------
(* What a step does to mappings, caches and frames.                        *)

\* Nothing is told that is beyond K, if K bounds what hosts are given.
LEMMA NextTold ==
  ASSUME NEW K \in Bounds, HostsTyped, ToldWithin(K), HostsWithin(K),
         \A s \in Switches : Within(iphosts'[s], K),
         [Next]_vars
  PROVE  ToldWithin(K)'
<1> DEFINE P == Told(K)
<1> USE DEF ToldWithin
<1>a. /\ \A s \in Switches : Within(iphosts[s], K) /\ Within(mapping[s], K)
      /\ \A q \in IPs : Within(cache[q], K)
      /\ DOMAIN mapping = Switches /\ DOMAIN cache = IPs
      /\ frames \subseteq P /\ local \in Seq(P) /\ <<>> \in Seq(P)
  BY DEF HostsWithin, MappingWithin, CacheWithin, FramesWithin
<1>b. ASSUME NEW t, Within(t, K), NEW ip \in DOMAIN t
      PROVE  ip \in IPs /\ t[ip] \in HostVIDs /\ t[ip] \in K[ip]
  BY <1>b DEF Within, IsTable
<1>c. local # <<>> => Head(local) \in P /\ Tail(local) \in Seq(P)
  BY AtHand
<1> DEFINE f == Head(local)
           s == f.to
<1>d. ASSUME local # <<>>
      PROVE  /\ f \in P /\ f \in Frame /\ Tail(local) \in Seq(P)
             /\ f.type \in Types /\ s \in Switches /\ f.src \in IPs /\ f.dst \in IPs
             /\ f.svid \in HostVIDs /\ f.vid \in HostVIDs
             /\ f.svid \in K[f.src]
             /\ f.type # "ARP_REQUEST" => f.vid \in K[f.dst]
             /\ Home(f.svid) \in Switches /\ Home(f.vid) \in Switches
             /\ AccessOf[f.dst] \in Switches
  <2>1. f \in P /\ Tail(local) \in Seq(P)
    BY <1>c, <1>d
  <2>2. /\ f \in Frame
        /\ f.type \in Types /\ s \in Switches /\ f.src \in IPs /\ f.dst \in IPs
        /\ f.svid \in HostVIDs /\ f.vid \in HostVIDs
        /\ f.svid \in K[f.src]
        /\ f.type # "ARP_REQUEST" => f.vid \in K[f.dst]
    BY <2>1, ToldFields
  <2>3. Home(f.svid) \in Switches /\ Home(f.vid) \in Switches /\ AccessOf[f.dst] \in Switches
    BY <2>2, HomeTyped, AccessAssumption
  <2> QED  BY <2>1, <2>2, <2>3
<1>e. ASSUME NEW out \in Seq(P), NEW rest \in Seq(P), NEW w, Emit(w, out, rest)
      PROVE  FramesWithin(K)'
  <2> HIDE DEF P
  <2>1. frames' \subseteq P /\ local' \in Seq(P)
    BY <1>a, <1>e, EmitIn
  <2> QED  BY <2>1 DEF FramesWithin, P
<1> HIDE DEF P, f
<1>1. CASE UNCHANGED vars
  BY <1>1 DEF vars, MappingWithin, CacheWithin, FramesWithin
<1>2. CASE processPublish
  <2> DEFINE moved == f.dst \in DOMAIN mapping[s] /\ mapping[s][f.dst] # f.vid
             u == update_access_info_packet(f.dst, f.vid, mapping[s][f.dst])
  <2>1. /\ local # <<>> /\ f.type = "MAP_PUBLISH" /\ cache' = cache
        /\ mapping' = [mapping EXCEPT ![s] = Put(@, f.dst, f.vid)]
        /\ Emit(s, When(moved, u), Tail(local))
    BY <1>2 DEF processPublish, updateMapping, lookupMapping, Handles, f
  <2>2. Within(Put(mapping[s], f.dst, f.vid), K)
    BY <1>a, <1>d, <2>1, PutWithin
  <2>3. ASSUME moved PROVE u \in P
    <3>1. Home(mapping[s][f.dst]) \in Switches
      BY <1>a, <1>b, <1>d, <2>1, <2>3, HomeTyped
    <3> QED  BY <1>d, <2>1, <3>1, NewTold DEF update_access_info_packet, P, Types
  <2> HIDE DEF moved, u
  <2>4. When(moved, u) \in Seq(P)
    BY <2>3, WhenIn
  <2>5. FramesWithin(K)'
    BY <1>d, <1>e, <2>1, <2>4
  <2> QED  BY <1>a, <2>1, <2>2, <2>5 DEF MappingWithin, CacheWithin
<1>3. CASE processUpdate
  <2>1. local # <<>> /\ local' = Tail(local) /\ UNCHANGED <<mapping, cache, frames>>
    BY <1>3 DEF processUpdate, Handles
  <2> QED  BY <1>a, <1>c, <2>1 DEF MappingWithin, CacheWithin, FramesWithin, P
<1>4. CASE processNoVid
  <2> DEFINE v == mapping[s][f.dst]
             moved == f.dst \in DOMAIN mapping[s] /\ v # f.vid
             a == ARPReply(f, v)
             u == update_vid_on_no_vid_to_access_switch_packet(f, v)
  <2>1. /\ local # <<>> /\ f.type = "NO_VID" /\ UNCHANGED <<mapping, cache>>
        /\ Emit(s, When(moved, a) \o When(moved, u), Tail(local))
    BY <1>4 DEF processNoVid, lookupMapping, Handles, f
  <2>2. ASSUME moved PROVE a \in P /\ u \in P
    <3>1. v \in HostVIDs /\ v \in K[f.dst] /\ Home(v) \in Switches
      BY <1>a, <1>b, <1>d, <2>1, <2>2, HomeTyped
    <3>2. a \in P
      BY <1>d, <2>1, <3>1, NewTold DEF ARPReply, P, Types
    <3>3. u = [f EXCEPT !.type = "IP", !.to = Home(v), !.vid = v]
      BY DEF update_vid_on_no_vid_to_access_switch_packet
    <3>4. u \in Frame /\ u.svid = f.svid /\ u.src = f.src /\ u.dst = f.dst /\ u.vid = v
      <4> HIDE DEF u, v
      <4> QED  BY <1>d, <2>1, <3>1, <3>3 DEF Frame
    <3> QED  BY <1>d, <2>1, <3>1, <3>2, <3>4 DEF Told, P
  <2> HIDE DEF moved, a, u
  <2>3. When(moved, a) \in Seq(P) /\ When(moved, u) \in Seq(P)
    BY <2>2, WhenIn
  <2>4. When(moved, a) \o When(moved, u) \in Seq(P)
    BY <2>3, WholeConcat
  <2>5. FramesWithin(K)'
    BY <1>d, <1>e, <2>1, <2>4
  <2> QED  BY <1>a, <2>1, <2>5 DEF MappingWithin, CacheWithin
<1>5. CASE processARPRequest
  <2> DEFINE v == IF f.dst \in DOMAIN mapping[s] THEN mapping[s][f.dst] ELSE iphosts[s][f.dst]
             a == ARPReply(f, v)
             c == f.dst \in DOMAIN mapping[s] \/ f.dst \in DOMAIN iphosts[s]
  <2>1. /\ local # <<>> /\ UNCHANGED <<mapping, cache>>
        /\ Emit(s, When(c, a), Tail(local))
    BY <1>5 DEF processARPRequest, lookupMapping, lookupIP, Handles, f
  <2>2. ASSUME c PROVE a \in P
    <3>1. v \in HostVIDs /\ v \in K[f.dst]
      <4>1. CASE f.dst \in DOMAIN mapping[s]
        BY <1>a, <1>b, <1>d, <2>1, <4>1
      <4>2. CASE f.dst \notin DOMAIN mapping[s]
        BY <1>a, <1>b, <1>d, <2>1, <2>2, <4>2
      <4> QED  BY <4>1, <4>2
    <3> HIDE DEF v
    <3>2. f.svid \in K[f.src]
      BY <1>d, <2>1
    <3> QED  BY <1>d, <2>1, <3>1, <3>2, NewTold DEF ARPReply, P, Types
  <2> HIDE DEF c, a
  <2>3. When(c, a) \in Seq(P)
    BY <2>2, WhenIn
  <2>5. FramesWithin(K)'
    BY <1>d, <1>e, <2>1, <2>3
  <2> QED  BY <1>a, <2>1, <2>5 DEF MappingWithin, CacheWithin
<1>6. CASE processARPReply
  <2>1. /\ local # <<>> /\ f.type = "ARP_REPLY" /\ local' = Tail(local)
        /\ UNCHANGED <<mapping, frames>>
        /\ cache' \in {cache, [cache EXCEPT ![f.dst] = Put(@, f.src, f.svid)]}
    BY <1>6 DEF processARPReply, Handles, f
  <2>2. Within(Put(cache[f.dst], f.src, f.svid), K)
    BY <1>a, <1>d, <2>1, PutWithin
  <2>3. CacheWithin(K)'
    BY <1>a, <1>d, <2>1, <2>2 DEF CacheWithin
  <2> QED  BY <1>a, <1>c, <2>1, <2>3 DEF MappingWithin, FramesWithin, P
<1>7. CASE processIP
  <2> DEFINE gone == ~ lookupVID(s, f.vid)
             e == create_an_encapsulated_packet_to_access_switch(f)
  <2>1. /\ local # <<>> /\ f.type = "IP" /\ UNCHANGED <<mapping, cache>>
        /\ Emit(s, When(gone, e), Tail(local))
    BY <1>7 DEF processIP, Handles, f
  <2>2. e = [f EXCEPT !.type = "NO_VID", !.to = AccessOf[f.dst]]
    BY DEF create_an_encapsulated_packet_to_access_switch
  <2>3. e \in Frame /\ e.svid = f.svid /\ e.src = f.src /\ e.dst = f.dst /\ e.vid = f.vid
    <3> HIDE DEF e
    <3> QED  BY <1>d, <2>1, <2>2 DEF Frame
  <2>4. e \in P
    BY <1>d, <2>1, <2>3 DEF Told, P
  <2> HIDE DEF gone, e
  <2>5. When(gone, e) \in Seq(P)
    BY <2>4, WhenIn
  <2>6. FramesWithin(K)'
    BY <1>d, <1>e, <2>1, <2>5
  <2> QED  BY <1>a, <2>1, <2>6 DEF MappingWithin, CacheWithin
<1>8. CASE Arrival
  <2>1. PICK g \in frames : receive(g)
    BY <1>8 DEF Arrival
  <2>2. g \in P /\ <<g>> \in Seq(P)
    BY <1>a, <2>1
  <2> QED  BY <1>a, <2>1, <2>2 DEF receive, MappingWithin, CacheWithin, FramesWithin, P
<1>9. ASSUME NEW ip \in IPs, NEW v \in GivenVIDs(SwitchOf[at[ip]], ip, at[ip]),
             Register(SwitchOf[at[ip]], ip, v)
      PROVE  /\ SwitchOf[at[ip]] \in Switches
             /\ v \in HostVIDs /\ v \in K[ip]
             /\ Publication(SwitchOf[at[ip]], ip, v) \in Seq(P)
  <2>1. v \in HostVIDs /\ SwitchOf[at[ip]] \in Switches
    BY GivenTyped
  <2>2. iphosts'[SwitchOf[at[ip]]] = Put(iphosts[SwitchOf[at[ip]]], ip, v)
    BY <1>9, <2>1 DEF Register, HostsTyped
  <2>3. v \in K[ip]
    BY <2>1, <2>2 DEF Within, Put
  <2>4. publish_access_info_packet(ip, v) \in P
    BY <2>1, <2>3, NewTold, AccessAssumption DEF publish_access_info_packet, P, Types
  <2>5. Publication(SwitchOf[at[ip]], ip, v) \in Seq(P)
    BY <2>4, WhenIn DEF Publication
  <2> QED  BY <2>1, <2>3, <2>5
<1>10. ASSUME NEW ip \in IPs, announce(ip) PROVE ToldWithin(K)'
  <2>1. PICK v \in GivenVIDs(SwitchOf[at[ip]], ip, at[ip]) :
           /\ Register(SwitchOf[at[ip]], ip, v)
           /\ Emit(SwitchOf[at[ip]], Publication(SwitchOf[at[ip]], ip, v), <<>>)
           /\ UNCHANGED <<mapping, cache>>
    BY <1>10 DEF announce
  <2>2. FramesWithin(K)'
    BY <1>a, <1>e, <1>9, <2>1
  <2> QED  BY <1>a, <2>1, <2>2 DEF MappingWithin, CacheWithin
<1>11. ASSUME NEW src \in IPs, NEW dst \in IPs, askFor(src, dst) PROVE ToldWithin(K)'
  <2> DEFINE sw == SwitchOf[at[src]]
             here == dst \in DOMAIN iphosts[sw] \/ dst \in DOMAIN mapping[sw]
             w == IF dst \in DOMAIN iphosts[sw] THEN iphosts[sw][dst] ELSE mapping[sw][dst]
             c == ~ here
             q(v) == NewFrame("ARP_REQUEST", AccessOf[dst], src, v, dst, v)
  <2>1. PICK v \in GivenVIDs(sw, src, at[src]) :
           /\ Register(sw, src, v)
           /\ Emit(sw, Publication(sw, src, v) \o When(c, q(v)), <<>>)
           /\ cache' = IF here /\ (dst \in DOMAIN iphosts[sw] => w[1] # at[src])
                         THEN [cache EXCEPT ![src] = Put(@, dst, w)] ELSE cache
           /\ mapping' = mapping
    BY <1>11 DEF askFor, lookupIP, lookupMapping, HostPort
  <2>2. /\ sw \in Switches /\ v \in HostVIDs /\ v \in K[src]
        /\ Publication(sw, src, v) \in Seq(P)
    BY <1>9, <2>1
  <2>3. q(v) \in P
    BY <2>2, NewTold, AccessAssumption DEF P, Types
  <2>4. When(c, q(v)) \in Seq(P)
    BY <2>3, WhenIn
  <2>5. Publication(sw, src, v) \o When(c, q(v)) \in Seq(P)
    BY <2>2, <2>4, WholeConcat
  <2>6. FramesWithin(K)'
    BY <1>a, <1>e, <2>1, <2>5
  <2>7. ASSUME here PROVE w \in HostVIDs /\ w \in K[dst]
    <3>1. CASE dst \in DOMAIN iphosts[sw]
      BY <1>a, <1>b, <2>2, <3>1
    <3>2. CASE dst \notin DOMAIN iphosts[sw]
      BY <1>a, <1>b, <2>2, <2>7, <3>2
    <3> QED  BY <3>1, <3>2
  <2> HIDE DEF w, here
  <2>8. here => Within(Put(cache[src], dst, w), K)
    BY <1>a, <2>7, PutWithin
  <2>9. CacheWithin(K)'
    BY <1>a, <2>1, <2>8 DEF CacheWithin
  <2> QED  BY <1>a, <2>1, <2>6, <2>9 DEF MappingWithin
<1>12. ASSUME NEW src \in IPs, NEW dst \in IPs, sendIP(src, dst) PROVE ToldWithin(K)'
  <2> DEFINE sw == SwitchOf[at[src]]
             w == cache[src][dst]
             c == dst \notin DOMAIN iphosts[sw]
             q(v) == NewFrame("IP", Home(w), src, v, dst, w)
  <2>1. PICK v \in GivenVIDs(sw, src, at[src]) :
           /\ Register(sw, src, v)
           /\ Emit(sw, Publication(sw, src, v) \o When(c, q(v)), <<>>)
           /\ mapping' = mapping /\ cache' = cache /\ dst \in DOMAIN cache[src]
    BY <1>12 DEF sendIP, lookupIP
  <2>2. v \in HostVIDs /\ v \in K[src] /\ Publication(sw, src, v) \in Seq(P)
    BY <1>9, <2>1
  <2>3. w \in HostVIDs /\ w \in K[dst] /\ Home(w) \in Switches
    BY <1>a, <1>b, <2>1, HomeTyped
  <2>4. q(v) \in P
    <3> HIDE DEF w
    <3> QED  BY <2>2, <2>3, NewTold DEF P, Types
  <2>5. When(c, q(v)) \in Seq(P)
    BY <2>4, WhenIn
  <2>6. Publication(sw, src, v) \o When(c, q(v)) \in Seq(P)
    BY <2>2, <2>5, WholeConcat
  <2>7. FramesWithin(K)'
    BY <1>a, <1>e, <2>1, <2>6
  <2> QED  BY <1>a, <2>1, <2>7 DEF MappingWithin, CacheWithin
<1>13. ASSUME NEW w \in Switches, publishAccessInfo(w) PROVE ToldWithin(K)'
  <2> DEFINE own == {ip \in DOMAIN iphosts[w] : AccessOf[ip] = w}
             published(ip) == publish_access_info_packet(ip, iphosts[w][ip])
  <2>1. PICK order \in [1 .. Cardinality(own) -> own] :
           local' = [j \in DOMAIN order |-> published(order[j])]
    BY <1>13 DEF publishAccessInfo
  <2>2. /\ frames' = frames \cup {published(ip) : ip \in DOMAIN iphosts[w] \ own}
        /\ mapping' = mapping /\ cache' = cache
    BY <1>13 DEF publishAccessInfo
  <2>3. \A ip \in DOMAIN iphosts[w] : published(ip) \in P
    <3> SUFFICES ASSUME NEW ip \in DOMAIN iphosts[w] PROVE published(ip) \in P
      OBVIOUS
    <3>1. ip \in IPs /\ iphosts[w][ip] \in HostVIDs /\ iphosts[w][ip] \in K[ip]
      BY <1>a, <1>b
    <3> QED  BY <3>1, NewTold, AccessAssumption DEF publish_access_info_packet, P, Types
  <2>4. Cardinality(own) \in Nat
    <3>1. own \subseteq IPs
      BY <1>a DEF Within, IsTable
    <3> QED  BY <3>1, FS_Subset, FS_CardinalityType, AccessAssumption
  <2> HIDE DEF published
  <2>5. \A j \in 1 .. Cardinality(own) : published(order[j]) \in P
    BY <2>3
  <2> HIDE DEF own
  <2>6. local' \in [1 .. Cardinality(own) -> P]
    BY <2>1, <2>5
  <2>7. local' \in Seq(P)
    BY <2>4, <2>6, SeqDef
  <2> QED  BY <1>a, <2>2, <2>3, <2>7 DEF MappingWithin, CacheWithin, FramesWithin, P
<1>14. ASSUME NEW w \in Switches, NEW ip, expireHost(w, ip) PROVE ToldWithin(K)'
  BY <1>a, <1>14 DEF expireHost, MappingWithin, CacheWithin, FramesWithin, P
<1>15. ASSUME NEW w \in Switches, NEW ip, expireMapping(w, ip) PROVE ToldWithin(K)'
  <2>1. Within(Erase(mapping[w], ip), K)
    BY <1>a, EraseWithin
  <2> QED  BY <1>a, <1>15, <2>1 DEF expireMapping, MappingWithin, CacheWithin, FramesWithin, P
<1>16. CASE World
  BY <1>a, <1>16 DEF World, move, lose, settle, MappingWithin, CacheWithin, FramesWithin, P
<1>17. CASE Hosts
  <2>1. \A t \in Talks : t[1] \in IPs /\ t[2] \in IPs
    BY AccessAssumption
  <2> QED  BY <1>10, <1>11, <1>12, <1>17, <2>1 DEF Hosts
<1>18. CASE Timers
  BY <1>13, <1>14, <1>15, <1>18 DEF Timers
<1> QED
  BY <1>1, <1>2, <1>3, <1>4, <1>5, <1>6, <1>7, <1>8, <1>16, <1>17, <1>18 DEF Next, Running

-----------------------------------------------------------------------------
(* The inductive invariant: every VID of a host that is held or told is of *)
(* a place the host may be at.                                             *)

Placed == [ip \in IPs |-> {v \in HostVIDs : v[1] \in Places[ip]}]

IInv ==
  /\ at \in [IPs -> Interfaces] /\ \A ip \in IPs : at[ip] \in Places[ip]
  /\ HostsWithin(Placed) /\ ToldWithin(Placed)
  /\ settled \in BOOLEAN

LEMMA PlacedBounds == Placed \in Bounds
BY DEF Placed, Bounds

\* The empty table.
LEMMA EmptyWithin == \A K : Within(EmptyTable, K)
BY DEF Within, IsTable, EmptyTable

LEMMA IInvTyped ==
  ASSUME IInv
  PROVE  HostsTyped /\ local \in Seq(Frame) /\ frames \subseteq Frame
<1>1. Told(Placed) \subseteq Frame
  BY DEF Told
<1>2. Seq(Told(Placed)) \subseteq Seq(Frame)
  BY <1>1, SeqDef
<1> QED  BY <1>1, <1>2 DEF IInv, HostsTyped, HostsWithin, ToldWithin, FramesWithin, Within

LEMMA InitIInv == Init => IInv
<1>1. Within(EmptyTable, Placed)
  BY EmptyWithin
<1>2. <<>> \in Seq(Told(Placed))
  OBVIOUS
<1> QED
  BY <1>1, <1>2 DEF Init, IInv, HostsWithin, ToldWithin, MappingWithin, CacheWithin, FramesWithin

LEMMA NextIInv ==
  ASSUME IInv, [Next]_vars
  PROVE  IInv'
<1>1. HostsTyped /\ local \in Seq(Frame) /\ HostsWithin(Placed) /\ ToldWithin(Placed)
  BY IInvTyped DEF IInv
<1>2. HostsTyped'
  BY <1>1, NextHostsTyped
<1>3. ASSUME NEW s \in Switches, NEW ip \in IPs, NEW v \in HostVIDs, Heard(s, ip, v)
      PROVE  at' = at /\ HostsWithin(Placed)'
  <2>1. v \in Placed[ip]
    BY <1>3 DEF Heard, IInv, Placed
  <2>2. Within(Put(iphosts[s], ip, v), Placed)
    BY <1>1, <2>1, PutWithin DEF HostsWithin
  <2> QED  BY <1>1, <1>3, <2>2 DEF Heard, HostsWithin
<1>4. ASSUME NEW s \in Switches, NEW ip \in IPs, Forgotten(s, ip)
      PROVE  at' = at /\ HostsWithin(Placed)'
  <2>1. Within(Erase(iphosts[s], ip), Placed)
    BY <1>1, EraseWithin DEF HostsWithin
  <2> QED  BY <1>1, <1>4, <2>1 DEF Forgotten, HostsWithin
<1>5. ASSUME NEW ip \in IPs, Moved(ip)
      PROVE  HostsWithin(Placed)' /\ \A q \in IPs : at'[q] \in Places[q]
  BY <1>1, <1>5 DEF Moved, HostsWithin, IInv
<1>6. HostsWithin(Placed)' /\ \A q \in IPs : at'[q] \in Places[q]
  <2>1. CASE at' = at /\ iphosts' = iphosts
    BY <1>1, <2>1 DEF IInv, HostsWithin
  <2> QED  BY <1>1, <1>3, <1>4, <1>5, <2>1, HostsStep DEF IInv
<1>7. \A s \in Switches : Within(iphosts'[s], Placed)
  BY <1>6 DEF HostsWithin
<1>8. ToldWithin(Placed)'
  <2>1. PICK K \in Bounds : K = Placed
    BY PlacedBounds
  <2>2. ToldWithin(K)'
    BY <1>1, <1>7, <2>1, NextTold
  <2> QED  BY <2>1, <2>2
<1>9. settled' \in BOOLEAN
  BY DEF IInv, Next, vars, Running, Arrival, Hosts, Timers, World, processPublish, processUpdate,
         processNoVid, processARPRequest, processARPReply, processIP, receive, announce, askFor,
         sendIP, publishAccessInfo, expireHost, expireMapping, move, lose, settle
<1> QED  BY <1>2, <1>6, <1>8, <1>9 DEF IInv, HostsTyped

LEMMA SpecIInv == Spec => []IInv
<1>1. IInv /\ [Next]_vars => IInv'
  BY NextIInv
<1> QED  BY InitIInv, <1>1, PTL DEF Spec

\* Tables, mappings, the caches of hosts and all frames keep to their types,
\* for any number of switches, hosts and host numbers: no handler reads an
\* entry that is not there or makes a VID that is none.
THEOREM AccessInfoTyped == Spec => []TypeOK
<1>1. IInv => TypeOK
  <2> SUFFICES ASSUME IInv PROVE TypeOK
    OBVIOUS
  <2>1. HostsTyped /\ local \in Seq(Frame) /\ frames \subseteq Frame
    BY IInvTyped
  <2> QED  BY <2>1 DEF IInv, TypeOK, HostsTyped, ToldWithin, MappingWithin, CacheWithin, Within
<1> QED  BY <1>1, SpecIInv, PTL

LEMMA LocalTold ==
  ASSUME NEW K, FramesWithin(K), NEW f \in Travelling
  PROVE  f \in Told(K)
<1>1. \A j \in DOMAIN local : local[j] \in Told(K)
  BY LenProperties, ElementOfSeq DEF FramesWithin
<1> QED  BY <1>1 DEF FramesWithin, Travelling

\* A packet passed to whoever has its VID now (processip.cc) is for that host,
\* or the two may be attached to one interface, whatever hosts leave behind,
\* however long mappings, caches and frames keep it, and whatever is given out
\* again.
THEOREM MisdeliveryBounded == Spec => []MisdeliveryNeedsSharedPlace
<1>1. IInv => MisdeliveryNeedsSharedPlace
  <2> SUFFICES ASSUME IInv, NEW f \in Travelling, f.type = "IP",
                      NEW s \in Switches, NEW ip \in DOMAIN iphosts[s],
                      iphosts[s][ip] = f.vid
               PROVE  Places[ip] \cap Places[f.dst] # {}
    BY DEF MisdeliveryNeedsSharedPlace
  <2>1. f \in Told(Placed)
    BY LocalTold DEF IInv, ToldWithin
  <2>2. f.dst \in IPs /\ f.vid \in Placed[f.dst]
    BY <2>1, ToldFields
  <2>3. ip \in IPs /\ f.vid \in Placed[ip]
    BY DEF IInv, HostsWithin, Within, IsTable
  <2> QED  BY <2>2, <2>3 DEF Placed
<1> QED  BY <1>1, SpecIInv, PTL

-----------------------------------------------------------------------------
(* AccessInfo implements Directory.                                        *)

HeldTyped == \A ip \in IPs : held[ip] \subseteq HostVIDs /\ known[ip] \subseteq HostVIDs

LEMMA HeldKnown == IInv => HeldTyped
<1> SUFFICES ASSUME IInv, NEW ip \in IPs
             PROVE  held[ip] \subseteq HostVIDs /\ known[ip] \subseteq HostVIDs
  BY DEF HeldTyped
<1>1. held[ip] \subseteq HostVIDs
  BY DEF held, IInv, HostsWithin, Within, IsTable
<1>2. \A s \in Switches : ip \in DOMAIN mapping[s] => mapping[s][ip] \in HostVIDs
  BY DEF IInv, ToldWithin, MappingWithin, Within, IsTable
<1>3. \A q \in IPs : ip \in DOMAIN cache[q] => cache[q][ip] \in HostVIDs
  BY DEF IInv, ToldWithin, CacheWithin, Within, IsTable
<1>4. \A f \in Travelling : f.svid \in HostVIDs /\ f.vid \in HostVIDs
  BY LocalTold, ToldFields DEF IInv, ToldWithin
<1> QED  BY <1>1, <1>2, <1>3, <1>4 DEF known

\* What is held and known of hosts bounds what tables and frames tell.
LEMMA KnownBounds ==
  ASSUME IInv, NEW K \in Bounds, \A ip \in IPs : held[ip] \cup known[ip] \subseteq K[ip]
  PROVE  HostsWithin(K) /\ ToldWithin(K)
<1>1. HostsWithin(K)
  <2>1. ASSUME NEW s \in Switches, NEW ip \in DOMAIN iphosts[s]
        PROVE  iphosts[s][ip] \in K[ip]
    <3>1. ip \in IPs
      BY DEF IInv, HostsWithin, Within, IsTable
    <3>2. iphosts[s][ip] \in held[ip]
      BY <3>1 DEF held
    <3> QED  BY <3>1, <3>2
  <2> QED  BY <2>1 DEF IInv, HostsWithin, Within
<1>2. MappingWithin(K)
  <2>1. ASSUME NEW s \in Switches, NEW ip \in DOMAIN mapping[s]
        PROVE  mapping[s][ip] \in K[ip]
    <3>1. ip \in IPs
      BY DEF IInv, ToldWithin, MappingWithin, Within, IsTable
    <3>2. mapping[s][ip] \in known[ip]
      BY <3>1 DEF known
    <3> QED  BY <3>1, <3>2
  <2> QED  BY <2>1 DEF IInv, ToldWithin, MappingWithin, Within
<1>3. CacheWithin(K)
  <2>1. ASSUME NEW q \in IPs, NEW ip \in DOMAIN cache[q]
        PROVE  cache[q][ip] \in K[ip]
    <3>1. ip \in IPs
      BY DEF IInv, ToldWithin, CacheWithin, Within, IsTable
    <3>2. cache[q][ip] \in known[ip]
      BY <3>1 DEF known
    <3> QED  BY <3>1, <3>2
  <2> QED  BY <2>1 DEF IInv, ToldWithin, CacheWithin, Within
<1>4. \A f \in Travelling : f \in Told(K)
  <2> SUFFICES ASSUME NEW f \in Travelling PROVE f \in Told(K)
    OBVIOUS
  <2>1. f \in Frame /\ f.src \in IPs /\ f.dst \in IPs
    BY LocalTold, ToldFields DEF IInv, ToldWithin
  <2>2. f.svid \in known[f.src]
    BY <2>1 DEF known
  <2>3. f.type # "ARP_REQUEST" => f.vid \in known[f.dst]
    BY <2>1 DEF known
  <2> QED  BY <2>1, <2>2, <2>3 DEF Told
<1>5. frames \subseteq Told(K)
  BY <1>4 DEF Travelling
<1>6. local \in Seq(Told(K))
  <2>1. local \in Seq(Frame) /\ Len(local) \in Nat /\ DOMAIN local = 1 .. Len(local)
    BY IInvTyped, LenProperties
  <2>2. local \in [1 .. Len(local) -> Told(K)]
    <3>1. local = [j \in 1 .. Len(local) |-> local[j]]
      BY <2>1, LenProperties
    <3>2. \A j \in 1 .. Len(local) : local[j] \in Told(K)
      BY <1>4, <2>1 DEF Travelling
    <3> QED  BY <3>1, <3>2
  <2> QED  BY <2>1, <2>2, SeqDef
<1> QED  BY <1>1, <1>2, <1>3, <1>5, <1>6 DEF ToldWithin, FramesWithin

\* Nothing is known of a host that is not told, after a step.
LEMMA KnownTold ==
  ASSUME NEW K, ToldWithin(K)'
  PROVE  \A ip \in IPs : known'[ip] \subseteq K[ip]
<1> SUFFICES ASSUME NEW ip \in IPs PROVE known'[ip] \subseteq K[ip]
  OBVIOUS
<1>1. \A s \in Switches : ip \in DOMAIN mapping'[s] => mapping'[s][ip] \in K[ip]
  BY DEF ToldWithin, MappingWithin, Within
<1>2. \A q \in IPs : ip \in DOMAIN cache'[q] => cache'[q][ip] \in K[ip]
  BY DEF ToldWithin, CacheWithin, Within
<1>3. \A f \in Travelling' : f \in Told(K)
  <2>1. \A j \in DOMAIN local' : local'[j] \in Told(K)
    BY LenProperties, ElementOfSeq DEF ToldWithin, FramesWithin
  <2> QED  BY <2>1 DEF ToldWithin, FramesWithin, Travelling
<1>4. \A f \in Travelling' : f.svid \in K[f.src] /\ (f.type # "ARP_REQUEST" => f.vid \in K[f.dst])
  BY <1>3, ToldFields
<1> QED  BY <1>1, <1>2, <1>4 DEF known

\* No step tells of a VID that was neither known nor held, nor is now.
LEMMA StepTells ==
  ASSUME IInv, [Next]_vars
  PROVE  Whereabouts!Tell
<1>1. IInv' /\ HostsTyped
  BY NextIInv, IInvTyped
<1>a. HeldTyped /\ HeldTyped'
  BY <1>1, HeldKnown, PTL
<1>2. \A ip \in IPs : /\ held[ip] \subseteq HostVIDs /\ known[ip] \subseteq HostVIDs
                      /\ held'[ip] \subseteq HostVIDs /\ known'[ip] \subseteq HostVIDs
  BY <1>a DEF HeldTyped
<1>3. PICK K \in Bounds : K = [ip \in IPs |-> known[ip] \cup held[ip] \cup held'[ip]]
  BY <1>2 DEF Bounds
<1>4. \A ip \in IPs : held[ip] \cup known[ip] \subseteq K[ip] /\ held'[ip] \subseteq K[ip]
  BY <1>3
<1>5. HostsWithin(K) /\ ToldWithin(K)
  BY <1>4, KnownBounds
<1>6. ASSUME NEW s \in Switches PROVE Within(iphosts'[s], K)
  <2>1. IsTable(iphosts'[s], IPs, HostVIDs)
    BY <1>1 DEF IInv, HostsWithin, Within
  <2>2. ASSUME NEW ip \in DOMAIN iphosts'[s] PROVE iphosts'[s][ip] \in K[ip]
    <3>1. ip \in IPs
      BY <2>1 DEF IsTable
    <3>2. iphosts'[s][ip] \in held'[ip]
      BY <3>1 DEF held
    <3> QED  BY <1>4, <3>1, <3>2
  <2> QED  BY <2>1, <2>2 DEF Within
<1>7. ToldWithin(K)'
  BY <1>1, <1>5, <1>6, NextTold
<1>8. \A ip \in IPs : known'[ip] \subseteq K[ip]
  BY <1>7, KnownTold
<1>9. known' \in [IPs -> SUBSET HostVIDs]
  BY <1>2 DEF known
<1> QED  BY <1>3, <1>8, <1>9 DEF Whereabouts!Tell

LEMMA StepIsDirectoryStep ==
  ASSUME IInv, [Next]_vars
  PROVE  [Whereabouts!Next]_(Whereabouts!directoryvars)
<1>0. HostsTyped /\ local \in Seq(Frame)
  BY IInvTyped
<1>t. Whereabouts!Tell
  BY StepTells
<1>1. ASSUME NEW s \in Switches, NEW ip \in IPs, NEW v \in HostVIDs, Heard(s, ip, v)
      PROVE  Whereabouts!Hear(ip)
  <2> DEFINE left == {iphosts[w][ip] : w \in {w \in Switches \ {s} : ip \in DOMAIN iphosts[w]}}
  <2>1. left \in SUBSET held[ip]
    BY DEF held
  <2>2. /\ iphosts'[s] = Put(iphosts[s], ip, v)
        /\ \A w \in Switches \ {s} : iphosts'[w] = iphosts[w]
    BY <1>0, <1>1 DEF Heard, HostsTyped
  <2>3. held'[ip] = left \cup {v}
    <3>1. ip \in DOMAIN iphosts'[s] /\ iphosts'[s][ip] = v
      BY <2>2 DEF Put
    <3> QED  BY <2>2, <3>1 DEF held
  <2>4. \A q \in IPs \ {ip} : held'[q] = held[q]
    <3>1. \A q \in IPs \ {ip} : /\ q \in DOMAIN iphosts'[s] <=> q \in DOMAIN iphosts[s]
                                /\ q \in DOMAIN iphosts[s] => iphosts'[s][q] = iphosts[s][q]
      BY <2>2 DEF Put
    <3> QED  BY <2>2, <3>1 DEF held
  <2> HIDE DEF left
  <2>5. held' = [held EXCEPT ![ip] = left \cup {v}]
    BY <2>3, <2>4 DEF held
  <2> QED  BY <1>1, <1>t, <2>1, <2>5 DEF Whereabouts!Hear, Heard
<1>2. ASSUME NEW s \in Switches, NEW ip \in IPs, Forgotten(s, ip)
      PROVE  Whereabouts!Forget(ip)
  <2> DEFINE left == {iphosts[w][ip] : w \in {w \in Switches \ {s} : ip \in DOMAIN iphosts[w]}}
  <2>1. left \in SUBSET held[ip]
    BY DEF held
  <2>2. /\ iphosts'[s] = Erase(iphosts[s], ip)
        /\ \A w \in Switches \ {s} : iphosts'[w] = iphosts[w]
    BY <1>0, <1>2 DEF Forgotten, HostsTyped
  <2>3. held'[ip] = left
    <3>1. ip \notin DOMAIN iphosts'[s]
      BY <2>2 DEF Erase
    <3> QED  BY <2>2, <3>1 DEF held
  <2>4. \A q \in IPs \ {ip} : held'[q] = held[q]
    <3>1. \A q \in IPs \ {ip} : /\ q \in DOMAIN iphosts'[s] <=> q \in DOMAIN iphosts[s]
                                /\ q \in DOMAIN iphosts[s] => iphosts'[s][q] = iphosts[s][q]
      BY <2>2 DEF Erase
    <3> QED  BY <2>2, <3>1 DEF held
  <2> HIDE DEF left
  <2>5. held' = [held EXCEPT ![ip] = left]
    <3>1. DOMAIN held = IPs /\ DOMAIN held' = IPs
      BY DEF held
    <3>2. held' = [q \in IPs |-> held'[q]]
      BY DEF held
    <3> QED  BY <2>3, <2>4, <3>1, <3>2
  <2> QED  BY <1>2, <1>t, <2>1, <2>5 DEF Whereabouts!Forget, Forgotten
<1>3. ASSUME NEW ip \in IPs, Moved(ip)
      PROVE  Whereabouts!Move(ip)
  <2>1. Travelling' = Travelling
    BY <1>3 DEF Moved, Travelling
  <2>2. held' = held
    BY <1>3 DEF Moved, held
  <2>3. known' = known
    BY <1>3, <2>1 DEF Moved, known
  <2> QED  BY <1>3, <2>2, <2>3 DEF Whereabouts!Move, Moved
<1>4. CASE at' = at /\ iphosts' = iphosts
  <2>1. held' = held
    BY <1>4 DEF held
  <2>2. ASSUME NEW ip \in IPs PROVE Whereabouts!Forget(ip)
    <3>1. held' = [held EXCEPT ![ip] = held[ip]] /\ held[ip] \in SUBSET held[ip]
      BY <2>1 DEF held
    <3> QED  BY <1>4, <1>t, <3>1 DEF Whereabouts!Forget
  <2>3. CASE IPs = {}
    <3>1. known' = known
      BY <2>3 DEF known
    <3> QED  BY <1>4, <2>1, <3>1 DEF Whereabouts!directoryvars
  <2> QED  BY <2>2, <2>3 DEF Whereabouts!Next
<1> QED  BY <1>0, <1>1, <1>2, <1>3, <1>4, HostsStep DEF Whereabouts!Next

\* The switches implement Directory, for any number of them and of hosts:
\* publications, updates, requests, replies and detours, lost, delayed or
\* looped back, and every timer only tell on or forget what hosts were given
\* where they were heard.
THEOREM DirectoryImplemented == Spec => ImplementsDirectory
<1>1. Init => Whereabouts!Init
  BY AccessAssumption DEF Init, Whereabouts!Init, held, known, Travelling, EmptyTable
<1>2. IInv /\ [Next]_vars => [Whereabouts!Next]_(Whereabouts!directoryvars)
  BY StepIsDirectoryStep
<1> QED  BY <1>1, <1>2, SpecIInv, PTL DEF Spec, ImplementsDirectory, Whereabouts!Spec
=============================================================================
