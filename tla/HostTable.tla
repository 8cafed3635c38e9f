----------------------------- MODULE HostTable -----------------------------
(***************************************************************************)
(* VEILHostTable (src/click-cc/veil/hosttable.cc): the hosts attached to   *)
(* one switch, the host VID each was given, and the timers that drop       *)
(* silent hosts.  A host VID is the VID of the interface (a member of      *)
(* SwitchVIDs) followed by a host number: a pair here.                     *)
(***************************************************************************)
EXTENDS Integers, HashTable

CONSTANTS IPs, MACs,      \* addresses of hosts
          Ports,          \* interface indices of the switch
          SwitchVIDs,     \* VIDs its interfaces may have
          NumIds          \* host numbers per interface VID, 2^16 in the code

ASSUME NumIdsAssumption == NumIds \in Nat \ {0}

Ids      == 0 .. NumIds - 1
HostVIDs == SwitchVIDs \X Ids

\* A timer is known by the data it was made with.
Timers == [ip : IPs, hostvid : HostVIDs]

VARIABLES hosts,      \* host VID -> MAC
          rhosts,     \* MAC -> host VID
          iphosts,    \* IP -> host VID
          inthosts,   \* IP -> [interfaceid, expiry]
          timers,     \* the scheduled timers
          running     \* the configuration has been read
tables == <<hosts, rhosts, iphosts, inthosts, timers>>
vars == <<hosts, rhosts, iphosts, inthosts, timers, running>>

TypeOK == /\ IsTable(hosts, HostVIDs, MACs)
          /\ IsTable(rhosts, MACs, HostVIDs)
          /\ IsTable(iphosts, IPs, HostVIDs)
          /\ IsTable(inthosts, IPs, [interfaceid : Ports, expiry : Timers])
          /\ timers \subseteq Timers
          /\ running \in BOOLEAN

Init == /\ hosts = EmptyTable /\ rhosts = EmptyTable
        /\ iphosts = EmptyTable /\ inthosts = EmptyTable
        /\ timers = {}
        /\ running = FALSE

\* updateEntry for an IP with no entry, the only case its callers meet: a new
\* timer, and the four tables.  h, r, p, n, t are the tables it works on.
updateEntry(h, r, p, n, t, vid, mac, ip, port) ==
  LET timer == [ip |-> ip, hostvid |-> vid] IN
  /\ hosts'    = Put(h, vid, mac)
  /\ rhosts'   = Put(r, mac, vid)
  /\ iphosts'  = Put(p, ip, vid)
  /\ inthosts' = Put(n, ip, [interfaceid |-> port, expiry |-> timer])
  /\ timers'   = t \cup {timer}

\* A static host of the configuration.  A configuration is taken to name an
\* IP or a VID at most once.
cp_host(vid, mac, ip, port) ==
  /\ ~ running
  /\ ip \notin DOMAIN inthosts /\ vid \notin DOMAIN hosts
  /\ updateEntry(hosts, rhosts, iphosts, inthosts, timers, vid, mac, ip, port)
  /\ UNCHANGED running

configured == ~ running /\ running' = TRUE /\ UNCHANGED tables

\* The host is known at this interface and the interface has the same VID.
Unmoved(ip, port, svid) ==
  /\ ip \in DOMAIN inthosts /\ inthosts[ip].interfaceid = port
  /\ ip \in DOMAIN iphosts /\ iphosts[ip][1] = svid

\* Mutants: the old VID stays in hosts; the old timer is not unscheduled.
KeepOldHost(ip)  == hosts
KeepOldTimer(ip) == timers

\* The tables once generate_host_vid removed the old mapping of ip, if any.
\* The MAC it removes is the one in the packet at hand.
WithoutHosts(ip)       == IF ip \in DOMAIN inthosts THEN Erase(hosts, iphosts[ip]) ELSE hosts
WithoutRhosts(ip, mac) == IF ip \in DOMAIN inthosts THEN Erase(rhosts, mac) ELSE rhosts
WithoutIphosts(ip)     == IF ip \in DOMAIN inthosts THEN Erase(iphosts, ip) ELSE iphosts
WithoutInthosts(ip)    == IF ip \in DOMAIN inthosts THEN Erase(inthosts, ip) ELSE inthosts
WithoutTimer(ip)       == IF ip \in DOMAIN inthosts THEN timers \ {inthosts[ip].expiry}
                                                    ELSE timers

\* Mutant: the numbers in use are looked up by MAC, and a MAC may have several IPs.
FreeIdsByMac(h, svid) == {id \in Ids : \A mac \in DOMAIN rhosts : rhosts[mac] # <<svid, id>>}

FreeIds(h, svid) == {id \in Ids : <<svid, id>> \notin DOMAIN h}

\* Mutants: the search does not wrap around; the number is used unchecked.
FirstFreeNoWrap(h, svid, start) ==
  LET Free(d) == (start + d) % NumIds \in FreeIds(h, svid)
      dist    == CHOOSE d \in Ids : Free(d) /\ \A e \in Ids : Free(e) => d <= e
  IN  start + dist
AnyNumber(h, svid, start) == start

\* The linear search from the random number start, with wrap-around.
FirstFree(h, svid, start) ==
  LET Free(d) == (start + d) % NumIds \in FreeIds(h, svid)
      dist    == CHOOSE d \in Ids : Free(d) /\ \A e \in Ids : Free(e) => d <= e
  IN  (start + dist) % NumIds

\* generate_host_vid, known and unmoved: the timer is rescheduled and the MAC
\* of the packet is recorded.
refreshHost(ip, mac, port, svid) ==
  /\ running /\ Unmoved(ip, port, svid)
  /\ hosts'   = Put(hosts, iphosts[ip], mac)
  /\ rhosts'  = Put(rhosts, mac, iphosts[ip])
  /\ UNCHANGED <<iphosts, inthosts, timers, running>>

\* generate_host_vid, new or moved: the old mapping goes and the first free
\* number from start is assigned.
assignHost(ip, mac, port, svid, start) ==
  /\ running /\ ~ Unmoved(ip, port, svid)
  /\ FreeIds(WithoutHosts(ip), svid) # {}
  /\ updateEntry(WithoutHosts(ip), WithoutRhosts(ip, mac), WithoutIphosts(ip),
                 WithoutInthosts(ip), WithoutTimer(ip),
                 <<svid, FirstFree(WithoutHosts(ip), svid, start)>>, mac, ip, port)
  /\ UNCHANGED running

\* generate_host_vid with every number taken: the old mapping is gone all the
\* same.
exhausted(ip, mac, port, svid) ==
  /\ running /\ ~ Unmoved(ip, port, svid)
  /\ FreeIds(WithoutHosts(ip), svid) = {}
  /\ hosts'    = WithoutHosts(ip)
  /\ rhosts'   = WithoutRhosts(ip, mac)
  /\ iphosts'  = WithoutIphosts(ip)
  /\ inthosts' = WithoutInthosts(ip)
  /\ timers'   = WithoutTimer(ip)
  /\ UNCHANGED running

generate_host_vid(ip, mac, port, svid) ==
  \/ refreshHost(ip, mac, port, svid)
  \/ \E start \in Ids : assignHost(ip, mac, port, svid, start)
  \/ exhausted(ip, mac, port, svid)

\* The VID and the MAC that expire and deleteIP find and drop.  Each stops at
\* the first table that lacks its key.
DropVid(ip) ==
  LET vid == iphosts[ip]
      mac == hosts[vid]
  IN  /\ iphosts'  = Erase(iphosts, ip)
      /\ inthosts' = Erase(inthosts, ip)
      /\ hosts'    = Erase(hosts, vid)
      /\ rhosts'   = IF vid \in DOMAIN hosts THEN Erase(rhosts, mac) ELSE rhosts

\* A timer whose VID is no longer the host's changes nothing.
expire(t) ==
  /\ t \in timers
  /\ IF t.ip \in DOMAIN iphosts /\ iphosts[t.ip] = t.hostvid
       THEN DropVid(t.ip)
       ELSE UNCHANGED <<hosts, rhosts, iphosts, inthosts>>
  /\ timers' = timers \ {t}
  /\ UNCHANGED running

deleteIP(ip) ==
  /\ running /\ ip \in DOMAIN inthosts
  /\ IF ip \in DOMAIN iphosts
       THEN DropVid(ip)
       ELSE inthosts' = Erase(inthosts, ip) /\ UNCHANGED <<hosts, rhosts, iphosts>>
  /\ timers' = timers \ {inthosts[ip].expiry}
  /\ UNCHANGED running

Next ==
  \/ \E vid \in HostVIDs, mac \in MACs, ip \in IPs, port \in Ports :
        cp_host(vid, mac, ip, port)
  \/ configured
  \/ \E ip \in IPs, mac \in MACs, port \in Ports, svid \in SwitchVIDs :
        generate_host_vid(ip, mac, port, svid)
  \/ \E t \in timers : running /\ expire(t)
  \/ \E ip \in IPs : deleteIP(ip)

Spec == Init /\ [][Next]_vars

-----------------------------------------------------------------------------
\* No two hosts share a VID, whatever moved, expired, was deleted or was
\* renumbered in between: the VID is what packets are delivered by.
HostVIDsUnique ==
  \A a, b \in DOMAIN iphosts : iphosts[a] = iphosts[b] => a = b

\* The three tables keyed from the host's IP describe the same hosts: an IP
\* has an interface exactly when it has a VID, and the VIDs in use are those
\* that lead to a MAC.  It is why the error branches of expire and deleteIP
\* ("is not present in ...") are never taken for them.
TablesAgree ==
  /\ DOMAIN inthosts = DOMAIN iphosts
  /\ DOMAIN hosts = {iphosts[ip] : ip \in DOMAIN iphosts}

\* Every host has exactly one running timer, made for the VID it has now: no
\* entry is immortal, and no timer left over from an earlier stay of the host
\* removes its new entry.
OneTimerPerHost ==
  /\ timers = {inthosts[ip].expiry : ip \in DOMAIN inthosts}
  /\ \A ip \in DOMAIN inthosts :
        ip \in DOMAIN iphosts
          => inthosts[ip].expiry = [ip |-> ip, hostvid |-> iphosts[ip]]

\* A host keeps its VID while it stays at its interface and the interface
\* keeps its VID: a VID handed out in an ARP reply stays right until the host
\* moves, is renumbered or expires.
HostKeepsVID ==
  [][\A ip \in IPs :
       /\ ip \in DOMAIN iphosts /\ ip \in DOMAIN iphosts'
       /\ ip \in DOMAIN inthosts /\ ip \in DOMAIN inthosts'
       /\ inthosts'[ip].interfaceid = inthosts[ip].interfaceid
       /\ iphosts'[ip][1] = iphosts[ip][1]
       => iphosts'[ip] = iphosts[ip]]_vars

\* The leases the tables stand for.
leasesHeld == [ip \in DOMAIN inthosts |->
                 [vid |-> iphosts[ip], mac |-> hosts[iphosts[ip]],
                  interfaceid |-> inthosts[ip].interfaceid]]

Registry == INSTANCE HostRegistry WITH leases <- leasesHeld

\* Whatever the order in which hosts move, are heard again, renumbered,
\* deleted or expire, the tables behave as one registry of leases: each step
\* grants a free VID to one host that has none here, records one MAC, ends one
\* lease, or changes nothing, and the leases of the other hosts stay as they
\* are although four tables are written one after the other.
ImplementsRegistry == Registry!Spec
=============================================================================
