----------------------------- MODULE AccessInfo -----------------------------
(***************************************************************************)
(* How switches find the hosts: every IP has an access switch, which maps  *)
(* it to the host's VID.  The switch a host is attached to gives it a VID  *)
(* and publishes it (hosttable.cc, publishaccessinfo.cc), the access       *)
(* switch records it and tells a former switch to forget the host          *)
(* (processaccessinfo.cc, mappingtable.cc), ARP requests are answered from *)
(* the map (processarp.cc), and a packet for a VID that is gone is sent    *)
(* after the host by way of the access switch (processip.cc).  Hosts move, *)
(* frames are lost and overtake each other, entries expire.                *)
(*                                                                         *)
(* A frame for a VID, or for the access switch of an IP, goes to its       *)
(* switch in one step: the way there is the subject of Routing.  Frames a  *)
(* switch sends to itself are handled before anything else (local), as     *)
(* Click does it.  The host table is its IP -> VID part: that VIDs are     *)
(* unique and lead to a MAC exactly while an IP has them is proved in      *)
(* HostTableProofs.                                                        *)
(***************************************************************************)
EXTENDS Integers, FiniteSets, Sequences, HashTable

CONSTANTS Switches, Interfaces,
          SwitchOf,      \* interface -> its switch
          IPs,           \* hosts, each with a MAC of its own
          Places,        \* IP -> interfaces the host may be attached to
          Talks,         \* pairs <<src, dst>> of hosts that talk
          NumIds,        \* host numbers per interface
          AccessOf,      \* calculate_access_switch
          MaxInFlight    \* bound: hosts and timers wait while more is under way

ASSUME AccessAssumption ==
  /\ SwitchOf \in [Interfaces -> Switches]
  /\ Places \in [IPs -> SUBSET Interfaces]
  /\ Talks \subseteq IPs \X IPs
  /\ AccessOf \in [IPs -> Switches]
  /\ NumIds \in Nat /\ IsFiniteSet(IPs)
  /\ \A i \in Interfaces : Cardinality({ip \in IPs : i \in Places[ip]}) <= NumIds

HostVIDs == Interfaces \X (0 .. NumIds - 1)
Home(v)  == SwitchOf[v[1]]

VARIABLES at,        \* IP -> interface the host is attached to
          iphosts,   \* switch -> IP -> host VID
          mapping,   \* switch -> IP -> host VID, for the IPs it is access switch of
          cache,     \* IP -> the host's own ARP cache: IP -> host VID
          frames,    \* frames under way between switches
          local,     \* frames the running handlers looped back
          settled    \* hosts stopped moving, nothing is lost any more
vars == <<at, iphosts, mapping, cache, frames, local, settled>>

\* svid is the VID of src, vid that of dst; in an ARP reply src is the IP
\* asked for, and a mapping has the same IP and VID twice.
Frame == [type : {"MAP_PUBLISH", "MAP_UPDATE", "NO_VID", "ARP_REQUEST", "ARP_REPLY", "IP"},
          to : Switches, src : IPs, svid : HostVIDs, dst : IPs, vid : HostVIDs]

TypeOK ==
  /\ at \in [IPs -> Interfaces]
  /\ DOMAIN iphosts = Switches /\ DOMAIN mapping = Switches /\ DOMAIN cache = IPs
  /\ \A s \in Switches : /\ IsTable(iphosts[s], IPs, HostVIDs)
                         /\ IsTable(mapping[s], IPs, HostVIDs)
  /\ \A ip \in IPs : IsTable(cache[ip], IPs, HostVIDs)
  /\ frames \subseteq Frame
  /\ local \in Seq(Frame)
  /\ settled \in BOOLEAN

Init ==
  /\ at \in [IPs -> Interfaces] /\ \A ip \in IPs : at[ip] \in Places[ip]
  /\ iphosts = [s \in Switches |-> EmptyTable]
  /\ mapping = [s \in Switches |-> EmptyTable]
  /\ cache = [ip \in IPs |-> EmptyTable]
  /\ frames = {} /\ local = <<>>
  /\ settled = FALSE

Idle  == local = <<>>
Quiet == Idle /\ Cardinality(frames) <= MaxInFlight

-----------------------------------------------------------------------------
NewFrame(type, to, src, svid, dst, vid) ==
  [type |-> type, to |-> to, src |-> src, svid |-> svid, dst |-> dst, vid |-> vid]

publish_access_info_packet(ip, v) == NewFrame("MAP_PUBLISH", AccessOf[ip], ip, v, ip, v)
update_access_info_packet(ip, v, old) == NewFrame("MAP_UPDATE", Home(old), ip, v, ip, v)

\* Mutant: the VIDs of the two hosts are swapped.
ARPReplySwapped(f, v) == NewFrame("ARP_REPLY", Home(f.svid), f.dst, f.svid, f.src, v)

\* The answer to f (a request, or a packet sent on) that its dst is at v.
ARPReply(f, v) == NewFrame("ARP_REPLY", Home(f.svid), f.dst, v, f.src, f.svid)

\* An IP packet on its detour by the access switch, and on its way from there.
create_an_encapsulated_packet_to_access_switch(f) ==
  [f EXCEPT !.type = "NO_VID", !.to = AccessOf[f.dst]]
update_vid_on_no_vid_to_access_switch_packet(f, v) ==
  [f EXCEPT !.type = "IP", !.to = Home(v), !.vid = v]

\* Switch s sends the frames of out, two at most; what it was doing is left to
\* rest.
Looped(s, out, j) == IF j \in DOMAIN out /\ out[j].to = s THEN <<out[j]>> ELSE <<>>
Emit(s, out, rest) ==
  /\ local' = Looped(s, out, 1) \o Looped(s, out, 2) \o rest
  /\ frames' = frames \cup {out[j] : j \in {j \in DOMAIN out : out[j].to # s}}

When(cond, f) == IF cond THEN <<f>> ELSE <<>>

\* The host table searched by IP and by VID, and the mapping table.
lookupIP(s, ip)      == ip \in DOMAIN iphosts[s]
lookupVID(s, v)      == \E ip \in DOMAIN iphosts[s] : iphosts[s][ip] = v
lookupMapping(s, ip) == ip \in DOMAIN mapping[s]

updateMapping(s, ip, v) == mapping' = [mapping EXCEPT ![s] = Put(@, ip, v)]

\* RoutePacket, a frame for a host of this switch: it leaves by the interface
\* the host's VID is of.
HostPort(v) == v[1]

Handles(type) == local # <<>> /\ Head(local).type = type

-----------------------------------------------------------------------------
(* What a switch does with frames of other switches, or its own.           *)

receive(f) ==
  /\ Idle /\ f \in frames
  /\ frames' = frames \ {f}
  /\ local' = <<f>>
  /\ UNCHANGED <<at, iphosts, mapping, cache, settled>>

\* Mutant: updateEntry changes its copy of an entry and does not put it back.
processPublishNotStored ==
  /\ Handles("MAP_PUBLISH")
  /\ LET f == Head(local)
         s == f.to
         moved == lookupMapping(s, f.dst) /\ mapping[s][f.dst] # f.vid
     IN  /\ mapping' = IF moved THEN mapping
                      ELSE [mapping EXCEPT ![s] = Put(@, f.dst, f.vid)]
         /\ Emit(s, When(moved, update_access_info_packet(f.dst, f.vid, mapping[s][f.dst])),
                 Tail(local))
  /\ UNCHANGED <<at, iphosts, cache, settled>>

\* ProcessAccessInfo at the access switch: the mapping is recorded, and the
\* switch of a different one that was there is told.
processPublish ==
  /\ Handles("MAP_PUBLISH")
  /\ LET f == Head(local)
         s == f.to
         moved == lookupMapping(s, f.dst) /\ mapping[s][f.dst] # f.vid
     IN  /\ updateMapping(s, f.dst, f.vid)
         /\ Emit(s, When(moved, update_access_info_packet(f.dst, f.vid, mapping[s][f.dst])),
                 Tail(local))
  /\ UNCHANGED <<at, iphosts, cache, settled>>

\* ProcessAccessInfo at a former switch: deleteIP, unless the mapping is its own.
processUpdate ==
  /\ Handles("MAP_UPDATE")
  /\ LET f == Head(local)
         s == f.to
     IN  iphosts' = IF lookupIP(s, f.dst) /\ iphosts[s][f.dst] # f.vid
                      THEN [iphosts EXCEPT ![s] = Erase(@, f.dst)] ELSE iphosts
  /\ local' = Tail(local)
  /\ UNCHANGED <<at, mapping, cache, frames, settled>>

\* Mutant: the sender is not told.
processNoVidSilently ==
  /\ Handles("NO_VID")
  /\ LET f == Head(local)
         s == f.to
         v == mapping[s][f.dst]
         moved == lookupMapping(s, f.dst) /\ v # f.vid
     IN  Emit(s, When(moved, update_vid_on_no_vid_to_access_switch_packet(f, v)), Tail(local))
  /\ UNCHANGED <<at, iphosts, mapping, cache, settled>>

\* ProcessAccessInfo, a packet that found its VID gone: dropped if no other
\* VID is known; else the sender is told and the packet sent on.
processNoVid ==
  /\ Handles("NO_VID")
  /\ LET f == Head(local)
         s == f.to
         v == mapping[s][f.dst]
         moved == lookupMapping(s, f.dst) /\ v # f.vid
     IN  Emit(s, When(moved, ARPReply(f, v))
                   \o When(moved, update_vid_on_no_vid_to_access_switch_packet(f, v)),
              Tail(local))
  /\ UNCHANGED <<at, iphosts, mapping, cache, settled>>

\* ProcessARP, a request at the access switch: the mapping comes first, then
\* its own hosts.
processARPRequest ==
  /\ Handles("ARP_REQUEST")
  /\ LET f == Head(local)
         s == f.to
         found == lookupMapping(s, f.dst) \/ lookupIP(s, f.dst)
         v == IF lookupMapping(s, f.dst) THEN mapping[s][f.dst] ELSE iphosts[s][f.dst]
     IN  Emit(s, When(found, ARPReply(f, v)), Tail(local))
  /\ UNCHANGED <<at, iphosts, mapping, cache, settled>>

\* ProcessARP, a reply for a host of this switch: passed to whichever host has
\* the VID it is for by now, if it is still there.  A host takes in no answer
\* that is for another one.  For a host that is gone the frame is looped back
\* until its TTL is over.
Hears(s, v) == {ip \in DOMAIN iphosts[s] : iphosts[s][ip] = v /\ at[ip] = HostPort(v)}

processARPReply ==
  /\ Handles("ARP_REPLY")
  /\ LET f == Head(local)
         mine == lookupIP(f.to, f.dst) /\ lookupVID(f.to, f.vid)
         takenIn == mine /\ f.dst \in Hears(f.to, f.vid)
     IN  cache' = IF takenIn THEN [cache EXCEPT ![f.dst] = Put(@, f.src, f.svid)] ELSE cache
  /\ local' = Tail(local)
  /\ UNCHANGED <<at, iphosts, mapping, frames, settled>>

\* ProcessIP, a packet from another switch: passed to the host with that VID;
\* if there is none, to the access switch of its destination.
processIP ==
  /\ Handles("IP")
  /\ LET f == Head(local)
         s == f.to
     IN  Emit(s, When(~ lookupVID(s, f.vid), create_an_encapsulated_packet_to_access_switch(f)), Tail(local))
  /\ UNCHANGED <<at, iphosts, mapping, cache, settled>>

-----------------------------------------------------------------------------
(* What hosts and timers start.                                            *)

\* generate_host_vid for host ip at interface i of switch s: its VID stays
\* while it stays at i; otherwise it gets any free number of i.
Unmoved(s, ip, i) == ip \in DOMAIN iphosts[s] /\ iphosts[s][ip][1] = i

\* Mutant: one number too many.
GivenVIDsUpTo(s, ip, i) ==
  IF Unmoved(s, ip, i) THEN {iphosts[s][ip]}
  ELSE {v \in {i} \X (0 .. NumIds) :
          \A q \in DOMAIN iphosts[s] \ {ip} : iphosts[s][q] # v}

\* Mutant: a number of any interface of the switch.
GivenVIDsAnywhere(s, ip, i) ==
  IF Unmoved(s, ip, i) THEN {iphosts[s][ip]}
  ELSE {v \in HostVIDs : Home(v) = s /\ \A q \in DOMAIN iphosts[s] \ {ip} : iphosts[s][q] # v}

GivenVIDs(s, ip, i) ==
  IF Unmoved(s, ip, i) THEN {iphosts[s][ip]}
  ELSE {v \in {i} \X (0 .. NumIds - 1) :
          \A q \in DOMAIN iphosts[s] \ {ip} : iphosts[s][q] # v}

\* A host that was given VID v is registered, and published if v is new.
Register(s, ip, v) == iphosts' = [iphosts EXCEPT ![s] = Put(@, ip, v)]
Publication(s, ip, v) == When(~ Unmoved(s, ip, v[1]), publish_access_info_packet(ip, v))

\* ProcessARP, a gratuitous ARP of a host.
announce(ip) ==
  /\ Quiet
  /\ LET s == SwitchOf[at[ip]] IN
     \E v \in GivenVIDs(s, ip, at[ip]) :
        /\ Register(s, ip, v)
        /\ Emit(s, Publication(s, ip, v), <<>>)
  /\ UNCHANGED <<at, mapping, cache, settled>>

\* ProcessARP, a host asks for another one: answered for a host of this switch
\* (at its own interface, that host answers itself) or a mapping held here;
\* else the access switch is asked.
askFor(src, dst) ==
  /\ Quiet
  /\ LET s == SwitchOf[at[src]]
         here == lookupIP(s, dst) \/ lookupMapping(s, dst)
         w == IF lookupIP(s, dst) THEN iphosts[s][dst] ELSE mapping[s][dst]
     IN  \E v \in GivenVIDs(s, src, at[src]) :
           /\ Register(s, src, v)
           /\ Emit(s, Publication(s, src, v)
                        \o When(~ here,
                                NewFrame("ARP_REQUEST", AccessOf[dst], src, v, dst, v)), <<>>)
           /\ cache' = IF here /\ (lookupIP(s, dst) => HostPort(w) # at[src])
                         THEN [cache EXCEPT ![src] = Put(@, dst, w)] ELSE cache
  /\ UNCHANGED <<at, mapping, settled>>

\* ProcessIP, a packet of a host: rewritten for a host of this switch, else
\* encapsulated and sent to the VID the host knows.
sendIP(src, dst) ==
  /\ Quiet /\ dst \in DOMAIN cache[src]
  /\ LET s == SwitchOf[at[src]]
         w == cache[src][dst]
     IN  \E v \in GivenVIDs(s, src, at[src]) :
           /\ Register(s, src, v)
           /\ Emit(s, Publication(s, src, v)
                        \o When(~ lookupIP(s, dst),
                                NewFrame("IP", Home(w), src, v, dst, w)), <<>>)
  /\ UNCHANGED <<at, mapping, cache, settled>>

\* PublishAccessInfo, run_timer: every host is published, those s is access
\* switch of to itself, in the order of the hash table.
publishAccessInfo(s) ==
  /\ Quiet
  /\ LET own == {ip \in DOMAIN iphosts[s] : AccessOf[ip] = s}
         published(ip) == publish_access_info_packet(ip, iphosts[s][ip])
     IN  /\ \E order \in [1 .. Cardinality(own) -> own] :
               /\ \A ip \in own : \E j \in DOMAIN order : order[j] = ip
               /\ local' = [j \in DOMAIN order |-> published(order[j])]
         /\ frames' = frames \cup {published(ip) : ip \in DOMAIN iphosts[s] \ own}
  /\ UNCHANGED <<at, iphosts, mapping, cache, settled>>

\* A host is forgotten 60 s after it was last heard: at a switch it left, or
\* where it is silent for so long (as long as hosts may be).
expireHost(s, ip) ==
  /\ Idle /\ ip \in DOMAIN iphosts[s]
  /\ settled => at[ip] # iphosts[s][ip][1]
  /\ iphosts' = [iphosts EXCEPT ![s] = Erase(@, ip)]
  /\ UNCHANGED <<at, mapping, cache, frames, local, settled>>

\* A mapping that is not published for 60 s.
expireMapping(s, ip) ==
  /\ Idle /\ ~ settled /\ ip \in DOMAIN mapping[s]
  /\ mapping' = [mapping EXCEPT ![s] = Erase(@, ip)]
  /\ UNCHANGED <<at, iphosts, cache, frames, local, settled>>

-----------------------------------------------------------------------------
(* What happens around the switches.                                       *)

move(ip, i) ==
  /\ Idle /\ ~ settled /\ i \in Places[ip] \ {at[ip]}
  /\ at' = [at EXCEPT ![ip] = i]
  /\ UNCHANGED <<iphosts, mapping, cache, frames, local, settled>>

lose(f) ==
  /\ Idle /\ ~ settled /\ f \in frames
  /\ frames' = frames \ {f}
  /\ UNCHANGED <<at, iphosts, mapping, cache, local, settled>>

settle ==
  /\ ~ settled /\ settled' = TRUE
  /\ UNCHANGED <<at, iphosts, mapping, cache, frames, local>>

Running == \/ processPublish \/ processUpdate \/ processNoVid
           \/ processARPRequest \/ processARPReply \/ processIP

Arrival == \E f \in frames : receive(f)

Hosts == \/ \E ip \in IPs : announce(ip)
         \/ \E t \in Talks : askFor(t[1], t[2]) \/ sendIP(t[1], t[2])

Timers == \E s \in Switches :
            \/ publishAccessInfo(s)
            \/ \E ip \in DOMAIN iphosts[s] : expireHost(s, ip)
            \/ \E ip \in DOMAIN mapping[s] : expireMapping(s, ip)

World == \/ \E ip \in IPs : \E i \in Places[ip] : move(ip, i)
         \/ \E f \in frames : lose(f)
         \/ settle

Next == Running \/ Arrival \/ Hosts \/ Timers \/ World

Spec == Init /\ [][Next]_vars

\* Handlers finish, frames that are not lost arrive, the publication timer
\* (24 s) and those of hosts that left (60 s) fire.  A host that has moved
\* sends something sooner or later, and hosts that talk go on talking.
Fairness ==
  /\ WF_vars(Running) /\ WF_vars(settle)
  /\ \A s \in Switches : /\ SF_vars(publishAccessInfo(s))
                         /\ SF_vars(\E f \in frames : f.to = s /\ receive(f))
  /\ SF_vars(\E s \in Switches : \E ip \in DOMAIN iphosts[s] : expireHost(s, ip))
  /\ \A ip \in IPs : SF_vars(announce(ip))
  /\ \A t \in Talks : SF_vars(sendIP(t[1], t[2]))

FairSpec == Spec /\ Fairness

-----------------------------------------------------------------------------
Travelling == frames \cup {local[j] : j \in DOMAIN local}

\* The VIDs of a host in the tables of switches; and those in mappings, in the
\* caches of hosts and in frames, where an ARP request has none of its dst.
held == [ip \in IPs |-> {iphosts[s][ip] : s \in {s \in Switches : ip \in DOMAIN iphosts[s]}}]
known ==
  [ip \in IPs |->
     UNION {{mapping[s][ip] : s \in {s \in Switches : ip \in DOMAIN mapping[s]}},
            {cache[q][ip] : q \in {q \in IPs : ip \in DOMAIN cache[q]}},
            {f.svid : f \in {f \in Travelling : f.src = ip}},
            {f.vid : f \in {f \in Travelling : f.dst = ip /\ f.type # "ARP_REQUEST"}}}]

\* However frames are delayed, looped back or sent on, and whatever expires, a
\* VID of a host comes up only by the host being heard there.
Whereabouts == INSTANCE Directory
ImplementsDirectory == Whereabouts!Spec

\* A packet for a VID is passed to whoever has the VID now (processip.cc:327).
\* That is another host than the one it is for only if the two may be attached
\* to one interface, where a host number that was given up is given out again.
MisdeliveryNeedsSharedPlace ==
  \A f \in Travelling : f.type = "IP" =>
    \A s \in Switches : \A ip \in DOMAIN iphosts[s] :
       iphosts[s][ip] = f.vid => ip = f.dst \/ Places[ip] \cap Places[f.dst] # {}

\* The host has VID v where it is.
Present(ip, v) ==
  LET s == SwitchOf[at[ip]]
  IN  v[1] = at[ip] /\ ip \in DOMAIN iphosts[s] /\ iphosts[s][ip] = v

\* Once hosts stay where they are and nothing more is lost, every host has a
\* VID where it is and nowhere else, and its access switch maps it to that
\* VID, however late the last publications and updates come in.
DirectoryFollows ==
  <>[](\A ip \in IPs :
        /\ ip \in DOMAIN mapping[AccessOf[ip]] /\ Present(ip, mapping[AccessOf[ip]][ip])
        /\ \A s \in Switches : ip \in DOMAIN iphosts[s] => s = SwitchOf[at[ip]])

\* And what hosts send to each other arrives: the other one is on the same
\* switch, or the VID the sender knows, if it knows one, is where it is.
PacketsFollow ==
  <>[](\A t \in Talks : \A v \in {cache[t[1]][ip] : ip \in DOMAIN cache[t[1]] \cap {t[2]}} :
         Present(t[2], v) \/ SwitchOf[at[t[1]]] = SwitchOf[at[t[2]]])
=============================================================================
