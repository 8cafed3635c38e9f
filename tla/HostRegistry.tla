---------------------------- MODULE HostRegistry ----------------------------
(***************************************************************************)
(* What a switch promises about the hosts attached to it, without the six  *)
(* tables of VEILHostTable and their timers: a host, known by its IP, has  *)
(* at most one lease, a host VID at an interface for the MAC it used last. *)
(* HostTable is shown to implement this (HostTable!ImplementsRegistry).    *)
(***************************************************************************)
EXTENDS HashTable

CONSTANTS IPs, MACs, Ports,
          HostVIDs          \* pairs <<VID of an interface, host number>>

VARIABLE leases             \* IP -> its lease

Lease == [vid : HostVIDs, mac : MACs, interfaceid : Ports]

Init == leases = EmptyTable

\* A lease comes with a VID no other host holds.  A host with a lease gets a
\* new one only when it shows up at another interface or the interface has got
\* another VID.
Grant(ip, lease) ==
  /\ \A other \in DOMAIN leases \ {ip} : leases[other].vid # lease.vid
  /\ ip \in DOMAIN leases => \/ leases[ip].interfaceid # lease.interfaceid
                             \/ leases[ip].vid[1] # lease.vid[1]
  /\ leases' = Put(leases, ip, lease)

\* The host is heard with another MAC: nothing else about it changes.
Relearn(ip, mac) ==
  /\ ip \in DOMAIN leases
  /\ leases' = [leases EXCEPT ![ip].mac = mac]

\* One lease ends: no other host is affected.
Forget(ip) ==
  /\ ip \in DOMAIN leases
  /\ leases' = Erase(leases, ip)

Next == \E ip \in IPs :
          \/ \E lease \in Lease : Grant(ip, lease)
          \/ \E mac \in MACs : Relearn(ip, mac)
          \/ Forget(ip)

Spec == Init /\ [][Next]_leases
=============================================================================
