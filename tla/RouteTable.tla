----------------------------- MODULE RouteTable -----------------------------
(***************************************************************************)
(* VEILRouteTable of one switch (src/click-cc/veil/routetable.cc) with the *)
(* VID -> index map of its VEILInterfaceTable, which the VCC may rewrite   *)
(* at any time (processVCCSTAdSub.cc, processSwitchVID).  The callers are  *)
(* left open: any update and any lookup may come at any time.              *)
(***************************************************************************)
EXTENDS RouteBuckets

CONSTANTS Ports,          \* interface indices of the switch
          Vias            \* <<nexthop, gateway>> pairs an update may carry

ASSUME ViasAssumption == Vias \subseteq VIDs \X VIDs

BucketNos  == (HostBits + 1) .. VidBits
SwitchVIDs == {getSwitchVID(v) : v \in VIDs}

VARIABLES interfaces,     \* VID -> index
          routes,         \* index -> bucket number -> Bucket
          entrytouse      \* bucket number -> slot used last
vars == <<interfaces, routes, entrytouse>>

TypeOK == /\ IsTable(interfaces, VIDs, Ports)
          /\ DOMAIN routes \subseteq Ports
          /\ routes = [n \in DOMAIN routes |-> routes[n]]
          /\ \A n \in DOMAIN routes : IsTable(routes[n], BucketNos, Bucket)
          /\ IsTable(entrytouse, BucketNos, Slots)

Init == /\ interfaces = EmptyTable
        /\ routes = EmptyTable
        /\ entrytouse = EmptyTable

\* processSwitchVID: index n gets VID v and loses its other VIDs.
AssignedVID(n, v) ==
  [w \in {w \in DOMAIN interfaces : interfaces[w] # n} \cup {v} |->
     IF w = v THEN n ELSE interfaces[w]]

processSwitchVID(n, v) ==
  /\ interfaces' = AssignedVID(n, v)
  /\ UNCHANGED <<routes, entrytouse>>

updateEntry(i, b, via, isDefault) ==
  /\ routes' = UpdatedRoutes(routes, interfaces, i, b, via[1], via[2], isDefault)
  /\ UNCHANGED <<interfaces, entrytouse>>

\* Only the round robin lookup has an effect; getBucket and the lookup of
\* the default route change nothing.
getRoute(dst, my) ==
  /\ entrytouse' = RoundRobinAdvance(routes, interfaces, entrytouse, dst, my)
  /\ UNCHANGED <<interfaces, routes>>

expire(n, b) ==
  /\ HasBucket(routes, n, b) /\ routes[n][b].armed
  /\ routes' = [routes EXCEPT ![n][b] = ExpireBucket(@)]
  /\ UNCHANGED <<interfaces, entrytouse>>

Next == \/ \E n \in Ports, v \in SwitchVIDs : processSwitchVID(n, v)
        \/ \E i \in SwitchVIDs, b \in BucketNos, via \in Vias, d \in BOOLEAN :
              updateEntry(i, b, via, d)
        \/ \E dst \in VIDs, my \in SwitchVIDs : getRoute(dst, my)
        \/ \E n \in Ports, b \in BucketNos : expire(n, b)

Spec == Init /\ [][Next]_vars

\* An update that reschedules the timer of bucket b of interface n.
Refresh(n, b) ==
  \E i \in SwitchVIDs, via \in Vias, d \in BOOLEAN :
     /\ i \in DOMAIN interfaces /\ interfaces[i] = n
     /\ updateEntry(i, b, via, d)

\* Click runs a scheduled timer when it is due: an armed bucket expires
\* unless updates keep rescheduling it for ever.
FairSpec ==
  /\ Spec
  /\ \A n \in Ports, b \in BucketNos :
       WF_vars(expire(n, b)) \/ []<><<Refresh(n, b)>>_vars

-----------------------------------------------------------------------------
EachBucket(P(_)) == \A n \in DOMAIN routes : \A b \in DOMAIN routes[n] : P(routes[n][b])

\* The valid slots of a bucket come first.  getRoute depends on it without
\* saying so: it counts the valid slots, draws a number below the count and
\* reads the slot with that number (routetable.cc:220-231).
ValidPrefix == EachBucket(LAMBDA buck : \A i, j \in Slots :
                      i < j /\ buck.buckets[j].isValid => buck.buckets[i].isValid)

\* Whatever the round robin would return next is a valid slot: no lookup ever
\* hands out a purged or expired route, although the counter was advanced for
\* another interface or before the bucket shrank.
RoundRobinReturnsValid ==
  EachBucket(LAMBDA buck : ValidSlots(buck) # {} =>
         \A last \in Slots : buck.buckets[PickSlot(buck, last)].isValid)

\* A valid default route sits in slot 0 and is the only one, so the loops
\* of getRoute and getBucket agree on the default whatever was added since.
DefaultIsFirst ==
  EachBucket(LAMBDA buck : \A j \in Slots :
         buck.buckets[j].isDefault => j = 0 /\ buck.buckets[j].isValid)

\* A bucket with a valid slot has its timer running: no route outlives its
\* last refresh for ever, re-armed or not after an earlier expiry.
ValidArmed == EachBucket(LAMBDA buck : ValidSlots(buck) # {} => buck.armed)

\* A bucket that is no longer refreshed loses all its routes, also when it
\* had expired and been revived before, or its interface was renumbered:
\* either refreshes of it never stop or it is empty again and again.
RoutesAgeOut ==
  \A n \in Ports, b \in BucketNos :
     \/ []<>(HasBucket(routes, n, b) => ValidSlots(routes[n][b]) = {})
     \/ []<><<Refresh(n, b)>>_vars
=============================================================================
