----------------------------- MODULE JavaSwitch -----------------------------
(***************************************************************************)
(* The Java simulator (src/sim-java): one process per switch, with a timer *)
(* thread that rebuilds the routing table every minute (veil_switch.java)  *)
(* and a handler thread for every connection another switch opens          *)
(* (clientHandler.java).  Switches start one after another and may crash.  *)
(*                                                                         *)
(* A packet under way is a connection whose handler has not run yet.  The  *)
(* methods that send hold the lock of the class veil_switch: job is what   *)
(* the thread that holds it still has to do, one item for each call, so    *)
(* that a send that fails can be seen at work.  Threads of other switches  *)
(* commute with it, and wait.  The handlers of data packets hold the lock  *)
(* only inside the calls they make: between two of them (items with pos 1) *)
(* they may be parked while other threads run.                             *)
(*                                                                         *)
(* A RuntimeException ends the thread that throws it: a handler drops its  *)
(* packet, the timer never runs again.  A handler that meets an            *)
(* IOException calls System.exit.                                          *)
(***************************************************************************)
EXTENDS JavaTables

CONSTANTS Switches,      \* the VIDs of the switches
          Adjacent,      \* switch -> its neighbours, in the order of the adjacency file
          MaxTTL,        \* 63 in control packets
          Flows,         \* the <<source, destination>> pairs of the workload file (the VID
                         \* of a destination may be one whose switch is not running)
          MaxInFlight,   \* bound: timers wait while as many packets are under way
          MaxDrift,      \* bound: the steps of a round a timer may be ahead of another
          MaxBusy,       \* bound: the timers publishing at the same time
          MaxCrashes,    \* bound on crashes
          LateStarts     \* bound: the sets of switches that may start after the timers of others

Nbrs(s) == {Adjacent[s][i] : i \in DOMAIN Adjacent[s]}

\* Timers that wait for each other never do so in a circle.
Drifting == Cardinality(Switches) * MaxDrift < VidBits + 2 \/ MaxDrift >= VidBits + 2

ASSUME JavaAssumption ==
  /\ Switches \subseteq VIDs
  /\ Adjacent \in [Switches -> Seq(Switches)]
  /\ \A s \in Switches : s \notin Nbrs(s)
  /\ \A s, t \in Switches : s \in Nbrs(t) => t \in Nbrs(s)
  /\ MaxTTL \in Nat \ {0}
  /\ Flows \subseteq Switches \X VIDs
  /\ LateStarts \subseteq SUBSET Switches
  /\ MaxDrift \in Nat /\ Drifting

VARIABLES proc,       \* switch -> its process: "off", "starting", "up" (it listens), "gone"
          crashed,    \* the switches that crashed; the others gone have exited
          refused,    \* history: the switches a neighbour has refused a connection
          timer,      \* switch -> where its timer thread is
          rTable,     \* switch -> RTable
          rdvtable,   \* switch -> RdvTable
          net,        \* packets under way
          job,        \* [sw, thread, todo]: what is left of the running call
          parked      \* the data handlers waiting between two calls, as jobs
vars == <<proc, crashed, refused, timer, rTable, rdvtable, net, job, parked>>

Alive(s)     == proc[s] \in {"starting", "up"}
Listening(s) == proc[s] = "up"

ControlOps == {"PUBLISH", "QUERY", "UPDATE"}

\* vid: the edge's other end in PUBLISH and UPDATE; k: the bucket of QUERY and
\* REPLY; gws: the gateways of a REPLY; fwd: the forwarding directive of DATA.
Packet == [op : ControlOps \cup {"REPLY", "DATA"}, src : VIDs, dst : VIDs, fwd : VIDs,
           vid : VIDs, k : Nat, gws : SUBSET (Nat \X Switches), ttl : 1 .. MaxTTL, to : VIDs]

Item(op, p, v, n) == [op |-> op, pkt |-> p, vid |-> v, pos |-> n]
NoPacket == [op |-> "DATA", src |-> ZeroVID, dst |-> ZeroVID, fwd |-> ZeroVID, vid |-> ZeroVID,
             k |-> 0, gws |-> {}, ttl |-> MaxTTL, to |-> ZeroVID]

\* The calls a job is made of.  Before a call with pos 1 the lock is free.
Neighbor(v) == Item("neighbor", NoPacket, v, 0)    \* addEntry of RTbuilder
Route(p)    == Item("route", p, ZeroVID, 0)        \* routeCtrlPacket
Process(p)  == Item("process", p, ZeroVID, 0)      \* processPacket
Delete(v)   == Item("delete", NoPacket, v, 0)      \* rTable.delEntry
Learn(p)    == Item("learn", p, ZeroVID, 0)        \* updateRTEntry, the gateways left
Forward(p)  == Item("forward", p, ZeroVID, 0)      \* routeDataPacket
Source(p)   == Item("source", p, ZeroVID, 0)       \* case 4 of the data handler
Expire(n)   == Item("expire", NoPacket, ZeroVID, n)  \* rTable.checkEntryExpire at entry n
Purge(n)    == Item("purge", NoPacket, ZeroVID, n)   \* rdvtable.updateEntry at entry n

NoJob == [sw |-> ZeroVID, thread |-> "timer", todo |-> <<>>]
Idle  == job.todo = <<>>

\* A thread of s may take the lock: none holds it, and no thread of another
\* switch is between two calls.
Free(s) == Idle /\ \A j \in parked : j.sw = s

Call(s, thread, todo) == job' = [sw |-> s, thread |-> thread, todo |-> todo]
Unlocked(todo) == [i \in DOMAIN todo |-> [todo[i] EXCEPT !.pos = 1]]
Continue(todo) == job' = IF todo = <<>> THEN NoJob ELSE [job EXCEPT !.todo = todo]

Stopped == [pc |-> "dead", bucket |-> 1, j |-> 1, end |-> 0]

\* The timer of a switch starts with it, and its neighbours may still be down:
\* those not late are up before any timer runs, the others start later.
Init ==
  /\ \E late \in LateStarts :
       proc = [s \in Switches |-> IF s \in late THEN "off" ELSE "up"]
  /\ crashed = {} /\ refused = {}
  /\ timer = [s \in Switches |-> [pc |-> "start", bucket |-> 1, j |-> 1, end |-> 0]]
  /\ rTable = [s \in Switches |-> <<>>]
  /\ rdvtable = [s \in Switches |-> <<>>]
  /\ net = {}
  /\ job = NoJob /\ parked = {}

-----------------------------------------------------------------------------
(* Sending.                                                                *)

\* rendezvousPublish, rendezvousQuery and rendezvousUpdate: to the rendezvous
\* switch of bucket k and then to its backup; when the first is me, it is
\* processed here and the backup is not told.
Rendezvous(op, me, k, v, level) ==
  LET To(d) == [NoPacket EXCEPT !.op = op, !.src = me, !.dst = d, !.vid = v, !.k = level]
      Begin(d) == IF d = me THEN Process(To(d)) ELSE Route(To(d))
  IN  IF PrimaryRdv(me, k) = me THEN <<Begin(me)>>
      ELSE <<Begin(PrimaryRdv(me, k)), Begin(BackupRdv(me, k))>>

\* removeRTEntry: its rendezvous switches are told, then the table is changed.
RemoveRTEntry(me, v) ==
  Append(Rendezvous("UPDATE", me, vidDist(me, v), v, 0), Delete(v))

Resend(nh, item) == Append(RemoveRTEntry(job.sw, nh), item)

\* sendPacket to next hop nh, or, when the connection is refused, what follows
\* that: its entries are removed and the packet is tried again.
SendOr(p, nh, retry) ==
  IF Listening(nh) THEN /\ net' = net \cup {[p EXCEPT !.to = nh]}
                        /\ Continue(Tail(job.todo))
                        /\ UNCHANGED refused
  ELSE /\ Continue(retry \o Tail(job.todo))
       /\ refused' = refused \cup {job.sw}
       /\ UNCHANGED net

\* Mutant: any bucket will do.
RouteCtrlPacketAnywhere ==
  LET p  == Head(job.todo).pkt
      me == job.sw
      ks == {k \in BitPos : InBucket(rTable[me], k) # {}}
      k  == CHOOSE k \in ks : \A n \in ks : n <= k
  IN  /\ Head(job.todo).op = "route"
      /\ \/ ks = {} /\ Continue(Tail(job.todo)) /\ UNCHANGED <<net, refused>>
         \/ ks # {} /\ \E e \in entryLookup(rTable[me], me, k) : SendOr(p, e.nexthop, Resend(e.nexthop, Route(p)))
      /\ UNCHANGED <<proc, crashed, parked, timer, rTable, rdvtable>>

\* routeCtrlPacket: an entry of the bucket of the destination, or of the next
\* lower bucket that has one; with none the packet is dropped.
RouteCtrlPacket ==
  LET p  == Head(job.todo).pkt
      me == job.sw
      ks == {k \in 1 .. vidDist(me, p.dst) : InBucket(rTable[me], k) # {}}
      k  == CHOOSE k \in ks : \A n \in ks : n <= k
  IN  /\ Head(job.todo).op = "route"
      /\ \/ /\ ks = {}
            /\ Continue(Tail(job.todo))
            /\ UNCHANGED <<net, refused>>
         \/ /\ ks # {}
            /\ \E e \in entryLookup(rTable[me], me, k) : SendOr(p, e.nexthop, Resend(e.nexthop, Route(p)))
      /\ UNCHANGED <<proc, crashed, parked, timer, rTable, rdvtable>>

\* routeDataPacket: towards the forwarding directive, bucket by bucket.
RouteDataPacket ==
  LET p    == Head(job.todo).pkt
      me   == job.sw
      cand == entryLookup(rTable[me], me, vidDist(me, p.fwd))
  IN  /\ Head(job.todo).op = "forward"
      /\ \/ cand = {} /\ Continue(Tail(job.todo)) /\ UNCHANGED <<net, refused>>
         \/ \E e \in cand : SendOr(p, e.nexthop, Unlocked(Resend(e.nexthop, Forward(p))))
      /\ UNCHANGED <<proc, crashed, parked, timer, rTable, rdvtable>>

\* Case 4 of the data handler: a gateway is chosen and made the directive.
ChooseGateway ==
  LET p    == Head(job.todo).pkt
      me   == job.sw
      cand == entryLookup(rTable[me], me, vidDist(me, p.dst))
      Directed(e) == [p EXCEPT !.fwd = IF e.gateway = me THEN p.dst ELSE e.gateway]
  IN  /\ Head(job.todo).op = "source"
      /\ \/ cand = {} /\ Continue(Tail(job.todo)) /\ UNCHANGED <<net, refused>>
         \/ \E e \in cand : SendOr(Directed(e), e.nexthop, Unlocked(Resend(e.nexthop, Source(p))))
      /\ UNCHANGED <<proc, crashed, parked, timer, rTable, rdvtable>>

-----------------------------------------------------------------------------
(* The other calls of a job.                                               *)

\* An exception nobody catches ends the thread.
Throw ==
  /\ job' = NoJob
  /\ timer' = IF job.thread = "timer" THEN [timer EXCEPT ![job.sw] = Stopped] ELSE timer

DeleteEntry ==
  LET me == job.sw
      v  == Head(job.todo).vid
  IN  /\ Head(job.todo).op = "delete"
      /\ rTable' = [rTable EXCEPT ![me] = delEntry(@, v)]
      /\ IF delThrows(rTable[me], v) THEN Throw
         ELSE Continue(Tail(job.todo)) /\ UNCHANGED timer
      /\ UNCHANGED <<proc, crashed, refused, parked, rdvtable, net>>

\* RTbuilder adds its next neighbour.
AddNeighbor ==
  LET me == job.sw
      v  == Head(job.todo).vid
  IN  /\ Head(job.todo).op = "neighbor"
      /\ rTable' = [rTable EXCEPT ![me] = addEntry(@, Entry(vidDist(me, v), v, me))]
      /\ Continue(Tail(job.todo))
      /\ UNCHANGED <<proc, crashed, refused, parked, timer, rdvtable, net>>

\* Mutant: any neighbour is as good.
HopsToAny(me, g, k) ==
  IF g = me THEN {Adjacent[me][1]}
  ELSE IF InBucket(rTable[me], vidDist(me, g)) = {} THEN {}
  ELSE {FirstHop(rTable[me], vidDist(me, g))}

\* The next hop to gateway g of bucket k: the first neighbour at that distance
\* when I am the gateway, else that of the first entry for the bucket of g.
HopsTo(me, g, k) ==
  IF g = me
    THEN LET at == {i \in DOMAIN Adjacent[me] : vidDist(me, Adjacent[me][i]) = k}
         IN  {Adjacent[me][i] : i \in {i \in at : \A j \in at : i <= j}}
  ELSE IF InBucket(rTable[me], vidDist(me, g)) = {} THEN {}
  ELSE {FirstHop(rTable[me], vidDist(me, g))}

\* A loop for the first entry of bucket k that gets to the end of the list, by
\* its size, may read past it: a data handler is about to take an entry out.
Overrun(s, k) ==
  /\ InBucket(rTable[s], k) \subseteq {Len(rTable[s])}
  /\ \E j \in parked : /\ j.sw = s /\ Head(j.todo).op = "delete"
                      /\ MatchesHop(rTable[s], Head(j.todo).vid) # {}

\* updateRTEntry takes the next gateway; without a next hop to it, it returns.
LearnGateway ==
  LET p    == Head(job.todo).pkt
      me   == job.sw
      g    == FirstGateway(p.gws)
      hops == HopsTo(me, g[2], p.k)
      rest == p.gws \ {g}
  IN  /\ Head(job.todo).op = "learn"
      /\ \/ hops = {} /\ Continue(Tail(job.todo)) /\ UNCHANGED <<rTable, timer>>
         \/ g[2] # me /\ Overrun(me, vidDist(me, g[2])) /\ Throw /\ UNCHANGED rTable
         \/ \E nh \in hops :
              /\ UNCHANGED timer
              /\ rTable' = [rTable EXCEPT ![me] = addEntry(@, Entry(p.k, nh, g[2]))]
              /\ Continue((IF rest = {} THEN <<>> ELSE <<Learn([p EXCEPT !.gws = rest])>>)
                            \o Tail(job.todo))
      /\ UNCHANGED <<proc, crashed, refused, parked, rdvtable, net>>

\* processPacket: a packet whose rendezvous switch is its sender.
ProcessPacket ==
  LET p   == Head(job.todo).pkt
      me  == job.sw
      gws == findEntry(rdvtable[me], me, p.k)
  IN  /\ Head(job.todo).op = "process"
      /\ \/ /\ p.op = "PUBLISH"
            /\ rdvtable' = [rdvtable EXCEPT ![me] = addEdge(@, p.src, p.vid)]
            /\ Continue(Tail(job.todo))
         \/ /\ p.op = "UPDATE"
            /\ rdvtable' = [rdvtable EXCEPT ![me] = delEdge(@, p.src, p.vid)]
            /\ Continue(Tail(job.todo))
         \/ /\ p.op = "QUERY"
            /\ Continue((IF gws = {} THEN <<>> ELSE <<Learn([p EXCEPT !.gws = gws])>>)
                          \o Tail(job.todo))
            /\ UNCHANGED rdvtable
      /\ UNCHANGED <<proc, crashed, refused, parked, timer, rTable, net>>

\* Mutant: an entry may survive one check too many.
ExpireEntryLate ==
  LET me == job.sw
      n  == Head(job.todo).pos
      t  == rTable[me]
  IN  /\ Head(job.todo).op = "expire"
      /\ \/ n > Len(t) /\ Continue(Tail(job.todo)) /\ UNCHANGED rTable
         \/ /\ n <= Len(t) /\ t[n].age < 3
            /\ rTable' = [rTable EXCEPT ![me][n].age = @ + 1]
            /\ Continue(<<Expire(n + 1)>> \o Tail(job.todo))
         \/ /\ n <= Len(t) /\ t[n].age > 0
            /\ rTable' = [rTable EXCEPT ![me] = RemoveAt(@, n)]
            /\ Continue(<<Expire(n)>> \o Tail(job.todo))
      /\ UNCHANGED <<proc, crashed, refused, parked, timer, rdvtable, net>>

\* checkEntryExpire looks at its next entry.  Checks are 60 seconds apart and
\* an entry lives 90: it survives the first check after a refresh, may or may
\* not survive the second, and does not survive a third.
ExpireEntry ==
  LET me == job.sw
      n  == Head(job.todo).pos
      t  == rTable[me]
  IN  /\ Head(job.todo).op = "expire"
      /\ \/ /\ n > Len(t)
            /\ Continue(Tail(job.todo)) /\ UNCHANGED rTable
         \/ /\ n <= Len(t) /\ t[n].age < 2
            /\ rTable' = [rTable EXCEPT ![me][n].age = @ + 1]
            /\ Continue(<<Expire(n + 1)>> \o Tail(job.todo))
         \/ /\ n <= Len(t) /\ t[n].age > 0
            /\ rTable' = [rTable EXCEPT ![me] = RemoveAt(@, n)]
            /\ Continue(<<Expire(n)>> \o Tail(job.todo))
      /\ UNCHANGED <<proc, crashed, refused, parked, timer, rdvtable, net>>

\* updateEntry looks at its next edge: those not refreshed for 60 seconds,
\* that is since the last check, go.
PurgeEdge ==
  LET me == job.sw
      n  == Head(job.todo).pos
      r  == rdvtable[me]
  IN  /\ Head(job.todo).op = "purge"
      /\ \/ /\ n > Len(r)
            /\ Continue(Tail(job.todo)) /\ UNCHANGED rdvtable
         \/ /\ n <= Len(r) /\ r[n].fresh
            /\ rdvtable' = [rdvtable EXCEPT ![me][n].fresh = FALSE]
            /\ Continue(<<Purge(n + 1)>> \o Tail(job.todo))
         \/ /\ n <= Len(r) /\ ~ r[n].fresh
            /\ rdvtable' = [rdvtable EXCEPT ![me] = RemoveAt(@, n)]
            /\ Continue(<<Purge(n)>> \o Tail(job.todo))
      /\ UNCHANGED <<proc, crashed, refused, parked, timer, rTable, net>>

\* A data handler between two calls lets the other threads run first.
Park ==
  /\ job.thread = "handler" /\ Head(job.todo).pos = 1
  /\ parked' = parked \cup {job}
  /\ job' = NoJob
  /\ UNCHANGED <<proc, crashed, refused, timer, rTable, rdvtable, net>>

Resume ==
  /\ Idle
  /\ \E j \in parked : /\ parked' = parked \ {j}
                       /\ job' = [j EXCEPT !.todo[1].pos = 0]
  /\ UNCHANGED <<proc, crashed, refused, timer, rTable, rdvtable, net>>

JobStep == /\ ~ Idle
           /\ \/ RouteCtrlPacket \/ RouteDataPacket \/ ChooseGateway
              \/ DeleteEntry \/ AddNeighbor \/ LearnGateway \/ ProcessPacket
              \/ ExpireEntry \/ PurgeEdge \/ Park

-----------------------------------------------------------------------------
(* The timer thread: TimerTask.run in main.                                *)

Room == Cardinality(net) < MaxInFlight

\* The steps of a round: its buckets, the check, and the build.
RoundLength == VidBits + 2
Phase(s) == CASE timer[s].pc = "start" -> 0
              [] timer[s].pc = "check" -> VidBits + 1
              [] timer[s].pc = "build" -> VidBits + 2
              [] OTHER -> timer[s].bucket

\* Bound: a timer waits for one that is MaxDrift steps behind it (with
\* MaxDrift >= RoundLength none ever waits).
InStep(s) ==
  \A u \in Switches : Alive(u) /\ timer[u].pc # "dead" => (Phase(s) - Phase(u)) % RoundLength # MaxDrift

\* RTbuilder: an entry for every neighbour, whether it answers or not.
RTbuilder(s) ==
  /\ timer[s].pc \in {"start", "build"}
  /\ timer' = [timer EXCEPT ![s].pc = "bucket", ![s].bucket = 1]
  /\ Call(s, "timer", [i \in DOMAIN Adjacent[s] |-> Neighbor(Adjacent[s][i])])
  /\ UNCHANGED <<proc, crashed, refused, parked, rTable, rdvtable, net>>

\* Mutant: one place too many.
NextBucketPast(s) ==
  /\ timer[s].pc = "bucket"
  /\ Cardinality({u \in Switches : timer[u].pc = "publish"}) < MaxBusy
  /\ timer' = [timer EXCEPT ![s].pc = "publish", ![s].j = 1, ![s].end = Len(rTable[s]) + 1]
  /\ UNCHANGED <<proc, crashed, refused, parked, rTable, rdvtable, net, job>>

\* RTConstrut, the next bucket: the size of the table is read once, and again
\* after the pause.
NextBucket(s) ==
  /\ timer[s].pc = "bucket"
  /\ Cardinality({u \in Switches : timer[u].pc = "publish"}) < MaxBusy
  /\ timer' = [timer EXCEPT ![s].pc = "publish", ![s].j = 1, ![s].end = Len(rTable[s])]
  /\ UNCHANGED <<proc, crashed, refused, parked, rTable, rdvtable, net, job>>

\* The entry at place j is published if it is a neighbour of mine; meanwhile
\* handlers insert and remove entries, and get(j) throws past the end.
PublishEntry(s) ==
  LET t == timer[s]
  IN  /\ t.pc = "publish" /\ t.j <= t.end /\ Room
      /\ IF t.j > Len(rTable[s])
           THEN timer' = [timer EXCEPT ![s] = Stopped] /\ UNCHANGED job
         ELSE /\ timer' = [timer EXCEPT ![s].j = @ + 1]
              /\ LET e == rTable[s][t.j]
                 IN  IF e.gateway = s
                       THEN Call(s, "timer", Rendezvous("PUBLISH", s, e.bucket, e.nexthop, 0))
                     ELSE UNCHANGED job
      /\ UNCHANGED <<proc, crashed, refused, parked, rTable, rdvtable, net>>

QueryBucket(s) ==
  LET k == timer[s].bucket
  IN  /\ timer[s].pc = "publish" /\ timer[s].j > timer[s].end /\ Room
      /\ timer' = [timer EXCEPT ![s] =
                     IF k < VidBits
                       THEN [pc |-> "bucket", bucket |-> k + 1, j |-> 1, end |-> 0]
                     ELSE [pc |-> "check", bucket |-> 1, j |-> 1, end |-> 0]]
      /\ Call(s, "timer", Rendezvous("QUERY", s, k, ZeroVID, k))
      /\ UNCHANGED <<proc, crashed, refused, parked, rTable, rdvtable, net>>

\* Mutant: the round ends without a check.
EndRoundUnchecked(s) ==
  /\ timer[s].pc = "check"
  /\ timer' = [timer EXCEPT ![s].pc = "build"]
  /\ UNCHANGED <<proc, crashed, refused, parked, rTable, rdvtable, net, job>>

\* checkEntryExpire and updateRdvTable end the round.
EndRound(s) ==
  /\ timer[s].pc = "check"
  /\ timer' = [timer EXCEPT ![s].pc = "build"]
  /\ Call(s, "timer", <<Expire(1), Purge(1)>>)
  /\ UNCHANGED <<proc, crashed, refused, parked, rTable, rdvtable, net>>

TimerStep(s) == /\ Free(s) /\ Alive(s) /\ InStep(s)
                /\ RTbuilder(s) \/ NextBucket(s) \/ PublishEntry(s) \/ QueryBucket(s) \/ EndRound(s)

-----------------------------------------------------------------------------
(* The handlers: clientHandler.run.                                        *)

\* A switch that stops: its connections and its state are gone.
Stop(s, left) ==
  /\ proc' = [proc EXCEPT ![s] = "gone"]
  /\ timer' = [timer EXCEPT ![s] = Stopped]
  /\ rTable' = [rTable EXCEPT ![s] = <<>>]
  /\ rdvtable' = [rdvtable EXCEPT ![s] = <<>>]
  /\ net' = {p \in left : p.to # s}
  /\ parked' = {j \in parked : j.sw # s}

Expired(p) == p.ttl - 1 = 0
Aged(p)    == [p EXCEPT !.ttl = @ - 1]

Drop(p) == /\ net' = net \ {p}
           /\ UNCHANGED <<proc, crashed, refused, parked, timer, rTable, rdvtable, job>>

\* A packet for another switch goes on.
PassOn(s, p, item) ==
  /\ net' = net \ {p}
  /\ Call(s, "handler", <<item>>)
  /\ UNCHANGED <<proc, crashed, refused, parked, timer, rTable, rdvtable>>

\* Mutant: the edge is stored by every switch it passes.
HandlePublishOnTheWay(s, p) ==
  /\ p.op = "PUBLISH" /\ ~ Expired(p)
  /\ rdvtable' = [rdvtable EXCEPT ![s] = addEdge(@, p.src, p.vid)]
  /\ net' = net \ {p}
  /\ IF p.dst # s THEN Call(s, "handler", <<Route(Aged(p))>>) ELSE UNCHANGED job
  /\ UNCHANGED <<proc, crashed, refused, parked, timer, rTable>>

HandlePublish(s, p) ==
  /\ p.op = "PUBLISH" /\ ~ Expired(p)
  /\ \/ p.dst # s /\ PassOn(s, p, Route(Aged(p)))
     \/ /\ p.dst = s
        /\ rdvtable' = [rdvtable EXCEPT ![s] = addEdge(@, p.src, p.vid)]
        /\ net' = net \ {p}
        /\ UNCHANGED <<proc, crashed, refused, parked, timer, rTable, job>>

HandleUpdate(s, p) ==
  /\ p.op = "UPDATE" /\ ~ Expired(p)
  /\ \/ p.dst # s /\ PassOn(s, p, Route(Aged(p)))
     \/ /\ p.dst = s
        /\ rdvtable' = [rdvtable EXCEPT ![s] = delEdge(@, p.src, p.vid)]
        /\ net' = net \ {p}
        /\ UNCHANGED <<proc, crashed, refused, parked, timer, rTable, job>>

\* Replies do not go through sendPacket: the handler opens a socket of its own
\* to the first entry's next hop, or to the destination if it is a neighbour.
ReplyHops(s, d) ==
  IF InBucket(rTable[s], vidDist(s, d)) # {} THEN {FirstHop(rTable[s], vidDist(s, d))}
  ELSE IF timer[s].pc = "start" THEN {}
  ELSE {d} \cap Nbrs(s)

\* With no next hop, or an exception, the reply is dropped; a refused
\* connection is an IOException, at which the handler ends the process.
SendReply(s, p, reply) ==
  \/ ReplyHops(s, reply.dst) = {} /\ Drop(p)
  \/ Overrun(s, vidDist(s, reply.dst)) /\ Drop(p)
  \/ \E nh \in ReplyHops(s, reply.dst) :
       \/ /\ Listening(nh)
          /\ net' = (net \ {p}) \cup {[reply EXCEPT !.to = nh]}
          /\ UNCHANGED <<proc, crashed, refused, parked, timer, rTable, rdvtable, job>>
       \/ /\ ~ Listening(nh)
          /\ Stop(s, net \ {p})
          /\ refused' = refused \cup {s}
          /\ UNCHANGED <<crashed, job>>

Found(s, p) ==
  IF Readable(p.k) THEN findEntry(rdvtable[s], p.src, LevelRead(p.k)) ELSE {}

HandleQuery(s, p) ==
  /\ p.op = "QUERY" /\ ~ Expired(p)
  /\ \/ p.dst # s /\ PassOn(s, p, Route(Aged(p)))
     \/ p.dst = s /\ Found(s, p) = {} /\ Drop(p)
     \/ /\ p.dst = s /\ Found(s, p) # {}
        /\ SendReply(s, p, [NoPacket EXCEPT !.op = "REPLY", !.src = s, !.dst = p.src,
                                            !.k = p.k, !.gws = Found(s, p)])

HandleReply(s, p) ==
  /\ p.op = "REPLY" /\ ~ Expired(p)
  /\ \/ p.dst # s /\ SendReply(s, p, Aged(p))
     \/ p.dst = s /\ PassOn(s, p, Learn([p EXCEPT !.k = LevelRead(@)]))

\* sendPacket to a neighbour from a data handler, and what is left to do when
\* the neighbour refuses.
Connect(s, p, q, nh) ==
  /\ Listening(nh)
  /\ net' = (net \ {p}) \cup {[q EXCEPT !.to = nh]}
  /\ UNCHANGED <<proc, crashed, refused, parked, timer, rTable, rdvtable, job>>
Refuse(s, p, nh, todo) ==
  /\ ~ Listening(nh)
  /\ net' = net \ {p}
  /\ refused' = refused \cup {s}
  /\ IF todo = <<>> THEN UNCHANGED job ELSE Call(s, "handler", todo)
  /\ UNCHANGED <<proc, crashed, parked, timer, rTable, rdvtable>>

\* The five cases of the data handler.  Before RTbuilder has run the VIDs of
\* the neighbours are null, and the handler ends by a NullPointerException.
HandleData(s, p) ==
  LET q == Aged(p)
  IN
  /\ p.op = "DATA" /\ ~ Expired(p)
  /\ \/ timer[s].pc = "start" /\ Drop(p)
     \/ timer[s].pc # "start" /\ p.dst = s /\ Drop(p)
     \/ /\ timer[s].pc # "start" /\ p.dst \in Nbrs(s)
        /\ Connect(s, p, [q EXCEPT !.fwd = p.dst], p.dst) \/ Refuse(s, p, p.dst, <<>>)
     \/ /\ timer[s].pc # "start" /\ p.dst \notin Nbrs(s) \cup {s}
        /\ \/ p.fwd = s /\ PassOn(s, p, Forward([q EXCEPT !.fwd = p.dst]))
           \/ p.fwd # s /\ p.fwd = p.dst /\ PassOn(s, p, Source(q))
           \/ /\ p.fwd \notin {s, p.dst} /\ p.fwd \in Nbrs(s)
              /\ Connect(s, p, q, p.fwd) \/ Refuse(s, p, p.fwd, Unlocked(<<Forward(q)>>))
           \/ p.fwd \notin Nbrs(s) \cup {s, p.dst} /\ PassOn(s, p, Forward(q))

\* A packet whose TTL runs out is dropped, its destination reached or not.
HandlePacket(s) ==
  /\ Free(s) /\ Alive(s)
  /\ \E p \in {p \in net : p.to = s} :
       \/ Expired(p) /\ Drop(p)
       \/ HandlePublish(s, p) \/ HandleQuery(s, p) \/ HandleReply(s, p)
       \/ HandleUpdate(s, p) \/ HandleData(s, p)

-----------------------------------------------------------------------------
(* The environment.                                                        *)

\* traffic-gen.py gives its switch a packet for the destination of a flow; it
\* waits for the switch to have started.  Bound: nothing else is under way.
Traffic(s, d) ==
  /\ Idle /\ Alive(s) /\ timer[s].pc # "start"
  /\ net = {} /\ parked = {}
  /\ net' = {[NoPacket EXCEPT !.src = s, !.dst = d, !.fwd = d, !.to = s]}
  /\ UNCHANGED <<proc, crashed, refused, parked, timer, rTable, rdvtable, job>>

\* main starts the monitor thread, then the timer: either may come first.
Start(s) ==
  /\ proc[s] = "off"
  /\ proc' = [proc EXCEPT ![s] = "starting"]
  /\ UNCHANGED <<crashed, refused, timer, rTable, rdvtable, net, job, parked>>

\* SocketMonitor opens the port.
Listen(s) ==
  /\ proc[s] = "starting"
  /\ proc' = [proc EXCEPT ![s] = "up"]
  /\ UNCHANGED <<crashed, refused, timer, rTable, rdvtable, net, job, parked>>

Crash(s) ==
  /\ Alive(s) /\ Cardinality(crashed) < MaxCrashes
  /\ crashed' = crashed \cup {s}
  /\ Stop(s, net)
  /\ job' = IF job.sw = s THEN NoJob ELSE job
  /\ UNCHANGED refused

Next == \/ JobStep \/ Resume
        \/ \E s \in Switches : TimerStep(s) \/ HandlePacket(s)
        \/ \E s \in Switches : Start(s) \/ Listen(s) \/ Crash(s)
        \/ \E f \in Flows : Traffic(f[1], f[2])

Spec == Init /\ [][Next]_vars

\* The JVM runs every thread: the one that holds the lock, those that wait for
\* it (timers, handlers of connections, parked ones) and the monitor; a script
\* starts every switch.  Nothing is assumed of crashes and traffic.
Fairness == /\ WF_vars(JobStep) /\ SF_vars(Resume)
            /\ \A s \in Switches : /\ SF_vars(TimerStep(s)) /\ SF_vars(HandlePacket(s))
                                  /\ WF_vars(Start(s)) /\ WF_vars(Listen(s))
FairSpec == Spec /\ Fairness

-----------------------------------------------------------------------------
(* Properties.                                                             *)

Entries == [bucket : BitPos, nexthop : Switches, gateway : Switches, age : 0 .. 2]
ProcStates == {"off", "starting", "up", "gone"}
Edges   == [src : Switches, dst : Switches, fresh : BOOLEAN]

\* Types: of the tables, of the timers, and of what is under way.
TypeOK ==
  /\ proc \in [Switches -> ProcStates] /\ crashed \subseteq Switches /\ refused \subseteq Switches
  /\ timer \in [Switches -> [pc : {"start", "build", "bucket", "publish", "check", "dead"},
                             bucket : BitPos, j : Nat, end : Nat]]
  /\ rTable \in [Switches -> Seq(Entries)]
  /\ rdvtable \in [Switches -> Seq(Edges)]
  /\ \A p \in net : p \in Packet /\ p.to \in Switches
  /\ job.sw \in VIDs /\ job.thread \in {"timer", "handler"}
  /\ \A j \in parked \cup {job} : \A i \in DOMAIN j.todo : j.todo[i].pkt \in Packet
  /\ \A j \in parked : j.sw \in Switches /\ j.thread = "handler" /\ j.todo # <<>>

\* g is in the subtree of s below level k and has a link to level k.
Reaches(g, s, k) == vidDist(s, g) < k /\ \E n \in Nbrs(g) : vidDist(s, n) = k

\* Whatever was learnt, refreshed, removed or missed, and in whatever order:
\* an entry's gateway is in the switch's own subtree and has a link to the
\* bucket, and its next hop is a neighbour no farther away than the bucket,
\* nearer than that unless the switch is the gateway itself.  So sendPacket
\* always resolves the next hop (it exits otherwise), routeCtrlPacket can try
\* lower buckets without leaving the subtree, and the updates a failed send
\* gives rise to only use nearer neighbours, so that they end.
EntrySound(s, e) ==
  /\ e.nexthop \in Nbrs(s)
  /\ Reaches(e.gateway, s, e.bucket)
  /\ e.gateway = s => vidDist(s, e.nexthop) = e.bucket
  /\ e.gateway # s => vidDist(s, e.nexthop) < e.bucket
TableSound ==
  \A s \in Switches : \A i \in DOMAIN rTable[s] : EntrySound(s, rTable[s][i])

\* An edge stored for others to find is a link of its source, and it is stored
\* only where the source's subtree looks for it.
IsRdv(s, a, k) == s \in {PrimaryRdv(a, k), BackupRdv(a, k)}
EdgeSound(s, e) == e.dst \in Nbrs(e.src) /\ IsRdv(s, e.src, vidDist(e.src, e.dst))
RdvEdgesSound ==
  \A s \in Switches : \A i \in DOMAIN rdvtable[s] : EdgeSound(s, rdvtable[s][i])

\* Rendezvous traffic for a level never leaves the subtree below that level,
\* and data never moves away from its destination: a forwarding directive
\* names a gateway on the near side, and the packet stays near it.
Level(p) == IF p.op \in {"PUBLISH", "UPDATE"} THEN vidDist(p.src, p.vid) ELSE p.k
InSubtree(p, s) ==
  IF p.op = "DATA"
    THEN /\ vidDist(s, p.dst) <= vidDist(p.src, p.dst)
         /\ p.fwd # p.dst => vidDist(s, p.fwd) < vidDist(p.src, p.dst)
  ELSE vidDist(p.src, s) < Level(p) /\ vidDist(p.src, p.dst) < Level(p)
StaysInSubtree == \A p \in net : InSubtree(p, p.to)

\* A process exits and a timer thread dies only where a neighbour has refused
\* a connection, because it had not started, or had gone: get(j) of a list that
\* shrank, the iterator of delEntry, and the sockets of the reply handlers do no
\* harm before that.
FailureNeedsRefusal ==
  \A s \in Switches : s \notin crashed /\ timer[s].pc = "dead" => s \in refused

\* Unless a timer dies, every switch time and again has a route for every level
\* its subtree has a link to, whatever the order in which the switches start
\* and the offsets of their rounds, edges and entries expiring meanwhile.
AllReachable ==
  \A s \in Switches : \A k \in BitPos :
     (\E g \in Switches : Reaches(g, s, k)) => InBucket(rTable[s], k) # {}
TimerDied == \E s \in Switches : timer[s].pc = "dead"
TablesComplete == ~ TimerDied ~> AllReachable \/ TimerDied

\* The entries by way of a crashed gateway expire, unless the timer that would
\* remove them is gone too.
Uses(s, g) == \E i \in DOMAIN rTable[s] : rTable[s][i].gateway = g
StaleGatewaysExpire ==
  \A g \in Switches :
     g \in crashed ~> \A s \in Switches : Alive(s) /\ Uses(s, g) => timer[s].pc = "dead"

=============================================================================
