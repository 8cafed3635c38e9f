----------------------------- MODULE Directory ------------------------------
(***************************************************************************)
(* What the switches together promise about where a host is, without the   *)
(* frames, tables and timers by which they find it: a host VID comes up    *)
(* only by the host being heard at the interface the VID belongs to.       *)
(* After that the VID is told on, maybe long after it was given up; but    *)
(* when the last trace of it is gone, only the host itself can bring it    *)
(* back.  AccessInfo is shown to implement this                            *)
(* (AccessInfo!ImplementsDirectory).                                       *)
(***************************************************************************)
CONSTANTS IPs,
          Places,    \* IP -> interfaces the host may be attached to
          HostVIDs   \* pairs <<interface, host number>>

VARIABLES at,        \* IP -> interface the host is attached to
          held,      \* IP -> VIDs some switch has given it and not taken back
          known      \* IP -> VIDs somebody else takes it to have
directoryvars == <<at, held, known>>

Init ==
  /\ \A ip \in IPs : at[ip] \in Places[ip]
  /\ held = [ip \in IPs |-> {}]
  /\ known = [ip \in IPs |-> {}]

\* What is told of hosts is what is held or was known before; any part of it
\* may get lost.
Tell ==
  /\ known' \in [IPs -> SUBSET HostVIDs]
  /\ \A ip \in IPs : known'[ip] \subseteq known[ip] \cup held[ip] \cup held'[ip]

\* The host is heard where it is; VIDs of elsewhere may be given up.
Hear(ip) ==
  /\ \E v \in HostVIDs : \E left \in SUBSET held[ip] :
        v[1] = at[ip] /\ held' = [held EXCEPT ![ip] = left \cup {v}]
  /\ Tell
  /\ UNCHANGED at

\* Nothing new is heard.
Forget(ip) ==
  /\ \E left \in SUBSET held[ip] : held' = [held EXCEPT ![ip] = left]
  /\ Tell
  /\ UNCHANGED at

Move(ip) ==
  /\ \E i \in Places[ip] : at' = [at EXCEPT ![ip] = i]
  /\ UNCHANGED <<held, known>>

Next == \E ip \in IPs : Hear(ip) \/ Forget(ip) \/ Move(ip)

Spec == Init /\ [][Next]_directoryvars
=============================================================================
