----------------------------- MODULE ServiceLease -----------------------------
(***************************************************************************)
(* What the server promises its clients about the services: a service is   *)
(* leased to one session at a time.  A session gets a lease only of a      *)
(* service that is free, keeps it until the lease is given back, and never *)
(* loses it to another session.  With one message a session may give back  *)
(* leases and take another one.                                            *)
(***************************************************************************)
CONSTANTS Sessions, Services, NoSession

VARIABLE owner

TypeOK == owner \in [Services -> Sessions \cup {NoSession}]

Init == owner = [v \in Services |-> NoSession]

(* Leases end: a channel is closed or moved, or sessions die.              *)
Release(S) ==
    /\ \A v \in S : owner[v] # NoSession
    /\ owner' = [v \in Services |-> IF v \in S THEN NoSession ELSE owner[v]]

(* Session s gives back the services of S and gets the free service v.     *)
Acquire(s, v, S) ==
    /\ owner[v] = NoSession
    /\ \A u \in S : owner[u] = s
    /\ owner' = [u \in Services |->
                    IF u = v THEN s ELSE IF u \in S THEN NoSession ELSE owner[u]]

Next ==
    \/ \E S \in SUBSET Services : Release(S)
    \/ \E s \in Sessions, v \in Services, S \in SUBSET Services : Acquire(s, v, S)

Spec == Init /\ [][Next]_owner
=============================================================================
