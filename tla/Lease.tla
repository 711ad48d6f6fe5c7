------------------------------- MODULE Lease -------------------------------
(***************************************************************************)
(* What a lock with a time-to-live promises, whatever it is built on:      *)
(* among the clients whose lease has not yet run out, at most one holds    *)
(* it.  `current' is the set of clients that were granted the lock, have   *)
(* not given it up, and are still within their lease.  A client that       *)
(* overruns simply leaves `current': the promise says nothing about it.    *)
(***************************************************************************)
CONSTANT Clients

VARIABLE current

\* Nobody holds the lock.
Init == current = {}

\* The lock is granted, and only to a client that finds nobody in time.
Grant(c) ==
  /\ current = {}
  /\ current' = {c}

\* The lease ends: given up, run out, or its holder died.
End(c) ==
  /\ c \in current
  /\ current' = current \ {c}

Next == \E c \in Clients : Grant(c) \/ End(c)

Spec == Init /\ [][Next]_current

\* The point of the lock: two clients are never both within their lease.
Exclusive == \A c, d \in current : c = d
=============================================================================
