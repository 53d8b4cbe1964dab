----------------------------- MODULE ImportLock -----------------------------
(***************************************************************************)
(* What the daemon promises its clients about one busid: "each             *)
(* successfully-imported device is also locked to its connecting client".  *)
(* At most one session owns the busid, and only its owner, or the end of   *)
(* the process, gives it up.                                               *)
(***************************************************************************)
CONSTANTS Sessions, NoOwner

VARIABLE owner

Init == owner = NoOwner

Acquire(s) ==
    /\ owner = NoOwner
    /\ owner' = s

Release(s) ==
    /\ owner = s
    /\ owner' = NoOwner

Next == \E s \in Sessions : Acquire(s) \/ Release(s)

Spec == Init /\ [][Next]_owner
=============================================================================
