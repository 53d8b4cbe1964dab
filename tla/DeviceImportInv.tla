--------------------------- MODULE DeviceImportInv ---------------------------
(***************************************************************************)
(* The inductive invariant behind the theorems on DeviceImport.            *)
(***************************************************************************)
EXTENDS DeviceImport

Guarded == {"opening", "reply", "urb", "ending", "dropping", "unguard"}
Joined  == {"reply", "urb", "ending", "dropping", "unguard"}
Opening == {"find", "capture", "poll", "open"}
Held    == {"open", "closing", "find", "release"}

\* How far the session, its open and its OpenedDevice are fit together.
LocalOK(s) ==
    /\ pc[s] \in Guarded => s \in guards
    /\ pc[s] \in {"idle", "listed"} => op[s] = "none"
    /\ pc[s] \in Joined \/ pending[s] > 0 => op[s] = "joined"
    /\ op[s] \in {"none"} \cup Opening => handle[s] = "none"
    /\ handle[s] \in {"find", "release"} => cap[s]
    /\ op[s] = "poll" \/ cap[s] => info[s] # NoDevice

\* Who remembers the registry entry of the device knows which device it is.
KnowsPort(s) == s \in current => port # NoDevice /\ port = info[s]

\* s will release the capture, or know why not.
Holds(s) ==
    /\ port = info[s]
    /\ port # NoDevice
    /\ \/ op[s] = "poll"
       \/ cap[s] /\ visible /\ (op[s] = "open" \/ handle[s] \in Held)

SomeoneHolds == captured /\ ~excused => \E s \in Sessions : Holds(s)

\* While nothing has disturbed its import, s can still find the device, knows
\* its registry entry, or waits for the device it re-enumerated to come back.
OnTrack(s) ==
    s \notin disturbed =>
      /\ pc[s] = "listed" \/ op[s] = "find" => visible /\ port # NoDevice
      /\ op[s] \in {"capture", "open"} => s \in current
      /\ op[s] = "poll" => port = info[s]
      /\ op[s] # "err"

\* A process that has ended has left nothing behind.
Ended == proc \in {"exited", "killed"} => \A s \in Sessions : Quiet(s)

\* The inductive invariant of handle_import, OpenedDevice and serve: exclusive
\* guards, sessions that know the device they work on, a session that answers
\* for a capture nothing has lost, and imports that only a disturbance fails.
IInv ==
    /\ TypeOK
    /\ GuardExclusive
    /\ \A s \in Sessions : LocalOK(s) /\ KnowsPort(s) /\ OnTrack(s)
    /\ Main \in current => port # NoDevice
    /\ SomeoneHolds
    /\ Ended
=============================================================================
