---------------------------- MODULE DeviceImport ----------------------------
(***************************************************************************)
(* The life of one busid: sessions that import it (handle_import of        *)
(* crates/usbipd/src/daemon.rs), the OpenedDevice each of them opens, with *)
(* the force-capture and its release (crates/host-mac/src/lib.rs), the     *)
(* shutdown of serve, and the host's USB port, where devices come and go.  *)
(*                                                                         *)
(* A re-enumeration gives the device a new registry entry; `current` holds *)
(* those who remember the entry it has now.  IOKit's USBDeviceOpenSeize is *)
(* taken to fail while the daemon has the device open, as the comment in   *)
(* OpenedDevice::drop says.                                                *)
(***************************************************************************)
EXTENDS Integers, FiniteSets

CONSTANTS
    Sessions,   \* client connections that ask for the busid, once each
    Devices,    \* what may be plugged in: a VID:PID each
    Permitted,  \* the devices AccessPolicy permits
    NoDevice,   \* an empty port
    Main,       \* the task that runs serve
    NoOwner,    \* a busid that nobody has imported
    IsRoot,     \* the daemon may force-capture
    MaxPending, \* bound on the closures pending on one device
    Faults      \* the calls that may fail, and what else may happen: "replug",
                \* "cli" (a release-capture command) and "kill"

ASSUME ImportAssumption ==
    /\ Permitted \subseteq Devices
    /\ NoDevice \notin Devices
    /\ Main \notin Sessions
    /\ NoOwner \notin Sessions
    /\ IsRoot \in BOOLEAN
    /\ MaxPending \in Nat
    /\ Faults \subseteq {"list", "capture", "timeout", "open", "release",
                         "replug", "cli", "kill"}

VARIABLES
    port,       \* the device in the port
    visible,    \* it is enumerated, not in the middle of a re-enumeration
    captured,   \* its kernel drivers are detached by the capture flag
    current,    \* who remembers the registry entry of the device
    proc,       \* where serve is
    attached,   \* the busid is a key of DaemonState.attached
    guards,     \* sessions that own an AttachGuard
    pc,         \* where each session's handle_import is
    desc,       \* the device each session found in its listing
    op,         \* where each session's OpenedDevice::open is
    info,       \* the device open found
    cap,        \* captured_registry_id is Some
    handle,     \* state of the OpenedDevice
    pending,    \* closures of URBs that hold an Arc of the OpenedDevice
    excused,    \* since the device was last captured, a kill or a failed call
                \* may have lost the capture
    disturbed   \* sessions whose import, until its open has been joined, met
                \* an unplug, a re-enumeration by another or a failed call

portVars == <<port, visible, captured, excused>>
hostVars == <<portVars, disturbed>>
lockVars == <<attached, guards>>
openVars == <<op, info, cap>>
objVars  == <<handle, pending>>
vars == <<port, visible, captured, current, proc, attached, guards, pc, desc,
          op, info, cap, handle, pending, excused, disturbed>>

Actors == Sessions \cup {Main}

PcStates == {"idle", "listed", "opening", "refuse", "reply", "urb", "ending",
             "dropping", "unguard", "done"}
OpStates == {"none", "find", "capture", "poll", "open", "ok", "err", "joined"}
HandleStates == {"none", "open", "closing", "find", "release", "closed"}
ProcStates == {"up", "snapshot", "find", "release", "dropping", "exited", "killed"}

\* What nusb::list_devices shows at the busid.
Listed == IF visible THEN port ELSE NoDevice

IsOpen(s) == handle[s] \in {"open", "closing"}

\* reenumerate_with_options finds the entry a remembers and seizes the device.
CanSeize(a) ==
    /\ visible
    /\ a \in current
    /\ \A s \in Sessions : s \in current => ~IsOpen(s)

\* s has seen the device in a listing and has not opened it yet.
Importing(s) == pc[s] = "listed" \/ op[s] \in {"find", "capture", "poll", "open"}

\* What happens to the device concerns those of S that import it.
Disturb(S) == disturbed' = disturbed \cup {s \in S : Importing(s)}

\* USBDeviceReEnumerate: the device goes away and comes back as a new entry.
\* That is news to all of S.
Reenumerate(flag, S) ==
    /\ captured' = flag
    /\ Disturb(S)
    /\ excused' = FALSE
    /\ visible' = FALSE
    /\ current' = {}
    /\ UNCHANGED port

-----------------------------------------------------------------------------
Init ==
    /\ port \in Devices \cup {NoDevice}
    /\ visible = (port # NoDevice)
    /\ captured = FALSE
    /\ current = {}
    /\ proc = "up"
    /\ attached = FALSE
    /\ guards = {}
    /\ pc = [s \in Sessions |-> "idle"]
    /\ desc = [s \in Sessions |-> NoDevice]
    /\ op = [s \in Sessions |-> "none"]
    /\ info = [s \in Sessions |-> NoDevice]
    /\ cap = [s \in Sessions |-> FALSE]
    /\ handle = [s \in Sessions |-> "none"]
    /\ pending = [s \in Sessions |-> 0]
    /\ excused = FALSE
    /\ disturbed = {}

-----------------------------------------------------------------------------
(***************************************************************************)
(* The port                                                                *)
(***************************************************************************)
Plug(d) ==
    /\ port = NoDevice
    /\ port' = d
    /\ visible' = TRUE
    /\ UNCHANGED <<captured, excused, disturbed, current, proc, lockVars, pc, desc, openVars,
                   objVars>>

\* The capture flag does not survive a physical unplug.
Unplug ==
    /\ "replug" \in Faults
    /\ port # NoDevice
    /\ port' = NoDevice
    /\ visible' = FALSE
    /\ captured' = FALSE
    /\ excused' = FALSE
    /\ current' = {}
    /\ Disturb(Sessions)
    /\ UNCHANGED <<proc, lockVars, pc, desc, openVars, objVars>>

Reappear ==
    /\ port # NoDevice
    /\ ~visible
    /\ visible' = TRUE
    /\ UNCHANGED <<port, captured, excused, disturbed, current, proc, lockVars, pc, desc,
                   openVars, objVars>>

\* `usbipd release-capture` of another process.
CliRelease ==
    /\ "cli" \in Faults
    /\ IsRoot
    /\ visible
    /\ \A s \in Sessions : s \in current => ~IsOpen(s)
    /\ Reenumerate(FALSE, Sessions)
    /\ UNCHANGED <<proc, lockVars, pc, desc, openVars, objVars>>

-----------------------------------------------------------------------------
(***************************************************************************)
(* handle_import                                                           *)
(***************************************************************************)

\* Tasks run until the runtime is dropped.
Serving == proc \in {"up", "snapshot", "find", "release"}

\* OP_REQ_IMPORT: list, find the busid and ask the policy.
ListDevices(s) ==
    /\ Serving
    /\ pc[s] = "idle"
    /\ desc' = [desc EXCEPT ![s] = Listed]
    /\ pc' = [pc EXCEPT ![s] = IF Listed \in Permitted THEN "listed" ELSE "refuse"]
    /\ UNCHANGED <<hostVars, current, proc, lockVars, openVars, objVars>>

\* The listing fails: the session ends without a reply.
ListFails(s) ==
    /\ Serving
    /\ "list" \in Faults
    /\ pc[s] = "idle"
    /\ pc' = [pc EXCEPT ![s] = "done"]
    /\ UNCHANGED <<hostVars, current, proc, lockVars, desc, openVars, objVars>>

\* Fault: the map is not asked before the insert.
TryAttachBlindly(s) ==
    /\ pc[s] = "listed"
    /\ attached' = TRUE
    /\ guards' = guards \cup {s}
    /\ pc' = [pc EXCEPT ![s] = "opening"]
    /\ op' = [op EXCEPT ![s] = IF proc = "dropping" THEN "none" ELSE "find"]
    /\ UNCHANGED <<hostVars, current, proc, desc, info, cap, objVars>>

\* The busid is free: insert it, and open the device on a blocking thread,
\* which a runtime that is being dropped does not start any more.
TryAttach(s) ==
    /\ pc[s] = "listed"
    /\ ~attached
    /\ attached' = TRUE
    /\ guards' = guards \cup {s}
    /\ pc' = [pc EXCEPT ![s] = "opening"]
    /\ op' = [op EXCEPT ![s] = IF proc = "dropping" THEN "none" ELSE "find"]
    /\ UNCHANGED <<hostVars, current, proc, desc, info, cap, objVars>>

AlreadyAttached(s) ==
    /\ pc[s] = "listed"
    /\ attached
    /\ pc' = [pc EXCEPT ![s] = "refuse"]
    /\ disturbed' = disturbed \ {s}
    /\ UNCHANGED <<portVars, current, proc, lockVars, desc, openVars, objVars>>

\* The session's end: its AttachGuard, if it has one, removes the busid.
Return(s) ==
    /\ attached' = IF s \in guards THEN FALSE ELSE attached
    /\ guards' = guards \ {s}
    /\ pc' = [pc EXCEPT ![s] = "done"]

\* send_import_err, whether or not it can be written, then return.
Refuse(s) ==
    /\ pc[s] = "refuse"
    /\ Return(s)
    /\ UNCHANGED <<hostVars, current, proc, desc, openVars, objVars>>

\* The open has returned.
JoinOpen(s) ==
    /\ pc[s] = "opening"
    /\ op[s] \in {"ok", "err"}
    /\ op' = [op EXCEPT ![s] = "joined"]
    /\ pc' = [pc EXCEPT ![s] = IF op[s] = "ok" THEN "reply" ELSE "refuse"]
    /\ disturbed' = disturbed \ {s}
    /\ UNCHANGED <<portVars, current, proc, lockVars, desc, info, cap, objVars>>

\* OP_REP_IMPORT is written, with the fields of `desc`.
ReplyOk(s) ==
    /\ pc[s] = "reply"
    /\ pc' = [pc EXCEPT ![s] = "urb"]
    /\ UNCHANGED <<hostVars, current, proc, lockVars, desc, openVars, objVars>>

ReplyFails(s) ==
    /\ pc[s] = "reply"
    /\ pc' = [pc EXCEPT ![s] = "ending"]
    /\ UNCHANGED <<hostVars, current, proc, lockVars, desc, openVars, objVars>>

\* The closure of a URB takes its clone of the Arc; its transfer may start
\* later, when it has got a blocking thread and the endpoint's mutex...
StartTransfer(s) ==
    /\ pc[s] = "urb"
    /\ pending[s] < MaxPending
    /\ pending' = [pending EXCEPT ![s] = @ + 1]
    /\ UNCHANGED <<hostVars, current, proc, lockVars, pc, desc, openVars, handle>>

\* ... and drops it when the transfer has ended, which may be long after its
\* task was aborted and the guard of the session dropped.  The last one drops the OpenedDevice.
EndTransfer(s) ==
    /\ pending[s] > 0
    /\ pending' = [pending EXCEPT ![s] = @ - 1]
    /\ handle' = IF pending[s] = 1 /\ pc[s] \in {"unguard", "done"}
                 THEN [handle EXCEPT ![s] = "closing"] ELSE handle
    /\ UNCHANGED <<hostVars, current, proc, lockVars, pc, desc, openVars>>

\* The client is gone, or the runtime drops the task.
UrbLoopEnds(s) ==
    /\ pc[s] = "urb"
    /\ pc' = [pc EXCEPT ![s] = "ending"]
    /\ UNCHANGED <<hostVars, current, proc, lockVars, desc, openVars, objVars>>

\* urb_loop drops its Arc; as the last owner it drops the OpenedDevice too.
DropArc(s) ==
    /\ pc[s] = "ending"
    /\ IF pending[s] = 0
       THEN /\ pc' = [pc EXCEPT ![s] = "dropping"]
            /\ handle' = [handle EXCEPT ![s] = "closing"]
       ELSE /\ pc' = [pc EXCEPT ![s] = "unguard"]
            /\ UNCHANGED handle
    /\ UNCHANGED <<hostVars, current, proc, lockVars, desc, openVars, pending>>

\* Fault: the guard is forgotten when the session ends.
GuardForgotten(s) ==
    /\ pc[s] = "unguard" \/ (pc[s] = "dropping" /\ handle[s] = "closed")
    /\ pc' = [pc EXCEPT ![s] = "done"]
    /\ guards' = guards \ {s}
    /\ UNCHANGED <<hostVars, current, proc, attached, desc, openVars, objVars>>

\* handle_import returns.
DropGuard(s) ==
    /\ pc[s] = "unguard" \/ (pc[s] = "dropping" /\ handle[s] = "closed")
    /\ Return(s)
    /\ UNCHANGED <<hostVars, current, proc, desc, openVars, objVars>>

\* The runtime drops a session that awaits its open, which runs on.
DropOpening(s) ==
    /\ proc = "dropping"
    /\ pc[s] = "opening"
    /\ Return(s)
    /\ UNCHANGED <<hostVars, current, proc, desc, openVars, objVars>>

-----------------------------------------------------------------------------
(***************************************************************************)
(* OpenedDevice::open and maybe_capture                                    *)
(***************************************************************************)
OpenFind(s) ==
    /\ op[s] = "find"
    /\ Listed # NoDevice
    /\ info' = [info EXCEPT ![s] = Listed]
    /\ current' = current \cup {s}
    /\ op' = [op EXCEPT ![s] = IF IsRoot THEN "capture" ELSE "open"]
    /\ UNCHANGED <<hostVars, proc, lockVars, pc, desc, cap, objVars>>

OpenNotFound(s) ==
    /\ op[s] = "find"
    /\ Listed = NoDevice \/ "list" \in Faults
    /\ op' = [op EXCEPT ![s] = "err"]
    /\ disturbed' = IF Listed # NoDevice THEN disturbed \cup {s} ELSE disturbed
    /\ UNCHANGED <<portVars, current, proc, lockVars, pc, desc, info, cap, objVars>>

Capture(s) ==
    /\ op[s] = "capture"
    /\ CanSeize(s)
    /\ Reenumerate(TRUE, Sessions \ {s})
    /\ op' = [op EXCEPT ![s] = "poll"]
    /\ UNCHANGED <<proc, lockVars, pc, desc, info, cap, objVars>>

\* "force-capture failed, falling back to plain claim"
CaptureFails(s) ==
    /\ op[s] = "capture"
    /\ ~CanSeize(s) \/ "capture" \in Faults
    /\ op' = [op EXCEPT ![s] = "open"]
    /\ excused' = captured
    /\ UNCHANGED <<port, visible, captured, disturbed, current, proc, lockVars, pc, desc, info,
                   cap, objVars>>

\* Fault: the device is opened by the registry entry it had before the capture.
PollFoundStale(s) ==
    /\ op[s] = "poll"
    /\ Listed = info[s]
    /\ cap' = [cap EXCEPT ![s] = TRUE]
    /\ op' = [op EXCEPT ![s] = "open"]
    /\ UNCHANGED <<hostVars, current, proc, lockVars, pc, desc, info, objVars>>

\* The device is back, with a new registry entry.
PollFound(s) ==
    /\ op[s] = "poll"
    /\ Listed = info[s]
    /\ current' = current \cup {s}
    /\ cap' = [cap EXCEPT ![s] = TRUE]
    /\ op' = [op EXCEPT ![s] = "open"]
    /\ UNCHANGED <<hostVars, proc, lockVars, pc, desc, info, objVars>>

\* Fault: the poll has no deadline.
PollForever(s) ==
    /\ op[s] = "poll"
    /\ UNCHANGED <<hostVars, current, proc, lockVars, pc, desc, openVars, objVars>>

\* A listing fails, or the device is not back within 5 s.
PollFails(s) ==
    /\ op[s] = "poll"
    /\ \/ "list" \in Faults
       \/ "timeout" \in Faults /\ Listed # info[s]
       \/ port # info[s]
    /\ op' = [op EXCEPT ![s] = "err"]
    /\ excused' = captured
    /\ disturbed' = IF port = info[s] THEN disturbed \cup {s} ELSE disturbed
    /\ UNCHANGED <<port, visible, captured, current, proc, lockVars, pc, desc, info, cap, objVars>>

OpenHandle(s) ==
    /\ op[s] = "open"
    /\ s \in current
    /\ handle' = [handle EXCEPT ![s] = "open"]
    /\ op' = [op EXCEPT ![s] = "ok"]
    /\ UNCHANGED <<hostVars, current, proc, lockVars, pc, desc, info, cap, pending>>

\* The error drops captured_registry_id, and with it the memory of a capture.
OpenFails(s) ==
    /\ op[s] = "open"
    /\ s \notin current \/ "open" \in Faults
    /\ op' = [op EXCEPT ![s] = "err"]
    /\ excused' = IF cap[s] THEN captured ELSE excused
    /\ disturbed' = IF s \in current THEN disturbed \cup {s} ELSE disturbed
    /\ UNCHANGED <<port, visible, captured, current, proc, lockVars, pc, desc, info, cap, objVars>>

\* Nobody awaits the open any more: its result is dropped.
DropResult(s) ==
    /\ pc[s] = "done"
    /\ op[s] \in {"ok", "err"}
    /\ op' = [op EXCEPT ![s] = "joined"]
    /\ handle' = IF op[s] = "ok" THEN [handle EXCEPT ![s] = "closing"] ELSE handle
    /\ disturbed' = disturbed \ {s}
    /\ UNCHANGED <<portVars, current, proc, lockVars, pc, desc, info, cap, pending>>

-----------------------------------------------------------------------------
(***************************************************************************)
(* OpenedDevice::drop                                                      *)
(***************************************************************************)

\* The nusb handle is closed first; only a captured device is released.
CloseHandle(s) ==
    /\ handle[s] = "closing"
    /\ handle' = [handle EXCEPT ![s] = IF cap[s] THEN "find" ELSE "closed"]
    /\ UNCHANGED <<hostVars, current, proc, lockVars, pc, desc, openVars, pending>>

\* Fault: whatever is in the port is released.
DropFindAny(s) ==
    /\ handle[s] = "find"
    /\ handle' = [handle EXCEPT ![s] = IF Listed # NoDevice THEN "release" ELSE "closed"]
    /\ current' = IF Listed # NoDevice THEN current \cup {s} ELSE current
    /\ UNCHANGED <<hostVars, proc, lockVars, pc, desc, openVars, pending>>

\* Find the device by busid and compare its VID:PID.
DropFind(s) ==
    /\ handle[s] = "find"
    /\ handle' = [handle EXCEPT ![s] = IF Listed = info[s] THEN "release" ELSE "closed"]
    /\ current' = IF Listed = info[s] THEN current \cup {s} ELSE current
    /\ UNCHANGED <<hostVars, proc, lockVars, pc, desc, openVars, pending>>

\* list_devices().ok(): a failed listing counts as "device gone".
DropFindFails(s) ==
    /\ handle[s] = "find"
    /\ "list" \in Faults
    /\ handle' = [handle EXCEPT ![s] = "closed"]
    /\ excused' = captured
    /\ UNCHANGED <<port, visible, captured, disturbed, current, proc, lockVars, pc, desc, openVars,
                   pending>>

DropRelease(s) ==
    /\ handle[s] = "release"
    /\ CanSeize(s)
    /\ Reenumerate(FALSE, Sessions \ {s})
    /\ handle' = [handle EXCEPT ![s] = "closed"]
    /\ UNCHANGED <<proc, lockVars, pc, desc, openVars, pending>>

DropReleaseFails(s) ==
    /\ handle[s] = "release"
    /\ ~CanSeize(s) \/ "release" \in Faults
    /\ handle' = [handle EXCEPT ![s] = "closed"]
    /\ excused' = captured
    /\ UNCHANGED <<port, visible, captured, disturbed, current, proc, lockVars, pc, desc, openVars,
                   pending>>

-----------------------------------------------------------------------------
(***************************************************************************)
(* serve, and the end of the process                                       *)
(***************************************************************************)
procUnchanged == <<lockVars, pc, desc, openVars, objVars>>

\* SIGINT or SIGTERM: stop accepting.
Signal ==
    /\ proc = "up"
    /\ proc' = "snapshot"
    /\ UNCHANGED <<hostVars, current, procUnchanged>>

\* The busids still attached, if any, are released one by one.
Snapshot ==
    /\ proc = "snapshot"
    /\ proc' = IF attached /\ IsRoot THEN "find" ELSE "dropping"
    /\ UNCHANGED <<hostVars, current, procUnchanged>>

ShutdownFind ==
    /\ proc = "find"
    /\ proc' = IF Listed = NoDevice THEN "dropping" ELSE "release"
    /\ current' = IF Listed = NoDevice THEN current ELSE current \cup {Main}
    /\ UNCHANGED <<hostVars, procUnchanged>>

ShutdownRelease ==
    /\ proc = "release"
    /\ CanSeize(Main)
    /\ Reenumerate(FALSE, Sessions)
    /\ proc' = "dropping"
    /\ UNCHANGED procUnchanged

\* "release_capture on shutdown failed" is only logged.
ShutdownReleaseFails ==
    /\ \/ proc = "find" /\ "list" \in Faults
       \/ proc = "release" /\ (~CanSeize(Main) \/ "release" \in Faults)
    /\ proc' = "dropping"
    /\ UNCHANGED <<hostVars, current, procUnchanged>>

\* The runtime is gone once every task is dropped and every blocking thread
\* has returned.
Quiet(s) ==
    /\ pc[s] \in {"idle", "done"}
    /\ op[s] \in {"none", "joined"}
    /\ handle[s] \in {"none", "closed"}
    /\ pending[s] = 0

\* Fault: the process does not wait for its blocking threads.
ExitAtOnce ==
    /\ proc = "dropping"
    /\ proc' = "exited"
    /\ UNCHANGED <<hostVars, current, procUnchanged>>

Exit ==
    /\ proc = "dropping"
    /\ \A s \in Sessions : Quiet(s)
    /\ proc' = "exited"
    /\ UNCHANGED <<hostVars, current, procUnchanged>>

\* SIGKILL or a crash: the kernel closes the handles, the capture stays.
Kill ==
    /\ "kill" \in Faults
    /\ proc \notin {"exited", "killed"}
    /\ proc' = "killed"
    /\ attached' = FALSE
    /\ guards' = {}
    /\ pc' = [s \in Sessions |-> IF pc[s] = "idle" THEN "idle" ELSE "done"]
    /\ op' = [s \in Sessions |-> IF op[s] = "none" THEN "none" ELSE "joined"]
    /\ handle' = [s \in Sessions |-> IF handle[s] = "none" THEN "none" ELSE "closed"]
    /\ pending' = [s \in Sessions |-> 0]
    /\ current' = {}
    /\ excused' = captured
    /\ disturbed' = {}
    /\ UNCHANGED <<port, visible, captured, desc, info, cap>>

Restart ==
    /\ proc \in {"exited", "killed"}
    /\ proc' = "up"
    /\ UNCHANGED <<hostVars, current, procUnchanged>>

-----------------------------------------------------------------------------
PortStep == Unplug \/ Reappear \/ CliRelease \/ \E d \in Devices : Plug(d)

\* Steps of the daemon that only the scheduler decides on.
SessionStep(s) ==
    \/ TryAttach(s)
    \/ AlreadyAttached(s)
    \/ Refuse(s)
    \/ JoinOpen(s)
    \/ ReplyOk(s)
    \/ ReplyFails(s)
    \/ DropArc(s)
    \/ DropGuard(s)
    \/ DropOpening(s)

OpenStep(s) ==
    \/ OpenFind(s)
    \/ OpenNotFound(s)
    \/ Capture(s)
    \/ CaptureFails(s)
    \/ PollFound(s)
    \/ PollFails(s)
    \/ OpenHandle(s)
    \/ OpenFails(s)
    \/ DropResult(s)

DropStep(s) ==
    \/ CloseHandle(s)
    \/ DropFind(s)
    \/ DropFindFails(s)
    \/ DropRelease(s)
    \/ DropReleaseFails(s)

ClientStep(s) ==
    \/ ListDevices(s)
    \/ ListFails(s)
    \/ StartTransfer(s)
    \/ UrbLoopEnds(s)

ShutdownStep ==
    \/ Snapshot
    \/ ShutdownFind
    \/ ShutdownRelease
    \/ ShutdownReleaseFails
    \/ Exit

Next ==
    \/ PortStep
    \/ \E s \in Sessions :
         ClientStep(s) \/ SessionStep(s) \/ OpenStep(s) \/ EndTransfer(s) \/ DropStep(s)
    \/ Signal
    \/ ShutdownStep
    \/ Kill
    \/ Restart

Spec == Init /\ [][Next]_vars

\* Tasks are scheduled, blocking calls return (a transfer by its timeout, the
\* poll for the device by its deadline), and a runtime that is being dropped
\* drops its tasks.
Fairness ==
    /\ WF_vars(ShutdownStep)
    /\ \A s \in Sessions :
         /\ WF_vars(SessionStep(s))
         /\ WF_vars(OpenStep(s))
         /\ WF_vars(EndTransfer(s))
         /\ WF_vars(DropStep(s))
         /\ WF_vars(proc = "dropping" /\ UrbLoopEnds(s))

FairSpec == Spec /\ Fairness

-----------------------------------------------------------------------------
(***************************************************************************)
(* Properties                                                              *)
(***************************************************************************)

\* Every variable has its type.
TypeOK ==
    /\ port \in Devices \cup {NoDevice}
    /\ visible \in BOOLEAN
    /\ captured \in BOOLEAN
    /\ current \in SUBSET Actors
    /\ proc \in ProcStates
    /\ attached \in BOOLEAN
    /\ guards \in SUBSET Sessions
    /\ pc \in [Sessions -> PcStates]
    /\ desc \in [Sessions -> Devices \cup {NoDevice}]
    /\ op \in [Sessions -> OpStates]
    /\ info \in [Sessions -> Devices \cup {NoDevice}]
    /\ cap \in [Sessions -> BOOLEAN]
    /\ handle \in [Sessions -> HandleStates]
    /\ pending \in [Sessions -> 0..MaxPending]
    /\ excused \in BOOLEAN
    /\ disturbed \in SUBSET Sessions

\* The attached map and the guards agree: the busid is a key exactly while one
\* session owns its guard, and two sessions never do.
GuardExclusive ==
    /\ attached <=> guards # {}
    /\ \A s, t \in guards : s = t

\* lib.rs, captured_registry_id: "of the captured `IOService`, if
\* force-capture succeeded at open time": while the daemon serves, a session
\* that believes it captured the device it has open is right.
CapturedWhileHeld ==
    proc = "up" => \A s \in Sessions : cap[s] /\ IsOpen(s) /\ s \in current => captured

\* The drop of an OpenedDevice re-enumerates only the device it captured, not
\* another one that was plugged into the port since.
ReleaseHitsOwn ==
    [][\A s \in Sessions :
         handle[s] = "release" /\ handle'[s] = "closed" /\ current # current' /\ proc' # "killed"
         => port = info[s]]_vars

\* OpenedDevice::open: the import of a device that was there when it was listed
\* fails only if the device was unplugged or re-enumerated meanwhile by somebody
\* else, or a call failed.  The session's own capture, after which the device
\* has a new registry entry, and its fallback to a plain claim are no reason,
\* nor is what an earlier session, run or kill left behind.
ImportFailsOnlyIfDisturbed == \A s \in Sessions : op[s] = "err" => s \in disturbed

\* The session that owns the busid, for the refinement of ImportLock.
Owner == IF guards = {} THEN NoOwner ELSE CHOOSE s \in guards : TRUE

Lock == INSTANCE ImportLock WITH owner <- Owner

\* The busid behaves as the lock that the README promises: no handover, no
\* release by a session that does not own it.
LockSpec == Lock!Spec

\* Every import is answered: a session that waits for the open of its device
\* gets to its URB loop or ends, whatever the port does.
ImportSettles ==
    \A s \in Sessions : pc[s] = "opening" ~> pc[s] \in {"urb", "done"}

\* A shutdown ends the process, whatever the sessions and transfers do.
ShutdownEnds == proc = "snapshot" ~> proc \in {"exited", "killed"}

\* serve, OpenedDevice::drop: whatever sessions, port and other processes do,
\* the daemon exits with the device captured only if a kill, or the failure of
\* a call that captures, finds, opens or releases it, came after the capture.
LostOnlyByFailure == proc = "exited" /\ captured => excused

\* SECURITY.md: the signal handler "releases every captured device before
\* exit".
CaptureReturned == proc = "exited" => ~captured

(***************************************************************************)
(* What the documents and comments say and the code does not do            *)
(***************************************************************************)

\* daemon.rs, DaemonState: `attached` holds the "devices currently held open
\* by a client".
HeldOpenIsAttached == \A s \in Sessions : IsOpen(s) /\ proc = "up" => attached

\* lib.rs, descriptor_snapshot: used to "populate the `OP_REP_IMPORT` reply
\* accurately": the reply describes the device that was opened.
ReplyDescribesOpened == \A s \in Sessions : pc[s] = "urb" => desc[s] = info[s]
=============================================================================
