-------------------------- MODULE DeviceImportProofs --------------------------
(***************************************************************************)
(* What holds of a busid for any number of sessions, devices and pending   *)
(* transfers, with whatever fails and whatever is plugged in.              *)
(***************************************************************************)
EXTENDS DeviceImportInv, TLAPS

\* A step of the daemon by one session, of any kind.
ActorStep(s) ==
    ClientStep(s) \/ SessionStep(s) \/ OpenStep(s) \/ EndTransfer(s) \/ DropStep(s)

\* Steps that leave the attached map and every session's progress alone.
HostStep == PortStep \/ Signal \/ ShutdownStep \/ Restart

-----------------------------------------------------------------------------
(***************************************************************************)
(* Types                                                                   *)
(***************************************************************************)

\* What nusb::list_devices shows is a device or nothing.
LEMMA ListedType ==
    ASSUME TypeOK
    PROVE  Listed \in Devices \cup {NoDevice}
BY DEF TypeOK, Listed

\* A daemon that starts has well-typed variables.
LEMMA InitTypes == Init => TypeOK
<1>. SUFFICES ASSUME Init PROVE TypeOK
  OBVIOUS
<1>1. /\ port \in Devices \cup {NoDevice} /\ visible \in BOOLEAN
      /\ captured \in BOOLEAN /\ attached \in BOOLEAN /\ excused \in BOOLEAN
      /\ disturbed \in SUBSET Sessions
  BY Zenon DEF Init
<1>2. /\ current \in SUBSET Actors /\ guards \in SUBSET Sessions /\ proc \in ProcStates
      /\ pc \in [Sessions -> PcStates]
      /\ op \in [Sessions -> OpStates]
      /\ handle \in [Sessions -> HandleStates]
  BY DEF Init, ProcStates, PcStates, OpStates, HandleStates
<1>3. /\ desc \in [Sessions -> Devices \cup {NoDevice}]
      /\ info \in [Sessions -> Devices \cup {NoDevice}]
      /\ cap \in [Sessions -> BOOLEAN]
  BY Zenon DEF Init
<1>4. pending \in [Sessions -> 0..MaxPending]
  BY ImportAssumption DEF Init
<1>. QED
  BY <1>1, <1>2, <1>3, <1>4, Zenon DEF TypeOK

\* What happens at the port, and serve, keep the types.
LEMMA HostTypes ==
    ASSUME TypeOK, HostStep
    PROVE  TypeOK'
<1>. USE DEF TypeOK, hostVars, portVars, lockVars, openVars, objVars, procUnchanged
<1>1. CASE PortStep
  BY <1>1, Zenon DEF PortStep, Plug, Unplug, Reappear, CliRelease, Reenumerate, Disturb
<1>2. CASE Signal \/ Restart
  BY <1>2, Zenon DEF Signal, Restart, ProcStates
<1>3. CASE ShutdownStep
  <2>1. Main \in Actors
    BY Zenon DEF Actors
  <2>. QED
    BY <1>3, <2>1, Zenon DEF ShutdownStep, Snapshot, ShutdownFind, ShutdownRelease,
       ShutdownReleaseFails, Exit, Reenumerate, Disturb, ProcStates
<1>. QED
  BY <1>1, <1>2, <1>3, Zenon DEF HostStep

\* So does the end of the process.
LEMMA KillTypes ==
    ASSUME TypeOK, Kill
    PROVE  TypeOK'
<1>1. /\ pc' \in [Sessions -> PcStates]
      /\ op' \in [Sessions -> OpStates]
      /\ handle' \in [Sessions -> HandleStates]
  BY Zenon DEF TypeOK, Kill, PcStates, OpStates, HandleStates
<1>2. pending' \in [Sessions -> 0..MaxPending]
  BY ImportAssumption DEF Kill
<1>. QED
  BY <1>1, <1>2, Zenon DEF TypeOK, Kill, ProcStates

\* And so does what clients ask for.
LEMMA ClientTypes ==
    ASSUME TypeOK, NEW s \in Sessions, ClientStep(s)
    PROVE  TypeOK'
<1>. USE DEF TypeOK, hostVars, portVars, lockVars, openVars, objVars
<1>1. CASE ListFails(s) \/ UrbLoopEnds(s)
  BY <1>1, Zenon DEF ListFails, UrbLoopEnds, PcStates
<1>2. CASE StartTransfer(s)
  <2>1. pending' \in [Sessions -> 0..MaxPending]
    BY <1>2, ImportAssumption DEF StartTransfer
  <2>. QED
    BY <1>2, <2>1, Zenon DEF StartTransfer
<1>3. CASE ListDevices(s)
  <2>1. pc' \in [Sessions -> PcStates]
    BY <1>3, Zenon DEF ListDevices, PcStates
  <2>2. desc' \in [Sessions -> Devices \cup {NoDevice}]
    BY <1>3, ListedType, Zenon DEF ListDevices
  <2>. QED
    BY <1>3, <2>1, <2>2, Zenon DEF ListDevices
<1>. QED
  BY <1>1, <1>2, <1>3, Zenon DEF ClientStep

\* handle_import after the listing.
LEMMA SessionTypes ==
    ASSUME TypeOK, NEW s \in Sessions, SessionStep(s)
    PROVE  TypeOK'
<1>. USE DEF TypeOK, hostVars, portVars, lockVars, openVars, objVars
<1>1. CASE TryAttach(s)
  BY <1>1, Zenon DEF TryAttach, PcStates, OpStates
<1>2. CASE Refuse(s) \/ DropGuard(s) \/ DropOpening(s)
  BY <1>2, Zenon DEF Refuse, DropGuard, DropOpening, Return, PcStates
<1>3. CASE AlreadyAttached(s) \/ JoinOpen(s) \/ ReplyOk(s) \/ ReplyFails(s)
  BY <1>3, Zenon DEF AlreadyAttached, JoinOpen, ReplyOk, ReplyFails, PcStates, OpStates
<1>4. CASE DropArc(s)
  BY <1>4, Zenon DEF DropArc, PcStates, HandleStates
<1>. QED
  BY <1>1, <1>2, <1>3, <1>4, Zenon DEF SessionStep

\* OpenedDevice::open.
LEMMA OpenTypes ==
    ASSUME TypeOK, NEW s \in Sessions, OpenStep(s)
    PROVE  TypeOK'
<1>. USE DEF TypeOK, hostVars, portVars, lockVars, openVars, objVars
<1>1. s \in Actors
  BY Zenon DEF Actors
<1>2. CASE OpenFind(s)
  <2>1. op' \in [Sessions -> OpStates] /\ info' \in [Sessions -> Devices \cup {NoDevice}]
    BY <1>2, ListedType, Zenon DEF OpenFind, OpStates
  <2>2. current' \in SUBSET Actors
    BY <1>1, <1>2, Zenon DEF OpenFind
  <2>. QED
    BY <1>2, <2>1, <2>2, Zenon DEF OpenFind
<1>3. CASE OpenNotFound(s)
  BY <1>3, Zenon DEF OpenNotFound, OpStates
<1>4. CASE Capture(s) \/ CaptureFails(s)
  BY <1>4, Zenon DEF Capture, CaptureFails, Reenumerate, Disturb, OpStates
<1>5. CASE PollFound(s)
  <2>1. current' \in SUBSET Actors
    BY <1>1, <1>5, Zenon DEF PollFound
  <2>. QED
    BY <1>5, <2>1, Zenon DEF PollFound, OpStates
<1>6. CASE PollFails(s)
  BY <1>6, Zenon DEF PollFails, OpStates
<1>7. CASE OpenHandle(s)
  BY <1>7, Zenon DEF OpenHandle, OpStates, HandleStates
<1>8. CASE OpenFails(s)
  BY <1>8, Zenon DEF OpenFails, OpStates
<1>9. CASE DropResult(s)
  BY <1>9, Zenon DEF DropResult, OpStates, HandleStates
<1>. QED
  BY <1>2, <1>3, <1>4, <1>5, <1>6, <1>7, <1>8, <1>9, Zenon DEF OpenStep

\* OpenedDevice::drop.
LEMMA DropTypes ==
    ASSUME TypeOK, NEW s \in Sessions, DropStep(s)
    PROVE  TypeOK'
<1>. USE DEF TypeOK, hostVars, portVars, lockVars, openVars, objVars
<1>1. s \in Actors
  BY Zenon DEF Actors
<1>2. CASE CloseHandle(s) \/ DropFind(s) \/ DropFindFails(s)
  BY <1>1, <1>2, Zenon DEF CloseHandle, DropFind, DropFindFails, HandleStates
<1>3. CASE DropRelease(s) \/ DropReleaseFails(s)
  BY <1>3, Zenon DEF DropRelease, DropReleaseFails, Reenumerate, Disturb, HandleStates
<1>. QED
  BY <1>2, <1>3, Zenon DEF DropStep

\* The end of a blocking transfer.
LEMMA TransferTypes ==
    ASSUME TypeOK, NEW s \in Sessions, EndTransfer(s)
    PROVE  TypeOK'
<1>. USE DEF TypeOK, hostVars, portVars, lockVars, openVars
<1>1. pending' \in [Sessions -> 0..MaxPending]
  BY ImportAssumption DEF EndTransfer
<1>2. handle' \in [Sessions -> HandleStates]
  BY Zenon DEF EndTransfer, HandleStates
<1>. QED
  BY <1>1, <1>2, Zenon DEF EndTransfer

\* Every step keeps the types.
LEMMA StepTypes == TypeOK /\ [Next]_vars => TypeOK'
<1>. SUFFICES ASSUME TypeOK, [Next]_vars PROVE TypeOK'
  OBVIOUS
<1>1. CASE Next
  BY <1>1, HostTypes, KillTypes, ClientTypes, SessionTypes, OpenTypes, DropTypes,
     TransferTypes, Zenon DEF Next, HostStep
<1>2. CASE UNCHANGED vars
  BY <1>2, Zenon DEF TypeOK, vars
<1>. QED
  BY <1>1, <1>2

-----------------------------------------------------------------------------
(***************************************************************************)
(* The attached map and its guards                                         *)
(***************************************************************************)

\* What a step of s may do to the map: nothing, take a free busid, or give up
\* its own.
Locks(s) ==
    \/ UNCHANGED lockVars
    \/ ~attached /\ attached' /\ guards' = guards \cup {s}
    \/ /\ attached' = IF s \in guards THEN FALSE ELSE attached
       /\ guards' = guards \ {s}

\* No step of a session touches the guard of another one.
LEMMA ActorLocks ==
    ASSUME NEW s \in Sessions, ActorStep(s)
    PROVE  Locks(s)
<1>. USE DEF Locks, lockVars
<1>1. CASE ClientStep(s) \/ EndTransfer(s)
  BY <1>1, Zenon DEF ClientStep, ListDevices, ListFails, StartTransfer, UrbLoopEnds, EndTransfer
<1>2. CASE SessionStep(s)
  BY <1>2, Zenon DEF SessionStep, TryAttach, AlreadyAttached, Refuse, JoinOpen, ReplyOk,
     ReplyFails, DropArc, DropGuard, DropOpening, Return
<1>3. CASE OpenStep(s)
  BY <1>3, Zenon DEF OpenStep, OpenFind, OpenNotFound, Capture, CaptureFails, PollFound,
     PollFails, OpenHandle, OpenFails, DropResult
<1>4. CASE DropStep(s)
  BY <1>4, Zenon DEF DropStep, CloseHandle, DropFind, DropFindFails, DropRelease,
     DropReleaseFails
<1>. QED
  BY <1>1, <1>2, <1>3, <1>4, Zenon DEF ActorStep

\* Nor do the port and serve.
LEMMA HostLocks ==
    ASSUME HostStep
    PROVE  UNCHANGED lockVars
BY Zenon DEF HostStep, PortStep, Plug, Unplug, Reappear, CliRelease, Signal, Restart,
   ShutdownStep, Snapshot, ShutdownFind, ShutdownRelease, ShutdownReleaseFails, Exit,
   procUnchanged, lockVars

\* Guards stay exclusive, and the busid is a key while there is one.
LEMMA LocksExclude ==
    ASSUME TypeOK, GuardExclusive, NEW s \in Sessions, Locks(s)
    PROVE  GuardExclusive'
<1>1. CASE UNCHANGED lockVars
  BY <1>1, Zenon DEF GuardExclusive, lockVars
<1>2. CASE ~attached /\ attached' /\ guards' = guards \cup {s}
  <2>1. guards = {}
    BY <1>2, Zenon DEF GuardExclusive
  <2>2. guards' = {s}
    BY <1>2, <2>1, Zenon
  <2>. QED
    BY <1>2, <2>2, Zenon DEF GuardExclusive
<1>3. CASE /\ attached' = IF s \in guards THEN FALSE ELSE attached
           /\ guards' = guards \ {s}
  <2>1. CASE s \in guards
    <3>1. guards' = {} /\ ~attached'
      BY <1>3, <2>1, Zenon DEF GuardExclusive
    <3>. QED
      BY <3>1, Zenon DEF GuardExclusive
  <2>2. CASE s \notin guards
    <3>1. guards' = guards /\ attached' = attached
      BY <1>3, <2>2, Zenon
    <3>. QED
      BY <3>1, Zenon DEF GuardExclusive
  <2>. QED
    BY <2>1, <2>2
<1>. QED
  BY <1>1, <1>2, <1>3, Zenon DEF Locks

\* What Next does, sorted by who does it.
LEMMA NextCases ==
    Next <=> HostStep \/ Kill \/ \E s \in Sessions : ActorStep(s)
BY Zenon DEF Next, HostStep, ActorStep

\* Every step keeps the guards exclusive.
LEMMA StepExcludes ==
    ASSUME TypeOK, GuardExclusive, [Next]_vars
    PROVE  GuardExclusive'
<1>1. CASE HostStep \/ UNCHANGED vars
  <2>1. UNCHANGED lockVars
    BY <1>1, HostLocks, Zenon DEF vars, lockVars
  <2>. QED
    BY <2>1, Zenon DEF GuardExclusive, lockVars
<1>2. CASE Kill
  BY <1>2, Zenon DEF Kill, GuardExclusive
<1>3. CASE \E s \in Sessions : ActorStep(s)
  BY <1>3, ActorLocks, LocksExclude, Zenon
<1>. QED
  BY <1>1, <1>2, <1>3, NextCases, Zenon

\* The owner of the busid is the session that has the guard, if there is one.
LEMMA OwnerIs ==
    ASSUME TypeOK, GuardExclusive
    PROVE  /\ guards = {} => Owner = NoOwner
           /\ \A s \in guards : Owner = s /\ guards = {s}
<1>1. guards = {} => Owner = NoOwner
  BY Zenon DEF Owner
<1>2. ASSUME NEW s \in guards PROVE Owner = s /\ guards = {s}
  <2>1. guards = {s}
    BY <1>2, Zenon DEF GuardExclusive
  <2>. QED
    BY <2>1 DEF Owner
<1>. QED
  BY <1>1, <1>2

\* Every step of the daemon is a step of the lock, or none.
LEMMA StepLocks ==
    ASSUME TypeOK, GuardExclusive, [Next]_vars
    PROVE  [Lock!Next]_Owner
<1>1. GuardExclusive'
  BY StepExcludes
<1>2. guards' = {} => Owner' = NoOwner
  BY Zenon DEF Owner
<1>3. guards' = guards => Owner' = Owner
  BY DEF Owner
<1>4. ASSUME NEW s \in Sessions, Locks(s) PROVE [Lock!Next]_Owner
  <2>1. CASE s \in guards
    <3>1. guards = {s} /\ Owner = s /\ attached
      BY <2>1, OwnerIs, Zenon DEF GuardExclusive
    <3>2. guards' \in {{}, guards}
      BY <1>4, <3>1, Zenon DEF Locks, lockVars
    <3>3. guards' = {} => Lock!Release(s)
      BY <1>2, <3>1, Zenon DEF Lock!Release
    <3>. QED
      BY <1>3, <3>2, <3>3, Zenon DEF Lock!Next
  <2>2. CASE s \notin guards
    <3>1. guards' = guards \/ (guards = {} /\ guards' = {s})
      BY <1>4, <2>2, Zenon DEF Locks, lockVars, GuardExclusive
    <3>2. guards' = {s} => Owner' = s
      BY DEF Owner
    <3>3. guards = {} => Owner = NoOwner
      BY OwnerIs
    <3>4. guards = {} /\ guards' = {s} => Lock!Acquire(s)
      BY <3>2, <3>3, Zenon DEF Lock!Acquire
    <3>. QED
      BY <1>3, <3>1, <3>4, Zenon DEF Lock!Next
  <2>. QED
    BY <2>1, <2>2
<1>5. CASE HostStep \/ UNCHANGED vars
  <2>1. guards' = guards
    BY <1>5, HostLocks, Zenon DEF vars, lockVars
  <2>. QED
    BY <1>3, <2>1
<1>6. CASE Kill
  <2>1. guards' = {}
    BY <1>6, Zenon DEF Kill
  <2>2. CASE guards = {}
    BY <1>3, <2>1, <2>2
  <2>3. CASE guards # {}
    <3>1. PICK s \in guards : TRUE
      BY <2>3
    <3>2. s \in Sessions /\ Owner = s
      BY <3>1, OwnerIs, Zenon DEF TypeOK
    <3>. QED
      BY <1>2, <2>1, <3>2, Zenon DEF Lock!Next, Lock!Release
  <2>. QED
    BY <2>2, <2>3
<1>. QED
  BY <1>4, <1>5, <1>6, NextCases, ActorLocks, Zenon

\* A new daemon has nothing imported.
LEMMA InitLocks == Init => GuardExclusive /\ Lock!Init
BY Zenon DEF Init, GuardExclusive, Lock!Init, Owner

\* Every variable has its type, for any number of sessions and devices.
THEOREM ImportTypes == Spec => []TypeOK
<1>. QED
  BY InitTypes, StepTypes, PTL DEF Spec

\* For any number of sessions: two of them never own the busid's guard, and it
\* is a key of DaemonState.attached exactly while one does.
THEOREM GuardsExclude == Spec => []GuardExclusive
<1>1. TypeOK /\ GuardExclusive /\ [Next]_vars => GuardExclusive'
  BY StepExcludes
<1>2. Init => GuardExclusive
  BY InitLocks
<1>. QED
  BY <1>1, <1>2, ImportTypes, PTL DEF Spec

\* The daemon implements the lock on the busid that the README promises: for
\* any number of sessions a busid goes from free to owned to free, never from
\* one session to another.
THEOREM ImplementsLock == Spec => LockSpec
<1>1. TypeOK /\ GuardExclusive /\ [Next]_vars => [Lock!Next]_Owner
  BY StepLocks
<1>2. Init => Lock!Init
  BY InitLocks
<1>. QED
  BY <1>1, <1>2, ImportTypes, GuardsExclude, PTL DEF Spec, LockSpec, Lock!Spec

-----------------------------------------------------------------------------
(***************************************************************************)
(* A session, its open and its OpenedDevice                                *)
(***************************************************************************)

\* The session u and all it owns stay as they are.
Same(u) ==
    /\ pc'[u] = pc[u] /\ op'[u] = op[u] /\ handle'[u] = handle[u]
    /\ pending'[u] = pending[u] /\ cap'[u] = cap[u] /\ info'[u] = info[u]
    /\ u \in guards' <=> u \in guards

\* A step of s is of no concern to the others, and none of a process that has
\* ended.
Within(s) ==
    /\ \A u \in Sessions \ {s} : Same(u)
    /\ port' = port
    /\ proc' = proc
    /\ current' \subseteq current \cup {s}
    /\ Quiet(s) => Serving

\* Clients' steps.
LEMMA ClientWithin ==
    ASSUME TypeOK, NEW s \in Sessions, ClientStep(s)
    PROVE  Within(s)
<1>. USE DEF TypeOK, Within, Same, Quiet, hostVars, portVars, lockVars, openVars, objVars
<1>1. CASE ListDevices(s) \/ ListFails(s)
  BY <1>1, Zenon DEF ListDevices, ListFails
<1>2. CASE StartTransfer(s) \/ UrbLoopEnds(s)
  BY <1>2, Zenon DEF StartTransfer, UrbLoopEnds
<1>. QED
  BY <1>1, <1>2, Zenon DEF ClientStep

\* Steps of handle_import.
LEMMA SessionWithin ==
    ASSUME TypeOK, NEW s \in Sessions, SessionStep(s)
    PROVE  Within(s)
<1>. USE DEF TypeOK, Within, Same, Quiet, hostVars, portVars, lockVars, openVars, objVars
<1>1. CASE TryAttach(s)
  BY <1>1, Zenon DEF TryAttach
<1>2. CASE Refuse(s) \/ DropGuard(s) \/ DropOpening(s)
  BY <1>2, Zenon DEF Refuse, DropGuard, DropOpening, Return
<1>3. CASE AlreadyAttached(s) \/ JoinOpen(s)
  BY <1>3, Zenon DEF AlreadyAttached, JoinOpen
<1>4. CASE ReplyOk(s) \/ ReplyFails(s)
  BY <1>4, Zenon DEF ReplyOk, ReplyFails
<1>5. CASE DropArc(s)
  BY <1>5, Zenon DEF DropArc
<1>. QED
  BY <1>1, <1>2, <1>3, <1>4, <1>5, Zenon DEF SessionStep

\* Steps of OpenedDevice::open.
LEMMA OpenWithin ==
    ASSUME TypeOK, NEW s \in Sessions, OpenStep(s)
    PROVE  Within(s)
<1>. USE DEF TypeOK, Within, Same, Quiet, hostVars, portVars, lockVars, openVars, objVars
<1>1. CASE OpenFind(s) \/ OpenNotFound(s)
  BY <1>1, Zenon DEF OpenFind, OpenNotFound
<1>2. CASE Capture(s) \/ CaptureFails(s)
  BY <1>2, Zenon DEF Capture, CaptureFails, Reenumerate, Disturb
<1>3. CASE PollFound(s) \/ PollFails(s)
  BY <1>3, Zenon DEF PollFound, PollFails
<1>4. CASE OpenHandle(s) \/ OpenFails(s)
  BY <1>4, Zenon DEF OpenHandle, OpenFails
<1>5. CASE DropResult(s)
  BY <1>5, Zenon DEF DropResult
<1>. QED
  BY <1>1, <1>2, <1>3, <1>4, <1>5, Zenon DEF OpenStep

\* Steps of OpenedDevice::drop, and the end of a transfer.
LEMMA DropWithin ==
    ASSUME TypeOK, NEW s \in Sessions, DropStep(s) \/ EndTransfer(s)
    PROVE  Within(s)
<1>. USE DEF TypeOK, Within, Same, Quiet, hostVars, portVars, lockVars, openVars, objVars
<1>1. CASE CloseHandle(s) \/ DropFind(s) \/ DropFindFails(s)
  BY <1>1, Zenon DEF CloseHandle, DropFind, DropFindFails
<1>2. CASE DropRelease(s) \/ DropReleaseFails(s)
  BY <1>2, Zenon DEF DropRelease, DropReleaseFails, Reenumerate, Disturb
<1>3. CASE EndTransfer(s)
  <2>1. pending[s] # 0
    BY <1>3 DEF EndTransfer
  <2>. QED
    BY <1>3, <2>1, Zenon DEF EndTransfer
<1>. QED
  BY <1>1, <1>2, <1>3, Zenon DEF DropStep

\* No step of a session concerns the others.
LEMMA ActorWithin ==
    ASSUME TypeOK, NEW s \in Sessions, ActorStep(s)
    PROVE  Within(s)
BY ClientWithin, SessionWithin, OpenWithin, DropWithin, Zenon DEF ActorStep

\* A session's own step keeps session, open and OpenedDevice fit together.
LEMMA ClientLocal ==
    ASSUME TypeOK, NEW s \in Sessions, LocalOK(s), ClientStep(s)
    PROVE  LocalOK(s)'
<1>. USE DEF TypeOK, LocalOK, Guarded, Joined, Opening, hostVars, portVars,
          lockVars, openVars, objVars
<1>1. CASE ListDevices(s) \/ ListFails(s)
  BY <1>1, Zenon DEF ListDevices, ListFails
<1>2. CASE UrbLoopEnds(s)
  BY <1>2, Zenon DEF UrbLoopEnds
<1>3. CASE StartTransfer(s)
  BY <1>3, Zenon DEF StartTransfer
<1>. QED
  BY <1>1, <1>2, <1>3, Zenon DEF ClientStep

\* The same for handle_import.
LEMMA SessionLocal ==
    ASSUME TypeOK, NEW s \in Sessions, LocalOK(s), SessionStep(s)
    PROVE  LocalOK(s)'
<1>. USE DEF TypeOK, LocalOK, Guarded, Joined, Opening, hostVars, portVars,
          lockVars, openVars, objVars
<1>1. CASE TryAttach(s)
  BY <1>1, Zenon DEF TryAttach
<1>2. CASE Refuse(s) \/ DropGuard(s) \/ DropOpening(s)
  BY <1>2, Zenon DEF Refuse, DropGuard, DropOpening, Return
<1>3. CASE AlreadyAttached(s)
  BY <1>3, Zenon DEF AlreadyAttached
<1>4. CASE JoinOpen(s)
  BY <1>4, Zenon DEF JoinOpen
<1>5. CASE ReplyOk(s) \/ ReplyFails(s)
  BY <1>5, Zenon DEF ReplyOk, ReplyFails
<1>6. CASE DropArc(s)
  BY <1>6, Zenon DEF DropArc
<1>. QED
  BY <1>1, <1>2, <1>3, <1>4, <1>5, <1>6, Zenon DEF SessionStep

\* The same for OpenedDevice::open.
LEMMA OpenLocal ==
    ASSUME TypeOK, NEW s \in Sessions, LocalOK(s), KnowsPort(s), OpenStep(s)
    PROVE  LocalOK(s)'
<1>. USE DEF TypeOK, LocalOK, Guarded, Joined, Opening, hostVars, portVars,
          lockVars, openVars, objVars
<1>1. CASE OpenFind(s)
  BY <1>1, Zenon DEF OpenFind
<1>2. CASE OpenNotFound(s)
  BY <1>2, Zenon DEF OpenNotFound
<1>3. CASE Capture(s)
  BY <1>3, Zenon DEF Capture, CanSeize, KnowsPort
<1>4. CASE CaptureFails(s)
  BY <1>4, Zenon DEF CaptureFails
<1>5. CASE PollFound(s)
  BY <1>5, Zenon DEF PollFound
<1>6. CASE PollFails(s)
  BY <1>6, Zenon DEF PollFails
<1>7. CASE OpenHandle(s)
  BY <1>7, Zenon DEF OpenHandle
<1>8. CASE OpenFails(s)
  BY <1>8, Zenon DEF OpenFails
<1>9. CASE DropResult(s)
  BY <1>9, Zenon DEF DropResult
<1>. QED
  BY <1>1, <1>2, <1>3, <1>4, <1>5, <1>6, <1>7, <1>8, <1>9, Zenon DEF OpenStep

\* The same for OpenedDevice::drop and the end of a transfer.
LEMMA DropLocal ==
    ASSUME TypeOK, NEW s \in Sessions, LocalOK(s), DropStep(s) \/ EndTransfer(s)
    PROVE  LocalOK(s)'
<1>. USE DEF TypeOK, LocalOK, Guarded, Joined, Opening, hostVars, portVars,
          lockVars, openVars, objVars
<1>1. CASE CloseHandle(s) \/ DropFind(s) \/ DropFindFails(s)
  BY <1>1, Zenon DEF CloseHandle, DropFind, DropFindFails
<1>2. CASE DropRelease(s) \/ DropReleaseFails(s)
  BY <1>2, Zenon DEF DropRelease, DropReleaseFails
<1>3. CASE EndTransfer(s)
  BY <1>3, Zenon DEF EndTransfer
<1>. QED
  BY <1>1, <1>2, <1>3, Zenon DEF DropStep

\* Whoever looks the device up remembers the one that is in the port.
LEMMA ActorKnows ==
    ASSUME TypeOK, NEW s \in Sessions, LocalOK(s), KnowsPort(s), ActorStep(s)
    PROVE  KnowsPort(s)'
<1>. USE DEF TypeOK, KnowsPort, LocalOK, Listed, hostVars, portVars, lockVars, openVars, objVars
<1>1. CASE ClientStep(s) \/ EndTransfer(s)
  BY <1>1, Zenon DEF ClientStep, ListDevices, ListFails, StartTransfer, UrbLoopEnds, EndTransfer
<1>2. CASE SessionStep(s)
  BY <1>2, Zenon DEF SessionStep, TryAttach, AlreadyAttached, Refuse, JoinOpen, ReplyOk,
     ReplyFails, DropArc, DropGuard, DropOpening
<1>3. CASE OpenFind(s)
  BY <1>3, Zenon DEF OpenFind
<1>4. CASE PollFound(s)
  BY <1>4, Zenon DEF PollFound
<1>5. CASE DropFind(s)
  <2>1. info[s] # NoDevice
    BY <1>5, Zenon DEF DropFind
  <2>. QED
    BY <1>5, <2>1, Zenon DEF DropFind
<1>6. CASE Capture(s) \/ DropRelease(s)
  BY <1>6, Zenon DEF Capture, DropRelease, Reenumerate, Disturb
<1>7. CASE \/ OpenNotFound(s) \/ CaptureFails(s) \/ PollFails(s) \/ OpenHandle(s)
           \/ OpenFails(s) \/ DropResult(s) \/ CloseHandle(s) \/ DropFindFails(s)
           \/ DropReleaseFails(s)
  BY <1>7, Zenon DEF OpenNotFound, CaptureFails, PollFails, OpenHandle, OpenFails, DropResult,
     CloseHandle, DropFindFails, DropReleaseFails
<1>. QED
  BY <1>1, <1>2, <1>3, <1>4, <1>5, <1>6, <1>7, Zenon DEF ActorStep, OpenStep, DropStep

-----------------------------------------------------------------------------
(***************************************************************************)
(* Imports that nothing disturbs                                           *)
(***************************************************************************)

\* A step of s does nothing to the device that another session's import would
\* miss, or that session is told.
Considers(s) ==
    \A u \in Sessions \ {s} :
      u \notin disturbed' =>
        /\ u \notin disturbed
        /\ Importing(u) => visible' = visible /\ (u \in current => u \in current')

\* Only the capture of the device and its release concern the others.
LEMMA ActorConsiders ==
    ASSUME TypeOK, NEW s \in Sessions, ActorStep(s)
    PROVE  Considers(s)
<1>. USE DEF Considers, hostVars, portVars
<1>1. CASE ClientStep(s) \/ EndTransfer(s)
  BY <1>1, Zenon DEF ClientStep, ListDevices, ListFails, StartTransfer, UrbLoopEnds, EndTransfer
<1>2. CASE SessionStep(s)
  BY <1>2, Zenon DEF SessionStep, TryAttach, AlreadyAttached, Refuse, JoinOpen, ReplyOk,
     ReplyFails, DropArc, DropGuard, DropOpening
<1>3. CASE Capture(s) \/ DropRelease(s)
  <2>1. disturbed' = disturbed \cup {u \in Sessions \ {s} : Importing(u)}
    BY <1>3, Zenon DEF Capture, DropRelease, Reenumerate, Disturb
  <2>. QED
    BY <2>1, Zenon
<1>4. CASE OpenStep(s) /\ ~Capture(s)
  BY <1>4, Zenon DEF OpenStep, OpenFind, OpenNotFound, CaptureFails, PollFound, PollFails,
     OpenHandle, OpenFails, DropResult
<1>5. CASE DropStep(s) /\ ~DropRelease(s)
  BY <1>5, Zenon DEF DropStep, CloseHandle, DropFind, DropFindFails, DropReleaseFails
<1>. QED
  BY <1>1, <1>2, <1>3, <1>4, <1>5, Zenon DEF ActorStep

\* An import that is on track stays so when another session steps.
LEMMA OthersOnTrack ==
    ASSUME NEW s \in Sessions, NEW u \in Sessions, u # s, Within(s), Considers(s), OnTrack(u)
    PROVE  OnTrack(u)'
<1>1. Same(u) /\ port' = port
  BY Zenon DEF Within
<1>2. u \notin disturbed' =>
        /\ u \notin disturbed
        /\ Importing(u) => visible' = visible /\ (u \in current => u \in current')
  BY Zenon DEF Considers
<1>. QED
  BY <1>1, <1>2, Zenon DEF OnTrack, Same, Importing

\* handle_import itself keeps an import on track.
LEMMA SessionOnTrack ==
    ASSUME TypeOK, NEW s \in Sessions, LocalOK(s), OnTrack(s),
           ClientStep(s) \/ SessionStep(s) \/ EndTransfer(s)
    PROVE  OnTrack(s)'
<1>. USE DEF TypeOK, LocalOK, OnTrack, hostVars, portVars, lockVars, openVars, objVars
<1>1. CASE ListDevices(s)
  <2>1. pc'[s] = "listed" => Listed \in Devices /\ Listed # NoDevice
    BY <1>1, ImportAssumption, Zenon DEF ListDevices
  <2>2. pc'[s] = "listed" => visible' /\ port' # NoDevice
    BY <1>1, <2>1, Zenon DEF ListDevices, Listed
  <2>3. op'[s] = "none"
    BY <1>1, Zenon DEF ListDevices
  <2>. QED
    BY <2>2, <2>3, Zenon
<1>2. CASE ListFails(s) \/ StartTransfer(s) \/ UrbLoopEnds(s) \/ EndTransfer(s)
  BY <1>2, Zenon DEF ListFails, StartTransfer, UrbLoopEnds, EndTransfer
<1>3. CASE TryAttach(s)
  BY <1>3, Zenon DEF TryAttach
<1>4. CASE Refuse(s) \/ DropGuard(s) \/ DropOpening(s)
  BY <1>4, Zenon DEF Refuse, DropGuard, DropOpening, Return
<1>5. CASE AlreadyAttached(s) \/ ReplyOk(s) \/ ReplyFails(s)
  BY <1>5, Zenon DEF AlreadyAttached, ReplyOk, ReplyFails
<1>6. CASE JoinOpen(s)
  BY <1>6, Zenon DEF JoinOpen
<1>7. CASE DropArc(s)
  BY <1>7, Zenon DEF DropArc
<1>. QED
  BY <1>1, <1>2, <1>3, <1>4, <1>5, <1>6, <1>7, Zenon DEF ClientStep, SessionStep

\* OpenedDevice::open stays on track through its own capture, and fails only
\* when a call does.
LEMMA OpenOnTrack ==
    ASSUME TypeOK, NEW s \in Sessions, LocalOK(s), KnowsPort(s), OnTrack(s), OpenStep(s)
    PROVE  OnTrack(s)'
<1>. USE DEF TypeOK, LocalOK, OnTrack, Opening, hostVars, portVars, lockVars, openVars, objVars
<1>1. CASE OpenFind(s)
  BY <1>1, Zenon DEF OpenFind
<1>2. CASE OpenNotFound(s)
  BY <1>2, Zenon DEF OpenNotFound, Listed
<1>3. CASE Capture(s)
  BY <1>3, Zenon DEF Capture, CanSeize, KnowsPort, Reenumerate, Disturb
<1>4. CASE CaptureFails(s)
  BY <1>4, Zenon DEF CaptureFails
<1>5. CASE PollFound(s)
  BY <1>5, Zenon DEF PollFound
<1>6. CASE PollFails(s)
  BY <1>6, Zenon DEF PollFails
<1>7. CASE OpenHandle(s)
  BY <1>7, Zenon DEF OpenHandle
<1>8. CASE OpenFails(s)
  BY <1>8, Zenon DEF OpenFails
<1>9. CASE DropResult(s)
  BY <1>9, Zenon DEF DropResult
<1>. QED
  BY <1>1, <1>2, <1>3, <1>4, <1>5, <1>6, <1>7, <1>8, <1>9, Zenon DEF OpenStep

\* An OpenedDevice that is dropped has no import left to disturb.
LEMMA DropOnTrack ==
    ASSUME TypeOK, NEW s \in Sessions, LocalOK(s), OnTrack(s), DropStep(s)
    PROVE  OnTrack(s)'
<1>. USE DEF TypeOK, OnTrack, hostVars, portVars, lockVars, openVars
<1>1. handle[s] # "none"
  BY Zenon DEF DropStep, CloseHandle, DropFind, DropFindFails, DropRelease, DropReleaseFails
<1>2. op[s] \notin {"none"} \cup Opening /\ pc[s] # "listed"
  BY <1>1, Zenon DEF LocalOK
<1>3. CASE CloseHandle(s) \/ DropFind(s) \/ DropFindFails(s)
  BY <1>2, <1>3, Zenon DEF CloseHandle, DropFind, DropFindFails, Opening
<1>4. CASE DropRelease(s) \/ DropReleaseFails(s)
  BY <1>2, <1>4, Zenon DEF DropRelease, DropReleaseFails, Reenumerate, Disturb, Opening
<1>. QED
  BY <1>3, <1>4, Zenon DEF DropStep

\* What the port and serve do disturbs every import, or none.
LEMMA HostOnTrack ==
    ASSUME TypeOK, HostStep, NEW s \in Sessions, LocalOK(s), OnTrack(s)
    PROVE  OnTrack(s)'
<1>1. UNCHANGED <<pc, op, info>>
  BY Zenon DEF HostStep, PortStep, Plug, Unplug, Reappear, CliRelease, Signal, Restart,
     ShutdownStep, Snapshot, ShutdownFind, ShutdownRelease, ShutdownReleaseFails, Exit,
     procUnchanged, openVars
<1>2. CASE Unplug \/ CliRelease \/ ShutdownRelease
  <2>1. disturbed' = disturbed \cup {u \in Sessions : Importing(u)}
    BY <1>2, Zenon DEF Unplug, CliRelease, ShutdownRelease, Reenumerate, Disturb
  <2>. QED
    BY <1>1, <2>1, Zenon DEF OnTrack, Importing
<1>3. CASE Reappear
  BY <1>1, <1>3, Zenon DEF Reappear, OnTrack
<1>4. CASE \E d \in Devices : Plug(d)
  <2>1. port = NoDevice /\ disturbed' = disturbed /\ current' = current
    BY <1>4, Zenon DEF Plug
  <2>. QED
    BY <1>1, <2>1, Zenon DEF LocalOK, OnTrack
<1>5. CASE Signal \/ Restart \/ Snapshot \/ ShutdownFind \/ ShutdownReleaseFails \/ Exit
  <2>1. UNCHANGED hostVars /\ (s \in current => s \in current')
    BY <1>5, Zenon DEF Signal, Restart, Snapshot, ShutdownFind, ShutdownReleaseFails, Exit
  <2>. QED
    BY <1>1, <2>1, Zenon DEF hostVars, portVars, OnTrack
<1>. QED
  BY <1>2, <1>3, <1>4, <1>5, Zenon DEF HostStep, PortStep, ShutdownStep

-----------------------------------------------------------------------------
(***************************************************************************)
(* Who answers for a capture                                               *)
(***************************************************************************)

\* A step of s leaves the capture to whoever holds it, or loses it with an
\* excuse, or makes s the holder.
HandsOn(s) ==
    \/ UNCHANGED <<visible, captured, excused>> /\ (Holds(s) => Holds(s)')
    \/ captured' => excused' \/ Holds(s)'

\* handle_import and its transfers do not lose a capture.
LEMMA SessionHands ==
    ASSUME TypeOK, NEW s \in Sessions, LocalOK(s), ClientStep(s) \/ SessionStep(s) \/ EndTransfer(s)
    PROVE  HandsOn(s)
<1>. USE DEF TypeOK, LocalOK, HandsOn, Holds, Held, hostVars, portVars,
          lockVars, openVars, objVars
<1>1. CASE ClientStep(s)
  BY <1>1, Zenon DEF ClientStep, ListDevices, ListFails, StartTransfer, UrbLoopEnds
<1>2. CASE TryAttach(s)
  BY <1>2, Zenon DEF TryAttach
<1>3. CASE Refuse(s) \/ DropGuard(s) \/ DropOpening(s)
  BY <1>3, Zenon DEF Refuse, DropGuard, DropOpening
<1>4. CASE AlreadyAttached(s) \/ ReplyOk(s) \/ ReplyFails(s)
  BY <1>4, Zenon DEF AlreadyAttached, ReplyOk, ReplyFails
<1>5. CASE JoinOpen(s)
  BY <1>5, Zenon DEF JoinOpen
<1>6. CASE DropArc(s)
  BY <1>6, Zenon DEF DropArc
<1>7. CASE EndTransfer(s)
  BY <1>7, Zenon DEF EndTransfer
<1>. QED
  BY <1>1, <1>2, <1>3, <1>4, <1>5, <1>6, <1>7, Zenon DEF SessionStep

\* OpenedDevice::open makes its session the holder, or is excused.
LEMMA OpenHands ==
    ASSUME TypeOK, NEW s \in Sessions, LocalOK(s), KnowsPort(s), OpenStep(s)
    PROVE  HandsOn(s)
<1>. USE DEF TypeOK, LocalOK, HandsOn, Holds, Held, Opening, hostVars, portVars,
          lockVars, openVars, objVars
<1>1. CASE OpenFind(s)
  BY <1>1, Zenon DEF OpenFind
<1>2. CASE OpenNotFound(s)
  BY <1>2, Zenon DEF OpenNotFound
<1>3. CASE Capture(s)
  BY <1>3, Zenon DEF Capture, Reenumerate, Disturb, CanSeize, KnowsPort
<1>4. CASE CaptureFails(s) \/ PollFails(s)
  BY <1>4, Zenon DEF CaptureFails, PollFails
<1>5. CASE PollFound(s)
  BY <1>5, Zenon DEF PollFound, Listed
<1>6. CASE OpenHandle(s)
  BY <1>6, Zenon DEF OpenHandle
<1>7. CASE OpenFails(s)
  BY <1>7, Zenon DEF OpenFails
<1>8. CASE DropResult(s)
  BY <1>8, Zenon DEF DropResult
<1>. QED
  BY <1>1, <1>2, <1>3, <1>4, <1>5, <1>6, <1>7, <1>8, Zenon DEF OpenStep

\* OpenedDevice::drop finds the device it holds, and releases it.
LEMMA DropHands ==
    ASSUME TypeOK, NEW s \in Sessions, LocalOK(s), DropStep(s)
    PROVE  HandsOn(s)
<1>. USE DEF TypeOK, LocalOK, HandsOn, Holds, Held, Opening, hostVars, portVars,
          lockVars, openVars, objVars
<1>1. CASE CloseHandle(s)
  BY <1>1, Zenon DEF CloseHandle
<1>2. CASE DropFind(s)
  BY <1>2, Zenon DEF DropFind, Listed
<1>3. CASE DropRelease(s)
  BY <1>3, Zenon DEF DropRelease, Reenumerate, Disturb
<1>4. CASE DropFindFails(s) \/ DropReleaseFails(s)
  BY <1>4, Zenon DEF DropFindFails, DropReleaseFails
<1>. QED
  BY <1>1, <1>2, <1>3, <1>4, Zenon DEF DropStep

\* So there is a holder after every step of a session, or an excuse.
LEMMA ActorHolds ==
    ASSUME TypeOK, NEW s \in Sessions, LocalOK(s), KnowsPort(s), SomeoneHolds, ActorStep(s)
    PROVE  SomeoneHolds'
<1>1. HandsOn(s) /\ Within(s)
  BY SessionHands, OpenHands, DropHands, ActorWithin, Zenon DEF ActorStep
<1>2. CASE captured' => excused' \/ Holds(s)'
  BY <1>2, Zenon DEF SomeoneHolds
<1>3. CASE UNCHANGED <<visible, captured, excused>> /\ (Holds(s) => Holds(s)')
  <2>1. ASSUME NEW u \in Sessions, u # s, Holds(u) PROVE Holds(u)'
    BY <1>1, <1>3, <2>1, Zenon DEF Within, Same, Holds
  <2>. QED
    BY <1>3, <2>1, Zenon DEF SomeoneHolds
<1>. QED
  BY <1>1, <1>2, <1>3, Zenon DEF HandsOn

\* The port and serve only ever end a capture that has a holder.
LEMMA HostHolds ==
    ASSUME TypeOK, SomeoneHolds, HostStep
    PROVE  SomeoneHolds'
<1>1. CASE Unplug \/ CliRelease \/ ShutdownRelease
  BY <1>1, Zenon DEF Unplug, CliRelease, ShutdownRelease, Reenumerate, Disturb, SomeoneHolds
<1>2. CASE Reappear
  BY <1>2 DEF Reappear, SomeoneHolds, Holds, openVars, objVars
<1>3. CASE \E d \in Devices : Plug(d)
  <2>1. port = NoDevice /\ captured' = captured /\ excused' = excused
    BY <1>3, Zenon DEF Plug
  <2>2. ~(captured /\ ~excused)
    BY <2>1, Zenon DEF SomeoneHolds, Holds
  <2>. QED
    BY <2>1, <2>2, Zenon DEF SomeoneHolds
<1>4. CASE Signal \/ Restart \/ Snapshot \/ ShutdownFind \/ ShutdownReleaseFails \/ Exit
  <2>1. UNCHANGED <<hostVars, procUnchanged>>
    BY <1>4, Zenon DEF Signal, Restart, Snapshot, ShutdownFind, ShutdownReleaseFails, Exit
  <2>. QED
    BY <2>1, Zenon DEF SomeoneHolds, Holds, hostVars, portVars, procUnchanged, openVars, objVars
<1>. QED
  BY <1>1, <1>2, <1>3, <1>4, Zenon DEF HostStep, PortStep, ShutdownStep

-----------------------------------------------------------------------------
(***************************************************************************)
(* The invariant and what follows from it                                  *)
(***************************************************************************)

\* A new daemon knows nothing and holds nothing.
LEMMA Initially == Init => IInv
<1>. SUFFICES ASSUME Init PROVE IInv
  OBVIOUS
<1>1. TypeOK /\ GuardExclusive
  BY InitTypes, InitLocks
<1>2. ASSUME NEW s \in Sessions PROVE LocalOK(s) /\ KnowsPort(s) /\ OnTrack(s)
  <2>1. /\ pc[s] = "idle" /\ op[s] = "none" /\ handle[s] = "none" /\ pending[s] = 0
        /\ ~cap[s] /\ s \notin current
    BY Zenon DEF Init
  <2>. QED
    BY <2>1 DEF LocalOK, KnowsPort, OnTrack, Guarded, Joined
<1>3. Main \notin current /\ SomeoneHolds /\ Ended
  BY DEF Init, SomeoneHolds, Ended
<1>. QED
  BY <1>1, <1>2, <1>3, Zenon DEF IInv

\* What the port and serve do to a session: it may forget the device.
LEMMA HostFrame ==
    ASSUME IInv, HostStep
    PROVE  /\ \A s \in Sessions : LocalOK(s)' /\ KnowsPort(s)' /\ OnTrack(s)'
           /\ (Main \in current => port # NoDevice)'
           /\ Ended'
<1>1. UNCHANGED <<guards, pc, op, info, cap, handle, pending>>
  BY Zenon DEF HostStep, PortStep, Plug, Unplug, Reappear, CliRelease, Signal, Restart,
     ShutdownStep, Snapshot, ShutdownFind, ShutdownRelease, ShutdownReleaseFails, Exit,
     procUnchanged, lockVars, openVars, objVars
<1>2. ASSUME NEW s \in Sessions PROVE LocalOK(s)'
  BY <1>1, Zenon DEF IInv, LocalOK
<1>3. \/ current' = {}
      \/ port' = port /\ current' = current
      \/ port' = port /\ port # NoDevice /\ current' = current \cup {Main}
  <2>1. CASE Unplug \/ CliRelease \/ ShutdownRelease
    BY <2>1, Zenon DEF Unplug, CliRelease, ShutdownRelease, Reenumerate, Disturb
  <2>2. CASE \E d \in Devices : Plug(d)
    <3>1. port = NoDevice /\ current' = current
      BY <2>2, Zenon DEF Plug
    <3>2. current \subseteq Sessions \cup {Main}
      BY Zenon DEF IInv, TypeOK, Actors
    <3>3. \A s \in Sessions : s \notin current
      BY <3>1, Zenon DEF IInv, KnowsPort
    <3>4. Main \notin current
      BY <3>1, Zenon DEF IInv
    <3>. QED
      BY <3>1, <3>2, <3>3, <3>4, Zenon
  <2>3. CASE Reappear \/ Signal \/ Restart \/ Snapshot \/ ShutdownReleaseFails \/ Exit
    BY <2>3, Zenon DEF Reappear, Signal, Restart, Snapshot, ShutdownReleaseFails, Exit,
       hostVars, portVars
  <2>4. CASE ShutdownFind
    BY <2>4, Zenon DEF ShutdownFind, hostVars, portVars, Listed
  <2>. QED
    BY <2>1, <2>2, <2>3, <2>4, Zenon DEF HostStep, PortStep, ShutdownStep
<1>4. ASSUME NEW s \in Sessions PROVE KnowsPort(s)'
  <2>1. s # Main /\ KnowsPort(s)
    BY ImportAssumption, Zenon DEF IInv
  <2>. QED
    BY <1>1, <1>3, <2>1, Zenon DEF KnowsPort
<1>5. (Main \in current => port # NoDevice)'
  BY <1>3, Zenon DEF IInv
<1>6. \/ proc' = "exited" /\ \A s \in Sessions : Quiet(s)
      \/ proc' = proc
      \/ proc' \notin {"exited", "killed"}
  BY Zenon DEF HostStep, PortStep, Plug, Unplug, Reappear, CliRelease, Signal, Restart,
     ShutdownStep, Snapshot, ShutdownFind, ShutdownRelease, ShutdownReleaseFails, Exit
<1>7. Ended'
  BY <1>1, <1>6, Zenon DEF IInv, Ended, Quiet
<1>8. ASSUME NEW s \in Sessions PROVE OnTrack(s)'
  BY HostOnTrack, Zenon DEF IInv
<1>. QED
  BY <1>2, <1>4, <1>5, <1>7, <1>8

\* What the end of the process leaves.
LEMMA KillFrame ==
    ASSUME IInv, Kill
    PROVE  IInv'
<1>1. TypeOK' /\ GuardExclusive'
  BY KillTypes, Zenon DEF Kill, IInv, GuardExclusive
<1>2. ASSUME NEW s \in Sessions PROVE LocalOK(s)' /\ KnowsPort(s)' /\ OnTrack(s)' /\ Quiet(s)'
  <2>1. /\ pc'[s] = IF pc[s] = "idle" THEN "idle" ELSE "done"
        /\ op'[s] = IF op[s] = "none" THEN "none" ELSE "joined"
        /\ handle'[s] = IF handle[s] = "none" THEN "none" ELSE "closed"
        /\ pending'[s] = 0
        /\ cap'[s] = cap[s] /\ info'[s] = info[s] /\ s \notin current'
    BY Zenon DEF Kill
  <2>2. LocalOK(s)
    BY Zenon DEF IInv
  <2>. QED
    BY <2>1, <2>2 DEF LocalOK, KnowsPort, OnTrack, Quiet, Guarded, Joined, Opening
<1>3. Main \notin current' /\ SomeoneHolds'
  BY Zenon DEF Kill, SomeoneHolds
<1>. QED
  BY <1>1, <1>2, <1>3, Zenon DEF IInv, Ended

\* What a step of s leaves.
LEMMA ActorFrame ==
    ASSUME IInv, NEW s \in Sessions, ActorStep(s), TypeOK', GuardExclusive'
    PROVE  IInv'
<1>1. TypeOK /\ LocalOK(s) /\ KnowsPort(s) /\ OnTrack(s) /\ SomeoneHolds
  BY Zenon DEF IInv
<1>2. Within(s) /\ Considers(s)
  BY <1>1, ActorWithin, ActorConsiders
<1>3. LocalOK(s)' /\ KnowsPort(s)' /\ SomeoneHolds'
  BY <1>1, ClientLocal, SessionLocal, OpenLocal, DropLocal, ActorKnows, ActorHolds, Zenon
     DEF ActorStep
<1>4. OnTrack(s)'
  BY <1>1, SessionOnTrack, OpenOnTrack, DropOnTrack, Zenon DEF ActorStep
<1>5. ASSUME NEW u \in Sessions, u # s PROVE OnTrack(u)'
  BY <1>2, <1>5, OthersOnTrack, Zenon DEF IInv
<1>6. ASSUME NEW u \in Sessions, u # s PROVE LocalOK(u)' /\ KnowsPort(u)'
  <2>1. Same(u) /\ LocalOK(u) /\ KnowsPort(u) /\ port' = port /\ (u \in current' => u \in current)
    BY <1>2, <1>6, Zenon DEF Within, IInv
  <2>. QED
    BY <2>1, Zenon DEF Same, LocalOK, KnowsPort
<1>7. (Main \in current => port # NoDevice)'
  <2>1. s # Main
    BY ImportAssumption, Zenon
  <2>. QED
    BY <1>2, <2>1, Zenon DEF Within, IInv
<1>8. proc' \notin {"exited", "killed"}
  BY <1>2, Zenon DEF Within, IInv, Ended, Serving
<1>. QED
  BY <1>3, <1>4, <1>5, <1>6, <1>7, <1>8, Zenon DEF IInv, Ended

\* No step breaks the invariant.
LEMMA Inductive == IInv /\ [Next]_vars => IInv'
<1>. SUFFICES ASSUME IInv, [Next]_vars PROVE IInv'
  OBVIOUS
<1>1. TypeOK' /\ GuardExclusive'
  BY StepTypes, StepExcludes, Zenon DEF IInv
<1>2. CASE HostStep
  <2>1. SomeoneHolds'
    BY <1>2, HostHolds, Zenon DEF IInv
  <2>. QED
    BY <1>1, <1>2, <2>1, HostFrame, Zenon DEF IInv
<1>3. CASE Kill
  BY <1>3, KillFrame
<1>4. CASE \E s \in Sessions : ActorStep(s)
  BY <1>1, <1>4, ActorFrame
<1>5. CASE UNCHANGED vars
  BY <1>5, ZenonT(40) DEF IInv, TypeOK, GuardExclusive, LocalOK, KnowsPort, OnTrack, SomeoneHolds,
     Holds, Ended, Quiet, vars
<1>. QED
  BY <1>2, <1>3, <1>4, <1>5, NextCases, Zenon

\* In every interleaving of any number of sessions, with whatever fails, the
\* inductive invariant of the import holds.
THEOREM ImportsHold == Spec => []IInv
<1>. QED
  BY Initially, Inductive, PTL DEF Spec

\* For any number of sessions and devices: when the daemon has exited, the
\* device is still captured only if a kill or the failure of a call came after
\* the capture.
THEOREM CaptureLostOnlyByFailure == Spec => []LostOnlyByFailure
<1>1. IInv => LostOnlyByFailure
  <2>. SUFFICES ASSUME IInv, proc = "exited", captured, ~excused PROVE FALSE
    BY Zenon DEF LostOnlyByFailure
  <2>1. PICK s \in Sessions : Holds(s)
    BY Zenon DEF IInv, SomeoneHolds
  <2>2. Quiet(s)
    BY Zenon DEF IInv, Ended
  <2>. QED
    BY <2>1, <2>2, Zenon DEF Holds, Quiet, Held
<1>. QED
  BY <1>1, ImportsHold, PTL

\* For any number of sessions and devices: an open fails only after somebody
\* else unplugged or re-enumerated the device, or when a call fails.
THEOREM OnlyDisturbancesFailImports == Spec => []ImportFailsOnlyIfDisturbed
<1>1. IInv => ImportFailsOnlyIfDisturbed
  BY Zenon DEF IInv, OnTrack, ImportFailsOnlyIfDisturbed
<1>. QED
  BY <1>1, ImportsHold, PTL

\* For any number of sessions and devices: the drop of an OpenedDevice
\* re-enumerates the device it captured, never one plugged in since.
THEOREM ReleasesItsOwn == Spec => ReleaseHitsOwn
<1>. DEFINE Hits(s) == handle[s] = "release" /\ handle'[s] = "closed" /\ current # current'
                       /\ proc' # "killed" => port = info[s]
<1>1. ASSUME IInv, Next, NEW s \in Sessions PROVE Hits(s)
  <2>1. CASE HostStep
    <3>1. handle' = handle
      BY <2>1, Zenon DEF HostStep, PortStep, Plug, Unplug, Reappear, CliRelease, Signal, Restart,
         ShutdownStep, Snapshot, ShutdownFind, ShutdownRelease, ShutdownReleaseFails, Exit,
         procUnchanged, objVars
    <3>. QED
      BY <3>1
  <2>2. CASE Kill
    BY <2>2, Zenon DEF Kill
  <2>3. ASSUME NEW u \in Sessions, ActorStep(u), u # s PROVE Hits(s)
    <3>1. handle'[s] = handle[s]
      BY <1>1, <2>3, ActorWithin, Zenon DEF IInv, Within, Same
    <3>. QED
      BY <3>1
  <2>4. CASE DropRelease(s)
    BY <1>1, <2>4, Zenon DEF DropRelease, CanSeize, IInv, KnowsPort
  <2>5. CASE ActorStep(s) /\ ~DropRelease(s)
    <3>. SUFFICES ASSUME handle[s] = "release", handle'[s] = "closed" PROVE current' = current
      OBVIOUS
    <3>1. TypeOK /\ op[s] \notin {"none"} \cup Opening
      BY <1>1, Zenon DEF IInv, LocalOK
    <3>2. CASE ClientStep(s) \/ EndTransfer(s)
      BY <3>2, Zenon DEF ClientStep, ListDevices, ListFails, StartTransfer, UrbLoopEnds,
         EndTransfer
    <3>3. CASE SessionStep(s)
      BY <3>3, Zenon DEF SessionStep, TryAttach, AlreadyAttached, Refuse, JoinOpen, ReplyOk,
         ReplyFails, DropArc, DropGuard, DropOpening
    <3>4. CASE OpenStep(s)
      BY <3>1, <3>4, Zenon DEF OpenStep, OpenFind, OpenNotFound, Capture, CaptureFails, PollFound,
         PollFails, OpenHandle, OpenFails, DropResult, Opening
    <3>5. CASE DropStep(s)
      BY <2>5, <3>5, Zenon DEF DropStep, CloseHandle, DropFind, DropFindFails, DropReleaseFails
    <3>. QED
      BY <2>5, <3>2, <3>3, <3>4, <3>5, Zenon DEF ActorStep
  <2>. QED
    BY <1>1, <2>1, <2>2, <2>3, <2>4, <2>5, NextCases, Zenon
<1>2. IInv /\ [Next]_vars => [\A s \in Sessions : Hits(s)]_vars
  BY <1>1
<1>. QED
  BY <1>2, ImportsHold, PTL DEF Spec, ReleaseHitsOwn
=============================================================================
