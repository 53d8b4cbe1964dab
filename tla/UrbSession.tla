----------------------------- MODULE UrbSession -----------------------------
(***************************************************************************)
(* One imported device's URB session (crates/usbipd/src/daemon.rs):        *)
(* urb_loop with handle_cmd_submit, handle_cmd_unlink and drain_inflight,  *)
(* the tokio task spawned per CMD_SUBMIT (run_submit), and the blocking    *)
(* thread on which that task runs the transfer (OpenedDevice of            *)
(* crates/host-mac/src/lib.rs).                                            *)
(*                                                                         *)
(* A URB is named by its seqnum.  The client uses a fresh seqnum for every *)
(* CMD_SUBMIT and unlinks only URBs it has submitted, as Linux vhci does.  *)
(* Reading a command and the client's sending it are one step: the socket  *)
(* is a FIFO that nothing else reads.                                      *)
(***************************************************************************)
EXTENDS Integers, Sequences, FiniteSets

CONSTANTS
    Urbs,               \* seqnums of the CMD_SUBMITs the client may send
    DataEps,            \* bulk and interrupt endpoint addresses
    Ep0,                \* the control endpoint
    NoUrb,              \* "nobody": a free lock, an empty cache slot
    Loop,               \* the session task itself, as a lock holder
    MAX_INFLIGHT_URBS   \* permits of the per-connection semaphore

ASSUME ConstantsAssumption ==
    /\ IsFiniteSet(Urbs)    \* seqnum is a u32
    /\ MAX_INFLIGHT_URBS \in Nat \ {0}
    /\ NoUrb \notin Urbs
    /\ Loop \notin Urbs
    /\ Loop # NoUrb
    /\ Ep0 \notin DataEps

VARIABLES
    loop,       \* where urb_loop is
    cur,        \* the URB of the command urb_loop is handling
    target,     \* the endpoint handle cancel_endpoint is about to lock
    task,       \* state of each URB's tokio task
    blk,        \* state of each URB's blocking closure
    ep,         \* endpoint each URB addresses
    hnd,        \* endpoint handle each URB's closure uses
    outcome,    \* how each URB's transfer ended
    cancelled,  \* URBs whose `cancelled` flag is set
    aborted,    \* URBs whose AbortHandle has been used
    inflight,   \* keys of the `inflight` map
    mapHeld,    \* the loop holds the `inflight` mutex across a blocking call
    cache,      \* OpenedDevice.endpoints: endpoint -> handle
    epLock,     \* holder of each endpoint handle's mutex
    writer,     \* holder of the shared writer's async mutex
    sock,       \* "open" or "broken"
    permits,    \* free permits of the semaphore
    wire        \* messages written to the client, in order

vars == <<loop, cur, target, task, blk, ep, hnd, outcome, cancelled, aborted,
          inflight, mapHeld, cache, epLock, writer, sock, permits, wire>>

loopVars == <<loop, cur, target>>
flagVars == <<cancelled, aborted>>
mapVars  == <<inflight, mapHeld>>
xferVars == <<blk, ep, hnd, outcome, cache, epLock>>
sendVars == <<writer, sock, wire>>

\* An endpoint handle (the Arc<Mutex<AnyEp>> of an EndpointEntry) is named
\* by the URB whose closure opened it.
Handles == Urbs
Holders == Urbs \cup {NoUrb, Loop}

LoopStates == {"read", "permit", "insert", "cancel", "reply", "write", "drain", "done"}
TaskStates == {"none", "new", "join", "check", "go", "wlock", "write", "wpart",
               "rm", "done", "dropped"}
BlkStates  == {"none", "queued", "eplock", "xfer", "done"}
Outcomes   == {"none", "ok", "over", "err", "timeout"}
Statuses   == {"ok", "EOVERFLOW", "EPIPE"}

Message == [kind : {"RET_SUBMIT"}, urb : Urbs, status : Statuses, whole : BOOLEAN]
           \cup [kind : {"RET_UNLINK"}, urb : Urbs, status : {"ok"}, whole : {TRUE}]

\* Fault: an overrun is reported as success.
StatusWithoutOverflow(o) == IF o \in {"ok", "over"} THEN "ok" ELSE "EPIPE"

\* The status run_submit reports for the way the transfer ended: an IN
\* payload longer than the client's buffer is EOVERFLOW, any error EPIPE.
StatusOf(o) ==
    CASE o = "ok"   -> "ok"
      [] o = "over" -> "EOVERFLOW"
      [] OTHER      -> "EPIPE"

RetSubmit(u, w) == [kind |-> "RET_SUBMIT", urb |-> u,
                    status |-> StatusOf(outcome[u]), whole |-> w]
RetUnlink(u)    == [kind |-> "RET_UNLINK", urb |-> u,
                    status |-> "ok", whole |-> TRUE]

\* The URB's future exists: it owns a permit until it returns or is dropped.
Live(u) == task[u] \notin {"none", "done", "dropped"}

\* Fault: aborting a task that has already returned drops it once more.
ParkedOrReturned(u) == task[u] \in {"new", "join", "wlock", "write", "wpart", "done"}

\* The future is suspended at an await, where tokio can drop it.  In "check",
\* "go" and "rm" it is inside a poll, which an abort does not interrupt.
Parked(u) == task[u] \in {"new", "join", "wlock", "write", "wpart"}

\* Fault: the endpoint is used without its mutex.
HandleNeverLocked(h) == h \in Handles

\* Nobody holds the mutex of the endpoint handle.
HandleFree(h) == epLock[h] = NoUrb

\* The endpoint mutexes after u's transfer has ended in o, whatever o is.
Unlock(u, o) == [h \in Handles |-> IF epLock[h] = u THEN NoUrb ELSE epLock[h]]

\* An aborted task is dropped, not polled, the next time it is scheduled.
Pollable(u) == u \notin aborted

-----------------------------------------------------------------------------
Init ==
    /\ loop = "read"
    /\ cur = NoUrb
    /\ target = NoUrb
    /\ task = [u \in Urbs |-> "none"]
    /\ blk = [u \in Urbs |-> "none"]
    /\ ep = [u \in Urbs |-> Ep0]
    /\ hnd = [u \in Urbs |-> NoUrb]
    /\ outcome = [u \in Urbs |-> "none"]
    /\ cancelled = {}
    /\ aborted = {}
    /\ inflight = {}
    /\ mapHeld = FALSE
    /\ cache = [e \in DataEps |-> NoUrb]
    /\ epLock = [h \in Handles |-> NoUrb]
    /\ writer = NoUrb
    /\ sock = "open"
    /\ permits = MAX_INFLIGHT_URBS
    /\ wire = <<>>

-----------------------------------------------------------------------------
(***************************************************************************)
(* urb_loop                                                                *)
(***************************************************************************)

\* A CMD_SUBMIT header, and its OUT payload, arrive; the loop goes on to wait
\* for a permit.
ReadSubmit(u, e) ==
    /\ loop = "read"
    /\ sock = "open"
    /\ task[u] = "none"
    /\ ep' = [ep EXCEPT ![u] = e]
    /\ cur' = u
    /\ loop' = "permit"
    /\ UNCHANGED <<target, task, blk, hnd, outcome, cache, epLock, permits>>
    /\ UNCHANGED <<flagVars, mapVars, sendVars>>

\* A permit is free: take it and spawn the URB's task.
AcquireAndSpawn ==
    /\ loop = "permit"
    /\ permits > 0
    /\ permits' = permits - 1
    /\ task' = [task EXCEPT ![cur] = "new"]
    /\ loop' = "insert"
    /\ UNCHANGED <<cur, target, flagVars, mapVars, xferVars, sendVars>>

\* Only after the spawn is the URB recorded in `inflight`; the spawned task
\* may by then have run to its end.
InsertInflight ==
    /\ loop = "insert"
    /\ inflight' = inflight \cup {cur}
    /\ loop' = "read"
    /\ cur' = NoUrb
    /\ UNCHANGED <<target, task, mapHeld, permits, flagVars, xferVars, sendVars>>

\* A CMD_UNLINK arrives.  Under the `inflight` mutex its entry is removed and
\* flagged; when its endpoint is cached the loop goes on, still under that
\* mutex, to lock the endpoint, otherwise the task is aborted at once.  The
\* client unlinks a URB once.
ReadUnlink(u) ==
    LET found  == u \in inflight
        handle == IF found /\ ep[u] # Ep0 THEN cache[ep[u]] ELSE NoUrb
    IN
    /\ loop = "read"
    /\ sock = "open"
    /\ task[u] # "none"
    /\ \A i \in 1..Len(wire) : ~(wire[i].kind = "RET_UNLINK" /\ wire[i].urb = u)
    /\ cur' = u
    /\ target' = handle
    /\ inflight' = inflight \ {u}
    /\ cancelled' = IF found THEN cancelled \cup {u} ELSE cancelled
    /\ aborted' = IF found /\ handle = NoUrb THEN aborted \cup {u} ELSE aborted
    /\ mapHeld' = (handle # NoUrb)
    /\ loop' = IF handle = NoUrb THEN "reply" ELSE "cancel"
    /\ UNCHANGED <<task, permits, xferVars, sendVars>>

\* The endpoint mutex is free: cancel_all every transfer pending on the
\* handle, then abort the task and leave the `inflight` mutex.
CancelEndpoint ==
    /\ loop = "cancel"
    /\ HandleFree(target)
    /\ outcome' = [v \in Urbs |->
                     IF blk[v] = "xfer" /\ hnd[v] = target THEN "err" ELSE outcome[v]]
    /\ aborted' = aborted \cup {cur}
    /\ mapHeld' = FALSE
    /\ target' = NoUrb
    /\ loop' = "reply"
    /\ UNCHANGED <<cur, task, cancelled, inflight, permits, blk, ep, hnd, cache,
                   epLock, sendVars>>

\* The loop gets the writer for its RET_UNLINK.
LockForUnlink ==
    /\ loop = "reply"
    /\ writer = NoUrb
    /\ writer' = Loop
    /\ loop' = "write"
    /\ UNCHANGED <<cur, target, task, sock, wire, permits, flagVars, mapVars, xferVars>>

WriteUnlink ==
    /\ loop = "write"
    /\ sock = "open"
    /\ wire' = Append(wire, RetUnlink(cur))
    /\ writer' = NoUrb
    /\ loop' = "read"
    /\ cur' = NoUrb
    /\ UNCHANGED <<target, task, sock, permits, flagVars, mapVars, xferVars>>

\* Fault: a failed RET_UNLINK write is tried again.
WriteUnlinkRetried ==
    /\ loop = "write"
    /\ sock' = "broken"
    /\ writer' = NoUrb
    /\ loop' = "reply"
    /\ UNCHANGED <<cur, target, task, wire, permits, flagVars, mapVars, xferVars>>

\* A failed RET_UNLINK write ends the session.
WriteUnlinkFails ==
    /\ loop = "write"
    /\ sock' = "broken"
    /\ writer' = NoUrb
    /\ loop' = "drain"
    /\ cur' = NoUrb
    /\ UNCHANGED <<target, task, wire, permits, flagVars, mapVars, xferVars>>

\* Fault: a read error is ignored.
ReadOn ==
    /\ loop = "read"
    /\ UNCHANGED vars

\* EOF, a read error, a foreign devid or an unknown command ends the loop.
ReadEnds ==
    /\ loop = "read"
    /\ loop' = "drain"
    /\ UNCHANGED <<cur, target, task, permits, flagVars, mapVars, xferVars, sendVars>>

\* Fault: the tasks are flagged but not aborted.
DrainWithoutAbort ==
    /\ loop = "drain"
    /\ cancelled' = cancelled \cup inflight
    /\ inflight' = {}
    /\ loop' = "done"
    /\ UNCHANGED <<cur, target, task, aborted, mapHeld, permits, xferVars, sendVars>>

\* Flag and abort whatever is still in `inflight`.
DrainInflight ==
    /\ loop = "drain"
    /\ cancelled' = cancelled \cup inflight
    /\ aborted' = aborted \cup inflight
    /\ inflight' = {}
    /\ loop' = "done"
    /\ UNCHANGED <<cur, target, task, mapHeld, permits, xferVars, sendVars>>

-----------------------------------------------------------------------------
(***************************************************************************)
(* The task of a URB: the async block of handle_cmd_submit and run_submit  *)
(***************************************************************************)

\* First poll: hand the transfer to a blocking thread and await it.
PollFirst(u) ==
    /\ task[u] = "new"
    /\ Pollable(u)
    /\ task' = [task EXCEPT ![u] = "join"]
    /\ blk' = [blk EXCEPT ![u] = "queued"]
    /\ UNCHANGED <<loopVars, ep, hnd, outcome, cache, epLock, permits, flagVars,
                   mapVars, sendVars>>

\* Fault: the URB leaves `inflight` before its reply is written.
JoinAndForget(u) ==
    /\ task[u] = "join"
    /\ Pollable(u)
    /\ blk[u] = "done"
    /\ task' = [task EXCEPT ![u] = "check"]
    /\ inflight' = inflight \ {u}
    /\ UNCHANGED <<loopVars, permits, mapHeld, flagVars, xferVars, sendVars>>

\* Fault: the transfer is not awaited.
JoinEarly(u) ==
    /\ task[u] = "join"
    /\ Pollable(u)
    /\ task' = [task EXCEPT ![u] = "check"]
    /\ UNCHANGED <<loopVars, permits, flagVars, mapVars, xferVars, sendVars>>

\* The transfer has returned; the task is running again.
JoinTransfer(u) ==
    /\ task[u] = "join"
    /\ Pollable(u)
    /\ blk[u] = "done"
    /\ task' = [task EXCEPT ![u] = "check"]
    /\ UNCHANGED <<loopVars, permits, flagVars, mapVars, xferVars, sendVars>>

\* Fault: the test of the flag is inverted.
CheckInverted(u) ==
    /\ task[u] = "check"
    /\ task' = [task EXCEPT ![u] = IF u \in cancelled THEN "go" ELSE "rm"]
    /\ UNCHANGED <<loopVars, permits, flagVars, mapVars, xferVars, sendVars>>

\* A cancelled URB sends nothing; any other goes on to reply.
CheckCancelled(u) ==
    /\ task[u] = "check"
    /\ task' = [task EXCEPT ![u] = IF u \in cancelled THEN "rm" ELSE "go"]
    /\ UNCHANGED <<loopVars, permits, flagVars, mapVars, xferVars, sendVars>>

\* The writer is taken: the task suspends in the mutex's queue.
AwaitWriter(u) ==
    /\ task[u] = "go"
    /\ writer # NoUrb
    /\ task' = [task EXCEPT ![u] = "wlock"]
    /\ UNCHANGED <<loopVars, permits, flagVars, mapVars, xferVars, sendVars>>

LockWriter(u) ==
    /\ task[u] = "go" \/ (task[u] = "wlock" /\ Pollable(u))
    /\ writer = NoUrb
    /\ writer' = u
    /\ task' = [task EXCEPT ![u] = "write"]
    /\ UNCHANGED <<loopVars, sock, wire, permits, flagVars, mapVars, xferVars>>

\* Fault: the writer is released while the message is incomplete.
WritePartUnlocked(u) ==
    /\ task[u] = "write"
    /\ sock = "open"
    /\ wire' = Append(wire, RetSubmit(u, FALSE))
    /\ writer' = NoUrb
    /\ task' = [task EXCEPT ![u] = "wpart"]
    /\ UNCHANGED <<loopVars, sock, permits, flagVars, mapVars, xferVars>>

\* The socket takes only part of the message: write_all suspends.
WritePart(u) ==
    /\ task[u] = "write"
    /\ sock = "open"
    /\ wire' = Append(wire, RetSubmit(u, FALSE))
    /\ task' = [task EXCEPT ![u] = "wpart"]
    /\ UNCHANGED <<loopVars, writer, sock, permits, flagVars, mapVars, xferVars>>

\* write_all completes, in one go or after a partial write, and the writer
\* is released.
WriteRest(u) ==
    /\ sock = "open"
    /\ \/ /\ task[u] = "write"
          /\ wire' = Append(wire, RetSubmit(u, TRUE))
       \/ /\ task[u] = "wpart"
          /\ Pollable(u)
          /\ wire' = [wire EXCEPT ![Len(wire)] = RetSubmit(u, TRUE)]
    /\ writer' = NoUrb
    /\ task' = [task EXCEPT ![u] = "rm"]
    /\ UNCHANGED <<loopVars, sock, permits, flagVars, mapVars, xferVars>>

\* Fault: a failed write is tried again.
WriteRetried(u) ==
    /\ task[u] = "write" \/ (task[u] = "wpart" /\ Pollable(u))
    /\ sock' = "broken"
    /\ writer' = NoUrb
    /\ task' = [task EXCEPT ![u] = "go"]
    /\ UNCHANGED <<loopVars, wire, permits, flagVars, mapVars, xferVars>>

\* A failed RET_SUBMIT write is only logged; the loop finds out by itself.
WriteFails(u) ==
    /\ task[u] = "write" \/ (task[u] = "wpart" /\ Pollable(u))
    /\ sock' = "broken"
    /\ writer' = NoUrb
    /\ task' = [task EXCEPT ![u] = "rm"]
    /\ UNCHANGED <<loopVars, wire, permits, flagVars, mapVars, xferVars>>

\* run_submit has returned: forget the URB, then give the permit back.
FinishTask(u) ==
    /\ task[u] = "rm"
    /\ ~mapHeld
    /\ inflight' = inflight \ {u}
    /\ permits' = permits + 1
    /\ task' = [task EXCEPT ![u] = "done"]
    /\ UNCHANGED <<loopVars, mapHeld, flagVars, xferVars, sendVars>>

\* An aborted task is dropped where it is suspended.  Its permit and, if it
\* has it, the writer are released; its blocking thread runs on.
DropTask(u) ==
    /\ u \in aborted
    /\ Parked(u)
    /\ task' = [task EXCEPT ![u] = "dropped"]
    /\ permits' = permits + 1
    /\ writer' = IF writer = u THEN NoUrb ELSE writer
    /\ UNCHANGED <<loopVars, sock, wire, flagVars, mapVars, xferVars>>

-----------------------------------------------------------------------------
(***************************************************************************)
(* The blocking closure of a URB: control_transfer and data_transfer       *)
(***************************************************************************)

\* control_transfer: no lock is taken.  An intercepted SET_CONFIGURATION or
\* SET_INTERFACE first drops the cached endpoints S it invalidates.
StartControl(u, S) ==
    /\ blk[u] = "queued"
    /\ ep[u] = Ep0
    /\ blk' = [blk EXCEPT ![u] = "xfer"]
    /\ cache' = [e \in DataEps |-> IF e \in S THEN NoUrb ELSE cache[e]]
    /\ UNCHANGED <<loopVars, task, ep, hnd, outcome, epLock, permits, flagVars,
                   mapVars, sendVars>>

\* data_transfer: the endpoint does not exist or cannot be claimed.
EnsureFails(u) ==
    /\ blk[u] = "queued"
    /\ ep[u] # Ep0
    /\ blk' = [blk EXCEPT ![u] = "done"]
    /\ outcome' = [outcome EXCEPT ![u] = "err"]
    /\ UNCHANGED <<loopVars, task, ep, hnd, cache, epLock, permits, flagVars,
                   mapVars, sendVars>>

\* ensure_endpoint: use the cached handle, or open one and cache it.
EnsureEndpoint(u) ==
    LET h == IF cache[ep[u]] = NoUrb THEN u ELSE cache[ep[u]] IN
    /\ blk[u] = "queued"
    /\ ep[u] # Ep0
    /\ blk' = [blk EXCEPT ![u] = "eplock"]
    /\ hnd' = [hnd EXCEPT ![u] = h]
    /\ cache' = [cache EXCEPT ![ep[u]] = h]
    /\ UNCHANGED <<loopVars, task, ep, outcome, epLock, permits, flagVars,
                   mapVars, sendVars>>

\* Lock the endpoint for the whole of the blocking transfer.
StartData(u) ==
    /\ blk[u] = "eplock"
    /\ HandleFree(hnd[u])
    /\ epLock' = [epLock EXCEPT ![hnd[u]] = u]
    /\ blk' = [blk EXCEPT ![u] = "xfer"]
    /\ UNCHANGED <<loopVars, task, ep, hnd, outcome, cache, permits, flagVars,
                   mapVars, sendVars>>

\* The ways a transfer can end by itself.  data_transfer truncates an IN
\* payload to the requested length, so only a control transfer overruns it.
EndsOf(u) ==
    IF outcome[u] # "none" THEN {outcome[u]}
    ELSE {"ok", "err", "timeout"} \cup (IF ep[u] = Ep0 THEN {"over"} ELSE {})

\* The transfer ends (at the latest by its 60 s timeout) and a data
\* transfer's endpoint is unlocked.
EndTransfer(u, o) ==
    /\ blk[u] = "xfer"
    /\ o \in EndsOf(u)
    /\ outcome' = [outcome EXCEPT ![u] = o]
    /\ blk' = [blk EXCEPT ![u] = "done"]
    /\ epLock' = Unlock(u, o)
    /\ UNCHANGED <<loopVars, task, ep, hnd, cache, permits, flagVars, mapVars, sendVars>>

-----------------------------------------------------------------------------
LoopStep ==
    \/ \E u \in Urbs : ReadUnlink(u) \/ \E e \in DataEps \cup {Ep0} : ReadSubmit(u, e)
    \/ AcquireAndSpawn
    \/ InsertInflight
    \/ CancelEndpoint
    \/ LockForUnlink
    \/ WriteUnlink
    \/ WriteUnlinkFails
    \/ ReadEnds
    \/ DrainInflight

TaskStep(u) ==
    \/ PollFirst(u)
    \/ JoinTransfer(u)
    \/ CheckCancelled(u)
    \/ AwaitWriter(u)
    \/ LockWriter(u)
    \/ WritePart(u)
    \/ WriteRest(u)
    \/ WriteFails(u)
    \/ FinishTask(u)
    \/ DropTask(u)

BlkStep(u) ==
    \/ \E S \in SUBSET DataEps : StartControl(u, S)
    \/ EnsureFails(u)
    \/ EnsureEndpoint(u)
    \/ StartData(u)
    \/ \E o \in Outcomes : EndTransfer(u, o)

\* The client is gone, the loop has returned and no thread is left.
Finished ==
    /\ loop = "done"
    /\ \A u \in Urbs : ~Live(u) /\ blk[u] \in {"none", "done"}
    /\ UNCHANGED vars

Next ==
    \/ LoopStep
    \/ \E u \in Urbs : TaskStep(u) \/ BlkStep(u)
    \/ Finished

Spec == Init /\ [][Next]_vars

\* The loop's own steps.  Reading a further command and getting rid of a
\* message are up to the client, but a broken socket fails at once.
LoopProgress ==
    \/ AcquireAndSpawn
    \/ InsertInflight
    \/ CancelEndpoint
    \/ LockForUnlink
    \/ DrainInflight
    \/ sock = "broken" /\ (WriteUnlinkFails \/ ReadEnds)

\* The same for the task of a URB.
TaskProgress(u) ==
    \/ PollFirst(u)
    \/ JoinTransfer(u)
    \/ CheckCancelled(u)
    \/ AwaitWriter(u)
    \/ LockWriter(u)
    \/ FinishTask(u)
    \/ DropTask(u)
    \/ sock = "broken" /\ WriteFails(u)

\* tokio polls every woken task and its mutexes are FIFO, the blocking pool
\* runs every closure, and a transfer ends by its timeout.  A write to a
\* client that does not read, which has no timeout, need not end.
Fairness ==
    /\ WF_vars(LoopProgress)
    /\ \A u \in Urbs : WF_vars(TaskProgress(u)) /\ WF_vars(BlkStep(u))

FairSpec == Spec /\ Fairness

-----------------------------------------------------------------------------
(***************************************************************************)
(* Properties                                                              *)
(***************************************************************************)

\* Every variable has its type; in particular the semaphore never holds more
\* than the MAX_INFLIGHT_URBS permits it was created with.
TypeOK ==
    /\ loop \in LoopStates
    /\ cur \in Urbs \cup {NoUrb}
    /\ target \in Handles \cup {NoUrb}
    /\ task \in [Urbs -> TaskStates]
    /\ blk \in [Urbs -> BlkStates]
    /\ ep \in [Urbs -> DataEps \cup {Ep0}]
    /\ hnd \in [Urbs -> Handles \cup {NoUrb}]
    /\ outcome \in [Urbs -> Outcomes]
    /\ cancelled \in SUBSET Urbs
    /\ aborted \in SUBSET Urbs
    /\ inflight \in SUBSET Urbs
    /\ mapHeld \in BOOLEAN
    /\ cache \in [DataEps -> Handles \cup {NoUrb}]
    /\ epLock \in [Handles -> Holders]
    /\ writer \in Holders
    /\ sock \in {"open", "broken"}
    /\ permits \in 0..MAX_INFLIGHT_URBS
    /\ wire \in Seq(Message)

\* Positions of the wire that hold (the start of) a RET_SUBMIT for u.
RepliesTo(u) == {i \in 1..Len(wire) : wire[i].kind = "RET_SUBMIT" /\ wire[i].urb = u}

\* u's RET_SUBMIT has been written in full.
Answered(u) == \E i \in RepliesTo(u) : wire[i].whole

\* The permits not free are exactly those of the live tasks: neither a normal
\* return, nor an abort at whatever await, loses or duplicates one.
PermitsConserved ==
    permits + Cardinality({u \in Urbs : Live(u)}) = MAX_INFLIGHT_URBS

\* A CMD_UNLINK finds every URB that may still reply: while the loop is ready
\* to read a command, each live task that is not cancelled is in `inflight`.
UnlinkFinds ==
    \A u \in Urbs :
        Live(u) /\ u \notin cancelled /\ ~(loop = "insert" /\ cur = u) => u \in inflight

\* When urb_loop has returned, every task still alive has been aborted and is
\* flagged, so none starts a reply from its next poll on.
DrainStopsAll ==
    loop = "done" => \A u \in Urbs : Live(u) => u \in aborted /\ u \in cancelled

\* No URB is forgotten: one whose task has ended was answered in full, unless
\* the client unlinked it or is gone.  (A closure that panics is not modelled;
\* run_submit then returns without a reply.)
NothingLost ==
    \A u \in Urbs :
        task[u] \in {"done", "dropped"} => Answered(u) \/ u \in cancelled \/ sock = "broken"

\* RET_UNLINK tells the truth although its status is always 0: by the time it
\* is on the wire the URB is flagged cancelled or its reply went out before.
UnlinkTruthful ==
    \A u \in Urbs : \A i \in 1..Len(wire) :
        wire[i] = RetUnlink(u) =>
            u \in cancelled \/ \E j \in RepliesTo(u) : j < i /\ wire[j].whole

\* The client can parse the stream up to an abort: a URB is answered at most
\* once, and a message that is not written in full is the one being written
\* or was cut short by the abort of its task or by a dead socket.
FramesIntact ==
    /\ \A u \in Urbs : \A i, j \in RepliesTo(u) : i = j
    /\ \A i \in 1..Len(wire) :
         \/ wire[i].whole
         \/ i = Len(wire) /\ task[wire[i].urb] = "wpart" /\ writer = wire[i].urb
         \/ task[wire[i].urb] = "dropped"
         \/ sock = "broken"

\* A reply reports what the transfer did: it is sent after the transfer ended,
\* and says success exactly when the transfer succeeded within the buffer.
ReplyMatchesTransfer ==
    \A i \in 1..Len(wire) :
        LET u == wire[i].urb IN
        wire[i].kind = "RET_SUBMIT" =>
            /\ blk[u] = "done"
            /\ (wire[i].status = "ok") = (outcome[u] = "ok")
            /\ (wire[i].status = "EOVERFLOW") = (outcome[u] = "over")

\* An unlink spares the other URBs of its endpoint, although cancel_all cancels
\* whatever is pending there: the transfer of a URB that the client has not
\* unlinked is never cut short.
UnlinkSparesOthers ==
    \A u \in Urbs : blk[u] = "xfer" /\ u \notin cancelled => outcome[u] = "none"

\* u's closure occupies a blocking thread.
OnThread(u) == blk[u] \notin {"none", "done"}

\* MAX_INFLIGHT_URBS "bounds the daemon's blocking-thread footprint", as far
\* as it can: only the threads of aborted URBs, which run on after their task
\* has given its permit back, are not counted.
ThreadsBounded ==
    Cardinality({u \in Urbs : OnThread(u) /\ u \notin aborted}) <= MAX_INFLIGHT_URBS

\* For ever from some time on, one message is being written: the client does
\* not read it.
WriteStuck == \E w \in Urbs \cup {Loop} : <>[](writer = w)

\* Every URB's task ends and gives its permit back, whatever the device does,
\* unless the client lets a write block for ever; nothing else, neither the
\* endpoint's mutex nor that of `inflight` or the writer, keeps a task alive.
UrbSettles == (\A u \in Urbs : Live(u) ~> ~Live(u)) \/ WriteStuck

\* A CMD_UNLINK, and a CMD_SUBMIT waiting at the semaphore's limit, never
\* wedge the session: the loop gets back to reading or ends, unless the client
\* lets a write block for ever.
LoopReturns == (loop \notin {"read", "done"} ~> loop \in {"read", "done"}) \/ WriteStuck

\* A dead socket ends the session: blocked writes fail, and the loop finds out.
DeadSocketEnds == sock = "broken" ~> loop = "done"

(***************************************************************************)
(* What the code's comments say and the code does not do                   *)
(***************************************************************************)

\* daemon.rs, handle_cmd_unlink: "abort the spawned task so it never writes
\* a stale `RET_SUBMIT`", so none follows the RET_UNLINK.
NoStaleReply ==
    \A i, j \in 1..Len(wire) :
        wire[i].kind = "RET_UNLINK" /\ wire[j].kind = "RET_SUBMIT"
        /\ wire[i].urb = wire[j].urb => j < i

\* urb.rs, write_ret_submit: "write a complete `RET_SUBMIT`": on a live
\* socket nothing follows a message that is not complete.
RepliesComplete ==
    sock = "open" => \A i \in 1..Len(wire) : i < Len(wire) => wire[i].whole

\* daemon.rs, MAX_INFLIGHT_URBS: "Bounds the daemon's blocking-thread
\* footprint".
BlockingThreadsBounded ==
    Cardinality({u \in Urbs : OnThread(u)}) <= MAX_INFLIGHT_URBS

\* lib.rs, cancel_endpoint: waiting for the endpoint is fine "because
\* cancellation will unblock that transfer almost immediately", so the
\* transfer waited for does not run into its 60 s timeout.
CancelUnblocks ==
    [][\A u \in Urbs :
         loop = "cancel" /\ blk[u] = "xfer" /\ ep[u] # Ep0 /\ hnd[u] = target
         => outcome'[u] # "timeout"]_vars
=============================================================================
