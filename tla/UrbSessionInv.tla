---------------------------- MODULE UrbSessionInv ----------------------------
(***************************************************************************)
(* The inductive invariant of UrbSession.  Each conjunct ties the state of *)
(* one actor to the locks and flags it shares with the others.             *)
(***************************************************************************)
EXTENDS UrbSession

Busy == {"permit", "insert", "cancel", "reply", "write"}

\* u needs no reply any more, or has it.
Settled(u) == Answered(u) \/ u \in cancelled \/ sock = "broken"

\* While the loop handles a command it has a URB, spawned or about to be.
CurInv ==
    /\ loop \in Busy => cur \in Urbs
    /\ loop = "permit" => task[cur] = "none"
    /\ loop \in {"insert", "cancel", "reply", "write"} => task[cur] # "none"

\* The async mutex of the writer is held by exactly the task or the loop that
\* is writing.
WriterInv ==
    /\ \A u \in Urbs : task[u] \in {"write", "wpart"} <=> writer = u
    /\ loop = "write" <=> writer = Loop

\* Flagging and aborting go together, except while the loop is waiting for
\* the endpoint between the two.
FlagInv ==
    /\ aborted \subseteq cancelled
    /\ \A u \in cancelled : u \in aborted \/ (loop = "cancel" /\ cur = u)
    /\ loop = "cancel" => cur \in cancelled

\* A closure exists once its task was polled, has returned once its task goes
\* on, outlives only an aborted task, and holds its endpoint's mutex while it
\* transfers data.
XferInv ==
    \A u \in Urbs :
        /\ task[u] \in {"none", "new"} => blk[u] = "none"
        /\ task[u] \in {"check", "go", "wlock", "write", "wpart", "rm", "done"} => blk[u] = "done"
        /\ task[u] = "dropped" => u \in aborted
        /\ blk[u] = "eplock" => ep[u] # Ep0 /\ hnd[u] \in Handles
        /\ blk[u] = "xfer" /\ ep[u] # Ep0 => hnd[u] \in Handles /\ epLock[hnd[u]] = u

\* Only a closure that transfers data has a handle, only a handle is locked to
\* be cancelled, and no closure has an outcome before it returns.
UncutInv ==
    /\ loop = "cancel" => target \in Handles
    /\ \A u \in Urbs :
         /\ ep[u] = Ep0 \/ blk[u] \in {"none", "queued"} => hnd[u] = NoUrb
         /\ blk[u] # "done" => outcome[u] = "none"

\* What is on the wire for a URB agrees with the state of its task.
WireInv ==
    /\ \A u \in Urbs : RepliesTo(u) # {} => task[u] \in {"wpart", "rm", "done", "dropped"}
    /\ \A u \in Urbs : task[u] = "wpart" =>
          /\ Len(wire) > 0
          /\ wire[Len(wire)] = RetSubmit(u, FALSE)
    /\ \A u \in Urbs : task[u] = "rm" => Settled(u)
    /\ loop \in {"cancel", "reply", "write"} => Settled(cur)

\* The invariant that every step of urb_loop, run_submit and the transfers
\* preserves.
IInv ==
    /\ TypeOK
    /\ CurInv
    /\ WriterInv
    /\ FlagInv
    /\ XferInv
    /\ UncutInv
    /\ WireInv
    /\ PermitsConserved
    /\ UnlinkFinds
    /\ DrainStopsAll
    /\ NothingLost
    /\ UnlinkTruthful
    /\ FramesIntact
    /\ ReplyMatchesTransfer
=============================================================================
