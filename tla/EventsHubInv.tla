---------------------------- MODULE EventsHubInv ----------------------------
(***************************************************************************)
(* The inductive invariant behind the theorems on EventsHub.               *)
(***************************************************************************)
EXTENDS EventsHub

\* The busid a hotplug event or an event line is about, and what the latter
\* says is there.
Bus(e)  == BusidOf[e.id]
Says(e) == IF e.event = "added" THEN e.id ELSE NoId

-----------------------------------------------------------------------------
(***************************************************************************)
(* The hotplug events that wait, the ids and the snapshot                  *)
(***************************************************************************)
Queued(e) == \E k \in 1..Len(watch) : watch[k] = e

LastAtBus(q, k) == \A m \in (k + 1)..Len(q) : Bus(q[m]) # Bus(q[k])

\* One device per busid, and none of them is still to come.
Attached ==
    /\ present \cap fresh = {}
    /\ \A i, j \in present : BusidOf[i] = BusidOf[j] => i = j

\* The queue tells the life of a device in order, up to what it is now.
QueueOK ==
    Watched =>
        /\ \A i \in Ids : Queued(Connected(i)) =>
             i \notin fresh /\ (i \in present \/ Queued(Disconnected(i)))
        /\ \A i \in Ids : Queued(Disconnected(i)) => i \notin fresh /\ i \notin present
        /\ \A i \in Ids, k, m \in 1..Len(watch) :
             watch[k] = Disconnected(i) /\ watch[m] = Connected(i) => m < k
        /\ \A k \in 1..Len(watch) : LastAtBus(watch, k) =>
             IF watch[k].kind = "connected" THEN watch[k].id \in present
             ELSE \A i \in present : BusidOf[i] # Bus(watch[k])

\* What the list and the queue will make known is what is attached.
KnownOK ==
    main \in {"seed", "accept"} =>
        /\ \A i \in present : i \in idmap \cup listing \/ Queued(Connected(i))
        /\ \A i \in (idmap \cup listing) \ present : Queued(Disconnected(i))

\* What the snapshot has at b is attached, if neither queue nor list has more.
SettledAt(b) ==
    (\A k \in 1..Len(watch) : Bus(watch[k]) # b) /\ (\A i \in listing : BusidOf[i] # b) =>
        /\ \A i \in present : BusidOf[i] = b => snapshot[b] = i
        /\ snapshot[b] = NoId \/ snapshot[b] \in present

SnapshotOK ==
    /\ \A b \in Busids : snapshot[b] # NoId => snapshot[b] \in idmap /\ BusidOf[snapshot[b]] = b
    /\ main \in {"seed", "accept"} => \A b \in Busids : SettledAt(b)

\* Before there is a list, there is nothing else.
StartOK ==
    /\ main \in {"bind", "watch"} => watch = <<>>
    /\ main \in {"bind", "watch", "list"} => listing = {} /\ idmap = {} /\ snapshot = Empty
    /\ main \in {"bind", "watch", "list", "seed"} => unsent = NoEvent /\ Accepted = {}
    /\ main = "accept" => listing = {}

-----------------------------------------------------------------------------
(***************************************************************************)
(* The events sent and the consumers                                       *)
(***************************************************************************)
Sent(e) == \E k \in 1..Len(log) : log[k] = e

Pending(b) == unsent # NoEvent /\ Bus(unsent) = b

\* Every id known was announced, and so was what is about to be removed.
AnnouncedOK ==
    /\ \A i \in idmap : unsent = Added(i) \/ Sent(Added(i))
    /\ \A i \in Ids : unsent = Removed(i) => Sent(Added(i))
    /\ RemovedWasAdded

\* The snapshot has what the last event says.
LastEventOK ==
    /\ \A b \in Busids : Pending(b) => snapshot[b] = Says(unsent)
    /\ \A k \in 1..Len(log) :
         LastAtBus(log, k) /\ ~Pending(Bus(log[k])) => snapshot[Bus(log[k])] = Says(log[k])

\* What s has been told of b, or will be as part of its snapshot.
Told(s, b, x) ==
    IF \E i \in initial[s] : BusidOf[i] = b
    THEN \A i \in initial[s] : BusidOf[i] = b => i = x
    ELSE view[s][b] = x

\* A consumer knows what the snapshot says of a busid, or will be sent an
\* event on it, or has missed one.
ConsumerOK(s) ==
    /\ sub[s] \in {"none", "subscribed"} => view[s] = Empty
    /\ sub[s] \in {"subscribed", "live"} => pos[s] <= Len(log) + 1
    /\ sub[s] = "live" => \A b \in Busids \ missed[s] :
         \/ Pending(b)
         \/ \E k \in pos[s]..Len(log) : Bus(log[k]) = b
         \/ Told(s, b, snapshot[b])

\* The inductive invariant of the publisher, accept_loop and serve_subscriber:
\* what is queued, listed, in the snapshot, sent and told adds up to the
\* devices attached.
IInv ==
    /\ TypeOK
    /\ Attached
    /\ QueueOK
    /\ KnownOK
    /\ SnapshotOK
    /\ StartOK
    /\ AnnouncedOK
    /\ LastEventOK
    /\ \A s \in Subs : ConsumerOK(s)
=============================================================================
