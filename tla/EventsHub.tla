------------------------------ MODULE EventsHub ------------------------------
(***************************************************************************)
(* `usbipd events` (crates/usbipd/src/events.rs): run_async, the publisher *)
(* task that turns nusb's hotplug stream into events, the Hub with its     *)
(* snapshot and broadcast channel, accept_loop, and one serve_subscriber   *)
(* task per connection.  A consumer keeps the device it was last told of   *)
(* per busid.                                                              *)
(*                                                                         *)
(* nusb is external: an id names one enumeration of a device and is never  *)
(* used again, and the stream reports arrivals and departures in order.    *)
(***************************************************************************)
EXTENDS Naturals, Sequences, FiniteSets

CONSTANTS
    Ids,        \* nusb::DeviceIds
    Busids,
    BusidOf,    \* the busid from_info gives the device with an id
    Subs,       \* connections to the events socket
    Capacity,   \* of the broadcast channel
    NoId,       \* no device at a busid
    NoEvent     \* the publisher has nothing left to send

ASSUME HubAssumption ==
    /\ BusidOf \in [Ids -> Busids]
    /\ Capacity \in Nat \ {0}
    /\ NoId \notin Ids

VARIABLES
    present,    \* the devices attached to the host
    fresh,      \* ids that no device has had yet
    watch,      \* hotplug events not yet polled
    path,       \* what is at the socket's path
    main,       \* where run_async is
    listing,    \* devices of the initial list not yet published
    idmap,      \* keys of IdMap.by_id
    snapshot,   \* Hub.snapshot: the device last announced per busid
    unsent,     \* the event the publisher is about to send
    log,        \* everything sent on the broadcast channel
    sub,        \* state of each connection
    pos,        \* next event of the log for each receiver
    initial,    \* snapshot events each connection has still to be sent
    missed,     \* busids of which an overrun consumer has missed the last event
    view        \* what each consumer knows: busid -> device

hostVars == <<present, fresh>>
pubVars  == <<listing, idmap, snapshot, unsent, log>>
subVars  == <<sub, pos, initial, missed, view>>
vars == <<present, fresh, watch, path, main, listing, idmap, snapshot, unsent,
          log, sub, pos, initial, missed, view>>

Connected(i)    == [kind |-> "connected", id |-> i]
Disconnected(i) == [kind |-> "disconnected", id |-> i]
Added(i)        == [event |-> "added", id |-> i]
Removed(i)      == [event |-> "removed", id |-> i]

HotplugEvent == {Connected(i) : i \in Ids} \cup {Disconnected(i) : i \in Ids}
EventLine    == {Added(i) : i \in Ids} \cup {Removed(i) : i \in Ids}

\* No event is none.
ASSUME NoEventAssumption == NoEvent \notin EventLine

MainStates == {"bind", "watch", "list", "seed", "accept", "done", "failed", "killed"}
SubStates  == {"none", "subscribed", "live", "gone"}
Running    == main \notin {"done", "failed", "killed"}

Empty == [b \in Busids |-> NoId]

\* An `added` line replaces what is known at the busid, a `removed` line
\* deletes it, whichever device it names.
Apply(m, ev) ==
    [m EXCEPT ![BusidOf[ev.id]] = IF ev.event = "added" THEN ev.id ELSE NoId]

\* The connections in S end: their tasks and receivers are dropped.
Drop(S) ==
    /\ sub' = [s \in Subs |-> IF s \in S THEN "gone" ELSE sub[s]]
    /\ pos' = [s \in Subs |-> IF s \in S THEN 1 ELSE pos[s]]
    /\ initial' = [s \in Subs |-> IF s \in S THEN {} ELSE initial[s]]
    /\ missed' = [s \in Subs |-> IF s \in S THEN {} ELSE missed[s]]
    /\ view' = [s \in Subs |-> IF s \in S THEN Empty ELSE view[s]]

Accepted == {s \in Subs : sub[s] # "none"}

-----------------------------------------------------------------------------
Init ==
    /\ \E D \in SUBSET Ids :
         /\ \A i, j \in D : BusidOf[i] = BusidOf[j] => i = j
         /\ present = D
         /\ fresh = Ids \ D
    /\ watch = <<>>
    /\ path \in {"nothing", "socket", "file"}
    /\ main = "bind"
    /\ listing = {}
    /\ idmap = {}
    /\ snapshot = Empty
    /\ unsent = NoEvent
    /\ log = <<>>
    /\ sub = [s \in Subs |-> "none"]
    /\ pos = [s \in Subs |-> 1]
    /\ initial = [s \in Subs |-> {}]
    /\ missed = [s \in Subs |-> {}]
    /\ view = [s \in Subs |-> Empty]

-----------------------------------------------------------------------------
(***************************************************************************)
(* The host, whose events are queued once it is watched                    *)
(***************************************************************************)

\* Fault: the watch starts after the devices were listed.
WatchedLate == main = "accept"

\* watch_devices has been called.
Watched == main \in {"list", "seed", "accept"}

Plug(i) ==
    /\ i \in fresh
    /\ \A j \in present : BusidOf[j] # BusidOf[i]
    /\ present' = present \cup {i}
    /\ fresh' = fresh \ {i}
    /\ watch' = IF Watched THEN Append(watch, Connected(i)) ELSE watch
    /\ UNCHANGED <<path, main, pubVars, subVars>>

Unplug(i) ==
    /\ i \in present
    /\ present' = present \ {i}
    /\ watch' = IF Watched THEN Append(watch, Disconnected(i)) ELSE watch
    /\ UNCHANGED <<fresh, path, main, pubVars, subVars>>

-----------------------------------------------------------------------------
(***************************************************************************)
(* run_async                                                               *)
(***************************************************************************)

\* bind_listener: replace an old socket, refuse anything else.
Bind ==
    /\ main = "bind"
    /\ path' = IF path = "file" THEN path ELSE "socket"
    /\ main' = IF path = "file" THEN "failed" ELSE "watch"
    /\ UNCHANGED <<hostVars, watch, pubVars, subVars>>

StartWatch ==
    /\ main = "watch"
    /\ main' = "list"
    /\ UNCHANGED <<hostVars, watch, path, pubVars, subVars>>

ListDevices ==
    /\ main = "list"
    /\ listing' = present
    /\ main' = "seed"
    /\ UNCHANGED <<hostVars, watch, path, idmap, snapshot, unsent, log, subVars>>

\* A device of the list is noted and published; nobody is subscribed yet.
SeedFromList(i) ==
    /\ main = "seed"
    /\ i \in listing
    /\ listing' = listing \ {i}
    /\ idmap' = idmap \cup {i}
    /\ snapshot' = Apply(snapshot, Added(i))
    /\ log' = Append(log, Added(i))
    /\ UNCHANGED <<hostVars, watch, path, main, unsent, subVars>>

\* The publisher is spawned and accept_loop entered.
StartAccepting ==
    /\ main = "seed"
    /\ listing = {}
    /\ main' = "accept"
    /\ UNCHANGED <<hostVars, watch, path, pubVars, subVars>>

\* watch_devices or list_devices fails: the socket's path is left behind.
StartFails ==
    /\ main \in {"watch", "list"}
    /\ main' = "failed"
    /\ UNCHANGED <<hostVars, watch, path, pubVars, subVars>>

\* ctrl_c: accept_loop returns, the publisher is aborted, the path is removed
\* and the runtime drops every connection.
Interrupt ==
    /\ main = "accept"
    /\ \A s \in Subs : sub[s] # "subscribed"
    /\ main' = "done"
    /\ path' = "nothing"
    /\ Drop(Accepted)
    /\ UNCHANGED <<hostVars, watch, pubVars>>

\* SIGTERM, which run_async does not handle, or SIGINT while it is starting.
Terminate ==
    /\ Running
    /\ main' = "killed"
    /\ Drop(Accepted)
    /\ UNCHANGED <<hostVars, watch, path, pubVars>>

-----------------------------------------------------------------------------
(***************************************************************************)
(* The publisher                                                           *)
(***************************************************************************)

\* Connected: note the id, insert into the snapshot.
PollConnected ==
    /\ main = "accept"
    /\ unsent = NoEvent
    /\ watch # <<>>
    /\ Head(watch).kind = "connected"
    /\ LET i == Head(watch).id IN
         /\ idmap' = idmap \cup {i}
         /\ snapshot' = Apply(snapshot, Added(i))
         /\ unsent' = Added(i)
    /\ watch' = Tail(watch)
    /\ UNCHANGED <<hostVars, path, main, listing, log, subVars>>

\* Fault: an unknown id is published as removed, too.
PollDisconnectedAny ==
    /\ main = "accept"
    /\ unsent = NoEvent
    /\ watch # <<>>
    /\ Head(watch).kind = "disconnected"
    /\ LET i == Head(watch).id IN
         /\ idmap' = idmap \ {i}
         /\ snapshot' = Apply(snapshot, Removed(i))
         /\ unsent' = Removed(i)
    /\ watch' = Tail(watch)
    /\ UNCHANGED <<hostVars, path, main, listing, log, subVars>>

\* Disconnected: an unknown id is ignored, a known one is forgotten and its
\* busid removed from the snapshot.
PollDisconnected ==
    /\ main = "accept"
    /\ unsent = NoEvent
    /\ watch # <<>>
    /\ Head(watch).kind = "disconnected"
    /\ LET i == Head(watch).id IN
         IF i \in idmap
         THEN /\ idmap' = idmap \ {i}
              /\ snapshot' = Apply(snapshot, Removed(i))
              /\ unsent' = Removed(i)
         ELSE UNCHANGED <<idmap, snapshot, unsent>>
    /\ watch' = Tail(watch)
    /\ UNCHANGED <<hostVars, path, main, listing, log, subVars>>

\* The snapshot's mutex is released before the event is sent.
Send ==
    /\ main = "accept"
    /\ unsent # NoEvent
    /\ log' = Append(log, unsent)
    /\ unsent' = NoEvent
    /\ UNCHANGED <<hostVars, watch, path, main, listing, idmap, snapshot, subVars>>

-----------------------------------------------------------------------------
(***************************************************************************)
(* accept_loop and serve_subscriber                                        *)
(***************************************************************************)

\* tx.subscribe: the receiver's first event is the next one sent.
Receiver(s) == [pos EXCEPT ![s] = Len(log) + 1]

\* snapshot_added
SnapshotFor(s) == [initial EXCEPT ![s] = {snapshot[b] : b \in Busids} \ {NoId}]

\* Fault: snapshot first, subscribe second.
AcceptReversed == <<"snapshot", "subscribe">>

\* What accept_loop does with a connection, in this order.
AcceptOrder == <<"subscribe", "snapshot">>

AcceptStep(s, k) ==
    /\ pos' = IF AcceptOrder[k] = "subscribe" THEN Receiver(s) ELSE pos
    /\ initial' = IF AcceptOrder[k] = "snapshot" THEN SnapshotFor(s) ELSE initial

\* A connection is accepted, one at a time: subscribe...
Subscribe(s) ==
    /\ main = "accept"
    /\ sub[s] = "none"
    /\ \A t \in Subs : sub[t] # "subscribed"
    /\ AcceptStep(s, 1)
    /\ sub' = [sub EXCEPT ![s] = "subscribed"]
    /\ UNCHANGED <<hostVars, watch, path, main, pubVars, missed, view>>

\* ... then take the snapshot and spawn serve_subscriber.
TakeSnapshot(s) ==
    /\ sub[s] = "subscribed"
    /\ AcceptStep(s, 2)
    /\ sub' = [sub EXCEPT ![s] = "live"]
    /\ UNCHANGED <<hostVars, watch, path, main, pubVars, missed, view>>

WriteInitial(s, i) ==
    /\ sub[s] = "live"
    /\ i \in initial[s]
    /\ initial' = [initial EXCEPT ![s] = @ \ {i}]
    /\ view' = [view EXCEPT ![s] = Apply(@, Added(i))]
    /\ UNCHANGED <<hostVars, watch, path, main, pubVars, sub, pos, missed>>

\* The oldest event the channel still has.
Oldest == IF Len(log) > Capacity THEN Len(log) - Capacity + 1 ELSE 1

Receive(s) ==
    /\ sub[s] = "live"
    /\ initial[s] = {}
    /\ pos[s] \in Oldest..Len(log)
    /\ view' = [view EXCEPT ![s] = Apply(@, log[pos[s]])]
    /\ missed' = [missed EXCEPT ![s] = @ \ {BusidOf[log[pos[s]].id]}]
    /\ pos' = [pos EXCEPT ![s] = @ + 1]
    /\ UNCHANGED <<hostVars, watch, path, main, pubVars, sub, initial>>

\* Lagged: skip to the oldest event; nothing is written to the consumer.
Lag(s) ==
    /\ sub[s] = "live"
    /\ initial[s] = {}
    /\ pos[s] < Oldest
    /\ pos' = [pos EXCEPT ![s] = Oldest]
    /\ missed' = [missed EXCEPT ![s] = @ \cup {BusidOf[log[k].id] : k \in pos[s]..(Oldest - 1)}]
    /\ UNCHANGED <<hostVars, watch, path, main, pubVars, sub, initial, view>>

\* A write fails: the consumer has disconnected.
Disconnect(s) ==
    /\ sub[s] = "live"
    /\ initial[s] # {} \/ pos[s] <= Len(log)
    /\ Drop({s})
    /\ UNCHANGED <<hostVars, watch, path, main, pubVars>>

-----------------------------------------------------------------------------
HostStep == \E i \in Ids : Plug(i) \/ Unplug(i)

StartStep ==
    \/ Bind
    \/ StartWatch
    \/ ListDevices
    \/ \E i \in Ids : SeedFromList(i)
    \/ StartAccepting
    \/ StartFails

PublisherStep ==
    \/ PollConnected
    \/ PollDisconnected
    \/ Send

ServeStep(s) ==
    \/ TakeSnapshot(s)
    \/ \E i \in Ids : WriteInitial(s, i)
    \/ Receive(s)
    \/ Lag(s)

Stopped ==
    /\ ~Running
    /\ UNCHANGED vars

Next ==
    \/ HostStep
    \/ StartStep
    \/ Interrupt
    \/ Terminate
    \/ PublisherStep
    \/ \E s \in Subs : Subscribe(s) \/ ServeStep(s) \/ Disconnect(s)
    \/ Stopped

Spec == Init /\ [][Next]_vars

\* The tasks are scheduled; consumers read what they are sent or disconnect.
Fairness ==
    /\ WF_vars(PublisherStep)
    /\ \A s \in Subs : WF_vars(ServeStep(s))

FairSpec == Spec /\ Fairness

-----------------------------------------------------------------------------
(***************************************************************************)
(* Properties                                                              *)
(***************************************************************************)

\* Every variable has its type.
TypeOK ==
    /\ present \in SUBSET Ids
    /\ fresh \in SUBSET Ids
    /\ watch \in Seq(HotplugEvent)
    /\ path \in {"nothing", "socket", "file"}
    /\ main \in MainStates
    /\ listing \in SUBSET Ids
    /\ idmap \in SUBSET Ids
    /\ snapshot \in [Busids -> Ids \cup {NoId}]
    /\ unsent \in EventLine \cup {NoEvent}
    /\ log \in Seq(EventLine)
    /\ sub \in [Subs -> SubStates]
    /\ pos \in [Subs -> Nat \ {0}]
    /\ initial \in [Subs -> SUBSET Ids]
    /\ missed \in [Subs -> SUBSET Busids]
    /\ view \in [Subs -> [Busids -> Ids \cup {NoId}]]

\* The snapshot of exactly the devices in D.
Holding(D) ==
    [b \in Busids |-> IF \E i \in D : BusidOf[i] = b
                      THEN CHOOSE i \in D : BusidOf[i] = b ELSE NoId]

\* run_async, "start the watch before the snapshot so any device unplugged in
\* between ... is not silently lost": when every hotplug event was handled the
\* snapshot holds the devices attached, and IdMap has no entry too many.
HubConverges ==
    main = "accept" /\ watch = <<>> => snapshot = Holding(present) /\ idmap = present

\* A connection that has read everything sent to it.
CaughtUp(s) ==
    /\ sub[s] = "live"
    /\ initial[s] = {}
    /\ pos[s] = Len(log) + 1
    /\ unsent = NoEvent

\* accept_loop, "subscribe first, snapshot second": whenever a consumer
\* connects, it misses no event: having read everything it knows exactly the
\* snapshot.  One that the channel has overrun is wrong at most about the
\* busids whose last event it missed.
NoEventMissed ==
    \A s \in Subs : CaughtUp(s) => \A b \in Busids \ missed[s] : view[s][b] = snapshot[b]

\* IdMap: a `removed` line names a device that an earlier line `added`.
RemovedWasAdded ==
    \A k \in 1..Len(log) :
        log[k].event = "removed" => \E j \in 1..(k - 1) : log[j] = Added(log[k].id)

\* A device that stays attached is made known to every consumer that stays
\* connected and is not overrun.
DeviceAnnounced ==
    \A s \in Subs, i \in Ids :
        i \in present /\ sub[s] = "live"
        ~> \/ view[s][BusidOf[i]] = i
           \/ i \notin present
           \/ sub[s] # "live"
           \/ BusidOf[i] \in missed[s]

(***************************************************************************)
(* What the comments say and the code does not do                          *)
(***************************************************************************)

\* Hub::new: slow subscribers that skip ahead "will catch up on the next
\* event".
LaggedCatchesUp == \A s \in Subs : CaughtUp(s) => view[s] = snapshot

\* run: the hub is driven "until SIGINT / SIGTERM", after which run_async
\* removes its socket.
SignalRemovesSocket ==
    [][main = "accept" /\ main' \in {"done", "killed"} => path' = "nothing"]_vars
=============================================================================
