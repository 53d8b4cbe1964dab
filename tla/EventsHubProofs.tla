-------------------------- MODULE EventsHubProofs --------------------------
(***************************************************************************)
(* What holds of the events hub for any number of devices, busids and      *)
(* consumers and any capacity of the channel.                              *)
(***************************************************************************)
EXTENDS EventsHubInv, TLAPS

-----------------------------------------------------------------------------
(***************************************************************************)
(* Events and queues                                                       *)
(***************************************************************************)

\* What a hotplug event is.
LEMMA Hotplugs ==
    /\ \A i \in Ids : /\ Connected(i) \in HotplugEvent /\ Disconnected(i) \in HotplugEvent
                      /\ Connected(i).id = i /\ Disconnected(i).id = i
                      /\ Connected(i).kind = "connected"
                      /\ Disconnected(i).kind = "disconnected"
    /\ \A i, j \in Ids : Connected(i) # Disconnected(j)
    /\ \A e \in HotplugEvent :
         /\ e.id \in Ids
         /\ Bus(e) \in Busids
         /\ e = IF e.kind = "connected" THEN Connected(e.id) ELSE Disconnected(e.id)
         /\ e.kind \in {"connected", "disconnected"}
<1>1. ASSUME NEW i \in Ids
      PROVE  /\ Connected(i).id = i /\ Disconnected(i).id = i
             /\ Connected(i).kind = "connected"
             /\ Disconnected(i).kind = "disconnected"
  BY DEF Connected, Disconnected
<1>2. ASSUME NEW i \in Ids PROVE Connected(i) \in HotplugEvent /\ Disconnected(i) \in HotplugEvent
  BY Zenon DEF HotplugEvent
<1>3. \A i, j \in Ids : Connected(i) # Disconnected(j)
  BY DEF Connected, Disconnected
<1>4. ASSUME NEW e \in HotplugEvent
      PROVE  /\ e.id \in Ids
             /\ e = IF e.kind = "connected" THEN Connected(e.id) ELSE Disconnected(e.id)
             /\ e.kind \in {"connected", "disconnected"}
  <2>1. PICK i \in Ids : e = Connected(i) \/ e = Disconnected(i)
    BY Zenon DEF HotplugEvent
  <2>. QED
    BY <1>1, <2>1
<1>5. ASSUME NEW e \in HotplugEvent PROVE Bus(e) \in Busids
  BY <1>4, HubAssumption DEF Bus
<1>. QED
  BY <1>1, <1>2, <1>3, <1>4, <1>5

\* What an event line is.
LEMMA Lines ==
    /\ \A i \in Ids : /\ Added(i) \in EventLine /\ Removed(i) \in EventLine
                      /\ Added(i).id = i /\ Removed(i).id = i
                      /\ Says(Added(i)) = i /\ Says(Removed(i)) = NoId
                      /\ Bus(Added(i)) = BusidOf[i] /\ Bus(Removed(i)) = BusidOf[i]
                      /\ Removed(i).event = "removed" /\ Added(i).event = "added"
    /\ \A e \in EventLine :
         /\ e.id \in Ids
         /\ Bus(e) \in Busids
         /\ Says(e) \in Ids \cup {NoId}
         /\ e = IF e.event = "added" THEN Added(e.id) ELSE Removed(e.id)
<1>1. ASSUME NEW i \in Ids
      PROVE  /\ Added(i).id = i /\ Removed(i).id = i
             /\ Removed(i).event = "removed" /\ Added(i).event = "added"
  BY DEF Added, Removed
<1>2. ASSUME NEW i \in Ids PROVE Added(i) \in EventLine /\ Removed(i) \in EventLine
  BY Zenon DEF EventLine
<1>3. ASSUME NEW i \in Ids
      PROVE  /\ Says(Added(i)) = i /\ Says(Removed(i)) = NoId
             /\ Bus(Added(i)) = BusidOf[i] /\ Bus(Removed(i)) = BusidOf[i]
  BY <1>1 DEF Says, Bus
<1>4. ASSUME NEW e \in EventLine
      PROVE  /\ e.id \in Ids
             /\ e = IF e.event = "added" THEN Added(e.id) ELSE Removed(e.id)
  <2>1. PICK i \in Ids : e = Added(i) \/ e = Removed(i)
    BY Zenon DEF EventLine
  <2>. QED
    BY <1>1, <2>1
<1>5. ASSUME NEW e \in EventLine PROVE Bus(e) \in Busids /\ Says(e) \in Ids \cup {NoId}
  BY <1>4, HubAssumption DEF Bus, Says
<1>. QED
  BY <1>1, <1>2, <1>3, <1>4, <1>5

\* What Apply makes of a map.
LEMMA Applied ==
    ASSUME NEW m \in [Busids -> Ids \cup {NoId}], NEW e \in EventLine
    PROVE  /\ Apply(m, e) \in [Busids -> Ids \cup {NoId}]
           /\ Apply(m, e)[Bus(e)] = Says(e)
           /\ \A b \in Busids : b # Bus(e) => Apply(m, e)[b] = m[b]
<1>1. e.id \in Ids /\ Bus(e) \in Busids
  BY Lines
<1>. QED
  BY <1>1 DEF Apply, Bus, Says

\* A queue with one element more.
LEMMA Appended ==
    ASSUME NEW S, NEW q \in Seq(S), NEW e \in S, NEW r, r = Append(q, e)
    PROVE  /\ r \in Seq(S)
           /\ Len(q) \in Nat
           /\ Len(r) = Len(q) + 1
           /\ \A k \in 1..Len(q) : r[k] = q[k]
           /\ r[Len(q) + 1] = e
OBVIOUS

\* A queue without its first element.
LEMMA Popped ==
    ASSUME NEW S, NEW q \in Seq(S), q # <<>>, NEW r, r = Tail(q)
    PROVE  /\ r \in Seq(S)
           /\ Len(q) \in Nat \ {0}
           /\ Head(q) = q[1]
           /\ Len(r) = Len(q) - 1
           /\ \A k \in 1..(Len(q) - 1) : r[k] = q[k + 1]
           /\ Head(q) \in S
OBVIOUS

-----------------------------------------------------------------------------
(***************************************************************************)
(* Types                                                                   *)
(***************************************************************************)

\* A hub that starts has well-typed variables.
LEMMA InitTypes == Init => TypeOK
<1>. SUFFICES ASSUME Init PROVE TypeOK
  OBVIOUS
<1>1. present \in SUBSET Ids /\ fresh \in SUBSET Ids /\ listing \in SUBSET Ids /\ idmap \in SUBSET Ids
  BY Zenon DEF Init
<1>2. watch \in Seq(HotplugEvent) /\ log \in Seq(EventLine)
  BY DEF Init
<1>3. path \in {"nothing", "socket", "file"} /\ main \in MainStates /\ unsent \in EventLine \cup {NoEvent}
  BY Zenon DEF Init, MainStates
<1>4. Empty \in [Busids -> Ids \cup {NoId}]
  BY DEF Empty
<1>5. pos \in [Subs -> Nat \ {0}]
  BY DEF Init
<1>6. /\ sub \in [Subs -> SubStates]
      /\ initial \in [Subs -> SUBSET Ids]
      /\ missed \in [Subs -> SUBSET Busids]
      /\ view \in [Subs -> [Busids -> Ids \cup {NoId}]]
  BY <1>4, Zenon DEF Init, SubStates
<1>. QED
  BY <1>1, <1>2, <1>3, <1>4, <1>5, <1>6, Zenon DEF Init, TypeOK

\* Devices come and go.
LEMMA HostTypes ==
    ASSUME TypeOK, NEW i \in Ids, Plug(i) \/ Unplug(i)
    PROVE  TypeOK'
<1>1. watch' \in Seq(HotplugEvent)
  BY Hotplugs, Appended DEF TypeOK, Plug, Unplug
<1>2. present' \in SUBSET Ids /\ fresh' \in SUBSET Ids
  BY Zenon DEF TypeOK, Plug, Unplug
<1>. QED
  BY <1>1, <1>2, Zenon DEF TypeOK, Plug, Unplug, pubVars, subVars

\* Connections end.
LEMMA DropTypes ==
    ASSUME TypeOK, NEW S, Drop(S)
    PROVE  /\ sub' \in [Subs -> SubStates]
           /\ pos' \in [Subs -> Nat \ {0}]
           /\ initial' \in [Subs -> SUBSET Ids]
           /\ missed' \in [Subs -> SUBSET Busids]
           /\ view' \in [Subs -> [Busids -> Ids \cup {NoId}]]
<1>1. pos' \in [Subs -> Nat \ {0}]
  BY DEF TypeOK, Drop
<1>2. Empty \in [Busids -> Ids \cup {NoId}]
  BY DEF Empty
<1>. QED
  BY <1>1, <1>2, Zenon DEF TypeOK, Drop, SubStates

\* run_async.
LEMMA MainTypes ==
    ASSUME TypeOK, StartStep \/ Interrupt \/ Terminate
    PROVE  TypeOK'
<1>. USE DEF TypeOK, hostVars, pubVars, subVars
<1>1. CASE Bind \/ StartWatch \/ StartAccepting \/ StartFails
  BY <1>1, Zenon DEF Bind, StartWatch, StartAccepting, StartFails, MainStates
<1>2. CASE ListDevices
  BY <1>2, Zenon DEF ListDevices, MainStates
<1>3. ASSUME NEW i \in Ids, SeedFromList(i) PROVE TypeOK'
  <2>1. log' \in Seq(EventLine) /\ snapshot' \in [Busids -> Ids \cup {NoId}]
    BY <1>3, Lines, Applied, Appended, Zenon DEF SeedFromList
  <2>. QED
    BY <1>3, <2>1, Zenon DEF SeedFromList
<1>4. CASE Interrupt
  BY <1>4, DropTypes, Zenon DEF Interrupt, MainStates
<1>5. CASE Terminate
  BY <1>5, DropTypes, Zenon DEF Terminate, MainStates
<1>. QED
  BY <1>1, <1>2, <1>3, <1>4, <1>5, Zenon DEF StartStep

\* The publisher.
LEMMA PublisherTypes ==
    ASSUME TypeOK, PublisherStep
    PROVE  TypeOK'
<1>1. CASE PollConnected \/ PollDisconnected
  <2>. DEFINE i == Head(watch).id
  <2>1. watch' \in Seq(HotplugEvent) /\ i \in Ids
    BY <1>1, Hotplugs, Popped DEF TypeOK, PollConnected, PollDisconnected
  <2>2. Added(i) \in EventLine /\ Removed(i) \in EventLine
    BY <2>1, Lines
  <2>3. /\ Apply(snapshot, Added(i)) \in [Busids -> Ids \cup {NoId}]
        /\ Apply(snapshot, Removed(i)) \in [Busids -> Ids \cup {NoId}]
    BY <2>2, Applied, Zenon DEF TypeOK
  <2>4. /\ idmap' \in SUBSET Ids /\ unsent' \in EventLine \cup {NoEvent}
        /\ snapshot' \in [Busids -> Ids \cup {NoId}]
    BY <1>1, <2>1, <2>2, <2>3, Zenon DEF TypeOK, PollConnected, PollDisconnected
  <2>. QED
    BY <1>1, <2>1, <2>4, Zenon DEF TypeOK, PollConnected, PollDisconnected, hostVars, subVars
<1>2. CASE Send
  <2>1. log' \in Seq(EventLine)
    BY <1>2 DEF TypeOK, Send
  <2>. QED
    BY <1>2, <2>1, Zenon DEF TypeOK, Send, hostVars, subVars
<1>. QED
  BY <1>1, <1>2, Zenon DEF PublisherStep

\* accept_loop subscribes a connection first, and takes its snapshot second.
LEMMA AcceptSteps ==
    ASSUME NEW s
    PROVE  /\ AcceptStep(s, 1) => pos' = Receiver(s) /\ initial' = initial
           /\ AcceptStep(s, 2) => pos' = pos /\ initial' = SnapshotFor(s)
BY DEF AcceptStep, AcceptOrder

\* accept_loop and serve_subscriber.
LEMMA ConsumerTypes ==
    ASSUME TypeOK, NEW s \in Subs, Subscribe(s) \/ ServeStep(s) \/ Disconnect(s)
    PROVE  TypeOK'
<1>. USE DEF TypeOK, hostVars, pubVars, subVars
<1>1. CASE Subscribe(s)
  <2>1. pos' = Receiver(s) /\ initial' = initial
    BY <1>1, AcceptSteps DEF Subscribe
  <2>2. pos' \in [Subs -> Nat \ {0}]
    BY <2>1 DEF Receiver
  <2>. QED
    BY <1>1, <2>1, <2>2, Zenon DEF Subscribe, SubStates
<1>2. CASE TakeSnapshot(s)
  <2>1. pos' = pos /\ initial' = SnapshotFor(s)
    BY <1>2, AcceptSteps DEF TakeSnapshot
  <2>2. ({snapshot[b] : b \in Busids} \ {NoId}) \in SUBSET Ids
    BY Zenon
  <2>3. initial' \in [Subs -> SUBSET Ids]
    BY <2>1, <2>2, Zenon DEF SnapshotFor
  <2>. QED
    BY <1>2, <2>1, <2>3, Zenon DEF TakeSnapshot, SubStates
<1>3. ASSUME NEW i \in Ids, WriteInitial(s, i) PROVE TypeOK'
  <2>1. view' \in [Subs -> [Busids -> Ids \cup {NoId}]]
    BY <1>3, Lines, Applied, ZenonT(40) DEF WriteInitial
  <2>. QED
    BY <1>3, <2>1, Zenon DEF WriteInitial
<1>4. CASE Receive(s)
  <2>1. pos[s] \in 1..Len(log)
    BY <1>4, HubAssumption DEF Receive, Oldest
  <2>2. log[pos[s]] \in EventLine
    BY <2>1
  <2>3. view' \in [Subs -> [Busids -> Ids \cup {NoId}]]
    BY <1>4, <2>2, Applied, Zenon DEF Receive
  <2>4. pos' \in [Subs -> Nat \ {0}]
    BY <1>4 DEF Receive
  <2>. QED
    BY <1>4, <2>3, <2>4, Zenon DEF Receive
<1>5. CASE Lag(s)
  <2>1. Oldest \in Nat \ {0} /\ Oldest <= Len(log) + 1
    BY HubAssumption DEF Oldest
  <2>2. pos' \in [Subs -> Nat \ {0}]
    BY <1>5, <2>1, Zenon DEF Lag
  <2>3. ASSUME NEW k \in pos[s]..(Oldest - 1) PROVE BusidOf[log[k].id] \in Busids
    <3>1. k \in 1..Len(log)
      BY <2>1, <2>3
    <3>2. log[k] \in EventLine
      BY <3>1
    <3>. QED
      BY <3>2, Lines, Zenon DEF Bus
  <2>4. (missed[s] \cup {BusidOf[log[k].id] : k \in pos[s]..(Oldest - 1)}) \in SUBSET Busids
    <3>. HIDE DEF TypeOK
    <3>1. missed[s] \in SUBSET Busids
      BY Zenon DEF TypeOK
    <3>. QED
      BY <2>3, <3>1
  <2>5. missed' \in [Subs -> SUBSET Busids]
    BY <1>5, <2>4, Zenon DEF Lag
  <2>. QED
    BY <1>5, <2>2, <2>5, Zenon DEF Lag
<1>6. CASE Disconnect(s)
  BY <1>6, DropTypes, Zenon DEF Disconnect
<1>. QED
  BY <1>1, <1>2, <1>3, <1>4, <1>5, <1>6, Zenon DEF ServeStep

\* Every step keeps the types.
LEMMA StepTypes == TypeOK /\ [Next]_vars => TypeOK'
<1>. SUFFICES ASSUME TypeOK, [Next]_vars PROVE TypeOK'
  OBVIOUS
<1>1. CASE UNCHANGED vars
  BY <1>1, Zenon DEF TypeOK, vars
<1>. QED
  BY <1>1, HostTypes, MainTypes, PublisherTypes, ConsumerTypes, Zenon
     DEF Next, HostStep, Stopped

-----------------------------------------------------------------------------
(***************************************************************************)
(* Every line that removes follows one that adds                           *)
(***************************************************************************)
announced == <<idmap, snapshot, unsent, log>>

\* What changes the ids, the snapshot or the log.
LEMMA Publishing ==
    ASSUME [Next]_vars
    PROVE  \/ \E i \in Ids : SeedFromList(i)
           \/ PollConnected \/ PollDisconnected \/ Send
           \/ UNCHANGED announced
<1>1. CASE UNCHANGED vars
  BY <1>1, Zenon DEF vars, announced
<1>2. CASE HostStep
  BY <1>2, Zenon DEF HostStep, Plug, Unplug, pubVars, announced
<1>3. CASE StartStep \/ Interrupt \/ Terminate
  BY <1>3, Zenon DEF StartStep, Bind, StartWatch, ListDevices, StartAccepting, StartFails,
     Interrupt, Terminate, pubVars, announced
<1>4. ASSUME NEW s \in Subs, Subscribe(s) \/ ServeStep(s) \/ Disconnect(s)
      PROVE  UNCHANGED announced
  BY <1>4, Zenon DEF Subscribe, ServeStep, TakeSnapshot, WriteInitial, Receive, Lag, Disconnect,
     pubVars, announced
<1>. QED
  BY <1>1, <1>2, <1>3, <1>4, Zenon DEF Next, PublisherStep, Stopped

\* What was sent stays sent, and so is what is sent now.
LEMMA SendsMore ==
    ASSUME TypeOK, NEW e \in EventLine, log' = Append(log, e)
    PROVE  /\ Sent(e)'
           /\ \A f : Sent(f) => Sent(f)'
<1>1. /\ Len(log) \in Nat /\ Len(log') = Len(log) + 1
      /\ \A k \in 1..Len(log) : log'[k] = log[k]
      /\ log'[Len(log) + 1] = e
  BY Appended DEF TypeOK
<1>2. Sent(e)'
  BY <1>1 DEF Sent
<1>3. ASSUME NEW f, Sent(f) PROVE Sent(f)'
  BY <1>1, <1>3 DEF Sent
<1>. QED
  BY <1>2, <1>3

\* A line that adds, or that removes what was added, may follow.
LEMMA RemovesAdded ==
    ASSUME TypeOK, RemovedWasAdded, NEW e \in EventLine, log' = Append(log, e),
           e.event = "removed" => Sent(Added(e.id))
    PROVE  RemovedWasAdded'
<1>1. /\ Len(log) \in Nat /\ Len(log') = Len(log) + 1
      /\ \A k \in 1..Len(log) : log'[k] = log[k]
      /\ log'[Len(log) + 1] = e
  BY Appended DEF TypeOK
<1>. SUFFICES ASSUME NEW k \in 1..Len(log'), log'[k].event = "removed"
              PROVE  \E j \in 1..(k - 1) : log'[j] = Added(log'[k].id)
  BY DEF RemovedWasAdded, Added
<1>2. CASE k = Len(log) + 1
  <2>1. PICK j \in 1..Len(log) : log[j] = Added(e.id)
    BY <1>1, <1>2 DEF Sent
  <2>. QED
    BY <1>1, <1>2, <2>1
<1>3. CASE k \in 1..Len(log)
  <2>1. PICK j \in 1..(k - 1) : log[j] = Added(log[k].id)
    BY <1>1, <1>3 DEF RemovedWasAdded
  <2>. QED
    BY <1>1, <1>3, <2>1
<1>. QED
  BY <1>1, <1>2, <1>3

\* Every step keeps it so.
LEMMA StepAnnounced ==
    ASSUME TypeOK, StartOK, AnnouncedOK, [Next]_vars
    PROVE  AnnouncedOK'
<1>1. ASSUME NEW i \in Ids, SeedFromList(i) PROVE AnnouncedOK'
  <2>1. Added(i) \in EventLine /\ Added(i).event = "added"
    BY Lines
  <2>2. log' = Append(log, Added(i)) /\ idmap' = idmap \cup {i} /\ unsent' = unsent
    BY <1>1 DEF SeedFromList
  <2>3. Sent(Added(i))' /\ \A f : Sent(f) => Sent(f)'
    BY <2>1, <2>2, SendsMore
  <2>4. RemovedWasAdded'
    BY <2>1, <2>2, RemovesAdded DEF AnnouncedOK
  <2>5. \A j \in idmap' : unsent' = Added(j) \/ Sent(Added(j))'
    BY <2>2, <2>3, Zenon DEF AnnouncedOK
  <2>6. \A j \in Ids : unsent' = Removed(j) => Sent(Added(j))'
    BY <2>2, <2>3, Zenon DEF AnnouncedOK
  <2>. QED
    BY <2>4, <2>5, <2>6 DEF AnnouncedOK, Added, Removed
<1>2. CASE PollConnected \/ PollDisconnected
  <2>. DEFINE i == Head(watch).id
  <2>1. i \in Ids /\ unsent = NoEvent /\ log' = log
    BY <1>2, Popped, Hotplugs DEF PollConnected, PollDisconnected, TypeOK
  <2>2. \A j \in Ids : NoEvent # Added(j) /\ NoEvent # Removed(j)
    BY Lines, NoEventAssumption, ZenonT(40)
  <2>3. \A j \in idmap : Sent(Added(j))
    BY <2>1, <2>2, Zenon DEF AnnouncedOK, TypeOK
  <2>4. \/ idmap' = idmap \cup {i} /\ unsent' = Added(i)
        \/ i \in idmap /\ idmap' = idmap \ {i} /\ unsent' = Removed(i)
        \/ idmap' = idmap /\ unsent' = unsent
    BY <1>2, Zenon DEF PollConnected, PollDisconnected
  <2>5. \A j, k \in Ids : Added(j) # Removed(k) /\ (Removed(j) = Removed(k) => j = k)
    BY DEF Added, Removed
  <2>6. RemovedWasAdded' /\ \A f : Sent(f)' = Sent(f)
    BY <2>1 DEF AnnouncedOK, RemovedWasAdded, Sent, Added
  <2>7. \A j \in idmap' : unsent' = Added(j) \/ Sent(Added(j))'
    BY <2>3, <2>4, <2>6, Zenon
  <2>8. \A j \in Ids : unsent' = Removed(j) => Sent(Added(j))'
    BY <2>1, <2>2, <2>3, <2>4, <2>5, <2>6, Zenon
  <2>. QED
    BY <2>6, <2>7, <2>8 DEF AnnouncedOK, Added, Removed
<1>3. CASE Send
  <2>1. PICK e \in EventLine :
          unsent = e /\ log' = Append(log, e) /\ unsent' = NoEvent /\ idmap' = idmap
    BY <1>3, Zenon DEF Send, TypeOK
  <2>2. Sent(e)' /\ \A f : Sent(f) => Sent(f)'
    BY <2>1, SendsMore
  <2>3. e = IF e.event = "added" THEN Added(e.id) ELSE Removed(e.id)
    BY Lines
  <2>4. e.event = "removed" => e = Removed(e.id) /\ e.id \in Ids
    BY <2>3, Lines
  <2>5. RemovedWasAdded'
    BY <2>1, <2>4, RemovesAdded, Zenon DEF AnnouncedOK
  <2>6. \A j \in Ids : NoEvent # Removed(j)
    BY Lines, NoEventAssumption, Zenon
  <2>7. \A j \in idmap' : Sent(Added(j))'
    BY <2>1, <2>2, Zenon DEF AnnouncedOK
  <2>. QED
    BY <2>1, <2>5, <2>6, <2>7 DEF AnnouncedOK, Added, Removed
<1>4. CASE UNCHANGED announced
  BY <1>4 DEF AnnouncedOK, RemovedWasAdded, Sent, Added, Removed, announced
<1>. QED
  BY <1>1, <1>2, <1>3, <1>4, Publishing, Zenon

-----------------------------------------------------------------------------
(***************************************************************************)
(* The snapshot has what the last event says                               *)
(***************************************************************************)

\* The last event at its busid is the one appended, or is at another busid.
LEMMA LastAppended ==
    ASSUME TypeOK, NEW e \in EventLine, log' = Append(log, e),
           NEW k \in 1..Len(log'), LastAtBus(log, k)'
    PROVE  \/ k = Len(log) + 1 /\ log'[k] = e
           \/ /\ k \in 1..Len(log) /\ log'[k] = log[k]
              /\ LastAtBus(log, k) /\ Bus(log[k]) # Bus(e)
<1>1. /\ Len(log) \in Nat /\ Len(log') = Len(log) + 1
      /\ \A m \in 1..Len(log) : log'[m] = log[m]
      /\ log'[Len(log) + 1] = e
  BY Appended DEF TypeOK
<1>2. CASE k \in 1..Len(log)
  <2>1. Bus(log'[Len(log) + 1]) # Bus(log'[k])
    BY <1>1, <1>2 DEF LastAtBus, Bus
  <2>2. \A m \in (k + 1)..Len(log) : Bus(log'[m]) # Bus(log'[k]) /\ log'[m] = log[m]
    BY <1>1, <1>2 DEF LastAtBus, Bus
  <2>3. LastAtBus(log, k)
    BY <1>1, <1>2, <2>2, Zenon DEF LastAtBus
  <2>. QED
    BY <1>1, <1>2, <2>1, <2>3, Zenon
<1>. QED
  BY <1>1, <1>2

\* A line that is noted in the snapshot is the last.
LEMMA LastNoted ==
    ASSUME TypeOK, LastEventOK, NEW e \in EventLine, unsent = NoEvent,
           snapshot' = Apply(snapshot, e),
           \/ log' = Append(log, e) /\ unsent' = NoEvent
           \/ log' = log /\ unsent' = e
    PROVE  LastEventOK'
<1>1. /\ snapshot'[Bus(e)] = Says(e)
      /\ \A b \in Busids : b # Bus(e) => snapshot'[b] = snapshot[b]
      /\ e # NoEvent
  BY Applied, NoEventAssumption, Zenon DEF TypeOK
<1>2. \A k \in 1..Len(log) : LastAtBus(log, k) => snapshot[Bus(log[k])] = Says(log[k])
  BY Zenon DEF LastEventOK, Pending
<1>3. \A k \in 1..Len(log) : Bus(log[k]) \in Busids
  BY Lines DEF TypeOK
<1>4. CASE log' = Append(log, e) /\ unsent' = NoEvent
  <2>1. \A b \in Busids : ~Pending(b)'
    BY <1>4, Zenon DEF Pending
  <2>2. ASSUME NEW k \in 1..Len(log'), LastAtBus(log, k)'
        PROVE  snapshot'[Bus(log'[k])] = Says(log'[k])
    <3>1. \/ k = Len(log) + 1 /\ log'[k] = e
          \/ /\ k \in 1..Len(log) /\ log'[k] = log[k]
             /\ LastAtBus(log, k) /\ Bus(log[k]) # Bus(e)
      BY <1>4, <2>2, LastAppended, Zenon
    <3>. QED
      BY <1>1, <1>2, <1>3, <3>1, Zenon
  <2>. QED
    BY <2>1, <2>2, Zenon DEF LastEventOK, Bus, Says
<1>5. CASE log' = log /\ unsent' = e
  <2>1. ASSUME NEW b \in Busids, Pending(b)' PROVE snapshot'[b] = Says(unsent)'
    BY <1>1, <1>5, <2>1 DEF Pending, Bus, Says
  <2>2. ASSUME NEW k \in 1..Len(log), LastAtBus(log, k)', ~Pending(Bus(log[k]))'
        PROVE  snapshot'[Bus(log[k])] = Says(log[k])
    <3>1. LastAtBus(log, k)
      BY <1>5, <2>2 DEF LastAtBus, Bus
    <3>2. Bus(log[k]) # Bus(e)
      BY <1>1, <1>5, <2>2 DEF Pending, Bus
    <3>. QED
      BY <1>1, <1>2, <1>3, <3>1, <3>2, Zenon
  <2>. QED
    BY <1>5, <2>1, <2>2 DEF LastEventOK, Bus, Says
<1>. QED
  BY <1>4, <1>5, Zenon

\* Every step keeps it so.
LEMMA StepLastEvent ==
    ASSUME TypeOK, StartOK, LastEventOK, [Next]_vars
    PROVE  LastEventOK'
<1>1. ASSUME NEW i \in Ids, SeedFromList(i) PROVE LastEventOK'
  <2>1. Added(i) \in EventLine /\ unsent = NoEvent
    BY <1>1, Lines, Zenon DEF SeedFromList, StartOK
  <2>. QED
    BY <1>1, <2>1, LastNoted, Zenon DEF SeedFromList
<1>2. CASE PollConnected \/ PollDisconnected
  <2>. DEFINE i == Head(watch).id
  <2>1. PICK j \in Ids : j = i
    BY <1>2, Popped, Hotplugs DEF PollConnected, PollDisconnected, TypeOK
  <2>2. Added(j) \in EventLine /\ Removed(j) \in EventLine
    BY Lines
  <2>3. unsent = NoEvent /\ log' = log
    BY <1>2, Zenon DEF PollConnected, PollDisconnected
  <2>4. \/ \E e \in EventLine : snapshot' = Apply(snapshot, e) /\ unsent' = e
        \/ snapshot' = snapshot /\ unsent' = unsent
    BY <1>2, <2>1, <2>2, Zenon DEF PollConnected, PollDisconnected
  <2>5. CASE \E e \in EventLine : snapshot' = Apply(snapshot, e) /\ unsent' = e
    BY <2>3, <2>5, LastNoted, Zenon
  <2>6. CASE snapshot' = snapshot /\ unsent' = unsent
    BY <2>3, <2>6 DEF LastEventOK, LastAtBus, Pending, Bus, Says
  <2>. QED
    BY <2>4, <2>5, <2>6, Zenon
<1>3. CASE Send
  <2>1. PICK e \in EventLine :
          unsent = e /\ log' = Append(log, e) /\ unsent' = NoEvent /\ snapshot' = snapshot
    BY <1>3, Zenon DEF Send, TypeOK
  <2>2. \A b \in Busids : ~Pending(b)'
    BY <2>1, Zenon DEF Pending
  <2>3. snapshot[Bus(e)] = Says(e) /\ \A b : Pending(b) <=> Bus(e) = b
    BY <2>1, Lines, NoEventAssumption, Zenon DEF LastEventOK, Pending
  <2>4. ASSUME NEW k \in 1..Len(log'), LastAtBus(log, k)'
        PROVE  snapshot[Bus(log'[k])] = Says(log'[k])
    <3>1. \/ k = Len(log) + 1 /\ log'[k] = e
          \/ /\ k \in 1..Len(log) /\ log'[k] = log[k]
             /\ LastAtBus(log, k) /\ Bus(log[k]) # Bus(e)
      BY <2>1, <2>4, LastAppended, Zenon
    <3>. QED
      BY <2>3, <3>1, Zenon DEF LastEventOK
  <2>. QED
    BY <2>1, <2>2, <2>4, Zenon DEF LastEventOK, Bus, Says
<1>4. CASE UNCHANGED announced
  BY <1>4 DEF LastEventOK, LastAtBus, Pending, Bus, Says, announced
<1>. QED
  BY <1>1, <1>2, <1>3, <1>4, Publishing, Zenon

-----------------------------------------------------------------------------
(***************************************************************************)
(* The consumers know the snapshot, or will                                *)
(***************************************************************************)

\* What a consumer has been told, but for the events to come.
Knows(s, b) ==
    \/ Pending(b)
    \/ \E k \in pos[s]..Len(log) : Bus(log[k]) = b
    \/ Told(s, b, snapshot[b])

\* A consumer of which nothing changes, nor of what is published.
LEMMA ConsumerRests ==
    ASSUME NEW s \in Subs, ConsumerOK(s), UNCHANGED announced,
           /\ sub'[s] = sub[s] /\ pos'[s] = pos[s] /\ initial'[s] = initial[s]
           /\ missed'[s] = missed[s] /\ view'[s] = view[s]
    PROVE  ConsumerOK(s)'
<1>1. \A b \in Busids : Knows(s, b) => Knows(s, b)'
  BY DEF Knows, Pending, Told, Bus, announced
<1>2. /\ sub'[s] \in {"none", "subscribed"} => view'[s] = Empty
      /\ sub'[s] \in {"subscribed", "live"} => pos'[s] <= Len(log') + 1
  BY DEF ConsumerOK, announced
<1>3. sub'[s] = "live" => \A b \in Busids \ missed'[s] : Knows(s, b)'
  BY <1>1, Zenon DEF ConsumerOK, Knows
<1>. QED
  BY <1>2, <1>3 DEF ConsumerOK, Knows, Empty

\* A connection that has ended is sent nothing.
LEMMA ConsumerDrops ==
    ASSUME NEW S, Drop(S), UNCHANGED announced, NEW s \in Subs, ConsumerOK(s)
    PROVE  ConsumerOK(s)'
<1>1. CASE s \in S
  <2>1. sub'[s] = "gone"
    BY <1>1, Zenon DEF Drop
  <2>. QED
    BY <2>1 DEF ConsumerOK
<1>2. CASE s \notin S
  <2>1. /\ sub'[s] = sub[s] /\ pos'[s] = pos[s] /\ initial'[s] = initial[s]
        /\ missed'[s] = missed[s] /\ view'[s] = view[s]
    BY <1>2, Zenon DEF Drop
  <2>. QED
    BY <2>1, ConsumerRests, Zenon
<1>. QED
  BY <1>1, <1>2, Zenon

\* What the publisher does is not lost on a consumer.
LEMMA ConsumerHears ==
    ASSUME TypeOK, StartOK, UNCHANGED subVars, NEW s \in Subs, ConsumerOK(s),
           \/ \E i \in Ids : SeedFromList(i)
           \/ PollConnected \/ PollDisconnected \/ Send
    PROVE  ConsumerOK(s)'
<1>0. UNCHANGED <<sub, pos, initial, missed, view>>
  BY Zenon DEF subVars
<1>1. CASE \E i \in Ids : SeedFromList(i)
  <2>1. sub[s] = "none"
    BY <1>1, Zenon DEF SeedFromList, StartOK, Accepted
  <2>. QED
    BY <1>0, <2>1 DEF ConsumerOK, Empty
<1>2. CASE PollConnected \/ PollDisconnected
  <2>. DEFINE i == Head(watch).id
  <2>1. PICK j \in Ids : j = i
    BY <1>2, Popped, Hotplugs, SMTT(30) DEF PollConnected, PollDisconnected, TypeOK
  <2>2. Added(j) \in EventLine /\ Removed(j) \in EventLine
    BY Lines
  <2>3. unsent = NoEvent /\ log' = log
    BY <1>2, Zenon DEF PollConnected, PollDisconnected
  <2>4. \/ \E e \in EventLine : snapshot' = Apply(snapshot, e) /\ unsent' = e
        \/ snapshot' = snapshot /\ unsent' = unsent /\ idmap' = idmap
    BY <1>2, <2>1, <2>2, Zenon DEF PollConnected, PollDisconnected
  <2>5. ASSUME NEW e \in EventLine, snapshot' = Apply(snapshot, e), unsent' = e
        PROVE  ConsumerOK(s)'
    <3>1. /\ \A b \in Busids : b # Bus(e) => snapshot'[b] = snapshot[b]
          /\ e # NoEvent
      BY <2>5, Applied, NoEventAssumption, Zenon DEF TypeOK
    <3>2. ASSUME NEW b \in Busids, Knows(s, b) PROVE Knows(s, b)'
      <4>1. CASE b = Bus(e)
        BY <2>5, <3>1, <4>1 DEF Knows, Pending, Bus
      <4>2. CASE b # Bus(e)
        <5>1. ~Pending(b) /\ snapshot'[b] = snapshot[b]
          BY <2>3, <3>1, <4>2, Zenon DEF Pending
        <5>2. (\E k \in pos[s]..Len(log) : Bus(log[k]) = b) \/ Told(s, b, snapshot[b])
          BY <3>2, <5>1, Zenon DEF Knows
        <5>. QED
          BY <1>0, <2>3, <5>1, <5>2 DEF Knows, Told, Bus
      <4>. QED
        BY <4>1, <4>2, Zenon
    <3>. QED
      BY <1>0, <2>3, <3>2 DEF ConsumerOK, Knows, Empty
  <2>6. CASE snapshot' = snapshot /\ unsent' = unsent /\ idmap' = idmap
    BY <1>0, <2>3, <2>6, ConsumerRests, Zenon DEF announced
  <2>. QED
    BY <2>4, <2>5, <2>6, Zenon
<1>3. CASE Send
  <2>1. PICK e \in EventLine :
          unsent = e /\ log' = Append(log, e) /\ unsent' = NoEvent /\ snapshot' = snapshot
    BY <1>3, Zenon DEF Send, TypeOK
  <2>2. /\ Len(log) \in Nat /\ Len(log') = Len(log) + 1
        /\ \A k \in 1..Len(log) : log'[k] = log[k]
        /\ log'[Len(log) + 1] = e
    BY <2>1, Appended DEF TypeOK
  <2>3. pos[s] \in Nat \ {0}
    BY Zenon DEF TypeOK
  <2>4. ASSUME NEW b \in Busids, Knows(s, b), sub[s] = "live" PROVE Knows(s, b)'
    <3>1. CASE Pending(b)
      <4>1. Bus(e) = b /\ pos[s] <= Len(log) + 1
        BY <2>1, <2>4, <3>1, Zenon DEF Pending, ConsumerOK
      <4>2. Len(log) + 1 \in pos[s]..Len(log')
        BY <2>2, <2>3, <4>1
      <4>. QED
        BY <1>0, <2>2, <4>1, <4>2 DEF Knows, Bus
    <3>2. ASSUME NEW k \in pos[s]..Len(log), Bus(log[k]) = b PROVE Knows(s, b)'
      <4>1. k \in pos[s]..Len(log') /\ log'[k] = log[k]
        BY <2>2, <2>3, <3>2
      <4>. QED
        BY <1>0, <3>2, <4>1 DEF Knows, Bus
    <3>3. CASE Told(s, b, snapshot[b])
      BY <1>0, <2>1, <3>3 DEF Knows, Told
    <3>. QED
      BY <2>4, <3>1, <3>2, <3>3, Zenon DEF Knows
  <2>5. sub[s] \in {"subscribed", "live"} => pos[s] <= Len(log') + 1
    BY <2>2, <2>3 DEF ConsumerOK
  <2>. QED
    BY <1>0, <2>4, <2>5 DEF ConsumerOK, Knows, Empty
<1>. QED
  BY <1>1, <1>2, <1>3, Zenon

\* accept_loop subscribes s.
LEMMA ConsumerSubscribes ==
    ASSUME TypeOK, NEW s \in Subs, ConsumerOK(s), Subscribe(s)
    PROVE  ConsumerOK(s)'
<1>1. pos' = Receiver(s)
  BY AcceptSteps DEF Subscribe
<1>2. pos'[s] = Len(log) + 1 /\ sub'[s] = "subscribed" /\ log' = log /\ view'[s] = view[s]
  BY <1>1 DEF TypeOK, Subscribe, Receiver, pubVars
<1>3. view[s] = Empty
  BY Zenon DEF Subscribe, ConsumerOK
<1>4. Len(log) + 1 <= Len(log) + 1
  BY DEF TypeOK
<1>. QED
  BY <1>2, <1>3, <1>4 DEF ConsumerOK, Empty

\* The snapshot taken for s has the device at b, and no other for b.
LEMMA ConsumerStarts ==
    ASSUME TypeOK, SnapshotOK, NEW s \in Subs, ConsumerOK(s), TakeSnapshot(s)
    PROVE  ConsumerOK(s)'
<1>1. pos' = pos /\ initial' = SnapshotFor(s)
  BY AcceptSteps DEF TakeSnapshot
<1>2. initial'[s] = {snapshot[b] : b \in Busids} \ {NoId}
  BY <1>1 DEF SnapshotFor, TypeOK
<1>3. sub'[s] = "live" /\ log' = log /\ view' = view /\ snapshot' = snapshot
  BY Zenon DEF TypeOK, TakeSnapshot, pubVars
<1>4. view[s] = Empty /\ pos[s] <= Len(log) + 1
  BY Zenon DEF TakeSnapshot, ConsumerOK
<1>5. ASSUME NEW b \in Busids PROVE Told(s, b, snapshot[b])'
  <2>1. ASSUME NEW i \in initial'[s], BusidOf[i] = b PROVE i = snapshot[b]
    <3>1. PICK c \in Busids : i = snapshot[c] /\ i # NoId
      BY <1>2, Zenon
    <3>. QED
      BY <2>1, <3>1, Zenon DEF SnapshotOK
  <2>2. ASSUME ~ \E i \in initial'[s] : BusidOf[i] = b PROVE view'[s][b] = snapshot[b]
    <3>1. snapshot[b] = NoId
      BY <1>2, <2>2, Zenon DEF SnapshotOK
    <3>2. view'[s][b] = NoId
      BY <1>3, <1>4, Zenon DEF Empty
    <3>. QED
      BY <3>1, <3>2, Zenon
  <2>. QED
    BY <1>3, <2>1, <2>2 DEF Told
<1>. QED
  BY <1>1, <1>3, <1>4, <1>5 DEF ConsumerOK

\* s is sent a device of its snapshot.
LEMMA ConsumerIsTold ==
    ASSUME TypeOK, NEW s \in Subs, ConsumerOK(s), NEW i \in Ids, WriteInitial(s, i)
    PROVE  ConsumerOK(s)'
<1>0. /\ sub[s] = "live" /\ i \in initial[s]
      /\ UNCHANGED <<sub, pos, missed, log, snapshot, unsent>>
  BY Zenon DEF WriteInitial, pubVars
<1>1. initial'[s] = initial[s] \ {i} /\ view'[s] = Apply(view[s], Added(i))
  BY Zenon DEF WriteInitial, TypeOK
<1>2. /\ view'[s][BusidOf[i]] = i
      /\ \A b \in Busids : b # BusidOf[i] => view'[s][b] = view[s][b]
  <2>1. /\ Added(i) \in EventLine /\ Says(Added(i)) = i /\ Bus(Added(i)) = BusidOf[i]
        /\ view[s] \in [Busids -> Ids \cup {NoId}]
    BY Lines, Zenon DEF TypeOK
  <2>. QED
    BY <1>1, <2>1, Applied
<1>3. ASSUME NEW b \in Busids, NEW x, Told(s, b, x)
      PROVE  IF \E j \in initial'[s] : BusidOf[j] = b
             THEN \A j \in initial'[s] : BusidOf[j] = b => j = x
             ELSE view'[s][b] = x
  <2>1. CASE b = BusidOf[i]
    <3>1. \A j \in initial[s] : BusidOf[j] = b => j = x
      BY <1>0, <1>3, <2>1, Zenon DEF Told
    <3>2. x = i
      BY <1>0, <2>1, <3>1, Zenon
    <3>3. ~ \E j \in initial'[s] : BusidOf[j] = b
      BY <1>1, <3>1, <3>2, Zenon
    <3>. QED
      BY <1>2, <2>1, <3>2, <3>3, Zenon
  <2>2. CASE b # BusidOf[i]
    <3>1. \A j : j \in initial'[s] /\ BusidOf[j] = b <=> j \in initial[s] /\ BusidOf[j] = b
      BY <1>1, <2>2, Zenon
    <3>2. view'[s][b] = view[s][b]
      BY <1>2, <2>2, Zenon
    <3>. QED
      BY <1>3, <3>1, <3>2, Zenon DEF Told
  <2>. QED
    BY <2>1, <2>2, Zenon
<1>4. ASSUME NEW b \in Busids, Knows(s, b) PROVE Knows(s, b)'
  <2>1. CASE Told(s, b, snapshot[b])
    BY <1>0, <1>3, <2>1, SMTT(30) DEF Knows, Told
  <2>2. CASE ~Told(s, b, snapshot[b])
    BY <1>0, <1>4, <2>2 DEF Knows, Pending, Bus
  <2>. QED
    BY <2>1, <2>2, Zenon
<1>. QED
  BY <1>0, <1>4 DEF ConsumerOK, Knows

\* s receives the next event.
LEMMA ConsumerReceives ==
    ASSUME TypeOK, LastEventOK, NEW s \in Subs, ConsumerOK(s), Receive(s)
    PROVE  ConsumerOK(s)'
<1>0. /\ sub[s] = "live" /\ initial[s] = {}
      /\ UNCHANGED <<sub, initial, log, snapshot, unsent>>
  BY Zenon DEF Receive, pubVars
<1>1. PICK p \in 1..Len(log) : p = pos[s] /\ Len(log) \in Nat /\ log[p] \in EventLine
  <2>1. pos[s] \in 1..Len(log) /\ Len(log) \in Nat
    BY HubAssumption DEF Receive, Oldest, TypeOK
  <2>. QED
    BY <2>1 DEF TypeOK
<1>2. /\ pos'[s] = p + 1
      /\ missed'[s] = missed[s] \ {Bus(log[p])}
      /\ view'[s] = Apply(view[s], log[p])
  BY <1>1, Zenon DEF Receive, TypeOK, Bus
<1>3. /\ view'[s][Bus(log[p])] = Says(log[p])
      /\ \A b \in Busids : b # Bus(log[p]) => view'[s][b] = view[s][b]
  <2>1. view[s] \in [Busids -> Ids \cup {NoId}]
    BY Zenon DEF TypeOK
  <2>. QED
    BY <1>1, <1>2, <2>1, Applied
<1>c. PICK c \in Busids : c = Bus(log[p])
  BY <1>1, Lines
<1>4. ASSUME NEW b \in Busids, b # c, Knows(s, b) PROVE Knows(s, b)'
  <2>1. CASE Pending(b)
    BY <1>0, <2>1 DEF Knows, Pending, Bus
  <2>2. ASSUME NEW k \in p..Len(log), Bus(log[k]) = b PROVE Knows(s, b)'
    <3>1. k \in (p + 1)..Len(log)
      BY <1>1, <1>c, <1>4, <2>2
    <3>. QED
      BY <1>0, <1>2, <2>2, <3>1 DEF Knows, Bus
  <2>3. CASE Told(s, b, snapshot[b])
    BY <1>0, <1>3, <1>c, <1>4, <2>3 DEF Knows, Told
  <2>. QED
    BY <1>1, <1>4, <2>1, <2>2, <2>3, Zenon DEF Knows
<1>5. Knows(s, c)'
  <2>1. CASE LastAtBus(log, p) /\ ~Pending(c)
    <3>1. snapshot[c] = Says(log[p])
      BY <1>1, <1>c, <2>1, Zenon DEF LastEventOK
    <3>. QED
      BY <1>0, <1>c, <1>3, <3>1 DEF Knows, Told
  <2>2. CASE Pending(c)
    BY <1>0, <2>2 DEF Knows, Pending, Bus
  <2>3. CASE ~LastAtBus(log, p)
    <3>1. PICK k \in (p + 1)..Len(log) : Bus(log[k]) = c
      BY <1>c, <2>3, Zenon DEF LastAtBus
    <3>. QED
      BY <1>0, <1>2, <3>1 DEF Knows, Bus
  <2>. QED
    BY <2>1, <2>2, <2>3, Zenon
<1>6. pos'[s] <= Len(log) + 1
  BY <1>1, <1>2
<1>7. ASSUME NEW b \in Busids \ missed'[s] PROVE Knows(s, b)'
  BY <1>0, <1>2, <1>c, <1>4, <1>5, <1>7, Zenon DEF ConsumerOK, Knows
<1>. QED
  BY <1>0, <1>6, <1>7 DEF ConsumerOK, Knows

\* s skips what the channel no longer has.
LEMMA ConsumerLags ==
    ASSUME TypeOK, NEW s \in Subs, ConsumerOK(s), Lag(s)
    PROVE  ConsumerOK(s)'
<1>0. /\ sub[s] = "live"
      /\ UNCHANGED <<sub, initial, view, log, snapshot, unsent>>
  BY Zenon DEF Lag, pubVars
<1>1. Len(log) \in Nat /\ Oldest \in Nat /\ Oldest <= Len(log) + 1 /\ pos[s] \in Nat
  BY HubAssumption DEF Oldest, TypeOK
<1>2. pos[s] < Oldest /\ pos'[s] = Oldest
  BY Zenon DEF Lag, TypeOK
<1>3. missed'[s] = missed[s] \cup {BusidOf[log[k].id] : k \in pos[s]..(Oldest - 1)}
  BY Zenon DEF Lag, TypeOK
<1>4. ASSUME NEW b \in Busids \ missed'[s] PROVE Knows(s, b)'
  <2>1. b \notin missed[s] /\ \A k \in pos[s]..(Oldest - 1) : Bus(log[k]) # b
    BY <1>3, <1>4, Zenon DEF Bus
  <2>2. Knows(s, b)
    BY <1>0, <2>1, Zenon DEF ConsumerOK, Knows
  <2>3. ASSUME NEW k \in pos[s]..Len(log), Bus(log[k]) = b PROVE Knows(s, b)'
    <3>1. k \in Oldest..Len(log)
      BY <1>1, <1>2, <2>1, <2>3
    <3>. QED
      BY <1>0, <1>2, <2>3, <3>1 DEF Knows, Bus
  <2>4. CASE Pending(b) \/ Told(s, b, snapshot[b])
    BY <1>0, <2>4 DEF Knows, Pending, Told, Bus
  <2>. QED
    BY <2>2, <2>3, <2>4, Zenon DEF Knows
<1>. QED
  BY <1>0, <1>1, <1>2, <1>4, SMTT(30) DEF ConsumerOK, Knows

\* A step of one consumer is nothing to another.
LEMMA OthersRest ==
    ASSUME TypeOK, NEW s \in Subs, Subscribe(s) \/ ServeStep(s), NEW t \in Subs, t # s
    PROVE  /\ sub'[t] = sub[t] /\ pos'[t] = pos[t] /\ initial'[t] = initial[t]
           /\ missed'[t] = missed[t] /\ view'[t] = view[t]
           /\ UNCHANGED announced
<1>1. CASE Subscribe(s)
  <2>1. pos' = Receiver(s) /\ initial' = initial
    BY <1>1, AcceptSteps DEF Subscribe
  <2>. QED
    BY <1>1, <2>1, Zenon DEF Subscribe, Receiver, TypeOK, pubVars, announced
<1>2. CASE TakeSnapshot(s)
  <2>1. pos' = pos /\ initial' = SnapshotFor(s)
    BY <1>2, AcceptSteps DEF TakeSnapshot
  <2>. QED
    BY <1>2, <2>1, Zenon DEF TakeSnapshot, SnapshotFor, TypeOK, pubVars, announced
<1>3. ASSUME NEW i \in Ids, WriteInitial(s, i)
      PROVE  /\ sub'[t] = sub[t] /\ pos'[t] = pos[t] /\ initial'[t] = initial[t]
             /\ missed'[t] = missed[t] /\ view'[t] = view[t]
             /\ UNCHANGED announced
  BY <1>3, Zenon DEF WriteInitial, TypeOK, pubVars, announced
<1>4. CASE Receive(s)
  BY <1>4, Zenon DEF Receive, TypeOK, pubVars, announced
<1>5. CASE Lag(s)
  BY <1>5, Zenon DEF Lag, TypeOK, pubVars, announced
<1>. QED
  BY <1>1, <1>2, <1>3, <1>4, <1>5, Zenon DEF ServeStep

\* Every step keeps it so.
LEMMA StepConsumers ==
    ASSUME TypeOK, StartOK, SnapshotOK, LastEventOK, [Next]_vars,
           NEW t \in Subs, ConsumerOK(t)
    PROVE  ConsumerOK(t)'
<1>1. CASE UNCHANGED <<announced, subVars>>
  BY <1>1, ConsumerRests, Zenon DEF subVars
<1>2. CASE \/ \E i \in Ids : SeedFromList(i)
           \/ PollConnected \/ PollDisconnected \/ Send
  <2>1. UNCHANGED subVars
    BY <1>2, Zenon DEF SeedFromList, PollConnected, PollDisconnected, Send
  <2>. QED
    BY <1>2, <2>1, ConsumerHears, Zenon
<1>3. CASE Interrupt \/ Terminate \/ \E s \in Subs : Disconnect(s)
  <2>1. UNCHANGED announced /\ \E S : Drop(S)
    BY <1>3, Zenon DEF Interrupt, Terminate, Disconnect, pubVars, announced
  <2>. QED
    BY <2>1, ConsumerDrops, Zenon
<1>4. ASSUME NEW s \in Subs, Subscribe(s) \/ ServeStep(s) PROVE ConsumerOK(t)'
  <2>1. CASE t # s
    BY <1>4, <2>1, OthersRest, ConsumerRests, Zenon
  <2>2. CASE t = s
    BY <1>4, <2>2, ConsumerSubscribes, ConsumerStarts, ConsumerIsTold, ConsumerReceives,
       ConsumerLags, Zenon DEF ServeStep
  <2>. QED
    BY <2>1, <2>2, Zenon
<1>5. CASE UNCHANGED vars \/ HostStep
  BY <1>1, <1>5, Zenon DEF vars, HostStep, Plug, Unplug, pubVars, subVars, announced
<1>6. CASE Bind \/ StartWatch \/ ListDevices \/ StartAccepting \/ StartFails
  BY <1>1, <1>6, Zenon DEF Bind, StartWatch, ListDevices, StartAccepting, StartFails,
     pubVars, subVars, announced
<1>. QED
  BY <1>2, <1>3, <1>4, <1>5, <1>6, Zenon DEF Next, StartStep, PublisherStep, Stopped

-----------------------------------------------------------------------------
(***************************************************************************)
(* run_async starts with nothing, and a busid has one device               *)
(***************************************************************************)

\* Every step of run_async is taken in order.
LEMMA StepStart ==
    ASSUME StartOK, [Next]_vars
    PROVE  StartOK'
<1>. USE DEF StartOK, Accepted, hostVars, pubVars, subVars
<1>1. CASE UNCHANGED vars
  BY <1>1, Zenon DEF vars
<1>2. ASSUME NEW i \in Ids, Plug(i) \/ Unplug(i) PROVE StartOK'
  BY <1>2, Zenon DEF Plug, Unplug, Watched
<1>3. CASE Bind \/ StartWatch \/ ListDevices \/ StartAccepting \/ StartFails
  BY <1>3, Zenon DEF Bind, StartWatch, ListDevices, StartAccepting, StartFails
<1>4. ASSUME NEW i \in Ids, SeedFromList(i) PROVE StartOK'
  BY <1>4, Zenon DEF SeedFromList
<1>5. CASE Interrupt \/ Terminate
  BY <1>5, Zenon DEF Interrupt, Terminate
<1>6. CASE PublisherStep
  BY <1>6, Zenon DEF PublisherStep, PollConnected, PollDisconnected, Send
<1>7. ASSUME NEW s \in Subs, Subscribe(s) \/ ServeStep(s) \/ Disconnect(s) PROVE StartOK'
  <2>1. main' = main /\ listing' = listing
    BY <1>7, Zenon DEF Subscribe, ServeStep, TakeSnapshot, WriteInitial, Receive, Lag, Disconnect
  <2>2. main \notin {"bind", "watch", "list", "seed"}
    <3>1. CASE Subscribe(s)
      BY <3>1, Zenon DEF Subscribe
    <3>2. CASE ServeStep(s) \/ Disconnect(s)
      <4>1. sub[s] # "none"
        BY <3>2, Zenon DEF ServeStep, TakeSnapshot, WriteInitial, Receive, Lag, Disconnect
      <4>. QED
        BY <4>1, Zenon
    <3>. QED
      BY <1>7, <3>1, <3>2, Zenon
  <2>. QED
    BY <2>1, <2>2, Zenon
<1>. QED
  BY <1>1, <1>2, <1>3, <1>4, <1>5, <1>6, <1>7, Zenon DEF Next, HostStep, StartStep, Stopped

\* Only devices that come or go change what is attached; only those and the
\* publisher change the queue, which starts empty.
LEMMA Watching ==
    ASSUME StartOK, [Next]_vars
    PROVE  \/ \E i \in Ids : Plug(i) \/ Unplug(i)
           \/ PollConnected \/ PollDisconnected
           \/ UNCHANGED <<present, fresh, watch>> /\ (Watched' => Watched \/ watch = <<>>)
<1>1. CASE UNCHANGED vars
  BY <1>1, Zenon DEF vars, Watched
<1>2. CASE StartStep \/ Interrupt \/ Terminate
  BY <1>2, Zenon DEF StartStep, Bind, StartWatch, ListDevices, SeedFromList, StartAccepting,
     StartFails, Interrupt, Terminate, hostVars, Watched, StartOK
<1>3. CASE Send
  BY <1>3, Zenon DEF Send, hostVars, Watched
<1>4. ASSUME NEW s \in Subs, Subscribe(s) \/ ServeStep(s) \/ Disconnect(s)
      PROVE  UNCHANGED <<present, fresh, watch, main>>
  BY <1>4, Zenon DEF Subscribe, ServeStep, TakeSnapshot, WriteInitial, Receive, Lag, Disconnect,
     hostVars
<1>. QED
  BY <1>1, <1>2, <1>3, <1>4, Zenon DEF Next, HostStep, PublisherStep, Stopped, Watched

\* A busid has one device at a time, whose id is new.
LEMMA StepAttached ==
    ASSUME StartOK, Attached, [Next]_vars
    PROVE  Attached'
<1>1. ASSUME NEW i \in Ids, Plug(i) PROVE Attached'
  BY <1>1, Zenon DEF Plug, Attached
<1>2. ASSUME NEW i \in Ids, Unplug(i) PROVE Attached'
  BY <1>2, Zenon DEF Unplug, Attached
<1>3. CASE PollConnected \/ PollDisconnected
  BY <1>3, Zenon DEF PollConnected, PollDisconnected, hostVars, Attached
<1>. QED
  BY <1>1, <1>2, <1>3, Watching, Zenon DEF Attached

-----------------------------------------------------------------------------
(***************************************************************************)
(* The queue                                                               *)
(***************************************************************************)

\* One more hotplug event.
LEMMA Enqueued ==
    ASSUME TypeOK, NEW e \in HotplugEvent, watch' = Append(watch, e)
    PROVE  /\ Len(watch) \in Nat /\ Len(watch') = Len(watch) + 1
           /\ \A k \in 1..Len(watch) : watch'[k] = watch[k]
           /\ watch'[Len(watch) + 1] = e
           /\ Queued(e)'
           /\ \A f : Queued(f) => Queued(f)'
           /\ \A f : Queued(f)' => f = e \/ Queued(f)
<1>1. /\ Len(watch) \in Nat /\ Len(watch') = Len(watch) + 1
      /\ \A k \in 1..Len(watch) : watch'[k] = watch[k]
      /\ watch'[Len(watch) + 1] = e
  BY Appended DEF TypeOK
<1>2. Queued(e)'
  BY <1>1 DEF Queued
<1>3. ASSUME NEW f, Queued(f) PROVE Queued(f)'
  BY <1>1, <1>3 DEF Queued
<1>4. ASSUME NEW f, Queued(f)' PROVE f = e \/ Queued(f)
  BY <1>1, <1>4 DEF Queued
<1>. QED
  BY <1>1, <1>2, <1>3, <1>4, Zenon

\* The last event at its busid is the one appended, or is at another busid.
LEMMA LastEnqueued ==
    ASSUME TypeOK, NEW e \in HotplugEvent, watch' = Append(watch, e),
           NEW k \in 1..Len(watch'), LastAtBus(watch, k)'
    PROVE  \/ k = Len(watch) + 1 /\ watch'[k] = e
           \/ /\ k \in 1..Len(watch) /\ watch'[k] = watch[k]
              /\ LastAtBus(watch, k) /\ Bus(watch[k]) # Bus(e)
<1>1. /\ Len(watch) \in Nat /\ Len(watch') = Len(watch) + 1
      /\ \A m \in 1..Len(watch) : watch'[m] = watch[m]
      /\ watch'[Len(watch) + 1] = e
  BY Enqueued
<1>2. CASE k \in 1..Len(watch)
  <2>1. Bus(watch'[Len(watch) + 1]) # Bus(watch'[k])
    BY <1>1, <1>2 DEF LastAtBus, Bus
  <2>2. \A m \in (k + 1)..Len(watch) : Bus(watch'[m]) # Bus(watch'[k]) /\ watch'[m] = watch[m]
    BY <1>1, <1>2 DEF LastAtBus, Bus
  <2>3. LastAtBus(watch, k)
    BY <1>1, <1>2, <2>2, Zenon DEF LastAtBus
  <2>. QED
    BY <1>1, <1>2, <2>1, <2>3, Zenon
<1>. QED
  BY <1>1, <1>2

\* A device arrives.
LEMMA QueuePlugs ==
    ASSUME TypeOK, Attached, QueueOK, Watched, NEW i \in Ids, Plug(i)
    PROVE  QueueOK'
<1>1. /\ i \in fresh /\ present' = present \cup {i} /\ fresh' = fresh \ {i}
      /\ \A j \in present : BusidOf[j] # BusidOf[i]
      /\ watch' = Append(watch, Connected(i))
  BY Zenon DEF Plug
<1>2. Connected(i) \in HotplugEvent /\ Connected(i).id = i /\ Connected(i).kind = "connected"
  BY Hotplugs
<1>3. /\ Len(watch) \in Nat /\ Len(watch') = Len(watch) + 1
      /\ \A k \in 1..Len(watch) : watch'[k] = watch[k]
      /\ watch'[Len(watch) + 1] = Connected(i)
      /\ Queued(Connected(i))'
      /\ \A f : Queued(f) => Queued(f)'
      /\ \A f : Queued(f)' => f = Connected(i) \/ Queued(f)
  BY <1>1, <1>2, Enqueued, Zenon
<1>4. \A j \in Ids : Connected(j) = Connected(i) => j = i
  BY <1>2, Hotplugs
<1>5. \A j \in Ids : Disconnected(j) # Connected(i)
  BY Hotplugs, Zenon
<1>6. ~Queued(Connected(i)) /\ ~Queued(Disconnected(i))
  BY <1>1, Zenon DEF QueueOK
<1>7. ASSUME NEW j \in Ids, Queued(Connected(j))'
      PROVE  j \notin fresh' /\ (j \in present' \/ Queued(Disconnected(j))')
  <2>1. CASE j = i
    BY <1>1, <2>1, Zenon
  <2>2. CASE j # i
    <3>1. Queued(Connected(j))
      BY <1>3, <1>4, <1>7, <2>2, Zenon
    <3>. QED
      BY <1>1, <1>3, <3>1, Zenon DEF QueueOK
  <2>. QED
    BY <2>1, <2>2, Zenon
<1>8. ASSUME NEW j \in Ids, Queued(Disconnected(j))'
      PROVE  j \notin fresh' /\ j \notin present'
  <2>1. Queued(Disconnected(j))
    BY <1>3, <1>5, <1>8, Zenon
  <2>. QED
    BY <1>1, <1>6, <2>1, Zenon DEF QueueOK
<1>9. ASSUME NEW j \in Ids, NEW k \in 1..Len(watch'), NEW m \in 1..Len(watch'),
             watch'[k] = Disconnected(j), watch'[m] = Connected(j)
      PROVE  m < k
  <2>1. k \in 1..Len(watch) /\ watch[k] = Disconnected(j)
    BY <1>3, <1>5, <1>9
  <2>2. j # i
    BY <1>6, <2>1, Zenon DEF Queued
  <2>3. m \in 1..Len(watch) /\ watch[m] = Connected(j)
    BY <1>3, <1>4, <1>9, <2>2
  <2>. QED
    BY <2>1, <2>3, Zenon DEF QueueOK
<1>10. ASSUME NEW k \in 1..Len(watch'), LastAtBus(watch, k)'
       PROVE  IF watch'[k].kind = "connected" THEN watch'[k].id \in present'
              ELSE \A j \in present' : BusidOf[j] # Bus(watch'[k])
  <2>1. \/ k = Len(watch) + 1 /\ watch'[k] = Connected(i)
        \/ /\ k \in 1..Len(watch) /\ watch'[k] = watch[k]
           /\ LastAtBus(watch, k) /\ Bus(watch[k]) # Bus(Connected(i))
    BY <1>1, <1>2, <1>10, LastEnqueued, Zenon
  <2>2. Bus(Connected(i)) = BusidOf[i]
    BY <1>2 DEF Bus
  <2>. QED
    BY <1>1, <1>2, <2>1, <2>2, Zenon DEF QueueOK
<1>. QED
  BY <1>7, <1>8, <1>9, <1>10 DEF QueueOK, Bus, Connected, Disconnected

\* A device leaves.
LEMMA QueueUnplugs ==
    ASSUME TypeOK, Attached, QueueOK, Watched, NEW i \in Ids, Unplug(i)
    PROVE  QueueOK'
<1>1. /\ i \in present /\ present' = present \ {i} /\ fresh' = fresh
      /\ watch' = Append(watch, Disconnected(i))
  BY Zenon DEF Unplug
<1>2. /\ Disconnected(i) \in HotplugEvent /\ Disconnected(i).id = i
      /\ Disconnected(i).kind = "disconnected"
  BY Hotplugs
<1>3. /\ Len(watch) \in Nat /\ Len(watch') = Len(watch) + 1
      /\ \A k \in 1..Len(watch) : watch'[k] = watch[k]
      /\ watch'[Len(watch) + 1] = Disconnected(i)
      /\ Queued(Disconnected(i))'
      /\ \A f : Queued(f) => Queued(f)'
      /\ \A f : Queued(f)' => f = Disconnected(i) \/ Queued(f)
  BY <1>1, <1>2, Enqueued, Zenon
<1>4. \A j \in Ids : Disconnected(j) = Disconnected(i) => j = i
  BY <1>2, Hotplugs
<1>5. \A j \in Ids : Connected(j) # Disconnected(i)
  BY Hotplugs, Zenon
<1>6. i \notin fresh
  BY <1>1, Zenon DEF Attached
<1>7. ASSUME NEW j \in Ids, Queued(Connected(j))'
      PROVE  j \notin fresh' /\ (j \in present' \/ Queued(Disconnected(j))')
  <2>1. Queued(Connected(j))
    BY <1>3, <1>5, <1>7, Zenon
  <2>2. CASE j = i
    BY <1>1, <1>3, <1>6, <2>2, Zenon
  <2>3. CASE j # i
    BY <1>1, <1>3, <2>1, <2>3, Zenon DEF QueueOK
  <2>. QED
    BY <2>2, <2>3, Zenon
<1>8. ASSUME NEW j \in Ids, Queued(Disconnected(j))'
      PROVE  j \notin fresh' /\ j \notin present'
  BY <1>1, <1>3, <1>4, <1>6, <1>8, Zenon DEF QueueOK
<1>9. ASSUME NEW j \in Ids, NEW k \in 1..Len(watch'), NEW m \in 1..Len(watch'),
             watch'[k] = Disconnected(j), watch'[m] = Connected(j)
      PROVE  m < k
  <2>1. m \in 1..Len(watch) /\ watch[m] = Connected(j)
    BY <1>3, <1>5, <1>9
  <2>2. CASE k = Len(watch) + 1
    BY <1>3, <2>1, <2>2
  <2>3. CASE k \in 1..Len(watch)
    BY <1>3, <1>9, <2>1, <2>3, Zenon DEF QueueOK
  <2>. QED
    BY <1>3, <2>2, <2>3
<1>10. ASSUME NEW k \in 1..Len(watch'), LastAtBus(watch, k)'
       PROVE  IF watch'[k].kind = "connected" THEN watch'[k].id \in present'
              ELSE \A j \in present' : BusidOf[j] # Bus(watch'[k])
  <2>1. \/ k = Len(watch) + 1 /\ watch'[k] = Disconnected(i)
        \/ /\ k \in 1..Len(watch) /\ watch'[k] = watch[k]
           /\ LastAtBus(watch, k) /\ Bus(watch[k]) # Bus(Disconnected(i))
    BY <1>1, <1>2, <1>10, LastEnqueued, Zenon
  <2>2. Bus(Disconnected(i)) = BusidOf[i]
    BY <1>2 DEF Bus
  <2>3. CASE watch'[k] = Disconnected(i)
    BY <1>1, <1>2, <2>2, <2>3 DEF Attached
  <2>4. CASE /\ k \in 1..Len(watch) /\ watch'[k] = watch[k]
             /\ LastAtBus(watch, k) /\ Bus(watch[k]) # Bus(Disconnected(i))
    BY <1>1, <2>2, <2>4, Zenon DEF QueueOK, Bus
  <2>. QED
    BY <2>1, <2>3, <2>4, Zenon
<1>. QED
  BY <1>7, <1>8, <1>9, <1>10 DEF QueueOK, Bus, Connected, Disconnected

\* One hotplug event less.
LEMMA Dequeued ==
    ASSUME TypeOK, watch # <<>>, watch' = Tail(watch)
    PROVE  /\ Len(watch) \in Nat \ {0} /\ Len(watch') = Len(watch) - 1
           /\ \A k \in 1..Len(watch') : k + 1 \in 2..Len(watch) /\ watch'[k] = watch[k + 1]
           /\ \A k \in 2..Len(watch) : k - 1 \in 1..Len(watch') /\ watch'[k - 1] = watch[k]
           /\ Head(watch) = watch[1] /\ watch[1] \in HotplugEvent
           /\ \A f : Queued(f)' => Queued(f)
           /\ \A f : Queued(f) => f = watch[1] \/ Queued(f)'
<1>1. /\ Len(watch) \in Nat \ {0} /\ Len(watch') = Len(watch) - 1
      /\ \A k \in 1..(Len(watch) - 1) : watch'[k] = watch[k + 1]
      /\ Head(watch) = watch[1] /\ watch[1] \in HotplugEvent
  BY Popped DEF TypeOK
<1>2. \A k \in 1..Len(watch') : k + 1 \in 2..Len(watch) /\ watch'[k] = watch[k + 1]
  BY <1>1
<1>3. \A k \in 2..Len(watch) : k - 1 \in 1..Len(watch') /\ watch'[k - 1] = watch[k]
  BY <1>1
<1>4. ASSUME NEW f, Queued(f)' PROVE Queued(f)
  BY <1>1, <1>2, <1>4 DEF Queued
<1>5. ASSUME NEW f, Queued(f), f # watch[1] PROVE Queued(f)'
  <2>1. PICK k \in 1..Len(watch) : watch[k] = f
    BY <1>5, Zenon DEF Queued
  <2>2. k \in 2..Len(watch)
    BY <1>1, <1>5, <2>1
  <2>. QED
    BY <1>3, <2>1, <2>2, SMTT(30) DEF Queued
<1>. QED
  BY <1>1, <1>2, <1>3, <1>4, <1>5, Zenon

\* The last event at its busid stays the last.
LEMMA LastDequeued ==
    ASSUME TypeOK, watch # <<>>, watch' = Tail(watch),
           NEW k \in 1..Len(watch'), LastAtBus(watch, k)'
    PROVE  k + 1 \in 1..Len(watch) /\ watch'[k] = watch[k + 1] /\ LastAtBus(watch, k + 1)
<1>1. /\ Len(watch) \in Nat \ {0} /\ Len(watch') = Len(watch) - 1
      /\ \A m \in 1..Len(watch') : m + 1 \in 2..Len(watch) /\ watch'[m] = watch[m + 1]
      /\ \A m \in 2..Len(watch) : m - 1 \in 1..Len(watch') /\ watch'[m - 1] = watch[m]
  BY Dequeued
<1>2. k + 1 \in 1..Len(watch) /\ watch'[k] = watch[k + 1]
  BY <1>1
<1>3. ASSUME NEW m \in (k + 2)..Len(watch) PROVE Bus(watch[m]) # Bus(watch[k + 1])
  <2>1. m - 1 \in (k + 1)..Len(watch') /\ watch'[m - 1] = watch[m]
    BY <1>1, <1>3
  <2>. QED
    BY <1>2, <2>1, Zenon DEF LastAtBus, Bus
<1>. QED
  BY <1>2, <1>3 DEF LastAtBus

\* The publisher polls an event.
LEMMA QueuePolls ==
    ASSUME TypeOK, QueueOK, Watched, PollConnected \/ PollDisconnected
    PROVE  QueueOK'
<1>1. watch # <<>> /\ watch' = Tail(watch) /\ present' = present /\ fresh' = fresh
  BY Zenon DEF PollConnected, PollDisconnected, hostVars
<1>2. /\ Len(watch) \in Nat \ {0} /\ Len(watch') = Len(watch) - 1
      /\ \A k \in 1..Len(watch') : k + 1 \in 2..Len(watch) /\ watch'[k] = watch[k + 1]
      /\ \A k \in 2..Len(watch) : k - 1 \in 1..Len(watch') /\ watch'[k - 1] = watch[k]
      /\ \A f : Queued(f)' => Queued(f)
  BY <1>1, Dequeued
<1>3. ASSUME NEW j \in Ids, Queued(Connected(j))'
      PROVE  j \notin fresh /\ (j \in present \/ Queued(Disconnected(j))')
  <2>1. PICK k \in 1..Len(watch') : watch'[k] = Connected(j)
    BY <1>3 DEF Queued, Connected
  <2>2. k + 1 \in 1..Len(watch) /\ watch[k + 1] = Connected(j)
    BY <1>2, <2>1
  <2>3. j \notin fresh /\ (j \in present \/ Queued(Disconnected(j)))
    BY <2>2, Zenon DEF QueueOK, Queued
  <2>4. ASSUME NEW m \in 1..Len(watch), watch[m] = Disconnected(j)
        PROVE  Queued(Disconnected(j))'
    <3>1. k + 1 < m
      BY <2>2, <2>4, Zenon DEF QueueOK
    <3>2. m \in 2..Len(watch)
      BY <3>1, <1>2
    <3>3. m - 1 \in 1..Len(watch') /\ watch'[m - 1] = Disconnected(j)
      BY <1>2, <2>4, <3>2
    <3>. QED
      BY <3>3 DEF Queued, Disconnected
  <2>. QED
    BY <2>3, <2>4, Zenon DEF Queued
<1>4. ASSUME NEW j \in Ids, Queued(Disconnected(j))' PROVE j \notin fresh /\ j \notin present
  BY <1>2, <1>4, Zenon DEF QueueOK
<1>5. ASSUME NEW j \in Ids, NEW k \in 1..Len(watch'), NEW m \in 1..Len(watch'),
             watch'[k] = Disconnected(j), watch'[m] = Connected(j)
      PROVE  m < k
  <2>1. /\ k + 1 \in 1..Len(watch) /\ watch[k + 1] = Disconnected(j)
        /\ m + 1 \in 1..Len(watch) /\ watch[m + 1] = Connected(j)
    BY <1>2, <1>5
  <2>2. m + 1 < k + 1
    BY <2>1, Zenon DEF QueueOK
  <2>. QED
    BY <1>2, <2>2
<1>6. ASSUME NEW k \in 1..Len(watch'), LastAtBus(watch, k)'
      PROVE  IF watch'[k].kind = "connected" THEN watch'[k].id \in present
             ELSE \A j \in present : BusidOf[j] # Bus(watch'[k])
  BY <1>1, <1>6, LastDequeued, Zenon DEF QueueOK
<1>. QED
  BY <1>1, <1>3, <1>4, <1>5, <1>6 DEF QueueOK, Bus, Connected, Disconnected

\* Every step keeps the queue in order.
LEMMA StepQueue ==
    ASSUME TypeOK, StartOK, Attached, QueueOK, [Next]_vars
    PROVE  QueueOK'
<1>1. ASSUME Watched' PROVE QueueOK'
  <2>1. ASSUME NEW i \in Ids, Plug(i) \/ Unplug(i) PROVE QueueOK'
    <3>1. Watched
      BY <1>1, <2>1, Zenon DEF Plug, Unplug, Watched
    <3>. QED
      BY <2>1, <3>1, QueuePlugs, QueueUnplugs, Zenon
  <2>2. CASE PollConnected \/ PollDisconnected
    <3>1. Watched
      BY <2>2, Zenon DEF PollConnected, PollDisconnected, Watched
    <3>. QED
      BY <2>2, <3>1, QueuePolls, Zenon
  <2>3. CASE UNCHANGED <<present, fresh, watch>> /\ Watched
    BY <2>3 DEF QueueOK, Queued, LastAtBus, Bus, Connected, Disconnected
  <2>4. CASE UNCHANGED <<present, fresh, watch>> /\ watch = <<>>
    <3>1. Len(watch') = 0
      BY <2>4
    <3>. QED
      BY <3>1 DEF QueueOK, Queued
  <2>. QED
    BY <1>1, <2>1, <2>2, <2>3, <2>4, Watching, Zenon
<1>. QED
  BY <1>1, Zenon DEF QueueOK

-----------------------------------------------------------------------------
(***************************************************************************)
(* The ids known                                                           *)
(***************************************************************************)
Serving == main \in {"seed", "accept"}

\* What changes the ids known, the snapshot, the list or the queue.
LEMMA Noting ==
    ASSUME [Next]_vars, Serving'
    PROVE  \/ ListDevices
           \/ Serving /\ \E i \in Ids : Plug(i) \/ Unplug(i) \/ SeedFromList(i)
           \/ Serving /\ (PollConnected \/ PollDisconnected)
           \/ Serving /\ UNCHANGED <<present, watch, listing, idmap, snapshot>>
<1>1. CASE UNCHANGED vars \/ Send
  BY <1>1, Zenon DEF vars, Send, hostVars, Serving
<1>2. CASE StartStep \/ Interrupt \/ Terminate
  BY <1>2, Zenon DEF StartStep, Bind, StartWatch, SeedFromList, StartAccepting, StartFails,
     Interrupt, Terminate, hostVars, pubVars, Serving
<1>3. ASSUME NEW s \in Subs, Subscribe(s) \/ ServeStep(s) \/ Disconnect(s)
      PROVE  Serving /\ UNCHANGED <<present, watch, listing, idmap, snapshot>>
  BY <1>3, Zenon DEF Subscribe, ServeStep, TakeSnapshot, WriteInitial, Receive, Lag, Disconnect,
     hostVars, pubVars, Serving
<1>4. CASE HostStep \/ PollConnected \/ PollDisconnected
  BY <1>4, Zenon DEF HostStep, Plug, Unplug, PollConnected, PollDisconnected, Serving
<1>. QED
  BY <1>1, <1>2, <1>3, <1>4, Zenon DEF Next, PublisherStep, Stopped

\* The event polled is the first of the queue.
LEMMA Polled ==
    ASSUME TypeOK, PollConnected \/ PollDisconnected
    PROVE  \E i \in Ids :
             /\ i = Head(watch).id
             /\ 1 \in 1..Len(watch)
             /\ PollConnected => watch[1] = Connected(i)
             /\ PollDisconnected => watch[1] = Disconnected(i)
             /\ \A f : Queued(f)' => Queued(f)
             /\ \A f : Queued(f) => f = watch[1] \/ Queued(f)'
             /\ Queued(watch[1])
<1>1. watch # <<>> /\ watch' = Tail(watch)
  BY Zenon DEF PollConnected, PollDisconnected
<1>2. /\ Len(watch) \in Nat \ {0}
      /\ Head(watch) = watch[1] /\ watch[1] \in HotplugEvent
      /\ \A f : Queued(f)' => Queued(f)
      /\ \A f : Queued(f) => f = watch[1] \/ Queued(f)'
  BY <1>1, Dequeued
<1>3. 1 \in 1..Len(watch)
  BY <1>2
<1>4. Queued(watch[1])
  BY <1>3, Zenon DEF Queued
<1>5. /\ watch[1].id \in Ids
      /\ watch[1] = IF watch[1].kind = "connected" THEN Connected(watch[1].id)
                    ELSE Disconnected(watch[1].id)
  BY <1>2, Hotplugs
<1>6. /\ PollConnected => watch[1] = Connected(watch[1].id)
      /\ PollDisconnected => watch[1] = Disconnected(watch[1].id)
  BY <1>2, <1>5 DEF PollConnected, PollDisconnected
<1>. QED
  BY <1>2, <1>3, <1>4, <1>5, <1>6, Zenon

\* Every step keeps it so that a device attached is known, listed or queued.
LEMMA StepKnown ==
    ASSUME TypeOK, StartOK, Attached, QueueOK, KnownOK, [Next]_vars
    PROVE  KnownOK'
<1>. DEFINE Fits == /\ \A i \in present : i \in idmap \cup listing \/ Queued(Connected(i))
                    /\ \A i \in (idmap \cup listing) \ present : Queued(Disconnected(i))
<1>0. /\ Serving => Fits /\ Watched
      /\ (Serving' => Fits') => KnownOK'
      /\ present \subseteq Ids /\ listing \subseteq Ids /\ idmap \subseteq Ids
  BY Zenon DEF KnownOK, Serving, Watched, TypeOK
<1>. SUFFICES ASSUME Serving' PROVE Fits'
  BY <1>0, Zenon
<1>1. CASE ListDevices
  <2>1. idmap' = {} /\ listing' = present /\ present' = present
    BY <1>1, Zenon DEF ListDevices, StartOK, hostVars
  <2>. QED
    BY <2>1, Zenon
<1>2. ASSUME NEW i \in Ids, Serving, Plug(i) PROVE Fits'
  <2>1. present' = present \cup {i} /\ UNCHANGED <<idmap, listing>>
    BY <1>2, Zenon DEF Plug, pubVars
  <2>2. Queued(Connected(i))' /\ \A f : Queued(f) => Queued(f)'
    <3>1. watch' = Append(watch, Connected(i)) /\ Connected(i) \in HotplugEvent
      BY <1>0, <1>2, Hotplugs, Zenon DEF Plug
    <3>. QED
      BY <3>1, Enqueued, Zenon
  <2>. QED
    BY <1>0, <1>2, <2>1, <2>2, Zenon
<1>3. ASSUME NEW i \in Ids, Serving, Unplug(i) PROVE Fits'
  <2>1. present' = present \ {i} /\ UNCHANGED <<idmap, listing>>
    BY <1>3, Zenon DEF Unplug, pubVars
  <2>2. Queued(Disconnected(i))' /\ \A f : Queued(f) => Queued(f)'
    <3>1. watch' = Append(watch, Disconnected(i)) /\ Disconnected(i) \in HotplugEvent
      BY <1>0, <1>3, Hotplugs, Zenon DEF Unplug
    <3>. QED
      BY <3>1, Enqueued, Zenon
  <2>. QED
    BY <1>0, <1>3, <2>1, <2>2, Zenon
<1>4. ASSUME NEW i \in Ids, Serving, SeedFromList(i) PROVE Fits'
  <2>1. /\ i \in listing /\ listing' = listing \ {i} /\ idmap' = idmap \cup {i}
        /\ UNCHANGED <<present, watch>>
    BY <1>4, Zenon DEF SeedFromList, hostVars
  <2>2. \A f : Queued(f)' <=> Queued(f)
    BY <2>1 DEF Queued
  <2>. QED
    BY <1>0, <1>4, <2>1, <2>2, Zenon
<1>5. CASE Serving /\ PollConnected
  <2>1. PICK i \in Ids : /\ i = Head(watch).id /\ watch[1] = Connected(i)
                         /\ \A f : Queued(f) => f = watch[1] \/ Queued(f)'
                         /\ Queued(watch[1])
    BY <1>5, Polled, Zenon
  <2>2. idmap' = idmap \cup {i} /\ UNCHANGED <<present, listing>>
    BY <1>5, <2>1, Zenon DEF PollConnected, hostVars
  <2>3. ASSUME NEW j \in present PROVE j \in idmap' \cup listing \/ Queued(Connected(j))'
    <3>1. Connected(j) = Connected(i) => j = i
      BY <1>0, Hotplugs
    <3>. QED
      BY <1>0, <1>5, <2>1, <2>2, <3>1, Zenon
  <2>4. i \in present \/ Queued(Disconnected(i))
    BY <1>0, <1>5, <2>1, Zenon DEF QueueOK
  <2>5. ASSUME NEW j \in (idmap' \cup listing) \ present PROVE Queued(Disconnected(j))'
    <3>1. j \in Ids /\ Queued(Disconnected(j))
      BY <1>0, <1>5, <2>2, <2>4, <2>5, Zenon
    <3>2. Disconnected(j) # Connected(i)
      BY <3>1, Hotplugs, Zenon
    <3>. QED
      BY <2>1, <3>1, <3>2, Zenon
  <2>. QED
    BY <2>2, <2>3, <2>5, Zenon
<1>6. CASE Serving /\ PollDisconnected
  <2>1. PICK i \in Ids : /\ i = Head(watch).id /\ watch[1] = Disconnected(i)
                         /\ \A f : Queued(f) => f = watch[1] \/ Queued(f)'
                         /\ Queued(watch[1])
    BY <1>6, Polled, Zenon
  <2>2. idmap' = idmap \ {i} /\ UNCHANGED <<present, listing>> /\ listing = {}
    BY <1>6, <2>1, Zenon DEF PollDisconnected, hostVars, StartOK
  <2>3. i \notin present
    BY <1>0, <1>6, <2>1, Zenon DEF QueueOK
  <2>4. ASSUME NEW j \in present PROVE j \in idmap' \cup listing \/ Queued(Connected(j))'
    <3>1. Connected(j) # Disconnected(i)
      BY <1>0, Hotplugs, Zenon
    <3>. QED
      BY <1>0, <1>6, <2>1, <2>2, <2>3, <3>1, Zenon
  <2>5. ASSUME NEW j \in (idmap' \cup listing) \ present PROVE Queued(Disconnected(j))'
    <3>1. j \in Ids /\ j # i /\ Queued(Disconnected(j))
      BY <1>0, <1>6, <2>2, <2>5, Zenon
    <3>2. Disconnected(j) # Disconnected(i)
      BY <3>1, Hotplugs
    <3>. QED
      BY <2>1, <3>1, <3>2, Zenon
  <2>. QED
    BY <2>2, <2>4, <2>5, Zenon
<1>7. CASE Serving /\ UNCHANGED <<present, watch, listing, idmap, snapshot>>
  <2>1. \A f : Queued(f)' <=> Queued(f)
    BY <1>7 DEF Queued
  <2>. QED
    BY <1>0, <1>7, <2>1, Zenon
<1>. QED
  BY <1>1, <1>2, <1>3, <1>4, <1>5, <1>6, <1>7, Noting, Zenon

-----------------------------------------------------------------------------
(***************************************************************************)
(* The snapshot                                                            *)
(***************************************************************************)

\* What the snapshot has at a busid is known, and is of that busid.
LEMMA StepSnapshotKnown ==
    ASSUME TypeOK, StartOK, SnapshotOK, [Next]_vars
    PROVE  \A b \in Busids :
             snapshot'[b] # NoId => snapshot'[b] \in idmap' /\ BusidOf[snapshot'[b]] = b
<1>0. \A b \in Busids : snapshot[b] # NoId => snapshot[b] \in idmap /\ BusidOf[snapshot[b]] = b
  BY Zenon DEF SnapshotOK
<1>1. ASSUME NEW i \in Ids, idmap' = idmap \cup {i}, snapshot' = Apply(snapshot, Added(i))
      PROVE  \A b \in Busids :
               snapshot'[b] # NoId => snapshot'[b] \in idmap' /\ BusidOf[snapshot'[b]] = b
  <2>1. /\ Added(i) \in EventLine /\ Says(Added(i)) = i /\ Bus(Added(i)) = BusidOf[i]
        /\ snapshot \in [Busids -> Ids \cup {NoId}]
    BY Lines, Zenon DEF TypeOK
  <2>2. /\ snapshot'[BusidOf[i]] = i
        /\ \A b \in Busids : b # BusidOf[i] => snapshot'[b] = snapshot[b]
    BY <1>1, <2>1, Applied
  <2>. QED
    BY <1>0, <1>1, <2>2, Zenon
<1>2. ASSUME NEW i \in Ids, idmap' = idmap \ {i}, snapshot' = Apply(snapshot, Removed(i))
      PROVE  \A b \in Busids :
               snapshot'[b] # NoId => snapshot'[b] \in idmap' /\ BusidOf[snapshot'[b]] = b
  <2>1. /\ Removed(i) \in EventLine /\ Says(Removed(i)) = NoId /\ Bus(Removed(i)) = BusidOf[i]
        /\ snapshot \in [Busids -> Ids \cup {NoId}]
    BY Lines, Zenon DEF TypeOK
  <2>2. /\ snapshot'[BusidOf[i]] = NoId
        /\ \A b \in Busids : b # BusidOf[i] => snapshot'[b] = snapshot[b]
    BY <1>2, <2>1, Applied
  <2>. QED
    BY <1>0, <1>2, <2>2, Zenon
<1>3. ASSUME NEW i \in Ids, SeedFromList(i)
      PROVE  idmap' = idmap \cup {i} /\ snapshot' = Apply(snapshot, Added(i))
  BY <1>3, Zenon DEF SeedFromList
<1>4. CASE PollConnected \/ PollDisconnected
  <2>1. PICK i \in Ids : i = Head(watch).id
    BY <1>4, Polled, Zenon
  <2>2. \/ idmap' = idmap \cup {i} /\ snapshot' = Apply(snapshot, Added(i))
        \/ idmap' = idmap \ {i} /\ snapshot' = Apply(snapshot, Removed(i))
        \/ idmap' = idmap /\ snapshot' = snapshot
    BY <1>4, <2>1, Zenon DEF PollConnected, PollDisconnected
  <2>. QED
    BY <1>0, <1>1, <1>2, <2>2, Zenon
<1>5. CASE Send \/ UNCHANGED announced
  <2>1. idmap' = idmap /\ snapshot' = snapshot
    BY <1>5, Zenon DEF Send, announced
  <2>. QED
    BY <1>0, <2>1, Zenon
<1>. QED
  BY <1>1, <1>3, <1>4, <1>5, Publishing, Zenon

\* Neither queue nor list has anything for b.
Quiet(b) == (\A e : Queued(e) => Bus(e) # b) /\ (\A i \in listing : BusidOf[i] # b)

\* What the snapshot then has for b.
Right(b) ==
    /\ \A i \in present : BusidOf[i] = b => snapshot[b] = i
    /\ snapshot[b] = NoId \/ snapshot[b] \in present

\* That is what SettledAt says.
LEMMA Settles ==
    ASSUME NEW b
    PROVE  /\ SettledAt(b) <=> (Quiet(b) => Right(b))
           /\ SettledAt(b)' <=> (Quiet(b)' => Right(b)')
<1>1. (\A k \in 1..Len(watch) : Bus(watch[k]) # b) <=> (\A e : Queued(e) => Bus(e) # b)
  BY Zenon DEF Queued
<1>2. (\A k \in 1..Len(watch') : Bus(watch'[k]) # b) <=> (\A e : Queued(e)' => Bus(e) # b)
  BY Zenon DEF Queued
<1>3. SettledAt(b) <=> (Quiet(b) => Right(b))
  BY <1>1, Zenon DEF SettledAt, Quiet, Right
<1>4. SettledAt(b)' <=> (Quiet(b)' => Right(b)')
  BY <1>2, Zenon DEF SettledAt, Quiet, Right, Bus
<1>. QED
  BY <1>3, <1>4, Zenon

\* An event on b is the last of the queue there if the rest is quiet.
LEMMA FirstIsLast ==
    ASSUME TypeOK, PollConnected \/ PollDisconnected,
           NEW b, b = Bus(watch[1]), \A e : Queued(e)' => Bus(e) # b
    PROVE  LastAtBus(watch, 1)
<1>1. watch # <<>> /\ watch' = Tail(watch)
  BY Zenon DEF PollConnected, PollDisconnected
<1>2. \A k \in 2..Len(watch) : k - 1 \in 1..Len(watch') /\ watch'[k - 1] = watch[k]
  BY <1>1, Dequeued
<1>3. ASSUME NEW k \in 2..Len(watch) PROVE Bus(watch[k]) # b
  <2>1. PICK e : e = watch[k]
    OBVIOUS
  <2>2. Queued(e)'
    BY <1>2, <1>3, <2>1 DEF Queued
  <2>. QED
    BY <2>1, <2>2, Zenon
<1>. QED
  BY <1>3 DEF LastAtBus

\* What Apply makes of the snapshot.
LEMMA Noted ==
    ASSUME TypeOK, NEW i \in Ids
    PROVE  /\ snapshot' = Apply(snapshot, Added(i)) =>
                /\ snapshot'[BusidOf[i]] = i
                /\ \A b \in Busids : b # BusidOf[i] => snapshot'[b] = snapshot[b]
           /\ snapshot' = Apply(snapshot, Removed(i)) =>
                /\ snapshot'[BusidOf[i]] = NoId
                /\ \A b \in Busids : b # BusidOf[i] => snapshot'[b] = snapshot[b]
<1>1. /\ Added(i) \in EventLine /\ Says(Added(i)) = i /\ Bus(Added(i)) = BusidOf[i]
      /\ Removed(i) \in EventLine /\ Says(Removed(i)) = NoId /\ Bus(Removed(i)) = BusidOf[i]
      /\ snapshot \in [Busids -> Ids \cup {NoId}]
  BY Lines, Zenon DEF TypeOK
<1>. QED
  BY <1>1, Applied

\* A device comes or goes: its busid is not quiet, and no other is disturbed.
LEMMA HostSettles ==
    ASSUME TypeOK, SnapshotOK, Serving, NEW i \in Ids, Plug(i) \/ Unplug(i),
           NEW b \in Busids, SettledAt(b)
    PROVE  SettledAt(b)'
<1>. SUFFICES ASSUME Quiet(b)' PROVE Right(b)'
  BY Settles, Zenon
<1>1. /\ Connected(i) \in HotplugEvent /\ Bus(Connected(i)) = BusidOf[i]
      /\ Disconnected(i) \in HotplugEvent /\ Bus(Disconnected(i)) = BusidOf[i]
  BY Hotplugs DEF Bus
<1>2. UNCHANGED <<snapshot, listing>>
  BY Zenon DEF Plug, Unplug, pubVars
<1>3. PICK e \in HotplugEvent : Bus(e) = BusidOf[i] /\ watch' = Append(watch, e)
  BY <1>1, Zenon DEF Plug, Unplug, Serving, Watched
<1>4. Queued(e)' /\ \A f : Queued(f) => Queued(f)'
  BY <1>3, Enqueued, Zenon
<1>5. b # BusidOf[i] /\ Quiet(b)
  BY <1>2, <1>3, <1>4, Zenon DEF Quiet
<1>6. Right(b)
  BY <1>5, Settles, Zenon
<1>7. present' = present \cup {i} \/ present' = present \ {i}
  BY Zenon DEF Plug, Unplug
<1>8. snapshot[b] # NoId => BusidOf[snapshot[b]] = b
  BY Zenon DEF SnapshotOK
<1>. QED
  BY <1>2, <1>5, <1>6, <1>7, <1>8, Zenon DEF Right

\* A device of the list that left has an event queued.
LEMMA SeedSettles ==
    ASSUME TypeOK, Attached, KnownOK, NEW i \in Ids, SeedFromList(i),
           NEW b \in Busids, SettledAt(b)
    PROVE  SettledAt(b)'
<1>. SUFFICES ASSUME Quiet(b)' PROVE Right(b)'
  BY Settles, Zenon
<1>1. /\ i \in listing /\ listing' = listing \ {i} /\ UNCHANGED <<present, watch>>
      /\ main = "seed" /\ snapshot' = Apply(snapshot, Added(i))
  BY Zenon DEF SeedFromList, hostVars
<1>2. /\ snapshot'[BusidOf[i]] = i
      /\ \A c \in Busids : c # BusidOf[i] => snapshot'[c] = snapshot[c]
  BY <1>1, Noted, Zenon
<1>3. \A f : Queued(f)' <=> Queued(f)
  BY <1>1 DEF Queued
<1>4. CASE b = BusidOf[i]
  <2>1. Bus(Disconnected(i)) = b
    BY <1>4, Hotplugs DEF Bus
  <2>2. i \in present
    BY <1>1, <1>3, <2>1, Zenon DEF KnownOK, Quiet
  <2>. QED
    BY <1>1, <1>2, <1>4, <2>2, Zenon DEF Right, Attached
<1>5. CASE b # BusidOf[i]
  <2>1. Quiet(b)
    BY <1>1, <1>3, <1>5, Zenon DEF Quiet
  <2>2. Right(b)
    BY <2>1, Settles, Zenon
  <2>. QED
    BY <1>1, <1>2, <1>5, <2>2, Zenon DEF Right
<1>. QED
  BY <1>4, <1>5, Zenon

\* The last event on a busid says what is there now.
LEMMA PollSettles ==
    ASSUME TypeOK, Attached, QueueOK, KnownOK, SnapshotOK, PollConnected \/ PollDisconnected,
           NEW b \in Busids, SettledAt(b)
    PROVE  SettledAt(b)'
<1>. SUFFICES ASSUME Quiet(b)' PROVE Right(b)'
  BY Settles, Zenon
<1>1. PICK i \in Ids : /\ i = Head(watch).id
                       /\ 1 \in 1..Len(watch)
                       /\ PollConnected => watch[1] = Connected(i)
                       /\ PollDisconnected => watch[1] = Disconnected(i)
                       /\ \A f : Queued(f) => f = watch[1] \/ Queued(f)'
  BY Polled, Zenon
<1>2. Bus(watch[1]) = BusidOf[i]
  BY <1>1, Hotplugs DEF Bus
<1>3. main = "accept" /\ Watched /\ UNCHANGED <<present, listing>>
  BY Zenon DEF PollConnected, PollDisconnected, hostVars, Watched
<1>4. \/ PollConnected /\ snapshot' = Apply(snapshot, Added(i))
      \/ PollDisconnected /\ i \in idmap /\ snapshot' = Apply(snapshot, Removed(i))
      \/ PollDisconnected /\ i \notin idmap /\ snapshot' = snapshot
  BY <1>1, Zenon DEF PollConnected, PollDisconnected
<1>5. CASE b # BusidOf[i]
  <2>1. Quiet(b)
    BY <1>1, <1>2, <1>3, <1>5, Zenon DEF Quiet
  <2>2. Right(b)
    BY <2>1, Settles, Zenon
  <2>3. snapshot'[b] = snapshot[b]
    BY <1>4, <1>5, Noted, Zenon
  <2>. QED
    BY <1>3, <2>2, <2>3, Zenon DEF Right
<1>6. CASE b = BusidOf[i]
  <2>1. \A f : Queued(f)' => Bus(f) # b
    BY Zenon DEF Quiet, Bus
  <2>2. LastAtBus(watch, 1)
    BY <1>2, <1>6, <2>1, FirstIsLast, Zenon
  <2>3. CASE PollConnected
    <3>1. watch[1].kind = "connected" /\ watch[1].id = i
      BY <1>1, <2>3, Hotplugs
    <3>2. i \in present
      BY <1>1, <1>3, <2>2, <3>1, Zenon DEF QueueOK
    <3>3. snapshot'[b] = i
      BY <1>1, <1>6, <2>3, Noted, Zenon DEF PollConnected
    <3>. QED
      BY <1>3, <1>6, <3>2, <3>3, Zenon DEF Right, Attached
  <2>4. CASE PollDisconnected
    <3>1. watch[1].kind # "connected"
      BY <1>1, <2>4, Hotplugs
    <3>2. \A j \in present : BusidOf[j] # b
      BY <1>1, <1>2, <1>3, <1>6, <2>2, <3>1, Zenon DEF QueueOK
    <3>3. CASE i \in idmap
      <4>1. snapshot'[b] = NoId
        BY <1>1, <1>6, <2>4, <3>3, Noted, Zenon DEF PollDisconnected
      <4>. QED
        BY <1>3, <3>2, <4>1, Zenon DEF Right
    <3>4. CASE i \notin idmap
      <4>1. snapshot' = snapshot
        BY <1>1, <2>4, <3>4, Zenon DEF PollDisconnected
      <4>2. ASSUME snapshot[b] # NoId PROVE FALSE
        <5>1. PICK j \in Ids : j = snapshot[b] /\ j \in idmap /\ BusidOf[j] = b /\ j # i
          BY <3>4, <4>2, Zenon DEF SnapshotOK, TypeOK
        <5>2. Queued(Disconnected(j))
          BY <1>3, <3>2, <5>1, Zenon DEF KnownOK
        <5>3. Disconnected(j) # watch[1] /\ Bus(Disconnected(j)) = b
          BY <1>1, <2>4, <5>1, Hotplugs DEF Bus
        <5>4. Queued(Disconnected(j))'
          BY <1>1, <5>2, <5>3, Zenon
        <5>. QED
          BY <2>1, <5>3, <5>4, Zenon
      <4>. QED
        BY <1>3, <3>2, <4>1, <4>2, Zenon DEF Right
    <3>. QED
      BY <3>3, <3>4, Zenon
  <2>. QED
    BY <2>3, <2>4, Zenon
<1>. QED
  BY <1>5, <1>6, Zenon

\* Every step keeps the snapshot right.
LEMMA StepSnapshot ==
    ASSUME TypeOK, StartOK, Attached, QueueOK, KnownOK, SnapshotOK, [Next]_vars
    PROVE  SnapshotOK'
<1>1. ASSUME Serving', NEW b \in Busids PROVE SettledAt(b)'
  <2>1. CASE ListDevices
    <3>1. snapshot' = Empty /\ listing' = present /\ present' = present
      BY <2>1, Zenon DEF ListDevices, StartOK, hostVars
    <3>2. snapshot'[b] = NoId
      BY <3>1, Zenon DEF Empty
    <3>3. Quiet(b)' => Right(b)'
      BY <3>1, <3>2, Zenon DEF Quiet, Right
    <3>. QED
      BY <3>3, Settles, Zenon
  <2>2. Serving => SettledAt(b)
    BY Zenon DEF SnapshotOK, Serving
  <2>3. CASE Serving /\ UNCHANGED <<present, watch, listing, idmap, snapshot>>
    BY <2>2, <2>3 DEF SettledAt, Bus
  <2>. QED
    BY <1>1, <2>1, <2>2, <2>3, Noting, HostSettles, SeedSettles, PollSettles, Zenon
<1>. QED
  BY <1>1, StepSnapshotKnown, Zenon DEF SnapshotOK, Serving

-----------------------------------------------------------------------------
(***************************************************************************)
(* The invariant holds                                                     *)
(***************************************************************************)

\* It holds when the hub is started.
LEMMA InitHolds == Init => IInv
<1>. SUFFICES ASSUME Init PROVE IInv
  OBVIOUS
<1>1. TypeOK
  BY InitTypes
<1>2. Attached
  BY Zenon DEF Init, Attached
<1>3. QueueOK /\ KnownOK /\ StartOK
  BY Zenon DEF Init, QueueOK, Watched, KnownOK, StartOK, Accepted
<1>4. SnapshotOK
  BY Zenon DEF Init, SnapshotOK, Empty
<1>5. Len(log) = 0 /\ unsent = NoEvent /\ idmap = {}
  BY DEF Init
<1>6. AnnouncedOK
  <2>1. \A i \in Ids : NoEvent # Removed(i)
    BY Lines, NoEventAssumption, Zenon
  <2>. QED
    BY <1>5, <2>1 DEF AnnouncedOK, RemovedWasAdded
<1>7. LastEventOK
  BY <1>5 DEF LastEventOK, Pending
<1>8. ASSUME NEW s \in Subs PROVE ConsumerOK(s)
  BY Zenon DEF Init, ConsumerOK
<1>. QED
  BY <1>1, <1>2, <1>3, <1>4, <1>6, <1>7, <1>8, Zenon DEF IInv

\* It is kept by every step.
LEMMA StepHolds == IInv /\ [Next]_vars => IInv'
<1>. SUFFICES ASSUME IInv, [Next]_vars PROVE IInv'
  OBVIOUS
<1>1. /\ TypeOK /\ Attached /\ QueueOK /\ KnownOK /\ SnapshotOK /\ StartOK
      /\ AnnouncedOK /\ LastEventOK /\ \A s \in Subs : ConsumerOK(s)
  BY Zenon DEF IInv
<1>2. TypeOK' /\ Attached' /\ QueueOK' /\ KnownOK' /\ SnapshotOK' /\ StartOK'
  BY <1>1, StepTypes, StepAttached, StepQueue, StepKnown, StepSnapshot, StepStart, Zenon
<1>3. AnnouncedOK' /\ LastEventOK' /\ \A s \in Subs : ConsumerOK(s)'
  BY <1>1, StepAnnounced, StepLastEvent, StepConsumers, Zenon
<1>. QED
  BY <1>2, <1>3, Zenon DEF IInv

\* IInv is an invariant of the publisher, accept_loop and serve_subscriber:
\* what is queued, listed, in the snapshot, sent and told adds up.
THEOREM HubHolds == Spec => []IInv
<1>. QED
  BY InitHolds, StepHolds, PTL DEF Spec

\* The variables of the hub keep their types.
THEOREM HubTypes == Spec => []TypeOK
<1>1. IInv => TypeOK
  BY Zenon DEF IInv
<1>. QED
  BY <1>1, HubHolds, PTL

\* Whatever is plugged and unplugged while run_async starts or runs: once the
\* hotplug queue is empty, the snapshot holds the devices attached, and so
\* does IdMap.
THEOREM HubConvergesAlways == Spec => []HubConverges
<1>1. ASSUME IInv, main = "accept", watch = <<>>
      PROVE  snapshot = Holding(present) /\ idmap = present
  <2>1. /\ TypeOK /\ Attached /\ KnownOK /\ SnapshotOK /\ StartOK
    BY <1>1, Zenon DEF IInv
  <2>2. \A e : ~Queued(e)
    BY <1>1 DEF Queued
  <2>3. listing = {}
    BY <1>1, <2>1, Zenon DEF StartOK
  <2>4. idmap = present
    BY <1>1, <2>1, <2>2, <2>3, Zenon DEF KnownOK
  <2>5. ASSUME NEW b \in Busids
        PROVE  snapshot[b] = IF \E i \in present : BusidOf[i] = b
                             THEN CHOOSE i \in present : BusidOf[i] = b ELSE NoId
    <3>1. Right(b)
      BY <1>1, <2>1, <2>2, <2>3, Settles, Zenon DEF SnapshotOK, Quiet
    <3>2. CASE \E i \in present : BusidOf[i] = b
      <4>. DEFINE c == CHOOSE i \in present : BusidOf[i] = b
      <4>1. c \in present /\ BusidOf[c] = b
        BY <3>2, Zenon
      <4>. QED
        BY <3>1, <3>2, <4>1, Zenon DEF Right
    <3>3. CASE ~ \E i \in present : BusidOf[i] = b
      <4>1. snapshot[b] = NoId
        BY <2>1, <3>1, <3>3, Zenon DEF Right, SnapshotOK
      <4>. QED
        BY <3>3, <4>1, Zenon
    <3>. QED
      BY <3>2, <3>3, Zenon
  <2>6. snapshot \in [Busids -> Ids \cup {NoId}]
    BY <2>1, Zenon DEF TypeOK
  <2>7. snapshot = Holding(present)
    BY <2>5, <2>6 DEF Holding
  <2>. QED
    BY <2>4, <2>7, Zenon
<1>2. IInv => HubConverges
  BY <1>1, Zenon DEF HubConverges
<1>. QED
  BY <1>2, HubHolds, PTL

\* A consumer that subscribed at any moment and has read everything sent to
\* it knows the snapshot, but for the busids whose last event it was too slow
\* for.
THEOREM NoEventMissedEver == Spec => []NoEventMissed
<1>1. ASSUME IInv, NEW s \in Subs, CaughtUp(s), NEW b \in Busids \ missed[s]
      PROVE  view[s][b] = snapshot[b]
  <2>1. /\ sub[s] = "live" /\ initial[s] = {} /\ unsent = NoEvent
        /\ pos[s] = Len(log) + 1
    BY <1>1, Zenon DEF CaughtUp
  <2>2. ConsumerOK(s) /\ Len(log) \in Nat
    BY <1>1 DEF IInv, TypeOK
  <2>3. ~Pending(b) /\ ~ \E k \in pos[s]..Len(log) : Bus(log[k]) = b
    BY <2>1, <2>2 DEF Pending
  <2>4. Told(s, b, snapshot[b])
    BY <1>1, <2>1, <2>2, <2>3, Zenon DEF ConsumerOK
  <2>. QED
    BY <2>1, <2>4, Zenon DEF Told
<1>2. IInv => NoEventMissed
  BY <1>1, Zenon DEF NoEventMissed
<1>. QED
  BY <1>2, HubHolds, PTL

\* IdMap: no consumer is ever sent that a device is removed before the
\* channel had that it was added.
THEOREM RemovedAfterAdded == Spec => []RemovedWasAdded
<1>1. IInv => RemovedWasAdded
  BY Zenon DEF IInv, AnnouncedOK
<1>. QED
  BY <1>1, HubHolds, PTL
=============================================================================
