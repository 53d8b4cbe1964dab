------------------------ MODULE EndpointCacheProofs ------------------------
(***************************************************************************)
(* Proofs about EndpointCache, for any threads, interfaces, endpoints,     *)
(* alternate settings and number of configurations.                        *)
(***************************************************************************)
EXTENDS EndpointCacheInv, TLAPS

Step(t) ==
    \/ ConfigStep(t)
    \/ AltStep(t)
    \/ InterfaceStep(t)
    \/ DataStep(t)

\* The locals of u stay.
Same(u) ==
    /\ pc'[u] = pc[u]
    /\ req'[u] = req[u]
    /\ kind'[u] = kind[u]
    /\ ifc'[u] = ifc[u]
    /\ hnd'[u] = hnd[u]

\* A request is one of the three kinds, with the fields of its kind.
LEMMA RequestCases ==
    ASSUME NEW r \in Requests
    PROVE  /\ r # None
           /\ \/ r.op = "config"
              \/ r.op = "alt" /\ r.iface \in Ifaces /\ r.alt \in Alts
              \/ r.op = "data" /\ r.ep \in Eps
BY NoneAssumption, Zenon DEF Requests

\* Where the three kinds of requests start.
LEMMA FirstSteps ==
    ASSUME NEW r \in Requests
    PROVE  /\ r.op = "config" => FirstStep(r) = "endpoints"
           /\ r.op = "alt" => FirstStep(r) = "invalidate"
           /\ r.op = "data" => FirstStep(r) = "kind"
BY Zenon DEF FirstStep

\* The interface of a closure is an interface.
LEMMA IfaceType ==
    ASSUME NEW t \in Threads, LocalOK(t), pc[t] \in AltPc \cup DataPc \cup EnsurePc
    PROVE  Iface(t) \in Ifaces
<1>1. req[t] \in Requests
  BY Zenon DEF LocalOK, AltPc, DataPc, EnsurePc
<1>2. req[t].op \in {"alt", "data"}
  BY Zenon DEF LocalOK
<1>. QED
  BY <1>1, <1>2, RequestCases, CacheAssumption, Zenon DEF Iface

-----------------------------------------------------------------------------
(***************************************************************************)
(* Types and locals                                                        *)
(***************************************************************************)

\* A closure that returns leaves nothing behind.
LEMMA ReturnLocal ==
    ASSUME TypeOK, NEW t \in Threads, Return(t)
    PROVE  /\ pc' \in [Threads -> PcStates]
           /\ req' \in [Threads -> Slot(Requests)]
           /\ kind' \in [Threads -> Slot(Kinds)]
           /\ ifc' \in [Threads -> Slot(Epochs)]
           /\ hnd' \in [Threads -> Slot(Handles)]
           /\ pc'[t] = "idle"
           /\ \A u \in Threads \ {t} : Same(u)
BY Zenon DEF TypeOK, Return, GoTo, Slot, PcStates, Same

\* What every step of t keeps to.
Within(t) ==
    /\ TypeOK'
    /\ LocalOK(t)'
    /\ \A u \in Threads \ {t} : Same(u)
    /\ pc[t] # "idle"
    /\ pc'[t] = "idle" \/ req'[t] = req[t]

\* The steps of SET_CONFIGURATION keep types and locals.
LEMMA ConfigWithin ==
    ASSUME TypeOK, NEW t \in Threads, LocalOK(t), ConfigStep(t)
    PROVE  Within(t)
<1>1. CASE ClearEndpoints(t)
  BY <1>1, Zenon DEF ClearEndpoints, TypeOK, GoTo, PcStates, LocalOK, Same, Within, Slot,
     devVars, localVars, histVars, ConfigPc, AltPc, DataPc, EnsurePc
<1>2. CASE ClearInterfaces(t)
  BY <1>2, Zenon DEF ClearInterfaces, TypeOK, GoTo, PcStates, LocalOK, Same, Within, Slot,
     devVars, localVars, histVars, ConfigPc, AltPc, DataPc, EnsurePc
<1>3. CASE ClearSettings(t)
  BY <1>3, Zenon DEF ClearSettings, TypeOK, GoTo, PcStates, LocalOK, Same, Within, Slot,
     devVars, localVars, histVars, ConfigPc, AltPc, DataPc, EnsurePc
<1>4. CASE Configure(t)
  BY <1>4, ReturnLocal, CacheAssumption DEF Configure, Reconfigured, TypeOK, Within, LocalOK,
     Epochs, Slot, cacheVars, ConfigPc, AltPc, DataPc, EnsurePc
<1>5. CASE ConfigureFails(t)
  BY <1>5, ReturnLocal, Zenon DEF ConfigureFails, Reconfigured, TypeOK, Within, LocalOK,
     Slot, cacheVars, devVars, ConfigPc, AltPc, DataPc, EnsurePc
<1>. QED
  BY <1>1, <1>2, <1>3, <1>4, <1>5, Zenon DEF ConfigStep

\* The steps of SET_INTERFACE keep types and locals.
LEMMA AltWithin ==
    ASSUME TypeOK, NEW t \in Threads, LocalOK(t), AltStep(t)
    PROVE  Within(t)
<1>1. CASE Invalidate(t)
  BY <1>1, Zenon DEF Invalidate, TypeOK, GoTo, PcStates, LocalOK, Same, Within, Slot,
     devVars, localVars, histVars, ConfigPc, AltPc, DataPc, EnsurePc
<1>2. CASE Select(t)
  <2>1. req[t].iface \in Ifaces /\ req[t].alt \in Alts
    BY <1>2, RequestCases, Zenon DEF Select, LocalOK, AltPc
  <2>. QED
    BY <1>2, <2>1, Zenon DEF Select, TypeOK, GoTo, PcStates, LocalOK, Same, Within, Slot,
       cacheVars, localVars, histVars, ConfigPc, AltPc, DataPc, EnsurePc
<1>3. CASE SelectFails(t)
  BY <1>3, ReturnLocal, Zenon DEF SelectFails, TypeOK, Within, LocalOK,
     Slot, cacheVars, devVars, histVars, ConfigPc, AltPc, DataPc, EnsurePc
<1>4. CASE NoteSetting(t)
  <2>1. req[t].alt \in Alts
    BY <1>4, RequestCases, Zenon DEF NoteSetting, LocalOK, AltPc
  <2>. QED
    BY <1>4, <2>1, ReturnLocal, Zenon DEF NoteSetting, TypeOK, Within, LocalOK,
       Slot, devVars, histVars, ConfigPc, AltPc, DataPc, EnsurePc
<1>. QED
  BY <1>1, <1>2, <1>3, <1>4, Zenon DEF AltStep

\* The steps of ensure_interface keep types and locals.
LEMMA InterfaceWithin ==
    ASSUME TypeOK, NEW t \in Threads, LocalOK(t), InterfaceStep(t)
    PROVE  Within(t)
<1>1. Iface(t) \in Ifaces
  BY IfaceType, Zenon DEF InterfaceStep, LookupInterface, Claim, ClaimFails, SelectZero,
     SelectZeroFails, KeepInterface, EnsurePc
<1>2. CASE LookupInterface(t)
  BY <1>1, <1>2, Zenon DEF LookupInterface, AfterInterface, TypeOK, GoTo, PcStates, LocalOK, Same,
     Within, Slot, devVars, cacheVars, histVars, ConfigPc, AltPc, DataPc, EnsurePc
<1>3. CASE Claim(t)
  BY <1>3, Zenon DEF Claim, TypeOK, GoTo, PcStates, LocalOK, Same,
     Within, Slot, devVars, cacheVars, histVars, ConfigPc, AltPc, DataPc, EnsurePc
<1>4. CASE ClaimFails(t)
  BY <1>4, ReturnLocal, Zenon DEF ClaimFails, TypeOK, Within, LocalOK,
     Slot, cacheVars, devVars, histVars, ConfigPc, AltPc, DataPc, EnsurePc
<1>5. CASE SelectZero(t)
  BY <1>1, <1>5, CacheAssumption DEF SelectZero, TypeOK, GoTo, PcStates, LocalOK, Same,
     Within, Slot, cacheVars, localVars, histVars, ConfigPc, AltPc, DataPc, EnsurePc
<1>6. CASE SelectZeroFails(t)
  BY <1>6, Zenon DEF SelectZeroFails, TypeOK, GoTo, PcStates, LocalOK, Same,
     Within, Slot, devVars, cacheVars, localVars, ConfigPc, AltPc, DataPc, EnsurePc
<1>7. CASE KeepInterface(t)
  <2>1. (IF ifaces[Iface(t)] = None THEN ifc[t] ELSE ifaces[Iface(t)]) \in Epochs
    BY <1>1, <1>7, Zenon DEF KeepInterface, TypeOK, LocalOK, Slot
  <2>. QED
    BY <1>1, <1>7, <2>1, Zenon DEF KeepInterface, AfterInterface, TypeOK, GoTo, PcStates, LocalOK,
       Same, Within, Slot, devVars, histVars, ConfigPc, AltPc, DataPc, EnsurePc
<1>. QED
  BY <1>2, <1>3, <1>4, <1>5, <1>6, <1>7, Zenon DEF InterfaceStep

\* The steps of endpoint_kind, ensure_endpoint and the transfer keep types and
\* locals.
LEMMA DataWithin ==
    ASSUME TypeOK, NEW t \in Threads, LocalOK(t), DataStep(t)
    PROVE  Within(t)
<1>1. Iface(t) \in Ifaces /\ req[t].ep \in Eps
  BY IfaceType, RequestCases, Zenon DEF DataStep, FindKind, NoKind, LookupEndpoint, OpenEndpoint,
     OpenFails, InsertEndpoint, Transfer, DataPc, LocalOK
<1>2. CASE FindKind(t)
  BY <1>2, Zenon DEF FindKind, TypeOK, GoTo, PcStates, LocalOK, Same,
     Within, Slot, devVars, cacheVars, histVars, ConfigPc, AltPc, DataPc, EnsurePc
<1>3. CASE NoKind(t)
  BY <1>3, ReturnLocal, Zenon DEF NoKind, TypeOK, Within, LocalOK,
     Slot, cacheVars, devVars, histVars, ConfigPc, AltPc, DataPc, EnsurePc
<1>4. CASE LookupEndpoint(t)
  BY <1>1, <1>4, Zenon DEF LookupEndpoint, TypeOK, GoTo, PcStates, LocalOK, Same,
     Within, Slot, devVars, cacheVars, histVars, ConfigPc, AltPc, DataPc, EnsurePc
<1>5. CASE OpenEndpoint(t)
  <2>1. [epoch |-> ifc[t], alt |-> selected[Iface(t)], kind |-> kind[t]] \in Handles
    BY <1>1, <1>5, Zenon DEF OpenEndpoint, TypeOK, LocalOK, Handles, DataPc, EnsurePc
  <2>. QED
    BY <1>5, <2>1, Zenon DEF OpenEndpoint, TypeOK, GoTo, PcStates, LocalOK, Same,
       Within, Slot, devVars, cacheVars, histVars, ConfigPc, AltPc, DataPc, EnsurePc
<1>6. CASE OpenFails(t)
  BY <1>6, ReturnLocal, Zenon DEF OpenFails, TypeOK, Within, LocalOK,
     Slot, cacheVars, devVars, histVars, ConfigPc, AltPc, DataPc, EnsurePc
<1>7. CASE InsertEndpoint(t)
  <2>1. (IF eps[req[t].ep] = None THEN hnd[t] ELSE eps[req[t].ep]) \in Handles
    BY <1>1, <1>7, Zenon DEF InsertEndpoint, TypeOK, LocalOK, Slot
  <2>. QED
    <3>1. TypeOK'
      BY <1>1, <1>7, <2>1, Zenon DEF InsertEndpoint, TypeOK, GoTo, PcStates, Slot, devVars, histVars
    <3>2. \A u \in Threads \ {t} : Same(u)
      BY <1>7, Zenon DEF InsertEndpoint, TypeOK, GoTo, Same
    <3>3. pc[t] = "insert" /\ pc'[t] = "transfer" /\ req' = req /\ hnd'[t] \in Handles
      BY <1>7, <2>1, Zenon DEF InsertEndpoint, TypeOK, GoTo
    <3>4. LocalOK(t)'
      BY <3>3, Zenon DEF LocalOK, ConfigPc, AltPc, DataPc, EnsurePc
    <3>. QED
      BY <3>1, <3>2, <3>3, <3>4, Zenon DEF Within
<1>8. CASE Transfer(t)
  BY <1>8, ReturnLocal, Zenon DEF Transfer, TypeOK, Within, LocalOK,
     Slot, cacheVars, devVars, histVars, ConfigPc, AltPc, DataPc, EnsurePc
<1>. QED
  BY <1>2, <1>3, <1>4, <1>5, <1>6, <1>7, <1>8, Zenon DEF DataStep

\* Every step of a closure keeps types and locals.
LEMMA StepWithin ==
    ASSUME TypeOK, NEW t \in Threads, LocalOK(t), Step(t)
    PROVE  Within(t)
BY ConfigWithin, AltWithin, InterfaceWithin, DataWithin, Zenon DEF Step

\* So does the start of a request.
LEMMA StartLocal ==
    ASSUME TypeOK, NEW t \in Threads, NEW r \in Requests, Start(t, r)
    PROVE  /\ TypeOK'
           /\ LocalOK(t)'
           /\ \A u \in Threads \ {t} : Same(u)
           /\ pc'[t] = FirstStep(r)
           /\ req'[t] = r
<1>1. FirstStep(r) \in {"endpoints", "invalidate", "kind"}
  BY Zenon DEF FirstStep
<1>2. TypeOK'
  BY <1>1, Zenon DEF Start, TypeOK, GoTo, PcStates, Slot, devVars, cacheVars
<1>3. pc'[t] = FirstStep(r) /\ req'[t] = r
  BY Zenon DEF Start, TypeOK, GoTo
<1>4. LocalOK(t)'
  BY <1>3, FirstSteps, RequestCases, Zenon DEF LocalOK, ConfigPc, AltPc, DataPc, EnsurePc
<1>5. \A u \in Threads \ {t} : Same(u)
  BY Zenon DEF Start, TypeOK, GoTo, Same
<1>. QED
  BY <1>2, <1>3, <1>4, <1>5, Zenon

\* Locals of the others, which do not move.
LEMMA LocalFrame ==
    ASSUME NEW u, LocalOK(u), Same(u)
    PROVE  LocalOK(u)'
BY Zenon DEF LocalOK, Same

-----------------------------------------------------------------------------
(***************************************************************************)
(* Requests that have the device for themselves                            *)
(***************************************************************************)

\* What a step does to the history: only the end of an undisturbed
\* SET_CONFIGURATION clears it.
History(t) ==
    /\ solo' \in {solo, None}
    /\ disturbed => disturbed' \/ (solo = t /\ pc'[t] = "idle")
    /\ pc[t] \notin ConfigPc => solo' = solo
    /\ pc'[t] = "idle" /\ pc[t] \in ConfigPc => solo' # t

\* Every step of a closure keeps to that.
LEMMA StepHistory ==
    ASSUME TypeOK, NEW t \in Threads, LocalOK(t), Step(t)
    PROVE  History(t)
<1>1. CASE ConfigStep(t)
  <2>1. CASE ClearEndpoints(t) \/ ClearInterfaces(t) \/ ClearSettings(t)
    BY <2>1, Zenon DEF ClearEndpoints, ClearInterfaces, ClearSettings, TypeOK, GoTo, histVars, History
  <2>2. CASE Configure(t) \/ ConfigureFails(t)
    <3>1. t # None
      BY CacheAssumption, Zenon
    <3>2. pc[t] = "configure" /\ Reconfigured(t) /\ Return(t)
      BY <2>2, Zenon DEF Configure, ConfigureFails
    <3>. QED
      BY <3>1, <3>2, ReturnLocal, Zenon DEF Reconfigured, History, ConfigPc
  <2>. QED
    BY <1>1, <2>1, <2>2, Zenon DEF ConfigStep
<1>2. CASE AltStep(t)
  BY <1>2 DEF AltStep, Invalidate, Select, SelectFails, NoteSetting, histVars, History, ConfigPc
<1>3. CASE InterfaceStep(t)
  <2>1. CASE SelectZeroFails(t)
    BY <2>1, Zenon DEF SelectZeroFails, History, ConfigPc
  <2>2. CASE ~SelectZeroFails(t)
    <3>1. UNCHANGED histVars /\ pc[t] \in EnsurePc
      BY <1>3, <2>2, Zenon DEF InterfaceStep, LookupInterface, Claim, ClaimFails, SelectZero,
         KeepInterface, EnsurePc
    <3>. QED
      BY <3>1, Zenon DEF histVars, History, ConfigPc, EnsurePc
  <2>. QED
    BY <2>1, <2>2, Zenon
<1>4. CASE DataStep(t)
  BY <1>4 DEF DataStep, FindKind, NoKind, LookupEndpoint, OpenEndpoint, OpenFails,
     InsertEndpoint, Transfer, histVars, History, ConfigPc
<1>. QED
  BY <1>1, <1>2, <1>3, <1>4, Zenon DEF Step

\* Whoever is at work after a step was before it, on the same request.
LEMMA StepBusy ==
    ASSUME NEW t \in Threads, Within(t), NEW u \in Threads, Busy(u)'
    PROVE  Busy(u) /\ req'[u] = req[u]
BY Zenon DEF Within, Same, Busy

\* A step disturbs no request that has the device for itself.
LEMMA StepSetsAlone ==
    ASSUME TypeOK, SetsAlone, SoloClears, NEW t \in Threads, Within(t), History(t)
    PROVE  SetsAlone'
<1>. SUFFICES ASSUME ~disturbed', NEW u \in Threads, Busy(u)', IsSet(req[u])',
                     NEW v \in Threads, Busy(v)'
              PROVE  v = u
  BY Zenon DEF SetsAlone, Alone
<1>1. Busy(u) /\ Busy(v) /\ IsSet(req[u])
  BY StepBusy, Zenon DEF IsSet
<1>2. CASE ~disturbed
  BY <1>1, <1>2, Zenon DEF SetsAlone, Alone
<1>3. CASE disturbed
  <2>1. solo = t /\ pc'[t] = "idle" /\ t # None
    BY <1>3, CacheAssumption, Zenon DEF History
  <2>2. u = t
    BY <1>1, <2>1, Zenon DEF SoloClears, Alone
  <2>. QED
    BY <2>1, <2>2, Zenon DEF Busy
<1>. QED
  BY <1>2, <1>3, Zenon DEF TypeOK

\* A SET_CONFIGURATION on record goes on clearing the caches.
LEMMA StepSoloClears ==
    ASSUME TypeOK, SoloClears, NEW t \in Threads, LocalOK(t), Step(t), Within(t), History(t)
    PROVE  SoloClears'
<1>. SUFFICES ASSUME solo' # None
              PROVE  SoloClears'
  BY Zenon DEF SoloClears
<1>1. solo' = solo /\ solo \in Threads /\ solo # None
  BY Zenon DEF History, TypeOK, Slot
<1>2. t = solo /\ pc[t] \in ConfigPc /\ Alone(t)
  BY <1>1, Zenon DEF SoloClears, Alone, Within, Busy
<1>3. Alone(t)'
  BY <1>2, StepBusy, Zenon DEF Alone
<1>4. pc'[t] # "idle"
  BY <1>1, <1>2, Zenon DEF History
<1>5. CASE ClearEndpoints(t)
  BY <1>1, <1>2, <1>3, <1>5, Zenon DEF ClearEndpoints, GoTo, TypeOK, SoloClears, ConfigPc
<1>6. CASE ClearInterfaces(t)
  BY <1>1, <1>2, <1>3, <1>6, Zenon DEF ClearInterfaces, GoTo, TypeOK, SoloClears, ConfigPc
<1>7. CASE ClearSettings(t)
  BY <1>1, <1>2, <1>3, <1>7, Zenon DEF ClearSettings, GoTo, TypeOK, SoloClears, ConfigPc
<1>8. ClearEndpoints(t) \/ ClearInterfaces(t) \/ ClearSettings(t)
  <2>1. ~AltStep(t)
    BY <1>2, Zenon DEF AltStep, Invalidate, Select, SelectFails, NoteSetting, ConfigPc
  <2>2. ~InterfaceStep(t)
    BY <1>2, Zenon DEF InterfaceStep, LookupInterface, Claim, ClaimFails, SelectZero, SelectZeroFails,
       KeepInterface, ConfigPc
  <2>3. ~DataStep(t)
    BY <1>2, Zenon DEF DataStep, FindKind, NoKind, LookupEndpoint, OpenEndpoint, OpenFails,
       InsertEndpoint, Transfer, ConfigPc
  <2>4. ~Configure(t) /\ ~ConfigureFails(t)
    BY <1>4, ReturnLocal, Zenon DEF Configure, ConfigureFails
  <2>. QED
    BY <2>1, <2>2, <2>3, <2>4, Zenon DEF Step, ConfigStep
<1>. QED
  BY <1>5, <1>6, <1>7, <1>8, Zenon

\* The start of a request disturbs the others, or has the device for itself.
LEMMA StartAlone ==
    ASSUME TypeOK, SetsAlone, SoloClears, Locals, NEW t \in Threads, NEW r \in Requests,
           Start(t, r)
    PROVE  SetsAlone' /\ SoloClears'
<1>1. /\ pc[t] = "idle" /\ pc'[t] = FirstStep(r) /\ req'[t] = r
      /\ \A u \in Threads \ {t} : Same(u)
  BY StartLocal, Zenon DEF Start
<1>2. SetsAlone'
  <2>. SUFFICES ASSUME ~disturbed', NEW u \in Threads, Busy(u)', IsSet(req[u])',
                       NEW v \in Threads, Busy(v)', v # u
                PROVE  FALSE
    BY Zenon DEF SetsAlone, Alone
  <2>1. ~disturbed /\ ~Setting /\ ~(Others(t) /\ IsSet(r))
    BY Zenon DEF Start, TypeOK
  <2>2. CASE u = t
    BY <1>1, <2>1, <2>2, Zenon DEF Others, Busy, Same
  <2>3. CASE u # t
    BY <1>1, <2>1, <2>3, Zenon DEF Setting, Busy, Same
  <2>. QED
    BY <2>2, <2>3, Zenon
<1>3. SoloClears'
  <2>. SUFFICES ASSUME solo' # None
                PROVE  SoloClears'
    BY Zenon DEF SoloClears
  <2>1. solo' = t /\ r.op = "config" /\ ~Others(t)
    BY Zenon DEF Start
  <2>2. pc'[t] = "endpoints"
    BY <1>1, <2>1, FirstSteps, Zenon
  <2>3. Alone(t)'
    BY <1>1, <2>1, Zenon DEF Alone, Others, Busy, Same
  <2>. QED
    BY <2>1, <2>2, <2>3, Zenon DEF SoloClears, ConfigPc
<1>. QED
  BY <1>2, <1>3, Zenon

-----------------------------------------------------------------------------
(***************************************************************************)
(* Caches that describe the device                                         *)
(***************************************************************************)
Synced ==
    /\ \A t \in Threads : ThreadSync(t)
    /\ \A i \in Ifaces : IfaceSync(i)
    /\ \A e \in Eps : EpSync(e)

deviceAndCaches == <<epoch, selected, ifaces, alts, eps, solo>>

\* A closure that has returned relies on nothing.
LEMMA IdleSync ==
    ASSUME NEW t, pc[t] = "idle"
    PROVE  ThreadSync(t)
BY Zenon DEF ThreadSync, ConfigPc, EnsurePc

\* What a closure relies on is in the device, the caches and its locals.
LEMMA ThreadFrame ==
    ASSUME NEW u, ThreadSync(u), Same(u), UNCHANGED deviceAndCaches
    PROVE  ThreadSync(u)'
BY DEF ThreadSync, Same, Iface, Fits, deviceAndCaches

\* What the caches say changes with the device and the caches only.
LEMMA CacheFrame ==
    ASSUME NEW t \in Threads, pc[t] # "note", \A u \in Threads \ {t} : Same(u),
           UNCHANGED deviceAndCaches,
           \A i \in Ifaces : IfaceSync(i), \A e \in Eps : EpSync(e)
    PROVE  (\A i \in Ifaces : IfaceSync(i)') /\ (\A e \in Eps : EpSync(e)')
<1>1. ASSUME NEW i \in Ifaces PROVE Unnoted(i) => Unnoted(i)'
  BY Zenon DEF Unnoted, Same
<1>2. ASSUME NEW i \in Ifaces PROVE IfaceSync(i)'
  BY <1>1, <1>2, Zenon DEF IfaceSync, deviceAndCaches, Active
<1>3. ASSUME NEW e \in Eps PROVE EpSync(e)'
  BY <1>3, Zenon DEF EpSync, deviceAndCaches, Fits
<1>. QED
  BY <1>2, <1>3, Zenon

\* A step that touches neither device nor caches leaves it at what its own
\* closure relies on.
LEMMA QuietStep ==
    ASSUME Synced, NEW t \in Threads, pc[t] # "note", \A u \in Threads \ {t} : Same(u),
           UNCHANGED deviceAndCaches, ThreadSync(t)'
    PROVE  Synced'
<1>1. ASSUME NEW u \in Threads PROVE ThreadSync(u)'
  BY ThreadFrame, Zenon DEF Synced
<1>2. (\A i \in Ifaces : IfaceSync(i)') /\ (\A e \in Eps : EpSync(e)')
  BY CacheFrame, Zenon DEF Synced
<1>. QED
  BY <1>1, <1>2, Zenon DEF Synced

\* When only t is at work, what the others rely on is nothing.
LEMMA OthersIdle ==
    ASSUME NEW t \in Threads, Alone(t), Within(t), NEW u \in Threads, u # t
    PROVE  pc'[u] = "idle" /\ ThreadSync(u)'
<1>1. pc'[u] = "idle"
  BY Zenon DEF Alone, Within, Same, Busy
<1>. QED
  BY <1>1, IdleSync, Zenon DEF ThreadSync, ConfigPc, EnsurePc

\* The steps of SET_CONFIGURATION.
LEMMA ConfigSynced ==
    ASSUME TypeOK, SoloClears, NEW t \in Threads, LocalOK(t), Within(t), ConfigStep(t),
           solo = t, ~disturbed => Synced
    PROVE  ~disturbed' => Synced'
<1>1. t # None /\ Alone(t)
  BY CacheAssumption, Zenon DEF SoloClears
<1>2. CASE ClearEndpoints(t)
  <2>. SUFFICES ASSUME Synced PROVE Synced'
    BY <1>2, Zenon DEF ClearEndpoints, histVars
  <2>1. ThreadSync(t)'
    BY <1>2, Zenon DEF ClearEndpoints, ThreadSync, GoTo, TypeOK, ConfigPc, EnsurePc, histVars
  <2>2. ASSUME NEW i \in Ifaces PROVE IfaceSync(i)'
    <3>1. ~Unnoted(i)
      BY <1>1, <1>2, Zenon DEF Unnoted, ClearEndpoints, Alone, Busy
    <3>. QED
      BY <1>2, <3>1, Zenon DEF Synced, ClearEndpoints, IfaceSync, Active, devVars, histVars
  <2>3. ASSUME NEW e \in Eps PROVE EpSync(e)'
    BY <1>2, Zenon DEF ClearEndpoints, EpSync
  <2>. QED
    BY <1>1, <2>1, <2>2, <2>3, OthersIdle, Zenon DEF Synced
<1>3. CASE ClearInterfaces(t)
  <2>1. ThreadSync(t)'
    BY <1>3, Zenon DEF ClearInterfaces, ThreadSync, GoTo, TypeOK, ConfigPc, EnsurePc, histVars
  <2>2. ASSUME NEW i \in Ifaces PROVE IfaceSync(i)'
    BY <1>1, <1>3, Zenon DEF ClearInterfaces, IfaceSync, histVars
  <2>3. ASSUME NEW e \in Eps PROVE EpSync(e)'
    BY <1>1, <1>3, Zenon DEF ClearInterfaces, EpSync, SoloClears
  <2>. QED
    BY <1>1, <2>1, <2>2, <2>3, OthersIdle, Zenon DEF Synced
<1>4. CASE ClearSettings(t)
  <2>1. ThreadSync(t)'
    BY <1>4, Zenon DEF ClearSettings, ThreadSync, GoTo, TypeOK, ConfigPc, EnsurePc, histVars
  <2>2. ASSUME NEW i \in Ifaces PROVE IfaceSync(i)'
    BY <1>1, <1>4, Zenon DEF ClearSettings, IfaceSync, SoloClears
  <2>3. ASSUME NEW e \in Eps PROVE EpSync(e)'
    BY <1>1, <1>4, Zenon DEF ClearSettings, EpSync, SoloClears
  <2>. QED
    BY <1>1, <2>1, <2>2, <2>3, OthersIdle, Zenon DEF Synced
<1>5. CASE Configure(t) \/ ConfigureFails(t)
  <2>1. pc[t] = "configure" /\ UNCHANGED cacheVars /\ Return(t)
    BY <1>5, Zenon DEF Configure, ConfigureFails
  <2>2. \A u \in Threads : pc'[u] = "idle"
    BY <1>1, <2>1, ReturnLocal, OthersIdle, Zenon
  <2>3. /\ \A i \in Ifaces : ifaces'[i] = None /\ alts'[i] = None
        /\ \A e \in Eps : eps'[e] = None
    BY <1>1, <2>1, Zenon DEF SoloClears, cacheVars
  <2>4. ASSUME NEW u \in Threads PROVE ThreadSync(u)'
    BY <2>2, Zenon DEF ThreadSync, ConfigPc, EnsurePc
  <2>. QED
    BY <2>3, <2>4, Zenon DEF Synced, IfaceSync, EpSync
<1>. QED
  BY <1>2, <1>3, <1>4, <1>5, Zenon DEF ConfigStep

\* The steps of SET_INTERFACE.
LEMMA AltSynced ==
    ASSUME TypeOK, Synced, NEW t \in Threads, LocalOK(t), Within(t), Alone(t), AltStep(t)
    PROVE  Synced'
<1>1. req[t].op = "alt" /\ req[t].iface \in Ifaces /\ req[t].alt \in Alts
  BY RequestCases, Zenon DEF LocalOK, AltStep, Invalidate, Select, SelectFails, NoteSetting, AltPc
<1>2. Iface(t) = req[t].iface /\ ThreadSync(t)
  BY <1>1, Zenon DEF Iface, Synced
<1>3. CASE Invalidate(t)
  <2>1. ThreadSync(t)'
    BY <1>3, Zenon DEF Invalidate, ThreadSync, GoTo, TypeOK, ConfigPc, EnsurePc, localVars
  <2>2. ASSUME NEW i \in Ifaces PROVE IfaceSync(i)'
    <3>1. ~Unnoted(i)
      BY <1>3, Zenon DEF Unnoted, Invalidate, Alone, Busy
    <3>. QED
      BY <1>3, <3>1, Zenon DEF Synced, Invalidate, IfaceSync, Active, devVars, histVars
  <2>3. ASSUME NEW e \in Eps PROVE EpSync(e)'
    BY <1>3, Zenon DEF Synced, Invalidate, EpSync, Fits, devVars
  <2>. QED
    BY <2>1, <2>2, <2>3, OthersIdle, Zenon DEF Synced
<1>4. CASE Select(t)
  <2>1. pc[t] = "select" /\ pc'[t] = "note" /\ req' = req
        /\ selected' = [selected EXCEPT ![req[t].iface] = req[t].alt]
        /\ UNCHANGED <<epoch, ifaces, alts, eps, solo>>
    BY <1>4, Zenon DEF Select, GoTo, TypeOK, localVars, cacheVars, histVars
  <2>2. ThreadSync(t)'
    BY <1>1, <1>2, <2>1, Zenon DEF ThreadSync, TypeOK, ConfigPc, EnsurePc, Iface
  <2>3. ASSUME NEW i \in Ifaces PROVE IfaceSync(i)'
    <3>1. CASE i = req[t].iface
      <4>1. Unnoted(i)'
        BY <2>1, <3>1, Zenon DEF Unnoted
      <4>. QED
        BY <2>1, <4>1, Zenon DEF Synced, IfaceSync
    <3>2. CASE i # req[t].iface
      <4>1. ~Unnoted(i) /\ selected'[i] = selected[i]
        BY <1>1, <2>1, <3>2, Zenon DEF Unnoted, Alone, Busy, TypeOK
      <4>. QED
        BY <2>1, <4>1, Zenon DEF Synced, IfaceSync, Active
    <3>. QED
      BY <3>1, <3>2, Zenon
  <2>4. ASSUME NEW e \in Eps PROVE EpSync(e)'
    <3>1. IfaceOf[e] \in Ifaces
      BY CacheAssumption, Zenon
    <3>2. IfaceOf[e] = req[t].iface => eps[e] = None
      BY <1>1, <1>2, <2>1, Zenon DEF ThreadSync
    <3>. QED
      BY <1>1, <2>1, <3>1, <3>2, Zenon DEF Synced, EpSync, Fits, TypeOK
  <2>. QED
    BY <2>2, <2>3, <2>4, OthersIdle, Zenon DEF Synced
<1>5. CASE SelectFails(t)
  <2>1. pc[t] # "note" /\ UNCHANGED deviceAndCaches /\ pc'[t] = "idle"
    BY <1>5, ReturnLocal, Zenon DEF SelectFails, deviceAndCaches, devVars, cacheVars, histVars
  <2>2. ThreadSync(t)'
    BY <2>1, Zenon DEF ThreadSync, ConfigPc, EnsurePc
  <2>. QED
    BY <2>1, <2>2, QuietStep, Zenon DEF Within
<1>6. CASE NoteSetting(t)
  <2>1. /\ pc[t] = "note" /\ pc'[t] = "idle"
        /\ alts' = [alts EXCEPT ![req[t].iface] = req[t].alt]
        /\ UNCHANGED <<epoch, selected, ifaces, eps, solo>>
    BY <1>6, ReturnLocal, Zenon DEF NoteSetting, devVars, histVars
  <2>2. selected[req[t].iface] = req[t].alt /\ ifaces[req[t].iface] # None
    BY <1>2, <2>1, Zenon DEF ThreadSync
  <2>3. ASSUME NEW i \in Ifaces PROVE IfaceSync(i)'
    <3>1. CASE i = req[t].iface
      <4>1. req[t].alt # None /\ alts'[i] = req[t].alt
        BY <1>1, <2>1, <3>1, CacheAssumption, Zenon DEF TypeOK
      <4>. QED
        BY <2>1, <2>2, <3>1, <4>1, Zenon DEF Synced, IfaceSync, Active
    <3>2. CASE i # req[t].iface
      <4>1. ~Unnoted(i) /\ alts'[i] = alts[i]
        BY <1>1, <2>1, <3>2, Zenon DEF Unnoted, Alone, Busy, TypeOK
      <4>. QED
        BY <2>1, <4>1, Zenon DEF Synced, IfaceSync, Active
    <3>. QED
      BY <3>1, <3>2, Zenon
  <2>4. ASSUME NEW e \in Eps PROVE EpSync(e)'
    BY <2>1, Zenon DEF Synced, EpSync, Fits
  <2>5. ThreadSync(t)'
    BY <2>1, Zenon DEF ThreadSync, ConfigPc, EnsurePc
  <2>. QED
    BY <2>3, <2>4, <2>5, OthersIdle, Zenon DEF Synced
<1>. QED
  BY <1>3, <1>4, <1>5, <1>6, Zenon DEF AltStep

\* Others that are at work together with t only transfer.
LEMMA OthersTransfer ==
    ASSUME SetsAlone, ~disturbed, Locals, NEW t \in Threads, Busy(t), NEW u \in Threads, u # t
    PROVE  /\ pc[u] \notin ConfigPc \cup AltPc
           /\ pc[u] \in EnsurePc => req[u].op = "data"
<1>1. ~(Busy(u) /\ IsSet(req[u]))
  BY Zenon DEF SetsAlone, Alone
<1>2. LocalOK(u)
  BY Zenon DEF Locals
<1>3. Busy(u) => req[u] # None
  BY <1>2, RequestCases, Zenon DEF LocalOK, Busy
<1>. QED
  BY <1>1, <1>2, <1>3, Zenon DEF LocalOK, IsSet, Busy, ConfigPc, AltPc, EnsurePc

\* The steps of ensure_interface.
LEMMA InterfaceSynced ==
    ASSUME TypeOK, Locals, SetsAlone, ~disturbed, solo = None, Synced,
           NEW t \in Threads, Within(t), InterfaceStep(t), ~disturbed'
    PROVE  Synced'
<1>1. pc[t] \in EnsurePc /\ Busy(t) /\ LocalOK(t) /\ ThreadSync(t)
  BY Zenon DEF InterfaceStep, LookupInterface, Claim, ClaimFails, SelectZero, SelectZeroFails,
     KeepInterface, EnsurePc, Busy, Locals, Synced
<1>2. Iface(t) \in Ifaces /\ pc[t] # "note"
  BY <1>1, IfaceType, Zenon DEF EnsurePc
<1>3. req[t].op = "alt" => Iface(t) = req[t].iface
  BY Zenon DEF Iface
<1>4. IfaceSync(Iface(t))
  BY <1>2, Zenon DEF Synced
<1>5. CASE LookupInterface(t)
  <2>1. /\ UNCHANGED deviceAndCaches /\ req' = req /\ pc[t] = "iface"
        /\ ifc'[t] = ifaces[Iface(t)]
        /\ pc'[t] = IF ifaces[Iface(t)] = None THEN "claim" ELSE AfterInterface(t)
    BY <1>5, Zenon DEF LookupInterface, GoTo, TypeOK, deviceAndCaches, devVars, cacheVars, histVars
  <2>2. Iface(t)' = Iface(t)
    BY <2>1, Zenon DEF Iface
  <2>3. ifaces[Iface(t)] = None => alts[Iface(t)] = None
    BY <1>4, Zenon DEF IfaceSync
  <2>4. ifaces[Iface(t)] # None => ifaces[Iface(t)] = epoch
    BY <1>4, Zenon DEF IfaceSync
  <2>5. ThreadSync(t)'
    BY <1>1, <2>1, <2>2, <2>3, <2>4, Zenon DEF ThreadSync, AfterInterface, deviceAndCaches,
       ConfigPc, EnsurePc
  <2>. QED
    BY <1>2, <2>1, <2>5, QuietStep, Zenon DEF Within
<1>6. CASE Claim(t)
  <2>1. /\ UNCHANGED deviceAndCaches /\ req' = req /\ pc[t] = "claim"
        /\ ifc'[t] = epoch /\ pc'[t] = "alt0"
    BY <1>6, Zenon DEF Claim, GoTo, TypeOK, deviceAndCaches, devVars, cacheVars, histVars
  <2>2. ThreadSync(t)'
    BY <1>1, <2>1, Zenon DEF ThreadSync, deviceAndCaches, Iface, ConfigPc, EnsurePc
  <2>. QED
    BY <1>2, <2>1, <2>2, QuietStep, Zenon DEF Within
<1>7. CASE ClaimFails(t)
  <2>1. UNCHANGED deviceAndCaches /\ pc'[t] = "idle"
    BY <1>7, ReturnLocal, Zenon DEF ClaimFails, deviceAndCaches, devVars, cacheVars, histVars
  <2>2. ThreadSync(t)'
    BY <2>1, Zenon DEF ThreadSync, ConfigPc, EnsurePc
  <2>. QED
    BY <1>2, <2>1, <2>2, QuietStep, Zenon DEF Within
<1>8. CASE SelectZeroFails(t)
  <2>1. /\ UNCHANGED deviceAndCaches /\ UNCHANGED localVars /\ pc[t] = "alt0"
        /\ pc'[t] = "keep"
    BY <1>8, Zenon DEF SelectZeroFails, GoTo, TypeOK, deviceAndCaches, devVars, cacheVars
  <2>2. selected[Iface(t)] = 0
    BY <1>8, Zenon DEF SelectZeroFails
  <2>3. ThreadSync(t)'
    BY <1>1, <2>1, <2>2, Zenon DEF ThreadSync, deviceAndCaches, localVars, Iface, ConfigPc, EnsurePc
  <2>. QED
    BY <1>2, <2>1, <2>3, QuietStep, Zenon DEF Within
<1>9. CASE SelectZero(t)
  <2>1. /\ UNCHANGED <<epoch, ifaces, alts, eps, solo>> /\ UNCHANGED localVars
        /\ pc[t] = "alt0" /\ pc'[t] = "keep"
        /\ selected' = [selected EXCEPT ![Iface(t)] = 0]
    BY <1>9, Zenon DEF SelectZero, GoTo, TypeOK, cacheVars, histVars
  <2>2. ASSUME NEW i \in Ifaces PROVE ~Unnoted(i)
    BY <1>1, <2>1, OthersTransfer, Zenon DEF Unnoted, AltPc
  <2>3. ASSUME NEW i \in Ifaces, ifaces[i] # None PROVE selected'[i] = selected[i]
    <3>1. CASE i = Iface(t)
      <4>1. selected[i] = Active(i) /\ alts[i] = None
        BY <1>1, <1>4, <2>1, <2>2, <2>3, <3>1, Zenon DEF IfaceSync, ThreadSync
      <4>. QED
        BY <2>1, <3>1, <4>1, Zenon DEF Active, TypeOK
    <3>2. CASE i # Iface(t)
      BY <1>2, <2>1, <3>2, Zenon DEF TypeOK
    <3>. QED
      BY <3>1, <3>2, Zenon
  <2>4. ASSUME NEW i \in Ifaces PROVE selected'[i] \in {selected[i], 0}
    BY <1>2, <2>1, Zenon DEF TypeOK
  <2>5. ThreadSync(t)'
    BY <1>1, <1>2, <2>1, Zenon DEF ThreadSync, TypeOK, localVars, Iface, ConfigPc, EnsurePc
  <2>6. ASSUME NEW u \in Threads, u # t PROVE ThreadSync(u)'
    <3>1. pc[u] \notin ConfigPc \cup AltPc /\ Same(u) /\ ThreadSync(u) /\ LocalOK(u)
      BY <1>1, <2>6, OthersTransfer, Zenon DEF Within, Synced, Locals
    <3>2. pc[u] = "keep" => Iface(u) \in Ifaces
      BY <3>1, IfaceType, Zenon DEF EnsurePc
    <3>3. pc[u] = "keep" => selected'[Iface(u)] = 0
      BY <2>4, <3>1, <3>2, Zenon DEF ThreadSync
    <3>4. pc[u] \in {"insert", "transfer"} =>
            /\ req[u].op = "data"
            /\ IfaceOf[req[u].ep] \in Ifaces
            /\ Iface(u) = IfaceOf[req[u].ep]
      BY <3>1, RequestCases, CacheAssumption, Zenon DEF LocalOK, DataPc, Iface
    <3>5. pc[u] \in {"insert", "transfer"} =>
            selected'[IfaceOf[req[u].ep]] = selected[IfaceOf[req[u].ep]]
      BY <2>3, <3>1, <3>4, Zenon DEF ThreadSync
    <3>6. Iface(u)' = Iface(u)
      BY <3>1, Zenon DEF Same, Iface
    <3>. QED
      BY <2>1, <3>1, <3>3, <3>5, <3>6 DEF ThreadSync, Same, Fits, AltPc
  <2>7. ASSUME NEW i \in Ifaces PROVE IfaceSync(i)'
    BY <2>1, <2>2, <2>3, Zenon DEF Synced, IfaceSync, Active
  <2>8. ASSUME NEW e \in Eps PROVE EpSync(e)'
    BY <2>1, <2>3, CacheAssumption, Zenon DEF Synced, EpSync, Fits
  <2>. QED
    BY <2>5, <2>6, <2>7, <2>8, Zenon DEF Synced
<1>10. CASE KeepInterface(t)
  <2>1. /\ UNCHANGED <<epoch, selected, alts, eps, solo>> /\ req' = req
        /\ pc[t] = "keep" /\ pc'[t] = AfterInterface(t)
    BY <1>10, Zenon DEF KeepInterface, GoTo, TypeOK, devVars, histVars
  <2>. DEFINE c == IF ifaces[Iface(t)] = None THEN ifc[t] ELSE ifaces[Iface(t)]
  <2>2. ifaces' = [ifaces EXCEPT ![Iface(t)] = epoch] /\ ifc'[t] = epoch /\ epoch # None
    <3>1. c = epoch
      BY <1>1, <1>4, <2>1, Zenon DEF ThreadSync, IfaceSync
    <3>2. ifaces' = [ifaces EXCEPT ![Iface(t)] = c] /\ ifc' = [ifc EXCEPT ![t] = c]
      BY <1>10, Zenon DEF KeepInterface
    <3>3. epoch # None
      BY CacheAssumption DEF TypeOK, Epochs
    <3>. HIDE DEF c
    <3>. QED
      BY <3>1, <3>2, <3>3, Zenon DEF TypeOK
  <2>3. ASSUME NEW i \in Ifaces PROVE ifaces'[i] \in {ifaces[i], epoch}
    BY <1>2, <2>2, Zenon DEF TypeOK
  <2>4. ASSUME NEW i \in Ifaces, ifaces[i] # None PROVE ifaces'[i] # None
    BY <2>2, <2>3, <2>4, Zenon
  <2>3a. Iface(t)' = Iface(t) /\ ifaces'[Iface(t)] = epoch
    BY <1>2, <2>1, <2>2, Zenon DEF TypeOK, Iface
  <2>5. ThreadSync(t)'
    BY <1>1, <2>1, <2>2, <2>3a, Zenon DEF ThreadSync, AfterInterface, ConfigPc, EnsurePc
  <2>6. ASSUME NEW u \in Threads, u # t PROVE ThreadSync(u)'
    <3>1. Same(u) /\ ThreadSync(u) /\ LocalOK(u)
      BY <2>6, Zenon DEF Within, Synced, Locals
    <3>2. pc[u] \in {"select", "note", "open", "insert", "transfer"} => Iface(u) \in Ifaces
      BY <3>1, IfaceType, Zenon DEF AltPc, DataPc
    <3>3. pc[u] \in {"select", "note", "open", "insert", "transfer"} => ifaces'[Iface(u)] # None
      BY <2>4, <3>1, <3>2, Zenon DEF ThreadSync
    <3>4. Iface(u)' = Iface(u)
      BY <3>1, Zenon DEF Same, Iface
    <3>. QED
      BY <2>1, <3>1, <3>3, <3>4, Zenon DEF ThreadSync, Same, Fits
  <2>7. ASSUME NEW i \in Ifaces PROVE IfaceSync(i)'
    <3>1. CASE i = Iface(t)
      <4>1. selected[i] = 0 /\ alts[i] = None
        BY <1>1, <2>1, <3>1, Zenon DEF ThreadSync
      <4>. QED
        BY <2>1, <2>3a, <2>2, <3>1, <4>1, Zenon DEF IfaceSync, Active
    <3>2. CASE i # Iface(t)
      <4>1. ifaces'[i] = ifaces[i]
        BY <1>2, <2>2, <3>2, Zenon DEF TypeOK
      <4>2. ~Unnoted(i)
        BY <1>1, <2>1, OthersTransfer, Zenon DEF Unnoted, AltPc
      <4>3. IfaceSync(i)
        BY Zenon DEF Synced
      <4>. QED
        BY <2>1, <4>1, <4>2, <4>3, Zenon DEF IfaceSync, Active
    <3>. QED
      BY <3>1, <3>2, Zenon
  <2>8. ASSUME NEW e \in Eps PROVE EpSync(e)'
    BY <2>1, <2>4, CacheAssumption, Zenon DEF Synced, EpSync, Fits
  <2>. QED
    BY <2>5, <2>6, <2>7, <2>8, Zenon DEF Synced
<1>. QED
  BY <1>5, <1>6, <1>7, <1>8, <1>9, <1>10, Zenon DEF InterfaceStep

\* The steps of endpoint_kind, ensure_endpoint and the transfer.
LEMMA DataSynced ==
    ASSUME TypeOK, Locals, SetsAlone, ~disturbed, Synced,
           NEW t \in Threads, Within(t), DataStep(t)
    PROVE  Synced'
<1>1. pc[t] \in DataPc /\ pc[t] # "note" /\ Busy(t)
  BY Zenon DEF DataStep, FindKind, NoKind, LookupEndpoint, OpenEndpoint, OpenFails, InsertEndpoint,
     Transfer, DataPc, Busy
<1>2. LocalOK(t) /\ ThreadSync(t)
  BY Zenon DEF Locals, Synced
<1>3. req[t].op = "data" /\ req[t].ep \in Eps
  BY <1>1, <1>2, RequestCases, Zenon DEF LocalOK, DataPc
<1>4. Iface(t) = IfaceOf[req[t].ep] /\ EpSync(req[t].ep)
  BY <1>3, Zenon DEF Iface, Synced
<1>5. CASE FindKind(t)
  <2>1. UNCHANGED deviceAndCaches /\ req' = req /\ pc'[t] = "lookup"
    BY <1>5, Zenon DEF FindKind, GoTo, TypeOK, deviceAndCaches, devVars, cacheVars, histVars
  <2>2. ThreadSync(t)'
    BY <2>1, Zenon DEF ThreadSync, ConfigPc, EnsurePc
  <2>. QED
    BY <1>1, <2>1, <2>2, QuietStep, Zenon DEF Within
<1>6. CASE NoKind(t) \/ OpenFails(t) \/ Transfer(t)
  <2>1. UNCHANGED deviceAndCaches /\ pc'[t] = "idle"
    BY <1>6, ReturnLocal, Zenon DEF NoKind, OpenFails, Transfer, deviceAndCaches, devVars, cacheVars,
       histVars
  <2>2. ThreadSync(t)'
    BY <2>1, Zenon DEF ThreadSync, ConfigPc, EnsurePc
  <2>. QED
    BY <1>1, <2>1, <2>2, QuietStep, Zenon DEF Within
<1>7. CASE LookupEndpoint(t)
  <2>1. /\ UNCHANGED deviceAndCaches /\ req' = req
        /\ hnd'[t] = eps[req[t].ep]
        /\ pc'[t] = IF eps[req[t].ep] = None THEN "iface" ELSE "transfer"
    BY <1>7, Zenon DEF LookupEndpoint, GoTo, TypeOK, deviceAndCaches, devVars, cacheVars, histVars
  <2>2. Iface(t)' = Iface(t)
    BY <2>1, Zenon DEF Iface
  <2>3. ThreadSync(t)'
    BY <1>3, <1>4, <2>1, <2>2, Zenon DEF ThreadSync, EpSync, Fits, deviceAndCaches, ConfigPc, EnsurePc
  <2>. QED
    BY <1>1, <2>1, <2>3, QuietStep, Zenon DEF Within
<1>8. CASE OpenEndpoint(t)
  <2>1. /\ UNCHANGED deviceAndCaches /\ req' = req /\ pc[t] = "open" /\ pc'[t] = "insert"
        /\ hnd'[t] = [epoch |-> ifc[t], alt |-> selected[Iface(t)], kind |-> kind[t]]
    BY <1>8, Zenon DEF OpenEndpoint, GoTo, TypeOK, deviceAndCaches, devVars, cacheVars, histVars
  <2>2. Iface(t)' = Iface(t)
    BY <2>1, Zenon DEF Iface
  <2>3. ifc[t] = epoch /\ ifaces[Iface(t)] # None
    BY <1>2, <2>1, Zenon DEF ThreadSync
  <2>4. KindOf[req[t].ep][selected[Iface(t)]] = kind[t]
    BY <1>8, <2>3, Zenon DEF OpenEndpoint, Describes
  <2>5. hnd'[t].epoch = epoch /\ hnd'[t].alt = selected[Iface(t)] /\ hnd'[t].kind = kind[t]
    BY <2>1, <2>3
  <2>6. Fits(hnd[t], req[t].ep)' /\ hnd'[t].kind = KindOf[req'[t].ep][hnd'[t].alt]
    BY <1>4, <2>1, <2>4, <2>5, Zenon DEF Fits, deviceAndCaches
  <2>7. ifaces'[Iface(t)'] # None /\ pc'[t] \notin ConfigPc \cup EnsurePc
    BY <2>1, <2>2, <2>3, Zenon DEF deviceAndCaches, ConfigPc, EnsurePc
  <2>8. ThreadSync(t)'
    BY <2>1, <2>6, <2>7, Zenon DEF ThreadSync
  <2>. QED
    BY <1>1, <2>1, <2>8, QuietStep, Zenon DEF Within
<1>9. CASE InsertEndpoint(t)
  <2>. DEFINE ep == req[t].ep
              h  == IF eps[ep] = None THEN hnd[t] ELSE eps[ep]
  <2>1. /\ UNCHANGED <<epoch, selected, ifaces, alts, solo>> /\ req' = req
        /\ pc[t] = "insert" /\ pc'[t] = "transfer"
    BY <1>9, Zenon DEF InsertEndpoint, GoTo, TypeOK, devVars, histVars
  <2>2. eps' = [eps EXCEPT ![ep] = h] /\ hnd'[t] = h
    BY <1>9, Zenon DEF InsertEndpoint, TypeOK
  <2>3. Fits(hnd[t], ep) /\ hnd[t].kind = KindOf[ep][hnd[t].alt] /\ ifaces[IfaceOf[ep]] # None
    BY <1>2, <1>4, <2>1, Zenon DEF ThreadSync
  <2>4. Fits(h, ep) /\ h.kind = KindOf[ep][h.alt]
    BY <1>4, <2>3, Zenon DEF EpSync
  <2>. HIDE DEF h
  <2>5. Iface(t)' = Iface(t)
    BY <2>1, Zenon DEF Iface
  <2>6. ThreadSync(t)'
    <3>1. pc'[t] \notin ConfigPc \cup EnsurePc
      BY <2>1, Zenon DEF ConfigPc, EnsurePc
    <3>2. ifaces'[Iface(t)'] # None
      BY <1>4, <2>1, <2>3, <2>5, Zenon
    <3>3. Fits(hnd[t], req[t].ep)' /\ hnd'[t].kind = KindOf[req'[t].ep][hnd'[t].alt]
      BY <2>1, <2>2, <2>3, <2>4, Zenon DEF Fits
    <3>. QED
      BY <2>1, <3>1, <3>2, <3>3, Zenon DEF ThreadSync
  <2>7. ASSUME NEW u \in Threads, u # t PROVE ThreadSync(u)'
    <3>1. /\ Same(u) /\ ThreadSync(u) /\ pc[u] \notin ConfigPc \cup AltPc
          /\ pc[u] \in EnsurePc => req[u].op = "data"
      BY <1>1, <2>7, OthersTransfer, Zenon DEF Within, Synced
    <3>2. Iface(u)' = Iface(u)
      BY <3>1, Zenon DEF Same, Iface
    <3>. QED
      BY <2>1, <3>1, <3>2, Zenon DEF ThreadSync, Same, Fits, AltPc
  <2>8. ASSUME NEW i \in Ifaces PROVE IfaceSync(i)'
    <3>1. IfaceSync(i) /\ (Unnoted(i) => Unnoted(i)')
      BY <2>1, Zenon DEF Synced, Unnoted, Within, Same
    <3>. QED
      BY <2>1, <3>1, Zenon DEF IfaceSync, Active
  <2>9. ASSUME NEW e \in Eps PROVE EpSync(e)'
    <3>1. CASE e = ep
      <4>1. eps'[e] = h
        BY <1>3, <2>2, <3>1, Zenon DEF TypeOK
      <4>. QED
        BY <2>1, <2>3, <2>4, <3>1, <4>1, Zenon DEF EpSync, Fits
    <3>2. CASE e # ep
      <4>1. eps'[e] = eps[e] /\ EpSync(e)
        BY <2>2, <3>2, Zenon DEF TypeOK, Synced
      <4>. QED
        BY <2>1, <4>1, Zenon DEF EpSync, Fits
    <3>. QED
      BY <3>1, <3>2, Zenon
  <2>. QED
    BY <2>6, <2>7, <2>8, <2>9, Zenon DEF Synced
<1>. QED
  BY <1>5, <1>6, <1>7, <1>8, <1>9, Zenon DEF DataStep

\* A request that disturbs nothing finds and leaves the caches in step.
LEMMA StartSynced ==
    ASSUME TypeOK, Locals, SetsAlone, SoloClears, Sync,
           NEW t \in Threads, NEW r \in Requests, Start(t, r), ~disturbed'
    PROVE  Synced'
<1>1. ~disturbed /\ ~Setting
  BY Zenon DEF Start
<1>2. Synced
  BY <1>1, Zenon DEF Sync, Synced
<1>3. /\ pc[t] = "idle" /\ pc'[t] = FirstStep(r) /\ req'[t] = r
      /\ \A u \in Threads \ {t} : Same(u)
  BY StartLocal, Zenon DEF Start
<1>4. UNCHANGED <<epoch, selected, ifaces, alts, eps>>
  BY Zenon DEF Start, devVars, cacheVars
<1>5. ASSUME NEW u \in Threads, Busy(u) PROVE pc[u] \notin ConfigPc \cup AltPc
  <2>1. ~IsSet(req[u]) /\ LocalOK(u) /\ req[u] # None
    BY <1>1, <1>5, NoneAssumption, Zenon DEF Setting, Locals, LocalOK, Busy
  <2>. QED
    BY <2>1, Zenon DEF IsSet, LocalOK
<1>6. solo = None
  <2>1. solo # None => solo \in Threads /\ pc[solo] \in ConfigPc
    BY Zenon DEF TypeOK, Slot, SoloClears
  <2>2. ASSUME NEW u \in Threads, pc[u] \in ConfigPc PROVE Busy(u)
    BY <2>2, Zenon DEF ConfigPc, Busy
  <2>. QED
    BY <1>5, <2>1, <2>2, Zenon
<1>7. ThreadSync(t)'
  <2>1. pc'[t] = "endpoints" => solo' = t
    <3>1. pc'[t] = "endpoints" => r.op = "config"
      BY <1>3, Zenon DEF FirstStep
    <3>2. r.op = "config" => IsSet(r)
      BY NoneAssumption, Zenon DEF IsSet
    <3>3. IsSet(r) => ~Others(t)
      BY Zenon DEF Start
    <3>. QED
      BY <3>1, <3>2, <3>3, Zenon DEF Start
  <2>2. pc'[t] \in {"endpoints", "invalidate", "kind"}
    BY <1>3, Zenon DEF FirstStep
  <2>. QED
    BY <2>1, <2>2, Zenon DEF ThreadSync, ConfigPc, EnsurePc
<1>8. ASSUME NEW u \in Threads, u # t PROVE ThreadSync(u)'
  <2>1. Same(u) /\ ThreadSync(u) /\ pc[u] \notin ConfigPc
    BY <1>2, <1>3, <1>5, <1>8, Zenon DEF Synced, Busy, ConfigPc
  <2>2. Iface(u)' = Iface(u)
    BY <2>1, Zenon DEF Same, Iface
  <2>. QED
    BY <1>4, <2>1, <2>2, Zenon DEF ThreadSync, Same, Fits
<1>9. ASSUME NEW i \in Ifaces PROVE IfaceSync(i)'
  <2>1. IfaceSync(i) /\ (Unnoted(i) => Unnoted(i)')
    BY <1>2, <1>3, Zenon DEF Synced, Unnoted, Same
  <2>. QED
    BY <1>4, <1>6, <2>1, Zenon DEF IfaceSync, Active
<1>10. ASSUME NEW e \in Eps PROVE EpSync(e)'
  BY <1>2, <1>4, Zenon DEF Synced, EpSync, Fits
<1>. QED
  BY <1>7, <1>8, <1>9, <1>10, Zenon DEF Synced

-----------------------------------------------------------------------------
(***************************************************************************)
(* The invariant and what follows from it                                  *)
(***************************************************************************)

\* A device that was just opened has nothing claimed and nothing disturbed.
LEMMA Initially == Init => IInv
<1>. SUFFICES ASSUME Init PROVE IInv
  OBVIOUS
<1>1. TypeOK
  <2>1. /\ epoch \in Epochs
        /\ selected \in [Ifaces -> Alts]
        /\ pc \in [Threads -> PcStates]
    BY CacheAssumption DEF Init, Epochs, PcStates
  <2>2. /\ ifaces \in [Ifaces -> Slot(Epochs)]
        /\ alts \in [Ifaces -> Slot(Alts)]
        /\ eps \in [Eps -> Slot(Handles)]
        /\ solo \in Slot(Threads)
    BY Zenon DEF Init, Slot
  <2>3. /\ req \in [Threads -> Slot(Requests)]
        /\ kind \in [Threads -> Slot(Kinds)]
        /\ ifc \in [Threads -> Slot(Epochs)]
        /\ hnd \in [Threads -> Slot(Handles)]
    BY Zenon DEF Init, Slot
  <2>4. disturbed \in BOOLEAN
    BY Zenon DEF Init
  <2>. QED
    BY <2>1, <2>2, <2>3, <2>4, Zenon DEF TypeOK
<1>2. ASSUME NEW t \in Threads PROVE pc[t] = "idle" /\ LocalOK(t) /\ ~Busy(t)
  BY Zenon DEF Init, LocalOK, Busy, ConfigPc, AltPc, DataPc, EnsurePc
<1>3. Locals /\ SetsAlone
  BY <1>2, Zenon DEF Locals, SetsAlone
<1>4. SoloClears
  BY Zenon DEF Init, SoloClears
<1>5. ASSUME NEW t \in Threads PROVE ThreadSync(t)
  BY <1>2, IdleSync, Zenon
<1>6. ASSUME NEW i \in Ifaces PROVE IfaceSync(i)
  BY Zenon DEF Init, IfaceSync
<1>7. ASSUME NEW e \in Eps PROVE EpSync(e)
  BY Zenon DEF Init, EpSync
<1>. QED
  BY <1>1, <1>3, <1>4, <1>5, <1>6, <1>7, Zenon DEF IInv, Sync

\* A step of a closure keeps the caches in step with the device, unless it
\* disturbs them.
LEMMA StepSync ==
    ASSUME IInv, NEW t \in Threads, Step(t), Within(t), History(t)
    PROVE  Sync'
<1>. USE DEF IInv
<1>. SUFFICES ASSUME ~disturbed' PROVE Synced'
  BY Zenon DEF Sync, Synced
<1>1. LocalOK(t)
  BY Zenon DEF Locals
<1>2. CASE ConfigStep(t)
  <2>1. pc[t] \in ConfigPc
    BY <1>2, Zenon DEF ConfigStep, ClearEndpoints, ClearInterfaces, ClearSettings, Configure,
       ConfigureFails, ConfigPc
  <2>2. disturbed => solo = t
    BY <1>2, Zenon DEF ConfigStep, ClearEndpoints, ClearInterfaces, ClearSettings, Configure,
       ConfigureFails, Reconfigured, histVars
  <2>3. ~disturbed => Synced
    BY Zenon DEF Sync, Synced
  <2>4. solo = t
    BY <2>1, <2>2, <2>3, Zenon DEF Synced, ThreadSync
  <2>. QED
    BY <1>1, <1>2, <2>3, <2>4, ConfigSynced, Zenon
<1>3. CASE ~ConfigStep(t)
  <2>1. ~disturbed
    BY <1>3, Zenon DEF Step, AltStep, Invalidate, Select, SelectFails, NoteSetting,
       InterfaceStep, LookupInterface, Claim, ClaimFails, SelectZero, SelectZeroFails,
       KeepInterface, DataStep, FindKind, NoKind, LookupEndpoint, OpenEndpoint, OpenFails,
       InsertEndpoint, Transfer, histVars
  <2>2. Synced
    BY <2>1, Zenon DEF Sync, Synced
  <2>3. CASE AltStep(t)
    <3>1. Busy(t) /\ pc[t] \in AltPc
      BY <2>3, Zenon DEF AltStep, Invalidate, Select, SelectFails, NoteSetting, Busy, AltPc
    <3>2. IsSet(req[t])
      BY <1>1, <3>1, NoneAssumption, Zenon DEF LocalOK, IsSet, Busy
    <3>3. Alone(t)
      BY <2>1, <3>1, <3>2, Zenon DEF SetsAlone
    <3>. QED
      BY <1>1, <2>2, <2>3, <3>3, AltSynced, Zenon
  <2>4. CASE InterfaceStep(t)
    <3>1. Busy(t) /\ pc[t] \notin ConfigPc
      BY <2>4, Zenon DEF InterfaceStep, LookupInterface, Claim, ClaimFails, SelectZero,
         SelectZeroFails, KeepInterface, Busy, ConfigPc
    <3>2. solo = None
      BY <3>1, Zenon DEF SoloClears, Alone
    <3>. QED
      BY <2>1, <2>2, <2>4, <3>2, InterfaceSynced, Zenon
  <2>5. CASE DataStep(t)
    BY <2>1, <2>2, <2>5, DataSynced, Zenon
  <2>. QED
    BY <1>3, <2>3, <2>4, <2>5, Zenon DEF Step
<1>. QED
  BY <1>2, <1>3, Zenon

\* No step of any closure breaks the invariant.
LEMMA Inductive == IInv /\ [Next]_vars => IInv'
<1>. SUFFICES ASSUME IInv, [Next]_vars PROVE IInv'
  OBVIOUS
<1>. USE DEF IInv
<1>1. ASSUME NEW t \in Threads, NEW r \in Requests, Start(t, r) PROVE IInv'
  <2>1. TypeOK' /\ LocalOK(t)' /\ \A u \in Threads \ {t} : Same(u)
    BY <1>1, StartLocal, Zenon
  <2>2. Locals'
    BY <2>1, LocalFrame, Zenon DEF Locals
  <2>3. SetsAlone' /\ SoloClears'
    BY <1>1, StartAlone, Zenon
  <2>4. Sync'
    BY <1>1, StartSynced, Zenon DEF Sync, Synced
  <2>. QED
    BY <2>1, <2>2, <2>3, <2>4, Zenon
<1>2. ASSUME NEW t \in Threads, Step(t) PROVE IInv'
  <2>1. LocalOK(t)
    BY Zenon DEF Locals
  <2>2. Within(t) /\ History(t)
    BY <1>2, <2>1, StepWithin, StepHistory, Zenon
  <2>3. TypeOK' /\ Locals'
    BY <2>2, LocalFrame, Zenon DEF Locals, Within
  <2>4. SetsAlone'
    BY <2>2, StepSetsAlone, Zenon
  <2>5. SoloClears'
    BY <1>2, <2>1, <2>2, StepSoloClears, Zenon
  <2>6. Sync'
    BY <1>2, <2>2, StepSync, Zenon
  <2>. QED
    BY <2>3, <2>4, <2>5, <2>6, Zenon
<1>3. CASE UNCHANGED vars
  <2>. USE <1>3 DEF vars
  <2>1. TypeOK'
    BY Zenon DEF TypeOK
  <2>2. Locals'
    BY Zenon DEF Locals, LocalOK
  <2>3. SetsAlone' /\ SoloClears'
    BY Zenon DEF SetsAlone, SoloClears, Alone, Busy, IsSet
  <2>4. \A t \in Threads : Same(t)
    BY Zenon DEF Same
  <2>5. UNCHANGED deviceAndCaches /\ UNCHANGED disturbed
    BY Zenon DEF deviceAndCaches
  <2>6. \A t \in Threads : ThreadSync(t) => ThreadSync(t)'
    BY <2>4, <2>5, ThreadFrame, Zenon
  <2>7. \A i \in Ifaces : IfaceSync(i) => IfaceSync(i)'
    BY Zenon DEF IfaceSync, Unnoted, Active
  <2>8. \A e \in Eps : EpSync(e) => EpSync(e)'
    BY Zenon DEF EpSync, Fits
  <2>9. Sync'
    BY <2>5, <2>6, <2>7, <2>8 DEF Sync
  <2>. QED
    BY <2>1, <2>2, <2>3, <2>9, Zenon
<1>. QED
  BY <1>1, <1>2, <1>3, Zenon DEF Next, Step

\* In every interleaving of any number of closures, with whatever fails, the
\* inductive invariant of the caches holds.
THEOREM CachesHold == Spec => []IInv
<1>. QED
  BY Initially, Inductive, PTL DEF Spec

\* Every variable has its type, for any device and any number of threads.
THEOREM CacheTypes == Spec => []TypeOK
<1>1. IInv => TypeOK
  BY Zenon DEF IInv
<1>. QED
  BY <1>1, CachesHold, PTL

\* For any device and any number of threads: between requests that reconfigure
\* the device, the caches of OpenedDevice describe it, unless such a request
\* overlapped another since the last SET_CONFIGURATION that ran alone.
THEOREM CachesInSync == Spec => []SyncUnlessDisturbed
<1>1. IInv => SyncUnlessDisturbed
  <2>. SUFFICES ASSUME IInv, ~disturbed, ~Setting PROVE InSync
    BY Zenon DEF SyncUnlessDisturbed
  <2>1. ASSUME NEW t \in Threads PROVE pc[t] # "note"
    <3>1. LocalOK(t) /\ ~(Busy(t) /\ IsSet(req[t]))
      BY Zenon DEF IInv, Locals, Setting
    <3>. QED
      BY <3>1, NoneAssumption, Zenon DEF LocalOK, Busy, IsSet, AltPc
  <2>2. \A i \in Ifaces : ~Unnoted(i)
    BY <2>1, Zenon DEF Unnoted
  <2>. QED
    BY <2>2, Zenon DEF IInv, Sync, InSync, IfaceSync, EpSync
<1>. QED
  BY <1>1, CachesHold, PTL

\* For any device and any number of threads: a transfer that nothing disturbed
\* goes to an endpoint of the configuration and alternate setting that the
\* device has selected, with the transfer type it has there.
THEOREM TransfersFit == Spec => []TransferFits
<1>1. IInv => TransferFits
  BY Zenon DEF IInv, Sync, TransferFits, ThreadSync
<1>. QED
  BY <1>1, CachesHold, PTL
=============================================================================
