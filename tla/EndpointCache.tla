---------------------------- MODULE EndpointCache ----------------------------
(***************************************************************************)
(* The caches of an OpenedDevice (crates/host-mac/src/lib.rs): claimed     *)
(* interfaces, selected alternate settings and open endpoints, used by the *)
(* blocking closures of several URBs at once.  control_transfer intercepts *)
(* SET_CONFIGURATION and SET_INTERFACE to keep them in step with the       *)
(* device; data_transfer fills them through endpoint_kind, ensure_endpoint *)
(* and ensure_interface.  No lock is held from one step to the next.       *)
(*                                                                         *)
(* nusb and the device are external.  Each configuration starts an epoch:  *)
(* what was claimed in an earlier one is stale.                            *)
(***************************************************************************)
EXTENDS Naturals

CONSTANTS
    Threads,    \* blocking threads, one closure each at a time
    Ifaces,     \* interface numbers
    Alts,       \* alternate settings
    Eps,        \* bulk and interrupt endpoint addresses
    IfaceOf,    \* the interface that owns an endpoint
    KindOf,     \* the transfer type an endpoint has in an alternate setting
    None,       \* an empty slot
    MaxEpoch,   \* bound on the number of SET_CONFIGURATIONs that succeed
    Faults      \* the calls to nusb that may fail

Kinds == {"bulk", "interrupt"}

ASSUME CacheAssumption ==
    /\ 0 \in Alts
    /\ Alts \subseteq Nat
    /\ IfaceOf \in [Eps -> Ifaces]
    /\ KindOf \in [Eps -> [Alts -> Kinds \cup {"absent", "iso"}]]
    /\ None \notin Nat \cup Threads \cup Kinds
    /\ MaxEpoch \in Nat
    /\ Faults \subseteq {"config", "claim", "alt0", "alt", "open"}

VARIABLES
    epoch,      \* of the device's configuration
    selected,   \* the alternate setting the device has selected, per interface
    ifaces,     \* OpenedDevice.interfaces: the epoch each was claimed in
    alts,       \* OpenedDevice.alt_settings
    eps,        \* OpenedDevice.endpoints
    pc,         \* where each closure is
    req,        \* the request it serves
    kind,       \* what endpoint_kind told it
    ifc,        \* the Interface it has: the epoch it was claimed in
    hnd,        \* the endpoint handle it has
    solo,       \* the SET_CONFIGURATION that nothing has overlapped so far
    disturbed   \* requests have overlapped a SET_CONFIGURATION or
                \* SET_INTERFACE, or a failure was ignored, since the last
                \* SET_CONFIGURATION that had the device for itself

devVars   == <<epoch, selected>>
cacheVars == <<ifaces, alts, eps>>
localVars == <<req, kind, ifc, hnd>>
histVars  == <<solo, disturbed>>
vars == <<epoch, selected, ifaces, alts, eps, pc, req, kind, ifc, hnd, solo, disturbed>>

Epochs  == 0..MaxEpoch
Handles == [epoch : Epochs, alt : Alts, kind : Kinds]

Requests ==
    [op : {"config"}]
    \cup [op : {"alt"}, iface : Ifaces, alt : Alts]
    \cup [op : {"data"}, ep : Eps]

\* An empty slot is neither a handle nor a request.
ASSUME NoneAssumption == None \notin Handles \cup Requests

PcStates == {"idle", "endpoints", "interfaces", "settings", "configure",
             "invalidate", "select", "note",
             "kind", "lookup", "open", "insert", "transfer",
             "iface", "claim", "alt0", "keep"}

Busy(t)   == pc[t] # "idle"
IsSet(r)  == r # None /\ r.op \in {"config", "alt"}
Setting   == \E t \in Threads : Busy(t) /\ IsSet(req[t])

\* The interface a closure works on.
Iface(t) == IF req[t].op = "alt" THEN req[t].iface ELSE IfaceOf[req[t].ep]

\* The setting endpoint_kind takes to be active.  Every interface has an
\* alternate setting 0, so its fallback to the first one is never needed.
Active(i) == IF alts[i] = None THEN 0 ELSE alts[i]

-----------------------------------------------------------------------------
Init ==
    /\ epoch = 0
    /\ selected = [i \in Ifaces |-> 0]
    /\ ifaces = [i \in Ifaces |-> None]
    /\ alts = [i \in Ifaces |-> None]
    /\ eps = [e \in Eps |-> None]
    /\ pc = [t \in Threads |-> "idle"]
    /\ req = [t \in Threads |-> None]
    /\ kind = [t \in Threads |-> None]
    /\ ifc = [t \in Threads |-> None]
    /\ hnd = [t \in Threads |-> None]
    /\ solo = None
    /\ disturbed = FALSE

GoTo(t, p) == pc' = [pc EXCEPT ![t] = p]

\* The closure returns and its locals are dropped.
Return(t) ==
    /\ GoTo(t, "idle")
    /\ req' = [req EXCEPT ![t] = None]
    /\ kind' = [kind EXCEPT ![t] = None]
    /\ ifc' = [ifc EXCEPT ![t] = None]
    /\ hnd' = [hnd EXCEPT ![t] = None]

-----------------------------------------------------------------------------
(***************************************************************************)
(* control_transfer and data_transfer are entered                          *)
(***************************************************************************)

FirstStep(r) ==
    IF r.op = "config" THEN "endpoints"
    ELSE IF r.op = "alt" THEN "invalidate" ELSE "kind"

Others(t) == \E u \in Threads \ {t} : Busy(u)

Start(t, r) ==
    /\ pc[t] = "idle"
    /\ r.op = "config" => epoch < MaxEpoch
    /\ req' = [req EXCEPT ![t] = r]
    /\ GoTo(t, FirstStep(r))
    /\ solo' = IF r.op = "config" /\ ~Others(t) THEN t ELSE None
    /\ disturbed' = (disturbed \/ Setting \/ (Others(t) /\ IsSet(r)))
    /\ UNCHANGED <<devVars, cacheVars, kind, ifc, hnd>>

-----------------------------------------------------------------------------
(***************************************************************************)
(* SET_CONFIGURATION                                                       *)
(***************************************************************************)

\* Fault: the endpoints stay in the cache.
KeepEndpoints(t) ==
    /\ pc[t] = "endpoints"
    /\ GoTo(t, "interfaces")
    /\ UNCHANGED <<devVars, cacheVars, localVars, histVars>>

ClearEndpoints(t) ==
    /\ pc[t] = "endpoints"
    /\ eps' = [e \in Eps |-> None]
    /\ GoTo(t, "interfaces")
    /\ UNCHANGED <<devVars, ifaces, alts, localVars, histVars>>

ClearInterfaces(t) ==
    /\ pc[t] = "interfaces"
    /\ ifaces' = [i \in Ifaces |-> None]
    /\ GoTo(t, "settings")
    /\ UNCHANGED <<devVars, alts, eps, localVars, histVars>>

\* Fault: the alternate settings are remembered.
KeepSettings(t) ==
    /\ pc[t] = "settings"
    /\ GoTo(t, "configure")
    /\ UNCHANGED <<devVars, cacheVars, localVars, histVars>>

ClearSettings(t) ==
    /\ pc[t] = "settings"
    /\ alts' = [i \in Ifaces |-> None]
    /\ GoTo(t, "configure")
    /\ UNCHANGED <<devVars, ifaces, eps, localVars, histVars>>

\* What the history says after a SET_CONFIGURATION of t.
Reconfigured(t) ==
    /\ disturbed' = (disturbed /\ solo # t)
    /\ solo' = IF solo = t THEN None ELSE solo

\* nusb's set_configuration: the device starts over.
Configure(t) ==
    /\ pc[t] = "configure"
    /\ epoch < MaxEpoch
    /\ epoch' = epoch + 1
    /\ selected' = [i \in Ifaces |-> 0]
    /\ Reconfigured(t)
    /\ Return(t)
    /\ UNCHANGED cacheVars

\* It fails with the caches already cleared.
ConfigureFails(t) ==
    /\ pc[t] = "configure"
    /\ "config" \in Faults \/ epoch = MaxEpoch
    /\ Reconfigured(t)
    /\ Return(t)
    /\ UNCHANGED <<devVars, cacheVars>>

-----------------------------------------------------------------------------
(***************************************************************************)
(* SET_INTERFACE                                                           *)
(***************************************************************************)

\* Fault: the endpoints of every other interface are dropped.
InvalidateOthers(t) ==
    /\ pc[t] = "invalidate"
    /\ eps' = [e \in Eps |-> IF IfaceOf[e] = req[t].iface THEN eps[e] ELSE None]
    /\ GoTo(t, "iface")
    /\ UNCHANGED <<devVars, ifaces, alts, localVars, histVars>>

Invalidate(t) ==
    /\ pc[t] = "invalidate"
    /\ eps' = [e \in Eps |-> IF IfaceOf[e] = req[t].iface THEN None ELSE eps[e]]
    /\ GoTo(t, "iface")
    /\ UNCHANGED <<devVars, ifaces, alts, localVars, histVars>>

\* set_alt_setting on the Interface at hand, which must not be stale.
Select(t) ==
    /\ pc[t] = "select"
    /\ ifc[t] = epoch
    /\ selected' = [selected EXCEPT ![req[t].iface] = req[t].alt]
    /\ GoTo(t, "note")
    /\ UNCHANGED <<epoch, cacheVars, localVars, histVars>>

SelectFails(t) ==
    /\ pc[t] = "select"
    /\ ifc[t] # epoch \/ "alt" \in Faults
    /\ Return(t)
    /\ UNCHANGED <<devVars, cacheVars, histVars>>

NoteSetting(t) ==
    /\ pc[t] = "note"
    /\ alts' = [alts EXCEPT ![req[t].iface] = req[t].alt]
    /\ Return(t)
    /\ UNCHANGED <<devVars, ifaces, eps, histVars>>

-----------------------------------------------------------------------------
(***************************************************************************)
(* ensure_interface                                                        *)
(***************************************************************************)
AfterInterface(t) == IF req[t].op = "alt" THEN "select" ELSE "open"

LookupInterface(t) ==
    /\ pc[t] = "iface"
    /\ ifc' = [ifc EXCEPT ![t] = ifaces[Iface(t)]]
    /\ GoTo(t, IF ifaces[Iface(t)] = None THEN "claim" ELSE AfterInterface(t))
    /\ UNCHANGED <<devVars, cacheVars, req, kind, hnd, histVars>>

Claim(t) ==
    /\ pc[t] = "claim"
    /\ ifc' = [ifc EXCEPT ![t] = epoch]
    /\ GoTo(t, "alt0")
    /\ UNCHANGED <<devVars, cacheVars, req, kind, hnd, histVars>>

ClaimFails(t) ==
    /\ pc[t] = "claim"
    /\ "claim" \in Faults
    /\ Return(t)
    /\ UNCHANGED <<devVars, cacheVars, histVars>>

SelectZero(t) ==
    /\ pc[t] = "alt0"
    /\ ifc[t] = epoch
    /\ selected' = [selected EXCEPT ![Iface(t)] = 0]
    /\ GoTo(t, "keep")
    /\ UNCHANGED <<epoch, cacheVars, localVars, histVars>>

\* "set_alt_setting(0) failed (continuing)"
SelectZeroFails(t) ==
    /\ pc[t] = "alt0"
    /\ ifc[t] # epoch \/ "alt0" \in Faults
    /\ disturbed' = (disturbed \/ selected[Iface(t)] # 0)
    /\ GoTo(t, "keep")
    /\ UNCHANGED <<devVars, cacheVars, localVars, solo>>

\* or_insert: the first Interface stays, the closure goes on with it.
KeepInterface(t) ==
    LET i == Iface(t)
        c == IF ifaces[i] = None THEN ifc[t] ELSE ifaces[i]
    IN
    /\ pc[t] = "keep"
    /\ ifaces' = [ifaces EXCEPT ![i] = c]
    /\ ifc' = [ifc EXCEPT ![t] = c]
    /\ GoTo(t, AfterInterface(t))
    /\ UNCHANGED <<devVars, alts, eps, req, kind, hnd, histVars>>

-----------------------------------------------------------------------------
(***************************************************************************)
(* endpoint_kind, ensure_endpoint and the transfer                         *)
(***************************************************************************)
FindKind(t) ==
    LET k == KindOf[req[t].ep][Active(Iface(t))] IN
    /\ pc[t] = "kind"
    /\ k \in Kinds
    /\ kind' = [kind EXCEPT ![t] = k]
    /\ GoTo(t, "lookup")
    /\ UNCHANGED <<devVars, cacheVars, req, ifc, hnd, histVars>>

\* EndpointNotFound, UnsupportedTransfer
NoKind(t) ==
    /\ pc[t] = "kind"
    /\ KindOf[req[t].ep][Active(Iface(t))] \notin Kinds
    /\ Return(t)
    /\ UNCHANGED <<devVars, cacheVars, histVars>>

LookupEndpoint(t) ==
    /\ pc[t] = "lookup"
    /\ hnd' = [hnd EXCEPT ![t] = eps[req[t].ep]]
    /\ GoTo(t, IF eps[req[t].ep] = None THEN "iface" ELSE "transfer")
    /\ UNCHANGED <<devVars, cacheVars, req, kind, ifc, histVars>>

\* The endpoint as the current setting of the Interface at hand describes it.
Describes(t) == KindOf[req[t].ep][selected[Iface(t)]] = kind[t]

\* iface.endpoint(): whether a stale Interface can still open one is left open.
OpenEndpoint(t) ==
    /\ pc[t] = "open"
    /\ ifc[t] = epoch => Describes(t)
    /\ hnd' = [hnd EXCEPT ![t] =
                 [epoch |-> ifc[t], alt |-> selected[Iface(t)], kind |-> kind[t]]]
    /\ GoTo(t, "insert")
    /\ UNCHANGED <<devVars, cacheVars, req, kind, ifc, histVars>>

OpenFails(t) ==
    /\ pc[t] = "open"
    /\ ifc[t] # epoch \/ ~Describes(t) \/ "open" \in Faults
    /\ Return(t)
    /\ UNCHANGED <<devVars, cacheVars, histVars>>

\* or_insert: the first handle stays, the closure goes on with it.
InsertEndpoint(t) ==
    LET e == req[t].ep
        h == IF eps[e] = None THEN hnd[t] ELSE eps[e]
    IN
    /\ pc[t] = "insert"
    /\ eps' = [eps EXCEPT ![e] = h]
    /\ hnd' = [hnd EXCEPT ![t] = h]
    /\ GoTo(t, "transfer")
    /\ UNCHANGED <<devVars, ifaces, alts, req, kind, ifc, histVars>>

\* The transfer, with whatever result.
Transfer(t) ==
    /\ pc[t] = "transfer"
    /\ Return(t)
    /\ UNCHANGED <<devVars, cacheVars, histVars>>

-----------------------------------------------------------------------------
ConfigStep(t) ==
    \/ ClearEndpoints(t)
    \/ ClearInterfaces(t)
    \/ ClearSettings(t)
    \/ Configure(t)
    \/ ConfigureFails(t)

AltStep(t) ==
    \/ Invalidate(t)
    \/ Select(t)
    \/ SelectFails(t)
    \/ NoteSetting(t)

InterfaceStep(t) ==
    \/ LookupInterface(t)
    \/ Claim(t)
    \/ ClaimFails(t)
    \/ SelectZero(t)
    \/ SelectZeroFails(t)
    \/ KeepInterface(t)

DataStep(t) ==
    \/ FindKind(t)
    \/ NoKind(t)
    \/ LookupEndpoint(t)
    \/ OpenEndpoint(t)
    \/ OpenFails(t)
    \/ InsertEndpoint(t)
    \/ Transfer(t)

Next ==
    \E t \in Threads :
        \/ \E r \in Requests : Start(t, r)
        \/ ConfigStep(t)
        \/ AltStep(t)
        \/ InterfaceStep(t)
        \/ DataStep(t)

Spec == Init /\ [][Next]_vars

-----------------------------------------------------------------------------
(***************************************************************************)
(* Properties                                                              *)
(***************************************************************************)

Slot(S) == S \cup {None}

\* Every variable has its type.
TypeOK ==
    /\ epoch \in Epochs
    /\ selected \in [Ifaces -> Alts]
    /\ ifaces \in [Ifaces -> Slot(Epochs)]
    /\ alts \in [Ifaces -> Slot(Alts)]
    /\ eps \in [Eps -> Slot(Handles)]
    /\ pc \in [Threads -> PcStates]
    /\ req \in [Threads -> Slot(Requests)]
    /\ kind \in [Threads -> Slot(Kinds)]
    /\ ifc \in [Threads -> Slot(Epochs)]
    /\ hnd \in [Threads -> Slot(Handles)]
    /\ solo \in Slot(Threads)
    /\ disturbed \in BOOLEAN

\* A handle of the endpoint e that the device serves as it is configured now.
Fits(h, e) == h.epoch = epoch /\ h.alt = selected[IfaceOf[e]]

\* The caches describe the device.
InSync ==
    /\ \A i \in Ifaces : ifaces[i] # None => ifaces[i] = epoch /\ selected[i] = Active(i)
    /\ \A e \in Eps : eps[e] # None => Fits(eps[e], e)

\* control_transfer: "nusb's interface and endpoint state is kept in sync":
\* whatever fails in whatever order, between requests that reconfigure the
\* device its caches describe it, unless such a request has overlapped another
\* one or an ignored failure left another setting selected; and then the next
\* SET_CONFIGURATION that runs alone repairs them.
SyncUnlessDisturbed == ~disturbed /\ ~Setting => InSync

\* control_transfer: transfers would otherwise "fail or target the wrong alt":
\* an undisturbed transfer uses an endpoint of the configuration and setting
\* that the device has selected, of the type that setting gives it.
TransferFits ==
    \A t \in Threads :
        pc[t] = "transfer" /\ ~disturbed =>
            /\ Fits(hnd[t], req[t].ep)
            /\ hnd[t].kind = KindOf[req[t].ep][hnd[t].alt]

(***************************************************************************)
(* What the comments say and the code does not do                          *)
(***************************************************************************)

\* control_transfer: the interception keeps "nusb's interface and endpoint
\* state ... in sync with what the guest believes", whatever else runs.
CacheInSync == ~Setting => InSync
=============================================================================
