-------------------------- MODULE EndpointCacheInv --------------------------
(***************************************************************************)
(* The inductive invariant behind the theorems on EndpointCache.           *)
(***************************************************************************)
EXTENDS EndpointCache

ConfigPc == {"endpoints", "interfaces", "settings", "configure"}
AltPc    == {"invalidate", "select", "note"}
DataPc   == {"kind", "lookup", "open", "insert", "transfer"}
EnsurePc == {"iface", "claim", "alt0", "keep"}

\* A closure is where its request can take it, with the locals it needs there.
LocalOK(t) ==
    /\ pc[t] # "idle" => req[t] \in Requests
    /\ pc[t] \in ConfigPc => req[t].op = "config"
    /\ pc[t] \in AltPc => req[t].op = "alt"
    /\ pc[t] \in DataPc => req[t].op = "data"
    /\ pc[t] \in EnsurePc => req[t].op \in {"alt", "data"}
    /\ pc[t] \in EnsurePc \cup {"lookup", "open"} /\ req[t].op = "data" => kind[t] \in Kinds
    /\ pc[t] \in {"alt0", "keep", "select", "open"} => ifc[t] \in Epochs
    /\ pc[t] \in {"insert", "transfer"} => hnd[t] \in Handles

Locals == \A t \in Threads : LocalOK(t)

\* Only t is at work.
Alone(t) == \A u \in Threads : Busy(u) => u = t

\* Undisturbed, a request that reconfigures the device has it for itself.
SetsAlone ==
    ~disturbed => \A t \in Threads : Busy(t) /\ IsSet(req[t]) => Alone(t)

\* So has a SET_CONFIGURATION that is on record as such, and nothing can fill
\* the caches again that it has cleared.
SoloClears ==
    solo # None =>
        /\ pc[solo] \in ConfigPc
        /\ Alone(solo)
        /\ pc[solo] # "endpoints" => \A e \in Eps : eps[e] = None
        /\ pc[solo] \in {"settings", "configure"} => \A i \in Ifaces : ifaces[i] = None
        /\ pc[solo] = "configure" => \A i \in Ifaces : alts[i] = None

\* What a closure relies on while nothing disturbs it.
ThreadSync(t) ==
    /\ pc[t] \in ConfigPc => solo = t
    /\ pc[t] \in {"alt0", "keep", "select", "open"} => ifc[t] = epoch
    /\ pc[t] \in {"claim", "alt0", "keep"} => alts[Iface(t)] = None
    /\ pc[t] = "keep" => selected[Iface(t)] = 0
    /\ pc[t] \in {"select", "note", "open", "insert", "transfer"} => ifaces[Iface(t)] # None
    /\ pc[t] = "note" => selected[req[t].iface] = req[t].alt
    /\ pc[t] \in EnsurePc \cup {"select", "note"} /\ req[t].op = "alt" =>
         \A e \in Eps : IfaceOf[e] = req[t].iface => eps[e] = None
    /\ pc[t] \in {"insert", "transfer"} =>
         Fits(hnd[t], req[t].ep) /\ hnd[t].kind = KindOf[req[t].ep][hnd[t].alt]

\* A setting that the device has selected and alt_settings does not have yet.
Unnoted(i) == \E t \in Threads : pc[t] = "note" /\ req[t].iface = i

\* What the caches say while nothing disturbs them.
IfaceSync(i) ==
    /\ ifaces[i] # None => ifaces[i] = epoch /\ (selected[i] = Active(i) \/ Unnoted(i))
    /\ alts[i] # None /\ solo = None => ifaces[i] # None

EpSync(e) ==
    eps[e] # None =>
        /\ ifaces[IfaceOf[e]] # None
        /\ Fits(eps[e], e)
        /\ eps[e].kind = KindOf[e][eps[e].alt]

Sync ==
    ~disturbed =>
        /\ \A t \in Threads : ThreadSync(t)
        /\ \A i \in Ifaces : IfaceSync(i)
        /\ \A e \in Eps : EpSync(e)

\* The inductive invariant of control_transfer and data_transfer: locals,
\* requests that run alone, and caches that describe the device unless
\* disturbed.
IInv ==
    /\ TypeOK
    /\ Locals
    /\ SetsAlone
    /\ SoloClears
    /\ Sync
=============================================================================
