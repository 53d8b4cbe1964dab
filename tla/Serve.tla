-------------------------------- MODULE Serve --------------------------------
(***************************************************************************)
(* `usbipd daemon` as a client meets it (crates/usbipd/src/daemon.rs,      *)
(* main.rs): the socket path that instances of the daemon bind and remove, *)
(* the dispatch of handle_session, the device list, the import and its     *)
(* numbers, and the lengths in the replies to URBs.  It composes BusDev,   *)
(* Wire and Transfers; what sessions do to each other is in DeviceImport,  *)
(* and how URBs run is in UrbSession, so one client stands for all.        *)
(*                                                                         *)
(* The client is external: it reads what Wire encodes, keeps busnum and    *)
(* devnum in eight bits, as Linux's usbip does, and sends its URBs with    *)
(* them.                                                                   *)
(***************************************************************************)
EXTENDS Integers, FiniteSets, SequencesExt, BusDev, Wire, Transfers

CONSTANTS
    Instances,  \* processes started with the same --socket
    Sites,      \* where devices can be: a bus id and a port chain
    Addresses,  \* device addresses on a bus
    Products,   \* what can be plugged in
    MaxPlugged, \* bound on the devices plugged in at the same time
    AllowAll,   \* --allow-all
    Allow,      \* --allow
    IsRoot,     \* an import re-enumerates the device
    Lengths,    \* transfer_buffer_length, and what a SETUP packet asks for
    PacketSizes,\* of endpoints
    None

\* The name of a bus has no dash in it, ports count from 1, and a busid has
\* room in its field.
ASSUME ServeAssumption ==
    /\ Sites \subseteq [bus : Seq(Nat \ {0, Dash}), chain : Seq(NonZeroBytes)]
    /\ IsFiniteSet(Sites)
    /\ Addresses \subseteq Bytes
    /\ \A x \in Sites, a \in Addresses : Len(format_busid(x.bus, x.chain, a)) <= BusidWidth
    /\ Products \subseteq [vidpid : Nat, class : Nat, interfaces : Seq(Nat)]
    /\ \A p \in Products : Len(p.interfaces) <= MaxCount
    /\ MaxPlugged \in Nat
    /\ AllowAll => Allow = {}
    /\ IsRoot \in BOOLEAN
    /\ Lengths \subseteq Int
    /\ PacketSizes \subseteq Nat
    /\ {"none", "file", "stale"} \cap Instances = {}

ASSUME NoneAssumption == None \notin Nat \X Nat

VARIABLES
    node,       \* what is at the socket path
    exposed,    \* the instances that were past their check of the path, and
                \* could still remove what is there, when a file was put there
    inst,       \* where serve is, per instance
    host,       \* the device at each site
    conn,       \* where the client's session is
    srv,        \* the instance that serves it
    list,       \* the devices the client last read from OP_REP_DEVLIST
    shown,      \* the devices it should have read
    want,       \* the device the session imports: its busid and product
    devid,      \* what urb_loop expects
    told,       \* what the client has read from OP_REP_IMPORT
    urb         \* a URB of the session and its reply

pathVars == <<node, exposed, inst>>
listVars == <<list, shown>>
idVars   == <<want, devid, told, urb>>
vars == <<node, exposed, inst, host, conn, srv, list, shown, want, devid, told, urb>>

\* A stopped instance has exited, with or without an error, or was killed.
InstStates == {"off", "remove", "bind", "serving", "unlink", "exiting", "stopped"}
ConnStates == {"closed", "header", "opening", "urb"}

-----------------------------------------------------------------------------
(***************************************************************************)
(* Devices                                                                 *)
(***************************************************************************)
Placed == [product : Products, addr : Addresses]

Devices == [busid : Seq(Nat), busnum : Nat, devnum : Nat, class : Nat, interfaces : Seq(Nat)]

Busids == [x \in Sites |-> [a \in Addresses |-> format_busid(x.bus, x.chain, a)]]
BusDevs == [x \in Sites |-> [a \in Addresses |-> derive_bus_dev(x.bus, x.chain, a)]]

\* UsbDevice::from_info
UsbDevice(x, h) ==
    [busid |-> Busids[x][h.addr], busnum |-> BusDevs[x][h.addr][1],
     devnum |-> BusDevs[x][h.addr][2], class |-> h.product.class,
     interfaces |-> h.product.interfaces]

Plugged == {x \in Sites : host[x] # None}

\* AccessPolicy::permits, with the policy that main makes of the flags.
permits(p) == AllowAll \/ p.vidpid \in Allow

\* What handle_devlist lists: filter, then the hubs that encode_rep_devlist
\* leaves out.
Exported == {x \in Plugged : permits(host[x].product) /\ host[x].product.class # HUB_CLASS}

\* Fault: the hubs are counted, too.
CountAll(devices) == Cardinality({x \in Plugged : permits(host[x].product)})

Count(devices) == Len(devices)

encode_rep_devlist(devices) ==
    OpHeader(OP_REP_DEVLIST, 0) \o <<Count(devices)>> \o Encoded(devices)[Len(devices)]

\* The client reads as many devices as announced, or gives up.
Misread == <<None>>

ReadList(buf) ==
    LET st == Reads(SubSeq(buf, 5, Len(buf)), buf[4])[buf[4]]
    IN IF st.bad \/ st.rest # <<>> THEN Misread ELSE st.devs

\* An address that no other device of the bus has.
Free(x, a) == \A y \in Plugged \ {x} : y.bus = x.bus => host[y].addr # a

-----------------------------------------------------------------------------
Init ==
    /\ node \in {"none", "file", "stale"}
    /\ exposed = {}
    /\ inst = [i \in Instances |-> "off"]
    /\ host = [x \in Sites |-> None]
    /\ conn = "closed"
    /\ srv = None
    /\ list = None
    /\ shown = {}
    /\ want = None
    /\ devid = None
    /\ told = None
    /\ urb = None

-----------------------------------------------------------------------------
(***************************************************************************)
(* The host                                                                *)
(***************************************************************************)
\* A root hub, and nothing else, has no port chain.
Plug(x, h) ==
    /\ host[x] = None
    /\ Cardinality(Plugged) < MaxPlugged
    /\ Free(x, h.addr)
    /\ x.chain = <<>> => h.product.class = HUB_CLASS
    /\ host' = [host EXCEPT ![x] = h]
    /\ list' = None
    /\ shown' = {}
    /\ UNCHANGED <<pathVars, conn, srv, idVars>>

Unplug(x) ==
    /\ host[x] # None
    /\ host' = [host EXCEPT ![x] = None]
    /\ list' = None
    /\ shown' = {}
    /\ UNCHANGED <<pathVars, conn, srv, idVars>>

-----------------------------------------------------------------------------
(***************************************************************************)
(* The socket path: serve and accept_loop_unix                             *)
(***************************************************************************)
hostAndClient == <<host, conn, srv, listVars, idVars>>

\* Instances that will call remove_file, unless they are killed.
Removers == {i \in Instances : inst[i] \in {"remove", "serving", "unlink"}}

\* Somebody else puts a file at the path, in place of what was there.
PutFile ==
    /\ node # "file"
    /\ node' = "file"
    /\ exposed' = Removers
    /\ UNCHANGED <<inst, hostAndClient>>

\* Fault: whatever is at the path is taken for a leftover socket.
CheckAny(i) ==
    /\ inst[i] = "off"
    /\ inst' = [inst EXCEPT ![i] = IF node = "none" THEN "bind" ELSE "remove"]
    /\ UNCHANGED <<node, exposed, hostAndClient>>

\* symlink_metadata: "exists and is not a socket; refusing to overwrite"
CheckPath(i) ==
    /\ inst[i] = "off"
    /\ inst' = [inst EXCEPT ![i] = CASE node = "file" -> "stopped"
                                     [] node = "none" -> "bind"
                                     [] OTHER         -> "remove"]
    /\ UNCHANGED <<node, exposed, hostAndClient>>

\* remove_file, whatever is at the path by now
RemoveLeftover(i) ==
    /\ inst[i] = "remove"
    /\ node' = "none"
    /\ exposed' = {}
    /\ inst' = [inst EXCEPT ![i] = "bind"]
    /\ UNCHANGED hostAndClient

\* The error is ignored.
RemoveLeftoverFails(i) ==
    /\ inst[i] = "remove"
    /\ inst' = [inst EXCEPT ![i] = "bind"]
    /\ UNCHANGED <<node, exposed, hostAndClient>>

Bind(i) ==
    /\ inst[i] = "bind"
    /\ node' = IF node = "none" THEN i ELSE node
    /\ inst' = [inst EXCEPT ![i] = IF node = "none" THEN "serving" ELSE "stopped"]
    /\ UNCHANGED <<exposed, hostAndClient>>

\* The session that i serves, if any, is dropped.
DropSession(i) ==
    /\ conn' = IF srv = i THEN "closed" ELSE conn
    /\ srv' = IF srv = i THEN None ELSE srv
    /\ want' = IF srv = i THEN None ELSE want
    /\ devid' = IF srv = i THEN None ELSE devid
    /\ told' = IF srv = i THEN None ELSE told
    /\ urb' = IF srv = i THEN None ELSE urb

\* SIGINT or SIGTERM: no more connections are accepted.
Signal(i) ==
    /\ inst[i] = "serving"
    /\ inst' = [inst EXCEPT ![i] = "unlink"]
    /\ UNCHANGED <<node, exposed, hostAndClient>>

\* Fault: the socket stays.
UnlinkNothing(i) ==
    /\ inst[i] = "unlink"
    /\ inst' = [inst EXCEPT ![i] = "exiting"]
    /\ UNCHANGED <<node, exposed, hostAndClient>>

\* remove_file, whatever is at the path by now
UnlinkSocket(i) ==
    /\ inst[i] = "unlink"
    /\ node' = "none"
    /\ exposed' = {}
    /\ inst' = [inst EXCEPT ![i] = "exiting"]
    /\ UNCHANGED hostAndClient

\* The error is ignored; the listener is closed all the same.
UnlinkFails(i) ==
    /\ inst[i] = "unlink"
    /\ node' = IF node = i THEN "stale" ELSE node
    /\ inst' = [inst EXCEPT ![i] = "exiting"]
    /\ UNCHANGED <<exposed, hostAndClient>>

\* Captured devices are released (see DeviceImport), and the sessions end with
\* the runtime.
Exit(i) ==
    /\ inst[i] = "exiting"
    /\ inst' = [inst EXCEPT ![i] = "stopped"]
    /\ DropSession(i)
    /\ UNCHANGED <<node, exposed, host, listVars>>

Kill(i) ==
    /\ inst[i] = "serving"
    /\ inst' = [inst EXCEPT ![i] = "stopped"]
    /\ node' = IF node = i THEN "stale" ELSE node
    /\ DropSession(i)
    /\ UNCHANGED <<exposed, host, listVars>>

-----------------------------------------------------------------------------
(***************************************************************************)
(* handle_session                                                          *)
(***************************************************************************)
Connect ==
    /\ conn = "closed"
    /\ node \in Instances
    /\ inst[node] = "serving"
    /\ conn' = "header"
    /\ srv' = node
    /\ UNCHANGED <<pathVars, host, listVars, idVars>>

Close ==
    /\ conn' = "closed"
    /\ srv' = None
    /\ want' = None
    /\ devid' = None
    /\ told' = None
    /\ urb' = None

\* The client leaves, sends a header with another version or code or a URB
\* with another devid, or a call fails: the session ends, with an error reply
\* or with none.
SessionEnds ==
    /\ conn # "closed"
    /\ Close
    /\ UNCHANGED <<pathVars, host, listVars>>

\* OP_REQ_DEVLIST
Devlist ==
    LET devices == SetToSeq({UsbDevice(x, host[x]) : x \in Exported}) IN
    /\ conn = "header"
    /\ list' = ReadList(encode_rep_devlist(devices))
    /\ shown' = {UsbDevice(x, host[x]) : x \in Exported}
    /\ Close
    /\ UNCHANGED <<pathVars, host>>

\* devices.into_iter().find(|d| d.busid == busid)
Found(busid) == {x \in Plugged : Busids[x][host[x].addr] = busid}

\* The busid as it arrives from a client that asks for b.
Requested(b) == decode_req_import_busid(write_fixed_str(b, BusidWidth))

\* Fault: the policy is not asked.
ImportAny(b) ==
    /\ conn = "header"
    /\ \E x \in Found(Requested(b)) :
         want' = [busid |-> Requested(b), product |-> host[x].product]
    /\ conn' = "opening"
    /\ UNCHANGED <<pathVars, host, srv, listVars, devid, told, urb>>

\* OP_REQ_IMPORT
ImportFind(b) ==
    /\ conn = "header"
    /\ \E x \in Found(Requested(b)) :
         /\ permits(host[x].product)
         /\ want' = [busid |-> Requested(b), product |-> host[x].product]
    /\ conn' = "opening"
    /\ UNCHANGED <<pathVars, host, srv, listVars, devid, told, urb>>

\* OpenedDevice::open: as root, the device is re-enumerated and may come back
\* with another address; it is found again by its busid and opened, and the
\* reply takes its numbers from it and its class from the first listing.
OpenAndReply(x, a) ==
    LET d     == UsbDevice(x, [host[x] EXCEPT !.addr = a])
        reply == encode_rep_import_ok([d EXCEPT !.class = want.product.class])
        seen  == DeviceOf(SubSeq(reply, 4, Len(reply)), <<>>)
    IN
    /\ conn = "opening"
    /\ x \in Found(want.busid)
    /\ a = host[x].addr \/ (IsRoot /\ Free(x, a))
    /\ d.busid = want.busid
    /\ host' = [host EXCEPT ![x].addr = a]
    /\ devid' = <<d.busnum, d.devnum>>
    /\ told' = <<seen.busnum % 256, seen.devnum % 256>>
    /\ conn' = "urb"
    /\ UNCHANGED <<pathVars, srv, listVars, want, urb>>

-----------------------------------------------------------------------------
(***************************************************************************)
(* URBs: the devid check of urb_loop, and the lengths of run_submit.  No   *)
(* reply depends on other URBs, so one per session is bound enough.        *)
(***************************************************************************)
CanSubmit == conn = "urb" /\ told = devid /\ urb = None

Outcome(dirIn, length, mps, asked, reply) ==
    /\ urb' = [dirIn |-> dirIn, tbl |-> BufferLength(length), mps |-> mps,
               asked |-> asked, reply |-> reply]
    /\ UNCHANGED <<pathVars, host, conn, srv, listVars, want, devid, told>>

\* data_transfer, IN: the device answers with up to what it was asked for.
DataIn(length, mps) ==
    LET tbl   == BufferLength(length)
        asked == padded_len(tbl, mps)
    IN \E n \in 0..asked :
         LET u == usable(tbl, n)
         IN Outcome(TRUE, length, mps, asked, Reply(TRUE, tbl, u, u))

\* data_transfer, OUT: the device may accept less than it was sent.
DataOut(length) ==
    LET tbl == BufferLength(length) IN
    \E n \in 0..tbl : Outcome(FALSE, length, None, None, Reply(FALSE, tbl, n, 0))

\* control_transfer: the SETUP packet has a direction and a length of its own.
Control(dirIn, length, setupIn, wLength) ==
    LET tbl == BufferLength(length) IN
    \E n \in 0..(IF setupIn THEN BufferLength(wLength) ELSE 0) :
        Outcome(dirIn, length, None, None,
                Reply(dirIn, tbl, IF dirIn THEN n ELSE tbl, n))

TransferFails(dirIn, length) == Outcome(dirIn, length, None, None, ErrorReply)

-----------------------------------------------------------------------------
HostStep ==
    \E x \in Sites : Unplug(x) \/ \E h \in Placed : Plug(x, h)

PathStep(i) ==
    \/ CheckPath(i)
    \/ RemoveLeftover(i)
    \/ RemoveLeftoverFails(i)
    \/ Bind(i)
    \/ Signal(i)
    \/ UnlinkSocket(i)
    \/ UnlinkFails(i)
    \/ Exit(i)
    \/ Kill(i)

SessionStep ==
    \/ Connect
    \/ SessionEnds
    \/ Devlist
    \/ \E x \in Sites, a \in Addresses : ImportFind(Busids[x][a])
    \/ \E x \in Sites, a \in Addresses : OpenAndReply(x, a)

UrbStep ==
    /\ CanSubmit
    /\ \E n \in Lengths, dirIn \in BOOLEAN :
           \/ dirIn /\ \E mps \in PacketSizes : DataIn(n, mps)
           \/ ~dirIn /\ DataOut(n)
           \/ \E setupIn \in BOOLEAN, w \in Lengths : Control(dirIn, n, setupIn, w)
           \/ TransferFails(dirIn, n)

Next ==
    \/ HostStep
    \/ PutFile
    \/ \E i \in Instances : PathStep(i)
    \/ SessionStep
    \/ UrbStep

Spec == Init /\ [][Next]_vars

-----------------------------------------------------------------------------
(***************************************************************************)
(* Properties                                                              *)
(***************************************************************************)

\* Every variable has its type.
TypeOK ==
    /\ node \in Instances \cup {"none", "file", "stale"}
    /\ exposed \subseteq Instances
    /\ inst \in [Instances -> InstStates]
    /\ host \in [Sites -> Placed \cup {None}]
    /\ conn \in ConnStates
    /\ srv \in Instances \cup {None}
    /\ list \in Seq(Devices) \cup {None}
    /\ shown \subseteq Devices
    /\ (conn = "urb") = (devid # None)
    /\ (devid = None) = (told = None)

\* handle_devlist: a client that follows the counts and sizes of the message
\* reads exactly the devices the policy permits, hubs left out, each with its
\* own busid, numbers and interfaces.
ListReadsBack ==
    list # None => /\ ToSet(list) = shown
                   /\ Len(list) = Cardinality(shown)

\* handle_import: a busid read from the list names the device listed under it
\* and no other, and the policy permits to import it.
ListedIsImportable ==
    \A x \in Exported :
        LET b == decode(encode(UsbDevice(x, host[x]))).busid
        IN Found(Requested(b)) = {x} /\ permits(host[x].product)

\* derive_bus_dev: "Both halves must fit in `u8`": the URBs of a client that
\* keeps eight bits of each pass the check of urb_loop.
DevidAccepted == conn = "urb" => told = devid /\ 0 \notin {told[1], told[2]}

\* data_transfer: "nusb requires IN bulk/interrupt reads to be a non-zero
\* multiple of the endpoint's `wMaxPacketSize`", which must hold what the
\* client asked for.
AsksWholePackets ==
    urb # None /\ urb.asked # None =>
        /\ urb.asked >= urb.tbl
        /\ urb.mps > 0 => urb.asked > 0 /\ urb.asked % urb.mps = 0

\* run_submit: a reply carries as much data as it announces, for an IN only,
\* and never more than the client's buffer holds.
ReplyFits ==
    urb # None =>
        /\ urb.reply.payload = IF urb.dirIn THEN urb.reply.actual_length ELSE 0
        /\ urb.reply.actual_length \in 0..urb.tbl

\* serve: instances that share a path, in whatever order they start and stop,
\* have removed every socket they were bound to by the time they release their
\* devices and exit, unless they are killed or the removal fails ("stale").
PathCleanedUp ==
    (\A i \in Instances : inst[i] \in {"off", "exiting", "stopped"}) => node \notin Instances

\* "Hard-fail if the path exists but is not a socket": a file at the path, put
\* there at any time, is removed by no instance that starts later or has yet to
\* bind, whatever other instances do to the path in between.
FileOutlivesStarts ==
    [][node = "file" /\ node' # "file" =>
         \E i \in exposed : inst[i] \in {"remove", "unlink"} /\ inst'[i] # inst[i]]_vars

(***************************************************************************)
(* What the comments say and the code does not do                          *)
(***************************************************************************)

\* derive_bus_dev: the numbers are "stable", "so that clients see the same id
\* between `OP_REP_DEVLIST` and `OP_REP_IMPORT`".
DevidStable ==
    conn = "urb" /\ list # None =>
        \A d \in ToSet(list) : d.busid = want.busid => <<d.busnum, d.devnum>> = told

\* serve: "Remove any leftover socket from a previous run": an instance that
\* serves can be reached.
ServingIsReachable == \A i \in Instances : inst[i] = "serving" => node = i

\* serve: "we don't want to overwrite a regular file".
FileKept == [][node = "file" => node' = "file"]_vars
=============================================================================
