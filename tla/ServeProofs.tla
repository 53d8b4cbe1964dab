----------------------------- MODULE ServeProofs -----------------------------
(***************************************************************************)
(* The daemon as a client meets it, for any hosts, products, policies and  *)
(* number of instances.                                                    *)
(***************************************************************************)
EXTENDS ServeInv, TransfersProofs, WireProofs, FiniteSetTheorems

-----------------------------------------------------------------------------
(***************************************************************************)
(* Devices                                                                 *)
(***************************************************************************)

\* A site and an address have a busid.
LEMMA SiteType ==
    ASSUME NEW x \in Sites
    PROVE  /\ x.bus \in Seq(Nat \ {Dash}) /\ x.bus \in Seq(Char) /\ x.bus \in Seq(Nat)
           /\ x.chain \in Seq(NonZeroBytes)
           /\ x = [bus |-> x.bus, chain |-> x.chain]
<1>1. PICK S : S = Nat \ {0, Dash}
  BY Zenon
<1>2. Sites \subseteq [bus : Seq(S), chain : Seq(NonZeroBytes)]
  BY <1>1, ServeAssumption, Zenon
<1>3. /\ x.bus \in Seq(S) /\ x.chain \in Seq(NonZeroBytes)
      /\ x = [bus |-> x.bus, chain |-> x.chain]
  BY <1>2, SMT
<1>4. S \subseteq Nat \ {Dash} /\ S \subseteq Char /\ S \subseteq Nat
  BY <1>1, SMT DEF Char
<1>. QED
  BY <1>3, <1>4, SeqMonotonic, Zenon

\* format_busid and derive_bus_dev at a site: what the tables of Serve hold.
LEMMA BusidOf ==
    ASSUME NEW x \in Sites, NEW a \in Addresses
    PROVE  /\ Busids[x][a] = format_busid(x.bus, x.chain, a)
           /\ Busids[x][a] \in Seq(Char) /\ Len(Busids[x][a]) <= BusidWidth
           /\ BusDevs[x][a] = derive_bus_dev(x.bus, x.chain, a)
           /\ BusDevs[x][a] \in NonZeroBytes \X NonZeroBytes
<1>1. Busids[x][a] = format_busid(x.bus, x.chain, a)
  BY Zenon DEF Busids
<1>2. BusDevs[x][a] = derive_bus_dev(x.bus, x.chain, a)
  BY Zenon DEF BusDevs
<1>3. BusDevs[x][a] \in NonZeroBytes \X NonZeroBytes
  BY <1>2, SiteType, NumbersFit, Zenon
<1>4. Busids[x][a] \in Seq(Char)
  <2>1. Char \subseteq Nat /\ Dash \in Char /\ Dot \in Char /\ 48..57 \subseteq Char
    BY SMT DEF Char, Dash, Dot
  <2>2. a \in Bytes
    BY ServeAssumption, Zenon
  <2>3. x.chain \in Seq(Bytes)
    <3>1. NonZeroBytes \subseteq Bytes
      BY SMT DEF Bytes, NonZeroBytes
    <3>. QED
      BY <3>1, SiteType, SeqMonotonic, Zenon
  <2>4. x.bus \in Seq(Char)
    BY SiteType, Zenon
  <2>. QED
    BY <1>1, <2>1, <2>2, <2>3, <2>4, BusidType, Zenon
<1>5. Len(Busids[x][a]) <= BusidWidth
  BY <1>1, ServeAssumption, Zenon
<1>. QED
  BY <1>1, <1>2, <1>3, <1>4, <1>5, Zenon

\* UsbDevice::from_info: whatever is plugged in has room in its record.
LEMMA UsbDeviceFits ==
    ASSUME NEW x \in Sites, NEW h \in Placed
    PROVE  /\ UsbDevice(x, h) \in Fits
           /\ UsbDevice(x, h).busid = Busids[x][h.addr]
           /\ UsbDevice(x, h).busnum \in NonZeroBytes
           /\ UsbDevice(x, h).devnum \in NonZeroBytes
<1>1. h.addr \in Addresses /\ h.product \in Products
  BY DEF Placed
<1>2. /\ h.product.class \in Nat /\ h.product.interfaces \in Seq(Nat)
      /\ Len(h.product.interfaces) <= MaxCount
  <2>1. PICK p \in Products : p = h.product
    BY <1>1, Zenon
  <2>2. p \in [vidpid : Nat, class : Nat, interfaces : Seq(Nat)] /\ Len(p.interfaces) <= MaxCount
    BY ServeAssumption, Zenon
  <2>. QED
    BY <2>1, <2>2, SMT
<1>3. /\ Busids[x][h.addr] \in Seq(Char) /\ Len(Busids[x][h.addr]) <= BusidWidth
      /\ BusDevs[x][h.addr] \in NonZeroBytes \X NonZeroBytes
  BY <1>1, BusidOf, Zenon
<1>4. PICK d : d = UsbDevice(x, h)
  BY Zenon
<1>5. /\ d.busid = Busids[x][h.addr] /\ d.class = h.product.class
      /\ d.interfaces = h.product.interfaces
      /\ d.busnum = BusDevs[x][h.addr][1] /\ d.devnum = BusDevs[x][h.addr][2]
      /\ d = [busid |-> d.busid, busnum |-> d.busnum, devnum |-> d.devnum,
              class |-> d.class, interfaces |-> d.interfaces]
  BY <1>4 DEF UsbDevice
<1>6. d.busnum \in NonZeroBytes /\ d.devnum \in NonZeroBytes
  <2>1. PICK p \in NonZeroBytes \X NonZeroBytes : p = BusDevs[x][h.addr]
    BY <1>3, Zenon
  <2>2. p[1] \in NonZeroBytes /\ p[2] \in NonZeroBytes
    OBVIOUS
  <2>. QED
    BY <1>5, <2>1, <2>2, Zenon
<1>7. d.busnum \in Nat /\ d.devnum \in Nat
  BY <1>6, SMT DEF NonZeroBytes
<1>8. d \in Device
  <2>1. d.busid \in Seq(Char) /\ d.class \in Nat /\ d.interfaces \in Seq(Nat)
    BY <1>2, <1>3, <1>5, Zenon
  <2>. QED
    BY <1>5, <1>7, <2>1, Zenon DEF Device
<1>9. Len(d.busid) <= BusidWidth /\ Len(d.interfaces) <= MaxCount
  BY <1>2, <1>3, <1>5, Zenon
<1>. QED
  BY <1>4, <1>5, <1>6, <1>8, <1>9, Zenon DEF Fits

\* Only one site has a given busid.
LEMMA OneSite ==
    ASSUME NEW x \in Sites, NEW a \in Addresses, NEW y \in Sites, NEW b \in Addresses,
           Busids[x][a] = Busids[y][b]
    PROVE  x = y
<1>1. IsSite(x.bus, x.chain, a) /\ IsSite(y.bus, y.chain, b)
  BY ServeAssumption, SiteType, Zenon DEF IsSite
<1>2. format_busid(x.bus, x.chain, a) = format_busid(y.bus, y.chain, b)
  <2>1. /\ Busids[x][a] = format_busid(x.bus, x.chain, a)
        /\ Busids[y][b] = format_busid(y.bus, y.chain, b)
    BY BusidOf, Zenon
  <2>. QED
    BY <2>1, Zenon
<1>3. x.bus = y.bus /\ x.chain = y.chain
  BY <1>1, <1>2, SameSite
<1>4. x = [bus |-> x.bus, chain |-> x.chain] /\ y = [bus |-> y.bus, chain |-> y.chain]
  BY SiteType, Zenon
<1>5. [bus |-> x.bus, chain |-> x.chain] = [bus |-> y.bus, chain |-> y.chain]
  BY <1>3, Zenon
<1>. QED
  BY <1>4, <1>5

-----------------------------------------------------------------------------
(***************************************************************************)
(* The device list                                                         *)
(***************************************************************************)

\* SetToSeq lists every element of a finite set once.
LEMMA SetToSeqListsAll ==
    ASSUME NEW S, IsFiniteSet(S)
    PROVE  /\ SetToSeq(S) \in Seq(S)
           /\ ToSet(SetToSeq(S)) = S
           /\ Len(SetToSeq(S)) = Cardinality(S)
<1>. DEFINE n == Cardinality(S)
            g == SetToSeq(S)
<1>1. n \in Nat /\ ExistsBijection(1..n, S)
  BY FS_CardinalityType, Zenon
<1>2. PICK f \in [1..n -> S] : IsInjective(f)
  BY <1>1, Zenon DEF ExistsBijection, Bijection, Injection
<1>3. g \in [1..n -> S] /\ IsInjective(g)
  BY <1>2, Zenon DEF SetToSeq
<1>4. g \in Injection(1..n, S)
  BY <1>3, Zenon DEF Injection
<1>5. IsFiniteSet(1..n) /\ Cardinality(1..n) = n
  <2>. HIDE DEF n
  <2>1. 1 \in Int /\ n \in Int /\ (IF 1 > n THEN 0 ELSE n - 1 + 1) = n
    BY <1>1
  <2>. QED
    BY <2>1, FS_Interval, Zenon
<1>6. g \in Surjection(1..n, S)
  BY <1>4, <1>5, FS_Injection, Zenon
<1>. HIDE DEF n, g
<1>7. g \in Seq(S) /\ Len(g) = n /\ DOMAIN g = 1..n
  BY <1>1, <1>3
<1>8. ToSet(g) = S
  BY <1>3, <1>6, <1>7, Zenon DEF Surjection, ToSet
<1>. QED
  BY <1>7, <1>8, Zenon DEF n, g

\* handle_devlist: a client reads the list that was written.
LEMMA ListRoundTrip ==
    ASSUME NEW devices \in Seq(Fits)
    PROVE  ReadList(encode_rep_devlist(devices)) = devices
<1>. DEFINE n == Len(devices)
            body == Encoded(devices)[n]
            buf == encode_rep_devlist(devices)
<1>1. n \in Nat /\ n \in 0..n
  OBVIOUS
<1>2. body \in Seq(Nat)
  BY <1>1, EncodedDef, Zenon
<1>3. buf = OpHeader(OP_REP_DEVLIST, 0) \o <<n>> \o body
  BY Zenon DEF encode_rep_devlist, Count
<1>4. Reads(body, n)[n] = [bad |-> FALSE, rest |-> <<>>, devs |-> devices]
  BY RecordsReadBack, Zenon
<1>. HIDE DEF n, body, buf
<1>5. buf[4] = n /\ SubSeq(buf, 5, Len(buf)) = body
  BY <1>1, <1>2, <1>3, ListMessage, Zenon
<1>6. PICK st : st = Reads(SubSeq(buf, 5, Len(buf)), buf[4])[buf[4]]
  BY Zenon
<1>7. st.bad = FALSE /\ st.rest = <<>> /\ st.devs = devices
  <2>1. st = [bad |-> FALSE, rest |-> <<>>, devs |-> devices]
    BY <1>4, <1>5, <1>6, Zenon
  <2>. QED
    BY <2>1
<1>8. ReadList(buf) = devices
  BY <1>6, <1>7, Zenon DEF ReadList
<1>. QED
  BY <1>8, Zenon DEF buf

\* The devices to list are finitely many, and each has room in its record.
LEMMA ListedFit ==
    ASSUME host \in [Sites -> Placed \cup {None}]
    PROVE  LET S == {UsbDevice(x, host[x]) : x \in Exported}
           IN  IsFiniteSet(S) /\ S \subseteq Fits
<1>. DEFINE S == {UsbDevice(x, host[x]) : x \in Exported}
            f == [x \in Exported |-> UsbDevice(x, host[x])]
<1>1. Exported \subseteq Sites /\ \A x \in Exported : host[x] \in Placed
  BY Zenon DEF Exported, Plugged
<1>2. S \subseteq Fits
  <2>1. ASSUME NEW x \in Exported PROVE UsbDevice(x, host[x]) \in Fits
    <3>1. PICK h \in Placed : h = host[x]
      BY <1>1, Zenon
    <3>. QED
      BY <1>1, <3>1, UsbDeviceFits, Zenon
  <2>. QED
    BY <2>1, Zenon
<1>3. IsFiniteSet(Exported)
  BY <1>1, ServeAssumption, FS_Subset, Zenon
<1>4. f \in Surjection(Exported, S)
  BY Zenon DEF Surjection
<1>. HIDE DEF f, S
<1>5. IsFiniteSet(S)
  BY <1>3, <1>4, FS_Surjection, Zenon
<1>. QED
  BY <1>2, <1>5, Zenon DEF S

\* OP_REQ_DEVLIST: what the client reads is what it should have read.
LEMMA DevlistReadsBack ==
    ASSUME host \in [Sites -> Placed \cup {None}], Devlist
    PROVE  /\ list' \in Seq(Fits) /\ shown' \subseteq Fits
           /\ ToSet(list') = shown' /\ Len(list') = Cardinality(shown')
<1>. DEFINE S == {UsbDevice(x, host[x]) : x \in Exported}
<1>1. IsFiniteSet(S) /\ S \subseteq Fits
  BY ListedFit, Zenon
<1>2. list' = ReadList(encode_rep_devlist(SetToSeq(S))) /\ shown' = S
  BY Zenon DEF Devlist
<1>. HIDE DEF S
<1>3. PICK s \in Seq(S) : s = SetToSeq(S) /\ ToSet(s) = S /\ Len(s) = Cardinality(S)
  BY <1>1, SetToSeqListsAll, Zenon
<1>4. s \in Seq(Fits)
  BY <1>1, <1>3, SeqMonotonic, Zenon
<1>5. list' = s
  BY <1>2, <1>3, <1>4, ListRoundTrip, Zenon
<1>. QED
  BY <1>1, <1>2, <1>3, <1>4, <1>5, Zenon

-----------------------------------------------------------------------------
(***************************************************************************)
(* The inductive invariant, by the variables its conjuncts are about       *)
(***************************************************************************)
PathInv ==
    /\ node \in Instances \cup {"none", "file", "stale"}
    /\ exposed \subseteq Instances
    /\ inst \in [Instances -> InstStates]
    /\ SocketOwned
    /\ FileSeen

HostInv == host \in [Sites -> Placed \cup {None}]

ListInv ==
    /\ list \in Seq(Devices) \cup {None}
    /\ shown \subseteq Devices
    /\ ListReadsBack

SessionInv ==
    /\ conn \in ConnStates
    /\ srv \in Instances \cup {None}
    /\ (conn = "urb") = (devid # None)
    /\ (devid = None) = (told = None)
    /\ LookedUp
    /\ DevidAccepted

UrbInv == AsksWholePackets /\ ReplyFits

\* The parts make up the invariant, now ...
LEMMA Parts == IInv <=> PathInv /\ HostInv /\ ListInv /\ SessionInv /\ UrbInv
BY Zenon DEF IInv, TypeOK, PathInv, HostInv, ListInv, SessionInv, UrbInv

\* ... and after a step.
LEMMA PartsNext == IInv' <=> PathInv' /\ HostInv' /\ ListInv' /\ SessionInv' /\ UrbInv'
BY Zenon DEF IInv, TypeOK, PathInv, HostInv, ListInv, SessionInv, UrbInv

\* What a step leaves alone keeps its invariant.
LEMMA Untouched ==
    /\ PathInv /\ UNCHANGED pathVars => PathInv'
    /\ HostInv /\ UNCHANGED host => HostInv'
    /\ ListInv /\ UNCHANGED listVars => ListInv'
    /\ SessionInv /\ UNCHANGED <<conn, srv, want, devid, told>> => SessionInv'
    /\ UrbInv /\ UNCHANGED urb => UrbInv'
<1>1. PathInv /\ UNCHANGED pathVars => PathInv'
  BY Zenon DEF PathInv, pathVars, SocketOwned, FileSeen, Removers
<1>2. HostInv /\ UNCHANGED host => HostInv'
  BY Zenon DEF HostInv
<1>3. ListInv /\ UNCHANGED listVars => ListInv'
  BY Zenon DEF ListInv, listVars, ListReadsBack
<1>4. SessionInv /\ UNCHANGED <<conn, srv, want, devid, told>> => SessionInv'
  BY Zenon DEF SessionInv, LookedUp, DevidAccepted, permits
<1>5. UrbInv /\ UNCHANGED urb => UrbInv'
  BY Zenon DEF UrbInv, AsksWholePackets, ReplyFits
<1>. QED
  BY <1>1, <1>2, <1>3, <1>4, <1>5, Zenon

\* Whoever checks, binds, removes or leaves the path, a socket there has an
\* owner, and a file there has been taken for a leftover only by instances that
\* were exposed when it was put there.
LEMMA PathStepKeeps ==
    ASSUME PathInv, NEW i \in Instances, PathStep(i)
    PROVE  PathInv'
<1>1. /\ "none" \notin Instances /\ "file" \notin Instances /\ "stale" \notin Instances
  BY ServeAssumption, Zenon
<1>. USE DEF PathInv, SocketOwned, FileSeen, Removers, InstStates
<1>2. CASE CheckPath(i)
  BY <1>1, <1>2 DEF CheckPath
<1>3. CASE RemoveLeftover(i)
  BY <1>1, <1>3 DEF RemoveLeftover
<1>4. CASE Bind(i)
  BY <1>1, <1>4 DEF Bind
<1>5. CASE Signal(i)
  BY <1>1, <1>5 DEF Signal
<1>6. CASE UnlinkSocket(i)
  BY <1>1, <1>6 DEF UnlinkSocket
<1>7. CASE Exit(i)
  BY <1>1, <1>7 DEF Exit
<1>8. CASE Kill(i)
  BY <1>1, <1>8 DEF Kill
<1>9. CASE RemoveLeftoverFails(i)
  BY <1>1, <1>9 DEF RemoveLeftoverFails
<1>10. CASE UnlinkFails(i)
  BY <1>1, <1>10 DEF UnlinkFails
<1>. QED
  BY <1>2, <1>3, <1>4, <1>5, <1>6, <1>7, <1>8, <1>9, <1>10, Zenon DEF PathStep

\* Whoever puts a file at the path exposes it to those who will remove it.
LEMMA PutFileKeeps ==
    ASSUME PathInv, PutFile
    PROVE  PathInv'
<1>1. "file" \notin Instances
  BY ServeAssumption, Zenon
<1>2. node' = "file" /\ exposed' = Removers /\ inst' = inst
  BY Zenon DEF PutFile
<1>. QED
  BY <1>1, <1>2 DEF PathInv, SocketOwned, FileSeen, Removers

\* A session that ends leaves nothing to the next one.
LEMMA CloseKeeps ==
    ASSUME Close
    PROVE  SessionInv' /\ UrbInv'
<1>1. conn' = "closed" /\ srv' = None /\ devid' = None /\ told' = None /\ urb' = None
  BY Zenon DEF Close
<1>2. SessionInv'
  BY <1>1 DEF SessionInv, ConnStates, LookedUp, DevidAccepted
<1>3. UrbInv'
  BY <1>1, Zenon DEF UrbInv, AsksWholePackets, ReplyFits
<1>. QED
  BY <1>2, <1>3, Zenon

\* So does one whose daemon exits or is killed; the sessions of others go on.
LEMMA DropSessionKeeps ==
    ASSUME SessionInv, UrbInv, NEW i, DropSession(i)
    PROVE  SessionInv' /\ UrbInv'
<1>1. CASE srv = i
  <2>1. Close
    BY <1>1, Zenon DEF DropSession, Close
  <2>. QED
    BY <2>1, CloseKeeps, Zenon
<1>2. CASE srv # i
  <2>1. UNCHANGED <<conn, srv, want, devid, told>> /\ UNCHANGED urb
    BY <1>2, Zenon DEF DropSession
  <2>. QED
    BY <2>1, Untouched, Zenon
<1>. QED
  BY <1>1, <1>2, Zenon

\* Devices come and go, and a list that was read before is forgotten.
LEMMA HostStepKeeps ==
    ASSUME HostInv, HostStep
    PROVE  HostInv' /\ ListInv'
<1>1. list' = None /\ shown' = {}
  BY Zenon DEF HostStep, Plug, Unplug
<1>2. ListInv'
  BY <1>1, Zenon DEF ListInv, ListReadsBack
<1>3. HostInv'
  BY Zenon DEF HostInv, HostStep, Plug, Unplug
<1>. QED
  BY <1>2, <1>3, Zenon

\* OP_REQ_DEVLIST
LEMMA DevlistKeeps ==
    ASSUME HostInv, Devlist
    PROVE  ListInv' /\ SessionInv' /\ UrbInv'
<1>1. Fits \subseteq Devices
  <2>1. Seq(Char) \subseteq Seq(Nat)
    BY SMT DEF Char
  <2>. QED
    BY <2>1, Zenon DEF Fits, Device, Devices
<1>2. /\ list' \in Seq(Fits) /\ shown' \subseteq Fits
      /\ ToSet(list') = shown' /\ Len(list') = Cardinality(shown')
  BY DevlistReadsBack, Zenon DEF HostInv
<1>3. list' \in Seq(Devices) /\ shown' \subseteq Devices
  BY <1>1, <1>2, SeqMonotonic, Zenon
<1>4. ListInv'
  BY <1>2, <1>3, Zenon DEF ListInv, ListReadsBack
<1>5. Close
  BY Zenon DEF Devlist
<1>. QED
  BY <1>4, <1>5, CloseKeeps, Zenon

\* OP_REQ_IMPORT: the device that is found is one the policy permits.
LEMMA ImportFindKeeps ==
    ASSUME HostInv, SessionInv, NEW b, ImportFind(b)
    PROVE  SessionInv'
<1>1. PICK x \in Sites : /\ host[x] \in Placed /\ permits(host[x].product)
                         /\ want' = [busid |-> Requested(b), product |-> host[x].product]
  BY Zenon DEF ImportFind, Found, Plugged, HostInv
<1>2. want'.product = host[x].product
  BY <1>1, Zenon
<1>3. host[x].product \in Products
  BY <1>1, SMT DEF Placed
<1>4. /\ conn = "header" /\ conn' = "opening"
      /\ srv' = srv /\ devid' = devid /\ told' = told
  BY Zenon DEF ImportFind
<1>5. LookedUp'
  BY <1>1, <1>2, <1>3, Zenon DEF LookedUp, permits
<1>. QED
  BY <1>4, <1>5 DEF SessionInv, ConnStates, DevidAccepted

\* A number below 256 is what is left of it in eight bits.
LEMMA EightBits ==
    ASSUME NEW n \in NonZeroBytes
    PROVE  n % 256 = n /\ n # 0 /\ n \in Nat
BY SMT DEF NonZeroBytes

\* OpenedDevice::open: the reply has the numbers that urb_loop will expect.
LEMMA OpenAndReplyKeeps ==
    ASSUME HostInv, SessionInv, NEW x \in Sites, NEW a \in Addresses, OpenAndReply(x, a)
    PROVE  HostInv' /\ SessionInv'
<1>. DEFINE h == [host[x] EXCEPT !.addr = a]
            d == UsbDevice(x, h)
            e == [d EXCEPT !.class = want.product.class]
            reply == encode_rep_import_ok(e)
            seen == DeviceOf(SubSeq(reply, 4, Len(reply)), <<>>)
<1>1. /\ conn = "opening" /\ x \in Found(want.busid) /\ conn' = "urb"
      /\ host' = [host EXCEPT ![x].addr = a]
      /\ devid' = <<d.busnum, d.devnum>>
      /\ told' = <<seen.busnum % 256, seen.devnum % 256>>
      /\ srv' = srv /\ want' = want
  BY Zenon DEF OpenAndReply
<1>2. host[x] \in Placed
  BY <1>1, Zenon DEF Found, Plugged, HostInv
<1>3. h \in Placed
  BY <1>2, SMT DEF Placed
<1>4. HostInv'
  <2>1. host' = [host EXCEPT ![x] = h]
    BY <1>1, Zenon
  <2>. HIDE DEF h
  <2>. QED
    BY <1>3, <2>1, Zenon DEF HostInv
<1>5. d \in Fits /\ d.busnum \in NonZeroBytes /\ d.devnum \in NonZeroBytes
  BY <1>3, UsbDeviceFits, Zenon
<1>6. want.product \in Products /\ permits(want.product)
  BY <1>1, Zenon DEF SessionInv, LookedUp
<1>7. want.product.class \in Nat
  <2>1. PICK p \in Products : p = want.product
    BY <1>6, Zenon
  <2>2. p \in [vidpid : Nat, class : Nat, interfaces : Seq(Nat)]
    BY ServeAssumption, Zenon
  <2>. QED
    BY <2>1, <2>2, SMT
<1>. HIDE DEF d, h
<1>8. e \in Fits /\ e.busnum = d.busnum /\ e.devnum = d.devnum
  <2>1. d \in Device /\ Len(d.busid) <= BusidWidth /\ Len(d.interfaces) <= MaxCount
    BY <1>5, Zenon DEF Fits
  <2>2. /\ e \in Device /\ e.busid = d.busid /\ e.interfaces = d.interfaces
        /\ e.busnum = d.busnum /\ e.devnum = d.devnum
    BY <1>7, <2>1, SMTT(20) DEF Device
  <2>. QED
    BY <2>1, <2>2, Zenon DEF Fits
<1>. HIDE DEF e
<1>9. seen.busnum = d.busnum /\ seen.devnum = d.devnum
  BY <1>8, ReplyReadsBack, Zenon
<1>. HIDE DEF seen
<1>10. PICK m \in NonZeroBytes, n \in NonZeroBytes : m = d.busnum /\ n = d.devnum
  BY <1>5, Zenon
<1>11. devid' = <<m, n>> /\ told' = <<m, n>>
  BY <1>1, <1>9, <1>10, EightBits, SMT
<1>12. <<m, n>> # None /\ 0 \notin {<<m, n>>[1], <<m, n>>[2]}
  <2>1. m \in Nat /\ n \in Nat /\ m # 0 /\ n # 0
    BY <1>10, EightBits, SMT
  <2>2. <<m, n>> \in Nat \X Nat /\ <<m, n>>[1] = m /\ <<m, n>>[2] = n
    BY <2>1
  <2>. QED
    BY <2>1, <2>2, NoneAssumption, Zenon
<1>13. DevidAccepted'
  BY <1>11, <1>12, Zenon DEF DevidAccepted
<1>14. LookedUp'
  <2>1. want' = want
    BY <1>1, Zenon
  <2>. QED
    BY <1>6, <2>1, Zenon DEF LookedUp, permits
<1>15. /\ conn' \in ConnStates /\ srv' \in Instances \cup {None}
       /\ (conn' = "urb") = (devid' # None)
       /\ (devid' = None) = (told' = None)
  BY <1>1, <1>11, <1>12, ZenonT(40) DEF SessionInv, ConnStates
<1>. QED
  BY <1>4, <1>13, <1>14, <1>15, Zenon DEF SessionInv

\* A URB whose request is padded and whose reply fits.
LEMMA OutcomeKeeps ==
    ASSUME NEW dirIn, NEW length, NEW mps, NEW asked, NEW reply,
           FitsBuffer(dirIn, BufferLength(length), reply),
           asked # None => /\ asked >= BufferLength(length)
                           /\ mps > 0 => asked > 0 /\ asked % mps = 0,
           Outcome(dirIn, length, mps, asked, reply)
    PROVE  UrbInv'
<1>. DEFINE tbl == BufferLength(length)
<1>1. urb' = [dirIn |-> dirIn, tbl |-> tbl, mps |-> mps, asked |-> asked, reply |-> reply]
  BY Zenon DEF Outcome
<1>. HIDE DEF tbl
<1>2. /\ urb'.dirIn = dirIn /\ urb'.tbl = tbl /\ urb'.mps = mps
      /\ urb'.asked = asked /\ urb'.reply = reply
  BY <1>1
<1>3. AsksWholePackets'
  BY <1>2, Zenon DEF AsksWholePackets, tbl
<1>4. ReplyFits'
  BY <1>2, Zenon DEF ReplyFits, FitsBuffer, tbl
<1>. QED
  BY <1>3, <1>4, Zenon DEF UrbInv

\* Whatever URB it is, urb_loop checks its devid and records one reply.
LEMMA UrbStepIsOutcome ==
    ASSUME UrbStep
    PROVE  \E dirIn, length, mps, asked, reply : Outcome(dirIn, length, mps, asked, reply)
BY ZenonT(40) DEF UrbStep, DataIn, DataOut, Control, TransferFails

\* data_transfer, control_transfer and run_submit
LEMMA UrbStepKeeps ==
    ASSUME UrbStep
    PROVE  UrbInv'
<1>1. PICK length \in Lengths, dirIn \in BOOLEAN :
        \/ dirIn /\ \E mps \in PacketSizes : DataIn(length, mps)
        \/ ~dirIn /\ DataOut(length)
        \/ \E setupIn \in BOOLEAN, w \in Lengths : Control(dirIn, length, setupIn, w)
        \/ TransferFails(dirIn, length)
  BY Zenon DEF UrbStep
<1>. DEFINE tbl == BufferLength(length)
<1>2. \A n \in Lengths : BufferLength(n) \in Nat
  <2>1. Lengths \subseteq Int
    BY ServeAssumption, Zenon
  <2>. QED
    BY <2>1 DEF BufferLength
<1>3. tbl \in Nat
  BY <1>1, <1>2, Zenon
<1>. HIDE DEF tbl
<1>4. ASSUME NEW mps \in PacketSizes, DataIn(length, mps) PROVE UrbInv'
  <2>. DEFINE asked == padded_len(tbl, mps)
  <2>1. mps \in Nat
    BY ServeAssumption, Zenon
  <2>2. /\ asked \in Nat /\ asked >= tbl
        /\ mps > 0 => asked > 0 /\ asked % mps = 0
    BY <1>3, <2>1, PaddingDivides, Zenon
  <2>. HIDE DEF asked
  <2>3. PICK n \in 0..asked :
          Outcome(TRUE, length, mps, asked, Reply(TRUE, tbl, usable(tbl, n), usable(tbl, n)))
    BY <1>4, Zenon DEF DataIn, asked, tbl
  <2>4. usable(tbl, n) \in Nat
    BY <1>3, <2>2 DEF usable, Least
  <2>5. FitsBuffer(TRUE, tbl, Reply(TRUE, tbl, usable(tbl, n), usable(tbl, n)))
    BY <1>3, <2>4, EveryReplyFits, Zenon
  <2>. QED
    BY <2>2, <2>3, <2>5, OutcomeKeeps, Zenon DEF tbl
<1>5. ASSUME DataOut(length) PROVE UrbInv'
  <2>1. PICK n \in 0..tbl : Outcome(FALSE, length, None, None, Reply(FALSE, tbl, n, 0))
    BY <1>5, Zenon DEF DataOut, tbl
  <2>2. n \in Nat /\ n <= tbl
    BY <1>3
  <2>3. FitsBuffer(FALSE, tbl, Reply(FALSE, tbl, n, 0))
    BY <1>3, <2>2, EveryReplyFits, Zenon
  <2>. QED
    BY <2>1, <2>3, OutcomeKeeps, Zenon DEF tbl
<1>6. ASSUME NEW setupIn \in BOOLEAN, NEW w \in Lengths, Control(dirIn, length, setupIn, w)
      PROVE  UrbInv'
  <2>1. PICK n \in 0..(IF setupIn THEN BufferLength(w) ELSE 0) :
          Outcome(dirIn, length, None, None, Reply(dirIn, tbl, IF dirIn THEN n ELSE tbl, n))
    BY <1>6, Zenon DEF Control, tbl
  <2>2. n \in Nat
    BY <1>2
  <2>3. FitsBuffer(dirIn, tbl, Reply(dirIn, tbl, IF dirIn THEN n ELSE tbl, n))
    <3>1. CASE dirIn = TRUE
      BY <1>3, <2>2, <3>1, EveryReplyFits, Zenon
    <3>2. CASE dirIn = FALSE
      BY <1>3, <2>2, <3>2, EveryReplyFits, Zenon
    <3>. QED
      BY <1>1, <3>1, <3>2, Zenon
  <2>. QED
    BY <2>1, <2>3, OutcomeKeeps, Zenon DEF tbl
<1>7. ASSUME TransferFails(dirIn, length) PROVE UrbInv'
  <2>1. FitsBuffer(dirIn, tbl, ErrorReply)
    BY <1>1, <1>3, EveryReplyFits, Zenon
  <2>2. Outcome(dirIn, length, None, None, ErrorReply)
    BY <1>7, Zenon DEF TransferFails
  <2>. QED
    BY <2>1, <2>2, OutcomeKeeps, Zenon DEF tbl
<1>. QED
  BY <1>1, <1>4, <1>5, <1>6, <1>7, Zenon

-----------------------------------------------------------------------------
(***************************************************************************)
(* The theorems                                                            *)
(***************************************************************************)
\* It holds before any instance starts, with nothing plugged in.
LEMMA InitHolds == Init => IInv
<1>. SUFFICES ASSUME Init PROVE PathInv /\ HostInv /\ ListInv /\ SessionInv /\ UrbInv
  BY Parts, Zenon
<1>1. "none" \notin Instances /\ "file" \notin Instances /\ "stale" \notin Instances
  BY ServeAssumption, Zenon
<1>2. PathInv
  BY <1>1 DEF Init, PathInv, SocketOwned, FileSeen, Removers, InstStates
<1>3. HostInv
  BY Zenon DEF Init, HostInv
<1>4. ListInv
  BY Zenon DEF Init, ListInv, ListReadsBack
<1>5. SessionInv
  BY DEF Init, SessionInv, ConnStates, LookedUp, DevidAccepted
<1>6. UrbInv
  BY Zenon DEF Init, UrbInv, AsksWholePackets, ReplyFits
<1>. QED
  BY <1>2, <1>3, <1>4, <1>5, <1>6, Zenon

\* Every step keeps it, action by action.
LEMMA StepHolds == IInv /\ [Next]_vars => IInv'
<1>. SUFFICES ASSUME PathInv, HostInv, ListInv, SessionInv, UrbInv, [Next]_vars
              PROVE  PathInv' /\ HostInv' /\ ListInv' /\ SessionInv' /\ UrbInv'
  BY Parts, PartsNext, Zenon
<1>1. CASE UNCHANGED vars
  BY <1>1, Untouched, Zenon DEF vars, pathVars, listVars
<1>2. CASE HostStep
  <2>1. UNCHANGED pathVars /\ UNCHANGED <<conn, srv, want, devid, told>> /\ UNCHANGED urb
    BY <1>2, Zenon DEF HostStep, Plug, Unplug, idVars
  <2>. QED
    BY <1>2, <2>1, HostStepKeeps, Untouched, Zenon
<1>3. ASSUME NEW i \in Instances, PathStep(i)
      PROVE  PathInv' /\ HostInv' /\ ListInv' /\ SessionInv' /\ UrbInv'
  <2>1. PathInv'
    BY <1>3, PathStepKeeps, Zenon
  <2>2. UNCHANGED host /\ UNCHANGED listVars
    BY <1>3, Zenon DEF PathStep, CheckPath, RemoveLeftover, RemoveLeftoverFails, Bind, Signal,
                       UnlinkSocket, UnlinkFails, Exit, Kill, hostAndClient
  <2>3. SessionInv' /\ UrbInv'
    <3>1. CASE Exit(i) \/ Kill(i)
      BY <3>1, DropSessionKeeps, Zenon DEF Exit, Kill
    <3>2. CASE ~(Exit(i) \/ Kill(i))
      <4>1. UNCHANGED hostAndClient
        BY <1>3, <3>2, Zenon DEF PathStep, CheckPath, RemoveLeftover, RemoveLeftoverFails, Bind,
                                 Signal, UnlinkSocket, UnlinkFails
      <4>. QED
        BY <4>1, Untouched, Zenon DEF hostAndClient, idVars
    <3>. QED
      BY <3>1, <3>2, Zenon
  <2>. QED
    BY <2>1, <2>2, <2>3, Untouched, Zenon
<1>4. CASE Connect
  <2>1. SessionInv'
    BY <1>4 DEF Connect, SessionInv, ConnStates, LookedUp, DevidAccepted, idVars
  <2>. QED
    BY <1>4, <2>1, Untouched, Zenon DEF Connect, idVars
<1>5. CASE SessionEnds
  BY <1>5, CloseKeeps, Untouched, Zenon DEF SessionEnds
<1>6. CASE Devlist
  <2>1. UNCHANGED pathVars /\ UNCHANGED host
    BY <1>6, Zenon DEF Devlist
  <2>. QED
    BY <1>6, <2>1, DevlistKeeps, Untouched, Zenon
<1>7. ASSUME NEW b, ImportFind(b)
      PROVE  PathInv' /\ HostInv' /\ ListInv' /\ SessionInv' /\ UrbInv'
  <2>1. UNCHANGED pathVars /\ UNCHANGED host /\ UNCHANGED listVars /\ UNCHANGED urb
    BY <1>7, Zenon DEF ImportFind
  <2>. QED
    BY <1>7, <2>1, ImportFindKeeps, Untouched, Zenon
<1>8. ASSUME NEW x \in Sites, NEW a \in Addresses, OpenAndReply(x, a)
      PROVE  PathInv' /\ HostInv' /\ ListInv' /\ SessionInv' /\ UrbInv'
  <2>1. UNCHANGED pathVars /\ UNCHANGED listVars /\ UNCHANGED urb
    BY <1>8, Zenon DEF OpenAndReply
  <2>. QED
    BY <1>8, <2>1, OpenAndReplyKeeps, Untouched, Zenon
<1>9. CASE UrbStep
  <2>1. /\ UNCHANGED pathVars /\ UNCHANGED host /\ UNCHANGED listVars
        /\ UNCHANGED <<conn, srv, want, devid, told>>
    BY <1>9, UrbStepIsOutcome, Zenon DEF Outcome
  <2>. QED
    BY <1>9, <2>1, UrbStepKeeps, Untouched, Zenon
<1>10. CASE PutFile
  <2>1. UNCHANGED hostAndClient
    BY <1>10, Zenon DEF PutFile
  <2>. QED
    BY <1>10, <2>1, PutFileKeeps, Untouched, Zenon DEF hostAndClient, idVars
<1>. QED
  BY <1>1, <1>2, <1>3, <1>4, <1>5, <1>6, <1>7, <1>8, <1>9, <1>10, Zenon DEF Next, SessionStep

\* Whatever is plugged in, however many instances share the path and whatever
\* the client asks for, the invariant holds.
THEOREM ServeInvariant == Spec => []IInv
BY InitHolds, StepHolds, PTL DEF Spec

\* Every variable has its type, and urb_loop has a devid to expect exactly
\* while a session is in it.
THEOREM ServeTypeCorrect == Spec => []TypeOK
<1>1. IInv => TypeOK
  BY Zenon DEF IInv
<1>. QED
  BY <1>1, ServeInvariant, PTL

\* handle_devlist: for every set of devices and every policy, a client reads
\* exactly the permitted devices that are no hubs, each once.
THEOREM ListIsExact == Spec => []ListReadsBack
<1>1. IInv => ListReadsBack
  BY Zenon DEF IInv
<1>. QED
  BY <1>1, ServeInvariant, PTL

\* handle_import: for every host, what was listed can be imported by its busid,
\* which no other device has.
THEOREM ListedCanBeImported == Spec => []ListedIsImportable
<1>1. ASSUME TypeOK PROVE ListedIsImportable
  <2>. SUFFICES ASSUME NEW x \in Exported
                PROVE  LET b == decode(encode(UsbDevice(x, host[x]))).busid
                       IN  Found(Requested(b)) = {x} /\ permits(host[x].product)
    BY Zenon DEF ListedIsImportable
  <2>1. /\ x \in Plugged /\ permits(host[x].product)
        /\ \A y \in Plugged : y \in Sites /\ host[y] \in Placed
    BY <1>1, Zenon DEF Exported, Plugged, TypeOK
  <2>2. \A y \in Plugged : host[y].addr \in Addresses
    BY <2>1, SMT DEF Placed
  <2>3. PICK d \in Fits : d = UsbDevice(x, host[x]) /\ d.busid = Busids[x][host[x].addr]
    BY <2>1, UsbDeviceFits, Zenon
  <2>4. d \in Device /\ Len(d.busid) <= BusidWidth /\ Len(d.interfaces) <= MaxCount
    BY <2>3, Zenon DEF Fits
  <2>5. decode(encode(d)) = d
    <3>1. <<>> \in Seq(Nat) /\ encode(d) \in Seq(Nat)
      BY <2>3, EncodeType
    <3>2. encode(d) \o <<>> = encode(d)
      BY <3>1, ConcatEmptySeq, Zenon
    <3>3. decode(encode(d) \o <<>>) = d
      BY <2>4, <3>1, DecodeInverts, Zenon
    <3>. QED
      BY <3>2, <3>3, Zenon
  <2>6. Requested(d.busid) = d.busid
    <3>1. d.busid \in Seq(Char)
      BY <2>4, Zenon DEF Device
    <3>. QED
      BY <2>4, <3>1, RequestReadsBack, Zenon DEF Requested
  <2>7. Found(d.busid) = {x}
    <3>1. ASSUME NEW y \in Plugged, Busids[y][host[y].addr] = d.busid PROVE y = x
      <4>1. PICK a \in Addresses, b \in Addresses :
              a = host[x].addr /\ b = host[y].addr /\ Busids[x][a] = Busids[y][b]
        BY <2>1, <2>2, <2>3, <3>1, Zenon
      <4>2. x \in Sites /\ y \in Sites
        BY <2>1, <3>1, Zenon
      <4>. QED
        BY <4>1, <4>2, OneSite
    <3>. QED
      BY <2>1, <2>3, <3>1, Zenon DEF Found
  <2>. QED
    BY <2>1, <2>3, <2>5, <2>6, <2>7, Zenon
<1>. QED
  BY <1>1, ServeTypeCorrect, PTL

\* derive_bus_dev and urb_loop: for every place a device can be in, the URBs
\* of a client that keeps eight bits of each number pass the check, also when
\* the import gave the device another address.
THEOREM DevidsAreAccepted == Spec => []DevidAccepted
<1>1. IInv => DevidAccepted
  BY Zenon DEF IInv
<1>. QED
  BY <1>1, ServeInvariant, PTL

\* data_transfer: for every length and every packet size, an IN request is for
\* whole packets, at least one, and for all that the client asked for.
THEOREM WholePacketsAreAsked == Spec => []AsksWholePackets
<1>1. IInv => AsksWholePackets
  BY Zenon DEF IInv
<1>. QED
  BY <1>1, ServeInvariant, PTL

\* run_submit: whatever the device answers, the reply fits the client's buffer.
THEOREM RepliesFit == Spec => []ReplyFits
<1>1. IInv => ReplyFits
  BY Zenon DEF IInv
<1>. QED
  BY <1>1, ServeInvariant, PTL

\* serve: any number of instances that share a path, started and stopped in
\* any order, have no socket at the path when none of them listens any more.
THEOREM SocketIsRemoved == Spec => []PathCleanedUp
<1>1. IInv => PathCleanedUp
  BY DEF IInv, SocketOwned, PathCleanedUp
<1>. QED
  BY <1>1, ServeInvariant, PTL

\* serve: for any number of instances, in whatever order they check, remove,
\* bind and exit, a file at the path is removed only by an instance that was
\* past its check, and not stopped by its bind, when the file was put there.
THEOREM FilesOutliveStarts == Spec => FileOutlivesStarts
<1>. DEFINE Removes(i) == inst[i] \in {"remove", "unlink"} /\ inst'[i] # inst[i]
            Spared == node = "file" /\ node' # "file" => \E i \in exposed : Removes(i)
<1>1. ASSUME PathInv, Next PROVE Spared
  <2>. SUFFICES ASSUME node = "file", node' # "file" PROVE \E i \in exposed : Removes(i)
    BY Zenon
  <2>1. ASSUME NEW i \in Instances, PathStep(i) PROVE i \in exposed /\ Removes(i)
    <3>1. RemoveLeftover(i) \/ UnlinkSocket(i)
      <4>1. node # i /\ node # "none"
        BY ServeAssumption, Zenon
      <4>. QED
        BY <2>1, <4>1, Zenon DEF PathStep, CheckPath, RemoveLeftoverFails, Bind, Signal,
                                 UnlinkFails, Exit, Kill
    <3>2. inst[i] \in {"remove", "unlink"}
      BY <3>1, Zenon DEF RemoveLeftover, UnlinkSocket
    <3>3. inst'[i] # inst[i]
      BY <1>1, <3>1, Zenon DEF RemoveLeftover, UnlinkSocket, PathInv
    <3>4. i \in Removers
      BY <3>2, Zenon DEF Removers
    <3>. QED
      BY <1>1, <3>2, <3>3, <3>4, Zenon DEF PathInv, FileSeen
  <2>2. CASE HostStep \/ PutFile
    BY <2>2, Zenon DEF HostStep, PutFile, Plug, Unplug, pathVars
  <2>3. CASE SessionStep
    <3>1. UNCHANGED pathVars
      BY <2>3, ZenonT(40) DEF SessionStep, Connect, SessionEnds, Devlist, ImportFind, OpenAndReply
    <3>. QED
      BY <3>1, Zenon DEF pathVars
  <2>4. CASE UrbStep
    BY <2>4, UrbStepIsOutcome, Zenon DEF Outcome, pathVars
  <2>. QED
    BY <1>1, <2>1, <2>2, <2>3, <2>4, Zenon DEF Next
<1>2. IInv => PathInv
  BY Parts, Zenon
<1>3. IInv /\ [Next]_vars => [Spared]_vars
  BY <1>1, <1>2, Zenon
<1>. QED
  BY <1>3, ServeInvariant, PTL DEF Spec, FileOutlivesStarts
=============================================================================
