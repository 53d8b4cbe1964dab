-------------------------------- MODULE Wire --------------------------------
(***************************************************************************)
(* The op messages of USB/IP (crates/usbip-proto/src/op.rs) and the device *)
(* list (encode_rep_devlist of crates/usbipd/src/daemon.rs).  A message is *)
(* a sequence of cells, one per field of fixed size and one per byte of a  *)
(* busid; it is read back by counting cells, as the receiver counts bytes. *)
(* The fields that are copied like the class, and the path, which repeats  *)
(* the busid, are left out.                                                *)
(***************************************************************************)
EXTENDS Naturals, Sequences

CONSTANTS
    BusidWidth, \* 32
    MaxCount    \* u8::MAX

ASSUME WireAssumption == BusidWidth \in Nat /\ MaxCount \in Nat

USBIP_VERSION  == 273
OP_REP_DEVLIST == 5
OP_REP_IMPORT  == 3

HUB_CLASS == 9

OpHeader(code, status) == <<USBIP_VERSION, code, status>>

-----------------------------------------------------------------------------
(***************************************************************************)
(* Strings of fixed width                                                  *)
(***************************************************************************)
write_fixed_str(s, width) ==
    [i \in 1..width |-> IF i <= Len(s) THEN s[i] ELSE 0]

Nuls(buf) == {i \in DOMAIN buf : buf[i] = 0}

\* Where the first NUL is, or one past the end.
End(buf) ==
    IF Nuls(buf) = {} THEN Len(buf) + 1
    ELSE CHOOSE i \in Nuls(buf) : \A j \in Nuls(buf) : i <= j

read_fixed_str(buf) == SubSeq(buf, 1, End(buf) - 1)

-----------------------------------------------------------------------------
(***************************************************************************)
(* ExportedDevice                                                          *)
(***************************************************************************)
HeaderSize == BusidWidth + 4

Saturated(n) == IF n <= MaxCount THEN n ELSE MaxCount

encode_header_only(d) ==
    write_fixed_str(d.busid, BusidWidth)
    \o <<d.busnum, d.devnum, d.class, Saturated(Len(d.interfaces))>>

encode(d) == encode_header_only(d) \o d.interfaces

\* What the header at the start of buf says, with the given interfaces.
DeviceOf(buf, interfaces) ==
    [busid      |-> read_fixed_str(SubSeq(buf, 1, BusidWidth)),
     busnum     |-> buf[BusidWidth + 1],
     devnum     |-> buf[BusidWidth + 2],
     class      |-> buf[BusidWidth + 3],
     interfaces |-> interfaces]

\* ShortRead
Short(buf) ==
    \/ Len(buf) < HeaderSize
    \/ Len(buf) < HeaderSize + buf[HeaderSize]

\* The device at the start of a buffer that is not short, and how much of the
\* buffer it takes.
Used(buf)   == HeaderSize + buf[HeaderSize]
decode(buf) == DeviceOf(buf, SubSeq(buf, HeaderSize + 1, Used(buf)))

-----------------------------------------------------------------------------
(***************************************************************************)
(* The records of a list                                                   *)
(***************************************************************************)

\* What is written after every n devices.
Encoded(devices) ==
    LET written[n \in 0..Len(devices)] ==
            IF n = 0 THEN <<>> ELSE written[n - 1] \o encode(devices[n])
    IN written

\* One more device is read from the rest of a buffer.
ReadOne(st) ==
    IF st.bad \/ Short(st.rest) THEN [st EXCEPT !.bad = TRUE]
    ELSE [bad  |-> FALSE,
          rest |-> SubSeq(st.rest, Used(st.rest) + 1, Len(st.rest)),
          devs |-> Append(st.devs, decode(st.rest))]

\* What is read after every n devices of count.
Reads(buf, count) ==
    LET read[n \in 0..count] ==
            IF n = 0 THEN [bad |-> FALSE, rest |-> buf, devs |-> <<>>]
            ELSE ReadOne(read[n - 1])
    IN read

-----------------------------------------------------------------------------
(***************************************************************************)
(* Whole messages                                                          *)
(***************************************************************************)

\* OP_REP_IMPORT
encode_rep_import_ok(d) == OpHeader(OP_REP_IMPORT, 0) \o encode_header_only(d)

decode_req_import_busid(buf) == read_fixed_str(SubSeq(buf, 1, BusidWidth))
=============================================================================
