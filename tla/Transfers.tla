------------------------------ MODULE Transfers ------------------------------
(***************************************************************************)
(* Lengths of transfers: the padding and truncation of data_transfer       *)
(* (crates/host-mac/src/lib.rs), and the reply that run_submit makes of a  *)
(* transfer (crates/usbipd/src/daemon.rs).  Data is abstracted to its      *)
(* length.                                                                 *)
(***************************************************************************)
EXTENDS Integers

EOVERFLOW == -75
EPIPE     == -32

\* usize::try_from(transfer_buffer_length).unwrap_or(0)
BufferLength(n) == IF n < 0 THEN 0 ELSE n

Least(a, b) == IF a <= b THEN a ELSE b

div_ceil(a, b) == IF a % b = 0 THEN a \div b ELSE a \div b + 1

\* Fault: an empty request is not padded.
PadFull(length, mps) ==
    IF mps > 0 THEN div_ceil(length, mps) * mps ELSE length

\* The length an IN request asks the device for.
padded_len(length, mps) ==
    IF mps > 0
    THEN (IF length = 0 THEN 1 ELSE div_ceil(length, mps)) * mps
    ELSE length

\* What is left of an IN transfer's answer.
usable(length, received) == Least(received, length)

\* Fault: the device may write past the client's buffer.
ReplyUnchecked(dirIn, tbl, actual, data) ==
    IF dirIn THEN [status |-> 0, actual_length |-> actual, payload |-> data]
    ELSE [status |-> 0, actual_length |-> actual, payload |-> 0]

\* The RET_SUBMIT of a transfer that succeeded.
Reply(dirIn, tbl, actual, data) ==
    IF dirIn /\ data > tbl
    THEN [status |-> EOVERFLOW, actual_length |-> 0, payload |-> 0]
    ELSE [status |-> 0, actual_length |-> actual, payload |-> IF dirIn THEN data ELSE 0]

\* ... and of one that failed.
ErrorReply == [status |-> EPIPE, actual_length |-> 0, payload |-> 0]
=============================================================================
