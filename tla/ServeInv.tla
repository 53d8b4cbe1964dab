------------------------------- MODULE ServeInv -------------------------------
(* The inductive invariant of Serve. *)
EXTENDS Serve

\* A socket at the path belongs to an instance that has not removed it yet.
SocketOwned == node \in Instances => inst[node] \in {"serving", "unlink"}

\* Of the instances that will remove what is at the path, those that did not
\* mean the file that is there now were past their check before it was.
FileSeen == node = "file" => Removers \subseteq exposed

\* handle_import has looked a permitted product up before it opens the device.
LookedUp ==
    conn \in {"opening", "urb"} => want.product \in Products /\ permits(want.product)

IInv ==
    /\ TypeOK
    /\ SocketOwned
    /\ FileSeen
    /\ LookedUp
    /\ ListReadsBack
    /\ DevidAccepted
    /\ AsksWholePackets
    /\ ReplyFits
=============================================================================
