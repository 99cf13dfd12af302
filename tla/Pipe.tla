-------------------------------- MODULE Pipe --------------------------------
(***************************************************************************)
(* What a one-way pipe of frames promises: everything it delivers has been *)
(* offered to it, once, whole and in the order of the offers.  It promises *)
(* no delivery: a pipe may break at any time.  WsFraming shows that the    *)
(* byte-level codec is such a pipe, WsTunnel that the tasks and the        *)
(* channel between the client and the upstream are.                        *)
(***************************************************************************)
EXTENDS Naturals, Sequences

VARIABLES offered,   \* frames given to the pipe
          delivered  \* frames that have come out of it

Init == offered = <<>> /\ delivered = <<>>

Offer ==
    /\ Len(offered') = Len(offered) + 1
    /\ offered' = Append(offered, offered'[Len(offered) + 1])
    /\ UNCHANGED delivered

Deliver ==
    /\ Len(delivered) < Len(offered)
    /\ delivered' = Append(delivered, offered[Len(delivered) + 1])
    /\ UNCHANGED offered

Next == Offer \/ Deliver

Spec == Init /\ [][Next]_<<offered, delivered>>
=============================================================================
