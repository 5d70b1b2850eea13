------------------------------ MODULE TsStream ------------------------------
(***************************************************************************)
(* What the MPEG-2 transmitter of libiec61883 promises its application:    *)
(* once it has chosen the position of the source stream to start from,   *)
(* it puts the packets from there on the bus in stream order, without     *)
(* gaps or repeats, at most MaxTsps of them in one isochronous cycle (the  *)
(* packet size given to raw1394_iso_xmit_init).  Where it starts and       *)
(* whether it keeps going are left to the detailed specification.         *)
(***************************************************************************)
EXTENDS Naturals, Sequences

CONSTANTS MaxTsps

VARIABLES
    src,   \* the source stream
    base,  \* the first position to send (0 before it is chosen)
    out    \* positions put on the bus, in order

Init == base = 0 /\ out = <<>>

(* Choose where to start before anything is sent (past the end: nothing). *)
Sync ==
    /\ out = <<>>
    /\ base' \in 1..(Len(src) + 1)
    /\ UNCHANGED <<src, out>>

(* One cycle's packet: the next k positions of the stream. *)
Emit ==
    \E k \in 0..MaxTsps :
        /\ base > 0
        /\ base + Len(out) + k - 1 <= Len(src)
        /\ out' = out \o [i \in 1..k |-> base + Len(out) + i - 1]
        /\ UNCHANGED <<src, base>>

Spec == Init /\ [][Sync \/ Emit]_<<src, base, out>>
=============================================================================
