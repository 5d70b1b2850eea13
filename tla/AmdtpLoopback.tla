---------------------------- MODULE AmdtpLoopback ----------------------------
(***************************************************************************)
(* An AMDTP transmitter (AmdtpXmit) and an AMDTP receiver (AmdtpRecv) on  *)
(* the same isochronous channel, each driven by its own libraw1394        *)
(* handle.  The two handlers interleave freely; `wire` holds the packets  *)
(* the transmitter has handed to its substrate and the receiver has not   *)
(* been given yet.  The receiving substrate may overrun and drop packets  *)
(* (reported to the next handler call as `dropped`); a packet that       *)
(* arrives while nobody listens is gone.                                  *)
(***************************************************************************)
EXTENDS AmdtpXmit, Sequences

CONSTANTS
    WireCap,        \* packets in flight between the two substrates
    MaxOverruns,    \* packets the receiving substrate may drop in all
    MaxPackets,     \* transmit handler calls explored in one behaviour
    MaxRecvStarts   \* how many times the application may start receiving

VARIABLES recv, rstate, rstarts, rlast, wire, missed, overruns, cycles

R == INSTANCE AmdtpRecv

allvars == <<vars, recv, rstate, rstarts, rlast, wire, missed, overruns, cycles>>
wvars == <<wire, missed, overruns, cycles>>

LInit ==
    /\ Init
    /\ R!RecvInit
    /\ wire = << >>
    /\ missed = 0
    /\ overruns = 0
    /\ cycles = 0

(* A transmit cycle; a packet the handler emits goes on the wire. *)
LXmitHandler ==
    /\ Len(wire) < WireCap
    /\ cycles < MaxPackets
    /\ cycles' = cycles + 1
    /\ \E d \in 0..MaxDropped, cbOk \in BOOLEAN : XmitHandler(d, cbOk)
    /\ wire' = IF state' = "running" THEN Append(wire, pkt') ELSE wire
    /\ UNCHANGED <<missed, overruns, recv, rstate, rstarts, rlast>>

LXmitOther ==
    /\ (XmitStart \/ XmitStop \/ Close)
    /\ UNCHANGED <<recv, rstate, rstarts, rlast, wvars>>

(* The receiving substrate hands the oldest packet to the handler. *)
LRecvHandler ==
    /\ wire # << >>
    /\ \E cbOk \in BOOLEAN : R!RecvHandler(Head(wire), missed, cbOk)
    /\ wire' = Tail(wire)
    /\ missed' = 0
    /\ UNCHANGED <<vars, overruns, cycles>>

(* The receiving substrate overruns its buffer and drops a packet. *)
Overrun ==
    /\ wire # << >>
    /\ rstate = "running"
    /\ overruns < MaxOverruns
    /\ wire' = Tail(wire)
    /\ missed' = missed + 1
    /\ overruns' = overruns + 1
    /\ UNCHANGED <<vars, recv, rstate, rstarts, rlast, cycles>>

(* A packet on the channel while the receiver is not running is lost. *)
Unheard ==
    /\ wire # << >>
    /\ rstate # "running"
    /\ wire' = Tail(wire)
    /\ UNCHANGED <<vars, recv, rstate, rstarts, rlast, missed, overruns, cycles>>

LRecvOther ==
    /\ (R!RecvStart \/ R!RecvStop \/ R!RecvClose)
    /\ UNCHANGED <<vars, wvars>>

\* Both streams are closed, or the explored transmit cycles are used up,
\* and the channel is empty.
Done == /\ state = "closed" \/ cycles = MaxPackets
        /\ rstate = "closed" \/ cycles = MaxPackets
        /\ wire = << >>
        /\ UNCHANGED allvars

LNext ==
    \/ LXmitHandler
    \/ LXmitOther
    \/ LRecvHandler
    \/ Overrun
    \/ Unheard
    \/ LRecvOther
    \/ Done

LSpec == LInit /\ [][LNext]_allvars

-----------------------------------------------------------------------------
(* Properties *)

LTypeOK ==
    /\ TypeOK
    /\ rstate \in {"init", "running", "failed", "stopped", "closed"}
    /\ rstarts \in 0..MaxRecvStarts
    /\ wire \in Seq(Packet) /\ Len(wire) <= WireCap
    /\ missed \in 0..MaxOverruns /\ overruns \in 0..MaxOverruns
    /\ cycles \in 0..MaxPackets
    /\ rlast \in {R!NoOutcome} \cup
                 [pkt : Packet, known : BOOLEAN, delivered : Nat,
                  disposition : {"OK", "DEFER", "ERROR"}]

\* The receiver has learnt the format of the stream it is receiving.
Latched == rstate = "running" /\ recv.dimension \in Nat \ {0}

(* Round trip of the stream description: once the receiver has latched   *)
(* the format from the transmitter's packets, its rate, channel count,  *)
(* format and sample width are the ones the transmitter was set up with *)
(* (amdtp_recv_handler's SFC and label decoding against xmit_init's rate *)
(* table and amdtp_xmit_handler's labelling).                            *)
RateRoundTrip == Latched => recv.rate = amdtp.cip.rate

FormatRoundTrip ==
    Latched =>
        /\ recv.dimension = amdtp.dimension
        /\ recv.format = amdtp.format
        /\ (recv.format = "RAW" => recv.sample_format = amdtp.sample_format)

(* No audio lost in a handler: once the receiver knows the stream        *)
(* format, every packet of the transmitter that carries real events and  *)
(* reaches the handler is passed to put_data whole (amdtp_recv_handler's *)
(* delivery condition against the events the CIP engine put in it).     *)
NoEventLost ==
    (rlast # R!NoOutcome /\ rlast.known /\ rlast.pkt.nevents > 0) =>
        rlast.delivered = rlast.pkt.nevents * rlast.pkt.dbs
=============================================================================
