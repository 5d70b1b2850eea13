------------------------------ MODULE AmdtpXmit ------------------------------
(***************************************************************************)
(* The AMDTP transmitter of src/src/amdtp.c: iec61883_amdtp_xmit_init,    *)
(* _xmit_start, the per-cycle amdtp_xmit_handler (which drives the CIP    *)
(* engine of Cip.tla), _xmit_stop and _close.                             *)
(*                                                                         *)
(* The isochronous substrate (libraw1394) calls the handler once per      *)
(* packet slot and passes the bus cycle the packet will go out on and the *)
(* number of packets it dropped.  `bus` is that cycle modulo 16, the part *)
(* a receiver compares a SYT with.  The audio payload is abstracted to    *)
(* its size; labelling is modelled only by its error path.                *)
(***************************************************************************)
EXTENDS Cip

CONSTANTS
    Rates,       \* sample rates the application may ask for
    Formats,     \* enum iec61883_amdtp_format values it may ask for
    Modes,       \* transmission modes it may select
    Dimensions,  \* channel counts it may ask for
    SampleFormats, \* enum iec61883_amdtp_sample_format values it may ask for
    MaxDropped,  \* most packets the substrate drops before one handler call
    MaxStarts    \* how many times the application may start the stream

ASSUME /\ Rates \subseteq {32000, 44100, 48000, 88200, 96000, 176400, 192000}
       /\ Formats \subseteq {"RAW", "IEC958_PCM", "IEC958_AC3"}
       /\ Modes \subseteq CipModes
       /\ Dimensions \subseteq 1..8
       /\ SampleFormats \subseteq {"LE16", "BE16", "LE20", "BE20", "LE24", "BE24"}
       /\ MaxDropped \in Nat /\ MaxStarts \in Nat \ {0}

VARIABLES
    amdtp,   \* the struct iec61883_amdtp fields that matter, with its cip
    state,   \* "init" | "running" | "failed" | "stopped" | "closed"
    bus,     \* low 4 bits of the bus cycle of the next packet slot
    starts,  \* number of xmit_start calls so far
    pkt,     \* the last packet handed to the substrate, or NoPacket
    prev     \* the packet sent before pkt in the same session, or NoPacket

vars == <<amdtp, state, bus, starts, pkt, prev>>

NoPacket == [none |-> TRUE]

(* The rate table of iec61883_amdtp_xmit_init: syt_interval and the SFC  *)
(* code written into the FDF byte.                                        *)
SytIntervalOf(rate) ==
    CASE rate \in {32000, 44100, 48000} -> 8
      [] rate \in {88200, 96000}        -> 16
      [] rate \in {176400, 192000}      -> 32

SfcOf(rate) ==
    CASE rate = 32000  -> 0 [] rate = 44100  -> 1 [] rate = 48000 -> 2
      [] rate = 88200  -> 3 [] rate = 96000  -> 4 [] rate = 176400 -> 5
      [] rate = 192000 -> 6

FmtAmdtp == 16      \* IEC61883_FMT_AMDTP
TagWithCip == 1     \* IEC61883_TAG_WITH_CIP

\* Mutant: the valid-bit-length codes of 16 and 20 bits are swapped.
LabelOfVblSwapped(format, sample_format, nevents) ==
    IF format = "RAW"
    THEN 64 + (CASE sample_format = "LE24" -> 0
                 [] sample_format = "LE20" -> 2
                 [] sample_format = "LE16" -> 1
                 [] OTHER -> 0)
    ELSE IF nevents = 0 THEN 2 * 16 + 1 ELSE 1 * 16 + 0

(* Top byte of the first data quadlet as the handler labels it: the AM824 *)
(* label with the valid-bit-length code of the sample format for RAW      *)
(* (big-endian formats fall to `default` and keep code 0, 24 bits), or   *)
(* the IEC 60958 validity bit and preamble code of the first sample.     *)
LabelOf(format, sample_format, nevents) ==
    IF format = "RAW"
    THEN 64 + (CASE sample_format = "LE24" -> 0
                 [] sample_format = "LE20" -> 1
                 [] sample_format = "LE16" -> 2
                 [] OTHER -> 0)
    ELSE IF nevents = 0 THEN 2 * 16 + 1   \* PAC_RSV, DATA_INVALID
         ELSE 1 * 16 + 0                  \* PAC_M, DATA_VALID

(* xmit_init returns NULL for an IEC958 PCM stream of more than two      *)
(* channels; every other (rate, format, dimension) from the sets above    *)
(* passes its checks.                                                     *)
XmitInitOk(format, dimension) == ~(format = "IEC958_PCM" /\ dimension > 2)

Init ==
    \E rate \in Rates, format \in Formats, mode \in Modes, dim \in Dimensions,
      sf \in SampleFormats :
        /\ XmitInitOk(format, dim)
        /\ amdtp = [format |-> format,
                    sample_format |-> sf,
                    dimension |-> dim,
                    max_packet_size |-> 0,
                    cip |-> CipSetTransmissionMode(
                              CipInit(FmtAmdtp, SfcOf(rate), rate, dim,
                                      SytIntervalOf(rate)), mode)]
        /\ state = "init"
        /\ bus = 0
        /\ starts = 0
        /\ pkt = NoPacket
        /\ prev = NoPacket

(* iec61883_amdtp_xmit_start: size the substrate's buffers from the CIP  *)
(* engine and start on cycle 0.  The CIP engine is not re-initialised.   *)
XmitStart ==
    /\ state \in {"init", "stopped"}
    /\ starts < MaxStarts
    /\ amdtp' = [amdtp EXCEPT !.max_packet_size = CipMaxPacketSize(amdtp.cip)]
    /\ state' = "running"
    /\ bus' = 0
    /\ starts' = starts + 1
    /\ pkt' = NoPacket
    /\ prev' = NoPacket

(* Events the handler puts in the packet: the CIP count, or syt_interval *)
(* zero-filled dummy events when the CIP engine says none.               *)
NSamples(cip, nevents) ==
    IF nevents > 0 THEN nevents
    ELSE IF cip.mode = BlockingEmpty THEN 0 ELSE cip.syt_interval

(***************************************************************************)
(* amdtp_xmit_handler.  `dropped` is the substrate's drop count and       *)
(* `cbOk` whether the application's get_data callback succeeds.  The      *)
(* header is filled (and the CIP state advanced) before the callback.    *)
(* An ERROR disposition makes the substrate stop the stream; an OK one    *)
(* hands it the packet for cycle bus + dropped.                          *)
(***************************************************************************)
XmitHandler(dropped, cbOk) ==
    LET h == CipFillHeader(amdtp.cip)
        nsamples == NSamples(amdtp.cip, h.nevents)
        cycle == (bus + dropped) % 16
        ok == /\ (h.nevents > 0 => cbOk)
              /\ amdtp.format \in {"RAW", "IEC958_PCM"}
        sent == [dbc |-> h.dbc, dbs |-> h.dbs, fmt |-> h.fmt, fdf |-> h.fdf,
                 syt |-> h.syt, tag |-> TagWithCip, cycle |-> cycle,
                 blocks |-> nsamples, nevents |-> h.nevents,
                 label |-> LabelOf(amdtp.format, amdtp.sample_format, h.nevents),
                 len |-> nsamples * amdtp.dimension * 4 + 8]
    IN  /\ state = "running"
        /\ amdtp' = [amdtp EXCEPT !.cip = h.cip]
        /\ bus' = (cycle + 1) % 16
        /\ IF ok
           THEN /\ pkt' = sent
                /\ prev' = pkt
                /\ UNCHANGED state
           ELSE /\ state' = "failed"
                /\ UNCHANGED <<pkt, prev>>
        /\ UNCHANGED starts

(* iec61883_amdtp_xmit_stop: shut the substrate down. *)
XmitStop ==
    /\ state \in {"running", "failed"}
    /\ state' = "stopped"
    /\ UNCHANGED <<amdtp, bus, starts, pkt, prev>>

(* iec61883_amdtp_close: stop if started, then free the stream. *)
Close ==
    /\ state \in {"init", "running", "failed", "stopped"}
    /\ state' = "closed"
    /\ UNCHANGED <<amdtp, bus, starts, pkt, prev>>

\* Nothing happens to a closed stream.
Closed == state = "closed" /\ UNCHANGED vars

Next ==
    \/ XmitStart
    \/ \E d \in 0..MaxDropped, cbOk \in BOOLEAN : XmitHandler(d, cbOk)
    \/ XmitStop
    \/ Close
    \/ Closed

Spec == Init /\ [][Next]_vars

-----------------------------------------------------------------------------
(* Properties *)

Packet == [dbc : 0..255, dbs : 0..255, fmt : 0..63, fdf : 0..255,
           syt : 0..65535, tag : 0..3, cycle : 0..15, blocks : Nat,
           nevents : Nat, label : 0..255, len : Nat]

TypeOK ==
    /\ state \in {"init", "running", "failed", "stopped", "closed"}
    /\ bus \in 0..15
    /\ starts \in 0..MaxStarts
    /\ pkt \in Packet \cup {NoPacket}
    /\ prev \in Packet \cup {NoPacket}
    /\ amdtp.cip.dbc \in 0..255
    /\ amdtp.cip.cycle_count \in 0..15
    /\ amdtp.cip.ready_samples.numerator \in 0..7999
    /\ amdtp.cip.cycle_offset.integer \in 0..(CycleTicks - 1)

DbcContinuity ==
    (pkt # NoPacket /\ prev # NoPacket) => pkt.dbc = (prev.dbc + prev.blocks) % 256

(* Ticks from the start of the packet's bus cycle to its SYT, as a       *)
(* receiver decodes the 4-bit cycle field relative to that cycle.        *)
SytLead(p) == ((p.syt \div 4096 - p.cycle) % 16) * CycleTicks + (p.syt % 4096)

(* A SYT that the transmitter emits refers to a moment after the start   *)
(* of the cycle its packet is sent on and at most the transfer delay     *)
(* plus one cycle later: never in the past, never ambiguous.             *)
SytInWindow ==
    (pkt # NoPacket /\ pkt.syt # NoSyt) =>
        SytLead(pkt) \in 1..(TransferDelay + CycleTicks)

(* A packet carries a SYT exactly when one of its real events has a data *)
(* block count that is a multiple of syt_interval (IEC 61883-6).         *)
SytOnSytIntervalBoundary ==
    pkt # NoPacket =>
        ((pkt.syt # NoSyt) <=>
            \E i \in 0..(pkt.nevents - 1) :
                (pkt.dbc + i) % amdtp.cip.syt_interval = 0)
=============================================================================
