------------------------------- MODULE DvXmit -------------------------------
(***************************************************************************)
(* The DV transmitter of src/src/dv.c: iec61883_dv_xmit_init, _xmit_start, *)
(* dv_xmit_handler with the DV_CUSTOM_CIP packetizer (compiled in), and    *)
(* _xmit_stop / _close, for a set of streams in one process.               *)
(*                                                                         *)
(* The custom packetizer keeps packet_num, cip_accum and                   *)
(* continuity_counter in function-level `static` variables: they are      *)
(* shared by every DV stream of the process, and are global variables     *)
(* here.  It overwrites the SYT, the DBC and the block count that          *)
(* iec61883_cip_fill_header computed, so of the stream's CIP state only    *)
(* what reaches the packet (fmt, fdf, dbs) is kept: for DV, cip_init's     *)
(* 24576000 * syt_interval overflows int and the timestamp fields it       *)
(* feeds are never used.  `clock` counts the bus cycles since the stream   *)
(* started (libraw1394 starts it on some cycle; only differences and the   *)
(* low 4 bits, 8000 being a multiple of 16, reach a packet).               *)
(***************************************************************************)
EXTENDS Integers, Cip

CONSTANTS
    Streams,     \* the DV transmit streams of the process
    Systems,     \* is_pal values the application may pass
    MaxDropped,  \* most packets the substrate drops before one handler call
    MaxCycles    \* bus cycles explored per stream

VARIABLES
    dv,                 \* per stream: is_pal, state and the CIP header fields
    clock,              \* per stream: bus cycles since xmit_start
    pkt,                \* per stream: the last packet sent, or NoPacket
    prev,               \* per stream: the packet sent before it, or NoPacket
    sent,               \* per stream: DIF blocks it has sent
    origin,             \* per stream: cycle of its first DIF block (observer)
    packet_num,         \* static of dv_xmit_handler
    cip_accum,          \* static of dv_xmit_handler
    continuity_counter  \* static of dv_xmit_handler

vars == <<dv, clock, pkt, prev, sent, origin, packet_num, cip_accum, continuity_counter>>

NoPacket == [none |-> TRUE]

FmtDv == 0           \* IEC61883_FMT_DV
DifBlockSize == 480  \* DIF_BLOCK_SIZE
SytOffset == 3       \* syt_offset of the custom packetizer

\* The frame geometry dv_xmit_init derives from is_pal.
SytIntervalOfSystem(is_pal) == IF is_pal THEN 300 ELSE 250

\* The empty-packet cadence: cip_n / cip_d (PAL defaults, NTSC 68/1068).
CipN(syt_interval) == IF syt_interval = 250 THEN 68 ELSE 1

\* Mutant: the PAL cadence divides by 15 instead of 16.
CipDPal15(syt_interval) == IF syt_interval = 250 THEN 1068 ELSE 15

CipD(syt_interval) == IF syt_interval = 250 THEN 1068 ELSE 16

\* Mutant: an empty packet adds to the accumulator instead of subtracting.
AccumStepSignSwapped(accum, empty, n, d) ==
    IF empty THEN accum + (d - n) ELSE accum + n

\* cip_accum after a packet: the num/denom duty cycle of empty packets.
AccumStep(accum, empty, n, d) ==
    IF empty THEN accum - (d - n) ELSE accum + n

\* Mutant: the continuity counter counts packets, not DIF blocks.
ContinuityStepPerPacket(cc, blocks) == cc + 1

\* continuity_counter after a packet of `blocks` DIF blocks.
ContinuityStep(cc, blocks) == cc + blocks

\* Mutant: packet_num wraps one packet late.
NextPacketNumLate(pn, empty, si) ==
    CASE empty -> pn [] pn + 1 > si -> 0 [] OTHER -> pn + 1

\* Mutant: packet_num also counts empty packets.
NextPacketNumAll(pn, empty, si) == IF pn + 1 >= si THEN 0 ELSE pn + 1

\* packet_num after a packet: DIF blocks of the current frame, mod syt_interval.
NextPacketNum(pn, empty, si) ==
    CASE empty -> pn [] pn + 1 >= si -> 0 [] OTHER -> pn + 1

(* iec61883_dv_xmit_init for every stream: the CIP header fields of a    *)
(* non-blocking stream of 120-quadlet blocks.                             *)
Init ==
    /\ \E sys \in [Streams -> Systems] :
          dv = [s \in Streams |->
                  [is_pal |-> sys[s], state |-> "init",
                   fmt |-> FmtDv, fdf |-> IF sys[s] THEN 128 ELSE 0,
                   dbs |-> DifBlockSize \div 4,
                   syt_interval |-> SytIntervalOfSystem(sys[s]),
                   mode |-> NonBlocking]]
    /\ clock = [s \in Streams |-> 0]
    /\ pkt = [s \in Streams |-> NoPacket]
    /\ prev = [s \in Streams |-> NoPacket]
    /\ sent = [s \in Streams |-> 0]
    /\ origin = [s \in Streams |-> 0]
    /\ packet_num = 0
    /\ cip_accum = 0
    /\ continuity_counter = 0

(* iec61883_dv_xmit_start: start the substrate.  Neither the stream's    *)
(* CIP state nor the packetizer's statics are reset.                     *)
XmitStart(s) ==
    /\ dv[s].state = "init"
    /\ dv' = [dv EXCEPT ![s].state = "running"]
    /\ UNCHANGED <<clock, pkt, prev, sent, origin, packet_num, cip_accum, continuity_counter>>

(* The SYT of the custom packetizer: the cycle three cycles ahead, with   *)
(* the `ts > 8000` wrap, of which the low 4 bits reach the packet.        *)
DvSyt(cycle) ==
    LET ts == cycle + SytOffset
    IN  ((IF ts > 8000 THEN ts - 8000 ELSE ts) % 16) * 4096

(***************************************************************************)
(* dv_xmit_handler for stream s: `dropped` slots were lost before this     *)
(* one, `cbOk` is whether get_data succeeds (it is called also for empty  *)
(* packets).  The SYT is decided from packet_num before the cadence       *)
(* decides whether this packet carries a DIF block.                       *)
(***************************************************************************)
XmitHandler(s, dropped, cbOk) ==
    LET si == dv[s].syt_interval
        n == CipN(si)
        d == CipD(si)
        cycle == clock[s] + dropped
        empty == cip_accum > d - n
        blocks == IF empty THEN 0 ELSE 1
        p == [dbc |-> continuity_counter % 256, blocks |-> blocks,
              syt |-> IF packet_num = 0 THEN DvSyt(cycle) ELSE NoSyt,
              fmt |-> dv[s].fmt, fdf |-> dv[s].fdf, dbs |-> dv[s].dbs,
              len |-> blocks * DifBlockSize + 8,
              cycle |-> cycle, index |-> sent[s]]
    IN  /\ dv[s].state = "running"
        /\ cycle < MaxCycles
        /\ cip_accum' = AccumStep(cip_accum, empty, n, d)
        /\ continuity_counter' = ContinuityStep(continuity_counter, blocks)
        /\ packet_num' = NextPacketNum(packet_num, empty, si)
        /\ clock' = [clock EXCEPT ![s] = cycle + 1]
        /\ IF cbOk
           THEN /\ pkt' = [pkt EXCEPT ![s] = p]
                /\ prev' = [prev EXCEPT ![s] = pkt[s]]
                /\ sent' = [sent EXCEPT ![s] = @ + blocks]
                /\ origin' = IF sent[s] = 0 THEN [origin EXCEPT ![s] = cycle] ELSE origin
                /\ UNCHANGED dv
           ELSE /\ dv' = [dv EXCEPT ![s].state = "failed"]
                /\ UNCHANGED <<pkt, prev, sent, origin>>

(* iec61883_dv_xmit_stop / iec61883_dv_close of a transmitting stream. *)
XmitStop(s) ==
    /\ dv[s].state \in {"running", "failed"}
    /\ dv' = [dv EXCEPT ![s].state = "stopped"]
    /\ UNCHANGED <<clock, pkt, prev, sent, origin, packet_num, cip_accum, continuity_counter>>

\* Every stream has stopped or used up the explored cycles.
Quiet ==
    /\ \A s \in Streams : dv[s].state \in {"init", "stopped"} \/ clock[s] >= MaxCycles - MaxDropped
    /\ UNCHANGED vars

Next ==
    \/ \E s \in Streams : XmitStart(s) \/ XmitStop(s)
    \/ \E s \in Streams, dr \in 0..MaxDropped, cbOk \in BOOLEAN : XmitHandler(s, dr, cbOk)
    \/ Quiet

Spec == Init /\ [][Next]_vars

-----------------------------------------------------------------------------
(* Properties *)

Packet == [dbc : 0..255, blocks : 0..1, syt : 0..65535, fmt : 0..63,
           fdf : 0..255, dbs : 0..255, len : Nat, cycle : Nat, index : Nat]

TypeOK ==
    /\ \A s \in Streams :
          /\ dv[s].state \in {"init", "running", "failed", "stopped"}
          /\ clock[s] \in 0..MaxCycles
          /\ pkt[s] \in Packet \cup {NoPacket}
          /\ prev[s] \in Packet \cup {NoPacket}
    /\ packet_num \in 0..299
    /\ cip_accum \in 0..1068
    /\ continuity_counter \in Nat

(* Each stream's DBC counts its own DIF blocks: a packet's dbc is the     *)
(* previous packet's dbc plus the blocks that packet carried (the shared  *)
(* continuity_counter of dv_xmit_handler).                               *)
DvDbcContinuity ==
    \A s \in Streams :
        (pkt[s] # NoPacket /\ prev[s] # NoPacket) =>
            pkt[s].dbc = (prev[s].dbc + prev[s].blocks) % 256

(* A stream's packet carries a SYT exactly when it carries the first DIF  *)
(* block of one of its frames; empty packets carry 0xFFFF (packet_num     *)
(* against the cadence of dv_xmit_handler).                               *)
DvSytMarksFrameStart ==
    \A s \in Streams :
        pkt[s] # NoPacket =>
            ((pkt[s].syt # NoSyt) <=>
                (pkt[s].blocks = 1 /\ pkt[s].index % dv[s].syt_interval = 0))

\* Cycles a second over PAL frames a second.
PalFramePeriod == 8000 \div 25

(* PAL frames start on time: the k-th frame of a PAL stream starts       *)
(* within one cycle of k frame periods (320 cycles) after its first, so  *)
(* the 1/16 cadence of dv_xmit_handler keeps the 25 frames a second     *)
(* dv_xmit_init was given, across packet_num and accumulator wraps.     *)
(* (The NTSC cadence is not held to 30000/1001: its 68/1068 ratio gives  *)
(* 267 cycles a frame, one cycle late every fifteen frames.)             *)
DvFrameRate ==
    \A s \in Streams :
        LET p == pkt[s]
        IN  (/\ dv[s].is_pal
             /\ p # NoPacket /\ p.blocks = 1 /\ p.index % dv[s].syt_interval = 0)
                => LET err == p.cycle - origin[s]
                              - (p.index \div dv[s].syt_interval) * PalFramePeriod
                   IN  err \in -1..1
=============================================================================
