------------------------------ MODULE Mpeg2Xmit ------------------------------
(***************************************************************************)
(* The MPEG-2 transport stream transmitter: iec61883_mpeg2_xmit_init,      *)
(* _xmit_start and _xmit_stop and mpeg2_xmit_handler of src/src/mpeg2.c,   *)
(* over the PCR-paced packetizer of src/src/tsbuffer.c, whose queue is     *)
(* the deque of src/src/deque.c (a sequence here: its push_back,          *)
(* pop_front, front, back and size are Append, Tail, Head, Last and Len).  *)
(*                                                                         *)
(* The application's stream is the constant sequence `Stream` of TS       *)
(* packets, abstracted to the fields tsbuffer reads: the PID, whether the  *)
(* adaptation field carries a PCR, and the value ts_get_pcr computes from  *)
(* the PCR bytes.  The application's read callback hands out the next     *)
(* packet and fails at the end of the stream.  The queue holds stream      *)
(* positions, so that what is sent can be compared with the stream.      *)
(***************************************************************************)
EXTENDS Integers, Sequences, SequencesExt, FiniteSetsExt

CONSTANTS
    Streams,      \* the streams the application may send
    Pids,         \* pid arguments of iec61883_mpeg2_xmit_start (-1: the first packet's)
    SrcNode,      \* raw1394_get_local_id & 0x3f of the transmitting node
    IsoInitOk,    \* outcomes of raw1394_iso_xmit_init
    Be64,         \* whether the receiving host is 64-bit big-endian
    MaxPutFailures, \* most put_data callbacks that fail
    MaxCycles,    \* handler calls explored
    PacingSlack,  \* cycles a PCR packet may go out early or late
    Huge          \* stands for a u64 difference that wrapped below zero

VARIABLES
    stream,    \* the stream the application sends (chosen at the start)
    tsb,       \* the transmitter's struct tsbuffer, or NoTsb
    rd,        \* packets the application's read callback has handed out
    xstate,    \* "init" | "running" | "failed" | "crashed" | "closed"
    calls,     \* calls of mpeg2_xmit_handler (one per bus cycle)
    pkt,       \* the isochronous packet on the bus this cycle, or NoPacket
    sent,      \* stream positions sent, in order (observer)
    anchor,    \* the stream position tsbuffer_init synchronised on (observer)
    selPid,    \* the PID the application asked for, the first packet's for -1 (observer)
    rstate,    \* the receiver: "running" | "stopped" | "closed"
    delivered, \* stream positions the receiver handed to put_data, in order
    putFails   \* put_data calls that failed so far

xvars == <<stream, tsb, rd, xstate, calls, pkt, sent, anchor, selPid>>
rvars == <<rstate, delivered, putFails>>
vars == <<xvars, rvars>>

NoTsb == [none |-> TRUE]
NoPacket == [none |-> TRUE]

MaxPcrLookahead == 20000   \* MAX_PCR_LOOKAHEAD
PcrSmoothInterval == 5     \* PCR_SMOOTH_INTERVAL
TspSize == 192             \* a TS packet with its source packet header
CipHeaderSize == 8
PcrPerCycle == 3375        \* 27 MHz / 8000 cycles a second

(* ts_get_pid returns u8: the 13-bit PID is cut to its low 8 bits. *)
\* Mutant: the PID masked to four bits.
TsGetPidNibble(ts) == ts.pid % 16

TsGetPid(ts) == ts.pid % 256

(* ts_has_pcr: the PID is the selected one (any when -1) and the          *)
(* adaptation field is present, non-empty and flags a PCR.               *)
TsHasPcr(ts, pid) == (pid = -1 \/ pid = TsGetPid(ts)) /\ ts.haspcr

(***************************************************************************)
(* tsbuffer_read_ts and tsbuffer_read_to_next_pcr on a tsbuffer record t,  *)
(* each read appending the next stream position (push_back).  Both return  *)
(* [t, rd, ok]; the callback fails at the end of the stream.               *)
(***************************************************************************)
\* `k` reads of tsbuffer_read_ts, as many as the stream has left.
ReadN(t, r, k) ==
    LET m == IF r + k <= Len(stream) THEN k ELSE Len(stream) - r
    IN  [t |-> [t EXCEPT !.queue = @ \o [i \in 1..m |-> r + i]],
         rd |-> r + m, ok |-> m = k]

\* The do-while loop: read (giving up once the queue has more than
\* MAX_PCR_LOOKAHEAD packets), select the first packet's PID when none is
\* selected, until the packet read is a PCR packet of the selected PID.
ReadToNextPcr(t, r) ==
    LET pid == IF t.selected_pid = -1 /\ r < Len(stream)
               THEN TsGetPid(stream[r + 1]) ELSE t.selected_pid
        hits == {j \in (r + 1)..Len(stream) : TsHasPcr(stream[j], pid)}
        cap == IF Len(t.queue) > MaxPcrLookahead THEN 0
               ELSE MaxPcrLookahead + 1 - Len(t.queue)
        want == IF hits = {} THEN Len(stream) + 1 - r ELSE Min(hits) - r
        x == ReadN([t EXCEPT !.selected_pid = pid], r, IF want <= cap THEN want ELSE cap)
    IN  [x EXCEPT !.ok = x.ok /\ hits # {} /\ want <= cap]

\* The u64 difference of two PCRs; a negative one wraps to a huge value.
PcrDelta(pcr, last) == IF pcr >= last THEN pcr - last ELSE Huge

(***************************************************************************)
(* tsbuffer_refill: read up to the PCR_SMOOTH_INTERVAL-th next PCR, then   *)
(* pace the queued packets over the PCR interval they span: n_packets *    *)
(* 3375 / delta_pcr TSPs a cycle as whole, num and denom.  tsp_accum is    *)
(* kept.  A zero delta_pcr is a division by zero (result "crash").        *)
(***************************************************************************)
RECURSIVE ReadPcrs(_, _, _)
ReadPcrsFrom(x, i) == IF x.ok THEN ReadPcrs(x.t, x.rd, i) ELSE x
ReadPcrs(t, r, i) ==
    IF i = 0 THEN [t |-> t, rd |-> r, ok |-> TRUE]
    ELSE ReadPcrsFrom(ReadToNextPcr(t, r), i - 1)

Refill(t, r) ==
    LET x == ReadPcrs(t, r, PcrSmoothInterval)
        n == Len(x.t.queue)
        pcr == stream[Last(x.t.queue)].pcr
        delta == PcrDelta(pcr, x.t.last_pcr)
    IN  CASE ~x.ok -> [x EXCEPT !.ok = "fail"]
          [] delta = 0 -> [x EXCEPT !.ok = "crash"]
          [] OTHER -> [t |-> [x.t EXCEPT !.tsp_whole = (n * PcrPerCycle) \div delta,
                                         !.tsp_num = (n * PcrPerCycle) % delta,
                                         !.tsp_denom = delta,
                                         !.last_pcr = pcr],
                       rd |-> x.rd, ok |-> "ok"]

(***************************************************************************)
(* tsbuffer_send_iso_cycle: the num/denom accumulator adds a TSP to        *)
(* tsp_whole when tsp_accum passes tsp_denom - tsp_num; packets missing    *)
(* for that are read ahead; the TSPs leave the front of the queue; an      *)
(* empty queue is refilled; iso_counter advances by 8 per TSP.  Returns    *)
(* [t, rd, ok, items, counter]: ok is "ok", "fail" (return 0) or "crash".  *)
(* The u32 iso_counter reaches the header as a u8, so it is kept mod 256   *)
(* (2^32 is a multiple of 256).                                            *)
(***************************************************************************)
\* `while (n_tsps > size) if (read_ts == 0) return 0;`
ReadAhead(t, r, n) == ReadN(t, r, IF n > Len(t.queue) THEN n - Len(t.queue) ELSE 0)

\* Mutant: the carry never adds the extra TSP.
AccumulateNoCarry(t) == [n |-> t.tsp_whole, accum |-> t.tsp_accum + t.tsp_num]

\* Mutant: tsp_accum is never advanced.
AccumulateStuck(t) ==
    IF t.tsp_accum > t.tsp_denom - t.tsp_num
    THEN [n |-> t.tsp_whole + 1, accum |-> t.tsp_accum]
    ELSE [n |-> t.tsp_whole, accum |-> t.tsp_accum]

Accumulate(t) ==
    IF t.tsp_accum > t.tsp_denom - t.tsp_num
    THEN [n |-> t.tsp_whole + 1, accum |-> t.tsp_accum - (t.tsp_denom - t.tsp_num)]
    ELSE [n |-> t.tsp_whole, accum |-> t.tsp_accum + t.tsp_num]

\* Mutant: the copy loop frees one TSP more than it copies.
PopFrontOneMore(q, n) == SubSeq(q, n + 2, Len(q))

\* The copy loop: n_tsps times deque_front, then pop_front.
PopFront(q, n) == SubSeq(q, n + 1, Len(q))

SendIsoCycle(t, r) ==
    LET a == Accumulate(t)
        x == ReadAhead([t EXCEPT !.tsp_accum = a.accum], r, a.n)
        q == x.t.queue
        t2 == [x.t EXCEPT !.queue = PopFront(q, a.n)]
        f == IF Len(t2.queue) = 0 THEN Refill(t2, x.rd)
             ELSE [t |-> t2, rd |-> x.rd, ok |-> "ok"]
    IN  IF ~x.ok THEN [t |-> x.t, rd |-> x.rd, ok |-> "fail", items |-> <<>>, counter |-> 0]
        ELSE [t |-> IF f.ok = "ok"
                    THEN [f.t EXCEPT !.iso_counter = (@ + 8 * a.n) % 256] ELSE f.t,
              rd |-> f.rd, ok |-> f.ok,
              items |-> SubSeq(q, 1, a.n),
              counter |-> t.iso_counter]

(* fill_mpeg_cip_header: the eight CIP header bytes; the counter is u8. *)
CipHeader(src, counter) == <<src, 6, 196, counter, 160, 128, 0, 0>>

(* make_sph offsets of the TSPs of one cycle, 1000 apart, cut to 12 bits. *)
SphOffsets(n) == [i \in 1..n |-> (1000 * (i - 1)) % 4096]

(***************************************************************************)
(* tsbuffer_init, called by iec61883_mpeg2_xmit_start: skip to the first   *)
(* PCR, take its value as last_pcr (ts_get_pcr of deque_back, NULL on an   *)
(* empty queue), drop everything read so far, and refill (its result is    *)
(* ignored).  Then raw1394_iso_xmit_init, which may fail.                  *)
(***************************************************************************)
TsbInit(pid) == [queue |-> <<>>, last_pcr |-> 0, tsp_accum |-> 0, tsp_whole |-> 0,
                 tsp_num |-> 0, tsp_denom |-> 0, selected_pid |-> pid, iso_counter |-> 0]

XmitStart(pid, isoInitOk) ==
    /\ xstate = "init"
    /\ LET x == ReadToNextPcr(TsbInit(pid), rd)
           t1 == [x.t EXCEPT !.queue = <<>>,
                             !.last_pcr = stream[Last(x.t.queue)].pcr]
           f == Refill(t1, x.rd)
       IN  IF x.t.queue = <<>>
           THEN /\ xstate' = "crashed"
                /\ UNCHANGED <<tsb, rd, anchor>>
           ELSE /\ tsb' = f.t
                /\ rd' = f.rd
                /\ anchor' = Last(x.t.queue)
                /\ xstate' = CASE f.ok = "crash" -> "crashed"
                               [] isoInitOk      -> "running"
                               [] OTHER          -> "failed"
    /\ selPid' = IF pid = -1 THEN stream[1].pid ELSE pid
    /\ UNCHANGED <<stream, calls, pkt, sent, rvars>>

(* test-mpeg2 calls iec61883_mpeg2_xmit_start with its -p pid. *)
StartXmit == \E pid \in Pids, ok \in IsoInitOk : XmitStart(pid, ok)

(***************************************************************************)
(* mpeg2_xmit_handler, once per cycle while the substrate transmits: the   *)
(* packet is CIP header + n TSPs, 8 + 192 n bytes; a zero length is        *)
(* RAW1394_ISO_ERROR, after which the substrate calls it no more.  The     *)
(* bus carries one packet a cycle, so the previous one has been taken.     *)
(***************************************************************************)
XmitHandlerGuard == xstate = "running" /\ pkt = NoPacket /\ calls < MaxCycles

XmitHandler ==
    /\ XmitHandlerGuard
    /\ LET s == SendIsoCycle(tsb, rd)
       IN  /\ tsb' = s.t
           /\ rd' = s.rd
           /\ calls' = calls + 1
           /\ IF s.ok = "ok"
              THEN /\ pkt' = [header |-> CipHeader(SrcNode, s.counter),
                              len |-> CipHeaderSize + TspSize * Len(s.items),
                              sph |-> SphOffsets(Len(s.items)),
                              items |-> s.items]
                   /\ sent' = sent \o s.items
                   /\ UNCHANGED xstate
              ELSE /\ xstate' = IF s.ok = "crash" THEN "crashed" ELSE "failed"
                   /\ UNCHANGED <<pkt, sent>>
    /\ UNCHANGED <<stream, anchor, selPid, rvars>>

(* iec61883_mpeg2_close -> _xmit_stop: the application leaves its loop on  *)
(* an error or on a signal; iso shutdown and tsbuffer_close.              *)
XmitClose ==
    /\ xstate \in {"running", "failed"}
    /\ xstate' = "closed"
    /\ tsb' = NoTsb
    /\ UNCHANGED <<stream, rd, calls, pkt, sent, anchor, selPid, rvars>>

(***************************************************************************)
(* mpeg2_recv_handler.  It reads the first two header quadlets through an  *)
(* unsigned long: on a 64-bit big-endian host that load takes 8 bytes and  *)
(* htonl keeps the low half, i.e. the next quadlet.  Bit 31 never reaches  *)
(* the fields it extracts, so it is left out of the arithmetic.          *)
(***************************************************************************)
QuadletBits(b, shift, width) ==
    (((b[1] % 128) * 2^24 + b[2] * 2^16 + b[3] * 2^8 + b[4]) \div 2^shift) % 2^width

LoadQuadlet(bytes, off) ==
    IF Be64 THEN SubSeq(bytes, off + 5, off + 8) ELSE SubSeq(bytes, off + 1, off + 4)

\* The bytes at data: the CIP header, then what follows it in the buffer
\* (only reached by the 64-bit big-endian load of data + 4).
PacketBytes(p) == p.header \o <<0, 0, 0, 0>>

\* Mutant: `len > TSP_SPH_SIZE + 8`, rejecting one-TSP packets.
ValidCipStrict(p) ==
    /\ QuadletBits(LoadQuadlet(PacketBytes(p), 0), 10, 14) = 433
    /\ QuadletBits(LoadQuadlet(PacketBytes(p), 4), 24, 6) = 32
    /\ p.len > TspSize + CipHeaderSize

ValidCip(p) ==
    /\ QuadletBits(LoadQuadlet(PacketBytes(p), 0), 10, 14) = 433   \* 0x01b1
    /\ QuadletBits(LoadQuadlet(PacketBytes(p), 4), 24, 6) = 32     \* 0x20
    /\ p.len >= TspSize + CipHeaderSize

(* The TSP loop: `len > 188; len -= 192` hands each TSP to put_data and    *)
(* stops at the first failing call (k of them succeed).                    *)
TspsInPacket(len) == IF len > 188 THEN (len - 188 + TspSize - 1) \div TspSize ELSE 0

RecvHandler ==
    /\ pkt # NoPacket
    /\ rstate = "running"
    /\ pkt' = NoPacket
    /\ IF ValidCip(pkt)
       THEN \E k \in 0..TspsInPacket(pkt.len) :
              /\ k < TspsInPacket(pkt.len) => putFails < MaxPutFailures
              /\ delivered' = delivered \o SubSeq(pkt.items, 1, k)
              /\ IF k < TspsInPacket(pkt.len)
                 THEN rstate' = "stopped" /\ putFails' = putFails + 1
                 ELSE UNCHANGED <<rstate, putFails>>
       ELSE UNCHANGED rvars
    /\ UNCHANGED <<stream, tsb, rd, xstate, calls, sent, anchor, selPid>>

(* A packet on a channel nobody is receiving on any more. *)
BusDiscard ==
    /\ pkt # NoPacket
    /\ rstate # "running"
    /\ pkt' = NoPacket
    /\ UNCHANGED <<stream, tsb, rd, xstate, calls, sent, anchor, selPid, rvars>>

(* iec61883_mpeg2_close -> _recv_stop on the receiving side. *)
RecvClose ==
    /\ rstate \in {"running", "stopped"}
    /\ rstate' = "closed"
    /\ UNCHANGED <<xvars, delivered, putFails>>

Init ==
    /\ stream \in Streams
    /\ tsb = NoTsb
    /\ rd = 0
    /\ xstate = "init"
    /\ calls = 0
    /\ pkt = NoPacket
    /\ sent = <<>>
    /\ anchor = 0
    /\ selPid = -1
    /\ rstate = "running"
    /\ delivered = <<>>
    /\ putFails = 0

\* The program has ended: both sides closed, or the transmitter crashed.
Done ==
    /\ xstate \in {"closed", "crashed"} \/ calls = MaxCycles
    /\ pkt = NoPacket
    /\ UNCHANGED vars

Next ==
    \/ StartXmit
    \/ XmitHandler
    \/ XmitClose
    \/ RecvHandler
    \/ BusDiscard
    \/ RecvClose
    \/ Done

(***************************************************************************)
(* Fairness.  The substrate calls the transmit handler every cycle and    *)
(* the receive handler for every packet; test-mpeg2 starts transmitting   *)
(* right after init and closes once raw1394_loop_iterate reports the       *)
(* handler's error.  Closing on a signal is not fair: it may never come.   *)
(***************************************************************************)
(* Weak fairness of an action whose effect is a total function of the     *)
(* state, so that it is enabled exactly when its guard holds: WF_vars(A)  *)
(* written with the guard for ENABLED A.  TLC takes it as the hypothesis  *)
(* of a property rather than as a conjunct of Spec.                       *)
WFGuarded(guard, A) == []<>(~guard) \/ []<><<A>>_vars

XmitFairness ==
    /\ []<>(xstate # "init") \/ []<><<StartXmit>>_vars
    /\ []<>(~XmitHandlerGuard) \/ []<><<XmitHandler>>_vars

Fairness ==
    /\ WF_vars(RecvHandler)
    /\ WF_vars(BusDiscard)
    /\ WF_vars(xstate = "failed" /\ XmitClose)

Spec == Init /\ [][Next]_vars /\ Fairness

-----------------------------------------------------------------------------
(* The packet size iec61883_mpeg2_xmit_start gives raw1394_iso_xmit_init. *)
XmitMaxPacketSize == 968
MaxTsps == (XmitMaxPacketSize - CipHeaderSize) \div TspSize

Positions == UNION {DOMAIN s : s \in Streams}
Sent(p) == \E i \in DOMAIN sent : sent[i] = p
Queued(p) == tsb # NoTsb /\ \E i \in DOMAIN tsb.queue : tsb.queue[i] = p
Delivered(p) == \E i \in DOMAIN delivered : delivered[i] = p

TypeOK ==
    /\ stream \in Streams
    /\ xstate \in {"init", "running", "failed", "crashed", "closed"}
    /\ rstate \in {"running", "stopped", "closed"}
    /\ calls \in 0..MaxCycles
    /\ rd \in 0..Len(stream)
    /\ anchor \in 0..Len(stream)
    /\ putFails \in 0..MaxPutFailures

(***************************************************************************)
(* Refinement: the deque's FIFO order, read-ahead and refill in            *)
(* tsbuffer_send_iso_cycle, and the accumulator's TSP count per cycle      *)
(* together implement TsStream: from the first packet tsbuffer_init keeps, *)
(* the packets go out in order, without gaps or repeats, at most 968       *)
(* bytes' worth (5 TSPs) a cycle.  The first packet kept is the one after  *)
(* the synchronising PCR packet: tsbuffer_init's dump loop empties the     *)
(* whole queue, the PCR packet included, although its comment (and the    *)
(* specification) discard only the packets before it.  The mapping states *)
(* where the code starts; TsStream takes no position on where that is.    *)
(***************************************************************************)
FirstKept == IF anchor = 0 THEN 0 ELSE anchor + 1
Abstract == INSTANCE TsStream WITH src <- stream, base <- FirstKept, out <- sent
ImplementsTsStream == Abstract!Spec

(***************************************************************************)
(* PCR pacing (the reason for tsbuffer_refill's num/denom rate): while     *)
(* transmitting, every PCR packet after the synchronisation point goes out *)
(* within PacingSlack cycles of the time its PCR says, counted from the    *)
(* synchronising PCR at 3375 PCR ticks per cycle: never early, never late. *)
(***************************************************************************)
Due(p) == stream[p].pcr - stream[anchor].pcr

PcrPacing ==
    xstate = "running" =>
        \A p \in (anchor + 1)..Len(stream) :
            stream[p].haspcr =>
                /\ Sent(p) => calls * PcrPerCycle >= Due(p) - PacingSlack * PcrPerCycle
                /\ ~Sent(p) => calls * PcrPerCycle <= Due(p) + PacingSlack * PcrPerCycle

(***************************************************************************)
(* Liveness of the transmit handler: a packet tsbuffer has read into its   *)
(* queue is eventually sent, unless transmission ends.                     *)
(***************************************************************************)
QueuedPacketsLeave ==
    XmitFairness =>
        \A p \in Positions : (xstate = "running" /\ Queued(p)) ~> (Sent(p) \/ xstate # "running")

(***************************************************************************)
(* Transmitter and receiver composed: every TSP the transmitter puts on    *)
(* the bus is handed to the receiver's put_data, unless the receiver has   *)
(* stopped (mpeg2_recv_handler's CIP check and TSP loop accept it).        *)
(***************************************************************************)
SentIsDelivered ==
    XmitFairness => \A p \in Positions : Sent(p) ~> (Delivered(p) \/ rstate # "running")

(***************************************************************************)
(* Smoothing windows are sent: tsbuffer gives up (send_iso_cycle          *)
(* returning 0) only at the end of the stream, and by then every packet    *)
(* from the first PCR of the selected PID (iec61883_mpeg2_xmit_start's pid, *)
(* the first packet's for -1) up to the end of the last window but one of  *)
(* PCR_SMOOTH_INTERVAL PCR intervals has been sent.  (The last window's    *)
(* final cycle is popped and then dropped when the refill after it fails.) *)
(***************************************************************************)
SelectedPcrs == {p \in DOMAIN stream : stream[p].haspcr /\ stream[p].pid = selPid}
WindowEnds ==
    {q \in SelectedPcrs :
        LET k == Cardinality({p \in SelectedPcrs : p <= q}) - 1
        IN  k > 0 /\ k % PcrSmoothInterval = 0}
EarlierWindowEnds == {q \in WindowEnds : \E q2 \in WindowEnds : q < q2}

WindowsSent ==
    (xstate = "failed" /\ calls > 0 /\ EarlierWindowEnds # {}) =>
        \A p \in (Min(SelectedPcrs) + 1)..Max(EarlierWindowEnds) : Sent(p)
=============================================================================
