--------------------------------- MODULE Cmp ---------------------------------
(***************************************************************************)
(* Connection management of src/src/cmp.c and the plug access of          *)
(* src/src/plug.c, between one output node and one input node.  Which of   *)
(* the two implement plug control registers (oMPR.n_plugs, iMPR.n_plugs)  *)
(* selects the branch of iec61883_cmp_connect, _reconnect and _disconnect: *)
(* point-to-point, half point-to-point on the output or on the input, or  *)
(* broadcast on channel 63.                                                *)
(*                                                                         *)
(* The registers of the two nodes (oPCR[], iPCR[]) and the IRM's           *)
(* CHANNELS_AVAILABLE and BANDWIDTH_AVAILABLE are the state.  Each        *)
(* library call (iec61883_cmp_connect, iec61883_cmp_disconnect) is one     *)
(* atomic step: this is exact for the calls of one single-threaded         *)
(* application, which is how the example programs use the API.  A call's   *)
(* lock transactions may fail (bus reset, busy node); which of them fail   *)
(* is an input of the step, among the call sites `FailSites`.             *)
(*                                                                         *)
(* A call is an operator from the world [o, i, free, bw, no, ni] (no, ni   *)
(* the MPRs' n_plugs) to the world                                          *)
(* after it, with the call's result.  Registers carry the PCR fields the   *)
(* code reads or writes.                                                   *)
(***************************************************************************)
EXTENDS Integers, FiniteSets, FiniteSetsExt

CONSTANTS
    Controllers,  \* connections the application makes, each connected and disconnected in turn
    NOPlugs,      \* oPCRs of the output node's register space
    NIPlugs,      \* iPCRs of the input node's register space
    Nodes,        \* node configurations: MPR plug counts no, ni, online plugs oon, ion,
                  \* and ino, the oMPR.n_plugs of the input node
    BcastInit,    \* whether oPCR[0] may start with the device's own broadcast connection
    InitFree,     \* channels free at the IRM at the start
    BwInit,       \* BANDWIDTH_AVAILABLE at the start
    Payload,      \* payload field of the output plugs (quadlets)
    OverheadId,   \* overhead_id field of the output plugs
    Skip,         \* values of "skip bandwidth allocation" (*bandwidth == 0) the application passes
    MaxConnects,  \* connect calls per controller
    FailSites,    \* lock transactions that may fail
    MaxFailures,  \* failing transactions in a behaviour
    IReadOk,      \* whether the input node answers a read of the iPCR past its last plug
    MaxResets,    \* bus resets in a behaviour
    ResetClears,  \* whether a bus reset clears the plugs' point-to-point counters
    RcSites       \* lock transactions that may fail inside iec61883_cmp_reconnect

VARIABLES
    opcr,      \* output plug control registers of the output node
    ipcr,      \* input plug control registers of the input node
    irm_free,  \* channels marked available in the IRM's CHANNELS_AVAILABLE
    irm_bw,    \* the IRM's BANDWIDTH_AVAILABLE
    held,      \* per controller: the connection connect returned, or NoConn
    connects,  \* per controller: connect calls made
    failures,  \* failing transactions so far
    stale,     \* per controller: its connection awaits reconnection after a bus reset
    resets,    \* bus resets so far
    mpr        \* the node configuration: [no, ni, ino], fixed for a behaviour

vars == <<opcr, ipcr, irm_free, irm_bw, held, connects, failures, stale, resets, mpr>>

NoConn == [none |-> TRUE]
OPlugs == 0..(NOPlugs - 1)
IPlugs == 0..(NIPlugs - 1)

BcastChannel == 63   \* oMPR.bcast_channel of the output node
DataRate == 2        \* oMPR/iMPR/oPCR data_rate: S400
BwMax == 4915        \* the most BANDWIDTH_AVAILABLE may hold

World == [o |-> opcr, i |-> ipcr, free |-> irm_free, bw |-> irm_bw,
          no |-> mpr.no, ni |-> mpr.ni, ino |-> mpr.ino]

Ok(w) == [w |-> w, ok |-> TRUE]
Failed(w) == [w |-> w, ok |-> FALSE]

(***************************************************************************)
(* iec61883_plug_set: read the register, then compare-swap it against the  *)
(* value just read.  In one atomic call the compare always matches, so the *)
(* write happens unless the lock transaction at `site` fails.             *)
(***************************************************************************)
SetOPCR(w, p, v, site, F) ==
    IF site \in F THEN Failed(w) ELSE Ok([w EXCEPT !.o[p] = v])

SetIPCR(w, p, v, site, F) ==
    IF site \in F THEN Failed(w) ELSE Ok([w EXCEPT !.i[p] = v])

(* raw1394_channel_modify and raw1394_bandwidth_modify (libraw1394): a     *)
(* compare-swap on the IRM that fails when the channel is not in the       *)
(* requested state or the bandwidth does not fit.                          *)
ChannelAlloc(w, c) ==
    IF c \in w.free THEN Ok([w EXCEPT !.free = @ \ {c}]) ELSE Failed(w)

ChannelFree(w, c) ==
    IF c \in w.free THEN Failed(w) ELSE Ok([w EXCEPT !.free = @ \cup {c}])

BandwidthAlloc(w, b) ==
    IF w.bw < b THEN Failed(w) ELSE Ok([w EXCEPT !.bw = @ - b])

BandwidthFree(w, b) ==
    IF w.bw + b > BwMax THEN Failed(w) ELSE Ok([w EXCEPT !.bw = @ + b])

\* The connection counter saturates at 63 (six bits).
Inc63(n) == IF n < 63 THEN n + 1 ELSE n

(* iec61883_cmp_calc_bandwidth for output plug register o; a speed       *)
(* outside 0..2 takes the plug's data rate.                              *)
CalcBandwidth(o, speed) ==
    LET s == IF speed < 0 \/ speed > 2 THEN o.data_rate ELSE speed
    IN  (IF o.overhead_id > 0 THEN o.overhead_id * 32 ELSE 512)
            + (o.payload + 3) * 2^(2 - s) * 4

(* iec61883_cmp_calc_bandwidth(input, p, -1): the half point-to-point     *)
(* input branches guess the bandwidth from the input node's own oPCR[p],  *)
(* p an iPCR number; -1 when the input node has no oPCR p.  Its oPCRs are  *)
(* taken to carry the output node's format.                              *)
InBandwidth(w, p) ==
    IF p < w.ino
    THEN CalcBandwidth([data_rate |-> DataRate, overhead_id |-> OverheadId,
                        payload |-> Payload], -1)
    ELSE -1

(* The bandwidth step of the half point-to-point branches: skipped, or    *)
(* failed when the calculation gave less than 1 or the IRM refuses it.    *)
ReserveBandwidth(w, bw, skip) ==
    CASE skip -> Ok(w)
      [] bw < 1 -> Failed(w)
      [] OTHER -> BandwidthAlloc(w, bw)

(* allocate_channel: the first channel below 63 the IRM grants; 63,      *)
(* not allocated, when none is granted.                                  *)
AllocateChannel(free) ==
    LET granted == {c \in free : c < 63}
    IN  IF granted = {} THEN 63 ELSE Min(granted)

\* Release the channel, and the bandwidth only when that succeeded.
ReleaseResources(w, c, b) ==
    LET r == ChannelFree(w, c)
    IN  IF r.ok THEN BandwidthFree(r.w, b).w ELSE r.w

-----------------------------------------------------------------------------
(* The plug-level procedures of cmp.c.  Each returns [w, ok]. *)

(* iec61883_cmp_create_p2p: both plugs take the channel and one more       *)
(* connection; if the input plug cannot be written, the saved output plug  *)
(* is written back.                                                        *)
CreateP2p(w, op, ip, ch, speed, F) ==
    LET o == w.o[op]
        i == w.i[ip]
        s1 == SetOPCR(w, op, [o EXCEPT !.channel = ch, !.data_rate = speed,
                                       !.n_p2p = Inc63(@)], "p2p_o", F)
        s2 == SetIPCR(s1.w, ip, [i EXCEPT !.channel = ch, !.n_p2p = Inc63(@)], "p2p_i", F)
        undo == SetOPCR(s2.w, op, o, "p2p_undo", F)
    IN  CASE ~s1.ok -> Failed(w)
          [] ~s2.ok -> Failed(undo.w)
          [] OTHER -> Ok(s2.w)

(* iec61883_cmp_create_p2p_input *)
CreateP2pInput(w, ip, ch, F) ==
    SetIPCR(w, ip, [w.i[ip] EXCEPT !.channel = ch, !.n_p2p = Inc63(@)], "in_i", F)

(* iec61883_cmp_create_p2p_output *)
CreateP2pOutput(w, op, ch, speed, F) ==
    SetOPCR(w, op, [w.o[op] EXCEPT !.channel = ch, !.data_rate = speed, !.n_p2p = Inc63(@)],
            "cpo_o", F)

(* iec61883_cmp_overlay_p2p_input: one more connection unless broadcast. *)
OverlayP2pInput(w, ip, F) ==
    IF w.i[ip].bcast = 0
    THEN SetIPCR(w, ip, [w.i[ip] EXCEPT !.n_p2p = Inc63(@)], "ovi_i", F)
    ELSE Ok(w)

(* iec61883_cmp_overlay_p2p_output: one more connection unless broadcast. *)
OverlayP2pOutput(w, op, F) ==
    IF w.o[op].bcast = 0
    THEN SetOPCR(w, op, [w.o[op] EXCEPT !.n_p2p = Inc63(@)], "out_o", F)
    ELSE Ok(w)

(* iec61883_cmp_overlay_p2p: one more connection on each plug that is not *)
(* broadcast; save_opcr is assigned only when the output plug is not      *)
(* broadcast, and is otherwise whatever the stack held (`junk`).          *)
OverlayP2p(w, op, ip, junk, F) ==
    LET o == w.o[op]
        i == w.i[ip]
        save == IF o.bcast = 0 THEN o ELSE junk
        s1 == SetOPCR(w, op, IF o.bcast = 0 THEN [o EXCEPT !.n_p2p = Inc63(@)] ELSE o, "ov_o", F)
        s2 == SetIPCR(s1.w, ip, IF i.bcast = 0 THEN [i EXCEPT !.n_p2p = Inc63(@)] ELSE i, "ov_i", F)
        undo == SetOPCR(s2.w, op, save, "ov_undo", F)
    IN  CASE ~s1.ok -> Failed(w)
          [] ~s2.ok -> Failed(undo.w)
          [] OTHER -> Ok(s2.w)

(* iec61883_cmp_overlay_bcast: mark both plugs broadcast. *)
OverlayBcast(w, op, ip, F) ==
    LET o == w.o[op]
        s1 == SetOPCR(w, op, [o EXCEPT !.bcast = 1], "bc_o", F)
        s2 == SetIPCR(s1.w, ip, [w.i[ip] EXCEPT !.bcast = 1], "bc_i", F)
        undo == SetOPCR(s2.w, op, o, "bc_undo", F)
    IN  CASE ~s1.ok -> Failed(w)
          [] ~s2.ok -> Failed(undo.w)
          [] OTHER -> Ok(s2.w)

-----------------------------------------------------------------------------
(* iec61883_cmp_connect with *oplug = *iplug = -1 (the examples' call).  *)

(* allocate_channel takes the channel it returns from the IRM. *)
AllocChannel(w) ==
    LET c == AllocateChannel(w.free)
    IN  [w |-> IF c < 63 THEN [w EXCEPT !.free = @ \ {c}] ELSE w, c |-> c]

(* The plug scan: the first online plug without point-to-point            *)
(* connections (n_plugs if none), and the first online plug (-1 if none). *)
FirstFree(regs, n) ==
    LET free == {p \in 0..(n - 1) : regs[p].online /\ regs[p].n_p2p = 0}
    IN  IF free = {} THEN n ELSE Min(free)

FirstOnline(regs, n) ==
    LET on == {p \in 0..(n - 1) : regs[p].online}
    IN  IF on = {} THEN -1 ELSE Min(on)

\* A connect result: the world after it and what it returns to the caller.
Result(w, op, ip, ch, bw, kind) ==
    [w |-> w, op |-> op, ip |-> ip, ch |-> ch, bw |-> bw, kind |-> kind]

(* Both plugs free: join the output's broadcast connection, or allocate   *)
(* bandwidth (unless skipped) and a channel and create the connection;    *)
(* when that fails the channel, and then the bandwidth, are released.    *)
ConnectEstablish(w, op, ip, skip, F) ==
    LET o == w.o[op]
        bw == IF skip THEN 0 ELSE CalcBandwidth(o, DataRate)
        a == IF skip THEN Ok(w) ELSE BandwidthAlloc(w, bw)
        al == AllocChannel(a.w)
        cp == CreateP2p(al.w, op, ip, al.c, DataRate, F)
    IN  CASE o.bcast = 1 ->
               Result(OverlayBcast(w, op, ip, F).w, op, ip, o.channel, 0, "bcast")
          [] ~a.ok -> Result(a.w, op, ip, -1, bw, "p2p")
          [] cp.ok -> Result(cp.w, op, ip, al.c, bw, "p2p")
          [] OTHER -> Result(ReleaseResources(cp.w, al.c, bw), op, ip, -1, bw, "p2p")

(* A free input plug, no free output plug: receive the first online       *)
(* output plug's channel; the input plug is written before the output     *)
(* plug and is not restored when the output plug cannot be written.      *)
ConnectToOutput(w, oon, ip, F) ==
    LET o == w.o[oon]
        ci == CreateP2pInput(w, ip, o.channel, F)
        oo == OverlayP2pOutput(ci.w, oon, F)
    IN  CASE o.bcast = 1 ->
               Result(OverlayBcast(w, oon, ip, F).w, oon, ip, o.channel, 0, "bcast")
          [] ~ci.ok -> Result(ci.w, oon, ip, -1, 0, "p2p")
          [] ~oo.ok -> Result(oo.w, oon, ip, -1, 0, "p2p")
          [] OTHER -> Result(oo.w, oon, ip, o.channel, 0, "p2p")

(* No free plug on either node: overlay the first online plugs.  *iplug  *)
(* keeps the scan's end value, impr.n_plugs.                             *)
ConnectOverlay(w, oon, ion, junk, F) ==
    LET ov == OverlayP2p(w, oon, ion, junk, F)
    IN  Result(ov.w, oon, w.ni, IF ov.ok THEN w.o[oon].channel ELSE -1, 0, "p2p")

\* The point-to-point branch: both MPRs report plugs.
ConnectBoth(w, skip, junk, F) ==
    LET op == FirstFree(w.o, w.no)
        ip == FirstFree(w.i, w.ni)
        oon == FirstOnline(w.o, w.no)
        ion == FirstOnline(w.i, w.ni)
    IN  CASE op < w.no /\ ip < w.ni -> ConnectEstablish(w, op, ip, skip, F)
          [] ip < w.ni /\ oon > -1 -> ConnectToOutput(w, oon, ip, F)
          [] oon # -1 /\ ion > -1 -> ConnectOverlay(w, oon, ion, junk, F)
          [] OTHER -> Result(w, -1, -1, -1, 0, "none")

(* Failover to broadcast when no plug of the node is online: bandwidth    *)
(* (unless skipped), then channel ch at the IRM.  The channel returned is *)
(* ch when the IRM grants it, else dflt (connect's -1, reconnect's given *)
(* channel); a bandwidth already allocated is kept either way.           *)
Failover(w, op, ip, ch, bw, skip, dflt) ==
    LET a == ReserveBandwidth(w, bw, skip)
        c == ChannelAlloc(a.w, ch)
        b == IF skip THEN 0 ELSE bw
    IN  IF a.ok THEN Result(c.w, op, ip, IF c.ok THEN ch ELSE dflt, b, "bcast")
        ELSE Result(a.w, op, ip, dflt, b, "bcast")

(* Half point-to-point on the output, a free plug: join its broadcast    *)
(* connection (no bandwidth), or allocate bandwidth and a channel and    *)
(* create the output connection; a failed create frees the channel, and  *)
(* then the bandwidth.                                                   *)
HalfEstablishOutput(w, op, skip, F) ==
    LET o == w.o[op]
        bw == IF skip THEN 0 ELSE CalcBandwidth(o, DataRate)
        a == ReserveBandwidth(w, bw, skip)
        al == AllocChannel(a.w)
        cp == CreateP2pOutput(al.w, op, al.c, DataRate, F)
    IN  CASE o.bcast = 1 -> Result(w, op, -1, o.channel, 0, "bcast")
          [] ~a.ok -> Result(a.w, op, -1, -1, bw, "p2p")
          [] cp.ok -> Result(cp.w, op, -1, al.c, bw, "p2p")
          [] OTHER -> Result(ReleaseResources(cp.w, al.c, bw), op, -1, -1, bw, "p2p")

(* Half point-to-point on the output: a free plug, else overlay the first *)
(* online plug on its channel, else broadcast on oMPR.bcast_channel with *)
(* the bandwidth of oPCR[0].                                             *)
ConnectHalfOutput(w, skip, F) ==
    LET op == FirstFree(w.o, w.no)
        oon == FirstOnline(w.o, w.no)
        ov == OverlayP2pOutput(w, oon, F)
        kind == IF w.o[oon].bcast = 1 THEN "bcast" ELSE "p2p"
    IN  CASE op < w.no -> HalfEstablishOutput(w, op, skip, F)
          [] oon > -1 -> Result(ov.w, oon, -1, IF ov.ok THEN w.o[oon].channel ELSE -1, 0, kind)
          [] OTHER -> Failover(w, -1, -1, BcastChannel, CalcBandwidth(w.o[0], DataRate), skip, -1)

(* Half point-to-point on the input, a free plug: as on the output, with  *)
(* the bandwidth guessed from the input node's oPCR of the same number.  *)
HalfEstablishInput(w, ip, skip, F) ==
    LET i == w.i[ip]
        bw == IF skip THEN 0 ELSE InBandwidth(w, ip)
        a == ReserveBandwidth(w, bw, skip)
        al == AllocChannel(a.w)
        cp == CreateP2pInput(al.w, ip, al.c, F)
    IN  CASE i.bcast = 1 -> Result(w, -1, ip, i.channel, 0, "bcast")
          [] ~a.ok -> Result(a.w, -1, ip, -1, bw, "p2p")
          [] cp.ok -> Result(cp.w, -1, ip, al.c, bw, "p2p")
          [] OTHER -> Result(ReleaseResources(cp.w, al.c, bw), -1, ip, -1, bw, "p2p")

(* Half point-to-point on the input.  The broadcast failover on channel  *)
(* 63 leaves *iplug at the scan's end value, impr.n_plugs.               *)
ConnectHalfInput(w, skip, F) ==
    LET ip == FirstFree(w.i, w.ni)
        ion == FirstOnline(w.i, w.ni)
        ov == OverlayP2pInput(w, ion, F)
        kind == IF w.i[ion].bcast = 1 THEN "bcast" ELSE "p2p"
    IN  CASE ip < w.ni -> HalfEstablishInput(w, ip, skip, F)
          [] ion > -1 -> Result(ov.w, -1, ion, IF ov.ok THEN w.i[ion].channel ELSE -1, 0, kind)
          [] OTHER -> Failover(w, -1, w.ni, 63, InBandwidth(w, 0), skip, -1)

(* Neither node has plugs: broadcast on channel 63, no bandwidth. *)
ConnectNoPlugs(w) ==
    LET c == ChannelAlloc(w, 63)
    IN  Result(c.w, -1, -1, IF c.ok THEN 63 ELSE -1, 0, "bcast")

(* iec61883_cmp_connect: the MPRs select the branch (an MPR that cannot  *)
(* be read counts as no plugs).                                          *)
Connect(w, skip, junk, F) ==
    CASE w.no > 0 /\ w.ni > 0 -> ConnectBoth(w, skip, junk, F)
      [] w.no > 0 -> ConnectHalfOutput(w, skip, F)
      [] w.ni > 0 -> ConnectHalfInput(w, skip, F)
      [] OTHER -> ConnectNoPlugs(w)

-----------------------------------------------------------------------------
(* iec61883_cmp_reconnect of connection h, with the plugs, channel and   *)
(* bandwidth connect returned (bandwidth 0 skips the allocation), when   *)
(* both nodes have plugs.  The plugs are given, so there is no scan and   *)
(* no online plug is known: a plug pair inside the MPRs is established   *)
(* again on h's channel, anything else falls to "all plugs offline",     *)
(* which returns the channel untouched.  The channel allocation's result *)
(* is ignored; a failed bandwidth allocation skips the rest and still    *)
(* returns the channel; a failed create_p2p frees the channel, and then  *)
(* the bandwidth.                                                        *)
\* Mutant: create_p2p is inside the bandwidth block, skipped with it.
ReconnectCreateIfBandwidth(w, h, iReadOk, F) ==
    LET o == w.o[h.op]
        bw == IF h.bw = 0 THEN 0 ELSE CalcBandwidth(o, DataRate)
        a == IF h.bw = 0 THEN Ok(w) ELSE BandwidthAlloc(w, bw)
        al == ChannelAlloc(a.w, h.ch).w
        cp == IF h.bw = 0 THEN Ok(al) ELSE CreateP2p(al, h.op, h.ip, h.ch, DataRate, F)
    IN  CASE h.ip = w.ni /\ ~iReadOk -> Result(w, h.op, h.ip, -1, 0, h.kind)
          [] h.ip = w.ni -> Result(w, -1, -1, h.ch, 0, h.kind)
          [] o.bcast = 1 ->
               Result(OverlayBcast(w, h.op, h.ip, F).w, h.op, h.ip, o.channel, 0, "bcast")
          [] ~a.ok -> Result(a.w, h.op, h.ip, h.ch, bw, "p2p")
          [] cp.ok -> Result(cp.w, h.op, h.ip, h.ch, bw, "p2p")
          [] OTHER -> Result(ReleaseResources(cp.w, h.ch, bw), h.op, h.ip, -1, bw, "p2p")

ReconnectBoth(w, h, iReadOk, F) ==
    LET o == w.o[h.op]
        bw == IF h.bw = 0 THEN 0 ELSE CalcBandwidth(o, DataRate)
        a == IF h.bw = 0 THEN Ok(w) ELSE BandwidthAlloc(w, bw)
        al == ChannelAlloc(a.w, h.ch).w
        cp == CreateP2p(al, h.op, h.ip, h.ch, DataRate, F)
    IN  CASE h.ip = w.ni /\ ~iReadOk -> Result(w, h.op, h.ip, -1, 0, h.kind)
          [] h.ip = w.ni -> Result(w, -1, -1, h.ch, 0, h.kind)
          [] o.bcast = 1 ->
               Result(OverlayBcast(w, h.op, h.ip, F).w, h.op, h.ip, o.channel, 0, "bcast")
          [] ~a.ok -> Result(a.w, h.op, h.ip, h.ch, bw, "p2p")
          [] cp.ok -> Result(cp.w, h.op, h.ip, h.ch, bw, "p2p")
          [] OTHER -> Result(ReleaseResources(cp.w, h.ch, bw), h.op, h.ip, -1, bw, "p2p")

(* Half point-to-point on the output, reconnecting h: its plug, or for   *)
(* plug -1 (a broadcast failover) a scan as in connect.  The channel is   *)
(* h's: its allocation's result is ignored, and a failed bandwidth       *)
(* allocation or channel grant still returns it.                         *)
ReconnectHalfOutput(w, h, F) ==
    LET op == IF h.op < 0 THEN FirstFree(w.o, w.no) ELSE h.op
        oon == IF h.op < 0 THEN FirstOnline(w.o, w.no) ELSE -1
        skip == h.bw = 0
        o == w.o[op]
        bw == IF skip THEN 0 ELSE CalcBandwidth(o, DataRate)
        a == ReserveBandwidth(w, bw, skip)
        cp == CreateP2pOutput(ChannelAlloc(a.w, h.ch).w, op, h.ch, DataRate, F)
        ov == OverlayP2pOutput(w, oon, F)
        kind == IF w.o[oon].bcast = 1 THEN "bcast" ELSE "p2p"
    IN  CASE op < w.no /\ o.bcast = 1 -> Result(w, op, -1, o.channel, 0, "bcast")
          [] op < w.no /\ ~a.ok -> Result(a.w, op, -1, h.ch, bw, "p2p")
          [] op < w.no /\ cp.ok -> Result(cp.w, op, -1, h.ch, bw, "p2p")
          [] op < w.no -> Result(ReleaseResources(cp.w, h.ch, bw), op, -1, -1, bw, "p2p")
          [] oon > -1 -> Result(ov.w, oon, -1, IF ov.ok THEN w.o[oon].channel ELSE -1, 0, kind)
          [] OTHER -> Failover(w, -1, -1, BcastChannel, CalcBandwidth(w.o[0], DataRate),
                               skip, h.ch)

(* Half point-to-point on the input, reconnecting h.  A given plug past   *)
(* the last (connect's failover leaves impr.n_plugs) is read, and when    *)
(* the node does not answer reconnect fails.                             *)
ReconnectHalfInput(w, h, iReadOk, F) ==
    LET ip == IF h.ip < 0 THEN FirstFree(w.i, w.ni) ELSE h.ip
        ion == IF h.ip < 0 THEN FirstOnline(w.i, w.ni) ELSE -1
        skip == h.bw = 0
        i == w.i[ip]
        bw == IF skip THEN 0 ELSE InBandwidth(w, ip)
        a == ReserveBandwidth(w, bw, skip)
        cp == CreateP2pInput(ChannelAlloc(a.w, h.ch).w, ip, h.ch, F)
        ov == OverlayP2pInput(w, ion, F)
        kind == IF w.i[ion].bcast = 1 THEN "bcast" ELSE "p2p"
    IN  CASE ip >= w.ni /\ h.ip >= 0 /\ ~iReadOk -> Result(w, -1, h.ip, -1, 0, h.kind)
          [] ip < w.ni /\ i.bcast = 1 -> Result(w, -1, ip, i.channel, 0, "bcast")
          [] ip < w.ni /\ ~a.ok -> Result(a.w, -1, ip, h.ch, bw, "p2p")
          [] ip < w.ni /\ cp.ok -> Result(cp.w, -1, ip, h.ch, bw, "p2p")
          [] ip < w.ni -> Result(ReleaseResources(cp.w, h.ch, bw), -1, ip, -1, bw, "p2p")
          [] ion > -1 -> Result(ov.w, -1, ion, IF ov.ok THEN w.i[ion].channel ELSE -1, 0, kind)
          [] OTHER -> Failover(w, -1, -1, 63, InBandwidth(w, 0), skip, h.ch)

(* Neither node has plugs: channel 63 again, or h's when it is refused. *)
ReconnectNoPlugs(w, h) ==
    LET c == ChannelAlloc(w, 63)
    IN  Result(c.w, -1, -1, IF c.ok THEN 63 ELSE h.ch, 0, "bcast")

(* iec61883_cmp_reconnect: the MPRs select the branch, as in connect. *)
Reconnect(w, h, iReadOk, F) ==
    CASE w.no > 0 /\ w.ni > 0 -> ReconnectBoth(w, h, iReadOk, F)
      [] w.no > 0 -> ReconnectHalfOutput(w, h, F)
      [] w.ni > 0 -> ReconnectHalfInput(w, h, iReadOk, F)
      [] OTHER -> ReconnectNoPlugs(w, h)

-----------------------------------------------------------------------------
(* iec61883_cmp_disconnect of connection h with the plugs connect        *)
(* returned.  The oPCR is released first: the last point-to-point        *)
(* connection resets its channel and frees channel and bandwidth, a      *)
(* broadcast connection is cleared and frees them too.  The iPCR is then *)
(* written from the snapshot read at the start, whatever happened to the *)
(* oPCR.  An iplug of n_plugs is read (the register past the last plug, *)
(* `iReadOk` whether the node answers) and then skipped.                *)
\* Mutant: every point-to-point disconnect releases channel and bandwidth.
DisconnectOutputAlwaysRelease(w, o, h, F) ==
    LET dec == [o EXCEPT !.n_p2p = @ - 1,
                         !.channel = IF o.n_p2p = 1 THEN BcastChannel ELSE @]
        s1 == SetOPCR(w, h.op, dec, "disc_o", F)
        s2 == SetOPCR(w, h.op, [o EXCEPT !.bcast = 0], "disc_o", F)
    IN  CASE o.n_p2p > 0 -> IF s1.ok THEN ReleaseResources(s1.w, h.ch, h.bw) ELSE s1.w
          [] o.bcast = 1 -> IF s2.ok THEN ReleaseResources(s2.w, h.ch, h.bw) ELSE s2.w
          [] OTHER -> w

DisconnectOutput(w, o, h, F) ==
    LET dec == [o EXCEPT !.n_p2p = @ - 1,
                         !.channel = IF o.n_p2p = 1 THEN BcastChannel ELSE @]
        s1 == SetOPCR(w, h.op, dec, "disc_o", F)
        s2 == SetOPCR(w, h.op, [o EXCEPT !.bcast = 0], "disc_o", F)
    IN  CASE o.n_p2p > 0 ->
               IF s1.ok /\ dec.n_p2p = 0 THEN ReleaseResources(s1.w, h.ch, h.bw) ELSE s1.w
          [] o.bcast = 1 ->
               IF s2.ok THEN ReleaseResources(s2.w, h.ch, h.bw) ELSE s2.w
          [] OTHER -> w

DisconnectInput(w, i, h, F) ==
    CASE h.ip = w.ni -> w
      [] i.n_p2p > 0 -> SetIPCR(w, h.ip, [i EXCEPT !.n_p2p = @ - 1], "disc_i", F).w
      [] i.bcast = 1 ->
           SetIPCR(w, h.ip, [i EXCEPT !.bcast = 0, !.channel = BcastChannel], "disc_i", F).w
      [] OTHER -> w

(* The plug disconnect uses: the one given, or for -1 the first online   *)
(* plug on the connection's channel (n_plugs when there is none).        *)
PlugOnChannel(regs, n, p, ch) ==
    LET on == {q \in 0..(n - 1) : regs[q].online /\ regs[q].channel = ch}
    IN  CASE p >= 0 -> p
          [] on = {} -> n
          [] OTHER -> Min(on)

\* The point-to-point branch: both MPRs report plugs.
DisconnectBoth(w, h, iReadOk, F) ==
    LET op == PlugOnChannel(w.o, w.no, h.op, h.ch)
        ip == PlugOnChannel(w.i, w.ni, h.ip, h.ch)
        hp == [h EXCEPT !.op = op, !.ip = ip]
        i == IF ip < w.ni THEN w.i[ip] ELSE w.i[0]
        wo == IF op < w.no THEN DisconnectOutput(w, w.o[op], hp, F) ELSE w
    IN  IF h.ip = w.ni /\ ~iReadOk THEN w
        ELSE DisconnectInput(wo, i, hp, F)

(* Half point-to-point on the output: release the plug as in the point-  *)
(* to-point branch; with no plug on h's channel (a broadcast failover)    *)
(* free the channel, and then the bandwidth.                             *)
DisconnectHalfOutput(w, h, F) ==
    LET op == PlugOnChannel(w.o, w.no, h.op, h.ch)
    IN  IF op < w.no THEN DisconnectOutput(w, w.o[op], [h EXCEPT !.op = op], F)
        ELSE ReleaseResources(w, h.ch, h.bw)

(* Half point-to-point on the input: the iPCR now manages the resources, *)
(* as the oPCR does in DisconnectOutput, its last connection resetting   *)
(* the channel to 63.  A given plug past the last is read first: when    *)
(* the node does not answer, disconnect fails before releasing anything. *)
DisconnectHalfInput(w, h, iReadOk, F) ==
    LET ip == PlugOnChannel(w.i, w.ni, h.ip, h.ch)
        i == w.i[ip]
        dec == [i EXCEPT !.n_p2p = @ - 1, !.channel = IF i.n_p2p = 1 THEN 63 ELSE @]
        s1 == SetIPCR(w, ip, dec, "disc_i", F)
        s2 == SetIPCR(w, ip, [i EXCEPT !.bcast = 0], "disc_i", F)
    IN  CASE ip >= w.ni /\ h.ip >= 0 /\ ~iReadOk -> w
          [] ip >= w.ni -> ReleaseResources(w, h.ch, h.bw)
          [] i.n_p2p > 0 ->
               IF s1.ok /\ dec.n_p2p = 0 THEN ReleaseResources(s1.w, h.ch, h.bw) ELSE s1.w
          [] i.bcast = 1 -> IF s2.ok THEN ReleaseResources(s2.w, h.ch, h.bw) ELSE s2.w
          [] OTHER -> w

(* iec61883_cmp_disconnect: the MPRs select the branch; with no plugs on *)
(* either node only channel 63 is freed.                                 *)
Disconnect(w, h, iReadOk, F) ==
    CASE w.no > 0 /\ w.ni > 0 -> DisconnectBoth(w, h, iReadOk, F)
      [] w.no > 0 -> DisconnectHalfOutput(w, h, F)
      [] w.ni > 0 -> DisconnectHalfInput(w, h, iReadOk, F)
      [] OTHER -> ChannelFree(w, 63).w

-----------------------------------------------------------------------------
(* The application: each controller connects, and disconnects what it got *)
(* (a connection is held only when connect returned a channel), up to     *)
(* MaxConnects times.                                                     *)

ZeroOPCR == [online |-> FALSE, bcast |-> 0, n_p2p |-> 0, channel |-> 0,
             data_rate |-> 0, overhead_id |-> 0, payload |-> 0]

Init ==
    /\ \E n \in Nodes, b \in BcastInit :
          /\ mpr = [no |-> n.no, ni |-> n.ni, ino |-> n.ino]
          /\ ipcr = [p \in IPlugs |->
                      [online |-> p \in n.ion, bcast |-> 0, n_p2p |-> 0, channel |-> BcastChannel]]
          /\ opcr = [p \in OPlugs |->
                    [online |-> p \in n.oon, bcast |-> IF b /\ p = 0 THEN 1 ELSE 0,
                     n_p2p |-> 0, channel |-> BcastChannel, data_rate |-> DataRate,
                     overhead_id |-> OverheadId, payload |-> Payload]]
    /\ irm_free = InitFree
    /\ irm_bw = BwInit
    /\ held = [c \in Controllers |-> NoConn]
    /\ connects = [c \in Controllers |-> 0]
    /\ failures = 0
    /\ stale = [c \in Controllers |-> FALSE]
    /\ resets = 0

\* The failing lock transactions of one call, within the budget.
Failing == {F \in SUBSET FailSites : failures + Cardinality(F) <= MaxFailures}

Apply(w) ==
    /\ opcr' = w.o /\ ipcr' = w.i /\ irm_free' = w.free /\ irm_bw' = w.bw

\* No connection awaits reconnection after a bus reset.
Settled == \A c \in Controllers : ~stale[c]

DoConnect(c) ==
    /\ Settled
    /\ held[c] = NoConn
    /\ connects[c] < MaxConnects
    /\ \E skip \in Skip, F \in Failing, junk \in {ZeroOPCR} :
          LET r == Connect(World, skip, junk, F)
          IN  /\ Apply(r.w)
              /\ held' = [held EXCEPT ![c] =
                            IF r.ch # -1 THEN [op |-> r.op, ip |-> r.ip, ch |-> r.ch,
                                               bw |-> r.bw, kind |-> r.kind]
                            ELSE NoConn]
              /\ failures' = failures + Cardinality(F)
    /\ connects' = [connects EXCEPT ![c] = @ + 1]
    /\ UNCHANGED <<stale, resets, mpr>>

DoDisconnect(c) ==
    /\ held[c] # NoConn
    /\ ~stale[c]
    /\ \E F \in Failing, iReadOk \in IReadOk :
          /\ Apply(Disconnect(World, held[c], iReadOk, F))
          /\ failures' = failures + Cardinality(F)
    /\ held' = [held EXCEPT ![c] = NoConn]
    /\ UNCHANGED <<connects, stale, resets, mpr>>

(* A bus reset: the IRM's channels and bandwidth are all available again, *)
(* the nodes' plugs keep or clear their point-to-point counters, and every *)
(* held connection must be re-established.                                *)
BusReset ==
    /\ resets < MaxResets
    /\ \E clears \in ResetClears :
          LET Clear(r) == IF clears THEN [r EXCEPT !.n_p2p = 0] ELSE r
          IN  /\ opcr' = [p \in OPlugs |-> Clear(opcr[p])]
              /\ ipcr' = [p \in IPlugs |-> Clear(ipcr[p])]
    /\ irm_free' = InitFree
    /\ irm_bw' = BwInit
    /\ stale' = [c \in Controllers |-> held[c] # NoConn]
    /\ resets' = resets + 1
    /\ UNCHANGED <<held, connects, failures, mpr>>

(* The application's bus reset handler reconnects a held connection with *)
(* the plugs, channel and bandwidth connect gave it; a -1 result loses    *)
(* the connection.                                                        *)
DoReconnect(c) ==
    /\ stale[c]
    /\ \E F \in Failing \cap SUBSET RcSites, iReadOk \in IReadOk :
          LET r == Reconnect(World, held[c], iReadOk, F)
          IN  /\ Apply(r.w)
              /\ held' = [held EXCEPT ![c] =
                            IF r.ch # -1 THEN [op |-> r.op, ip |-> r.ip, ch |-> r.ch,
                                               bw |-> r.bw, kind |-> r.kind]
                            ELSE NoConn]
              /\ failures' = failures + Cardinality(F)
    /\ stale' = [stale EXCEPT ![c] = FALSE]
    /\ UNCHANGED <<connects, resets, mpr>>

\* Every controller has made its connections and released them.
Done ==
    /\ \A c \in Controllers : held[c] = NoConn /\ connects[c] = MaxConnects
    /\ UNCHANGED vars

Next ==
    \/ \E c \in Controllers : DoConnect(c) \/ DoDisconnect(c) \/ DoReconnect(c)
    \/ BusReset
    \/ Done

Spec == Init /\ [][Next]_vars

-----------------------------------------------------------------------------
(* Properties *)

(* The plugs whose n_p2p manages the channel and bandwidth: the output   *)
(* node's, or in half point-to-point on the input the input node's.      *)
ByOutput == mpr.no > 0
MgrPlugs == IF ByOutput THEN 0..(mpr.no - 1) ELSE 0..(mpr.ni - 1)
Mgr(p) == IF ByOutput THEN opcr[p] ELSE ipcr[p]

\* The controllers holding a point-to-point connection on managing plug p.
P2pHolders(p) ==
    {c \in Controllers : /\ held[c] # NoConn
                         /\ held[c].kind = "p2p"
                         /\ (IF ByOutput THEN held[c].op ELSE held[c].ip) = p}

TypeOK ==
    /\ \A p \in OPlugs : opcr[p].n_p2p \in 0..63 /\ opcr[p].bcast \in {0, 1}
    /\ \A p \in IPlugs : ipcr[p].n_p2p \in 0..63 /\ ipcr[p].bcast \in {0, 1}
    /\ irm_free \subseteq 0..63
    /\ irm_bw \in 0..BwMax
    /\ connects \in [Controllers -> 0..MaxConnects]
    /\ failures \in 0..MaxFailures
    /\ stale \in [Controllers -> BOOLEAN]
    /\ resets \in 0..MaxResets

(* Once every held connection has been reconnected after the last bus    *)
(* reset, the managing plug (the oPCR, or the iPCR in half point-to-point *)
(* on the input) counts exactly the point-to-point connections the       *)
(* controllers hold on it: connect's create/overlay paths, their undo on *)
(* a failed write, reconnect's re-creation on reset plugs and            *)
(* disconnect's decrement keep n_p2p in step.                            *)
PlugCount ==
    Settled => \A p \in MgrPlugs : Mgr(p).n_p2p = Cardinality(P2pHolders(p))

(* While a controller holds a point-to-point connection (and, after a bus *)
(* reset, once all have been reconnected), the channel connect returned  *)
(* to it is the managing plug's channel and is allocated at the IRM: no  *)
(* other controller's disconnect or failed reconnect has released it.    *)
ChannelAgreement ==
    Settled => \A p \in MgrPlugs : \A c \in P2pHolders(p) :
        /\ Mgr(p).channel = held[c].ch
        /\ held[c].ch \notin irm_free

(* Once every controller has disconnected what it connected, the plugs   *)
(* carry no point-to-point connections and the IRM has all its channels  *)
(* and bandwidth back.                                                   *)
AllReleased ==
    (\A c \in Controllers : held[c] = NoConn) =>
        /\ \A p \in OPlugs : opcr[p].n_p2p = 0
        /\ \A p \in IPlugs : ipcr[p].n_p2p = 0
        /\ irm_free = InitFree
        /\ irm_bw = BwInit
=============================================================================
