------------------------------ MODULE AmdtpRecv ------------------------------
(***************************************************************************)
(* The AMDTP receiver of src/src/amdtp.c: iec61883_amdtp_recv_init,       *)
(* _recv_start, the per-packet amdtp_recv_handler, _recv_stop and _close.  *)
(*                                                                         *)
(* The receiver learns the stream's format from the first packet that     *)
(* carries a SYT: dimension from DBS, rate from the SFC bits of FDF,      *)
(* format and sample format from the label byte of the first quadlet.     *)
(* A packet is a record with the header fields the handler reads (the     *)
(* Packet records of AmdtpXmit); the payload is abstracted to its length  *)
(* and its first label byte.  Fields struct iec61883_amdtp leaves         *)
(* uninitialised until the first packet are "unset".                     *)
(***************************************************************************)
EXTENDS Cip

CONSTANT MaxRecvStarts   \* how many times the application may start receiving

VARIABLES
    recv,     \* the dimension, rate, format and sample_format of the stream
    rstate,   \* "init" | "running" | "failed" | "stopped" | "closed"
    rstarts,  \* number of recv_start calls so far
    rlast     \* the last packet the handler saw and what it did with it

rvars == <<recv, rstate, rstarts, rlast>>

NoOutcome == [none |-> TRUE]

FmtAmdtp == 16                \* IEC61883_FMT_AMDTP
TagWithCip == 1               \* IEC61883_TAG_WITH_CIP
FdfAm824 == 0                 \* IEC61883_FDF_AM824
FdfAm824Controlled == 4       \* IEC61883_FDF_AM824_CONTROLLED
FdfSfcMask == 3               \* IEC61883_FDF_SFC_MASK
Am824Label == 64              \* IEC61883_AM824_LABEL

(* The SFC switch of the handler.  The 192 kHz case has no `break` and   *)
(* falls into `default`, which rejects the packet, so only codes 0..5    *)
(* are known.                                                             *)
SfcKnown(sfc) == sfc \in 0..5

\* Mutant: the rate table is shifted by one entry.
RateOfSfcShifted(sfc) ==
    CASE sfc = 0 -> 44100 [] sfc = 1 -> 48000 [] sfc = 2 -> 88200
      [] sfc = 3 -> 96000 [] sfc = 4 -> 176400 [] sfc = 5 -> 192000

RateOfSfc(sfc) ==
    CASE sfc = 0 -> 32000 [] sfc = 1 -> 44100 [] sfc = 2 -> 48000
      [] sfc = 3 -> 88200 [] sfc = 4 -> 96000 [] sfc = 5 -> 176400

(* The label check: AM824 multi-bit linear audio with its valid bit      *)
(* length code, or IEC 60958 conformant data for labels 0..0x3F.         *)
FormatOfLabel(label) ==
    CASE (label & 252) = Am824Label /\ (label & 3) # 3 -> "RAW"
      [] (label & 252) = Am824Label -> "error"
      [] label <= 63 -> "IEC958_PCM"
      [] OTHER -> "error"

SampleFormatOfLabel(label) ==
    CASE FormatOfLabel(label) = "IEC958_PCM" -> "NA"
      [] (label & 3) = 0 -> "LE24"
      [] (label & 3) = 1 -> "LE20"
      [] (label & 3) = 2 -> "LE16"

\* Mutant: only one quadlet of CIP header is subtracted.
PayloadQuadletsOneHeader(len) == len \div 4 - 1

\* Quadlets of audio in a packet of len bytes: len minus the CIP header.
PayloadQuadlets(len) == len \div 4 - 2

(* iec61883_amdtp_recv_init *)
RecvInit ==
    /\ recv = [dimension |-> "unset", rate |-> "unset", format |-> "unset",
               sample_format |-> "unset"]
    /\ rstate = "init"
    /\ rstarts = 0
    /\ rlast = NoOutcome

(* iec61883_amdtp_recv_start: the stream format is forgotten and learnt   *)
(* again from the next packet with a SYT.                                 *)
RecvStart ==
    /\ rstate \in {"init", "stopped"}
    /\ rstarts < MaxRecvStarts
    /\ recv' = [recv EXCEPT !.dimension = -1]
    /\ rstate' = "running"
    /\ rstarts' = rstarts + 1
    /\ rlast' = NoOutcome

(***************************************************************************)
(* amdtp_recv_handler for packet p, with `dropped` packets lost before it  *)
(* and `cbOk` whether the application's put_data callback succeeds.       *)
(* Packets with a foreign tag, fmt or FDF are ignored.  The first one     *)
(* with a SYT latches the stream format; an unknown SFC returns ERROR at  *)
(* once, after dimension is latched, an unknown label sets ERROR and      *)
(* goes on.  Data is passed on only from packets that carry a SYT.        *)
(***************************************************************************)
RecvHandler(p, dropped, cbOk) ==
    LET accepted == /\ p.tag = TagWithCip
                    /\ p.fmt = FmtAmdtp
                    /\ (p.fdf & (255 - FdfSfcMask)) \in {FdfAm824, FdfAm824Controlled}
        latch == accepted /\ recv.dimension < 0 /\ p.syt # NoSyt
        sfc == p.fdf & FdfSfcMask
        format == FormatOfLabel(p.label)
        learnt == IF ~latch THEN recv
                  ELSE IF ~SfcKnown(sfc) THEN [recv EXCEPT !.dimension = p.dbs]
                  ELSE [dimension |-> p.dbs, rate |-> RateOfSfc(sfc),
                        format |-> IF format = "error" THEN recv.format ELSE format,
                        sample_format |-> IF format = "error" THEN recv.sample_format
                                          ELSE SampleFormatOfLabel(p.label)]
        failed == latch /\ (~SfcKnown(sfc) \/ format = "error")
        deliver == accepted /\ ~failed /\ learnt.dimension > 0 /\ p.syt # NoSyt
        disposition == CASE failed \/ (deliver /\ ~cbOk) -> "ERROR"
                          [] dropped > 0 -> "DEFER"
                          [] OTHER -> "OK"
    IN  /\ rstate = "running"
        /\ recv' = learnt
        /\ rlast' = [pkt |-> p,
                     known |-> recv.dimension > 0,
                     delivered |-> IF deliver THEN PayloadQuadlets(p.len) ELSE 0,
                     disposition |-> disposition]
        /\ rstate' = IF disposition = "ERROR" THEN "failed" ELSE rstate
        /\ UNCHANGED rstarts

(* iec61883_amdtp_recv_stop *)
RecvStop ==
    /\ rstate \in {"running", "failed"}
    /\ rstate' = "stopped"
    /\ UNCHANGED <<recv, rstarts, rlast>>

(* iec61883_amdtp_close of a receiving stream: stop, then free. *)
RecvClose ==
    /\ rstate \in {"init", "running", "failed", "stopped"}
    /\ rstate' = "closed"
    /\ UNCHANGED <<recv, rstarts, rlast>>
=============================================================================
