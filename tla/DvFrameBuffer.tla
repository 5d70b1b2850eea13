---------------------------- MODULE DvFrameBuffer ----------------------------
(***************************************************************************)
(* DV reception through the frame-buffer layer of src/src/dv.c:           *)
(* iec61883_dv_fb_init / _fb_start / _fb_stop / _fb_close,                *)
(* dv_recv_handler, and dv_fb_recv, which dv_fb_init installs as the      *)
(* stream's put_data and which reassembles DIF blocks into frames.        *)
(*                                                                         *)
(* The talker sends frames in the standard order: per DIF sequence 150    *)
(* blocks, six to a packet.  A packet is its first DIF block's ID          *)
(* (section type, DIF sequence, DIF block number) and, for a header      *)
(* block, its DSF bit (byte 3, bit 7: 625/50 system).  The receiving      *)
(* substrate may lose packets, reported as `dropped` to the next call.    *)
(* Observer variables record what the talker sent so that the frames     *)
(* dv_fb_recv hands on can be compared with it.                          *)
(***************************************************************************)
EXTENDS Integers

CONSTANTS
    Systems,     \* DSF values (TRUE: 625/50) the talker may send
    MaxFrames,   \* frames the talker sends
    MaxLost,     \* packets the substrate may lose in all
    Headers      \* first-block IDs a foreign talker may send besides

VARIABLES
    fb,          \* struct iec61883_dv_fb: len, ff, data[3] & 0x80, total_incomplete
    dstate,      \* the receiving stream: "init" | "running" | "failed" | "stopped" | "closed"
    talker,      \* the talker's position: frame, DIF sequence, packet; its system
    missed,      \* packets lost since the last handler call
    lost,        \* packets lost in all
    acc,         \* packets lost since the frame being assembled started (observer)
    last,        \* where the last dv_fb_recv copy went, and where it belongs
    delivered    \* the last frame handed to the application, or NoFrame

vars == <<fb, dstate, talker, missed, lost, acc, last, delivered>>

NoFrame == [none |-> TRUE]
NoCopy == [none |-> TRUE]

DifBlockSize == 480     \* DIF_BLOCK_SIZE, six 80-byte DIF blocks
FrameBufferSize == 480 * 300

\* DIF sequences of a frame and packets of a DIF sequence.
Sequences(pal) == IF pal THEN 12 ELSE 10
PacketsPerSequence == 25

(***************************************************************************)
(* The layout of a DIF sequence (IEC 61834), written independently of the  *)
(* code: a header block, two subcode and three VAUX blocks, then nine      *)
(* groups of one audio block followed by fifteen video blocks.  RefBlock   *)
(* is the ID of the block at position pos (0..149) of a sequence.        *)
(***************************************************************************)
RefBlock(pos) ==
    LET q == pos - 6
    IN  CASE pos = 0 -> [section |-> 0, block |-> 0]
          [] pos \in 1..2 -> [section |-> 1, block |-> pos - 1]
          [] pos \in 3..5 -> [section |-> 2, block |-> pos - 3]
          [] q % 16 = 0 -> [section |-> 3, block |-> q \div 16]
          [] OTHER -> [section |-> 4, block |-> (q \div 16) * 15 + (q % 16) - 1]

\* The packet the talker sends at position (seq, j) of a frame.
TalkerPacket(pal, seq, j) ==
    [section |-> RefBlock(6 * j).section, seq |-> seq,
     block |-> RefBlock(6 * j).block, dsf |-> pal,
     ref |-> seq * 150 * 80 + 6 * j * 80]

\* Mutant: the video offset omits the audio block before each group of 15.
FbOffsetNoAudioSkip(section, seq, block) ==
    CASE section = 0 -> seq * 150 * 80
      [] section = 1 -> seq * 150 * 80 + (1 + block) * 80
      [] section = 2 -> seq * 150 * 80 + (3 + block) * 80
      [] section = 3 -> seq * 150 * 80 + (6 + block * 16) * 80
      [] section = 4 -> seq * 150 * 80 + (7 + block) * 80

(* The byte offset dv_fb_recv copies a packet to, by its first block's   *)
(* section type 0..4; its switch ignores the other section types.       *)
FbOffset(section, seq, block) ==
    CASE section = 0 -> seq * 150 * 80
      [] section = 1 -> seq * 150 * 80 + (1 + block) * 80
      [] section = 2 -> seq * 150 * 80 + (3 + block) * 80
      [] section = 3 -> seq * 150 * 80 + (6 + block * 16) * 80
      [] section = 4 -> seq * 150 * 80 + (7 + block \div 15 + block) * 80

\* Mutant: the DSF bit read the wrong way round.
FrameTotalSwapped(dsf) == (IF dsf THEN 250 ELSE 300) * 480

\* The frame size dv_fb_recv expects from the stored header's DSF bit.
FrameTotal(dsf) == (IF dsf THEN 300 ELSE 250) * 480

\* Mutant: every short byte count is counted, not only at a delivery.
FrameIncompleteAnyPacket(deliver, len, total) == len # total

\* Whether a delivery bumps total_incomplete: the frame fell short.
FrameIncomplete(deliver, len, total) == deliver /\ len # total

Init ==
    /\ fb = [len |-> 0, ff |-> 1, dsf |-> FALSE, total_incomplete |-> 0]
    /\ dstate = "init"
    /\ \E pal \in Systems : talker = [frame |-> 0, seq |-> 0, j |-> 0, pal |-> pal]
    /\ missed = 0
    /\ lost = 0
    /\ acc = 0
    /\ last = NoCopy
    /\ delivered = NoFrame

(* iec61883_dv_fb_start: start receiving on the stream's channel. *)
FbStart ==
    /\ dstate = "init"
    /\ dstate' = "running"
    /\ UNCHANGED <<fb, talker, missed, lost, acc, last, delivered>>

(***************************************************************************)
(* dv_recv_handler with put_data = dv_fb_recv, for a full packet p.  At a  *)
(* frame start (section 0, sequence 0) the frame collected so far is      *)
(* handed to the application with complete = (len = total), unless this   *)
(* is the first frame start; from then on every packet adds 480 to len    *)
(* and is copied to FbOffset.  `cbOk` is the application callback's       *)
(* result; a failure is an ERROR disposition, which stops the stream.    *)
(***************************************************************************)
FbRecv(p, cbOk) ==
    LET start == p.section = 0 /\ p.seq = 0
        deliver == start /\ fb.ff = 0
        total == FrameTotal(fb.dsf)
        collecting == fb.ff = 0 \/ start
        copied == collecting /\ p.section \in 0..4
        off == FbOffset(p.section, p.seq, p.block)
        len1 == IF deliver THEN 0 ELSE fb.len
    IN  /\ fb' = [fb EXCEPT
                    !.len = IF collecting THEN len1 + DifBlockSize ELSE len1,
                    !.ff = IF start THEN 0 ELSE @,
                    !.dsf = IF copied /\ off = 0 THEN p.dsf ELSE @,
                    !.total_incomplete = IF FrameIncomplete(deliver, fb.len, total) THEN @ + 1 ELSE @]
        /\ delivered' = IF deliver
                        THEN [total |-> total, complete |-> fb.len = total,
                              lost |-> acc + missed, pal |-> fb.dsf]
                        ELSE delivered
        /\ acc' = IF start THEN 0 ELSE acc + missed
        /\ last' = IF copied
                   THEN [offset |-> off, ref |-> p.ref] ELSE NoCopy
        /\ dstate' = IF deliver /\ ~cbOk THEN "failed" ELSE dstate
        /\ missed' = 0

\* The talker's position after sending packet (seq, j) of a frame.
Advance(t) ==
    IF t.j + 1 < PacketsPerSequence THEN [t EXCEPT !.j = @ + 1]
    ELSE IF t.seq + 1 < Sequences(t.pal) THEN [t EXCEPT !.seq = @ + 1, !.j = 0]
    ELSE [t EXCEPT !.frame = @ + 1, !.seq = 0, !.j = 0]

\* The talker's next packet reaches the receiving handler.
Receive ==
    /\ dstate = "running"
    /\ talker.frame < MaxFrames
    /\ \E cbOk \in BOOLEAN :
          FbRecv(TalkerPacket(talker.pal, talker.seq, talker.j), cbOk)
    /\ talker' = Advance(talker)
    /\ UNCHANGED lost

\* The substrate loses the talker's next packet.
Lose ==
    /\ dstate = "running"
    /\ talker.frame < MaxFrames
    /\ lost < MaxLost
    /\ talker' = Advance(talker)
    /\ missed' = missed + 1
    /\ lost' = lost + 1
    /\ UNCHANGED <<fb, dstate, acc, last, delivered>>

\* A foreign talker's packet with an arbitrary first-block ID.
ReceiveForeign ==
    /\ dstate = "running"
    /\ \E h \in Headers, cbOk \in BOOLEAN :
          FbRecv([h EXCEPT !.ref = -1], cbOk)
    /\ UNCHANGED <<talker, lost>>

(* iec61883_dv_fb_stop, and iec61883_dv_fb_close. *)
FbStop ==
    /\ dstate \in {"running", "failed"}
    /\ dstate' = "stopped"
    /\ UNCHANGED <<fb, talker, missed, lost, acc, last, delivered>>

FbClose ==
    /\ dstate # "closed"
    /\ dstate' = "closed"
    /\ UNCHANGED <<fb, talker, missed, lost, acc, last, delivered>>

\* Nothing happens to a closed stream or after the talker's last frame.
Idle ==
    /\ dstate = "closed" \/ talker.frame = MaxFrames
    /\ UNCHANGED vars

Next == FbStart \/ Receive \/ Lose \/ FbStop \/ FbClose \/ Idle

Spec == Init /\ [][Next]_vars

\* The same receiver with a foreign talker on the channel as well.
NextForeign == Next \/ ReceiveForeign

-----------------------------------------------------------------------------
(* Properties *)

TypeOK ==
    /\ fb.len \in Nat /\ fb.ff \in {0, 1} /\ fb.dsf \in BOOLEAN
    /\ fb.total_incomplete \in 0..MaxFrames
    /\ dstate \in {"init", "running", "failed", "stopped", "closed"}
    /\ talker.frame \in 0..MaxFrames
    /\ talker.seq \in 0..(Sequences(talker.pal) - 1)
    /\ talker.j \in 0..(PacketsPerSequence - 1)
    /\ missed \in 0..MaxLost /\ lost \in 0..MaxLost /\ acc \in 0..MaxLost

(* dv_fb_recv's per-section offset arithmetic puts every packet of a     *)
(* standard frame where the IEC 61834 sequence layout (RefBlock) says    *)
(* its first DIF block belongs.                                          *)
FbLayout ==
    (last # NoCopy /\ last.ref >= 0) => last.offset = last.ref

(* No copy of dv_fb_recv writes outside fb->data[480 * 300].             *)
FbInBounds ==
    last # NoCopy => last.offset + DifBlockSize <= FrameBufferSize

(* A frame is handed to the application as complete exactly when none   *)
(* of its packets was lost (dv_fb_recv's byte count against the         *)
(* substrate's losses), and total_incomplete counts the others.          *)
FbCompleteIffIntact ==
    delivered # NoFrame => (delivered.complete <=> delivered.lost = 0)
=============================================================================
