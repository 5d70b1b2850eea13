---------------------------- MODULE MC_Mpeg2Xmit ----------------------------
(* Transport streams for the MPEG-2 transmitter, each packet reduced to    *)
(* its PID, its PCR flag and the PCR ts_get_pcr would compute (0 for the   *)
(* packets without one).  The stream ends where the read callback of      *)
(* test-mpeg2 (fread) reaches end of file.                                 *)
EXTENDS Mpeg2Xmit

\* A stream of `len` packets of PID `pid`, a PCR every `every` packets
\* (the first packet included), the k-th PCR being pcrAt(k).
TsPacket(pid, pcr) == [pid |-> pid, haspcr |-> TRUE, pcr |-> pcr]
TsPlain(pid) == [pid |-> pid, haspcr |-> FALSE, pcr |-> 0]

\* Constant rate: 3 packets per 4 cycles, a PCR every third packet.
Steady == [i \in 1..36 |->
             IF i % 3 = 1 THEN TsPacket(33, 1000 + ((i - 1) \div 3) * 4 * PcrPerCycle)
             ELSE TsPlain(33)]

\* Variable rate: PCR every other packet, two packets a cycle for the
\* first seven PCR intervals, then two packets per three cycles.
VarRate == [i \in 1..34 |->
              LET k == (i - 1) \div 2
              IN  IF i % 2 = 1
                  THEN TsPacket(33, 500 + IF k <= 7 THEN k * PcrPerCycle
                                          ELSE 7 * PcrPerCycle + (k - 7) * 3 * PcrPerCycle)
                  ELSE TsPlain(33)]

\* A program association packet (PID 0) first, the program on PID 0x21.
WithPat == <<TsPlain(0)>> \o Steady

\* Full rate: five packets a cycle, a PCR every fifth packet, so that
\* every cycle fills the 968-byte packet xmit_start asked for.
Full == [i \in 1..35 |->
           IF i % 5 = 1 THEN TsPacket(33, 2000 + ((i - 1) \div 5) * PcrPerCycle)
           ELSE TsPlain(33)]

MCStreams == {Steady, VarRate, WithPat, Full}
MCPids == {-1, 33}

\* A stream whose PCRs are on PID 0x100, preceded by a PID 0 packet.
HighPid == <<TsPlain(0)>> \o [i \in 1..33 |->
             IF i % 3 = 1 THEN TsPacket(256, 1000 + ((i - 1) \div 3) * 4 * PcrPerCycle)
             ELSE TsPlain(256)]
MCHighPidStreams == {HighPid}
MCHighPids == {256}
=============================================================================
