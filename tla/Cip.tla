-------------------------------- MODULE Cip --------------------------------
(***************************************************************************)
(* The CIP timing engine of src/src/cip.c as pure operators over a record *)
(* that mirrors struct iec61883_cip.  The packetizers (AMDTP, DV) keep    *)
(* such a record in their own state and call CipFillHeader once per       *)
(* isochronous cycle, exactly as their transmit handlers call             *)
(* iec61883_cip_fill_header.                                              *)
(*                                                                         *)
(* Data abstraction: the code's `int dbc` and `int cycle_count` grow      *)
(* without bound, but only dbc's low 8 bits (the 8-bit dbc field and the  *)
(* `& (syt_interval - 1)` of a power-of-two syt_interval) and             *)
(* cycle_count's low 4 bits (`(cycle_count << 12) & 0xffff`) ever reach  *)
(* a packet; both are kept modulo 256 and 16, which is exact because 256 *)
(* and 16 divide 2^32.                                                    *)
(***************************************************************************)
EXTENDS Integers, Bitwise

\* Transmission modes of enum iec61883_cip_mode.
BlockingEmpty  == "BLOCKING_EMPTY"
BlockingNoData == "BLOCKING_NODATA"
NonBlocking    == "NON_BLOCKING"
CipModes == {BlockingEmpty, BlockingNoData, NonBlocking}
BlockingModes == {BlockingEmpty, BlockingNoData}

\* IEC61883_FDF_NODATA, and the "no timestamp" value of the SYT field.
FdfNoData == 255
NoSyt == 65535

\* Ticks of the 24.576 MHz cycle timer per isochronous cycle.
CycleTicks == 3072

\* transfer_delay of iec61883_cip_init, in ticks.
TransferDelay == 9000

(***************************************************************************)
(* Integer fractional arithmetic (struct iec61883_fraction).  All values  *)
(* the CIP engine feeds it are non-negative, so C's / and % coincide      *)
(* with \div and %.                                                       *)
(***************************************************************************)
FractionInit(numerator, denominator) ==
    [integer |-> numerator \div denominator,
     numerator |-> numerator % denominator,
     denominator |-> denominator]

FractionAdd(src1, src2) ==
    LET sum == src1.numerator + src2.numerator
        denom == src1.denominator
    IN  [integer |-> src1.integer + src2.integer + sum \div denom,
         numerator |-> sum % denom,
         denominator |-> denom]

FractionSubInt(src, integer) == [src EXCEPT !.integer = @ - integer]

FractionFloor(frac) == frac.integer

FractionCeil(frac) == frac.integer + (IF frac.numerator > 0 THEN 1 ELSE 0)

\* Mutant: the first timestamp's whole cycles of transfer delay are lost.
CipInitNoDelayCycles(format, fdf, rate, dbs, syt_interval) ==
    [rate |-> rate, cycle_count |-> 0, format |-> format, fdf |-> fdf,
     mode |-> BlockingEmpty, dbs |-> dbs, dbc |-> 0,
     syt_interval |-> syt_interval,
     samples_per_cycle |-> FractionInit(rate, 8000),
     ready_samples |-> FractionInit(0, 8000),
     ticks_per_syt_offset |-> FractionInit(24576000 * syt_interval, rate),
     cycle_offset |-> FractionInit((TransferDelay % CycleTicks) * rate, rate)]

(***************************************************************************)
(* iec61883_cip_init: the stream starts in blocking-empty mode with the   *)
(* first timestamp TransferDelay ticks after cycle 0.                     *)
(***************************************************************************)
CipInit(format, fdf, rate, dbs, syt_interval) ==
    [rate |-> rate,
     cycle_count |-> TransferDelay \div CycleTicks,
     format |-> format,
     fdf |-> fdf,
     mode |-> BlockingEmpty,
     dbs |-> dbs,
     dbc |-> 0,
     syt_interval |-> syt_interval,
     samples_per_cycle |-> FractionInit(rate, 8000),
     ready_samples |-> FractionInit(0, 8000),
     ticks_per_syt_offset |-> FractionInit(24576000 * syt_interval, rate),
     cycle_offset |-> FractionInit((TransferDelay % CycleTicks) * rate, rate)]

CipSetTransmissionMode(cip, mode) == [cip EXCEPT !.mode = mode]

CipMaxPacketSize(cip) ==
    LET max_nevents == IF cip.mode \in BlockingModes
                       THEN cip.syt_interval
                       ELSE FractionCeil(cip.samples_per_cycle)
    IN  max_nevents * cip.dbs * 4 + 8

(***************************************************************************)
(* iec61883_cip_fill_header, one operator per step.                       *)
(***************************************************************************)

\* Events in this cycle's packet: all-or-nothing in the blocking modes.
CipNevents(cip, next) ==
    IF cip.mode \in BlockingModes
    THEN IF FractionFloor(next) >= cip.syt_interval THEN cip.syt_interval ELSE 0
    ELSE FractionFloor(next)

\* Mutant: the DBC advances only by the real events, also in NO-DATA mode.
CipNeventsDbcNoDataFrozen(cip, nevents) == nevents

\* Data blocks the DBC advances by; NO-DATA packets count syt_interval.
CipNeventsDbc(cip, nevents) ==
    IF cip.mode = BlockingNoData THEN cip.syt_interval ELSE nevents

\* Mutant: the index is taken from dbc instead of from syt_interval - dbc.
CipSytIndexUnnegated(cip) == cip.dbc & (cip.syt_interval - 1)

\* Index in the packet of the event the SYT belongs to.
CipSytIndex(cip) == ((cip.syt_interval - cip.dbc) % 256) & (cip.syt_interval - 1)

\* Mutant: the offset is not reduced below one cycle after the carry.
CipAdvanceOffsetUnreduced(cip) ==
    LET offset == FractionAdd(cip.cycle_offset, cip.ticks_per_syt_offset)
    IN  [cip EXCEPT !.cycle_offset = offset,
                    !.cycle_count = (@ + offset.integer \div CycleTicks) % 16]

\* Move the timestamp on by one syt_interval worth of ticks, carrying whole
\* cycles from cycle_offset into cycle_count.
CipAdvanceOffset(cip) ==
    LET offset == FractionAdd(cip.cycle_offset, cip.ticks_per_syt_offset)
    IN  [cip EXCEPT !.cycle_offset = [offset EXCEPT !.integer = @ % CycleTicks],
                    !.cycle_count = (@ + offset.integer \div CycleTicks) % 16]

\* The updated engine state and the header fields written into the packet.
CipFillHeader(cip) ==
    LET next == FractionAdd(cip.ready_samples, cip.samples_per_cycle)
        nevents == CipNevents(cip, next)
        stamped == CipSytIndex(cip) < nevents
        syt == IF stamped
               THEN (cip.cycle_count * 4096 + FractionFloor(cip.cycle_offset)) % 65536
               ELSE NoSyt
        timed == IF stamped THEN CipAdvanceOffset(cip) ELSE cip
    IN  [cip |-> [timed EXCEPT
                   !.ready_samples = FractionSubInt(next, nevents),
                   !.dbc = (@ + CipNeventsDbc(cip, nevents)) % 256],
         nevents |-> nevents,
         dbs |-> cip.dbs,
         dbc |-> cip.dbc,
         fmt |-> cip.format,
         fdf |-> IF nevents = 0 /\ cip.mode = BlockingNoData THEN FdfNoData
                 ELSE cip.fdf,
         syt |-> syt]
=============================================================================
