-------------------------- MODULE MC_DvFrameBuffer --------------------------
(* Model values for checking DvFrameBuffer with TLC. *)
EXTENDS DvFrameBuffer

MCSystems == {TRUE, FALSE}
MCNoHeaders == {}
\* First-block IDs with a DIF sequence or block number out of the
\* standard's range: sequence 12..15 of the 4-bit field, block 200.
MCForeignHeaders ==
    {[section |-> 0, seq |-> 13, block |-> 0, dsf |-> TRUE, ref |-> -1],
     [section |-> 4, seq |-> 11, block |-> 200, dsf |-> TRUE, ref |-> -1]}
=============================================================================
