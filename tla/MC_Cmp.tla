------------------------------- MODULE MC_Cmp -------------------------------
(* Connections of one application between an output node and an input    *)
(* node.  MCNodes: both have plugs (one output, two input, all online);   *)
(* only the output has a plug, online or offline; only the input has two *)
(* plugs, online or offline, or one, and the input node one oPCR;        *)
(* neither has plugs.  One lock transaction of a connect may fail, except the one a  *)
(* connect leaves unrepaired.                                            *)
EXTENDS Cmp

MCBoth == [no |-> 1, ni |-> 2, oon |-> {0}, ion |-> {0, 1}, ino |-> 0]
MCNodes ==
    {MCBoth,
     [no |-> 1, ni |-> 0, oon |-> {0}, ion |-> {}, ino |-> 0],
     [no |-> 1, ni |-> 0, oon |-> {}, ion |-> {}, ino |-> 0],
     [no |-> 0, ni |-> 2, oon |-> {}, ion |-> {0, 1}, ino |-> 1],
     [no |-> 0, ni |-> 2, oon |-> {}, ion |-> {}, ino |-> 1],
     [no |-> 0, ni |-> 1, oon |-> {}, ion |-> {0}, ino |-> 1],
     [no |-> 0, ni |-> 0, oon |-> {}, ion |-> {}, ino |-> 0]}
\* The point-to-point configuration alone.
MCBothOnly == {MCBoth}
MCInitFree == {0, 1, 63}
\* Bandwidth for one connection of CalcBandwidth = 512 + (97 + 3) * 4 = 912.
MCBwInit == 1000
MCConnectSites == {"p2p_o", "p2p_i", "in_i", "ov_o", "ov_i", "cpo_o", "ovi_i"}
=============================================================================
