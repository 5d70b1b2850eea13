------------------------------ MODULE MC_PlugHost ------------------------------
(* Command lines for two plugctl processes against the test-plugs host.   *)
EXTENDS PlugHost

Set(r, f, v) == [op |-> "set", reg |-> r, field |-> f, val |-> v]
Get(r) == [op |-> "get", reg |-> r, field |-> "none", val |-> 0]

(* Both set oPCR[0].channel and iMPR.data_rate to the same values, so    *)
(* their writes of one register race and compare-swaps fail; p2 first    *)
(* reads oMPR, and p1 sets a second field of iMPR from its copy.  The   *)
(* channel 69 is cut to 5 by the six-bit field.                         *)
MCProg == [c \in {"p1", "p2"} |->
             IF c = "p1" THEN << Set(OPCR(0), "channel", 5), Set(IMPR, "data_rate", 1),
                                 Set(IMPR, "n_plugs", 1) >>
             ELSE << Get(OMPR), Set(OPCR(0), "channel", 69), Set(IMPR, "data_rate", 1) >>]

(* `plugctl oPCR[0].channel=5` and `plugctl oPCR[0].online=0` at once. *)
MCProgRace == [c \in {"p1", "p2"} |->
                 IF c = "p1" THEN << Set(OPCR(0), "channel", 5) >>
                 ELSE << Set(OPCR(0), "online", 0) >>]

\* Single command lines for the cases plugctl gets wrong by itself.
MCProgTwoFields == [c \in {"p1"} |-> << Set(OPCR(0), "channel", 5), Set(OPCR(0), "payload", 100) >>]
MCProgTwoPlugs == [c \in {"p1"} |-> << Set(OPCR(0), "channel", 5), Set(OPCR(1), "online", 1) >>]
MCProgPair == [c \in {"p1"} |-> << Set(OPCR(0), "channel", 5), Set(IPCR(0), "channel", 5) >>]
MCProgGetAfterSet == [c \in {"p1"} |-> << Set(OMPR, "bcast_channel", 5), Get(OMPR) >>]
=============================================================================
