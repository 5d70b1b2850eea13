---------------------------- MODULE MC_AmdtpXmit ----------------------------
(* Model-checking instance of AmdtpXmit: every rate, format and mode of   *)
(* the transmit API, mono and stereo, one session, no dropped packets.   *)
EXTENDS AmdtpXmit

MCRates == {32000, 44100, 48000, 88200, 96000, 176400, 192000}
MCFormats == {"RAW", "IEC958_PCM", "IEC958_AC3"}
MCModes == CipModes
MCDimensions == {1, 2}
MCSampleFormats == {"LE16"}
=============================================================================
