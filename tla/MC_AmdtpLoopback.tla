------------------------- MODULE MC_AmdtpLoopback -------------------------
(* Model values for checking AmdtpLoopback with TLC. *)
EXTENDS AmdtpLoopback

\* Rates whose SFC code fits the receiver's two-bit mask.
MCLowRates == {48000, 88200}
\* Rates the transmitter codes with SFC 4..6.
MCHighRates == {96000}
MCFormats == {"RAW", "IEC958_PCM"}
MCBlockingModes == BlockingModes
MCNonBlocking == {NonBlocking}
MCDimensions == {2}
\* Sample formats the transmitter labels with their own bit length.
MCLeFormats == {"LE16", "LE24"}
MCBeFormats == {"BE16"}
=============================================================================
