----------------------------- MODULE MCNtpService -----------------------------
(* A small NtpService: 1.0 is Unit = 2, so these are -1.5 and 1.5.          *)
EXTENDS NtpService

MCMultipliers == {-3, 3}
=============================================================================
