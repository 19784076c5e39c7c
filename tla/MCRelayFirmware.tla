--------------------------- MODULE MCRelayFirmware ---------------------------
(***************************************************************************)
(* Model-checking instances of RelayFirmware: one height at each control   *)
(* limit, one between them and one beyond each, and three stamps.          *)
(***************************************************************************)
EXTENDS RelayFirmware

=============================================================================
