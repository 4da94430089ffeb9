------------------------------- MODULE MCOta -------------------------------
(* Small instances of OtaUpdate for TLC.                                   *)
EXTENDS OtaUpdate
=============================================================================
