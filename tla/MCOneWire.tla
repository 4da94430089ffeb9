----------------------------- MODULE MCOneWire -----------------------------
(* Small instances of OneWire for TLC.                                     *)
EXTENDS OneWire
=============================================================================
