------------------------------ MODULE MCUartPwm ------------------------------
(* Small instances of UartPwm for TLC.                                     *)
EXTENDS UartPwm
=============================================================================
