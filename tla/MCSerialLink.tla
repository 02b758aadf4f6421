---------------------------- MODULE MCSerialLink ----------------------------
(* SerialLink for TLC.                                                     *)
EXTENDS SerialLink

NoListeners   == <<>>
EventListener == <<"EVENT">>
=============================================================================
