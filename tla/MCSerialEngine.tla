--------------------------- MODULE MCSerialEngine ---------------------------
(* SerialEngine for TLC; serial_loop.cfg gives the bounds. *)
EXTENDS SerialEngine
=============================================================================
