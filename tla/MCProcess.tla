-------------------------------- MODULE MCProcess --------------------------------
(* A small instance of Process for TLC.                                            *)
EXTENDS Process, TLC

CONSTANTS t1, t2
=================================================================================
