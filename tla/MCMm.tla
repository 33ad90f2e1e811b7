-------------------------------- MODULE MCMm --------------------------------
(* Model-checking instance of Mm.                                          *)
EXTENDS MmFamily

MCType == RequestType \cup ReplyType
=============================================================================
