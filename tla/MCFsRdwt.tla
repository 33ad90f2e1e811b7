---------------------------- MODULE MCFsRdwt ----------------------------
(* A file of three sectors with two descriptors and, right behind it, one  *)
(* of one sector.                                                          *)
EXTENDS FsRdwt, TLC
MCFileOf == "d1" :> "a" @@ "d2" :> "a" @@ "d3" :> "b"
MCStart == "a" :> 1 @@ "b" :> 4
MCNr == "a" :> 3 @@ "b" :> 1
=============================================================================
