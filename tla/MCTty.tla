-------------------------------- MODULE MCTty --------------------------------
(* Model-checking instance of Tty: two processes, each on a terminal.      *)
EXTENDS Tty, TLC

MCType == MessageType
MCOpsOf == "u1" :> {"READ", "WRITE"} @@ "u2" :> {"OPEN", "READ"}
MCTtyOf == "u1" :> 0 @@ "u2" :> 1
=============================================================================
