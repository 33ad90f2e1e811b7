------------------------------- MODULE MCIpc -------------------------------
(* Model-checking instance of Ipc.                                         *)
EXTENDS IpcMailbox, TLC

(* The processes that are not interrupt-driven tasks are interchangeable.  *)
Interchangeable == Permutations(Proc \ IrqTask)
=============================================================================
