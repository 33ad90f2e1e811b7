-------------------------------- MODULE MCHd --------------------------------
(* Model-checking instance of Hd: a disk with a primary partition, an      *)
(* extended one with three logical partitions, which is all there may be,  *)
(* one with a single logical partition, and an unused entry.               *)
EXTENDS Hd, TLC

Entry(i, s, n) == [id |-> i, start |-> s, size |-> n]
Unused == Entry(NO_PART, 0, 0)
Linux == 131

\* A sector that holds no table has no entries.
MCTables ==
  0 :> <<Entry(Linux, 1, 3), Entry(EXT_PART, 5, 20), Unused, Entry(EXT_PART, 30, 6)>> @@
  5 :> <<Entry(Linux, 1, 3), Entry(EXT_PART, 6, 5)>> @@
  11 :> <<Entry(Linux, 2, 2), Entry(EXT_PART, 12, 5)>> @@
  17 :> <<Entry(Linux, 1, 4), Entry(EXT_PART, 17, 3)>> @@
  30 :> <<Entry(Linux, 1, 5), Unused>>
MCTable == MCTables @@ [s \in 0..40 |-> <<Unused, Unused, Unused, Unused>>]

MCType ==
  {Request(op, pos, n) : op \in {"READ", "WRITE"}, pos \in Positions, n \in Lens}
    \cup {Request(op, 0, 0) : op \in {"OPEN", "IOCTL"}}
=============================================================================
