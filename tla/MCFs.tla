------------------------------ MODULE MCFs ------------------------------
(* Fs on a small disk: after the root directory's sectors and cmd.tar's    *)
(* there is room for three files, and the gap before cmd.tar is not a      *)
(* multiple of a file's size, as on the disk config.h describes.           *)
EXTENDS Fs

\* A caller writes an entry behind that of cmd.tar which names the next inode:
\* a free one, or a second name for a file.
MCScribbles == {<<4, [nr |-> 4, name |-> x]>> : x \in New}

\* Bound: once the directory was written to, or has become longer than its
\* last entry, only one process goes on.
OneAfterWrite ==
  scribbled > 0 \/ dir[dir_size] = NoEntry => alive = {First} /\ forking = {}

\* Bound: once unlink() has lost a reference the directory stays short.
ShortAfterLoss == SumFunction(leaked) > 0 => dir_size <= 4

\* New names are alike.
Alike == Permutations(New)
=============================================================================
