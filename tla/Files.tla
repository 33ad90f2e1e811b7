------------------------------ MODULE Files ------------------------------
(***************************************************************************)
(* What read() and write() promise: a file is a sequence of bytes, a       *)
(* descriptor a position in one; a write replaces or extends the file at   *)
(* the position, a read returns the bytes there, and both move on by what  *)
(* they transferred.  No request touches a file but its own.               *)
(***************************************************************************)
EXTENDS Naturals, Sequences

CONSTANTS File, Desc,
  FileOf,    \* descriptor -> the file it is open on
  Data, Lens   \* bounds: the sequences of bytes written, the lengths read

VARIABLES
  content,   \* file -> its bytes
  pos,       \* descriptor -> how many bytes it is past the start
  buf        \* the bytes of the last transfer

Init ==
  /\ content = [f \in File |-> <<>>]
  /\ pos = [d \in Desc |-> 0]
  /\ buf = <<>>

Overlay(old, at, data) ==
  [k \in 1..(IF at + Len(data) > Len(old) THEN at + Len(data) ELSE Len(old)) |->
     IF k \in (at + 1)..(at + Len(data)) THEN data[k - at] ELSE old[k]]

Write(d, data) ==
  /\ content' = [content EXCEPT ![FileOf[d]] = Overlay(@, pos[d], data)]
  /\ pos' = [pos EXCEPT ![d] = @ + Len(data)]
  /\ buf' = data

Prefix(s, t) == Len(s) <= Len(t) /\ SubSeq(t, 1, Len(s)) = s

\* A read past the end returns what is there, and maybe bytes behind it that
\* belong to the file from then on; the bytes that did remain as they are.
Read(d, n) ==
  LET f == FileOf[d]  old == content[f]  new == content'[f]  moved == pos'[d] - pos[d] IN
  /\ \A g \in File : IF g = f THEN Prefix(old, new) ELSE content'[g] = content[g]
  /\ pos[d] + n <= Len(old) => new = old /\ moved = n
  /\ Len(old) <= pos'[d] \/ moved = n
  /\ moved \in 0..n
  /\ buf' = SubSeq(new, pos[d] + 1, pos'[d])
  /\ \A e \in Desc \ {d} : pos'[e] = pos[e]

Reopen(d) ==
  /\ pos' = [pos EXCEPT ![d] = 0]
  /\ UNCHANGED <<content, buf>>

Next ==
  \E d \in Desc :
    \/ \E n \in Lens : Read(d, n)
    \/ \E data \in Data : Write(d, data)
    \/ Reopen(d)

Spec == Init /\ [][Next]_<<content, pos, buf>>
=============================================================================
