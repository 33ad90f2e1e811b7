----------------------------- MODULE FsRdwt -----------------------------
(***************************************************************************)
(* do_rdwt(): reading and writing files whose sectors follow each other on *)
(* the disk, through FS's buffer of BufSects sectors.  FS serves one       *)
(* request at a time, so a request is a step; its loop over the buffer is  *)
(* the operator Transfer.  A descriptor is never past its file's end, so   *)
(* that the loop is entered.                                               *)
(*                                                                         *)
(* A WRITE round reads a chunk, replaces bytes of it and writes all of it  *)
(* back: only the bytes it replaces change.  A descriptor without O_RDWR   *)
(* gets 0 at once, so only the others are modelled.  The terminals' side   *)
(* of do_rdwt() is in Tty.                                                 *)
(***************************************************************************)
EXTENDS Naturals, Sequences, FiniteSetsExt

CONSTANTS
  File, Filp, FileOf,         \* files, open descriptors and what they are open on
  i_start_sect, i_nr_sects,   \* file -> where it lies
  SECTOR_SIZE,
  BufSects,                   \* FSBUF_SIZE in sectors
  PartSects,                  \* the partition's sectors
  Lens                        \* bound: lengths asked for

ASSUME RdwtAssumption ==
  /\ {SECTOR_SIZE, BufSects} \subseteq Nat \ {0} /\ PartSects \in Nat
  /\ FileOf \in [Filp -> File]
  /\ Lens \subseteq Nat \ {0}
  /\ i_start_sect \in [File -> Nat] /\ i_nr_sects \in [File -> Nat]
  /\ \A f \in File : i_start_sect[f] + i_nr_sects[f] <= PartSects
  /\ \A f, g \in File : f # g =>
       \/ i_start_sect[f] + i_nr_sects[f] <= i_start_sect[g]
       \/ i_start_sect[g] + i_nr_sects[g] <= i_start_sect[f]

VARIABLES
  partition,   \* its bytes, one after the other
  i_size,      \* file -> bytes
  fd_pos,      \* descriptor -> bytes
  buf          \* the caller's buffer in the last request

rdwtvars == <<partition, i_size, fd_pos, buf>>

Lesser(m, n) == IF m < n THEN m ELSE n
Address(f, at) == i_start_sect[f] * SECTOR_SIZE + at
Space(f) == i_nr_sects[f] * SECTOR_SIZE

\* Bytes that differ from their neighbours, so that a shifted transfer shows.
Data == {[k \in 1..n |-> k % 3] : n \in Lens}

RdwtInit ==
  /\ partition = [a \in 0..(PartSects * SECTOR_SIZE - 1) |-> 0]
  /\ i_size = [f \in File |-> 0]
  /\ fd_pos = [d \in Filp |-> 0]
  /\ buf = <<>>

-----------------------------------------------------------------------------
(* The loop.  Sectors and rounds as the code counts them.                  *)

EndOfRead(f, pos, len) == Lesser(pos + len, i_size[f])

\* Mutant of EndOfWrite: a write would not lengthen the file.
EndOfWriteInFile(f, pos, len) == Lesser(pos + len, i_size[f])

EndOfWrite(f, pos, len) == Lesser(pos + len, Space(f))

SectMin(f, pos) == i_start_sect[f] + pos \div SECTOR_SIZE
SectMax(f, end) == i_start_sect[f] + end \div SECTOR_SIZE
Chunk(f, pos, end) == Lesser(SectMax(f, end) - SectMin(f, pos) + 1, BufSects)
Rounds(f, pos, end) == (SectMax(f, end) - SectMin(f, pos)) \div Chunk(f, pos, end) + 1

\* Mutant of Off: off is not reset after the first round.
OffKept(pos, r) == pos % SECTOR_SIZE

\* off: only the first round starts inside its first sector.
Off(pos, r) == IF r = 0 THEN pos % SECTOR_SIZE ELSE 0

\* bytes_rw after each number of rounds.
BytesRw(f, pos, len, end) ==
  LET bytes_rw[r \in Nat] ==
        IF r = 0 THEN 0
        ELSE bytes_rw[r - 1] + Lesser(len - bytes_rw[r - 1],
                                      Chunk(f, pos, end) * SECTOR_SIZE - Off(pos, r - 1))
  IN bytes_rw

\* What round i moves: [addr: on the partition, bytes, at: the place in buf].
Transfer(f, pos, len, end) ==
  LET bytes_rw == BytesRw(f, pos, len, end) IN
  [i \in 1..Rounds(f, pos, end) |->
     [addr |-> (SectMin(f, pos) + (i - 1) * Chunk(f, pos, end)) * SECTOR_SIZE + Off(pos, i - 1),
      bytes |-> bytes_rw[i] - bytes_rw[i - 1],
      at |-> bytes_rw[i - 1]]]

\* The bytes moved by all rounds.
Total(f, pos, len, end) == BytesRw(f, pos, len, end)[Rounds(f, pos, end)]

\* The rounds that move the byte at address a, or the byte at place k of buf.
OnPartition(pieces, a) ==
  {i \in DOMAIN pieces : a \in pieces[i].addr..(pieces[i].addr + pieces[i].bytes - 1)}
InBuf(pieces, k) ==
  {i \in DOMAIN pieces : k \in pieces[i].at..(pieces[i].at + pieces[i].bytes - 1)}

\* What a WRITE of data leaves at address a.
Written(pieces, data, a) ==
  LET hits == OnPartition(pieces, a) IN
  IF hits = {} THEN partition[a]
  ELSE LET p == pieces[Max(hits)] IN data[p.at + a - p.addr + 1]

\* What a READ leaves at place k.
ReadIn(pieces, k) == LET p == pieces[Max(InBuf(pieces, k))] IN partition[p.addr + k - p.at]

\* fd_pos moves on by what was moved, and i_size is never less.
Advance(d, n) ==
  LET f == FileOf[d] IN
  /\ fd_pos' = [fd_pos EXCEPT ![d] = @ + n]
  /\ i_size' = [i_size EXCEPT ![f] = IF fd_pos[d] + n > @ THEN fd_pos[d] + n ELSE @]

Read(d, len) ==
  LET f == FileOf[d]
      end == EndOfRead(f, fd_pos[d], len)
      n == Total(f, fd_pos[d], len, end)
  IN /\ buf' = [k \in 1..n |-> ReadIn(Transfer(f, fd_pos[d], len, end), k - 1)]
     /\ Advance(d, n)
     /\ UNCHANGED partition

Write(d, data) ==
  LET f == FileOf[d]
      end == EndOfWrite(f, fd_pos[d], Len(data))
  IN /\ partition' = [a \in DOMAIN partition |->
                        Written(Transfer(f, fd_pos[d], Len(data), end), data, a)]
     /\ buf' = data
     /\ Advance(d, Total(f, fd_pos[d], Len(data), end))

\* close() and open() again.
Reopen(d) ==
  /\ fd_pos' = [fd_pos EXCEPT ![d] = 0]
  /\ UNCHANGED <<partition, i_size, buf>>

Fits(f, size) == size[f] <= Space(f)

\* Any request, until one has gone behind its file's sectors (bound).
RdwtNext ==
  \E d \in Filp :
    \/ /\ \A f \in File : Fits(f, i_size)
       /\ \/ \E len \in Lens : Read(d, len)
          \/ \E data \in Data : Write(d, data)
    \/ Reopen(d)

RdwtSpec == RdwtInit /\ [][RdwtNext]_rdwtvars

-----------------------------------------------------------------------------
(* Properties.                                                             *)

Content(f) == [k \in 1..i_size[f] |-> partition[Address(f, k - 1)]]

Promise == INSTANCE Files WITH
  Desc <- Filp, content <- [f \in File |-> Content(f)], pos <- fd_pos

\* As long as no file has outgrown its sectors, do_rdwt() keeps the promise of
\* Files: whatever the boundaries of sectors and buffers, and however descriptors
\* share a file, the bytes arrive in order, at their place, and nowhere else.
ImplementsFiles ==
  Promise!Init /\ [][(\A f \in File : Fits(f, i_size')) => Promise!Next]_rdwtvars

\* Nor does a request that outgrows them reach anywhere but straight on: what is
\* written or read are the bytes of the partition that follow the position, as
\* many as the position moves and never more than were asked for.
StraightOnStep(d) ==
  LET n == fd_pos'[d] - fd_pos[d]
      from == Address(FileOf[d], fd_pos[d])
  IN n > 0 =>
     /\ n <= Len(buf')
     /\ \A k \in 0..(n - 1) : from + k \in DOMAIN partition => buf'[k + 1] = partition'[from + k]
     /\ \A a \in DOMAIN partition : partition'[a] # partition[a] => a \in from..(from + n - 1)
StraightOn == [][\A d \in Filp : StraightOnStep(d)]_rdwtvars
=============================================================================
