------------------------------ MODULE PipeTable ------------------------------
(***************************************************************************)
(* The kernel pipe (crates/kernel/src/pipe.rs): a bounded byte buffer and  *)
(* two reference counts.  Operators only: Kernel.tla owns the table.       *)
(*                                                                         *)
(* A pipe whose counts both reach zero is dropped by gc(), and a live pipe *)
(* has a positive count, so the absent pipe is the record NoPipe.          *)
(***************************************************************************)
EXTENDS Integers, Sequences

CONSTANTS Byte,     \* the bytes guests write
          Capacity  \* PIPE_CAPACITY (64 KiB in the source)

ASSUME PipeAssumption == Capacity \in Nat \ {0}

Pipe == [buf : Seq(Byte), readers : Nat, writers : Nat]

NoPipe == [buf |-> <<>>, readers |-> 0, writers |-> 0]

\* create(): one reader and one writer, the creating process's two descriptors.
NewPipe == [buf |-> <<>>, readers |-> 1, writers |-> 1]

Exists(pipe)    == pipe # NoPipe
ReadOpen(pipe)  == pipe.readers > 0
WriteOpen(pipe) == pipe.writers > 0

\* space(): zero for a pipe that is gone, although its buffer is empty.
Space(pipe) == IF Exists(pipe) THEN Capacity - Len(pipe.buf) ELSE 0

Least(a, b) == IF a <= b THEN a ELSE b

\* read(): drain up to n bytes from the front.
Drain(pipe, n) ==
  [pipe EXCEPT !.buf = SubSeq(@, Least(n, Len(@)) + 1, Len(@))]

\* write(): append what fits of data; the rest is the caller's to retry.
Fill(pipe, data) ==
  [pipe EXCEPT !.buf = @ \o SubSeq(data, 1, Least(Space(pipe), Len(data)))]

\* add_reader()/add_writer(): no-ops on a pipe that is gone.
AddEnds(pipe, r, w) ==
  IF Exists(pipe)
  THEN [pipe EXCEPT !.readers = @ + r, !.writers = @ + w]
  ELSE pipe

\* Faulty: a plain subtraction.
SaturatingSub_Wraps(a, b) == a - b

\* saturating_sub()
SaturatingSub(a, b) == IF a >= b THEN a - b ELSE 0

\* r calls of close_reader() and w calls of close_writer(), each followed by gc().
CloseEnds(pipe, r, w) ==
  LET left == [pipe EXCEPT !.readers = SaturatingSub(@, r),
                           !.writers = SaturatingSub(@, w)]
  IN  IF left.readers = 0 /\ left.writers = 0 THEN NoPipe ELSE left
=============================================================================
