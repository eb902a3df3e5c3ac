--------------------------- MODULE CircularBuffer ---------------------------
(***************************************************************************)
(* util/circular-buffer.hpp: a vector v of fixed size with a window        *)
(* head .. tail-1 of live elements.  The window slides to the right;       *)
(* adding to a window that touches the end of v first rotates v to the     *)
(* left.  Positions are the code's plus one, so that v is a sequence.      *)
(***************************************************************************)
EXTENDS Naturals, Sequences

\* A value-initialised buffer: every slot of v holds 0.
NewBuffer(capacity) ==
  [v |-> [i \in 1 .. capacity |-> 0], head |-> 0, tail |-> 0]

\* The live slots, oldest first.
Window(b) == b.head + 1 .. b.tail

Size(b) == b.tail - b.head

FrontOf(b) == b.v[b.head + 1]

\* The live elements as a sequence, what begin() .. end() iterates over.
Contents(b) == [i \in 1 .. Size(b) |-> b.v[b.head + i]]

\* std::rotate(begin, begin + count, end).
RotateLeft(v, count) ==
  [i \in 1 .. Len(v) |->
     IF i + count <= Len(v) THEN v[i + count] ELSE v[i + count - Len(v)]]

\* Mutants of MakeRoom: head is not reset; the window moves by one wherever
\* it starts.
MakeRoomKeepsHead(b) ==
  IF b.tail = Len(b.v)
  THEN LET count == IF b.head > 1 THEN b.head ELSE 1
       IN  [v |-> RotateLeft(b.v, count), head |-> b.head, tail |-> b.tail - count]
  ELSE b

MakeRoomByOne(b) ==
  IF b.tail = Len(b.v)
  THEN [v |-> RotateLeft(b.v, 1), head |-> 0, tail |-> b.tail - 1]
  ELSE b

\* The first branch of emplace_back and push_back.  A full window that
\* starts at 0 moves by one, which gives up the oldest element.
MakeRoom(b) ==
  IF b.tail = Len(b.v)
  THEN LET count == IF b.head > 1 THEN b.head ELSE 1
       IN  [v |-> RotateLeft(b.v, count), head |-> 0, tail |-> b.tail - count]
  ELSE b

EmplaceBack(b, x) ==
  LET r == MakeRoom(b)
  IN  [r EXCEPT !.v[r.tail + 1] = x, !.tail = r.tail + 1]

\* pop_front has no guard: the caller keeps the buffer from being empty.
PopFront(b) == [b EXCEPT !.head = b.head + 1]
=============================================================================
