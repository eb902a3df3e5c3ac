----------------------------- MODULE TarStream ------------------------------
(***************************************************************************)
(* tarstream.cpp: a stream buffer that reads one member of an archive from *)
(* the buffer below it (ZlibStream).  A block of the archive has Block     *)
(* units; a header fills one, [name, size] first.  Names are sequences, so *)
(* that one can begin like another.                                        *)
(***************************************************************************)
EXTENDS ZlibStream

CONSTANTS Block, TarBufSize     \* of sizeof(tar_header) and of buf

ASSUME TarAssumption ==
  Block \in Nat \ {0} /\ TarBufSize \in Nat \ {0} /\ TarBufSize % Block = 0

VARIABLES
  filename,           \* the member that is wanted
  state,              \* "header", "skip" or "data": what is being read
  first_end_block,
  skipped,            \* units left to skip of another member
  bytes_remaining,    \* units left of the member
  read,               \* what the current sgetn has got so far
  tar_get, tar_call   \* as get and call, of this buffer

searchVars == <<state, first_end_block, skipped, bytes_remaining>>
tarVars == <<filename, searchVars, read, tar_get, tar_call>>

Zero == [kind |-> "zero"]        \* padding, and what the end blocks consist of

TarInit ==
  /\ state = "header" /\ first_end_block = FALSE /\ skipped = 0
  /\ bytes_remaining = 0 /\ read = <<>> /\ tar_get = <<>> /\ tar_call = "none"

Least(m, n) == IF m < n THEN m ELSE n

\* How much the sgetn of the state asks for.
Asked ==
  CASE state = "header" -> Block
    [] state = "skip" -> Least(skipped, TarBufSize)
    [] state = "data" -> TarBufSize

\* sgetn is done: it has what it asked for, or the buffer below is at its end.
Reading == tar_call = "underflow" /\ Len(read) < Asked
Got == tar_call = "underflow" /\ (Len(read) = Asked \/ (get = <<>> /\ call = "eof"))

Transfer ==
  /\ Reading /\ get # <<>>
  /\ LET n == Least(Asked - Len(read), Len(get)) IN
     /\ read' = read \o First(get, n)
     /\ get' = SubSeq(get, n + 1, Len(get))
  /\ UNCHANGED <<bytes, position, in_buf, held, ended, call>>
  /\ UNCHANGED <<filename, searchVars, tar_get, tar_call>>

Below ==
  /\ Reading /\ CallUnderflow
  /\ UNCHANGED <<bytes, position, in_buf, held, ended, get, tarVars>>

\* The next sgetn may call the buffer below again, though it was at its end.
Answered == call' = "none" /\ read' = <<>>

\* Mutant of Matches: any name of the same beginning as the shorter one.
MatchesEither(header) == IsPrefix(filename, header.name) \/ IsPrefix(header.name, filename)

\* strncmp of the length of the wanted name only.
Matches(header) == IsPrefix(filename, header.name)

\* The units of the blocks of a member.
Blocks(size) == ((size + (Block - 1)) \div Block) * Block

\* find_tar_header has the next header, or what is left of the file.
Header ==
  /\ Got /\ state = "header" /\ Answered
  /\ LET complete == Len(read) = Block
         header == read[1]
         found == complete /\ header.kind = "tar" /\ Matches(header)
         zeros == complete /\ \A k \in 1 .. Block : read[k] = Zero
         size == IF header.kind = "tar" THEN header.size ELSE 0
         over == ~ complete \/ (zeros /\ first_end_block)
     IN  /\ tar_call' = IF over THEN "eof" ELSE tar_call
         /\ state' = CASE found -> "data"
                       [] ~ found /\ ~ over /\ size > 0 -> "skip"
                       [] OTHER -> state
         /\ first_end_block' = IF over \/ found THEN FALSE ELSE zeros
         /\ bytes_remaining' = IF found THEN size ELSE bytes_remaining
         /\ skipped' = IF found \/ over THEN skipped ELSE Blocks(size)
  /\ UNCHANGED <<bytes, position, in_buf, held, ended, get, filename, tar_get>>

\* Mutant of Skip: a read of nothing is no end.
SkipOn ==
  /\ Got /\ state = "skip" /\ Answered
  /\ skipped' = skipped - Len(read)
  /\ state' = IF skipped' = 0 THEN "header" ELSE state
  /\ UNCHANGED <<bytes, position, in_buf, held, ended, get>>
  /\ UNCHANGED <<filename, first_end_block, bytes_remaining, tar_get, tar_call>>

Skip ==
  /\ Got /\ state = "skip" /\ Answered
  /\ skipped' = skipped - Len(read)
  /\ state' = IF skipped' = 0 \/ read = <<>> THEN "header" ELSE state
  /\ tar_call' = IF read = <<>> THEN "eof" ELSE tar_call
  /\ UNCHANGED <<bytes, position, in_buf, held, ended, get>>
  /\ UNCHANGED <<filename, first_end_block, bytes_remaining, tar_get>>

\* What lies behind the member in the last buffer is not shown to the caller.
Data ==
  /\ Got /\ state = "data" /\ Answered
  /\ tar_get' = First(read, bytes_remaining)
  /\ bytes_remaining' = bytes_remaining - Len(tar_get')
  /\ tar_call' = IF tar_get' = <<>> THEN "eof" ELSE "none"
  /\ UNCHANGED <<bytes, position, in_buf, held, ended, get>>
  /\ UNCHANGED <<filename, state, first_end_block, skipped>>

\* An exception from below passes through sgetn and underflow().
Fails ==
  /\ tar_call = "underflow" /\ call = "error"
  /\ tar_call' = "error"
  /\ UNCHANGED <<zlibVars, filename, searchVars, read, tar_get>>

TarUnderflow == Transfer \/ Below \/ Header \/ Skip \/ Data \/ Fails
=============================================================================
