---------------------------- MODULE MatrixReader ----------------------------
(***************************************************************************)
(* load_matrix (matrix-market.cpp): a matrix is read through the streams   *)
(* that the name of the file calls for (TarStream, ZlibStream) and put     *)
(* into the order its name asks for (Reordering).  A file is described by  *)
(* what gzip and tar were given and by what happened to it since; the text *)
(* of a matrix is a sequence of units: a header, comments, the size, and   *)
(* the entries.                                                            *)
(***************************************************************************)
EXTENDS TarStream, Reordering

CONSTANT Files    \* [format, members, ratio, cut, corrupt, trailing]

VARIABLES
  file,         \* one of Files
  reorder,      \* "none", "RCM" or "GP"
  pc,
  header, size, \* as read
  entries,      \* read so far
  parsed,       \* how many of them were in the text
  outcome       \* of load_matrix

readerVars == <<file, reorder, pc, header, size, entries, parsed, outcome>>
vars == <<zlibVars, tarVars, orderVars, readerVars>>

Nothing == [kind |-> "none"]
Wanted == <<"test", ".mtx">>

-----------------------------------------------------------------------------
\* The file: what tar and gzip make of the members (name and text).
PaddingOf(n) == [k \in 1 .. (Block - (n % Block)) % Block |-> Zero]
ZeroBlock == [k \in 1 .. Block |-> Zero]
MemberImage(f) ==
  <<[kind |-> "tar", name |-> f.name, size |-> Len(f.text)]>> \o PaddingOf(1)
    \o f.text \o PaddingOf(Len(f.text))

Image(f) ==
  IF f.format = "tar.gz"
  THEN FlattenSeq([k \in DOMAIN f.members |-> MemberImage(f.members[k])])
         \o ZeroBlock \o ZeroBlock
  ELSE f.members[1].text

\* A gzip header, `ratio` units to a byte, and the trailer.
Compressed(units, ratio) ==
  LET n == (Len(units) + ratio - 1) \div ratio
      Chunk(k) == SubSeq(units, (k - 1) * ratio + 1, Least(k * ratio, Len(units)))
  IN  <<[kind |-> "data", out |-> <<>>]>>
        \o [k \in 1 .. n |-> [kind |-> "data", out |-> Chunk(k)]]
        \o <<[kind |-> "trailer", out |-> <<>>]>>

Whole(f) ==
  IF f.format = "mtx" THEN [k \in DOMAIN Image(f) |-> [kind |-> "data", out |-> <<Image(f)[k]>>]]
  ELSE Compressed(Image(f), f.ratio)

\* What is on the disk: cut short, with a bad byte, or with bytes appended.
BytesOf(f) ==
  LET kept == SubSeq(Whole(f), 1, Len(Whole(f)) - f.cut)
      damaged == [k \in DOMAIN kept |->
                    IF k = f.corrupt THEN [kept[k] EXCEPT !.kind = "corrupt"] ELSE kept[k]]
  IN  damaged \o [k \in 1 .. f.trailing |-> [kind |-> "data", out |-> <<Zero>>]]

-----------------------------------------------------------------------------
Init ==
  /\ file \in Files /\ reorder \in {"none", "RCM", "GP"}
  /\ bytes = BytesOf(file) /\ filename = Wanted
  /\ ZlibInit /\ TarInit /\ OrderInit
  /\ matrix = Nothing /\ pc = "header" /\ header = Nothing /\ size = Nothing
  /\ entries = <<>> /\ parsed = 0 /\ outcome = "none"

\* The stream that fromStream reads: the top one.
Tar == file.format = "tar.gz"
Source == IF Tar THEN tar_get ELSE get
SourceCall == IF Tar THEN tar_call ELSE call
Next1 == Head(Source)

ReadingText == pc \in {"header", "size", "entries"}

Consume ==
  /\ IF Tar THEN tar_get' = Tail(tar_get) /\ UNCHANGED get
     ELSE get' = Tail(get) /\ UNCHANGED tar_get
  /\ UNCHANGED <<bytes, position, in_buf, held, ended, call, filename, searchVars, read, tar_call>>

Ask ==
  /\ ReadingText /\ Source = <<>> /\ SourceCall = "none"
  /\ IF Tar THEN tar_call' = "underflow" /\ UNCHANGED call
     ELSE call' = "underflow" /\ UNCHANGED tar_call
  /\ UNCHANGED <<bytes, position, in_buf, held, ended, get, filename, searchVars, read, tar_get>>
  /\ UNCHANGED <<orderVars, readerVars>>

\* The streams below, until the top one has answered.
Stream ==
  /\ \/ /\ IF file.format = "mtx" THEN FileUnderflow ELSE ZlibUnderflow
        /\ UNCHANGED tarVars
     \/ TarUnderflow
  /\ UNCHANGED <<orderVars, readerVars>>

\* Header and field names other than these are refused in the same way.
ReadHeader ==
  /\ pc = "header" /\ Source # <<>> /\ Consume
  /\ IF Next1.kind = "header"
     THEN header' = Next1 /\ pc' = "size" /\ UNCHANGED outcome
     ELSE pc' = "done" /\ outcome' = "matrix_error" /\ UNCHANGED header
  /\ UNCHANGED <<orderVars, file, reorder, size, entries, parsed>>

ReadComment ==
  /\ pc = "size" /\ Source # <<>> /\ Next1.kind = "comment" /\ Consume
  /\ UNCHANGED <<orderVars, readerVars>>

\* An array has no entries.
ReadSize ==
  /\ pc = "size" /\ Source # <<>> /\ Next1.kind = "size" /\ Consume
  /\ size' = IF header.format = "array" THEN [Next1 EXCEPT !.n = 0] ELSE Next1
  /\ pc' = "entries"
  /\ UNCHANGED <<orderVars, file, reorder, header, entries, parsed, outcome>>

\* copy_n from an istream_iterator, which reads the first entry in any case.
ReadEntry ==
  /\ pc = "entries" /\ Source # <<>> /\ Consume
  /\ entries' = IF size.n = 0 THEN <<>> ELSE Append(entries, Next1)
  /\ parsed' = IF size.n = 0 THEN 0 ELSE parsed + 1
  /\ pc' = IF Len(entries') = size.n THEN "loaded" ELSE pc
  /\ UNCHANGED <<orderVars, file, reorder, header, size, outcome>>

\* At the end of the text the iterator keeps its value, or the value it never
\* had.  An exception from a stream buffer is caught by the istream and looks
\* the same.
Repeated(n) ==
  LET last == IF entries = <<>> THEN Nothing ELSE entries[Len(entries)]
  IN  entries \o [k \in 1 .. n - Len(entries) |-> last]

EndOfText ==
  /\ ReadingText /\ Source = <<>> /\ SourceCall \in {"eof", "error"}
  /\ IF pc = "entries"
     THEN entries' = Repeated(size.n) /\ pc' = "loaded" /\ UNCHANGED outcome
     ELSE pc' = "done" /\ outcome' = "matrix_error" /\ UNCHANGED entries
  /\ UNCHANGED <<zlibVars, tarVars, orderVars, file, reorder, header, size, parsed>>

Loaded ==
  [rows |-> size.rows, columns |-> size.columns, format |-> header.format,
   field |-> header.field, entries |-> entries]

\* find_new_order_RCM throws a std::runtime_error that nobody catches.
StartReordering ==
  /\ pc = "loaded"
  /\ IF reorder = "RCM" /\ Orderable(Loaded) /\ Nothing \notin ToSet(entries)
     THEN /\ notTaken' = 0 .. size.rows - 1 /\ notVisited' = 0 .. size.rows - 1
          /\ pc' = "order" /\ UNCHANGED outcome
     ELSE /\ pc' = "done" /\ UNCHANGED <<notTaken, notVisited>>
          /\ outcome' = CASE reorder # "RCM" -> "matrix"
                          [] ~ Orderable(Loaded) /\ reorder = "RCM" -> "runtime_error"
                          [] OTHER -> "undefined"
  /\ matrix' = Loaded
  /\ UNCHANGED <<zlibVars, tarVars, R, Q, new_order>>
  /\ UNCHANGED <<file, reorder, header, size, entries, parsed>>

Reorder ==
  /\ pc = "order" /\ new_order = NoOrder
  /\ TakeLeast \/ TakeFromQueue \/ FinishOrder
  /\ UNCHANGED <<zlibVars, tarVars, readerVars>>

\* notTaken[-1] and what follows from it.
NoNodeLeft ==
  /\ pc = "order" /\ Q = <<>> /\ notTaken # {} /\ Eligible = {}
  /\ pc' = "done" /\ outcome' = "undefined"
  /\ UNCHANGED <<zlibVars, tarVars, orderVars, file, reorder, header, size, entries, parsed>>

Permute ==
  /\ pc = "order" /\ new_order # NoOrder
  /\ matrix' = Permuted(matrix, new_order)
  /\ pc' = "done" /\ outcome' = "matrix"
  /\ UNCHANGED <<zlibVars, tarVars, R, Q, notTaken, notVisited, new_order>>
  /\ UNCHANGED <<file, reorder, header, size, entries, parsed>>

Next ==
  \/ Ask \/ Stream \/ ReadHeader \/ ReadComment \/ ReadSize \/ ReadEntry \/ EndOfText
  \/ StartReordering \/ Reorder \/ NoNodeLeft \/ Permute

\* A single thread, which goes on as long as it can.
Spec == Init /\ [][Next]_vars /\ WF_vars(Next)

-----------------------------------------------------------------------------
\* The texts that the name of the member may stand for, in their order.
Candidates == {k \in DOMAIN file.members : IsPrefix(Wanted, file.members[k].name)}

Sound ==
  /\ file.cut = 0 /\ file.corrupt = 0
  /\ file.format = "tar.gz" => \A k \in Candidates : file.members[k].name = Wanted

TextOfFile ==
  IF file.format # "tar.gz" THEN file.members[1].text
  ELSE file.members[CHOOSE k \in Candidates : \A l \in Candidates : k <= l].text

\* An array has its numbers in the text, and none of them is read.
EntriesOf(text) ==
  IF text[1].format = "array" THEN <<>> ELSE SelectSeq(text, LAMBDA unit : unit.kind = "entry")

Renumbered(s, t) ==
  \E p \in {q \in [1 .. size.rows -> 1 .. size.rows] : \A i, j \in DOMAIN q : q[i] = q[j] => i = j} :
    t = [k \in DOMAIN s |-> [s[k] EXCEPT !.i = p[@], !.j = p[@]]]

(***************************************************************************)
(* What load_matrix returns for a sound file is the matrix in it, entry by *)
(* entry and, for RCM, with its rows and columns renumbered alike: through *)
(* all the buffers of zlibstream.cpp and tarstream.cpp nothing is lost,    *)
(* shown twice or taken from another member.  A matrix that RCM cannot     *)
(* order leaves with runtime_error, and the outcome is undefined only if   *)
(* repeated entries give a row a degree as large as the number of rows     *)
(* (matrix-market-reorder.cpp:76, minNodeIndex).  A missing member is      *)
(* reported, and so is a header that is none.                              *)
(***************************************************************************)
MatrixIsThatOfTheFile ==
  pc = "done" /\ Sound =>
    IF (file.format = "tar.gz" /\ Candidates = {}) \/ TextOfFile[1].kind # "header"
    THEN outcome = "matrix_error"
    ELSE LET inFile == EntriesOf(TextOfFile) IN
         /\ entries = inFile
         /\ outcome = "runtime_error" => reorder = "RCM" /\ ~ Orderable(Loaded)
         /\ outcome = "undefined" => \E i \in Nodes(Loaded) : Degree(Loaded, i) >= size.rows
         /\ outcome = "matrix" =>
              IF reorder = "RCM" THEN Renumbered(inFile, matrix.entries)
              ELSE matrix = Loaded
         /\ outcome \in {"matrix", "runtime_error", "undefined"}

(***************************************************************************)
(* The order that the matrix is permuted with is a reverse Cuthill-McKee   *)
(* order (find_new_order_RCM): read backwards, every node follows the      *)
(* first that has it for a neighbour, in the order of these and then by    *)
(* degree; a node that follows none has the least degree of those still    *)
(* to come, and comes after all the neighbours of those before it.         *)
(***************************************************************************)
OrderIsReverseCuthillMcKee ==
  pc = "order" /\ new_order # NoOrder =>
    LET V == Nodes(matrix)
        place == [i \in V |-> matrix.rows - 1 - new_order[i]]
        before == [i \in V |-> {k \in V : place[k] < place[i]}]
        parents == [i \in V |-> {k \in before[i] : i \in Adjacent(matrix, k)}]
        parent == [i \in V |-> IF parents[i] = {} THEN -1
                                ELSE CHOOSE p \in 0 .. Cardinality(V) - 1 :
                                       \E k \in parents[i] : place[k] = p
                                         /\ \A l \in parents[i] : p <= place[l]]
    IN  /\ {new_order[i] : i \in V} = V
        /\ \A i, k \in V : parent[i] >= 0 /\ parent[k] >= 0 /\ place[i] < place[k] =>
             \/ parent[i] < parent[k]
             \/ parent[i] = parent[k] /\ Degree(matrix, i) <= Degree(matrix, k)
        /\ \A i, k \in V : parent[i] = -1 /\ place[i] < place[k] =>
             /\ Degree(matrix, i) <= Degree(matrix, k)
             /\ \A l \in before[i] : k \notin Adjacent(matrix, l)

(***************************************************************************)
(* load_matrix ends, with a matrix or an error, whatever became of the     *)
(* file: cut short anywhere (the loops of underflow() and find_tar_header  *)
(* notice a read of nothing) or damaged.  Only what follows the compressed *)
(* stream in the file keeps zlibstreambuf::underflow in its loop.          *)
(***************************************************************************)
ReadingEnds == file.trailing = 0 => <>(pc = "done")

(***************************************************************************)
(* readEntries says that it throws unless the text has as many entries as  *)
(* its size ("Expected N entries, got M entries", matrix-market.cpp).      *)
(***************************************************************************)
ShortFileReported == outcome = "matrix" => parsed = size.n
=============================================================================
