----------------------------- MODULE ZlibStream -----------------------------
(***************************************************************************)
(* zlibstream.cpp: a stream buffer that decompresses what another one      *)
(* reads from a file.  A byte of the file stands for the units of text it  *)
(* decodes to, none or several: [out |-> units, kind |-> k], where k is    *)
(* "data", "trailer" for the end of the compressed stream, or "corrupt".   *)
(***************************************************************************)
EXTENDS Integers, Sequences, SequencesExt

CONSTANT BufSize      \* of in_buf and out_buf

ASSUME BufSizeAssumption == BufSize \in Nat \ {0}

VARIABLES
  bytes,        \* the file
  position,     \* number of bytes read from it
  in_buf,       \* the bytes from in_buf_it to in_buf_end
  held,         \* units that inflate has decoded and not yet written
  ended,        \* inflate has seen the end of the stream
  get,          \* the units from gptr to egptr
  call          \* "none", "underflow", "eof" or "error": of the caller's call

zlibVars == <<bytes, position, in_buf, held, ended, get, call>>

ZlibInit ==
  /\ position = 0 /\ in_buf = <<>> /\ held = <<>> /\ ended = FALSE
  /\ get = <<>> /\ call = "none"

First(s, n) == SubSeq(s, 1, IF n < Len(s) THEN n ELSE Len(s))

\* sbuf_->sgetn; nothing left: the loop is left with an empty get area.
ReadInput ==
  /\ call = "underflow" /\ in_buf = <<>>
  /\ LET read == First(SubSeq(bytes, position + 1, Len(bytes)), BufSize) IN
     /\ in_buf' = read
     /\ position' = position + Len(read)
     /\ call' = IF read = <<>> THEN "eof" ELSE call
  /\ UNCHANGED <<bytes, held, ended, get>>

\* inflate() with k of the bytes of in_buf: it stops when it has more units
\* than fit into out_buf, at the end of the stream and at an error.
Decoded ==
  LET d[k \in 0 .. Len(in_buf)] ==
        IF k = 0 THEN [used |-> 0, out |-> held, stop |-> ended, bad |-> FALSE]
        ELSE LET before == d[k - 1]
                 byte == in_buf[k]
             IN  IF before.stop \/ Len(before.out) > BufSize THEN before
                 ELSE [used |-> k, out |-> before.out \o byte.out,
                       stop |-> byte.kind # "data", bad |-> byte.kind = "corrupt"]
  IN  d[Len(in_buf)]

\* One round of the loop of underflow(), which ends with any output.  After
\* the end of the stream inflate returns Z_STREAM_END and takes no input.
Inflate ==
  /\ call = "underflow" /\ in_buf # <<>> /\ ~ Decoded.bad
  /\ in_buf' = SubSeq(in_buf, Decoded.used + 1, Len(in_buf))
  /\ get' = First(Decoded.out, BufSize)
  /\ held' = SubSeq(Decoded.out, BufSize + 1, Len(Decoded.out))
  /\ ended' = Decoded.stop
  /\ call' = IF Decoded.out = <<>> THEN call ELSE "none"
  /\ UNCHANGED <<bytes, position>>

\* A zlibstream_error leaves underflow(), and the output of the round is lost.
InflateFails ==
  /\ call = "underflow" /\ in_buf # <<>> /\ Decoded.bad
  /\ call' = "error"
  /\ UNCHANGED <<bytes, position, in_buf, held, ended, get>>

\* A file that is not compressed: std::filebuf.
FileUnderflow ==
  /\ call = "underflow"
  /\ get' = FlattenSeq([k \in 1 .. Len(bytes) - position |-> bytes[position + k].out])
  /\ position' = Len(bytes)
  /\ call' = IF position = Len(bytes) THEN "eof" ELSE "none"
  /\ UNCHANGED <<bytes, in_buf, held, ended>>

ZlibUnderflow == ReadInput \/ Inflate \/ InflateFails

\* The caller finds the get area empty.
CallUnderflow == get = <<>> /\ call = "none" /\ call' = "underflow"
=============================================================================
