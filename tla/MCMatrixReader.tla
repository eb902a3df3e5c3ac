--------------------------- MODULE MCMatrixReader ---------------------------
(***************************************************************************)
(* Plain files with the graphs of a few nodes, for the order; and small    *)
(* matrices in archives, whole and damaged, for the streams.               *)
(***************************************************************************)
EXTENDS MatrixReader

E(i, j, a) == [kind |-> "entry", i |-> i, j |-> j, a |-> a]
Text(format, field, rows, columns, es) ==
  <<[kind |-> "header", format |-> format, field |-> field], [kind |-> "comment"],
    [kind |-> "size", rows |-> rows, columns |-> columns,
     n |-> IF format = "array" THEN 99 ELSE Len(es)]>> \o es
Real(n, es) == Text("coordinate", "real", n, n, es)

File(format, members) ==
  [format |-> format, members |-> members, ratio |-> 3, cut |-> 0, corrupt |-> 0, trailing |-> 0]
Member(name, text) == [name |-> name, text |-> text]
Plain(text) == File("mtx", <<Member(Wanted, text)>>)

\* Entries of a set of pairs, row by row.
RowMajor(n, pairs) ==
  SelectSeq([k \in 1 .. n * n |-> E(((k - 1) \div n) + 1, ((k - 1) % n) + 1, k)],
            LAMBDA e : <<e.i, e.j>> \in pairs)

Directed == {Plain(Real(3, RowMajor(3, p \union {<<2, 2>>}))) :
               p \in SUBSET {<<1, 2>>, <<1, 3>>, <<2, 1>>, <<2, 3>>, <<3, 1>>, <<3, 2>>}}
Edges(n) == {e \in (1 .. n) \X (1 .. n) : e[1] < e[2]}
Undirected == {Plain(Real(5, RowMajor(5, p \union {<<e[2], e[1]>> : e \in p}))) : p \in SUBSET Edges(5)}
Trees == {Plain(Real(5, RowMajor(5, UNION {{<<k, f[k]>>, <<f[k], k>>} : k \in 2 .. 5}))) :
            f \in {g \in [2 .. 5 -> 1 .. 4] : \A k \in 2 .. 5 : g[k] < k}}
Repeating == Plain(Real(2, <<E(1, 2, 1), E(2, 1, 2), E(1, 2, 3), E(2, 1, 4)>>))
Others == {Plain(Text("coordinate", "integer", 2, 2, <<E(1, 1, 1)>>)),
           Plain(Text("coordinate", "real", 2, 3, <<E(1, 3, 1)>>)),
           Plain(Text("array", "real", 2, 2, <<E(0, 0, 1)>>)),
           Plain(Tail(Real(2, <<>>))), Plain(Real(2, <<>>))}

Small == Real(2, <<E(2, 1, 1), E(1, 2, 2), E(2, 2, 3)>>)
Other == Real(2, <<E(1, 1, 7), E(1, 2, 8)>>)
Directory == Member(<<"test">>, <<>>)
RightHandSide == Member(<<"test", "_b", ".mtx">>, Other)
TheMatrix == Member(Wanted, Small)

Archives ==
  {File("tar.gz", ms) : ms \in
     {<<TheMatrix>>, <<Directory, TheMatrix>>, <<Directory, RightHandSide, TheMatrix>>,
      <<TheMatrix, RightHandSide>>, <<RightHandSide>>,
      <<Member(<<"test", ".mtx", ".bak">>, Other), TheMatrix>>}}
Gzip == File("gz", <<TheMatrix>>)

Damaged(f) ==
  {[f EXCEPT !.cut = c] : c \in 1 .. Len(Whole(f)) - 1}
    \union {[f EXCEPT !.corrupt = k] : k \in DOMAIN Whole(f)}
Trailing(f) == {[f EXCEPT !.trailing = n] : n \in 1 .. 2}

Ratios(f) == {[f EXCEPT !.ratio = r] : r \in {1, 3, 5}}
Compressions == UNION {Ratios(f) : f \in Archives \union {Gzip}}

MCFiles ==
  Directed \union Undirected \union Trees \union {Repeating} \union Others
    \union Compressions
    \union UNION {Damaged(f) \union Trailing(f) :
                    f \in {Gzip, File("tar.gz", <<Directory, RightHandSide, TheMatrix>>), Plain(Small)}}
=============================================================================
