----------------------------- MODULE MC_McapCursor -----------------------------
(***************************************************************************)
(* Files with up to four messages in chunks, outside of chunks or both,    *)
(* with equal and unordered times and sizes that fill the temporary file   *)
(* to the last byte; records at and above each limit; summaries that are   *)
(* complete, lack statistics, indexes, channels or schemas, or lie.        *)
(* 2^w is 16, the spool may hold 3 entries and 6 bytes.  For the cursor, a *)
(* chunk of three messages of two channels in every order of times, behind *)
(* message indexes and without; and, behind an index, channels             *)
(* the summary leaves out and messages above the limit.  Topics are not    *)
(* normalized in the file, and one of them is relative.                    *)
(***************************************************************************)
EXTENDS McapCursor, TLC

M(c, t, s) == [channel |-> c, time |-> t, size |-> s]
Chunk(raw, length, end, ms) ==
  [op |-> "chunk", length |-> length, raw |-> raw, end |-> end, messages |-> ms]
Full(ms) == Chunk(4, 4, 2, ms)
Direct(m) == [op |-> "message", length |-> m.size, raw |-> 0, end |-> m.time, messages |-> <<m>>]
Plain(op, length) == [op |-> op, length |-> length, raw |-> 0, end |-> 0, messages |-> <<>>]

Data ==
  {<<>>,
   <<Full(<<M(1, 2, 1), M(1, 1, 0)>>)>>,
   <<Full(<<M(1, 2, 1)>>), Full(<<M(2, 1, 2)>>)>>,
   <<Full(<<M(1, 2, 1)>>), Direct(M(2, 1, 1))>>,
   <<Direct(M(1, 1, 0)), Direct(M(2, 1, 0)), Direct(M(1, 0, 0))>>,
   <<Full(<<M(1, 1, 2), M(2, 0, 2)>>)>>,
   <<Full(<<M(1, 1, 2), M(2, 1, 3)>>)>>,
   <<Full(<<M(1, 1, 2), M(2, 1, 2), M(1, 1, 0)>>)>>,
   <<Full(<<M(1, 1, 0), M(1, 1, 0)>>), Full(<<M(1, 1, 0), M(1, 1, 0)>>)>>,
   <<Full(<<M(1, 1, 4)>>)>>, <<Direct(M(1, 1, 4))>>,
   <<Full(<<M(1, 15, 0)>>)>>, <<Direct(M(1, 15, 0))>>, <<Chunk(4, 4, 15, <<M(1, 1, 0)>>)>>,
   <<Chunk(7, 4, 2, <<M(1, 1, 0)>>)>>, <<Chunk(4, 9, 2, <<M(1, 1, 0)>>)>>,
   <<Chunk(6, 8, 2, <<M(3, 1, 0)>>)>>}

Tails ==
  {<<>>, <<Plain("index", 3), Plain("index", 3)>>, <<Plain("index", 3), Plain("index", 4)>>,
   <<Plain("meta", 2)>>, <<Plain("meta", 3)>>, <<Plain("attachment", 4)>>}

Indexes(records) ==
  LET chunks == {n \in DOMAIN records : records[n].op = "chunk"} IN
  {{[chunk |-> n, usable |-> TRUE] : n \in chunks},
   {[chunk |-> n, usable |-> n = 1] : n \in chunks},
   {[chunk |-> n, usable |-> TRUE] : n \in chunks \ {1}}}

Truth(f) == Scanned(f)
Lie(f) == [Scanned(f) EXCEPT !.end = Top, !.count = @ + 1]

MCFiles ==
  LET Bare(records) == [records |-> records, channels |-> (1 :> 1) @@ (2 :> 0), schemas |-> {1}] IN
  UNION {{Bare(d \o t) @@
            [summary |-> [read |-> "ok", statistics |-> s, indexes |-> i, channels |-> c, schemas |-> k]] :
             s \in {NoStatistics, Truth(Bare(d)), Lie(Bare(d))},
             i \in Indexes(d), c \in {(1 :> 1) @@ (2 :> 0), 1 :> 1, Nothing}, k \in {{1}, {}}} :
          d \in Data, t \in {<<>>, <<Plain("index", 3), Plain("index", 3)>>}}
  \cup {Bare(<<Full(<<M(1, 1, 0)>>)>> \o t) @@
            [summary |-> [read |-> r, statistics |-> NoStatistics, indexes |-> {},
                          channels |-> 1 :> 1, schemas |-> {1}]] :
             r \in {"ok", "bad"}, t \in Tails}

\* Every order of three messages of channels 1 and 2.
Small == {M(c, t, t % 2) : c \in {1, 2}, t \in 0..2}
Orders ==
  {LET f == [records |-> <<Full(ms)>>, channels |-> (1 :> 1) @@ (2 :> 0), schemas |-> {1}] IN
   f @@ [summary |-> [read |-> "ok", statistics |-> Truth(f), indexes |-> {[chunk |-> 1, usable |-> u]},
                      channels |-> f.channels, schemas |-> {1}]] :
     ms \in [1..3 -> Small], u \in BOOLEAN}

AllFiles == MCFiles \cup Orders

MCTopic == (1 :> <<"/", "a", "/", "/", "b", "/">>) @@ (2 :> <<"b">>) @@ (3 :> <<"b">>)
NoTimeMC == -1

Asking(topics, policy, namespace, ids, start, stop) ==
  [topics |-> topics, connection_ids |-> ids, start |-> start, stop |-> stop,
   match |-> [policy |-> policy, namespace |-> namespace]]
ab == <<"/", "a", "/", "b">>
MCFilters ==
  {Asking({}, "Strict", <<>>, {}, -1, -1),
   Asking({ab, <<"c">>}, "Strict", <<>>, {}, 1, -1),
   Asking({}, "Strict", <<>>, {2}, -1, 2),
   Asking({<<"a", "/", "b">>, <<"/", "b">>}, "IgnoreLeadingSlash", <<>>, {1}, 1, 2),
   Asking({<<"/", "b", "/">>}, "IgnoreLeadingSlash", <<>>, {}, -1, -1),
   Asking({<<"b">>}, "ResolveNamespace", <<"/", "a", "/">>, {}, -1, -1),
   Asking({<<"b">>}, "ResolveNamespace", <<"a">>, {}, -1, -1),
   Asking({}, "Strict", <<>>, {}, 2, 1)}
=============================================================================
