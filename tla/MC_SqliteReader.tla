--------------------------- MODULE MC_SqliteReader ---------------------------
(***************************************************************************)
(* 2^w is 16: timestamps go up to 7, times of a filter up to 15.  Two      *)
(* topics, up to three rows (one of no topic, one negative, one too        *)
(* large), every schema version and some broken ones, and one or two       *)
(* commits of another process at any moment, one with a new topic.         *)
(***************************************************************************)
EXTENDS SqliteReader, TLC

NoTimeMC == -1
R(c, t, s) == [topic |-> c, time |-> t, size |-> s]
Names == (1 :> 1) @@ (2 :> 2)
Full == {"messages", "topics"}
D(tables, version, columns, messages) ==
  [tables |-> tables, version |-> version, columns |-> columns, topics |-> Names, rows |-> messages]

MCDatabases ==
  {D(Full \cup {"schema"}, 4, {"qos", "hash"}, messages) :
     messages \in {<<>>, <<R(1, 7, 0), R(1, 0, 1), R(2, 7, 0)>>, <<R(1, 0, 0), R(3, 1, 0), R(1, 2, 1)>>,
               <<R(2, 3, 0), R(1, 3, 0), R(1, 3, 1)>>, <<R(1, 1, 0), R(1, -1, 0)>>,
               <<R(1, 1, 0), R(2, 2, 2), R(1, 3, 0)>>}}
  \cup {D(Full \cup {"schema"}, v, c, <<R(1, 1, 0)>>) : v \in 0..5, c \in SUBSET {"qos", "hash"}}
  \cup {D(t, 0, c, <<R(1, 1, 0)>>) : t \in {Full, {"topics"}}, c \in {{}, {"qos"}}}

MCWritten ==
  {[row |-> R(1, 1, 0), topics |-> Nothing], [row |-> R(2, 7, 1), topics |-> Nothing],
   [row |-> R(4, 0, 0), topics |-> 4 :> 1]}

Times == {-1, 0, 1, 3, 7, 8, 15}
MCFilters ==
  {[topics |-> {}, connection_ids |-> {}, start |-> a, stop |-> b] : a \in Times, b \in Times}
  \cup {[topics |-> {1}, connection_ids |-> {}, start |-> -1, stop |-> 8],
        [topics |-> {1, 9}, connection_ids |-> {1, 2}, start |-> 1, stop |-> -1],
        [topics |-> {}, connection_ids |-> {2}, start |-> 0, stop |-> 7],
        [topics |-> {1}, connection_ids |-> {2}, start |-> -1, stop |-> -1],
        [topics |-> {9}, connection_ids |-> {}, start |-> -1, stop |-> 15]}
=============================================================================
