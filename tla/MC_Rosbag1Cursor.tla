--------------------------- MODULE MC_Rosbag1Cursor ---------------------------
(***************************************************************************)
(* For open(): bags of up to two chunks and two connections.  What the     *)
(* CHUNK_INFO records announce and what is found behind the chunks are     *)
(* chosen independently: truthful bags, bags that announce more or less    *)
(* than they have, for one connection, in one chunk or in total, and       *)
(* announcements above each limit.  MaxIndexBytes is just enough for two   *)
(* chunks and three entries.                                               *)
(*                                                                         *)
(* For the cursor: three connections, two of them on one topic, and three  *)
(* messages spread over two chunks in every way, with ties; the first      *)
(* message of a chunk is indexed at the CONNECTION record in front of it.  *)
(* One fault at most: in an index entry, in the record it points to, or in *)
(* a chunk.                                                                *)
(***************************************************************************)
EXTENDS Rosbag1Cursor, SequencesExt

Conn(i, l) == [id |-> i, latching |-> l]
MCConns ==
  {<<Conn(1, "none"), Conn(2, "number")>>, <<Conn(1, "none"), Conn(1, "none")>>,
   <<Conn(2, "none"), Conn(1, "text")>>}

Count(i, n) == [id |-> i, messages |-> n]
MCCounts ==
  {<<>>, <<Count(1, 1)>>, <<Count(1, 0)>>, <<Count(1, 2), Count(2, 1)>>, <<Count(2, 3)>>,
   <<Count(1, 1), Count(1, 1)>>, <<Count(3, 1)>>, <<Count(1, 5)>>,
   <<Count(1, 3), Count(2, 2)>>,
   <<Count(1, 0), Count(2, 0), Count(1, 1)>>}

MCInfos == {[start |-> 1, end |-> e, counts |-> c] : e \in {1, 2}, c \in MCCounts}

\* IDXDATA records by their times.
Data(i, t) == [id |-> i, times |-> t]
MCData ==
  {<<>>, <<Data(1, <<1>>)>>, <<Data(1, <<>>)>>, <<Data(1, <<2, 1>>), Data(2, <<1>>)>>,
   <<Data(2, <<1>>), Data(1, <<1, 1>>)>>, <<Data(2, <<2, 1, 2>>)>>,
   <<Data(1, <<2>>), Data(1, <<1>>)>>, <<Data(3, <<1>>)>>}

Record(op, c, t, size) == [op |-> op, conn |-> c, time |-> t, size |-> size]
Raw(records) == [compression |-> "none", compressed_size |-> 4, uncompressed_size |-> 4,
                 decoded |-> 4, records |-> records]

\* The chunk behind which these IDXDATA records are right, and their entries.
ChunkFor(data) ==
  Raw(FlattenSeq([j \in DOMAIN data |->
        [n \in DOMAIN data[j].times |-> Record(2, data[j].id, data[j].times[n], 1)]]))
Indexed(data) ==
  [j \in DOMAIN data |->
     LET before == FoldSet(LAMBDA k, sum : sum + Len(data[k].times), 0, 1..(j - 1)) IN
     [id |-> data[j].id,
      entries |-> [n \in DOMAIN data[j].times |-> [time |-> data[j].times[n], offset |-> before + n]]]]

BagOf(conns, infos, data) ==
  [conns |-> conns, infos |-> infos, chunks |-> [k \in DOMAIN data |-> ChunkFor(data[k])],
   data |-> [k \in DOMAIN data |-> Indexed(data[k])]]

OpenBags ==
  UNION {{BagOf(c, i, d) : c \in MCConns, i \in [1..n -> MCInfos], d \in [1..n -> MCData]} : n \in 0..1}
  \cup {BagOf(<<Conn(1, "none"), Conn(2, "number")>>, i, d) :
          i \in [1..2 -> {x \in MCInfos : x.end = 2 /\ Len(x.counts) < 3}],
          d \in [1..2 -> MCData \ {<<Data(3, <<1>>)>>}]}

-----------------------------------------------------------------------------
\* A written message: its connection, time and chunk.
Written == [conn : 1..3, time : 1..2, chunk : 1..2]

Scripts == {s \in [1..3 -> Written] : \A i, j \in 1..3 : i < j => s[i].time <= s[j].time}

\* The record of message n of a script, with the fault if it is the one that has it.
Stored(w, n, fault) ==
  CASE fault = <<"op", n>>   -> Record(5, w.conn, w.time, 1)
    [] fault = <<"time", n>> -> Record(2, w.conn, w.time + 1, 1)
    [] fault = <<"conn", n>> -> Record(2, (w.conn % 3) + 1, w.time, 1)
    [] fault = <<"size", n>> -> Record(2, w.conn, w.time, 2)
    [] OTHER                 -> Record(2, w.conn, w.time, 1)

Numbers(s, P(_)) == SetToSortSeq({n \in DOMAIN s : P(n)}, <)

ScriptChunk(s, k, fault) ==
  LET here == Numbers(s, LAMBDA n : s[n].chunk = k)
      chunk == Raw(<<Record(7, 1, 0, 1)>> \o [i \in DOMAIN here |-> Stored(s[here[i]], here[i], fault)]) IN
  CASE fault = <<"codec", k>> -> [chunk EXCEPT !.compression = "lz4", !.decoded = 0]
    [] fault = <<"short", k>> -> [chunk EXCEPT !.compression = "bz2", !.decoded = 3]
    [] fault = <<"limit", k>> -> [chunk EXCEPT !.compression = "lz4", !.uncompressed_size = 9, !.decoded = 9]
    [] fault = <<"raw", k>>   -> [chunk EXCEPT !.compressed_size = 3]
    [] fault = <<"other", k>> -> [chunk EXCEPT !.compression = "other"]
    [] OTHER                  -> [chunk EXCEPT !.compression = <<"none", "lz4">>[k]]

\* Record n + 1 of a chunk is its message number n; the first is indexed at the record
\* before it, and the fault "end" indexes a message past its chunk.
Offset(s, n, fault) ==
  LET here == Numbers(s, LAMBDA m : s[m].chunk = s[n].chunk)
      k == CHOOSE k \in DOMAIN here : here[k] = n IN
  IF fault = <<"end", n>> THEN Len(here) + 2 ELSE IF k = 1 THEN 1 ELSE k + 1

ConnsIn(s, k) == SetToSortSeq({s[n].conn : n \in {m \in DOMAIN s : s[m].chunk = k}}, <)
OfConn(s, k, c) == Numbers(s, LAMBDA n : s[n].chunk = k /\ s[n].conn = c)

ScriptBag(s, fault) ==
  [conns |-> [c \in 1..3 |-> Conn(c, "none")],
   infos |-> [k \in 1..2 |->
     [start |-> 1, end |-> 2,
      counts |-> [j \in DOMAIN ConnsIn(s, k) |->
                    Count(ConnsIn(s, k)[j], Len(OfConn(s, k, ConnsIn(s, k)[j])))]]],
   chunks |-> [k \in 1..2 |-> ScriptChunk(s, k, fault)],
   data |-> [k \in 1..2 |->
     [j \in DOMAIN ConnsIn(s, k) |->
        LET c == ConnsIn(s, k)[j]
            here == OfConn(s, k, c) IN
        [id |-> c, entries |-> [i \in DOMAIN here |->
                     [time |-> s[here[i]].time, offset |-> Offset(s, here[i], fault)]]]]]]

MCFaults ==
  {<<"op", 2>>, <<"time", 3>>, <<"conn", 1>>, <<"size", 2>>, <<"end", 3>>, <<"codec", 2>>,
   <<"short", 1>>, <<"limit", 2>>, <<"raw", 1>>, <<"other", 2>>}

MCBags ==
  OpenBags
  \cup {ScriptBag(s, <<"none", 0>>) : s \in Scripts}
  \cup {ScriptBag(s, f) :
          s \in {t \in Scripts : t[1].time = 1 /\ t[3].time = 2 /\ t[2].conn # 3 /\ t[1].chunk = 1},
          f \in MCFaults}

MCTopic == <<1, 2, 1>>

\* Topic 9 is of no connection.
MCFilters ==
  {[topics |-> {}, connection_ids |-> {}, start |-> 0, stop |-> 0],
   [topics |-> {1, 9}, connection_ids |-> {}, start |-> 0, stop |-> 0],
   [topics |-> {}, connection_ids |-> {2, 3}, start |-> 2, stop |-> 0],
   [topics |-> {1}, connection_ids |-> {1, 2}, start |-> 0, stop |-> 2]}
=============================================================================
