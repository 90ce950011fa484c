-------------------------- MODULE MC_DirectoryCursor --------------------------
(***************************************************************************)
(* Two shards over three topics.  The first shard numbers its connections  *)
(* the other way round than the directory, and the second has a connection *)
(* of its own, so ids of shards and directory disagree; ties inside and    *)
(* between shards; faults at the first and the last record of a shard.     *)
(* Besides, directories that differ from this one in one field of the      *)
(* metadata, or that have topic 1 in three files which give it, and the    *)
(* metadata, every combination of digests or of definitions.  The window   *)
(* of the times is 0..7, and the metadata lies about nothing or at the     *)
(* borders.                                                                *)
(***************************************************************************)
EXTENDS DirectoryCursor

Word(letters) == [letters |-> letters, capitals |-> FALSE]
Capitals(letters) == [letters |-> letters, capitals |-> TRUE]

a == <<"/", "a">>
b == <<"/", "b">>
c == <<"c">>
T == <<"pkg", "msg", "T">>

Listed(name, type, format, digest) ==
  [name |-> name, type |-> type, serialization_format |-> format, type_description_hash |-> digest]
Had(topic, digest, definition) ==
  [topic |-> topic, type |-> T, serialization_format |-> "cdr", digest |-> digest,
   definition |-> definition]
Plain(topic) == Had(topic, "", NoDefinition)

BaseInfo ==
  [version |-> 5, storage_identifier |-> Word("sqlite3"), compression_mode |-> Capitals("none"),
   compression_format |-> Word(""), message_count |-> 2, starting_time |-> 1, duration |-> 1,
   topics |-> <<Listed(<<"/", "/", "a", "/">>, T, "cdr", ""), Listed(b, <<"pkg", "T">>, "cdr", ""),
                Listed(c, T, "cdr", "")>>]
Base == [info |-> BaseInfo, children |-> <<<<Plain(b), Plain(a)>>, <<Plain(c), Plain(a)>>>>]
Compressed ==
  [Base EXCEPT !.info.compression_mode = Word("message"), !.info.compression_format = Capitals("zstd")]

Formats ==
  {[Base EXCEPT !.info.version = v] : v \in {-1, 0, 9, 10}}
  \cup {[Base EXCEPT !.info.storage_identifier = w] : w \in {Capitals("mcap"), Word("bag")}}
  \cup {[Base EXCEPT !.info.compression_mode = Word(m), !.info.compression_format = Word(f)] :
          m \in {"file", "storage"}, f \in {"zstd", "lz4"}}

Times ==
  {[Base EXCEPT !.info.message_count = n, !.info.starting_time = s, !.info.duration = d] :
     n \in {0, 1}, s \in {0, 1, 3, 7}, d \in {0, 3, 4, 6, 7}}

\* Topics that are not listed, listed twice, or listed otherwise
Lists0 ==
  {[Base EXCEPT !.info.topics = ts] :
     ts \in {<<>>, SubSeq(BaseInfo.topics, 1, 2), <<Listed(a, T, "ros1", "")>> \o BaseInfo.topics,
             <<Listed(a, <<"pkg", "U">>, "cdr", "")>> \o BaseInfo.topics,
             BaseInfo.topics \o <<Listed(a, T, "ros1", "")>>}}
  \cup {[Base EXCEPT !.children = <<>>], [Base EXCEPT !.children[1][1].serialization_format = ""]}

Told(digest, d, e) ==
  [info |-> [BaseInfo EXCEPT !.topics = <<Listed(a, T, "cdr", digest)>>],
   children |-> [s \in 1..3 |-> <<Had(a, d[s], e[s])>>]]
Definition(format, data) == [format |-> format, data |-> data]

Tellings ==
  {Told(m, d, [s \in 1..3 |-> NoDefinition]) : m \in {"", "x"}, d \in [1..3 -> {"", "x", "y"}]}
  \cup {Told("", <<"", "", "">>, e) :
          e \in [1..3 -> {NoDefinition, Definition("msg", "p"), Definition("idl", "p"), Definition("idl", "q")}]}

MCDirectories == {Base, Compressed} \cup Formats \cup Times \cup Lists0 \cup Tellings

MCTimes == {1, 2}
MCShard(lengths) ==
  {bag \in UNION {[1..n -> [time : MCTimes, child : 1..2]] : n \in lengths} : Sorted(bag)}

MCContents(d) ==
  IF d \in {Base, Compressed}
    THEN {<<b1, b2>> : b1 \in MCShard({2}), b2 \in MCShard(0..2)}
    ELSE {[s \in DOMAIN d.children |-> <<[time |-> 1, child |-> Len(d.children[s])]>>]}

Fault(s, i, k) == [shard |-> s, index |-> i, kind |-> k]

MCFaults ==
  {{}, {Fault(2, 0, "record")}, {Fault(1, 2, "record")}, {Fault(2, 1, "record")},
   {Fault(1, 2, "payload"), Fault(2, 1, "payload")}, {Fault(2, 2, "payload")}}

Filter(topics, match, ids, start, stop) ==
  [topics |-> topics, match |-> match, connection_ids |-> ids, start |-> start, stop |-> stop]
Pattern(policy, namespace) == [policy |-> policy, namespace |-> namespace]
Strict == Pattern("Strict", <<>>)

\* Topic x is of no connection.
MCFilters ==
  {Filter({}, Strict, {}, 0, 0), Filter({}, Strict, {1}, 0, 0),
   Filter({<<"/", "a", "/">>, <<"x">>}, Strict, {}, 0, 0),
   Filter({<<"a">>, c}, Pattern("IgnoreLeadingSlash", <<>>), {1, 2}, 2, 0),
   Filter({}, Pattern("ResolveNamespace", <<"n">>), {}, 0, 0),
   Filter({}, Strict, {}, 0, 2)}
=============================================================================
