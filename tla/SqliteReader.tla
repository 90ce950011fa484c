---------------------------- MODULE SqliteReader ----------------------------
(***************************************************************************)
(* SqliteBackend of src/sqlite3.cpp and a cursor of it.  open() reads the  *)
(* database with one statement after the other, not in one transaction,    *)
(* while another process may be writing (a recorder; sqlite3_busy_timeout  *)
(* is there for it).  A cursor turns the filter into a query; the          *)
(* query sees the database as it is when it is stepped first.              *)
(*                                                                         *)
(* SQLite is external: a query returns the rows it asks for, in the order  *)
(* it asks for, compares signed integers, and starts again when it is      *)
(* stepped after its end.  Modulus is 2^64 in the code.                    *)
(***************************************************************************)
EXTENDS Integers, Sequences, FiniteSets, FiniteSetsExt

CONSTANTS
  Databases,         \* what the file may hold at first: see DatabaseAssumption
  Written,           \* rows and topics the other process may add
  MaxWrites,         \* bound on its commits
  Filters,           \* possible filters [topics, connection_ids, start, stop];
                     \* an empty set asks for everything
  NoTime,            \* start or stop that is not set
  Modulus,           \* 2^w
  MaxMessageBytes    \* max_message_bytes

Half == Modulus \div 2
MaxInt == Half - 1   \* numeric_limits<sqlite3_int64>::max()

\* A row of table messages: times are signed in the database.
Rows == [topic : Int, time : -Half..MaxInt, size : Nat]

\* rows: the messages in the order of their ids; topics: the name of each topic id;
\* version: the row of table schema, columns: the optional columns of table topics.
ASSUME DatabaseAssumption ==
  /\ \A d \in Databases :
       /\ DOMAIN d = {"tables", "version", "columns", "topics", "rows"}
       /\ d.tables \subseteq {"messages", "topics", "schema"} /\ d.columns \subseteq {"qos", "hash"}
       /\ d.rows \in Seq(Rows)
  /\ \A w \in Written : w.row \in Rows
ASSUME FiltersAssumption ==
  \A f \in Filters : {f.start, f.stop} \subseteq {NoTime} \cup 0..(Modulus - 1)
ASSUME BoundsAssumption ==
  /\ Half \in Nat \ {0} /\ Modulus = 2 * Half
  /\ NoTime \notin 0..(Modulus - 1) /\ MaxWrites \in Nat

VARIABLES
  db,              \* the database file
  writes,
  pc,              \* "closed", the next statement of open(), or "open"
  schema,          \* schema_
  connections,     \* id -> [topic, count]
  metadata,        \* [messages, start, end]
  error,           \* how the opening ended: "none", "closed", or what open() threw:
                   \* "io", "format" or "query"
  filter, status,  \* of the cursor: "new", "open", "ended" or "failed"
  query,           \* [ids, start, stop], or NoQuery when statement_ is null
  stepped,         \* the statement is running
  rows,            \* its rows to come
  snapshot,        \* what the statement reads, and the connections, once taken (history)
  out              \* messages handed out (history)

file == <<db, writes>>
backend == <<pc, schema, connections, metadata, error>>
cursor == <<filter, status, query, stepped, rows, snapshot, out>>
vars == <<file, backend, cursor>>

NoQuery == [ids |-> {}, start |-> NoTime, stop |-> NoTime]
Nothing == [id \in {} |-> 0]
NoMetadata == [messages |-> 0, start |-> 0, end |-> 0]
NoSnapshot == [taken |-> FALSE, rows |-> <<>>, connections |-> Nothing]

\* An unsigned integer bound as a signed one.
Signed(v) == IF v > MaxInt THEN v - Modulus ELSE v

-----------------------------------------------------------------------------
Init ==
  /\ db \in Databases /\ writes = 0
  /\ pc = "closed" /\ schema = 0 /\ connections = Nothing /\ metadata = NoMetadata
  /\ error = "none"
  /\ filter \in Filters /\ status = "new"
  /\ query = NoQuery /\ stepped = FALSE /\ rows = <<>> /\ snapshot = NoSnapshot
  /\ out = <<>>

\* The other process commits (external).
Write ==
  /\ writes < MaxWrites
  /\ "messages" \in db.tables /\ "topics" \in db.tables
  /\ \E w \in Written :
       db' = [db EXCEPT !.rows = Append(@, w.row),
                        !.topics = [id \in DOMAIN @ \cup DOMAIN w.topics |->
                                      IF id \in DOMAIN @ THEN @[id] ELSE w.topics[id]]]
  /\ writes' = writes + 1
  /\ UNCHANGED <<backend, cursor>>

\* close(), as the handler of open() calls it; schema_ and metadata_ stay.
CloseTables ==
  /\ pc' = "closed"
  /\ connections' = Nothing

Throw(kind) ==
  /\ CloseTables
  /\ error' = kind
  /\ UNCHANGED <<file, cursor, schema, metadata>>

BeginOpen ==
  /\ pc = "closed" /\ error = "none"
  /\ pc' = "tables"
  /\ connections' = Nothing /\ metadata' = NoMetadata
  /\ UNCHANGED <<file, cursor, schema, error>>

\* close(), after the caller has destroyed the cursor.
Close ==
  /\ pc = "open" /\ status \in {"new", "ended", "failed"}
  /\ CloseTables
  /\ error' = "closed"
  /\ UNCHANGED <<file, cursor, schema, metadata>>

\* Any statement may fail: no such file, a lock kept for longer than the busy timeout.
StatementFails ==
  /\ pc \notin {"closed", "open"}
  /\ Throw("io")

\* The version a database without table schema gets.
Inferred_Oldest == 1
Inferred == IF "qos" \in db.columns THEN 2 ELSE 1

DetectSchema ==
  /\ pc = "tables"
  /\ IF ~{"messages", "topics"} \subseteq db.tables \/ ("schema" \in db.tables /\ db.version < 1)
     THEN Throw("format")
     ELSE /\ schema' = IF "schema" \in db.tables THEN db.version ELSE Inferred
          /\ pc' = "connections"
          /\ UNCHANGED <<file, cursor, connections, metadata, error>>

\* The columns of table topics the query of load_connections names.
Needed == (IF schema >= 2 THEN {"qos"} ELSE {}) \cup (IF schema >= 4 THEN {"hash"} ELSE {})

\* count(messages.id) over the outer join: 0 for a topic without messages.
Counted_Rows(id) == Max({1, Cardinality({n \in DOMAIN db.rows : db.rows[n].topic = id})})
Counted(id) == Cardinality({n \in DOMAIN db.rows : db.rows[n].topic = id})

LoadConnections ==
  /\ pc = "connections"
  /\ IF ~Needed \subseteq db.columns THEN Throw("query")
     ELSE /\ connections' = [id \in DOMAIN db.topics |-> [topic |-> db.topics[id], count |-> Counted(id)]]
          /\ pc' = "metadata"
          /\ UNCHANGED <<file, cursor, schema, metadata, error>>

\* The end is exclusive; times are not negative.
LoadMetadata_InclusiveEnd ==
  /\ pc = "metadata"
  /\ LET times == {db.rows[n].time : n \in DOMAIN db.rows} IN
     IF times # {} /\ Min(times) < 0 THEN Throw("format")
     ELSE /\ metadata' = IF times = {} THEN NoMetadata
                         ELSE [messages |-> Len(db.rows), start |-> Min(times), end |-> Max(times)]
          /\ pc' = "open"
          /\ UNCHANGED <<file, cursor, schema, connections, error>>

LoadMetadata_Negative ==
  /\ pc = "metadata"
  /\ LET times == {db.rows[n].time : n \in DOMAIN db.rows} IN
     metadata' = IF times = {} THEN NoMetadata
                 ELSE [messages |-> Len(db.rows), start |-> Min(times), end |-> Max(times) + 1]
  /\ pc' = "open"
  /\ UNCHANGED <<file, cursor, schema, connections, error>>

LoadMetadata ==
  /\ pc = "metadata"
  /\ LET times == {db.rows[n].time : n \in DOMAIN db.rows} IN
     IF times # {} /\ Min(times) < 0 THEN Throw("format")
     ELSE /\ metadata' = IF times = {} THEN NoMetadata
                         ELSE [messages |-> Len(db.rows), start |-> Min(times), end |-> Max(times) + 1]
          /\ pc' = "open"
          /\ UNCHANGED <<file, cursor, schema, connections, error>>

-----------------------------------------------------------------------------
HasTopic(id, table) ==
  /\ filter.topics = {} \/ table[id].topic \in filter.topics
  /\ filter.connection_ids = {} \/ id \in filter.connection_ids

FiltersTopics == filter.topics # {} \/ filter.connection_ids # {}
TopicIds == {id \in DOMAIN connections : HasTopic(id, connections)}

\* No row can match, and no statement is made.
MatchesNothing_NoTop ==
  \/ filter.start # NoTime /\ filter.stop # NoTime /\ filter.start >= filter.stop
  \/ FiltersTopics /\ TopicIds = {}

MatchesNothing_Stop ==
  \/ filter.stop # NoTime /\ filter.stop > MaxInt
  \/ filter.start # NoTime /\ filter.start > MaxInt
  \/ filter.start # NoTime /\ filter.stop # NoTime /\ filter.start >= filter.stop
  \/ FiltersTopics /\ TopicIds = {}

MatchesNothing ==
  \/ filter.start # NoTime /\ filter.start > MaxInt
  \/ filter.start # NoTime /\ filter.stop # NoTime /\ filter.start >= filter.stop
  \/ FiltersTopics /\ TopicIds = {}

\* A stop that no timestamp reaches is not part of the query.
BindStop_Always == filter.stop # NoTime
BindStop == filter.stop # NoTime /\ filter.stop <= MaxInt

Query ==
  [ids |-> IF FiltersTopics THEN TopicIds ELSE {},
   start |-> IF filter.start = NoTime THEN -Half ELSE Signed(filter.start),
   stop |-> IF BindStop THEN Signed(filter.stop) ELSE Half]

\* The constructor.
StartCursor ==
  /\ pc = "open" /\ status = "new"
  /\ status' = "open"
  /\ query' = IF MatchesNothing THEN NoQuery ELSE Query
  /\ UNCHANGED <<file, backend, filter, stepped, rows, snapshot, out>>

StartFails ==
  /\ pc = "open" /\ status = "new" /\ ~MatchesNothing
  /\ status' = "failed"
  /\ UNCHANGED <<file, backend, filter, query, stepped, rows, snapshot, out>>

\* The rows of the query: messages joined with topics (external).
Result(q, d) ==
  LET chosen == {n \in DOMAIN d.rows :
                   /\ d.rows[n].topic \in DOMAIN d.topics
                   /\ q.ids = {} \/ d.rows[n].topic \in q.ids
                   /\ q.start <= d.rows[n].time /\ d.rows[n].time < q.stop}
      Before(m, n) == d.rows[m].time < d.rows[n].time \/ (d.rows[m].time = d.rows[n].time /\ m < n)
  IN CHOOSE s \in [1..Cardinality(chosen) -> chosen] :
       \A i, j \in DOMAIN s : i < j => Before(s[i], s[j])

Callable == pc = "open" /\ status \in {"open", "ended"}

NextOfNothing ==
  /\ Callable /\ query = NoQuery
  /\ status' = "ended"
  /\ UNCHANGED <<file, backend, filter, query, stepped, rows, snapshot, out>>

\* next() steps the statement for the first time: it reads what is committed now.
FirstStep ==
  /\ Callable /\ query # NoQuery /\ ~stepped
  /\ stepped' = TRUE
  /\ rows' = Result(query, db)
  /\ snapshot' = [taken |-> TRUE, rows |-> db.rows, connections |-> connections]
  /\ UNCHANGED <<file, backend, filter, status, query, out>>

Row(n) == Callable /\ query # NoQuery /\ stepped /\ rows # <<>> /\ n = Head(rows)

Acceptable_AnyTopic(row) == row.time >= 0 /\ row.size <= MaxMessageBytes
Acceptable(row) ==
  /\ row.time >= 0
  /\ row.topic \in DOMAIN connections
  /\ row.size <= MaxMessageBytes

Message(n) ==
  [time |-> snapshot.rows[n].time, source |-> 0, index |-> n, connection |-> snapshot.rows[n].topic]

\* next() hands out a row.
ReadRow ==
  \E n \in DOMAIN snapshot.rows :
    /\ Row(n)
    /\ Acceptable(snapshot.rows[n])
    /\ rows' = Tail(rows)
    /\ out' = Append(out, Message(n))
    /\ UNCHANGED <<file, backend, filter, status, query, stepped, snapshot>>

RowFails ==
  \E n \in DOMAIN snapshot.rows :
    /\ Row(n)
    /\ ~Acceptable(snapshot.rows[n])
    /\ rows' = Tail(rows)
    /\ status' = "failed"
    /\ UNCHANGED <<file, backend, filter, query, stepped, snapshot, out>>

\* SQLITE_BUSY, or the file cannot be read.
StepFails ==
  /\ Callable /\ query # NoQuery
  /\ status' = "failed"
  /\ UNCHANGED <<file, backend, filter, query, stepped, rows, snapshot, out>>

\* The statement stays; SQLite runs it again at the next step.
EndOfRows_KeepStatement ==
  /\ Callable /\ query # NoQuery /\ stepped /\ rows = <<>>
  /\ stepped' = FALSE
  /\ status' = "ended"
  /\ UNCHANGED <<file, backend, filter, query, rows, snapshot, out>>

\* SQLITE_DONE: the statement is finalized.
EndOfRows ==
  /\ Callable /\ query # NoQuery /\ stepped /\ rows = <<>>
  /\ query' = NoQuery
  /\ stepped' = FALSE
  /\ status' = "ended"
  /\ UNCHANGED <<file, backend, filter, rows, snapshot, out>>

\* A cursor that threw, or a backend that could not be opened, is destroyed.
Destroyed ==
  /\ status = "failed" \/ (pc = "closed" /\ error # "none")
  /\ UNCHANGED vars

Opening == BeginOpen \/ DetectSchema \/ LoadConnections \/ LoadMetadata

Reading ==
  StartCursor \/ StartFails \/ NextOfNothing \/ FirstStep \/ ReadRow \/ RowFails \/ EndOfRows

Next == Write \/ Opening \/ StatementFails \/ Reading \/ StepFails \/ Close \/ Destroyed

Spec == Init /\ [][Next]_vars

-----------------------------------------------------------------------------
\* A database whose columns are those of its version is opened: the version found, or
\* inferred where there is no table schema, never asks for a column that is not there,
\* and no optional column that is there goes unread (sqlite3.cpp:165-180, 204-207).
WellFormed(d) ==
  /\ {"messages", "topics"} \subseteq d.tables
  /\ IF "schema" \in d.tables
     THEN /\ d.version \in 1..4
          /\ d.columns = (IF d.version >= 2 THEN {"qos"} ELSE {})
                           \cup (IF d.version >= 4 THEN {"hash"} ELSE {})
     ELSE d.columns \subseteq {"qos"}
OpensEveryVersion ==
  WellFormed(db) =>
    /\ error # "query"
    /\ pc = "open" => Needed = db.columns

\* The per-topic counts, taken before the total and outside of a transaction, never
\* exceed what the total counts, whatever is written in between; a topic without
\* messages counts none (sqlite3.cpp:124-125, 204, 243).
CountsBounded ==
  pc = "open" =>
    \A id \in DOMAIN connections :
      connections[id].count <=
        Cardinality({n \in 1..metadata.messages : db.rows[n].topic = id})

\* The messages counted at open() lie in the span [start, end) the metadata announces,
\* whatever has been written since, and the span is one of unsigned times (sqlite3.cpp:252-264).
SpanHolds ==
  pc = "open" =>
    /\ {metadata.start, metadata.end} \subseteq 0..(Modulus - 1)
    /\ \A n \in 1..metadata.messages :
      metadata.start <= db.rows[n].time /\ db.rows[n].time < metadata.end

\* What open() makes of a database another process writes to: it opens every well-formed
\* version, its counts agree with its total, and the span it announces is right.
MetadataSound == OpensEveryVersion /\ CountsBounded /\ SpanHolds

\* What the filter accepts in the database the statement reads, in unsigned times; the
\* topics are those open() has found.
Wanted ==
  {Message(n) : n \in {k \in DOMAIN snapshot.rows :
     LET row == snapshot.rows[k] IN
     /\ row.topic \in DOMAIN snapshot.connections /\ HasTopic(row.topic, snapshot.connections)
     /\ filter.start = NoTime \/ row.time >= filter.start
     /\ filter.stop = NoTime \/ row.time < filter.stop}}

\* The stream begins when the statement is stepped first; without a statement it is
\* empty.
Started == snapshot.taken
StreamStatus ==
  IF status = "open" /\ query # NoQuery /\ ~Started THEN "new" ELSE status

Stream == INSTANCE MessageStream WITH
  wanted <- IF Started THEN Wanted ELSE {},
  status <- StreamStatus

\* The cursor is a MessageStream over one moment of the database: writers neither add
\* to it nor take from it once it has begun, the query asks for exactly [start, stop)
\* although SQLite compares signed integers and the filter is unsigned, and after
\* false comes false although SQLite would run the query again (sqlite3.cpp:289-341).
MergesStably == Stream!Spec

\* An empty answer is right: a cursor that ends without having run a statement is one
\* whose filter no message of the database could match (sqlite3.cpp:290-299).
EmptyIsRight ==
  (pc = "open" /\ status = "ended" /\ ~Started) =>
    \A n \in DOMAIN db.rows :
      LET row == db.rows[n] IN
      ~ /\ row.topic \in DOMAIN connections /\ HasTopic(row.topic, connections)
        /\ filter.start = NoTime \/ row.time >= filter.start
        /\ filter.stop = NoTime \/ row.time < filter.stop

=============================================================================
