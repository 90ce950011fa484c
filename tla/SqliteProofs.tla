----------------------------- MODULE SqliteProofs -----------------------------
(***************************************************************************)
(* Proofs about SqliteReader for any databases, writers, filters and width *)
(* of integers: what open() announces is true of the database whatever is  *)
(* committed in between, and the cursor is a MessageStream over the moment *)
(* at which its statement is stepped first.                                *)
(***************************************************************************)
EXTENDS SqliteReader, DataLemmas

USE DatabaseAssumption, FiltersAssumption, BoundsAssumption

TypeOK ==
  /\ DOMAIN db = {"tables", "version", "columns", "topics", "rows"} /\ db.rows \in Seq(Rows)
  /\ pc \in {"closed", "tables", "connections", "metadata", "open"}
  /\ error \in {"none", "closed", "io", "format", "query"}
  /\ filter \in Filters
  /\ status \in {"new", "open", "ended", "failed"}
  /\ stepped \in BOOLEAN /\ snapshot.taken \in BOOLEAN
  /\ snapshot.rows \in Seq(Rows)

\* From the moment the version is known its columns are those of the table.
SchemaInv ==
  WellFormed(db) =>
    /\ error # "query"
    /\ pc \in {"connections", "metadata", "open"} => Needed = db.columns

\* The counts are of rows that are there when the total is taken, and topics only come.
RowsOf(r, id, last) == {n \in 1..last : r[n].topic = id}
CountInv ==
  /\ pc \in {"metadata", "open"} => DOMAIN connections \subseteq DOMAIN db.topics
  /\ \A id \in DOMAIN connections : connections[id].count \in Nat
  /\ pc = "metadata" =>
       \A id \in DOMAIN connections :
         connections[id].count <= Cardinality(RowsOf(db.rows, id, Len(db.rows)))
  /\ pc = "open" => metadata.messages \in 0..Len(db.rows)
  /\ CountsBounded

BackendInv == TypeOK /\ SchemaInv /\ CountInv /\ SpanHolds

\* A cursor is made on an open backend, which is closed for good; it runs its statement
\* once, and has none only when no row can match or all have been read.
Fresh == query = NoQuery /\ ~stepped /\ snapshot = NoSnapshot /\ out = <<>>
StatementInv ==
  /\ status = "new" => Fresh
  /\ status # "new" => pc = "open" \/ (pc = "closed" /\ error # "none")
  /\ status = "ended" => query = NoQuery
  /\ status = "open" /\ query = NoQuery => ~Started
  /\ stepped => Started /\ query # NoQuery
  /\ Started /\ query # NoQuery => stepped
  /\ ~Started => out = <<>>
  /\ pc = "open" =>
       /\ query # NoQuery => ~MatchesNothing /\ query = Query
       /\ status \in {"open", "ended"} /\ query = NoQuery /\ ~Started => MatchesNothing
       /\ Started => snapshot.connections = connections
       /\ Started => DOMAIN connections \subseteq DOMAIN db.topics

\* What the filter asks for, and what the query does, of row n.
Asked(n) ==
  LET row == snapshot.rows[n] IN
  /\ row.topic \in DOMAIN snapshot.connections /\ HasTopic(row.topic, snapshot.connections)
  /\ filter.start = NoTime \/ row.time >= filter.start
  /\ filter.stop = NoTime \/ row.time < filter.stop

Selected(n) ==
  LET row == snapshot.rows[n] IN
  /\ query.ids = {} \/ row.topic \in query.ids
  /\ query.start <= row.time /\ row.time < query.stop

\* Row m comes before row n in the answer.
RowBefore(m, n) ==
  \/ snapshot.rows[m].time < snapshot.rows[n].time
  \/ snapshot.rows[m].time = snapshot.rows[n].time /\ m < n

HandedRow(n) == \E k \in DOMAIN out : out[k].index = n
Waiting(n) == \E i \in DOMAIN rows : rows[i] = n

\* The answer is handed out from its beginning: what is asked for was handed out or is
\* among the rows to come, never both, and these are in order.
OutInv ==
  /\ out \in Seq([time : Int, source : Int, index : Int, connection : Int])
  /\ \A k \in DOMAIN out : out[k].index \in DOMAIN snapshot.rows /\ out[k] = Message(out[k].index)
AnswerInv ==
  /\ rows \in Seq(DOMAIN snapshot.rows)
  /\ \A i, j \in DOMAIN rows : i < j => RowBefore(rows[i], rows[j])
  /\ \A i \in DOMAIN rows : Selected(rows[i]) /\ ~HandedRow(rows[i])
  /\ \A n \in DOMAIN snapshot.rows : Asked(n) => HandedRow(n) \/ Waiting(n)

Running == pc = "open" /\ status = "open" /\ stepped
CursorInv == StatementInv /\ OutInv /\ (Running => AnswerInv)

Inv == BackendInv /\ CursorInv

-----------------------------------------------------------------------------
LEMMA RowFacts ==
  ASSUME NEW r \in Seq(Rows)
  PROVE  /\ Len(r) \in Nat /\ DOMAIN r = 1..Len(r)
         /\ \A n \in DOMAIN r : r[n] \in Rows /\ r[n].time \in -Half..MaxInt /\ r[n].time \in Int
                              /\ -Half <= r[n].time /\ r[n].time < Half
<1>1. \A n \in DOMAIN r : r[n] \in Rows
  OBVIOUS
<1>2. Half \in Nat /\ MaxInt = Half - 1
  BY DEF MaxInt
<1> QED BY <1>1, <1>2 DEF Rows

LEMMA RowsOfFinite ==
  ASSUME NEW r, NEW id, NEW last \in Nat
  PROVE  IsFiniteSet(RowsOf(r, id, last)) /\ Cardinality(RowsOf(r, id, last)) \in Nat
<1>1. IsFiniteSet(1..last)
  BY 1 \in Int, last \in Int, FS_Interval
<1>2. RowsOf(r, id, last) \in SUBSET (1..last)
  BY DEF RowsOf
<1> QED BY <1>1, <1>2, FS_Subset, FS_CardinalityType

\* More rows, more rows of a topic.
LEMMA RowsOfGrow ==
  ASSUME NEW r \in Seq(Rows), NEW q \in Seq(Rows), Len(r) <= Len(q),
         \A n \in DOMAIN r : q[n] = r[n], NEW id
  PROVE  /\ \A last \in 0..Len(r) : RowsOf(q, id, last) = RowsOf(r, id, last)
         /\ Cardinality(RowsOf(r, id, Len(r))) <= Cardinality(RowsOf(q, id, Len(q)))
<1>1. Len(r) \in Nat /\ Len(q) \in Nat /\ DOMAIN r = 1..Len(r)
  BY RowFacts
<1>2. \A last \in 0..Len(r) : RowsOf(q, id, last) = RowsOf(r, id, last)
  BY <1>1 DEF RowsOf
<1>3. RowsOf(r, id, Len(r)) \in SUBSET RowsOf(q, id, Len(q))
  BY <1>1 DEF RowsOf
<1>4. IsFiniteSet(RowsOf(q, id, Len(q)))
  BY <1>1, RowsOfFinite
<1> QED BY <1>2, <1>3, <1>4, FS_Subset

LEMMA CountedRows ==
  ASSUME db.rows \in Seq(Rows), NEW id
  PROVE  /\ Counted(id) = Cardinality(RowsOf(db.rows, id, Len(db.rows)))
         /\ Counted(id) \in Nat
<1>1. DOMAIN db.rows = 1..Len(db.rows) /\ Len(db.rows) \in Nat
  BY RowFacts
<1>2. Counted(id) = Cardinality(RowsOf(db.rows, id, Len(db.rows)))
  BY <1>1 DEF Counted, RowsOf
<1> QED BY <1>1, <1>2, RowsOfFinite

\* What another process may do to the database: rows are added behind the others, and
\* topics to the others.
LEMMA WriteFacts ==
  ASSUME TypeOK, Write
  PROVE  /\ db'.rows \in Seq(Rows) /\ DOMAIN db' = DOMAIN db
         /\ Len(db'.rows) = Len(db.rows) + 1
         /\ \A n \in DOMAIN db.rows : n \in DOMAIN db'.rows /\ db'.rows[n] = db.rows[n]
         /\ DOMAIN db.topics \subseteq DOMAIN db'.topics
         /\ db'.tables = db.tables /\ db'.columns = db.columns /\ db'.version = db.version
         /\ UNCHANGED <<backend, cursor>>
<1>1. PICK w \in Written :
        db' = [db EXCEPT !.rows = Append(@, w.row),
                         !.topics = [id \in DOMAIN @ \cup DOMAIN w.topics |->
                                       IF id \in DOMAIN @ THEN @[id] ELSE w.topics[id]]]
  BY Zenon DEF Write
<1>2. DOMAIN db = {"tables", "version", "columns", "topics", "rows"} /\ db.rows \in Seq(Rows) /\ w.row \in Rows
  BY DEF TypeOK
<1>3. /\ DOMAIN db' = DOMAIN db /\ db'.rows = Append(db.rows, w.row)
      /\ db'.tables = db.tables /\ db'.columns = db.columns /\ db'.version = db.version
      /\ DOMAIN db'.topics = DOMAIN db.topics \cup DOMAIN w.topics
  BY <1>1, <1>2
<1>4. db'.rows \in Seq(Rows) /\ Len(db'.rows) = Len(db.rows) + 1
      /\ \A n \in DOMAIN db.rows : n \in DOMAIN db'.rows /\ db'.rows[n] = db.rows[n]
  BY <1>2, <1>3
<1> QED BY <1>3, <1>4 DEF Write

LEMMA BackendInit == Init => BackendInv
<1> SUFFICES ASSUME Init PROVE BackendInv
  OBVIOUS
<1>1. snapshot.rows = <<>> /\ snapshot.taken = FALSE
  BY DEF Init, NoSnapshot
<1>2. db \in Databases /\ <<>> \in Seq(Rows)
  BY DEF Init
<1>3. TypeOK
  BY <1>1, <1>2 DEF Init, TypeOK
<1> QED BY <1>3 DEF Init, BackendInv, SchemaInv, CountInv, CountsBounded, SpanHolds, Nothing

\* A commit of the other process leaves what was counted as it is.
LEMMA WriteInv == BackendInv /\ Write => BackendInv'
<1> SUFFICES ASSUME BackendInv, Write PROVE BackendInv'
  OBVIOUS
<1>0. TypeOK /\ SchemaInv /\ CountInv /\ SpanHolds
  BY DEF BackendInv
<1>1. /\ db'.rows \in Seq(Rows) /\ DOMAIN db' = DOMAIN db
      /\ Len(db'.rows) = Len(db.rows) + 1
      /\ \A n \in DOMAIN db.rows : n \in DOMAIN db'.rows /\ db'.rows[n] = db.rows[n]
      /\ DOMAIN db.topics \subseteq DOMAIN db'.topics
      /\ db'.tables = db.tables /\ db'.columns = db.columns /\ db'.version = db.version
      /\ UNCHANGED <<backend, cursor>>
  BY <1>0, WriteFacts
<1>2. db.rows \in Seq(Rows) /\ Len(db.rows) \in Nat /\ DOMAIN db.rows = 1..Len(db.rows)
  BY <1>0, RowFacts DEF TypeOK
<1>3. TypeOK'
  BY <1>0, <1>1 DEF TypeOK, backend, cursor
<1>4. SchemaInv'
  BY <1>0, <1>1 DEF SchemaInv, WellFormed, Needed, backend
<1>5. ASSUME NEW id
      PROVE  /\ \A last \in 0..Len(db.rows) : RowsOf(db'.rows, id, last) = RowsOf(db.rows, id, last)
             /\ Cardinality(RowsOf(db.rows, id, Len(db.rows))) <=
                  Cardinality(RowsOf(db'.rows, id, Len(db'.rows)))
  <2>1. db'.rows \in Seq(Rows) /\ Len(db.rows) <= Len(db'.rows) /\ \A n \in DOMAIN db.rows : db'.rows[n] = db.rows[n]
    BY <1>1, <1>2
  <2> QED BY <1>2, <2>1, RowsOfGrow
<1>6. connections' = connections /\ metadata' = metadata /\ pc' = pc
  BY <1>1 DEF backend
<1>7. CountInv'
  <2>1. (pc \in {"metadata", "open"} => DOMAIN connections \subseteq DOMAIN db.topics)'
    BY <1>0, <1>1, <1>6 DEF CountInv
  <2>2. ASSUME pc = "metadata", NEW id \in DOMAIN connections
        PROVE  connections[id].count <= Cardinality(RowsOf(db'.rows, id, Len(db'.rows)))
    <3>1. /\ connections[id].count <= Cardinality(RowsOf(db.rows, id, Len(db.rows)))
          /\ connections[id].count \in Nat
      BY <1>0, <2>2 DEF CountInv
    <3>2. Len(db'.rows) \in Nat
      BY <1>1, <1>2
    <3>3. /\ Cardinality(RowsOf(db.rows, id, Len(db.rows))) \in Nat
          /\ Cardinality(RowsOf(db'.rows, id, Len(db'.rows))) \in Nat
      BY <1>2, <3>2, RowsOfFinite
    <3> QED BY <1>5, <3>1, <3>3
  <2>3. pc' = "open" => metadata'.messages \in 0..Len(db'.rows)
    BY <1>0, <1>1, <1>2, <1>6 DEF CountInv
  <2>4. CountsBounded'
    <3> SUFFICES ASSUME pc = "open", NEW id \in DOMAIN connections
                 PROVE  connections[id].count <=
                          Cardinality({n \in 1..metadata.messages : db'.rows[n].topic = id})
      BY <1>6 DEF CountsBounded
    <3>1. metadata.messages \in 0..Len(db.rows)
      BY <1>0 DEF CountInv
    <3>2. RowsOf(db'.rows, id, metadata.messages) = RowsOf(db.rows, id, metadata.messages)
      BY <1>5, <3>1
    <3> QED BY <1>0, <3>2 DEF CountInv, CountsBounded, RowsOf
  <2> QED BY <1>0, <1>6, <2>1, <2>2, <2>3, <2>4 DEF CountInv
<1>8. SpanHolds'
  <2>1. pc = "open" => \A n \in 1..metadata.messages : db'.rows[n] = db.rows[n]
    BY <1>0, <1>1, <1>2 DEF CountInv
  <2> QED BY <1>0, <1>6, <2>1 DEF SpanHolds
<1> QED BY <1>3, <1>4, <1>7, <1>8 DEF BackendInv

\* What the statements of open() leave as they are.
LEMMA SameBackend ==
  ASSUME BackendInv, UNCHANGED <<file, backend>>
  PROVE  SchemaInv' /\ CountInv' /\ SpanHolds'
<1>1. /\ db' = db /\ pc' = pc /\ schema' = schema /\ connections' = connections
      /\ metadata' = metadata /\ error' = error
  BY DEF file, backend
<1>2. SchemaInv'
  BY <1>1 DEF BackendInv, SchemaInv, WellFormed, Needed
<1>3. CountInv'
  BY <1>1 DEF BackendInv, CountInv, CountsBounded, RowsOf
<1>4. SpanHolds'
  BY <1>1 DEF BackendInv, SpanHolds
<1> QED BY <1>2, <1>3, <1>4

\* A statement of open() that fails, and close().
LEMMA ThrowInv ==
  ASSUME BackendInv, CloseTables, error' \in {"closed", "io", "format", "query"},
         WellFormed(db) => error' # "query", UNCHANGED <<file, cursor, schema, metadata>>
  PROVE  BackendInv'
<1>1. /\ db' = db /\ pc' = "closed" /\ connections' = Nothing /\ UNCHANGED cursor
  BY DEF CloseTables, file
<1>2. TypeOK'
  BY <1>1 DEF BackendInv, TypeOK, cursor
<1>3. SchemaInv'
  BY <1>1 DEF BackendInv, SchemaInv, WellFormed
<1>4. CountInv'
  BY <1>1 DEF CountInv, CountsBounded, Nothing
<1>5. SpanHolds'
  BY <1>1 DEF SpanHolds
<1> QED BY <1>2, <1>3, <1>4, <1>5 DEF BackendInv

LEMMA BeginOpenInv == BackendInv /\ BeginOpen => BackendInv'
<1> SUFFICES ASSUME BackendInv, BeginOpen PROVE BackendInv'
  OBVIOUS
<1>1. /\ db' = db /\ pc' = "tables" /\ connections' = Nothing /\ error' = error /\ UNCHANGED cursor
  BY DEF BeginOpen, file
<1>2. TypeOK'
  BY <1>1 DEF BackendInv, TypeOK, cursor
<1>3. SchemaInv'
  BY <1>1 DEF BackendInv, SchemaInv, WellFormed
<1>4. CountInv'
  BY <1>1 DEF CountInv, CountsBounded, Nothing
<1>5. SpanHolds'
  BY <1>1 DEF SpanHolds
<1> QED BY <1>2, <1>3, <1>4, <1>5 DEF BackendInv

\* The version found or inferred asks for the columns that are there.
LEMMA DetectSchemaInv == BackendInv /\ DetectSchema => BackendInv'
<1> SUFFICES ASSUME BackendInv, DetectSchema PROVE BackendInv'
  OBVIOUS
<1>1. CASE ~{"messages", "topics"} \subseteq db.tables \/ ("schema" \in db.tables /\ db.version < 1)
  BY <1>1, ThrowInv DEF DetectSchema, Throw
<1>2. CASE ~(~{"messages", "topics"} \subseteq db.tables \/ ("schema" \in db.tables /\ db.version < 1))
  <2>1. /\ schema' = IF "schema" \in db.tables THEN db.version ELSE Inferred
        /\ pc' = "connections" /\ db' = db /\ connections' = connections /\ error' = error
        /\ metadata' = metadata /\ UNCHANGED cursor
    BY <1>2 DEF DetectSchema, file
  <2>2. TypeOK'
    BY <2>1 DEF BackendInv, TypeOK, cursor
  <2>3. SchemaInv'
    <3> SUFFICES ASSUME WellFormed(db) PROVE error # "query" /\ Needed' = db.columns
      BY <2>1 DEF SchemaInv, WellFormed
    <3>1. error # "query"
      BY DEF BackendInv, SchemaInv
    <3>2. CASE "schema" \in db.tables
      <4>1. schema' = db.version
        BY <2>1, <3>2
      <4>2. db.columns = (IF db.version >= 2 THEN {"qos"} ELSE {}) \cup (IF db.version >= 4 THEN {"hash"} ELSE {})
        BY <3>2 DEF WellFormed
      <4> QED BY <3>1, <4>1, <4>2 DEF Needed
    <3>3. CASE "schema" \notin db.tables
      <4>1. db.columns = {} \/ db.columns = {"qos"}
        BY <3>3 DEF WellFormed
      <4>2. CASE db.columns = {}
        <5>1. schema' = 1
          BY <2>1, <3>3, <4>2 DEF Inferred
        <5> QED BY <3>1, <4>2, <5>1 DEF Needed
      <4>3. CASE db.columns = {"qos"}
        <5>1. schema' = 2
          BY <2>1, <3>3, <4>3 DEF Inferred
        <5> QED BY <3>1, <4>3, <5>1 DEF Needed
      <4> QED BY <4>1, <4>2, <4>3
    <3> QED BY <3>1, <3>2, <3>3
  <2>4. CountInv'
    BY <2>1 DEF BackendInv, CountInv, CountsBounded
  <2>5. SpanHolds'
    BY <2>1 DEF SpanHolds
  <2> QED BY <2>2, <2>3, <2>4, <2>5 DEF BackendInv
<1> QED BY <1>1, <1>2

LEMMA LoadConnectionsInv == BackendInv /\ LoadConnections => BackendInv'
<1> SUFFICES ASSUME BackendInv, LoadConnections PROVE BackendInv'
  OBVIOUS
<1>1. CASE ~Needed \subseteq db.columns
  <2>1. ~WellFormed(db)
    BY <1>1 DEF BackendInv, SchemaInv, LoadConnections
  <2> QED BY <1>1, <2>1, ThrowInv DEF LoadConnections, Throw
<1>2. CASE Needed \subseteq db.columns
  <2>1. /\ connections' = [id \in DOMAIN db.topics |-> [topic |-> db.topics[id], count |-> Counted(id)]]
        /\ pc = "connections" /\ pc' = "metadata" /\ db' = db /\ schema' = schema /\ error' = error
        /\ metadata' = metadata /\ UNCHANGED cursor
    BY <1>2 DEF LoadConnections, file
  <2>2. TypeOK'
    BY <2>1 DEF BackendInv, TypeOK, cursor
  <2>3. SchemaInv'
    BY <2>1 DEF BackendInv, SchemaInv, WellFormed, Needed
  <2>4. db.rows \in Seq(Rows)
    BY DEF BackendInv, TypeOK
  <2>5. ASSUME NEW id \in DOMAIN db.topics
        PROVE  /\ connections'[id].count \in Nat
               /\ connections'[id].count <= Cardinality(RowsOf(db.rows, id, Len(db.rows)))
    BY <2>1, <2>4, CountedRows
  <2>6. DOMAIN connections' = DOMAIN db.topics
    BY <2>1
  <2>7. CountInv'
    BY <2>1, <2>5, <2>6 DEF CountInv, CountsBounded
  <2>8. SpanHolds'
    BY <2>1 DEF SpanHolds
  <2> QED BY <2>2, <2>3, <2>7, <2>8 DEF BackendInv
<1> QED BY <1>1, <1>2

\* The span is taken of the rows that are counted.
LEMMA LoadMetadataInv == BackendInv /\ LoadMetadata => BackendInv'
<1> SUFFICES ASSUME BackendInv, LoadMetadata PROVE BackendInv'
  OBVIOUS
<1> DEFINE times == {db.rows[n].time : n \in DOMAIN db.rows}
<1>1. CASE times # {} /\ Min(times) < 0
  BY <1>1, ThrowInv DEF LoadMetadata, Throw
<1>2. CASE ~(times # {} /\ Min(times) < 0)
  <2>1. /\ metadata' = IF times = {} THEN NoMetadata
                       ELSE [messages |-> Len(db.rows), start |-> Min(times), end |-> Max(times) + 1]
        /\ pc = "metadata" /\ pc' = "open" /\ db' = db /\ schema' = schema /\ error' = error
        /\ connections' = connections /\ UNCHANGED cursor
    BY <1>2 DEF LoadMetadata, file
  <2>2. TypeOK'
    BY <2>1 DEF BackendInv, TypeOK, cursor
  <2>3. SchemaInv'
    BY <2>1 DEF BackendInv, SchemaInv, WellFormed, Needed
  <2>4. db.rows \in Seq(Rows)
    BY DEF BackendInv, TypeOK
  <2>5. /\ Len(db.rows) \in Nat /\ DOMAIN db.rows = 1..Len(db.rows)
        /\ \A n \in DOMAIN db.rows : /\ db.rows[n].time \in Int
                                     /\ -Half <= db.rows[n].time /\ db.rows[n].time < Half
    BY <2>4, RowFacts
  <2>6. times = {} => Len(db.rows) = 0
    <3>1. Len(db.rows) # 0 => 1 \in DOMAIN db.rows
      BY <2>5
    <3>2. 1 \in DOMAIN db.rows => db.rows[1].time \in times
      OBVIOUS
    <3> HIDE DEF times
    <3> QED BY ONLY <3>1, <3>2
  <2>7. metadata'.messages = Len(db.rows)
    BY <2>1, <2>6 DEF NoMetadata
  <2>8. CountInv'
    <3>1. \A id \in DOMAIN connections : /\ connections[id].count \in Nat
                                          /\ connections[id].count <= Cardinality(RowsOf(db.rows, id, Len(db.rows)))
      BY <2>1 DEF BackendInv, CountInv
    <3>2. CountsBounded'
      BY <2>1, <2>7, <3>1 DEF CountsBounded, RowsOf
    <3>3. DOMAIN connections \subseteq DOMAIN db.topics
      BY <2>1 DEF BackendInv, CountInv
    <3>4. metadata'.messages \in 0..Len(db'.rows)
      <4>1. db' = db /\ Len(db.rows) \in Nat
        BY <2>1, <2>5
      <4> QED BY ONLY <2>7, <4>1
    <3> QED BY <2>1, <3>1, <3>2, <3>3, <3>4 DEF CountInv
  <2>9. SpanHolds'
    <3>1. Half \in Nat \ {0} /\ Modulus = 2 * Half
      OBVIOUS
    <3>2. CASE times = {}
      BY <2>1, <2>5, <2>6, <2>7, <3>1, <3>2 DEF SpanHolds, NoMetadata
    <3>3. CASE times # {}
      <4>1. times \in SUBSET Int /\ \A t \in times : -Half <= t /\ t <= Half - 1
        BY <2>5, <3>1
      <4>2. /\ Min(times) \in times /\ \A t \in times : Min(times) <= t
            /\ Max(times) \in times /\ \A t \in times : t <= Max(times)
        <5> HIDE DEF times
        <5>1. -Half \in Int /\ Half - 1 \in Int
          BY <3>1
        <5> QED BY <3>3, <4>1, <5>1, MinOfBounded, MaxOfBounded
      <4>3. 0 <= Min(times) /\ Min(times) <= Max(times) /\ Max(times) < Half
        <5>1. Min(times) \in Int /\ Max(times) \in Int
          BY <4>1, <4>2
        <5>2. ~(Min(times) < 0) /\ Min(times) <= Max(times) /\ Max(times) <= Half - 1
          BY <1>2, <3>3, <4>1, <4>2
        <5> HIDE DEF times
        <5> QED BY <3>1, <5>1, <5>2
      <4>4. \A n \in DOMAIN db.rows : Min(times) <= db.rows[n].time /\ db.rows[n].time < Max(times) + 1
        <5> TAKE n \in DOMAIN db.rows
        <5>1. db.rows[n].time \in times
          OBVIOUS
        <5>2. Min(times) <= db.rows[n].time /\ db.rows[n].time <= Max(times)
          BY <4>2, <5>1
        <5>3. db.rows[n].time \in Int /\ Max(times) \in Int
          BY <2>5, <4>1, <4>2
        <5> HIDE DEF times
        <5> QED BY <5>2, <5>3
      <4>5. /\ metadata'.start = Min(times) /\ metadata'.end = Max(times) + 1
            /\ Min(times) \in Int /\ Max(times) \in Int
        BY <2>1, <3>3, <4>1, <4>2
      <4> HIDE DEF times
      <4> QED BY <2>1, <2>5, <2>7, <3>1, <4>3, <4>4, <4>5 DEF SpanHolds
    <3> QED BY <3>2, <3>3
  <2> QED BY <2>2, <2>3, <2>8, <2>9 DEF BackendInv
<1> QED BY <1>1, <1>2

\* Steps of the cursor change nothing of the backend.
LEMMA CursorStepBackend ==
  ASSUME BackendInv, Reading \/ StepFails
  PROVE  BackendInv' /\ UNCHANGED <<file, backend, filter>>
<1>1. UNCHANGED <<file, backend, filter>>
  BY DEF Reading, StartCursor, StartFails, NextOfNothing, FirstStep, ReadRow, RowFails, EndOfRows, StepFails
<1>2. /\ status' \in {"open", "ended", "failed"} \cup {status} /\ stepped' \in BOOLEAN
      /\ snapshot' \in {snapshot, [taken |-> TRUE, rows |-> db.rows, connections |-> connections]}
  BY DEF Reading, StartCursor, StartFails, NextOfNothing, FirstStep, ReadRow, RowFails, EndOfRows, StepFails,
         BackendInv, TypeOK
<1>3. TypeOK
  BY DEF BackendInv
<1>4. snapshot'.taken \in BOOLEAN /\ snapshot'.rows \in Seq(Rows)
  <2>1. /\ db.rows \in Seq(Rows)
        /\ snapshot.taken \in BOOLEAN /\ snapshot.rows \in Seq(Rows)
    BY <1>3 DEF TypeOK
  <2>2. CASE snapshot' = snapshot
    BY ONLY <2>1, <2>2
  <2>3. CASE snapshot' = [taken |-> TRUE, rows |-> db.rows, connections |-> connections]
    BY ONLY <2>1, <2>3
  <2> QED BY ONLY <1>2, <2>2, <2>3
<1>5. db' = db /\ pc' = pc /\ error' = error /\ filter' = filter
  BY <1>1 DEF file, backend
<1>6. status' \in {"new", "open", "ended", "failed"}
  BY <1>2, <1>3 DEF TypeOK
<1>7. TypeOK'
  BY ONLY <1>2, <1>3, <1>4, <1>5, <1>6 DEF TypeOK
<1> QED BY <1>1, <1>7, SameBackend DEF BackendInv

LEMMA BackendNext == BackendInv /\ [Next]_vars => BackendInv'
<1> SUFFICES ASSUME BackendInv, [Next]_vars PROVE BackendInv'
  OBVIOUS
<1>1. CASE Write
  BY <1>1, WriteInv
<1>2. CASE Opening
  BY <1>2, BeginOpenInv, DetectSchemaInv, LoadConnectionsInv, LoadMetadataInv DEF Opening
<1>3. CASE StatementFails
  BY <1>3, ThrowInv DEF StatementFails, Throw
<1>4. CASE Close
  BY <1>4, ThrowInv DEF Close
<1>5. CASE Reading \/ StepFails
  BY <1>5, CursorStepBackend
<1>6. CASE UNCHANGED vars
  <2>1. TypeOK'
    BY <1>6 DEF BackendInv, TypeOK, vars, file, backend, cursor
  <2> QED BY <1>6, <2>1, SameBackend DEF BackendInv, vars
<1> QED BY <1>1, <1>2, <1>3, <1>4, <1>5, <1>6 DEF Next, Destroyed

\* The state of the backend and of its cursor stays in its types, and open() is right
\* about the database whatever is committed in between.
THEOREM BackendInvariance == Spec => []BackendInv
BY BackendInit, BackendNext, PTL DEF Spec

\* Any version of a database opens, the counts agree and the span is right, for any
\* database, writer and width (sqlite3.cpp:124-125, 165-180, 204-264).
THEOREM Announced == Spec => []MetadataSound
<1>1. BackendInv => MetadataSound
  BY DEF BackendInv, SchemaInv, CountInv, MetadataSound, OpensEveryVersion
<1> QED BY <1>1, BackendInvariance, PTL

-----------------------------------------------------------------------------
\* The query for a filter that can match: it is one, and selects by time as the filter does.
LEMMA QueryFacts ==
  ASSUME filter \in Filters, ~MatchesNothing
  PROVE  /\ Query # NoQuery
         /\ Query.ids = IF FiltersTopics THEN TopicIds ELSE {}
         /\ FiltersTopics => TopicIds # {}
         /\ \A t \in -Half..MaxInt :
              Query.start <= t /\ t < Query.stop <=>
                /\ filter.start = NoTime \/ t >= filter.start
                /\ filter.stop = NoTime \/ t < filter.stop
<1>1. /\ Half \in Nat \ {0} /\ Modulus = 2 * Half /\ MaxInt = Half - 1
      /\ NoTime \notin 0..(Modulus - 1)
  BY DEF MaxInt
<1>2. /\ filter.start = NoTime \/ filter.start \in 0..(Modulus - 1)
      /\ filter.stop = NoTime \/ filter.stop \in 0..(Modulus - 1)
  OBVIOUS
<1>3. filter.start # NoTime => filter.start \in 0..MaxInt /\ Signed(filter.start) = filter.start
  BY <1>1, <1>2 DEF MatchesNothing, Signed
<1>4. /\ BindStop => filter.stop \in 0..MaxInt /\ Signed(filter.stop) = filter.stop
      /\ ~BindStop => filter.stop = NoTime \/ (filter.stop \in Int /\ filter.stop > MaxInt)
  BY <1>1, <1>2 DEF BindStop, Signed
<1>5. /\ Query.start = IF filter.start = NoTime THEN -Half ELSE filter.start
      /\ Query.stop = IF BindStop THEN filter.stop ELSE Half
      /\ Query.ids = IF FiltersTopics THEN TopicIds ELSE {}
  BY <1>3, <1>4 DEF Query
<1>6. Query.stop # NoTime
  BY <1>1, <1>4, <1>5 DEF BindStop
<1>7. Query # NoQuery
  BY <1>6 DEF NoQuery
<1>8. FiltersTopics => TopicIds # {}
  BY DEF MatchesNothing
<1>9. ASSUME NEW t \in -Half..MaxInt
      PROVE  /\ Query.start <= t <=> filter.start = NoTime \/ t >= filter.start
             /\ t < Query.stop <=> filter.stop = NoTime \/ t < filter.stop
  <2>1. Query.start <= t <=> filter.start = NoTime \/ t >= filter.start
    BY <1>1, <1>3, <1>5
  <2>2. t < Query.stop <=> filter.stop = NoTime \/ t < filter.stop
    BY <1>1, <1>4, <1>5 DEF BindStop
  <2> QED BY <2>1, <2>2
<1> QED BY <1>5, <1>7, <1>8, <1>9

\* Of the rows on a topic that open() has found the query selects those asked for.
Selecting ==
  TypeOK /\ snapshot.connections = connections /\ ~MatchesNothing /\ query = Query
SelectsAsked ==
  \A n \in DOMAIN snapshot.rows :
    Asked(n) <=> snapshot.rows[n].topic \in DOMAIN connections /\ Selected(n)
LEMMA SelectedAsked == Selecting => SelectsAsked
<1> SUFFICES ASSUME Selecting, NEW n \in DOMAIN snapshot.rows
             PROVE  Asked(n) <=> snapshot.rows[n].topic \in DOMAIN connections /\ Selected(n)
  BY DEF SelectsAsked
<1> USE DEF Selecting
<1>1. filter \in Filters /\ snapshot.rows[n].time \in -Half..MaxInt
  BY RowFacts DEF TypeOK
<1>2. /\ query.ids = IF FiltersTopics THEN TopicIds ELSE {}
      /\ FiltersTopics => TopicIds # {}
      /\ query.start <= snapshot.rows[n].time /\ snapshot.rows[n].time < query.stop <=>
           /\ filter.start = NoTime \/ snapshot.rows[n].time >= filter.start
           /\ filter.stop = NoTime \/ snapshot.rows[n].time < filter.stop
  BY <1>1, QueryFacts
<1>3. ASSUME snapshot.rows[n].topic \in DOMAIN connections
      PROVE  (query.ids = {} \/ snapshot.rows[n].topic \in query.ids) <=> HasTopic(snapshot.rows[n].topic, connections)
  BY <1>2, <1>3 DEF TopicIds, FiltersTopics, HasTopic
<1> QED BY <1>2, <1>3 DEF Asked, Selected

\* A filter that can match nothing asks for no row.
LEMMA NothingAsked ==
  ASSUME filter \in Filters, MatchesNothing, NEW row \in Rows, row.topic \in DOMAIN connections,
         HasTopic(row.topic, connections)
  PROVE  ~ /\ filter.start = NoTime \/ row.time >= filter.start
           /\ filter.stop = NoTime \/ row.time < filter.stop
<1>1. /\ Half \in Nat \ {0} /\ MaxInt = Half - 1 /\ row.time \in -Half..MaxInt
      /\ filter.start = NoTime \/ filter.start \in 0..(Modulus - 1)
      /\ filter.stop = NoTime \/ filter.stop \in 0..(Modulus - 1)
      /\ Modulus = 2 * Half
  BY DEF Rows, MaxInt
<1>2. row.topic \in TopicIds
  BY DEF TopicIds
<1> QED BY <1>1, <1>2 DEF MatchesNothing

-----------------------------------------------------------------------------
\* What the cursor's statement and answer are read from.
LEMMA SameQuery ==
  ASSUME UNCHANGED <<connections, filter>>
  PROVE  MatchesNothing' = MatchesNothing /\ Query' = Query
<1>1. \A id, table : HasTopic(id, table)' = HasTopic(id, table)
  BY DEF HasTopic
<1>2. FiltersTopics' = FiltersTopics /\ BindStop' = BindStop
  BY DEF FiltersTopics, BindStop
<1>3. TopicIds' = TopicIds
  BY DEF TopicIds, HasTopic
<1> QED BY <1>2, <1>3 DEF MatchesNothing, Query, Signed

LEMMA SameSnapshot ==
  ASSUME UNCHANGED <<snapshot, filter>>
  PROVE  /\ \A n : Asked(n)' = Asked(n) /\ Message(n)' = Message(n)
         /\ \A m, n : RowBefore(m, n)' = RowBefore(m, n)
         /\ Started' = Started /\ Wanted' = Wanted
<1>1. \A n : Asked(n)' = Asked(n)
  BY DEF Asked, HasTopic
<1>2. \A n : Message(n)' = Message(n)
  BY DEF Message
<1>3. \A m, n : RowBefore(m, n)' = RowBefore(m, n)
  BY DEF RowBefore
<1>4. Started' = Started
  BY DEF Started
<1>5. Wanted' = Wanted
  BY DEF Wanted, Message, HasTopic
<1> QED BY <1>1, <1>2, <1>3, <1>4, <1>5

\* A step that leaves the cursor alone keeps what is said of it, if it leaves the
\* connections of an open backend alone.
LEMMA SameCursor ==
  ASSUME CursorInv, UNCHANGED cursor,
         status # "new" => pc' = "open" \/ (pc' = "closed" /\ error' # "none"),
         status # "new" /\ pc' = "open" =>
           /\ pc = "open" /\ connections' = connections
           /\ DOMAIN db.topics \subseteq DOMAIN db'.topics
  PROVE  CursorInv'
<1>1. UNCHANGED <<filter, status, query, stepped, rows, snapshot, out>>
  BY DEF cursor
<1>2. /\ \A n : Asked(n)' = Asked(n) /\ Message(n)' = Message(n)
      /\ \A m, n : RowBefore(m, n)' = RowBefore(m, n)
      /\ Started' = Started
  BY <1>1, SameSnapshot
<1>3. StatementInv'
  <2>1. Fresh' = Fresh
    BY <1>1 DEF Fresh
  <2>2. CASE pc' = "open" /\ status # "new"
    <3>1. MatchesNothing' = MatchesNothing /\ Query' = Query
      BY <1>1, <2>2, SameQuery
    <3> QED BY <1>1, <1>2, <2>1, <2>2, <3>1 DEF CursorInv, StatementInv
  <2>3. CASE pc' # "open" \/ status = "new"
    <3>1. status = "new" => query = NoQuery /\ ~Started
      BY DEF CursorInv, StatementInv, Fresh, Started, NoSnapshot
    <3> QED BY <1>1, <1>2, <2>1, <2>3, <3>1 DEF CursorInv, StatementInv
  <2> QED BY <2>2, <2>3
<1>4. OutInv'
  BY <1>1, <1>2 DEF CursorInv, OutInv
<1>5. Running' => AnswerInv'
  <2> SUFFICES ASSUME Running' PROVE AnswerInv'
    OBVIOUS
  <2>1. Running
    BY <1>1 DEF Running, CursorInv, StatementInv, Fresh
  <2>2. /\ \A n : HandedRow(n)' = HandedRow(n) /\ Waiting(n)' = Waiting(n)
        /\ \A n : Selected(n)' = Selected(n)
    BY <1>1 DEF HandedRow, Waiting, Selected
  <2> QED BY <1>1, <1>2, <2>1, <2>2 DEF CursorInv, AnswerInv
<1> QED BY <1>3, <1>4, <1>5 DEF CursorInv

LEMMA CursorInit == Init => CursorInv
<1> SUFFICES ASSUME Init PROVE CursorInv
  OBVIOUS
<1>1. Fresh /\ ~Started
  BY DEF Init, Fresh, Started, NoSnapshot
<1>2. StatementInv
  BY <1>1 DEF Init, StatementInv
<1> QED BY <1>2 DEF Init, CursorInv, OutInv, Running

\* The constructor.
LEMMA StartInv == BackendInv /\ CursorInv /\ (StartCursor \/ StartFails) => CursorInv'
<1> SUFFICES ASSUME BackendInv, CursorInv, StartCursor \/ StartFails PROVE CursorInv'
  OBVIOUS
<1>1. /\ pc' = pc /\ connections' = connections /\ error' = error
      /\ UNCHANGED <<filter, stepped, rows, snapshot, out>>
      /\ pc = "open" /\ status = "new" /\ status' \in {"open", "failed"}
      /\ \/ query' = query /\ status' = "failed"
         \/ query' = (IF MatchesNothing THEN NoQuery ELSE Query) /\ status' = "open"
  BY DEF StartCursor, StartFails, backend
<1>2. Fresh /\ ~Started
  BY <1>1 DEF CursorInv, StatementInv, Fresh, Started, NoSnapshot
<1>3. MatchesNothing' = MatchesNothing /\ Query' = Query /\ Started' = Started
  BY <1>1, SameQuery, SameSnapshot
<1>4. ~MatchesNothing => Query # NoQuery
  BY QueryFacts DEF BackendInv, TypeOK
<1>5. StatementInv'
  BY <1>1, <1>2, <1>3, <1>4 DEF StatementInv, Fresh
<1> QED BY <1>1, <1>2, <1>5 DEF CursorInv, OutInv, Running, Fresh

\* next() of a cursor without a statement, the end of a statement and every failure.
LEMMA StopInv ==
  BackendInv /\ CursorInv /\ (NextOfNothing \/ RowFails \/ StepFails \/ EndOfRows) => CursorInv'
<1> SUFFICES ASSUME BackendInv, CursorInv, NextOfNothing \/ RowFails \/ StepFails \/ EndOfRows
             PROVE  CursorInv'
  OBVIOUS
<1>1. /\ db' = db /\ pc' = pc /\ connections' = connections /\ UNCHANGED <<filter, snapshot, out>>
      /\ pc = "open" /\ status \in {"open", "ended"}
      /\ \/ query = NoQuery /\ status' = "ended" /\ UNCHANGED <<query, stepped>>
         \/ query # NoQuery /\ status' = "failed" /\ UNCHANGED <<query, stepped>>
         \/ query # NoQuery /\ stepped /\ query' = NoQuery /\ stepped' = FALSE /\ status' = "ended"
  BY DEF NextOfNothing, RowFails, StepFails, EndOfRows, Row, Callable, file, backend
<1>2. MatchesNothing' = MatchesNothing /\ Query' = Query
  BY <1>1, SameQuery
<1>3. /\ Started' = Started
      /\ \A n : Message(n)' = Message(n)
  BY <1>1, SameSnapshot
<1>4. StatementInv'
  BY <1>1, <1>2, <1>3 DEF CursorInv, StatementInv
<1>5. OutInv'
  BY <1>1, <1>3 DEF CursorInv, OutInv
<1> QED BY <1>1, <1>4, <1>5 DEF CursorInv, Running

\* The rows of a statement: those it selects, each once, in order.
Chosen(q, d) ==
  {n \in DOMAIN d.rows : /\ d.rows[n].topic \in DOMAIN d.topics
                         /\ q.ids = {} \/ d.rows[n].topic \in q.ids
                         /\ q.start <= d.rows[n].time /\ d.rows[n].time < q.stop}
Order(d) ==
  {p \in (DOMAIN d.rows) \X (DOMAIN d.rows) :
     \/ d.rows[p[1]].time < d.rows[p[2]].time
     \/ d.rows[p[1]].time = d.rows[p[2]].time /\ p[1] < p[2]}

LEMMA ResultFacts ==
  ASSUME NEW d, d.rows \in Seq(Rows), NEW q
  PROVE  /\ Result(q, d) \in Seq(DOMAIN d.rows)
         /\ \A i \in DOMAIN Result(q, d) : Result(q, d)[i] \in Chosen(q, d)
         /\ \A n \in Chosen(q, d) : \E i \in DOMAIN Result(q, d) : Result(q, d)[i] = n
         /\ \A i, j \in DOMAIN Result(q, d) :
              i < j => <<Result(q, d)[i], Result(q, d)[j]>> \in Order(d)
<1> DEFINE S == Chosen(q, d)
           R == Order(d)
           s == Result(q, d)
<1>1. /\ Len(d.rows) \in Nat /\ DOMAIN d.rows = 1..Len(d.rows)
      /\ \A n \in DOMAIN d.rows : d.rows[n].time \in Int
  BY RowFacts
<1>2. S \subseteq DOMAIN d.rows
  BY DEF Chosen
<1>3. IsFiniteSet(S)
  <2>1. IsFiniteSet(1..Len(d.rows))
    BY <1>1, 1 \in Int, Len(d.rows) \in Int, FS_Interval
  <2> HIDE DEF S
  <2> QED BY <1>1, <1>2, <2>1, FS_Subset
<1> DEFINE Before(m, n) == d.rows[m].time < d.rows[n].time \/ (d.rows[m].time = d.rows[n].time /\ m < n)
<1>4. \A x, y \in S : <<x, y>> \in R <=> Before(x, y)
  <2> SUFFICES ASSUME NEW x \in S, NEW y \in S PROVE <<x, y>> \in Order(d) <=> Before(x, y)
    BY Zenon
  <2>1. x \in DOMAIN d.rows /\ y \in DOMAIN d.rows
    BY <1>2
  <2> HIDE DEF S
  <2> QED BY ONLY <2>1 DEF Order
<1>5. StrictOrder(R, S)
  <2> HIDE DEF S, R
  <2>1. \A x \in S : x \in Int /\ d.rows[x].time \in Int
    BY <1>1, <1>2
  <2>2. \A x, y \in S : x = y \/ <<x, y>> \in R \/ <<y, x>> \in R
    <3>1. \A x, y \in S : x = y \/ Before(x, y) \/ Before(y, x)
      BY ONLY <2>1
    <3> HIDE DEF Before
    <3> QED BY ONLY <1>4, <3>1, Zenon
  <2>3. \A x, y \in S : ~(<<x, y>> \in R /\ <<y, x>> \in R)
    <3>1. \A x, y \in S : ~(Before(x, y) /\ Before(y, x))
      BY ONLY <2>1
    <3> HIDE DEF Before
    <3> QED BY ONLY <1>4, <3>1, Zenon
  <2>4. \A x, y, z \in S : <<x, y>> \in R /\ <<y, z>> \in R => <<x, z>> \in R
    BY ONLY <1>4, <2>1
  <2> QED BY <2>2, <2>3, <2>4 DEF StrictOrder
<1> DEFINE Ordered(t) == \A i, j \in DOMAIN t : i < j => Before(t[i], t[j])
<1>6. s = CHOOSE t \in [1..Cardinality(S) -> S] : Ordered(t)
  BY Zenon DEF Result, Chosen
<1>7. \E t \in [1..Cardinality(S) -> S] : Ordered(t)
  <2> HIDE DEF S, R, Before
  <2>1. PICK t : Enumerates(t, R, S)
    BY <1>3, <1>5, Enumerable
  <2>2. t \in [1..Cardinality(S) -> S] /\ \A i, j \in 1..Cardinality(S) : i < j => <<t[i], t[j]>> \in R
    BY <2>1 DEF Enumerates
  <2> QED BY ONLY <1>4, <2>2
<1> HIDE DEF S, R, s, Before
<1>8. s \in [1..Cardinality(S) -> S] /\ DOMAIN s = 1..Cardinality(S)
      /\ \A i, j \in DOMAIN s : i < j => <<s[i], s[j]>> \in R
  <2> HIDE DEF Ordered
  <2>1. s \in [1..Cardinality(S) -> S] /\ Ordered(s)
    BY ONLY <1>6, <1>7
  <2> QED BY ONLY <1>4, <2>1 DEF Ordered
<1>9. Enumerates(s, R, S)
  BY <1>8 DEF Enumerates
<1>10. \A x \in S : \E i \in 1..Cardinality(S) : s[i] = x
  BY <1>3, <1>5, <1>9, EnumerationCovers
<1>11. Cardinality(S) \in Nat
  BY <1>3, FS_CardinalityType
<1>12. s \in Seq(DOMAIN d.rows)
  BY <1>2, <1>8, <1>11
<1> QED BY <1>8, <1>10, <1>12 DEF s, S, R

\* next() steps the statement first: what is asked of this moment is among the rows.
LEMMA FirstStepInv == BackendInv /\ CursorInv /\ FirstStep => CursorInv'
<1> SUFFICES ASSUME BackendInv, CursorInv, FirstStep PROVE CursorInv'
  OBVIOUS
<1>1. /\ db' = db /\ pc' = pc /\ connections' = connections /\ UNCHANGED <<filter, status, query, out>>
      /\ pc = "open" /\ status \in {"open", "ended"} /\ query # NoQuery /\ ~stepped
      /\ stepped' = TRUE /\ rows' = Result(query, db)
      /\ snapshot'.taken = TRUE /\ snapshot'.rows = db.rows /\ snapshot'.connections = connections
  BY DEF FirstStep, Callable, file, backend
<1>2. ~Started /\ out = <<>> /\ status = "open" /\ ~MatchesNothing /\ query = Query
  BY <1>1 DEF CursorInv, StatementInv
<1>3. Started'
  BY <1>1 DEF Started
<1>4. MatchesNothing' = MatchesNothing /\ Query' = Query
  BY <1>1, SameQuery
<1>5. DOMAIN connections \subseteq DOMAIN db.topics /\ db.rows \in Seq(Rows)
  BY <1>1 DEF BackendInv, CountInv, TypeOK
<1>6. StatementInv'
  BY <1>1, <1>2, <1>3, <1>4, <1>5 DEF CursorInv, StatementInv
<1>7. OutInv'
  BY <1>1, <1>2 DEF OutInv
<1>8. /\ rows' \in Seq(DOMAIN db.rows)
      /\ \A i \in DOMAIN rows' : rows'[i] \in Chosen(query, db)
      /\ \A n \in Chosen(query, db) : \E i \in DOMAIN rows' : rows'[i] = n
      /\ \A i, j \in DOMAIN rows' : i < j => <<rows'[i], rows'[j]>> \in Order(db)
  BY <1>1, <1>5, ResultFacts
<1>9. ASSUME NEW m \in DOMAIN db.rows, NEW n \in DOMAIN db.rows, <<m, n>> \in Order(db)
      PROVE  RowBefore(m, n)'
  <2>1. db.rows[m].time < db.rows[n].time \/ (db.rows[m].time = db.rows[n].time /\ m < n)
    BY ONLY <1>9 DEF Order
  <2> QED BY ONLY <1>1, <2>1 DEF RowBefore
<1>10. ASSUME NEW n \in Chosen(query, db) PROVE Selected(n)'
  BY ONLY <1>1, <1>10 DEF Chosen, Selected
<1>11. \A n : ~HandedRow(n)'
  BY <1>1, <1>2 DEF HandedRow
<1>12. ASSUME NEW n \in DOMAIN db.rows, Asked(n)' PROVE Waiting(n)'
  <2>1. TypeOK'
    BY CursorStepBackend DEF Reading, BackendInv
  <2>2. db.rows[n].topic \in DOMAIN connections /\ Selected(n)'
    <3>1. (Selecting => SelectsAsked)'
      BY SelectedAsked, PTL
    <3>2. Selecting'
      BY <1>1, <1>2, <1>4, <2>1 DEF Selecting
    <3> QED BY <1>1, <1>12, <3>1, <3>2 DEF SelectsAsked
  <2>3. n \in Chosen(query, db)
    BY <1>1, <1>5, <2>2 DEF Selected, Chosen
  <2> QED BY <1>8, <2>3 DEF Waiting
<1>13. AnswerInv'
  <2>1. snapshot'.rows = db.rows
    BY <1>1
  <2>2. \A i \in DOMAIN rows' : rows'[i] \in DOMAIN db.rows
    BY <1>8
  <2>3. (\A i, j \in DOMAIN rows : i < j => RowBefore(rows[i], rows[j]))'
    BY ONLY <1>8, <1>9, <2>2
  <2>4. (\A i \in DOMAIN rows : Selected(rows[i]) /\ ~HandedRow(rows[i]))'
    BY ONLY <1>8, <1>10, <1>11
  <2> QED BY ONLY <1>8, <1>12, <2>1, <2>3, <2>4 DEF AnswerInv
<1> QED BY <1>6, <1>7, <1>13 DEF CursorInv

\* next() hands out the first row to come, and the others remain.
LEMMA ReadRowInv == BackendInv /\ CursorInv /\ ReadRow => CursorInv'
<1> SUFFICES ASSUME BackendInv, CursorInv, ReadRow PROVE CursorInv'
  OBVIOUS
<1>1. PICK n \in DOMAIN snapshot.rows :
        /\ db' = db /\ pc' = pc /\ connections' = connections
        /\ UNCHANGED <<filter, status, query, stepped, snapshot>>
        /\ pc = "open" /\ status \in {"open", "ended"} /\ query # NoQuery /\ stepped
        /\ rows # <<>> /\ n = Head(rows) /\ rows' = Tail(rows) /\ out' = Append(out, Message(n))
  BY DEF ReadRow, Row, Callable, file, backend
<1>2. Running /\ Started
  BY <1>1 DEF CursorInv, StatementInv, Running
<1>3. AnswerInv
  BY <1>2 DEF CursorInv
<1>4. /\ \A k : Asked(k)' = Asked(k) /\ Message(k)' = Message(k)
      /\ \A k, m : RowBefore(k, m)' = RowBefore(k, m)
      /\ Started' = Started
  BY <1>1, SameSnapshot
<1>5. MatchesNothing' = MatchesNothing /\ Query' = Query
  BY <1>1, SameQuery
<1>6. StatementInv'
  BY <1>1, <1>2, <1>4, <1>5 DEF CursorInv, StatementInv
<1>7. /\ rows \in Seq(DOMAIN snapshot.rows) /\ Len(rows) \in Nat \ {0} /\ DOMAIN rows = 1..Len(rows)
      /\ Tail(rows) \in Seq(DOMAIN snapshot.rows) /\ DOMAIN Tail(rows) = 1..(Len(rows) - 1)
      /\ \A i \in 1..(Len(rows) - 1) : i + 1 \in 1..Len(rows) /\ Tail(rows)[i] = rows[i + 1]
      /\ rows[1] = n
  BY <1>1, <1>3 DEF AnswerInv
<1>8. Len(out) \in Nat /\ DOMAIN out = 1..Len(out)
      /\ DOMAIN out' = 1..(Len(out) + 1) /\ out'[Len(out) + 1] = Message(n)
      /\ \A k \in DOMAIN out : out'[k] = out[k]
  BY <1>1 DEF CursorInv, OutInv
<1>9. Message(n).index = n
  BY DEF Message
<1>10. OutInv'
  <2> DEFINE Told == [time : Int, source : Int, index : Int, connection : Int]
  <2>1. out \in Seq(Told) /\ \A k \in DOMAIN out : out[k].index \in DOMAIN snapshot.rows /\ out[k] = Message(out[k].index)
    BY DEF CursorInv, OutInv
  <2>2. Message(n) \in Told
    <3>1. snapshot.rows \in Seq(Rows)
      BY DEF BackendInv, TypeOK
    <3>2. snapshot.rows[n].time \in Int /\ snapshot.rows[n].topic \in Int /\ n \in Int
      <4>1. snapshot.rows[n] \in Rows /\ snapshot.rows[n].time \in Int /\ n \in Int
        BY <3>1, RowFacts
      <4> QED BY ONLY <4>1 DEF Rows
    <3> QED BY <3>2 DEF Message
  <2> HIDE DEF Told
  <2>3. out' \in Seq(Told)
    BY <1>1, <2>1, <2>2
  <2>4. ASSUME NEW k \in DOMAIN out'
        PROVE  out'[k].index \in DOMAIN snapshot.rows /\ out'[k] = Message(out'[k].index)
    <3>1. CASE k \in DOMAIN out
      BY <1>8, <2>1, <3>1
    <3>2. CASE k = Len(out) + 1
      BY <1>8, <1>9, <3>2
    <3> QED BY <1>8, <3>1, <3>2
  <2> QED BY ONLY <1>1, <1>4, <2>3, <2>4 DEF OutInv, Told
<1>11. \A k : HandedRow(k)' <=> HandedRow(k) \/ k = n
  BY <1>8, <1>9 DEF HandedRow
<1>12. \A k : Selected(k)' = Selected(k)
  BY <1>1 DEF Selected
<1>13. AnswerInv'
  <2>1. ASSUME NEW i \in DOMAIN rows'
        PROVE  Selected(rows'[i]) /\ ~HandedRow(rows'[i]) /\ rows'[i] # n
    <3>1. i \in 1..(Len(rows) - 1) /\ rows'[i] = rows[i + 1] /\ i + 1 \in DOMAIN rows
      BY <1>1, <1>7
    <3>2. Selected(rows[i + 1]) /\ ~HandedRow(rows[i + 1]) /\ RowBefore(rows[1], rows[i + 1])
      <4>1. 1 \in DOMAIN rows /\ 1 < i + 1
        BY <1>7, <3>1
      <4> QED BY <1>3, <3>1, <4>1 DEF AnswerInv
    <3>3. ~RowBefore(n, n)
      <4>1. snapshot.rows[n].time \in Int /\ n \in Int
        BY RowFacts DEF BackendInv, TypeOK
      <4> QED BY <4>1 DEF RowBefore
    <3> QED BY <1>7, <3>1, <3>2, <3>3
  <2>2. ASSUME NEW i \in DOMAIN rows', NEW j \in DOMAIN rows', i < j
        PROVE  RowBefore(rows'[i], rows'[j])
    <3>1. /\ i \in Int /\ j \in Int /\ rows'[i] = rows[i + 1] /\ rows'[j] = rows[j + 1]
          /\ i + 1 \in DOMAIN rows /\ j + 1 \in DOMAIN rows
      BY <1>1, <1>7
    <3> QED BY <1>3, <2>2, <3>1 DEF AnswerInv
  <2>3. ASSUME NEW k \in DOMAIN snapshot.rows, Asked(k)
        PROVE  HandedRow(k) \/ k = n \/ \E i \in DOMAIN rows' : rows'[i] = k
    <3>1. CASE HandedRow(k)
      BY <3>1
    <3>2. CASE Waiting(k)
      <4>1. PICK i \in DOMAIN rows : rows[i] = k
        BY <3>2 DEF Waiting
      <4>2. CASE i = 1
        BY <1>7, <4>1, <4>2
      <4>3. CASE i # 1
        <5>1. i - 1 \in 1..(Len(rows) - 1)
          BY <1>7, <4>1, <4>3
        <5>2. i - 1 \in DOMAIN rows' /\ rows'[i - 1] = rows[i]
          BY <1>1, <1>7, <5>1
        <5> QED BY <4>1, <5>2
      <4> QED BY <4>2, <4>3
    <3> QED BY <1>3, <2>3, <3>1, <3>2 DEF AnswerInv
  <2>4. rows' \in Seq(DOMAIN snapshot.rows) /\ snapshot' = snapshot
    BY <1>1, <1>7
  <2>5. (\A i, j \in DOMAIN rows : i < j => RowBefore(rows[i], rows[j]))'
    BY ONLY <1>4, <2>2
  <2>6. (\A i \in DOMAIN rows : Selected(rows[i]) /\ ~HandedRow(rows[i]))'
    BY ONLY <1>11, <1>12, <2>1
  <2>7. (\A k \in DOMAIN snapshot.rows : Asked(k) => HandedRow(k) \/ Waiting(k))'
    BY ONLY <1>4, <1>11, <2>3, <2>4 DEF Waiting
  <2> QED BY ONLY <2>4, <2>5, <2>6, <2>7 DEF AnswerInv
<1> QED BY <1>6, <1>10, <1>13 DEF CursorInv

LEMMA CursorNext == BackendInv /\ CursorInv /\ [Next]_vars => CursorInv'
<1> SUFFICES ASSUME BackendInv, CursorInv, [Next]_vars PROVE CursorInv'
  OBVIOUS
<1>0. status # "new" => pc = "open" \/ (pc = "closed" /\ error # "none")
  BY DEF CursorInv, StatementInv
<1>1. CASE Write
  <2>1. UNCHANGED <<backend, cursor>> /\ DOMAIN db.topics \subseteq DOMAIN db'.topics
    BY <1>1, WriteFacts DEF BackendInv
  <2> QED BY <1>0, <2>1, SameCursor DEF backend
<1>2. CASE Opening
  <2>1. UNCHANGED cursor /\ status = "new"
    <3>1. UNCHANGED cursor /\ pc # "open" /\ ~(pc = "closed" /\ error # "none")
      BY <1>2 DEF Opening, BeginOpen, DetectSchema, LoadConnections, LoadMetadata, Throw
    <3> QED BY <1>0, <3>1
  <2> QED BY <2>1, SameCursor
<1>3. CASE StatementFails \/ Close
  <2>1. UNCHANGED cursor /\ pc' = "closed" /\ error' # "none"
    BY <1>3 DEF StatementFails, Close, Throw, CloseTables
  <2> QED BY <2>1, SameCursor
<1>4. CASE Reading \/ StepFails
  BY <1>4, StartInv, StopInv, FirstStepInv, ReadRowInv DEF Reading
<1>5. CASE UNCHANGED vars
  <2>1. UNCHANGED <<cursor, pc, error, connections, db>>
    BY <1>5 DEF vars, file, backend
  <2> QED BY <1>0, <2>1, SameCursor
<1> QED BY <1>1, <1>2, <1>3, <1>4, <1>5 DEF Next, Destroyed

\* The cursor's statement and its answer belong together at every moment.
THEOREM Invariance == Spec => []Inv
<1>1. Init => Inv
  BY BackendInit, CursorInit DEF Inv
<1>2. Inv /\ [Next]_vars => Inv'
  BY BackendNext, CursorNext DEF Inv
<1> QED BY <1>1, <1>2, PTL DEF Spec

\* A cursor that ends without a statement is one whose filter nothing in the database
\* could match, at any time, for any filter and width (sqlite3.cpp:290-299).
THEOREM EmptyAnswers == Spec => []EmptyIsRight
<1>1. Inv => EmptyIsRight
  <2> SUFFICES ASSUME Inv, pc = "open", status = "ended", ~Started, NEW n \in DOMAIN db.rows,
                      db.rows[n].topic \in DOMAIN connections, HasTopic(db.rows[n].topic, connections)
               PROVE  ~ /\ filter.start = NoTime \/ db.rows[n].time >= filter.start
                        /\ filter.stop = NoTime \/ db.rows[n].time < filter.stop
    BY DEF EmptyIsRight
  <2>1. MatchesNothing
    BY DEF Inv, CursorInv, StatementInv
  <2>2. filter \in Filters /\ db.rows[n] \in Rows
    BY RowFacts DEF Inv, BackendInv, TypeOK
  <2> QED BY <2>1, <2>2, NothingAsked
<1> QED BY <1>1, Invariance, PTL

-----------------------------------------------------------------------------
\* The messages of the filter are those of the rows it asks for.
LEMMA WantedFacts ==
  ASSUME NEW m
  PROVE  m \in Wanted <=> \E n \in DOMAIN snapshot.rows : Asked(n) /\ m = Message(n)
BY DEF Wanted, Asked

LEMMA HandedFacts ==
  ASSUME OutInv, NEW n \in DOMAIN snapshot.rows
  PROVE  Message(n) \in Stream!Handed <=> HandedRow(n)
<1>1. Message(n).index = n
  BY DEF Message
<1> QED BY <1>1 DEF OutInv, Stream!Handed, HandedRow

\* A row handed out is the first of the messages that are still asked for.
LEMMA ReadRowDelivers == Inv /\ ReadRow => Stream!Deliver
<1> SUFFICES ASSUME Inv, ReadRow PROVE Stream!Deliver
  OBVIOUS
<1>1. PICK n \in DOMAIN snapshot.rows :
        /\ pc = "open" /\ status \in {"open", "ended"} /\ query # NoQuery /\ stepped
        /\ UNCHANGED <<filter, status, query, snapshot>>
        /\ snapshot.rows[n].topic \in DOMAIN connections
        /\ rows # <<>> /\ n = Head(rows) /\ out' = Append(out, Message(n))
  BY DEF ReadRow, Row, Callable, Acceptable
<1>2. Started /\ Running /\ OutInv /\ AnswerInv
  BY <1>1 DEF Inv, CursorInv, StatementInv, Running
<1>3. Started' = Started /\ Wanted' = Wanted
  BY <1>1, SameSnapshot
<1>4. StreamStatus = "open" /\ StreamStatus' = "open"
  BY <1>1, <1>2, <1>3 DEF StreamStatus, Running
<1>5. rows \in Seq(DOMAIN snapshot.rows) /\ Len(rows) \in Nat \ {0} /\ DOMAIN rows = 1..Len(rows) /\ rows[1] = n
  BY <1>1, <1>2 DEF AnswerInv
<1>6. Selected(n) /\ ~HandedRow(n)
  BY <1>2, <1>5 DEF AnswerInv
<1>7. Selecting
  BY <1>1, <1>2 DEF Inv, BackendInv, CursorInv, StatementInv, Selecting
<1>8. Asked(n)
  BY <1>1, <1>6, <1>7, SelectedAsked DEF SelectsAsked
<1>9. Message(n) \in Wanted \ Stream!Handed
  BY <1>2, <1>6, <1>8, WantedFacts, HandedFacts
<1>10. ASSUME NEW m \in Wanted \ Stream!Handed, m # Message(n) PROVE Stream!Precedes(Message(n), m)
  <2>1. PICK k \in DOMAIN snapshot.rows : Asked(k) /\ m = Message(k)
    BY WantedFacts
  <2>2. ~HandedRow(k)
    BY <1>2, <2>1, HandedFacts
  <2>3. PICK i \in DOMAIN rows : rows[i] = k
    BY <1>2, <2>1, <2>2 DEF AnswerInv, Waiting
  <2>4. 1 < i /\ 1 \in DOMAIN rows
    BY <1>5, <1>10, <2>1, <2>3
  <2>5. RowBefore(n, k)
    BY <1>2, <1>5, <2>3, <2>4 DEF AnswerInv
  <2> QED BY <2>1, <2>5 DEF RowBefore, Message, Stream!Precedes
<1> QED BY <1>1, <1>2, <1>3, <1>4, <1>9, <1>10 DEF Stream!Deliver

\* A statement that has no more rows has handed out all that was asked for.
LEMMA EndOfRowsEnds == Inv /\ EndOfRows => Stream!End
<1> SUFFICES ASSUME Inv, EndOfRows PROVE Stream!End
  OBVIOUS
<1>1. /\ pc = "open" /\ status \in {"open", "ended"} /\ query # NoQuery /\ stepped /\ rows = <<>>
      /\ query' = NoQuery /\ status' = "ended" /\ UNCHANGED <<filter, snapshot, out>>
  BY DEF EndOfRows, Callable
<1>2. Started /\ Running /\ OutInv /\ AnswerInv
  BY <1>1 DEF Inv, CursorInv, StatementInv, Running
<1>3. Started' = Started /\ Wanted' = Wanted
  BY <1>1, SameSnapshot
<1>4. StreamStatus = "open" /\ StreamStatus' = "ended"
  BY <1>1, <1>2 DEF StreamStatus, Running
<1>5. \A n : ~Waiting(n)
  BY <1>1 DEF Waiting
<1>6. Wanted \subseteq Stream!Handed
  <2> SUFFICES ASSUME NEW m \in Wanted PROVE m \in Stream!Handed
    OBVIOUS
  <2>1. PICK n \in DOMAIN snapshot.rows : Asked(n) /\ m = Message(n)
    BY WantedFacts
  <2>2. HandedRow(n)
    BY <1>2, <1>5, <2>1 DEF AnswerInv
  <2> QED BY <1>2, <2>1, <2>2, HandedFacts
<1> QED BY <1>1, <1>2, <1>3, <1>4, <1>6 DEF Stream!End

\* The other steps of the cursor: it is made when its statement is stepped first, or when it
\* is to have none.
LEMMA OtherSteps ==
  Inv /\ (StartCursor \/ StartFails \/ FirstStep \/ NextOfNothing \/ RowFails \/ StepFails)
    => Stream!Create \/ Stream!End \/ Stream!Fail \/ UNCHANGED Stream!vars
<1> SUFFICES ASSUME Inv, StartCursor \/ StartFails \/ FirstStep \/ NextOfNothing \/ RowFails \/ StepFails
             PROVE  Stream!Create \/ Stream!End \/ Stream!Fail \/ UNCHANGED Stream!vars
  OBVIOUS
<1>1. CASE StartCursor \/ StartFails
  <2>1. /\ status = "new" /\ UNCHANGED <<filter, snapshot, out>> /\ query = NoQuery /\ ~Started
        /\ status' \in {"open", "failed"}
    BY <1>1 DEF StartCursor, StartFails, Inv, CursorInv, StatementInv, Fresh, Started, NoSnapshot
  <2>2. ~Started' /\ StreamStatus = "new"
    BY <2>1 DEF StreamStatus, Started
  <2>3. StreamStatus' \in {"new", "open", "failed"}
    BY <2>1 DEF StreamStatus
  <2> QED BY <2>1, <2>2, <2>3 DEF Stream!Create, Stream!vars
<1>2. CASE FirstStep
  <2>1. /\ status \in {"open", "ended"} /\ query # NoQuery /\ ~stepped
        /\ UNCHANGED <<status, query, out>> /\ Started'
    BY <1>2 DEF FirstStep, Callable, Started
  <2>2. status = "open" /\ ~Started
    BY <2>1 DEF Inv, CursorInv, StatementInv
  <2>3. StreamStatus = "new" /\ StreamStatus' = "open"
    BY <2>1, <2>2 DEF StreamStatus
  <2> QED BY <2>1, <2>3 DEF Stream!Create
<1>3. CASE NextOfNothing
  <2>1. status \in {"open", "ended"} /\ query = NoQuery /\ status' = "ended" /\ UNCHANGED <<filter, query, snapshot, out>>
    BY <1>3 DEF NextOfNothing, Callable
  <2>2. Started' = Started /\ Wanted' = Wanted
    BY <2>1, SameSnapshot
  <2>3. StreamStatus = status /\ StreamStatus' = "ended"
    BY <2>1 DEF StreamStatus
  <2>4. CASE status = "ended"
    BY <2>1, <2>2, <2>3, <2>4 DEF Stream!vars
  <2>5. CASE status = "open"
    <3>1. ~Started
      BY <2>1, <2>5 DEF Inv, CursorInv, StatementInv
    <3> QED BY <2>1, <2>2, <2>3, <2>5, <3>1 DEF Stream!End
  <2> QED BY <2>1, <2>4, <2>5
<1>4. CASE RowFails \/ StepFails
  <2>1. /\ status \in {"open", "ended"} /\ query # NoQuery /\ status' = "failed"
        /\ UNCHANGED <<filter, query, snapshot, out>>
    BY <1>4 DEF RowFails, StepFails, Row, Callable
  <2>2. Started' = Started /\ Wanted' = Wanted
    BY <2>1, SameSnapshot
  <2>3. status = "open" /\ StreamStatus' = "failed"
    BY <2>1 DEF Inv, CursorInv, StatementInv, StreamStatus
  <2>4. CASE Started
    <3>1. StreamStatus = "open"
      BY <2>3, <2>4 DEF StreamStatus
    <3> QED BY <2>1, <2>2, <2>3, <2>4, <3>1 DEF Stream!Fail
  <2>5. CASE ~Started
    <3>1. StreamStatus = "new"
      BY <2>1, <2>3, <2>5 DEF StreamStatus
    <3> QED BY <2>1, <2>3, <3>1 DEF Stream!Create
  <2> QED BY <2>4, <2>5
<1> QED BY <1>1, <1>2, <1>3, <1>4

\* Steps that are not the cursor's change nothing of the stream.
LEMMA CursorStutters == UNCHANGED cursor => UNCHANGED Stream!vars
<1> SUFFICES ASSUME UNCHANGED cursor PROVE UNCHANGED Stream!vars
  OBVIOUS
<1>1. UNCHANGED <<filter, status, query, snapshot, out>>
  BY DEF cursor
<1>2. Started' = Started /\ Wanted' = Wanted
  BY <1>1, SameSnapshot
<1> QED BY <1>1, <1>2 DEF Stream!vars, StreamStatus

\* The cursor is a MessageStream over one moment of the database, for any database,
\* writers, filters and width (sqlite3.cpp:289-341).
THEOREM Refinement == Spec => MergesStably
<1>1. Init => Stream!Init
  BY DEF Init, Stream!Init, Started, NoSnapshot, StreamStatus
<1>2. Inv /\ [Next]_vars => [Stream!Next]_(Stream!vars)
  <2> SUFFICES ASSUME Inv, [Next]_vars PROVE Stream!Next \/ UNCHANGED Stream!vars
    OBVIOUS
  <2>1. CASE Write \/ Opening \/ StatementFails \/ Close \/ UNCHANGED vars
    <3>1. UNCHANGED cursor
      BY <2>1, Zenon DEF Write, Opening, BeginOpen, DetectSchema, LoadConnections, LoadMetadata, StatementFails,
                  Close, Throw, vars
    <3> QED BY <3>1, CursorStutters
  <2>2. CASE ReadRow
    BY <2>2, ReadRowDelivers DEF Stream!Next
  <2>3. CASE EndOfRows
    BY <2>3, EndOfRowsEnds DEF Stream!Next
  <2>4. CASE StartCursor \/ StartFails \/ FirstStep \/ NextOfNothing \/ RowFails \/ StepFails
    BY <2>4, OtherSteps DEF Stream!Next
  <2> QED BY <2>1, <2>2, <2>3, <2>4 DEF Next, Reading, Destroyed
<1> QED BY <1>1, <1>2, Invariance, PTL DEF Spec, MergesStably, Stream!Spec
===============================================================================
