---------------------------- MODULE Rosbag1Proofs ----------------------------
(***************************************************************************)
(* Proofs about the ROS1 backend for any bags and any budgets: open() is   *)
(* all or nothing, the arithmetic of its budgets never wraps, and the      *)
(* cursor changes nothing of the index and keeps one chunk at most.        *)
(* An open bag has what it announced, the whole index of each connection   *)
(* in order, and never more of both than the budget allows; and a cursor   *)
(* on it hands out what the filter asks for as a MessageStream.            *)
(***************************************************************************)
EXTENDS Rosbag1Cursor, DataLemmas

USE BagsAssumption, SizesAssumption

EntryType == [time : Nat, chunk : Nat, offset : Nat]

\* Where a call of open() is, and what it has not begun to fill.
PhaseInv ==
  /\ pc \in {"idle", "destroyed", "header", "connections", "infos", "chunks"}
  /\ pc # "idle" => ~open_
  /\ pc \in {"header", "connections", "infos", "chunks"} => bag \in Bags
  /\ pc \in {"header", "connections"} => expected = Nothing /\ expected_total = 0
  /\ pc \in {"header", "connections", "infos"} => indexes = Nothing
  /\ pc = "chunks" => indexes \in [DOMAIN expected -> Seq(EntryType)]

\* The totals and the counts of the connections are numbers.
NumbersInv ==
  /\ connections \in Seq(Nat)
  /\ expected_total \in 0..MaxMessages
  /\ index_bytes \in 0..MaxIndexBytes
  /\ expected \in [DOMAIN expected -> Nat]

\* The chunks kept are as many as were read, and of the bag.
LoopInv ==
  /\ pc \in {"header", "connections"} => chunk_infos = 0
  /\ pc = "infos" => at = chunk_infos + 1
  /\ pc \in {"infos", "chunks"} => chunk_infos \in 0..Len(bag.infos)

IInv == PhaseInv /\ LoopInv /\ NumbersInv /\ ChargesExact /\ AllOrNothing

-----------------------------------------------------------------------------
\* A count that passes both checks fits what is left of both limits.
LEMMA CountFits ==
  ASSUME expected_total \in 0..MaxMessages, index_bytes \in 0..MaxIndexBytes,
         NEW n \in Nat, FitsFile(n), FitsIndex(n)
  PROVE  /\ expected_total + n <= MaxMessages
         /\ index_bytes + n * EntryBytes <= MaxIndexBytes
<1>1. expected_total + n <= MaxMessages
  BY DEF FitsFile, Minus
<1> DEFINE left == MaxIndexBytes - index_bytes
<1>2. left \in Nat /\ n <= left \div EntryBytes
  BY DEF FitsIndex, Minus
<1>3. EntryBytes \in Nat \ {0}
  OBVIOUS
<1> HIDE DEF left
<1>4. left \div EntryBytes \in Nat /\ (left \div EntryBytes) * EntryBytes <= left
  BY ONLY <1>2, <1>3, SMT
<1>5. n * EntryBytes <= (left \div EntryBytes) * EntryBytes
  <2>1. ASSUME NEW a \in Nat, NEW b \in Nat, NEW c \in Nat, a <= b PROVE a * c <= b * c
    BY ONLY <2>1, SMT
  <2>2. QED
    BY ONLY <1>2, <1>3, <1>4, <2>1
<1>6. n * EntryBytes \in Nat /\ (left \div EntryBytes) * EntryBytes \in Nat
  BY ONLY <1>2, <1>3, <1>4, SMT
<1>7. n * EntryBytes <= left
  BY ONLY <1>2, <1>4, <1>5, <1>6, SMT
<1>8. QED
  BY <1>1, <1>6, <1>7, SMTT(20) DEF left

\* The chunk records of a bag that passes the first check fit the budget.
LEMMA ChunksFit ==
  ASSUME NEW n \in Nat, ~(n > MaxIndexBytes \div ChunkBytes)
  PROVE  n * ChunkBytes \in 0..MaxIndexBytes
<1>1. ChunkBytes \in Nat \ {0} /\ MaxIndexBytes \in Nat
  OBVIOUS
<1>2. MaxIndexBytes \div ChunkBytes \in Nat /\ (MaxIndexBytes \div ChunkBytes) * ChunkBytes <= MaxIndexBytes
  BY ONLY <1>1, SMT
<1>3. n <= MaxIndexBytes \div ChunkBytes
  BY <1>2
<1>4. ASSUME NEW a \in Nat, NEW b \in Nat, NEW c \in Nat, a <= b PROVE a * c <= b * c
  BY ONLY <1>4, SMT
<1>5. n * ChunkBytes <= (MaxIndexBytes \div ChunkBytes) * ChunkBytes
  BY <1>1, <1>2, <1>3, <1>4
<1>6. n * ChunkBytes \in Nat /\ (MaxIndexBytes \div ChunkBytes) * ChunkBytes \in Nat
  BY ONLY <1>1, <1>2, SMT
<1>7. QED
  BY ONLY <1>1, <1>2, <1>5, <1>6, SMT

\* The elements of a sequence.
LEMMA ElementsOf ==
  \A S : \A s \in Seq(S) :
    /\ Len(s) \in Nat /\ DOMAIN s = 1..Len(s)
    /\ \A i \in DOMAIN s : s[i] \in S
OBVIOUS

\* A bag with all its parts.
LEMMA BagParts ==
  ASSUME NEW b \in Bags
  PROVE  /\ Len(b.infos) \in Nat /\ DOMAIN b.infos = 1..Len(b.infos)
         /\ DOMAIN b.data = 1..Len(b.infos) /\ DOMAIN b.chunks = 1..Len(b.infos)
         /\ \A i \in DOMAIN b.conns : b.conns[i].id \in Nat
         /\ \A i \in DOMAIN b.infos :
              /\ b.infos[i].start \in Nat /\ b.infos[i].end \in Nat
              /\ Len(b.infos[i].counts) \in Nat /\ DOMAIN b.infos[i].counts = 1..Len(b.infos[i].counts)
              /\ \A j \in DOMAIN b.infos[i].counts : b.infos[i].counts[j].messages \in Nat
         /\ \A i \in DOMAIN b.data :
              /\ Len(b.data[i]) \in Nat /\ DOMAIN b.data[i] = 1..Len(b.data[i])
              /\ \A j \in DOMAIN b.data[i] : b.data[i][j].entries \in Seq([time : Nat, offset : Nat])
         /\ \A i \in DOMAIN b.chunks : b.chunks[i].records \in Seq(Records)
<1> DEFINE ConnRecord == [id : Nat, latching : {"none", "number", "text"}]
           CountRecord == [id : Nat, messages : Nat]
           InfoRecord == [start : Nat, end : Nat, counts : Seq(CountRecord)]
           EntryRecord == [time : Nat, offset : Nat]
           DataRecord == [id : Nat, entries : Seq(EntryRecord)]
<1>1. /\ b.conns \in Seq(ConnRecord) /\ b.infos \in Seq(InfoRecord) /\ b.chunks \in Seq(Chunks)
      /\ b.data \in Seq(Seq(DataRecord)) /\ Len(b.data) = Len(b.infos) /\ Len(b.chunks) = Len(b.infos)
  BY DEF BagType
<1>2. \A c \in ConnRecord : c.id \in Nat
  OBVIOUS
<1>3. \A c \in CountRecord : c.messages \in Nat
  OBVIOUS
<1>4. \A i \in InfoRecord : i.counts \in Seq(CountRecord) /\ i.start \in Nat /\ i.end \in Nat
  OBVIOUS
<1>5. \A d \in DataRecord : d.entries \in Seq(EntryRecord)
  OBVIOUS
<1>11. \A c \in Chunks : c.records \in Seq(Records)
  BY DEF Chunks
<1> HIDE DEF ConnRecord, CountRecord, InfoRecord, EntryRecord, DataRecord
<1>6. /\ Len(b.infos) \in Nat /\ DOMAIN b.infos = 1..Len(b.infos)
      /\ DOMAIN b.data = 1..Len(b.infos) /\ DOMAIN b.chunks = 1..Len(b.infos)
  BY ONLY <1>1, ElementsOf
<1>7. \A i \in DOMAIN b.conns : b.conns[i].id \in Nat
  BY ONLY <1>1, <1>2, ElementsOf
<1>8. ASSUME NEW i \in DOMAIN b.infos
      PROVE  /\ b.infos[i].start \in Nat /\ b.infos[i].end \in Nat
             /\ Len(b.infos[i].counts) \in Nat /\ DOMAIN b.infos[i].counts = 1..Len(b.infos[i].counts)
             /\ \A j \in DOMAIN b.infos[i].counts : b.infos[i].counts[j].messages \in Nat
  <2>1. b.infos[i] \in InfoRecord
    BY ONLY <1>1, ElementsOf, i \in DOMAIN b.infos
  <2>2. b.infos[i].counts \in Seq(CountRecord) /\ b.infos[i].start \in Nat /\ b.infos[i].end \in Nat
    BY ONLY <1>4, <2>1
  <2>3. QED
    BY ONLY <1>3, <2>2, ElementsOf
<1>9. ASSUME NEW i \in DOMAIN b.data
      PROVE  /\ Len(b.data[i]) \in Nat /\ DOMAIN b.data[i] = 1..Len(b.data[i])
             /\ \A j \in DOMAIN b.data[i] : b.data[i][j].entries \in Seq(EntryRecord)
  <2>1. b.data[i] \in Seq(DataRecord)
    BY ONLY <1>1, ElementsOf, i \in DOMAIN b.data
  <2>2. QED
    BY ONLY <1>5, <2>1, ElementsOf
<1>12. \A i \in DOMAIN b.chunks : b.chunks[i].records \in Seq(Records)
  BY ONLY <1>1, <1>11, ElementsOf
<1>10. QED
  BY <1>6, <1>7, <1>8, <1>9, <1>12 DEF EntryRecord

\* Sorting an index does not change how long it is.
LEMMA SortKeepsLength ==
  ASSUME NEW s \in Seq(EntryType)
  PROVE  Len(Sorted(s)) = Len(s)
<1> DEFINE t == Sorted(s)
<1>1. DOMAIN s = 1..Len(s) /\ Len(s) \in Nat
  OBVIOUS
<1>2. t \in [1..Len(s) -> {t[n] : n \in 1..Len(s)}]
  BY <1>1 DEF Sorted
<1> HIDE DEF t
<1>3. t \in Seq({t[n] : n \in 1..Len(s)})
  BY ONLY <1>1, <1>2
<1>4. DOMAIN t = 1..Len(s) /\ DOMAIN t = 1..Len(t) /\ Len(t) \in Nat
  BY ONLY <1>2, <1>3
<1>5. Len(t) = Len(s)
  BY ONLY <1>1, <1>4, SMT
<1>6. QED
  BY <1>5 DEF t

-----------------------------------------------------------------------------
\* close() and every failure leave nothing behind.
LEMMA ClearedInv ==
  ASSUME Cleared, pc' \in {"idle", "destroyed", "header"}, pc' = "header" => bag' \in Bags
  PROVE  IInv'
<1>1. DOMAIN Nothing = {} /\ Nothing \in [{} -> Nat] /\ <<>> \in Seq(Nat)
  BY DEF Nothing
<1>2. PhaseInv'
  BY DEF PhaseInv, Cleared
<1>7. LoopInv'
  BY DEF LoopInv, Cleared
<1>3. NumbersInv'
  BY <1>1 DEF NumbersInv, Cleared
<1>4. ChargesExact'
  BY <1>1 DEF ChargesExact, Cleared
<1>5. AllOrNothing'
  BY DEF AllOrNothing, Cleared
<1>6. QED
  BY <1>2, <1>3, <1>4, <1>5, <1>7 DEF IInv

\* A backend that was never opened has nothing.
LEMMA InitInv == Init => IInv
<1> SUFFICES ASSUME Init PROVE IInv
  OBVIOUS
<1>1. DOMAIN Nothing = {} /\ Nothing \in [{} -> Nat] /\ <<>> \in Seq(Nat)
  BY DEF Nothing
<1>2. PhaseInv
  BY DEF PhaseInv, Init
<1>7. LoopInv
  BY DEF LoopInv, Init
<1>3. NumbersInv
  BY <1>1 DEF NumbersInv, Init
<1>4. ChargesExact
  BY <1>1 DEF ChargesExact, Init
<1>5. AllOrNothing
  BY DEF AllOrNothing, Init
<1>6. QED
  BY <1>2, <1>3, <1>4, <1>5, <1>7 DEF IInv

\* The calls that begin and end with nothing.
LEMMA CallsInv == IInv /\ (BeginOpen \/ Close \/ Destroy \/ BadRecord) => IInv'
<1>1. BeginOpen => IInv'
  BY ClearedInv DEF BeginOpen, Goto
<1>2. IInv /\ Close => IInv'
  BY ClearedInv DEF Close, loops
<1>3. Destroy => IInv'
  BY ClearedInv DEF Destroy
<1>4. BadRecord => IInv'
  BY ClearedInv DEF BadRecord, Throw
<1>5. QED
  BY <1>1, <1>2, <1>3, <1>4

LEMMA ThrowInv == ASSUME NEW kind, Throw(kind) PROVE IInv'
BY ClearedInv DEF Throw

\* The header charges the chunk records.
LEMMA HeaderInv == IInv /\ Header => IInv'
<1> SUFFICES ASSUME IInv, Header PROVE IInv'
  OBVIOUS
<1>1. CASE Len(bag.infos) > MaxIndexBytes \div ChunkBytes
  BY <1>1, ThrowInv DEF Header
<1>2. CASE ~(Len(bag.infos) > MaxIndexBytes \div ChunkBytes)
  <2>1. /\ pc = "header" /\ pc' = "connections" /\ index_bytes' = Len(bag.infos) * ChunkBytes
        /\ UNCHANGED <<bag, open_, connections, indexes, expected, expected_total>>
    BY <1>2 DEF Header, Goto, tables
  <2>2. /\ bag \in Bags /\ ~open_ /\ expected = Nothing /\ expected_total = 0 /\ indexes = Nothing
    BY <2>1 DEF IInv, PhaseInv
  <2>3. Len(bag.infos) \in Nat
    BY <2>2, BagParts
  <2>4. index_bytes' \in 0..MaxIndexBytes
    BY <1>2, <2>1, <2>3, ChunksFit
  <2>5. PhaseInv'
    BY <2>1, <2>2 DEF PhaseInv
  <2>10. LoopInv'
    BY <1>2, <2>1 DEF IInv, LoopInv, Header, Goto, tables
  <2>6. NumbersInv'
    BY <2>1, <2>4 DEF IInv, NumbersInv
  <2>7. ChargesExact'
    <3>1. Len(bag.infos) * ChunkBytes + 0 * EntryBytes = Len(bag.infos) * ChunkBytes
      BY <2>3
    <3>2. DOMAIN Nothing = {}
      BY DEF Nothing
    <3>3. expected_total' = 0 /\ expected' = Nothing /\ indexes' = Nothing /\ bag' = bag
      BY <2>1, <2>2
    <3>4. QED
      BY <2>1, <2>4, <3>1, <3>2, <3>3 DEF ChargesExact
  <2>8. AllOrNothing'
    BY <2>1 DEF AllOrNothing
  <2>9. QED
    BY <2>5, <2>6, <2>7, <2>8, <2>10 DEF IInv
<1>3. QED
  BY <1>1, <1>2

\* A connection record adds a connection, before anything refers to one.
LEMMA ReadConnectionInv == IInv /\ ReadConnection => IInv'
<1> SUFFICES ASSUME IInv, ReadConnection PROVE IInv'
  OBVIOUS
<1> DEFINE id == bag.conns[at].id
<1>1. CASE bag.conns[at].latching = "text" \/ id \in Ids
  BY <1>1, ThrowInv DEF ReadConnection
<1>2. CASE ~(bag.conns[at].latching = "text" \/ id \in Ids)
  <2>1. /\ pc = "connections" /\ at \in DOMAIN bag.conns
        /\ connections' = Append(connections, id)
        /\ UNCHANGED <<bag, open_, indexes, expected, expected_total, index_bytes, pc>>
    BY <1>2 DEF ReadConnection, totals
  <2>2. bag \in Bags /\ ~open_ /\ expected = Nothing /\ expected_total = 0 /\ indexes = Nothing
    BY <2>1 DEF IInv, PhaseInv
  <2>3. id \in Nat
    BY <2>1, <2>2, BagParts
  <2>4. PhaseInv'
    BY <2>1 DEF IInv, PhaseInv
  <2>10. LoopInv'
    BY <1>2, <2>1 DEF IInv, LoopInv, ReadConnection
  <2>5. connections' \in Seq(Nat)
    BY <2>1, <2>3 DEF IInv, NumbersInv
  <2>6. NumbersInv'
    BY <2>1, <2>5 DEF IInv, NumbersInv
  <2>7. ChargesExact'
    <3>1. DOMAIN Nothing = {}
      BY DEF Nothing
    <3>2. expected' = Nothing /\ indexes' = Nothing
      BY <2>1, <2>2
    <3>3. QED
      BY <2>1, <3>1, <3>2 DEF IInv, ChargesExact
  <2>8. AllOrNothing'
    BY <2>1 DEF AllOrNothing
  <2>9. QED
    BY <2>4, <2>6, <2>7, <2>8, <2>10 DEF IInv
<1>3. QED
  BY <1>1, <1>2

\* A count that is accepted is charged to the connection and to both totals.
LEMMA ReadCountInv == IInv /\ ReadCount => IInv'
<1> SUFFICES ASSUME IInv, ReadCount PROVE IInv'
  OBVIOUS
<1> DEFINE counts == bag.infos[at].counts
           id == counts[sub].id
           messages == counts[sub].messages
           before == IF id \in DOMAIN expected THEN expected[id] ELSE 0
           refused == Len(counts) > Len(bag.conns) \/ id \notin Ids \/ ~FitsFile(messages)
<1>1. CASE refused \/ ~FitsIndex(messages)
  BY <1>1, ThrowInv DEF ReadCount
<1>2. CASE ~refused /\ FitsIndex(messages)
  <2>1. /\ pc = "infos" /\ at \in DOMAIN bag.infos /\ sub \in DOMAIN counts
        /\ id \in Ids /\ FitsFile(messages)
        /\ expected' = With(expected, id, before + messages)
        /\ expected_total' = expected_total + messages
        /\ index_bytes' = index_bytes + messages * EntryBytes
        /\ UNCHANGED <<bag, open_, connections, indexes, pc>>
    BY <1>2 DEF ReadCount, tables
  <2>2. bag \in Bags /\ ~open_ /\ indexes = Nothing
    BY <2>1 DEF IInv, PhaseInv
  <2>3. messages \in Nat /\ Len(bag.infos) \in Nat
    BY <2>1, <2>2, BagParts
  <2>4. /\ expected_total \in 0..MaxMessages /\ index_bytes \in 0..MaxIndexBytes
        /\ expected \in [DOMAIN expected -> Nat]
        /\ index_bytes = Len(bag.infos) * ChunkBytes + expected_total * EntryBytes
        /\ \A x \in DOMAIN expected : x \in Ids /\ expected[x] <= expected_total
    BY <2>1 DEF IInv, NumbersInv, ChargesExact
  <2>5. EntryBytes \in Nat /\ ChunkBytes \in Nat /\ MaxMessages \in Nat /\ MaxIndexBytes \in Nat
    OBVIOUS
  <2>6. /\ expected_total + messages <= MaxMessages
        /\ index_bytes + messages * EntryBytes <= MaxIndexBytes
    BY <1>2, <2>1, <2>3, <2>4, CountFits
  <2>7. before \in Nat /\ before <= expected_total
    <3>1. expected_total \in Nat
      BY ONLY <2>4, <2>5
    <3>2. CASE id \in DOMAIN expected
      <4>1. expected[id] \in Nat /\ expected[id] <= expected_total
        BY ONLY <2>4, <3>2
      <4>2. QED
        BY ONLY <3>2, <4>1
    <3>3. CASE id \notin DOMAIN expected
      BY ONLY <3>1, <3>3
    <3>4. QED
      BY ONLY <3>2, <3>3
  <2>8. /\ DOMAIN expected' = DOMAIN expected \cup {id}
        /\ \A x \in DOMAIN expected' :
             expected'[x] = IF x = id THEN before + messages ELSE expected[x]
        /\ expected' \in [DOMAIN expected' -> Nat]
    <3> HIDE DEF counts, id, messages, before, refused
    <3>1. before + messages \in Nat
      BY ONLY <2>3, <2>7
    <3>2. expected' = [x \in DOMAIN expected \cup {id} |->
                         IF x = id THEN before + messages ELSE expected[x]]
      BY <2>1 DEF With
    <3>3. \A x \in DOMAIN expected : expected[x] \in Nat
      BY <2>4
    <3>4. QED
      BY ONLY <3>1, <3>2, <3>3
  <2> HIDE DEF counts, id, messages, before, refused
  <2>9. PhaseInv'
    BY <2>1, <2>2 DEF PhaseInv
  <2>14. LoopInv'
    <3>1. UNCHANGED <<chunk_infos, at>>
      BY <1>2 DEF ReadCount, tables, refused, counts, id, messages, before
    <3>2. QED
      BY <2>1, <3>1 DEF IInv, LoopInv
  <2>10. NumbersInv'
    <3>1. messages * EntryBytes \in Nat
      BY ONLY <2>3, <2>5, SMT
    <3>5. \A a, b, m \in Nat : a + b <= m => a + b \in 0..m
      OBVIOUS
    <3>6. index_bytes \in Nat /\ expected_total \in Nat
      BY ONLY <2>4, <2>5
    <3>2. index_bytes' \in 0..MaxIndexBytes /\ expected_total' \in 0..MaxMessages
      <4>1. index_bytes + messages * EntryBytes \in 0..MaxIndexBytes
        BY ONLY <2>5, <2>6, <3>1, <3>5, <3>6, Zenon
      <4>2. expected_total + messages \in 0..MaxMessages
        BY ONLY <2>3, <2>5, <2>6, <3>5, <3>6, Zenon
      <4>3. QED
        BY ONLY <2>1, <4>1, <4>2, Zenon
    <3>3. connections' \in Seq(Nat)
      BY <2>1 DEF IInv, NumbersInv
    <3>4. QED
      BY <2>8, <3>2, <3>3 DEF NumbersInv
  <2>11. ChargesExact'
    <3>1. index_bytes' = Len(bag.infos) * ChunkBytes + expected_total' * EntryBytes
      <4>1. ASSUME NEW a \in Nat, NEW b \in Nat, NEW c \in Nat
            PROVE  (a + b) * c = a * c + b * c /\ a * c \in Nat /\ b * c \in Nat
        BY ONLY SMT
      <4>2. expected_total \in Nat
        BY ONLY <2>4, <2>5
      <4>3. /\ (expected_total + messages) * EntryBytes = expected_total * EntryBytes + messages * EntryBytes
            /\ expected_total * EntryBytes \in Nat /\ messages * EntryBytes \in Nat
        BY ONLY <2>3, <2>5, <4>1, <4>2
      <4>4. Len(bag.infos) * ChunkBytes \in Nat
        BY ONLY <2>3, <2>5, SMT
      <4>5. QED
        BY ONLY <2>1, <2>4, <4>3, <4>4, SMT
    <3>2. expected_total' <= MaxMessages /\ index_bytes' <= MaxIndexBytes
      BY ONLY <2>1, <2>6
    <3>3. \A x \in DOMAIN expected' : x \in Ids /\ expected'[x] <= expected_total'
      <4> SUFFICES ASSUME NEW x \in DOMAIN expected' PROVE x \in Ids /\ expected'[x] <= expected_total'
        OBVIOUS
      <4>0. expected_total \in Nat /\ expected_total' = expected_total + messages
        BY ONLY <2>1, <2>4, <2>5
      <4>1. CASE x = id
        BY ONLY <2>1, <2>3, <2>7, <2>8, <4>0, <4>1
      <4>2. CASE x # id
        <5>1. x \in DOMAIN expected /\ expected'[x] = expected[x] /\ expected[x] \in Nat
          BY <2>4, <2>8, <4>2
        <5>2. x \in Ids /\ expected[x] <= expected_total
          BY ONLY <2>4, <5>1
        <5>3. QED
          BY ONLY <2>3, <4>0, <5>1, <5>2
      <4>3. QED
        BY ONLY <4>1, <4>2
    <3>4. Ids' = Ids /\ bag' = bag
      BY <2>1 DEF Ids
    <3>5. DOMAIN indexes' = {}
      BY <2>1, <2>2 DEF Nothing
    <3>6. QED
      BY <3>1, <3>2, <3>3, <3>4, <3>5 DEF ChargesExact
  <2>12. AllOrNothing'
    BY <2>1 DEF AllOrNothing
  <2>13. QED
    BY <2>9, <2>10, <2>11, <2>12, <2>14 DEF IInv
<1>3. QED
  BY <1>1, <1>2

\* The steps between the loops and the chunk headers change no count.
LEMMA LoopsInv == IInv /\ (ConnectionsRead \/ InfoRead \/ ReadChunk \/ ChunkRead) => IInv'
<1> SUFFICES ASSUME IInv, ConnectionsRead \/ InfoRead \/ ReadChunk \/ ChunkRead PROVE IInv'
  OBVIOUS
<1>1. /\ UNCHANGED <<bag, open_, connections, expected, expected_total, index_bytes, indexes>>
      /\ pc' \in {"infos", "chunks"}
      /\ pc' = pc \/ (pc = "connections" /\ pc' = "infos")
  BY DEF ConnectionsRead, InfoRead, ReadChunk, ChunkRead, Goto, NextInfo, tables, totals, loops
<1>2. PhaseInv'
  BY <1>1 DEF IInv, PhaseInv
<1>7. LoopInv'
  <2>1. CASE ConnectionsRead
    <3>1. pc = "connections" /\ pc' = "infos" /\ at' = 1 /\ chunk_infos' = chunk_infos /\ bag \in Bags
      BY <2>1 DEF ConnectionsRead, Goto, tables, IInv, PhaseInv
    <3>2. QED
      BY <1>1, <3>1, BagParts DEF IInv, LoopInv
  <2>2. CASE InfoRead
    <3>1. /\ pc = "infos" /\ pc' = "infos" /\ at' = at + 1 /\ chunk_infos' = chunk_infos + 1
          /\ at \in DOMAIN bag.infos /\ bag \in Bags
      BY <2>2 DEF InfoRead, NextInfo, IInv, PhaseInv
    <3>2. at \in 1..Len(bag.infos) /\ Len(bag.infos) \in Nat
      BY <3>1, BagParts
    <3>3. chunk_infos \in 0..Len(bag.infos) /\ at = chunk_infos + 1
      BY <3>1 DEF IInv, LoopInv
    <3>4. QED
      BY <1>1, <3>1, <3>2, <3>3 DEF LoopInv
  <2>3. CASE ReadChunk \/ ChunkRead
    <3>1. pc = "chunks" /\ pc' = "chunks" /\ chunk_infos' = chunk_infos
      BY <2>3 DEF ReadChunk, ChunkRead, tables, loops
    <3>2. QED
      BY <1>1, <3>1 DEF IInv, LoopInv
  <2>4. QED
    BY <2>1, <2>2, <2>3
<1>3. NumbersInv'
  BY <1>1 DEF IInv, NumbersInv
<1>4. ChargesExact'
  <2>1. Ids' = Ids
    BY <1>1 DEF Ids
  <2>2. pc \in {"connections", "infos", "chunks"}
    BY <1>1
  <2>3. QED
    BY <1>1, <2>1, <2>2 DEF IInv, ChargesExact
<1>5. AllOrNothing'
  BY <1>1 DEF AllOrNothing
<1>6. QED
  BY <1>2, <1>3, <1>4, <1>5, <1>7 DEF IInv

\* The indexes begin empty.
LEMMA InfosReadInv == IInv /\ InfosRead => IInv'
<1> SUFFICES ASSUME IInv, InfosRead PROVE IInv'
  OBVIOUS
<1>1. /\ pc = "infos" /\ pc' = "chunks"
      /\ indexes' = [id \in DOMAIN expected |-> <<>>]
      /\ UNCHANGED <<bag, open_, connections, expected, expected_total, index_bytes>>
  BY DEF InfosRead, Goto, totals
<1>2. PhaseInv'
  BY <1>1 DEF IInv, PhaseInv
<1>7. LoopInv'
  BY <1>1 DEF IInv, LoopInv, InfosRead
<1>3. NumbersInv'
  BY <1>1 DEF IInv, NumbersInv
<1>4. ChargesExact'
  <2>1. Ids' = Ids
    BY <1>1 DEF Ids
  <2>2. \A id \in DOMAIN indexes' :
          Len(indexes'[id]) <= IF id \in DOMAIN expected' THEN expected'[id] ELSE 0
    <3>1. Len(<<>>) = 0 /\ \A id \in DOMAIN expected : expected[id] \in Nat
      BY DEF IInv, NumbersInv
    <3>2. QED
      BY <1>1, <3>1
  <2>3. QED
    BY <1>1, <2>1, <2>2 DEF IInv, ChargesExact
<1>5. AllOrNothing'
  BY <1>1 DEF AllOrNothing
<1>6. QED
  BY <1>2, <1>3, <1>4, <1>5, <1>7 DEF IInv

\* Entries go into an index only where room for them was counted.
LEMMA ReadIndexDataInv == IInv /\ ReadIndexData => IInv'
<1> SUFFICES ASSUME IInv, ReadIndexData PROVE IInv'
  OBVIOUS
<1> DEFINE id == bag.data[at][sub].id
           entries == bag.data[at][sub].entries
<1>1. CASE id \notin DOMAIN expected \/ ~Room(id, Len(Entries))
  BY <1>1, ThrowInv DEF ReadIndexData
<1>2. CASE id \in DOMAIN expected /\ Room(id, Len(Entries))
  <2>1. /\ pc = "chunks" /\ at \in 1..chunk_infos
        /\ sub \in DOMAIN bag.data[at]
        /\ indexes' = [indexes EXCEPT ![id] = @ \o Entries]
        /\ UNCHANGED <<bag, open_, connections, expected, expected_total, index_bytes, pc>>
    BY <1>2 DEF ReadIndexData, totals
  <2>2. /\ bag \in Bags /\ ~open_ /\ chunk_infos \in 0..Len(bag.infos)
        /\ indexes \in [DOMAIN expected -> Seq(EntryType)] /\ expected \in [DOMAIN expected -> Nat]
        /\ \A x \in DOMAIN indexes : Len(indexes[x]) <= expected[x]
    BY <2>1 DEF IInv, PhaseInv, LoopInv, NumbersInv, ChargesExact
  <2>3. at \in DOMAIN bag.data /\ at \in Nat
    BY <2>1, <2>2, BagParts
  <2>4. entries \in Seq([time : Nat, offset : Nat])
    BY <2>1, <2>2, <2>3, BagParts
  <2>5. Entries \in Seq(EntryType)
    <3>1. Entries = [n \in DOMAIN entries |-> [time |-> entries[n].time, chunk |-> at, offset |-> entries[n].offset]]
      BY DEF Entries
    <3> HIDE DEF entries
    <3>2. /\ DOMAIN entries = 1..Len(entries) /\ Len(entries) \in Nat
          /\ \A n \in DOMAIN entries : entries[n] \in [time : Nat, offset : Nat]
      BY ONLY <2>4, ElementsOf
    <3>3. \A n \in DOMAIN entries : [time |-> entries[n].time, chunk |-> at, offset |-> entries[n].offset] \in EntryType
      BY <2>3, <3>2 DEF EntryType
    <3>4. Entries \in [1..Len(entries) -> EntryType]
      BY ONLY <3>1, <3>2, <3>3
    <3>5. QED
      BY ONLY <3>2, <3>4
  <2>6. Len(Entries) <= expected[id] - Len(indexes[id])
    <3>1. id \in DOMAIN indexes /\ indexes[id] \in Seq(EntryType) /\ expected[id] \in Nat
      BY <1>2, <2>2
    <3>2. Len(indexes[id]) \in Nat /\ Len(indexes[id]) <= expected[id]
      BY <2>2, <3>1
    <3>3. QED
      BY <1>2, <3>1, <3>2 DEF Room, Minus
  <2> HIDE DEF id, entries
  <2>7. /\ indexes' \in [DOMAIN expected -> Seq(EntryType)]
        /\ \A x \in DOMAIN indexes' : Len(indexes'[x]) <= expected[x]
    <3>1. /\ id \in DOMAIN indexes /\ DOMAIN indexes = DOMAIN expected
          /\ \A x \in DOMAIN indexes : indexes[x] \in Seq(EntryType) /\ expected[x] \in Nat
      BY <1>2, <2>2
    <3>2. ASSUME NEW s \in Seq(EntryType), NEW t \in Seq(EntryType)
          PROVE  s \o t \in Seq(EntryType) /\ Len(s \o t) = Len(s) + Len(t) /\ Len(s) \in Nat /\ Len(t) \in Nat
      OBVIOUS
    <3>3. ASSUME NEW x \in DOMAIN indexes
          PROVE  indexes'[x] \in Seq(EntryType) /\ Len(indexes'[x]) <= expected[x]
      <4>1. CASE x = id
        <5>1. indexes'[x] = indexes[id] \o Entries
          BY <2>1, <3>1, <4>1
        <5>2. /\ indexes[id] \o Entries \in Seq(EntryType)
              /\ Len(indexes[id] \o Entries) = Len(indexes[id]) + Len(Entries)
              /\ Len(indexes[id]) \in Nat /\ Len(Entries) \in Nat
          BY <2>5, <3>1, <3>2
        <5>3. expected[id] \in Nat
          BY <3>1
        <5>4. QED
          BY ONLY <2>6, <4>1, <5>1, <5>2, <5>3
      <4>2. CASE x # id
        BY <2>1, <2>2, <3>1, <4>2
      <4>3. QED
        BY <4>1, <4>2
    <3>4. DOMAIN indexes' = DOMAIN expected
      BY <2>1, <3>1
    <3>5. indexes' = [x \in DOMAIN expected |-> indexes'[x]]
      BY <2>1, <3>1
    <3>6. QED
      BY <3>1, <3>3, <3>4, <3>5
  <2>8. PhaseInv'
    BY <2>1, <2>2, <2>7 DEF PhaseInv
  <2>9. LoopInv'
    <3>1. chunk_infos' = chunk_infos
      BY <1>2 DEF ReadIndexData, id
    <3>2. QED
      BY <2>1, <3>1 DEF IInv, LoopInv
  <2>10. NumbersInv'
    BY <2>1 DEF IInv, NumbersInv
  <2>11. ChargesExact'
    <3>1. Ids' = Ids
      BY <2>1 DEF Ids
    <3>2. DOMAIN indexes' = DOMAIN expected
      BY <2>7
    <3>3. QED
      BY <2>1, <2>7, <3>1, <3>2 DEF IInv, ChargesExact
  <2>12. AllOrNothing'
    BY <2>1 DEF AllOrNothing
  <2>13. QED
    BY <2>8, <2>9, <2>10, <2>11, <2>12 DEF IInv
<1>3. QED
  BY <1>1, <1>2

\* open() ends with the indexes sorted, and those nobody counted for empty.
LEMMA FinishInv == IInv /\ Finish => IInv'
<1> SUFFICES ASSUME IInv, Finish PROVE IInv'
  OBVIOUS
<1>1. CASE ~Complete
  BY <1>1, ThrowInv DEF Finish
<1>2. CASE Complete
  <2>1. /\ pc = "chunks" /\ pc' = "idle" /\ open_' = TRUE
        /\ indexes' = [id \in Ids |-> IF id \in DOMAIN indexes THEN Sorted(indexes[id]) ELSE <<>>]
        /\ UNCHANGED <<bag, connections, expected, expected_total, index_bytes>>
    BY <1>2 DEF Finish, totals
  <2>2. /\ indexes \in [DOMAIN expected -> Seq(EntryType)]
        /\ \A id \in DOMAIN indexes : Len(indexes[id]) <= expected[id]
    BY <2>1 DEF IInv, PhaseInv, ChargesExact
  <2>3. PhaseInv'
    BY <2>1 DEF PhaseInv
  <2>4. LoopInv'
    BY <2>1 DEF LoopInv
  <2>5. NumbersInv'
    BY <2>1 DEF IInv, NumbersInv
  <2>6. Ids' = Ids
    BY <2>1 DEF Ids
  <2>7. ASSUME NEW id \in DOMAIN indexes'
        PROVE  Len(indexes'[id]) <= IF id \in DOMAIN expected' THEN expected'[id] ELSE 0
    <3>1. CASE id \in DOMAIN indexes
      <4>1. indexes[id] \in Seq(EntryType) /\ id \in DOMAIN expected /\ Len(indexes[id]) <= expected[id]
        BY <2>2, <3>1
      <4>2. indexes'[id] = Sorted(indexes[id])
        BY <2>1, <3>1
      <4>3. Len(Sorted(indexes[id])) = Len(indexes[id])
        BY <4>1, SortKeepsLength
      <4>4. QED
        BY <2>1, <4>1, <4>2, <4>3
    <3>2. CASE id \notin DOMAIN indexes
      <4>1. indexes'[id] = <<>> /\ id \notin DOMAIN expected
        BY <2>1, <2>2, <3>2
      <4>2. QED
        BY <2>1, <4>1
    <3>3. QED
      BY <3>1, <3>2
  <2>8. ChargesExact'
    BY <2>1, <2>6, <2>7 DEF IInv, ChargesExact
  <2>9. AllOrNothing'
    BY <2>1 DEF AllOrNothing
  <2>10. QED
    BY <2>3, <2>4, <2>5, <2>8, <2>9 DEF IInv
<1>3. QED
  BY <1>1, <1>2

LEMMA StutterInv == IInv /\ UNCHANGED vars => IInv'
<1> SUFFICES ASSUME IInv, UNCHANGED vars PROVE IInv'
  OBVIOUS
<1>1. UNCHANGED <<bag, open_, connections, chunk_infos, chunks, indexes, metadata, expected,
                  expected_total, index_bytes, pc, at>>
  BY DEF vars, tables, totals, loops
<1>2. Ids' = Ids
  BY <1>1 DEF Ids
<1>3. PhaseInv' /\ LoopInv' /\ NumbersInv'
  BY <1>1 DEF IInv, PhaseInv, LoopInv, NumbersInv
<1>4. ChargesExact'
  BY <1>1, <1>2 DEF IInv, ChargesExact
<1>5. AllOrNothing'
  BY <1>1 DEF IInv, AllOrNothing
<1>6. QED
  BY <1>3, <1>4, <1>5 DEF IInv

\* Every step of open(), of close() and of the destructor preserves it.
LEMMA NextInv == IInv /\ [Next]_vars => IInv'
<1>1. IInv /\ Next => IInv'
  BY CallsInv, HeaderInv, ReadConnectionInv, ReadCountInv, LoopsInv, InfosReadInv,
     ReadIndexDataInv, FinishInv, StutterInv DEF Next, Step, Destroyed
<1>2. QED
  BY <1>1, StutterInv

LEMMA Inductive == Spec => []IInv
<1>1. QED
  BY InitInv, NextInv, PTL DEF Spec

-----------------------------------------------------------------------------
\* A cursor reads what open() left and changes none of it: a reader with a cursor is a
\* backend, to which what is shown of open() applies (rosbag1.cpp:437-500).
THEOREM CursorOnlyReads == ReaderSpec => Spec
<1>1. ReaderInit => Init
  BY DEF ReaderInit
<1>2. [ReaderNext]_<<vars, cursor>> => [Next]_vars
  BY DEF ReaderNext, CursorStep, Finished, StartCursor, StartFails, Take, Load, LoadFails,
         Read, ReadFails, EndOfStream
<1>3. QED
  BY <1>1, <1>2, PTL DEF ReaderSpec, Spec

\* At every step of open() the bytes charged are those of all that was announced so far,
\* within the budget, and nothing is put into an index that was not charged: the unsigned
\* differences of the next check are true differences (rosbag1.cpp:268-271, 313-319,
\* 351-352).
THEOREM Charged == ReaderSpec => []ChargesExact
<1>1. IInv => ChargesExact
  BY DEF IInv
<1>2. QED
  BY <1>1, Inductive, CursorOnlyReads, PTL

\* Between calls a ROS1 backend that is not open keeps nothing of a bag, whatever the bag
\* says and at whatever record open() failed (rosbag1.cpp:377-392).
THEOREM NothingKept == ReaderSpec => []AllOrNothing
<1>1. IInv => AllOrNothing
  BY DEF IInv
<1>2. QED
  BY <1>1, Inductive, CursorOnlyReads, PTL

\* However the chunks of the index alternate, and whichever fails to load, never are two
\* resident, and the number kept with the cached bytes is theirs (rosbag1.cpp:463-471).
THEOREM Resident == ReaderSpec => []OneChunkResident
<1>1. ReaderInit => OneChunkResident
  BY DEF ReaderInit, OneChunkResident
<1>2. OneChunkResident /\ [ReaderNext]_<<vars, cursor>> => OneChunkResident'
  <2> SUFFICES ASSUME OneChunkResident, [ReaderNext]_<<vars, cursor>> PROVE OneChunkResident'
    OBVIOUS
  <2>1. CASE UNCHANGED cache
    BY <2>1 DEF cache, OneChunkResident
  <2>2. ASSUME NEW chunk, Exchange(chunk) PROVE OneChunkResident'
    BY <2>2 DEF Exchange, OneChunkResident
  <2>3. CASE Take
    BY <2>1, <2>2, <2>3 DEF Take
  <2>4. CASE Load \/ LoadFails
    BY <2>4 DEF Load, LoadFails, OneChunkResident
  <2>5. CASE StartCursor \/ StartFails \/ Read \/ ReadFails \/ EndOfStream
    BY <2>1, <2>5 DEF StartCursor, StartFails, Read, ReadFails, EndOfStream
  <2>6. CASE UNCHANGED cursor
    BY <2>1, <2>6 DEF cursor
  <2>7. QED
    BY <2>3, <2>4, <2>5, <2>6 DEF ReaderNext, CursorStep, Finished
<1>3. QED
  BY <1>1, <1>2, PTL DEF ReaderSpec

-----------------------------------------------------------------------------
\* The pairs of connection and count of a bag, those read before pair j of
\* CHUNK_INFO i, and those of one connection.
Pairs(b) == UNION {{<<i, j>> : j \in DOMAIN b.infos[i].counts} : i \in DOMAIN b.infos}
Pair(b, p) == b.infos[p[1]].counts[p[2]]
MessagesOf(b) == [p \in Pairs(b) |-> Pair(b, p).messages]
PairsBefore(b, i, j) == {p \in Pairs(b) : p[1] < i \/ (p[1] = i /\ p[2] < j)}
PairsFor(b, S, id) == {p \in S : Pair(b, p).id = id}

\* The counts of the connections and the total are the sums over the pairs in S.
Counted(b, S, counts, total) ==
  /\ IsFiniteSet(DOMAIN counts)
  /\ total = SumFunctionOnSet(MessagesOf(b), S)
  /\ total = SumFunctionOnSet(counts, DOMAIN counts)
  /\ \A p \in S : Pair(b, p).id \in DOMAIN counts
  /\ \A id \in DOMAIN counts : counts[id] = SumFunctionOnSet(MessagesOf(b), PairsFor(b, S, id))

\* The places where a bag indexes messages of a connection (PlacesOf of the bag that is
\* open), those read before IDXDATA record j of chunk i, and the index entry of a place.
Places(b, c) ==
  UNION {UNION {{<<i, j, n>> : n \in DOMAIN b.data[i][j].entries} :
                  j \in {k \in DOMAIN b.data[i] : b.data[i][k].id = c /\ k <= Len(b.infos[i].counts)}}
           : i \in DOMAIN b.data}
PlacesBefore(b, c, i, j) == {p \in Places(b, c) : p[1] < i \/ (p[1] = i /\ p[2] < j)}
RecordPlaces(b, i, j) == {<<i, j, n>> : n \in DOMAIN b.data[i][j].entries}
PlaceAt(b, p) == b.data[p[1]][p[2]].entries[p[3]]
PlaceEntry(b, p) == [time |-> PlaceAt(b, p).time, chunk |-> p[1], offset |-> PlaceAt(b, p).offset]

\* The order in which places are read, and the order of their times.
ReadEarlier(p, q) ==
  p[1] < q[1] \/ (p[1] = q[1] /\ (p[2] < q[2] \/ (p[2] = q[2] /\ p[3] < q[3])))
Sooner(b, p, q) ==
  \/ PlaceAt(b, p).time < PlaceAt(b, q).time
  \/ PlaceAt(b, p).time = PlaceAt(b, q).time /\ ReadEarlier(p, q)

\* An index consists of the entries of the places in S, in the order they are read; the
\* index of an open bag of the entries of all places, in the order of their times.
ListsAsRead(b, S, index, q) ==
  /\ q \in [1..Len(index) -> S]
  /\ \A p \in S : \E k \in 1..Len(index) : q[k] = p
  /\ \A k \in 1..Len(index) : index[k] = PlaceEntry(b, q[k])
  /\ \A j, k \in 1..Len(index) : j < k => ReadEarlier(q[j], q[k])
ListsInTime(b, S, index, q) ==
  /\ q \in [1..Len(index) -> S]
  /\ \A p \in S : \E k \in 1..Len(index) : q[k] = p
  /\ \A k \in 1..Len(index) : index[k] = PlaceEntry(b, q[k])
  /\ \A j, k \in 1..Len(index) : j < k => Sooner(b, q[j], q[k])

AsRead(b, S, index) == \E q : ListsAsRead(b, S, index, q)
InTime(b, S, index) == \E q : ListsInTime(b, S, index, q)

\* What the loop over the CHUNK_INFO records, the loop over the chunks and the end of
\* open() have made of the bag.
InfosInv ==
  pc = "infos" =>
    /\ chunks = 0 /\ sub \in Nat \ {0}
    /\ Counted(bag, PairsBefore(bag, at, sub), expected, expected_total)
ChunksInv ==
  pc = "chunks" =>
    /\ chunk_infos = Len(bag.infos) /\ at \in 1..chunk_infos + 1 /\ sub \in Nat \ {0}
    /\ chunks \in {at - 1, at} /\ chunks <= chunk_infos
    /\ Counted(bag, Pairs(bag), expected, expected_total)
    /\ \A c \in DOMAIN expected : AsRead(bag, PlacesBefore(bag, c, at, sub), indexes[c])
    /\ \A c \in Nat \ DOMAIN expected : PlacesBefore(bag, c, at, sub) = {}
OpenedInv ==
  open_ =>
    /\ bag \in Bags
    /\ chunk_infos = Len(bag.infos) /\ chunks = chunk_infos
    /\ Counted(bag, Pairs(bag), expected, expected_total)
    /\ indexes \in [Ids -> Seq(EntryType)]
    /\ \A c \in Ids : Len(indexes[c]) = IF c \in DOMAIN expected THEN expected[c] ELSE 0
    /\ \A c \in Ids : InTime(bag, Places(bag, c), indexes[c])
    /\ metadata = [messages |-> SumFunction([c \in Ids |-> Len(indexes[c])]),
                   start |-> Span.start, end |-> Span.end]
IndexInv == (pc \in {"header", "connections"} => chunks = 0) /\ InfosInv /\ ChunksInv /\ OpenedInv

\* A bag has finitely many pairs; each is a CHUNK_INFO and one of its counts.
LEMMA PairsOfBag ==
  ASSUME NEW b \in Bags
  PROVE  /\ IsFiniteSet(Pairs(b))
         /\ \A p \in Pairs(b) : MessagesOf(b)[p] = Pair(b, p).messages /\ MessagesOf(b)[p] \in Nat
         /\ \A p \in Pairs(b) : p = <<p[1], p[2]>> /\ p[1] \in DOMAIN b.infos
                                /\ p[2] \in DOMAIN b.infos[p[1]].counts
         /\ \A i \in DOMAIN b.infos : \A j \in DOMAIN b.infos[i].counts : <<i, j>> \in Pairs(b)
<1> DEFINE f == [i \in DOMAIN b.infos |-> {<<i, j>> : j \in DOMAIN b.infos[i].counts}]
<1>1. \A i \in DOMAIN b.infos : IsFiniteSet(f[i])
  <2> SUFFICES ASSUME NEW i \in DOMAIN b.infos PROVE IsFiniteSet(f[i])
    OBVIOUS
  <2> DEFINE S == DOMAIN b.infos[i].counts
             g == [j \in S |-> <<i, j>>]
  <2>1. S = 1..Len(b.infos[i].counts) /\ Len(b.infos[i].counts) \in Int /\ 1 \in Int
    BY BagParts
  <2>2. IsFiniteSet(S)
    <3> HIDE DEF S
    <3> QED BY ONLY <2>1, FS_Interval
  <2>3. IsFiniteSet({g[j] : j \in S})
    <3> HIDE DEF S, g
    <3> QED BY ONLY <2>2, FiniteImage
  <2> QED BY <2>3
<1>2. IsFiniteSet(DOMAIN b.infos)
  <2>1. DOMAIN b.infos = 1..Len(b.infos) /\ Len(b.infos) \in Int /\ 1 \in Int
    BY BagParts
  <2> QED BY ONLY <2>1, FS_Interval
<1>3. IsFiniteSet(UNION {f[i] : i \in DOMAIN b.infos})
  <2> HIDE DEF f
  <2> QED BY ONLY <1>1, <1>2, FiniteFamily
<1>4. Pairs(b) = UNION {f[i] : i \in DOMAIN b.infos}
  BY DEF Pairs
<1>5. \A p \in Pairs(b) : p = <<p[1], p[2]>> /\ p[1] \in DOMAIN b.infos
                                /\ p[2] \in DOMAIN b.infos[p[1]].counts
  BY DEF Pairs
<1>6. \A i \in DOMAIN b.infos : \A j \in DOMAIN b.infos[i].counts : <<i, j>> \in Pairs(b)
  BY DEF Pairs
<1>7. \A p \in Pairs(b) : MessagesOf(b)[p] = Pair(b, p).messages /\ MessagesOf(b)[p] \in Nat
  BY <1>5, BagParts DEF MessagesOf, Pair
<1> QED BY <1>3, <1>4, <1>5, <1>6, <1>7

\* Nothing is counted before the first pair.
LEMMA NothingCounted ==
  ASSUME NEW b
  PROVE  Counted(b, {}, Nothing, 0)
<1>1. DOMAIN Nothing = {} /\ IsFiniteSet({})
  BY FS_EmptySet DEF Nothing
<1>2. SumFunctionOnSet(MessagesOf(b), {}) = 0 /\ SumFunctionOnSet(Nothing, {}) = 0
  BY SumOfNothing
<1> QED BY <1>1, <1>2 DEF Counted

\* One pair more, counted for its connection and in total.
LEMMA CountOne ==
  ASSUME NEW b \in Bags, NEW S, S \subseteq Pairs(b), NEW p \in Pairs(b), p \notin S,
         NEW counts, counts \in [DOMAIN counts -> Nat], NEW total, Counted(b, S, counts, total)
  PROVE  LET id == Pair(b, p).id
             before == IF id \in DOMAIN counts THEN counts[id] ELSE 0
             messages == Pair(b, p).messages IN
         Counted(b, S \cup {p}, With(counts, id, before + messages), total + messages)
<1> DEFINE id == Pair(b, p).id
           before == IF id \in DOMAIN counts THEN counts[id] ELSE 0
           n == Pair(b, p).messages
           new == With(counts, id, before + n)
           f == MessagesOf(b)
           T == S \cup {p}
           D == DOMAIN counts
<1>0. IsFiniteSet(D) /\ total = SumFunctionOnSet(f, S) /\ total = SumFunctionOnSet(counts, D)
      /\ (\A q \in S : Pair(b, q).id \in D)
      /\ \A x \in D : counts[x] = SumFunctionOnSet(f, PairsFor(b, S, x))
  BY DEF Counted
<1>1. IsFiniteSet(S) /\ (\A q \in T : f[q] \in Int) /\ f[p] = n /\ n \in Nat
  BY PairsOfBag, FS_Subset
<1>2. SumFunctionOnSet(f, T) = total + n
  <2>1. p \notin S /\ \A q \in S \cup {p} : f[q] \in Int
    BY <1>1
  <2>2. SumFunctionOnSet(f, S \cup {p}) = SumFunctionOnSet(f, S) + f[p]
    <3> HIDE DEF f
    <3> QED BY ONLY <1>1, <2>1, SumAdd
  <2> HIDE DEF f, n, id
  <2> QED BY ONLY <1>0, <1>1, <2>2, Zenon
<1>3. /\ DOMAIN new = D \cup {id}
      /\ \A x \in DOMAIN new : new[x] = IF x = id THEN before + n ELSE counts[x]
  BY DEF With
<1>4. before \in Nat /\ \A x \in D : counts[x] \in Nat
  OBVIOUS
<1>5. IsFiniteSet(DOMAIN new)
  <2> HIDE DEF new, id, D
  <2> QED BY <1>0, <1>3, FS_AddElement
<1>6. \A x : x # id => PairsFor(b, T, x) = PairsFor(b, S, x)
  BY DEF PairsFor
<1>7. PairsFor(b, T, id) = PairsFor(b, S, id) \cup {p} /\ p \notin PairsFor(b, S, id)
  BY DEF PairsFor
<1>8. ASSUME NEW x \in DOMAIN new PROVE new[x] = SumFunctionOnSet(f, PairsFor(b, T, x))
  <2>1. CASE x # id
    <3>1. x \in D /\ new[x] = counts[x] /\ PairsFor(b, T, x) = PairsFor(b, S, x)
      BY <1>3, <1>6, <2>1
    <3> QED BY <1>0, <3>1, Zenon
  <2>2. CASE x = id
    <3> DEFINE U == PairsFor(b, S, id)
    <3>1. IsFiniteSet(U) /\ p \notin U /\ \A q \in U \cup {p} : f[q] \in Int
      <4>1. U \subseteq S
        BY DEF PairsFor
      <4> HIDE DEF U, f
      <4> QED BY <1>1, <1>7, <4>1, FS_Subset DEF U
    <3>2. SumFunctionOnSet(f, U \cup {p}) = SumFunctionOnSet(f, U) + f[p]
      <4> HIDE DEF U, f
      <4> QED BY ONLY <3>1, SumAdd
    <3>3. SumFunctionOnSet(f, U) = before
      <4>1. CASE id \in D
        BY <1>0, <4>1
      <4>2. CASE id \notin D
        <5>1. U = {}
          BY <1>0, <4>2 DEF PairsFor
        <5>2. SumFunctionOnSet(f, {}) = 0
          BY SumOfNothing
        <5>3. before = 0
          BY <4>2
        <5> QED BY ONLY <5>1, <5>2, <5>3, Zenon
      <4> QED BY <4>1, <4>2
    <3>4. new[x] = before + n /\ f[p] = n
      BY <1>1, <1>3, <2>2
    <3>5. PairsFor(b, T, x) = U \cup {p}
      BY <1>7, <2>2
    <3> HIDE DEF U, f, new, n, before, T, id
    <3>6. SumFunctionOnSet(f, PairsFor(b, T, x)) = SumFunctionOnSet(f, U \cup {p})
      BY ONLY <3>5, Zenon
    <3> QED BY ONLY <3>2, <3>3, <3>4, <3>6
  <2> QED BY <2>1, <2>2
<1>9. SumFunctionOnSet(new, DOMAIN new) = total + n
  <2> DEFINE E == D \ {id}
  <2>1. IsFiniteSet(E) /\ id \notin E /\ DOMAIN new = E \cup {id}
    <3> HIDE DEF new, id, D
    <3> QED BY <1>0, <1>3, FS_RemoveElement, FS_Subset
  <2>2. \A x \in E \cup {id} : new[x] \in Int
    BY <1>1, <1>3, <1>4
  <2>3. SumFunctionOnSet(new, E \cup {id}) = SumFunctionOnSet(new, E) + new[id]
    <3> HIDE DEF new, E, id
    <3> QED BY ONLY <2>1, <2>2, SumAdd
  <2>4. SumFunctionOnSet(new, E) = SumFunctionOnSet(counts, E)
    <3>1. \A x \in E : new[x] \in Int /\ new[x] = counts[x]
      BY <1>3, <1>4
    <3> HIDE DEF new, E, id
    <3> QED BY ONLY <2>1, <3>1, SumSame
  <2>5. SumFunctionOnSet(counts, E) + before = total
    <3>1. CASE id \in D
      <4>3. E \cup {id} = D /\ before = counts[id]
        BY <3>1
      <4>1. E \cup {id} = D /\ before = counts[id] /\ \A x \in E \cup {id} : counts[x] \in Int
        <5> HIDE DEF E, id, before, D
        <5> QED BY <1>4, <4>3
      <4>2. SumFunctionOnSet(counts, E \cup {id}) = SumFunctionOnSet(counts, E) + counts[id]
        <5> HIDE DEF E, id, D
        <5> QED BY ONLY <2>1, <4>1, SumAdd
      <4> HIDE DEF E, id, D, before
      <4> QED BY ONLY <1>0, <4>1, <4>2, Zenon
    <3>2. CASE id \notin D
      <4>1. E = D /\ before = 0
        BY <3>2
      <4>2. total \in Int
        <5>1. \A x \in D : counts[x] \in Int
          BY <1>4
        <5> HIDE DEF D
        <5> QED BY ONLY <1>0, <5>1, SumIsInt
      <4>3. SumFunctionOnSet(counts, E) = total
        BY ONLY <1>0, <4>1, Zenon
      <4> QED BY ONLY <4>1, <4>2, <4>3
    <3> QED BY <3>1, <3>2
  <2>6. SumFunctionOnSet(counts, E) \in Int /\ new[id] = before + n
    <3>1. \A x \in E : counts[x] \in Int
      BY <1>4
    <3>2. SumFunctionOnSet(counts, E) \in Int
      <4> HIDE DEF E, id, D
      <4> QED BY ONLY <2>1, <3>1, SumIsInt
    <3> QED BY <1>3, <3>2
  <2>7. SumFunctionOnSet(new, DOMAIN new) = SumFunctionOnSet(new, E \cup {id})
    <3> HIDE DEF E, new, id
    <3> QED BY ONLY <2>1, Zenon
  <2> HIDE DEF new, E, id, before, n
  <2> QED BY ONLY <1>1, <1>4, <2>3, <2>4, <2>5, <2>6, <2>7
<1>10. \A q \in T : Pair(b, q).id \in DOMAIN new
  BY <1>0, <1>3
<1>11. Counted(b, T, new, total + n)
  <2> HIDE DEF T, new, f, n
  <2> QED BY <1>2, <1>5, <1>8, <1>9, <1>10 DEF Counted, f
<1> QED BY <1>11

\* A place is a chunk, one of the IDXDATA records read behind it, and one of its entries.
LEMMA PlacesOfBag ==
  ASSUME NEW b \in Bags, NEW c
  PROVE  /\ \A p \in Places(b, c) :
              /\ p = <<p[1], p[2], p[3]>> /\ p[1] \in Nat /\ p[2] \in Nat /\ p[3] \in Nat
              /\ p[1] \in DOMAIN b.data /\ p[2] \in DOMAIN b.data[p[1]]
              /\ b.data[p[1]][p[2]].id = c /\ p[2] <= Len(b.infos[p[1]].counts)
              /\ p[3] \in DOMAIN b.data[p[1]][p[2]].entries
              /\ PlaceAt(b, p).time \in Nat
         /\ \A i \in DOMAIN b.data : \A j \in DOMAIN b.data[i] :
              b.data[i][j].id = c /\ j <= Len(b.infos[i].counts) =>
                \A n \in DOMAIN b.data[i][j].entries : <<i, j, n>> \in Places(b, c)
<1>1. ASSUME NEW p \in Places(b, c)
      PROVE  /\ p = <<p[1], p[2], p[3]>>
             /\ p[1] \in DOMAIN b.data /\ p[2] \in DOMAIN b.data[p[1]]
             /\ b.data[p[1]][p[2]].id = c /\ p[2] <= Len(b.infos[p[1]].counts)
             /\ p[3] \in DOMAIN b.data[p[1]][p[2]].entries
  BY DEF Places
<1>2. ASSUME NEW p \in Places(b, c)
      PROVE  p[1] \in Nat /\ p[2] \in Nat /\ p[3] \in Nat /\ PlaceAt(b, p).time \in Nat
  <2>1. p[1] \in DOMAIN b.data /\ p[2] \in DOMAIN b.data[p[1]]
        /\ p[3] \in DOMAIN b.data[p[1]][p[2]].entries
    BY <1>1
  <2>2. p[1] \in 1..Len(b.infos) /\ p[2] \in 1..Len(b.data[p[1]])
        /\ b.data[p[1]][p[2]].entries \in Seq([time : Nat, offset : Nat])
    BY <2>1, BagParts
  <2> DEFINE s == b.data[p[1]][p[2]].entries
  <2>3. p[3] \in 1..Len(s) /\ s[p[3]] \in [time : Nat, offset : Nat]
    <3> HIDE DEF s
    <3>1. s \in Seq([time : Nat, offset : Nat]) /\ p[3] \in DOMAIN s
      BY <2>1, <2>2 DEF s
    <3> QED BY ONLY <3>1, ElementsOf
  <2>4. s[p[3]].time \in Nat
    BY ONLY <2>3
  <2>5. PlaceAt(b, p) = s[p[3]]
    BY DEF PlaceAt
  <2> HIDE DEF s
  <2>6. p[1] \in Nat /\ p[2] \in Nat /\ p[3] \in Nat
    BY ONLY <2>2, <2>3
  <2> QED BY ONLY <2>4, <2>5, <2>6, Zenon
<1>3. ASSUME NEW i \in DOMAIN b.data, NEW j \in DOMAIN b.data[i], b.data[i][j].id = c,
             j <= Len(b.infos[i].counts), NEW n \in DOMAIN b.data[i][j].entries
      PROVE  <<i, j, n>> \in Places(b, c)
  BY <1>3 DEF Places
<1> QED BY <1>1, <1>2, <1>3

\* Reading an IDXDATA record appends its entries.
LEMMA AppendRead ==
  ASSUME NEW b \in Bags, NEW S, NEW index \in Seq(EntryType), AsRead(b, S, index),
         NEW i \in Nat, NEW j \in Nat, i \in DOMAIN b.data, j \in DOMAIN b.data[i],
         \A p \in S : p[1] < i \/ (p[1] = i /\ p[2] < j),
         NEW T, T = S \cup RecordPlaces(b, i, j),
         NEW E \in Seq(EntryType), DOMAIN E = DOMAIN b.data[i][j].entries,
         \A n \in DOMAIN E : E[n] = PlaceEntry(b, <<i, j, n>>)
  PROVE  AsRead(b, T, index \o E)
<1>1. PICK q : ListsAsRead(b, S, index, q)
  BY DEF AsRead
<1> DEFINE l == Len(index)
           m == Len(E)
           r == [k \in 1..l + m |-> IF k <= l THEN q[k] ELSE <<i, j, k - l>>]
           t == index \o E
<1>2. l \in Nat /\ m \in Nat /\ DOMAIN E = 1..m /\ Len(t) = l + m
      /\ \A k \in 1..l + m : t[k] = IF k <= l THEN index[k] ELSE E[k - l]
  OBVIOUS
<1>3. /\ q \in [1..l -> S] /\ \A p \in S : \E k \in 1..l : q[k] = p
      /\ \A k \in 1..l : index[k] = PlaceEntry(b, q[k])
      /\ \A k, n \in 1..l : k < n => ReadEarlier(q[k], q[n])
  BY <1>1 DEF ListsAsRead
<1>4. \A k \in 1..m : <<i, j, k>> \in T /\ E[k] = PlaceEntry(b, <<i, j, k>>)
  BY <1>2 DEF RecordPlaces
<1>5. S \subseteq T /\ \A p \in T : p \in S \/ \E n \in 1..m : p = <<i, j, n>>
  BY <1>2 DEF RecordPlaces
<1> HIDE DEF l, m, t
<1>6. \A k \in 1..l + m : k \in 1..l \/ (~(k <= l) /\ k - l \in 1..m)
  BY ONLY <1>2
<1>7. \A k \in 1..l : k \in 1..l + m /\ k <= l
  BY ONLY <1>2
<1>8. \A n \in 1..m : n + l \in 1..l + m /\ ~(n + l <= l) /\ (n + l) - l = n
  BY ONLY <1>2
<1>9. /\ \A k \in 1..l : r[k] = q[k]
      /\ \A n \in 1..m : r[n + l] = <<i, j, n>>
      /\ \A k \in 1..l + m : ~(k <= l) => r[k] = <<i, j, k - l>>
  BY <1>7, <1>8
<1>10. r \in [1..l + m -> T]
  <2>1. ASSUME NEW k \in 1..l + m PROVE r[k] \in T
    <3>1. CASE k \in 1..l
      BY <1>3, <1>5, <1>9, <3>1
    <3>2. CASE k \notin 1..l
      BY <1>4, <1>6, <1>9, <3>2
    <3> QED BY <3>1, <3>2
  <2> QED BY <2>1
<1>11. ASSUME NEW p \in T PROVE \E k \in 1..l + m : r[k] = p
  <2>1. CASE p \in S
    BY <1>3, <1>7, <1>9, <2>1
  <2>2. CASE p \notin S
    <3>1. PICK n \in 1..m : p = <<i, j, n>>
      BY <1>5, <2>2
    <3> HIDE DEF r
    <3>2. r[n + l] = p /\ n + l \in 1..l + m
      BY <1>8, <1>9, <3>1
    <3> QED BY <3>2
  <2> QED BY <2>1, <2>2
<1>12. ASSUME NEW k \in 1..l + m PROVE t[k] = PlaceEntry(b, r[k])
  <2> HIDE DEF r
  <2>1. t[k] = IF k <= l THEN index[k] ELSE E[k - l]
    BY <1>2 DEF t
  <2>2. CASE k \in 1..l
    BY <1>3, <1>7, <1>9, <2>1, <2>2
  <2>3. CASE k \notin 1..l
    BY <1>4, <1>6, <1>9, <2>1, <2>3
  <2> QED BY <2>2, <2>3
<1>13. ASSUME NEW k \in 1..l + m, NEW n \in 1..l + m, k < n PROVE ReadEarlier(r[k], r[n])
  <2> HIDE DEF r
  <2>1. CASE n \in 1..l
    <3>1. k \in 1..l
      BY ONLY <1>2, <1>13, <2>1, k \in 1..l + m
    <3> QED BY <1>3, <1>9, <1>13, <2>1, <3>1
  <2>2. CASE n \notin 1..l /\ k \in 1..l
    <3>1. r[n] = <<i, j, n - l>> /\ r[k] = q[k]
      BY <1>6, <1>9, <2>2
    <3>2. q[k] \in S
      BY <1>3, <2>2
    <3>3. r[k][1] < i \/ (r[k][1] = i /\ r[k][2] < j)
      BY <3>1, <3>2
    <3> QED BY <3>1, <3>3 DEF ReadEarlier
  <2>3. CASE n \notin 1..l /\ k \notin 1..l
    <3>1. r[n] = <<i, j, n - l>> /\ r[k] = <<i, j, k - l>>
      BY <1>6, <1>9, <2>3
    <3>2. k - l < n - l
      BY <1>2, <1>13
    <3> QED BY <3>1, <3>2 DEF ReadEarlier
  <2> QED BY <2>1, <2>2, <2>3
<1>14. ListsAsRead(b, T, t, r)
  <2>1. Len(t) = l + m
    BY <1>2 DEF t
  <2> HIDE DEF r
  <2> QED BY <1>10, <1>11, <1>12, <1>13, <2>1 DEF ListsAsRead
<1> QED BY <1>14 DEF AsRead, t

\* Sorting puts the entries in the order of their times, and of one time as they were read.
LEMMA SortInTime ==
  ASSUME NEW b \in Bags, NEW S, NEW index \in Seq(EntryType), AsRead(b, S, index)
  PROVE  InTime(b, S, Sorted(index)) /\ Sorted(index) \in Seq(EntryType)
<1>1. PICK q : ListsAsRead(b, S, index, q)
  BY DEF AsRead
<1> DEFINE l == Len(index)
           D == 1..l
           R == {x \in D \X D : SortsBefore(index, x[1], x[2])}
           t == Sorted(index)
<1>2. l \in Nat /\ DOMAIN index = D /\ \A k \in D : index[k] \in EntryType
  OBVIOUS
<1>3. \A k \in D : index[k].time \in Nat
  BY <1>2 DEF EntryType
<1>4. \A j, k \in D : <<j, k>> \in R <=> SortsBefore(index, j, k)
  OBVIOUS
<1>5. IsFiniteSet(D) /\ Cardinality(D) = l
  <2>1. l \in Int /\ 1 \in Int /\ 1 <= l + 1
    BY <1>2
  <2>2. IsFiniteSet(1..l) /\ Cardinality(1..l) = IF 1 > l THEN 0 ELSE l - 1 + 1
    <3> HIDE DEF l, D
    <3> QED BY ONLY <2>1, FS_Interval
  <2> HIDE DEF l
  <2> QED BY <1>2, <2>2
<1> HIDE DEF R, t
<1>6. StrictOrder(R, D)
  <2>1. \A j, k \in D : j = k \/ SortsBefore(index, j, k) \/ SortsBefore(index, k, j)
    BY <1>3 DEF SortsBefore
  <2>2. \A j, k \in D : ~(SortsBefore(index, j, k) /\ SortsBefore(index, k, j))
    BY <1>3, SMTT(20) DEF SortsBefore
  <2>3. \A i, j, k \in D : SortsBefore(index, i, j) /\ SortsBefore(index, j, k) => SortsBefore(index, i, k)
    BY <1>3 DEF SortsBefore
  <2> HIDE DEF D
  <2> QED BY ONLY <1>4, <2>1, <2>2, <2>3 DEF StrictOrder
<1>7. PICK e : Enumerates(e, R, D)
  <2> HIDE DEF D
  <2> QED BY ONLY <1>5, <1>6, Enumerable
<1>8. e \in [D -> D] /\ \A j, k \in D : j < k => SortsBefore(index, e[j], e[k])
  <2>1. e \in [1..Cardinality(D) -> D] /\ \A j, k \in 1..Cardinality(D) : j < k => <<e[j], e[k]>> \in R
    BY <1>7 DEF Enumerates
  <2>2. 1..Cardinality(D) = D
    BY <1>5
  <2> HIDE DEF D
  <2>3. e \in [D -> D] /\ \A j, k \in D : j < k => <<e[j], e[k]>> \in R
    BY ONLY <2>1, <2>2
  <2> QED BY ONLY <1>4, <2>3
<1>9. \A k \in D : \E n \in D : e[n] = k
  <2>1. \A k \in D : \E n \in 1..Cardinality(D) : e[n] = k
    <3> HIDE DEF D
    <3> QED BY ONLY <1>5, <1>6, <1>7, EnumerationCovers
  <2>2. 1..Cardinality(D) = D
    BY <1>5
  <2> QED BY ONLY <2>1, <2>2
<1> DEFINE Rank_(k) == Cardinality({j \in D : SortsBefore(index, j, k)})
<1>10. \A n \in D : Rank_(e[n]) = n - 1
  <2> SUFFICES ASSUME NEW n \in D PROVE Rank_(e[n]) = n - 1
    OBVIOUS
  <2>1. n \in 1..Cardinality(D)
    BY <1>5
  <2>2. Cardinality({x \in D : <<x, e[n]>> \in R}) = n - 1
    <3> HIDE DEF D
    <3> QED BY ONLY <1>5, <1>6, <1>7, <2>1, EnumerationRank
  <2>3. e[n] \in D
    BY <1>8
  <2>4. {x \in D : <<x, e[n]>> \in R} = {j \in D : SortsBefore(index, j, e[n])}
    BY ONLY <1>4, <2>3
  <2> QED BY <2>2, <2>4
<1>11. ASSUME NEW n \in D PROVE t[n] = index[e[n]]
  <2> DEFINE k == CHOOSE k \in D : Rank_(k) = n - 1
  <2>1. e[n] \in D /\ Rank_(e[n]) = n - 1
    BY <1>8, <1>10
  <2>2. k \in D /\ Rank_(k) = n - 1
    <3> HIDE DEF Rank_, D
    <3> QED BY <2>1
  <2>3. PICK m \in D : e[m] = k
    <3> HIDE DEF k
    <3> QED BY <1>9, <2>2
  <2>4. Rank_(e[m]) = m - 1
    BY <1>10
  <2>5. m = n
    <3>1. m - 1 = n - 1
      <4> HIDE DEF Rank_, k
      <4> QED BY ONLY <2>2, <2>3, <2>4, Zenon
    <3>2. m \in Int /\ n \in Int
      BY <1>2
    <3> QED BY ONLY <3>1, <3>2
  <2>6. t[n] = index[k]
    BY <1>2 DEF t, Sorted
  <2> HIDE DEF k
  <2> QED BY ONLY <2>3, <2>5, <2>6, Zenon
<1>12. DOMAIN t = D /\ t = [n \in D |-> t[n]]
  BY <1>2 DEF t, Sorted
<1>13. t \in Seq(EntryType) /\ Len(t) = l
  <2>1. \A n \in D : t[n] \in EntryType
    BY <1>2, <1>8, <1>11
  <2>2. t \in [1..l -> EntryType]
    BY <1>12, <2>1
  <2> HIDE DEF l
  <2>3. t \in Seq(EntryType)
    BY ONLY <1>2, <2>2
  <2> QED BY <2>3, SortKeepsLength DEF t, l
<1> DEFINE r == [n \in D |-> q[e[n]]]
<1>14. /\ q \in [D -> S] /\ \A p \in S : \E k \in D : q[k] = p
       /\ \A k \in D : index[k] = PlaceEntry(b, q[k])
       /\ \A k, n \in D : k < n => ReadEarlier(q[k], q[n])
  BY <1>1 DEF ListsAsRead
<1> HIDE DEF D, l
<1>15. r \in [D -> S] /\ \A n \in D : r[n] = q[e[n]]
  BY <1>8, <1>14
<1>16. \A p \in S : \E n \in D : r[n] = p
  <2> TAKE p \in S
  <2>1. PICK k \in D : q[k] = p
    BY <1>14
  <2>2. PICK n \in D : e[n] = k
    BY <1>9
  <2> QED BY <1>15, <2>1, <2>2
<1>17. \A n \in D : t[n] = PlaceEntry(b, r[n])
  BY <1>8, <1>11, <1>14, <1>15
<1>18. ASSUME NEW m \in D, NEW n \in D, m < n PROVE Sooner(b, r[m], r[n])
  <2>1. e[m] \in D /\ e[n] \in D /\ SortsBefore(index, e[m], e[n])
    BY <1>8, <1>18
  <2>2. \A k \in D : index[k].time = PlaceAt(b, q[k]).time
    <3>1. \A p : PlaceEntry(b, p).time = PlaceAt(b, p).time
      BY DEF PlaceEntry
    <3> QED BY ONLY <1>14, <3>1
  <2>3. CASE index[e[m]].time < index[e[n]].time
    BY <1>15, <2>1, <2>2, <2>3 DEF Sooner
  <2>4. CASE index[e[m]].time = index[e[n]].time /\ e[m] < e[n]
    BY <1>14, <1>15, <2>1, <2>2, <2>4 DEF Sooner
  <2> QED BY <2>1, <2>3, <2>4 DEF SortsBefore
<1>19. ListsInTime(b, S, t, r)
  <2>1. 1..Len(t) = D
    BY <1>13 DEF D
  <2> HIDE DEF r
  <2> QED BY <1>15, <1>16, <1>17, <1>18, <2>1 DEF ListsInTime
<1> QED BY <1>13, <1>19 DEF InTime, t

\* Where the loop over the CHUNK_INFO records stands.
LEMMA PairsLoop ==
  ASSUME NEW b \in Bags
  PROVE  /\ PairsBefore(b, 1, 1) = {}
         /\ \A i \in DOMAIN b.infos : \A j \in DOMAIN b.infos[i].counts :
              /\ <<i, j>> \in Pairs(b) /\ <<i, j>> \notin PairsBefore(b, i, j)
              /\ PairsBefore(b, i, j + 1) = PairsBefore(b, i, j) \cup {<<i, j>>}
         /\ \A i \in DOMAIN b.infos : \A j \in Nat \ {0} :
              j \notin DOMAIN b.infos[i].counts => PairsBefore(b, i + 1, 1) = PairsBefore(b, i, j)
         /\ \A j : PairsBefore(b, Len(b.infos) + 1, j) = Pairs(b)
<1>1. /\ DOMAIN b.infos = 1..Len(b.infos) /\ Len(b.infos) \in Nat
      /\ \A i \in DOMAIN b.infos :
           DOMAIN b.infos[i].counts = 1..Len(b.infos[i].counts) /\ Len(b.infos[i].counts) \in Nat
  BY BagParts
<1>2. /\ \A p \in Pairs(b) : p = <<p[1], p[2]>> /\ p[1] \in 1..Len(b.infos) /\ p[1] \in DOMAIN b.infos
                             /\ p[2] \in 1..Len(b.infos[p[1]].counts)
      /\ \A i \in DOMAIN b.infos : \A j \in DOMAIN b.infos[i].counts : <<i, j>> \in Pairs(b)
  BY <1>1, PairsOfBag
<1>3. \A p \in Pairs(b) : p[1] \in Nat /\ p[1] >= 1 /\ p[1] <= Len(b.infos) /\ p[2] \in Nat /\ p[2] >= 1
                          /\ p[2] <= Len(b.infos[p[1]].counts)
  BY <1>1, <1>2
<1>4. PairsBefore(b, 1, 1) = {}
  BY <1>3 DEF PairsBefore
<1>5. ASSUME NEW i \in DOMAIN b.infos, NEW j \in DOMAIN b.infos[i].counts
      PROVE  /\ <<i, j>> \in Pairs(b) /\ <<i, j>> \notin PairsBefore(b, i, j)
             /\ PairsBefore(b, i, j + 1) = PairsBefore(b, i, j) \cup {<<i, j>>}
  <2>1. i \in Nat /\ j \in Nat /\ <<i, j>> \in Pairs(b)
    BY <1>1, <1>2
  <2>2. \A p \in Pairs(b) : p[2] < j + 1 <=> p[2] < j \/ p[2] = j
    BY <1>3, <2>1, SMTT(20)
  <2>3. \A p \in Pairs(b) : p[1] = i /\ p[2] = j => p = <<i, j>>
    BY <1>2
  <2> QED BY <2>1, <2>2, <2>3 DEF PairsBefore
<1>6. ASSUME NEW i \in DOMAIN b.infos, NEW j \in Nat \ {0}, j \notin DOMAIN b.infos[i].counts
      PROVE  PairsBefore(b, i + 1, 1) = PairsBefore(b, i, j)
  <2>1. i \in Nat /\ Len(b.infos[i].counts) \in Nat /\ j > Len(b.infos[i].counts)
    BY <1>1, <1>6
  <2>2. \A p \in Pairs(b) : (p[1] < i + 1 <=> p[1] < i \/ p[1] = i) /\ ~(p[2] < 1)
    BY <1>3, <2>1, SMTT(20)
  <2>3. \A p \in Pairs(b) : p[1] = i => p[2] < j
    BY <1>3, <2>1, SMTT(20)
  <2> QED BY <2>2, <2>3 DEF PairsBefore
<1>7. \A j : PairsBefore(b, Len(b.infos) + 1, j) = Pairs(b)
  <2>1. \A p \in Pairs(b) : p[1] < Len(b.infos) + 1
    BY <1>1, <1>3
  <2> QED BY <2>1 DEF PairsBefore
<1> QED BY <1>4, <1>5, <1>6, <1>7

\* One IDXDATA record more.
LEMMA PlacesStep ==
  ASSUME NEW b \in Bags, NEW c, NEW i \in DOMAIN b.data, NEW j \in DOMAIN b.data[i],
         j <= Len(b.infos[i].counts)
  PROVE  PlacesBefore(b, c, i, j + 1) =
           PlacesBefore(b, c, i, j) \cup (IF b.data[i][j].id = c THEN RecordPlaces(b, i, j) ELSE {})
<1>1. j \in Nat
  BY BagParts
<1>2. \A p \in Places(b, c) :
        /\ p = <<p[1], p[2], p[3]>> /\ p[2] \in Nat /\ b.data[p[1]][p[2]].id = c
        /\ p[3] \in DOMAIN b.data[p[1]][p[2]].entries
  BY PlacesOfBag
<1>3. \A p \in Places(b, c) : p[2] < j + 1 <=> p[2] < j \/ p[2] = j
  BY <1>1, <1>2
<1>4. PlacesBefore(b, c, i, j + 1) = PlacesBefore(b, c, i, j) \cup {p \in Places(b, c) : p[1] = i /\ p[2] = j}
  BY <1>3 DEF PlacesBefore
<1>5. CASE b.data[i][j].id = c
  <2>1. \A n \in DOMAIN b.data[i][j].entries : <<i, j, n>> \in Places(b, c)
    BY <1>5, PlacesOfBag
  <2>2. \A p \in Places(b, c) : p[1] = i /\ p[2] = j =>
          p = <<i, j, p[3]>> /\ p[3] \in DOMAIN b.data[i][j].entries
    BY <1>2
  <2>3. {p \in Places(b, c) : p[1] = i /\ p[2] = j} = RecordPlaces(b, i, j)
    BY <2>1, <2>2 DEF RecordPlaces
  <2> QED BY <1>4, <1>5, <2>3
<1>6. CASE b.data[i][j].id # c
  <2>1. {p \in Places(b, c) : p[1] = i /\ p[2] = j} = {}
    BY <1>2, <1>6
  <2> QED BY <1>4, <1>6, <2>1
<1> QED BY <1>5, <1>6

\* Where the loop over the chunks stands.
LEMMA PlacesLoop ==
  ASSUME NEW b \in Bags, NEW c
  PROVE  /\ PlacesBefore(b, c, 1, 1) = {}
         /\ \A i \in DOMAIN b.data : \A j \in Nat :
              j > Len(b.infos[i].counts) => PlacesBefore(b, c, i + 1, 1) = PlacesBefore(b, c, i, j)
         /\ \A j : PlacesBefore(b, c, Len(b.infos) + 1, j) = Places(b, c)
<1>1. /\ DOMAIN b.data = 1..Len(b.infos) /\ Len(b.infos) \in Nat /\ DOMAIN b.infos = 1..Len(b.infos)
      /\ \A i \in DOMAIN b.infos : Len(b.infos[i].counts) \in Nat
      /\ \A i \in DOMAIN b.data : DOMAIN b.data[i] = 1..Len(b.data[i]) /\ Len(b.data[i]) \in Nat
  BY BagParts
<1>2. \A p \in Places(b, c) :
        /\ p = <<p[1], p[2], p[3]>> /\ p[1] \in DOMAIN b.data /\ p[2] \in DOMAIN b.data[p[1]]
        /\ b.data[p[1]][p[2]].id = c /\ p[2] <= Len(b.infos[p[1]].counts)
        /\ p[3] \in DOMAIN b.data[p[1]][p[2]].entries
  BY PlacesOfBag
<1>3. \A p \in Places(b, c) : p[1] \in Nat /\ p[1] >= 1 /\ p[1] <= Len(b.infos) /\ p[2] \in Nat /\ p[2] >= 1
  <2> SUFFICES ASSUME NEW p \in Places(b, c)
               PROVE  p[1] \in Nat /\ p[1] >= 1 /\ p[1] <= Len(b.infos) /\ p[2] \in Nat /\ p[2] >= 1
    OBVIOUS
  <2>1. p[1] \in DOMAIN b.data /\ p[2] \in DOMAIN b.data[p[1]]
    BY <1>2
  <2>2. p[1] \in 1..Len(b.infos) /\ p[2] \in 1..Len(b.data[p[1]]) /\ Len(b.data[p[1]]) \in Nat
    BY ONLY <1>1, <2>1
  <2> QED BY ONLY <1>1, <2>2
<1>4. PlacesBefore(b, c, 1, 1) = {}
  BY <1>3, SMTT(20) DEF PlacesBefore
<1>6. ASSUME NEW i \in DOMAIN b.data, NEW j \in Nat, j > Len(b.infos[i].counts)
      PROVE  PlacesBefore(b, c, i + 1, 1) = PlacesBefore(b, c, i, j)
  <2>1. i \in Nat /\ Len(b.infos[i].counts) \in Nat
    BY <1>1
  <2>2. \A p \in Places(b, c) : (p[1] < i + 1 <=> p[1] < i \/ p[1] = i) /\ ~(p[2] < 1)
    BY <1>3, <2>1, SMTT(20)
  <2>3. \A p \in Places(b, c) : p[1] = i => p[2] < j
    <3>1. \A p \in Places(b, c) : p[1] = i => p[2] <= Len(b.infos[i].counts) /\ p[2] \in Nat
      BY <1>2, <1>3
    <3> QED BY ONLY <1>6, <2>1, <3>1
  <2> QED BY <2>2, <2>3 DEF PlacesBefore
<1>7. \A j : PlacesBefore(b, c, Len(b.infos) + 1, j) = Places(b, c)
  <2>1. \A p \in Places(b, c) : p[1] < Len(b.infos) + 1
    BY <1>1, <1>3
  <2> QED BY <2>1 DEF PlacesBefore
<1> QED BY <1>4, <1>6, <1>7

-----------------------------------------------------------------------------
\* close(), every failure, and a bag of which nothing is read yet.
LEMMA ClearedIndex ==
  ASSUME Cleared, pc' \in {"idle", "destroyed", "header"}
  PROVE  IndexInv'
BY DEF Cleared, IndexInv, InfosInv, ChunksInv, OpenedInv

LEMMA InitIndex == Init => IndexInv
BY DEF Init, IndexInv, InfosInv, ChunksInv, OpenedInv

LEMMA CallsIndex == BeginOpen \/ Destroy \/ BadRecord \/ (Close /\ IInv) => IndexInv'
<1>1. BeginOpen => IndexInv'
  BY ClearedIndex DEF BeginOpen, Goto
<1>2. IInv /\ Close => IndexInv'
  BY ClearedIndex DEF Close, loops
<1>3. Destroy => IndexInv'
  BY ClearedIndex DEF Destroy
<1>4. BadRecord => IndexInv'
  BY ClearedIndex DEF BadRecord, Throw
<1> QED BY <1>1, <1>2, <1>3, <1>4

LEMMA ThrowIndex == ASSUME NEW kind, Throw(kind) PROVE IndexInv'
BY ClearedIndex DEF Throw

\* Before the first CHUNK_INFO no chunk is kept.
LEMMA HeadersIndex == IInv /\ IndexInv /\ (Header \/ ReadConnection) => IndexInv'
<1> SUFFICES ASSUME IInv, IndexInv, Header \/ ReadConnection PROVE IndexInv'
  OBVIOUS
<1>1. CASE \E kind : Throw(kind)
  BY <1>1, ThrowIndex
<1>2. CASE ~ \E kind : Throw(kind)
  <2>1. pc \in {"header", "connections"} /\ pc' = "connections" /\ chunks' = chunks /\ open_' = open_
    BY <1>2 DEF Header, ReadConnection, Goto, tables
  <2>2. chunks = 0 /\ ~open_
    BY <2>1 DEF IInv, PhaseInv, IndexInv
  <2> QED BY <2>1, <2>2 DEF IndexInv, InfosInv, ChunksInv, OpenedInv
<1> QED BY <1>1, <1>2

LEMMA ConnectionsReadIndex == IInv /\ IndexInv /\ ConnectionsRead => IndexInv'
<1> SUFFICES ASSUME IInv, IndexInv, ConnectionsRead PROVE IndexInv'
  OBVIOUS
<1>1. /\ pc = "connections" /\ pc' = "infos" /\ at' = 1 /\ sub' = 1
      /\ UNCHANGED <<bag, open_, chunks, expected, expected_total>>
  BY DEF ConnectionsRead, Goto, tables, totals
<1>2. chunks = 0 /\ ~open_ /\ bag \in Bags /\ expected = Nothing /\ expected_total = 0
  BY <1>1 DEF IInv, PhaseInv, IndexInv
<1>3. Counted(bag, PairsBefore(bag, 1, 1), expected, expected_total)
  <2>1. PairsBefore(bag, 1, 1) = {}
    BY <1>2, PairsLoop
  <2> QED BY <1>2, <2>1, NothingCounted
<1>4. InfosInv'
  <2>1. Counted(bag', PairsBefore(bag', at', sub'), expected', expected_total')
    BY <1>1, <1>3
  <2>2. chunks' = 0 /\ sub' \in Nat \ {0}
    BY <1>1, <1>2
  <2> QED BY <2>1, <2>2 DEF InfosInv
<1> QED BY <1>1, <1>2, <1>4 DEF IndexInv, ChunksInv, OpenedInv

LEMMA ReadCountIndex == IInv /\ IndexInv /\ ReadCount => IndexInv'
<1> SUFFICES ASSUME IInv, IndexInv, ReadCount PROVE IndexInv'
  OBVIOUS
<1>1. CASE \E kind : Throw(kind)
  BY <1>1, ThrowIndex
<1>2. CASE ~ \E kind : Throw(kind)
  <2> DEFINE p == <<at, sub>>
             id == Pair(bag, p).id
             before == IF id \in DOMAIN expected THEN expected[id] ELSE 0
             messages == Pair(bag, p).messages
  <2>1. Pair(bag, p) = bag.infos[at].counts[sub]
    BY DEF Pair
  <2>2. /\ pc = "infos" /\ at \in DOMAIN bag.infos /\ sub \in DOMAIN bag.infos[at].counts
        /\ expected' = With(expected, id, before + messages)
        /\ expected_total' = expected_total + messages
        /\ sub' = sub + 1 /\ pc' = pc
        /\ UNCHANGED <<bag, open_, chunks, at>>
    BY <1>2, <2>1 DEF ReadCount, tables
  <2>3. /\ bag \in Bags /\ ~open_ /\ chunks = 0 /\ sub \in Nat \ {0}
        /\ expected \in [DOMAIN expected -> Nat]
        /\ Counted(bag, PairsBefore(bag, at, sub), expected, expected_total)
    BY <2>2 DEF IInv, PhaseInv, NumbersInv, IndexInv, InfosInv
  <2> DEFINE S == PairsBefore(bag, at, sub)
  <2>4. S \subseteq Pairs(bag) /\ p \in Pairs(bag) /\ p \notin S /\ PairsBefore(bag, at, sub + 1) = S \cup {p}
    <3>1. S \subseteq Pairs(bag)
      BY DEF PairsBefore
    <3> QED BY <2>2, <2>3, <3>1, PairsLoop
  <2>5. Counted(bag, S \cup {p}, With(expected, id, before + messages), expected_total + messages)
    <3> HIDE DEF S, p
    <3>1. Counted(bag, S, expected, expected_total)
      BY <2>3 DEF S
    <3> QED BY <2>3, <2>4, <3>1, CountOne
  <2> HIDE DEF S, p, id, before, messages
  <2>6. Counted(bag', PairsBefore(bag', at', sub'), expected', expected_total')
    BY <2>2, <2>4, <2>5
  <2>7. chunks' = 0 /\ sub' \in Nat \ {0}
    BY <2>2, <2>3
  <2> QED BY <2>2, <2>3, <2>6, <2>7 DEF IndexInv, InfosInv, ChunksInv, OpenedInv
<1> QED BY <1>1, <1>2

LEMMA InfoReadIndex == IInv /\ IndexInv /\ InfoRead => IndexInv'
<1> SUFFICES ASSUME IInv, IndexInv, InfoRead PROVE IndexInv'
  OBVIOUS
<1>1. /\ pc = "infos" /\ pc' = pc /\ at \in DOMAIN bag.infos /\ sub \notin DOMAIN bag.infos[at].counts
      /\ at' = at + 1 /\ sub' = 1
      /\ UNCHANGED <<bag, open_, chunks, expected, expected_total>>
  BY DEF InfoRead, NextInfo, totals
<1>2. /\ bag \in Bags /\ ~open_ /\ chunks = 0 /\ sub \in Nat \ {0}
      /\ Counted(bag, PairsBefore(bag, at, sub), expected, expected_total)
  BY <1>1 DEF IInv, PhaseInv, IndexInv, InfosInv
<1>3. PairsBefore(bag, at + 1, 1) = PairsBefore(bag, at, sub)
  BY <1>1, <1>2, PairsLoop
<1>4. Counted(bag', PairsBefore(bag', at', sub'), expected', expected_total')
  BY <1>1, <1>2, <1>3
<1>5. chunks' = 0 /\ sub' \in Nat \ {0}
  BY <1>1, <1>2
<1> QED BY <1>1, <1>2, <1>4, <1>5 DEF IndexInv, InfosInv, ChunksInv, OpenedInv

\* The indexes begin empty, before the first chunk.
LEMMA InfosReadIndex == IInv /\ IndexInv /\ InfosRead => IndexInv'
<1> SUFFICES ASSUME IInv, IndexInv, InfosRead PROVE IndexInv'
  OBVIOUS
<1>1. /\ pc = "infos" /\ pc' = "chunks" /\ at \notin DOMAIN bag.infos /\ at' = 1 /\ sub' = 1
      /\ indexes' = [id \in DOMAIN expected |-> <<>>]
      /\ UNCHANGED <<bag, open_, chunk_infos, chunks, expected, expected_total>>
  BY DEF InfosRead, Goto, totals
<1>2. /\ bag \in Bags /\ ~open_ /\ chunks = 0 /\ at = chunk_infos + 1 /\ chunk_infos \in 0..Len(bag.infos)
      /\ Counted(bag, PairsBefore(bag, at, sub), expected, expected_total)
      /\ expected \in [DOMAIN expected -> Nat]
  BY <1>1 DEF IInv, PhaseInv, LoopInv, NumbersInv, IndexInv, InfosInv
<1>3. Len(bag.infos) \in Nat /\ DOMAIN bag.infos = 1..Len(bag.infos)
  BY <1>2, BagParts
<1>4. chunk_infos = Len(bag.infos) /\ at = Len(bag.infos) + 1
  BY <1>1, <1>2, <1>3
<1>5. PairsBefore(bag, at, sub) = Pairs(bag)
  BY <1>2, <1>4, PairsLoop
<1>6. \A c : PlacesBefore(bag, c, 1, 1) = {}
  BY <1>2, PlacesLoop
<1>7. AsRead(bag, {}, <<>>)
  <2>1. ListsAsRead(bag, {}, <<>>, [k \in 1..0 |-> k])
    BY DEF ListsAsRead
  <2> QED BY <2>1 DEF AsRead
<1>8. ChunksInv'
  <2>1. chunk_infos' = Len(bag'.infos) /\ at' \in 1..chunk_infos' + 1 /\ sub' \in Nat \ {0}
        /\ chunks' \in {at' - 1, at'} /\ chunks' <= chunk_infos'
    BY <1>1, <1>2, <1>3, <1>4
  <2>2. Counted(bag', Pairs(bag'), expected', expected_total')
    BY <1>1, <1>2, <1>5
  <2>3. \A c \in DOMAIN expected' : AsRead(bag', PlacesBefore(bag', c, at', sub'), indexes'[c])
    BY <1>1, <1>6, <1>7
  <2>4. \A c \in Nat \ DOMAIN expected' : PlacesBefore(bag', c, at', sub') = {}
    BY <1>1, <1>6
  <2> QED BY <2>1, <2>2, <2>3, <2>4 DEF ChunksInv
<1> QED BY <1>1, <1>2, <1>8 DEF IndexInv, InfosInv, OpenedInv

\* The header of the next chunk, and the end of the IDXDATA records behind one.
LEMMA ReadChunkIndex == IInv /\ IndexInv /\ ReadChunk => IndexInv'
<1> SUFFICES ASSUME IInv, IndexInv, ReadChunk PROVE IndexInv'
  OBVIOUS
<1>1. /\ pc = "chunks" /\ at \in 1..chunk_infos /\ chunks < at /\ chunks' = chunks + 1
      /\ UNCHANGED <<bag, open_, chunk_infos, expected, expected_total, indexes, pc, at, sub>>
  BY DEF ReadChunk, totals, loops
<1>2. ~open_ /\ bag \in Bags /\ ChunksInv
  BY <1>1 DEF IInv, PhaseInv, IndexInv
<1>3. chunk_infos \in Nat /\ chunks \in {at - 1, at}
  BY <1>1, <1>2, BagParts DEF ChunksInv
<1>4. chunks' \in {at - 1, at} /\ chunks' <= chunk_infos
  BY <1>1, <1>3
<1>5. ChunksInv'
  BY <1>1, <1>2, <1>4 DEF ChunksInv
<1> QED BY <1>1, <1>2, <1>5 DEF IndexInv, InfosInv, OpenedInv

LEMMA ChunkReadIndex == IInv /\ IndexInv /\ ChunkRead => IndexInv'
<1> SUFFICES ASSUME IInv, IndexInv, ChunkRead PROVE IndexInv'
  OBVIOUS
<1>1. /\ pc = "chunks" /\ chunks = at /\ at \in 1..chunk_infos /\ sub \notin DOMAIN bag.infos[at].counts
      /\ at' = at + 1 /\ sub' = 1
      /\ UNCHANGED <<bag, open_, chunk_infos, chunks, expected, expected_total, indexes, pc>>
  BY DEF ChunkRead, NextInfo, tables, totals
<1>2. ~open_ /\ bag \in Bags /\ ChunksInv
  BY <1>1 DEF IInv, PhaseInv, IndexInv
<1>3. chunk_infos = Len(bag.infos) /\ sub \in Nat \ {0} /\ chunks <= chunk_infos
  BY <1>1, <1>2 DEF ChunksInv
<1>4. /\ at \in DOMAIN bag.data /\ chunk_infos \in Nat
      /\ DOMAIN bag.infos[at].counts = 1..Len(bag.infos[at].counts) /\ Len(bag.infos[at].counts) \in Nat
  BY <1>1, <1>2, <1>3, BagParts
<1>5. sub > Len(bag.infos[at].counts)
  BY <1>1, <1>3, <1>4, SMTT(20)
<1>6. \A c : PlacesBefore(bag, c, at + 1, 1) = PlacesBefore(bag, c, at, sub)
  <2> TAKE c
  <2>1. bag \in Bags /\ at \in DOMAIN bag.data /\ sub \in Nat /\ sub > Len(bag.infos[at].counts)
    BY <1>2, <1>3, <1>4, <1>5
  <2>2. \A i \in DOMAIN bag.data : \A j \in Nat :
          j > Len(bag.infos[i].counts) => PlacesBefore(bag, c, i + 1, 1) = PlacesBefore(bag, c, i, j)
    BY <2>1, PlacesLoop, Zenon
  <2> QED BY ONLY <2>1, <2>2
<1>7. ChunksInv'
  <2>1. chunk_infos' = Len(bag'.infos) /\ at' \in 1..chunk_infos' + 1 /\ sub' \in Nat \ {0}
        /\ chunks' \in {at' - 1, at'} /\ chunks' <= chunk_infos'
    BY <1>1, <1>3, <1>4
  <2>2. Counted(bag', Pairs(bag'), expected', expected_total')
    BY <1>1, <1>2 DEF ChunksInv
  <2>3. \A c \in DOMAIN expected' : AsRead(bag', PlacesBefore(bag', c, at', sub'), indexes'[c])
    BY <1>1, <1>2, <1>6 DEF ChunksInv
  <2>4. \A c \in Nat \ DOMAIN expected' : PlacesBefore(bag', c, at', sub') = {}
    BY <1>1, <1>2, <1>6 DEF ChunksInv
  <2> QED BY <2>1, <2>2, <2>3, <2>4 DEF ChunksInv
<1> QED BY <1>1, <1>2, <1>7 DEF IndexInv, InfosInv, OpenedInv

\* The entries of an IDXDATA record are appended to the index of its connection.
LEMMA ReadIndexDataIndex == IInv /\ IndexInv /\ ReadIndexData => IndexInv'
<1> SUFFICES ASSUME IInv, IndexInv, ReadIndexData PROVE IndexInv'
  OBVIOUS
<1>1. CASE \E kind : Throw(kind)
  BY <1>1, ThrowIndex
<1>2. CASE ~ \E kind : Throw(kind)
  <2> DEFINE id == bag.data[at][sub].id
             entries == bag.data[at][sub].entries
  <2>1. /\ pc = "chunks" /\ at \in 1..chunk_infos
        /\ sub \in DOMAIN bag.infos[at].counts /\ sub \in DOMAIN bag.data[at]
        /\ id \in DOMAIN expected
        /\ indexes' = [indexes EXCEPT ![id] = @ \o Entries] /\ sub' = sub + 1
        /\ UNCHANGED <<bag, open_, chunk_infos, chunks, expected, expected_total, pc, at>>
    BY <1>2 DEF ReadIndexData, totals
  <2>2. /\ ~open_ /\ bag \in Bags /\ ChunksInv
        /\ indexes \in [DOMAIN expected -> Seq(EntryType)]
    BY <2>1 DEF IInv, PhaseInv, IndexInv
  <2>3. /\ chunk_infos = Len(bag.infos) /\ at \in 1..chunk_infos + 1 /\ sub \in Nat \ {0}
        /\ chunks \in {at - 1, at} /\ chunks <= chunk_infos
        /\ Counted(bag, Pairs(bag), expected, expected_total)
        /\ \A c \in DOMAIN expected : AsRead(bag, PlacesBefore(bag, c, at, sub), indexes[c])
        /\ \A c \in Nat \ DOMAIN expected : PlacesBefore(bag, c, at, sub) = {}
    BY <2>1, <2>2 DEF ChunksInv
  <2>4. /\ at \in DOMAIN bag.data /\ at \in Nat
        /\ DOMAIN bag.infos[at].counts = 1..Len(bag.infos[at].counts) /\ Len(bag.infos[at].counts) \in Nat
        /\ entries \in Seq([time : Nat, offset : Nat])
    <3>1. at \in DOMAIN bag.data /\ at \in DOMAIN bag.infos /\ at \in Nat
      BY <2>1, <2>2, <2>3, BagParts
    <3>2. DOMAIN bag.infos[at].counts = 1..Len(bag.infos[at].counts) /\ Len(bag.infos[at].counts) \in Nat
      BY <2>2, <3>1, BagParts
    <3>3. entries \in Seq([time : Nat, offset : Nat])
      BY <2>1, <2>2, <3>1, BagParts
    <3> QED BY <3>1, <3>2, <3>3
  <2>5. sub <= Len(bag.infos[at].counts)
    BY <2>1, <2>4
  <2>6. \A c : PlacesBefore(bag, c, at, sub + 1) =
                 PlacesBefore(bag, c, at, sub) \cup
                   (IF id = c THEN RecordPlaces(bag, at, sub) ELSE {})
    <3> TAKE c
    <3>1. bag \in Bags /\ at \in DOMAIN bag.data /\ sub \in DOMAIN bag.data[at]
          /\ sub <= Len(bag.infos[at].counts)
      BY <2>1, <2>2, <2>4, <2>5
    <3> QED BY ONLY <3>1, PlacesStep
  <2>7. /\ Entries \in Seq(EntryType) /\ DOMAIN Entries = DOMAIN entries
        /\ \A n \in DOMAIN Entries : Entries[n] = PlaceEntry(bag, <<at, sub, n>>)
    <3>1. Entries = [n \in DOMAIN entries |-> [time |-> entries[n].time, chunk |-> at, offset |-> entries[n].offset]]
      BY DEF Entries
    <3>6. \A n : PlaceEntry(bag, <<at, sub, n>>) = [time |-> entries[n].time, chunk |-> at, offset |-> entries[n].offset]
      BY DEF PlaceEntry, PlaceAt
    <3> HIDE DEF entries
    <3>2. /\ DOMAIN entries = 1..Len(entries) /\ Len(entries) \in Nat
          /\ \A n \in DOMAIN entries : entries[n] \in [time : Nat, offset : Nat]
      BY ONLY <2>4, ElementsOf
    <3>3. \A n \in DOMAIN entries : [time |-> entries[n].time, chunk |-> at, offset |-> entries[n].offset] \in EntryType
      BY <2>4, <3>2 DEF EntryType
    <3>4. Entries \in [1..Len(entries) -> EntryType]
      BY ONLY <3>1, <3>2, <3>3
    <3>5. Entries \in Seq(EntryType)
      BY ONLY <3>2, <3>4
    <3> QED BY <3>1, <3>5, <3>6
  <2>8. ASSUME NEW c \in DOMAIN expected
        PROVE  AsRead(bag, PlacesBefore(bag, c, at, sub + 1), indexes'[c])
    <3>1. CASE c = id
      <4> DEFINE S == PlacesBefore(bag, c, at, sub)
                 T == PlacesBefore(bag, c, at, sub + 1)
                 E == Entries
                 index == indexes[c]
      <4>1. index \in Seq(EntryType) /\ AsRead(bag, S, index)
        BY <2>2, <2>3
      <4>2. \A p \in S : p[1] < at \/ (p[1] = at /\ p[2] < sub)
        BY DEF PlacesBefore
      <4>3. T = S \cup RecordPlaces(bag, at, sub)
        BY <2>6, <3>1
      <4>4. /\ E \in Seq(EntryType) /\ DOMAIN E = DOMAIN bag.data[at][sub].entries
            /\ \A n \in DOMAIN E : E[n] = PlaceEntry(bag, <<at, sub, n>>)
        BY <2>7
      <4>5. at \in Nat /\ sub \in Nat /\ at \in DOMAIN bag.data /\ sub \in DOMAIN bag.data[at] /\ bag \in Bags
        BY <2>1, <2>2, <2>3, <2>4
      <4>6. AsRead(bag, T, index \o E)
        <5> HIDE DEF S, T, E, index, id, entries
        <5> QED BY ONLY <4>1, <4>2, <4>3, <4>4, <4>5, AppendRead, Zenon
      <4>7. indexes'[c] = index \o E
        BY <2>1, <2>2, <3>1
      <4> HIDE DEF E, index
      <4> QED BY <4>6, <4>7
    <3>2. CASE c # id
      <4>1. indexes'[c] = indexes[c]
        BY <2>1, <2>2, <3>2
      <4>2. PlacesBefore(bag, c, at, sub + 1) = PlacesBefore(bag, c, at, sub)
        BY <2>6, <3>2
      <4> QED BY <2>3, <4>1, <4>2
    <3> QED BY <3>1, <3>2
  <2>9. \A c \in Nat \ DOMAIN expected : PlacesBefore(bag, c, at, sub + 1) = {}
    BY <2>1, <2>3, <2>6
  <2> HIDE DEF id, entries
  <2>10. ChunksInv'
    <3>1. chunk_infos' = Len(bag'.infos) /\ at' \in 1..chunk_infos' + 1 /\ sub' \in Nat \ {0}
          /\ chunks' \in {at' - 1, at'} /\ chunks' <= chunk_infos'
      BY <2>1, <2>3
    <3>2. Counted(bag', Pairs(bag'), expected', expected_total')
      BY <2>1, <2>3
    <3>3. \A c \in DOMAIN expected' : AsRead(bag', PlacesBefore(bag', c, at', sub'), indexes'[c])
      BY <2>1, <2>8
    <3>4. \A c \in Nat \ DOMAIN expected' : PlacesBefore(bag', c, at', sub') = {}
      BY <2>1, <2>9
    <3> QED BY <3>1, <3>2, <3>3, <3>4 DEF ChunksInv
  <2> QED BY <2>1, <2>2, <2>10 DEF IndexInv, InfosInv, OpenedInv
<1> QED BY <1>1, <1>2

\* The ids of the connections of an index are numbers.
LEMMA IdsAreNumbers == IInv => Ids \subseteq Nat
BY DEF IInv, NumbersInv, Ids

\* What open() leaves is the whole bag, in order.
LEMMA FinishIndex == IInv /\ IndexInv /\ Finish => IndexInv'
<1> SUFFICES ASSUME IInv, IndexInv, Finish PROVE IndexInv'
  OBVIOUS
<1>1. CASE ~Complete
  BY <1>1, ThrowIndex DEF Finish
<1>2. CASE Complete
  <2>1. /\ pc = "chunks" /\ pc' = "idle" /\ open_' /\ at \notin 1..chunk_infos
        /\ indexes' = [id \in Ids |-> IF id \in DOMAIN indexes THEN Sorted(indexes[id]) ELSE <<>>]
        /\ metadata' = [messages |-> SumFunction([id \in Ids |-> Len(indexes'[id])]),
                        start |-> Span.start, end |-> Span.end]
        /\ UNCHANGED <<bag, connections, chunk_infos, chunks, expected, expected_total>>
    BY <1>2 DEF Finish, totals
  <2>2. /\ bag \in Bags /\ indexes \in [DOMAIN expected -> Seq(EntryType)] /\ ChunksInv
        /\ \A c \in DOMAIN expected : Len(indexes[c]) = expected[c]
        /\ \A c \in DOMAIN expected : c \in Ids
    BY <1>2, <2>1 DEF IInv, PhaseInv, ChargesExact, IndexInv, Complete
  <2>3. /\ chunk_infos = Len(bag.infos) /\ at \in 1..chunk_infos + 1
        /\ chunks \in {at - 1, at} /\ chunks <= chunk_infos
        /\ Counted(bag, Pairs(bag), expected, expected_total)
        /\ \A c \in DOMAIN expected : AsRead(bag, PlacesBefore(bag, c, at, sub), indexes[c])
        /\ \A c \in Nat \ DOMAIN expected : PlacesBefore(bag, c, at, sub) = {}
    BY <2>1, <2>2 DEF ChunksInv
  <2>4. Len(bag.infos) \in Nat
    BY <2>2, BagParts
  <2>5. at = Len(bag.infos) + 1 /\ chunks = chunk_infos
    BY <2>1, <2>3, <2>4, SMTT(20)
  <2>6. \A c : PlacesBefore(bag, c, at, sub) = Places(bag, c)
    BY <2>2, <2>5, PlacesLoop
  <2>7. ASSUME NEW c \in Ids
        PROVE  /\ indexes'[c] \in Seq(EntryType)
               /\ Len(indexes'[c]) = IF c \in DOMAIN expected THEN expected[c] ELSE 0
               /\ InTime(bag, Places(bag, c), indexes'[c])
    <3>1. CASE c \in DOMAIN expected
      <4>1. indexes'[c] = Sorted(indexes[c]) /\ indexes[c] \in Seq(EntryType)
        BY <2>1, <2>2, <3>1
      <4>2. AsRead(bag, Places(bag, c), indexes[c])
        BY <2>3, <2>6, <3>1
      <4>3. InTime(bag, Places(bag, c), Sorted(indexes[c])) /\ Sorted(indexes[c]) \in Seq(EntryType)
        BY <2>2, <4>1, <4>2, SortInTime
      <4>4. Len(Sorted(indexes[c])) = expected[c]
        BY <2>2, <3>1, <4>1, SortKeepsLength
      <4> QED BY <3>1, <4>1, <4>3, <4>4
    <3>2. CASE c \notin DOMAIN expected
      <4>1. indexes'[c] = <<>>
        BY <2>1, <2>2, <3>2
      <4>2. c \in Nat
        BY IdsAreNumbers
      <4>3. Places(bag, c) = {}
        BY <2>3, <2>6, <3>2, <4>2
      <4>4. InTime(bag, {}, <<>>)
        <5>1. ListsInTime(bag, {}, <<>>, [k \in 1..0 |-> k])
          BY DEF ListsInTime
        <5> QED BY <5>1 DEF InTime
      <4> QED BY <3>2, <4>1, <4>3, <4>4
    <3> QED BY <3>1, <3>2
  <2>8. indexes' \in [Ids -> Seq(EntryType)]
    BY <2>1, <2>7
  <2>9. Ids' = Ids /\ Span' = Span
    BY <2>1 DEF Ids, Span
  <2>10. OpenedInv'
    <3>1. bag' \in Bags /\ chunk_infos' = Len(bag'.infos) /\ chunks' = chunk_infos'
      BY <2>1, <2>2, <2>3, <2>5
    <3>2. Counted(bag', Pairs(bag'), expected', expected_total')
      BY <2>1, <2>3
    <3>3. indexes' \in [Ids' -> Seq(EntryType)]
      BY <2>8, <2>9
    <3>4. \A c \in Ids' : Len(indexes'[c]) = IF c \in DOMAIN expected' THEN expected'[c] ELSE 0
      BY <2>1, <2>7, <2>9
    <3>5. \A c \in Ids' : InTime(bag', Places(bag', c), indexes'[c])
      BY <2>1, <2>7, <2>9
    <3>6. metadata' = [messages |-> SumFunction([c \in Ids' |-> Len(indexes'[c])]),
                       start |-> Span'.start, end |-> Span'.end]
      BY <2>1, <2>9, Zenon
    <3> QED BY <3>1, <3>2, <3>3, <3>4, <3>5, <3>6 DEF OpenedInv
  <2> QED BY <2>1, <2>10 DEF IndexInv, InfosInv, ChunksInv
<1> QED BY <1>1, <1>2

LEMMA StutterIndex == IndexInv /\ UNCHANGED vars => IndexInv'
<1> SUFFICES ASSUME IndexInv, UNCHANGED vars PROVE IndexInv'
  OBVIOUS
<1>1. UNCHANGED <<bag, open_, connections, chunk_infos, chunks, indexes, metadata, expected,
                  expected_total, pc, at, sub>>
  BY DEF vars, tables, totals, loops
<1>2. Ids' = Ids /\ Span' = Span
  BY <1>1 DEF Ids, Span
<1>3. InfosInv'
  BY <1>1 DEF IndexInv, InfosInv
<1>4. ChunksInv'
  BY <1>1 DEF IndexInv, ChunksInv
<1>5. OpenedInv'
  BY <1>1, <1>2 DEF IndexInv, OpenedInv
<1> QED BY <1>1, <1>3, <1>4, <1>5 DEF IndexInv

LEMMA NextIndex == IInv /\ IndexInv /\ [Next]_vars => IndexInv'
<1>1. IInv /\ IndexInv /\ Next => IndexInv'
  BY CallsIndex, HeadersIndex, ConnectionsReadIndex, ReadCountIndex, InfoReadIndex, InfosReadIndex,
     ReadChunkIndex, ReadIndexDataIndex, ChunkReadIndex, FinishIndex, StutterIndex
     DEF Next, Step, Destroyed
<1> QED BY <1>1, StutterIndex

LEMMA IndexInductive == Spec => []IndexInv
BY InitIndex, InitInv, NextInv, NextIndex, Inductive, PTL DEF Spec

\* What is reserved for the indexes is what was counted.
LEMMA ReservedIsTotal ==
  ASSUME NEW counts, NEW total, counts \in [DOMAIN counts -> Nat],
         NEW b, NEW S, Counted(b, S, counts, total),
         NEW T, IsFiniteSet(T), DOMAIN counts \subseteq T,
         NEW f, DOMAIN f = T, \A x \in T : f[x] = IF x \in DOMAIN counts THEN counts[x] ELSE 0
  PROVE  SumFunction(f) = total
<1> DEFINE D == DOMAIN counts
<1>1. IsFiniteSet(D) /\ total = SumFunctionOnSet(counts, D)
  BY DEF Counted
<1>2. /\ \A x \in T : f[x] \in Int
      /\ \A x \in T \ D : f[x] = 0
      /\ \A x \in D : f[x] \in Int /\ f[x] = counts[x]
  OBVIOUS
<1>3. SumFunctionOnSet(f, T) = SumFunctionOnSet(f, D)
  <2> HIDE DEF D
  <2>1. D \subseteq T
    BY DEF D
  <2> QED BY ONLY IsFiniteSet(T), <1>2, <2>1, SumZeros
<1>4. SumFunctionOnSet(f, D) = SumFunctionOnSet(counts, D)
  <2> HIDE DEF D
  <2> QED BY ONLY <1>1, <1>2, SumSame
<1> HIDE DEF D
<1>5. SumFunction(f) = SumFunctionOnSet(f, T)
  BY DEF SumFunction
<1> QED BY ONLY <1>1, <1>3, <1>4, <1>5

\* The connections of a bag are finitely many.
LEMMA FinitelyManyIds == IInv => IsFiniteSet(Ids)
<1> SUFFICES ASSUME IInv PROVE IsFiniteSet(Ids)
  OBVIOUS
<1>1. connections \in Seq(Nat)
  BY DEF IInv, NumbersInv
<1>2. DOMAIN connections = 1..Len(connections) /\ Len(connections) \in Int /\ 1 \in Int
  BY <1>1
<1>3. IsFiniteSet(DOMAIN connections)
  BY ONLY <1>2, FS_Interval
<1>4. IsFiniteSet({connections[n] : n \in DOMAIN connections})
  BY <1>3, FiniteImage
<1> QED BY <1>4 DEF Ids

\* The budget covers the chunk records and the room reserved for the indexes.
LEMMA BudgetFromCounts == IInv /\ IndexInv => IndexBudgetHeld
<1> SUFFICES ASSUME IInv, IndexInv PROVE IndexBudgetHeld
  OBVIOUS
<1> DEFINE reserved(id) == IF id \in DOMAIN expected THEN expected[id] ELSE 0
           held(id) == Max({Len(indexes[id]), reserved(id)})
           f == [id \in DOMAIN indexes |-> held(id)]
           sum == SumFunction(f)
<1>0. ChunkBytes \in Nat /\ EntryBytes \in Nat /\ MaxIndexBytes \in Nat
  OBVIOUS
<1>1. CASE pc = "chunks" \/ open_
  <2>1. /\ bag \in Bags /\ chunk_infos = Len(bag.infos)
        /\ Counted(bag, Pairs(bag), expected, expected_total)
        /\ \A c \in DOMAIN indexes : indexes[c] \in Seq(EntryType)
        /\ DOMAIN indexes = DOMAIN expected \/ DOMAIN indexes = Ids
    BY <1>1 DEF IInv, PhaseInv, IndexInv, ChunksInv, OpenedInv
  <2>2. /\ expected \in [DOMAIN expected -> Nat] /\ expected_total \in Nat
        /\ index_bytes <= MaxIndexBytes
        /\ index_bytes = Len(bag.infos) * ChunkBytes + expected_total * EntryBytes
        /\ \A id \in DOMAIN expected : id \in Ids
        /\ \A id \in DOMAIN indexes : Len(indexes[id]) <= reserved(id)
    BY <1>0, <1>1 DEF IInv, NumbersInv, ChargesExact
  <2>3. IsFiniteSet(DOMAIN indexes) /\ DOMAIN expected \subseteq DOMAIN indexes
    BY <2>1, <2>2, FinitelyManyIds DEF Counted
  <2>4. \A id \in DOMAIN indexes : f[id] = reserved(id)
    <3> SUFFICES ASSUME NEW id \in DOMAIN indexes PROVE held(id) = reserved(id)
      OBVIOUS
    <3>1. Len(indexes[id]) \in Int /\ reserved(id) \in Int /\ Len(indexes[id]) <= reserved(id)
      BY <2>1, <2>2
    <3> HIDE DEF reserved
    <3> QED BY ONLY <3>1, MaxOfTwo
  <2>5. SumFunction(f) = expected_total
    <3>1. DOMAIN f = DOMAIN indexes
      OBVIOUS
    <3>2. \A id \in DOMAIN indexes : f[id] = IF id \in DOMAIN expected THEN expected[id] ELSE 0
      BY <2>4
    <3> HIDE DEF f
    <3> QED BY ONLY <2>1, <2>2, <2>3, <3>1, <3>2, ReservedIsTotal
  <2> HIDE DEF f
  <2>6. chunk_infos * ChunkBytes + SumFunction(f) * EntryBytes = index_bytes
    BY ONLY <2>1, <2>2, <2>5, Zenon
  <2> QED BY <2>2, <2>6 DEF IndexBudgetHeld, f
<1>2. CASE ~(pc = "chunks" \/ open_)
  <2>1. indexes = Nothing
    BY <1>2 DEF IInv, PhaseInv, AllOrNothing
  <2>2. SumFunction(f) = 0
    <3>1. DOMAIN f = {}
      BY <2>1 DEF Nothing
    <3>2. SumFunctionOnSet(f, {}) = 0
      BY SumOfNothing
    <3> HIDE DEF f
    <3> QED BY ONLY <3>1, <3>2, Zenon DEF SumFunction
  <2>3. chunk_infos * ChunkBytes <= MaxIndexBytes /\ chunk_infos * ChunkBytes \in Nat
    <3>1. CASE pc = "infos"
      <4>1. /\ bag \in Bags /\ chunk_infos \in 0..Len(bag.infos) /\ expected_total \in Nat
            /\ index_bytes <= MaxIndexBytes
            /\ index_bytes = Len(bag.infos) * ChunkBytes + expected_total * EntryBytes
        BY <1>0, <3>1 DEF IInv, PhaseInv, LoopInv, NumbersInv, ChargesExact
      <4>2. Len(bag.infos) \in Nat
        BY <4>1, BagParts
      <4>3. ASSUME NEW a \in Nat, NEW b \in Nat, NEW c \in Nat, a <= b
            PROVE  a * c <= b * c /\ a * c \in Nat /\ b * c \in Nat
        BY ONLY <4>3, SMT
      <4>4. chunk_infos \in Nat /\ chunk_infos <= Len(bag.infos)
        BY ONLY <4>1, <4>2
      <4>5. /\ chunk_infos * ChunkBytes <= Len(bag.infos) * ChunkBytes
            /\ chunk_infos * ChunkBytes \in Nat /\ Len(bag.infos) * ChunkBytes \in Nat
        BY ONLY <1>0, <4>2, <4>3, <4>4
      <4>6. expected_total * EntryBytes \in Nat
        BY ONLY <1>0, <4>1, <4>3
      <4>7. \A x, y, z, m \in Nat : x <= y /\ y + z <= m => x <= m
        OBVIOUS
      <4>8. Len(bag.infos) * ChunkBytes + expected_total * EntryBytes <= MaxIndexBytes
        BY ONLY <4>1, Zenon
      <4>9. chunk_infos * ChunkBytes <= MaxIndexBytes
        BY ONLY <1>0, <4>5, <4>6, <4>7, <4>8, Zenon
      <4> QED BY ONLY <4>5, <4>9
    <3>2. CASE pc # "infos"
      <4>1. chunk_infos = 0
        BY <1>2, <3>2 DEF IInv, PhaseInv, LoopInv, AllOrNothing
      <4> QED BY <1>0, <4>1
    <3> QED BY <3>1, <3>2
  <2> HIDE DEF f
  <2>4. chunk_infos * ChunkBytes + SumFunction(f) * EntryBytes <= MaxIndexBytes
    BY ONLY <1>0, <2>2, <2>3
  <2> QED BY <2>4 DEF IndexBudgetHeld, f
<1> QED BY <1>1, <1>2

\* What a set of pairs announces is the sum of its messages.
LEMMA AnnouncedSum ==
  ASSUME NEW b \in Bags, NEW S, S \subseteq Pairs(b)
  PROVE  SumFunction([p \in S |-> Pair(b, p).messages]) = SumFunctionOnSet(MessagesOf(b), S)
<1> DEFINE f == [p \in S |-> Pair(b, p).messages]
           g == MessagesOf(b)
<1>1. IsFiniteSet(S) /\ DOMAIN f = S /\ \A p \in S : f[p] \in Int /\ f[p] = g[p]
  BY PairsOfBag, FS_Subset
<1> HIDE DEF f, g
<1>2. SumFunction(f) = SumFunctionOnSet(g, S)
  BY ONLY <1>1, SumOfTable
<1> QED BY <1>2 DEF f, g

LEMMA CountsFromIndex == IInv /\ IndexInv => CountsAgree
<1> SUFFICES ASSUME IInv, IndexInv, open_ PROVE
      /\ \A id \in Ids : Len(indexes[id]) = AnnouncedIn({p \in Announcements : CountAt(p).id = id})
      /\ metadata.messages = AnnouncedIn(Announcements)
  BY DEF CountsAgree
<1>1. /\ bag \in Bags
      /\ Counted(bag, Pairs(bag), expected, expected_total)
      /\ \A c \in Ids : Len(indexes[c]) = IF c \in DOMAIN expected THEN expected[c] ELSE 0
      /\ metadata.messages = SumFunction([c \in Ids |-> Len(indexes[c])])
  BY DEF IndexInv, OpenedInv
<1>2. /\ expected \in [DOMAIN expected -> Nat] /\ \A id \in DOMAIN expected : id \in Ids
  BY DEF IInv, NumbersInv, ChargesExact
<1>3. Announcements = Pairs(bag) /\ \A p : CountAt(p) = Pair(bag, p)
  BY DEF Announcements, Pairs, CountAt, Pair
<1>4. \A S : S \subseteq Pairs(bag) => AnnouncedIn(S) = SumFunctionOnSet(MessagesOf(bag), S)
  <2> SUFFICES ASSUME NEW S, S \subseteq Pairs(bag) PROVE AnnouncedIn(S) = SumFunctionOnSet(MessagesOf(bag), S)
    OBVIOUS
  <2>1. [p \in S |-> CountAt(p).messages] = [p \in S |-> Pair(bag, p).messages]
    BY <1>3
  <2>2. AnnouncedIn(S) = SumFunction([p \in S |-> Pair(bag, p).messages])
    BY <2>1 DEF AnnouncedIn
  <2> QED BY <1>1, <2>2, AnnouncedSum
<1>5. ASSUME NEW id \in Ids
      PROVE  Len(indexes[id]) = AnnouncedIn({p \in Announcements : CountAt(p).id = id})
  <2> DEFINE S == PairsFor(bag, Pairs(bag), id)
  <2>1. {p \in Announcements : CountAt(p).id = id} = S /\ S \subseteq Pairs(bag)
    BY <1>3 DEF PairsFor
  <2>2. AnnouncedIn({p \in Announcements : CountAt(p).id = id}) = SumFunctionOnSet(MessagesOf(bag), S)
    BY <1>4, <2>1
  <2>3. CASE id \in DOMAIN expected
    BY <1>1, <2>2, <2>3 DEF Counted
  <2>4. CASE id \notin DOMAIN expected
    <3>1. S = {}
      BY <1>1, <2>4 DEF Counted, PairsFor
    <3>2. SumFunctionOnSet(MessagesOf(bag), {}) = 0
      BY SumOfNothing
    <3>3. Len(indexes[id]) = 0
      BY <1>1, <2>4
    <3> QED BY ONLY <2>2, <3>1, <3>2, <3>3, Zenon
  <2> QED BY <2>3, <2>4
<1>6. metadata.messages = AnnouncedIn(Announcements)
  <2> DEFINE f == [c \in Ids |-> Len(indexes[c])]
  <2>1. DOMAIN f = Ids /\ \A c \in Ids : f[c] = IF c \in DOMAIN expected THEN expected[c] ELSE 0
    BY <1>1
  <2>2. IsFiniteSet(Ids) /\ DOMAIN expected \subseteq Ids
    BY <1>2, FinitelyManyIds
  <2>3. SumFunction(f) = expected_total
    <3> HIDE DEF f
    <3> QED BY ONLY <1>1, <1>2, <2>1, <2>2, ReservedIsTotal
  <2>4. AnnouncedIn(Announcements) = SumFunctionOnSet(MessagesOf(bag), Pairs(bag))
    BY <1>3, <1>4
  <2>5. expected_total = SumFunctionOnSet(MessagesOf(bag), Pairs(bag))
    BY <1>1 DEF Counted
  <2> QED BY <1>1, <2>3, <2>4, <2>5
<1> QED BY <1>5, <1>6

\* The times of a chunk and of the whole index are finitely many numbers, and every entry
\* belongs to a chunk of the bag.
LEMMA TimesOfIndex ==
  IInv /\ IndexInv /\ open_ =>
    /\ \A c \in 1..chunks : TimesOf(c) \subseteq Nat /\ IsFiniteSet(TimesOf(c)) /\ TimesOf(c) \subseteq Times
    /\ Times \subseteq Nat
    /\ \A t \in Times : \E c \in 1..chunks : t \in TimesOf(c)
<1> SUFFICES ASSUME IInv, IndexInv, open_
             PROVE  /\ \A c \in 1..chunks : TimesOf(c) \subseteq Nat /\ IsFiniteSet(TimesOf(c)) /\ TimesOf(c) \subseteq Times
                    /\ Times \subseteq Nat
                    /\ \A t \in Times : \E c \in 1..chunks : t \in TimesOf(c)
  OBVIOUS
<1>1. /\ bag \in Bags /\ chunks = Len(bag.infos) /\ indexes \in [Ids -> Seq(EntryType)]
      /\ \A c \in Ids : InTime(bag, Places(bag, c), indexes[c])
  BY DEF IndexInv, OpenedInv
<1>2. ASSUME NEW id \in Ids, NEW n \in DOMAIN indexes[id]
      PROVE  indexes[id][n] \in EntryType /\ indexes[id][n].chunk \in 1..chunks /\ indexes[id][n].time \in Nat
  <2>1. indexes[id] \in Seq(EntryType)
    BY <1>1
  <2>2. indexes[id][n] \in EntryType /\ n \in 1..Len(indexes[id])
    BY <2>1, ElementsOf
  <2>3. PICK q : ListsInTime(bag, Places(bag, id), indexes[id], q)
    BY <1>1 DEF InTime
  <2>4. q[n] \in Places(bag, id) /\ indexes[id][n] = PlaceEntry(bag, q[n])
    BY <2>2, <2>3 DEF ListsInTime
  <2>5. indexes[id][n].chunk = q[n][1]
    BY <2>4 DEF PlaceEntry
  <2>6. q[n][1] \in DOMAIN bag.data
    BY <1>1, <2>4, PlacesOfBag
  <2>7. q[n][1] \in 1..chunks
    BY <1>1, <2>6, BagParts
  <2>8. indexes[id][n].time \in Nat
    BY <2>2 DEF EntryType
  <2> QED BY <2>2, <2>5, <2>7, <2>8
<1>3. \A id \in Ids : IsFiniteSet(DOMAIN indexes[id])
  <2> SUFFICES ASSUME NEW id \in Ids PROVE IsFiniteSet(DOMAIN indexes[id])
    OBVIOUS
  <2>1. indexes[id] \in Seq(EntryType)
    BY <1>1
  <2>2. DOMAIN indexes[id] = 1..Len(indexes[id]) /\ Len(indexes[id]) \in Int /\ 1 \in Int
    BY <2>1, ElementsOf
  <2> QED BY ONLY <2>2, FS_Interval
<1>4. Times = UNION {{indexes[id][n].time : n \in DOMAIN indexes[id]} : id \in Ids}
  BY <1>1 DEF Times
<1> DEFINE all == [id \in Ids |-> {indexes[id][n].time : n \in DOMAIN indexes[id]}]
<1>5. IsFiniteSet(Times)
  <2>1. \A id \in Ids : IsFiniteSet(all[id])
    <3> SUFFICES ASSUME NEW id \in Ids PROVE IsFiniteSet(all[id])
      OBVIOUS
    <3> DEFINE S == DOMAIN indexes[id]
               f == [n \in S |-> indexes[id][n].time]
    <3>1. IsFiniteSet(S)
      BY <1>3
    <3>2. IsFiniteSet({f[n] : n \in S})
      <4> HIDE DEF S, f
      <4> QED BY ONLY <3>1, FiniteImage
    <3>3. all[id] = {f[n] : n \in S}
      OBVIOUS
    <3> HIDE DEF all, S, f
    <3> QED BY <3>2, <3>3
  <2>2. IsFiniteSet(Ids)
    BY FinitelyManyIds
  <2>3. IsFiniteSet(UNION {all[id] : id \in Ids})
    <3> HIDE DEF all
    <3> QED BY ONLY <2>1, <2>2, FiniteFamily
  <2>4. Times = UNION {all[id] : id \in Ids}
    BY <1>4
  <2> QED BY <2>3, <2>4
<1>6. \A t : t \in Times <=> \E id \in Ids : \E n \in DOMAIN indexes[id] : t = indexes[id][n].time
  BY <1>4
<1>7. ASSUME NEW c, NEW t
      PROVE  t \in TimesOf(c) <=>
               \E id \in Ids : \E n \in DOMAIN indexes[id] : indexes[id][n].chunk = c /\ t = indexes[id][n].time
  <2>1. DOMAIN indexes = Ids
    BY <1>1
  <2>2. t \in TimesOf(c) <=>
          \E id \in Ids : t \in {e.time : e \in {x \in {indexes[id][n] : n \in DOMAIN indexes[id]} : x.chunk = c}}
    BY <2>1 DEF TimesOf
  <2>3. ASSUME NEW id \in Ids
        PROVE  t \in {e.time : e \in {x \in {indexes[id][n] : n \in DOMAIN indexes[id]} : x.chunk = c}}
                 <=> \E n \in DOMAIN indexes[id] : indexes[id][n].chunk = c /\ t = indexes[id][n].time
    OBVIOUS
  <2> QED BY ONLY <2>2, <2>3
<1>8. \A c : TimesOf(c) \subseteq Times
  BY <1>6, <1>7
<1>9. Times \subseteq Nat
  BY <1>2, <1>6
<1>10. \A c : TimesOf(c) \subseteq Nat /\ IsFiniteSet(TimesOf(c))
  BY <1>5, <1>8, <1>9, FS_Subset
<1>11. \A t \in Times : \E c \in 1..chunks : t \in TimesOf(c)
  BY <1>2, <1>6, <1>7
<1> QED BY <1>8, <1>9, <1>10, <1>11

\* When the announced ranges are those of the chunks, their hull is that of all entries.
LEMMA SpanFromIndex == IInv /\ IndexInv => SpanExact
<1> SUFFICES ASSUME IInv, IndexInv, open_, Times # {},
                    \A c \in 1..chunks : IF bag.infos[c].counts = <<>> THEN TimesOf(c) = {}
                      ELSE TimesOf(c) # {} /\ bag.infos[c].start = Min(TimesOf(c))
                           /\ bag.infos[c].end = Max(TimesOf(c))
             PROVE  metadata.start = Min(Times) /\ metadata.end = Max(Times) + 1
  BY DEF SpanExact
<1> DEFINE named == {c \in 1..chunks : bag.infos[c].counts # <<>>}
           used == {info \in {bag.infos[n] : n \in DOMAIN bag.infos} : info.counts # <<>>}
           starts == {info.start : info \in used}
           ends == {End(info) : info \in used}
<1>1. /\ bag \in Bags /\ chunks = Len(bag.infos) /\ metadata.start = Span.start /\ metadata.end = Span.end
      /\ indexes \in [Ids -> Seq(EntryType)]
      /\ Counted(bag, Pairs(bag), expected, expected_total)
      /\ \A c \in Ids : Len(indexes[c]) = IF c \in DOMAIN expected THEN expected[c] ELSE 0
  BY DEF IndexInv, OpenedInv
<1>2. /\ DOMAIN bag.infos = 1..chunks
      /\ \A c \in 1..chunks : bag.infos[c].start \in Nat /\ bag.infos[c].end \in Nat
  BY <1>1, BagParts
<1>3. /\ \A c \in 1..chunks : TimesOf(c) \subseteq Nat /\ IsFiniteSet(TimesOf(c)) /\ TimesOf(c) \subseteq Times
      /\ Times \subseteq Nat
      /\ \A t \in Times : \E c \in 1..chunks : t \in TimesOf(c)
  BY TimesOfIndex
<1>4. /\ \A x : x \in starts <=> \E c \in named : x = bag.infos[c].start
      /\ \A x : x \in ends <=> \E c \in named : x = bag.infos[c].end + 1
  BY <1>2 DEF End
<1>5. \A c \in named :
        /\ c \in 1..chunks /\ TimesOf(c) # {}
        /\ bag.infos[c].start = Min(TimesOf(c)) /\ bag.infos[c].end = Max(TimesOf(c))
        /\ bag.infos[c].start \in Nat /\ bag.infos[c].end \in Nat
  BY <1>2
<1>6. \A t \in Times : \E c \in named : t \in TimesOf(c)
  BY <1>3
<1>7. ASSUME NEW c \in named
      PROVE  /\ bag.infos[c].start \in TimesOf(c) /\ bag.infos[c].end \in TimesOf(c)
             /\ \A t \in TimesOf(c) : bag.infos[c].start <= t /\ t <= bag.infos[c].end
             /\ TimesOf(c) \subseteq Times
  <2> DEFINE T == TimesOf(c)
  <2>1. IsFiniteSet(T) /\ T \subseteq Int /\ T # {} /\ T \subseteq Times
    BY <1>3, <1>5
  <2>2. /\ Min(T) \in T /\ \A t \in T : Min(T) <= t
        /\ Max(T) \in T /\ \A t \in T : t <= Max(T)
    <3> HIDE DEF T
    <3> QED BY ONLY <2>1, FiniteBounds
  <2> QED BY <1>5, <2>1, <2>2
<1>8. IsFiniteSet(named) /\ named # {}
  <2>1. chunks \in Int /\ 1 \in Int
    BY <1>1, BagParts
  <2>2. IsFiniteSet(1..chunks)
    BY ONLY <2>1, FS_Interval
  <2>3. IsFiniteSet(named)
    BY <2>2, FS_Subset
  <2>4. named # {}
    <3> HIDE DEF named
    <3> QED BY <1>6
  <2> QED BY <2>3, <2>4
<1> HIDE DEF starts, ends, named
<1>9. starts \subseteq Nat /\ starts # {} /\ ends \subseteq Nat /\ ends # {} /\ IsFiniteSet(ends)
  <2>1. starts \subseteq Nat /\ starts # {} /\ ends \subseteq Nat /\ ends # {}
    <3>1. \A c \in named : bag.infos[c].start \in Nat /\ bag.infos[c].end + 1 \in Nat
      BY <1>5
    <3> QED BY ONLY <1>4, <1>8, <3>1
  <2>2. IsFiniteSet(ends)
    <3> DEFINE f == [c \in named |-> bag.infos[c].end + 1]
    <3>1. IsFiniteSet({f[c] : c \in named})
      <4> HIDE DEF f
      <4> QED BY ONLY <1>8, FiniteImage
    <3>2. ends = {f[c] : c \in named}
      BY <1>4
    <3> QED BY <3>1, <3>2
  <2> QED BY <2>1, <2>2
<1>10. Min(starts) \in starts /\ \A x \in starts : Min(starts) <= x
  <2>1. starts \in SUBSET Int /\ starts # {} /\ 0 \in Int /\ \A x \in starts : 0 <= x
    BY <1>9
  <2> QED BY ONLY <2>1, MinOfBounded
<1>11. Max(ends) \in ends /\ \A x \in ends : x <= Max(ends)
  <2>1. IsFiniteSet(ends) /\ ends \subseteq Int /\ ends # {}
    BY <1>9
  <2> QED BY ONLY <2>1, FiniteBounds
<1>12. Min(Times) = Min(starts)
  <2>1. PICK c \in named : Min(starts) = bag.infos[c].start
    BY <1>4, <1>10
  <2>2. Min(starts) \in Times
    BY <1>7, <2>1
  <2>3. ASSUME NEW t \in Times PROVE Min(starts) <= t
    <3>1. PICK d \in named : t \in TimesOf(d)
      BY <1>6
    <3>2. bag.infos[d].start \in starts /\ bag.infos[d].start <= t /\ bag.infos[d].start \in Nat /\ t \in Nat
      BY <1>3, <1>4, <1>5, <1>7, <3>1
    <3>3. Min(starts) <= bag.infos[d].start /\ Min(starts) \in Nat
      BY <1>9, <1>10, <3>2
    <3> QED BY ONLY <3>2, <3>3
  <2>4. Times \in SUBSET Int
    BY <1>3
  <2> QED BY ONLY <2>2, <2>3, <2>4, MinIs
<1>13. Max(Times) + 1 = Max(ends)
  <2>1. PICK c \in named : Max(ends) = bag.infos[c].end + 1
    BY <1>4, <1>11
  <2> DEFINE m == bag.infos[c].end
  <2>2. m \in Times /\ m \in Nat
    BY <1>5, <1>7
  <2>3. ASSUME NEW t \in Times PROVE t <= m
    <3>1. PICK d \in named : t \in TimesOf(d)
      BY <1>6
    <3>2. bag.infos[d].end + 1 \in ends /\ t <= bag.infos[d].end /\ bag.infos[d].end \in Nat /\ t \in Nat
      BY <1>3, <1>4, <1>5, <1>7, <3>1
    <3>3. bag.infos[d].end + 1 <= m + 1
      BY <1>11, <2>1, <3>2
    <3> HIDE DEF m
    <3> QED BY ONLY <2>2, <3>2, <3>3
  <2>4. Times \in SUBSET Int
    BY <1>3
  <2>5. Max(Times) = m
    <3> HIDE DEF m
    <3> QED BY ONLY <2>2, <2>3, <2>4, MaxIs
  <2> QED BY <2>1, <2>5
<1>14. expected_total # 0
  <2>1. PICK t \in Times : TRUE
    OBVIOUS
  <2>2. PICK id \in Ids : \E n \in DOMAIN indexes[id] : t = indexes[id][n].time
    BY <1>1, <2>1 DEF Times
  <2>3. indexes[id] \in Seq(EntryType)
    BY <1>1
  <2>4. Len(indexes[id]) # 0
    BY <2>2, <2>3
  <2>5. id \in DOMAIN expected /\ expected[id] # 0
    BY <1>1, <2>4
  <2>6. expected \in [DOMAIN expected -> Nat] /\ expected[id] <= expected_total /\ expected_total \in Nat
    BY <2>5 DEF IInv, NumbersInv, ChargesExact
  <2>7. expected[id] \in Nat
    BY <2>5, <2>6
  <2> QED BY ONLY <2>5, <2>6, <2>7
<1>15. Span.start = Min(starts) /\ Span.end = Max(ends)
  BY <1>14 DEF Span, starts, ends
<1> QED BY <1>1, <1>12, <1>13, <1>15

\* What open() holds of a bag and reserves for its index is within the budget at every
\* step, whatever the bag announces and whatever its chunks contain (rosbag1.cpp:268-271,
\* 317-319, 351-352).
THEOREM Budgeted == ReaderSpec => []IndexBudgetHeld
BY IndexInductive, Inductive, BudgetFromCounts, CursorOnlyReads, PTL

\* What an open bag says of its messages is so: for each connection and in total the index
\* has the entries announced, and where the announced time ranges are true of their chunks
\* the range of the bag is the smallest that has all messages (rosbag1.cpp:297-376).
THEOREM Described == ReaderSpec => []MetadataExact
<1>1. IInv /\ IndexInv => MetadataExact
  BY CountsFromIndex, SpanFromIndex DEF MetadataExact
<1> QED BY <1>1, IndexInductive, Inductive, CursorOnlyReads, PTL

-----------------------------------------------------------------------------
\* What the filter asks for: connections, and of each of them positions in its index.
Asked == {d \in Ids : HasTopic(d)}
InWindow(time) ==
  (filter.start = NoTime \/ time >= filter.start) /\ (filter.stop = NoTime \/ time < filter.stop)
Positions(c) == {k \in DOMAIN indexes[c] : InWindow(indexes[c][k].time)}

\* The heap item of a position, the records its entry points to, and the message there.
ItemOf(c, k) == [time |-> indexes[c][k].time, rank |-> Rank(c), position |-> k, conn |-> c]
RecordsOf(c, k) == bag.chunks[indexes[c][k].chunk].records
Pointed(c, k, r) ==
  r \in 1..Len(RecordsOf(c, k)) + 1 /\ Located(RecordsOf(c, k), indexes[c][k].offset, r)
MessageOf(c, k, r) ==
  [time |-> indexes[c][k].time, source |-> Rank(c), index |-> k, connection |-> c,
   chunk |-> indexes[c][k].chunk, record |-> r]

\* The order of items and of messages.
Ordered(t, r, p, u, s, q) == t < u \/ (t = u /\ (r < s \/ (r = s /\ p < q)))

\* The next position of each connection that has one: on the heap, or being read.
Pending == heap \cup ({item} \ {Idle})

HeadsInv ==
  /\ \A h \in Pending : h.conn \in Asked /\ h.position \in Positions(h.conn) /\ h = ItemOf(h.conn, h.position)
  /\ \A g, h \in Pending : g.conn = h.conn => g = h
  /\ item # Idle => item \notin heap /\ \A h \in heap : Before(item, h)
CacheInv ==
  /\ item = Idle => loading = 0
  /\ item # Idle => (IF loading = 0 THEN cached ELSE loading) = indexes[item.conn][item.position].chunk

\* Everything handed out was asked for and precedes everything pending, and whatever was
\* asked for is handed out or still ahead of its connection.
OrderInv ==
  \A n \in DOMAIN out :
    /\ \E c \in Asked : \E k \in Positions(c) : \E r : Pointed(c, k, r) /\ out[n] = MessageOf(c, k, r)
    /\ \A h \in Pending : Ordered(out[n].time, out[n].source, out[n].index, h.time, h.rank, h.position)
NoneLost ==
  \A c \in Asked : \A k \in Positions(c) :
    \/ \E n \in DOMAIN out : out[n].connection = c /\ out[n].index = k
    \/ \E h \in Pending : h.conn = c /\ h.position <= k

CursorInv ==
  /\ status = "new" => out = <<>> /\ heap = {} /\ item = Idle /\ cached = 0 /\ loading = 0
  /\ status = "open" => /\ pc = "idle" /\ open_ /\ filter \in Filters
                        /\ HeadsInv /\ CacheInv /\ OrderInv /\ NoneLost
  /\ out \in Seq(Stream!Handed)

\* The state of the backend a cursor works on.
Ready == IInv /\ IndexInv /\ open_ /\ filter \in Filters

\* An index holds the entry of each place of its connection at the position of the place.
LEMMA PlaceRank ==
  ASSUME NEW b \in Bags, NEW c, NEW index, Len(index) \in Nat,
         NEW q, ListsInTime(b, Places(b, c), index, q), NEW k \in 1..Len(index)
  PROVE  Cardinality({p \in Places(b, c) : Sooner(b, p, q[k]) \/ p = q[k]}) = k
<1> DEFINE S == Places(b, c)
           D == 1..Len(index)
           upto == {p \in S : Sooner(b, p, q[k]) \/ p = q[k]}
           t == [j \in 1..k |-> q[j]]
<1>1. /\ q \in [D -> S] /\ \A p \in S : \E j \in D : q[j] = p
      /\ \A i, j \in D : i < j => Sooner(b, q[i], q[j])
  BY DEF ListsInTime
<1>2. \A p \in S : PlaceAt(b, p).time \in Nat /\ p[1] \in Nat /\ p[2] \in Nat /\ p[3] \in Nat
  BY PlacesOfBag
<1> HIDE DEF S
<1>3. \A x, y \in S : ~(Sooner(b, x, y) /\ Sooner(b, y, x)) /\ ~Sooner(b, x, x)
  <2> SUFFICES ASSUME NEW x \in S, NEW y \in S
               PROVE  ~(Sooner(b, x, y) /\ Sooner(b, y, x)) /\ ~Sooner(b, x, x)
    OBVIOUS
  <2> DEFINE tx == PlaceAt(b, x).time
             ty == PlaceAt(b, y).time
  <2>1. /\ tx \in Nat /\ ty \in Nat /\ x[1] \in Nat /\ x[2] \in Nat /\ x[3] \in Nat
        /\ y[1] \in Nat /\ y[2] \in Nat /\ y[3] \in Nat
    BY <1>2
  <2>2. /\ Sooner(b, x, y) <=> tx < ty \/ (tx = ty /\ ReadEarlier(x, y))
        /\ Sooner(b, y, x) <=> ty < tx \/ (ty = tx /\ ReadEarlier(y, x))
        /\ Sooner(b, x, x) <=> tx < tx \/ (tx = tx /\ ReadEarlier(x, x))
    BY DEF Sooner
  <2> HIDE DEF tx, ty
  <2>3. ~(ReadEarlier(x, y) /\ ReadEarlier(y, x)) /\ ~ReadEarlier(x, x)
    BY ONLY <2>1, SMTT(20) DEF ReadEarlier
  <2> QED BY ONLY <2>1, <2>2, <2>3
<1>4. k \in Nat /\ \A j \in 1..k : j \in D /\ (j < k \/ j = k)
  OBVIOUS
<1>5. t \in [1..k -> upto]
  BY <1>1, <1>4
<1>6. \A i, j \in 1..k : t[i] = t[j] => i = j
  <2> SUFFICES ASSUME NEW i \in 1..k, NEW j \in 1..k, q[i] = q[j] PROVE i = j
    BY <1>4
  <2>1. i \in D /\ j \in D /\ q[i] \in S /\ q[j] \in S
    BY <1>1, <1>4
  <2>2. ~(i < j) /\ ~(j < i)
    BY <1>1, <1>3, <2>1
  <2> QED BY <2>2
<1>7. ASSUME NEW x \in upto PROVE \E j \in 1..k : t[j] = x
  <2>1. PICK j \in D : q[j] = x
    BY <1>1
  <2>2. ~(k < j)
    <3>1. k < j => Sooner(b, q[k], q[j])
      BY <1>1
    <3>2. q[k] \in S /\ q[j] \in S
      BY <1>1
    <3> QED BY <1>3, <2>1, <3>1, <3>2
  <2>3. j \in 1..k
    BY <2>2
  <2> QED BY <2>1, <2>3
<1> HIDE DEF t, upto
<1>8. t \in Injection(1..k, upto) /\ t \in Surjection(1..k, upto)
  BY <1>5, <1>6, <1>7 DEF Injection, IsInjective, Surjection
<1>9. ExistsBijection(1..k, upto)
  BY <1>8 DEF ExistsBijection, Bijection
<1> QED BY <1>4, <1>9, FS_CountingElements DEF upto, S

\* The connections of an open backend, their entries, and the chunks these point to.
LEMMA RankFacts == IInv => \A c \in Ids : Rank(c) \in Nat
<1> SUFFICES ASSUME IInv, NEW c \in Ids PROVE Rank(c) \in Nat
  OBVIOUS
<1>1. connections \in Seq(Nat)
  BY DEF IInv, NumbersInv
<1>2. \E n \in DOMAIN connections : connections[n] = c
  BY DEF Ids
<1>3. Rank(c) \in DOMAIN connections
  BY <1>2 DEF Rank
<1>4. DOMAIN connections = 1..Len(connections) /\ Len(connections) \in Nat
  BY <1>1
<1> QED BY <1>3, <1>4

LEMMA EntryFacts ==
  Ready => \A c \in Ids :
    /\ Len(indexes[c]) \in Nat /\ DOMAIN indexes[c] = 1..Len(indexes[c])
    /\ \A k \in DOMAIN indexes[c] :
         /\ indexes[c][k].time \in Nat /\ indexes[c][k].offset \in Nat
         /\ indexes[c][k].chunk \in DOMAIN bag.chunks /\ indexes[c][k].chunk # 0
         /\ RecordsOf(c, k) \in Seq(Records)
    /\ \A j, k \in DOMAIN indexes[c] : j < k => indexes[c][j].time <= indexes[c][k].time
<1> SUFFICES ASSUME Ready, NEW c \in Ids
             PROVE  /\ Len(indexes[c]) \in Nat /\ DOMAIN indexes[c] = 1..Len(indexes[c])
                    /\ \A k \in DOMAIN indexes[c] :
                         /\ indexes[c][k].time \in Nat /\ indexes[c][k].offset \in Nat
                         /\ indexes[c][k].chunk \in DOMAIN bag.chunks /\ indexes[c][k].chunk # 0
                         /\ RecordsOf(c, k) \in Seq(Records)
                    /\ \A j, k \in DOMAIN indexes[c] : j < k => indexes[c][j].time <= indexes[c][k].time
  OBVIOUS
<1>1. /\ bag \in Bags /\ indexes[c] \in Seq(EntryType)
      /\ InTime(bag, Places(bag, c), indexes[c])
  BY DEF Ready, IndexInv, OpenedInv
<1>2. PICK q : ListsInTime(bag, Places(bag, c), indexes[c], q)
  BY <1>1 DEF InTime
<1> DEFINE index == indexes[c]
           D == DOMAIN index
<1>3. Len(index) \in Nat /\ D = 1..Len(index) /\ \A k \in D : index[k] \in EntryType
  BY <1>1, ElementsOf
<1>4. /\ \A k \in D : q[k] \in Places(bag, c) /\ index[k] = PlaceEntry(bag, q[k])
      /\ \A j, k \in D : j < k => Sooner(bag, q[j], q[k])
  BY <1>2, <1>3 DEF ListsInTime
<1> HIDE DEF D, index
<1>5. ASSUME NEW k \in D
      PROVE  /\ index[k].time \in Nat /\ index[k].offset \in Nat
             /\ index[k].chunk \in DOMAIN bag.chunks /\ index[k].chunk # 0
             /\ bag.chunks[index[k].chunk].records \in Seq(Records)
  <2>1. index[k].time \in Nat /\ index[k].offset \in Nat
    BY <1>3 DEF EntryType
  <2>2. index[k].chunk = q[k][1]
    <3>1. \A p : PlaceEntry(bag, p).chunk = p[1]
      BY DEF PlaceEntry
    <3> QED BY <1>4, <3>1
  <2>3. q[k][1] \in DOMAIN bag.data
    BY <1>1, <1>4, PlacesOfBag
  <2>4. index[k].chunk \in DOMAIN bag.chunks /\ index[k].chunk # 0
    BY <1>1, <2>2, <2>3, BagParts
  <2>5. bag.chunks[index[k].chunk].records \in Seq(Records)
    BY <1>1, <2>4, BagParts
  <2> QED BY <2>1, <2>4, <2>5
<1>6. ASSUME NEW j \in D, NEW k \in D, j < k PROVE index[j].time <= index[k].time
  <2>1. Sooner(bag, q[j], q[k])
    BY <1>4, <1>6
  <2>2. index[j].time = PlaceAt(bag, q[j]).time /\ index[k].time = PlaceAt(bag, q[k]).time
    <3>1. \A p : PlaceEntry(bag, p).time = PlaceAt(bag, p).time
      BY DEF PlaceEntry
    <3> QED BY <1>4, <3>1
  <2>3. index[j].time \in Nat /\ index[k].time \in Nat
    BY <1>5
  <2>4. index[j].time < index[k].time \/ index[j].time = index[k].time
    BY ONLY <2>1, <2>2 DEF Sooner
  <2> QED BY ONLY <2>3, <2>4
<1> QED BY <1>3, <1>5, <1>6 DEF D, index, RecordsOf

\* An entry points to one record at most.
LEMMA PointedOnce ==
  ASSUME NEW records, Len(records) \in Nat, DOMAIN records = 1..Len(records), NEW offset \in Nat,
         NEW r \in 1..Len(records) + 1, NEW s \in 1..Len(records) + 1,
         Located(records, offset, r), Located(records, offset, s)
  PROVE  r = s
<1>1. ASSUME NEW x \in 1..Len(records) + 1, NEW y \in 1..Len(records) + 1,
             Located(records, offset, x), Located(records, offset, y), x < y
      PROVE  FALSE
  <2>1. x \in DOMAIN records /\ offset <= x
    BY <1>1 DEF Located
  <2> QED BY <1>1, <2>1 DEF Located
<1>2. ~(r < s) /\ ~(s < r)
  BY <1>1
<1> QED BY <1>2

LEMMA OneMessage ==
  ASSUME Ready, NEW c \in Ids, NEW k \in DOMAIN indexes[c], NEW r, NEW s, Pointed(c, k, r), Pointed(c, k, s)
  PROVE  r = s
<1> DEFINE records == RecordsOf(c, k)
           offset == indexes[c][k].offset
<1>1. records \in Seq(Records) /\ offset \in Nat
  BY EntryFacts
<1>2. Len(records) \in Nat /\ DOMAIN records = 1..Len(records)
  BY <1>1, ElementsOf
<1>3. /\ r \in 1..Len(records) + 1 /\ s \in 1..Len(records) + 1
      /\ Located(records, offset, r) /\ Located(records, offset, s)
  BY DEF Pointed
<1> HIDE DEF records, offset
<1> QED BY ONLY <1>1, <1>2, <1>3, PointedOnce

\* The bag's own account of what the filter accepts, and the positions in the index.
LEMMA WantedFacts ==
  ASSUME Ready, NEW m
  PROVE  m \in Wanted <=>
           \E c \in Asked : \E k \in Positions(c) : \E r : Pointed(c, k, r) /\ m = MessageOf(c, k, r)
<1> DEFINE Upto(c, p) == {x \in Places(bag, c) : Sooner(bag, x, p) \/ x = p}
           Behind(p) == bag.chunks[p[1]].records
           Told(c, p, r) == [time |-> PlaceAt(bag, p).time, source |-> Rank(c), index |-> Cardinality(Upto(c, p)),
                             connection |-> c, chunk |-> p[1], record |-> r]
           Tells(c, p, r) ==
             /\ p \in Places(bag, c) /\ InWindow(PlaceAt(bag, p).time)
             /\ r \in 1..Len(Behind(p)) + 1 /\ Located(Behind(p), PlaceAt(bag, p).offset, r)
             /\ m = Told(c, p, r)
<1>1. bag \in Bags
  BY DEF Ready, IndexInv, OpenedInv
<1>2. \A c : PlacesOf(c) = Places(bag, c)
  BY DEF PlacesOf, Places
<1>3. \A p : At(p) = PlaceAt(bag, p)
  BY DEF At, PlaceAt
<1>4. ASSUME NEW c, NEW p \in Places(bag, c)
      PROVE  {x \in PlacesOf(c) : NotAfter(x, p)} = Upto(c, p)
  <2>1. \A x \in Places(bag, c) : x = <<x[1], x[2], x[3]>> /\ x[1] \in Nat /\ x[2] \in Nat /\ x[3] \in Nat
    BY <1>1, PlacesOfBag
  <2>2. ASSUME NEW x \in Places(bag, c) PROVE NotAfter(x, p) <=> Sooner(bag, x, p) \/ x = p
    <3>1. x = p <=> x[1] = p[1] /\ x[2] = p[2] /\ x[3] = p[3]
      BY <2>1
    <3>2. x[3] <= p[3] <=> x[3] < p[3] \/ x[3] = p[3]
      BY <2>1
    <3>3. At(x) = PlaceAt(bag, x) /\ At(p) = PlaceAt(bag, p)
      BY <1>3
    <3> QED BY ONLY <3>1, <3>2, <3>3 DEF NotAfter, Sooner, ReadEarlier
  <2> QED BY <1>2, <2>2
<1>5. m \in Wanted <=> \E c \in Asked : \E p, r : Tells(c, p, r)
  <2> DEFINE Inner(c) ==
        UNION {{[time |-> At(p).time, source |-> Rank(c),
                 index |-> Cardinality({q \in PlacesOf(c) : NotAfter(q, p)}),
                 connection |-> c, chunk |-> p[1], record |-> r] :
                  r \in {r \in 1..Len(bag.chunks[p[1]].records) + 1 :
                           Located(bag.chunks[p[1]].records, At(p).offset, r)}} :
                 p \in {q \in PlacesOf(c) :
                          /\ filter.start = NoTime \/ At(q).time >= filter.start
                          /\ filter.stop = NoTime \/ At(q).time < filter.stop}}
  <2>1. m \in Wanted <=> \E c \in Asked : m \in Inner(c)
    <3>1. Wanted = UNION {Inner(c) : c \in Asked}
      BY Zenon DEF Wanted, Asked
    <3> HIDE DEF Inner
    <3> QED BY ONLY <3>1
  <2>2. ASSUME NEW c PROVE m \in Inner(c) <=> \E p, r : Tells(c, p, r)
    <3> DEFINE Same(p) == {q \in PlacesOf(c) : NotAfter(q, p)}
               Told1(p) == {[time |-> At(p).time, source |-> Rank(c), index |-> Cardinality(Same(p)),
                             connection |-> c, chunk |-> p[1], record |-> r] :
                              r \in {r \in 1..Len(bag.chunks[p[1]].records) + 1 :
                                       Located(bag.chunks[p[1]].records, At(p).offset, r)}}
               Within == {q \in PlacesOf(c) : /\ filter.start = NoTime \/ At(q).time >= filter.start
                                              /\ filter.stop = NoTime \/ At(q).time < filter.stop}
    <3>1. m \in Inner(c) <=>
            \E p \in {q \in PlacesOf(c) : /\ filter.start = NoTime \/ At(q).time >= filter.start
                                          /\ filter.stop = NoTime \/ At(q).time < filter.stop} :
              \E r \in {r \in 1..Len(bag.chunks[p[1]].records) + 1 :
                          Located(bag.chunks[p[1]].records, At(p).offset, r)} :
                m = [time |-> At(p).time, source |-> Rank(c), index |-> Cardinality(Same(p)),
                     connection |-> c, chunk |-> p[1], record |-> r]
      <4>1. Inner(c) = UNION {Told1(p) : p \in Within}
        BY Zenon
      <4>2. \A p : m \in Told1(p) <=>
              \E r \in {r \in 1..Len(bag.chunks[p[1]].records) + 1 :
                          Located(bag.chunks[p[1]].records, At(p).offset, r)} :
                m = [time |-> At(p).time, source |-> Rank(c), index |-> Cardinality(Same(p)),
                     connection |-> c, chunk |-> p[1], record |-> r]
        <5> HIDE DEF Inner, Same, Within
        <5> QED OBVIOUS
      <4> HIDE DEF Inner, Told1, Same
      <4> QED BY ONLY <4>1, <4>2 DEF Within
    <3>2. \A p \in Places(bag, c) : Same(p) = Upto(c, p)
      BY <1>4
    <3> HIDE DEF Same, Upto, Inner
    <3>3. m \in Inner(c) <=>
            \E p, r :
              /\ p \in PlacesOf(c)
              /\ filter.start = NoTime \/ At(p).time >= filter.start
              /\ filter.stop = NoTime \/ At(p).time < filter.stop
              /\ r \in 1..Len(bag.chunks[p[1]].records) + 1
              /\ Located(bag.chunks[p[1]].records, At(p).offset, r)
              /\ m = [time |-> At(p).time, source |-> Rank(c), index |-> Cardinality(Same(p)),
                      connection |-> c, chunk |-> p[1], record |-> r]
      BY ONLY <3>1
    <3>4. ASSUME NEW p, NEW r
          PROVE  Tells(c, p, r) <=>
              /\ p \in PlacesOf(c)
              /\ filter.start = NoTime \/ At(p).time >= filter.start
              /\ filter.stop = NoTime \/ At(p).time < filter.stop
              /\ r \in 1..Len(bag.chunks[p[1]].records) + 1
              /\ Located(bag.chunks[p[1]].records, At(p).offset, r)
              /\ m = [time |-> At(p).time, source |-> Rank(c), index |-> Cardinality(Same(p)),
                      connection |-> c, chunk |-> p[1], record |-> r]
      <4>1. CASE p \in Places(bag, c)
        <5>1. Same(p) = Upto(c, p) /\ At(p) = PlaceAt(bag, p) /\ PlacesOf(c) = Places(bag, c)
          BY <1>2, <1>3, <3>2, <4>1
        <5> QED BY ONLY <4>1, <5>1 DEF InWindow
      <4>2. CASE p \notin Places(bag, c)
        BY ONLY <1>2, <4>2
      <4> QED BY ONLY <4>1, <4>2
    <3> HIDE DEF Tells
    <3> QED BY ONLY <3>3, <3>4
  <2> HIDE DEF Inner, Tells
  <2> QED BY ONLY <2>1, <2>2
<1> HIDE DEF Tells
<1>6. ASSUME NEW c \in Asked
      PROVE  (\E p, r : Tells(c, p, r)) <=> \E k \in Positions(c) : \E r : Pointed(c, k, r) /\ m = MessageOf(c, k, r)
  <2> DEFINE index == indexes[c]
             S == Places(bag, c)
  <2>1. c \in Ids
    BY DEF Asked
  <2>2. Len(index) \in Nat /\ DOMAIN index = 1..Len(index)
    BY <2>1, EntryFacts
  <2>3. PICK q : ListsInTime(bag, S, index, q)
    BY <2>1 DEF Ready, IndexInv, OpenedInv, InTime
  <2>4. /\ \A k \in DOMAIN index : q[k] \in S /\ index[k] = PlaceEntry(bag, q[k])
        /\ \A p \in S : \E k \in DOMAIN index : q[k] = p
    BY <2>2, <2>3 DEF ListsInTime
  <2>5. ASSUME NEW k \in DOMAIN index, NEW r
        PROVE  Tells(c, q[k], r) <=> k \in Positions(c) /\ Pointed(c, k, r) /\ m = MessageOf(c, k, r)
    <3>1. q[k] \in S /\ index[k] = PlaceEntry(bag, q[k])
      BY <2>4
    <3>2. /\ index[k].time = PlaceAt(bag, q[k]).time /\ index[k].chunk = q[k][1]
          /\ index[k].offset = PlaceAt(bag, q[k]).offset
      <4>1. \A p : /\ PlaceEntry(bag, p).time = PlaceAt(bag, p).time /\ PlaceEntry(bag, p).chunk = p[1]
                   /\ PlaceEntry(bag, p).offset = PlaceAt(bag, p).offset
        BY DEF PlaceEntry
      <4> QED BY ONLY <3>1, <4>1
    <3>3. Cardinality(Upto(c, q[k])) = k
      <4>1. k \in 1..Len(index)
        BY <2>2
      <4> HIDE DEF index
      <4> QED BY <1>1, <2>2, <2>3, <4>1, PlaceRank
    <3>4. Behind(q[k]) = RecordsOf(c, k)
      BY <3>2 DEF RecordsOf
    <3>5. Told(c, q[k], r) = MessageOf(c, k, r)
      BY <3>2, <3>3 DEF MessageOf
    <3>6. k \in Positions(c) <=> InWindow(PlaceAt(bag, q[k]).time)
      BY <3>2 DEF Positions
    <3>7. Pointed(c, k, r) <=> r \in 1..Len(Behind(q[k])) + 1 /\ Located(Behind(q[k]), PlaceAt(bag, q[k]).offset, r)
      BY <3>2, <3>4 DEF Pointed
    <3> HIDE DEF Behind, Told
    <3> QED BY <3>1, <3>5, <3>6, <3>7 DEF Tells
  <2>6. \A p, r : Tells(c, p, r) => p \in S
    BY DEF Tells
  <2>7. Positions(c) \subseteq DOMAIN index
    BY DEF Positions
  <2> HIDE DEF index, S
  <2> QED BY ONLY <2>4, <2>5, <2>6, <2>7
<1> QED BY ONLY <1>5, <1>6

-----------------------------------------------------------------------------
\* What the filter says of a time, and where its first position is.
LEMMA FilterFacts ==
  ASSUME filter \in Filters
  PROVE  /\ filter.start = NoTime \/ filter.start \in Nat
         /\ filter.stop = NoTime \/ filter.stop \in Nat
BY FiltersAssumption

\* From a position that is not too early on, the next item is pushed unless it is too late.
LEMMA PushedNext ==
  ASSUME Ready, NEW c \in Asked, NEW i \in 1..Len(indexes[c]) + 1,
         i \in DOMAIN indexes[c] => ~TooEarly(indexes[c][i].time, filter.start)
  PROVE  /\ \A h \in Pushed(c, i, filter.stop) : i \in Positions(c) /\ h = ItemOf(c, i)
         /\ \A k \in Positions(c) : i <= k => ItemOf(c, i) \in Pushed(c, i, filter.stop)
<1> DEFINE index == indexes[c]
           D == DOMAIN index
<1>1. c \in Ids
  BY DEF Asked
<1>2. /\ Len(index) \in Nat /\ D = 1..Len(index)
      /\ \A k \in D : index[k].time \in Nat
      /\ \A j, k \in D : j < k => index[j].time <= index[k].time
  BY <1>1, EntryFacts
<1>3. /\ filter.start = NoTime \/ filter.start \in Nat
      /\ filter.stop = NoTime \/ filter.stop \in Nat
  BY FilterFacts DEF Ready
<1>4. Pushed(c, i, filter.stop) = {ItemOf(c, k) : k \in {k \in {i} \cap D : filter.stop = NoTime \/ index[k].time < filter.stop}}
  BY DEF Pushed, ItemOf
<1>5. Positions(c) = {k \in D : InWindow(index[k].time)}
  BY DEF Positions
<1>6. i \in D => ~TooEarly(index[i].time, filter.start)
  OBVIOUS
<1> HIDE DEF index, D
<1>7. ASSUME i \in D, filter.stop = NoTime \/ index[i].time < filter.stop PROVE i \in Positions(c)
  <2>1. index[i].time \in Nat
    BY <1>2, <1>7
  <2> QED BY <1>3, <1>5, <1>6, <1>7, <2>1 DEF InWindow, TooEarly
<1>8. ASSUME NEW k \in Positions(c), i <= k
      PROVE  i \in D /\ (filter.stop = NoTime \/ index[i].time < filter.stop)
  <2>1. k \in D /\ InWindow(index[k].time)
    BY <1>5
  <2>2. i \in D
    BY <1>2, <1>8, <2>1
  <2>3. index[i].time <= index[k].time
    <3>1. CASE i = k
      BY <1>2, <2>1, <3>1
    <3>2. CASE i # k
      <4>1. i < k
        BY <1>2, <1>8, <2>1, <3>2
      <4> QED BY <1>2, <2>1, <2>2, <4>1
    <3> QED BY <3>1, <3>2
  <2>4. index[i].time \in Nat /\ index[k].time \in Nat
    BY <1>2, <2>1, <2>2
  <2> QED BY <1>3, <2>1, <2>2, <2>3, <2>4, SMTT(20) DEF InWindow
<1>9. \A h \in Pushed(c, i, filter.stop) :
        h = ItemOf(c, i) /\ i \in D /\ (filter.stop = NoTime \/ index[i].time < filter.stop)
  BY <1>4
<1>10. i \in D /\ (filter.stop = NoTime \/ index[i].time < filter.stop) => ItemOf(c, i) \in Pushed(c, i, filter.stop)
  BY <1>4
<1> QED BY ONLY <1>7, <1>8, <1>9, <1>10

LEMMA FirstFacts ==
  ASSUME Ready, NEW c \in Asked
  PROVE  /\ First(c, filter.start) \in 1..Len(indexes[c]) + 1
         /\ First(c, filter.start) \in DOMAIN indexes[c] =>
              ~TooEarly(indexes[c][First(c, filter.start)].time, filter.start)
         /\ \A k \in Positions(c) : First(c, filter.start) <= k
<1> DEFINE T == {i \in 1..Len(indexes[c]) + 1 : i \in DOMAIN indexes[c] => ~TooEarly(indexes[c][i].time, filter.start)}
<1>1. c \in Ids
  BY DEF Asked
<1>2. /\ Len(indexes[c]) \in Nat /\ DOMAIN indexes[c] = 1..Len(indexes[c])
      /\ \A k \in DOMAIN indexes[c] : indexes[c][k].time \in Nat
  BY <1>1, EntryFacts
<1>3. filter.start = NoTime \/ filter.start \in Nat
  BY FilterFacts DEF Ready
<1>4. Positions(c) \subseteq T
  <2> SUFFICES ASSUME NEW k \in Positions(c) PROVE k \in T
    OBVIOUS
  <2>1. k \in DOMAIN indexes[c] /\ (filter.start = NoTime \/ indexes[c][k].time >= filter.start)
    BY DEF Positions, InWindow
  <2>2. ~TooEarly(indexes[c][k].time, filter.start) /\ k \in 1..Len(indexes[c]) + 1
    BY <1>2, <1>3, <2>1, SMTT(20) DEF TooEarly
  <2> QED BY <2>2
<1>5. Len(indexes[c]) + 1 \in T
  BY <1>2, SMTT(20)
<1>6. T \in SUBSET Int /\ T # {} /\ 1 \in Int /\ \A t \in T : 1 <= t
  BY <1>2, <1>5
<1>7. First(c, filter.start) = Min(T)
  BY DEF First
<1> HIDE DEF T
<1>8. Min(T) \in T /\ \A t \in T : Min(T) <= t
  BY ONLY <1>6, MinOfBounded
<1> QED BY <1>4, <1>7, <1>8 DEF T

\* The heap of a new cursor.
Heads == UNION {Pushed(c, First(c, filter.start), filter.stop) : c \in Asked}

LEMMA HeadsFacts ==
  Ready =>
    /\ \A h \in Heads : h.conn \in Asked /\ h.position \in Positions(h.conn) /\ h = ItemOf(h.conn, h.position)
    /\ \A g, h \in Heads : g.conn = h.conn => g = h
    /\ \A c \in Asked : \A k \in Positions(c) : \E h \in Heads : h.conn = c /\ h.position <= k
<1> SUFFICES ASSUME Ready
             PROVE  /\ \A h \in Heads : /\ h.conn \in Asked /\ h.position \in Positions(h.conn)
                                        /\ h = ItemOf(h.conn, h.position)
                    /\ \A g, h \in Heads : g.conn = h.conn => g = h
                    /\ \A c \in Asked : \A k \in Positions(c) : \E h \in Heads : h.conn = c /\ h.position <= k
  OBVIOUS
<1> DEFINE F(c) == First(c, filter.start)
<1>1. \A c, k : ItemOf(c, k).conn = c /\ ItemOf(c, k).position = k
  BY DEF ItemOf
<1>2. ASSUME NEW c \in Asked
      PROVE  /\ \A h \in Pushed(c, F(c), filter.stop) : F(c) \in Positions(c) /\ h = ItemOf(c, F(c))
             /\ \A k \in Positions(c) : F(c) <= k /\ ItemOf(c, F(c)) \in Pushed(c, F(c), filter.stop)
  <2>1. /\ F(c) \in 1..Len(indexes[c]) + 1
        /\ F(c) \in DOMAIN indexes[c] => ~TooEarly(indexes[c][F(c)].time, filter.start)
        /\ \A k \in Positions(c) : F(c) <= k
    BY FirstFacts
  <2> HIDE DEF F
  <2> QED BY <2>1, PushedNext
<1>3. \A h : h \in Heads <=> \E c \in Asked : h \in Pushed(c, F(c), filter.stop)
  BY DEF Heads
<1> HIDE DEF F
<1> QED BY ONLY <1>1, <1>2, <1>3

-----------------------------------------------------------------------------
\* What the invariant says of the index depends on these variables only.
LEMMA SameIndex ==
  ASSUME UNCHANGED <<bag, connections, indexes>>
  PROVE  /\ Ids' = Ids
         /\ \A c : Rank(c)' = Rank(c)
         /\ \A c, k : ItemOf(c, k)' = ItemOf(c, k) /\ RecordsOf(c, k)' = RecordsOf(c, k)
         /\ \A c, k, r : (Pointed(c, k, r)' <=> Pointed(c, k, r)) /\ MessageOf(c, k, r)' = MessageOf(c, k, r)
<1>1. Ids' = Ids
  BY DEF Ids
<1>2. \A c : Rank(c)' = Rank(c)
  BY DEF Rank
<1>3. \A c, k : ItemOf(c, k)' = ItemOf(c, k) /\ RecordsOf(c, k)' = RecordsOf(c, k)
  BY <1>2 DEF ItemOf, RecordsOf
<1>4. \A c, k, r : (Pointed(c, k, r)' <=> Pointed(c, k, r)) /\ MessageOf(c, k, r)' = MessageOf(c, k, r)
  BY <1>2, <1>3 DEF Pointed, MessageOf
<1> QED BY <1>1, <1>2, <1>3, <1>4

LEMMA SameFilter ==
  ASSUME UNCHANGED <<bag, connections, indexes, filter>>
  PROVE  Asked' = Asked /\ \A c : Positions(c)' = Positions(c)
<1>1. Ids' = Ids
  BY SameIndex
<1>2. \A c : HasTopic(c)' = HasTopic(c)
  BY DEF HasTopic
<1>3. \A time : InWindow(time)' = InWindow(time)
  BY DEF InWindow
<1> QED BY <1>1, <1>2, <1>3 DEF Asked, Positions

\* The invariant of an open cursor, after a step of one that leaves its index alone.
LEMMA SamePending ==
  ASSUME OrderInv, NoneLost, UNCHANGED <<bag, connections, indexes, filter, out>>, Pending' = Pending
  PROVE  OrderInv' /\ NoneLost'
<1>1. Asked' = Asked /\ \A c : Positions(c)' = Positions(c)
  BY SameFilter
<1>2. \A c, k, r : (Pointed(c, k, r)' <=> Pointed(c, k, r)) /\ MessageOf(c, k, r)' = MessageOf(c, k, r)
  BY SameIndex
<1>3. OrderInv'
  BY <1>1, <1>2 DEF OrderInv, Ordered
<1>4. NoneLost'
  BY <1>1 DEF NoneLost
<1> QED BY <1>3, <1>4

LEMMA SameHeads ==
  ASSUME HeadsInv, UNCHANGED <<bag, connections, indexes, filter, heap, item>>
  PROVE  HeadsInv' /\ Pending' = Pending
<1>1. Asked' = Asked /\ \A c : Positions(c)' = Positions(c)
  BY SameFilter
<1>2. \A c, k : ItemOf(c, k)' = ItemOf(c, k)
  BY SameIndex
<1>3. Pending' = Pending
  BY DEF Pending
<1> QED BY <1>1, <1>2, <1>3 DEF HeadsInv, Before

\* An item is at a position, which is no less than one.
LEMMA ItemFacts ==
  Ready /\ HeadsInv =>
    /\ \A c, k : /\ ItemOf(c, k).conn = c /\ ItemOf(c, k).position = k
                 /\ ItemOf(c, k).time = indexes[c][k].time /\ ItemOf(c, k).rank = Rank(c)
    /\ \A h \in Pending :
         /\ h # Idle /\ h.conn \in Ids
         /\ h.position \in Nat \ {0} /\ h.position \in DOMAIN indexes[h.conn]
         /\ h.rank = Rank(h.conn) /\ h.rank \in Nat
         /\ h.time = indexes[h.conn][h.position].time /\ h.time \in Nat
<1> SUFFICES ASSUME Ready, HeadsInv
             PROVE  /\ \A c, k : /\ ItemOf(c, k).conn = c /\ ItemOf(c, k).position = k
                                 /\ ItemOf(c, k).time = indexes[c][k].time /\ ItemOf(c, k).rank = Rank(c)
                    /\ \A h \in Pending :
                         /\ h # Idle /\ h.conn \in Ids
                         /\ h.position \in Nat \ {0} /\ h.position \in DOMAIN indexes[h.conn]
                         /\ h.rank = Rank(h.conn) /\ h.rank \in Nat
                         /\ h.time = indexes[h.conn][h.position].time /\ h.time \in Nat
  OBVIOUS
<1>1. \A c, k : /\ ItemOf(c, k).conn = c /\ ItemOf(c, k).position = k
                /\ ItemOf(c, k).time = indexes[c][k].time /\ ItemOf(c, k).rank = Rank(c)
  BY DEF ItemOf
<1>2. ASSUME NEW h \in Pending
      PROVE  /\ h # Idle /\ h.conn \in Ids
             /\ h.position \in Nat \ {0} /\ h.position \in DOMAIN indexes[h.conn]
             /\ h.rank = Rank(h.conn) /\ h.rank \in Nat
             /\ h.time = indexes[h.conn][h.position].time /\ h.time \in Nat
  <2>1. h.conn \in Ids /\ h.position \in DOMAIN indexes[h.conn] /\ h = ItemOf(h.conn, h.position)
    BY DEF HeadsInv, Asked, Positions
  <2>2. /\ Len(indexes[h.conn]) \in Nat /\ DOMAIN indexes[h.conn] = 1..Len(indexes[h.conn])
        /\ indexes[h.conn][h.position].time \in Nat
    BY <2>1, EntryFacts
  <2>3. h.position \in Nat \ {0}
    BY <2>1, <2>2
  <2>4. Idle.position = 0
    BY DEF Idle
  <2>5. Rank(h.conn) \in Nat
    BY <2>1, RankFacts DEF Ready
  <2>6. h.rank = Rank(h.conn) /\ h.time = indexes[h.conn][h.position].time
    BY <1>1, <2>1
  <2> QED BY <2>1, <2>2, <2>3, <2>4, <2>5, <2>6
<1> QED BY <1>1, <1>2

\* What has been handed out has numbers too.
LEMMA OutFacts ==
  Ready /\ OrderInv => \A n \in DOMAIN out : out[n].time \in Nat /\ out[n].source \in Nat /\ out[n].index \in Nat
<1> SUFFICES ASSUME Ready, OrderInv, NEW n \in DOMAIN out
             PROVE  out[n].time \in Nat /\ out[n].source \in Nat /\ out[n].index \in Nat
  OBVIOUS
<1>1. PICK c \in Asked : \E k \in Positions(c) : \E r : out[n] = MessageOf(c, k, r)
  BY DEF OrderInv
<1>2. PICK k \in Positions(c) : \E r : out[n] = MessageOf(c, k, r)
  BY <1>1
<1>3. PICK r : out[n] = MessageOf(c, k, r)
  BY <1>2
<1>4. c \in Ids /\ k \in DOMAIN indexes[c]
  BY DEF Asked, Positions
<1>5. Rank(c) \in Nat /\ indexes[c][k].time \in Nat /\ k \in Nat
  BY <1>4, RankFacts, EntryFacts DEF Ready
<1>6. MessageOf(c, k, r).time = indexes[c][k].time /\ MessageOf(c, k, r).source = Rank(c) /\ MessageOf(c, k, r).index = k
  BY DEF MessageOf
<1> QED BY <1>3, <1>5, <1>6

-----------------------------------------------------------------------------
LEMMA StartInv == IInv /\ IndexInv /\ CursorInv /\ StartCursor => CursorInv'
<1> SUFFICES ASSUME IInv, IndexInv, CursorInv, StartCursor PROVE CursorInv'
  OBVIOUS
<1>1. /\ pc = "idle" /\ open_ /\ status = "new" /\ status' = "open" /\ filter' \in Filters
      /\ UNCHANGED vars /\ item' = item /\ cached' = cached /\ loading' = loading /\ out' = out
      /\ heap' = UNION {Pushed(c, First(c, filter'.start), filter'.stop) : c \in {d \in Ids : HasTopic(d)'}}
  BY DEF StartCursor, cache
<1>2. out = <<>> /\ item = Idle /\ loading = 0
  BY <1>1 DEF CursorInv
<1>3. UNCHANGED <<bag, connections, indexes, pc, open_>>
  BY <1>1 DEF vars, tables, loops
<1>4. Ready'
  <2>1. IInv' /\ IndexInv'
    BY <1>1, StutterInv, StutterIndex
  <2> QED BY <1>1, <1>3, <2>1 DEF Ready
<1>5. heap' = Heads'
  <2>1. \A c : Rank(c)' = Rank(c)
    BY <1>3, SameIndex
  <2>2. Asked' = {d \in Ids : HasTopic(d)'}
    BY <1>3, SameIndex DEF Asked
  <2>3. \A c : First(c, filter.start)' = First(c, filter'.start)
    BY <1>3 DEF First, TooEarly
  <2>4. \A c : Pushed(c, First(c, filter.start), filter.stop)' = Pushed(c, First(c, filter'.start), filter'.stop)
    BY <1>3, <2>1, <2>3 DEF Pushed
  <2> QED BY <1>1, <2>2, <2>4 DEF Heads
<1>6. Pending' = Heads' /\ item' = Idle /\ loading' = 0
  BY <1>1, <1>2, <1>5 DEF Pending
<1>7. (/\ \A h \in Heads : h.conn \in Asked /\ h.position \in Positions(h.conn) /\ h = ItemOf(h.conn, h.position)
       /\ \A g, h \in Heads : g.conn = h.conn => g = h
       /\ \A c \in Asked : \A k \in Positions(c) : \E h \in Heads : h.conn = c /\ h.position <= k)'
  <2>1. (Ready => /\ \A h \in Heads : h.conn \in Asked /\ h.position \in Positions(h.conn) /\ h = ItemOf(h.conn, h.position)
                  /\ \A g, h \in Heads : g.conn = h.conn => g = h
                  /\ \A c \in Asked : \A k \in Positions(c) : \E h \in Heads : h.conn = c /\ h.position <= k)'
    BY HeadsFacts, PTL
  <2> QED BY <1>4, <2>1
<1>8. HeadsInv' /\ NoneLost'
  BY <1>6, <1>7 DEF HeadsInv, NoneLost
<1>9. CacheInv'
  BY <1>6 DEF CacheInv
<1>10. OrderInv'
  BY <1>1, <1>2 DEF OrderInv
<1>11. (out \in Seq(Stream!Handed))'
  BY <1>1, <1>2 DEF Stream!Handed
<1> QED BY <1>1, <1>3, <1>8, <1>9, <1>10, <1>11 DEF CursorInv

LEMMA TakeInv == IInv /\ IndexInv /\ OneChunkResident /\ CursorInv /\ Take => CursorInv'
<1> SUFFICES ASSUME IInv, IndexInv, OneChunkResident, CursorInv, Take PROVE CursorInv'
  OBVIOUS
<1>1. /\ status = "open" /\ item = Idle /\ UNCHANGED <<vars, filter, status, out>>
      /\ pc = "idle" /\ open_ /\ filter \in Filters
      /\ HeadsInv /\ CacheInv /\ OrderInv /\ NoneLost
  BY DEF Take, CursorInv
<1>2. PICK top \in heap :
        /\ \A other \in heap : other = top \/ Before(top, other)
        /\ heap' = heap \ {top} /\ item' = top
        /\ IF cached_index = Entry(top).chunk THEN UNCHANGED cache ELSE Exchange(Entry(top).chunk)
  BY DEF Take
<1>3. UNCHANGED <<bag, connections, indexes, filter, pc, open_, status, out>>
  BY <1>1 DEF vars, tables, loops
<1>4. Ready
  BY <1>1 DEF Ready
<1>5. top \in Pending /\ Pending = heap
  BY <1>1 DEF Pending
<1>6. top # Idle /\ top.conn \in Ids /\ top.position \in DOMAIN indexes[top.conn]
  BY <1>1, <1>4, <1>5, ItemFacts
<1>7. Pending' = Pending
  BY <1>2, <1>5, <1>6 DEF Pending
<1>8. OrderInv' /\ NoneLost'
  BY <1>1, <1>3, <1>7, SamePending
<1>9. HeadsInv'
  <2>1. Asked' = Asked /\ \A c : Positions(c)' = Positions(c)
    BY <1>3, SameFilter
  <2>2. \A c, k : ItemOf(c, k)' = ItemOf(c, k)
    BY <1>3, SameIndex
  <2>3. \A h \in heap' : Before(top, h)
    BY <1>2
  <2> QED BY <1>1, <1>2, <1>7, <2>1, <2>2, <2>3 DEF HeadsInv, Before
<1>10. CacheInv'
  <2>1. Entry(top).chunk = indexes[top.conn][top.position].chunk /\ Entry(top).chunk # 0
    BY <1>4, <1>6, EntryFacts DEF Entry
  <2>2. indexes'[item'.conn][item'.position].chunk = Entry(top).chunk /\ item' # Idle
    BY <1>2, <1>3, <1>6, <2>1
  <2>3. loading = 0 /\ cached_index = cached
    BY <1>1 DEF CacheInv, OneChunkResident
  <2>4. CASE cached_index = Entry(top).chunk
    BY <1>2, <2>2, <2>3, <2>4 DEF CacheInv, cache
  <2>5. CASE cached_index # Entry(top).chunk
    BY <1>2, <2>1, <2>2, <2>5 DEF CacheInv, Exchange
  <2> QED BY <2>4, <2>5
<1>11. (out \in Seq(Stream!Handed))'
  BY <1>3 DEF CursorInv, Stream!Handed
<1> QED BY <1>1, <1>3, <1>8, <1>9, <1>10, <1>11 DEF CursorInv

LEMMA LoadInv == CursorInv /\ Load => CursorInv'
<1> SUFFICES ASSUME CursorInv, Load PROVE CursorInv'
  OBVIOUS
<1>1. /\ status = "open" /\ loading # 0 /\ cached' = loading /\ loading' = 0
      /\ UNCHANGED <<vars, filter, status, heap, item, out>>
      /\ pc = "idle" /\ open_ /\ filter \in Filters
      /\ HeadsInv /\ CacheInv /\ OrderInv /\ NoneLost
  BY DEF Load, CursorInv
<1>2. UNCHANGED <<bag, connections, indexes, filter, pc, open_, status, out, heap, item>>
  BY <1>1 DEF vars, tables, loops
<1>3. HeadsInv' /\ Pending' = Pending
  BY <1>1, <1>2, SameHeads
<1>4. OrderInv' /\ NoneLost'
  BY <1>1, <1>2, <1>3, SamePending
<1>5. CacheInv'
  BY <1>1, <1>2 DEF CacheInv
<1>6. (out \in Seq(Stream!Handed))'
  BY <1>2 DEF CursorInv, Stream!Handed
<1> QED BY <1>1, <1>2, <1>3, <1>4, <1>5, <1>6 DEF CursorInv

\* The message read is the one at the place the item's entry points to.
LEMMA ReadFacts ==
  ASSUME IInv, IndexInv, CursorInv, NEW p \in DOMAIN CachedRecords, Reads(p)
  PROVE  /\ Ready /\ HeadsInv /\ OrderInv /\ NoneLost /\ status = "open" /\ item # Idle /\ item \in Pending
         /\ item.conn \in Asked /\ item.position \in Positions(item.conn) /\ item = ItemOf(item.conn, item.position)
         /\ Pointed(item.conn, item.position, p) /\ Message(item, p) = MessageOf(item.conn, item.position, p)
<1>1. /\ status = "open" /\ item # Idle /\ loading = 0
      /\ Located(CachedRecords, Entry(item).offset, p)
  BY DEF Reads
<1>2. Ready /\ HeadsInv /\ CacheInv /\ OrderInv /\ NoneLost
  BY <1>1 DEF CursorInv, Ready
<1>3. item \in Pending
  BY <1>1 DEF Pending
<1>4. item.conn \in Asked /\ item.position \in Positions(item.conn) /\ item = ItemOf(item.conn, item.position)
  BY <1>2, <1>3 DEF HeadsInv
<1> DEFINE c == item.conn
           k == item.position
<1>5. c \in Ids /\ k \in DOMAIN indexes[c]
  BY <1>4 DEF Asked, Positions
<1>6. cached = indexes[c][k].chunk /\ cached # 0
  BY <1>1, <1>2, <1>5, EntryFacts DEF CacheInv
<1>7. CachedRecords = RecordsOf(c, k)
  BY <1>6 DEF CachedRecords, RecordsOf
<1>8. p \in 1..Len(RecordsOf(c, k)) + 1
  <2>1. RecordsOf(c, k) \in Seq(Records)
    BY <1>2, <1>5, EntryFacts
  <2> QED BY <1>7, <2>1, ElementsOf
<1>9. Pointed(c, k, p)
  BY <1>1, <1>7, <1>8 DEF Pointed, Entry
<1>10. Message(item, p) = MessageOf(c, k, p)
  <2>1. item.time = indexes[c][k].time /\ item.rank = Rank(c)
    BY <1>2, <1>4, ItemFacts
  <2> QED BY <1>6, <2>1 DEF Message, MessageOf
<1> QED BY <1>1, <1>2, <1>3, <1>4, <1>9, <1>10

LEMMA ReadInv == IInv /\ IndexInv /\ CursorInv /\ Read => CursorInv'
<1> SUFFICES ASSUME IInv, IndexInv, CursorInv, Read PROVE CursorInv'
  OBVIOUS
<1>1. PICK p \in DOMAIN CachedRecords :
        /\ Reads(p)
        /\ out' = Append(out, Message(item, p)) /\ heap' = heap \cup Rest /\ item' = Idle
        /\ UNCHANGED <<vars, filter, status, cache>>
  BY DEF Read
<1> DEFINE c == item.conn
           k == item.position
           m == Message(item, p)
<1>2. /\ Ready /\ HeadsInv /\ OrderInv /\ NoneLost /\ status = "open" /\ item # Idle /\ item \in Pending
      /\ c \in Asked /\ k \in Positions(c) /\ item = ItemOf(c, k)
      /\ Pointed(c, k, p) /\ m = MessageOf(c, k, p)
  BY <1>1, ReadFacts
<1>3. UNCHANGED <<bag, connections, indexes, filter, pc, open_, status>>
  BY <1>1 DEF vars, tables, loops
<1>4. /\ Len(indexes[c]) \in Nat /\ DOMAIN indexes[c] = 1..Len(indexes[c]) /\ k \in DOMAIN indexes[c] /\ c \in Ids
      /\ \A i, j \in DOMAIN indexes[c] : i < j => indexes[c][i].time <= indexes[c][j].time
      /\ \A i \in DOMAIN indexes[c] : indexes[c][i].time \in Nat
  BY <1>2, EntryFacts DEF Asked, Positions
<1> DEFINE i == k + 1
<1>5. i \in 1..Len(indexes[c]) + 1 /\ k \in Nat /\ i \in Nat /\ k < i
  BY <1>4, SMTT(20)
\* The item pushed is later than the one read, and not too early.
<1>6. i \in DOMAIN indexes[c] => indexes[c][k].time <= indexes[c][i].time
  BY <1>4, <1>5
<1>7. i \in DOMAIN indexes[c] => ~TooEarly(indexes[c][i].time, filter.start)
  <2> SUFFICES ASSUME i \in DOMAIN indexes[c] PROVE ~TooEarly(indexes[c][i].time, filter.start)
    OBVIOUS
  <2>1. indexes[c][k].time \in Nat /\ indexes[c][i].time \in Nat
    BY <1>4
  <2>2. filter.start = NoTime \/ filter.start \in Nat
    BY <1>2, FilterFacts DEF Ready
  <2>3. filter.start = NoTime \/ indexes[c][k].time >= filter.start
    BY <1>2 DEF Positions, InWindow
  <2>4. indexes[c][k].time <= indexes[c][i].time
    BY <1>6
  <2> HIDE DEF i, c, k
  <2> QED BY ONLY <2>1, <2>2, <2>3, <2>4 DEF TooEarly
<1>8. /\ \A h \in Rest : i \in Positions(c) /\ h = ItemOf(c, i)
      /\ \A j \in Positions(c) : i <= j => ItemOf(c, i) \in Rest
  <2> HIDE DEF i, c, k
  <2>1. c \in Asked
    BY <1>2
  <2>2. /\ \A h \in Pushed(c, i, filter.stop) : i \in Positions(c) /\ h = ItemOf(c, i)
        /\ \A j \in Positions(c) : i <= j => ItemOf(c, i) \in Pushed(c, i, filter.stop)
    BY <1>2, <1>5, <1>7, <2>1, PushedNext
  <2> QED BY <2>2 DEF Rest, i, c, k
<1>9. /\ \A d, j : /\ ItemOf(d, j).conn = d /\ ItemOf(d, j).position = j
                   /\ ItemOf(d, j).time = indexes[d][j].time /\ ItemOf(d, j).rank = Rank(d)
      /\ \A h \in Pending :
           /\ h # Idle /\ h.conn \in Ids
           /\ h.position \in Nat \ {0} /\ h.position \in DOMAIN indexes[h.conn]
           /\ h.rank = Rank(h.conn) /\ h.rank \in Nat
           /\ h.time = indexes[h.conn][h.position].time /\ h.time \in Nat
  BY <1>2, ItemFacts
<1>10. Pending = heap \cup {item} /\ Pending' = heap \cup Rest /\ item \notin heap
  BY <1>1, <1>2 DEF Pending, HeadsInv
<1>11. /\ Asked' = Asked /\ \A d : Positions(d)' = Positions(d)
       /\ \A d, j : ItemOf(d, j)' = ItemOf(d, j)
       /\ \A d, j, r : (Pointed(d, j, r)' <=> Pointed(d, j, r)) /\ MessageOf(d, j, r)' = MessageOf(d, j, r)
  BY <1>3, SameFilter, SameIndex
<1>12. /\ m.time = indexes[c][k].time /\ m.source = Rank(c) /\ m.index = k /\ m.connection = c
       /\ item.time = indexes[c][k].time /\ item.rank = Rank(c) /\ item.position = k
  BY <1>2, <1>9 DEF MessageOf
<1>13. \A h \in Rest : /\ h.conn = c /\ h.position = i /\ h.time = indexes[c][i].time /\ h.rank = Rank(c)
                       /\ indexes[c][k].time <= h.time /\ h.time \in Nat
  <2> SUFFICES ASSUME NEW h \in Rest
               PROVE  /\ h.conn = c /\ h.position = i /\ h.time = indexes[c][i].time /\ h.rank = Rank(c)
                      /\ indexes[c][k].time <= h.time /\ h.time \in Nat
    OBVIOUS
  <2>1. h = ItemOf(c, i) /\ i \in Positions(c)
    BY <1>8
  <2>2. i \in DOMAIN indexes[c]
    BY <2>1 DEF Positions
  <2>3. indexes[c][k].time <= indexes[c][i].time /\ indexes[c][i].time \in Nat
    BY <1>4, <1>6, <2>2
  <2>4. h.conn = c /\ h.position = i /\ h.time = indexes[c][i].time /\ h.rank = Rank(c)
    BY ONLY <1>9, <2>1
  <2> QED BY ONLY <2>3, <2>4
<1>14. Rank(c) \in Nat /\ indexes[c][k].time \in Nat
  BY <1>4, RankFacts, <1>2 DEF Ready
<1>15. /\ out \in Seq(Stream!Handed) /\ Len(out) \in Nat /\ DOMAIN out = 1..Len(out)
       /\ DOMAIN out' = DOMAIN out \cup {Len(out) + 1} /\ out'[Len(out) + 1] = m
       /\ \A n \in DOMAIN out : out'[n] = out[n]
  BY <1>1, SMTT(20) DEF CursorInv
<1> HIDE DEF c, k, m, i
<1>16. HeadsInv'
  <2>1. \A h \in Pending' : h.conn \in Asked /\ h.position \in Positions(h.conn) /\ h = ItemOf(h.conn, h.position)
    BY <1>2, <1>8, <1>9, <1>10, <1>13 DEF HeadsInv
  <2>2. \A g, h \in Pending' : g.conn = h.conn => g = h
    <3>1. \A g \in heap : g.conn # c
      BY <1>2, <1>10 DEF HeadsInv, c
    <3>2. \A g, h \in Rest : g = h
      BY <1>8
    <3>3. \A g, h \in heap : g.conn = h.conn => g = h
      BY <1>2, <1>10 DEF HeadsInv
    <3> QED BY ONLY <1>10, <1>13, <3>1, <3>2, <3>3
  <2> QED BY <1>1, <1>11, <2>1, <2>2 DEF HeadsInv
<1>17. CacheInv'
  <2>1. loading = 0 /\ loading' = loading
    BY <1>1 DEF Reads, cache
  <2> QED BY <1>1, <2>1 DEF CacheInv
<1>18. OrderInv'
  <2>1. \A n \in DOMAIN out' : \E d \in Asked : \E j \in Positions(d) : \E r : Pointed(d, j, r) /\ out'[n] = MessageOf(d, j, r)
    <3>1. \A n \in DOMAIN out : \E d \in Asked : \E j \in Positions(d) : \E r : Pointed(d, j, r) /\ out[n] = MessageOf(d, j, r)
      BY <1>2 DEF OrderInv
    <3>2. c \in Asked /\ k \in Positions(c) /\ Pointed(c, k, p) /\ m = MessageOf(c, k, p)
      BY <1>2
    <3> QED BY ONLY <1>15, <3>1, <3>2
  <2>2. ASSUME NEW n \in DOMAIN out, NEW h \in heap \cup Rest
        PROVE  Ordered(out[n].time, out[n].source, out[n].index, h.time, h.rank, h.position)
    <3>1. CASE h \in heap
      BY <1>2, <1>10, <3>1 DEF OrderInv
    <3>2. CASE h \in Rest
      <4>1. Ordered(out[n].time, out[n].source, out[n].index, item.time, item.rank, item.position)
        BY <1>2 DEF OrderInv
      <4>2. Ordered(out[n].time, out[n].source, out[n].index, indexes[c][k].time, Rank(c), k)
        BY ONLY <1>12, <4>1
      <4>3. /\ out[n].time \in Nat /\ out[n].source \in Nat /\ out[n].index \in Nat
            /\ indexes[c][k].time \in Nat /\ Rank(c) \in Nat /\ k \in Nat /\ h.time \in Nat /\ i \in Nat
            /\ indexes[c][k].time <= h.time /\ k <= i
        BY <1>2, <1>5, <1>13, <1>14, <3>2, OutFacts
      <4>4. Ordered(out[n].time, out[n].source, out[n].index, h.time, Rank(c), i)
        BY ONLY <4>2, <4>3 DEF Ordered
      <4> QED BY <1>13, <3>2, <4>4
    <3> QED BY <3>1, <3>2
  <2>3. ASSUME NEW h \in heap \cup Rest
        PROVE  Ordered(m.time, m.source, m.index, h.time, h.rank, h.position)
    <3>1. CASE h \in heap
      <4>1. Before(item, h)
        BY <1>2, <3>1 DEF HeadsInv
      <4>2. Ordered(item.time, item.rank, item.position, h.time, h.rank, h.position)
        BY ONLY <4>1 DEF Before, Ordered
      <4> QED BY ONLY <1>12, <4>2
    <3>2. CASE h \in Rest
      <4>1. /\ indexes[c][k].time \in Nat /\ h.time \in Nat /\ Rank(c) \in Nat /\ k \in Nat /\ i \in Nat
            /\ indexes[c][k].time <= h.time /\ k < i
        BY <1>5, <1>13, <1>14, <3>2
      <4>2. Ordered(indexes[c][k].time, Rank(c), k, h.time, Rank(c), i)
        BY ONLY <4>1 DEF Ordered
      <4> QED BY <1>12, <1>13, <3>2, <4>2
    <3> QED BY <3>1, <3>2
  <2>4. \A n \in DOMAIN out' : \A h \in Pending' :
          Ordered(out'[n].time, out'[n].source, out'[n].index, h.time, h.rank, h.position)
    BY ONLY <1>10, <1>15, <2>2, <2>3
  <2> QED BY <1>11, <2>1, <2>4 DEF OrderInv, Ordered
<1>19. NoneLost'
  <2> SUFFICES ASSUME NEW d \in Asked, NEW j \in Positions(d)
               PROVE  \/ \E n \in DOMAIN out' : out'[n].connection = d /\ out'[n].index = j
                      \/ \E h \in Pending' : h.conn = d /\ h.position <= j
    BY <1>11 DEF NoneLost
  <2>1. j \in Nat
    <3>1. d \in Ids /\ j \in DOMAIN indexes[d]
      BY DEF Asked, Positions
    <3> QED BY <1>2, <3>1, EntryFacts
  <2>2. CASE \E n \in DOMAIN out : out[n].connection = d /\ out[n].index = j
    BY <1>15, <2>2
  <2>3. CASE \E h \in Pending : h.conn = d /\ h.position <= j
    <3>1. PICK h \in Pending : h.conn = d /\ h.position <= j
      BY <2>3
    <3>2. CASE h \in heap
      BY <1>10, <3>1, <3>2
    <3>3. CASE h = item
      <4>1. d = c /\ k <= j
        BY <3>1, <3>3 DEF c, k
      <4>2. CASE j = k
        BY <1>12, <1>15, <4>1, <4>2
      <4>3. CASE j # k
        <5>1. i <= j
          BY <1>5, <2>1, <4>1, <4>3 DEF i
        <5>2. ItemOf(c, i) \in Rest /\ ItemOf(c, i).conn = c /\ ItemOf(c, i).position = i
          BY <1>8, <1>9, <4>1, <5>1
        <5> QED BY <1>10, <4>1, <5>1, <5>2
      <4> QED BY <4>2, <4>3
    <3> QED BY <1>10, <3>2, <3>3
  <2> QED BY <1>2, <2>2, <2>3 DEF NoneLost
<1>20. (out \in Seq(Stream!Handed))'
  <2>1. Stream!Handed' = Stream!Handed \cup {m}
    BY <1>15 DEF Stream!Handed
  <2>2. out \in Seq(Stream!Handed \cup {m})
    BY <1>15
  <2>3. out' = Append(out, m)
    BY <1>1 DEF m
  <2> QED BY ONLY <2>1, <2>2, <2>3
<1> QED BY <1>2, <1>3, <1>16, <1>17, <1>18, <1>19, <1>20 DEF CursorInv, Ready

LEMMA StillInv == CursorInv /\ UNCHANGED <<vars, cursor>> => CursorInv'
<1> SUFFICES ASSUME CursorInv, UNCHANGED <<vars, cursor>> PROVE CursorInv'
  OBVIOUS
<1>1. UNCHANGED <<bag, connections, indexes, pc, open_, filter, status, heap, item, cached, loading, out>>
  BY DEF vars, tables, loops, cursor, cache
<1>2. (out \in Seq(Stream!Handed))'
  BY <1>1 DEF CursorInv, Stream!Handed
<1>3. CASE status = "open"
  <2>1. pc = "idle" /\ open_ /\ filter \in Filters /\ HeadsInv /\ CacheInv /\ OrderInv /\ NoneLost
    BY <1>3 DEF CursorInv
  <2>2. HeadsInv' /\ Pending' = Pending
    BY <1>1, <2>1, SameHeads
  <2>3. OrderInv' /\ NoneLost'
    BY <1>1, <2>1, <2>2, SamePending
  <2>4. CacheInv'
    BY <1>1, <2>1 DEF CacheInv
  <2> QED BY <1>1, <1>2, <1>3, <2>1, <2>2, <2>3, <2>4 DEF CursorInv
<1>4. CASE status # "open"
  BY <1>1, <1>2, <1>4 DEF CursorInv
<1> QED BY <1>3, <1>4

\* A cursor that is not open has its messages, and nothing to do.
LEMMA StoppedInv ==
  CursorInv /\ (StartFails \/ LoadFails \/ ReadFails \/ EndOfStream \/ (status = "new" /\ Next /\ UNCHANGED cursor))
    => CursorInv'
<1> SUFFICES ASSUME CursorInv,
                    StartFails \/ LoadFails \/ ReadFails \/ EndOfStream \/ (status = "new" /\ Next /\ UNCHANGED cursor)
             PROVE  CursorInv'
  OBVIOUS
<1>1. CASE StartFails \/ LoadFails \/ ReadFails \/ EndOfStream
  <2>1. status' \in {"failed", "ended"} /\ out' = out
    BY <1>1 DEF StartFails, LoadFails, ReadFails, EndOfStream
  <2> QED BY <2>1 DEF CursorInv, Stream!Handed
<1>2. CASE status = "new" /\ Next /\ UNCHANGED cursor
  <2>1. status = "new" /\ UNCHANGED <<status, heap, item, cached, loading, out>>
    BY <1>2 DEF cursor, cache
  <2> QED BY <2>1 DEF CursorInv, Stream!Handed
<1> QED BY <1>1, <1>2

LEMMA CursorInductive == ReaderSpec => [](IInv /\ IndexInv /\ OneChunkResident /\ CursorInv)
<1>1. ReaderInit => CursorInv
  BY DEF ReaderInit, CursorInv, Stream!Handed
<1>2. IInv /\ IndexInv /\ OneChunkResident /\ CursorInv /\ [ReaderNext]_<<vars, cursor>> => CursorInv'
  <2> SUFFICES ASSUME IInv, IndexInv, OneChunkResident, CursorInv, [ReaderNext]_<<vars, cursor>> PROVE CursorInv'
    OBVIOUS
  <2>1. CASE StartCursor
    BY <2>1, StartInv
  <2>2. CASE Take
    BY <2>2, TakeInv
  <2>3. CASE Load
    BY <2>3, LoadInv
  <2>4. CASE Read
    BY <2>4, ReadInv
  <2>5. CASE StartFails \/ LoadFails \/ ReadFails \/ EndOfStream \/ (status = "new" /\ Next /\ UNCHANGED cursor)
    BY <2>5, StoppedInv
  <2>6. CASE Finished \/ UNCHANGED <<vars, cursor>>
    <3>1. UNCHANGED <<vars, cursor>>
      BY <2>6 DEF Finished
    <3> QED BY <3>1, StillInv
  <2> QED BY <2>1, <2>2, <2>3, <2>4, <2>5, <2>6 DEF ReaderNext, CursorStep
<1> QED BY <1>1, <1>2, CursorOnlyReads, Inductive, IndexInductive, Resident, PTL DEF ReaderSpec

-----------------------------------------------------------------------------
\* A message that has not been handed out is at or behind an item that is pending.
LEMMA StillAhead ==
  ASSUME Ready, OrderInv, NoneLost, NEW m \in Wanted \ Stream!Handed
  PROVE  \E c \in Asked : \E k \in Positions(c) : \E r :
           /\ Pointed(c, k, r) /\ m = MessageOf(c, k, r)
           /\ \E h \in Pending : h.conn = c /\ h.position <= k
<1>1. PICK c \in Asked : \E k \in Positions(c) : \E r : Pointed(c, k, r) /\ m = MessageOf(c, k, r)
  BY WantedFacts
<1>2. PICK k \in Positions(c) : \E r : Pointed(c, k, r) /\ m = MessageOf(c, k, r)
  BY <1>1
<1>3. PICK r : Pointed(c, k, r) /\ m = MessageOf(c, k, r)
  BY <1>2
<1>4. ~ \E n \in DOMAIN out : out[n].connection = c /\ out[n].index = k
  <2> SUFFICES ASSUME NEW n \in DOMAIN out, out[n].connection = c, out[n].index = k PROVE FALSE
    OBVIOUS
  <2>1. PICK d \in Asked : \E j \in Positions(d) : \E s : Pointed(d, j, s) /\ out[n] = MessageOf(d, j, s)
    BY DEF OrderInv
  <2>2. PICK j \in Positions(d) : \E s : Pointed(d, j, s) /\ out[n] = MessageOf(d, j, s)
    BY <2>1
  <2>3. PICK s : Pointed(d, j, s) /\ out[n] = MessageOf(d, j, s)
    BY <2>2
  <2>4. MessageOf(d, j, s).connection = d /\ MessageOf(d, j, s).index = j
    BY DEF MessageOf
  <2>5. d = c /\ j = k
    BY <2>3, <2>4
  <2>6. c \in Ids /\ k \in DOMAIN indexes[c] /\ Pointed(c, k, s) /\ Pointed(c, k, r)
    BY <1>3, <2>3, <2>5 DEF Asked, Positions
  <2>7. r = s
    BY <2>6, OneMessage
  <2>8. out[n] = m
    BY ONLY <1>3, <2>3, <2>5, <2>7
  <2> QED BY <2>8 DEF Stream!Handed
<1>5. \E h \in Pending : h.conn = c /\ h.position <= k
  BY <1>4 DEF NoneLost
<1> QED BY <1>3, <1>5

LEMMA SameWanted == UNCHANGED <<bag, connections, filter>> => Wanted' = Wanted
<1> SUFFICES ASSUME UNCHANGED <<bag, connections, filter>> PROVE Wanted' = Wanted
  OBVIOUS
<1>1. Ids' = Ids
  BY DEF Ids
<1>2. \A c : Rank(c)' = Rank(c) /\ HasTopic(c)' = HasTopic(c) /\ PlacesOf(c)' = PlacesOf(c)
  BY DEF Rank, HasTopic, PlacesOf
<1>3. \A p : At(p)' = At(p)
  BY DEF At
<1>4. \A p, q : NotAfter(p, q)' = NotAfter(p, q)
  BY DEF NotAfter, At
<1> DEFINE Found(p) == {r \in 1..Len(bag.chunks[p[1]].records) + 1 : Located(bag.chunks[p[1]].records, At(p).offset, r)}
           Number(c, p) == Cardinality({q \in PlacesOf(c) : NotAfter(q, p)})
           Told(c, p) == {[time |-> At(p).time, source |-> Rank(c), index |-> Number(c, p),
                           connection |-> c, chunk |-> p[1], record |-> r] : r \in Found(p)}
           Within(c) == {q \in PlacesOf(c) : /\ filter.start = NoTime \/ At(q).time >= filter.start
                                             /\ filter.stop = NoTime \/ At(q).time < filter.stop}
           OfConnection(c) == UNION {Told(c, p) : p \in Within(c)}
           Topics == {d \in Ids : HasTopic(d)}
<1>5. \A p : Found(p)' = Found(p)
  BY <1>3
<1>6. \A c, p : Number(c, p)' = Number(c, p)
  <2> SUFFICES ASSUME NEW c, NEW p
               PROVE  {q \in PlacesOf(c)' : NotAfter(q, p)'} = {q \in PlacesOf(c) : NotAfter(q, p)}
    BY Zenon
  <2> QED BY ONLY <1>2, <1>4
<1>7. \A c : Within(c)' = Within(c)
  BY <1>2, <1>3
<1>8. Topics' = Topics
  BY <1>1, <1>2
<1> HIDE DEF Found, Number, Within, Topics
<1>9. \A c, p : Told(c, p)' = Told(c, p)
  BY <1>2, <1>3, <1>5, <1>6
<1> HIDE DEF Told
<1>10. \A c : OfConnection(c)' = OfConnection(c)
  BY <1>7, <1>9
<1>11. Wanted = UNION {OfConnection(c) : c \in Topics}
  BY Zenon DEF Wanted, OfConnection, Told, Found, Number, Within, Topics
<1>12. Wanted' = UNION {OfConnection(c)' : c \in Topics'}
  BY Zenon DEF Wanted, OfConnection, Told, Found, Number, Within, Topics
<1> HIDE DEF OfConnection
<1> QED BY <1>8, <1>10, <1>11, <1>12

\* What is read is the first of the messages that are still asked for.
LEMMA ReadDelivers == IInv /\ IndexInv /\ CursorInv /\ Read => Stream!Deliver
<1> SUFFICES ASSUME IInv, IndexInv, CursorInv, Read PROVE Stream!Deliver
  OBVIOUS
<1>1. PICK p \in DOMAIN CachedRecords :
        /\ Reads(p) /\ out' = Append(out, Message(item, p)) /\ UNCHANGED <<vars, filter, status>>
  BY DEF Read
<1> DEFINE c == item.conn
           k == item.position
           m == Message(item, p)
<1>2. /\ Ready /\ HeadsInv /\ OrderInv /\ NoneLost /\ status = "open" /\ item # Idle /\ item \in Pending
      /\ c \in Asked /\ k \in Positions(c) /\ item = ItemOf(c, k)
      /\ Pointed(c, k, p) /\ m = MessageOf(c, k, p)
  BY <1>1, ReadFacts
<1>3. Wanted' = Wanted
  <2>1. UNCHANGED <<bag, connections, filter>>
    BY <1>1 DEF vars, tables
  <2> QED BY <2>1, SameWanted
<1>4. m \in Wanted
  BY <1>2, WantedFacts
<1>5. /\ item.conn \in Ids /\ item.position \in Nat /\ item.rank \in Nat /\ item.time \in Nat
      /\ item.time = indexes[c][k].time /\ item.rank = Rank(c)
  BY <1>2, ItemFacts
<1>6. m.time = item.time /\ m.source = item.rank /\ m.index = item.position
  BY <1>5 DEF Message
<1>7. m \notin Stream!Handed
  <2> SUFFICES ASSUME NEW n \in DOMAIN out, out[n] = m PROVE FALSE
    BY DEF Stream!Handed
  <2>1. Ordered(m.time, m.source, m.index, item.time, item.rank, item.position)
    BY <1>2 DEF OrderInv
  <2> HIDE DEF m
  <2> QED BY ONLY <1>5, <1>6, <2>1 DEF Ordered
<1>8. ASSUME NEW n \in Wanted \ Stream!Handed, n # m PROVE Stream!Precedes(m, n)
  <2>1. PICK d \in Asked : \E j \in Positions(d) : \E r :
             /\ Pointed(d, j, r) /\ n = MessageOf(d, j, r)
             /\ \E h \in Pending : h.conn = d /\ h.position <= j
    BY <1>2, StillAhead
  <2>2. PICK j \in Positions(d) : \E r :
             /\ Pointed(d, j, r) /\ n = MessageOf(d, j, r)
             /\ \E h \in Pending : h.conn = d /\ h.position <= j
    BY <2>1
  <2>3. PICK r : /\ Pointed(d, j, r) /\ n = MessageOf(d, j, r)
                 /\ \E h \in Pending : h.conn = d /\ h.position <= j
    BY <2>2
  <2>4. PICK h \in Pending : h.conn = d /\ h.position <= j
    BY <2>3
  <2>5. /\ h.conn \in Ids /\ h.position \in Nat /\ h.position \in DOMAIN indexes[d]
        /\ h.rank = Rank(d) /\ h.rank \in Nat /\ h.time = indexes[d][h.position].time /\ h.time \in Nat
    BY <1>2, <2>4, ItemFacts
  <2>6. d \in Ids /\ j \in DOMAIN indexes[d]
    BY DEF Asked, Positions
  <2>7. /\ j \in Nat /\ indexes[d][j].time \in Nat /\ h.time <= indexes[d][j].time
    <3>1. /\ Len(indexes[d]) \in Nat /\ DOMAIN indexes[d] = 1..Len(indexes[d])
          /\ indexes[d][j].time \in Nat
          /\ h.position < j => indexes[d][h.position].time <= indexes[d][j].time
      BY <1>2, <2>5, <2>6, EntryFacts
    <3>2. j \in Nat
      BY <2>6, <3>1
    <3>3. CASE h.position = j
      BY <2>5, <3>1, <3>2, <3>3, SMTT(20)
    <3>4. CASE h.position # j
      <4>1. h.position < j
        BY <2>4, <2>5, <3>2, <3>4
      <4> QED BY <2>5, <3>1, <3>2, <4>1
    <3> QED BY <3>3, <3>4
  <2>8. n.time = indexes[d][j].time /\ n.source = h.rank /\ n.index = j
    <3>1. /\ MessageOf(d, j, r).time = indexes[d][j].time /\ MessageOf(d, j, r).source = Rank(d)
          /\ MessageOf(d, j, r).index = j
      BY DEF MessageOf
    <3> QED BY <2>3, <2>5, <3>1
  <2>9. CASE h # item
    <3>1. h \in heap
      BY <2>9 DEF Pending
    <3>2. Before(item, h)
      BY <1>2, <3>1 DEF HeadsInv
    <3> HIDE DEF m
    <3> QED BY ONLY <1>5, <1>6, <2>4, <2>5, <2>7, <2>8, <3>2 DEF Before, Stream!Precedes
  <2>10. CASE h = item
    <3>1. d = c /\ c \in Ids /\ k \in DOMAIN indexes[c]
      BY <1>2, <2>4, <2>10 DEF Asked, Positions
    <3>2. j # k
      <4> SUFFICES ASSUME j = k PROVE FALSE
        OBVIOUS
      <4>1. Pointed(c, k, r) /\ Pointed(c, k, p) /\ n = MessageOf(c, k, r) /\ m = MessageOf(c, k, p)
        BY <1>2, <2>3, <3>1
      <4>2. r = p
        BY <1>2, <3>1, <4>1, OneMessage
      <4> QED BY <1>8, <4>1, <4>2
    <3>3. h.position < j
      BY <2>4, <2>5, <2>7, <2>10, <3>2
    <3> HIDE DEF m
    <3> QED BY ONLY <1>5, <1>6, <2>5, <2>7, <2>8, <2>10, <3>3 DEF Stream!Precedes
  <2> QED BY <2>9, <2>10
<1> QED BY <1>1, <1>2, <1>3, <1>4, <1>7, <1>8 DEF Stream!Deliver

\* When no item is pending everything asked for has been handed out.
LEMMA EndEnds == IInv /\ IndexInv /\ CursorInv /\ EndOfStream => Stream!End
<1> SUFFICES ASSUME IInv, IndexInv, CursorInv, EndOfStream PROVE Stream!End
  OBVIOUS
<1>1. /\ status = "open" /\ status' = "ended" /\ item = Idle /\ heap = {} /\ UNCHANGED <<vars, filter, out>>
      /\ Ready /\ OrderInv /\ NoneLost
  BY DEF EndOfStream, CursorInv, Ready
<1>2. Pending = {}
  BY <1>1 DEF Pending
<1>3. Wanted \subseteq Stream!Handed
  BY <1>1, <1>2, StillAhead
<1>4. Wanted' = Wanted
  <2>1. UNCHANGED <<bag, connections, filter>>
    BY <1>1 DEF vars, tables
  <2> QED BY <2>1, SameWanted
<1> QED BY <1>1, <1>3, <1>4 DEF Stream!End

\* The cursor is a MessageStream over the messages of the bag, for any bag and filter
\* (rosbag1.cpp:439-492).
THEOREM Refinement == ReaderSpec => MergesStably
<1>1. ReaderInit => Stream!Init
  BY DEF ReaderInit, Stream!Init
<1>2. IInv /\ IndexInv /\ OneChunkResident /\ CursorInv /\ [ReaderNext]_<<vars, cursor>>
        => [Stream!Next]_(Stream!vars)
  <2> SUFFICES ASSUME IInv, IndexInv, CursorInv, [ReaderNext]_<<vars, cursor>>
               PROVE  Stream!Next \/ UNCHANGED Stream!vars
    OBVIOUS
  <2>1. CASE Read
    BY <2>1, ReadDelivers DEF Stream!Next
  <2>2. CASE EndOfStream
    BY <2>2, EndEnds DEF Stream!Next
  <2>3. CASE StartCursor \/ StartFails
    <3>1. status = "new" /\ status' \in {"open", "failed"} /\ out' = out
      BY <2>3 DEF StartCursor, StartFails
    <3> QED BY <3>1 DEF Stream!Next, Stream!Create
  <2>4. CASE LoadFails \/ ReadFails
    <3>1. status = "open" /\ status' = "failed" /\ out' = out /\ UNCHANGED <<vars, filter>>
      BY <2>4 DEF LoadFails, ReadFails
    <3>2. UNCHANGED <<bag, connections, filter>>
      BY <3>1 DEF vars, tables
    <3>3. Wanted' = Wanted
      BY <3>2, SameWanted
    <3> QED BY <3>1, <3>3 DEF Stream!Next, Stream!Fail
  <2>5. CASE Take \/ Load
    <3>1. UNCHANGED <<vars, filter, status, out>>
      BY <2>5 DEF Take, Load
    <3>2. UNCHANGED <<bag, connections, filter>>
      BY <3>1 DEF vars, tables
    <3>3. Wanted' = Wanted
      BY <3>2, SameWanted
    <3> QED BY <3>1, <3>3 DEF Stream!vars
  <2>6. CASE status = "new" /\ Next /\ UNCHANGED cursor
    <3>1. status = "new" /\ status' = "new" /\ out' = out
      BY <2>6 DEF cursor
    <3> QED BY <3>1 DEF Stream!vars
  <2>7. CASE Finished \/ UNCHANGED <<vars, cursor>>
    <3>1. UNCHANGED <<vars, cursor>>
      BY <2>7 DEF Finished
    <3>2. UNCHANGED <<bag, connections, filter, status, out>>
      BY <3>1 DEF vars, tables, cursor
    <3>3. Wanted' = Wanted
      BY <3>2, SameWanted
    <3> QED BY <3>2, <3>3 DEF Stream!vars
  <2> QED BY <2>1, <2>2, <2>3, <2>4, <2>5, <2>6, <2>7 DEF ReaderNext, CursorStep
<1> QED BY <1>1, <1>2, CursorInductive, PTL DEF ReaderSpec, MergesStably, Stream!Spec
==============================================================================
