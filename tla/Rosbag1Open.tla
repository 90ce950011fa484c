----------------------------- MODULE Rosbag1Open -----------------------------
(***************************************************************************)
(* Rosbag1Backend::open and close of src/rosbag1.cpp: from the counts of   *)
(* the bag header, the connection records and the CHUNK_INFO records open  *)
(* works out how large the index will be, and then reads the chunk headers *)
(* and the IDXDATA records behind each chunk into one sorted index for     *)
(* each connection.  Nothing it reads is trusted: every count is held      *)
(* against the file and the budgets first.                                 *)
(*                                                                         *)
(* A bag is what its records say, and its parts need not agree.  Any read  *)
(* may fail (a truncated or malformed record).  Sizes are unsigned         *)
(* integers of the width of the code (Modulus is 2^64 there).              *)
(***************************************************************************)
EXTENDS Integers, Sequences, FiniteSets, FiniteSetsExt, TLC

CONSTANTS
  Bags,            \* possible bags: see BagsAssumption
  ChunkBytes,      \* sizeof(ChunkInfo) + sizeof(Chunk)
  EntryBytes,      \* sizeof(IndexEntry)
  MaxIndexBytes,   \* max_index_bytes
  MaxMessages,     \* file_size_ / 12: no file has more index entries
  Modulus,         \* 2^w
  MaxCalls         \* bound on the calls of open()

\* A record of a chunk; op 2 is MSGDATA and op 7 CONNECTION.  An offset is the
\* number of the record it points to; one past the last cannot be read.
Records == [op : Nat, conn : Nat, time : Nat, size : Nat]

\* decoded is the number of bytes the codec produces, 0 if it rejects them.
Chunks == [compression : {"none", "lz4", "bz2", "other"}, compressed_size : Nat,
           uncompressed_size : Nat, decoded : Nat, records : Seq(Records)]

\* conns: the id of each CONNECTION record and whether its "latching" field, if
\* it has one, is a number.  infos: for each CHUNK_INFO its time range and its
\* pairs of connection and count.  chunks: the chunk each of them points to.  data:
\* the IDXDATA records behind that chunk, a connection and its entries.
BagType ==
  [conns  : Seq([id : Nat, latching : {"none", "number", "text"}]),
   infos  : Seq([start : Nat, end : Nat, counts : Seq([id : Nat, messages : Nat])]),
   chunks : Seq(Chunks),
   data   : Seq(Seq([id : Nat, entries : Seq([time : Nat, offset : Nat])]))]

ASSUME BagsAssumption ==
  \A b \in Bags : b \in BagType /\ Len(b.data) = Len(b.infos) /\ Len(b.chunks) = Len(b.infos)
ASSUME SizesAssumption ==
  /\ {ChunkBytes, EntryBytes} \subseteq Nat \ {0}
  /\ {MaxIndexBytes, MaxMessages, MaxCalls} \subseteq Nat
  /\ Modulus \in Nat /\ MaxIndexBytes < Modulus /\ MaxMessages < Modulus

VARIABLES
  bag,             \* the file of the running call or open backend
  open_,
  connections,     \* ids, in file order; connection_positions_ inverts it
  chunk_infos,     \* how many CHUNK_INFO records are kept
  chunks,          \* how many chunk headers are kept
  expected,        \* expected_counts: a function of the connections named
  expected_total, index_bytes,
  indexes,         \* the entries [time, chunk, offset] of each connection
  metadata,        \* [messages, start, end]
  pc,              \* which loop open() is in; "idle" between calls
  at, sub,         \* the loop variables of the outer and the inner loop
  error,           \* what the last call threw: "none", "format", "limit", "std"
  calls

tables == <<connections, chunk_infos, chunks, indexes, metadata>>
totals == <<expected, expected_total, index_bytes>>
loops == <<pc, at, sub>>
vars == <<bag, open_, tables, totals, loops, error, calls>>

NoBag == [conns |-> <<>>, infos |-> <<>>, chunks |-> <<>>, data |-> <<>>]
NoMetadata == [messages |-> 0, start |-> 0, end |-> 0]
Nothing == [id \in {} |-> 0]
Ids == {connections[n] : n \in DOMAIN connections}

\* Unsigned subtraction.
Minus(a, b) == IF b <= a THEN a - b ELSE a + Modulus - b

With(f, id, value) == [x \in DOMAIN f \cup {id} |-> IF x = id THEN value ELSE f[x]]

-----------------------------------------------------------------------------
Init ==
  /\ bag = NoBag
  /\ open_ = FALSE
  /\ connections = <<>> /\ chunk_infos = 0 /\ chunks = 0
  /\ expected = Nothing /\ expected_total = 0 /\ index_bytes = 0
  /\ indexes = Nothing
  /\ metadata = NoMetadata
  /\ pc = "idle" /\ at = 0 /\ sub = 0
  /\ error = "none"
  /\ calls = 0

\* close() clears what open() filled; the locals of open() end with it.
Cleared ==
  /\ open_' = FALSE
  /\ connections' = <<>> /\ chunk_infos' = 0 /\ chunks' = 0
  /\ expected' = Nothing /\ expected_total' = 0 /\ index_bytes' = 0
  /\ indexes' = Nothing
  /\ metadata' = NoMetadata

NextInfo == at' = at + 1 /\ sub' = 1

Goto(place) == pc' = place /\ at' = 1 /\ sub' = 1

\* A call on the closed backend; every attempt may find another file.
BeginOpen ==
  /\ pc = "idle" /\ ~open_ /\ calls < MaxCalls
  /\ calls' = calls + 1
  /\ bag' \in Bags
  /\ Cleared
  /\ error' = "none"
  /\ Goto("header")

Close ==
  /\ pc = "idle" /\ open_
  /\ Cleared
  /\ bag' = NoBag
  /\ UNCHANGED <<loops, error, calls>>

\* ~Impl of the Reader closes the backend.
Destroy ==
  /\ pc = "idle"
  /\ Cleared
  /\ bag' = NoBag
  /\ pc' = "destroyed"
  /\ UNCHANGED <<at, sub, error, calls>>

\* What open() read before stays.
Throw_KeepTables(kind) ==
  /\ pc' = "idle"
  /\ error' = kind
  /\ UNCHANGED <<bag, open_, tables, totals, at, sub, calls>>

\* The handler of open(): close() and rethrow.
Throw(kind) ==
  /\ Cleared
  /\ bag' = NoBag
  /\ pc' = "idle"
  /\ error' = kind
  /\ UNCHANGED <<at, sub, calls>>

\* No file, or a record that is truncated, malformed or not the one expected.
BadRecord ==
  /\ \/ pc = "header"
     \/ pc = "connections" /\ at \in DOMAIN bag.conns
     \/ pc = "infos" /\ at \in DOMAIN bag.infos
     \/ pc = "chunks" /\ at \in 1..chunk_infos
  /\ Throw("format")

-----------------------------------------------------------------------------
\* The bag header: all chunk records are charged to the index budget at once.
Header ==
  /\ pc = "header"
  /\ IF Len(bag.infos) > MaxIndexBytes \div ChunkBytes
     THEN Throw("limit")
     ELSE /\ index_bytes' = Len(bag.infos) * ChunkBytes
          /\ Goto("connections")
          /\ UNCHANGED <<bag, open_, tables, expected, expected_total, error, calls>>

\* One CONNECTION record; std::stoi reads the latching field.
ReadConnection ==
  /\ pc = "connections" /\ at \in DOMAIN bag.conns
  /\ LET id == bag.conns[at].id IN
     IF bag.conns[at].latching = "text" THEN Throw("std")
     ELSE IF id \in Ids THEN Throw("format")
     ELSE /\ connections' = Append(connections, id)
          /\ at' = at + 1
          /\ UNCHANGED <<bag, open_, chunk_infos, chunks, indexes, metadata, totals, pc, sub,
                         error, calls>>

ConnectionsRead ==
  /\ pc = "connections" /\ at \notin DOMAIN bag.conns
  /\ Goto("infos")
  /\ UNCHANGED <<bag, open_, tables, totals, error, calls>>

\* What a message count is held against before it is added up.
FitsFile_Each(messages) == messages <= MaxMessages
FitsFile(messages) == messages <= MaxMessages /\ messages <= Minus(MaxMessages, expected_total)
FitsIndex_Whole(messages) == messages <= MaxIndexBytes \div EntryBytes
FitsIndex(messages) == messages <= Minus(MaxIndexBytes, index_bytes) \div EntryBytes

\* One pair of connection and count in a CHUNK_INFO record.
ReadCount ==
  /\ pc = "infos" /\ at \in DOMAIN bag.infos
  /\ LET counts == bag.infos[at].counts IN
     /\ sub \in DOMAIN counts
     /\ LET id == counts[sub].id
            messages == counts[sub].messages
            before == IF id \in DOMAIN expected THEN expected[id] ELSE 0 IN
        IF Len(counts) > Len(bag.conns) \/ id \notin Ids \/ ~FitsFile(messages)
        THEN Throw("format")
        ELSE IF ~FitsIndex(messages) THEN Throw("limit")
        ELSE /\ expected' = With(expected, id, before + messages)
             /\ expected_total' = expected_total + messages
             /\ index_bytes' = index_bytes + messages * EntryBytes
             /\ sub' = sub + 1
             /\ UNCHANGED <<bag, open_, tables, pc, at, error, calls>>

InfoRead ==
  /\ pc = "infos" /\ at \in DOMAIN bag.infos
  /\ sub \notin DOMAIN bag.infos[at].counts
  /\ chunk_infos' = chunk_infos + 1
  /\ NextInfo
  /\ UNCHANGED <<bag, open_, connections, chunks, indexes, metadata, totals, pc, error, calls>>

\* An index with room for the expected entries is made for each connection.
InfosRead ==
  /\ pc = "infos" /\ at \notin DOMAIN bag.infos
  /\ indexes' = [id \in DOMAIN expected |-> <<>>]
  /\ Goto("chunks")
  /\ UNCHANGED <<bag, open_, connections, chunk_infos, chunks, metadata, totals, error, calls>>

-----------------------------------------------------------------------------
\* The header of the chunk a CHUNK_INFO points to.
ReadChunk ==
  /\ pc = "chunks" /\ at \in 1..chunk_infos /\ chunks < at
  /\ chunks' = chunks + 1
  /\ UNCHANGED <<bag, open_, connections, chunk_infos, indexes, metadata, totals, loops, error, calls>>

\* The entries of IDXDATA record sub of chunk at.
Entries ==
  LET entries == bag.data[at][sub].entries IN
  [n \in DOMAIN entries |-> [time |-> entries[n].time, chunk |-> at, offset |-> entries[n].offset]]

\* There is room in the index for so many entries more.
Room_Whole(id, count) == count <= expected[id]
Room(id, count) == count <= Minus(expected[id], Len(indexes[id]))

\* A chunk is followed by as many IDXDATA records as its CHUNK_INFO announced.
ReadIndexData ==
  /\ pc = "chunks" /\ chunks = at /\ at \in 1..chunk_infos
  /\ sub \in DOMAIN bag.infos[at].counts /\ sub \in DOMAIN bag.data[at]
  /\ LET id == bag.data[at][sub].id IN
     IF id \notin DOMAIN expected THEN Throw("format")
     ELSE IF ~Room(id, Len(Entries)) THEN Throw("format")
     ELSE /\ indexes' = [indexes EXCEPT ![id] = @ \o Entries]
          /\ sub' = sub + 1
          /\ UNCHANGED <<bag, open_, connections, chunk_infos, chunks, metadata, totals, pc, at,
                         error, calls>>

ChunkRead ==
  /\ pc = "chunks" /\ chunks = at /\ at \in 1..chunk_infos
  /\ sub \notin DOMAIN bag.infos[at].counts
  /\ NextInfo
  /\ UNCHANGED <<bag, open_, tables, totals, pc, error, calls>>

\* std::stable_sort by time: entries of one time stay in the order they were read.
SortsBefore_Unstable(entries, j, k) ==
  entries[j].time < entries[k].time \/ (entries[j].time = entries[k].time /\ j > k)
SortsBefore(entries, j, k) ==
  entries[j].time < entries[k].time \/ (entries[j].time = entries[k].time /\ j < k)

Sorted(entries) ==
  [n \in DOMAIN entries |->
     entries[CHOOSE k \in DOMAIN entries :
       Cardinality({j \in DOMAIN entries : SortsBefore(entries, j, k)}) = n - 1]]

\* The counts announced and the entries read agree, for each connection.
Complete_AnyCount == TRUE
Complete == \A id \in DOMAIN expected : Len(indexes[id]) = expected[id]

\* The time range of the chunks; end is exclusive, and a CHUNK_INFO that names no
\* connection has no range.
End_Inclusive(info) == info.end
End(info) == info.end + 1

Span ==
  LET used == {info \in {bag.infos[n] : n \in DOMAIN bag.infos} : info.counts # <<>>} IN
  IF expected_total = 0 THEN [start |-> 0, end |-> 0]
  ELSE [start |-> Min({info.start : info \in used}), end |-> Max({End(info) : info \in used})]

\* The connections no CHUNK_INFO names get an empty index; message counts and
\* time ranges are summed up in the metadata.
Finish ==
  /\ pc = "chunks" /\ at \notin 1..chunk_infos
  /\ IF ~Complete
     THEN Throw("format")
     ELSE /\ indexes' = [id \in Ids |-> IF id \in DOMAIN indexes THEN Sorted(indexes[id]) ELSE <<>>]
          /\ metadata' = [messages |-> SumFunction([id \in Ids |-> Len(indexes'[id])]),
                          start |-> Span.start, end |-> Span.end]
          /\ open_' = TRUE
          /\ pc' = "idle"
          /\ UNCHANGED <<bag, connections, chunk_infos, chunks, totals, at, sub, error, calls>>

Step ==
  \/ Header \/ ReadConnection \/ ConnectionsRead \/ ReadCount \/ InfoRead \/ InfosRead
  \/ ReadChunk \/ ReadIndexData \/ ChunkRead \/ Finish \/ BadRecord

Destroyed == pc = "destroyed" /\ UNCHANGED vars

Next == BeginOpen \/ Close \/ Destroy \/ Step \/ Destroyed

Spec == Init /\ [][Next]_vars

-----------------------------------------------------------------------------
\* While and after the counts are read, index_bytes is what the chunk records and all
\* counts accepted so far take, both totals are within their limits, and no index has
\* more entries than were counted for its connection, nor one connection more than
\* all: the subtractions the next count is held against never wrap (rosbag1.cpp:313-319,
\* 351-352).
ChargesExact ==
  /\ expected_total <= MaxMessages
  /\ index_bytes <= MaxIndexBytes
  /\ pc \in {"connections", "infos", "chunks"} \/ open_ =>
       index_bytes = Len(bag.infos) * ChunkBytes + expected_total * EntryBytes
  /\ \A id \in DOMAIN expected : id \in Ids /\ expected[id] <= expected_total
  /\ \A id \in DOMAIN indexes :
       Len(indexes[id]) <= IF id \in DOMAIN expected THEN expected[id] ELSE 0

\* What open() holds of a bag, and what it has reserved for its index, stays
\* within max_index_bytes, whatever the bag announces and whatever its chunks
\* then contain.
IndexBudgetHeld ==
  LET reserved(id) == IF id \in DOMAIN expected THEN expected[id] ELSE 0
      held(id) == Max({Len(indexes[id]), reserved(id)}) IN
  chunk_infos * ChunkBytes + SumFunction([id \in DOMAIN indexes |-> held(id)]) * EntryBytes <= MaxIndexBytes

\* The pairs of connection and count in the CHUNK_INFO records.
Announcements == UNION {{<<i, j>> : j \in DOMAIN bag.infos[i].counts} : i \in DOMAIN bag.infos}
CountAt(p) == bag.infos[p[1]].counts[p[2]]
AnnouncedIn(S) == SumFunction([p \in S |-> CountAt(p).messages])

\* An open bag has exactly the entries its CHUNK_INFO records announced, for each
\* connection and in total (rosbag1.cpp:345-363).
CountsAgree ==
  open_ =>
    /\ \A id \in Ids : Len(indexes[id]) = AnnouncedIn({p \in Announcements : CountAt(p).id = id})
    /\ metadata.messages = AnnouncedIn(Announcements)

\* For a bag whose CHUNK_INFO records tell the truth about their chunks the
\* metadata spans the messages exactly: [start, end) is the smallest such range.
Times == UNION {{indexes[id][n].time : n \in DOMAIN indexes[id]} : id \in DOMAIN indexes}
TimesOf(chunk) ==
  UNION {{e.time : e \in {x \in {indexes[id][n] : n \in DOMAIN indexes[id]} : x.chunk = chunk}} :
           id \in DOMAIN indexes}

SpanExact ==
  open_ /\ Times # {}
  /\ (\A c \in 1..chunks : IF bag.infos[c].counts = <<>> THEN TimesOf(c) = {}
        ELSE TimesOf(c) # {} /\ bag.infos[c].start = Min(TimesOf(c)) /\ bag.infos[c].end = Max(TimesOf(c)))
  => metadata.start = Min(Times) /\ metadata.end = Max(Times) + 1

\* What an open bag says of its messages is so.
MetadataExact == CountsAgree /\ SpanExact

\* Between calls a backend that is not open has nothing left of the bag.
AllOrNothing ==
  pc \in {"idle", "destroyed"} /\ ~open_ =>
    /\ connections = <<>> /\ chunk_infos = 0 /\ chunks = 0
    /\ indexes = Nothing /\ metadata = NoMetadata
=============================================================================
