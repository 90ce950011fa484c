---------------------------- MODULE Rosbag1Cursor ----------------------------
(***************************************************************************)
(* Rosbag1Backend::Cursor of src/rosbag1.cpp, on the index Rosbag1Open     *)
(* leaves.  A heap holds the next index entry of each connection the       *)
(* filter asks for; next() takes the top, makes sure the chunk of its      *)
(* entry is the cached one, and reads the message at the entry's offset.   *)
(*                                                                         *)
(* The chunk is released, loaded and read in three steps of one call, so   *)
(* that what is resident in between can be seen.  The decompressors are    *)
(* external here: a chunk says what its payload decodes to.                *)
(***************************************************************************)
EXTENDS Rosbag1Open

CONSTANTS
  Topic,            \* the topic of each connection id
  Filters,          \* possible filters [topics, connection_ids, start, stop];
                    \* an empty set asks for everything
  NoTime,           \* start or stop that is not set
  HasBz2,           \* ROSBAGS_HAS_BZ2
  MaxChunkBytes,    \* max_rosbag1_chunk_bytes
  MaxMessageBytes   \* max_message_bytes

ASSUME FiltersAssumption == \A f \in Filters : {f.start, f.stop} \subseteq Nat \cup {NoTime}

VARIABLES
  filter,
  status,         \* "new", "open", "ended" or "failed"
  heap,           \* heap_: items [time, rank, position, conn]
  item,           \* the item the running call of next() has taken, or Idle
  cached,         \* the chunk whose bytes are in cached_chunk_, 0 when empty
  cached_index,   \* cached_chunk_index_, 0 when not set
  loading,        \* the chunk load_chunk is producing, 0 when none
  out             \* messages handed out (history)

cache == <<cached, cached_index, loading>>
cursor == <<filter, status, heap, item, cache, out>>

Idle == [time |-> 0, rank |-> 0, position |-> 0, conn |-> 0]

-----------------------------------------------------------------------------
HasTopic(c) ==
  /\ filter.topics = {} \/ Topic[c] \in filter.topics
  /\ filter.connection_ids = {} \/ c \in filter.connection_ids

Rank(c) == CHOOSE n \in DOMAIN connections : connections[n] = c

\* lower_bound in the sorted entries: start itself is included.
TooEarly_AndStart(time, start) == start # NoTime /\ time <= start
TooEarly(time, start) == start # NoTime /\ time < start

First(c, start) ==
  Min({i \in 1..Len(indexes[c]) + 1 :
         i \in DOMAIN indexes[c] => ~TooEarly(indexes[c][i].time, start)})

\* The heap item for entry i of a connection, if there is one and it is before stop.
Pushed(c, i, stop) ==
  {[time |-> indexes[c][k].time, rank |-> Rank(c), position |-> k, conn |-> c] :
     k \in {k \in {i} \cap DOMAIN indexes[c] : stop = NoTime \/ indexes[c][k].time < stop}}

\* HeapCompare.
Before_TimeOnly(a, b) == a.time <= b.time
Before(a, b) ==
  \/ a.time < b.time
  \/ a.time = b.time /\ a.rank < b.rank
  \/ a.time = b.time /\ a.rank = b.rank /\ a.position < b.position

\* load_chunk returns the bytes of the chunk.
Loadable(chunk) ==
  /\ chunk.uncompressed_size <= MaxChunkBytes
  /\ \/ chunk.compression = "none" /\ chunk.compressed_size = chunk.uncompressed_size
     \/ /\ chunk.compression = "lz4" \/ (chunk.compression = "bz2" /\ HasBz2)
        /\ chunk.decoded # 0
        /\ chunk.decoded = chunk.uncompressed_size

\* What next() finds at an offset, passing over CONNECTION records: record p, or
\* the end of the chunk.
Located(records, offset, p) ==
  /\ p \in offset..Len(records) + 1
  /\ p \in DOMAIN records => records[p].op # 7
  /\ \A q \in DOMAIN records : offset <= q /\ q < p => records[q].op = 7

\* The record is the message the index entry announces, and not too large.
Acceptable(record, entry, c) ==
  /\ record.op = 2
  /\ record.time = entry.time
  /\ record.conn = c
  /\ record.size <= MaxMessageBytes

CachedRecords == IF cached = 0 THEN <<>> ELSE bag.chunks[cached].records

Entry(it) == indexes[it.conn][it.position]

Message(it, p) ==
  [time |-> it.time, source |-> it.rank, index |-> it.position, connection |-> it.conn,
   chunk |-> cached, record |-> p]

-----------------------------------------------------------------------------
ReaderInit ==
  /\ Init
  /\ filter = [topics |-> {}, connection_ids |-> {}, start |-> NoTime, stop |-> NoTime]
  /\ status = "new"
  /\ heap = {}
  /\ item = Idle
  /\ cached = 0 /\ cached_index = 0 /\ loading = 0
  /\ out = <<>>

\* The constructor: the first entry of every connection asked for.
StartCursor ==
  /\ pc = "idle" /\ open_ /\ status = "new"
  /\ filter' \in Filters
  /\ status' = "open"
  /\ heap' = UNION {Pushed(c, First(c, filter'.start), filter'.stop) : c \in {d \in Ids : HasTopic(d)'}}
  /\ UNCHANGED <<vars, item, cache, out>>

\* The constructor cannot open the file.
StartFails ==
  /\ pc = "idle" /\ open_ /\ status = "new"
  /\ status' = "failed"
  /\ UNCHANGED <<vars, filter, heap, item, cache, out>>

\* Releasing the cached chunk when the entry is in another.
Exchange_KeepOld(chunk) == loading' = chunk /\ UNCHANGED <<cached, cached_index>>
Exchange_Stale(chunk) ==
  loading' = (IF cached = 0 THEN chunk ELSE 0) /\ UNCHANGED <<cached, cached_index>>
Exchange(chunk) == cached' = 0 /\ cached_index' = 0 /\ loading' = chunk

\* next() takes the top of the heap.
Take ==
  /\ status = "open"
  /\ item = Idle
  /\ \E top \in heap :
       /\ \A other \in heap : other = top \/ Before(top, other)
       /\ heap' = heap \ {top}
       /\ item' = top
       /\ IF cached_index = Entry(top).chunk THEN UNCHANGED cache ELSE Exchange(Entry(top).chunk)
  /\ UNCHANGED <<vars, filter, status, out>>

Load ==
  /\ status = "open" /\ loading # 0
  /\ Loadable(bag.chunks[loading])
  /\ cached' = loading /\ cached_index' = loading /\ loading' = 0
  /\ UNCHANGED <<vars, filter, status, heap, item, out>>

LoadFails ==
  /\ status = "open" /\ loading # 0
  /\ ~Loadable(bag.chunks[loading])
  /\ status' = "failed"
  /\ loading' = 0
  /\ UNCHANGED <<vars, filter, heap, item, cached, cached_index, out>>

Reads(p) ==
  /\ status = "open" /\ item # Idle /\ loading = 0
  /\ Located(CachedRecords, Entry(item).offset, p)
  /\ Acceptable(CachedRecords[p], Entry(item), item.conn)

\* The next entry of the connection of the message goes on the heap.
Rest_Dropped == {}
Rest == Pushed(item.conn, item.position + 1, filter.stop)

Read ==
  \E p \in DOMAIN CachedRecords :
    /\ Reads(p)
    /\ out' = Append(out, Message(item, p))
    /\ heap' = heap \cup Rest
    /\ item' = Idle
    /\ UNCHANGED <<vars, filter, status, cache>>

\* What is at the offset is no record, no message, or not this message.
ReadFails ==
  /\ status = "open" /\ item # Idle /\ loading = 0
  /\ \A p \in DOMAIN CachedRecords : ~Reads(p)
  /\ status' = "failed"
  /\ UNCHANGED <<vars, filter, heap, item, cache, out>>

EndOfStream ==
  /\ status = "open" /\ item = Idle
  /\ heap = {}
  /\ status' = "ended"
  /\ UNCHANGED <<vars, filter, heap, item, cache, out>>

CursorStep ==
  StartCursor \/ StartFails \/ Take \/ Load \/ LoadFails \/ Read \/ ReadFails \/ EndOfStream

\* At the end next() keeps returning false; a cursor that threw is destroyed.  What may
\* be done to the reader while a cursor is in use is the business of ReaderLifecycle.
Finished == status \in {"ended", "failed"} /\ UNCHANGED <<vars, cursor>>

ReaderNext == (status = "new" /\ Next /\ UNCHANGED cursor) \/ CursorStep \/ Finished

ReaderSpec == ReaderInit /\ [][ReaderNext]_<<vars, cursor>>

-----------------------------------------------------------------------------
\* The places (chunk, IDXDATA record, number) where the bag indexes a message of a
\* connection, in the order of their times and, within one time, as they were read.
PlacesOf(c) ==
  UNION {UNION {{<<i, j, n>> : n \in DOMAIN bag.data[i][j].entries} :
                  j \in {k \in DOMAIN bag.data[i] : bag.data[i][k].id = c /\ k <= Len(bag.infos[i].counts)}}
           : i \in DOMAIN bag.data}
At(p) == bag.data[p[1]][p[2]].entries[p[3]]
NotAfter(p, q) ==
  \/ At(p).time < At(q).time
  \/ /\ At(p).time = At(q).time
     /\ \/ p[1] < q[1]
        \/ p[1] = q[1] /\ p[2] < q[2]
        \/ p[1] = q[1] /\ p[2] = q[2] /\ p[3] <= q[3]

\* What the filter accepts, said of the bag alone: the message found where an entry
\* points, in the chunk the entry was found behind.
Wanted ==
  UNION {UNION {{[time |-> At(p).time, source |-> Rank(c),
                  index |-> Cardinality({q \in PlacesOf(c) : NotAfter(q, p)}),
                  connection |-> c, chunk |-> p[1], record |-> r] :
                   r \in {r \in 1..Len(bag.chunks[p[1]].records) + 1 :
                            Located(bag.chunks[p[1]].records, At(p).offset, r)}} :
                  p \in {q \in PlacesOf(c) :
                           /\ filter.start = NoTime \/ At(q).time >= filter.start
                           /\ filter.stop = NoTime \/ At(q).time < filter.stop}}
           : c \in {d \in Ids : HasTopic(d)}}

Stream == INSTANCE MessageStream WITH
  wanted <- IF status = "new" THEN {} ELSE Wanted

\* From the bag to the caller the reader is a MessageStream: at every moment the cursor
\* has handed out the beginning of the messages asked for in the order (time,
\* connection, order of the index in the file), each with the bytes the chunk it is
\* indexed behind holds there, however often the chunks alternate, and it ends only
\* after all of them (rosbag1.cpp:340-364, 439-492).
MergesStably == Stream!Spec

\* The comment in next(): the old chunk is released before its replacement is
\* allocated, so never are two chunks resident; and the number beside the cached bytes
\* is the number of that chunk, after a chunk that failed to load too (rosbag1.cpp:463-471).
OneChunkResident ==
  /\ cached = 0 \/ loading = 0
  /\ cached_index = cached
=============================================================================
