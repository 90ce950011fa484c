--------------------------- MODULE DirectoryCursor ---------------------------
(***************************************************************************)
(* DirectoryBackend::Cursor of src/sqlite3.cpp: the cursor over a ROS2     *)
(* directory, which merges the cursors of its shards (one SQLite or MCAP   *)
(* file each) as AnyReaderCursorImpl merges readers, and besides           *)
(*   - asks the shards by topic and time only, and filters by connection   *)
(*     id itself, because ids of the shards are not ids of the directory;  *)
(*   - redirects every message to the directory's entry for its topic;     *)
(*   - decompresses the payload as it hands a message out, when the        *)
(*     directory has compression_mode "message".                           *)
(*                                                                         *)
(* The cursor of a shard is modelled by its promise, MessageStream: the    *)
(* records of the shard its filter asks for, in time order, with an        *)
(* exception at a record it cannot read.  The cursor runs on the           *)
(* connection_map_ and the compression mode that open() left, so what      *)
(* open() accepts of a directory reaches it.  A shard is the position of a *)
(* file in relative_file_paths.                                            *)
(***************************************************************************)
EXTENDS DirectoryConnections

CONSTANTS
  Contents(_),  \* possible contents of a directory that is open: for each shard a sequence
                \* of [time, child], child being the number of a connection in its file
  Faults,       \* possible sets of failures [shard, index, kind]: "record" at a
                \* record the shard cannot read, or at index 0 when its cursor
                \* cannot be made; "payload" when zstd rejects the payload
  Filters,      \* possible filters [topics, match, connection_ids, start, stop]; an
                \* empty set asks for everything, match is a pattern of Topics
  NoTime        \* start or stop that is not set

Shards == DOMAIN directory.children
NumShards == Len(directory.children)

Sorted(bag) == \A i, j \in DOMAIN bag : i < j => bag[i].time <= bag[j].time

ASSUME ContentsAssumption ==
  \A d \in Directories : \A b \in Contents(d) :
    /\ b \in [DOMAIN d.children -> Seq([time : Nat, child : Nat])]
    /\ \A s \in DOMAIN b :
         /\ Sorted(b[s])
         /\ \A i \in DOMAIN b[s] : b[s][i].child \in DOMAIN d.children[s]

\* The names a filter and a directory have: topics_match() of a pattern and a normalized
\* name means what it should of the name as it is listed.
ASSUME FiltersAssumption ==
  \A f \in Filters :
    /\ {"topics", "match", "connection_ids", "start", "stop"} \subseteq DOMAIN f
    /\ Legal(f.match) =>
         \A d \in Directories : \A n \in DOMAIN d.info.topics : \A t \in f.topics :
           TopicsMatch(t, NormalizeTopic(d.info.topics[n].name), f.match)
             <=> SameTopic(t, d.info.topics[n].name, f.match)

VARIABLES
  shards, faults, filter,  \* the messages of the files and the filter, fixed by StartCursor
  made,      \* sources_.size(): cursors the constructor has made
  pulled,    \* loop variable of the constructor's pulls
  taken,     \* index of the last record each shard's cursor has read
  head,      \* Source::head: index of the record held, 0 when empty
  heap,      \* heap_: items [time, source]
  pending,   \* pending_source_, 0 when empty
  status,    \* "new", "building", "open", "ended" or "failed"
  error,     \* ErrorContext::source_path: "none", the "shard" or the "directory"
  failing,   \* the shard the exception is about, 0 before (history)
  out        \* messages handed out (history)

inputs == <<opening, shards, faults, filter>>
merge == <<taken, head, heap, pending>>
vars == <<inputs, made, pulled, merge, status, error, failing, out>>

-----------------------------------------------------------------------------
\* has_topic and in_time, for a connection given by its topic and its id.
HasTopic(topic, id, f) ==
  /\ f.topics = {} \/ \E t \in f.topics : TopicsMatch(t, topic, f.match)
  /\ f.connection_ids = {} \/ id \in f.connection_ids

InTime(time, f) ==
  /\ f.start = NoTime \/ time >= f.start
  /\ f.stop = NoTime \/ time < f.stop

NoFilter == [topics |-> {}, match |-> [policy |-> "Strict", namespace |-> <<>>],
             connection_ids |-> {}, start |-> NoTime, stop |-> NoTime]

\* The constructor's filter for the shards.
LocalFilter_KeepIds == filter
LocalFilter == [filter EXCEPT !.connection_ids = {}]

\* map_connection: the directory's connection for the record's own.
MapConnection_ById(s, i) == shards[s][i].child
MapConnection(s, i) == connection_map_[<<s, shards[s][i].child>>]

Message(s, i) ==
  [time |-> shards[s][i].time, source |-> s, index |-> i, connection |-> MapConnection(s, i)]

\* The records the cursor of a shard yields, and those pull() keeps.
Yields(s, i) ==
  LET record == shards[s][i] IN
  /\ HasTopic(Child(<<s, record.child>>).topic, record.child, LocalFilter)
  /\ InTime(record.time, LocalFilter)

Keeps(s, i) ==
  /\ Yields(s, i)
  /\ HasTopic(connections_[MapConnection(s, i)].topic, connections_[MapConnection(s, i)].id, filter)
  /\ InTime(shards[s][i].time, filter)

Unreadable(s, i) == [shard |-> s, index |-> i, kind |-> "record"] \in faults

\* The loop of pull() passes over record i.
Skips(s, i) == ~Yields(s, i) \/ (~Keeps(s, i) /\ ~Unreadable(s, i))

StopsAt(s, i) ==
  /\ i > taken[s]
  /\ ~Skips(s, i)
  /\ \A j \in DOMAIN shards[s] : taken[s] < j /\ j < i => Skips(s, j)

Before(a, b) ==
  \/ a.time < b.time
  \/ a.time = b.time /\ a.source < b.source

IsTop_LastShard(item) ==
  item \in heap /\ \A other \in heap : item.time < other.time \/ other.source <= item.source

IsTop(item) ==
  item \in heap /\ \A other \in heap : other = item \/ Before(item, other)

-----------------------------------------------------------------------------
Init ==
  /\ OpeningInit
  /\ shards = <<>> /\ faults = {} /\ filter = NoFilter
  /\ made = 0
  /\ pulled = 0
  /\ taken = <<>>
  /\ head = <<>>
  /\ heap = {}
  /\ pending = 0
  /\ status = "new"
  /\ error = "none"
  /\ failing = 0
  /\ out = <<>>

\* The directory is opened before there is a cursor, and closed after.
Opening ==
  /\ status = "new"
  /\ OpeningNext
  /\ UNCHANGED <<shards, faults, filter, made, pulled, merge, status, error, failing, out>>

\* Reader::messages on the open directory: the constructor starts.
StartCursor ==
  /\ phase = "open" /\ status = "new"
  /\ shards' \in Contents(directory)
  /\ faults' \in Faults
  /\ filter' \in {f \in Filters : Legal(f.match)}
  /\ taken' = [s \in Shards |-> 0]
  /\ head' = [s \in Shards |-> 0]
  /\ status' = "building"
  /\ UNCHANGED <<opening, made, pulled, heap, pending, error, failing, out>>

\* ... unless the namespace of the filter is not absolute.
StartFails ==
  /\ phase = "open" /\ status = "new"
  /\ filter' \in {f \in Filters : ~Legal(f.match)}
  /\ status' = "failed" /\ error' = "directory"
  /\ UNCHANGED <<opening, shards, faults, made, pulled, merge, failing, out>>

\* An exception about shard s; path is the source_path it carries when it
\* reaches the caller.  What leaves the backend without one gets the path of
\* the directory from Reader::messages or BackendCursorImpl.
Fail(s, path) ==
  /\ status' = "failed"
  /\ failing' = s
  /\ error' = path

-----------------------------------------------------------------------------

\* The first loop of the constructor makes the cursors of all shards.
MakeSource ==
  /\ status = "building"
  /\ made < NumShards
  /\ ~Unreadable(made + 1, 0)
  /\ made' = made + 1
  /\ UNCHANGED <<inputs, pulled, merge, status, error, failing, out>>

MakeSourceFails ==
  /\ status = "building"
  /\ made < NumShards
  /\ Unreadable(made + 1, 0)
  /\ Fail(made + 1, "directory")
  /\ UNCHANGED <<inputs, made, pulled, merge, out>>

\* pull(): the three ways its loop over the cursor of shard s can end.
PullRecord(s) ==
  \E i \in DOMAIN shards[s] :
    /\ StopsAt(s, i)
    /\ ~Unreadable(s, i)
    /\ taken' = [taken EXCEPT ![s] = i]
    /\ head' = [head EXCEPT ![s] = i]
    /\ heap' = heap \cup {[time |-> shards[s][i].time, source |-> s]}
    /\ UNCHANGED <<status, error, failing>>

PullEnd(s) ==
  /\ \A i \in DOMAIN shards[s] : i > taken[s] => Skips(s, i)
  /\ taken' = [taken EXCEPT ![s] = Len(shards[s])]
  /\ UNCHANGED <<head, heap, status, error, failing>>

\* The handler of pull() adds the file of the shard.
PullFault(s) ==
  \E i \in DOMAIN shards[s] :
    /\ StopsAt(s, i)
    /\ Unreadable(s, i)
    /\ taken' = [taken EXCEPT ![s] = i]
    /\ Fail(s, "shard")
    /\ UNCHANGED <<head, heap>>

\* The second loop of the constructor reads the first message of each shard.
PullFirst ==
  /\ status = "building"
  /\ made = NumShards
  /\ pulled < NumShards
  /\ PullRecord(pulled + 1) \/ PullEnd(pulled + 1) \/ PullFault(pulled + 1)
  /\ pulled' = pulled + 1
  /\ UNCHANGED <<inputs, made, pending, out>>

Built ==
  /\ status = "building"
  /\ pulled = NumShards
  /\ status' = "open"
  /\ UNCHANGED <<inputs, made, pulled, merge, error, failing, out>>

-----------------------------------------------------------------------------
\* pending_source_ is not cleared once the shard has been read on.
Refill_KeepPending ==
  /\ status = "open"
  /\ pending # 0
  /\ PullRecord(pending) \/ PullEnd(pending) \/ PullFault(pending)
  /\ UNCHANGED <<inputs, made, pulled, pending, out>>

\* next(), first half: the shard taken from last is read on.
Refill ==
  /\ status = "open"
  /\ pending # 0
  /\ \/ (PullRecord(pending) \/ PullEnd(pending)) /\ pending' = 0
     \/ PullFault(pending) /\ UNCHANGED pending
  /\ UNCHANGED <<inputs, made, pulled, out>>

BadPayload(s, i) ==
  /\ metadata_.compression_mode = "message"
  /\ [shard |-> s, index |-> i, kind |-> "payload"] \in faults

\* The shard is read on before its message is handed out.
Pop_Eager ==
  /\ status = "open"
  /\ pending = 0
  /\ \E item \in heap :
       LET s == item.source IN
       /\ IsTop(item)
       /\ ~BadPayload(s, head[s])
       /\ IF \E i \in DOMAIN shards[s] : StopsAt(s, i) /\ Unreadable(s, i)
          THEN PullFault(s) /\ UNCHANGED <<pending, out>>
          ELSE /\ heap' = heap \ {item}
               /\ head' = [head EXCEPT ![s] = 0]
               /\ out' = Append(out, Message(s, head[s]))
               /\ pending' = s
               /\ UNCHANGED <<taken, status, error, failing>>
  /\ UNCHANGED <<inputs, made, pulled>>

\* next(), second half: hand out the top of the heap ...
Pop ==
  /\ status = "open"
  /\ pending = 0
  /\ \E item \in heap :
       LET s == item.source IN
       /\ IsTop(item)
       /\ ~BadPayload(s, head[s])
       /\ heap' = heap \ {item}
       /\ head' = [head EXCEPT ![s] = 0]
       /\ out' = Append(out, Message(s, head[s]))
       /\ pending' = s
  /\ UNCHANGED <<inputs, made, pulled, taken, status, error, failing>>

\* Payloads are decompressed when they are pulled, not when handed out.
PopFault_Ahead ==
  /\ status = "open"
  /\ pending = 0
  /\ \E s \in Shards : head[s] # 0 /\ BadPayload(s, head[s]) /\ Fail(s, "directory")
  /\ UNCHANGED <<inputs, made, pulled, merge, out>>

\* ... unless zstd_bytes throws: the message has left the heap by then, and no
\* handler of this cursor adds the file of the shard.
PopFault ==
  /\ status = "open"
  /\ pending = 0
  /\ \E item \in heap :
       LET s == item.source IN
       /\ IsTop(item)
       /\ BadPayload(s, head[s])
       /\ heap' = heap \ {item}
       /\ head' = [head EXCEPT ![s] = 0]
       /\ Fail(s, "directory")
  /\ UNCHANGED <<inputs, made, pulled, taken, pending, out>>

EndOfStream ==
  /\ status = "open"
  /\ pending = 0
  /\ heap = {}
  /\ status' = "ended"
  /\ UNCHANGED <<inputs, made, pulled, merge, error, failing, out>>

\* At the end next() keeps returning false; a cursor that threw is destroyed.
Finished ==
  /\ status \in {"ended", "failed"}
  /\ UNCHANGED vars

Construct == StartCursor \/ StartFails \/ MakeSource \/ MakeSourceFails \/ PullFirst \/ Built
NextCall == Refill \/ Pop \/ PopFault \/ EndOfStream

Next == Opening \/ Construct \/ NextCall \/ Finished

Spec == Init /\ [][Next]_vars

-----------------------------------------------------------------------------
\* What the filter accepts, said of the directory alone: the records whose entry in the
\* metadata has a topic and a number the filter means, in the time range.  (OpensExactly
\* says that connection_map_ knows the entries.)
WantedOf(s, i) ==
  LET n == connection_map_[<<s, shards[s][i].child>>] IN
  IF /\ \/ filter.topics = {}
        \/ \E t \in filter.topics : SameTopic(t, directory.info.topics[n].name, filter.match)
     /\ filter.connection_ids = {} \/ n \in filter.connection_ids
     /\ InTime(shards[s][i].time, filter)
    THEN {[time |-> shards[s][i].time, source |-> s, index |-> i, connection |-> n]}
    ELSE {}
Wanted == UNION {UNION {WantedOf(s, i) : i \in DOMAIN shards[s]} : s \in DOMAIN shards}

Stream == INSTANCE MessageStream WITH
  wanted <- IF status = "new" THEN {} ELSE Wanted,
  status <- IF status = "building" THEN "open" ELSE status

\* The cursor is a MessageStream: at every moment it has handed out the
\* beginning of the stable merge of what was asked for of all shards, on the
\* directory's own connections, and it ends only after all of it; also when the
\* ids asked for mean something else to a shard, and when it must pass over
\* records it did not ask for to find the next.
MergesStably == Stream!Spec

\* A fault costs nothing that precedes it.  A shard that fails has handed out what it had
\* before, because pull() reads a shard only when its previous message is handed out; a
\* payload zstd rejects has cost nothing before it in the merged stream, because payloads
\* are decompressed as they are handed out, never ahead (sqlite3.cpp:549-570, 593-609).
FaultsInOrder ==
  status = "failed" /\ failing # 0 =>
    /\ \A i \in DOMAIN shards[failing] :
         Keeps(failing, i) /\ i < taken[failing] =>
           \E n \in DOMAIN out : out[n].source = failing /\ out[n].index = i
    /\ error = "directory" /\ made = NumShards =>
         \A m \in Wanted :
           Stream!Precedes(m, Message(failing, taken[failing])) => m \in Stream!Handed

\* usage.md says that a failure to read carries the most specific file known;
\* when reading fails that is the file of the shard the message is in.
MostSpecificFile ==
  status = "failed" /\ failing # 0 /\ made = NumShards => error = "shard"
=============================================================================
