------------------------------ MODULE McapOpen ------------------------------
(***************************************************************************)
(* McapBackend::open and close of src/mcap.cpp.  Open walks the records of *)
(* the container against the budgets before the SDK sees the file, decides *)
(* whether the summary can be trusted for reading in time order, recovers  *)
(* the statistics by a scan when it cannot, and otherwise writes every     *)
(* payload to a temporary file (the spool) with one sorted entry for each. *)
(*                                                                         *)
(* A file is what its records and its summary say, which need not agree.   *)
(* The SDK is external: readSummary reports the summary as it is, a forced *)
(* scan reports what the records hold, and a scan may be cut short by an   *)
(* error.  Sizes and times are unsigned integers (Modulus is 2^64).        *)
(***************************************************************************)
EXTENDS Integers, Sequences, FiniteSets, FiniteSetsExt, SequencesExt

CONSTANTS
  Files,           \* possible files: see FileType
  NoStatistics,    \* model value: a summary without a statistics record
  MaxChunkBytes, MaxBodyBytes, MaxMessageBytes, MaxIndexBytes, MaxTemporaryBytes,
  EntryBytes,      \* sizeof(SpoolEntry)
  Modulus,         \* 2^w
  MaxCalls         \* bound on the calls of open()

Top == Modulus - 1

\* records: the records up to the footer, with the messages a scan finds in them
\* (a "message" record holds one, only chunks may hold more).  "end" is the time in the
\* prefix of a chunk or message.  channels: the schema of each channel the records
\* declare (0: none).  indexes: one [chunk, usable] for each chunk index of the summary;
\* an index is usable when it says where the message indexes of its chunk are.
MessageType == [channel : Nat, time : 0..Top, size : Nat]
RecordType ==
  [op : {"chunk", "message", "meta", "index", "attachment"}, length : Nat, raw : Nat,
   end : 0..Top, messages : Seq(MessageType)]

ASSUME FilesAssumption ==
  \A f \in Files :
    /\ f.records \in Seq(RecordType)
    /\ \A n \in DOMAIN f.records :
         /\ f.records[n].op = "message" => Len(f.records[n].messages) = 1
         /\ f.records[n].op \notin {"chunk", "message"} => f.records[n].messages = <<>>
    /\ IsFiniteSet(f.summary.indexes)
    /\ \A i \in f.summary.indexes :
         /\ i = [chunk |-> i.chunk, usable |-> i.usable] /\ i.usable \in BOOLEAN
         /\ i.chunk \in DOMAIN f.records /\ f.records[i.chunk].op = "chunk"
    /\ f.summary.read \in {"ok", "bad"}
    /\ f.summary.statistics # NoStatistics =>
         {f.summary.statistics.count, f.summary.statistics.start, f.summary.statistics.end} \subseteq 0..Top
ASSUME SizesAssumption ==
  /\ Modulus \in Nat \ {0}
  /\ {MaxChunkBytes, MaxBodyBytes, MaxMessageBytes, MaxIndexBytes, MaxTemporaryBytes} \subseteq 0..Top
  /\ EntryBytes \in Nat \ {0} /\ MaxCalls \in Nat

VARIABLES
  file,            \* the file of the running call or open backend
  open_, indexed_,
  shape,           \* [chunks, direct]: the ContainerShape
  index_bytes,     \* the index records counted by inspect_container
  statistics,      \* [count, start, end, counts, channels, schemas] or NoStatistics
  channels_,       \* channel -> schema
  schemas_,
  connections_,    \* channel -> message_count; channel_positions_ is its domain
  metadata_,       \* [messages, start, end]
  spool,           \* bytes in the temporary file, -1 when there is none
  entries_,        \* the spool entries [time, offset, size, channel]
  capacity,        \* room reserved for entries_
  pc,              \* where open() is; "idle" between calls
  at,              \* position in the records, or in the scanned messages
  error,           \* what the last call threw: "none", "format", "limit"
  calls

summary_vars == <<statistics, channels_, schemas_>>
tables == <<connections_, metadata_, entries_, capacity, spool>>
vars == <<file, open_, indexed_, shape, index_bytes, summary_vars, tables, pc, at, error, calls>>

Nothing == [c \in {} |-> 0]
NoShape == [chunks |-> 0, direct |-> FALSE]
NoMetadata == [messages |-> 0, start |-> 0, end |-> 0]
NoFile == [records |-> <<>>, channels |-> Nothing, schemas |-> {},
           summary |-> [read |-> "bad", statistics |-> NoStatistics, indexes |-> {},
                        channels |-> Nothing, schemas |-> {}]]

Minus(a, b) == IF b <= a THEN a - b ELSE a + Modulus - b
Plus(a, b) == (a + b) % Modulus

\* The messages of a file in file order, as a scan hands them out.
Messages(f) == FlattenSeq([n \in DOMAIN f.records |-> f.records[n].messages])

\* Where the spool holds message n: behind the payloads before it and their separators.
Place(f, n) ==
  LET all == Messages(f) IN SumFunctionOnSet([k \in DOMAIN all |-> all[k].size + 1], 1..(n - 1))

-----------------------------------------------------------------------------
Cleared ==
  /\ open_' = FALSE /\ indexed_' = FALSE
  /\ shape' = NoShape /\ index_bytes' = 0
  /\ statistics' = NoStatistics /\ channels_' = Nothing /\ schemas_' = {}
  /\ connections_' = Nothing /\ metadata_' = NoMetadata
  /\ entries_' = <<>> /\ capacity' = 0 /\ spool' = -1

Init ==
  /\ file = NoFile
  /\ open_ = FALSE /\ indexed_ = FALSE
  /\ shape = NoShape /\ index_bytes = 0
  /\ statistics = NoStatistics /\ channels_ = Nothing /\ schemas_ = {}
  /\ connections_ = Nothing /\ metadata_ = NoMetadata
  /\ entries_ = <<>> /\ capacity = 0 /\ spool = -1
  /\ pc = "idle" /\ at = 0
  /\ error = "none" /\ calls = 0

Goto(place) == pc' = place /\ at' = 1

BeginOpen ==
  /\ pc = "idle" /\ ~open_ /\ calls < MaxCalls
  /\ calls' = calls + 1
  /\ file' \in Files
  /\ Cleared
  /\ error' = "none"
  /\ Goto("inspect")

Close ==
  /\ pc = "idle" /\ open_
  /\ Cleared
  /\ file' = NoFile
  /\ UNCHANGED <<pc, at, error, calls>>

\* ~Impl of the Reader closes the backend.
Destroy ==
  /\ pc = "idle"
  /\ Cleared
  /\ file' = NoFile
  /\ pc' = "destroyed"
  /\ UNCHANGED <<at, error, calls>>

\* The handler of open(): close() and rethrow.
Throw_NoClose(kind) ==
  /\ file' = NoFile /\ shape' = NoShape /\ index_bytes' = 0
  /\ pc' = "idle" /\ at' = 0
  /\ error' = kind
  /\ UNCHANGED <<open_, indexed_, summary_vars, tables, calls>>

Throw(kind) ==
  /\ Cleared
  /\ file' = NoFile
  /\ pc' = "idle" /\ at' = 0
  /\ error' = kind
  /\ UNCHANGED calls

\* The file or the temporary file cannot be opened, read or written, or the SDK
\* reports an error.
ReadFails ==
  /\ pc \in {"inspect", "summary", "scan", "spool"}
  /\ Throw("format")

-----------------------------------------------------------------------------
\* inspect_container: what one record is held against.
Over(chunk) ==
  \/ chunk.raw > MaxChunkBytes
  \/ chunk.length > MaxChunkBytes /\ Minus(chunk.length, MaxChunkBytes) > MaxBodyBytes

IndexFits_Each(length) == length <= MaxIndexBytes
IndexFits(length) == length <= Minus(MaxIndexBytes, index_bytes)

TooLarge(record) ==
  CASE record.op = "chunk" -> Over(record)
    [] record.op \in {"message", "attachment"} -> record.length > MaxMessageBytes
    [] record.op = "meta" -> record.length > MaxBodyBytes
    [] record.op = "index" -> ~IndexFits(record.length)

Overflows(record) == record.op \in {"chunk", "message"} /\ record.end = Top

Inspect ==
  /\ pc = "inspect" /\ at \in DOMAIN file.records
  /\ LET record == file.records[at] IN
     IF TooLarge(record) THEN Throw("limit")
     ELSE IF Overflows(record) THEN Throw("format")
     ELSE /\ shape' = [chunks |-> shape.chunks + (IF record.op = "chunk" THEN 1 ELSE 0),
                       direct |-> shape.direct \/ record.op = "message"]
          /\ index_bytes' = index_bytes + (IF record.op = "index" THEN record.length ELSE 0)
          /\ at' = at + 1
          /\ UNCHANGED <<file, open_, indexed_, summary_vars, tables, pc, error, calls>>

Inspected ==
  /\ pc = "inspect" /\ at \notin DOMAIN file.records
  /\ Goto("summary")
  /\ UNCHANGED <<file, open_, indexed_, shape, index_bytes, summary_vars, tables, error, calls>>

\* The summary is enough to read in time order: no message lies outside a chunk,
\* every chunk is indexed, and every channel is known with its schema.
Trusted_AnyChunk(s) ==
  /\ shape.chunks = Cardinality(s.indexes)
  /\ DOMAIN s.channels # {}
  /\ \A i \in s.indexes : i.usable
  /\ \A c \in DOMAIN s.channels : s.channels[c] \in s.schemas \cup {0}

Trusted_Unusable(s) ==
  /\ ~shape.direct
  /\ shape.chunks = Cardinality(s.indexes)
  /\ DOMAIN s.channels # {}
  /\ \A c \in DOMAIN s.channels : s.channels[c] \in s.schemas \cup {0}

Trusted(s) ==
  /\ ~shape.direct
  /\ shape.chunks = Cardinality(s.indexes)
  /\ DOMAIN s.channels # {}
  /\ \A i \in s.indexes : i.usable
  /\ \A c \in DOMAIN s.channels : s.channels[c] \in s.schemas \cup {0}

ReadSummary ==
  /\ pc = "summary"
  /\ IF file.summary.read = "bad" THEN Throw("format")
     ELSE /\ statistics' = file.summary.statistics
          /\ schemas_' = file.summary.schemas
          /\ channels_' = file.summary.channels
          /\ indexed_' = Trusted(file.summary)
          /\ Goto(IF statistics' = NoStatistics \/ ~indexed_' THEN "scan" ELSE "fill")
          /\ UNCHANGED <<file, open_, shape, index_bytes, tables, error, calls>>

\* The statistics of a forced scan (external).
Scanned(f) ==
  LET all == Messages(f)
      times == {all[n].time : n \in DOMAIN all} IN
  [count |-> Len(all),
   start |-> IF times = {} THEN Top ELSE Min(times),
   end |-> IF times = {} THEN 0 ELSE Max(times),
   counts |-> [c \in {all[n].channel : n \in DOMAIN all} |->
                 Cardinality({n \in DOMAIN all : all[n].channel = c})],
   channels |-> Cardinality(DOMAIN f.channels),
   schemas |-> Cardinality(f.schemas)]

\* The scan corrects the decision when the summary knows fewer channels or schemas.
Scan ==
  /\ pc = "scan"
  /\ statistics' = Scanned(file)
  /\ indexed_' = (indexed_ /\ Cardinality(DOMAIN channels_) = statistics'.channels
                           /\ Cardinality(schemas_) = statistics'.schemas)
  /\ schemas_' = IF indexed_' THEN schemas_ ELSE file.schemas
  /\ channels_' = IF indexed_' THEN channels_ ELSE file.channels
  /\ Goto("fill")
  /\ UNCHANGED <<file, open_, shape, index_bytes, tables, error, calls>>

\* Connections and metadata; the end of the span is exclusive.
EndOverflows_Never == FALSE
EndOverflows == statistics.count > 0 /\ statistics.end = Top

Fill ==
  /\ pc = "fill"
  /\ IF EndOverflows THEN Throw("format")
     ELSE
       /\ connections_' = [c \in DOMAIN channels_ |->
                             IF c \in DOMAIN statistics.counts THEN statistics.counts[c] ELSE 0]
       /\ metadata_' = [messages |-> statistics.count, start |-> statistics.start,
                        end |-> Plus(statistics.end, IF statistics.count > 0 THEN 1 ELSE 0)]
       /\ spool' = IF statistics.count > 0 /\ ~indexed_ THEN 0 ELSE -1
       /\ Goto(IF spool' = 0 THEN "spool" ELSE "done")
       /\ UNCHANGED <<file, open_, indexed_, shape, index_bytes, summary_vars, entries_,
                      capacity, error, calls>>

-----------------------------------------------------------------------------
\* build_sorted_spool.
Maximum == MaxIndexBytes \div EntryBytes

\* Payload and separator fit into what is left.  The subtraction is unsigned.
SpoolFits_NoSeparator(size) ==
  spool < MaxTemporaryBytes /\ size <= Minus(MaxTemporaryBytes, spool)

SpoolFits_NoGuard(size) == size <= Minus(Minus(MaxTemporaryBytes, spool), 1)

SpoolFits(size) ==
  spool < MaxTemporaryBytes /\ size <= Minus(Minus(MaxTemporaryBytes, spool), 1)

Growth_Zero == IF capacity > Maximum \div 2 THEN Maximum ELSE capacity * 2

Growth_Double == IF capacity = 0 THEN 1 ELSE capacity * 2

Growth == IF capacity > Maximum \div 2 THEN Maximum
          ELSE IF capacity = 0 THEN 1 ELSE capacity * 2

Spool ==
  /\ pc = "spool" /\ at \in DOMAIN Messages(file)
  /\ LET message == Messages(file)[at] IN
     IF message.size > MaxMessageBytes \/ ~SpoolFits(message.size) \/ Len(entries_) = Maximum
     THEN Throw("limit")
     ELSE IF message.channel \notin DOMAIN connections_ THEN Throw("format")
     ELSE /\ capacity' = IF Len(entries_) = capacity THEN Growth ELSE capacity
          /\ entries_' = Append(entries_, [time |-> message.time, offset |-> spool,
                                           size |-> message.size, channel |-> message.channel])
          /\ spool' = spool + message.size + 1
          /\ at' = at + 1
          /\ UNCHANGED <<file, open_, indexed_, shape, index_bytes, summary_vars, connections_,
                         metadata_, pc, error, calls>>

ByTime_Only(a, b) == a.time < b.time

ByTime(a, b) == a.time < b.time \/ (a.time = b.time /\ a.offset < b.offset)

\* The orders std::sort may leave (it is not stable).
Arrangements(s) ==
  {[n \in DOMAIN s |-> s[p[n]]] : p \in {q \in [DOMAIN s -> DOMAIN s] : IsInjective(q)}}

Sorted(s) == {t \in Arrangements(s) : \A m, n \in DOMAIN t : m < n => ~ByTime(t[n], t[m])}

\* The scan ends, with all the messages or early; an SDK error is ReadFails.  The
\* entries are counted before they are sorted.
Counted_Any == TRUE
Counted == Len(entries_) = metadata_.messages

SpoolDone ==
  /\ pc = "spool"
  /\ IF ~Counted THEN Throw("format")
     ELSE /\ entries_' \in Sorted(entries_)
          /\ Goto("done")
          /\ UNCHANGED <<file, open_, indexed_, shape, index_bytes, summary_vars, connections_,
                         metadata_, capacity, spool, error, calls>>

FinishOpen ==
  /\ pc = "done"
  /\ open_' = TRUE
  /\ pc' = "idle"
  /\ UNCHANGED <<file, indexed_, shape, index_bytes, summary_vars, tables, at, error, calls>>

-----------------------------------------------------------------------------
\* One step of a running call of open().
Running ==
  \/ Inspect \/ Inspected \/ ReadSummary \/ Scan \/ Fill \/ Spool \/ SpoolDone \/ FinishOpen

\* The program is over, or makes no more calls.
Stopped ==
  /\ \/ pc = "destroyed"
     \/ pc = "idle" /\ ~open_ /\ calls = MaxCalls
  /\ UNCHANGED vars

Next == BeginOpen \/ Close \/ Destroy \/ Running \/ ReadFails \/ Stopped

Spec == Init /\ [][Next]_vars

-----------------------------------------------------------------------------
\* Neither the index records the SDK will load nor the room reserved for the entries
\* of the spool ever exceeds max_index_bytes, at any step of the growth by doubling, and
\* that room is always there for the entries (mcap.cpp:65, 195-200).
IndexBudgetHeld ==
  /\ index_bytes <= MaxIndexBytes
  /\ Len(entries_) <= capacity
  /\ capacity * EntryBytes <= MaxIndexBytes

\* The temporary file never exceeds max_temporary_bytes, separators included, though
\* what is left of it is computed by unsigned subtraction (mcap.cpp:193).
SpoolInBudget == spool <= MaxTemporaryBytes

\* What an open backend says of its messages is so whenever it scanned them itself: how
\* many there are, in all and on each channel, and a time span that holds every one, the
\* end being exclusive and not wrapped (mcap.cpp:104-114, 132-145).
MetadataTrue ==
  LET all == Messages(file) IN
  (open_ /\ (~indexed_ \/ file.summary.statistics = NoStatistics)) =>
    /\ metadata_.messages = Len(all)
    /\ \A c \in DOMAIN connections_ :
         connections_[c] = Cardinality({n \in DOMAIN all : all[n].channel = c})
    /\ \A n \in DOMAIN all : metadata_.start <= all[n].time /\ all[n].time < metadata_.end

\* Whatever open() had built when it failed is gone when it returns, the temporary
\* file included (mcap.cpp:147, 152-162).
AllOrNothing ==
  (pc \in {"idle", "destroyed"} /\ ~open_) =>
    /\ spool = -1 /\ entries_ = <<>> /\ capacity = 0
    /\ DOMAIN channels_ = {} /\ schemas_ = {} /\ DOMAIN connections_ = {}
    /\ ~indexed_

=============================================================================
