--------------------------- MODULE AnyReaderCursor ---------------------------
(***************************************************************************)
(* AnyReaderCursorImpl of src/rosbags.cpp, the k-way merge of the cursors  *)
(* of several open Readers, with the numbering of connections by           *)
(* AnyReader::open that it relies on.                                      *)
(*                                                                         *)
(* The cursor keeps one head message per input in a heap ordered by        *)
(* (timestamp, input) and refills lazily: next() remembers the input it    *)
(* took from in pending_source_ and reads that input's following message   *)
(* only at the start of the following call.                                *)
(*                                                                         *)
(* A source of the vector sources_ is named here by the reader it reads;   *)
(* the constructor pushes them in reader order, so both orders agree.      *)
(* A local cursor (a BackendCursorImpl) is modelled by its promise: the    *)
(* records of its bag on the requested connections, in time order, with an *)
(* exception at a record it cannot read.                                   *)
(***************************************************************************)
EXTENDS Naturals, Sequences

CONSTANTS
  NumReaders,   \* inputs of the AnyReader
  ConnCount,    \* connections of each input
  Bags,         \* possible contents: each input a sequence of [time, conn]
  Corruptions,  \* possible sets of unreadable records <<reader, index>>;
                \* index 0 stands for making the local cursor
  Filters       \* possible ReadFilter::connection_ids; {} asks for everything

Sources == 1..NumReaders

\* A local cursor yields its records in time order (ORDER BY timestamp, the
\* ROS1 index heap, MCAP log-time order).
Sorted(bag) == \A i, j \in DOMAIN bag : i < j => bag[i].time <= bag[j].time

ASSUME ReadersAssumption == NumReaders \in Nat \ {0}
ASSUME ConnCountAssumption == ConnCount \in [Sources -> Nat]
ASSUME FiltersAssumption == \A f \in Filters : f \subseteq Nat
ASSUME BagsAssumption ==
  \A b \in Bags :
    /\ b \in [Sources -> Seq([time : Nat, conn : Nat])]
    /\ \A r \in Sources :
         /\ Sorted(b[r])
         /\ \A i \in DOMAIN b[r] : b[r][i].conn \in 1..ConnCount[r]

VARIABLES
  bags, corrupt, filter,  \* the inputs and the filter, fixed by Init
  next_reader,   \* loop variable of AnyReader::open, then of the constructor
  connections_,   \* AnyReader::Impl::connections: [id, reader, conn]
  first,         \* where each reader's connections begin (history)
  global_index,  \* connections of the readers the constructor has passed
  base,          \* Source::global_index of each source
  local,         \* connection_ids of the filter given to each local cursor
  taken,         \* index of the last record each local cursor has read
  head,          \* Source::head: index of the record held, 0 when empty
  heap,          \* heap_: items [time, source]
  pending,       \* pending_source_, 0 when empty
  status,        \* "opening", "building", "open", "ended" or "failed"
  error,         \* ErrorContext::source_path of the exception: a reader, or 0
  out            \* messages handed out (history)

inputs == <<bags, corrupt, filter>>
numbering == <<connections_, first>>
sources == <<global_index, base, local>>
merge == <<taken, head, heap, pending>>
mergeVars == <<inputs, numbering, sources, merge, next_reader, status, error, out>>

-----------------------------------------------------------------------------
\* The connections of one input looked up as if it were the only one.
Message_LocalIndex(r, i) ==
  [time |-> bags[r][i].time, source |-> r, index |-> i,
   connection |-> connections_[bags[r][i].conn]]

\* The message pull() makes of a record: its connection pointer is redirected
\* into the vector of the AnyReader.
Message(r, i) ==
  [time |-> bags[r][i].time, source |-> r, index |-> i,
   connection |-> connections_[base[r] + bags[r][i].conn]]

\* The records a local cursor yields when its filter has these connection_ids:
\* an empty list asks for everything.
Yields(r, i, ids) == ids = {} \/ bags[r][i].conn \in ids

IsNext(r, i, ids) ==
  /\ i > taken[r]
  /\ Yields(r, i, ids)
  /\ \A j \in DOMAIN bags[r] : taken[r] < j /\ j < i => ~Yields(r, j, ids)

Exhausted(r, ids) == \A i \in DOMAIN bags[r] : i > taken[r] => ~Yields(r, i, ids)

\* HeapCompare: which of two heap items is nearer to the top.
Before_TimeOnly(a, b) == a.time <= b.time
Before(a, b) ==
  \/ a.time < b.time
  \/ a.time = b.time /\ a.source < b.source

IsTop(item) ==
  item \in heap /\ \A other \in heap : other = item \/ Before(item, other)

-----------------------------------------------------------------------------
MergeInit ==
  /\ bags \in Bags
  /\ corrupt \in Corruptions
  /\ filter \in Filters
  /\ next_reader = 1
  /\ connections_ = <<>>
  /\ first = [r \in Sources |-> 0]
  /\ global_index = 0
  /\ base = [r \in Sources |-> 0]
  /\ local = [r \in Sources |-> {}]
  /\ taken = [r \in Sources |-> 0]
  /\ head = [r \in Sources |-> 0]
  /\ heap = {}
  /\ pending = 0
  /\ status = "opening"
  /\ error = 0
  /\ out = <<>>

\* AnyReader::open copies the connections of the next reader, numbering them
\* on from the last one; ids start at 1.
Numbered_FromZero(r) ==
  [c \in 1..ConnCount[r] |->
     [id |-> Len(connections_) + c - 1, reader |-> r, conn |-> c]]

Numbered(r) ==
  [c \in 1..ConnCount[r] |->
     [id |-> Len(connections_) + c, reader |-> r, conn |-> c]]

NumberReader ==
  /\ status = "opening"
  /\ next_reader \in Sources
  /\ connections_' = connections_ \o Numbered(next_reader)
  /\ first' = [first EXCEPT ![next_reader] = Len(connections_)]
  /\ next_reader' = next_reader + 1
  /\ UNCHANGED <<inputs, sources, merge, status, error, out>>

\* AnyReader::messages on the open reader: the constructor starts.
StartCursor ==
  /\ status = "opening"
  /\ next_reader \notin Sources
  /\ status' = "building"
  /\ next_reader' = 1
  /\ UNCHANGED <<inputs, numbering, sources, merge, error, out>>

-----------------------------------------------------------------------------
\* pull(): the three things the local cursor of r can do.  A record goes on the
\* heap as it becomes the head.
PullRecord(r, ids) ==
  \E i \in DOMAIN bags[r] :
    /\ IsNext(r, i, ids)
    /\ <<r, i>> \notin corrupt
    /\ taken' = [taken EXCEPT ![r] = i]
    /\ head' = [head EXCEPT ![r] = i]
    /\ heap' = heap \cup {[time |-> bags[r][i].time, source |-> r]}
    /\ UNCHANGED <<status, error>>

PullEnd(r, ids) ==
  /\ Exhausted(r, ids)
  /\ UNCHANGED <<taken, head, heap, status, error>>

\* The error is taken for the end of the input.
PullFault_AsEnd(r, ids) ==
  /\ \E i \in DOMAIN bags[r] :
       /\ IsNext(r, i, ids)
       /\ <<r, i>> \in corrupt
       /\ taken' = [taken EXCEPT ![r] = Len(bags[r])]
  /\ UNCHANGED <<head, heap, status, error>>

\* The exception leaves pull() and its caller; BackendCursorImpl has added the
\* path of its reader.
PullFault(r, ids) ==
  /\ \E i \in DOMAIN bags[r] :
       /\ IsNext(r, i, ids)
       /\ <<r, i>> \in corrupt
       /\ taken' = [taken EXCEPT ![r] = i]
  /\ status' = "failed"
  /\ error' = r
  /\ UNCHANGED <<head, heap>>

-----------------------------------------------------------------------------
\* The constructor's filter for the local cursor of reader r: the local ids of
\* the connections whose global id was asked for.
LocalIds(r) ==
  {c \in 1..ConnCount[r] :
     filter # {} /\ connections_[global_index + c].id \in filter}

\* A reader none of whose connections was asked for gets no cursor at all.
Relevant(r) == filter = {} \/ LocalIds(r) # {}

SkipReader ==
  /\ status = "building"
  /\ next_reader \in Sources
  /\ ~Relevant(next_reader)
  /\ next_reader' = next_reader + 1
  /\ global_index' = global_index + ConnCount[next_reader]
  /\ UNCHANGED <<inputs, numbering, base, local, merge, status, error, out>>

AddSource ==
  /\ status = "building"
  /\ next_reader \in Sources
  /\ Relevant(next_reader)
  /\ LET r == next_reader IN
       /\ <<r, 0>> \notin corrupt
       /\ base' = [base EXCEPT ![r] = global_index]
       /\ local' = [local EXCEPT ![r] = LocalIds(r)]
       /\ \/ PullRecord(r, LocalIds(r))
          \/ PullEnd(r, LocalIds(r))
          \/ PullFault(r, LocalIds(r))
       /\ global_index' = global_index + ConnCount[r]
  /\ next_reader' = next_reader + 1
  /\ UNCHANGED <<inputs, numbering, pending, out>>

\* Making the local cursor throws; Reader::messages adds the path.
AddSourceFails ==
  /\ status = "building"
  /\ next_reader \in Sources
  /\ Relevant(next_reader)
  /\ <<next_reader, 0>> \in corrupt
  /\ status' = "failed"
  /\ error' = next_reader
  /\ UNCHANGED <<inputs, numbering, sources, merge, next_reader, out>>

Built ==
  /\ status = "building"
  /\ next_reader \notin Sources
  /\ status' = "open"
  /\ UNCHANGED <<inputs, numbering, sources, merge, next_reader, error, out>>

-----------------------------------------------------------------------------
\* pending_source_ is not cleared once the input has been read on.
Refill_KeepPending ==
  /\ status = "open"
  /\ pending # 0
  /\ \/ PullRecord(pending, local[pending])
     \/ PullEnd(pending, local[pending])
     \/ PullFault(pending, local[pending])
  /\ UNCHANGED <<inputs, numbering, sources, pending, next_reader, out>>

\* next(), first half: the input taken from last is read on.  An exception
\* leaves pending_source_ set.
Refill ==
  /\ status = "open"
  /\ pending # 0
  /\ \/ (PullRecord(pending, local[pending]) \/ PullEnd(pending, local[pending]))
        /\ pending' = 0
     \/ PullFault(pending, local[pending]) /\ UNCHANGED pending
  /\ UNCHANGED <<inputs, numbering, sources, next_reader, out>>

\* The refill at the end of the call that hands the message out.  As it may
\* throw, a message already taken from the heap may be lost.
Pop_Eager ==
  /\ status = "open"
  /\ pending = 0
  /\ \E item \in heap :
       LET r == item.source IN
       /\ IsTop(item)
       /\ heap' = heap \ {item}
       /\ head' = [head EXCEPT ![r] = 0]
       /\ pending' = r
       /\ IF \E i \in DOMAIN bags[r] : IsNext(r, i, local[r]) /\ <<r, i>> \in corrupt
          THEN /\ status' = "failed"
               /\ error' = r
               /\ taken' = [taken EXCEPT ![r] = CHOOSE i \in DOMAIN bags[r] : IsNext(r, i, local[r])]
               /\ UNCHANGED out
          ELSE /\ out' = Append(out, Message(r, head[r]))
               /\ UNCHANGED <<taken, status, error>>
  /\ UNCHANGED <<inputs, numbering, sources, next_reader>>

\* next(), second half: hand out the top of the heap, or report the end.
Pop ==
  /\ status = "open"
  /\ pending = 0
  /\ \E item \in heap :
       LET r == item.source IN
       /\ IsTop(item)
       /\ heap' = heap \ {item}
       /\ out' = Append(out, Message(r, head[r]))
       /\ head' = [head EXCEPT ![r] = 0]
       /\ pending' = r
  /\ UNCHANGED <<inputs, numbering, sources, taken, next_reader, status, error>>

EndOfStream ==
  /\ status = "open"
  /\ pending = 0
  /\ heap = {}
  /\ status' = "ended"
  /\ UNCHANGED <<inputs, numbering, sources, merge, next_reader, error, out>>

\* At the end next() keeps returning false; a cursor that threw is destroyed.
Finished ==
  /\ status \in {"ended", "failed"}
  /\ UNCHANGED mergeVars

Open == NumberReader \/ StartCursor
Construct == SkipReader \/ AddSource \/ AddSourceFails \/ Built
NextCall == Refill \/ Pop \/ EndOfStream

MergeNext == Open \/ Construct \/ NextCall \/ Finished

MergeSpec == MergeInit /\ [][MergeNext]_mergeVars

\* read_raw calls next() until it returns false, and a call always returns.
FairSpec == MergeSpec /\ WF_mergeVars(Open \/ Construct \/ NextCall)

-----------------------------------------------------------------------------
Connection == [id : Nat \ {0}, reader : Sources, conn : Nat \ {0}]
Output == [time : Nat, source : Sources, index : Nat, connection : Connection]

MergeTypeOK ==
  /\ next_reader \in 1..NumReaders + 1
  /\ connections_ \in Seq(Connection)
  /\ first \in [Sources -> Nat]
  /\ global_index \in Nat
  /\ base \in [Sources -> Nat]
  /\ local \in [Sources -> SUBSET Nat]
  /\ taken \in [Sources -> Nat]
  /\ head \in [Sources -> Nat]
  /\ heap \subseteq [time : Nat, source : Sources]
  /\ pending \in {0} \cup Sources
  /\ status \in {"opening", "building", "open", "ended", "failed"}
  /\ error \in {0} \cup Sources
  /\ out \in Seq(Output)

-----------------------------------------------------------------------------
\* What the filter accepts, said without the bookkeeping of the code: the
\* records on the connections whose id in the AnyReader was asked for.
Asked(k) == filter = {} \/ connections_[k].id \in filter

RecordsOn(connection) ==
  {i \in DOMAIN bags[connection.reader] : bags[connection.reader][i].conn = connection.conn}

MessagesOn(connection) ==
  {[time |-> bags[connection.reader][i].time, source |-> connection.reader,
    index |-> i, connection |-> connection] : i \in RecordsOn(connection)}

Wanted == UNION {MessagesOn(connections_[k]) : k \in {j \in DOMAIN connections_ : Asked(j)}}

Stream == INSTANCE MessageStream WITH
  wanted <- IF status = "opening" THEN {} ELSE Wanted,
  status <- IF status = "opening" THEN "new"
            ELSE IF status = "building" THEN "open" ELSE status

\* The cursor is a MessageStream: what it hands out is, at every moment, the
\* beginning of the stable merge of the asked-for messages of all inputs, and
\* next() returns false only when that merge is complete.  In particular an
\* unreadable record never passes for the end of its input.
MergesStably == Stream!Spec

\* A message is reported on the connection it was recorded on: global_index and
\* local_positions lead to the right entry of the AnyReader's vector, also when
\* the filter passes over whole inputs.
ReportsOwnConnection ==
  \A n \in DOMAIN out :
    LET m == out[n] IN
    /\ m.connection.reader = m.source
    /\ m.connection.conn = bags[m.source][m.index].conn

\* An unreadable record costs none of the messages before it: when the cursor
\* fails, everything its input yielded earlier has been handed out.  This is
\* what the lazy refill is for.
FaultsAreLazy ==
  status = "failed" =>
    \A i \in DOMAIN bags[error] :
      /\ i < taken[error]
      /\ Yields(error, i, local[error])
      => \E n \in DOMAIN out : out[n].source = error /\ out[n].index = i

\* A caller that drains the cursor gets to the end of the stream or to an
\* exception.
Terminates == <>(status \in {"ended", "failed"})

-----------------------------------------------------------------------------
\* The inductive invariant behind the safety properties.

\* The readers numbered so far occupy consecutive blocks of the vector.
NumberedTo(n) ==
  /\ n \in Sources => first[1] = 0
  /\ \A r \in 1..n :
       /\ \A c \in 1..ConnCount[r] :
            /\ first[r] + c \in DOMAIN connections_
            /\ connections_[first[r] + c] = [id |-> first[r] + c, reader |-> r, conn |-> c]
       /\ first[r] + ConnCount[r] = IF r = n THEN Len(connections_) ELSE first[r + 1]
  /\ \A k \in DOMAIN connections_ :
       /\ connections_[k].reader \in 1..n
       /\ connections_[k].conn \in 1..ConnCount[connections_[k].reader]
       /\ k = first[connections_[k].reader] + connections_[k].conn

NumberingInv ==
  IF status = "opening" THEN /\ NumberedTo(next_reader - 1)
                             /\ next_reader = 1 => connections_ = <<>>
                        ELSE NumberedTo(NumReaders)

Passed(r) == status # "opening" /\ r < next_reader
Admitted(r) == Passed(r) /\ (filter = {} \/ local[r] # {})

\* The local filters, and global_index wherever it is used, are those of the blocks.
SourcesInv ==
  /\ status = "building" /\ next_reader \in Sources => global_index = first[next_reader]
  /\ status = "opening" => global_index = 0
  /\ status \in {"open", "ended"} => next_reader = NumReaders + 1
  /\ \A r \in Sources :
       /\ ~Passed(r) => local[r] = {}
       /\ Passed(r) => local[r] = {c \in 1..ConnCount[r] : filter # {} /\ first[r] + c \in filter}
       /\ Admitted(r) => base[r] = first[r]

Handed(r, i) == \E n \in DOMAIN out : out[n].source = r /\ out[n].index = i

HeapInv ==
  heap = {[time |-> bags[r][head[r]].time, source |-> r] : r \in {q \in Sources : head[q] # 0}}

HeadInv(r) ==
  /\ ~Admitted(r) => head[r] = 0 /\ taken[r] = 0
  /\ head[r] # 0 => /\ head[r] = taken[r]
                    /\ head[r] \in DOMAIN bags[r]
                    /\ Yields(r, head[r], local[r])

\* What has been read of an input is its head and what was handed out, but for
\* the record it failed at.
HandedInv(r) ==
  \A i \in DOMAIN bags[r] :
    Handed(r, i) <=> /\ Admitted(r)
                     /\ Yields(r, i, local[r])
                     /\ i <= taken[r]
                     /\ i # head[r]
                     /\ ~(status = "failed" /\ error = r /\ i = taken[r])

\* An input that has no head, and is not due to be read, has nothing left.
ReadUpInv(r) ==
  Admitted(r) /\ head[r] = 0 /\ pending # r /\ status # "failed" => Exhausted(r, local[r])

NextCallInv ==
  /\ pending # 0 => Admitted(pending) /\ head[pending] = 0
  /\ status \in {"opening", "building"} => out = <<>> /\ pending = 0
  /\ status = "ended" => heap = {} /\ pending = 0
  /\ status = "failed" => error \in Sources /\ head[error] = 0

\* The messages handed out are those of their records ...
OutRecords ==
  \A n \in DOMAIN out :
    /\ out[n].index \in DOMAIN bags[out[n].source]
    /\ out[n] = Message(out[n].source, out[n].index)

\* ... each ahead of all that follow it ...
OutOrdered == \A m, n \in DOMAIN out : m < n => Stream!Precedes(out[m], out[n])

\* ... and of all that are still to come.
OutAhead ==
  \A n \in DOMAIN out, r \in Sources :
    \A i \in DOMAIN bags[r] :
      Admitted(r) /\ Yields(r, i, local[r]) /\ ~Handed(r, i)
        => Stream!Precedes(out[n], Message(r, i))

MergeInv ==
  /\ MergeTypeOK
  /\ bags \in Bags
  /\ NumberingInv
  /\ SourcesInv
  /\ HeapInv
  /\ \A r \in Sources : HeadInv(r) /\ HandedInv(r) /\ ReadUpInv(r)
  /\ NextCallInv
  /\ OutRecords
  /\ OutOrdered
  /\ OutAhead
=============================================================================
