----------------------------- MODULE McapCursor -----------------------------
(***************************************************************************)
(* McapBackend::Cursor of src/mcap.cpp, on the backend McapOpen leaves.    *)
(* Over the spool it walks the sorted entries and reads the payloads back; *)
(* over an indexed file it walks the view of the SDK, which is external:   *)
(* the view holds what the options asked for, of the chunks the summary    *)
(* indexes, in time order, and may break off with an error that the SDK    *)
(* reports to a callback and not to the loop.  A caller may call next()    *)
(* again after it returned false.                                          *)
(***************************************************************************)
EXTENDS McapOpen, Topics

CONSTANTS
  Topic,       \* the topic of each channel of a file, as the file has it
  Filters,     \* possible filters [topics, connection_ids, start, stop, match];
               \* an empty set asks for everything, match is a pattern of Topics
  NoTime       \* start or stop that is not set; mcap::MaxTime is Top

ASSUME FiltersAssumption ==
  \A f \in Filters : {f.start, f.stop} \subseteq {NoTime} \cup 0..Top /\ NoTime \notin 0..Top

\* topics_match() means the same topics.
ASSUME TopicsAssumption ==
  /\ \A f \in Filters : Legal(f.match) =>
       \A t \in f.topics, c \in DOMAIN Topic :
         TopicsMatch(t, NormalizeTopic(Topic[c]), f.match) <=> SameTopic(t, Topic[c], f.match)
  /\ \A f \in Files : \A n \in DOMAIN Messages(f) : Messages(f)[n].channel \in DOMAIN Topic

\* The statistics of a summary may be wrong in many ways, and a cursor of an indexed file
\* believes them: they do not deny that there are messages, or one at the last time.
ASSUME StatisticsAssumption ==
  \A f \in Files : f.summary.statistics # NoStatistics =>
    /\ f.summary.statistics.count = 0 => Messages(f) = <<>>
    /\ \A n \in DOMAIN Messages(f) :
         Messages(f)[n].time = Top => f.summary.statistics.end = Top

VARIABLES
  filter,
  status,      \* "new", "open", "ended" (next returned false) or "failed"
  empty,       \* empty_
  position,    \* position_: the next entry of the spool
  view,        \* what is left of the SDK's view: numbers of messages
  problem,     \* problem_ is set
  out          \* messages handed out (history)

cursor == <<filter, status, empty, position, view, problem, out>>

NoFilter == [topics |-> {}, connection_ids |-> {}, start |-> NoTime, stop |-> NoTime,
             match |-> [policy |-> "Strict", namespace |-> <<>>]]

OrElse(time, default) == IF time = NoTime THEN default ELSE time

-----------------------------------------------------------------------------
\* A connection has its topic normalized, and the SDK filters by a lambda that does so too.
TopicMatches(f, channel) ==
  \/ f.topics = {}
  \/ \E requested \in f.topics : TopicsMatch(requested, NormalizeTopic(Topic[channel]), f.match)
HasTopic(channel) ==
  /\ TopicMatches(filter, channel)
  /\ filter.connection_ids = {} \/ channel \in filter.connection_ids

\* No message at all, or a time range that cannot hold one.
IsEmpty(f) ==
  \/ metadata_.messages = 0
  \/ f.start # NoTime /\ f.stop # NoTime /\ f.start >= f.stop

\* lower_bound in the entries.
LowerBound(time) ==
  Min({n \in 1..(Len(entries_) + 1) : n \in DOMAIN entries_ => entries_[n].time >= time})

\* The upper end the options give the SDK; the view excludes it.
EndTime_Included(f) == OrElse(f.stop, Top) + 1
EndTime(f) == OrElse(f.stop, Top)

\* Message n lies in a chunk the summary indexes.
Indexed(n) ==
  \E i \in file.summary.indexes :
    i.usable /\ LET before == Len(Messages([records |-> SubSeq(file.records, 1, i.chunk - 1)])) IN
                n \in before + 1..before + Len(file.records[i.chunk].messages)

\* The view of the SDK for these options (external).  It filters by topic, not by id.
View(f) ==
  LET all == Messages(file)
      read == {n \in DOMAIN all :
                 /\ Indexed(n) /\ OrElse(f.start, 0) <= all[n].time /\ all[n].time < EndTime(f)
                 /\ TopicMatches(f, all[n].channel)}
      Before(m, n) == all[m].time < all[n].time \/ (all[m].time = all[n].time /\ m < n)
  IN CHOOSE s \in [1..Cardinality(read) -> read] :
       \A i, j \in DOMAIN s : i < j => Before(s[i], s[j])

Message(n) ==
  LET m == Messages(file)[n] IN [time |-> m.time, source |-> 0, index |-> n, connection |-> m.channel]

-----------------------------------------------------------------------------
ReaderInit ==
  /\ Init
  /\ filter = NoFilter
  /\ status = "new" /\ empty = FALSE
  /\ position = 1
  /\ view = <<>> /\ problem = FALSE
  /\ out = <<>>

\* The constructor.
StartCursor ==
  /\ pc = "idle" /\ open_ /\ status = "new"
  /\ status' = "open"
  /\ filter' \in {f \in Filters : Legal(f.match)}
  /\ empty' = IsEmpty(filter')
  /\ position' = IF ~empty' /\ ~indexed_ THEN LowerBound(OrElse(filter'.start, 0)) ELSE position
  /\ view' = IF ~empty' /\ indexed_ THEN View(filter') ELSE <<>>
  /\ UNCHANGED <<vars, problem, out>>

\* The topic namespace is not absolute, the spool or the file cannot be opened, or the
\* summary cannot be read again.
StartFails ==
  /\ pc = "idle" /\ open_ /\ status = "new"
  /\ status' = "failed"
  /\ filter' \in {f \in Filters : ~Legal(f.match) \/ ~IsEmpty(f)}
  /\ UNCHANGED <<vars, empty, position, view, problem, out>>

Callable == status \in {"open", "ended"}
Finish(result) == status' = result

NextOfEmpty ==
  /\ Callable /\ empty
  /\ Finish("ended")
  /\ UNCHANGED <<vars, filter, empty, position, view, problem, out>>

\* The loop over the spool: every round takes an entry, whatever comes of it.
AfterStop(entry) == filter.stop # NoTime /\ entry.time >= filter.stop

\* What is done with an entry of another topic, or an item of the view.
SkipEntry_Return == Finish("ended")
SkipEntry == UNCHANGED status

\* The message whose payload the spool holds at this place.
SpooledAt(offset) == CHOOSE n \in DOMAIN Messages(file) : Place(file, n) = offset

SpoolRound ==
  /\ Callable /\ ~empty /\ ~indexed_
  /\ position \in DOMAIN entries_
  /\ position' = position + 1
  /\ LET entry == entries_[position] IN
     \/ AfterStop(entry) /\ Finish("ended") /\ UNCHANGED out
     \/ ~AfterStop(entry) /\ ~HasTopic(entry.channel) /\ SkipEntry /\ UNCHANGED out
     \/ /\ ~AfterStop(entry) /\ HasTopic(entry.channel)
        /\ out' = Append(out, Message(SpooledAt(entry.offset)))
        /\ UNCHANGED status
     \/ \* the payload cannot be read
        /\ ~AfterStop(entry) /\ HasTopic(entry.channel)
        /\ Finish("failed") /\ UNCHANGED out
  /\ UNCHANGED <<vars, filter, empty, view, problem>>

SpoolEnd ==
  /\ Callable /\ ~empty /\ ~indexed_
  /\ position \notin DOMAIN entries_
  /\ Finish("ended")
  /\ UNCHANGED <<vars, filter, empty, position, view, problem, out>>

\* The loop over the view of the SDK.
Passes_TopicOnly(channel) == TopicMatches(filter, channel)
Passes(channel) == HasTopic(channel)

ViewRound ==
  /\ Callable /\ ~empty /\ indexed_
  /\ view # <<>>
  /\ LET n == Head(view)
         message == Messages(file)[n]
         known == message.channel \in DOMAIN connections_ IN
     \/ known /\ ~Passes(message.channel) /\ view' = Tail(view) /\ UNCHANGED <<status, out>>
     \/ /\ known /\ Passes(message.channel) /\ message.size <= MaxMessageBytes
        /\ view' = Tail(view)
        /\ out' = Append(out, Message(n))
        /\ UNCHANGED status
     \/ \* an unknown channel, or a message above the limit; the iterator stays
        /\ ~known \/ (Passes(message.channel) /\ message.size > MaxMessageBytes)
        /\ Finish("failed") /\ UNCHANGED <<view, out>>
  /\ UNCHANGED <<vars, filter, empty, position, problem>>

\* The SDK breaks off with an error, which its callback keeps for later (external).
ViewBreaks ==
  /\ status = "open" /\ ~empty /\ indexed_
  /\ view # <<>>
  /\ problem' = TRUE /\ view' = <<>>
  /\ UNCHANGED <<vars, filter, status, empty, position, out>>

AtEnd_Quiet == "ended"
AtEnd == IF problem THEN "failed" ELSE "ended"

ViewEnd ==
  /\ Callable /\ ~empty /\ indexed_
  /\ view = <<>>
  /\ Finish(AtEnd)
  /\ UNCHANGED <<vars, filter, empty, position, view, problem, out>>

CursorStep ==
  StartCursor \/ StartFails \/ NextOfEmpty \/ SpoolRound \/ SpoolEnd \/ ViewRound \/ ViewEnd

\* A cursor that threw is destroyed.  What may be done to the reader while a cursor is
\* in use is the business of ReaderLifecycle; here it stays open.
Destroyed == status = "failed" /\ UNCHANGED <<vars, cursor>>

ReaderNext ==
  \/ status = "new" /\ Next /\ UNCHANGED cursor
  \/ CursorStep \/ ViewBreaks \/ Destroyed

\* The caller opens the file and drains the cursor.
ReaderSpec == ReaderInit /\ [][ReaderNext]_<<vars, cursor>>

-----------------------------------------------------------------------------
\* What the filter accepts, said of the records of the file alone.
Wanted ==
  LET all == Messages(file) IN
  {Message(n) : n \in {k \in DOMAIN all :
     /\ filter.start = NoTime \/ all[k].time >= filter.start
     /\ filter.stop = NoTime \/ all[k].time < filter.stop
     /\ \/ filter.topics = {}
        \/ \E t \in filter.topics : SameTopic(t, Topic[all[k].channel], filter.match)
     /\ filter.connection_ids = {} \/ all[k].channel \in filter.connection_ids}}

Stream == INSTANCE MessageStream WITH
  wanted <- IF status = "new" THEN {} ELSE Wanted

\* Whatever open() decided about a file, index or spool, the cursor is a MessageStream
\* of all the messages in its records on the topics meant by the filter, however
\* they are spelled there: none is missed because the summary did not know
\* of it, none is repeated, those of equal time keep the order of the file, an error of
\* the SDK is never taken for the end of the stream, and once next() has returned
\* false no later call hands out a message (mcap.cpp:94-113, 187-217, 237-307).
MergesStably == Stream!Spec
=============================================================================
