---------------------------- MODULE AnyReaderOpen ----------------------------
(***************************************************************************)
(* What AnyReader::open() of src/rosbags.cpp makes of its inputs: the      *)
(* connections of all of them under new ids, and one ReaderMetadata.  It   *)
(* runs on ReaderLifecycle: each of its steps is one of ReaderLifecycle,   *)
(* and says besides what becomes of connections and metadata.              *)
(*                                                                         *)
(* What the backends report of their files is in `found': the metadata of  *)
(* a reader, with the storage its directory names and the number of its    *)
(* connections.  A file may hold something else each time it is opened.    *)
(***************************************************************************)
EXTENDS ReaderLifecycle, Sequences

CONSTANTS
  Paths,     \* what the paths of the inputs may name: "directory", ".bag", ".mcap" or "other"
  Stored(_), \* what an input may report when it is opened: [storage, connections,
             \* message_count, start_time, end_time]
  Modulus    \* 2^w of times and counts

\* A window may end before it starts: a ROS1 bag announces what it likes of its chunks, and
\* the statistics of an MCAP summary are believed.
ASSUME StoredAssumption ==
  /\ Modulus \in Nat \ {0}
  /\ \A r \in Readers : \A stored \in Stored(r) :
       /\ stored.connections \in Nat
       /\ {stored.message_count, stored.start_time, stored.end_time} \subseteq 0..(Modulus - 1)
       /\ stored.storage # "Rosbag1"

VARIABLES
  path,         \* what the path of each input names, fixed by the constructor
  found,        \* what the backend of each reader reports; meant only while it is open
  connections,  \* AnyReader::Impl::connections: [id, reader, number]
  metadata      \* AnyReader::Impl::metadata

merged == <<path, found, connections, metadata>>
openVars == <<vars, merged>>

NoneFound == [storage |-> "Sqlite3", connections |-> 0, message_count |-> 0, start_time |-> 0,
              end_time |-> 0]
NoMetadata == [storage |-> "Rosbag1", message_count |-> 0, start_time |-> 0, end_time |-> 0,
               duration |-> 0]

OpenInit ==
  /\ Init
  /\ path \in Paths
  /\ found = [r \in Readers |-> NoneFound]
  /\ connections = [s \in States |-> <<>>]
  /\ metadata = [s \in States |-> NoMetadata]

-----------------------------------------------------------------------------
\* Reader::Reader chooses the backend; a directory is of the kind its metadata names.
StorageKind(r) ==
  CASE path[r] = "directory" -> found[r].storage
    [] path[r] = ".bag" -> "Rosbag1"
    [] path[r] = ".mcap" -> "Mcap"
    [] OTHER -> "Sqlite3"

Mixed_Unchecked(s) == FALSE

Mixed(s) ==
  \E i \in 1..Inputs[s] :
    (StorageKind(<<s, i>>) = "Rosbag1") # (StorageKind(<<s, 1>>) = "Rosbag1")

\* The next input is opened.
ReadInput ==
  /\ OpenReader
  /\ \E stored \in Stored(<<call.on, call.at>>) :
       found' = [found EXCEPT ![<<call.on, call.at>>] = stored]
  /\ UNCHANGED <<path, connections, metadata>>

\* copy.id = next_id++ for the connections of each reader in turn
Copied(all, r) ==
  all \o [n \in 1..found[r].connections |-> [id |-> Len(all) + n, reader |-> r, number |-> n]]

Renumbered(s) ==
  LET upto[i \in 0..Inputs[s]] == IF i = 0 THEN <<>> ELSE Copied(upto[i - 1], <<s, i>>)
  IN upto[Inputs[s]]

Lesser(a, b) == IF a <= b THEN a ELSE b
Greater(a, b) == IF a >= b THEN a ELSE b

\* A reader without messages reports times that say nothing.
Added_Empty(total, stored) ==
  [total EXCEPT !.start_time = Lesser(@, stored.start_time), !.end_time = Greater(@, stored.end_time),
                !.message_count = (@ + stored.message_count) % Modulus]

Added(total, stored) ==
  [total EXCEPT !.start_time = IF stored.message_count # 0 THEN Lesser(@, stored.start_time) ELSE @,
                !.end_time = IF stored.message_count # 0 THEN Greater(@, stored.end_time) ELSE @,
                !.message_count = (@ + stored.message_count) % Modulus]

Fresh_Kept(s) == [metadata[s] EXCEPT !.start_time = Modulus - 1]
Fresh(s) == [NoMetadata EXCEPT !.start_time = Modulus - 1]

Total(s) ==
  LET upto[i \in 0..Inputs[s]] == IF i = 0 THEN Fresh(s) ELSE Added(upto[i - 1], found[<<s, i>>])
  IN upto[Inputs[s]]

\* How long a window is that may end before it starts
Span_Wraps(start, end) == (end + Modulus - start) % Modulus
Span(start, end) == IF end >= start THEN end - start ELSE 0

Merged(s) ==
  LET total == Total(s)
      start == IF \E i \in 1..Inputs[s] : found[<<s, i>>].message_count # 0 THEN total.start_time ELSE 0
  IN [total EXCEPT !.storage = StorageKind(<<s, 1>>), !.start_time = start,
                   !.duration = Span(start, total.end_time)]

\* All inputs are open, and of one kind.
Merge ==
  LET s == call.on IN
  /\ OpenDone
  /\ IF Kind[s] = "AnyReader"
       THEN /\ ~Mixed(s)
            /\ connections' = [connections EXCEPT ![s] = Renumbered(s)]
            /\ metadata' = [metadata EXCEPT ![s] = Merged(s)]
       ELSE UNCHANGED <<connections, metadata>>
  /\ UNCHANGED <<path, found>>

\* open() of an AnyReader that fails closes it.
RefuseInputs ==
  /\ OpenFails
  /\ connections' = [connections EXCEPT ![call.on] = <<>>]
  /\ UNCHANGED <<path, found, metadata>>

\* close() forgets the connections; the metadata stays behind, unreadable.
CloseInputs(h) ==
  /\ Close(h)
  /\ connections' = [connections EXCEPT ![shell[h]] = <<>>]
  /\ UNCHANGED <<path, found, metadata>>

OpenNext ==
  \/ ReadInput \/ Merge \/ RefuseInputs
  \/ \E h \in Shells : CloseInputs(h)
  \/ /\ \/ \E h \in Shells : BeginOpen(h) \/ DestroyShell(h)
        \/ \E h, k \in Shells : Move(h, k)
        \/ \E h \in Shells, c \in Cursors : Messages(h, c)
        \/ \E c \in Cursors : BeginDestroy(c)
        \/ DestroySource \/ DestroyDone \/ Gone
     /\ UNCHANGED merged

OpenSpec == OpenInit /\ [][OpenNext]_openVars

-----------------------------------------------------------------------------
OneKind(s) ==
  \A q, r \in Readers :
    q[1] = s /\ r[1] = s => (StorageKind(q) = "Rosbag1" <=> StorageKind(r) = "Rosbag1")

\* The window an AnyReader reports is that of the readers with messages, no more and no
\* less, and empty if there are none.  Its duration takes its start to its end, or is 0 if
\* it ends before it starts, as that of a reader may.
WindowOf(s, m) ==
  LET full == {r \in Readers : r[1] = s /\ found[r].message_count # 0} IN
  /\ full = {} => m.start_time = 0 /\ m.end_time = 0
  /\ full # {} =>
       /\ \E r \in full : m.start_time = found[r].start_time
       /\ \E r \in full : m.end_time = found[r].end_time
  /\ \A r \in full : m.start_time <= found[r].start_time /\ found[r].end_time <= m.end_time
  /\ m.start_time <= m.end_time => m.start_time + m.duration = m.end_time
  /\ m.start_time > m.end_time => m.duration = 0

\* An open AnyReader describes the files it has open, those of this opening and not of an
\* earlier one: all ROS1 or all ROS2; their window, whatever the empty ones among them
\* report and whether or not it ends behind its start; and each of their connections once, its id its place, in the order of the inputs
\* (rosbags.cpp:257-293).
DescribesInputs ==
  \A s \in States :
    open[s] /\ Kind[s] = "AnyReader" =>
      /\ OneKind(s)
      /\ WindowOf(s, metadata[s])
      /\ {<<connections[s][n].reader, connections[s][n].number>> : n \in DOMAIN connections[s]}
           = UNION {{r} \X (1..found[r].connections) : r \in {q \in Readers : q[1] = s}}
      /\ \A n \in DOMAIN connections[s] :
           /\ connections[s][n].id = n
           /\ \A m \in 1..(n - 1) :
                \/ connections[s][m].reader[2] < connections[s][n].reader[2]
                \/ /\ connections[s][m].reader = connections[s][n].reader
                   /\ connections[s][m].number < connections[s][n].number
=============================================================================
