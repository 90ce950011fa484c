------------------------ MODULE DirectoryConnections ------------------------
(***************************************************************************)
(* What DirectoryBackend::open() of src/sqlite3.cpp makes of the contents  *)
(* of a directory: metadata.yaml becomes connections_ and metadata_, and   *)
(* then the connections of the children, file after file, are held against *)
(* connections_, complete what the metadata left open in them, and are     *)
(* entered in connection_map_.  (DirectoryOpen has the files themselves    *)
(* and the failures of getting at them.)                                   *)
(*                                                                         *)
(* A directory is [info, children]: info the fields of metadata.yaml, ""   *)
(* or 0 when they are missing, and children the connections of each file,  *)
(* as the backend of the file has them, with normalized names.             *)
(***************************************************************************)
EXTENDS Integers, Sequences, Topics

CONSTANTS
  Directories,  \* what the directory may hold when it is opened
  MaxTime       \* the largest uint64_t

NoDefinition == [format |-> "none", data |-> ""]

ASSUME TimeAssumption == MaxTime \in Nat
ASSUME DirectoriesAssumption ==
  \A d \in Directories :
    /\ {"version", "storage_identifier", "compression_mode", "compression_format"} \subseteq DOMAIN d.info
    /\ d.info.message_count \in Nat
    /\ {d.info.starting_time, d.info.duration} \subseteq 0..MaxTime
    /\ DOMAIN d.info.topics = 1..Len(d.info.topics)
    /\ Len(d.children) \in Nat /\ DOMAIN d.children = 1..Len(d.children)
    /\ \A s \in DOMAIN d.children : DOMAIN d.children[s] = 1..Len(d.children[s])

VARIABLES
  directory,       \* what is on the disk
  phase,           \* "closed", "mapping", "open" or "refused"
  connections_, connection_map_, metadata_

opening == <<directory, phase, connections_, connection_map_, metadata_>>

NoMetadata == [start_time |-> 0, end_time |-> 0, duration |-> 0, message_count |-> 0,
               compression_mode |-> ""]

OpeningInit ==
  /\ directory \in Directories
  /\ phase = "closed"
  /\ connections_ = <<>> /\ connection_map_ = <<>> /\ metadata_ = NoMetadata

-----------------------------------------------------------------------------
\* A word of the metadata is [letters, capitals].
Lower(word) == word.letters

CompressionMode(info) == IF Lower(info.compression_mode) = "none" THEN "" ELSE Lower(info.compression_mode)

\* From the time of the last message to the end of the window
Duration_Recorded(info) == IF info.message_count = 0 THEN 0 ELSE info.duration
Duration(info) == IF info.message_count = 0 THEN 0 ELSE info.duration + 1

\* The checks of open() in their order
MetadataError_EndOnly(info, files) ==
  CASE info.version \notin 0..9 -> "UnsupportedFeature"
    [] Lower(info.storage_identifier) \notin {"sqlite3", "mcap"} -> "UnsupportedFeature"
    [] files = 0 -> "FormatError"
    [] CompressionMode(info) \notin {"", "file", "message"} -> "UnsupportedFeature"
    [] CompressionMode(info) # "" /\ Lower(info.compression_format) # "zstd" -> "UnsupportedFeature"
    [] info.starting_time > MaxTime - info.duration -> "FormatError"
    [] OTHER -> "none"

MetadataError(info, files) ==
  CASE info.version \notin 0..9 -> "UnsupportedFeature"
    [] Lower(info.storage_identifier) \notin {"sqlite3", "mcap"} -> "UnsupportedFeature"
    [] files = 0 -> "FormatError"
    [] CompressionMode(info) \notin {"", "file", "message"} -> "UnsupportedFeature"
    [] CompressionMode(info) # "" /\ Lower(info.compression_format) # "zstd" -> "UnsupportedFeature"
    [] info.message_count # 0 /\ info.duration = MaxTime -> "FormatError"
    [] info.starting_time > MaxTime - Duration(info) -> "FormatError"
    [] OTHER -> "none"

\* Entry n of topics_with_message_count
TopicConnection(topic, n) ==
  [id |-> n, topic |-> NormalizeTopic(topic.name), type |-> NormalizeType(topic.type),
   serialization_format |-> topic.serialization_format, digest |-> topic.type_description_hash,
   definition |-> NoDefinition]

Connections(info) == [n \in DOMAIN info.topics |-> TopicConnection(info.topics[n], n)]

Metadata(info) ==
  [start_time |-> IF info.message_count = 0 THEN 0 ELSE info.starting_time,
   end_time |-> IF info.message_count = 0 THEN 0 ELSE info.starting_time + Duration(info),
   duration |-> Duration(info), message_count |-> info.message_count,
   compression_mode |-> CompressionMode(info)]

\* connections_ keeps what an attempt before has put there.
ReadMetadata_Append ==
  /\ phase = "closed"
  /\ MetadataError(directory.info, Len(directory.children)) = "none"
  /\ phase' = "mapping"
  /\ connections_' = connections_ \o Connections(directory.info)
  /\ metadata_' = Metadata(directory.info)
  /\ UNCHANGED <<directory, connection_map_>>

ReadMetadata ==
  /\ phase = "closed"
  /\ MetadataError(directory.info, Len(directory.children)) = "none"
  /\ phase' = "mapping"
  /\ connections_' = Connections(directory.info)
  /\ metadata_' = Metadata(directory.info)
  /\ UNCHANGED <<directory, connection_map_>>

RefuseMetadata ==
  /\ phase = "closed"
  /\ MetadataError(directory.info, Len(directory.children)) # "none"
  /\ phase' = "refused"
  /\ UNCHANGED <<directory, connections_, connection_map_, metadata_>>

-----------------------------------------------------------------------------
\* The connections of the children are <<file, number>>.
Children == UNION {{s} \X DOMAIN directory.children[s] : s \in DOMAIN directory.children}
Child(k) == directory.children[k[1]][k[2]]

Earlier(j, k) == j[1] < k[1] \/ (j[1] = k[1] /\ j[2] < k[2])

\* The loops over backends_ and their connections have come to child k.
Reached(k) ==
  /\ k \in Children \ DOMAIN connection_map_
  /\ \A j \in Children : Earlier(j, k) => j \in DOMAIN connection_map_

Candidates_Topic(child) == {n \in DOMAIN connections_ : connections_[n].topic = child.topic}
Candidates(child) ==
  {n \in DOMAIN connections_ : connections_[n].topic = child.topic /\ connections_[n].type = child.type}
IsFound(n, child) == n \in Candidates(child) /\ \A m \in Candidates(child) : n <= m

Contradicts_FormatOnly(connection, child) ==
  \/ connection.serialization_format # child.serialization_format
  \/ connection.digest # "" /\ child.digest # "" /\ connection.digest # child.digest
  \/ connection.definition.format # "none" /\ connection.definition # child.definition
Contradicts(connection, child) ==
  \/ connection.serialization_format # child.serialization_format
  \/ connection.digest # "" /\ child.digest # "" /\ connection.digest # child.digest
  \/ /\ connection.definition.format # "none"
     /\ connection.definition.format = child.definition.format
     /\ connection.definition.data # child.definition.data

\* What the metadata does not say is learned from the first child that does.
Learned_Nothing(connection, child) == connection
Learned(connection, child) ==
  [connection EXCEPT !.digest = IF @ = "" THEN child.digest ELSE @,
                     !.definition = IF @.format = "none" THEN child.definition ELSE @]

MapChild ==
  /\ phase = "mapping"
  /\ \E k \in Children, n \in DOMAIN connections_ :
       /\ Reached(k)
       /\ IsFound(n, Child(k))
       /\ ~Contradicts(connections_[n], Child(k))
       /\ connections_' = [connections_ EXCEPT ![n] = Learned(@, Child(k))]
       /\ connection_map_' = [j \in DOMAIN connection_map_ \cup {k} |->
                                IF j = k THEN n ELSE connection_map_[j]]
  /\ UNCHANGED <<directory, phase, metadata_>>

\* A child the metadata does not list, or contradicts; close_impl() runs.
RefuseChild ==
  /\ phase = "mapping"
  /\ \E k \in Children :
       /\ Reached(k)
       /\ \A n \in DOMAIN connections_ :
            IsFound(n, Child(k)) => Contradicts(connections_[n], Child(k))
  /\ phase' = "refused"
  /\ connection_map_' = <<>>
  /\ UNCHANGED <<directory, connections_, metadata_>>

Opened ==
  /\ phase = "mapping"
  /\ Children \subseteq DOMAIN connection_map_
  /\ phase' = "open"
  /\ UNCHANGED <<directory, connections_, connection_map_, metadata_>>

\* close() of the open directory, or before another attempt after a failed one, with the
\* directory repaired or recorded anew meanwhile.
Close ==
  /\ phase \in {"open", "refused"}
  /\ phase' = "closed"
  /\ connection_map_' = <<>>
  /\ directory' \in Directories
  /\ UNCHANGED <<connections_, metadata_>>

OpeningNext == ReadMetadata \/ RefuseMetadata \/ MapChild \/ RefuseChild \/ Opened \/ Close

OpeningSpec == OpeningInit /\ [][OpeningNext]_opening

-----------------------------------------------------------------------------
\* What the directory says, to hold against it.

\* A topic of the metadata is the child's: the first such is its entry.
Lists(topic, child) ==
  NormalizeTopic(topic.name) = child.topic /\ NormalizeType(topic.type) = child.type
IsEntry(n, k) ==
  LET topics == directory.info.topics IN
  /\ n \in DOMAIN topics /\ Lists(topics[n], Child(k))
  /\ \A m \in DOMAIN topics : Lists(topics[m], Child(k)) => n <= m

SameEntry(j, k) == \E n \in DOMAIN directory.info.topics : IsEntry(n, j) /\ IsEntry(n, k)

Digests(n) ==
  ({directory.info.topics[n].type_description_hash} \cup {Child(k).digest : k \in {j \in Children : IsEntry(n, j)}})
    \ {""}

\* The first child of an entry to have a definition
Defines(k) ==
  /\ Child(k).definition.format # "none"
  /\ \A j \in Children :
       SameEntry(j, k) /\ Child(j).definition.format # "none" => ~Earlier(j, k)

\* The metadata and the children contradict each other.
Conflict ==
  \/ \E k \in Children : \A n \in DOMAIN directory.info.topics : ~IsEntry(n, k)
  \/ \E n \in DOMAIN directory.info.topics :
       \/ \E k \in Children :
            IsEntry(n, k) /\ Child(k).serialization_format # directory.info.topics[n].serialization_format
       \/ \E a, b \in Digests(n) : a # b
  \/ \E j, k \in Children :
       /\ SameEntry(j, k) /\ Defines(j)
       /\ Child(j).definition.format = Child(k).definition.format
       /\ Child(j).definition.data # Child(k).definition.data

\* What any source of an entry says, the entry says.
Complete(n) ==
  /\ connections_[n].id = n
  /\ Digests(n) \subseteq {connections_[n].digest}
  /\ \A k \in Children : IsEntry(n, k) /\ Defines(k) => connections_[n].definition = Child(k).definition

Agreed ==
  /\ ~Conflict
  /\ DOMAIN connection_map_ = Children
  /\ \A k \in Children : IsEntry(connection_map_[k], k)
  /\ \A n \in DOMAIN connections_ : Complete(n)

\* A directory that opens has every connection of every file mapped to the one the metadata
\* lists for it, and no two sources of one entry - metadata or files, in whatever order they
\* are met - say different things of its encoding, its digest or (in the format met first)
\* its definition; what any of them says the entry says too.  And only a directory with such
\* a conflict is refused once its metadata has been read (sqlite3.cpp:458-481).
OpensExactly ==
  [][/\ phase = "mapping" /\ phase' = "open" => Agreed'
     /\ phase # "refused" /\ phase' = "refused" => (Conflict \/ MetadataError(directory.info, Len(directory.children)) # "none")']_phase

\* The window an open directory reports holds the first and the last message of the
\* metadata, ends right behind the last, and is as long as it says, in 64 bits; and no
\* directory whose window fits is refused for its times (sqlite3.cpp:416-425).
WindowExact ==
  LET info == directory.info
      last == info.starting_time + info.duration
      sane == [info EXCEPT !.starting_time = 0, !.duration = 0]
  IN
  /\ phase = "open" =>
       /\ metadata_.end_time <= MaxTime
       /\ metadata_.duration = metadata_.end_time - metadata_.start_time
       /\ info.message_count # 0 =>
            metadata_.start_time = info.starting_time /\ metadata_.end_time = last + 1
       /\ info.message_count = 0 => metadata_.end_time = 0
  /\ phase = "refused" /\ ~Conflict /\ (info.message_count = 0 \/ last < MaxTime) =>
       MetadataError(sane, Len(directory.children)) # "none"
=============================================================================
