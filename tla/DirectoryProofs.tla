--------------------------- MODULE DirectoryProofs ---------------------------
(***************************************************************************)
(* Proofs about a ROS2 directory and the cursor over it, for any           *)
(* directories, contents, faults, filters and width of the times.          *)
(*                                                                         *)
(* open() accepts exactly the directories whose metadata and files agree   *)
(* (OpensExactly), and its window is that of the metadata (WindowExact),   *)
(* also after a failed attempt and another directory, and a cursor changes *)
(* nothing of that.                                                        *)
(*                                                                         *)
(* The cursor implements MessageStream, and a fault costs nothing that     *)
(* precedes it.  The argument is that of ReaderProofs for the merge, on the*)
(* connection map shown to be right in the first part: which records       *)
(* pull() keeps (Keeps) is fixed once there is a cursor, every shard is    *)
(* read up to its head, and the top of the heap precedes all that is not   *)
(* handed out.                                                             *)
(***************************************************************************)
EXTENDS DirectoryCursor, DirectoryOpen, SequenceTheorems, TLAPS

USE TimeAssumption, DirectoriesAssumption

\* Entry n of connections_, with what it has learned so far.
EntryOf(n, digest, definition) ==
  [id |-> n, topic |-> NormalizeTopic(directory.info.topics[n].name),
   type |-> NormalizeType(directory.info.topics[n].type),
   serialization_format |-> directory.info.topics[n].serialization_format,
   digest |-> digest, definition |-> definition]

\* connections_ are the entries of the metadata, in their order.
ShapeInv ==
  connections_ = [n \in DOMAIN directory.info.topics |->
                    EntryOf(n, connections_[n].digest, connections_[n].definition)]

\* The children mapped so far are the first ones, each mapped to its entry.
MappedInv ==
  /\ DOMAIN connection_map_ \subseteq Children
  /\ \A k \in DOMAIN connection_map_ : \A j \in Children : Earlier(j, k) => j \in DOMAIN connection_map_
  /\ \A k \in DOMAIN connection_map_ : IsEntry(connection_map_[k], k)

\* What entry n says of its digest and its encoding is what its sources say so far, and
\* none of them says otherwise.
DigestInv(n) ==
  LET digest == connections_[n].digest IN
  /\ digest = "" \/ digest \in Digests(n)
  /\ directory.info.topics[n].type_description_hash \in {"", digest}
  /\ \A k \in DOMAIN connection_map_ : IsEntry(n, k) =>
       /\ Child(k).digest \in {"", digest}
       /\ Child(k).serialization_format = directory.info.topics[n].serialization_format

\* The definition of entry n is that of the first child to have one.
DefinitionInv(n) ==
  LET definition == connections_[n].definition IN
  /\ definition.format = "none" =>
       \A k \in DOMAIN connection_map_ : IsEntry(n, k) => Child(k).definition.format = "none"
  /\ definition.format # "none" =>
       \E j \in DOMAIN connection_map_ : IsEntry(n, j) /\ Defines(j) /\ definition = Child(j).definition
  /\ \A k \in DOMAIN connection_map_ :
       IsEntry(n, k) /\ definition.format # "none" /\ Child(k).definition.format = definition.format
         => Child(k).definition.data = definition.data

MetadataRefused == MetadataError(directory.info, Len(directory.children)) # "none"

MappingInv ==
  /\ ShapeInv
  /\ MappedInv
  /\ \A n \in DOMAIN directory.info.topics : DigestInv(n) /\ DefinitionInv(n)

\* A step of the call at a time: see the phases.
IInv ==
  /\ directory \in Directories
  /\ phase \in {"closed", "mapping", "open", "refused"}
  /\ phase = "closed" => connection_map_ = <<>>
  /\ phase = "mapping" => MappingInv
  /\ phase \in {"mapping", "open"} => ~MetadataRefused /\ metadata_ = Metadata(directory.info)
  /\ phase = "refused" => Conflict \/ MetadataRefused

-----------------------------------------------------------------------------
\* A child is its file and its number there.
LEMMA ChildNumbers ==
  ASSUME directory \in Directories, NEW k \in Children
  PROVE  k[1] \in Nat /\ k[2] \in Nat /\ k = <<k[1], k[2]>>
<1>1. PICK s \in DOMAIN directory.children : k \in {s} \X DOMAIN directory.children[s]
  BY DEF Children
<1>2. PICK i \in DOMAIN directory.children[s] : k = <<s, i>>
  BY <1>1
<1>3. DOMAIN directory.children = 1..Len(directory.children)
      /\ DOMAIN directory.children[s] = 1..Len(directory.children[s])
  OBVIOUS
<1>4. s \in Nat /\ i \in Nat
  BY ONLY <1>2, <1>3
<1>5. QED
  BY ONLY <1>2, <1>4

\* Children are met one after the other.
LEMMA EarlierTotal ==
  ASSUME directory \in Directories, NEW j \in Children, NEW k \in Children
  PROVE  /\ Earlier(j, k) \/ Earlier(k, j) \/ j = k
         /\ ~Earlier(k, k)
<1>1. /\ j[1] \in Nat /\ j[2] \in Nat /\ j = <<j[1], j[2]>>
      /\ k[1] \in Nat /\ k[2] \in Nat /\ k = <<k[1], k[2]>>
  BY ChildNumbers
<1>2. CASE j[1] = k[1] /\ j[2] = k[2]
  BY ONLY <1>1, <1>2 DEF Earlier
<1>3. CASE ~(j[1] = k[1] /\ j[2] = k[2])
  BY ONLY <1>1, <1>3 DEF Earlier
<1>4. QED
  BY <1>2, <1>3

\* There is one entry for a child ...
LEMMA EntryUnique ==
  ASSUME directory \in Directories, NEW k, NEW n, NEW m, IsEntry(n, k), IsEntry(m, k)
  PROVE  n = m
<1>1. DOMAIN directory.info.topics = 1..Len(directory.info.topics)
  OBVIOUS
<1>2. n \in Int /\ m \in Int /\ n <= m /\ m <= n
  BY <1>1 DEF IsEntry
<1>3. QED
  BY ONLY <1>2

\* ... and one child is the first to define it.
LEMMA FirstUnique ==
  ASSUME directory \in Directories, NEW j \in Children, NEW k \in Children, SameEntry(j, k),
         Defines(j), Defines(k)
  PROVE  j = k
<1>1. SameEntry(k, j)
  BY DEF SameEntry
<1>2. ~Earlier(j, k) /\ ~Earlier(k, j)
  BY <1>1 DEF Defines
<1>3. QED
  BY <1>2, EarlierTotal

\* The search by topic and type finds the entry of the metadata.
LEMMA FoundIsEntry ==
  ASSUME ShapeInv, NEW k, NEW n
  PROVE  IsFound(n, Child(k)) <=> IsEntry(n, k)
<1>1. DOMAIN connections_ = DOMAIN directory.info.topics
  BY DEF ShapeInv
<1>2. ASSUME NEW m \in DOMAIN connections_
      PROVE  /\ connections_[m].topic = NormalizeTopic(directory.info.topics[m].name)
             /\ connections_[m].type = NormalizeType(directory.info.topics[m].type)
  BY <1>1 DEF ShapeInv, EntryOf
<1>3. \A m : m \in Candidates(Child(k)) <=>
               m \in DOMAIN directory.info.topics /\ Lists(directory.info.topics[m], Child(k))
  BY <1>1, <1>2 DEF Candidates, Lists
<1>4. QED
  BY <1>1, <1>3 DEF IsFound, IsEntry

LEMMA EntryFields ==
  ASSUME ShapeInv, NEW n \in DOMAIN connections_
  PROVE  /\ connections_[n].id = n
         /\ connections_[n].serialization_format = directory.info.topics[n].serialization_format
BY DEF ShapeInv, EntryOf

\* A child contradicts its entry only if the directory contradicts itself.
LEMMA ContradictionIsConflict ==
  ASSUME directory \in Directories, MappingInv, NEW k \in Children, NEW n, IsEntry(n, k),
         Reached(k), Contradicts(connections_[n], Child(k))
  PROVE  Conflict
<1> DEFINE c == connections_[n]
<1>1. n \in DOMAIN directory.info.topics /\ n \in DOMAIN connections_ /\ k \notin DOMAIN connection_map_
  BY DEF IsEntry, MappingInv, ShapeInv, Reached
<1>2. CASE c.serialization_format # Child(k).serialization_format
  BY <1>1, <1>2, EntryFields DEF Conflict, MappingInv
<1>3. CASE c.digest # "" /\ Child(k).digest # "" /\ c.digest # Child(k).digest
  <2>1. c.digest \in Digests(n)
    BY <1>1, <1>3, Zenon DEF MappingInv, DigestInv
  <2>2. Child(k).digest \in Digests(n)
    BY <1>3, Zenon DEF Digests
  <2>3. QED
    BY <1>1, <1>3, <2>1, <2>2, Zenon DEF Conflict
<1>4. CASE /\ c.definition.format # "none"
           /\ c.definition.format = Child(k).definition.format
           /\ c.definition.data # Child(k).definition.data
  <2>1. PICK j \in DOMAIN connection_map_ : IsEntry(n, j) /\ Defines(j) /\ c.definition = Child(j).definition
    BY <1>1, <1>4 DEF MappingInv, DefinitionInv
  <2>2. j \in Children /\ SameEntry(j, k)
    BY <1>1, <2>1 DEF MappingInv, MappedInv, SameEntry
  <2>3. QED
    BY <1>4, <2>1, <2>2 DEF Conflict
<1>5. QED
  BY <1>2, <1>3, <1>4, Zenon DEF Contradicts

\* When all children are mapped, nothing contradicts anything.
LEMMA AllMappedAgree ==
  ASSUME directory \in Directories, MappingInv, Children \subseteq DOMAIN connection_map_
  PROVE  Agreed
<1>1. DOMAIN connection_map_ = Children /\ DOMAIN connections_ = DOMAIN directory.info.topics
  BY DEF MappingInv, MappedInv, ShapeInv
<1>2. \A k \in Children : IsEntry(connection_map_[k], k)
  BY <1>1 DEF MappingInv, MappedInv
<1>3. ASSUME NEW n \in DOMAIN directory.info.topics PROVE Digests(n) \subseteq {connections_[n].digest}
  BY <1>1, Zenon DEF MappingInv, DigestInv, Digests
<1>4. ASSUME NEW n \in DOMAIN directory.info.topics, NEW k \in Children, IsEntry(n, k), Defines(k)
      PROVE  connections_[n].definition = Child(k).definition
  <2>1. Child(k).definition.format # "none"
    BY <1>4 DEF Defines
  <2>2. connections_[n].definition.format # "none"
    BY <1>1, <1>4, <2>1 DEF MappingInv, DefinitionInv
  <2>3. PICK j \in DOMAIN connection_map_ :
          IsEntry(n, j) /\ Defines(j) /\ connections_[n].definition = Child(j).definition
    BY <2>2 DEF MappingInv, DefinitionInv
  <2>4. j \in Children /\ SameEntry(j, k)
    BY <1>1, <1>4, <2>3 DEF SameEntry
  <2>5. j = k
    BY <1>4, <2>3, <2>4, FirstUnique
  <2>6. QED
    BY <2>3, <2>5
<1>5. ~Conflict
  <2>1. ~\E k \in Children : \A n \in DOMAIN directory.info.topics : ~IsEntry(n, k)
    BY <1>2 DEF IsEntry
  <2>2. ~\E n \in DOMAIN directory.info.topics : \E k \in Children :
           IsEntry(n, k) /\ Child(k).serialization_format # directory.info.topics[n].serialization_format
    BY <1>1, Zenon DEF MappingInv, DigestInv
  <2>3. ~\E n \in DOMAIN directory.info.topics : \E a, b \in Digests(n) : a # b
    BY <1>3
  <2>4. ASSUME NEW j \in Children, NEW k \in Children, SameEntry(j, k), Defines(j),
               Child(j).definition.format = Child(k).definition.format
        PROVE  Child(j).definition.data = Child(k).definition.data
    <3>1. PICK n \in DOMAIN directory.info.topics : IsEntry(n, j) /\ IsEntry(n, k)
      BY <2>4 DEF SameEntry
    <3>2. connections_[n].definition = Child(j).definition
      BY <1>4, <2>4, <3>1
    <3>3. Child(j).definition.format # "none"
      BY <2>4 DEF Defines
    <3>4. DefinitionInv(n) /\ k \in DOMAIN connection_map_
      BY <1>1 DEF MappingInv
    <3>5. QED
      BY <2>4, <3>1, <3>2, <3>3, <3>4 DEF DefinitionInv
  <2>5. QED
    BY <2>1, <2>2, <2>3, <2>4 DEF Conflict
<1>6. ASSUME NEW n \in DOMAIN connections_ PROVE Complete(n)
  <2>1. connections_[n].id = n
    BY EntryFields DEF MappingInv
  <2>2. QED
    BY <1>1, <1>3, <1>4, <2>1 DEF Complete
<1>7. QED
  BY <1>1, <1>2, <1>5, <1>6 DEF Agreed

-----------------------------------------------------------------------------
\* What is said of a directory does not change while it is being opened.
LEMMA SameDirectory ==
  ASSUME directory' = directory
  PROVE  /\ Children' = Children
         /\ \A k : Child(k)' = Child(k)
         /\ \A n, k : IsEntry(n, k)' = IsEntry(n, k)
         /\ \A n : Digests(n)' = Digests(n)
         /\ \A k : Defines(k)' = Defines(k)
         /\ Conflict' = Conflict
         /\ MetadataRefused' = MetadataRefused
         /\ \A n, g, d : EntryOf(n, g, d)' = EntryOf(n, g, d)
<1>1. Children' = Children
  BY DEF Children
<1>2. \A k : Child(k)' = Child(k)
  BY DEF Child
<1>3. \A n, k : IsEntry(n, k)' = IsEntry(n, k)
  BY <1>2 DEF IsEntry
<1>4. \A j, k : SameEntry(j, k)' = SameEntry(j, k)
  BY <1>3 DEF SameEntry
<1>5. \A k : Defines(k)' = Defines(k)
  BY <1>1, <1>2, <1>4 DEF Defines
<1>6. \A n : Digests(n)' = Digests(n)
  BY <1>1, <1>2, <1>3, Zenon DEF Digests
<1>7. Conflict' = Conflict
  BY <1>1, <1>2, <1>3, <1>4, <1>5, <1>6 DEF Conflict
<1>8. MetadataRefused' = MetadataRefused
  BY DEF MetadataRefused
<1>9. \A n, g, d : EntryOf(n, g, d)' = EntryOf(n, g, d)
  BY DEF EntryOf
<1>10. QED
  BY <1>1, <1>2, <1>3, <1>5, <1>6, <1>7, <1>8, <1>9

\* Learning completes the digest and the definition.
LEMMA LearnedEntry ==
  ASSUME NEW n, NEW g, NEW d, NEW child
  PROVE  Learned(EntryOf(n, g, d), child) =
           EntryOf(n, IF g = "" THEN child.digest ELSE g,
                   IF d.format = "none" THEN child.definition ELSE d)
<1> DEFINE e == EntryOf(n, g, d)
           x == IF g = "" THEN child.digest ELSE g
           y == IF d.format = "none" THEN child.definition ELSE d
<1>1. e.digest = g /\ e.definition = d
  BY DEF EntryOf
<1>2. Learned(e, child) = [e EXCEPT !.digest = x, !.definition = y]
  BY <1>1, Zenon DEF Learned
<1> HIDE DEF x, y
<1>3. [e EXCEPT !.digest = x, !.definition = y] = EntryOf(n, x, y)
  <2>1. [e EXCEPT !.digest = x] = EntryOf(n, x, d)
    BY DEF EntryOf
  <2>2. [EntryOf(n, x, d) EXCEPT !.definition = y] = EntryOf(n, x, y)
    BY DEF EntryOf
  <2>3. [e EXCEPT !.digest = x, !.definition = y] = [[e EXCEPT !.digest = x] EXCEPT !.definition = y]
    OBVIOUS
  <2>4. QED
    BY ONLY <2>1, <2>2, <2>3
<1>4. QED
  BY <1>2, <1>3, Zenon DEF x, y

LEMMA InitInv == OpeningInit => IInv
BY DEF OpeningInit, IInv

\* The entries of the metadata, before any child has been met.
LEMMA ReadMetadataInv == IInv /\ ReadMetadata => IInv'
<1> SUFFICES ASSUME IInv, ReadMetadata PROVE IInv'
  OBVIOUS
<1>1. /\ directory' = directory /\ directory \in Directories
      /\ connection_map_ = <<>> /\ connection_map_' = <<>> /\ phase' = "mapping"
      /\ metadata_' = Metadata(directory.info) /\ ~MetadataRefused
      /\ connections_' = Connections(directory.info)
  BY DEF IInv, ReadMetadata, MetadataRefused
<1>2. DOMAIN connection_map_' = {}
  BY <1>1
<1>3. ASSUME NEW n \in DOMAIN directory.info.topics
      PROVE  /\ connections_'[n] = EntryOf(n, directory.info.topics[n].type_description_hash, NoDefinition)
             /\ connections_'[n].digest = directory.info.topics[n].type_description_hash
             /\ connections_'[n].definition = NoDefinition
  BY <1>1 DEF Connections, TopicConnection, EntryOf
<1>4. DOMAIN connections_' = DOMAIN directory.info.topics
      /\ connections_' = [n \in DOMAIN directory.info.topics |-> connections_'[n]]
  BY <1>1 DEF Connections
<1>5. ShapeInv'
  <2>1. \A n \in DOMAIN directory.info.topics :
          connections_'[n] = EntryOf(n, connections_'[n].digest, connections_'[n].definition)
    BY <1>3
  <2>2. connections_' = [n \in DOMAIN directory.info.topics |->
                           EntryOf(n, connections_'[n].digest, connections_'[n].definition)]
    BY <1>4, <2>1
  <2>3. \A n : EntryOf(n, connections_'[n].digest, connections_'[n].definition)
             = EntryOf(n, connections_[n].digest, connections_[n].definition)'
    BY <1>1 DEF EntryOf
  <2>4. QED
    BY <1>1, <2>2, <2>3 DEF ShapeInv
<1>6. MappedInv'
  BY <1>2 DEF MappedInv
<1>7. ASSUME NEW n \in DOMAIN directory.info.topics
      PROVE  DigestInv(n)' /\ DefinitionInv(n)'
  <2>1. directory.info.topics[n].type_description_hash = "" \/
        directory.info.topics[n].type_description_hash \in Digests(n)
    BY Zenon DEF Digests
  <2>2. Digests(n)' = Digests(n)
    BY <1>1, SameDirectory
  <2>3. DigestInv(n)'
    BY <1>1, <1>2, <1>3, <2>1, <2>2, Zenon DEF DigestInv
  <2>4. NoDefinition.format = "none"
    BY DEF NoDefinition
  <2>5. DefinitionInv(n)'
    BY <1>2, <1>3, <2>4 DEF DefinitionInv
  <2>6. QED
    BY <2>3, <2>5
<1>8. MappingInv'
  BY <1>1, <1>5, <1>6, <1>7 DEF MappingInv
<1>9. ~MetadataRefused'
  BY <1>1, SameDirectory
<1>10. QED
  BY <1>1, <1>8, <1>9 DEF IInv

\* The next child is entered, and its entry learns from it.
LEMMA MapChildInv == IInv /\ MapChild => IInv'
<1> SUFFICES ASSUME IInv, MapChild PROVE IInv'
  OBVIOUS
<1>1. PICK k \in Children, n \in DOMAIN connections_ :
        /\ Reached(k)
        /\ IsFound(n, Child(k))
        /\ ~Contradicts(connections_[n], Child(k))
        /\ connections_' = [connections_ EXCEPT ![n] = Learned(@, Child(k))]
        /\ connection_map_' = [j \in DOMAIN connection_map_ \cup {k} |->
                                 IF j = k THEN n ELSE connection_map_[j]]
  BY DEF MapChild
<1>2. /\ directory' = directory /\ directory \in Directories /\ phase = "mapping" /\ phase' = "mapping"
      /\ metadata_' = metadata_ /\ metadata_ = Metadata(directory.info) /\ ~MetadataRefused
      /\ MappingInv
  BY DEF IInv, MapChild
<1> DEFINE D == DOMAIN connection_map_
           child == Child(k)
           old == connections_[n]
           new == connections_'[n]
<1>3. IsEntry(n, k) /\ n \in DOMAIN directory.info.topics
  BY <1>1, <1>2, FoundIsEntry DEF MappingInv, ShapeInv
<1>4. DOMAIN connection_map_' = D \cup {k} /\ k \notin D
  BY <1>1 DEF Reached
<1>5. /\ Children' = Children
      /\ \A j : Child(j)' = Child(j)
      /\ \A m, j : IsEntry(m, j)' = IsEntry(m, j)
      /\ \A m : Digests(m)' = Digests(m)
      /\ \A j : Defines(j)' = Defines(j)
  BY <1>2, SameDirectory
<1>6. /\ DOMAIN connections_ = DOMAIN directory.info.topics
      /\ \A m \in DOMAIN directory.info.topics :
           connections_[m] = EntryOf(m, connections_[m].digest, connections_[m].definition)
  BY <1>2 DEF MappingInv, ShapeInv
<1>7. /\ new = EntryOf(n, new.digest, new.definition)
      /\ new.digest = (IF old.digest = "" THEN child.digest ELSE old.digest)
      /\ new.definition = (IF old.definition.format = "none" THEN child.definition ELSE old.definition)
  <2>1. new = Learned(old, child)
    BY <1>1
  <2>2. old = EntryOf(n, old.digest, old.definition)
    BY <1>3, <1>6
  <2> HIDE DEF old, child, new
  <2>5. Learned(EntryOf(n, old.digest, old.definition), child) =
          EntryOf(n, IF old.digest = "" THEN child.digest ELSE old.digest,
                  IF old.definition.format = "none" THEN child.definition ELSE old.definition)
    BY ONLY LearnedEntry, Zenon
  <2>3. new = EntryOf(n, IF old.digest = "" THEN child.digest ELSE old.digest,
                      IF old.definition.format = "none" THEN child.definition ELSE old.definition)
    BY ONLY <2>1, <2>2, <2>5, Zenon
  <2>4. QED
    BY <2>3, Zenon DEF EntryOf
<1>8. \A m \in DOMAIN connections_ : m # n => connections_'[m] = connections_[m]
  BY <1>1
<1>9. DOMAIN connections_' = DOMAIN directory.info.topics
      /\ connections_' = [m \in DOMAIN directory.info.topics |-> connections_'[m]]
  BY <1>1, <1>6
<1>10. ShapeInv'
  <2>1. \A m \in DOMAIN directory.info.topics :
          connections_'[m] = EntryOf(m, connections_'[m].digest, connections_'[m].definition)
    BY <1>6, <1>7, <1>8, Zenon
  <2>2. connections_' = [m \in DOMAIN directory.info.topics |->
                           EntryOf(m, connections_'[m].digest, connections_'[m].definition)]
    BY <1>9, <2>1
  <2>3. \A m : EntryOf(m, connections_'[m].digest, connections_'[m].definition)
             = EntryOf(m, connections_[m].digest, connections_[m].definition)'
    BY <1>2 DEF EntryOf
  <2>4. QED
    BY <1>2, <2>2, <2>3 DEF ShapeInv
<1>11. MappedInv'
  <2>1. \A j \in D : j \in Children /\ \A i \in Children : Earlier(i, j) => i \in D
    BY <1>2 DEF MappingInv, MappedInv
  <2>2. \A i \in Children : Earlier(i, k) => i \in D
    BY <1>1 DEF Reached
  <2>3. \A j \in D : IsEntry(connection_map_[j], j)
    BY <1>2 DEF MappingInv, MappedInv
  <2>4. \A j \in D \cup {k} : IsEntry(connection_map_'[j], j)
    BY <1>1, <1>3, <2>3
  <2>5. QED
    BY <1>4, <1>5, <2>1, <2>2, <2>4 DEF MappedInv
<1>12. \A j \in D : j \in Children /\ (Earlier(j, k) => IsEntry(n, j) \/ ~IsEntry(n, j))
  BY <1>2 DEF MappingInv, MappedInv
<1> HIDE DEF D, child, old, new
<1>13. DigestInv(n)'
  <2>1. /\ old.digest = "" \/ old.digest \in Digests(n)
        /\ directory.info.topics[n].type_description_hash \in {"", old.digest}
        /\ \A j \in D : IsEntry(n, j) =>
             /\ Child(j).digest \in {"", old.digest}
             /\ Child(j).serialization_format = directory.info.topics[n].serialization_format
    BY <1>2, <1>3, Zenon DEF MappingInv, DigestInv, old, D
  <2>2. child.digest = "" \/ child.digest \in Digests(n)
    BY <1>1, <1>3, Zenon DEF Digests, child
  <2>3. /\ old.serialization_format = child.serialization_format
        /\ old.digest = "" \/ child.digest = "" \/ old.digest = child.digest
    BY <1>1, Zenon DEF Contradicts, old, child
  <2>4. old.serialization_format = directory.info.topics[n].serialization_format
    BY <1>2, <1>3, <1>6, EntryFields DEF MappingInv, old
  <2>5. new.digest = "" \/ new.digest \in Digests(n)
    BY ONLY <1>7, <2>1, <2>2, Zenon
  <2>6. directory.info.topics[n].type_description_hash \in {"", new.digest}
    BY ONLY <1>7, <2>1, Zenon
  <2>7. \A j \in D : IsEntry(n, j) => Child(j).digest \in {"", new.digest}
    BY ONLY <1>7, <2>1, Zenon
  <2>8. child.digest \in {"", new.digest}
    BY ONLY <1>7, <2>3, Zenon
  <2>9. \A j \in D \cup {k} : IsEntry(n, j) =>
          /\ Child(j).digest \in {"", new.digest}
          /\ Child(j).serialization_format = directory.info.topics[n].serialization_format
    BY ONLY <2>1, <2>3, <2>4, <2>7, <2>8, Zenon DEF child
  <2>10. QED
    BY <1>2, <1>4, <1>5, <2>5, <2>6, <2>9, Zenon DEF DigestInv, new, D
<1>14. DefinitionInv(n)'
  <2>1. /\ old.definition.format = "none" =>
             \A j \in D : IsEntry(n, j) => Child(j).definition.format = "none"
        /\ old.definition.format # "none" =>
             \E j \in D : IsEntry(n, j) /\ Defines(j) /\ old.definition = Child(j).definition
        /\ \A j \in D :
             IsEntry(n, j) /\ old.definition.format # "none" /\ Child(j).definition.format = old.definition.format
               => Child(j).definition.data = old.definition.data
    BY <1>2, <1>3 DEF MappingInv, DefinitionInv, old, D
  <2>2. ~(/\ old.definition.format # "none"
          /\ old.definition.format = child.definition.format
          /\ old.definition.data # child.definition.data)
    BY <1>1, Zenon DEF Contradicts, old, child
  <2>3. ASSUME old.definition.format = "none", child.definition.format # "none" PROVE Defines(k)
    <3>1. ASSUME NEW j \in Children, SameEntry(j, k), Child(j).definition.format # "none", Earlier(j, k)
          PROVE  FALSE
      <4>1. j \in D
        BY <1>1, <3>1 DEF Reached, D
      <4>2. PICK m \in DOMAIN directory.info.topics : IsEntry(m, j) /\ IsEntry(m, k)
        BY <3>1 DEF SameEntry
      <4>3. m = n
        BY <1>2, <1>3, <4>2, EntryUnique
      <4>4. QED
        BY <2>1, <2>3, <3>1, <4>1, <4>2, <4>3
    <3>2. QED
      BY <2>3, <3>1 DEF Defines, child
  <2>4. new.definition.format = "none" =>
          \A j \in D \cup {k} : IsEntry(n, j) => Child(j).definition.format = "none"
    BY ONLY <1>7, <2>1, Zenon DEF child
  <2>5. new.definition.format # "none" =>
          \E j \in D \cup {k} : IsEntry(n, j) /\ Defines(j) /\ new.definition = Child(j).definition
    <3>1. CASE old.definition.format = "none"
      BY ONLY <1>3, <1>7, <2>3, <3>1, Zenon DEF child
    <3>2. CASE old.definition.format # "none"
      BY ONLY <1>7, <2>1, <3>2, Zenon
    <3>3. QED
      BY ONLY <3>1, <3>2
  <2>6. \A j \in D \cup {k} :
          IsEntry(n, j) /\ new.definition.format # "none" /\ Child(j).definition.format = new.definition.format
            => Child(j).definition.data = new.definition.data
    <3>1. CASE old.definition.format = "none"
      BY ONLY <1>7, <2>1, <3>1, Zenon DEF child
    <3>2. CASE old.definition.format # "none"
      BY ONLY <1>7, <2>1, <2>2, <3>2, Zenon DEF child
    <3>3. QED
      BY ONLY <3>1, <3>2
  <2>7. QED
    BY <1>4, <1>5, <2>4, <2>5, <2>6 DEF DefinitionInv, new, D
<1>15. ASSUME NEW m \in DOMAIN directory.info.topics, m # n
       PROVE  DigestInv(m)' /\ DefinitionInv(m)'
  <2>1. connections_'[m] = connections_[m]
    BY <1>6, <1>8, <1>15
  <2>2. ~IsEntry(m, k)
    BY <1>2, <1>3, <1>15, EntryUnique
  <2>3. DigestInv(m) /\ DefinitionInv(m)
    BY <1>2 DEF MappingInv
  <2>4. DigestInv(m)'
    BY <1>2, <1>4, <1>5, <2>1, <2>2, <2>3, Zenon DEF DigestInv, D
  <2>5. DefinitionInv(m)'
    BY <1>2, <1>4, <1>5, <2>1, <2>2, <2>3 DEF DefinitionInv, D
  <2>6. QED
    BY <2>4, <2>5
<1>16. MappingInv'
  <2>1. \A m \in DOMAIN directory'.info.topics : DigestInv(m)' /\ DefinitionInv(m)'
    BY <1>2, <1>13, <1>14, <1>15
  <2>2. QED
    BY <1>10, <1>11, <2>1 DEF MappingInv
<1>17. ~MetadataRefused'
  BY <1>2, SameDirectory
<1>18. QED
  BY <1>2, <1>16, <1>17 DEF IInv

\* A child is refused because the directory contradicts itself.
LEMMA RefuseChildInv == IInv /\ RefuseChild => IInv' /\ Conflict'
<1> SUFFICES ASSUME IInv, RefuseChild PROVE IInv' /\ Conflict'
  OBVIOUS
<1>1. PICK k \in Children :
        /\ Reached(k)
        /\ \A n \in DOMAIN connections_ : IsFound(n, Child(k)) => Contradicts(connections_[n], Child(k))
  BY DEF RefuseChild
<1>2. directory' = directory /\ directory \in Directories /\ MappingInv /\ phase' = "refused"
  BY DEF IInv, RefuseChild
<1>3. Conflict
  <2>1. CASE \A n \in DOMAIN directory.info.topics : ~IsEntry(n, k)
    BY <2>1 DEF Conflict
  <2>2. ASSUME NEW n \in DOMAIN directory.info.topics, IsEntry(n, k) PROVE Conflict
    <3>1. IsFound(n, Child(k)) /\ n \in DOMAIN connections_
      BY <1>2, <2>2, FoundIsEntry DEF MappingInv, ShapeInv
    <3>2. QED
      BY <1>1, <1>2, <2>2, <3>1, ContradictionIsConflict
  <2>3. QED
    BY <2>1, <2>2
<1>4. Conflict'
  BY <1>2, <1>3, SameDirectory
<1>5. QED
  BY <1>2, <1>4 DEF IInv

\* The other steps: metadata that is refused, the end of the loops, and close().
LEMMA OthersInv == IInv /\ (RefuseMetadata \/ Opened \/ Close) => IInv'
<1>1. IInv /\ RefuseMetadata => IInv' /\ MetadataRefused'
  <2> SUFFICES ASSUME IInv, RefuseMetadata PROVE IInv' /\ MetadataRefused'
    OBVIOUS
  <2>1. directory' = directory /\ phase' = "refused" /\ MetadataRefused
    BY DEF RefuseMetadata, MetadataRefused
  <2>2. MetadataRefused'
    BY <2>1, SameDirectory
  <2>3. QED
    BY <2>1, <2>2 DEF IInv
<1>2. IInv /\ Opened => IInv'
  <2> SUFFICES ASSUME IInv, Opened PROVE IInv'
    OBVIOUS
  <2>1. /\ directory' = directory /\ phase = "mapping" /\ phase' = "open" /\ metadata_' = metadata_
        /\ ~MetadataRefused /\ metadata_ = Metadata(directory.info)
    BY DEF IInv, Opened
  <2>2. ~MetadataRefused'
    BY <2>1, SameDirectory
  <2>3. QED
    BY <2>1, <2>2 DEF IInv
<1>3. IInv /\ Close => IInv'
  BY DEF IInv, Close
<1>4. QED
  BY <1>1, <1>2, <1>3

LEMMA StutterInv == IInv /\ UNCHANGED opening => IInv'
<1> SUFFICES ASSUME IInv, UNCHANGED opening PROVE IInv'
  OBVIOUS
<1>1. UNCHANGED <<directory, phase, connections_, connection_map_, metadata_>>
  BY DEF opening
<1>2. Conflict' = Conflict /\ MetadataRefused' = MetadataRefused
  BY <1>1, SameDirectory
<1>3. MappingInv => MappingInv'
  <2> SUFFICES ASSUME MappingInv PROVE MappingInv'
    OBVIOUS
  <2>1. /\ Children' = Children
        /\ \A k : Child(k)' = Child(k)
        /\ \A n, k : IsEntry(n, k)' = IsEntry(n, k)
        /\ \A n : Digests(n)' = Digests(n)
        /\ \A k : Defines(k)' = Defines(k)
    BY <1>1, SameDirectory
  <2>2. ShapeInv'
    BY <1>1 DEF MappingInv, ShapeInv, EntryOf
  <2>3. MappedInv'
    BY <1>1, <2>1 DEF MappingInv, MappedInv
  <2>4. ASSUME NEW n \in DOMAIN directory.info.topics PROVE DigestInv(n)'
    BY <1>1, <2>1, Zenon DEF MappingInv, DigestInv
  <2>5. ASSUME NEW n \in DOMAIN directory.info.topics PROVE DefinitionInv(n)'
    BY <1>1, <2>1 DEF MappingInv, DefinitionInv
  <2>6. QED
    BY <1>1, <2>2, <2>3, <2>4, <2>5 DEF MappingInv
<1>4. QED
  BY <1>1, <1>2, <1>3 DEF IInv

LEMMA Inductive == OpeningSpec => []IInv
<1>1. IInv /\ [OpeningNext]_opening => IInv'
  BY ReadMetadataInv, MapChildInv, RefuseChildInv, OthersInv, StutterInv DEF OpeningNext
<1>2. QED
  BY <1>1, InitInv, PTL DEF OpeningSpec

-----------------------------------------------------------------------------
\* A cursor reads what open() left and changes none of it: a directory with a cursor is
\* a directory, to which what is shown of open() applies (sqlite3.cpp:537-618).
THEOREM CursorOnlyReads == Spec => OpeningSpec
<1>1. Init => OpeningInit
  BY DEF Init
<1>2. [Next]_vars => [OpeningNext]_opening
  <2>1. Opening => OpeningNext
    BY DEF Opening
  <2>2. StartCursor \/ StartFails => UNCHANGED opening
    BY DEF StartCursor, StartFails
  <2>3. MakeSource \/ MakeSourceFails \/ PullFirst \/ Built => UNCHANGED opening
    BY DEF MakeSource, MakeSourceFails, PullFirst, Built, inputs
  <2>4. NextCall => UNCHANGED opening
    BY DEF NextCall, Refill, Pop, PopFault, EndOfStream, inputs
  <2>5. Finished \/ UNCHANGED vars => UNCHANGED opening
    BY DEF Finished, vars, inputs
  <2>6. QED
    BY <2>1, <2>2, <2>3, <2>4, <2>5 DEF Next, Construct
<1>3. QED
  BY <1>1, <1>2, PTL DEF Spec, OpeningSpec

\* A directory opens when, and is refused after its metadata was read only unless, its
\* metadata and all its files agree, in whatever order they are met and whatever attempt
\* went before (sqlite3.cpp:458-481).
THEOREM OpensAgreed == Spec => OpensExactly
<1> DEFINE A == /\ phase = "mapping" /\ phase' = "open" => Agreed'
                /\ phase # "refused" /\ phase' = "refused" =>
                     (Conflict \/ MetadataError(directory.info, Len(directory.children)) # "none")'
<1>1. IInv /\ OpeningNext => A
  <2> SUFFICES ASSUME IInv, OpeningNext PROVE A
    OBVIOUS
  <2>1. CASE phase = "mapping" /\ phase' = "open"
    <3>1. Opened
      BY <2>1 DEF OpeningNext, ReadMetadata, RefuseMetadata, MapChild, RefuseChild, Close
    <3>2. Agreed
      BY <2>1, <3>1, AllMappedAgree DEF IInv, Opened
    <3>3. UNCHANGED <<directory, connections_, connection_map_>>
      BY <3>1 DEF Opened
    <3>4. Agreed'
      <4>1. /\ Children' = Children
            /\ \A k : Child(k)' = Child(k)
            /\ \A n, k : IsEntry(n, k)' = IsEntry(n, k)
            /\ \A n : Digests(n)' = Digests(n)
            /\ \A k : Defines(k)' = Defines(k)
            /\ Conflict' = Conflict
        BY <3>3, SameDirectory
      <4>2. ASSUME NEW n \in DOMAIN connections_ PROVE Complete(n)'
        BY <3>2, <3>3, <4>1 DEF Agreed, Complete
      <4>3. QED
        BY <3>2, <3>3, <4>1, <4>2 DEF Agreed
    <3>5. QED
      BY <2>1, <3>4
  <2>2. CASE phase # "refused" /\ phase' = "refused"
    <3>1. RefuseMetadata \/ RefuseChild
      BY <2>2 DEF OpeningNext, ReadMetadata, MapChild, Opened, Close
    <3>2. IInv'
      BY <3>1, RefuseChildInv, OthersInv
    <3>3. (Conflict \/ MetadataRefused)'
      BY <2>2, <3>2 DEF IInv
    <3>4. QED
      BY <2>2, <3>3 DEF MetadataRefused
  <2>3. QED
    BY <2>1, <2>2
<1>2. IInv /\ [OpeningNext]_opening => [A]_phase
  BY <1>1 DEF opening
<1>3. OpeningSpec => [][A]_phase
  BY <1>2, Inductive, PTL DEF OpeningSpec
<1>4. QED
  BY <1>3, CursorOnlyReads DEF OpensExactly

\* The window fits the width of the times and is that of the metadata, and no directory is
\* refused for a window that fits (sqlite3.cpp:416-425).
THEOREM WindowFits == Spec => []WindowExact
<1>1. IInv => WindowExact
  <2> SUFFICES ASSUME IInv PROVE WindowExact
    OBVIOUS
  <2> DEFINE info == directory.info
             parts == Len(directory.children)
             sane == [info EXCEPT !.starting_time = 0, !.duration = 0]
  <2>1. /\ info.message_count \in Nat /\ info.starting_time \in 0..MaxTime /\ info.duration \in 0..MaxTime
        /\ MaxTime \in Nat
    BY DEF IInv
  <2>2. ASSUME phase = "open"
        PROVE  /\ metadata_.end_time <= MaxTime
               /\ metadata_.duration = metadata_.end_time - metadata_.start_time
               /\ info.message_count # 0 =>
                    metadata_.start_time = info.starting_time
                    /\ metadata_.end_time = info.starting_time + info.duration + 1
               /\ info.message_count = 0 => metadata_.end_time = 0
    <3>1. MetadataError(info, parts) = "none" /\ metadata_ = Metadata(info)
      BY <2>2 DEF IInv, MetadataRefused
    <3> HIDE DEF info, parts
    <3>2. ~(info.message_count # 0 /\ info.duration = MaxTime) /\ ~(info.starting_time > MaxTime - Duration(info))
      BY ONLY <3>1, Zenon DEF MetadataError
    <3>3. /\ metadata_.start_time = IF info.message_count = 0 THEN 0 ELSE info.starting_time
          /\ metadata_.end_time = IF info.message_count = 0 THEN 0 ELSE info.starting_time + Duration(info)
          /\ metadata_.duration = Duration(info)
      BY ONLY <3>1 DEF Metadata
    <3>4. QED
      BY ONLY <2>1, <3>2, <3>3 DEF Duration
  <2>3. ASSUME phase = "refused", ~Conflict,
               info.message_count = 0 \/ info.starting_time + info.duration < MaxTime
        PROVE  MetadataError(sane, parts) # "none"
    <3>1. MetadataError(info, parts) # "none"
      BY <2>3 DEF IInv, MetadataRefused
    <3>2. /\ sane.version = info.version /\ sane.storage_identifier = info.storage_identifier
          /\ sane.compression_mode = info.compression_mode
          /\ sane.compression_format = info.compression_format
          /\ sane.message_count = info.message_count
      BY DEF IInv
    <3> HIDE DEF info, parts, sane
    <3>3. CompressionMode(sane) = CompressionMode(info)
      BY ONLY <3>2 DEF CompressionMode
    <3>4. ~(info.message_count # 0 /\ info.duration = MaxTime) /\ ~(info.starting_time > MaxTime - Duration(info))
      BY ONLY <2>1, <2>3 DEF Duration
    <3>5. QED
      BY ONLY <3>1, <3>2, <3>3, <3>4, Zenon DEF MetadataError
  <2>4. QED
    BY <2>1, <2>2, <2>3 DEF WindowExact
<1>2. QED
  BY <1>1, Inductive, CursorOnlyReads, PTL

-----------------------------------------------------------------------------
USE ContentsAssumption, FiltersAssumption

\* What open() left: every child is mapped to its entry.
MappedOut == ShapeInv /\ MappedInv /\ Children \subseteq DOMAIN connection_map_
OpenInv == phase = "open" => MappedOut

\* The constructor or next() is running, or may be called.
Ready == status \in {"building", "open"}

Handed(s, i) == \E n \in DOMAIN out : out[n].source = s /\ out[n].index = i

Output == [time : Nat, source : Shards, index : Nat, connection : DOMAIN directory.info.topics]

InputsInv ==
  /\ phase = "open"
  /\ shards \in Contents(directory)
  /\ filter \in Filters /\ Legal(filter.match)

\* The loops of the constructor, and the calls of next().
CallInv ==
  /\ made \in 0..NumShards /\ pulled \in 0..NumShards
  /\ pending \in {0} \cup Shards
  /\ made < NumShards => pulled = 0
  /\ status = "building" => out = <<>> /\ pending = 0
  /\ status = "open" => pulled = NumShards
  /\ pending # 0 => head[pending] = 0

HeapInv ==
  /\ taken \in [Shards -> Nat] /\ head \in [Shards -> Nat]
  /\ heap = {[time |-> shards[s][head[s]].time, source |-> s] : s \in {q \in Shards : head[q] # 0}}

\* The head of a shard is the last record it was read up to.
HeadInv(s) ==
  /\ head[s] # 0 => head[s] = taken[s] /\ head[s] \in DOMAIN shards[s] /\ Keeps(s, head[s])
  /\ s > pulled => taken[s] = 0 /\ head[s] = 0

\* Of a shard all that is kept was handed out up to its head.
HandedInv(s) ==
  \A i \in DOMAIN shards[s] : Handed(s, i) <=> Keeps(s, i) /\ i <= taken[s] /\ i # head[s]

\* A shard without a head that is not pending has nothing left to keep.
ReadUpInv(s) ==
  s <= pulled /\ head[s] = 0 /\ pending # s => \A i \in DOMAIN shards[s] : Keeps(s, i) => i <= taken[s]

OutRecords ==
  /\ out \in Seq(Output)
  /\ \A n \in DOMAIN out :
       out[n].index \in DOMAIN shards[out[n].source] /\ out[n] = Message(out[n].source, out[n].index)

MergeInv ==
  /\ InputsInv /\ CallInv /\ HeapInv /\ OutRecords
  /\ \A s \in Shards : HeadInv(s) /\ HandedInv(s) /\ ReadUpInv(s)

CInv ==
  /\ IInv /\ OpenInv
  /\ status \in {"new", "building", "open", "ended", "failed"}
  /\ status = "new" => made = 0 /\ pulled = 0 /\ heap = {} /\ pending = 0 /\ out = <<>>
  /\ status # "failed" => failing = 0
  /\ Ready => MergeInv
  /\ FaultsInOrder

-----------------------------------------------------------------------------
\* When open() returns all children are mapped, and they stay so until close().
LEMMA OpenedMaps == IInv /\ OpenInv /\ [OpeningNext]_opening => OpenInv'
<1> SUFFICES ASSUME IInv, OpenInv, [OpeningNext]_opening, phase' = "open" PROVE MappedOut'
  BY DEF OpenInv
<1>1. UNCHANGED <<directory, connections_, connection_map_>> /\ MappedOut
  <2>1. CASE OpeningNext
    <3>1. Opened
      BY <2>1 DEF OpeningNext, ReadMetadata, RefuseMetadata, MapChild, RefuseChild, Close
    <3>2. QED
      BY <3>1 DEF Opened, IInv, MappingInv, MappedOut
  <2>2. CASE UNCHANGED opening
    BY <2>2 DEF opening, OpenInv
  <2>3. QED
    BY <2>1, <2>2
<1>2. /\ Children' = Children
      /\ \A n, k : IsEntry(n, k)' = IsEntry(n, k)
  BY <1>1, SameDirectory
<1>3. ShapeInv'
  BY <1>1 DEF MappedOut, ShapeInv, EntryOf
<1>4. MappedInv'
  BY <1>1, <1>2 DEF MappedOut, MappedInv
<1>5. QED
  BY <1>1, <1>2, <1>3, <1>4 DEF MappedOut

LEMMA ElementsOf ==
  ASSUME NEW S, NEW q \in Seq(S)
  PROVE  Len(q) \in Nat /\ DOMAIN q = 1..Len(q) /\ \A i \in DOMAIN q : q[i] \in S
OBVIOUS

\* What the assumptions say of the shards and of one record.
LEMMA ShardFacts ==
  ASSUME directory \in Directories, shards \in Contents(directory)
  PROVE  /\ NumShards \in Nat /\ Shards = 1..NumShards /\ DOMAIN shards = Shards
         /\ \A s \in Shards : Sorted(shards[s])
         /\ \A s \in Shards : \A i \in DOMAIN shards[s] :
              /\ i \in Nat \ {0}
              /\ shards[s][i].time \in Nat
              /\ shards[s][i].child \in DOMAIN directory.children[s]
              /\ i <= Len(shards[s])
         /\ \A s \in Shards : Len(shards[s]) \in Nat
<1>1. NumShards \in Nat /\ Shards = 1..NumShards
  BY DEF NumShards, Shards
<1>2. /\ shards \in [Shards -> Seq([time : Nat, child : Nat])]
      /\ \A s \in DOMAIN shards :
           Sorted(shards[s]) /\ \A i \in DOMAIN shards[s] : shards[s][i].child \in DOMAIN directory.children[s]
  BY DEF Shards
<1>3. DOMAIN shards = Shards
  BY <1>2
<1>4. ASSUME NEW s \in Shards
      PROVE  /\ Len(shards[s]) \in Nat
             /\ \A i \in DOMAIN shards[s] : i \in Nat \ {0} /\ i <= Len(shards[s]) /\ shards[s][i].time \in Nat
  <2>1. shards[s] \in Seq([time : Nat, child : Nat])
    BY <1>2
  <2>2. DOMAIN shards[s] = 1..Len(shards[s]) /\ Len(shards[s]) \in Nat
    BY <2>1, ElementsOf
  <2>3. \A i \in DOMAIN shards[s] : shards[s][i] \in [time : Nat, child : Nat]
    BY ONLY <2>1, ElementsOf
  <2>4. QED
    BY ONLY <2>2, <2>3
<1>5. QED
  BY <1>1, <1>2, <1>3, <1>4

\* What is said of the inputs does not change while there is a cursor.
LEMMA SameInputs ==
  ASSUME UNCHANGED inputs
  PROVE  /\ \A s, i : Keeps(s, i)' = Keeps(s, i)
         /\ \A s, i : Message(s, i)' = Message(s, i)
         /\ Wanted' = Wanted /\ Shards' = Shards /\ NumShards' = NumShards /\ Output' = Output
         /\ InputsInv => InputsInv'
         /\ IInv => IInv'
         /\ IInv /\ OpenInv => OpenInv'
<1>1. UNCHANGED <<opening, shards, faults, filter>>
  BY DEF inputs
<1>2. UNCHANGED <<directory, phase, connections_, connection_map_, metadata_>>
  BY <1>1 DEF opening
<1>3. \A s, i : Keeps(s, i)' = Keeps(s, i)
  BY <1>1, <1>2 DEF Keeps, Yields, HasTopic, InTime, LocalFilter, Child, MapConnection
<1>4. \A s, i : Message(s, i)' = Message(s, i)
  BY <1>1, <1>2 DEF Message, MapConnection
<1>5. Wanted' = Wanted
  <2>1. \A s, i : WantedOf(s, i)' = WantedOf(s, i)
    BY <1>1, <1>2 DEF WantedOf, InTime
  <2>2. QED
    BY <1>1, <2>1 DEF Wanted
<1>6. Shards' = Shards /\ NumShards' = NumShards
  BY <1>2 DEF Shards, NumShards
<1>7. Output' = Output
  BY <1>2, <1>6 DEF Output
<1>8. InputsInv => InputsInv'
  BY <1>1, <1>2 DEF InputsInv
<1>9. IInv => IInv'
  BY <1>1, StutterInv
<1>10. IInv /\ OpenInv => OpenInv'
  BY <1>1, OpenedMaps
<1>11. QED
  BY <1>3, <1>4, <1>5, <1>6, <1>7, <1>8, <1>9, <1>10

-----------------------------------------------------------------------------
\* The cursor redirects a record to the entry of its connection, which has its topic.
LEMMA EntryFacts ==
  ASSUME directory \in Directories, MappedOut, InputsInv,
         NEW s \in Shards, NEW i \in DOMAIN shards[s], NEW k, k = <<s, shards[s][i].child>>
  PROVE  /\ MapConnection(s, i) = connection_map_[k]
         /\ connection_map_[k] \in DOMAIN directory.info.topics
         /\ Child(k).topic = NormalizeTopic(directory.info.topics[connection_map_[k]].name)
         /\ connections_[connection_map_[k]].topic = Child(k).topic
         /\ connections_[connection_map_[k]].id = connection_map_[k]
<1>1. k \in Children
  <2>1. shards[s][i].child \in DOMAIN directory.children[s]
    BY ShardFacts DEF InputsInv
  <2>2. QED
    BY <2>1 DEF Children, Shards
<1>2. IsEntry(connection_map_[k], k)
  BY <1>1 DEF MappedOut, MappedInv
<1> DEFINE n == connection_map_[k]
           topics == directory.info.topics
<1>3. n \in DOMAIN topics /\ Child(k).topic = NormalizeTopic(topics[n].name)
  BY <1>2 DEF IsEntry, Lists
<1>4. connections_[n] = EntryOf(n, connections_[n].digest, connections_[n].definition)
  BY <1>3 DEF MappedOut, ShapeInv
<1>5. EntryOf(n, connections_[n].digest, connections_[n].definition).id = n
      /\ EntryOf(n, connections_[n].digest, connections_[n].definition).topic = NormalizeTopic(topics[n].name)
  BY DEF EntryOf
<1>6. QED
  BY <1>3, <1>4, <1>5 DEF MapConnection

\* What the loops keep of the shards is what the filter asks for of the directory.
LEMMA KeepsAsked ==
  ASSUME directory \in Directories, MappedOut, InputsInv,
         NEW s \in Shards, NEW i \in DOMAIN shards[s]
  PROVE  WantedOf(s, i) = IF Keeps(s, i) THEN {Message(s, i)} ELSE {}
<1> DEFINE k == <<s, shards[s][i].child>>
           n == connection_map_[k]
<1>1. /\ MapConnection(s, i) = n
      /\ n \in DOMAIN directory.info.topics
      /\ Child(k).topic = NormalizeTopic(directory.info.topics[n].name)
      /\ connections_[n].topic = Child(k).topic
      /\ connections_[n].id = n
  BY EntryFacts
<1>2. /\ LocalFilter.topics = filter.topics /\ LocalFilter.match = filter.match
      /\ LocalFilter.start = filter.start /\ LocalFilter.stop = filter.stop
      /\ LocalFilter.connection_ids = {}
  BY DEF LocalFilter, InputsInv
<1>3. InTime(shards[s][i].time, LocalFilter) = InTime(shards[s][i].time, filter)
  BY <1>2 DEF InTime
<1>4. \A t \in filter.topics :
        TopicsMatch(t, Child(k).topic, filter.match)
          <=> SameTopic(t, directory.info.topics[n].name, filter.match)
  BY <1>1 DEF InputsInv
<1> HIDE DEF k, n
<1>5. Keeps(s, i) <=>
        /\ filter.topics = {} \/ \E t \in filter.topics : TopicsMatch(t, Child(k).topic, filter.match)
        /\ filter.connection_ids = {} \/ n \in filter.connection_ids
        /\ InTime(shards[s][i].time, filter)
  BY <1>1, <1>2, <1>3 DEF Keeps, Yields, HasTopic, k
<1>6. Message(s, i) = [time |-> shards[s][i].time, source |-> s, index |-> i, connection |-> n]
  BY <1>1 DEF Message
<1>7. QED
  BY <1>4, <1>5, <1>6 DEF WantedOf, k, n

LEMMA WantedFacts ==
  ASSUME directory \in Directories, MappedOut, InputsInv, NEW m
  PROVE  m \in Wanted <=>
           \E s \in Shards : \E i \in DOMAIN shards[s] : Keeps(s, i) /\ m = Message(s, i)
<1>1. DOMAIN shards = Shards
  BY ShardFacts DEF InputsInv
<1>2. m \in Wanted <=> \E s \in Shards : \E i \in DOMAIN shards[s] : m \in WantedOf(s, i)
  BY <1>1 DEF Wanted
<1>3. \A s \in Shards : \A i \in DOMAIN shards[s] :
        m \in WantedOf(s, i) <=> Keeps(s, i) /\ m = Message(s, i)
  BY KeepsAsked
<1>4. QED
  BY ONLY <1>2, <1>3

LEMMA MessageFacts ==
  ASSUME directory \in Directories, MappedOut, InputsInv,
         NEW s \in Shards, NEW i \in DOMAIN shards[s]
  PROVE  /\ Message(s, i) \in Output
         /\ Message(s, i).time = shards[s][i].time
         /\ Message(s, i).source = s
         /\ Message(s, i).index = i
<1>1. i \in Nat /\ shards[s][i].time \in Nat
  BY ShardFacts DEF InputsInv
<1>2. MapConnection(s, i) \in DOMAIN directory.info.topics
  <2> DEFINE k == <<s, shards[s][i].child>>
  <2>1. k = <<s, shards[s][i].child>>
    OBVIOUS
  <2> HIDE DEF k
  <2>2. MapConnection(s, i) = connection_map_[k] /\ connection_map_[k] \in DOMAIN directory.info.topics
    BY <2>1, EntryFacts
  <2> QED BY <2>2
<1>3. QED
  BY <1>1, <1>2 DEF Message, Output

\* A record was handed out exactly when its message was.
LEMMA HandedFacts ==
  ASSUME OutRecords, NEW s, NEW i
  PROVE  Message(s, i) \in Stream!Handed <=> Handed(s, i)
<1>1. Message(s, i).source = s /\ Message(s, i).index = i
  BY DEF Message
<1>2. \A n \in DOMAIN out : out[n] = Message(out[n].source, out[n].index)
  BY DEF OutRecords
<1>3. QED
  BY <1>1, <1>2 DEF Stream!Handed, Handed

-----------------------------------------------------------------------------
Pulled(s) == PullRecord(s) \/ PullEnd(s) \/ PullFault(s)

\* pull() reads the shard up to the next record it keeps, which becomes the head, up to its
\* end, or up to a record that cannot be read.
LEMMA PullFacts ==
  ASSUME directory \in Directories, shards \in Contents(directory), NEW s \in Shards, Pulled(s),
         taken \in [Shards -> Nat], head \in [Shards -> Nat], Ready, head[s] = 0
  PROVE  /\ taken' \in [Shards -> Nat] /\ head' \in [Shards -> Nat]
         /\ \A q \in Shards : q # s => taken'[q] = taken[q] /\ head'[q] = head[q]
         /\ \A j \in DOMAIN shards[s] :
              Keeps(s, j) /\ taken[s] < j /\ j <= taken'[s] =>
                j = head'[s] \/ (status' = "failed" /\ j = taken'[s])
         /\ status' = "failed" \/ taken[s] <= taken'[s] \/ head'[s] = 0
         /\ head'[s] # 0 => /\ head'[s] = taken'[s] /\ head'[s] \in DOMAIN shards[s]
                            /\ taken[s] < head'[s] /\ Keeps(s, head'[s])
                            /\ heap' = heap \cup {[time |-> shards[s][head'[s]].time, source |-> s]}
         /\ head'[s] = 0 => heap' = heap
         /\ head'[s] = 0 /\ status' # "failed" =>
              \A j \in DOMAIN shards[s] : (Keeps(s, j) => j <= taken[s]) /\ j <= taken'[s]
         /\ \/ UNCHANGED <<status, error, failing>>
            \/ status' = "failed" /\ error' = "shard" /\ failing' = s /\ head'[s] = 0
<1>1. /\ Len(shards[s]) \in Nat
      /\ \A i \in DOMAIN shards[s] : i \in Nat \ {0} /\ i <= Len(shards[s]) /\ shards[s][i].time \in Nat
  BY ShardFacts
<1>2. /\ \A i : Skips(s, i) => ~Keeps(s, i)
      /\ \A i : ~Skips(s, i) /\ ~Unreadable(s, i) => Keeps(s, i)
  BY DEF Skips, Keeps
<1>3. CASE PullRecord(s)
  <2>1. PICK i \in DOMAIN shards[s] :
          /\ StopsAt(s, i) /\ ~Unreadable(s, i)
          /\ taken' = [taken EXCEPT ![s] = i]
          /\ head' = [head EXCEPT ![s] = i]
          /\ heap' = heap \cup {[time |-> shards[s][i].time, source |-> s]}
          /\ UNCHANGED <<status, error, failing>>
    BY <1>3 DEF PullRecord
  <2>2. /\ taken'[s] = i /\ head'[s] = i /\ i \in Nat \ {0}
        /\ taken' \in [Shards -> Nat] /\ head' \in [Shards -> Nat]
        /\ \A q \in Shards : q # s => taken'[q] = taken[q] /\ head'[q] = head[q]
    BY <2>1, <1>1
  <2>3. i > taken[s] /\ Keeps(s, i)
        /\ \A j \in DOMAIN shards[s] : taken[s] < j /\ j < i => ~Keeps(s, j)
    BY <2>1, <1>2 DEF StopsAt
  <2>4. QED
    BY <2>1, <2>2, <2>3, <1>1
<1>4. CASE PullEnd(s)
  <2>1. /\ \A i \in DOMAIN shards[s] : i > taken[s] => ~Keeps(s, i)
        /\ taken' = [taken EXCEPT ![s] = Len(shards[s])]
        /\ UNCHANGED <<head, heap, status, error, failing>>
    BY <1>4, <1>2 DEF PullEnd
  <2>2. /\ taken'[s] = Len(shards[s]) /\ taken' \in [Shards -> Nat]
        /\ \A q \in Shards : q # s => taken'[q] = taken[q]
    BY <2>1, <1>1
  <2>3. taken[s] \in Nat
    OBVIOUS
  <2>4. QED
    BY <2>1, <2>2, <2>3, <1>1
<1>5. CASE PullFault(s)
  <2>1. PICK i \in DOMAIN shards[s] :
          /\ StopsAt(s, i)
          /\ taken' = [taken EXCEPT ![s] = i]
          /\ status' = "failed" /\ failing' = s /\ error' = "shard"
          /\ UNCHANGED <<head, heap>>
    BY <1>5 DEF PullFault, Fail
  <2>2. /\ taken'[s] = i /\ i \in Nat \ {0} /\ taken' \in [Shards -> Nat]
        /\ \A q \in Shards : q # s => taken'[q] = taken[q]
    BY <2>1, <1>1
  <2>3. \A j \in DOMAIN shards[s] : taken[s] < j /\ j < i => ~Keeps(s, j)
    BY <2>1, <1>2 DEF StopsAt
  <2>4. QED
    BY <2>1, <2>2, <2>3, <1>1
<1>6. QED
  BY <1>3, <1>4, <1>5 DEF Pulled

\* So a pull() that does not fail keeps the invariants of the shards ...
LEMMA PullInv ==
  ASSUME IInv, OpenInv, Ready, MergeInv, NEW s \in Shards, Pulled(s), status' # "failed", head[s] = 0,
         UNCHANGED <<inputs, out>>,
         \A q \in Shards : q # s => (q <= pulled' <=> q <= pulled),
         pulled' \in Nat, s <= pulled',
         pending \in {0, s}, pending' = 0
  PROVE  (HeapInv /\ \A q \in Shards : HeadInv(q) /\ HandedInv(q) /\ ReadUpInv(q))'
<1>1. /\ directory \in Directories /\ shards \in Contents(directory)
      /\ taken \in [Shards -> Nat] /\ head \in [Shards -> Nat]
  BY DEF IInv, MergeInv, InputsInv, HeapInv
<1>2. /\ taken' \in [Shards -> Nat] /\ head' \in [Shards -> Nat]
      /\ \A q \in Shards : q # s => taken'[q] = taken[q] /\ head'[q] = head[q]
      /\ \A j \in DOMAIN shards[s] :
           Keeps(s, j) /\ taken[s] < j /\ j <= taken'[s] => j = head'[s]
      /\ head'[s] # 0 => /\ head'[s] = taken'[s] /\ head'[s] \in DOMAIN shards[s]
                         /\ taken[s] < head'[s] /\ Keeps(s, head'[s])
                         /\ heap' = heap \cup {[time |-> shards[s][head'[s]].time, source |-> s]}
      /\ head'[s] = 0 => heap' = heap
      /\ head'[s] = 0 =>
           \A j \in DOMAIN shards[s] : (Keeps(s, j) => j <= taken[s]) /\ j <= taken'[s]
  BY <1>1, PullFacts
<1>3. /\ \A q, i : Keeps(q, i)' = Keeps(q, i)
      /\ Shards' = Shards /\ shards' = shards
  BY SameInputs DEF inputs
<1>4. \A q, i : Handed(q, i)' = Handed(q, i)
  BY DEF Handed
<1>5. \A q \in Shards : HeadInv(q) /\ HandedInv(q) /\ ReadUpInv(q)
  BY DEF MergeInv
<1>6. /\ taken[s] \in Nat /\ taken'[s] \in Nat /\ head'[s] \in Nat
      /\ \A i \in DOMAIN shards[s] : i \in Nat \ {0}
  BY <1>1, <1>2, ShardFacts
<1>7. NumShards \in Nat /\ Shards = 1..NumShards
  BY <1>1, ShardFacts
<1>8. ASSUME NEW q \in Shards, q # s PROVE (HeadInv(q) /\ HandedInv(q) /\ ReadUpInv(q))'
  <2>1. taken'[q] = taken[q] /\ head'[q] = head[q] /\ (q <= pulled' <=> q <= pulled)
    BY <1>2, <1>8
  <2>2. q > pulled' => q > pulled
    <3>1. pulled \in Nat /\ q \in Nat
      BY <1>7 DEF MergeInv, CallInv
    <3>2. QED
      BY <3>1, <2>1
  <2>3. HeadInv(q)'
    BY <1>3, <1>5, <2>1, <2>2 DEF HeadInv
  <2>4. HandedInv(q)'
    BY <1>3, <1>4, <1>5, <2>1 DEF HandedInv
  <2>5. ReadUpInv(q)'
    <3>1. pending # q
      BY <1>7, <1>8
    <3>2. QED
      BY <1>3, <1>5, <2>1, <3>1 DEF ReadUpInv
  <2>6. QED
    BY <2>3, <2>4, <2>5
<1>9. HeadInv(s)'
  BY <1>2, <1>3, <1>7 DEF HeadInv
<1>10. HandedInv(s)'
  <2>1. SUFFICES ASSUME NEW i \in DOMAIN shards[s]
                 PROVE  Handed(s, i) <=> Keeps(s, i) /\ i <= taken'[s] /\ i # head'[s]
    BY <1>3, <1>4 DEF HandedInv
  <2>2. Handed(s, i) <=> Keeps(s, i) /\ i <= taken[s]
    BY <1>5, <1>6 DEF HandedInv
  <2>3. CASE head'[s] = 0
    BY <2>2, <2>3, <1>2, <1>6
  <2>4. CASE head'[s] # 0
    BY <2>2, <2>4, <1>2, <1>6
  <2>5. QED
    BY <2>3, <2>4
<1>11. ReadUpInv(s)'
  BY <1>2, <1>3 DEF ReadUpInv
<1>12. HeapInv'
  <2>1. SUFFICES heap' = {[time |-> shards[q][head'[q]].time, source |-> q] : q \in {p \in Shards : head'[p] # 0}}
    BY <1>2, <1>3 DEF HeapInv
  <2>2. heap = {[time |-> shards[q][head[q]].time, source |-> q] : q \in {p \in Shards : head[p] # 0}}
    BY DEF MergeInv, HeapInv
  <2>3. CASE head'[s] = 0
    <3>1. \A q \in Shards : head'[q] = head[q]
      BY <2>3, <1>2
    <3>2. {q \in Shards : head'[q] # 0} = {q \in Shards : head[q] # 0}
      BY <3>1
    <3>3. heap' = heap
      BY <2>3, <1>2
    <3>4. QED
      BY ONLY <2>2, <3>1, <3>2, <3>3
  <2>4. CASE head'[s] # 0
    <3>1. {q \in Shards : head'[q] # 0} = {q \in Shards : head[q] # 0} \cup {s}
      BY <2>4, <1>2
    <3>2. \A q \in Shards : head[q] # 0 => head'[q] = head[q]
      BY <1>2
    <3>3. heap' = heap \cup {[time |-> shards[s][head'[s]].time, source |-> s]}
      BY <2>4, <1>2
    <3>4. QED
      BY ONLY <2>2, <3>1, <3>2, <3>3
  <2>5. QED
    BY <2>3, <2>4
<1>13. QED
  BY <1>3, <1>8, <1>9, <1>10, <1>11, <1>12

\* ... and one that fails has handed out what it kept before.
LEMMA PullFaultInOrder ==
  ASSUME IInv, Ready, MergeInv, NEW s \in Shards, Pulled(s), status' = "failed", head[s] = 0,
         UNCHANGED <<inputs, made, out>>
  PROVE  FaultsInOrder'
<1>1. /\ directory \in Directories /\ shards \in Contents(directory)
      /\ taken \in [Shards -> Nat] /\ head \in [Shards -> Nat]
  BY DEF IInv, MergeInv, InputsInv, HeapInv
<1>2. /\ \A j \in DOMAIN shards[s] :
           Keeps(s, j) /\ taken[s] < j /\ j <= taken'[s] => j = head'[s] \/ j = taken'[s]
      /\ error' = "shard" /\ failing' = s /\ head'[s] = 0
      /\ taken' \in [Shards -> Nat]
  BY <1>1, PullFacts DEF Ready
<1>3. \A q, i : Keeps(q, i)' = Keeps(q, i)
  BY SameInputs
<1>4. shards' = shards
  BY DEF inputs
<1>5. ASSUME NEW i \in DOMAIN shards[s], Keeps(s, i), i < taken'[s] PROVE Handed(s, i)
  <2>1. i \in Nat \ {0} /\ taken[s] \in Nat /\ taken'[s] \in Nat
    BY <1>1, <1>2, ShardFacts
  <2>2. i <= taken[s]
    BY <1>2, <1>5, <2>1
  <2>3. HandedInv(s)
    BY DEF MergeInv
  <2>4. QED
    BY <1>5, <2>1, <2>2, <2>3 DEF HandedInv
<1>6. QED
  BY <1>2, <1>3, <1>4, <1>5 DEF FaultsInOrder, Handed

-----------------------------------------------------------------------------
LEMMA CursorInit == Init => CInv
BY InitInv DEF Init, CInv, OpenInv, OpeningInit, Ready, FaultsInOrder

\* The steps of open() and close(), without a cursor.
LEMMA OpeningInv == CInv /\ Opening => CInv'
<1> SUFFICES ASSUME CInv, Opening PROVE CInv'
  OBVIOUS
<1>1. status = "new" /\ OpeningNext
      /\ UNCHANGED <<shards, faults, filter, made, pulled, merge, status, error, failing, out>>
  BY DEF Opening
<1>2. IInv' /\ OpenInv'
  BY <1>1, OpenedMaps, ReadMetadataInv, MapChildInv, RefuseChildInv, OthersInv DEF CInv, OpeningNext
<1>3. QED
  BY <1>1, <1>2 DEF CInv, merge, Ready, FaultsInOrder

\* The constructor starts on what open() left.
LEMMA StartCursorInv == CInv /\ (StartCursor \/ StartFails) => CInv'
<1>1. CInv /\ StartFails => CInv'
  <2> SUFFICES ASSUME CInv, StartFails PROVE CInv'
    OBVIOUS
  <2>1. status = "new" /\ status' = "failed" /\ UNCHANGED <<opening, failing>> /\ failing = 0
    BY DEF StartFails, CInv
  <2>2. IInv' /\ OpenInv'
    BY <2>1, StutterInv, OpenedMaps DEF CInv
  <2>3. QED
    BY <2>1, <2>2 DEF CInv, Ready, FaultsInOrder
<1>2. CInv /\ StartCursor => CInv'
  <2> SUFFICES ASSUME CInv, StartCursor PROVE CInv'
    OBVIOUS
  <2>1. /\ phase = "open" /\ status = "new" /\ status' = "building"
        /\ shards' \in Contents(directory) /\ filter' \in Filters /\ Legal(filter'.match)
        /\ taken' = [s \in Shards |-> 0] /\ head' = [s \in Shards |-> 0]
        /\ made = 0 /\ pulled = 0 /\ heap = {} /\ pending = 0 /\ out = <<>> /\ failing = 0
        /\ UNCHANGED <<opening, made, pulled, heap, pending, error, failing, out>>
    BY DEF StartCursor, CInv
  <2>2. UNCHANGED <<directory, phase>> /\ directory \in Directories
    BY <2>1 DEF opening, CInv, IInv
  <2>3. IInv' /\ OpenInv'
    BY <2>1, StutterInv, OpenedMaps DEF CInv
  <2>4. InputsInv'
    BY <2>1, <2>2 DEF InputsInv
  <2>5. Shards' = Shards /\ NumShards' = NumShards /\ NumShards \in Nat /\ Shards = 1..NumShards
    BY <2>2 DEF Shards, NumShards
  <2>6. CallInv'
    BY <2>1, <2>5 DEF CallInv
  <2>7. HeapInv' /\ OutRecords'
    BY <2>1, <2>5 DEF HeapInv, OutRecords
  <2>8. ASSUME NEW s \in Shards PROVE (HeadInv(s) /\ HandedInv(s) /\ ReadUpInv(s))'
    <3>1. \A i \in DOMAIN shards'[s] : i \in Nat \ {0}
      <4>1. shards' \in [Shards -> Seq([time : Nat, child : Nat])]
        BY <2>1, <2>2 DEF Shards
      <4>2. shards'[s] \in Seq([time : Nat, child : Nat])
        BY <4>1
      <4>3. QED
        BY ONLY <4>2, ElementsOf
    <3>2. taken'[s] = 0 /\ head'[s] = 0 /\ ~(s <= 0)
      BY <2>1, <2>5
    <3>3. QED
      BY <2>1, <3>1, <3>2 DEF HeadInv, HandedInv, ReadUpInv, Handed
  <2>9. MergeInv'
    BY <2>4, <2>5, <2>6, <2>7, <2>8 DEF MergeInv
  <2>10. QED
    BY <2>1, <2>3, <2>9 DEF CInv, Ready, FaultsInOrder
<1>3. QED
  BY <1>1, <1>2

\* Steps that do not touch the merge keep its invariant.
LEMMA MergeStays ==
  ASSUME IInv, MergeInv, UNCHANGED <<inputs, merge, pulled, out>>, CallInv'
  PROVE  MergeInv'
<1>1. /\ \A q, i : Keeps(q, i)' = Keeps(q, i) /\ Message(q, i)' = Message(q, i)
      /\ Shards' = Shards /\ Output' = Output /\ InputsInv'
  BY SameInputs DEF MergeInv
<1>2. UNCHANGED <<shards, taken, head, heap, pending, pulled, out>>
  BY DEF inputs, merge
<1>3. \A q, i : Handed(q, i)' = Handed(q, i)
  BY <1>2 DEF Handed
<1>4. HeapInv'
  BY <1>1, <1>2 DEF MergeInv, HeapInv
<1>5. OutRecords'
  BY <1>1, <1>2 DEF MergeInv, OutRecords
<1>6. \A s \in Shards : (HeadInv(s) /\ HandedInv(s) /\ ReadUpInv(s))'
  BY <1>1, <1>2, <1>3 DEF MergeInv, HeadInv, HandedInv, ReadUpInv
<1>7. QED
  BY <1>1, <1>4, <1>5, <1>6 DEF MergeInv

LEMMA MakeSourceInv == CInv /\ MakeSource => CInv'
<1> SUFFICES ASSUME CInv, MakeSource PROVE CInv'
  OBVIOUS
<1>1. /\ status = "building" /\ made < NumShards /\ made' = made + 1
      /\ UNCHANGED <<inputs, pulled, merge, status, error, failing, out>>
      /\ IInv /\ OpenInv /\ MergeInv /\ failing = 0
  BY DEF MakeSource, CInv, Ready
<1>2. /\ Shards' = Shards /\ NumShards' = NumShards /\ NumShards \in Nat
      /\ IInv' /\ OpenInv'
  BY <1>1, SameInputs, ShardFacts DEF IInv, MergeInv, InputsInv
<1>3. CallInv'
  <2>1. made' \in 0..NumShards
    BY <1>1, <1>2 DEF MergeInv, CallInv
  <2>2. UNCHANGED <<pulled, pending, head, status, out>>
    BY <1>1 DEF merge
  <2>3. QED
    BY <1>1, <1>2, <2>1, <2>2 DEF MergeInv, CallInv
<1>4. MergeInv'
  BY <1>1, <1>3, MergeStays
<1>5. QED
  BY <1>1, <1>2, <1>4 DEF CInv, Ready, FaultsInOrder

LEMMA MakeSourceFailsInv == CInv /\ MakeSourceFails => CInv'
<1> SUFFICES ASSUME CInv, MakeSourceFails PROVE CInv'
  OBVIOUS
<1>1. /\ status = "building" /\ made < NumShards /\ status' = "failed" /\ failing' = made + 1
      /\ UNCHANGED <<inputs, made, pulled, merge, out>>
      /\ IInv /\ OpenInv /\ MergeInv
  BY DEF MakeSourceFails, Fail, CInv, Ready
<1>2. /\ NumShards' = NumShards /\ NumShards \in Nat /\ Shards = 1..NumShards
      /\ IInv' /\ OpenInv'
  BY <1>1, SameInputs, ShardFacts DEF IInv, MergeInv, InputsInv
<1>3. made \in Nat /\ made # NumShards /\ pulled = 0 /\ made + 1 \in Shards
  BY <1>1, <1>2 DEF MergeInv, CallInv
<1>4. taken'[failing'] = 0 /\ \A i \in DOMAIN shards[made + 1] : i \in Nat \ {0}
  <2>1. taken[made + 1] = 0
    BY <1>1, <1>3 DEF MergeInv, HeadInv
  <2>2. QED
    BY <1>1, <1>3, <2>1, ShardFacts DEF IInv, MergeInv, InputsInv, merge
<1>5. FaultsInOrder'
  BY <1>1, <1>2, <1>3, <1>4 DEF FaultsInOrder, inputs
<1>6. QED
  BY <1>1, <1>2, <1>5 DEF CInv, Ready

LEMMA PullFirstInv == CInv /\ PullFirst => CInv'
<1> SUFFICES ASSUME CInv, PullFirst PROVE CInv'
  OBVIOUS
<1>1. /\ status = "building" /\ made = NumShards /\ pulled < NumShards /\ Pulled(pulled + 1)
      /\ pulled' = pulled + 1
      /\ UNCHANGED <<inputs, made, pending, out>>
      /\ IInv /\ OpenInv /\ MergeInv /\ failing = 0
  BY DEF PullFirst, Pulled, CInv, Ready
<1>2. /\ NumShards' = NumShards /\ NumShards \in Nat /\ Shards = 1..NumShards /\ Shards' = Shards
      /\ IInv' /\ OpenInv' /\ InputsInv'
      /\ \A s, i : Message(s, i)' = Message(s, i)
      /\ Output' = Output
  BY <1>1, SameInputs, ShardFacts DEF IInv, MergeInv, InputsInv
<1>3. PICK s \in Shards : s = pulled + 1
  BY <1>1, <1>2 DEF MergeInv, CallInv
<1>4. Pulled(s) /\ Ready /\ taken[s] = 0 /\ head[s] = 0 /\ pending = 0 /\ out = <<>>
  <2>0. pulled \in Nat
    BY <1>1, <1>2 DEF MergeInv, CallInv
  <2>1. s > pulled
    BY <1>3, <2>0
  <2>2. QED
    BY <1>1, <1>3, <2>1 DEF MergeInv, CallInv, HeadInv, Ready
<1>5. \/ UNCHANGED <<status, error, failing>>
      \/ status' = "failed"
  BY <1>1, <1>4, PullFacts DEF IInv, MergeInv, InputsInv, HeapInv
<1>6. CASE status' = "failed"
  BY <1>1, <1>2, <1>4, <1>6, PullFaultInOrder DEF CInv, Ready
<1>7. CASE status' # "failed"
  <2>1. UNCHANGED <<status, error, failing>>
    BY <1>5, <1>7
  <2>2. \A q \in Shards : q # s => (q <= pulled' <=> q <= pulled)
    BY <1>1, <1>2, <1>3 DEF MergeInv, CallInv
  <2>3. pulled' \in Nat /\ s <= pulled' /\ pulled' \in 0..NumShards
    BY <1>1, <1>2, <1>3
  <2>4. (HeapInv /\ \A q \in Shards : HeadInv(q) /\ HandedInv(q) /\ ReadUpInv(q))'
    BY <1>1, <1>4, <1>7, <2>2, <2>3, PullInv
  <2>5. CallInv'
    BY <1>1, <1>2, <1>4, <2>1, <2>3 DEF MergeInv, CallInv
  <2>6. OutRecords'
    BY <1>1, <1>2, <1>4 DEF OutRecords
  <2>7. MergeInv'
    BY <1>2, <2>4, <2>5, <2>6 DEF MergeInv
  <2>8. QED
    BY <1>1, <1>2, <2>1, <2>7 DEF CInv, Ready, FaultsInOrder
<1>8. QED
  BY <1>6, <1>7

LEMMA BuiltInv == CInv /\ Built => CInv'
<1> SUFFICES ASSUME CInv, Built PROVE CInv'
  OBVIOUS
<1>1. /\ status = "building" /\ pulled = NumShards /\ status' = "open"
      /\ UNCHANGED <<inputs, made, pulled, merge, error, failing, out>>
      /\ IInv /\ OpenInv /\ MergeInv /\ failing = 0
  BY DEF Built, CInv, Ready
<1>2. /\ Shards' = Shards /\ NumShards' = NumShards /\ IInv' /\ OpenInv'
  BY <1>1, SameInputs
<1>3. CallInv'
  BY <1>1, <1>2 DEF MergeInv, CallInv, merge
<1>4. MergeInv'
  BY <1>1, <1>3, MergeStays
<1>5. QED
  BY <1>1, <1>2, <1>4 DEF CInv, Ready, FaultsInOrder

LEMMA RefillInv == CInv /\ Refill => CInv'
<1> SUFFICES ASSUME CInv, Refill PROVE CInv'
  OBVIOUS
<1>1. /\ status = "open" /\ pending # 0 /\ Pulled(pending)
      /\ \/ pending' = 0 /\ UNCHANGED <<status, error, failing>>
         \/ status' = "failed"
      /\ UNCHANGED <<inputs, made, pulled, out>>
      /\ IInv /\ OpenInv /\ MergeInv /\ failing = 0
  BY DEF Refill, Pulled, PullRecord, PullEnd, PullFault, Fail, CInv, Ready
<1>2. /\ NumShards' = NumShards /\ NumShards \in Nat /\ Shards = 1..NumShards /\ Shards' = Shards
      /\ IInv' /\ OpenInv' /\ InputsInv'
      /\ \A s, i : Message(s, i)' = Message(s, i)
      /\ Output' = Output
  BY <1>1, SameInputs, ShardFacts DEF IInv, MergeInv, InputsInv
<1>3. PICK s \in Shards : s = pending
  BY <1>1 DEF MergeInv, CallInv
<1>4. Pulled(s) /\ Ready /\ head[s] = 0 /\ pulled = NumShards
  BY <1>1, <1>3 DEF MergeInv, CallInv, Ready
<1>5. CASE status' = "failed"
  BY <1>1, <1>2, <1>4, <1>5, PullFaultInOrder DEF CInv, Ready
<1>6. CASE status' # "failed"
  <2>1. pending' = 0 /\ UNCHANGED <<status, error, failing>>
    BY <1>1, <1>6
  <2>2. pulled' \in Nat /\ s <= pulled' /\ pulled' = pulled
    BY <1>1, <1>2, <1>4
  <2>3. (HeapInv /\ \A q \in Shards : HeadInv(q) /\ HandedInv(q) /\ ReadUpInv(q))'
    BY <1>1, <1>3, <1>4, <1>6, <2>1, <2>2, PullInv
  <2>4. CallInv'
    BY <1>1, <1>2, <2>1 DEF MergeInv, CallInv
  <2>5. OutRecords'
    <3>1. shards' = shards
      BY <1>1 DEF inputs
    <3>2. QED
      BY <1>1, <1>2, <3>1 DEF MergeInv, OutRecords
  <2>6. MergeInv'
    BY <1>2, <2>3, <2>4, <2>5 DEF MergeInv
  <2>7. QED
    BY <1>1, <1>2, <2>1, <2>6 DEF CInv, Ready, FaultsInOrder
<1>7. QED
  BY <1>5, <1>6

-----------------------------------------------------------------------------
\* The top of the heap precedes all that is kept and not handed out: what other shards have
\* left is behind their heads, and the heads are in the heap.
LEMMA TopFirst ==
  ASSUME IInv, MergeInv, status = "open", pending = 0, NEW item \in heap, IsTop(item),
         NEW s, s = item.source, NEW h, h = head[s]
  PROVE  /\ s \in Shards /\ h \in DOMAIN shards[s] /\ h # 0 /\ h = taken[s]
         /\ item = [time |-> shards[s][h].time, source |-> s]
         /\ Keeps(s, h) /\ ~Handed(s, h)
         /\ \A q \in Shards : \A i \in DOMAIN shards[q] :
              Keeps(q, i) /\ ~Handed(q, i) =>
                (q = s /\ i = h) \/ Stream!Precedes(Message(s, h), Message(q, i))
<1>0. /\ directory \in Directories /\ InputsInv /\ shards \in Contents(directory)
      /\ pulled = NumShards
  BY DEF IInv, MergeInv, InputsInv, CallInv
<1>1. /\ s \in Shards /\ h # 0 /\ item = [time |-> shards[s][h].time, source |-> s]
      /\ \A q \in Shards : head[q] # 0 => [time |-> shards[q][head[q]].time, source |-> q] \in heap
  BY DEF MergeInv, HeapInv
<1>2. h = taken[s] /\ h \in DOMAIN shards[s] /\ Keeps(s, h)
  BY <1>1 DEF MergeInv, HeadInv
<1>3. ~Handed(s, h)
  BY <1>1, <1>2 DEF MergeInv, HandedInv
<1>4. /\ Shards = 1..NumShards /\ NumShards \in Nat
      /\ \A q \in Shards : Sorted(shards[q])
      /\ \A q \in Shards : \A i \in DOMAIN shards[q] : i \in Nat \ {0} /\ shards[q][i].time \in Nat
  BY <1>0, ShardFacts
<1>5. \A q \in Shards : taken[q] \in Nat /\ head[q] \in Nat
  BY DEF MergeInv, HeapInv
<1>6. ASSUME NEW q \in Shards, NEW i \in DOMAIN shards[q], Keeps(q, i), ~Handed(q, i), ~(q = s /\ i = h)
      PROVE  Stream!Precedes(Message(s, h), Message(q, i))
  <2>1. /\ Message(s, h).time = shards[s][h].time /\ Message(s, h).source = s /\ Message(s, h).index = h
        /\ Message(q, i).time = shards[q][i].time /\ Message(q, i).source = q /\ Message(q, i).index = i
    BY DEF Message
  <2>2. i > taken[q] \/ i = head[q]
    BY <1>4, <1>5, <1>6 DEF MergeInv, HandedInv
  <2>3. CASE q = s
    <3>1. h < i
      BY <1>2, <1>4, <1>5, <1>6, <2>2, <2>3
    <3>2. shards[s][h].time <= shards[s][i].time
      BY <1>1, <1>2, <1>4, <2>3, <3>1 DEF Sorted
    <3>3. QED
      BY <1>1, <1>2, <1>4, <2>1, <2>3, <3>1, <3>2 DEF Stream!Precedes
  <2>4. CASE q # s
    <3>1. head[q] # 0
      <4>1. SUFFICES ASSUME head[q] = 0 PROVE FALSE
        OBVIOUS
      <4>2. pending # q /\ q <= pulled
        BY <1>0, <1>4
      <4>3. i <= taken[q]
        BY <1>6, <4>1, <4>2 DEF MergeInv, ReadUpInv
      <4>4. QED
        BY <1>4, <1>5, <2>2, <4>1, <4>3
    <3>2. head[q] = taken[q] /\ head[q] \in DOMAIN shards[q]
      BY <3>1 DEF MergeInv, HeadInv
    <3>3. shards[q][head[q]].time <= shards[q][i].time
      <4>1. CASE i = head[q]
        BY <4>1, <1>4
      <4>2. CASE i > head[q]
        BY <4>2, <3>2, <1>4 DEF Sorted
      <4>3. QED
        BY <4>1, <4>2, <2>2, <3>2
    <3>4. Before(item, [time |-> shards[q][head[q]].time, source |-> q])
      <4>1. [time |-> shards[q][head[q]].time, source |-> q] \in heap
        BY <1>1, <3>1
      <4>2. [time |-> shards[q][head[q]].time, source |-> q] # item
        BY <2>4
      <4>3. QED
        BY <4>1, <4>2 DEF IsTop
    <3>5. \/ shards[s][h].time < shards[q][head[q]].time
          \/ shards[s][h].time = shards[q][head[q]].time /\ s < q
      <4>1. item.time = shards[s][h].time /\ item.source = s
        BY <1>1
      <4>2. QED
        BY <3>4, <4>1 DEF Before
    <3>6. \/ shards[s][h].time < shards[q][i].time
          \/ shards[s][h].time = shards[q][i].time /\ s < q
      <4>1. shards[s][h].time \in Nat /\ shards[q][head[q]].time \in Nat /\ shards[q][i].time \in Nat
        BY <1>1, <1>2, <1>4, <3>2
      <4>2. QED
        BY ONLY <3>3, <3>5, <4>1
    <3>7. QED
      BY <2>1, <3>6 DEF Stream!Precedes
  <2>5. QED
    BY <2>3, <2>4
<1>7. QED
  BY <1>1, <1>2, <1>3, <1>6

LEMMA PopInv == CInv /\ Pop => CInv'
<1> SUFFICES ASSUME CInv, Pop PROVE CInv'
  OBVIOUS
<1>0. PICK item \in heap :
        /\ IsTop(item)
        /\ heap' = heap \ {item}
        /\ head' = [head EXCEPT ![item.source] = 0]
        /\ out' = Append(out, Message(item.source, head[item.source]))
        /\ pending' = item.source
  BY DEF Pop
<1> DEFINE s == item.source
           h == head[s]
<1>1. /\ status = "open" /\ pending = 0
      /\ UNCHANGED <<inputs, made, pulled, taken, status, error, failing>>
      /\ IInv /\ OpenInv /\ MergeInv /\ failing = 0
  BY DEF Pop, CInv, Ready
<1>2. /\ s \in Shards /\ h \in DOMAIN shards[s] /\ h # 0 /\ h = taken[s]
      /\ item = [time |-> shards[s][h].time, source |-> s]
      /\ Keeps(s, h)
  BY <1>0, <1>1, TopFirst
<1> HIDE DEF s, h
<1>3. /\ heap' = heap \ {item} /\ head' = [head EXCEPT ![s] = 0] /\ pending' = s
      /\ out' = Append(out, Message(s, h)) /\ head[s] = h
  BY <1>0 DEF s, h
<1>4. /\ NumShards' = NumShards /\ NumShards \in Nat /\ Shards = 1..NumShards /\ Shards' = Shards
      /\ shards' = shards
      /\ IInv' /\ OpenInv' /\ InputsInv'
      /\ \A q, i : Message(q, i)' = Message(q, i) /\ Keeps(q, i)' = Keeps(q, i)
      /\ Output' = Output
  BY <1>1, SameInputs, ShardFacts DEF IInv, MergeInv, InputsInv, inputs
<1>5. /\ head \in [Shards -> Nat] /\ head' \in [Shards -> Nat] /\ head'[s] = 0
      /\ \A q \in Shards : q # s => head'[q] = head[q]
      /\ taken' = taken /\ taken \in [Shards -> Nat]
  BY <1>1, <1>2, <1>3 DEF MergeInv, HeapInv
<1>6. Message(s, h) \in Output /\ Message(s, h).source = s /\ Message(s, h).index = h
  BY <1>1, <1>2, MessageFacts DEF IInv, OpenInv, MergeInv, InputsInv
<1>7. /\ out \in Seq(Output) /\ out' \in Seq(Output) /\ Len(out) \in Nat
      /\ DOMAIN out = 1..Len(out) /\ DOMAIN out' = 1..Len(out) + 1
      /\ \A n \in DOMAIN out : out'[n] = out[n]
      /\ out'[Len(out) + 1] = Message(s, h)
  <2>1. out \in Seq(Output)
    BY <1>1 DEF MergeInv, OutRecords
  <2>2. QED
    BY <1>3, <1>6, <2>1, AppendProperties
<1>8. \A q, i : Handed(q, i)' <=> Handed(q, i) \/ (q = s /\ i = h)
  <2>1. SUFFICES ASSUME NEW q, NEW i PROVE Handed(q, i)' <=> Handed(q, i) \/ (q = s /\ i = h)
    OBVIOUS
  <2>2. Handed(q, i)' <=> \E n \in 1..Len(out) + 1 : out'[n].source = q /\ out'[n].index = i
    BY <1>7 DEF Handed
  <2>3. Handed(q, i) <=> \E n \in 1..Len(out) : out'[n].source = q /\ out'[n].index = i
    BY <1>7 DEF Handed
  <2>4. \A n : n \in 1..Len(out) + 1 <=> n \in 1..Len(out) \/ n = Len(out) + 1
    BY <1>7
  <2>5. QED
    BY <2>2, <2>3, <2>4, <1>6, <1>7
<1>9. HeapInv'
  <2>1. heap = {[time |-> shards[q][head[q]].time, source |-> q] : q \in {p \in Shards : head[p] # 0}}
    BY <1>1 DEF MergeInv, HeapInv
  <2>2. {p \in Shards : head'[p] # 0} = {p \in Shards : head[p] # 0} \ {s}
    BY <1>5
  <2>3. heap \ {item}
          = {[time |-> shards[q][head[q]].time, source |-> q] : q \in {p \in Shards : head[p] # 0} \ {s}}
    BY <1>2, <1>3, <2>1
  <2>4. heap' = {[time |-> shards[q][head'[q]].time, source |-> q] : q \in {p \in Shards : head'[p] # 0}}
    BY <1>3, <1>5, <2>2, <2>3
  <2>5. QED
    BY <1>4, <1>5, <2>4 DEF HeapInv
<1>10. CallInv'
  BY <1>1, <1>2, <1>3, <1>4, <1>5 DEF MergeInv, CallInv
<1>11. ASSUME NEW q \in Shards PROVE (HeadInv(q) /\ HandedInv(q) /\ ReadUpInv(q))'
  <2>1. HeadInv(q)'
    BY <1>1, <1>4, <1>5 DEF MergeInv, HeadInv
  <2>2. HandedInv(q)'
    <3>1. SUFFICES ASSUME NEW i \in DOMAIN shards[q]
                   PROVE  Handed(q, i)' <=> Keeps(q, i) /\ i <= taken[q] /\ i # head'[q]
      BY <1>4, <1>5 DEF HandedInv
    <3>2. Handed(q, i) <=> Keeps(q, i) /\ i <= taken[q] /\ i # head[q]
      BY <1>1 DEF MergeInv, HandedInv
    <3>3. i \in Nat \ {0} /\ taken[q] \in Nat
      BY <1>1, <1>5, ShardFacts DEF IInv, MergeInv, InputsInv
    <3>4. CASE q = s
      BY <3>2, <3>3, <3>4, <1>2, <1>3, <1>5, <1>8
    <3>5. CASE q # s
      BY <3>2, <3>5, <1>5, <1>8
    <3>6. QED
      BY <3>4, <3>5
  <2>3. ReadUpInv(q)'
    <3>1. pending # q
      BY <1>1, <1>4
    <3>2. UNCHANGED pulled
      BY <1>1
    <3>3. QED
      BY <3>1, <3>2, <1>1, <1>3, <1>4, <1>5 DEF MergeInv, ReadUpInv
  <2>4. QED
    BY <2>1, <2>2, <2>3
<1>12. OutRecords'
  <2>1. ASSUME NEW n \in DOMAIN out'
        PROVE  /\ out'[n].index \in DOMAIN shards[out'[n].source]
               /\ out'[n] = Message(out'[n].source, out'[n].index)
    <3>1. CASE n \in DOMAIN out
      BY <3>1, <1>1, <1>7 DEF MergeInv, OutRecords
    <3>2. CASE n = Len(out) + 1
      BY <3>2, <1>2, <1>6, <1>7
    <3>3. QED
      BY <3>1, <3>2, <1>7
  <2>2. QED
    BY <2>1, <1>4, <1>7 DEF OutRecords
<1>13. MergeInv'
  BY <1>4, <1>9, <1>10, <1>11, <1>12 DEF MergeInv
<1>14. QED
  BY <1>1, <1>4, <1>13 DEF CInv, Ready, FaultsInOrder

\* A payload that cannot be decompressed is met when all before it was handed out.
LEMMA PopFaultInv == CInv /\ PopFault => CInv'
<1> SUFFICES ASSUME CInv, PopFault PROVE CInv'
  OBVIOUS
<1>0. PICK item \in heap : IsTop(item) /\ failing' = item.source /\ status' = "failed"
  BY DEF PopFault, Fail
<1> DEFINE s == item.source
           h == head[s]
<1>1. /\ status = "open" /\ pending = 0 /\ failing' = s
      /\ UNCHANGED <<inputs, made, taken, out>>
      /\ IInv /\ OpenInv /\ MergeInv
  BY <1>0 DEF PopFault, CInv, Ready
<1>2. /\ s \in Shards /\ h \in DOMAIN shards[s] /\ h = taken[s]
      /\ \A q \in Shards : \A i \in DOMAIN shards[q] :
           Keeps(q, i) /\ ~Handed(q, i) =>
             (q = s /\ i = h) \/ Stream!Precedes(Message(s, h), Message(q, i))
  BY <1>0, <1>1, TopFirst
<1> HIDE DEF s, h
<1>3. /\ shards' = shards /\ Wanted' = Wanted /\ taken' = taken /\ out' = out
      /\ \A q, i : Message(q, i)' = Message(q, i) /\ Keeps(q, i)' = Keeps(q, i)
      /\ IInv' /\ OpenInv'
      /\ directory \in Directories /\ MappedOut /\ InputsInv /\ OutRecords
  BY <1>1, SameInputs DEF IInv, OpenInv, MergeInv, InputsInv, inputs
<1>4. ASSUME NEW i \in DOMAIN shards[s], Keeps(s, i), i < taken[s] PROVE Handed(s, i)
  <2>1. i \in Nat /\ taken[s] \in Nat /\ head[s] = taken[s]
    BY <1>1, <1>2, <1>3, ShardFacts DEF MergeInv, HeapInv, InputsInv, h
  <2>2. QED
    BY <1>1, <1>2, <1>4, <2>1 DEF MergeInv, HandedInv
<1>5. ASSUME NEW m \in Wanted, Stream!Precedes(m, Message(s, h)) PROVE m \in Stream!Handed
  <2>1. PICK q \in Shards : \E i \in DOMAIN shards[q] : Keeps(q, i) /\ m = Message(q, i)
    BY <1>3, WantedFacts
  <2>2. PICK i \in DOMAIN shards[q] : Keeps(q, i) /\ m = Message(q, i)
    BY <2>1
  <2>3. /\ Message(s, h).time \in Nat /\ m.time \in Nat /\ m.index \in Nat /\ h \in Nat
        /\ Message(s, h).source \in Nat /\ m.source \in Nat /\ Message(s, h).index = h
    <3>1. Message(s, h) \in Output /\ Message(q, i) \in Output /\ Message(s, h).index = h
      BY <1>2, <1>3, MessageFacts
    <3>2. Shards = 1..NumShards /\ NumShards \in Nat
      BY <1>3, ShardFacts DEF InputsInv
    <3>3. QED
      BY <2>2, <3>1, <3>2 DEF Output
  <2>4. ~(q = s /\ i = h) /\ ~Stream!Precedes(Message(s, h), m)
    BY <1>5, <2>2, <2>3 DEF Stream!Precedes
  <2>5. Handed(q, i)
    BY <1>2, <2>2, <2>4
  <2>6. QED
    BY <1>3, <2>2, <2>5, HandedFacts
<1>6. FaultsInOrder'
  <2>1. Stream!Handed' = Stream!Handed
    BY <1>3 DEF Stream!Handed
  <2>2. \A i \in DOMAIN shards'[s] : Keeps(s, i)' /\ i < taken'[s] =>
          \E n \in DOMAIN out' : out'[n].source = s /\ out'[n].index = i
    BY <1>3, <1>4 DEF Handed
  <2>3. \A m \in Wanted' : Stream!Precedes(m, Message(s, h)) => m \in Stream!Handed'
    BY <1>3, <1>5, <2>1
  <2>4. Message(failing, taken[failing])' = Message(s, h)
    <3>1. UNCHANGED connection_map_
      BY <1>1 DEF inputs, opening
    <3>2. failing' = s /\ taken'[s] = h
      BY <1>1, <1>2, <1>3
    <3>3. QED
      BY <1>3, <3>1, <3>2 DEF Message, MapConnection
  <2>5. \A a, b : Stream!Precedes(a, b)' = Stream!Precedes(a, b)
    BY DEF Stream!Precedes
  <2>6. QED
    BY <1>1, <2>2, <2>3, <2>4, <2>5 DEF FaultsInOrder
<1>7. QED
  BY <1>0, <1>3, <1>6 DEF CInv, Ready

LEMMA EndOfStreamInv == CInv /\ EndOfStream => CInv'
<1> SUFFICES ASSUME CInv, EndOfStream PROVE CInv'
  OBVIOUS
<1>1. status = "open" /\ status' = "ended" /\ UNCHANGED <<inputs, failing>> /\ IInv /\ OpenInv /\ failing = 0
  BY DEF EndOfStream, CInv
<1>2. IInv' /\ OpenInv'
  BY <1>1, SameInputs
<1>3. QED
  BY <1>1, <1>2 DEF CInv, Ready, FaultsInOrder

LEMMA CursorStutterInv == CInv /\ UNCHANGED vars => CInv'
<1> SUFFICES ASSUME CInv, UNCHANGED vars PROVE CInv'
  OBVIOUS
<1>1. UNCHANGED <<inputs, made, pulled, merge, status, error, failing, out>>
  BY DEF vars
<1>2. /\ UNCHANGED <<shards, taken, head, heap, pending>>
      /\ IInv' /\ OpenInv' /\ Wanted' = Wanted /\ Shards' = Shards /\ NumShards' = NumShards
      /\ \A q, i : Message(q, i)' = Message(q, i) /\ Keeps(q, i)' = Keeps(q, i)
  BY <1>1, SameInputs DEF CInv, inputs, merge
<1>3. CallInv => CallInv'
  BY <1>1, <1>2 DEF CallInv
<1>4. MergeInv => MergeInv'
  <2>1. MergeInv => CallInv
    BY DEF MergeInv
  <2>2. QED
    BY <1>1, <1>3, <2>1, MergeStays DEF CInv
<1>5. FaultsInOrder'
  <2>1. FaultsInOrder
    BY DEF CInv
  <2>2. Stream!Handed' = Stream!Handed
    BY <1>1 DEF Stream!Handed
  <2>3. \A a, b : Stream!Precedes(a, b)' = Stream!Precedes(a, b)
    BY DEF Stream!Precedes
  <2>4. QED
    BY <1>1, <1>2, <2>1, <2>2, <2>3 DEF FaultsInOrder
<1>6. QED
  BY <1>1, <1>2, <1>4, <1>5 DEF CInv, Ready, merge

\* Every step of open(), close(), the constructor and next() keeps the invariant.
THEOREM CursorInvariance == Spec => []CInv
<1>1. CInv /\ [Next]_vars => CInv'
  BY OpeningInv, StartCursorInv, MakeSourceInv, MakeSourceFailsInv, PullFirstInv, BuiltInv, RefillInv,
     PopInv, PopFaultInv, EndOfStreamInv, CursorStutterInv
     DEF Next, Construct, NextCall, Finished
<1>2. QED
  BY <1>1, CursorInit, PTL DEF Spec

\* A record or payload that cannot be read or decompressed costs nothing that precedes it
\* (sqlite3.cpp:549-570, 593-609).
THEOREM FaultsKeepOrder == Spec => []FaultsInOrder
<1>1. CInv => FaultsInOrder
  BY DEF CInv
<1>2. QED
  BY <1>1, CursorInvariance, PTL

-----------------------------------------------------------------------------
\* The step of next() that hands a message out is Deliver of MessageStream.
LEMMA PopDelivers == CInv /\ Pop => Stream!Deliver
<1> SUFFICES ASSUME CInv, Pop PROVE Stream!Deliver
  OBVIOUS
<1>0. PICK item \in heap :
        IsTop(item) /\ out' = Append(out, Message(item.source, head[item.source]))
  BY DEF Pop
<1> DEFINE s == item.source
           h == head[s]
<1>1. /\ status = "open" /\ status' = "open" /\ pending = 0 /\ UNCHANGED inputs
      /\ IInv /\ MergeInv /\ OpenInv
  BY DEF Pop, CInv, Ready
<1>2. /\ s \in Shards /\ h \in DOMAIN shards[s] /\ Keeps(s, h) /\ ~Handed(s, h)
      /\ \A q \in Shards : \A i \in DOMAIN shards[q] :
           Keeps(q, i) /\ ~Handed(q, i) =>
             (q = s /\ i = h) \/ Stream!Precedes(Message(s, h), Message(q, i))
      /\ out' = Append(out, Message(s, h))
  BY <1>0, <1>1, TopFirst
<1> HIDE DEF s, h
<1>3. directory \in Directories /\ MappedOut /\ InputsInv /\ OutRecords
  BY <1>1 DEF IInv, OpenInv, MergeInv, InputsInv
<1>4. Message(s, h) \in Wanted /\ Message(s, h) \notin Stream!Handed
  BY <1>2, <1>3, WantedFacts, HandedFacts
<1>5. ASSUME NEW n \in Wanted \ Stream!Handed
      PROVE  Message(s, h) = n \/ Stream!Precedes(Message(s, h), n)
  <2>1. PICK q \in Shards : \E i \in DOMAIN shards[q] : Keeps(q, i) /\ n = Message(q, i)
    BY <1>3, WantedFacts
  <2>2. PICK i \in DOMAIN shards[q] : Keeps(q, i) /\ n = Message(q, i)
    BY <2>1
  <2>3. ~Handed(q, i)
    BY <1>3, <2>2, HandedFacts
  <2>4. QED
    BY <1>2, <2>2, <2>3
<1>6. Wanted' = Wanted
  BY <1>1, SameInputs
<1>7. QED
  BY <1>1, <1>2, <1>4, <1>5, <1>6 DEF Stream!Deliver

\* next() returns false only when nothing that was asked for is left.
LEMMA EndOfStreamEnds == CInv /\ EndOfStream => Stream!End
<1> SUFFICES ASSUME CInv, EndOfStream PROVE Stream!End
  OBVIOUS
<1>1. /\ status = "open" /\ status' = "ended" /\ pending = 0 /\ heap = {} /\ UNCHANGED <<inputs, out>>
      /\ IInv /\ MergeInv /\ OpenInv
  BY DEF EndOfStream, CInv, Ready
<1>2. /\ directory \in Directories /\ MappedOut /\ InputsInv /\ OutRecords /\ shards \in Contents(directory)
      /\ pulled = NumShards
  BY <1>1 DEF IInv, OpenInv, MergeInv, InputsInv, CallInv
<1>3. ASSUME NEW m \in Wanted PROVE m \in Stream!Handed
  <2>1. PICK q \in Shards : \E i \in DOMAIN shards[q] : Keeps(q, i) /\ m = Message(q, i)
    BY <1>2, WantedFacts
  <2>2. PICK i \in DOMAIN shards[q] : Keeps(q, i) /\ m = Message(q, i)
    BY <2>1
  <2>3. head[q] = 0
    <3>1. head[q] # 0 => [time |-> shards[q][head[q]].time, source |-> q] \in heap
      BY <1>1 DEF MergeInv, HeapInv
    <3>2. QED
      BY <1>1, <3>1
  <2>4. i \in Nat \ {0} /\ q <= pulled /\ pending # q
    BY <1>1, <1>2, ShardFacts
  <2>5. Handed(q, i)
    BY <1>1, <2>2, <2>3, <2>4 DEF MergeInv, ReadUpInv, HandedInv
  <2>6. QED
    BY <1>2, <2>2, <2>5, HandedFacts
<1>4. Wanted' = Wanted
  BY <1>1, SameInputs
<1>5. QED
  BY <1>1, <1>3, <1>4 DEF Stream!End

\* DirectoryBackend::Cursor implements MessageStream, on the directory's own connections,
\* whatever the files of the directory number theirs (sqlite3.cpp:537-618).
THEOREM Refinement == Spec => MergesStably
<1>1. Init => Stream!Init
  BY DEF Init, Stream!Init
<1>2. CInv /\ [Next]_vars => [Stream!Next]_(Stream!vars)
  <2> SUFFICES ASSUME CInv, [Next]_vars PROVE [Stream!Next]_(Stream!vars)
    OBVIOUS
  <2>1. UNCHANGED inputs => Wanted' = Wanted
    BY SameInputs
  <2>2. CASE Opening
    BY <2>2 DEF Opening, Stream!vars
  <2>3. CASE StartCursor \/ StartFails
    BY <2>3 DEF StartCursor, StartFails, Stream!Next, Stream!Create
  <2>4. CASE MakeSource \/ Built
    BY <2>1, <2>4 DEF MakeSource, Built, Stream!vars
  <2>5. CASE MakeSourceFails
    BY <2>1, <2>5 DEF MakeSourceFails, Fail, Stream!Next, Stream!Fail
  <2>6. CASE PullFirst
    <3>1. /\ status = "building" /\ UNCHANGED <<inputs, out>> /\ status' \in {status, "failed"}
      BY <2>6 DEF PullFirst, PullRecord, PullEnd, PullFault, Fail
    <3>2. QED
      BY <2>1, <3>1 DEF Stream!vars, Stream!Next, Stream!Fail
  <2>7. CASE Refill
    <3>1. /\ status = "open" /\ UNCHANGED <<inputs, out>> /\ status' \in {status, "failed"}
      BY <2>7 DEF Refill, PullRecord, PullEnd, PullFault, Fail
    <3>2. QED
      BY <2>1, <3>1 DEF Stream!vars, Stream!Next, Stream!Fail
  <2>8. CASE Pop
    BY <2>8, PopDelivers DEF Stream!Next
  <2>9. CASE PopFault
    BY <2>1, <2>9 DEF PopFault, Fail, Stream!Next, Stream!Fail
  <2>10. CASE EndOfStream
    BY <2>10, EndOfStreamEnds DEF Stream!Next
  <2>11. CASE UNCHANGED vars
    BY <2>1, <2>11 DEF vars, Stream!vars
  <2>12. QED
    BY <2>2, <2>3, <2>4, <2>5, <2>6, <2>7, <2>8, <2>9, <2>10, <2>11
       DEF Next, Construct, NextCall, Finished
<1>3. QED
  BY <1>1, <1>2, CursorInvariance, PTL DEF Spec, MergesStably, Stream!Spec

-----------------------------------------------------------------------------
(* The files of a directory: DirectoryOpen, for any number of them and any  *)
(* budgets.  open(), close() and the failures between them keep the         *)
(* temporary files within budget, in use or removed, and the directory open *)
(* or empty.                                                                *)

USE FilesAssumption, SizesAssumption

\* While the total stays within max_temporary_bytes the unsigned subtractions
\* of decompress_file() and stream_zstd are exact.
LEMMA ChunkFits ==
  ASSUME TypeOK, temporary_bytes <= MaxTemporaryBytes,
         output_size <= MaxDecompressedFileBytes,
         temporary_bytes + output_size <= MaxTemporaryBytes,
         NEW chunk \in 1..MaxChunk, chunk <= Minus(Limit, output_size)
  PROVE  /\ output_size + chunk <= MaxDecompressedFileBytes
         /\ temporary_bytes + output_size + chunk <= MaxTemporaryBytes
<1>1. temporary_bytes \in Nat /\ output_size \in Nat
  BY DEF TypeOK
<1>2. Minus(MaxTemporaryBytes, temporary_bytes) = MaxTemporaryBytes - temporary_bytes
  BY <1>1 DEF Minus
<1>3. /\ Limit \in Nat /\ output_size <= Limit
      /\ Limit <= MaxDecompressedFileBytes /\ Limit <= MaxTemporaryBytes - temporary_bytes
  BY <1>1, <1>2 DEF Limit, Lesser
<1>4. chunk <= Limit - output_size
  BY <1>3 DEF Minus
<1>5. QED
  BY <1>1, <1>3, <1>4

\* A backend that was never opened has nothing.
LEMMA FilesInitInv == FilesInit => FilesInv
<1> SUFFICES ASSUME FilesInit PROVE FilesInv
  OBVIOUS
<1>1. TypeOK
  <2>1. 0 \in 0..NumFiles /\ 0 \in 0..Modulus - 1 /\ 1 \in 1..NumFiles + 1 /\ 0 \in 0..MaxCalls
    OBVIOUS
  <2>2. QED
    BY ONLY FilesInit, <2>1 DEF FilesInit, TypeOK
<1>2. DiskInv
  BY DEF FilesInit, DiskInv
<1>3. PhaseInv
  BY DEF FilesInit, PhaseInv, Cleared
<1>4. QED
  BY <1>1, <1>2, <1>3 DEF FilesInv

\* Entering close_impl() changes nothing but the place in the program.
LEMMA EnterClosingInv == FilesInv /\ (Call \/ OpenFails) => FilesInv'
BY DEF FilesInv, Call, BeginOpen, CloseFiles, Destroy, OpenFails, Closing, TypeOK, DiskInv, PhaseInv, MayFail,
       children, storage

\* close_impl() closes the children while their files are still there.
LEMMA CloseBackendInv == FilesInv /\ CloseBackend => FilesInv'
BY DEF FilesInv, CloseBackend, TypeOK, DiskInv, PhaseInv, storage

\* close_impl() ends with nothing left and all bytes given back.
LEMMA ClearAllInv == FilesInv /\ ClearAll => FilesInv'
<1> SUFFICES ASSUME FilesInv, ClearAll PROVE FilesInv'
  OBVIOUS
<1>1. /\ pc = "closing" /\ running = {} /\ running' = {} /\ temporary_files' = {}
      /\ disk' = disk \ temporary_files /\ temporary_bytes' = 0 /\ backends' = 0
      /\ connection_map' = {} /\ open_' = FALSE /\ pc' = after
      /\ used' = IF disk \subseteq temporary_files THEN 0 ELSE used
  BY DEF ClearAll
<1>2. TypeOK'
  <2>1. /\ UNCHANGED <<compression_mode, running, files, output_size, after, file, calls>>
        /\ used' \in Nat /\ 0 \in 0..NumFiles /\ 0 \in 0..Modulus - 1
    BY <1>1 DEF ClearAll, FilesInv, TypeOK
  <2>2. disk' \subseteq Files /\ open_' \in BOOLEAN
    BY <1>1 DEF FilesInv, TypeOK
  <2>3. QED
    BY <1>1, <2>1, <2>2 DEF FilesInv, TypeOK
<1>3. disk = temporary_files /\ pc' \in {"idle", "destroyed", "metadata"}
  BY <1>1 DEF FilesInv, DiskInv, TypeOK
<1>4. DiskInv'
  BY <1>1, <1>3 DEF DiskInv
<1>5. PhaseInv'
  BY <1>1, <1>3 DEF PhaseInv, Cleared
<1>6. QED
  BY <1>2, <1>4, <1>5 DEF FilesInv

\* open() starts over with the first file.
LEMMA StartFilesInv == FilesInv /\ StartFiles => FilesInv'
BY DEF FilesInv, StartFiles, TypeOK, DiskInv, PhaseInv, Cleared, Prepared, Running, Files, storage

\* decompress_file() creates a file that is not counted yet.
LEMMA CreateTemporaryInv == FilesInv /\ CreateTemporary => FilesInv'
BY DEF FilesInv, CreateTemporary, TypeOK, DiskInv, PhaseInv, Prepared, Running, Files, children

\* Without file compression the storage file is used as it is.
LEMMA UseFileInv == FilesInv /\ UseFile => FilesInv'
BY DEF FilesInv, UseFile, TypeOK, DiskInv, PhaseInv, Prepared, Running, Files, children, storage

\* stream_zstd writes only what both budgets have room for.
LEMMA WriteChunkInv == FilesInv /\ WriteChunk => FilesInv'
BY ChunkFits DEF FilesInv, WriteChunk, TypeOK, DiskInv, PhaseInv, Prepared, Running, children

\* A file that cannot be finished is removed with the bytes written to it.
LEMMA WriteFailsInv == FilesInv /\ WriteFails => FilesInv'
BY DEF FilesInv, WriteFails, Closing, TypeOK, DiskInv, PhaseInv, Prepared, Running, children

\* The finished file is counted, and the sum does not wrap round.
LEMMA FinishTemporaryInv == FilesInv /\ FinishTemporary => FilesInv'
BY DEF FilesInv, FinishTemporary, TypeOK, DiskInv, PhaseInv, Prepared, Running, Plus, Files, children

\* The child backend runs on a file that is there.
LEMMA OpenBackendInv == FilesInv /\ OpenBackend => FilesInv'
BY DEF FilesInv, OpenBackend, TypeOK, DiskInv, PhaseInv, Prepared, Running, Files, storage

\* When the files are exhausted there is a child for each of them.
LEMMA AllOpenInv == FilesInv /\ AllOpen => FilesInv'
BY DEF FilesInv, AllOpen, TypeOK, DiskInv, PhaseInv, Prepared, Running, Files, children, storage

\* The connections of one more child are mapped.
LEMMA MapConnectionsInv == FilesInv /\ MapConnections => FilesInv'
BY DEF FilesInv, MapConnections, TypeOK, DiskInv, PhaseInv, Prepared, Running, Files, storage

\* open() returns with everything in place.
LEMMA FilesOpenedInv == FilesInv /\ FilesOpened => FilesInv'
BY DEF FilesInv, FilesOpened, TypeOK, DiskInv, PhaseInv, Prepared, Running, Files, children, storage

\* The invariant is about the variables of the specification only.
LEMMA FilesStutterInv == FilesInv /\ UNCHANGED filesVars => FilesInv'
BY DEF FilesInv, filesVars, TypeOK, DiskInv, PhaseInv, Cleared, Prepared, Running, children, storage

\* Every step of open(), close() and the destructor keeps the invariant.
THEOREM FilesInvariance == FilesSpec => []FilesInv
<1>1. FilesInit => FilesInv
  BY FilesInitInv
<1>2. FilesInv /\ [FilesNext]_filesVars => FilesInv'
  BY EnterClosingInv, CloseBackendInv, ClearAllInv, StartFilesInv, CreateTemporaryInv,
     UseFileInv, WriteChunkInv, WriteFailsInv, FinishTemporaryInv, OpenBackendInv, AllOpenInv,
     MapConnectionsInv, FilesOpenedInv, FilesStutterInv
     DEF FilesNext, Step, Destroyed
<1>3. QED
  BY <1>1, <1>2, PTL DEF FilesSpec

\* The state of open() and of its files stays in its types.
THEOREM FilesTypeCorrect == FilesSpec => []TypeOK
<1>1. FilesInv => TypeOK
  BY DEF FilesInv
<1>2. QED
  BY <1>1, FilesInvariance, PTL

\* max_temporary_bytes and max_decompressed_file_bytes bound what is on the
\* disk, at every moment of every attempt.
THEOREM Budget == FilesSpec => []BudgetHeld
<1>1. FilesInv => BudgetHeld
  BY DEF FilesInv, TypeOK, DiskInv, BudgetHeld
<1>2. QED
  BY <1>1, FilesInvariance, PTL

\* temporary_bytes_ counts what the finished files hold, and no unsigned
\* subtraction from max_temporary_bytes wraps round.
THEOREM Accounting == FilesSpec => []BytesAccounted
<1>1. FilesInv => BytesAccounted
  BY DEF FilesInv, DiskInv, BytesAccounted
<1>2. QED
  BY <1>1, FilesInvariance, PTL

\* close_impl() and the failures of open() never remove a file a child backend
\* has open.
THEOREM Backed == FilesSpec => []BackendsBacked
<1>1. FilesInv => BackendsBacked
  BY DEF FilesInv, DiskInv, BackendsBacked
<1>2. QED
  BY <1>1, FilesInvariance, PTL

\* After open(), close() or a failure the directory is complete or empty.
THEOREM AllFilesOrNone == FilesSpec => []AllOrNothing
<1>1. FilesInv => AllOrNothing
  <2>1. SUFFICES ASSUME FilesInv, pc \in {"idle", "destroyed"} PROVE AllOrNothing
    BY DEF AllOrNothing
  <2>2. CASE open_
    <3>1. Prepared(NumFiles + 1) /\ Running(NumFiles + 1) /\ connection_map = Files
      BY <2>1, <2>2 DEF FilesInv, PhaseInv
    <3>2. 1..(NumFiles + 1) - 1 = Files /\ (NumFiles + 1) - 1 = NumFiles
      BY DEF Files
    <3>3. disk = temporary_files
      BY <2>1 DEF FilesInv, DiskInv
    <3>4. QED
      BY <2>2, <3>1, <3>2, <3>3 DEF Prepared, Running, AllOrNothing
  <2>3. CASE ~open_
    BY <2>1, <2>3 DEF FilesInv, PhaseInv, DiskInv, Cleared, AllOrNothing
  <2>4. QED
    BY <2>2, <2>3
<1>2. QED
  BY <1>1, FilesInvariance, PTL
=============================================================================
