# A TLA+ model of rosbags-cpp

rosbags-cpp is a C++17 library that reads robot recordings ("bags"): ROS1 `.bag`
files, ROS2 sqlite3 and MCAP files, and ROS2 directories made of several such
files, each possibly compressed with zstd. It decodes messages and
compiles message definitions to C++ headers. This directory holds
TLA+ modules translated from its source, the TLC configurations that check
them on small instances, and theorems checked by TLAPS.

## 1. Inventory of the system

The library is single-threaded. What is hard in it is not concurrency but
long sequences of calls that may each fail: state that is refilled one call
late, several numberings of the same connections, resource budgets in unsigned
arithmetic, partial failures of `open()`, and caches and cursors that share a
backend.

| Component | Source | State | Operations | Correct when |
|---|---|---|---|---|
| `AnyReader` merge cursor | `src/src/rosbags.cpp:70-151` | sources (cursor, connection map, held message), heap, pending source | constructor, `next`, `pull` | output is the stable merge by (timestamp, input) of what the filter asks for, on the merged numbering; a fault loses nothing before it |
| `Reader`, `AnyReader` shells | `src/src/rosbags.cpp:31-68,162-319` | shared `Impl`, backend, merged connections and metadata | `open`, `close`, `messages`, move, destroy | cursors keep what they read alive; `open` is all or nothing, never mixes ROS1 with ROS2, and describes all inputs; `close` frees everything and may be repeated |
| ROS2 directory, opening | `src/src/sqlite3.cpp:353-535`, `src/src/temporary_file.hpp` | metadata, children, temporary files, `temporary_bytes_`, connection map | `open`, `decompress_file`, `close`, destructor | budgets hold; no child reads a removed file; all or nothing |
| ROS2 directory, metadata and connections | `src/src/sqlite3.cpp:353-535` | `metadata_`, `connections_`, `connection_map_` | `open` | opens exactly if metadata.yaml and the files agree; every connection of a file is mapped to its own; the time window does not wrap |
| ROS2 directory, cursor | `src/src/sqlite3.cpp:537-618` | as the merge cursor | constructor, `next`, `pull` | as the merge cursor, on the directory's connections |
| ROS1 backend | `src/src/rosbag1.cpp:223-522` | connections, chunk infos, chunks, indexes; cursor: heap, cached chunk, stop | `open`, `close`, `load_chunk`, `next` | index budget holds, counts agree with the index; messages come from the chunk their entry names, in order |
| sqlite3 backend | `src/src/sqlite3.cpp:106-350` | database handle, schema, connections, metadata; cursor: statement | `open`, `close`, `next` | the time filter accepts exactly `[start, stop)` in 64 bits, signed and unsigned |
| MCAP backend | `src/src/mcap.cpp` | container facts, connections, spool file | `open`, `close`, `build_sorted_spool`, `next` | the spool stays in budget and is read back in order |
| Decompression | `src/src/sqlite3.cpp:49-104`, `src/src/rosbag1.cpp:140-220` | decoder state, input and output positions | the loops around zstd, lz4, bz2 | they end, stay in the limit, and accept exactly whole streams of the declared size |
| Wire readers | `src/include/rosbags/serialization.hpp`, `emit_reader` of `src/src/codegen.cpp` | position, origin, allocation and depth counts | `read`, `string`, sequences, `finish` | a payload is accepted exactly when it is one encoding of its type; limits hold |
| Type registry, `decode` | `src/src/rosbags.cpp:335-429` | registered supports by profile and type | `register_type`, lookup, `decode` | a payload is read as the type registered last for its profile and name, in the connection's format |
| Built-in profiles | `src/src/profiles.cpp`, `wire_minimum.hpp` | none | generated field lists, table of least sizes | the table is true of the readers |
| Names and times | `src/src/rosbags.cpp:431-497` | none | `normalize_type`, `normalize_topic`, `topics_match`, stamps | conversions agree with each other |
| Definition compiler | `src/src/codegen.cpp` | collected types, visiting set | `parse_msg`, `parse_idl`, `collect`, `emit` | a type is emitted after the types it holds; conflicts and cycles are rejected |
| Command-line tools | `src/tools/` | none | printing | not modelled |

How they interact: an `AnyReader` owns one `Reader::Impl` per path; a
`Reader::Impl` owns one `Backend`; a directory backend owns one child backend
per file (sqlite3 or MCAP). `messages(filter)` makes a `BackendCursor` in the
backend, wrapped in `BackendCursorImpl`, which holds the shared owner, and
`AnyReaderCursorImpl` and `DirectoryBackend::Cursor` merge the cursors below
them. Every layer may throw at every call; an exception gets the
path of the first layer that knows one (`add_context`).

The hazards this leads to are listed in `PROJECT.json`, each at its line and with
the properties that would catch it.

## 2. The modules

A module stands for a component, its actions for the operations of the
component, and the variables keep the names of the members they stand for
(`pending_source_`, `entries_`, `temporary_bytes`, ...). One call of the code is
one action, or, where its steps may fail one by one or where another process
acts in between, several actions under a program counter (`pc`, `status` or
`call`); what is between two of them is then visible to the invariants. The
`map` in `PROJECT.json` gives the lines of every definition.

The proofs are in modules of their own (`...Proofs`), which EXTEND the modules they
are about; where such a module is about two specifications, the second one has names of its own
(`MergeSpec` beside `Spec` in the merge of `AnyReader`, `OpenSpec`, `FilesSpec`,
`CompilerSpec`, `DecodeSpec`).

```
                      MessageStream  (what every cursor promises)
        implemented by  |
   +------------+-------+------+--------------+---------------+
AnyReaderCursor DirectoryCursor SqliteReader  Rosbag1Cursor   McapCursor
                extends                       extends         extends
                DirectoryConnections,         Rosbag1Open     McapOpen,
                Topics                                        Topics

ReaderLifecycle <- AnyReaderOpen      who keeps which backend alive;
                                      what an open reader says of its inputs
DirectoryOpen       files, temporary files and children of a directory
Decompression       the loops around the streaming decoders
Profiles <- WireReader, Topics <- Decode   from a message to a decoded value
Codegen             definitions to header and registry

ReaderProofs (AnyReaderCursor, ReaderLifecycle, AnyReaderOpen), DirectoryProofs,
Rosbag1Proofs, McapProofs, SqliteProofs, ProfilesProofs <- DecodingProofs
(Codegen, Decompression, Decode), with DataLemmas below most of them

(A <- B: B EXTENDS A.)
```

### 2.1 The promise of a cursor: `MessageStream`

The abstract specification. A cursor is created for a set `wanted` of messages,
hands each of them out once in the order (timestamp, input, position in the
input), and then says that there are no more; it may fail at any call. Each of
the five cursor modules defines `MergesStably` as
`MessageStream` with a refinement mapping (`INSTANCE ... WITH`). The mapping
computes `wanted` from the recording and the filter with reference definitions of
its own, not with the operators of the implementation: what the filter means
is stated apart from how it is applied.

### 2.2 The cursors and their backends

* `AnyReaderCursor` - `AnyReaderCursorImpl` and the numbering of connections by
  `AnyReader::open`. `Open` numbers a reader's connections, `Construct` makes the
  local filter and the first head of one input, `NextCall` is `next()` with its
  lazy refill (`pending`). A local cursor is what `MessageStream` says of
  it, with a record at which it throws.
* `DirectoryConnections` - what `DirectoryBackend::open` makes of `metadata.yaml`:
  the checks of version, storage and compression, the window of times, the listed
  topics; then, child by child and connection by connection, the matching of a
  file's connections with the listed ones, and the completion and comparison of
  digests and definitions. `OpensExactly` states when the whole agrees, without
  order, and the steps implement it.
* `DirectoryCursor` - EXTENDS it: the same merge in `DirectoryBackend::Cursor`, on the
  connection map that `open()` built, with what it does differently: shards are asked by topic and time only, ids are filtered
  after the redirection to the directory's connections, payloads are
  decompressed as they are handed out, and errors are given a file.
* `Rosbag1Open`, `Rosbag1Cursor` - `open()` record by record: counts are held
  against the file and the budget before anything is reserved, indexes are filled
  from the `IDXDATA` records and sorted, metadata summed up. `Rosbag1Cursor` EXTENDS it:
  the cursor runs on the index that `open()` left, so contradictions between the parts
  of a bag that `open()` does not notice reach the cursor. A chunk is released, loaded
  and read in three steps.
* `McapOpen`, `McapCursor` - container inspection, the decision between the
  summary's index and a scan, statistics, the spool with its sorted entries; then
  the cursor over the spool or the SDK's view.
* `Topics` - `normalize_topic`, `topics_match` with its three policies and
  `normalize_type`, on names as sequences of parts; used by the two cursors above that
  compare topics with patterns, and by `Decode`.
* `SqliteReader` - `open()`, statement by statement, and the cursor, while
  another process commits to the database. 64-bit times are modelled with
  both their readings, signed in SQLite and unsigned in the filter.
* `DirectoryOpen` - `open`, `decompress_file`, `close_impl`, `close` and the
  destructor, with a failure possible at every call of the system, of zstd or of a
  child, and repeated attempts.
* `ReaderLifecycle` - shells, shared states, readers and cursors as holders of each
  other; move, close and destruction at any moment a caller may do them, and
  the destruction of a cursor member by member.
* `AnyReaderOpen` - EXTENDS it by what `AnyReader::open` computes on the way: the backend
  of each path, the refusal of ROS1 beside ROS2, the connections under new ids and
  the merged metadata, while the files may hold something else at each opening.
* `Decompression` - the three loops with a buffer that may hold back output; the
  decoder is any that keeps the few rules the loops rely on.

### 2.3 From payload to value

* `WireReader` - one payload and the reader for its type: alignment, origin,
  string and sequence lengths, the two budgets (elements and decoded bytes) and
  the nesting depth. A payload is its length and the lengths found at the positions
  where the code reads one; all other bytes are abstracted.
* `Profiles` - the readers of all 98 built-in types, and the table of least sizes
  (`CountsCovered`: a count that the table turns down could not have been read).
* `Decode` - EXTENDS them: the application registers supports, then decodes;
  the policies for unknown types, the choice of the format, legacy supports that
  take no limits.

### 2.4 `Codegen`

`collect()` and the two files of `generate()`: definitions in any order, repeated
or contradicting, fields that hold each other by value or in sequences,
built-in packages. A definition is its canonical name and its fields.

## 3. What the runs check

| Run | Instance | Question |
|---|---|---|
| `any_reader_merge` | 3 inputs with 2, 1, 1 connections, two times, one record or cursor that fails | stable merge on the merged numbering; a fault costs nothing before it; the caller's loop ends |
| `directory_merge` | 2 shards, 3 topics, shard and directory numbering disagree; besides about 170 directories that differ from it in one field, or have one topic in three files with every combination of digests or of definitions; times 0..7 | opens exactly if all agree, also after another directory; the window of times; stable merge; faults of records and payloads come in their place |
| `directory_errors` | the same | violated: see section 6 |
| `directory_open` | 3 files, budgets below two full files, 3 calls | budgets, accounting, no child on a removed file, all or nothing |
| `rosbag1_reader` | bags of 2 chunks whose announcements and contents are chosen apart; 3 messages in 2 chunks in every way, one fault | charges exact and in budget, metadata true, at most one chunk resident and the one its entry names, stable merge |
| `reader_lifecycle` | two AnyReaders (one of 2 inputs: a directory, and an MCAP file or a ROS1 bag), one Reader, 2 cursors, 3 opens, files that change between them, windows that end before they start | cursors are served, nothing leaks, an open reader describes what it has open |
| `mcap_reader` | up to 4 messages in and outside of chunks, every kind of poor or false summary, budgets met to the byte, 8 filters | budgets, metadata, all or nothing, stable merge through index or spool |
| `sqlite_reader` | every schema version, 3 rows, a concurrent commit at any step | the time filter at the signed border, one snapshot, counts that agree |
| `decompression` | inputs of up to two frames cut at every byte, buffers of two bytes | accepts exactly whole inputs, limit exact, ends |
| `decode` | 3 wire limits at their borders, every length of payload, all 98 built-in and a dozen generated types, both formats | accepted exactly if one encoding; storage in budget; the right type; the table of least sizes is true |
| `codegen` | up to 3 files over 5 types in every order | header sound, refusals exact, files in step |
| `codegen_names` | a type of a built-in package that is not built in | violated: see section 6 |

Every property of a passing run has a mutant: a plausible slip in the code (a
dropped guard, an off-by-one, a missing reset) under which the same
run finds the property violated.

Reading the names: *Exactly* means both directions, nothing is accepted
that should not be and nothing refused that should be accepted. `AllOrNothing`
is about what is left between calls. Invariants over a history variable (`out`)
relate what was handed out to the recording.

### Bounds

Every bound is a constant with its comment in the module. They are
chosen at the point where the interesting cases exist:

* Two times suffice for ties and order; three inputs for a tie across an input that
  is passed over; two messages in an input for the lazy refill, as one is
  in the heap while one is pending.
* Widths: `Modulus` is 8 or 16 instead of 2^64. What matters is that budgets lie near
  the top, so that a wrapping subtraction or a carry would be seen; the unsigned
  operations are written with it, checked for one and proved for every modulus. In `Decode` a word is 1024, so that a count times an element
  size overflows it, and `MaxDepth` is 5: the sequences of built-in types reach it and are
  read, a type that holds sequences of itself goes past it while it is within the limits on
  bytes.
* Budgets are a few units, with inputs one below, at and one above each.
* `MaxCalls`, `MaxOpens`, `MaxWrites` bound repetition: two attempts show what the first one leaves
  behind, since a failed or closed attempt returns to the initial state
  (`AllOrNothing`); a third opening makes a cursor that outlives two
  openings possible.
* `Decode` decodes one message for each application; readers keep no state between
  messages but the origin and limits `Begin` sets.

### Fairness

Only two modules have a fairness condition. In `AnyReaderCursor` it is weak fairness of
the calls: the library is single-threaded, a call returns or throws, and the
caller drains the cursor as `read_raw` and `read_decoded` do. In
`Decompression` it is weak fairness of the steps of a loop that runs inside one
call; the decoder may hold output back as long as it likes as long as it does
something when it has input. No other module claims that something happens; a
caller may always stop. Runs check for deadlock, and states in which nothing is left
to do have an explicit stuttering action (`Done`, `Gone`, `Stopped`).

## 4. What is proved

The proofs are in eight modules, checked by TLAPS, for every value of the constants that
meets the stated assumptions; TLC evaluates the assumptions in the runs. Every safety
property that a passing run checks is the conclusion of a theorem, the five refinements
of `MessageStream` among them. All follow one pattern: the property is seldom inductive,
so a stronger invariant is stated in the module of the proofs as a conjunction of named
parts, and shown to hold initially, to be kept by each action, and to imply the
property.

* `ReaderProofs`, of `AnyReaderCursor`: `MergeTypeCorrect`, `OwnConnection`,
  `LazyFaults`, `Refinement`. The inductive invariant relates the heap to the heads
  (`HeapInv`), each head to what its input has handed over (`HeadInv`), and the output
  to the records before the heads (`HandedInv`, `ReadUpInv`): an input is *read up* to
  its head, everything before it that is wanted was handed out and nothing behind it.
  `MergesStably` alone is not inductive, because it does not say what the one source
  missing from the heap (`pending`) can still yield. The key step shows that the top of
  the heap precedes all that is not handed out, which needs that the pending source is
  read again before the heap is looked at. Of `ReaderLifecycle` and `AnyReaderOpen`:
  `TypeCorrect`, `Served`, `Released`; `Lifecycle`, which shows that a behaviour of
  `AnyReaderOpen` is one of `ReaderLifecycle`, so that both carry over
  (`ServedWhileOpening`, `ReleasedWhenRefused`); and `Describes`. `CursorsServed` is not
  inductive: that an `open()` that fails may close all inputs needs that no cursor
  exists on a state that is not open (`CallInv`), which needs that a cursor not being
  destroyed holds all it was made with (`CursorInv`), and that an AnyReader somebody
  holds is whole (`WholeInv`). `ReleaseKeeps` is the core: whatever is dropped, what a
  cursor still reads it still holds. `Describes` needs that the files may change between
  openings but not under an open backend.
* `DirectoryProofs`, three parts. Of `DirectoryConnections`: `OpensAgreed`
  (`OpensExactly`, for any directory) and `WindowFits`. The loop over the children is
  why an invariant is needed: `MappingInv` says what is true of the connections already
  reached. A digest the entry has is one of theirs, and its definition is that of the
  *first* of them to have one (`DigestInv`, `DefinitionInv`), so that a conflict met at
  a later connection is a conflict of two sources of the directory, and none met means
  that all agree. Of `DirectoryCursor`: `CursorOnlyReads`, `FaultsKeepOrder` and
  `Refinement`, with the invariant of `AnyReaderCursor` on the connection map of the
  first part: `MappedOut` says that every child is mapped to its entry when `open()`
  returns, `KeepsAsked` that what the two filters of `pull()` leave of a shard is what
  was asked for of the directory, `TopFirst` that the top of the heap precedes all that
  is kept and not handed out. Of `DirectoryOpen`: `Budget`, `Accounting`, `Backed`,
  `AllFilesOrNone`; the strengthening says which temporary files exist at each place of
  `open()` and `close_impl()` (`PhaseInv`), and that the bytes on disk are those counted
  (`DiskInv`), from which the unsigned subtractions never wrap.
* `Rosbag1Proofs`: `Charged`, `NothingKept`, `Resident`, `CursorOnlyReads`; then
  `Budgeted` and `Described`, and `Refinement`. `Charged` is the equation that keeps the
  unsigned subtractions from wrapping: what was charged for the index is the size of an
  entry times the messages announced, and that of no more messages than fit the file.
  `Described` needs what the loops over the chunks and the announcements have summed up
  so far, and that sorting an index neither loses an entry nor moves one past an equal
  one. The refinement runs over this index: the heap has the next entry of every
  connection, and an entry still to be handed out is behind the one in the heap.
* `McapProofs`: `IndexBudget`, `SpoolBudget`, `Complete`, `Opening`, `Described`,
  `Reading`, `Refinement`. The strengthening of the budgets bounds `capacity` by the
  number of entries the budget admits and the number of entries by `capacity`: doubling
  stops at the maximum, and a full vector always grows. `Opening` says, from step to
  step of `open()`, what was counted and decided of the records before the one reached;
  the spool has exactly the messages of the scan, sorted, each at the offset where it
  was written. `Reading` says of both cursors what is left to hand out.
* `SqliteProofs`: `Announced` (`MetadataSound`), `EmptyAnswers` (`EmptyIsRight`),
  `Refinement`, while another process commits. `open()` is right about the moment of
  each of its statements; the cursor is a stream over the moment at which its statement
  is stepped first.
* `DecodingProofs`, from definitions to values:
  * `Codegen`: `GeneratesSoundHeaders`, `RefusesUnsoundOnly`, `WritesInStep`. The
    running calls of `visit()` are a chain in which each definition holds the next by
    value and all before that is done (`StackOK`), and what is done is what is in the
    order, behind all that it holds (`OrderedOK`). So a definition that is met while it
    is being visited lies on a cycle, and one that lies on a cycle is never done.
  * `Decompression`: `LimitsExact`, `WholeInputs`, for any decoder that keeps the rules
    named in the module, any buffers and any cut into frames: where in the input the
    decoder is (`PlaceInv`), what the buffer holds (`BufferInv`), and that zstd is
    between two frames exactly when it says that it is at the end of one (`FrameInv`).
  * `Decode`: `DecodesMeantType`. Two names are one key exactly if they normalise to one
    name (`NormalIs`), and the registry has the last support of each key.
  * `WireReader`, under `Decode`: `StorageWithinLimit` ties what was accounted for to
    what was asked for, and shows that neither the product nor the sum of the budget
    wraps. `CountsAreCovered` is about the table of least sizes that the library keeps
    by hand. `ProfilesProofs` adds up, in the 13 lemmas `<Group>TypesMatch`, the fields
    of each built-in type in each format, and its row of the table, for whatever sizes
    the types it holds have; both sums are the same. `TypeSizes` then shows that the
    least sizes exist and that no other table fits their definition, so that the
    hand-kept table is the one that the readers define. `ReadsOnlyExactly` rests on
    `PositionInv` and `InPlace`: the reader stands where the encoding of what it has
    read ends, and a number that fits the payload from there, counted from the end of
    the header, fits it in the arithmetic of `require()`. The rest of the property is
    inductive with it; what its steps need is that the calls still to be made end no
    earlier than their least sizes say (`LayoutEnd`, `ElementsEnd`), which is where the
    table must be true, and that as many messages are open as there are calls left that
    leave one, never more than `MaxDepth`.
* `DataLemmas`: what these proofs share about data.

### Inductions over data

The theorems on induction of the library take an operator and cannot be used here. Where
a proof needs an induction over data it is written as the choice of a minimal
counterexample: strict subsets of a finite set are well founded
(`FS_StrictSubsetOrderingWellFounded`), which gives a least element of a set of
naturals; from it come `Upwards` (what holds at 0 and goes from n to n + 1),
`LoopExists` (a function defined by a recursion over `0..n` is defined), the sums over
finite sets, and `TableExists`: a table defined by what it has at lower ranks exists and
is unique. So the recursive definitions of the models (`LayoutMinimum`, `Height`,
`LeastAfter`, the sums of the indexes) are reasoned about by their defining equations,
which these lemmas justify.

### Assumptions on the constants

They are named in the modules that declare the constants. Most give the types of inputs
(`BagsAssumption`, `FilesAssumption`, `DirectoriesAssumption`, `DatabaseAssumption`,
`DefinitionsAssumption`, `UsesAssumption`, `FieldsAssumption`) and let limits lie below
the modulus (`SizesAssumption`). Those that say more:

* Bags, shards and local cursors are sorted by time: what a local cursor promises,
  proved for each backend by its own refinement.
* `FiltersAssumption` of `DirectoryCursor` and `TopicsAssumption` of `McapCursor`:
  `topics_match()` means what `SameTopic` says, for the names and patterns at hand.
* `StatisticsAssumption` of `McapCursor`: the statistics of a complete summary do not
  deny that there are messages, nor that one is at the last time there is, which `open()`
  refuses. The code believes them (section 6), so a file that lies
  here is read as empty, and the refinement would be wrong of it.
* `StoredAssumption` of `AnyReaderOpen`: a directory is stored as sqlite3 or MCAP, as its
  backend checks. Nothing is assumed of the window an input reports: a ROS1 bag may
  announce, and the statistics of an MCAP summary may have, one that ends before it
  starts, and `AnyReader` gives it the duration 0.
* `FilesAssumption` of `McapOpen`: a chunk index of a summary names a chunk of the file.
* `HeightAssumption` of `WireReader`: no type holds itself by value, as in C++; and
  `WordAssumption`: an array of a built-in type fits a word.
* `InputsAssumption` of `Decompression`: a frame that gives output takes more than one
  byte.

### What the proofs showed of the models

* In `SqliteReader` a snapshot of an empty database could not be told from none having
  been taken, so that the wanted messages could change under the cursor; the snapshot
  now says that it was taken.
* A bound of the sums in `CountsAgree` of ROS1 bags was right only for the instances of
  the run.
* The refinement of `McapCursor` is false of an indexed file whose statistics deny its
  messages, hence `StatisticsAssumption`.
* That the duration an `AnyReader` reports is the difference of its times was right only
  under an assumption that its inputs do not justify; `DescribesInputs` now says what the
  duration of a window is that ends before it starts.
* A generated type with the name that stood for "no type yet" made `Decode` vacuous for
  it.

### Only model-checked

The two liveness properties `Terminates`, of `AnyReaderCursor` and `Decompression`:
liveness under fairness is out of reach of the provers. The two runs that expect a
violation are counterexamples and have no theorem.

## 5. External parts

zstd, LZ4, BZip2, SQLite and the MCAP SDK are not in `src/` as code of the
project. They are modelled from how the code uses them and marked
external in the map: a decoder makes progress or says why not, a query returns the rows
it asks for and starts again when stepped after its end, the SDK reports the
summary as it is in the file and a scan as the records are.

## 6. Findings

* `directory_errors`: a payload of a compressed directory that cannot be decompressed is
  reported with the path of the directory, although `src/docs/usage.md:606` promises the
  most specific file known: `DirectoryBackend::Cursor::next()` decompresses outside of the
  handler in `pull()` that adds the shard's path, though the message in hand carries it.
* `codegen_names`: a type such as `nav_msgs/msg/Goals`, given with the input and not
  among the built-in ones, is accepted, because `local_type()` decides by package;
  the generated header then names `::rosbags::profiles::nav_msgs::Goals`,
  which does not exist.

Seen while modelling, without a run of their own:

* `std::stoi` of the ROS1 field `latching` throws `std::invalid_argument`, which `open()`
  passes on; `src/docs/architecture.md:97` promises exceptions derived from `RosbagsError`. `Rosbag1Open` has it as
  the error "std".
* The statistics of an MCAP summary that is complete are believed: a file whose summary
  says that there are no messages is read as empty. `MetadataTrue` and the `wanted` set of the
  cursor say so.
* The conversions of `metadata.yaml` (`info["version"].as<int>()` in `src/src/sqlite3.cpp`)
  throw exceptions of yaml-cpp, which `open()` passes on, against the same line of
  `src/docs/architecture.md`.
* The definitions of a topic's shards are compared only in the format learned first
  (`src/src/sqlite3.cpp:463-478`): two shards with IDL definitions that contradict each other agree if an earlier one
  had a `.msg` definition. `Conflict` in `DirectoryConnections` says so.
* Two entries of `relative_file_paths` with the same basename open the same file twice.

## 7. Not modelled

* Values that nothing depends on: QoS, message definitions beyond being equal or not, error
  messages apart from the file they name, warnings.
* The text of `.msg` and IDL files, and the text of the header: parsing without state.
* Timestamp conversions: range checks of one line each.
* The loop of `read_raw` and `read_decoded`: a cursor, calls of `next()` with the callback in
  between, and its destruction, which `ReaderLifecycle` has in any order. A callback
  that closes the reader is against the contract of the header.
* Supports registered as null, and the command-line tools: printing around one call of the library.
* In `AnyReaderCursor`, `Rosbag1Cursor` and `SqliteReader` topics are equal or different
  values, as if already normalized; how they are compared is in `Topics` and checked with
  the two cursors that use it.

## 8. Plan

Done, in this order: the merge of `AnyReader` with its proof, the directory's cursor
and its opening with its proof, ROS1, lifecycle with its proof, MCAP with
its first proofs, sqlite3, decompression, wire readers, registry, compiler; then all
built-in types, the connections of a directory under its cursor with their proof, the merged
metadata; then the proofs of what was only checked until then: the refinements of the ROS1, MCAP and sqlite3
cursors, what their backends announce, the compiler, decompression, the registry, the table of
least sizes, and the exactness of decoding.

What could follow:

1. Proofs: that `topics_match()` means `SameTopic` for every name and pattern, which would remove
   `FiltersAssumption` of `DirectoryCursor` and `TopicsAssumption`.
2. `DirectoryOpen` and `DirectoryConnections` in one run: today the first has reading and comparing
   the files succeed or fail, and the second has them done.
