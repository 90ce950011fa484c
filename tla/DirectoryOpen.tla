---------------------------- MODULE DirectoryOpen ----------------------------
(***************************************************************************)
(* DirectoryBackend of src/sqlite3.cpp, apart from its cursor: open()      *)
(* reads metadata.yaml, decompresses each storage file into a temporary    *)
(* file when compression_mode is "file", opens a child backend on it, and  *)
(* checks the connections of the children against the metadata; close(),   *)
(* the destructor and every failure of open() run close_impl().            *)
(*                                                                         *)
(* Every step of open() that calls the operating system, zstd or a child   *)
(* backend may fail, and an attempt that failed may be repeated.  A file   *)
(* is its position in relative_file_paths, and its temporary file has the  *)
(* same number.  Sizes are counted in chunks and are unsigned integers of  *)
(* the width of the code (Modulus is 2^64 there).                          *)
(***************************************************************************)
EXTENDS Naturals, Sequences

CONSTANTS
  NumFiles,                     \* files of the directory
  MaxDecompressedFileBytes,     \* ReaderOptions::max_decompressed_file_bytes
  MaxTemporaryBytes,            \* ReaderOptions::max_temporary_bytes
  MaxChunk,                     \* the output buffer of stream_zstd
  Modulus,                      \* 2^w of the byte counters
  MaxCalls                      \* bound on the calls of open()

Files == 1..NumFiles

ASSUME FilesAssumption == NumFiles \in Nat \ {0} /\ MaxCalls \in Nat
ASSUME SizesAssumption ==
  /\ Modulus \in Nat /\ MaxChunk \in Nat \ {0} /\ MaxChunk < Modulus
  /\ MaxDecompressedFileBytes \in Nat /\ MaxDecompressedFileBytes < Modulus
  /\ MaxTemporaryBytes \in Nat /\ MaxTemporaryBytes < Modulus

VARIABLES
  compression_mode,  \* "none" or "file", as the metadata has it
  open_,
  backends,          \* number of child backends in backends_
  running,           \* files whose child backend is open
  connection_map,    \* files whose connections are entered in connection_map_
  files,             \* metadata_.files: how many storage files it names
  temporary_files,   \* temporary_files_
  temporary_bytes,   \* temporary_bytes_
  output_size,       \* stream_zstd: bytes written for the current file
  disk,              \* temporary files that exist (environment)
  used,              \* bytes they hold (environment)
  pc,                \* where the running call is; "idle" between calls
  after,             \* where close_impl() returns to
  file,              \* loop variable of open()
  calls              \* calls of open() so far

children == <<backends, running, connection_map, files>>
storage == <<temporary_files, temporary_bytes, output_size, disk, used>>
filesVars == <<compression_mode, open_, children, storage, pc, after, file, calls>>

FilesInit ==
  /\ compression_mode \in {"none", "file"}
  /\ open_ = FALSE
  /\ backends = 0
  /\ running = {}
  /\ connection_map = {}
  /\ files = 0
  /\ temporary_files = {}
  /\ temporary_bytes = 0
  /\ output_size = 0
  /\ disk = {}
  /\ used = 0
  /\ pc = "idle"
  /\ after = "idle"
  /\ file = 1
  /\ calls = 0

-----------------------------------------------------------------------------
\* close_impl() is entered, to return to the given place.
Closing(place) ==
  /\ pc' = "closing"
  /\ after' = place

\* open() on the closed backend first clears what a failed attempt may have
\* left.  (On the open one it throws and changes nothing.)
BeginOpen ==
  /\ pc = "idle"
  /\ ~open_
  /\ calls < MaxCalls
  /\ calls' = calls + 1
  /\ Closing("metadata")
  /\ UNCHANGED <<compression_mode, open_, children, storage, file>>

CloseFiles ==
  /\ pc = "idle"
  /\ open_
  /\ Closing("idle")
  /\ UNCHANGED <<compression_mode, open_, children, storage, file, calls>>

Destroy ==
  /\ pc = "idle"
  /\ Closing("destroyed")
  /\ UNCHANGED <<compression_mode, open_, children, storage, file, calls>>

MayFail == pc \in {"metadata", "backend"} \/ (pc \in {"files", "connections"} /\ file \in Files)

\* An exception inside open() is caught, close_impl() runs, and it is rethrown.
OpenFails ==
  /\ MayFail
  /\ Closing("idle")
  /\ UNCHANGED <<compression_mode, open_, children, storage, file, calls>>

-----------------------------------------------------------------------------
\* close_impl(): the children are closed in reverse order, ...
CloseBackend ==
  /\ pc = "closing"
  /\ \E f \in running :
       /\ \A g \in running : g <= f
       /\ running' = running \ {f}
  /\ UNCHANGED <<compression_mode, open_, backends, connection_map, files, storage, pc, after,
                 file, calls>>

\* temporary_bytes_ is not reset.
ClearAll_KeepBytes ==
  /\ pc = "closing"
  /\ running = {}
  /\ backends' = 0
  /\ connection_map' = {}
  /\ temporary_files' = {}
  /\ disk' = disk \ temporary_files
  /\ used' = IF disk \subseteq temporary_files THEN 0 ELSE used
  /\ open_' = FALSE
  /\ pc' = after
  /\ UNCHANGED <<compression_mode, running, files, temporary_bytes, output_size, after, file, calls>>

\* ... then everything is cleared; clearing temporary_files_ removes them.  A
\* file left over keeps the disk in use.
ClearAll ==
  /\ pc = "closing"
  /\ running = {}
  /\ backends' = 0
  /\ connection_map' = {}
  /\ temporary_files' = {}
  /\ disk' = disk \ temporary_files
  /\ used' = IF disk \subseteq temporary_files THEN 0 ELSE used
  /\ temporary_bytes' = 0
  /\ open_' = FALSE
  /\ pc' = after
  /\ UNCHANGED <<compression_mode, running, files, output_size, after, file, calls>>

-----------------------------------------------------------------------------
\* The steps of open().  OpenFails is the alternative to each of them.
StartFiles ==
  /\ pc = "metadata"
  /\ files' = 0
  /\ file' = 1
  /\ pc' = "files"
  /\ UNCHANGED <<compression_mode, open_, backends, running, connection_map, storage, after, calls>>

\* The next storage file is there; decompress_file() creates its temporary file.
CreateTemporary ==
  /\ pc = "files"
  /\ file \in Files
  /\ compression_mode = "file"
  /\ disk' = disk \cup {file}
  /\ output_size' = 0
  /\ pc' = "writing"
  /\ UNCHANGED <<compression_mode, open_, children, temporary_files, temporary_bytes, used,
                 after, file, calls>>

UseFile ==
  /\ pc = "files"
  /\ file \in Files
  /\ compression_mode = "none"
  /\ pc' = "backend"
  /\ UNCHANGED <<compression_mode, open_, children, storage, after, file, calls>>

\* Unsigned arithmetic: sums and differences wrap round.
Plus(a, b) == IF a + b < Modulus THEN a + b ELSE a + b - Modulus
Minus(a, b) == IF b <= a THEN a - b ELSE a + Modulus - b

Lesser(a, b) == IF a <= b THEN a ELSE b

\* Each file may use the whole directory's budget.
Limit_PerFile == Lesser(MaxDecompressedFileBytes, MaxTemporaryBytes)

Limit == Lesser(MaxDecompressedFileBytes, Minus(MaxTemporaryBytes, temporary_bytes))

\* stream_zstd writes what zstd produced if the budget has room for it ...
WriteChunk_CheckBefore ==
  /\ pc = "writing"
  /\ Minus(Limit, output_size) > 0
  /\ \E chunk \in 1..MaxChunk :
       /\ output_size' = output_size + chunk
       /\ used' = used + chunk
  /\ UNCHANGED <<compression_mode, open_, children, temporary_files, temporary_bytes, disk,
                 pc, after, file, calls>>

WriteChunk ==
  /\ pc = "writing"
  /\ \E chunk \in 1..MaxChunk :
       /\ chunk <= Minus(Limit, output_size)
       /\ output_size' = output_size + chunk
       /\ used' = used + chunk
  /\ UNCHANGED <<compression_mode, open_, children, temporary_files, temporary_bytes, disk,
                 pc, after, file, calls>>

\* ... and throws if not, or when reading, zstd, writing or closing fails; the
\* TemporaryFile is destroyed, and with it the file.
WriteFails_KeepFile ==
  /\ pc = "writing"
  /\ Closing("idle")
  /\ UNCHANGED <<compression_mode, open_, children, storage, file, calls>>

WriteFails ==
  /\ pc = "writing"
  /\ disk' = disk \ {file}
  /\ used' = used - output_size
  /\ Closing("idle")
  /\ UNCHANGED <<compression_mode, open_, children, temporary_files, temporary_bytes, output_size,
                 file, calls>>

\* The TemporaryFile goes out of scope with decompress_file().
FinishTemporary_NotKept ==
  /\ pc = "writing"
  /\ disk' = disk \ {file}
  /\ used' = used - output_size
  /\ pc' = "backend"
  /\ UNCHANGED <<compression_mode, open_, children, temporary_files, temporary_bytes, output_size,
                 after, file, calls>>

\* decompress_file() hands the finished file over to the backend.
FinishTemporary ==
  /\ pc = "writing"
  /\ temporary_files' = temporary_files \cup {file}
  /\ temporary_bytes' = Plus(temporary_bytes, output_size)
  /\ pc' = "backend"
  /\ UNCHANGED <<compression_mode, open_, children, output_size, disk, used, after, file, calls>>

OpenBackend ==
  /\ pc = "backend"
  /\ running' = running \cup {file}
  /\ backends' = backends + 1
  /\ files' = files + 1
  /\ file' = file + 1
  /\ pc' = "files"
  /\ UNCHANGED <<compression_mode, open_, connection_map, storage, after, calls>>

AllOpen ==
  /\ pc = "files"
  /\ file \notin Files
  /\ file' = 1
  /\ pc' = "connections"
  /\ UNCHANGED <<compression_mode, open_, children, storage, after, calls>>

\* The connections of one child agree with the metadata.
MapConnections ==
  /\ pc = "connections"
  /\ file \in Files
  /\ connection_map' = connection_map \cup {file}
  /\ file' = file + 1
  /\ UNCHANGED <<compression_mode, open_, backends, running, files, storage, pc, after, calls>>

\* The last child is forgotten.
FilesOpened_OneShort ==
  /\ pc = "connections"
  /\ file = NumFiles
  /\ open_' = TRUE
  /\ pc' = "idle"
  /\ UNCHANGED <<compression_mode, children, storage, after, file, calls>>

FilesOpened ==
  /\ pc = "connections"
  /\ file \notin Files
  /\ open_' = TRUE
  /\ pc' = "idle"
  /\ UNCHANGED <<compression_mode, children, storage, after, file, calls>>

Destroyed ==
  /\ pc = "destroyed"
  /\ UNCHANGED filesVars

Call == BeginOpen \/ CloseFiles \/ Destroy

Step ==
  \/ CloseBackend \/ ClearAll
  \/ StartFiles \/ CreateTemporary \/ UseFile \/ WriteChunk \/ WriteFails \/ FinishTemporary
  \/ OpenBackend \/ AllOpen \/ MapConnections \/ FilesOpened \/ OpenFails

FilesNext == Call \/ Step \/ Destroyed

FilesSpec == FilesInit /\ [][FilesNext]_filesVars

-----------------------------------------------------------------------------
TypeOK ==
  /\ compression_mode \in {"none", "file"}
  /\ open_ \in BOOLEAN
  /\ backends \in 0..NumFiles
  /\ running \subseteq Files
  /\ connection_map \subseteq Files
  /\ files \in 0..NumFiles
  /\ temporary_files \subseteq Files
  /\ temporary_bytes \in 0..Modulus - 1
  /\ output_size \in 0..Modulus - 1
  /\ disk \subseteq Files
  /\ used \in Nat
  /\ pc \in {"idle", "destroyed", "closing", "metadata", "files", "writing", "backend", "connections"}
  /\ after \in {"idle", "destroyed", "metadata"}
  /\ file \in 1..NumFiles + 1
  /\ calls \in 0..MaxCalls

\* The temporary files of the directory never hold more than
\* max_temporary_bytes together, nor one of them more than
\* max_decompressed_file_bytes: not while a file is being written, and not on
\* an attempt after failed ones.
BudgetHeld ==
  /\ used <= MaxTemporaryBytes
  /\ pc = "writing" => output_size <= MaxDecompressedFileBytes

\* temporary_bytes_ is what the finished files hold, so that the unsigned
\* subtraction from max_temporary_bytes cannot wrap round.
BytesAccounted ==
  /\ used = temporary_bytes + (IF pc = "writing" THEN output_size ELSE 0)
  /\ temporary_bytes <= MaxTemporaryBytes

\* No child backend is open on a file that has been removed.
BackendsBacked == compression_mode = "file" => running \subseteq disk

\* Between calls the directory is either open, with a child for every storage
\* file and every child's connections mapped, as its cursors take for granted,
\* or has nothing left of what it had: no child, no temporary file.
AllOrNothing ==
  pc \in {"idle", "destroyed"} =>
    IF open_
    THEN /\ backends = NumFiles /\ files = NumFiles /\ running = Files
         /\ connection_map = Files
         /\ disk = IF compression_mode = "file" THEN Files ELSE {}
    ELSE backends = 0 /\ running = {} /\ connection_map = {} /\ temporary_files = {} /\ disk = {}

-----------------------------------------------------------------------------
\* The inductive invariant behind the safety properties.

\* Nothing is left of an earlier call.
Cleared ==
  /\ backends = 0 /\ running = {} /\ connection_map = {}
  /\ temporary_files = {} /\ temporary_bytes = 0

\* The files before the n-th have their temporary file and their child.
Prepared(n) == temporary_files = IF compression_mode = "file" THEN 1..n - 1 ELSE {}
Running(n) == running = 1..n - 1 /\ backends = n - 1 /\ files = n - 1

\* The disk holds the files of temporary_files_ and the one being written.
DiskInv ==
  /\ disk = temporary_files \cup (IF pc = "writing" THEN {file} ELSE {})
  /\ used = temporary_bytes + (IF pc = "writing" THEN output_size ELSE 0)
  /\ temporary_bytes <= MaxTemporaryBytes
  /\ pc = "writing" =>
       /\ file \notin temporary_files
       /\ output_size <= MaxDecompressedFileBytes
       /\ temporary_bytes + output_size <= MaxTemporaryBytes
  /\ compression_mode = "file" => running \subseteq temporary_files
  /\ compression_mode = "none" => temporary_files = {}

PhaseInv ==
  /\ pc \notin {"idle", "closing"} => ~open_
  /\ pc \in {"metadata", "destroyed"} => Cleared
  /\ pc \in {"files", "writing"} => Prepared(file) /\ Running(file) /\ connection_map = {}
  /\ pc \in {"writing", "backend"} => file \in Files
  /\ pc = "writing" => compression_mode = "file"
  /\ pc = "backend" => Prepared(file + 1) /\ Running(file) /\ connection_map = {}
  /\ pc = "connections" =>
       Prepared(NumFiles + 1) /\ Running(NumFiles + 1) /\ connection_map = 1..file - 1
  /\ pc = "idle" =>
       IF open_ THEN Prepared(NumFiles + 1) /\ Running(NumFiles + 1) /\ connection_map = Files
       ELSE Cleared

FilesInv == TypeOK /\ DiskInv /\ PhaseInv
=============================================================================
