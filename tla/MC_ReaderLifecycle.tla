-------------------------- MODULE MC_ReaderLifecycle --------------------------
(***************************************************************************)
(* Two AnyReaders, one of them over two inputs, and a Reader, with two     *)
(* cursors alive at a time and three calls of open(): a state can be       *)
(* reopened, and moved into a shell whose old state still has a cursor.    *)
(* The two inputs are a directory, without messages or with the last time  *)
(* there is, and an MCAP file without messages, with some, or with         *)
(* statistics that end before they start - or a ROS1 bag, which open()     *)
(* must refuse beside a directory.                                         *)
(***************************************************************************)
EXTENDS AnyReaderOpen

MCInputs == [s \in States |-> IF s = "a" THEN 2 ELSE 1]
MCKind == [s \in States |-> IF s = "r" THEN "Reader" ELSE "AnyReader"]

Report(storage, n, count, start, end) ==
  [storage |-> storage, connections |-> n, message_count |-> count, start_time |-> start,
   end_time |-> end]

MCPaths ==
  {[r \in Readers |-> CASE r = <<"a", 1>> -> "directory" [] r = <<"a", 2>> -> p
                         [] r = <<"b", 1>> -> ".bag" [] OTHER -> "other"] : p \in {".mcap", ".bag"}}
MCStored(r) ==
  CASE r = <<"a", 1>> -> {Report("Mcap", 0, 0, 0, 0), Report("Sqlite3", 2, 2, 3, 7)}
    [] r = <<"a", 2>> -> {Report("Mcap", 1, 0, 4, 1), Report("Mcap", 1, 3, 2, 5), Report("Mcap", 1, 1, 6, 2)}
    [] OTHER -> {Report("Mcap", 1, 1, 2, 3)}
=============================================================================
