--------------------------- MODULE ReaderLifecycle ---------------------------
(***************************************************************************)
(* Who keeps what alive in src/rosbags.cpp.  A Reader or AnyReader is a    *)
(* shell around a shared state; an AnyReader's state holds one Reader for  *)
(* each input; a cursor shares the state it was made from.  States are     *)
(* destroyed with their last holder, and ~Impl closes the backend.  So     *)
(* shells may be moved and destroyed while cursors are in use; only an     *)
(* explicit close() asks the caller to destroy the cursors first           *)
(* (docs/architecture.md, 5.1 and 5.2), and Close does.                    *)
(*                                                                         *)
(* A backend is open or not, and counts how often it was opened, because   *)
(* the Connection pointers of a cursor belong to one opening of it.        *)
(***************************************************************************)
EXTENDS Naturals, FiniteSets

CONSTANTS
  States,      \* the shared states the shells begin with, one shell for each
  Inputs,      \* for each state how many readers it has
  Kind,        \* "Reader" (of one input) or "AnyReader"
  Cursors,     \* names for the cursors alive at a time
  MaxOpens     \* bound on the calls of open()

Readers == UNION {{s} \X (1..Inputs[s]) : s \in States}

None == "none"

ASSUME InputsAssumption ==
  /\ Inputs \in [States -> Nat \ {0}]
  /\ Kind \in [States -> {"Reader", "AnyReader"}]
  /\ \A s \in States : Kind[s] = "Reader" => Inputs[s] = 1
ASSUME NamesAssumption == None \notin States /\ MaxOpens \in Nat

VARIABLES
  shell,     \* the state each shell holds, or None once moved from or destroyed
  open,      \* AnyReader::Impl::open
  backend,   \* readers whose backend is open
  opened,    \* how often each backend was opened
  opens,     \* calls of open() so far
  cursor,    \* the cursors: [state, owner, sources, backends, opening]
  call       \* the call that is running: [op, on, at]

vars == <<shell, open, backend, opened, opens, cursor, call>>

Shells == States  \* named by the state they begin with
Idle == [op |-> "idle", on |-> None, at |-> 0]

NoCursor == [state |-> None, owner |-> None, sources |-> {}, backends |-> {},
             opening |-> [r \in Readers |-> 0]]

Live == {c \in Cursors : cursor[c].state # None}

-----------------------------------------------------------------------------
\* Whether an AnyReader's state exists, given the shells and cursors, and whether
\* the state of reader r does: a reader is held by its shell or its AnyReader, and
\* by the cursor made from it (BackendCursorImpl::owner_).
StateHeld(s, shells, cursors) ==
  \/ \E h \in Shells : shells[h] = s
  \/ \E c \in Cursors : cursors[c].owner = s

ReaderHeld_ByShell(r, shells, cursors) == StateHeld(r[1], shells, cursors)

ReaderHeld(r, shells, cursors) ==
  \/ StateHeld(r[1], shells, cursors)
  \/ \E c \in Cursors : r \in cursors[c].sources

\* The holders become these; ~Impl closes the backends nobody holds any more.
Release_NoClose(shells, cursors) ==
  /\ shell' = shells
  /\ cursor' = cursors
  /\ UNCHANGED backend

Release(shells, cursors) ==
  /\ shell' = shells
  /\ cursor' = cursors
  /\ backend' = {r \in backend : ReaderHeld(r, shells, cursors)}

Init ==
  /\ shell = [h \in Shells |-> h]
  /\ open = [s \in States |-> FALSE]
  /\ backend = {}
  /\ opened = [r \in Readers |-> 0]
  /\ opens = 0
  /\ cursor = [c \in Cursors |-> NoCursor]
  /\ call = Idle

-----------------------------------------------------------------------------
IsOpen(s) == IF Kind[s] = "Reader" THEN <<s, 1>> \in backend ELSE open[s]

\* open() on a state that is not open.
BeginOpen(h) ==
  LET s == shell[h] IN
  /\ call = Idle
  /\ s # None
  /\ ~IsOpen(s)
  /\ opens < MaxOpens
  /\ opens' = opens + 1
  /\ call' = [op |-> "open", on |-> s, at |-> 1]
  /\ UNCHANGED <<shell, open, backend, opened, cursor>>

\* Reader::open of the next input; a backend is open or as it was.
OpenReader ==
  LET r == <<call.on, call.at>> IN
  /\ call.op = "open"
  /\ r \in Readers
  /\ r \notin backend
  /\ backend' = backend \cup {r}
  /\ opened' = [opened EXCEPT ![r] = @ + 1]
  /\ call' = [call EXCEPT !.at = @ + 1]
  /\ UNCHANGED <<shell, open, opens, cursor>>

OpenDone ==
  /\ call.op = "open"
  /\ <<call.on, call.at>> \notin Readers
  /\ open' = [open EXCEPT ![call.on] = TRUE]
  /\ call' = Idle
  /\ UNCHANGED <<shell, backend, opened, opens, cursor>>

\* The inputs opened before the one that fails stay open.
OpenFails_Leaves ==
  /\ call.op = "open"
  /\ call' = Idle
  /\ UNCHANGED <<shell, open, backend, opened, opens, cursor>>

\* An input fails, or ROS1 and ROS2 are mixed: AnyReader::open closes all of them.
OpenFails ==
  /\ call.op = "open"
  /\ backend' = {r \in backend : r[1] # call.on}
  /\ open' = [open EXCEPT ![call.on] = FALSE]
  /\ call' = Idle
  /\ UNCHANGED <<shell, opened, opens, cursor>>

\* close(), which any shell may call at any time, open or not, once no cursor
\* shares the state.
Close(h) ==
  LET s == shell[h] IN
  /\ call = Idle
  /\ s # None
  /\ \A c \in Live : cursor[c].state # s
  /\ backend' = {r \in backend : r[1] # s}
  /\ open' = [open EXCEPT ![s] = FALSE]
  /\ UNCHANGED <<shell, opened, opens, cursor, call>>

-----------------------------------------------------------------------------
\* Shells: move construction or assignment between shells of one kind, which
\* releases what the target held, and destruction.
Move(h, k) ==
  /\ call = Idle
  /\ h # k /\ shell[h] # None /\ Kind[h] = Kind[k]
  /\ Release([shell EXCEPT ![k] = shell[h], ![h] = None], cursor)
  /\ UNCHANGED <<open, opened, opens, call>>

DestroyShell(h) ==
  /\ call = Idle
  /\ shell[h] # None
  /\ Release([shell EXCEPT ![h] = None], cursor)
  /\ UNCHANGED <<open, opened, opens, call>>

-----------------------------------------------------------------------------
\* What a cursor holds: the AnyReader's state if it is one's (owner_), and for
\* each input the filter asks for the reader's state (sources) and the cursor of
\* its backend (backends).  opening says which opening it was made in.
NewCursor(s, wanted) ==
  [state |-> s, owner |-> IF Kind[s] = "AnyReader" THEN s ELSE None,
   sources |-> wanted, backends |-> wanted,
   opening |-> opened]

\* messages(); the filter decides which inputs of an AnyReader get a source.  A
\* constructor that throws has destroyed what it made and changes nothing.
Messages(h, c) ==
  LET s == shell[h] IN
  /\ call = Idle
  /\ s # None /\ IsOpen(s)
  /\ c \notin Live
  /\ \E wanted \in SUBSET {r \in Readers : r[1] = s} :
       /\ Kind[s] = "Reader" => wanted # {}
       /\ cursor' = [cursor EXCEPT ![c] = NewCursor(s, wanted)]
  /\ UNCHANGED <<shell, open, backend, opened, opens, call>>

BeginDestroy(c) ==
  /\ call = Idle
  /\ c \in Live
  /\ call' = [op |-> "destroy", on |-> c, at |-> 0]
  /\ UNCHANGED <<shell, open, backend, opened, opens, cursor>>

\* owner_ is declared after cursor_ and destroyed before it.
DestroySource_OwnerFirst ==
  LET c == call.on IN
  /\ call.op = "destroy"
  /\ \E r \in cursor[c].backends :
       IF r \in cursor[c].sources
       THEN Release(shell, [cursor EXCEPT ![c].sources = @ \ {r}])
       ELSE Release(shell, [cursor EXCEPT ![c].backends = @ \ {r}])
  /\ UNCHANGED <<open, opened, opens, call>>

\* The destructor works backwards: of each source the backend's cursor and then
\* the reader's state, and last the AnyReader's.
DestroySource ==
  LET c == call.on IN
  /\ call.op = "destroy"
  /\ \E r \in cursor[c].sources :
       IF r \in cursor[c].backends
       THEN Release(shell, [cursor EXCEPT ![c].backends = @ \ {r}])
       ELSE Release(shell, [cursor EXCEPT ![c].sources = @ \ {r}])
  /\ UNCHANGED <<open, opened, opens, call>>

DestroyDone ==
  LET c == call.on IN
  /\ call.op = "destroy"
  /\ cursor[c].sources = {} /\ cursor[c].backends = {}
  /\ Release(shell, [cursor EXCEPT ![c] = NoCursor])
  /\ call' = Idle
  /\ UNCHANGED <<open, opened, opens>>

\* Everything may have been destroyed.
Gone ==
  /\ Live = {} /\ \A h \in Shells : shell[h] = None
  /\ UNCHANGED vars

Next ==
  \/ \E h \in Shells : BeginOpen(h) \/ Close(h) \/ DestroyShell(h)
  \/ \E h, k \in Shells : Move(h, k)
  \/ \E h \in Shells, c \in Cursors : Messages(h, c)
  \/ \E c \in Cursors : BeginDestroy(c)
  \/ OpenReader \/ OpenDone \/ OpenFails
  \/ DestroySource \/ DestroyDone
  \/ Gone

Spec == Init /\ [][Next]_vars

-----------------------------------------------------------------------------
CursorType ==
  [state : States \cup {None}, owner : States \cup {None}, sources : SUBSET Readers,
   backends : SUBSET Readers, opening : [Readers -> Nat]]

TypeOK ==
  /\ shell \in [Shells -> States \cup {None}]
  /\ open \in [States -> BOOLEAN]
  /\ backend \subseteq Readers
  /\ opened \in [Readers -> 0..MaxOpens]
  /\ opens \in 0..MaxOpens
  /\ cursor \in [Cursors -> CursorType]
  /\ call.op \in {"idle", "open", "destroy"}

\* A cursor can be used as long as it exists: the backends it reads are open, in
\* the very opening it was made in, so that the connections its messages point to
\* are there; whatever has been moved or destroyed since, and until the last of
\* its own members is destroyed.
CursorsServed ==
  \A c \in Live :
    /\ \A r \in cursor[c].backends : r \in backend /\ opened[r] = cursor[c].opening[r]
    /\ cursor[c].owner # None => open[cursor[c].owner]

\* What nobody holds is closed: handles and temporary files are given back with
\* the last shell or cursor, in whatever order they go; and between calls an
\* AnyReader is open with all of its inputs or closed with all (rosbags.cpp:55-63,
\* 286-312).
NothingLeaks ==
  /\ \A r \in backend : ReaderHeld(r, shell, cursor)
  /\ call = Idle =>
       \A s \in States :
         StateHeld(s, shell, cursor) /\ Kind[s] = "AnyReader" =>
           {r \in Readers : r[1] = s} \cap backend = IF open[s] THEN {r \in Readers : r[1] = s} ELSE {}
=============================================================================
