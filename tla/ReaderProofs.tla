----------------------------- MODULE ReaderProofs -----------------------------
(***************************************************************************)
(* Proofs about the readers an application holds, for any shells, inputs,  *)
(* cursors, connections and records.                                       *)
(*                                                                         *)
(* ReaderLifecycle and AnyReaderOpen: a cursor finds its backends open in  *)
(* the opening it was made in, and what nobody holds is closed.  This holds*)
(* with connections and metadata too, whose behaviours are behaviours of   *)
(* ReaderLifecycle.  An AnyReader that is open has inputs of one kind only,*)
(* and its connections and metadata are those of the files it has open,    *)
(* however often they were exchanged.                                      *)
(*                                                                         *)
(* AnyReaderCursor: the inductive invariant of the merge, and from it type *)
(* correctness, the order and completeness of what is handed out, and the  *)
(* refinement of MessageStream.                                            *)
(***************************************************************************)
EXTENDS AnyReaderCursor, AnyReaderOpen, DataLemmas, SequenceTheorems

-----------------------------------------------------------------------------
(* Shells, states, readers and cursors                                     *)

USE InputsAssumption, NamesAssumption

\* The running call.  While a state is being opened its shell holds it, no cursor was
\* made from it, and its inputs are opened in order, each for the first time in the call.
CallInv ==
  /\ call \in [op : {"idle", "open", "destroy"}, on : States \cup Cursors \cup {None}, at : Nat]
  /\ call.op = "idle" => call = Idle
  /\ call.op = "open" =>
       /\ call.on \in States /\ call.at # 0
       /\ \E h \in Shells : shell[h] = call.on
       /\ \A c \in Live : cursor[c].state # call.on
       /\ \A r \in Readers : r[1] = call.on /\ r[2] >= call.at => opened[r] < opens
       /\ Kind[call.on] = "AnyReader" =>
            \A r \in Readers : r[1] = call.on => (r \in backend <=> r[2] < call.at)
  /\ call.op = "destroy" => call.on \in Live

\* What a cursor holds of its state; a reader's state outlives the backend cursor on it,
\* and only a cursor that is being destroyed holds less than it was made with.
CursorInv ==
  /\ \A c \in Cursors \ Live : cursor[c] = NoCursor
  /\ \A c \in Live :
       /\ cursor[c].backends \subseteq cursor[c].sources
       /\ \A r \in cursor[c].sources : r[1] = cursor[c].state
       /\ cursor[c].owner = IF Kind[cursor[c].state] = "AnyReader" THEN cursor[c].state ELSE None
       /\ ~(call.op = "destroy" /\ call.on = c) =>
            /\ cursor[c].backends = cursor[c].sources
            /\ Kind[cursor[c].state] = "Reader" => cursor[c].sources # {}

\* An AnyReader somebody holds, and that is not being opened, has all inputs open or none.
WholeInv ==
  \A s \in States :
    StateHeld(s, shell, cursor) /\ Kind[s] = "AnyReader" /\ ~(call.op = "open" /\ call.on = s) =>
      \A r \in Readers : r[1] = s => (r \in backend <=> open[s])

HeldInv == \A r \in backend : ReaderHeld(r, shell, cursor)

OpenedInv == \A r \in Readers : opened[r] <= opens

IInv == TypeOK /\ OpenedInv /\ CallInv /\ CursorInv /\ WholeInv /\ HeldInv /\ CursorsServed

-----------------------------------------------------------------------------
\* What the readers are.
LEMMA ReadersOfStates ==
  /\ \A r \in Readers : r[1] \in States /\ r[2] \in Nat \ {0} /\ r[2] <= Inputs[r[1]]
                        /\ r = <<r[1], r[2]>>
  /\ \A s \in States : <<s, 1>> \in Readers
  /\ \A s \in States, n \in Nat \ {0} : n <= Inputs[s] => <<s, n>> \in Readers
<1>1. ASSUME NEW r \in Readers
      PROVE  r[1] \in States /\ r[2] \in Nat \ {0} /\ r[2] <= Inputs[r[1]] /\ r = <<r[1], r[2]>>
  <2>1. PICK s \in States : r \in {s} \X (1..Inputs[s])
    BY DEF Readers
  <2>2. QED
    BY <2>1
<1>2. ASSUME NEW s \in States, NEW n \in Nat \ {0}, n <= Inputs[s] PROVE <<s, n>> \in Readers
  <2>1. <<s, n>> \in {s} \X (1..Inputs[s])
    BY <1>2
  <2>2. QED
    BY <2>1 DEF Readers
<1>3. ASSUME NEW s \in States PROVE <<s, 1>> \in Readers
  <2>1. 1 \in Nat \ {0} /\ 1 <= Inputs[s]
    OBVIOUS
  <2>2. QED
    BY <1>2, <2>1
<1>4. QED
  BY <1>1, <1>2, <1>3

\* A call that drops shells or members of cursors and closes what nobody holds any more
\* leaves every AnyReader whole and every cursor served: what a cursor still reads it
\* still holds.
LEMMA ReleaseKeeps ==
  ASSUME IInv,
         NEW shells, NEW cursors, Release(shells, cursors),
         UNCHANGED <<open, opened, opens>>, call.op # "open", call'.op \in {"idle", "destroy"},
         shells \in [Shells -> States \cup {None}], cursors \in [Cursors -> CursorType],
         \A s \in States : StateHeld(s, shells, cursors) => StateHeld(s, shell, cursor),
         \A c \in Cursors : cursors[c].state # None =>
           /\ c \in Live
           /\ cursors[c].backends \subseteq cursor[c].backends
           /\ cursors[c].backends \subseteq cursors[c].sources
           /\ cursors[c].owner = cursor[c].owner
           /\ cursors[c].opening = cursor[c].opening
  PROVE  TypeOK' /\ OpenedInv' /\ WholeInv' /\ HeldInv' /\ CursorsServed'
<1>1. /\ shell' = shells /\ cursor' = cursors
      /\ backend' = {r \in backend : ReaderHeld(r, shells, cursors)}
  BY DEF Release
<1>2. backend \subseteq Readers
  BY DEF IInv, TypeOK
<1>3. HeldInv'
  BY <1>1 DEF HeldInv
<1>4. WholeInv'
  <2> SUFFICES ASSUME NEW s \in States, StateHeld(s, shells, cursors), Kind[s] = "AnyReader",
                      NEW r \in Readers, r[1] = s
               PROVE  r \in backend' <=> open[s]
    BY <1>1 DEF WholeInv
  <2>1. r \in backend <=> open[s]
    BY DEF IInv, WholeInv
  <2>2. ReaderHeld(r, shells, cursors)
    BY DEF ReaderHeld
  <2>3. QED
    BY <1>1, <2>1, <2>2
<1>5. CursorsServed'
  <2> SUFFICES ASSUME NEW c \in Cursors, cursors[c].state # None
               PROVE  /\ \A r \in cursors[c].backends :
                           r \in backend' /\ opened[r] = cursors[c].opening[r]
                      /\ cursors[c].owner # None => open[cursors[c].owner]
    BY <1>1 DEF CursorsServed, Live
  <2>1. c \in Live
    OBVIOUS
  <2>2. ASSUME NEW r \in cursors[c].backends
        PROVE  r \in backend' /\ opened[r] = cursors[c].opening[r]
    <3>1. r \in backend /\ opened[r] = cursors[c].opening[r]
      BY <2>1, <2>2 DEF IInv, CursorsServed
    <3>2. ReaderHeld(r, shells, cursors)
      BY <2>2 DEF ReaderHeld
    <3>3. QED
      BY <1>1, <3>1, <3>2
  <2>3. cursors[c].owner # None => open[cursors[c].owner]
    BY <2>1 DEF IInv, CursorsServed
  <2>4. QED
    BY <2>2, <2>3
<1>6. TypeOK' /\ OpenedInv'
  BY <1>1, <1>2 DEF IInv, TypeOK, OpenedInv
<1>7. QED
  BY <1>3, <1>4, <1>5, <1>6

-----------------------------------------------------------------------------
\* At first every shell holds its own state, and nothing is open.
LEMMA InitInv == Init => IInv
<1> SUFFICES ASSUME Init PROVE IInv
  OBVIOUS
<1>1. Live = {}
  BY DEF Init, Live, NoCursor
<1>2. NoCursor \in CursorType
  BY DEF NoCursor, CursorType
<1>3. TypeOK
  BY <1>2 DEF Init, TypeOK, Idle, Shells
<1>4. CallInv
  BY <1>1 DEF Init, CallInv, Idle
<1>5. CursorInv
  BY <1>1 DEF Init, CursorInv
<1>6. WholeInv /\ HeldInv /\ OpenedInv /\ CursorsServed
  BY <1>1 DEF Init, WholeInv, HeldInv, OpenedInv, CursorsServed
<1>7. QED
  BY <1>3, <1>4, <1>5, <1>6 DEF IInv

\* A state that is not open has no cursor: open() may begin.
LEMMA BeginOpenInv == ASSUME NEW h \in Shells, IInv, BeginOpen(h) PROVE IInv'
<1> DEFINE s == shell[h]
<1>1. /\ call = Idle /\ s # None /\ ~IsOpen(s) /\ opens < MaxOpens /\ opens' = opens + 1
      /\ call' = [op |-> "open", on |-> s, at |-> 1]
      /\ UNCHANGED <<shell, open, backend, opened, cursor>>
  BY DEF BeginOpen
<1>2. s \in States /\ s \in States \cup Cursors \cup {None}
  BY <1>1 DEF IInv, TypeOK
<1>3. Live' = Live
  BY <1>1 DEF Live
<1>4. TypeOK'
  <2>1. opens' \in 0..MaxOpens
    BY <1>1 DEF IInv, TypeOK
  <2>2. QED
    BY <1>1, <2>1 DEF IInv, TypeOK
<1>5. OpenedInv'
  BY <1>1 DEF IInv, TypeOK, OpenedInv
<1>6. \A c \in Live : cursor[c].state # s
  <2> SUFFICES ASSUME NEW c \in Live, cursor[c].state = s PROVE FALSE
    OBVIOUS
  <2>1. c \in Cursors /\ call.op = "idle"
    BY <1>1 DEF Live, Idle
  <2>2. CASE Kind[s] = "AnyReader"
    <3>1. cursor[c].owner = s
      BY <2>2 DEF IInv, CursorInv
    <3>2. open[s]
      BY <1>1, <3>1 DEF IInv, CursorsServed
    <3>3. QED
      BY <1>1, <2>2, <3>2 DEF IsOpen
  <2>3. CASE Kind[s] = "Reader"
    <3>1. cursor[c].backends = cursor[c].sources /\ cursor[c].sources # {}
      BY <2>1, <2>3 DEF IInv, CursorInv
    <3>2. PICK r \in cursor[c].backends : TRUE
      BY <3>1
    <3>3. r \in backend /\ r \in Readers /\ r[1] = s
      BY <3>1, <3>2 DEF IInv, CursorInv, CursorsServed, TypeOK
    <3>4. r = <<s, 1>>
      BY <3>3, <2>3, ReadersOfStates
    <3>5. QED
      BY <1>1, <2>3, <3>3, <3>4 DEF IsOpen
  <2>4. QED
    BY <1>2, <2>2, <2>3
<1>7. CallInv'
  <2>1. \A r \in Readers : opened'[r] < opens'
    BY <1>1 DEF IInv, OpenedInv, TypeOK
  <2>2. Kind[s] = "AnyReader" => \A r \in Readers : r[1] = s => (r \in backend <=> r[2] < 1)
    <3> SUFFICES ASSUME Kind[s] = "AnyReader", NEW r \in Readers, r[1] = s
                 PROVE  r \notin backend /\ ~(r[2] < 1)
      OBVIOUS
    <3>1. ~open[s]
      BY <1>1 DEF IsOpen
    <3>2. StateHeld(s, shell, cursor)
      BY DEF StateHeld
    <3>3. r \notin backend
      BY <1>1, <1>2, <3>1, <3>2 DEF IInv, WholeInv, Idle
    <3>4. ~(r[2] < 1)
      BY ReadersOfStates
    <3>5. QED
      BY <3>3, <3>4
  <2>3. call' \in [op : {"idle", "open", "destroy"}, on : States \cup Cursors \cup {None}, at : Nat]
    BY <1>1, <1>2
  <2>4. QED
    BY <1>1, <1>2, <1>3, <1>6, <2>1, <2>2, <2>3 DEF CallInv
<1>8. CursorInv'
  BY <1>1, <1>3 DEF IInv, CursorInv, Idle
<1>9. WholeInv' /\ HeldInv' /\ CursorsServed'
  BY <1>1, <1>3 DEF IInv, WholeInv, HeldInv, CursorsServed, Idle
<1>10. QED
  BY <1>4, <1>5, <1>7, <1>8, <1>9 DEF IInv

\* One more input is open; no cursor read it before.
LEMMA OpenReaderInv == IInv /\ OpenReader => IInv'
<1> SUFFICES ASSUME IInv, OpenReader PROVE IInv'
  OBVIOUS
<1> DEFINE n == <<call.on, call.at>>
<1>1. /\ call.op = "open" /\ n \in Readers /\ n \notin backend
      /\ backend' = backend \cup {n} /\ opened' = [opened EXCEPT ![n] = @ + 1]
      /\ call' = [call EXCEPT !.at = @ + 1]
      /\ UNCHANGED <<shell, open, opens, cursor>>
  BY DEF OpenReader
<1>2. Live' = Live /\ Live \subseteq Cursors
  BY <1>1 DEF Live
<1>3. /\ call \in [op : {"idle", "open", "destroy"}, on : States \cup Cursors \cup {None}, at : Nat]
      /\ call.on \in States /\ call.at \in Nat
  BY <1>1 DEF IInv, CallInv
<1>4. /\ call'.op = "open" /\ call'.on = call.on /\ call'.at = call.at + 1
      /\ call' \in [op : {"idle", "open", "destroy"}, on : States \cup Cursors \cup {None}, at : Nat]
  BY <1>1, <1>3
<1>5. /\ opened \in [Readers -> 0..MaxOpens] /\ opens \in 0..MaxOpens /\ opened[n] \in Nat
      /\ opened[n] < opens
  <2>1. opened \in [Readers -> 0..MaxOpens] /\ opens \in 0..MaxOpens
    BY DEF IInv, TypeOK
  <2>2. n[1] = call.on /\ n[2] = call.at /\ n[2] >= call.at
    BY <1>3
  <2>3. opened[n] < opens
    BY <1>1, <2>2 DEF IInv, CallInv
  <2>4. QED
    BY <1>1, <2>1, <2>3
<1>6. /\ opened' \in [Readers -> 0..MaxOpens] /\ opened'[n] = opened[n] + 1
      /\ \A r \in Readers : r # n => opened'[r] = opened[r]
  BY <1>1, <1>5
<1>7. TypeOK'
  BY <1>1, <1>4, <1>6 DEF IInv, TypeOK
<1>8. OpenedInv'
  <2> SUFFICES ASSUME NEW r \in Readers PROVE opened'[r] <= opens
    BY <1>1 DEF OpenedInv
  <2>1. CASE r = n
    BY <1>5, <1>6, <2>1
  <2>2. CASE r # n
    BY <1>6, <2>2 DEF IInv, OpenedInv
  <2>3. QED
    BY <2>1, <2>2
<1>9. CallInv'
  <2>1. ASSUME NEW r \in Readers, r[1] = call.on, r[2] >= call.at + 1 PROVE opened'[r] < opens
    <3>1. r # n /\ r[2] >= call.at
      BY <1>3, <2>1, ReadersOfStates
    <3>2. QED
      BY <1>1, <1>6, <2>1, <3>1 DEF IInv, CallInv
  <2>2. ASSUME Kind[call.on] = "AnyReader", NEW r \in Readers, r[1] = call.on
        PROVE  r \in backend' <=> r[2] < call.at + 1
    <3>1. r \in backend <=> r[2] < call.at
      BY <1>1, <2>2 DEF IInv, CallInv
    <3>2. r = n <=> r[2] = call.at
      BY <2>2, ReadersOfStates
    <3>3. QED
      BY <1>1, <1>3, <3>1, <3>2, ReadersOfStates
  <2>3. /\ \E h \in Shells : shell[h] = call.on
        /\ \A c \in Live : cursor[c].state # call.on
    BY <1>1 DEF IInv, CallInv
  <2>4. QED
    BY <1>1, <1>2, <1>3, <1>4, <2>1, <2>2, <2>3 DEF CallInv
<1>10. CursorInv'
  BY <1>1, <1>2, <1>4 DEF IInv, CursorInv
<1>11. WholeInv'
  <2> SUFFICES ASSUME NEW s \in States, StateHeld(s, shell, cursor), Kind[s] = "AnyReader",
                      s # call.on, NEW r \in Readers, r[1] = s
               PROVE  r \in backend' <=> open[s]
    BY <1>1, <1>4 DEF WholeInv
  <2>1. r # n
    OBVIOUS
  <2>2. QED
    BY <1>1, <2>1 DEF IInv, WholeInv
<1>12. HeldInv'
  <2>1. StateHeld(call.on, shell, cursor)
    BY <1>1 DEF IInv, CallInv, StateHeld
  <2>2. ReaderHeld(n, shell, cursor)
    BY <2>1 DEF ReaderHeld
  <2>3. QED
    BY <1>1, <2>2 DEF IInv, HeldInv
<1>13. CursorsServed'
  <2> SUFFICES ASSUME NEW c \in Live
               PROVE  /\ \A r \in cursor[c].backends :
                           r \in backend' /\ opened'[r] = cursor[c].opening[r]
                      /\ cursor[c].owner # None => open[cursor[c].owner]
    BY <1>1, <1>2 DEF CursorsServed
  <2>1. ASSUME NEW r \in cursor[c].backends
        PROVE  r \in backend' /\ opened'[r] = cursor[c].opening[r]
    <3>1. r \in backend /\ opened[r] = cursor[c].opening[r]
      BY <2>1 DEF IInv, CursorsServed
    <3>2. r \in Readers /\ r # n
      BY <1>1, <3>1 DEF IInv, TypeOK
    <3>3. QED
      BY <1>1, <1>6, <3>1, <3>2
  <2>2. QED
    BY <2>1 DEF IInv, CursorsServed
<1>14. QED
  BY <1>7, <1>8, <1>9, <1>10, <1>11, <1>12, <1>13 DEF IInv

\* All inputs of the state are open, and so is the state.
LEMMA OpenDoneInv == IInv /\ OpenDone => IInv'
<1> SUFFICES ASSUME IInv, OpenDone PROVE IInv'
  OBVIOUS
<1>1. /\ call.op = "open" /\ <<call.on, call.at>> \notin Readers
      /\ open' = [open EXCEPT ![call.on] = TRUE] /\ call' = Idle
      /\ UNCHANGED <<shell, backend, opened, opens, cursor>>
  BY DEF OpenDone
<1>2. call.on \in States /\ call.at \in Nat /\ \A c \in Live : cursor[c].state # call.on
  BY <1>1 DEF IInv, CallInv
<1>3. Live' = Live
  BY <1>1 DEF Live
<1>4. /\ open' \in [States -> BOOLEAN] /\ open'[call.on]
      /\ \A s \in States : open[s] => open'[s]
      /\ \A s \in States : s # call.on => open'[s] = open[s]
  BY <1>1, <1>2 DEF IInv, TypeOK
<1>5. TypeOK' /\ OpenedInv'
  BY <1>1, <1>4 DEF IInv, TypeOK, OpenedInv, Idle
<1>6. CallInv'
  BY <1>1 DEF CallInv, Idle
<1>7. CursorInv'
  BY <1>1, <1>3 DEF IInv, CursorInv, Idle
<1>8. WholeInv'
  <2> SUFFICES ASSUME NEW s \in States, StateHeld(s, shell, cursor), Kind[s] = "AnyReader",
                      NEW r \in Readers, r[1] = s
               PROVE  r \in backend <=> open'[s]
    BY <1>1 DEF WholeInv
  <2>1. CASE s = call.on
    <3>1. r[2] < call.at
      <4>1. call.at = 0 \/ call.at > Inputs[call.on]
        BY <1>1, <1>2, ReadersOfStates
      <4>2. call.at # 0
        BY <1>1 DEF IInv, CallInv
      <4>3. QED
        BY <1>2, <2>1, <4>1, <4>2, ReadersOfStates
    <3>2. r \in backend
      BY <1>1, <2>1, <3>1 DEF IInv, CallInv
    <3>3. QED
      BY <1>4, <2>1, <3>2
  <2>2. CASE s # call.on
    BY <1>4, <2>2 DEF IInv, WholeInv
  <2>3. QED
    BY <2>1, <2>2
<1>9. HeldInv'
  BY <1>1 DEF IInv, HeldInv
<1>10. CursorsServed'
  <2> SUFFICES ASSUME NEW c \in Live
               PROVE  /\ \A r \in cursor[c].backends :
                           r \in backend /\ opened[r] = cursor[c].opening[r]
                      /\ cursor[c].owner # None => open'[cursor[c].owner]
    BY <1>1, <1>3 DEF CursorsServed
  <2>1. cursor[c].owner # None => cursor[c].owner \in States
    BY DEF IInv, TypeOK, CursorType, Live
  <2>2. QED
    BY <1>4, <2>1 DEF IInv, CursorsServed
<1>11. QED
  BY <1>5, <1>6, <1>7, <1>8, <1>9, <1>10 DEF IInv

\* Every input of a state without cursors is closed, by close() or by an open() that
\* fails; nobody else notices.
LEMMA CloseAllKeeps ==
  ASSUME IInv, NEW s \in States, \A c \in Live : cursor[c].state # s,
         backend' = {r \in backend : r[1] # s}, open' = [open EXCEPT ![s] = FALSE],
         call' = Idle, call.op = "open" => call.on = s, call.op # "destroy",
         UNCHANGED <<shell, opened, opens, cursor>>
  PROVE  IInv'
<1>1. Live' = Live
  BY DEF Live
<1>2. /\ open' \in [States -> BOOLEAN] /\ ~open'[s]
      /\ \A t \in States : t # s => open'[t] = open[t]
  BY DEF IInv, TypeOK
<1>3. TypeOK' /\ OpenedInv'
  BY <1>2 DEF IInv, TypeOK, OpenedInv, Idle
<1>4. CallInv'
  BY DEF CallInv, Idle
<1>5. CursorInv'
  BY <1>1 DEF IInv, CursorInv, Idle
<1>6. WholeInv'
  <2> SUFFICES ASSUME NEW t \in States, StateHeld(t, shell, cursor), Kind[t] = "AnyReader",
                      NEW r \in Readers, r[1] = t
               PROVE  r \in backend' <=> open'[t]
    BY DEF WholeInv
  <2>1. CASE t = s
    BY <1>2, <2>1
  <2>2. CASE t # s
    BY <1>2, <2>2 DEF IInv, WholeInv
  <2>3. QED
    BY <2>1, <2>2
<1>7. HeldInv'
  BY DEF IInv, HeldInv
<1>8. CursorsServed'
  <2> SUFFICES ASSUME NEW c \in Live
               PROVE  /\ \A r \in cursor[c].backends :
                           r \in backend' /\ opened[r] = cursor[c].opening[r]
                      /\ cursor[c].owner # None => open'[cursor[c].owner]
    BY <1>1 DEF CursorsServed
  <2>1. cursor[c].state # s
    OBVIOUS
  <2>2. cursor[c].owner # None => cursor[c].owner \in States /\ cursor[c].owner # s
    BY <2>1 DEF IInv, CursorInv, TypeOK, CursorType, Live
  <2>3. cursor[c].owner # None => open'[cursor[c].owner]
    BY <1>2, <2>2 DEF IInv, CursorsServed
  <2>4. ASSUME NEW r \in cursor[c].backends PROVE r \in backend' /\ opened[r] = cursor[c].opening[r]
    <3>1. r \in backend /\ opened[r] = cursor[c].opening[r]
      BY <2>4 DEF IInv, CursorsServed
    <3>2. r[1] = cursor[c].state
      BY <2>4 DEF IInv, CursorInv
    <3>3. QED
      BY <2>1, <3>1, <3>2
  <2>5. QED
    BY <2>3, <2>4
<1>9. QED
  BY <1>3, <1>4, <1>5, <1>6, <1>7, <1>8 DEF IInv

LEMMA OpenFailsInv == IInv /\ OpenFails => IInv'
<1> SUFFICES ASSUME IInv, OpenFails PROVE IInv'
  OBVIOUS
<1>1. call.on \in States /\ \A c \in Live : cursor[c].state # call.on
  BY DEF OpenFails, IInv, CallInv
<1>2. QED
  BY <1>1, CloseAllKeeps DEF OpenFails

LEMMA CloseInv == ASSUME NEW h \in Shells, IInv, Close(h) PROVE IInv'
<1>1. shell[h] \in States /\ \A c \in Live : cursor[c].state # shell[h]
  BY DEF Close, IInv, TypeOK
<1>2. /\ backend' = {r \in backend : r[1] # shell[h]}
      /\ open' = [open EXCEPT ![shell[h]] = FALSE]
      /\ call' = Idle /\ call.op = "idle"
      /\ UNCHANGED <<shell, opened, opens, cursor>>
  BY DEF Close, Idle
<1>3. QED
  BY <1>1, <1>2, CloseAllKeeps

\* Shells that are moved or destroyed.
LEMMA ShellsInv ==
  ASSUME IInv, NEW shells \in [Shells -> States \cup {None}], Release(shells, cursor),
         \A h \in Shells : shells[h] = None \/ \E k \in Shells : shells[h] = shell[k],
         call = Idle, UNCHANGED <<open, opened, opens, call>>
  PROVE  IInv'
<1>1. cursor \in [Cursors -> CursorType]
  BY DEF IInv, TypeOK
<1>2. \A s \in States : StateHeld(s, shells, cursor) => StateHeld(s, shell, cursor)
  BY DEF StateHeld
<1>3. \A c \in Cursors : cursor[c].state # None =>
        c \in Live /\ cursor[c].backends \subseteq cursor[c].sources
  BY DEF IInv, CursorInv, Live
<1>4. call.op = "idle" /\ call'.op = "idle"
  BY DEF Idle
<1>5. TypeOK' /\ OpenedInv' /\ WholeInv' /\ HeldInv' /\ CursorsServed'
  BY <1>1, <1>2, <1>3, <1>4, ReleaseKeeps
<1>6. cursor' = cursor /\ Live' = Live
  BY DEF Release, Live
<1>7. CallInv'
  BY DEF CallInv, Idle
<1>8. CursorInv'
  BY <1>6 DEF IInv, CursorInv
<1>9. QED
  BY <1>5, <1>7, <1>8 DEF IInv

LEMMA MoveInv == ASSUME NEW h \in Shells, NEW k \in Shells, IInv, Move(h, k) PROVE IInv'
<1> DEFINE shells == [shell EXCEPT ![k] = shell[h], ![h] = None]
<1>1. shell \in [Shells -> States \cup {None}]
  BY DEF IInv, TypeOK
<1>2. /\ shells \in [Shells -> States \cup {None}]
      /\ \A g \in Shells : shells[g] = None \/ \E j \in Shells : shells[g] = shell[j]
  BY <1>1
<1>3. QED
  BY <1>2, ShellsInv DEF Move

LEMMA DestroyShellInv == ASSUME NEW h \in Shells, IInv, DestroyShell(h) PROVE IInv'
<1> DEFINE shells == [shell EXCEPT ![h] = None]
<1>1. shell \in [Shells -> States \cup {None}]
  BY DEF IInv, TypeOK
<1>2. /\ shells \in [Shells -> States \cup {None}]
      /\ \A g \in Shells : shells[g] = None \/ \E j \in Shells : shells[g] = shell[j]
  BY <1>1
<1>3. QED
  BY <1>2, ShellsInv DEF DestroyShell

-----------------------------------------------------------------------------
\* A cursor begins with all it was made to read, in the current opening.
LEMMA MessagesInv == ASSUME NEW h \in Shells, NEW c \in Cursors, IInv, Messages(h, c) PROVE IInv'
<1> DEFINE s == shell[h]
<1>1. /\ call = Idle /\ s # None /\ IsOpen(s) /\ c \notin Live
      /\ UNCHANGED <<shell, open, backend, opened, opens, call>>
  BY DEF Messages
<1>2. PICK wanted \in SUBSET {r \in Readers : r[1] = s} :
        /\ Kind[s] = "Reader" => wanted # {}
        /\ cursor' = [cursor EXCEPT ![c] = NewCursor(s, wanted)]
  BY DEF Messages
<1>3. s \in States /\ cursor \in [Cursors -> CursorType] /\ opened \in [Readers -> Nat]
  BY <1>1 DEF IInv, TypeOK
<1>4. /\ cursor'[c] = NewCursor(s, wanted)
      /\ \A d \in Cursors : d # c => cursor'[d] = cursor[d]
      /\ \A d \in Live : d # c
  BY <1>1, <1>2, <1>3
<1>5. /\ cursor'[c].state = s /\ cursor'[c].sources = wanted /\ cursor'[c].backends = wanted
      /\ cursor'[c].owner = IF Kind[s] = "AnyReader" THEN s ELSE None
      /\ cursor'[c].opening = opened
  BY <1>4 DEF NewCursor
<1>6. Live' = Live \cup {c}
  BY <1>3, <1>4, <1>5 DEF Live
<1>7. TypeOK'
  <2>1. NewCursor(s, wanted) \in CursorType
    BY <1>2, <1>3 DEF NewCursor, CursorType
  <2>2. cursor' \in [Cursors -> CursorType]
    BY <1>2, <1>3, <2>1
  <2>3. QED
    BY <1>1, <2>2 DEF IInv, TypeOK
<1>8. OpenedInv' /\ CallInv'
  BY <1>1 DEF IInv, OpenedInv, CallInv, Idle
<1>9. \A r \in Readers : r[1] = s => r \in backend
  <2> SUFFICES ASSUME NEW r \in Readers, r[1] = s PROVE r \in backend
    OBVIOUS
  <2>1. CASE Kind[s] = "AnyReader"
    <3>1. open[s] /\ StateHeld(s, shell, cursor)
      BY <1>1, <2>1 DEF IsOpen, StateHeld
    <3>2. QED
      BY <1>1, <1>3, <2>1, <3>1 DEF IInv, WholeInv, Idle
  <2>2. CASE Kind[s] = "Reader"
    <3>1. r = <<s, 1>>
      BY <1>3, <2>2, ReadersOfStates
    <3>2. QED
      BY <1>1, <2>2, <3>1 DEF IsOpen
  <2>3. QED
    BY <1>3, <2>1, <2>2
<1>10. CursorInv'
  <2>1. ASSUME NEW d \in Cursors \ Live' PROVE cursor'[d] = NoCursor
    BY <1>4, <1>6, <2>1 DEF IInv, CursorInv
  <2>2. ASSUME NEW d \in Live, d # c
        PROVE  cursor'[d] = cursor[d]
    BY <1>4, <2>2 DEF Live
  <2>3. QED
    BY <1>1, <1>2, <1>4, <1>5, <1>6, <2>1, <2>2 DEF IInv, CursorInv
<1>11. \A t \in States : StateHeld(t, shell, cursor') => StateHeld(t, shell, cursor)
  BY <1>4, <1>5, <1>3 DEF StateHeld
<1>12. WholeInv'
  BY <1>1, <1>11 DEF IInv, WholeInv
<1>13. HeldInv'
  <2> SUFFICES ASSUME NEW r \in backend PROVE ReaderHeld(r, shell, cursor')
    BY <1>1 DEF HeldInv
  <2>1. r \in Readers /\ ReaderHeld(r, shell, cursor)
    BY DEF IInv, HeldInv, TypeOK
  <2>2. cursor[c] = NoCursor
    BY <1>1 DEF IInv, CursorInv
  <2>3. r[1] \in States
    BY <2>1, ReadersOfStates
  <2>4. StateHeld(r[1], shell, cursor) => StateHeld(r[1], shell, cursor')
    BY <1>4, <2>2, <2>3 DEF StateHeld, NoCursor
  <2>5. \A d \in Cursors : r \in cursor[d].sources => r \in cursor'[d].sources
    BY <1>4, <2>2 DEF NoCursor
  <2>6. QED
    BY <2>1, <2>4, <2>5 DEF ReaderHeld
<1>14. CursorsServed'
  <2>1. ASSUME NEW r \in wanted PROVE r \in backend /\ opened[r] = cursor'[c].opening[r]
    BY <1>2, <1>5, <1>9, <2>1
  <2>2. cursor'[c].owner # None => open[cursor'[c].owner]
    BY <1>1, <1>5 DEF IsOpen
  <2>3. ASSUME NEW d \in Live
        PROVE  /\ \A r \in cursor'[d].backends :
                    r \in backend /\ opened[r] = cursor'[d].opening[r]
               /\ cursor'[d].owner # None => open[cursor'[d].owner]
    <3>1. cursor'[d] = cursor[d]
      BY <1>4, <2>3 DEF Live
    <3>2. QED
      BY <3>1 DEF IInv, CursorsServed
  <2>4. QED
    BY <1>1, <1>5, <1>6, <2>1, <2>2, <2>3 DEF CursorsServed
<1>15. QED
  BY <1>7, <1>8, <1>10, <1>12, <1>13, <1>14 DEF IInv

\* The destructor of a cursor begins.
LEMMA BeginDestroyInv == ASSUME NEW c \in Cursors, IInv, BeginDestroy(c) PROVE IInv'
<1>1. /\ call = Idle /\ c \in Live /\ call' = [op |-> "destroy", on |-> c, at |-> 0]
      /\ UNCHANGED <<shell, open, backend, opened, opens, cursor>>
  BY DEF BeginDestroy
<1>2. Live' = Live
  BY <1>1 DEF Live
<1>3. TypeOK' /\ OpenedInv'
  BY <1>1 DEF IInv, TypeOK, OpenedInv
<1>4. CallInv'
  BY <1>1, <1>2 DEF CallInv
<1>5. CursorInv'
  BY <1>1, <1>2 DEF IInv, CursorInv, Idle
<1>6. WholeInv' /\ HeldInv' /\ CursorsServed'
  BY <1>1, <1>2 DEF IInv, WholeInv, HeldInv, CursorsServed, Idle
<1>7. QED
  BY <1>3, <1>4, <1>5, <1>6 DEF IInv

\* The cursor being destroyed gives up one of its members: a backend's cursor, or the
\* state of a reader whose backend it no longer reads.
LEMMA MemberInv ==
  ASSUME IInv, call.op = "destroy", NEW now \in CursorType,
         now.state = cursor[call.on].state, now.owner = cursor[call.on].owner,
         now.opening = cursor[call.on].opening,
         now.sources \subseteq cursor[call.on].sources,
         now.backends \subseteq cursor[call.on].backends,
         now.backends \subseteq now.sources,
         Release(shell, [cursor EXCEPT ![call.on] = now]),
         UNCHANGED <<open, opened, opens, call>>
  PROVE  IInv'
<1> DEFINE c == call.on
           cursors == [cursor EXCEPT ![c] = now]
<1>1. c \in Live /\ c \in Cursors
  BY DEF IInv, CallInv, Live
<1>2. /\ shell \in [Shells -> States \cup {None}] /\ cursor \in [Cursors -> CursorType]
      /\ cursors \in [Cursors -> CursorType]
  BY DEF IInv, TypeOK
<1>3. cursors[c] = now /\ \A d \in Cursors : d # c => cursors[d] = cursor[d]
  BY <1>1, <1>2
<1>4. \A s \in States : StateHeld(s, shell, cursors) => StateHeld(s, shell, cursor)
  BY <1>1, <1>3 DEF StateHeld
<1>5. \A d \in Cursors : cursors[d].state # None =>
        /\ d \in Live
        /\ cursors[d].backends \subseteq cursor[d].backends
        /\ cursors[d].backends \subseteq cursors[d].sources
        /\ cursors[d].owner = cursor[d].owner
        /\ cursors[d].opening = cursor[d].opening
  <2> SUFFICES ASSUME NEW d \in Cursors, cursors[d].state # None
               PROVE  /\ d \in Live
                      /\ cursors[d].backends \subseteq cursor[d].backends
                      /\ cursors[d].backends \subseteq cursors[d].sources
                      /\ cursors[d].owner = cursor[d].owner
                      /\ cursors[d].opening = cursor[d].opening
    OBVIOUS
  <2>1. CASE d = c
    BY <1>1, <1>3, <2>1
  <2>2. CASE d # c
    BY <1>3, <2>2 DEF IInv, CursorInv, Live
  <2>3. QED
    BY <2>1, <2>2
<1>6. TypeOK' /\ OpenedInv' /\ WholeInv' /\ HeldInv' /\ CursorsServed'
  <2>1. call.op # "open" /\ call'.op \in {"idle", "destroy"}
    OBVIOUS
  <2>2. Release(shell, cursors) /\ UNCHANGED <<open, opened, opens>>
    OBVIOUS
  <2>3. QED
    BY ONLY InputsAssumption, NamesAssumption, IInv, <1>2, <1>4, <1>5, <2>1, <2>2, ReleaseKeeps
<1>7. cursor' = cursors /\ shell' = shell /\ call' = call
  BY DEF Release
<1>8. Live' = Live
  BY <1>1, <1>3, <1>7 DEF Live
<1>9. CallInv'
  BY <1>7, <1>8 DEF IInv, CallInv
<1>10. CursorInv'
  <2>1. ASSUME NEW d \in Cursors \ Live PROVE cursors[d] = NoCursor
    BY <1>1, <1>3, <2>1 DEF IInv, CursorInv
  <2>2. ASSUME NEW d \in Live, d # c PROVE cursors[d] = cursor[d]
    BY <1>3, <2>2 DEF Live
  <2>3. /\ cursors[c].backends \subseteq cursors[c].sources
        /\ \A r \in cursors[c].sources : r[1] = cursors[c].state
        /\ cursors[c].owner = IF Kind[cursors[c].state] = "AnyReader" THEN cursors[c].state ELSE None
    BY <1>1, <1>3 DEF IInv, CursorInv
  <2>4. QED
    BY <1>7, <1>8, <2>1, <2>2, <2>3 DEF IInv, CursorInv
<1>11. QED
  BY <1>6, <1>9, <1>10 DEF IInv

LEMMA DestroySourceInv == IInv /\ DestroySource => IInv'
<1> SUFFICES ASSUME IInv, DestroySource PROVE IInv'
  OBVIOUS
<1> DEFINE c == call.on
<1>1. call.op = "destroy" /\ UNCHANGED <<open, opened, opens, call>>
  BY DEF DestroySource
<1>2. c \in Live /\ c \in Cursors /\ cursor \in [Cursors -> CursorType]
  BY <1>1 DEF IInv, CallInv, Live, TypeOK
<1>3. cursor[c] \in CursorType /\ cursor[c].backends \subseteq cursor[c].sources
  BY <1>2 DEF IInv, CursorInv
<1>4. PICK r \in cursor[c].sources :
        IF r \in cursor[c].backends
        THEN Release(shell, [cursor EXCEPT ![c].backends = @ \ {r}])
        ELSE Release(shell, [cursor EXCEPT ![c].sources = @ \ {r}])
  BY DEF DestroySource
<1>5. CASE r \in cursor[c].backends
  <2> DEFINE now == [cursor[c] EXCEPT !.backends = @ \ {r}]
  <2>1. /\ now \in CursorType
        /\ now.state = cursor[c].state /\ now.owner = cursor[c].owner
        /\ now.opening = cursor[c].opening
        /\ now.sources = cursor[c].sources /\ now.backends = cursor[c].backends \ {r}
    BY <1>3 DEF CursorType
  <2>2. [cursor EXCEPT ![c].backends = @ \ {r}] = [cursor EXCEPT ![c] = now]
    BY <1>2
  <2>3. Release(shell, [cursor EXCEPT ![c] = now])
    BY <1>4, <1>5, <2>2
  <2> HIDE DEF now
  <2>4. QED
    BY <1>1, <1>3, <2>1, <2>3, MemberInv
<1>6. CASE r \notin cursor[c].backends
  <2> DEFINE now == [cursor[c] EXCEPT !.sources = @ \ {r}]
  <2>1. /\ now \in CursorType
        /\ now.state = cursor[c].state /\ now.owner = cursor[c].owner
        /\ now.opening = cursor[c].opening
        /\ now.sources = cursor[c].sources \ {r} /\ now.backends = cursor[c].backends
    BY <1>3 DEF CursorType
  <2>2. [cursor EXCEPT ![c].sources = @ \ {r}] = [cursor EXCEPT ![c] = now]
    BY <1>2
  <2>3. Release(shell, [cursor EXCEPT ![c] = now])
    BY <1>4, <1>6, <2>2
  <2>4. now.backends \subseteq now.sources
    BY <1>3, <1>6, <2>1
  <2> HIDE DEF now
  <2>5. QED
    BY <1>1, <1>3, <2>1, <2>3, <2>4, MemberInv
<1>7. QED
  BY <1>5, <1>6

\* The cursor is gone, and with it the last holder of its AnyReader perhaps.
LEMMA DestroyDoneInv == IInv /\ DestroyDone => IInv'
<1> SUFFICES ASSUME IInv, DestroyDone PROVE IInv'
  OBVIOUS
<1> DEFINE c == call.on
           cursors == [cursor EXCEPT ![c] = NoCursor]
<1>1. /\ call.op = "destroy" /\ Release(shell, cursors) /\ call' = Idle
      /\ UNCHANGED <<open, opened, opens>>
  BY DEF DestroyDone
<1>2. c \in Live /\ c \in Cursors /\ cursor \in [Cursors -> CursorType]
  BY <1>1 DEF IInv, CallInv, Live, TypeOK
<1>3. NoCursor \in CursorType /\ NoCursor.state = None /\ NoCursor.owner = None
  BY DEF NoCursor, CursorType
<1>4. /\ cursors \in [Cursors -> CursorType] /\ cursors[c] = NoCursor
      /\ \A d \in Cursors : d # c => cursors[d] = cursor[d]
  BY <1>2, <1>3
<1>5. \A s \in States : StateHeld(s, shell, cursors) => StateHeld(s, shell, cursor)
  BY <1>3, <1>4 DEF StateHeld
<1>6. \A d \in Cursors : cursors[d].state # None =>
        d # c /\ d \in Live /\ cursors[d] = cursor[d] /\ cursors[d].backends \subseteq cursors[d].sources
  BY <1>3, <1>4 DEF IInv, CursorInv, Live
<1>7. TypeOK' /\ OpenedInv' /\ WholeInv' /\ HeldInv' /\ CursorsServed'
  <2>1. call.op # "open" /\ call'.op \in {"idle", "destroy"}
    BY <1>1 DEF Idle
  <2>2. shell \in [Shells -> States \cup {None}]
    BY DEF IInv, TypeOK
  <2> HIDE DEF cursors
  <2>3. QED
    BY <1>1, <1>4, <1>5, <1>6, <2>1, <2>2, ReleaseKeeps
<1>8. cursor' = cursors /\ shell' = shell
  BY <1>1 DEF Release
<1>9. Live' = Live \ {c}
  BY <1>3, <1>4, <1>8 DEF Live
<1>10. CallInv'
  BY <1>1 DEF CallInv, Idle
<1>11. CursorInv'
  <2>1. ASSUME NEW d \in Cursors \ Live' PROVE cursors[d] = NoCursor
    BY <1>4, <1>9, <2>1 DEF IInv, CursorInv
  <2>2. ASSUME NEW d \in Live' PROVE d \in Live /\ d # c /\ cursors[d] = cursor[d]
    BY <1>4, <1>9, <2>2 DEF Live
  <2>3. QED
    BY <1>1, <1>8, <2>1, <2>2 DEF IInv, CursorInv
<1>12. QED
  BY <1>7, <1>10, <1>11 DEF IInv

\* Nothing happens.
LEMMA StutterInv == IInv /\ UNCHANGED vars => IInv'
<1> SUFFICES ASSUME IInv, UNCHANGED vars PROVE IInv'
  OBVIOUS
<1>1. UNCHANGED <<shell, open, backend, opened, opens, cursor, call>> /\ Live' = Live
  BY DEF vars, Live
<1>2. TypeOK' /\ OpenedInv' /\ CallInv' /\ CursorInv'
  BY <1>1 DEF IInv, TypeOK, OpenedInv, CallInv, CursorInv
<1>3. WholeInv' /\ HeldInv' /\ CursorsServed'
  BY <1>1 DEF IInv, WholeInv, HeldInv, CursorsServed
<1>4. QED
  BY <1>2, <1>3 DEF IInv

-----------------------------------------------------------------------------
\* Ownership and the phases of the running call, together.
THEOREM Invariance == Spec => []IInv
<1>1. Init => IInv
  BY InitInv
<1>2. IInv /\ [Next]_vars => IInv'
  <2> SUFFICES ASSUME IInv, [Next]_vars PROVE IInv'
    OBVIOUS
  <2>1. ASSUME NEW h \in Shells, BeginOpen(h) \/ Close(h) \/ DestroyShell(h) PROVE IInv'
    BY <2>1, BeginOpenInv, CloseInv, DestroyShellInv
  <2>2. ASSUME NEW h \in Shells, NEW k \in Shells, Move(h, k) PROVE IInv'
    BY <2>2, MoveInv
  <2>3. ASSUME NEW h \in Shells, NEW c \in Cursors, Messages(h, c) PROVE IInv'
    BY <2>3, MessagesInv
  <2>4. ASSUME NEW c \in Cursors, BeginDestroy(c) PROVE IInv'
    BY <2>4, BeginDestroyInv
  <2>5. CASE OpenReader \/ OpenDone \/ OpenFails
    BY <2>5, OpenReaderInv, OpenDoneInv, OpenFailsInv
  <2>6. CASE DestroySource \/ DestroyDone
    BY <2>6, DestroySourceInv, DestroyDoneInv
  <2>7. CASE Gone \/ UNCHANGED vars
    BY <2>7, StutterInv DEF Gone
  <2>8. QED
    BY <2>1, <2>2, <2>3, <2>4, <2>5, <2>6, <2>7 DEF Next
<1>3. QED
  BY <1>1, <1>2, PTL DEF Spec

\* Types of the state (rosbags.cpp:31-68, 162-185).
THEOREM TypeCorrect == Spec => []TypeOK
<1>1. IInv => TypeOK
  BY DEF IInv
<1>2. QED
  BY <1>1, Invariance, PTL

\* A cursor reads open backends, in the opening it was made in, until it is destroyed,
\* whatever happens to the shells (docs/architecture.md, 5.2; rosbags.cpp:44-63).
THEOREM Served == Spec => []CursorsServed
<1>1. IInv => CursorsServed
  BY DEF IInv
<1>2. QED
  BY <1>1, Invariance, PTL

\* What nobody holds is closed, and an AnyReader is open with all of its inputs or with
\* none (rosbags.cpp:55-63, 286-312).
THEOREM Released == Spec => []NothingLeaks
<1>1. IInv => NothingLeaks
  <2> SUFFICES ASSUME IInv PROVE NothingLeaks
    OBVIOUS
  <2>1. \A r \in backend : ReaderHeld(r, shell, cursor)
    BY DEF IInv, HeldInv
  <2>2. ASSUME call = Idle, NEW s \in States, StateHeld(s, shell, cursor), Kind[s] = "AnyReader"
        PROVE  {r \in Readers : r[1] = s} \cap backend =
               IF open[s] THEN {r \in Readers : r[1] = s} ELSE {}
    <3>1. \A r \in Readers : r[1] = s => (r \in backend <=> open[s])
      BY <2>2 DEF IInv, WholeInv, Idle
    <3>2. QED
      BY <3>1
  <2>3. QED
    BY <2>1, <2>2 DEF NothingLeaks
<1>2. QED
  BY <1>1, Invariance, PTL

-----------------------------------------------------------------------------
\* Every step that says what becomes of the metadata is a step of ReaderLifecycle.
THEOREM Lifecycle == OpenSpec => Spec
<1>1. OpenInit => Init
  BY DEF OpenInit
<1>2. [OpenNext]_openVars => [Next]_vars
  BY DEF OpenNext, openVars, Next, ReadInput, Merge, RefuseInputs, CloseInputs
<1>3. QED
  BY <1>1, <1>2, PTL DEF OpenSpec, Spec

\* Cursors are served while inputs are opened with new contents, renumbered and merged.
THEOREM ServedWhileOpening == OpenSpec => []CursorsServed
BY Lifecycle, Served, PTL

\* Nothing leaks when inputs that opened are refused for their kinds.
THEOREM ReleasedWhenRefused == OpenSpec => []NothingLeaks
BY Lifecycle, Released, PTL

-----------------------------------------------------------------------------
\* An open AnyReader has inputs of one kind, and one that is being opened is not open.
KindInv ==
  /\ \A s \in States : open[s] /\ Kind[s] = "AnyReader" => OneKind(s)
  /\ call.op = "open" /\ Kind[call.on] = "AnyReader" => ~open[call.on]

\* What an input reports when it is opened says nothing of the inputs of other states.
LEMMA ReadInputKind == IInv /\ KindInv /\ ReadInput => KindInv'
<1> SUFFICES ASSUME IInv, KindInv, ReadInput PROVE KindInv'
  OBVIOUS
<1>1. PICK stored \in Stored(<<call.on, call.at>>) :
        path' = path /\ found' = [found EXCEPT ![<<call.on, call.at>>] = stored]
  BY DEF ReadInput
<1>2. call.op = "open" /\ open' = open /\ call'.op = call.op /\ call'.on = call.on
  <2>1. call' = [call EXCEPT !.at = @ + 1] /\ call.op = "open" /\ open' = open
    BY DEF ReadInput, OpenReader
  <2>2. call \in [op : {"idle", "open", "destroy"}, on : States \cup Cursors \cup {None}, at : Nat]
    BY DEF IInv, CallInv
  <2>3. QED
    BY <2>1, <2>2
<1>3. ASSUME NEW s \in States, open[s], Kind[s] = "AnyReader" PROVE OneKind(s)'
  <2>1. s # call.on
    BY <1>2, <1>3 DEF KindInv
  <2>2. \A r \in Readers : r[1] = s => StorageKind(r)' = StorageKind(r)
    <3> SUFFICES ASSUME NEW r \in Readers, r[1] = s PROVE StorageKind(r)' = StorageKind(r)
      OBVIOUS
    <3>1. r # <<call.on, call.at>>
      BY <2>1
    <3>2. path'[r] = path[r] /\ found'[r] = found[r]
      BY <1>1, <3>1
    <3>3. QED
      BY <3>2 DEF StorageKind
  <2>3. OneKind(s)
    BY <1>3 DEF KindInv
  <2>4. QED
    BY <2>2, <2>3 DEF OneKind
<1>4. QED
  BY <1>2, <1>3 DEF KindInv

\* What ~Mixed says of the first input holds between any two.
LEMMA Unmixed == ASSUME NEW s \in States, ~Mixed(s) PROVE OneKind(s)
<1> SUFFICES ASSUME NEW q \in Readers, NEW r \in Readers, q[1] = s, r[1] = s
             PROVE  StorageKind(q) = "Rosbag1" <=> StorageKind(r) = "Rosbag1"
  BY DEF OneKind
<1>1. q = <<s, q[2]>> /\ r = <<s, r[2]>> /\ q[2] \in 1..Inputs[s] /\ r[2] \in 1..Inputs[s]
  BY ReadersOfStates
<1>2. \A i \in 1..Inputs[s] :
        StorageKind(<<s, i>>) = "Rosbag1" <=> StorageKind(<<s, 1>>) = "Rosbag1"
  BY DEF Mixed
<1>3. QED
  BY <1>1, <1>2

\* open() has compared the inputs when it ends.
LEMMA MergeKind == IInv /\ KindInv /\ Merge => KindInv'
<1> SUFFICES ASSUME IInv, KindInv, Merge PROVE KindInv'
  OBVIOUS
<1>1. /\ open' = [open EXCEPT ![call.on] = TRUE] /\ call' = Idle /\ UNCHANGED <<path, found>>
      /\ Kind[call.on] = "AnyReader" => ~Mixed(call.on)
  BY DEF Merge, OpenDone
<1>2. open \in [States -> BOOLEAN]
  BY DEF IInv, TypeOK
<1>3. ASSUME NEW s \in States, open'[s], Kind[s] = "AnyReader" PROVE OneKind(s)'
  <2>1. OneKind(s)
    <3>1. CASE s = call.on
      BY <1>1, <1>3, <3>1, Unmixed
    <3>2. CASE s # call.on
      BY <1>1, <1>2, <1>3, <3>2 DEF KindInv
    <3>3. QED
      BY <3>1, <3>2
  <2>2. QED
    BY <1>1, <2>1 DEF OneKind, StorageKind
<1>4. QED
  BY <1>1, <1>3 DEF KindInv, Idle

\* Every other step leaves what was found alone and opens nothing.
LEMMA OtherKind ==
  ASSUME IInv, KindInv, UNCHANGED <<path, found>>,
         \A s \in States : open'[s] => open[s],
         call'.op = "open" =>
           \/ call'.on = call.on /\ call.op = "open"
           \/ Kind[call'.on] = "AnyReader" => ~open[call'.on],
         call'.op = "open" => call'.on \in States
  PROVE  KindInv'
<1>1. ASSUME NEW s \in States PROVE OneKind(s)' <=> OneKind(s)
  BY DEF OneKind, StorageKind
<1>2. QED
  BY <1>1 DEF KindInv

\* A state of one kind stays so: an AnyReader never reads ROS1 and ROS2 inputs together,
\* whatever its files hold when they are opened again (rosbags.cpp:258-264).
LEMMA KindInductive == OpenSpec => []KindInv
<1>1. OpenInit => KindInv
  BY DEF OpenInit, Init, KindInv, Idle
<1>2. IInv /\ IInv' /\ KindInv /\ [OpenNext]_openVars => KindInv'
  <2> SUFFICES ASSUME IInv, IInv', KindInv, [OpenNext]_openVars PROVE KindInv'
    OBVIOUS
  <2>0. open \in [States -> BOOLEAN]
    BY DEF IInv, TypeOK
  <2>00. call'.op = "open" => call'.on \in States
    BY DEF IInv, CallInv
  <2>1. CASE ReadInput
    BY <2>1, ReadInputKind
  <2>2. CASE Merge
    BY <2>2, MergeKind
  <2>3. CASE RefuseInputs
    <3>1. UNCHANGED <<path, found>> /\ call' = Idle /\ open' = [open EXCEPT ![call.on] = FALSE]
      BY <2>3 DEF RefuseInputs, OpenFails
    <3>2. \A s \in States : open'[s] => open[s]
      BY <2>0, <3>1
    <3>3. QED
      BY <3>1, <3>2, OtherKind DEF Idle
  <2>4. ASSUME NEW h \in Shells, CloseInputs(h) PROVE KindInv'
    <3>1. UNCHANGED <<path, found>> /\ call = Idle /\ call' = call /\ open' = [open EXCEPT ![shell[h]] = FALSE]
      BY <2>4 DEF CloseInputs, Close
    <3>2. \A s \in States : open'[s] => open[s]
      BY <2>0, <3>1
    <3>3. QED
      BY <3>1, <3>2, OtherKind DEF Idle
  <2>5. ASSUME NEW h \in Shells, BeginOpen(h), UNCHANGED merged PROVE KindInv'
    <3>1. UNCHANGED <<path, found>> /\ open' = open /\ ~IsOpen(shell[h])
          /\ call' = [op |-> "open", on |-> shell[h], at |-> 1]
      BY <2>5 DEF BeginOpen, merged
    <3>2. Kind[call'.on] = "AnyReader" => ~open[call'.on]
      BY <3>1 DEF IsOpen
    <3>3. QED
      BY <2>00, <3>1, <3>2, OtherKind
  <2>6. ASSUME UNCHANGED <<path, found>>, open' = open, call'.op # "open" PROVE KindInv'
    BY <2>6, OtherKind
  <2>7. ASSUME UNCHANGED merged,
               \/ \E h \in Shells : DestroyShell(h)
               \/ \E h, k \in Shells : Move(h, k)
               \/ \E h \in Shells, c \in Cursors : Messages(h, c)
               \/ \E c \in Cursors : BeginDestroy(c)
               \/ DestroySource \/ DestroyDone
        PROVE  KindInv'
    <3>1. UNCHANGED <<path, found>> /\ open' = open
      BY <2>7 DEF merged, DestroyShell, Move, Messages, BeginDestroy, DestroySource, DestroyDone
    <3>2. call'.op # "open"
      <4>1. \A h, k : DestroyShell(h) \/ Move(h, k) => call = Idle /\ call' = call
        BY DEF DestroyShell, Move
      <4>2. \A h, c : Messages(h, c) => call = Idle /\ call' = call
        BY DEF Messages
      <4>3. \A c : BeginDestroy(c) => call'.op = "destroy"
        BY DEF BeginDestroy
      <4>4. DestroySource => call.op = "destroy" /\ call' = call
        BY DEF DestroySource
      <4>5. DestroyDone => call' = Idle
        BY DEF DestroyDone
      <4>6. QED
        BY <2>7, <4>1, <4>2, <4>3, <4>4, <4>5 DEF Idle
    <3>3. QED
      BY <2>6, <3>1, <3>2
  <2>8. CASE Gone /\ UNCHANGED merged
    BY <2>8 DEF Gone, vars, merged, KindInv, OneKind, StorageKind
  <2>9. CASE UNCHANGED openVars
    BY <2>9 DEF openVars, vars, merged, KindInv, OneKind, StorageKind
  <2>10. QED
    BY <2>1, <2>2, <2>3, <2>4, <2>5, <2>7, <2>8, <2>9 DEF OpenNext
<1>3. OpenSpec => []IInv
  BY Lifecycle, Invariance, PTL
<1>4. QED
  BY <1>1, <1>2, <1>3, PTL DEF OpenSpec

-----------------------------------------------------------------------------
\* What the backends report: of the files opened last, or of none.
FoundInv ==
  /\ found = [r \in Readers |-> found[r]]
  /\ \A r \in Readers : found[r] \in Stored(r) \cup {NoneFound}

LEMMA FoundFacts ==
  ASSUME FoundInv, NEW s \in States, NEW i \in 1..Inputs[s]
  PROVE  /\ <<s, i>> \in Readers
         /\ found[<<s, i>>].connections \in Nat
         /\ found[<<s, i>>].message_count \in 0..(Modulus - 1)
         /\ found[<<s, i>>].start_time \in 0..(Modulus - 1) /\ found[<<s, i>>].end_time \in 0..(Modulus - 1)
<1> DEFINE r == <<s, i>>
<1>1. r \in Readers
  BY ReadersOfStates
<1>2. found[r] \in Stored(r) \/ found[r] = NoneFound
  BY <1>1 DEF FoundInv
<1> HIDE DEF r
<1>3. /\ NoneFound.connections = 0 /\ NoneFound.message_count = 0
      /\ NoneFound.start_time = 0 /\ NoneFound.end_time = 0
  BY DEF NoneFound
<1>4. Modulus \in Nat \ {0}
  BY StoredAssumption
<1>5. CASE found[r] \in Stored(r)
  <2>1. /\ found[r].connections \in Nat
        /\ {found[r].message_count, found[r].start_time, found[r].end_time} \subseteq 0..(Modulus - 1)
    BY <1>1, <1>5, StoredAssumption
  <2> QED BY <1>1, <2>1 DEF r
<1>6. CASE found[r] = NoneFound
  BY <1>1, <1>3, <1>4, <1>6 DEF r
<1> QED BY <1>2, <1>5, <1>6

\* The first inputs have had their connections copied to the list.
ConnectionType == [id : Nat, reader : Readers, number : Nat]

ListsFirst(s, list, i) ==
  /\ list \in Seq(ConnectionType)
  /\ \A n \in DOMAIN list :
       /\ list[n].id = n
       /\ \E j \in 1..i : list[n].reader = <<s, j>> /\ list[n].number \in 1..found[<<s, j>>].connections
  /\ \A j \in 1..i : \A k \in 1..found[<<s, j>>].connections :
       \E n \in DOMAIN list : list[n].reader = <<s, j>> /\ list[n].number = k
  /\ \A m, n \in DOMAIN list : m < n =>
       \/ list[m].reader[2] < list[n].reader[2]
       \/ list[m].reader = list[n].reader /\ list[m].number < list[n].number

Extends(more, list, r, c) ==
  /\ more \in Seq(ConnectionType)
  /\ Len(more) = Len(list) + c
  /\ \A n \in 1..Len(list) : more[n] = list[n]
  /\ \A k \in 1..c : more[Len(list) + k] = [id |-> Len(list) + k, reader |-> r, number |-> k]

LEMMA CopiedExtends ==
  ASSUME FoundInv, NEW s \in States, NEW i \in 1..Inputs[s], NEW list \in Seq(ConnectionType)
  PROVE  Extends(Copied(list, <<s, i>>), list, <<s, i>>, found[<<s, i>>].connections)
<1> DEFINE r == <<s, i>>
           c == found[r].connections
           tail == [n \in 1..c |-> [id |-> Len(list) + n, reader |-> r, number |-> n]]
<1>1. r \in Readers /\ c \in Nat /\ Len(list) \in Nat
  BY FoundFacts
<1>2. Copied(list, r) = list \o tail
  BY DEF Copied
<1> HIDE DEF r, c
<1>3. \A n \in 1..c : [id |-> Len(list) + n, reader |-> r, number |-> n] \in ConnectionType
  BY <1>1 DEF ConnectionType
<1>4. tail \in Seq(ConnectionType) /\ Len(tail) = c /\ \A k \in 1..c : tail[k] = [id |-> Len(list) + k, reader |-> r, number |-> k]
  BY <1>1, <1>3
<1> HIDE DEF tail
<1>5. /\ list \o tail \in Seq(ConnectionType)
      /\ Len(list \o tail) = Len(list) + c
      /\ \A n \in 1..Len(list) : (list \o tail)[n] = list[n]
      /\ \A k \in 1..c : (list \o tail)[Len(list) + k] = tail[k]
  BY <1>1, <1>4
<1>6. Extends(Copied(list, r), list, r, c)
  BY ONLY <1>2, <1>4, <1>5 DEF Extends
<1> QED BY <1>6 DEF r, c

LEMMA CopiedLists ==
  ASSUME FoundInv, NEW s \in States, NEW i \in 1..Inputs[s], NEW list, ListsFirst(s, list, i - 1)
  PROVE  ListsFirst(s, Copied(list, <<s, i>>), i)
<1> DEFINE r == <<s, i>>
           c == found[r].connections
           more == Copied(list, r)
           l == Len(list)
<1>0. /\ list \in Seq(ConnectionType) /\ l \in Nat /\ DOMAIN list = 1..l /\ c \in Nat
      /\ i \in Nat /\ i - 1 \in Nat /\ 1..(i - 1) \subseteq 1..i /\ i \in 1..i
      /\ \A j \in 1..i : j = i \/ j \in 1..(i - 1)
  BY FoundFacts DEF ListsFirst
<1>1. /\ more \in Seq(ConnectionType) /\ Len(more) = l + c
      /\ \A n \in 1..l : more[n] = list[n]
      /\ \A k \in 1..c : more[l + k] = [id |-> l + k, reader |-> r, number |-> k]
  <2>1. list \in Seq(ConnectionType)
    BY <1>0
  <2>2. Extends(more, list, r, c)
    BY <2>1, CopiedExtends
  <2> QED BY ONLY <2>2 DEF Extends
<1>2. /\ \A n \in DOMAIN list :
          /\ list[n].id = n
          /\ \E j \in 1..(i - 1) : list[n].reader = <<s, j>> /\ list[n].number \in 1..found[<<s, j>>].connections
      /\ \A j \in 1..(i - 1) : \A k \in 1..found[<<s, j>>].connections :
          \E n \in DOMAIN list : list[n].reader = <<s, j>> /\ list[n].number = k
      /\ \A m, n \in DOMAIN list : m < n =>
          \/ list[m].reader[2] < list[n].reader[2]
          \/ list[m].reader = list[n].reader /\ list[m].number < list[n].number
  BY DEF ListsFirst
<1>00. r[2] = i /\ r = <<s, i>> /\ c = found[<<s, i>>].connections
  OBVIOUS
<1> HIDE DEF more, l, c, r
<1>3. DOMAIN more = 1..(l + c)
  BY <1>1
<1>4. ASSUME NEW n \in DOMAIN more PROVE n \in 1..l \/ \E k \in 1..c : n = l + k
  <2>1. n \in 1..l \/ n - l \in 1..c
    BY <1>0, <1>3
  <2>2. n = l + (n - l)
    BY <1>0, <1>3
  <2> QED BY <2>1, <2>2
<1>5. \A k \in 1..c : more[l + k].id = l + k /\ more[l + k].reader = r /\ more[l + k].number = k
  <2> SUFFICES ASSUME NEW k \in 1..c
               PROVE  more[l + k].id = l + k /\ more[l + k].reader = r /\ more[l + k].number = k
    OBVIOUS
  <2>1. more[l + k] = [id |-> l + k, reader |-> r, number |-> k]
    BY <1>1
  <2> QED BY ONLY <2>1
<1>6. ASSUME NEW n \in DOMAIN more
      PROVE  /\ more[n].id = n
             /\ \E j \in 1..i : more[n].reader = <<s, j>> /\ more[n].number \in 1..found[<<s, j>>].connections
  <2>1. CASE n \in 1..l
    <3>1. more[n] = list[n] /\ n \in DOMAIN list
      BY <1>0, <1>1, <2>1
    <3>2. \E j \in 1..(i - 1) : list[n].reader = <<s, j>> /\ list[n].number \in 1..found[<<s, j>>].connections
      BY <1>2, <3>1
    <3>3. list[n].id = n
      BY <1>2, <3>1
    <3> QED BY ONLY <1>0, <3>1, <3>2, <3>3
  <2>2. CASE \E k \in 1..c : n = l + k
    BY ONLY <1>0, <1>00, <1>5, <2>2
  <2> QED BY <1>4, <2>1, <2>2
<1>7. ASSUME NEW j \in 1..i, NEW k \in 1..found[<<s, j>>].connections
      PROVE  \E n \in DOMAIN more : more[n].reader = <<s, j>> /\ more[n].number = k
  <2>1. CASE j = i
    <3>1. k \in 1..c
      BY <1>00, <2>1
    <3>2. l + k \in DOMAIN more
      BY <1>0, <1>3, <3>1
    <3>3. more[l + k].reader = <<s, j>> /\ more[l + k].number = k
      BY <1>00, <1>5, <2>1, <3>1
    <3> QED BY <3>2, <3>3
  <2>2. CASE j # i
    <3>0. j \in 1..(i - 1) /\ k \in 1..found[<<s, j>>].connections
      BY <1>0, <2>2
    <3>1. PICK n \in DOMAIN list : list[n].reader = <<s, j>> /\ list[n].number = k
      BY ONLY <1>2, <3>0
    <3>2. n \in DOMAIN more /\ more[n] = list[n]
      BY <1>0, <1>1, <1>3, <3>1
    <3> QED BY <3>1, <3>2
  <2> QED BY <2>1, <2>2
<1>8. ASSUME NEW m \in DOMAIN more, NEW n \in DOMAIN more, m < n
      PROVE  \/ more[m].reader[2] < more[n].reader[2]
             \/ more[m].reader = more[n].reader /\ more[m].number < more[n].number
  <2>1. CASE n \in 1..l
    <3>1. m \in 1..l
      BY <1>0, <1>3, <1>8, <2>1
    <3>2. m \in DOMAIN list /\ n \in DOMAIN list /\ more[m] = list[m] /\ more[n] = list[n]
      BY <1>0, <1>1, <2>1, <3>1
    <3> QED BY ONLY <1>2, <1>8, <3>2
  <2>2. CASE m \in 1..l /\ \E k \in 1..c : n = l + k
    <3>1. PICK j \in 1..(i - 1) : list[m].reader = <<s, j>>
      BY <1>0, <1>2, <2>2, Zenon
    <3>2. more[m].reader[2] = j
      BY <1>1, <2>2, <3>1
    <3>4. more[n].reader[2] = i
      BY <1>00, <1>5, <2>2
    <3>3. j < i
      BY <1>0
    <3> QED BY <3>2, <3>3, <3>4
  <2>3. CASE (\E h \in 1..c : m = l + h) /\ (\E k \in 1..c : n = l + k)
    <3>1. PICK h \in 1..c : m = l + h
      BY <2>3
    <3>2. PICK k \in 1..c : n = l + k
      BY <2>3
    <3>3. h < k
      BY <1>0, <1>8, <3>1, <3>2
    <3> QED BY <1>5, <3>1, <3>2, <3>3
  <2> QED BY <1>4, <2>1, <2>2, <2>3
<1>9. more = Copied(list, <<s, i>>)
  BY DEF more, r
<1>10. ListsFirst(s, more, i)
  BY ONLY <1>1, <1>6, <1>7, <1>8 DEF ListsFirst
<1> QED BY <1>9, <1>10

LEMMA RenumberedLists ==
  ASSUME FoundInv, NEW s \in States
  PROVE  ListsFirst(s, Renumbered(s), Inputs[s])
<1> DEFINE n == Inputs[s]
           D == Seq(ConnectionType)
           Loop(g) == g = [i \in 0..n |-> IF i = 0 THEN <<>> ELSE Copied(g[i - 1], <<s, i>>)]
           step == [x \in (1..n) \X D |-> Copied(x[2], <<s, x[1]>>)]
           upto == CHOOSE g : Loop(g)
<1>1. n \in Nat /\ <<>> \in D
  OBVIOUS
<1>2. step \in [(1..n) \X D -> D] /\ \A i \in 1..n : \A d \in D : step[<<i, d>>] = Copied(d, <<s, i>>)
  <2>1. \A i \in 1..n : \A d \in D : Copied(d, <<s, i>>) \in D
    BY CopiedExtends DEF Extends
  <2> HIDE DEF D
  <2>2. \A i \in 1..n : \A d \in D : step[<<i, d>>] = Copied(d, <<s, i>>)
    OBVIOUS
  <2>3. step \in [(1..n) \X D -> D]
    <3>1. \A x \in (1..n) \X D : Copied(x[2], <<s, x[1]>>) \in D
      BY <2>1
    <3> QED BY <3>1
  <2> QED BY <2>2, <2>3
<1> HIDE DEF step, D
<1>3. \E g : Loop(g)
  <2>1. PICK g \in [0..n -> D] : g[0] = <<>> /\ \A i \in 1..n : g[i] = step[<<i, g[i - 1]>>]
    <3>1. n \in Nat /\ <<>> \in D /\ step \in [(1..n) \X D -> D]
      BY <1>1, <1>2
    <3> HIDE DEF n
    <3>2. \E g \in [0..n -> D] : IsLoop(g, <<>>, step, n)
      BY ONLY <3>1, LoopExists
    <3> QED BY <3>2 DEF IsLoop
  <2>2. \A i \in 0..n : g[i] = IF i = 0 THEN <<>> ELSE Copied(g[i - 1], <<s, i>>)
    <3> SUFFICES ASSUME NEW i \in 0..n PROVE g[i] = IF i = 0 THEN <<>> ELSE Copied(g[i - 1], <<s, i>>)
      OBVIOUS
    <3>1. CASE i = 0
      BY <2>1, <3>1
    <3>2. CASE i # 0
      <4>1. i \in 1..n /\ i - 1 \in 0..n
        BY <1>1, <3>2
      <4>2. g[i] = step[<<i, g[i - 1]>>] /\ g[i - 1] \in D
        BY <2>1, <4>1
      <4>3. step[<<i, g[i - 1]>>] = Copied(g[i - 1], <<s, i>>)
        BY <1>2, <4>1, <4>2
      <4> QED BY ONLY <3>2, <4>2, <4>3
    <3> QED BY <3>1, <3>2
  <2>3. Loop(g)
    BY <2>1, <2>2
  <2> QED BY <2>3
<1>4. Loop(upto)
  BY <1>3, Zenon
<1>5. Renumbered(s) = upto[n]
  BY Zenon DEF Renumbered
<1> HIDE DEF upto
<1>6. upto[0] = <<>> /\ \A i \in 1..n : upto[i] = Copied(upto[i - 1], <<s, i>>)
  <2>1. \A i \in 0..n : upto[i] = IF i = 0 THEN <<>> ELSE Copied(upto[i - 1], <<s, i>>)
    BY ONLY <1>4
  <2>2. 0 \in 0..n /\ \A i \in 1..n : i \in 0..n /\ i # 0
    BY <1>1
  <2>3. upto[0] = <<>>
    BY <2>1, <2>2
  <2>4. ASSUME NEW i \in 1..n PROVE upto[i] = Copied(upto[i - 1], <<s, i>>)
    BY <2>1, <2>2
  <2> QED BY <2>3, <2>4
<1> DEFINE T == {i \in 0..n : ListsFirst(s, upto[i], i)}
<1>7. 0 \in T
  <2>1. ListsFirst(s, <<>>, 0)
    BY DEF ListsFirst
  <2> QED BY <1>1, <1>6, <2>1
<1>8. ASSUME NEW i \in 1..n, i - 1 \in T PROVE i \in T
  <2>1. ListsFirst(s, Copied(upto[i - 1], <<s, i>>), i)
    BY <1>8, CopiedLists
  <2> QED BY <1>6, <2>1
<1>9. 0..n \subseteq T
  <2> HIDE DEF T, n
  <2> QED BY ONLY <1>1, <1>7, <1>8, Upwards
<1>10. n \in T
  BY <1>1, <1>9
<1> QED BY <1>5, <1>10

-----------------------------------------------------------------------------
\* The window of the first inputs, as long as it is being summed up.
TotalType ==
  [storage : {"Rosbag1"}, message_count : 0..(Modulus - 1), start_time : 0..(Modulus - 1),
   end_time : 0..(Modulus - 1), duration : {0}]

Full(s, i) == found[<<s, i>>].message_count # 0

SpansFirst(s, m, i) ==
  /\ m \in TotalType
  /\ (\A j \in 1..i : ~Full(s, j)) => m.start_time = Modulus - 1 /\ m.end_time = 0
  /\ (\E j \in 1..i : Full(s, j)) =>
       /\ \E j \in 1..i : Full(s, j) /\ m.start_time = found[<<s, j>>].start_time
       /\ \E j \in 1..i : Full(s, j) /\ m.end_time = found[<<s, j>>].end_time
  /\ \A j \in 1..i : Full(s, j) => m.start_time <= found[<<s, j>>].start_time /\ found[<<s, j>>].end_time <= m.end_time

LEMMA AddedFields ==
  ASSUME NEW m \in TotalType, NEW stored, stored.message_count \in Nat,
         stored.start_time \in 0..(Modulus - 1), stored.end_time \in 0..(Modulus - 1)
  PROVE  /\ Added(m, stored) \in TotalType
         /\ stored.message_count = 0 =>
              Added(m, stored).start_time = m.start_time /\ Added(m, stored).end_time = m.end_time
         /\ stored.message_count # 0 =>
              /\ Added(m, stored).start_time = Lesser(m.start_time, stored.start_time)
              /\ Added(m, stored).end_time = Greater(m.end_time, stored.end_time)
<1> DEFINE start == IF stored.message_count # 0 THEN Lesser(m.start_time, stored.start_time) ELSE m.start_time
           end == IF stored.message_count # 0 THEN Greater(m.end_time, stored.end_time) ELSE m.end_time
           count == (m.message_count + stored.message_count) % Modulus
           more == Added(m, stored)
<1>1. Modulus \in Nat \ {0}
  BY StoredAssumption
<1>2. /\ m.message_count \in 0..(Modulus - 1) /\ m.start_time \in 0..(Modulus - 1) /\ m.end_time \in 0..(Modulus - 1)
      /\ m = [storage |-> "Rosbag1", message_count |-> m.message_count, start_time |-> m.start_time,
              end_time |-> m.end_time, duration |-> 0]
  BY DEF TotalType
<1>3. more = [storage |-> "Rosbag1", message_count |-> count, start_time |-> start, end_time |-> end, duration |-> 0]
  <2>1. more = [m EXCEPT !.start_time = start, !.end_time = end, !.message_count = count]
    BY DEF Added
  <2> HIDE DEF more, start, end, count
  <2>2. PICK a, b, c : m = [storage |-> "Rosbag1", message_count |-> a, start_time |-> b, end_time |-> c, duration |-> 0]
    BY ONLY <1>2
  <2> QED BY ONLY <2>1, <2>2
<1>4. start \in 0..(Modulus - 1) /\ end \in 0..(Modulus - 1)
  BY <1>2 DEF Lesser, Greater
<1>5. count \in 0..(Modulus - 1)
  <2>1. \A x \in Nat : \A q \in Nat \ {0} : x % q \in 0..(q - 1)
    OBVIOUS
  <2>2. m.message_count + stored.message_count \in Nat
    BY <1>2
  <2> QED BY <1>1, <2>1, <2>2
<1>6. more.start_time = start /\ more.end_time = end
  <2> HIDE DEF more, start, end, count
  <2> QED BY ONLY <1>3
<1>7. more \in TotalType
  <2> HIDE DEF more, start, end, count
  <2> QED BY <1>3, <1>4, <1>5 DEF TotalType
<1> QED BY <1>6, <1>7

LEMMA AddedSpans ==
  ASSUME FoundInv, NEW s \in States, NEW i \in 1..Inputs[s], NEW m, SpansFirst(s, m, i - 1)
  PROVE  SpansFirst(s, Added(m, found[<<s, i>>]), i)
<1> DEFINE f == found[<<s, i>>]
           more == Added(m, f)
<1>1. /\ f.message_count \in Nat /\ f.start_time \in 0..(Modulus - 1) /\ f.end_time \in 0..(Modulus - 1)
      /\ Full(s, i) <=> f.message_count # 0
      /\ Modulus \in Nat \ {0}
  BY FoundFacts, StoredAssumption DEF Full
<1>2. /\ m \in TotalType
      /\ (\A j \in 1..(i - 1) : ~Full(s, j)) => m.start_time = Modulus - 1 /\ m.end_time = 0
      /\ (\E j \in 1..(i - 1) : Full(s, j)) =>
           /\ \E j \in 1..(i - 1) : Full(s, j) /\ m.start_time = found[<<s, j>>].start_time
           /\ \E j \in 1..(i - 1) : Full(s, j) /\ m.end_time = found[<<s, j>>].end_time
      /\ \A j \in 1..(i - 1) : Full(s, j) =>
           m.start_time <= found[<<s, j>>].start_time /\ found[<<s, j>>].end_time <= m.end_time
  BY DEF SpansFirst
<1>3. i \in 1..i /\ 1..(i - 1) \subseteq 1..i /\ \A j \in 1..i : j = i \/ j \in 1..(i - 1)
  OBVIOUS
<1>4. m.start_time \in 0..(Modulus - 1) /\ m.end_time \in 0..(Modulus - 1)
  BY <1>2 DEF TotalType
<1>5. /\ more \in TotalType
      /\ ~Full(s, i) => more.start_time = m.start_time /\ more.end_time = m.end_time
      /\ Full(s, i) => /\ more.start_time = Lesser(m.start_time, f.start_time)
                       /\ more.end_time = Greater(m.end_time, f.end_time)
  BY <1>1, <1>2, AddedFields
<1>6. \A j \in 1..(i - 1) : Full(s, j) =>
        /\ found[<<s, j>>].start_time \in 0..(Modulus - 1) /\ found[<<s, j>>].end_time \in 0..(Modulus - 1)
  BY FoundFacts
<1>7. found[<<s, i>>] = f
  OBVIOUS
<1> HIDE DEF f, more
<1>8. CASE ~Full(s, i)
  <2>1. more.start_time = m.start_time /\ more.end_time = m.end_time
    BY <1>5, <1>8
  <2>2. \A j \in 1..i : Full(s, j) => j \in 1..(i - 1)
    BY <1>3, <1>8
  <2>3. /\ (\A j \in 1..i : ~Full(s, j)) => more.start_time = Modulus - 1 /\ more.end_time = 0
        /\ (\E j \in 1..i : Full(s, j)) =>
             /\ \E j \in 1..i : Full(s, j) /\ more.start_time = found[<<s, j>>].start_time
             /\ \E j \in 1..i : Full(s, j) /\ more.end_time = found[<<s, j>>].end_time
        /\ \A j \in 1..i : Full(s, j) =>
             more.start_time <= found[<<s, j>>].start_time /\ found[<<s, j>>].end_time <= more.end_time
    BY ONLY <1>2, <1>3, <2>1, <2>2
  <2> QED BY <1>5, <2>3 DEF SpansFirst, more, f
<1>9. CASE Full(s, i)
  <2>1. more.start_time = Lesser(m.start_time, f.start_time) /\ more.end_time = Greater(m.end_time, f.end_time)
    BY <1>5, <1>9
  <2>3. \E j \in 1..i : Full(s, j) /\ more.start_time = found[<<s, j>>].start_time
    <3>1. CASE more.start_time = f.start_time
      BY <1>3, <1>7, <1>9, <3>1
    <3>2. CASE more.start_time # f.start_time
      <4>1. more.start_time = m.start_time /\ m.start_time <= f.start_time /\ m.start_time # f.start_time
        BY ONLY <2>1, <3>2 DEF Lesser
      <4>2. m.start_time # Modulus - 1
        BY <1>1, <1>4, <4>1
      <4> QED BY ONLY <1>2, <1>3, <4>1, <4>2
    <3> QED BY <3>1, <3>2
  <2>4. \E j \in 1..i : Full(s, j) /\ more.end_time = found[<<s, j>>].end_time
    <3>1. CASE more.end_time = f.end_time
      BY <1>3, <1>7, <1>9, <3>1
    <3>2. CASE more.end_time # f.end_time
      <4>1. more.end_time = m.end_time /\ m.end_time >= f.end_time /\ m.end_time # f.end_time
        BY ONLY <2>1, <3>2 DEF Greater
      <4>2. m.end_time # 0
        BY <1>1, <1>4, <4>1
      <4> QED BY ONLY <1>2, <1>3, <4>1, <4>2
    <3> QED BY <3>1, <3>2
  <2>5. /\ more.start_time <= f.start_time /\ more.start_time <= m.start_time
        /\ more.end_time >= f.end_time /\ more.end_time >= m.end_time
        /\ more.start_time \in Int /\ more.end_time \in Int
    BY <1>1, <1>4, <2>1 DEF Lesser, Greater
  <2>6. ASSUME NEW j \in 1..i, Full(s, j)
        PROVE  more.start_time <= found[<<s, j>>].start_time /\ found[<<s, j>>].end_time <= more.end_time
    <3>1. CASE j = i
      BY <1>7, <2>5, <3>1
    <3>2. CASE j # i
      <4>1. j \in 1..(i - 1)
        BY <1>3, <3>2
      <4>2. /\ m.start_time <= found[<<s, j>>].start_time /\ found[<<s, j>>].end_time <= m.end_time
            /\ found[<<s, j>>].start_time \in Int /\ found[<<s, j>>].end_time \in Int
        BY <1>2, <1>6, <2>6, <4>1
      <4>3. m.start_time \in Int /\ m.end_time \in Int
        BY <1>4
      <4> QED BY ONLY <2>5, <4>2, <4>3
    <3> QED BY <3>1, <3>2
  <2> QED BY <1>3, <1>5, <1>9, <2>3, <2>4, <2>6 DEF SpansFirst, more, f
<1> QED BY <1>8, <1>9

LEMMA TotalSpans ==
  ASSUME FoundInv, NEW s \in States
  PROVE  SpansFirst(s, Total(s), Inputs[s])
<1> DEFINE n == Inputs[s]
           D == TotalType
           Loop(g) == g = [i \in 0..n |-> IF i = 0 THEN Fresh(s) ELSE Added(g[i - 1], found[<<s, i>>])]
           step == [x \in (1..n) \X D |-> Added(x[2], found[<<s, x[1]>>])]
           upto == CHOOSE g : Loop(g)
<1>1. n \in Nat
  OBVIOUS
<1>2. Modulus \in Nat \ {0}
  BY StoredAssumption
<1>3. Fresh(s) = [storage |-> "Rosbag1", message_count |-> 0, start_time |-> Modulus - 1, end_time |-> 0, duration |-> 0]
  BY DEF Fresh, NoMetadata
<1>4. Fresh(s) \in D
  BY <1>2, <1>3 DEF TotalType
<1>5. step \in [(1..n) \X D -> D] /\ \A i \in 1..n : \A d \in D : step[<<i, d>>] = Added(d, found[<<s, i>>])
  <2>1. \A i \in 1..n : \A d \in D : Added(d, found[<<s, i>>]) \in D
    BY FoundFacts, AddedFields
  <2> HIDE DEF D
  <2>2. \A i \in 1..n : \A d \in D : step[<<i, d>>] = Added(d, found[<<s, i>>])
    OBVIOUS
  <2>3. step \in [(1..n) \X D -> D]
    <3>1. \A x \in (1..n) \X D : Added(x[2], found[<<s, x[1]>>]) \in D
      BY <2>1
    <3> QED BY <3>1
  <2> QED BY <2>2, <2>3
<1> HIDE DEF step, D
<1>6. \E g : Loop(g)
  <2>1. PICK g \in [0..n -> D] : g[0] = Fresh(s) /\ \A i \in 1..n : g[i] = step[<<i, g[i - 1]>>]
    <3>1. n \in Nat /\ Fresh(s) \in D /\ step \in [(1..n) \X D -> D]
      BY <1>1, <1>4, <1>5
    <3> HIDE DEF n
    <3>2. \E g \in [0..n -> D] : IsLoop(g, Fresh(s), step, n)
      BY ONLY <3>1, LoopExists
    <3> QED BY <3>2 DEF IsLoop
  <2>2. \A i \in 0..n : g[i] = IF i = 0 THEN Fresh(s) ELSE Added(g[i - 1], found[<<s, i>>])
    <3> SUFFICES ASSUME NEW i \in 0..n PROVE g[i] = IF i = 0 THEN Fresh(s) ELSE Added(g[i - 1], found[<<s, i>>])
      OBVIOUS
    <3>1. CASE i = 0
      BY <2>1, <3>1
    <3>2. CASE i # 0
      <4>1. i \in 1..n /\ i - 1 \in 0..n
        BY <1>1, <3>2
      <4>2. g[i] = step[<<i, g[i - 1]>>] /\ g[i - 1] \in D
        BY <2>1, <4>1
      <4>3. step[<<i, g[i - 1]>>] = Added(g[i - 1], found[<<s, i>>])
        BY <1>5, <4>1, <4>2
      <4> QED BY ONLY <3>2, <4>2, <4>3
    <3> QED BY <3>1, <3>2
  <2>3. Loop(g)
    BY <2>1, <2>2
  <2> QED BY <2>3
<1>7. Loop(upto)
  BY <1>6, Zenon
<1>8. Total(s) = upto[n]
  BY Zenon DEF Total
<1> HIDE DEF upto
<1>9. upto[0] = Fresh(s) /\ \A i \in 1..n : upto[i] = Added(upto[i - 1], found[<<s, i>>])
  <2>1. \A i \in 0..n : upto[i] = IF i = 0 THEN Fresh(s) ELSE Added(upto[i - 1], found[<<s, i>>])
    BY ONLY <1>7
  <2>2. 0 \in 0..n /\ \A i \in 1..n : i \in 0..n /\ i # 0
    BY <1>1
  <2>3. upto[0] = Fresh(s)
    BY <2>1, <2>2
  <2>4. ASSUME NEW i \in 1..n PROVE upto[i] = Added(upto[i - 1], found[<<s, i>>])
    BY <2>1, <2>2
  <2> QED BY <2>3, <2>4
<1> DEFINE T == {i \in 0..n : SpansFirst(s, upto[i], i)}
<1>10. 0 \in T
  <2>1. SpansFirst(s, Fresh(s), 0)
    BY <1>3, <1>4 DEF SpansFirst, D
  <2> QED BY <1>1, <1>9, <2>1
<1>11. ASSUME NEW i \in 1..n, i - 1 \in T PROVE i \in T
  <2>1. SpansFirst(s, Added(upto[i - 1], found[<<s, i>>]), i)
    BY <1>11, AddedSpans
  <2> QED BY <1>9, <2>1
<1>12. 0..n \subseteq T
  <2> HIDE DEF T, n
  <2> QED BY ONLY <1>1, <1>10, <1>11, Upwards
<1>13. n \in T
  BY <1>1, <1>12
<1> QED BY <1>8, <1>13

\* What open() merges is the window of the inputs.
LEMMA MergedWindow ==
  ASSUME FoundInv, NEW s \in States
  PROVE  WindowOf(s, Merged(s))
<1> DEFINE n == Inputs[s]
           m == Total(s)
           some == \E i \in 1..n : Full(s, i)
           start == IF some THEN m.start_time ELSE 0
           given == Merged(s)
<1>1. SpansFirst(s, m, n)
  BY TotalSpans
<1>2. /\ m \in TotalType
      /\ ~some => m.start_time = Modulus - 1 /\ m.end_time = 0
      /\ some => /\ \E j \in 1..n : Full(s, j) /\ m.start_time = found[<<s, j>>].start_time
                 /\ \E j \in 1..n : Full(s, j) /\ m.end_time = found[<<s, j>>].end_time
      /\ \A j \in 1..n : Full(s, j) => m.start_time <= found[<<s, j>>].start_time /\ found[<<s, j>>].end_time <= m.end_time
  BY <1>1 DEF SpansFirst
<1>3. m.start_time \in Nat /\ m.end_time \in Nat
  BY <1>2, StoredAssumption DEF TotalType
<1>4. given = [m EXCEPT !.storage = StorageKind(<<s, 1>>), !.start_time = start,
                      !.duration = Span(start, m.end_time)]
  BY DEF Merged, Full
<1>5. /\ given.start_time = start /\ given.end_time = m.end_time
      /\ given.duration = Span(start, m.end_time)
  <2>1. m = [storage |-> m.storage, message_count |-> m.message_count, start_time |-> m.start_time,
             end_time |-> m.end_time, duration |-> m.duration]
    BY <1>2 DEF TotalType
  <2> HIDE DEF m, start, given
  <2> QED BY ONLY <1>4, <2>1
<1> DEFINE full == {r \in Readers : r[1] = s /\ found[r].message_count # 0}
<1>7. \A r \in full : \E j \in 1..n : r = <<s, j>> /\ Full(s, j)
  <2> SUFFICES ASSUME NEW r \in Readers, r[1] = s, found[r].message_count # 0
               PROVE  \E j \in 1..n : r = <<s, j>> /\ Full(s, j)
    OBVIOUS
  <2>1. r = <<s, r[2]>> /\ r[2] \in 1..n
    BY ReadersOfStates
  <2> QED BY <2>1 DEF Full
<1>8. \A j \in 1..n : Full(s, j) => <<s, j>> \in full
  BY FoundFacts DEF Full
<1> HIDE DEF full, m, n, given
<1>9. /\ given.start_time <= given.end_time => given.start_time + given.duration = given.end_time
      /\ given.start_time > given.end_time => given.duration = 0
  <2>1. start \in Nat
    BY <1>3
  <2> HIDE DEF start
  <2> QED BY ONLY <1>3, <1>5, <2>1 DEF Span
<1>10. full = {} => given.start_time = 0 /\ given.end_time = 0
  BY <1>2, <1>5, <1>8
<1>11. full # {} => /\ \E r \in full : given.start_time = found[r].start_time
                    /\ \E r \in full : given.end_time = found[r].end_time
  <2> SUFFICES ASSUME full # {} PROVE /\ \E r \in full : given.start_time = found[r].start_time
                                      /\ \E r \in full : given.end_time = found[r].end_time
    OBVIOUS
  <2>1. some
    BY <1>7
  <2> QED BY <1>2, <1>5, <1>8, <2>1
<1>12. \A r \in full : given.start_time <= found[r].start_time /\ found[r].end_time <= given.end_time
  <2> SUFFICES ASSUME NEW r \in full PROVE given.start_time <= found[r].start_time /\ found[r].end_time <= given.end_time
    OBVIOUS
  <2>1. PICK j \in 1..n : r = <<s, j>> /\ Full(s, j)
    BY <1>7
  <2>2. given.start_time = m.start_time
    BY <1>5, <2>1
  <2> QED BY <1>2, <1>5, <2>1, <2>2
<1> QED BY <1>9, <1>10, <1>11, <1>12 DEF WindowOf, full, given

-----------------------------------------------------------------------------
\* The connections the list of all inputs stands for.
LEMMA ListDescribes ==
  ASSUME NEW s \in States, NEW list, ListsFirst(s, list, Inputs[s])
  PROVE  /\ {<<list[n].reader, list[n].number>> : n \in DOMAIN list}
              = UNION {{r} \X (1..found[r].connections) : r \in {q \in Readers : q[1] = s}}
         /\ \A n \in DOMAIN list :
              /\ list[n].id = n
              /\ \A m \in 1..(n - 1) :
                   \/ list[m].reader[2] < list[n].reader[2]
                   \/ list[m].reader = list[n].reader /\ list[m].number < list[n].number
<1>1. /\ list \in Seq(ConnectionType)
      /\ \A n \in DOMAIN list :
          /\ list[n].id = n
          /\ \E j \in 1..Inputs[s] : list[n].reader = <<s, j>> /\ list[n].number \in 1..found[<<s, j>>].connections
      /\ \A j \in 1..Inputs[s] : \A k \in 1..found[<<s, j>>].connections :
          \E n \in DOMAIN list : list[n].reader = <<s, j>> /\ list[n].number = k
      /\ \A m, n \in DOMAIN list : m < n =>
          \/ list[m].reader[2] < list[n].reader[2]
          \/ list[m].reader = list[n].reader /\ list[m].number < list[n].number
  BY DEF ListsFirst
<1> DEFINE mine == {q \in Readers : q[1] = s}
           shown == {<<list[n].reader, list[n].number>> : n \in DOMAIN list}
           there == UNION {{r} \X (1..found[r].connections) : r \in mine}
<1>2. \A r : r \in mine <=> \E j \in 1..Inputs[s] : r = <<s, j>>
  <2>1. \A r \in mine : r = <<s, r[2]>> /\ r[2] \in 1..Inputs[s]
    BY ReadersOfStates
  <2>2. \A j \in 1..Inputs[s] : <<s, j>> \in mine
    BY ReadersOfStates
  <2> HIDE DEF mine
  <2> QED BY <2>1, <2>2
<1> HIDE DEF mine
<1>3. \A x : x \in there <=> \E j \in 1..Inputs[s] : \E k \in 1..found[<<s, j>>].connections : x = <<<<s, j>>, k>>
  <2>1. \A x : x \in there <=> \E r \in mine : x \in {r} \X (1..found[r].connections)
    OBVIOUS
  <2>2. \A x, r : x \in {r} \X (1..found[r].connections) <=> \E k \in 1..found[r].connections : x = <<r, k>>
    OBVIOUS
  <2> HIDE DEF there
  <2>3. ASSUME NEW x \in there
        PROVE  \E j \in 1..Inputs[s] : \E k \in 1..found[<<s, j>>].connections : x = <<<<s, j>>, k>>
    <3>1. PICK r \in mine : x \in {r} \X (1..found[r].connections)
      BY <2>1
    <3>2. PICK j \in 1..Inputs[s] : r = <<s, j>>
      BY <1>2
    <3>3. PICK k \in 1..found[r].connections : x = <<r, k>>
      BY <2>2, <3>1
    <3> QED BY ONLY <3>2, <3>3
  <2>4. ASSUME NEW x, NEW j \in 1..Inputs[s], NEW k \in 1..found[<<s, j>>].connections, x = <<<<s, j>>, k>>
        PROVE  x \in there
    <3>1. <<s, j>> \in mine
      BY <1>2
    <3>2. x \in {<<s, j>>} \X (1..found[<<s, j>>].connections)
      BY <2>4
    <3> QED BY ONLY <2>1, <3>1, <3>2
  <2> QED BY ONLY <2>3, <2>4
<1>4. \A x : x \in shown <=> \E n \in DOMAIN list : x = <<list[n].reader, list[n].number>>
  OBVIOUS
<1> HIDE DEF there, shown
<1>5. shown = there
  <2>1. ASSUME NEW x \in shown PROVE x \in there
    <3>1. PICK n \in DOMAIN list : x = <<list[n].reader, list[n].number>>
      BY <1>4
    <3>2. PICK j \in 1..Inputs[s] : list[n].reader = <<s, j>> /\ list[n].number \in 1..found[<<s, j>>].connections
      BY <1>1
    <3> QED BY <1>3, <3>1, <3>2
  <2>2. ASSUME NEW x \in there PROVE x \in shown
    <3>1. PICK j \in 1..Inputs[s] : \E k \in 1..found[<<s, j>>].connections : x = <<<<s, j>>, k>>
      BY <1>3
    <3>2. PICK k \in 1..found[<<s, j>>].connections : x = <<<<s, j>>, k>>
      BY <3>1
    <3>3. PICK n \in DOMAIN list : list[n].reader = <<s, j>> /\ list[n].number = k
      BY <1>1, Zenon
    <3> QED BY <1>4, <3>2, <3>3
  <2> QED BY <2>1, <2>2
<1>6. DOMAIN list = 1..Len(list) /\ Len(list) \in Nat
  BY <1>1
<1>7. \A n \in DOMAIN list : \A m \in 1..(n - 1) : m \in DOMAIN list /\ m < n
  BY <1>6
<1> QED BY <1>1, <1>5, <1>7 DEF shown, there, mine

-----------------------------------------------------------------------------
\* What an open AnyReader says of its inputs; OneKind is part of KindInv.
Described(s) ==
  /\ WindowOf(s, metadata[s])
  /\ ListsFirst(s, connections[s], Inputs[s])

MergedInv ==
  /\ FoundInv
  /\ DOMAIN connections = States /\ DOMAIN metadata = States
  /\ \A s \in States : open[s] /\ Kind[s] = "AnyReader" => Described(s)

\* A description is of what was found at the inputs of its state.
LEMMA SameDescription ==
  ASSUME NEW s \in States, Described(s), connections'[s] = connections[s], metadata'[s] = metadata[s],
         \A r \in Readers : r[1] = s => found'[r] = found[r]
  PROVE  Described(s)'
<1>1. \A j \in 1..Inputs[s] : found'[<<s, j>>] = found[<<s, j>>]
  BY ReadersOfStates
<1>2. ListsFirst(s, connections[s], Inputs[s])'
  <2> DEFINE list == connections[s]
  <2>1. ListsFirst(s, list, Inputs[s])
    BY DEF Described
  <2>2. connections'[s] = list
    OBVIOUS
  <2> HIDE DEF list
  <2>3. /\ list \in Seq(ConnectionType)
        /\ \A n \in DOMAIN list :
             /\ list[n].id = n
             /\ \E j \in 1..Inputs[s] : list[n].reader = <<s, j>> /\ list[n].number \in 1..found[<<s, j>>].connections
        /\ \A j \in 1..Inputs[s] : \A k \in 1..found[<<s, j>>].connections :
             \E n \in DOMAIN list : list[n].reader = <<s, j>> /\ list[n].number = k
        /\ \A m, n \in DOMAIN list : m < n =>
             \/ list[m].reader[2] < list[n].reader[2]
             \/ list[m].reader = list[n].reader /\ list[m].number < list[n].number
    BY <2>1 DEF ListsFirst
  <2>4. ASSUME NEW n \in DOMAIN list
        PROVE  \E j \in 1..Inputs[s] : list[n].reader = <<s, j>> /\ list[n].number \in 1..found'[<<s, j>>].connections
    <3>1. PICK j \in 1..Inputs[s] : list[n].reader = <<s, j>> /\ list[n].number \in 1..found[<<s, j>>].connections
      BY <2>3
    <3> QED BY <1>1, <3>1
  <2>5. ASSUME NEW j \in 1..Inputs[s], NEW k \in 1..found'[<<s, j>>].connections
        PROVE  \E n \in DOMAIN list : list[n].reader = <<s, j>> /\ list[n].number = k
    <3>1. k \in 1..found[<<s, j>>].connections
      BY <1>1
    <3> QED BY <2>3, <3>1
  <2>6. /\ list \in Seq(ConnectionType)
        /\ \A n \in DOMAIN list :
             /\ list[n].id = n
             /\ \E j \in 1..Inputs[s] : list[n].reader = <<s, j>> /\ list[n].number \in 1..found'[<<s, j>>].connections
        /\ \A j \in 1..Inputs[s] : \A k \in 1..found'[<<s, j>>].connections :
             \E n \in DOMAIN list : list[n].reader = <<s, j>> /\ list[n].number = k
        /\ \A m, n \in DOMAIN list : m < n =>
             \/ list[m].reader[2] < list[n].reader[2]
             \/ list[m].reader = list[n].reader /\ list[m].number < list[n].number
    BY ONLY <2>3, <2>4, <2>5
  <2>7. (/\ connections[s] \in Seq(ConnectionType)
         /\ \A n \in DOMAIN connections[s] :
              /\ connections[s][n].id = n
              /\ \E j \in 1..Inputs[s] : /\ connections[s][n].reader = <<s, j>>
                                          /\ connections[s][n].number \in 1..found[<<s, j>>].connections
         /\ \A j \in 1..Inputs[s] : \A k \in 1..found[<<s, j>>].connections :
              \E n \in DOMAIN connections[s] : connections[s][n].reader = <<s, j>> /\ connections[s][n].number = k
         /\ \A m, n \in DOMAIN connections[s] : m < n =>
              \/ connections[s][m].reader[2] < connections[s][n].reader[2]
              \/ connections[s][m].reader = connections[s][n].reader /\ connections[s][m].number < connections[s][n].number)'
    BY ONLY <2>2, <2>6, Zenon
  <2> QED BY ONLY <2>7 DEF ListsFirst
<1>3. {r \in Readers : r[1] = s /\ found'[r].message_count # 0} = {r \in Readers : r[1] = s /\ found[r].message_count # 0}
  OBVIOUS
<1>4. WindowOf(s, metadata[s])'
  <2> DEFINE full == {r \in Readers : r[1] = s /\ found[r].message_count # 0}
  <2>1. WindowOf(s, metadata[s])
    BY DEF Described
  <2>2. \A r \in full : found'[r] = found[r]
    OBVIOUS
  <2>3. full' = full
    BY <1>3
  <2>4. /\ full = {} => metadata[s].start_time = 0 /\ metadata[s].end_time = 0
        /\ full # {} =>
             /\ \E r \in full : metadata[s].start_time = found[r].start_time
             /\ \E r \in full : metadata[s].end_time = found[r].end_time
        /\ \A r \in full : metadata[s].start_time <= found[r].start_time /\ found[r].end_time <= metadata[s].end_time
        /\ metadata[s].start_time <= metadata[s].end_time =>
             metadata[s].start_time + metadata[s].duration = metadata[s].end_time
        /\ metadata[s].start_time > metadata[s].end_time => metadata[s].duration = 0
    BY <2>1 DEF WindowOf
  <2> HIDE DEF full
  <2>5. metadata'[s] = metadata[s]
    OBVIOUS
  <2>6. (/\ full = {} => metadata[s].start_time = 0 /\ metadata[s].end_time = 0
         /\ full # {} =>
             /\ \E r \in full : metadata[s].start_time = found[r].start_time
             /\ \E r \in full : metadata[s].end_time = found[r].end_time
         /\ \A r \in full : metadata[s].start_time <= found[r].start_time /\ found[r].end_time <= metadata[s].end_time
         /\ metadata[s].start_time <= metadata[s].end_time =>
              metadata[s].start_time + metadata[s].duration = metadata[s].end_time
         /\ metadata[s].start_time > metadata[s].end_time => metadata[s].duration = 0)'
    BY ONLY <2>2, <2>3, <2>4, <2>5
  <2> QED BY <2>6 DEF WindowOf, full
<1> QED BY <1>2, <1>4 DEF Described

\* An input that is being opened is of a state that is not open.
LEMMA ReadInputMerged == IInv /\ KindInv /\ MergedInv /\ ReadInput => MergedInv'
<1> SUFFICES ASSUME IInv, KindInv, MergedInv, ReadInput PROVE MergedInv'
  OBVIOUS
<1>1. PICK stored \in Stored(<<call.on, call.at>>) :
        UNCHANGED <<path, connections, metadata>> /\ found' = [found EXCEPT ![<<call.on, call.at>>] = stored]
  BY DEF ReadInput
<1>2. call.op = "open" /\ open' = open /\ <<call.on, call.at>> \in Readers
  BY DEF ReadInput, OpenReader
<1>3. FoundInv'
  <2>1. found' = [r \in Readers |-> found'[r]]
    BY <1>1 DEF MergedInv, FoundInv
  <2>2. \A r \in Readers : found'[r] \in Stored(r) \cup {NoneFound}
    <3> SUFFICES ASSUME NEW r \in Readers PROVE found'[r] \in Stored(r) \cup {NoneFound}
      OBVIOUS
    <3>1. CASE r = <<call.on, call.at>>
      BY <1>1, <3>1 DEF MergedInv, FoundInv
    <3>2. CASE r # <<call.on, call.at>>
      BY <1>1, <3>2 DEF MergedInv, FoundInv
    <3> QED BY <3>1, <3>2
  <2> QED BY <2>1, <2>2 DEF FoundInv
<1>4. ASSUME NEW s \in States, open'[s], Kind[s] = "AnyReader" PROVE Described(s)'
  <2>1. s # call.on /\ Described(s)
    BY <1>2, <1>4 DEF KindInv, MergedInv
  <2>2. \A r \in Readers : r[1] = s => found'[r] = found[r]
    <3> SUFFICES ASSUME NEW r \in Readers, r[1] = s PROVE found'[r] = found[r]
      OBVIOUS
    <3>1. r # <<call.on, call.at>>
      BY <2>1
    <3> QED BY <1>1, <3>1 DEF MergedInv, FoundInv
  <2> QED BY <1>1, <2>1, <2>2, SameDescription
<1> QED BY <1>1, <1>3, <1>4 DEF MergedInv

LEMMA MergeMerged == IInv /\ MergedInv /\ Merge => MergedInv'
<1> SUFFICES ASSUME IInv, MergedInv, Merge PROVE MergedInv'
  OBVIOUS
<1>1. /\ open' = [open EXCEPT ![call.on] = TRUE] /\ UNCHANGED <<path, found>> /\ call.op = "open"
      /\ Kind[call.on] = "AnyReader" =>
           /\ connections' = [connections EXCEPT ![call.on] = Renumbered(call.on)]
           /\ metadata' = [metadata EXCEPT ![call.on] = Merged(call.on)]
      /\ Kind[call.on] # "AnyReader" => UNCHANGED <<connections, metadata>>
  BY DEF Merge, OpenDone
<1>2. open \in [States -> BOOLEAN] /\ call.on \in States
  BY <1>1 DEF IInv, TypeOK, CallInv
<1>3. FoundInv'
  BY <1>1 DEF MergedInv, FoundInv
<1>4. DOMAIN connections' = States /\ DOMAIN metadata' = States
  BY <1>1 DEF MergedInv
<1>5. ASSUME NEW s \in States, open'[s], Kind[s] = "AnyReader" PROVE Described(s)'
  <2>1. CASE s # call.on
    <3>1. open[s] /\ connections'[s] = connections[s] /\ metadata'[s] = metadata[s]
      BY <1>1, <1>2, <1>5, <2>1 DEF MergedInv
    <3> QED BY <1>1, <1>5, <3>1, SameDescription DEF MergedInv
  <2>2. CASE s = call.on
    <3>1. connections'[s] = Renumbered(s) /\ metadata'[s] = Merged(s)
      BY <1>1, <1>5, <2>2 DEF MergedInv
    <3>2. ListsFirst(s, Renumbered(s), Inputs[s]) /\ WindowOf(s, Merged(s))
      BY RenumberedLists, MergedWindow DEF MergedInv
    <3> DEFINE list == Renumbered(s)
               m == Merged(s)
    <3>3. found' = found
      BY <1>1
    <3>4. connections'[s] = list /\ metadata'[s] = m /\ ListsFirst(s, list, Inputs[s]) /\ WindowOf(s, m)
      BY <3>1, <3>2
    <3> HIDE DEF list, m
    <3>5. ListsFirst(s, connections[s], Inputs[s])'
      BY ONLY <3>3, <3>4, Zenon DEF ListsFirst
    <3>6. WindowOf(s, metadata[s])'
      BY ONLY <3>3, <3>4 DEF WindowOf
    <3> QED BY <3>5, <3>6 DEF Described
  <2> QED BY <2>1, <2>2
<1> QED BY <1>3, <1>4, <1>5 DEF MergedInv

\* The other steps open nothing, and forget connections only of what they close.
LEMMA OtherMerged ==
  ASSUME MergedInv, UNCHANGED <<found, metadata>>, DOMAIN connections' = States,
         \A s \in States : open'[s] => open[s] /\ connections'[s] = connections[s]
  PROVE  MergedInv'
<1>1. FoundInv'
  BY DEF MergedInv, FoundInv
<1>2. ASSUME NEW s \in States, open'[s], Kind[s] = "AnyReader" PROVE Described(s)'
  <2>1. Described(s) /\ connections'[s] = connections[s]
    BY <1>2 DEF MergedInv
  <2> QED BY <2>1, SameDescription
<1> QED BY <1>1, <1>2 DEF MergedInv

LEMMA NextMerged == IInv /\ KindInv /\ MergedInv /\ [OpenNext]_openVars => MergedInv'
<1> SUFFICES ASSUME IInv, KindInv, MergedInv, [OpenNext]_openVars PROVE MergedInv'
  OBVIOUS
<1>0. open \in [States -> BOOLEAN] /\ DOMAIN connections = States
  BY DEF IInv, TypeOK, MergedInv
<1>1. CASE ReadInput
  BY <1>1, ReadInputMerged
<1>2. CASE Merge
  BY <1>2, MergeMerged
<1>3. ASSUME NEW t, UNCHANGED <<found, metadata>>, open' = [open EXCEPT ![t] = FALSE],
             connections' = [connections EXCEPT ![t] = <<>>]
      PROVE  MergedInv'
  <2>1. DOMAIN connections' = States
    BY <1>0, <1>3
  <2>2. \A s \in States : open'[s] => open[s] /\ connections'[s] = connections[s]
    BY <1>0, <1>3
  <2> QED BY <1>3, <2>1, <2>2, OtherMerged
<1>4. CASE RefuseInputs
  <2>1. /\ UNCHANGED <<found, metadata>> /\ open' = [open EXCEPT ![call.on] = FALSE]
        /\ connections' = [connections EXCEPT ![call.on] = <<>>]
    BY <1>4 DEF RefuseInputs, OpenFails
  <2> QED BY <1>3, <2>1
<1>5. ASSUME NEW h \in Shells, CloseInputs(h) PROVE MergedInv'
  <2>1. /\ UNCHANGED <<found, metadata>> /\ open' = [open EXCEPT ![shell[h]] = FALSE]
        /\ connections' = [connections EXCEPT ![shell[h]] = <<>>]
    BY <1>5 DEF CloseInputs, Close
  <2> QED BY <1>3, <2>1
<1>6. CASE UNCHANGED <<open, merged>>
  <2>1. UNCHANGED <<open, found, connections, metadata>>
    BY <1>6 DEF merged
  <2> QED BY <1>0, <2>1, OtherMerged
<1>7. CASE UNCHANGED openVars
  <2>1. UNCHANGED <<open, merged>>
    BY <1>7 DEF openVars, vars
  <2> QED BY <1>6, <2>1
<1>8. CASE /\ \/ \E h \in Shells : BeginOpen(h) \/ DestroyShell(h)
              \/ \E h, k \in Shells : Move(h, k)
              \/ \E h \in Shells, c \in Cursors : Messages(h, c)
              \/ \E c \in Cursors : BeginDestroy(c)
              \/ DestroySource \/ DestroyDone \/ Gone
           /\ UNCHANGED merged
  <2>1. open' = open
    BY <1>8 DEF BeginOpen, DestroyShell, Move, Messages, BeginDestroy, DestroySource, DestroyDone, Gone, vars
  <2> QED BY <1>6, <1>8, <2>1
<1> QED BY <1>1, <1>2, <1>4, <1>5, <1>7, <1>8 DEF OpenNext

\* An open AnyReader describes the files it has open, whatever they hold each time they
\* are opened, also windows that end before they start: their kind, their window and each
\* of their connections (rosbags.cpp:257-293).
THEOREM Describes == OpenSpec => []DescribesInputs
<1>1. OpenInit => MergedInv
  <2> SUFFICES ASSUME OpenInit PROVE MergedInv
    OBVIOUS
  <2>1. FoundInv
    BY DEF OpenInit, FoundInv
  <2>2. DOMAIN connections = States /\ DOMAIN metadata = States /\ \A s \in States : ~open[s]
    BY DEF OpenInit, Init
  <2> QED BY <2>1, <2>2 DEF MergedInv
<1>2. KindInv /\ MergedInv => DescribesInputs
  <2> SUFFICES ASSUME KindInv, MergedInv, NEW s \in States, open[s], Kind[s] = "AnyReader"
               PROVE  /\ OneKind(s)
                      /\ WindowOf(s, metadata[s])
                      /\ {<<connections[s][n].reader, connections[s][n].number>> : n \in DOMAIN connections[s]}
                           = UNION {{r} \X (1..found[r].connections) : r \in {q \in Readers : q[1] = s}}
                      /\ \A n \in DOMAIN connections[s] :
                           /\ connections[s][n].id = n
                           /\ \A m \in 1..(n - 1) :
                                \/ connections[s][m].reader[2] < connections[s][n].reader[2]
                                \/ /\ connections[s][m].reader = connections[s][n].reader
                                   /\ connections[s][m].number < connections[s][n].number
    BY DEF DescribesInputs
  <2>1. OneKind(s) /\ WindowOf(s, metadata[s]) /\ ListsFirst(s, connections[s], Inputs[s])
    BY DEF KindInv, MergedInv, Described
  <2> QED BY <2>1, ListDescribes
<1> QED BY <1>1, <1>2, NextMerged, KindInductive, Lifecycle, Invariance, PTL DEF OpenSpec

-----------------------------------------------------------------------------
(* The merge of AnyReader::messages                                        *)

HIDE NamesAssumption
HIDE InputsAssumption
USE ReadersAssumption, ConnCountAssumption

Record == [time : Nat, conn : Nat]

\* What the assumption on the inputs says of one record of one of them.
LEMMA RecordFacts ==
  ASSUME bags \in Bags, NEW r \in Sources
  PROVE  /\ bags[r] \in Seq(Record)
         /\ DOMAIN bags[r] = 1..Len(bags[r])
         /\ Sorted(bags[r])
         /\ \A i \in DOMAIN bags[r] : /\ i \in Nat \ {0}
                                      /\ bags[r][i] \in Record
                                      /\ bags[r][i].time \in Nat
                                      /\ bags[r][i].conn \in 1..ConnCount[r]
                                      /\ bags[r][i].conn \in Nat \ {0}
<1>1. /\ bags \in [Sources -> Seq(Record)]
      /\ Sorted(bags[r])
      /\ \A i \in DOMAIN bags[r] : bags[r][i].conn \in 1..ConnCount[r]
  BY BagsAssumption DEF Record
<1>2. bags[r] \in Seq(Record)
  BY <1>1
<1>3. DOMAIN bags[r] = 1..Len(bags[r]) /\ Len(bags[r]) \in Nat
  BY <1>2
<1>4. \A i \in DOMAIN bags[r] : bags[r][i] \in Record
  BY <1>2
<1>5. QED
  BY <1>1, <1>2, <1>3, <1>4 DEF Record

\* pull() redirects the message of an admitted input to the connection it was
\* recorded on.
LEMMA MessageFacts ==
  ASSUME MergeInv, NEW r \in Sources, Admitted(r), NEW i \in DOMAIN bags[r]
  PROVE  /\ Message(r, i) \in Output
         /\ Message(r, i).time = bags[r][i].time
         /\ Message(r, i).source = r
         /\ Message(r, i).index = i
         /\ Message(r, i).connection =
              [id |-> first[r] + bags[r][i].conn, reader |-> r, conn |-> bags[r][i].conn]
         /\ first[r] + bags[r][i].conn \in DOMAIN connections_
         /\ Message(r, i).connection = connections_[first[r] + bags[r][i].conn]
<1>1. /\ i \in Nat \ {0} /\ bags[r][i].time \in Nat
      /\ bags[r][i].conn \in 1..ConnCount[r] /\ bags[r][i].conn \in Nat \ {0}
  BY RecordFacts DEF MergeInv
<1>2. status # "opening" /\ NumberedTo(NumReaders)
  BY DEF MergeInv, NumberingInv, Admitted, Passed
<1>3. base[r] = first[r] /\ first[r] \in Nat
  BY DEF MergeInv, MergeTypeOK, SourcesInv, Admitted
<1>4. /\ first[r] + bags[r][i].conn \in DOMAIN connections_
      /\ connections_[first[r] + bags[r][i].conn] =
           [id |-> first[r] + bags[r][i].conn, reader |-> r, conn |-> bags[r][i].conn]
  <2>1. r \in 1..NumReaders
    BY DEF Sources
  <2>2. QED
    BY <1>1, <1>2, <2>1 DEF NumberedTo
<1>5. Message(r, i).connection = connections_[first[r] + bags[r][i].conn]
  BY <1>3 DEF Message
<1>6. Message(r, i).connection \in Connection
  BY <1>1, <1>3, <1>4, <1>5 DEF Connection
<1>7. QED
  BY <1>1, <1>4, <1>5, <1>6 DEF Message, Output

\* A function on 1..n is a sequence of length n.
LEMMA FunctionSeq ==
  ASSUME NEW S, NEW n \in Nat, NEW f \in [1..n -> S]
  PROVE  f \in Seq(S) /\ Len(f) = n
OBVIOUS

\* Where the elements of a concatenation are.
LEMMA ConcatFacts ==
  ASSUME NEW S, NEW s \in Seq(S), NEW t \in Seq(S)
  PROVE  /\ s \o t \in Seq(S)
         /\ Len(s \o t) = Len(s) + Len(t)
         /\ DOMAIN (s \o t) = 1..Len(s) + Len(t)
         /\ \A k \in 1..Len(s) : (s \o t)[k] = s[k]
         /\ \A k \in 1..Len(t) : (s \o t)[Len(s) + k] = t[k]
BY ConcatProperties

\* Before anything is opened the invariant holds.
LEMMA MergeInitInv == MergeInit => MergeInv
<1> SUFFICES ASSUME MergeInit PROVE MergeInv
  OBVIOUS
<1> USE DEF MergeInit
<1>1. MergeTypeOK
  BY DEF MergeTypeOK, Sources
<1>2. NumberingInv
  BY DEF NumberingInv, NumberedTo, Sources
<1>3. SourcesInv
  BY DEF SourcesInv, Passed, Admitted
<1>4. HeapInv /\ NextCallInv
  BY DEF HeapInv, NextCallInv
<1>5. \A r \in Sources : HeadInv(r) /\ HandedInv(r) /\ ReadUpInv(r)
  BY DEF HeadInv, HandedInv, ReadUpInv, Admitted, Passed, Handed
<1>6. OutRecords /\ OutOrdered /\ OutAhead
  BY DEF OutRecords, OutOrdered, OutAhead
<1>7. QED
  BY <1>1, <1>2, <1>3, <1>4, <1>5, <1>6 DEF MergeInv

-----------------------------------------------------------------------------
\* AnyReader::open appends the block of one more reader to the connections.
LEMMA NumberReaderInv == MergeInv /\ NumberReader => MergeInv'
<1> SUFFICES ASSUME MergeInv, NumberReader, NEW CONSTANT r, r = next_reader PROVE MergeInv'
  OBVIOUS
<1>1. /\ status = "opening" /\ r \in Sources /\ r \in 1..NumReaders
      /\ connections_' = connections_ \o Numbered(r)
      /\ first' = [first EXCEPT ![r] = Len(connections_)]
      /\ next_reader' = r + 1
      /\ UNCHANGED <<inputs, sources, merge, status, error, out>>
  BY DEF NumberReader, Sources
<1>2. MergeTypeOK /\ NumberedTo(r - 1) /\ (r = 1 => connections_ = <<>>)
  BY <1>1 DEF MergeInv, NumberingInv
<1>3. /\ connections_ \in Seq(Connection) /\ first \in [Sources -> Nat]
      /\ Len(connections_) \in Nat /\ ConnCount[r] \in Nat
  BY <1>1, <1>2 DEF MergeTypeOK
<1>4. /\ Numbered(r) \in Seq(Connection)
      /\ Len(Numbered(r)) = ConnCount[r]
      /\ \A c \in 1..ConnCount[r] :
           Numbered(r)[c] = [id |-> Len(connections_) + c, reader |-> r, conn |-> c]
  <2>1. \A c \in 1..ConnCount[r] :
          [id |-> Len(connections_) + c, reader |-> r, conn |-> c] \in Connection
    BY <1>1, <1>3 DEF Connection
  <2>2. Numbered(r) \in [1..ConnCount[r] -> Connection]
    BY <2>1 DEF Numbered
  <2>3. \A c \in 1..ConnCount[r] :
           Numbered(r)[c] = [id |-> Len(connections_) + c, reader |-> r, conn |-> c]
    BY DEF Numbered
  <2>4. ConnCount[r] \in Nat
    BY <1>3
  <2>5. Numbered(r) \in Seq(Connection) /\ Len(Numbered(r)) = ConnCount[r]
    BY ONLY <2>2, <2>4, FunctionSeq, Zenon
  <2>6. QED
    BY <2>3, <2>5
<1>5. /\ connections_' \in Seq(Connection)
      /\ Len(connections_') = Len(connections_) + ConnCount[r]
      /\ DOMAIN connections_' = 1..Len(connections_) + ConnCount[r]
      /\ \A k \in 1..Len(connections_) : connections_'[k] = connections_[k]
      /\ \A c \in 1..ConnCount[r] :
           connections_'[Len(connections_) + c]
             = [id |-> Len(connections_) + c, reader |-> r, conn |-> c]
  <2>1. connections_' = connections_ \o Numbered(r)
    BY <1>1
  <2>2. /\ connections_ \o Numbered(r) \in Seq(Connection)
        /\ Len(connections_ \o Numbered(r)) = Len(connections_) + ConnCount[r]
        /\ DOMAIN (connections_ \o Numbered(r)) = 1..Len(connections_) + ConnCount[r]
        /\ \A k \in 1..Len(connections_) : (connections_ \o Numbered(r))[k] = connections_[k]
        /\ \A c \in 1..ConnCount[r] :
             (connections_ \o Numbered(r))[Len(connections_) + c] = Numbered(r)[c]
    <3>1. /\ connections_ \in Seq(Connection) /\ Numbered(r) \in Seq(Connection)
          /\ Len(Numbered(r)) = ConnCount[r]
      BY <1>3, <1>4
    <3>2. QED
      BY ONLY <3>1, ConcatFacts
  <2>3. QED
    BY <2>1, <2>2, <1>4
<1>6. /\ first' \in [Sources -> Nat]
      /\ first'[r] = Len(connections_)
      /\ \A q \in Sources : q # r => first'[q] = first[q]
  BY <1>1, <1>3
<1>7. MergeTypeOK'
  <2>1. next_reader' \in 1..NumReaders + 1
    BY <1>1
  <2>2. UNCHANGED <<inputs, sources, merge, status, error, out>>
    BY <1>1
  <2>3. QED
    BY <1>2, <1>5, <1>6, <2>1, <2>2 DEF MergeTypeOK, inputs, sources, merge
<1>8. NumberedTo(r)'
  <2>1. first'[1] = 0
    <3>1. CASE r = 1
      BY <3>1, <1>2, <1>6
    <3>2. CASE r # 1
      BY <3>2, <1>1, <1>2, <1>6 DEF NumberedTo, Sources
    <3>3. QED
      BY <3>1, <3>2
  <2>2. ASSUME NEW q \in 1..r
        PROVE  /\ \A c \in 1..ConnCount[q] :
                    /\ first'[q] + c \in DOMAIN connections_'
                    /\ connections_'[first'[q] + c]
                         = [id |-> first'[q] + c, reader |-> q, conn |-> c]
               /\ first'[q] + ConnCount[q]
                    = IF q = r THEN Len(connections_') ELSE first'[q + 1]
    <3>1. CASE q = r
      BY <3>1, <1>3, <1>5, <1>6
    <3>2. CASE q # r
      <4>1. q \in 1..r - 1 /\ q \in Sources /\ (q + 1) \in Sources
        BY <3>2, <1>1 DEF Sources
      <4>2. first'[q] = first[q] /\ first[q] \in Nat /\ ConnCount[q] \in Nat
        BY <4>1, <3>2, <1>3, <1>6
      <4>3. \A c \in 1..ConnCount[q] :
              /\ first[q] + c \in 1..Len(connections_)
              /\ connections_[first[q] + c] = [id |-> first[q] + c, reader |-> q, conn |-> c]
        BY <4>1, <1>2, <1>3 DEF NumberedTo
      <4>4. first[q] + ConnCount[q] = IF q = r - 1 THEN Len(connections_) ELSE first[q + 1]
        BY <4>1, <1>2 DEF NumberedTo
      <4>5. first'[q] + ConnCount[q] = first'[q + 1]
        <5>1. CASE q = r - 1
          BY <5>1, <4>2, <4>4, <1>1, <1>6
        <5>2. CASE q # r - 1
          <6>1. q + 1 # r
            BY <5>2, <4>1, <1>1
          <6>2. QED
            BY <5>2, <6>1, <4>1, <4>2, <4>4, <1>6
        <5>3. QED
          BY <5>1, <5>2
      <4>6. ASSUME NEW c \in 1..ConnCount[q]
            PROVE  /\ first[q] + c \in DOMAIN connections_'
                   /\ connections_'[first[q] + c]
                        = [id |-> first[q] + c, reader |-> q, conn |-> c]
        <5>1. first[q] + c \in 1..Len(connections_)
          BY <4>3
        <5>2. QED
          BY <5>1, <4>3, <1>3, <1>5
      <4>7. QED
        BY <3>2, <4>2, <4>5, <4>6
    <3>3. QED
      BY <3>1, <3>2
  <2>3. ASSUME NEW k \in DOMAIN connections_'
        PROVE  /\ connections_'[k].reader \in 1..r
               /\ connections_'[k].conn \in 1..ConnCount[connections_'[k].reader]
               /\ k = first'[connections_'[k].reader] + connections_'[k].conn
    <3>1. CASE k \in 1..Len(connections_)
      <4>1. /\ connections_[k].reader \in 1..r - 1
            /\ connections_[k].conn \in 1..ConnCount[connections_[k].reader]
            /\ k = first[connections_[k].reader] + connections_[k].conn
        BY <3>1, <1>2, <1>3 DEF NumberedTo
      <4>2. connections_[k].reader \in Sources /\ connections_[k].reader # r
        BY <4>1, <1>1 DEF Sources
      <4>3. connections_'[k] = connections_[k]
        BY <3>1, <1>5
      <4>4. QED
        BY <4>1, <4>2, <4>3, <1>1, <1>6
    <3>2. CASE k \notin 1..Len(connections_)
      <4>1. PICK c \in 1..ConnCount[r] : k = Len(connections_) + c
        <5>1. k - Len(connections_) \in 1..ConnCount[r]
          BY <3>2, <1>3, <1>5
        <5>2. k = Len(connections_) + (k - Len(connections_))
          BY <1>3, <1>5
        <5>3. QED
          BY <5>1, <5>2
      <4>2. connections_'[k] = [id |-> Len(connections_) + c, reader |-> r, conn |-> c]
        BY <4>1, <1>5
      <4>3. QED
        BY <4>1, <4>2, <1>1, <1>6
    <3>3. QED
      BY <3>1, <3>2
  <2>4. QED
    BY <2>1, <2>2, <2>3 DEF NumberedTo
<1>14. NumberingInv'
  <2>1. status' = "opening" /\ next_reader' - 1 = r /\ next_reader' # 1
    BY <1>1
  <2>2. QED
    BY <1>8, <2>1 DEF NumberingInv
<1>9. SourcesInv'
  BY <1>1 DEF MergeInv, SourcesInv, Passed, Admitted, sources
<1>10. out = <<>> /\ out' = <<>> /\ pending' = 0
  BY <1>1 DEF MergeInv, NextCallInv, merge
<1>11. HeapInv' /\ NextCallInv'
  BY <1>1, <1>10 DEF MergeInv, HeapInv, NextCallInv, merge, inputs
<1>12. \A q \in Sources : (HeadInv(q) /\ HandedInv(q) /\ ReadUpInv(q))'
  BY <1>1, <1>10 DEF MergeInv, HeadInv, HandedInv, ReadUpInv, Admitted, Passed, Handed, merge
<1>13. (OutRecords /\ OutOrdered /\ OutAhead)'
  BY <1>10 DEF OutRecords, OutOrdered, OutAhead
<1>15. QED
  BY <1>1, <1>7, <1>9, <1>11, <1>12, <1>13, <1>14 DEF MergeInv, inputs

\* The constructor starts from a complete numbering and no sources.
LEMMA StartCursorInv == MergeInv /\ StartCursor => MergeInv'
<1> SUFFICES ASSUME MergeInv, StartCursor PROVE MergeInv'
  OBVIOUS
<1>1. /\ status = "opening" /\ next_reader = NumReaders + 1
      /\ status' = "building" /\ next_reader' = 1 /\ 1 \in Sources
      /\ UNCHANGED <<inputs, numbering, sources, merge, error, out>>
  BY DEF StartCursor, MergeInv, MergeTypeOK, Sources
<1>2. MergeTypeOK'
  BY <1>1 DEF MergeInv, MergeTypeOK, inputs, numbering, sources, merge
<1>3. NumberingInv'
  BY <1>1 DEF MergeInv, NumberingInv, NumberedTo, numbering
<1>4. SourcesInv'
  <2>1. first'[1] = 0 /\ global_index' = 0
    BY <1>1 DEF MergeInv, NumberingInv, NumberedTo, SourcesInv, numbering, sources, Sources
  <2>2. \A r \in Sources : ~(r < 1)
    BY DEF Sources
  <2>3. QED
    BY <1>1, <2>1, <2>2 DEF MergeInv, SourcesInv, Passed, Admitted, sources
<1>5. out = <<>> /\ out' = <<>> /\ pending' = 0
  BY <1>1 DEF MergeInv, NextCallInv, merge
<1>6. HeapInv' /\ NextCallInv'
  BY <1>1, <1>5 DEF MergeInv, HeapInv, NextCallInv, merge, inputs
<1>7. \A q \in Sources : ~Admitted(q) /\ ~Admitted(q)'
  BY <1>1 DEF Admitted, Passed, Sources
<1>8. \A q \in Sources : (HeadInv(q) /\ HandedInv(q) /\ ReadUpInv(q))'
  BY <1>1, <1>5, <1>7 DEF MergeInv, HeadInv, HandedInv, ReadUpInv, Handed, merge
<1>9. (OutRecords /\ OutOrdered /\ OutAhead)'
  BY <1>5 DEF OutRecords, OutOrdered, OutAhead
<1>10. QED
  BY <1>1, <1>2, <1>3, <1>4, <1>6, <1>8, <1>9 DEF MergeInv, inputs

-----------------------------------------------------------------------------
\* While the constructor runs, global_index is where the connections of the
\* reader begin, so the local ids are the ids that were asked for.
LEMMA LocalIdsFacts ==
  ASSUME MergeInv, status = "building", NEW r \in Sources, r = next_reader
  PROVE  /\ global_index = first[r]
         /\ global_index \in Nat /\ ConnCount[r] \in Nat
         /\ LocalIds(r) = {c \in 1..ConnCount[r] : filter # {} /\ first[r] + c \in filter}
         /\ LocalIds(r) \in SUBSET Nat
         /\ r + 1 \in Sources => global_index + ConnCount[r] = first[r + 1]
         /\ r + 1 \in 1..NumReaders + 1
<1>1. global_index = first[r] /\ global_index \in Nat /\ ConnCount[r] \in Nat
  BY DEF MergeInv, SourcesInv, MergeTypeOK
<1>2. NumberedTo(NumReaders) /\ r \in 1..NumReaders
  BY DEF MergeInv, NumberingInv, Sources
<1>3. \A c \in 1..ConnCount[r] : connections_[first[r] + c].id = first[r] + c
  <2>1. SUFFICES ASSUME NEW c \in 1..ConnCount[r]
                 PROVE  connections_[first[r] + c].id = first[r] + c
    OBVIOUS
  <2>2. connections_[first[r] + c] = [id |-> first[r] + c, reader |-> r, conn |-> c]
    BY <1>2 DEF NumberedTo
  <2>3. QED
    BY ONLY <2>2
<1>4. LocalIds(r) = {c \in 1..ConnCount[r] : filter # {} /\ first[r] + c \in filter}
  BY <1>1, <1>3 DEF LocalIds
<1>5. LocalIds(r) \in SUBSET Nat
  BY <1>1, <1>4
<1>6. r + 1 \in Sources => first[r] + ConnCount[r] = first[r + 1]
  BY <1>2 DEF NumberedTo, Sources
<1>7. r + 1 \in 1..NumReaders + 1
  BY <1>2
<1>8. QED
  BY <1>1, <1>4, <1>5, <1>6, <1>7

\* A reader passed over still moves global_index past its connections.
LEMMA SkipReaderInv == MergeInv /\ SkipReader => MergeInv'
<1> SUFFICES ASSUME MergeInv, SkipReader, NEW CONSTANT r, r = next_reader PROVE MergeInv'
  OBVIOUS
<1>1. /\ status = "building" /\ r \in Sources /\ ~Relevant(r)
      /\ next_reader' = r + 1
      /\ global_index' = global_index + ConnCount[r]
      /\ UNCHANGED <<inputs, numbering, base, local, merge, status, error, out>>
  BY DEF SkipReader
<1>2. /\ global_index = first[r]
      /\ global_index \in Nat /\ ConnCount[r] \in Nat
      /\ LocalIds(r) = {c \in 1..ConnCount[r] : filter # {} /\ first[r] + c \in filter}
      /\ r + 1 \in Sources => global_index + ConnCount[r] = first[r + 1]
      /\ r + 1 \in 1..NumReaders + 1
  BY <1>1, LocalIdsFacts
<1>3. filter # {} /\ LocalIds(r) = {}
  BY <1>1 DEF Relevant
<1>4. local[r] = {} /\ r \in Nat /\ next_reader \in Nat
  BY <1>1 DEF MergeInv, SourcesInv, Passed, Sources
<1>5. \A q \in Sources : Passed(q)' <=> Passed(q) \/ q = r
  BY <1>1 DEF Passed, Sources
<1>6. \A q \in Sources : Admitted(q)' <=> Admitted(q)
  BY <1>1, <1>3, <1>4, <1>5 DEF Admitted, inputs
<1>7. MergeTypeOK'
  <2>1. global_index' \in Nat /\ next_reader' \in 1..NumReaders + 1
    BY <1>1, <1>2
  <2>2. UNCHANGED <<inputs, numbering, base, local, merge, status, error, out>>
    BY <1>1
  <2>3. QED
    BY <2>1, <2>2 DEF MergeInv, MergeTypeOK, inputs, numbering, merge
<1>8. NumberingInv'
  BY <1>1 DEF MergeInv, NumberingInv, NumberedTo, numbering
<1>9. SourcesInv'
  <2>1. (status = "building" /\ next_reader \in Sources => global_index = first[next_reader])'
    BY <1>1, <1>2 DEF numbering
  <2>2. ASSUME NEW q \in Sources
        PROVE  /\ ~Passed(q)' => local'[q] = {}
               /\ Passed(q)' => local'[q] = {c \in 1..ConnCount[q] : filter' # {} /\ first'[q] + c \in filter'}
               /\ Admitted(q)' => base'[q] = first'[q]
    <3>1. /\ ~Passed(q) => local[q] = {}
          /\ Passed(q) => local[q] = {c \in 1..ConnCount[q] : filter # {} /\ first[q] + c \in filter}
          /\ Admitted(q) => base[q] = first[q]
      BY DEF MergeInv, SourcesInv
    <3>2. CASE q = r
      BY <3>1, <3>2, <1>1, <1>2, <1>3, <1>4, <1>5, <1>6 DEF inputs, numbering
    <3>3. CASE q # r
      BY <3>1, <3>3, <1>1, <1>5, <1>6 DEF inputs, numbering
    <3>4. QED
      BY <3>2, <3>3
  <2>3. QED
    BY <2>1, <2>2, <1>1 DEF SourcesInv
<1>10. HeapInv' /\ NextCallInv'
  BY <1>1, <1>6 DEF MergeInv, HeapInv, NextCallInv, merge, inputs
<1>11. \A q \in Sources : (HeadInv(q) /\ HandedInv(q) /\ ReadUpInv(q))'
  BY <1>1, <1>6 DEF MergeInv, HeadInv, HandedInv, ReadUpInv, Handed, Yields, Exhausted, merge, inputs
<1>12. (OutRecords /\ OutOrdered /\ OutAhead)'
  BY <1>1 DEF MergeInv, NextCallInv, OutRecords, OutOrdered, OutAhead
<1>13. QED
  BY <1>1, <1>7, <1>8, <1>9, <1>10, <1>11, <1>12 DEF MergeInv, inputs

\* A local cursor that cannot be made ends the construction.
LEMMA AddSourceFailsInv == MergeInv /\ AddSourceFails => MergeInv'
<1> SUFFICES ASSUME MergeInv, AddSourceFails PROVE MergeInv'
  OBVIOUS
<1>1. /\ status = "building" /\ next_reader \in Sources
      /\ status' = "failed" /\ error' = next_reader
      /\ UNCHANGED <<inputs, numbering, sources, merge, next_reader, out>>
  BY DEF AddSourceFails
<1>2. /\ out = <<>> /\ out' = <<>> /\ head'[next_reader] = 0 /\ pending' = 0
      /\ taken'[next_reader] = 0
  <2>1. ~Admitted(next_reader)
    BY <1>1 DEF Admitted, Passed, Sources
  <2>2. QED
    BY <1>1, <2>1 DEF MergeInv, NextCallInv, HeadInv, merge
<1>3. \A q \in Sources : (Passed(q)' <=> Passed(q)) /\ (Admitted(q)' <=> Admitted(q))
  BY <1>1 DEF Passed, Admitted, inputs, sources
<1>4. MergeTypeOK'
  BY <1>1 DEF MergeInv, MergeTypeOK, inputs, numbering, sources, merge
<1>5. NumberingInv'
  BY <1>1 DEF MergeInv, NumberingInv, NumberedTo, numbering
<1>6. SourcesInv'
  BY <1>1, <1>3 DEF MergeInv, SourcesInv, inputs, numbering, sources
<1>7. HeapInv' /\ NextCallInv'
  BY <1>1, <1>2 DEF MergeInv, HeapInv, NextCallInv, merge, inputs
<1>8. ASSUME NEW q \in Sources
      PROVE  (HeadInv(q) /\ HandedInv(q) /\ ReadUpInv(q))'
  <2>1. HeadInv(q)'
    BY <1>1, <1>3 DEF MergeInv, HeadInv, Yields, merge, inputs, sources
  <2>2. HandedInv(q)'
    <3>1. ASSUME NEW i \in DOMAIN bags[q] PROVE i # 0
      BY RecordFacts DEF MergeInv
    <3>2. QED
      BY <1>1, <1>2, <1>3, <3>1 DEF MergeInv, HandedInv, Handed, Yields, merge, inputs, sources
  <2>3. ReadUpInv(q)'
    BY <1>1 DEF ReadUpInv
  <2>4. QED
    BY <2>1, <2>2, <2>3
<1>9. (OutRecords /\ OutOrdered /\ OutAhead)'
  BY <1>2 DEF OutRecords, OutOrdered, OutAhead
<1>10. QED
  BY <1>1, <1>4, <1>5, <1>6, <1>7, <1>8, <1>9 DEF MergeInv, inputs

\* The constructor returns when every reader was passed.
LEMMA BuiltInv == MergeInv /\ Built => MergeInv'
<1> SUFFICES ASSUME MergeInv, Built PROVE MergeInv'
  OBVIOUS
<1>1. /\ status = "building" /\ next_reader = NumReaders + 1 /\ status' = "open"
      /\ UNCHANGED <<inputs, numbering, sources, merge, next_reader, error, out>>
  BY DEF Built, MergeInv, MergeTypeOK, Sources
<1>2. \A q \in Sources : (Passed(q)' <=> Passed(q)) /\ (Admitted(q)' <=> Admitted(q))
  BY <1>1 DEF Passed, Admitted, inputs, sources
<1>3. MergeTypeOK'
  BY <1>1 DEF MergeInv, MergeTypeOK, inputs, numbering, sources, merge
<1>4. NumberingInv'
  BY <1>1 DEF MergeInv, NumberingInv, NumberedTo, numbering
<1>5. SourcesInv'
  BY <1>1, <1>2 DEF MergeInv, SourcesInv, inputs, numbering, sources
<1>6. HeapInv' /\ NextCallInv'
  BY <1>1, <1>2 DEF MergeInv, HeapInv, NextCallInv, merge, inputs
<1>7. \A q \in Sources : (HeadInv(q) /\ HandedInv(q) /\ ReadUpInv(q))'
  BY <1>1, <1>2 DEF MergeInv, HeadInv, HandedInv, ReadUpInv, Handed, Yields, Exhausted, merge, inputs, sources
<1>8. (OutRecords /\ OutOrdered /\ OutAhead)'
  BY <1>1 DEF MergeInv, NextCallInv, OutRecords, OutOrdered, OutAhead
<1>9. QED
  BY <1>1, <1>3, <1>4, <1>5, <1>6, <1>7, <1>8 DEF MergeInv, inputs

-----------------------------------------------------------------------------
\* What one pull() of an input without a head does to the bookkeeping of that
\* input, whichever of the three things its local cursor does.
Pulled(r, ids) == PullRecord(r, ids) \/ PullEnd(r, ids) \/ PullFault(r, ids)

\* pull() reads at most one record, the first the filter asks for, and either
\* makes it the head, finds none left, or fails at it.
LEMMA PullFacts ==
  ASSUME bags \in Bags, NEW r \in Sources, NEW ids, Pulled(r, ids),
         taken \in [Sources -> Nat], head \in [Sources -> Nat],
         heap \subseteq [time : Nat, source : Sources],
         status # "failed", head[r] = 0
  PROVE  /\ taken' \in [Sources -> Nat] /\ head' \in [Sources -> Nat]
         /\ heap' \subseteq [time : Nat, source : Sources]
         /\ \A q \in Sources : q # r => taken'[q] = taken[q] /\ head'[q] = head[q]
         /\ \A j \in DOMAIN bags[r] :
              taken[r] < j /\ Yields(r, j, ids) =>
                 (j <= taken'[r] => \/ j = head'[r]
                                    \/ status' = "failed" /\ error' = r /\ j = taken'[r])
         /\ taken[r] <= taken'[r]
         /\ head'[r] # 0 => /\ head'[r] = taken'[r] /\ head'[r] \in DOMAIN bags[r]
                            /\ taken[r] < head'[r]
                            /\ Yields(r, head'[r], ids)
                            /\ heap' = heap \cup {[time |-> bags[r][head'[r]].time, source |-> r]}
         /\ head'[r] = 0 => heap' = heap
         /\ head'[r] = 0 /\ status' # "failed" =>
              /\ \A j \in DOMAIN bags[r] : taken'[r] < j => ~Yields(r, j, ids)
              /\ taken'[r] = taken[r]
         /\ \/ UNCHANGED <<status, error>>
            \/ status' = "failed" /\ error' = r /\ head'[r] = 0 /\ taken[r] < taken'[r]
<1>1. \A i \in DOMAIN bags[r] : i \in Nat \ {0} /\ bags[r][i].time \in Nat
  BY RecordFacts
<1>2. CASE PullRecord(r, ids)
  <2>1. PICK i \in DOMAIN bags[r] :
          /\ IsNext(r, i, ids)
          /\ taken' = [taken EXCEPT ![r] = i]
          /\ head' = [head EXCEPT ![r] = i]
          /\ heap' = heap \cup {[time |-> bags[r][i].time, source |-> r]}
          /\ UNCHANGED <<status, error>>
    BY <1>2 DEF PullRecord
  <2>2. /\ taken'[r] = i /\ head'[r] = i /\ i \in Nat \ {0}
        /\ taken' \in [Sources -> Nat] /\ head' \in [Sources -> Nat]
        /\ \A q \in Sources : q # r => taken'[q] = taken[q] /\ head'[q] = head[q]
    BY <2>1, <1>1
  <2>3. heap' \subseteq [time : Nat, source : Sources]
    BY <2>1, <1>1
  <2>4. QED
    BY <2>1, <2>2, <2>3, <1>1 DEF IsNext
<1>3. CASE PullEnd(r, ids)
  BY <1>1, <1>3 DEF PullEnd, Exhausted
<1>4. CASE PullFault(r, ids)
  <2>1. PICK i \in DOMAIN bags[r] :
          /\ IsNext(r, i, ids)
          /\ taken' = [taken EXCEPT ![r] = i]
          /\ status' = "failed" /\ error' = r
          /\ UNCHANGED <<head, heap>>
    BY <1>4 DEF PullFault
  <2>2. /\ taken'[r] = i /\ head'[r] = 0 /\ i \in Nat \ {0}
        /\ taken' \in [Sources -> Nat]
        /\ \A q \in Sources : q # r => taken'[q] = taken[q]
    BY <2>1, <1>1
  <2>3. QED
    BY <2>1, <2>2, <1>1 DEF IsNext
<1>5. QED
  BY <1>2, <1>3, <1>4 DEF Pulled

\* From those facts the invariants of every input follow, when the records of
\* the input up to the last one read were handed out or never asked for.
LEMMA PullInv ==
  ASSUME MergeInv, NEW r \in Sources, Pulled(r, local'[r]),
         status # "failed", head[r] = 0,
         Admitted(r)',
         Admitted(r) => local'[r] = local[r],
         ~Admitted(r) => out = <<>>,
         \A q \in Sources : q # r => (Admitted(q)' <=> Admitted(q)) /\ local'[q] = local[q],
         UNCHANGED <<bags, out>>,
         pending = r \/ pending = pending',
         pending' = r => status' = "failed",
         pending' \in {0, pending}
  PROVE  (\A q \in Sources : HeadInv(q) /\ HandedInv(q) /\ ReadUpInv(q))' /\ HeapInv'
<1> USE DEF MergeInv
<1>1. /\ taken' \in [Sources -> Nat] /\ head' \in [Sources -> Nat]
      /\ \A q \in Sources : q # r => taken'[q] = taken[q] /\ head'[q] = head[q]
      /\ \A j \in DOMAIN bags[r] :
           taken[r] < j /\ Yields(r, j, local'[r]) =>
              (j <= taken'[r] => \/ j = head'[r]
                                 \/ status' = "failed" /\ error' = r /\ j = taken'[r])
      /\ taken[r] <= taken'[r]
      /\ head'[r] # 0 => /\ head'[r] = taken'[r] /\ head'[r] \in DOMAIN bags[r]
                         /\ taken[r] < head'[r]
                         /\ Yields(r, head'[r], local'[r])
                         /\ heap' = heap \cup {[time |-> bags[r][head'[r]].time, source |-> r]}
      /\ head'[r] = 0 => heap' = heap
      /\ head'[r] = 0 /\ status' # "failed" =>
           /\ \A j \in DOMAIN bags[r] : taken'[r] < j => ~Yields(r, j, local'[r])
           /\ taken'[r] = taken[r]
      /\ \/ UNCHANGED <<status, error>>
         \/ status' = "failed" /\ error' = r /\ head'[r] = 0 /\ taken[r] < taken'[r]
  BY PullFacts DEF MergeTypeOK
<1>2. /\ \A q \in Sources : \A i : Handed(q, i)' <=> Handed(q, i)
      /\ \A q \in Sources : \A i, ids : Yields(q, i, ids)' <=> Yields(q, i, ids')
  BY DEF Handed, Yields
<1>3. taken[r] \in Nat /\ taken'[r] \in Nat /\ head'[r] \in Nat
  BY <1>1 DEF MergeTypeOK
<1>4. \A i \in DOMAIN bags[r] : i \in Nat \ {0}
  BY RecordFacts
<1>5. ASSUME NEW q \in Sources, q # r
      PROVE  (HeadInv(q) /\ HandedInv(q) /\ ReadUpInv(q))'
  <2>1. HeadInv(q)'
    BY <1>1, <1>5 DEF HeadInv, Yields
  <2>2. HandedInv(q)'
    <3>1. SUFFICES ASSUME NEW i \in DOMAIN bags[q]
                   PROVE  Handed(q, i)' <=> /\ Admitted(q)'
                                            /\ Yields(q, i, local[q])'
                                            /\ i <= taken'[q]
                                            /\ i # head'[q]
                                            /\ ~(status' = "failed" /\ error' = q /\ i = taken'[q])
      BY DEF HandedInv
    <3>2. ~(status' = "failed" /\ error' = q)
      BY <1>1, <1>5
    <3>3. taken'[q] = taken[q] /\ head'[q] = head[q] /\ local'[q] = local[q]
      BY <1>1, <1>5
    <3>4. (Handed(q, i)' <=> Handed(q, i)) /\ (Admitted(q)' <=> Admitted(q))
      BY <1>2, <1>5
    <3>5. Yields(q, i, local[q])' <=> Yields(q, i, local[q])
      BY <3>3 DEF Yields
    <3>6. Handed(q, i) <=> /\ Admitted(q)
                           /\ Yields(q, i, local[q])
                           /\ i <= taken[q]
                           /\ i # head[q]
      BY DEF HandedInv
    <3>7. QED
      BY ONLY <3>2, <3>3, <3>4, <3>5, <3>6
  <2>3. ReadUpInv(q)'
    BY <1>1, <1>5 DEF ReadUpInv, Exhausted, Yields
  <2>4. QED
    BY <2>1, <2>2, <2>3
<1>6. HeadInv(r)'
  BY <1>1 DEF HeadInv, Yields
<1>7. HandedInv(r)'
  <2>1. SUFFICES ASSUME NEW i \in DOMAIN bags[r]
                 PROVE  Handed(r, i) <=> /\ Yields(r, i, local'[r])
                                         /\ i <= taken'[r]
                                         /\ i # head'[r]
                                         /\ ~(status' = "failed" /\ error' = r /\ i = taken'[r])
    BY <1>2 DEF HandedInv, Yields
  <2>2. CASE i <= taken[r]
    <3>1. Handed(r, i) <=> Admitted(r) /\ Yields(r, i, local[r])
      BY <2>2, <1>4 DEF HandedInv
    <3>2. Admitted(r)
      BY <2>2, <1>3, <1>4 DEF HeadInv
    <3>3. i <= taken'[r] /\ i # head'[r]
      BY <2>2, <1>1, <1>3, <1>4
    <3>4. ~(status' = "failed" /\ error' = r /\ i = taken'[r])
      BY <2>2, <1>1, <1>3, <1>4
    <3>5. QED
      BY <3>1, <3>2, <3>3, <3>4
  <2>3. CASE ~(i <= taken[r])
    <3>1. ~Handed(r, i) /\ taken[r] < i
      BY <2>3, <1>3, <1>4 DEF HandedInv
    <3>2. QED
      BY <3>1, <1>1
  <2>4. QED
    BY <2>2, <2>3
<1>8. ReadUpInv(r)'
  BY <1>1 DEF ReadUpInv, Exhausted, Yields
<1>9. HeapInv'
  <2>1. CASE head'[r] = 0
    <3>1. \A q \in Sources : head'[q] = head[q]
      BY <2>1, <1>1
    <3>2. {q \in Sources : head'[q] # 0} = {q \in Sources : head[q] # 0}
      BY <3>1
    <3>3. heap = {[time |-> bags[q][head[q]].time, source |-> q] : q \in {p \in Sources : head[p] # 0}}
      BY DEF HeapInv
    <3>4. heap' = heap
      BY <2>1, <1>1
    <3>5. heap = {[time |-> bags[q][head'[q]].time, source |-> q] : q \in {p \in Sources : head'[p] # 0}}
      BY ONLY <3>1, <3>2, <3>3
    <3>6. QED
      BY <3>4, <3>5 DEF HeapInv
  <2>2. CASE head'[r] # 0
    <3>1. {q \in Sources : head'[q] # 0} = {q \in Sources : head[q] # 0} \cup {r}
      BY <2>2, <1>1
    <3>2. \A q \in Sources : head[q] # 0 => head'[q] = head[q]
      BY <1>1
    <3>3. heap' = heap \cup {[time |-> bags[r][head'[r]].time, source |-> r]}
      BY <2>2, <1>1
    <3>4. heap = {[time |-> bags[q][head[q]].time, source |-> q] : q \in {p \in Sources : head[p] # 0}}
      BY DEF HeapInv
    <3>5. heap' = {[time |-> bags[q][head'[q]].time, source |-> q] : q \in {p \in Sources : head'[p] # 0}}
      BY <3>1, <3>2, <3>3, <3>4
    <3>6. QED
      BY <3>5 DEF HeapInv
  <2>3. QED
    BY <2>1, <2>2
<1>10. QED
  BY <1>5, <1>6, <1>7, <1>8, <1>9

\* A reader with requested connections gets its source and its first message.
LEMMA AddSourceInv == MergeInv /\ AddSource => MergeInv'
<1> SUFFICES ASSUME MergeInv, AddSource, NEW CONSTANT r, r = next_reader PROVE MergeInv'
  OBVIOUS
<1>1. /\ status = "building" /\ r \in Sources /\ Relevant(r)
      /\ base' = [base EXCEPT ![r] = global_index]
      /\ local' = [local EXCEPT ![r] = LocalIds(r)]
      /\ Pulled(r, LocalIds(r))
      /\ global_index' = global_index + ConnCount[r]
      /\ next_reader' = r + 1
      /\ UNCHANGED <<inputs, numbering, pending, out>>
  BY DEF AddSource, Pulled
<1>2. /\ global_index = first[r]
      /\ global_index \in Nat /\ ConnCount[r] \in Nat
      /\ LocalIds(r) = {c \in 1..ConnCount[r] : filter # {} /\ first[r] + c \in filter}
      /\ LocalIds(r) \in SUBSET Nat
      /\ r + 1 \in Sources => global_index + ConnCount[r] = first[r + 1]
      /\ r + 1 \in 1..NumReaders + 1
  BY <1>1, LocalIdsFacts
<1>3. /\ base' \in [Sources -> Nat] /\ local' \in [Sources -> SUBSET Nat]
      /\ base'[r] = first[r] /\ local'[r] = LocalIds(r)
      /\ \A q \in Sources : q # r => base'[q] = base[q] /\ local'[q] = local[q]
  BY <1>1, <1>2 DEF MergeInv, MergeTypeOK
<1>4. /\ \A q \in Sources : Passed(q) <=> q < r
      /\ \A q \in Sources : Passed(q)' <=> q < r + 1
  <2>1. status' # "opening"
    BY <1>1 DEF Pulled, PullRecord, PullEnd, PullFault
  <2>2. QED
    BY <1>1, <2>1 DEF Passed
<1>5. /\ Passed(r)' /\ ~Passed(r)
      /\ \A q \in Sources : q # r => (Passed(q)' <=> Passed(q))
  BY <1>1, <1>4 DEF Sources
<1>6. /\ Admitted(r)' /\ ~Admitted(r)
      /\ \A q \in Sources : q # r => (Admitted(q)' <=> Admitted(q))
  BY <1>1, <1>3, <1>5 DEF Admitted, Relevant, inputs
<1>7. /\ out = <<>> /\ out' = <<>> /\ pending = 0 /\ pending' = 0
      /\ taken[r] = 0 /\ head[r] = 0
  BY <1>1, <1>6 DEF MergeInv, NextCallInv, HeadInv
<1>8. /\ taken' \in [Sources -> Nat] /\ head' \in [Sources -> Nat]
      /\ heap' \subseteq [time : Nat, source : Sources]
      /\ \/ UNCHANGED <<status, error>>
         \/ status' = "failed" /\ error' = r /\ head'[r] = 0
  BY <1>1, <1>7, PullFacts DEF MergeInv, MergeTypeOK
<1>9. MergeTypeOK'
  <2>1. global_index' \in Nat /\ next_reader' \in 1..NumReaders + 1
    BY <1>1, <1>2
  <2>2. /\ status' \in {"opening", "building", "open", "ended", "failed"}
        /\ error' \in {0} \cup Sources
    BY <1>8, <1>1 DEF MergeInv, MergeTypeOK
  <2>3. UNCHANGED <<numbering, pending, out>>
    BY <1>1
  <2>4. QED
    BY <2>1, <2>2, <2>3, <1>3, <1>8 DEF MergeInv, MergeTypeOK, numbering
<1>10. NumberingInv'
  BY <1>1, <1>8 DEF MergeInv, NumberingInv, NumberedTo, numbering
<1>11. SourcesInv'
  <2>1. (status = "building" /\ next_reader \in Sources => global_index = first[next_reader])'
    BY <1>1, <1>2 DEF numbering
  <2>2. ASSUME NEW q \in Sources
        PROVE  /\ ~Passed(q)' => local'[q] = {}
               /\ Passed(q)' => local'[q] = {c \in 1..ConnCount[q] : filter' # {} /\ first'[q] + c \in filter'}
               /\ Admitted(q)' => base'[q] = first'[q]
    <3>1. CASE q = r
      BY <3>1, <1>1, <1>2, <1>3, <1>5 DEF inputs, numbering
    <3>2. CASE q # r
      BY <3>2, <1>1, <1>3, <1>5, <1>6 DEF MergeInv, SourcesInv, inputs, numbering
    <3>3. QED
      BY <3>1, <3>2
  <2>3. QED
    BY <2>1, <2>2, <1>1, <1>8 DEF SourcesInv
<1>12. (\A q \in Sources : HeadInv(q) /\ HandedInv(q) /\ ReadUpInv(q))' /\ HeapInv'
  <2>1. UNCHANGED <<bags, out>> /\ status # "failed" /\ pending' # r
    BY <1>1, <1>7 DEF inputs, Sources
  <2>2. Pulled(r, local'[r])
    BY <1>1, <1>3
  <2>3. QED
    BY <2>1, <2>2, <1>1, <1>3, <1>6, <1>7, PullInv
<1>13. NextCallInv'
  BY <1>1, <1>7, <1>8 DEF NextCallInv
<1>14. (OutRecords /\ OutOrdered /\ OutAhead)'
  BY <1>7 DEF OutRecords, OutOrdered, OutAhead
<1>15. QED
  BY <1>1, <1>9, <1>10, <1>11, <1>12, <1>13, <1>14 DEF MergeInv, inputs

\* A step that hands nothing out and changes neither the sources nor what they
\* are asked for keeps what is said of the messages handed out.
LEMMA OutStays ==
  ASSUME MergeInv, UNCHANGED <<inputs, numbering, sources, next_reader, out>>,
         status # "opening", status' # "opening"
  PROVE  /\ (OutRecords /\ OutOrdered /\ OutAhead)'
         /\ \A q \in Sources : (Passed(q)' <=> Passed(q)) /\ (Admitted(q)' <=> Admitted(q))
<1> USE DEF inputs, numbering, sources
<1>1. \A q \in Sources : (Passed(q)' <=> Passed(q)) /\ (Admitted(q)' <=> Admitted(q))
  BY DEF Passed, Admitted
<1>2. /\ \A q, i : Message(q, i)' = Message(q, i)
      /\ \A q, i : Handed(q, i)' <=> Handed(q, i)
  BY DEF Message, Handed
<1>3. OutRecords'
  BY <1>2 DEF MergeInv, OutRecords, Message
<1>4. OutOrdered'
  BY DEF MergeInv, OutOrdered, Stream!Precedes
<1>5. OutAhead'
  BY <1>1, <1>2 DEF MergeInv, OutAhead, Yields, Stream!Precedes, Message, Handed
<1>6. QED
  BY <1>1, <1>3, <1>4, <1>5

\* next() reads the pending input on, or fails at it.
LEMMA RefillInv == MergeInv /\ Refill => MergeInv'
<1> SUFFICES ASSUME MergeInv, Refill, NEW CONSTANT r, r = pending PROVE MergeInv'
  OBVIOUS
<1>1. /\ status = "open" /\ r \in Sources /\ Pulled(r, local[r])
      /\ \/ pending' = 0 /\ status' = status
         \/ pending' = pending /\ status' = "failed"
      /\ UNCHANGED <<inputs, numbering, sources, next_reader, out>>
  BY DEF Refill, Pulled, PullRecord, PullEnd, PullFault, MergeInv, MergeTypeOK
<1>2. Admitted(r) /\ head[r] = 0
  BY <1>1 DEF MergeInv, NextCallInv, Sources
<1>3. /\ taken' \in [Sources -> Nat] /\ head' \in [Sources -> Nat]
      /\ heap' \subseteq [time : Nat, source : Sources]
      /\ \/ UNCHANGED <<status, error>>
         \/ status' = "failed" /\ error' = r /\ head'[r] = 0
  BY <1>1, <1>2, PullFacts DEF MergeInv, MergeTypeOK
<1>4. /\ (OutRecords /\ OutOrdered /\ OutAhead)'
      /\ \A q \in Sources : (Passed(q)' <=> Passed(q)) /\ (Admitted(q)' <=> Admitted(q))
  <2>1. status # "opening" /\ status' # "opening"
    BY <1>1
  <2>2. QED
    BY <2>1, <1>1, OutStays
<1>5. MergeTypeOK'
  <2>1. /\ status' \in {"opening", "building", "open", "ended", "failed"}
        /\ error' \in {0} \cup Sources
        /\ pending' \in {0} \cup Sources
    BY <1>1, <1>3 DEF MergeInv, MergeTypeOK
  <2>2. UNCHANGED <<numbering, sources, next_reader, out>>
    BY <1>1
  <2>3. QED
    BY <2>1, <2>2, <1>3 DEF MergeInv, MergeTypeOK, numbering, sources
<1>6. NumberingInv'
  BY <1>1 DEF MergeInv, NumberingInv, NumberedTo, numbering
<1>7. SourcesInv'
  BY <1>1, <1>4 DEF MergeInv, SourcesInv, inputs, numbering, sources
<1>8. (\A q \in Sources : HeadInv(q) /\ HandedInv(q) /\ ReadUpInv(q))' /\ HeapInv'
  <2>1. /\ UNCHANGED <<bags, out>> /\ local' = local /\ Admitted(r)'
        /\ pending = r /\ (pending' = r => status' = "failed") /\ pending' \in {0, pending}
    BY <1>1, <1>2, <1>4 DEF inputs, sources, Sources
  <2>2. Pulled(r, local'[r]) /\ status # "failed"
    BY <2>1, <1>1
  <2>3. QED
    BY <2>1, <2>2, <1>1, <1>2, <1>4, PullInv
<1>9. NextCallInv'
  BY <1>1, <1>2, <1>3, <1>4 DEF NextCallInv
<1>10. QED
  BY <1>1, <1>4, <1>5, <1>6, <1>7, <1>8, <1>9 DEF MergeInv, inputs

\* Reporting the end of the stream changes nothing else.
LEMMA EndOfStreamInv == MergeInv /\ EndOfStream => MergeInv'
<1> SUFFICES ASSUME MergeInv, EndOfStream PROVE MergeInv'
  OBVIOUS
<1>1. /\ status = "open" /\ status' = "ended" /\ pending = 0 /\ heap = {}
      /\ UNCHANGED <<inputs, numbering, sources, merge, next_reader, error, out>>
  BY DEF EndOfStream
<1>2. /\ (OutRecords /\ OutOrdered /\ OutAhead)'
      /\ \A q \in Sources : (Passed(q)' <=> Passed(q)) /\ (Admitted(q)' <=> Admitted(q))
  <2>1. status # "opening" /\ status' # "opening"
    BY <1>1
  <2>2. QED
    BY <2>1, <1>1, OutStays
<1>3. MergeTypeOK'
  BY <1>1 DEF MergeInv, MergeTypeOK, numbering, sources, merge
<1>4. NumberingInv'
  BY <1>1 DEF MergeInv, NumberingInv, NumberedTo, numbering
<1>5. SourcesInv'
  BY <1>1, <1>2 DEF MergeInv, SourcesInv, inputs, numbering, sources
<1>6. HeapInv' /\ NextCallInv'
  BY <1>1, <1>2 DEF MergeInv, HeapInv, NextCallInv, merge, inputs
<1>7. \A q \in Sources : (HeadInv(q) /\ HandedInv(q) /\ ReadUpInv(q))'
  BY <1>1, <1>2 DEF MergeInv, HeadInv, HandedInv, ReadUpInv, Handed, Yields, Exhausted, merge, inputs, sources
<1>8. QED
  BY <1>1, <1>2, <1>3, <1>4, <1>5, <1>6, <1>7 DEF MergeInv, inputs

\* Handing out the top of the heap: nothing still to come precedes it, because
\* every input that is not exhausted has its head in the heap.
LEMMA PopInv == MergeInv /\ Pop => MergeInv'
<1> SUFFICES ASSUME MergeInv, Pop,
                    NEW CONSTANT r, NEW CONSTANT h, NEW CONSTANT item,
                    r = item.source, h = head[r],
                    item \in heap, IsTop(item),
                    heap' = heap \ {item},
                    out' = Append(out, Message(r, h)),
                    head' = [head EXCEPT ![r] = 0],
                    pending' = r
             PROVE  MergeInv'
  BY DEF Pop
<1>1. /\ status = "open" /\ pending = 0 /\ status' = "open"
      /\ UNCHANGED <<inputs, numbering, sources, taken, next_reader, status, error>>
  BY DEF Pop
<1>2. /\ r \in Sources /\ h # 0 /\ item = [time |-> bags[r][h].time, source |-> r]
      /\ \A q \in Sources : head[q] # 0 =>
           [time |-> bags[q][head[q]].time, source |-> q] \in heap
  BY DEF MergeInv, HeapInv
<1>3. /\ Admitted(r) /\ h = taken[r] /\ h \in DOMAIN bags[r] /\ Yields(r, h, local[r])
      /\ h \in Nat /\ taken \in [Sources -> Nat] /\ head \in [Sources -> Nat]
  BY <1>2 DEF MergeInv, HeadInv, MergeTypeOK
<1>4. \A q \in Sources : head[q] # 0 /\ q # r =>
        \/ bags[r][h].time < bags[q][head[q]].time
        \/ bags[r][h].time = bags[q][head[q]].time /\ r < q
  <2>1. SUFFICES ASSUME NEW q \in Sources, head[q] # 0, q # r
                 PROVE  \/ bags[r][h].time < bags[q][head[q]].time
                        \/ bags[r][h].time = bags[q][head[q]].time /\ r < q
    OBVIOUS
  <2>2. PICK other : other = [time |-> bags[q][head[q]].time, source |-> q]
    OBVIOUS
  <2>3. other \in heap /\ other # item
    BY <2>1, <2>2, <1>2
  <2>4. Before(item, other)
    BY <2>3 DEF IsTop
  <2>5. item.time = bags[r][h].time /\ other.time = bags[q][head[q]].time /\ other.source = q
    BY <2>2, <1>2
  <2>6. QED
    BY <2>4, <2>5 DEF Before
<1>5. \A q \in Sources : \A i \in DOMAIN bags[q] : i \in Nat \ {0} /\ bags[q][i].time \in Nat
  BY RecordFacts DEF MergeInv
<1>6. \A q \in Sources : \A i :
        /\ (Passed(q)' <=> Passed(q)) /\ (Admitted(q)' <=> Admitted(q))
        /\ Message(q, i)' = Message(q, i)
        /\ Yields(q, i, local[q])' <=> Yields(q, i, local[q])
  BY <1>1 DEF Passed, Admitted, Message, Yields, inputs, numbering, sources
<1>7. Message(r, h) \in Output /\ Message(r, h).source = r /\ Message(r, h).index = h
  BY <1>2, <1>3, MessageFacts, Zenon
<1>8. /\ out \in Seq(Output) /\ out' \in Seq(Output) /\ Len(out) \in Nat
      /\ DOMAIN out = 1..Len(out) /\ DOMAIN out' = 1..Len(out) + 1
      /\ \A n \in DOMAIN out : out'[n] = out[n]
      /\ out'[Len(out) + 1] = Message(r, h)
  <2>1. out \in Seq(Output)
    BY DEF MergeInv, MergeTypeOK
  <2>2. out' = Append(out, Message(r, h))
    OBVIOUS
  <2>3. QED
    BY <1>7, <2>1, <2>2, AppendProperties
<1>9. \A q, i : Handed(q, i)' <=> Handed(q, i) \/ (q = r /\ i = h)
  <2>1. SUFFICES ASSUME NEW q, NEW i
                 PROVE  Handed(q, i)' <=> Handed(q, i) \/ (q = r /\ i = h)
    OBVIOUS
  <2>2. Handed(q, i)' <=> \E n \in 1..Len(out) + 1 : out'[n].source = q /\ out'[n].index = i
    BY <1>8 DEF Handed
  <2>3. Handed(q, i) <=> \E n \in 1..Len(out) : out'[n].source = q /\ out'[n].index = i
    BY <1>8 DEF Handed
  <2>4. \A n : n \in 1..Len(out) + 1 <=> n \in 1..Len(out) \/ n = Len(out) + 1
    BY <1>8
  <2>5. QED
    BY <2>2, <2>3, <2>4, <1>7, <1>8
<1>10. /\ head' \in [Sources -> Nat] /\ head'[r] = 0
       /\ \A q \in Sources : q # r => head'[q] = head[q]
  BY <1>2, <1>3
<1>11. MergeTypeOK'
  <2>1. pending' \in {0} \cup Sources /\ heap' \subseteq [time : Nat, source : Sources]
    BY <1>2 DEF MergeInv, MergeTypeOK
  <2>2. QED
    BY <1>1, <1>8, <1>10, <2>1 DEF MergeInv, MergeTypeOK, numbering, sources
<1>12. NumberingInv'
  BY <1>1 DEF MergeInv, NumberingInv, NumberedTo, numbering
<1>13. SourcesInv'
  BY <1>1, <1>6 DEF MergeInv, SourcesInv, inputs, numbering, sources
<1>14. HeapInv'
  <2>1. heap = {[time |-> bags[q][head[q]].time, source |-> q] : q \in {p \in Sources : head[p] # 0}}
    BY DEF MergeInv, HeapInv
  <2>2. {p \in Sources : head'[p] # 0} = {p \in Sources : head[p] # 0} \ {r}
    BY <1>10
  <2>3. heap \ {item}
          = {[time |-> bags[q][head[q]].time, source |-> q] : q \in {p \in Sources : head[p] # 0} \ {r}}
    BY <1>2, <2>1
  <2>4. heap' = {[time |-> bags[q][head'[q]].time, source |-> q] : q \in {p \in Sources : head'[p] # 0}}
    BY <1>10, <2>2, <2>3
  <2>5. bags' = bags
    BY <1>1 DEF inputs
  <2>6. QED
    BY <2>4, <2>5 DEF HeapInv
<1>15. NextCallInv'
  BY <1>1, <1>2, <1>3, <1>6, <1>10 DEF NextCallInv
<1>16. ASSUME NEW q \in Sources PROVE (HeadInv(q) /\ HandedInv(q) /\ ReadUpInv(q))'
  <2>1. HeadInv(q)'
    BY <1>1, <1>3, <1>6, <1>10 DEF MergeInv, HeadInv, Yields, inputs, sources
  <2>2. HandedInv(q)'
    <3>1. SUFFICES ASSUME NEW i \in DOMAIN bags[q]
                   PROVE  Handed(q, i)' <=> /\ Admitted(q)
                                            /\ Yields(q, i, local[q])
                                            /\ i <= taken[q]
                                            /\ i # head'[q]
      BY <1>1, <1>6 DEF HandedInv, inputs, sources, Yields
    <3>2. Handed(q, i) <=> /\ Admitted(q)
                           /\ Yields(q, i, local[q])
                           /\ i <= taken[q]
                           /\ i # head[q]
      BY <1>1 DEF MergeInv, HandedInv
    <3>3. CASE q = r
      BY <3>2, <3>3, <1>3, <1>5, <1>9, <1>10
    <3>4. CASE q # r
      BY <3>2, <3>4, <1>9, <1>10
    <3>5. QED
      BY <3>3, <3>4
  <2>3. ReadUpInv(q)'
    <3>1. pending # q /\ (q = r => pending' = q)
      BY <1>1 DEF Sources
    <3>2. QED
      BY <3>1, <1>1, <1>6, <1>10 DEF MergeInv, ReadUpInv, Exhausted, Yields, inputs, sources
  <2>4. QED
    BY <2>1, <2>2, <2>3
<1>17. OutRecords'
  <2>1. SUFFICES ASSUME NEW n \in DOMAIN out'
                 PROVE  (/\ out[n].index \in DOMAIN bags[out[n].source]
                         /\ out[n] = Message(out[n].source, out[n].index))'
    BY DEF OutRecords
  <2> bags' = bags /\ base' = base /\ connections_' = connections_
    BY <1>1 DEF inputs, numbering, sources
  <2>2. CASE n \in DOMAIN out
    <3>1. /\ out[n].index \in DOMAIN bags[out[n].source]
          /\ out[n] = Message(out[n].source, out[n].index)
      BY <2>2 DEF MergeInv, OutRecords
    <3>2. out'[n] = out[n]
      BY <2>2, <1>8
    <3>3. QED
      BY ONLY <3>1, <3>2, bags' = bags /\ base' = base /\ connections_' = connections_ DEF Message
  <2>3. CASE n = Len(out) + 1
    BY <2>3, <1>3, <1>7, <1>8 DEF Message
  <2>4. QED
    BY <2>2, <2>3, <1>8
<1>18. OutOrdered'
  <2>1. ASSUME NEW m \in DOMAIN out', NEW n \in DOMAIN out', m < n
        PROVE  Stream!Precedes(out'[m], out'[n])
    <3>1. m \in DOMAIN out
      BY <2>1, <1>8
    <3>2. CASE n \in DOMAIN out
      BY <2>1, <3>1, <3>2, <1>8 DEF MergeInv, OutOrdered
    <3>3. CASE n = Len(out) + 1
      <4>1. ~Handed(r, h)
        BY <1>2, <1>3 DEF MergeInv, HandedInv
      <4>2. Stream!Precedes(out[m], Message(r, h))
        BY <3>1, <4>1, <1>2, <1>3 DEF MergeInv, OutAhead
      <4>3. QED
        BY <3>1, <3>3, <4>2, <1>8
    <3>4. QED
      BY <3>2, <3>3, <1>8
  <2>2. QED
    BY <2>1 DEF OutOrdered, Stream!Precedes
<1>19. OutAhead'
  <2>1. ASSUME NEW n \in DOMAIN out', NEW q \in Sources, NEW i \in DOMAIN bags[q],
               Admitted(q), Yields(q, i, local[q]), ~Handed(q, i), ~(q = r /\ i = h)
        PROVE  Stream!Precedes(out'[n], Message(q, i))
    <3>1. CASE n \in DOMAIN out
      BY <2>1, <3>1, <1>8 DEF MergeInv, OutAhead
    <3>2. CASE n = Len(out) + 1
      <4>1. out'[n] = Message(r, h)
        BY <3>2, <1>8
      <4>2. /\ Message(r, h).time = bags[r][h].time
            /\ Message(r, h).source = r /\ Message(r, h).index = h
            /\ Message(q, i).time = bags[q][i].time
            /\ Message(q, i).source = q /\ Message(q, i).index = i
        BY DEF Message
      <4>3. i > taken[q] \/ i = head[q]
        BY <2>1, <1>1, <1>3, <1>5 DEF MergeInv, HandedInv
      <4>4. Sorted(bags[q])
        BY RecordFacts DEF MergeInv
      <4>5. CASE q = r
        <5>1. h < i
          BY <2>1, <4>3, <4>5, <1>3
        <5>2. bags[r][h].time <= bags[r][i].time
          BY <2>1, <5>1, <4>4, <4>5, <1>3 DEF Sorted
        <5>3. bags[r][h].time \in Nat /\ bags[r][i].time \in Nat
          BY <1>2, <1>3, <1>5, <4>5
        <5>4. QED
          BY <4>1, <4>2, <4>5, <5>1, <5>2, <5>3 DEF Stream!Precedes
      <4>6. CASE q # r
        <5>1. head[q] # 0
          <6>1. SUFFICES ASSUME head[q] = 0 PROVE FALSE
            OBVIOUS
          <6>2. pending # q /\ status # "failed"
            BY <1>1 DEF Sources
          <6>3. Exhausted(q, local[q])
            BY <2>1, <6>1, <6>2 DEF MergeInv, ReadUpInv
          <6>4. QED
            BY <2>1, <4>3, <6>1, <6>3, <1>5 DEF Exhausted
        <5>2. /\ head[q] = taken[q] /\ head[q] \in DOMAIN bags[q]
          BY <5>1 DEF MergeInv, HeadInv
        <5>3. bags[q][head[q]].time <= bags[q][i].time
          <6>1. CASE i = head[q]
            BY <6>1, <1>5
          <6>2. CASE i > head[q]
            BY <6>2, <5>2, <4>4 DEF Sorted
          <6>3. QED
            BY <6>1, <6>2, <4>3, <5>2
        <5>4. /\ bags[r][h].time \in Nat /\ bags[q][i].time \in Nat
              /\ bags[q][head[q]].time \in Nat
          BY <1>2, <1>3, <1>5, <5>2
        <5>5. \/ bags[r][h].time < bags[q][i].time
              \/ bags[r][h].time = bags[q][i].time /\ r < q
          BY <1>4, <4>6, <5>1, <5>3, <5>4
        <5>6. QED
          BY <4>1, <4>2, <5>5 DEF Stream!Precedes
      <4>7. QED
        BY <4>5, <4>6
    <3>3. QED
      BY <3>1, <3>2, <1>8
  <2>2. QED
    BY <2>1, <1>1, <1>6, <1>9 DEF OutAhead, Stream!Precedes, inputs, sources, Yields
<1>20. QED
  BY <1>1, <1>11, <1>12, <1>13, <1>14, <1>15, <1>16, <1>17, <1>18, <1>19 DEF MergeInv, inputs

\* The invariant is about the variables of the specification only.
LEMMA MergeStutterInv == MergeInv /\ UNCHANGED mergeVars => MergeInv'
<1> SUFFICES ASSUME MergeInv, UNCHANGED mergeVars PROVE MergeInv'
  OBVIOUS
<1> USE DEF mergeVars, inputs, numbering, sources, merge
<1>1. MergeTypeOK' /\ (bags \in Bags)' /\ NumberingInv'
  BY DEF MergeInv, MergeTypeOK, NumberingInv, NumberedTo
<1>2. SourcesInv' /\ HeapInv' /\ NextCallInv'
  BY DEF MergeInv, SourcesInv, HeapInv, NextCallInv, Passed, Admitted
<1>3. \A q \in Sources : (HeadInv(q) /\ HandedInv(q) /\ ReadUpInv(q))'
  BY DEF MergeInv, HeadInv, HandedInv, ReadUpInv, Passed, Admitted, Handed, Yields, Exhausted
<1>4. OutRecords' /\ OutOrdered' /\ OutAhead'
  BY DEF MergeInv, OutRecords, OutOrdered, OutAhead, Passed, Admitted, Handed, Yields, Message,
         Stream!Precedes
<1>5. QED
  BY <1>1, <1>2, <1>3, <1>4 DEF MergeInv

-----------------------------------------------------------------------------
\* Every step of open(), of the constructor and of next() keeps the invariant.
THEOREM MergeInvariance == MergeSpec => []MergeInv
<1>1. MergeInit => MergeInv
  BY MergeInitInv
<1>2. MergeInv /\ [MergeNext]_mergeVars => MergeInv'
  BY NumberReaderInv, StartCursorInv, SkipReaderInv, AddSourceInv, AddSourceFailsInv, BuiltInv,
     RefillInv, PopInv, EndOfStreamInv, MergeStutterInv
     DEF MergeNext, Open, Construct, NextCall, Finished
<1>3. QED
  BY <1>1, <1>2, PTL DEF MergeSpec

\* The state of the numbering, of the constructor and of the merge stays in its
\* types.
THEOREM MergeTypeCorrect == MergeSpec => []MergeTypeOK
<1>1. MergeInv => MergeTypeOK
  BY DEF MergeInv
<1>2. QED
  BY <1>1, MergeInvariance, PTL

\* global_index and local_positions of AnyReaderCursorImpl redirect a message to
\* the connection it was recorded on, whatever the filter passes over.
THEOREM OwnConnection == MergeSpec => []ReportsOwnConnection
<1>1. MergeInv => ReportsOwnConnection
  <2>1. SUFFICES ASSUME MergeInv, NEW n \in DOMAIN out,
                        NEW r, r = out[n].source, NEW i, i = out[n].index
                 PROVE  /\ out[n].connection.reader = r
                        /\ out[n].connection.conn = bags[r][i].conn
    BY DEF ReportsOwnConnection
  <2>2. /\ r \in Sources /\ i \in DOMAIN bags[r] /\ out[n] = Message(r, i)
    <3>1. out[n] \in Output
      BY <2>1 DEF MergeInv, MergeTypeOK
    <3>2. QED
      BY <2>1, <3>1 DEF MergeInv, Output, OutRecords
  <2>3. Admitted(r)
    BY <2>1, <2>2 DEF MergeInv, HandedInv, Handed
  <2>4. Message(r, i).connection =
          [id |-> first[r] + bags[r][i].conn, reader |-> r, conn |-> bags[r][i].conn]
    BY <2>1, <2>2, <2>3, MessageFacts
  <2>5. QED
    BY <2>2, <2>4
<1>2. QED
  BY <1>1, MergeInvariance, PTL

\* next() loses no message when an input cannot be read on: the input is read
\* only when its previous message has been handed out.
THEOREM LazyFaults == MergeSpec => []FaultsAreLazy
<1>1. MergeInv => FaultsAreLazy
  <2>1. SUFFICES ASSUME MergeInv, status = "failed", NEW i \in DOMAIN bags[error],
                        i < taken[error], Yields(error, i, local[error])
                 PROVE  Handed(error, i)
    BY DEF FaultsAreLazy, Handed
  <2>2. error \in Sources /\ head[error] = 0
    BY <2>1 DEF MergeInv, NextCallInv
  <2>3. i \in Nat \ {0} /\ taken[error] \in Nat
    BY <2>1, <2>2, RecordFacts DEF MergeInv, MergeTypeOK
  <2>4. Admitted(error)
    BY <2>1, <2>2, <2>3 DEF MergeInv, HeadInv
  <2>5. QED
    BY <2>1, <2>2, <2>3, <2>4 DEF MergeInv, HandedInv
<1>2. QED
  BY <1>1, MergeInvariance, PTL

-----------------------------------------------------------------------------
\* On the open cursor the filter of the caller and the local filters agree: the
\* messages asked for are those the local cursors of the admitted inputs yield.
LEMMA WantedFacts ==
  ASSUME MergeInv, status = "open", NEW m
  PROVE  m \in Wanted <=>
           \E r \in Sources : \E i \in DOMAIN bags[r] :
             Admitted(r) /\ Yields(r, i, local[r]) /\ m = Message(r, i)
<1>1. NumberedTo(NumReaders) /\ next_reader = NumReaders + 1
  BY DEF MergeInv, NumberingInv, SourcesInv
<1>2. ASSUME NEW r \in Sources
      PROVE  /\ Passed(r)
             /\ local[r] = {c \in 1..ConnCount[r] : filter # {} /\ first[r] + c \in filter}
  <2>1. Passed(r)
    BY <1>1 DEF Passed, Sources
  <2>2. QED
    BY <2>1 DEF MergeInv, SourcesInv
<1>3. ASSUME NEW k \in DOMAIN connections_
      PROVE  /\ connections_[k].reader \in Sources
             /\ connections_[k].conn \in 1..ConnCount[connections_[k].reader]
             /\ k = first[connections_[k].reader] + connections_[k].conn
             /\ connections_[k].id = k
  <2>1. /\ connections_[k].reader \in 1..NumReaders
        /\ connections_[k].conn \in 1..ConnCount[connections_[k].reader]
        /\ k = first[connections_[k].reader] + connections_[k].conn
    BY <1>1 DEF NumberedTo
  <2>2. connections_[k] = [id |-> k, reader |-> connections_[k].reader, conn |-> connections_[k].conn]
    <3>1. \A q \in 1..NumReaders : \A c \in 1..ConnCount[q] :
            connections_[first[q] + c] = [id |-> first[q] + c, reader |-> q, conn |-> c]
      BY <1>1 DEF NumberedTo
    <3>2. QED
      BY ONLY <2>1, <3>1
  <2>3. connections_[k].id = k
    BY ONLY <2>2
  <2>4. QED
    BY <2>1, <2>3 DEF Sources
<1>4. ASSUME m \in Wanted
      PROVE  \E r \in Sources : \E i \in DOMAIN bags[r] :
               Admitted(r) /\ Yields(r, i, local[r]) /\ m = Message(r, i)
  <2>1. PICK k \in DOMAIN connections_ : Asked(k) /\ m \in MessagesOn(connections_[k])
    BY <1>4 DEF Wanted
  <2>2. PICK r \in Sources : r = connections_[k].reader
    BY <1>3
  <2>3. PICK i \in DOMAIN bags[r] :
          /\ bags[r][i].conn = connections_[k].conn
          /\ m = [time |-> bags[r][i].time, source |-> r, index |-> i, connection |-> connections_[k]]
    BY <2>1, <2>2 DEF MessagesOn, RecordsOn
  <2>4. filter = {} \/ bags[r][i].conn \in local[r]
    BY <1>2, <1>3, <2>1, <2>2, <2>3 DEF Asked
  <2>5. Admitted(r)
    BY <1>2, <2>4 DEF Admitted
  <2>6. Yields(r, i, local[r])
    BY <1>2, <2>4 DEF Yields
  <2>7. Message(r, i).connection = connections_[k]
    <3>1. k = first[r] + bags[r][i].conn
      BY <2>2, <2>3, <1>3
    <3>2. Message(r, i).connection = connections_[first[r] + bags[r][i].conn]
      BY <2>5, MessageFacts, Zenon
    <3>3. QED
      BY ONLY <3>1, <3>2
  <2>8. m = Message(r, i)
    BY <2>3, <2>7 DEF Message
  <2>9. QED
    BY <2>5, <2>6, <2>8
<1>5. ASSUME NEW r \in Sources, NEW i \in DOMAIN bags[r],
             Admitted(r), Yields(r, i, local[r]), m = Message(r, i)
      PROVE  m \in Wanted
  <2>1. PICK k \in DOMAIN connections_ : k = first[r] + bags[r][i].conn
    BY <1>5, MessageFacts
  <2>2. /\ Message(r, i).connection = connections_[k]
        /\ connections_[k] = [id |-> k, reader |-> r, conn |-> bags[r][i].conn]
    BY <1>5, <2>1, MessageFacts
  <2>3. connections_[k].reader = r /\ connections_[k].conn = bags[r][i].conn /\ connections_[k].id = k
    BY ONLY <2>2
  <2>4. Asked(k)
    BY <1>2, <1>5, <2>1, <2>3 DEF Admitted, Yields, Asked
  <2>5. m \in MessagesOn(connections_[k])
    <3>1. i \in RecordsOn(connections_[k])
      BY <2>3 DEF RecordsOn
    <3>2. m = [time |-> bags[r][i].time, source |-> r, index |-> i, connection |-> connections_[k]]
      BY <1>5, <2>2 DEF Message
    <3>3. QED
      BY <3>1, <3>2, <2>3 DEF MessagesOn
  <2>6. QED
    BY <2>4, <2>5 DEF Wanted
<1>6. QED
  BY <1>4, <1>5

\* A message has been handed out exactly when its record is among the sources
\* and indexes of out.
LEMMA HandedFacts ==
  ASSUME MergeInv, NEW r \in Sources, NEW i \in DOMAIN bags[r]
  PROVE  Message(r, i) \in Stream!Handed <=> Handed(r, i)
<1>1. Message(r, i).source = r /\ Message(r, i).index = i
  BY DEF Message
<1>2. \A n \in DOMAIN out : out[n] = Message(out[n].source, out[n].index)
  BY DEF MergeInv, OutRecords
<1>3. QED
  BY <1>1, <1>2 DEF Stream!Handed, Handed

\* The step of next() that hands a message out is Deliver of MessageStream.
LEMMA PopDelivers == MergeInv /\ Pop => Stream!Deliver
<1> SUFFICES ASSUME MergeInv, Pop PROVE Stream!Deliver
  OBVIOUS
<1> PICK item \in heap : out' = Append(out, Message(item.source, head[item.source]))
  BY DEF Pop
<1> item.source \in Sources /\ head[item.source] # 0
  BY DEF MergeInv, HeapInv
<1> head[item.source] \in DOMAIN bags[item.source]
  BY DEF MergeInv, HeadInv
<1> PICK r \in Sources : r = item.source
  OBVIOUS
<1> PICK h \in DOMAIN bags[r] : h = head[r] /\ h # 0 /\ out' = Append(out, Message(r, h))
  OBVIOUS
<1>1. /\ status = "open" /\ status' = "open"
      /\ UNCHANGED <<inputs, numbering, sources, taken, next_reader, status, error>>
  BY DEF Pop
<1>2. MergeInv'
  BY PopInv
<1>3. Admitted(r) /\ Yields(r, h, local[r]) /\ ~Handed(r, h)
  BY DEF MergeInv, HeadInv, HandedInv
<1>4. Message(r, h) \in Wanted /\ Message(r, h) \notin Stream!Handed
  BY <1>1, <1>3, WantedFacts, HandedFacts
<1>5. ASSUME NEW n \in Wanted \ Stream!Handed
      PROVE  n = Message(r, h) \/ Stream!Precedes(Message(r, h), n)
  <2> PICK q \in Sources : \E i \in DOMAIN bags[q] :
        Admitted(q) /\ Yields(q, i, local[q]) /\ n = Message(q, i)
    BY <1>1, WantedFacts
  <2>1. PICK i \in DOMAIN bags[q] :
          Admitted(q) /\ Yields(q, i, local[q]) /\ n = Message(q, i)
    OBVIOUS
  <2>2. ~Handed(q, i)
    BY <1>5, <2>1, HandedFacts
  <2>3. /\ out \in Seq(Output) /\ Message(r, h) \in Output
        /\ Message(r, h).source = r /\ Message(r, h).index = h
    <3>1. out \in Seq(Output)
      BY DEF MergeInv, MergeTypeOK
    <3>2. Message(r, h) \in Output
      BY <1>3, MessageFacts
    <3>3. QED
      BY <3>1, <3>2 DEF Message
  <2>4. /\ Len(out) \in Nat /\ DOMAIN out = 1..Len(out) /\ DOMAIN out' = 1..Len(out) + 1
        /\ \A k \in DOMAIN out : out'[k] = out[k]
        /\ out'[Len(out) + 1] = Message(r, h)
    BY <2>3, AppendProperties
  <2>5. CASE q = r /\ i = h
    BY <2>1, <2>5
  <2>6. CASE ~(q = r /\ i = h)
    <3>1. ~Handed(q, i)'
      BY <2>2, <2>3, <2>4, <2>6 DEF Handed
    <3>2. /\ Admitted(q)' /\ Yields(q, i, local[q])' /\ Message(q, i)' = Message(q, i)
          /\ i \in DOMAIN bags'[q]
      BY <1>1, <2>1 DEF Admitted, Passed, Yields, Message, inputs, numbering, sources
    <3>3. Stream!Precedes(out'[Len(out) + 1], Message(q, i)')
      <4>1. Len(out) + 1 \in DOMAIN out'
        BY <2>4
      <4>2. QED
        BY <1>2, <3>1, <3>2, <4>1 DEF MergeInv, OutAhead, Stream!Precedes
    <3>4. QED
      BY <2>1, <2>4, <3>2, <3>3
  <2>7. QED
    BY <2>5, <2>6
<1>6. Wanted' = Wanted
  BY <1>1 DEF Wanted, MessagesOn, RecordsOn, Asked, inputs, numbering
<1>7. QED
  BY <1>1, <1>4, <1>5, <1>6 DEF Stream!Deliver

\* next() returns false only when nothing that was asked for is left.
LEMMA EndOfStreamEnds == MergeInv /\ EndOfStream => Stream!End
<1> SUFFICES ASSUME MergeInv, EndOfStream PROVE Stream!End
  OBVIOUS
<1>1. /\ status = "open" /\ status' = "ended" /\ pending = 0 /\ heap = {}
      /\ UNCHANGED <<inputs, numbering, out>>
  BY DEF EndOfStream
<1>2. Wanted' = Wanted
  BY <1>1 DEF Wanted, MessagesOn, RecordsOn, Asked, inputs, numbering
<1>3. ASSUME NEW m \in Wanted PROVE m \in Stream!Handed
  <2> PICK r \in Sources : \E i \in DOMAIN bags[r] :
        Admitted(r) /\ Yields(r, i, local[r]) /\ m = Message(r, i)
    BY <1>1, WantedFacts
  <2>1. PICK i \in DOMAIN bags[r] :
          Admitted(r) /\ Yields(r, i, local[r]) /\ m = Message(r, i)
    OBVIOUS
  <2>2. head[r] = 0
    BY <1>1 DEF MergeInv, HeapInv
  <2>3. i \in Nat \ {0} /\ taken[r] \in Nat /\ pending # r
    <3>1. taken[r] \in Nat /\ bags \in Bags
      BY DEF MergeInv, MergeTypeOK
    <3>2. 0 \notin Sources
      BY DEF Sources
    <3>3. QED
      BY <1>1, <3>1, <3>2, RecordFacts
  <2>4. Exhausted(r, local[r])
    BY <1>1, <2>1, <2>2, <2>3 DEF MergeInv, ReadUpInv
  <2>5. Handed(r, i)
    BY <1>1, <2>1, <2>2, <2>3, <2>4 DEF MergeInv, HandedInv, Exhausted
  <2>6. QED
    BY <2>1, <2>5, HandedFacts
<1>4. QED
  BY <1>1, <1>2, <1>3 DEF Stream!End

\* AnyReaderCursorImpl implements MessageStream: it hands out the stable merge
\* of all inputs, each message once and none missing, and ends only after it.
THEOREM Refinement == MergeSpec => MergesStably
<1>1. MergeInit => Stream!Init
  BY DEF MergeInit, Stream!Init
<1>2. MergeInv /\ [MergeNext]_mergeVars => [Stream!Next]_(Stream!vars)
  <2> SUFFICES ASSUME MergeInv, [MergeNext]_mergeVars PROVE [Stream!Next]_(Stream!vars)
    OBVIOUS
  <2>1. UNCHANGED <<inputs, numbering>> => Wanted' = Wanted
    BY DEF Wanted, MessagesOn, RecordsOn, Asked, inputs, numbering
  <2>2. CASE NumberReader
    BY <2>2 DEF NumberReader, Stream!vars
  <2>3. CASE StartCursor
    BY <2>3 DEF StartCursor, Stream!Next, Stream!Create
  <2>4. CASE SkipReader \/ Built
    BY <2>1, <2>4 DEF SkipReader, Built, Stream!vars
  <2>5. CASE AddSource
    <3>1. /\ status = "building" /\ UNCHANGED <<inputs, numbering, out>>
          /\ status' \in {status, "failed"}
      BY <2>5 DEF AddSource, PullRecord, PullEnd, PullFault
    <3>2. QED
      BY <2>1, <3>1 DEF Stream!vars, Stream!Next, Stream!Fail
  <2>6. CASE AddSourceFails
    BY <2>1, <2>6 DEF AddSourceFails, Stream!Next, Stream!Fail
  <2>7. CASE Refill
    <3>1. /\ status = "open" /\ UNCHANGED <<inputs, numbering, out>>
          /\ status' \in {status, "failed"}
      BY <2>7 DEF Refill, PullRecord, PullEnd, PullFault
    <3>2. QED
      BY <2>1, <3>1 DEF Stream!vars, Stream!Next, Stream!Fail
  <2>8. CASE Pop
    BY <2>8, PopDelivers DEF Stream!Next
  <2>9. CASE EndOfStream
    BY <2>9, EndOfStreamEnds DEF Stream!Next
  <2>10. CASE UNCHANGED mergeVars
    BY <2>1, <2>10 DEF mergeVars, Stream!vars, inputs, numbering
  <2>11. QED
    BY <2>2, <2>3, <2>4, <2>5, <2>6, <2>7, <2>8, <2>9, <2>10
       DEF MergeNext, Open, Construct, NextCall, Finished
<1>3. QED
  BY <1>1, <1>2, MergeInvariance, PTL DEF MergeSpec, MergesStably, Stream!Spec
=============================================================================
