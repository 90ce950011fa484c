---------------------------- MODULE MessageStream ----------------------------
(***************************************************************************)
(* What a MessageCursor promises the caller of next(), whatever backend    *)
(* is behind it: the messages the filter asked for, each once, in the      *)
(* stable order (timestamp, input, position in the input), and then end    *)
(* of stream.  A cursor may fail instead, at any call; what it has handed  *)
(* out by then is still the beginning of that order.                       *)
(*                                                                         *)
(* The cursors of the library are shown to implement this module; it has   *)
(* no counterpart of its own in the code (MessageCursor::Impl is only the  *)
(* virtual next()).                                                        *)
(***************************************************************************)
EXTENDS Naturals, Sequences

VARIABLES
  wanted,   \* the messages the filter accepts; fixed when the cursor is made
  out,      \* the messages next() has handed out, oldest first
  status    \* "new" (no cursor yet), "open", "ended" (next returned false) or
            \* "failed" (making the cursor or next threw)

vars == <<wanted, out, status>>

Handed == {out[n] : n \in DOMAIN out}

\* The order of the merged streams: HeapCompare of every cursor, with the
\* position inside one input as the last key because an input is read in order.
Precedes(a, b) ==
  \/ a.time < b.time
  \/ /\ a.time = b.time
     /\ \/ a.source < b.source
        \/ a.source = b.source /\ a.index < b.index

Init ==
  /\ wanted = {}
  /\ out = <<>>
  /\ status = "new"

\* Making the cursor decides what it will hand out, or throws.
Create ==
  /\ status = "new"
  /\ status' \in {"open", "failed"}
  /\ UNCHANGED out

Deliver ==
  /\ status = "open"
  /\ \E m \in wanted \ Handed :
       /\ \A n \in wanted \ Handed : n = m \/ Precedes(m, n)
       /\ out' = Append(out, m)
  /\ UNCHANGED <<wanted, status>>

End ==
  /\ status = "open"
  /\ wanted \subseteq Handed
  /\ status' = "ended"
  /\ UNCHANGED <<wanted, out>>

Fail ==
  /\ status = "open"
  /\ status' = "failed"
  /\ UNCHANGED <<wanted, out>>

Next == Create \/ Deliver \/ End \/ Fail

Spec == Init /\ [][Next]_vars
=============================================================================
