-------------------------- MODULE MC_Decompression --------------------------
(***************************************************************************)
(* Buffers of two bytes; one or two parts of up to three bytes that decode *)
(* to up to five, so that frames begin and end inside, at the end of and   *)
(* beyond a buffer; cut at every byte.  The limit is six bytes.            *)
(***************************************************************************)
EXTENDS Decompression

P(k, i, o) == [kind |-> k, in |-> i, out |-> o]
Frames == {P("frame", 1, 0)} \cup {P("frame", i, o) : i \in 2..3, o \in {0, 2, 3, 5}}
Others == {P("garbage", 1, 0), P("garbage", 3, 0), P("window", 2, 3)}

MCParts ==
  {<<>>} \cup {<<p>> : p \in Frames \cup Others \cup {P("frame", 4, 7)}}
  \cup {<<p, q>> : p \in Frames, q \in Others \cup {P("frame", 1, 0), P("frame", 2, 3), P("frame", 3, 1)}}
  \cup {<<P("garbage", 1, 0), P("frame", 2, 1)>>}

MCInputs ==
  UNION {{[parts |-> p, length |-> n, declared |-> d] :
            n \in (IF p = <<>> THEN {0} ELSE (Whole(Front(p)) + 1)..Whole(p)), d \in {Decoded(p), Decoded(p) + 1}} : p \in MCParts}
=============================================================================
