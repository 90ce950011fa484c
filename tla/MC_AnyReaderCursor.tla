------------------------- MODULE MC_AnyReaderCursor -------------------------
(***************************************************************************)
(* Three inputs with two, one and one connections and two timestamps: ties *)
(* inside an input and between inputs, an input the filter passes over     *)
(* between two it does not, and one unreadable record at the beginning or  *)
(* the end of an input, or an input whose cursor cannot be made.           *)
(***************************************************************************)
EXTENDS AnyReaderCursor

MCTimes == {1, 2}
MCConnCount == <<2, 1, 1>>

MCBag(conns, lengths) ==
  {b \in UNION {[1..n -> [time : MCTimes, conn : 1..conns]] : n \in lengths} : Sorted(b)}

MCBags ==
  {<<b1, b2, b3>> : b1 \in MCBag(2, {2}), b2 \in MCBag(1, 0..1), b3 \in MCBag(1, 0..2)}

MCCorruptions == {{}} \cup {{x} : x \in {<<1, 1>>, <<1, 2>>, <<2, 0>>, <<2, 1>>, <<3, 2>>}}

\* Global ids: 1 and 2 are the first input's, 3 the second's, 4 the third's.
MCFilters == {{}, {2}, {1, 4}, {3, 4}}
=============================================================================
