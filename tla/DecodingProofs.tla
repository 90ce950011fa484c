---------------------------- MODULE DecodingProofs ----------------------------
(***************************************************************************)
(* Proofs about Codegen, Decompression, Decode, for all of their constants.*)
(*                                                                         *)
(* Codegen: whatever definitions there are, the compiler writes a header   *)
(* in which each comes behind what it holds, or refuses them for a reason. *)
(* The invariant ties the running calls of visit() to the definitions they *)
(* are for: each waits for the next, and all before it is done.            *)
(*                                                                         *)
(* Decompression: whatever a decoder takes and gives, the three loops keep *)
(* to the budget and accept what is whole, and nothing else.  The          *)
(* invariant says where in the input the decoder is.                       *)
(*                                                                         *)
(* Decode: the registry holds, under the key of the type of the message,   *)
(* what was registered last for it, whichever of its names was used.       *)
(*                                                                         *)
(* WireReader, under Decode: the table of least sizes, whose rows are right*)
(* (ProfilesProofs), is the least size of each type; storage stays within  *)
(* the limit, counted without the width of a word; the reader is where the *)
(* encoding of what it has read ends, and turns down what is too short and *)
(* nothing else.  Sizes and ends of messages are defined along what types  *)
(* hold by value, and proved along it: no type of C++ holds itself.        *)
(***************************************************************************)
EXTENDS Codegen, Decompression, Decode, ProfilesProofs

-----------------------------------------------------------------------------
Searched == {"order", "none", "header", "registry", "write", "done"}
Unified == Searched \cup {"check", "names", "unresolved", "cycle"}
Phases == Unified \cup {"read", "unique", "file", "conflict"}

\* unique has every definition once, by ascending names.
Strict(s) == \A i, j \in DOMAIN s : i < j => s[i].type < s[j].type
UniqueInv ==
  /\ phase = "unique" => Sorted(result)
  /\ phase \in Unified => Strict(unique) /\ ToSet(unique) = Given

\* The fields have been checked.
FieldsOK ==
  \A i \in DOMAIN unique : \A k \in DOMAIN unique[i].fields : ~Faulty(unique[i], k)
CheckedInv == phase \in Searched \cup {"cycle"} => FieldsOK

\* A call of visit() for a definition: the next field is one it has, or behind them.
VisitCalls == {c \in [index : 1..Len(unique), next : Nat] : c.next \in 1..(Len(unique[c.index].fields) + 1)}
FieldAt(c, k) == unique[c.index].fields[k]
\* The field the call went on from holds definition i by value.
Waits(c, i) ==
  c.next > 1 /\ ByValue(FieldAt(c, c.next - 1)) /\ FieldAt(c, c.next - 1).of = unique[i].type
\* All that the first m fields of the call hold by value is done.
Settled(st, c, m) == \A k \in 1..m : \A j \in Dependencies(FieldAt(c, k)) : st[j] = 2

\* The running calls are for the definitions being visited, each called for a field of the one
\* before; what their fields before that hold is done.
StackShape(st, calls) ==
  /\ calls \in Seq(VisitCalls)
  /\ \A p, q \in DOMAIN calls : calls[p].index = calls[q].index => p = q
  /\ \A i \in DOMAIN unique : st[i] = 1 <=> \E p \in DOMAIN calls : calls[p].index = i
  /\ \A p \in 1..(Len(calls) - 1) :
       Waits(calls[p], calls[p + 1].index) /\ Settled(st, calls[p], calls[p].next - 2)
StackOK(st, calls) ==
  /\ StackShape(st, calls)
  /\ calls # <<>> => Settled(st, Last(calls), Last(calls).next - 1)

\* What is done is what is in the order, each definition once and behind all it holds.
OrderedOK(st, o) ==
  /\ o \in Seq(Definitions)
  /\ \A j \in DOMAIN o : \E i \in DOMAIN unique : o[j] = unique[i] /\ st[i] = 2
  /\ \A i \in DOMAIN unique : st[i] = 2 => \E j \in DOMAIN o : o[j] = unique[i]
  /\ \A i, j \in DOMAIN o : o[i] = o[j] => i = j
  /\ \A j \in DOMAIN o : \A k \in DOMAIN o[j].fields : \A i \in Dependencies(o[j].fields[k]) :
       \E h \in 1..(j - 1) : o[h] = unique[i]

SearchOK ==
  /\ state \in [1..Len(unique) -> 0..2]
  /\ StackOK(state, stack) /\ OrderedOK(state, ordered)
  /\ outer \in 1..(Len(unique) + 1) /\ \A i \in 1..(outer - 1) : state[i] # 0
SearchInv ==
  /\ phase \in Searched => SearchOK
  /\ phase \in {"header", "registry", "write", "done"} => stack = <<>> /\ outer > Len(unique)

FilesInv ==
  /\ phase \in {"registry", "done"} => header = "new"
  /\ phase = "registry" => registry = "old"
  /\ phase \notin {"registry", "write", "done"} => header = "old" /\ registry = "old"
  /\ registry # "old" => header = "new"

CompilerTypes ==
  /\ result \in Seq(Definitions) /\ unique \in Seq(Definitions) /\ phase \in Phases
  /\ phase \in {"read", "unique", "check"} => stack = <<>> /\ outer = 1 /\ ordered = <<>>

\* What each refusal is for
Conflicting == \E d, e \in Given : d.type = e.type /\ d # e
Clashing == \E d \in Given : NamesClash(d)
Unresolved ==
  \E d \in Given : \E k \in DOMAIN d.fields :
    LET t == d.fields[k].of IN t # Primitive /\ t \notin Builtin /\ \A e \in Given : e.type # t
RefusedInv ==
  /\ phase = "conflict" => Conflicting
  /\ phase = "names" => Clashing
  /\ phase = "unresolved" => Unresolved
  /\ phase = "cycle" => HoldsItself

CompilerInv == CompilerTypes /\ UniqueInv /\ CheckedInv /\ SearchInv /\ FilesInv /\ RefusedInv

-----------------------------------------------------------------------------
\* The types of a definition's parts.
LEMMA DefinitionTypes ==
  ASSUME NEW d \in Definitions
  PROVE  /\ d = [type |-> d.type, fields |-> d.fields]
         /\ d.type \in Nat /\ d.fields \in Seq(Field) /\ Len(d.fields) \in Nat
         /\ DOMAIN d.fields = 1..Len(d.fields)
         /\ \A k \in DOMAIN d.fields : d.fields[k] \in Field
<1>1. d \in [type : Nat, fields : Seq(Field)]
  BY DefinitionsAssumption
<1>2. d.fields \in Seq(Field)
  BY <1>1
<1> QED BY <1>1, <1>2

\* The elements of a sequence of definitions.
LEMMA SeqTypes ==
  ASSUME NEW S, NEW s \in Seq(S)
  PROVE  Len(s) \in Nat /\ DOMAIN s = 1..Len(s) /\ \A i \in 1..Len(s) : s[i] \in S
OBVIOUS

LEMMA FrontFacts ==
  ASSUME NEW S, NEW s \in Seq(S), s # <<>>
  PROVE  /\ Front(s) \in Seq(S) /\ Len(Front(s)) = Len(s) - 1 /\ Len(s) \in Nat /\ Len(s) > 0
         /\ \A p \in 1..(Len(s) - 1) : Front(s)[p] = s[p]
         /\ Last(s) = s[Len(s)] /\ Last(s) \in S
<1>1. Len(s) \in Nat /\ Len(s) # 0
  OBVIOUS
<1>2. Last(s) = s[Len(s)] /\ Front(s) = SubSeq(s, 1, Len(s) - 1)
  BY DEF Last, Front
<1>3. /\ SubSeq(s, 1, Len(s) - 1) \in Seq(S)
      /\ Len(SubSeq(s, 1, Len(s) - 1)) = Len(s) - 1
      /\ \A p \in 1..(Len(s) - 1) : SubSeq(s, 1, Len(s) - 1)[p] = s[p]
  <2> DEFINE m == Len(s) - 1
  <2>1. m \in 0..Len(s) /\ 1 \in 1..(Len(s) + 1)
    BY <1>1
  <2>2. /\ SubSeq(s, 1, m) \in Seq(S)
        /\ Len(SubSeq(s, 1, m)) = IF 1 <= m THEN m - 1 + 1 ELSE 0
        /\ \A p \in 1..(m - 1 + 1) : SubSeq(s, 1, m)[p] = s[1 + p - 1]
    BY <2>1, SubSeqProperties
  <2>3. m \in Nat /\ \A p \in 1..m : p \in 1..(m - 1 + 1) /\ 1 + p - 1 = p
    BY <2>1
  <2>4. Len(SubSeq(s, 1, m)) = m
    <3>1. \A k \in Nat : (IF 1 <= k THEN k - 1 + 1 ELSE 0) = k
      OBVIOUS
    <3> HIDE DEF m
    <3> QED BY ONLY <2>2, <2>3, <3>1
  <2>5. \A p \in 1..m : SubSeq(s, 1, m)[p] = s[p]
    BY <2>2, <2>3
  <2> QED BY <2>2, <2>4, <2>5
<1> QED BY <1>1, <1>2, <1>3

LEMMA AppendFacts ==
  ASSUME NEW S, NEW s \in Seq(S), NEW x \in S
  PROVE  /\ Append(s, x) \in Seq(S) /\ Len(Append(s, x)) = Len(s) + 1 /\ Append(s, x) # <<>>
         /\ \A p \in 1..Len(s) : Append(s, x)[p] = s[p]
         /\ Append(s, x)[Len(s) + 1] = x /\ Last(Append(s, x)) = x
<1>1. /\ Append(s, x) \in Seq(S) /\ Len(Append(s, x)) = Len(s) + 1 /\ Len(s) \in Nat
      /\ \A p \in 1..Len(s) : Append(s, x)[p] = s[p]
      /\ Append(s, x)[Len(s) + 1] = x
  OBVIOUS
<1>2. Append(s, x) # <<>>
  BY <1>1
<1> QED BY <1>1, <1>2 DEF Last

\* What the loop over the sorted definitions has kept after each of them.
LEMMA KeptSteps ==
  ASSUME NEW s \in Seq(Definitions)
  PROVE  /\ KeptOf(s)[0] = <<>>
         /\ \A i \in 1..Len(s) : KeptOf(s)[i] = Keep(KeptOf(s)[i - 1], s[i])
         /\ \A i \in 0..Len(s) : KeptOf(s)[i] \in Seq(Definitions)
<1> DEFINE n == Len(s)
           D == Seq(Definitions)
           step == [c \in (1..n) \X D |-> Keep(c[2], s[c[1]])]
           Def(g) == g = [i \in 0..n |-> IF i = 0 THEN <<>> ELSE Keep(g[i - 1], s[i])]
<1>1. n \in Nat /\ <<>> \in D /\ \A i \in 1..n : s[i] \in Definitions
  OBVIOUS
<1>2. step \in [(1..n) \X D -> D]
  <2>1. ASSUME NEW i \in 1..n, NEW x \in D PROVE Keep(x, s[i]) \in D
    BY <1>1 DEF Keep
  <2>2. ASSUME NEW c \in (1..n) \X D PROVE Keep(c[2], s[c[1]]) \in D
    <3>1. c[1] \in 1..n /\ c[2] \in D
      OBVIOUS
    <3> HIDE DEF D, n
    <3> QED BY <2>1, <3>1
  <2> HIDE DEF D, n
  <2> QED BY <2>2
<1>3. PICK g \in [0..n -> D] : IsLoop(g, <<>>, step, n)
  <2> HIDE DEF n, D, step
  <2> QED BY <1>1, <1>2, LoopExists
<1>4. /\ g[0] = <<>> /\ \A i \in 1..n : g[i] = Keep(g[i - 1], s[i])
      /\ \A i \in 0..n : g[i] \in D
  <2>1. g[0] = <<>> /\ \A i \in 1..n : g[i] = step[<<i, g[i - 1]>>]
    BY <1>3 DEF IsLoop
  <2>2. ASSUME NEW i \in 1..n PROVE g[i] = Keep(g[i - 1], s[i])
    <3>1. i - 1 \in 0..n
      BY <1>1
    <3>2. g[i - 1] \in D
      BY <1>3, <3>1
    <3>3. <<i, g[i - 1]>> \in (1..n) \X D
      BY <3>2
    <3>4. step[<<i, g[i - 1]>>] = Keep(g[i - 1], s[i])
      <4> HIDE DEF D, n
      <4> QED BY <3>3
    <3> QED BY <2>1, <3>4
  <2> QED BY <1>3, <2>1, <2>2
<1>5. Def(g)
  <2>1. \A i \in 0..n : g[i] = IF i = 0 THEN <<>> ELSE Keep(g[i - 1], s[i])
    BY <1>1, <1>4
  <2> QED BY <1>3, <2>1
<1>6. Def(KeptOf(s))
  <2>1. KeptOf(s) = CHOOSE h : Def(h)
    BY DEF KeptOf
  <2> HIDE DEF Def
  <2> QED BY <1>5, <2>1
<1>7. KeptOf(s) = g
  <2> DEFINE T == {i \in 0..n : KeptOf(s)[i] = g[i]}
  <2>1. 0 \in T
    BY <1>1, <1>4, <1>6
  <2>2. ASSUME NEW i \in 1..n, i - 1 \in T PROVE i \in T
    <3>1. i - 1 \in 0..n /\ i \in 0..n /\ i # 0
      BY <1>1
    <3>2. KeptOf(s)[i - 1] = g[i - 1]
      BY <2>2
    <3>3. KeptOf(s)[i] = Keep(KeptOf(s)[i - 1], s[i])
      BY <1>6, <3>1
    <3>4. g[i] = Keep(g[i - 1], s[i])
      BY <1>4
    <3> QED BY <3>1, <3>2, <3>3, <3>4
  <2>3. 0..n \subseteq T
    <3> HIDE DEF T, n
    <3> QED BY <1>1, <2>1, <2>2, Upwards
  <2>4. DOMAIN KeptOf(s) = 0..n
    BY <1>6
  <2>5. \A i \in 0..n : KeptOf(s)[i] = g[i]
    BY <2>3
  <2>6. KeptOf(s) = [i \in 0..n |-> KeptOf(s)[i]]
    BY <1>6, <2>4
  <2> QED BY <1>3, <2>5, <2>6
<1> QED BY <1>4, <1>7

\* Of sorted definitions the kept ones ascend; all of them are kept, unless two conflict.
LEMMA KeptAscends ==
  ASSUME NEW s \in Seq(Definitions), Sorted(s)
  PROVE  \A i \in 0..Len(s) :
           /\ KeptOf(s)[i] \in Seq(Definitions) /\ Strict(KeptOf(s)[i]) /\ ToSet(KeptOf(s)[i]) \subseteq ToSet(s)
           /\ i > 0 => KeptOf(s)[i] # <<>> /\ Last(KeptOf(s)[i]).type = s[i].type
<1> DEFINE n == Len(s)
           kept == KeptOf(s)
           Good(i) == /\ Strict(kept[i]) /\ ToSet(kept[i]) \subseteq ToSet(s)
                      /\ i > 0 => kept[i] # <<>> /\ Last(kept[i]).type = s[i].type
           T == {i \in 0..n : Good(i)}
<1>1. n \in Nat /\ DOMAIN s = 1..n /\ \A i \in 1..n : s[i] \in Definitions
  OBVIOUS
<1>2. /\ kept[0] = <<>> /\ \A i \in 1..n : kept[i] = Keep(kept[i - 1], s[i])
      /\ \A i \in 0..n : kept[i] \in Seq(Definitions)
  BY KeptSteps
<1> HIDE DEF kept
<1>3. 0 \in T
  <2>1. Strict(<<>>) /\ ToSet(<<>>) = {}
    BY DEF Strict, ToSet
  <2> QED BY <1>1, <1>2, <2>1
<1>4. ASSUME NEW i \in 1..n, i - 1 \in T PROVE i \in T
  <2> DEFINE x == kept[i - 1]
  <2>1. Good(i - 1) /\ x \in Seq(Definitions) /\ kept[i] = Keep(x, s[i]) /\ s[i] \in Definitions /\ s[i] \in ToSet(s)
    <3>1. i - 1 \in 0..n
      BY <1>1
    <3> QED BY <1>1, <1>2, <1>4, <3>1 DEF ToSet
  <2>2. CASE Repeats(x, s[i])
    <3>1. kept[i] = x /\ x # <<>> /\ Last(x).type = s[i].type
      BY <2>1, <2>2 DEF Keep, Repeats
    <3> QED BY <2>1, <3>1
  <2>3. CASE ~Repeats(x, s[i])
    <3>1. kept[i] = Append(x, s[i])
      BY <2>1, <2>3 DEF Keep
    <3>2. /\ Len(x) \in Nat /\ Append(x, s[i]) # <<>> /\ Len(Append(x, s[i])) = Len(x) + 1
          /\ \A p \in 1..Len(x) : Append(x, s[i])[p] = x[p]
          /\ Append(x, s[i])[Len(x) + 1] = s[i] /\ Last(Append(x, s[i])) = s[i]
          /\ Append(x, s[i]) \in Seq(Definitions)
      <4> HIDE DEF x
      <4> QED BY <2>1, AppendFacts
    <3>3. /\ DOMAIN Append(x, s[i]) = 1..(Len(x) + 1) /\ DOMAIN x = 1..Len(x)
          /\ \A p \in 1..Len(x) : x[p].type \in Nat /\ s[i].type \in Nat
      <4>1. \A p \in 1..Len(x) : x[p] \in Definitions
        BY <2>1
      <4>2. \A p \in 1..Len(x) : x[p].type \in Nat
        BY <4>1, DefinitionTypes
      <4>3. s[i].type \in Nat
        BY <2>1, DefinitionTypes
      <4>4. DOMAIN Append(x, s[i]) = 1..(Len(x) + 1)
        BY <3>2
      <4>5. DOMAIN x = 1..Len(x)
        BY <2>1
      <4> QED BY ONLY <4>2, <4>3, <4>4, <4>5
    <3>4. ASSUME x # <<>> PROVE Last(x).type < s[i].type
      <4>1. i > 1 /\ i - 1 \in DOMAIN s /\ i \in DOMAIN s /\ i - 1 < i
        BY <1>1, <1>2, <3>4
      <4>2. s[i - 1].type <= s[i].type /\ Last(x).type = s[i - 1].type
        BY <2>1, <4>1 DEF Sorted
      <4>3. s[i - 1].type # s[i].type
        BY <2>3, <3>4, <4>2 DEF Repeats
      <4>4. s[i - 1].type \in Nat /\ s[i].type \in Nat
        BY <1>1, <4>1, DefinitionTypes
      <4> QED BY <4>2, <4>3, <4>4
    <3>5. \A p \in 1..Len(x) : x[p].type < s[i].type
      <4> SUFFICES ASSUME NEW p \in 1..Len(x) PROVE x[p].type < s[i].type
        OBVIOUS
      <4>1. x # <<>> /\ Last(x) = x[Len(x)] /\ Len(x) \in 1..Len(x)
        BY <3>2 DEF Last
      <4>2. p = Len(x) \/ x[p].type < x[Len(x)].type
        <5>1. Strict(x) /\ DOMAIN x = 1..Len(x)
          BY <2>1, <3>3
        <5>2. p = Len(x) \/ p < Len(x)
          BY <3>2
        <5> QED BY <4>1, <5>1, <5>2 DEF Strict
      <4>3. x[p].type \in Nat /\ x[Len(x)].type \in Nat /\ s[i].type \in Nat
        BY <3>3, <4>1
      <4> QED BY <3>4, <4>1, <4>2, <4>3, SMTT(20)
    <3>6. Strict(kept[i])
      <4> SUFFICES ASSUME NEW p \in 1..(Len(x) + 1), NEW q \in 1..(Len(x) + 1), p < q
                   PROVE  Append(x, s[i])[p].type < Append(x, s[i])[q].type
        BY <3>1, <3>3 DEF Strict
      <4>1. p \in 1..Len(x) /\ (q \in 1..Len(x) \/ q = Len(x) + 1)
        <5>1. Len(x) \in Nat
          BY <3>2
        <5> HIDE DEF x
        <5> QED BY <5>1
      <4>2. q \in 1..Len(x) => x[p].type < x[q].type
        BY <2>1, <3>3, <4>1 DEF Strict
      <4> QED BY <3>2, <3>5, <4>1, <4>2
    <3>7. ToSet(kept[i]) \subseteq ToSet(s)
      <4> SUFFICES ASSUME NEW p \in 1..(Len(x) + 1) PROVE Append(x, s[i])[p] \in ToSet(s)
        BY <3>1, <3>3 DEF ToSet
      <4>1. p \in 1..Len(x) \/ p = Len(x) + 1
        BY <3>2
      <4>2. p \in 1..Len(x) => x[p] \in ToSet(s)
        BY <2>1, <3>3 DEF ToSet
      <4> QED BY <2>1, <3>2, <4>1, <4>2
    <3>8. kept[i] # <<>> /\ Last(kept[i]).type = s[i].type
      BY <3>1, <3>2
    <3>9. Good(i)
      BY <3>6, <3>7, <3>8
    <3> QED BY <1>1, <3>9
  <2> QED BY <2>2, <2>3
<1>5. 0..n \subseteq T
  <2> HIDE DEF T, n
  <2> QED BY <1>1, <1>3, <1>4, Upwards
<1> QED BY <1>2, <1>5 DEF kept

\* Without a conflict every definition is kept.
LEMMA KeptCovers ==
  ASSUME result \in Seq(Definitions), ~Conflict
  PROVE  \A i \in 0..Len(result) : \A j \in 1..i : result[j] \in ToSet(KeptOf(result)[i])
<1> DEFINE n == Len(result)
           kept == KeptOf(result)
           T == {i \in 0..n : \A j \in 1..i : result[j] \in ToSet(kept[i])}
<1>1. n \in Nat /\ DOMAIN result = 1..n /\ \A i \in 1..n : result[i] \in Definitions
  OBVIOUS
<1>2. /\ kept[0] = <<>> /\ \A i \in 1..n : kept[i] = Keep(kept[i - 1], result[i])
      /\ \A i \in 0..n : kept[i] \in Seq(Definitions)
  BY KeptSteps
<1>3. \A i \in 1..n : Repeats(kept[i - 1], result[i]) => Same(Last(kept[i - 1]), result[i])
  BY <1>1 DEF Conflict
<1> HIDE DEF kept
<1>4. 0 \in T
  BY <1>1
<1>5. ASSUME NEW i \in 1..n, i - 1 \in T PROVE i \in T
  <2> DEFINE x == kept[i - 1]
  <2>1. /\ x \in Seq(Definitions) /\ kept[i] = Keep(x, result[i]) /\ result[i] \in Definitions
        /\ \A j \in 1..(i - 1) : result[j] \in ToSet(x)
    <3>1. i - 1 \in 0..n
      BY <1>1
    <3> QED BY <1>1, <1>2, <1>5, <3>1
  <2>2. \A j \in 1..i : j \in 1..(i - 1) \/ j = i
    BY <1>1
  <2>3. CASE Repeats(x, result[i])
    <3>1. kept[i] = x /\ x # <<>> /\ Same(Last(x), result[i])
      BY <1>3, <2>1, <2>3 DEF Keep, Repeats
    <3>2. Last(x) = x[Len(x)] /\ Len(x) \in DOMAIN x /\ Last(x) \in Definitions
      <4> HIDE DEF x
      <4>1. Last(x) = x[Len(x)] /\ Last(x) \in Definitions /\ Len(x) \in Nat /\ Len(x) > 0
        BY <2>1, <3>1, FrontFacts
      <4> QED BY <2>1, <4>1
    <3>3. Last(x) = result[i]
      <4>1. Last(x).type = result[i].type /\ Last(x).fields = result[i].fields
        BY <3>1 DEF Same
      <4>2. Last(x) = [type |-> Last(x).type, fields |-> Last(x).fields]
            /\ result[i] = [type |-> result[i].type, fields |-> result[i].fields]
        BY <2>1, <3>2, DefinitionTypes
      <4> QED BY <4>1, <4>2
    <3>4. result[i] \in ToSet(x)
      BY <3>2, <3>3 DEF ToSet
    <3> QED BY <2>1, <2>2, <3>1, <3>4
  <2>4. CASE ~Repeats(x, result[i])
    <3>1. kept[i] = Append(x, result[i])
      BY <2>1, <2>4 DEF Keep
    <3>2. /\ Len(x) \in Nat /\ \A p \in 1..Len(x) : Append(x, result[i])[p] = x[p]
          /\ Append(x, result[i])[Len(x) + 1] = result[i]
          /\ DOMAIN Append(x, result[i]) = 1..(Len(x) + 1) /\ DOMAIN x = 1..Len(x)
      <4> HIDE DEF x
      <4> QED BY <2>1, AppendFacts
    <3>3. ToSet(x) \subseteq ToSet(kept[i])
      <4> SUFFICES ASSUME NEW p \in 1..Len(x) PROVE x[p] \in ToSet(Append(x, result[i]))
        BY <3>1, <3>2 DEF ToSet
      <4>1. p \in 1..(Len(x) + 1)
        BY <3>2
      <4> QED BY <3>2, <4>1 DEF ToSet
    <3>4. result[i] \in ToSet(kept[i])
      <4>1. Len(x) + 1 \in 1..(Len(x) + 1)
        BY <3>2
      <4> QED BY <3>1, <3>2, <4>1 DEF ToSet
    <3> QED BY <2>1, <2>2, <3>3, <3>4
  <2> QED BY <2>3, <2>4
<1>6. 0..n \subseteq T
  <2> HIDE DEF T, n
  <2> QED BY <1>1, <1>4, <1>5, Upwards
<1> QED BY <1>6 DEF kept
-----------------------------------------------------------------------------
\* There is one definition of each type, so a field needs one at most.
LEMMA OnePosition ==
  ASSUME unique \in Seq(Definitions), Strict(unique),
         NEW f, NEW i \in DOMAIN unique, NEW j \in DOMAIN unique,
         unique[i].type = f.of, unique[j].type = f.of
  PROVE  i = j
<1>1. Len(unique) \in Nat /\ DOMAIN unique = 1..Len(unique) /\ unique[i].type \in Nat
  <2>1. unique[i] \in Definitions
    OBVIOUS
  <2> QED BY <2>1, DefinitionTypes
<1>2. ~(i < j) /\ ~(j < i)
  BY <1>1 DEF Strict
<1> QED BY <1>1, <1>2

LEMMA DifferentDefinitions ==
  ASSUME unique \in Seq(Definitions), Strict(unique),
         NEW i \in DOMAIN unique, NEW j \in DOMAIN unique, unique[i] = unique[j]
  PROVE  i = j
BY OnePosition, [of |-> unique[i].type].of = unique[i].type

\* The fields of a call are those of its definition.
LEMMA CallTypes ==
  ASSUME unique \in Seq(Definitions), NEW c \in VisitCalls
  PROVE  /\ c.index \in DOMAIN unique /\ c.index \in 1..Len(unique) /\ c.next \in Nat /\ c.next >= 1
         /\ unique[c.index] \in Definitions
         /\ Len(unique[c.index].fields) \in Nat /\ c.next <= Len(unique[c.index].fields) + 1
         /\ \A k \in 1..(c.next - 1) : k \in DOMAIN unique[c.index].fields /\ FieldAt(c, k) \in Field
<1>1. c.index \in 1..Len(unique) /\ c.next \in 1..(Len(unique[c.index].fields) + 1)
  BY DEF VisitCalls
<1>2. unique[c.index] \in Definitions /\ DOMAIN unique = 1..Len(unique)
  BY <1>1
<1>3. /\ Len(unique[c.index].fields) \in Nat
      /\ DOMAIN unique[c.index].fields = 1..Len(unique[c.index].fields)
      /\ \A k \in DOMAIN unique[c.index].fields : unique[c.index].fields[k] \in Field
  BY <1>2, DefinitionTypes
<1> QED BY <1>1, <1>2, <1>3, SMTT(20) DEF FieldAt

\* visit(i) is called for the field that the call on the top of "calls" went on from,
\* or by the loop around it.
Asked(st, calls, i) ==
  /\ StackShape(st, calls)
  /\ calls # <<>> => Waits(Last(calls), i) /\ Settled(st, Last(calls), Last(calls).next - 2)

\* Of all that a field needs, i is done: the field is settled.
LEMMA FieldSettled ==
  ASSUME unique \in Seq(Definitions), Strict(unique), NEW c \in VisitCalls, NEW i \in DOMAIN unique,
         Waits(c, i), NEW st, Settled(st, c, c.next - 2), st[i] = 2
  PROVE  Settled(st, c, c.next - 1)
<1>1. c.next \in Nat /\ c.next > 1 /\ FieldAt(c, c.next - 1).of = unique[i].type
  BY CallTypes DEF Waits
<1> SUFFICES ASSUME NEW k \in 1..(c.next - 1), NEW j \in Dependencies(FieldAt(c, k)) PROVE st[j] = 2
  BY DEF Settled
<1>2. CASE k = c.next - 1
  <2>1. j \in DOMAIN unique /\ unique[j].type = FieldAt(c, k).of
    BY DEF Dependencies, Positions
  <2>2. i = j
    BY <1>1, <1>2, <2>1, OnePosition
  <2> QED BY <2>2
<1>3. CASE k # c.next - 1
  <2>1. k \in 1..(c.next - 2)
    BY <1>1, <1>3
  <2> QED BY <2>1 DEF Settled
<1> QED BY <1>2, <1>3

\* A definition asked for that is being visited holds itself.
LEMMA CycleFound ==
  ASSUME unique \in Seq(Definitions), ToSet(unique) = Given,
         NEW st, NEW calls, NEW i \in DOMAIN unique, Asked(st, calls, i), st[i] = 1
  PROVE  HoldsItself
<1> DEFINE n == Len(calls)
<1>1. /\ calls \in Seq(VisitCalls) /\ n \in Nat /\ DOMAIN calls = 1..n
      /\ \A p \in 1..(n - 1) : Waits(calls[p], calls[p + 1].index)
  BY DEF Asked, StackShape
<1>2. PICK q \in 1..n : calls[q].index = i
  BY <1>1 DEF Asked, StackShape
<1>3. Waits(calls[n], i)
  <2>1. calls # <<>> /\ Last(calls) = calls[n]
    BY <1>1, <1>2 DEF Last
  <2> QED BY <2>1 DEF Asked
<1> DEFINE D(p) == unique[calls[p].index]
           S == {D(p) : p \in q..n}
<1>4. ASSUME NEW p \in 1..n, NEW j \in DOMAIN unique, Waits(calls[p], j)
      PROVE  DependsOn(D(p), unique[j].type)
  <2> DEFINE c == calls[p]
             k == c.next - 1
  <2>1. c \in VisitCalls
    BY <1>1
  <2>2. c.next \in Nat /\ k \in 1..(c.next - 1)
    <3>1. c.next \in Nat /\ c.next > 1
      BY <1>4, <2>1, CallTypes DEF Waits
    <3> HIDE DEF c
    <3> QED BY <3>1
  <2>3. k \in DOMAIN D(p).fields /\ FieldAt(c, k) \in Field /\ FieldAt(c, k) = D(p).fields[k]
    BY <2>1, <2>2, CallTypes DEF FieldAt
  <2>4. ByValue(FieldAt(c, k)) /\ FieldAt(c, k).of = unique[j].type
    BY <1>4 DEF Waits
  <2>5. Holds(FieldAt(c, k))
    <3>1. FieldAt(c, k).kind \in {"scalar", "array", "sequence"}
      BY <2>3 DEF Field
    <3> QED BY <2>4, <3>1 DEF ByValue, Holds
  <2> QED BY <2>3, <2>4, <2>5 DEF DependsOn
<1>5. ASSUME NEW p \in q..n PROVE \E e \in S : DependsOn(D(p), e.type)
  <2>1. CASE p = n
    <3>1. D(q) \in S /\ D(q) = unique[i]
      BY <1>1, <1>2
    <3>2. n \in 1..n
      BY <1>1, <1>2
    <3>3. DependsOn(D(n), unique[i].type)
      <4> HIDE DEF D, n
      <4> QED BY <1>3, <1>4, <3>2
    <3> HIDE DEF S, D, n
    <3> QED BY <2>1, <3>1, <3>3
  <2>2. CASE p # n
    <3>1. p \in 1..(n - 1) /\ p + 1 \in q..n /\ p \in 1..n /\ p + 1 \in 1..n
      <4>1. n \in Nat /\ q \in 1..n /\ p \in q..n
        BY <1>1
      <4> HIDE DEF n
      <4> QED BY ONLY <2>2, <4>1
    <3>2. calls[p + 1].index \in DOMAIN unique
      BY <1>1, <3>1, CallTypes
    <3>3. DependsOn(D(p), D(p + 1).type)
      BY <1>1, <1>4, <3>1, <3>2
    <3> QED BY <3>1, <3>3
  <2> QED BY <2>1, <2>2
<1>6. S \subseteq Given /\ S # {}
  <2>1. ASSUME NEW p \in q..n PROVE D(p) \in Given
    <3>1. p \in 1..n
      BY <1>1, <1>2
    <3>2. calls[p].index \in DOMAIN unique
      BY <1>1, <3>1, CallTypes
    <3> QED BY <3>2 DEF ToSet
  <2>2. q \in q..n
    BY <1>1, <1>2
  <2> QED BY <2>1, <2>2
<1>7. \A d \in S : \E e \in S : DependsOn(d, e.type)
  BY <1>5
<1> HIDE DEF S
<1> QED BY <1>6, <1>7 DEF HoldsItself

\* visit() of a definition that was not visited.
LEMMA PushKeeps ==
  ASSUME unique \in Seq(Definitions), NEW st \in [1..Len(unique) -> 0..2], NEW calls,
         NEW i \in DOMAIN unique, Asked(st, calls, i), st[i] = 0
  PROVE  StackOK([st EXCEPT ![i] = 1], Append(calls, [index |-> i, next |-> 1]))
<1> DEFINE n == Len(calls)
           new == [index |-> i, next |-> 1]
           all == Append(calls, new)
           st1 == [st EXCEPT ![i] = 1]
<1>1. /\ calls \in Seq(VisitCalls) /\ n \in Nat /\ DOMAIN calls = 1..n /\ DOMAIN unique = 1..Len(unique)
      /\ \A p, q \in DOMAIN calls : calls[p].index = calls[q].index => p = q
      /\ \A j \in DOMAIN unique : st[j] = 1 <=> \E p \in DOMAIN calls : calls[p].index = j
      /\ \A p \in 1..(n - 1) : Waits(calls[p], calls[p + 1].index) /\ Settled(st, calls[p], calls[p].next - 2)
  BY DEF Asked, StackShape
<1>2. new \in VisitCalls
  <2>1. unique[i] \in Definitions
    OBVIOUS
  <2>2. Len(unique[i].fields) \in Nat
    BY <2>1, DefinitionTypes
  <2> QED BY <1>1, <2>2 DEF VisitCalls
<1> HIDE DEF new
<1>3. /\ all \in Seq(VisitCalls) /\ Len(all) = n + 1 /\ \A p \in 1..n : all[p] = calls[p] /\ all[n + 1] = new
      /\ Last(all) = new /\ all # <<>> /\ all[n + 1] = new
  BY <1>1, <1>2, AppendFacts
<1>4. DOMAIN all = 1..(n + 1) /\ \A p \in 1..(n + 1) : p \in 1..n \/ p = n + 1
  <2>1. DOMAIN all = 1..(n + 1)
    BY <1>3
  <2>2. n \in Nat
    BY <1>1
  <2> HIDE DEF n, all
  <2> QED BY ONLY <2>1, <2>2
<1> HIDE DEF all
<1>5. new.index = i /\ new.next = 1
  BY DEF new
<1>6. \A p \in 1..n : calls[p].index # i
  BY <1>1
<1>7. \A p, q \in DOMAIN all : all[p].index = all[q].index => p = q
  BY <1>1, <1>3, <1>4, <1>5, <1>6
<1>8. ASSUME NEW j \in DOMAIN unique PROVE st1[j] = 1 <=> \E p \in DOMAIN all : all[p].index = j
  <2>1. CASE j = i
    <3>1. st1[j] = 1 /\ n + 1 \in DOMAIN all /\ all[n + 1].index = j
      BY <1>1, <1>3, <1>4, <1>5, <2>1
    <3> QED BY <3>1
  <2>2. CASE j # i
    <3>1. st1[j] = st[j]
      BY <1>1, <2>2
    <3> QED BY <1>1, <1>3, <1>4, <1>5, <2>2, <3>1
  <2> QED BY <2>1, <2>2
<1>9. ASSUME NEW c, NEW m, Settled(st, c, m) PROVE Settled(st1, c, m)
  <2> SUFFICES ASSUME NEW k \in 1..m, NEW j \in Dependencies(FieldAt(c, k)) PROVE st1[j] = 2
    BY DEF Settled
  <2>1. st[j] = 2 /\ j \in DOMAIN unique
    BY <1>9 DEF Settled, Dependencies, Positions
  <2> QED BY <1>1, <2>1
<1>10. ASSUME NEW p \in 1..n
       PROVE  Waits(all[p], all[p + 1].index) /\ Settled(st1, all[p], all[p].next - 2)
  <2>1. CASE p = n
    <3>1. calls # <<>> /\ Last(calls) = calls[n]
      BY <1>1, <2>1 DEF Last
    <3>2. Waits(calls[n], i) /\ Settled(st, calls[n], calls[n].next - 2)
      BY <3>1 DEF Asked
    <3>3. all[p] = calls[n] /\ all[p + 1].index = i
      BY <1>3, <1>5, <2>1
    <3> HIDE DEF st1
    <3> QED BY <1>9, <3>2, <3>3
  <2>2. CASE p # n
    <3>1. p \in 1..(n - 1) /\ p + 1 \in 1..n
      <4>1. n \in Nat
        BY <1>1
      <4> HIDE DEF n
      <4> QED BY <2>2, <4>1
    <3>2. all[p] = calls[p] /\ all[p + 1] = calls[p + 1]
      BY <1>3, <3>1
    <3> HIDE DEF st1
    <3> QED BY <1>1, <1>9, <3>1, <3>2
  <2> QED BY <2>1, <2>2
<1>11. StackShape(st1, all)
  <2>1. 1..(Len(all) - 1) = 1..n
    BY <1>1, <1>3
  <2> HIDE DEF st1
  <2> QED BY <1>3, <1>7, <1>8, <1>10, <2>1 DEF StackShape
<1>12. Settled(st1, Last(all), Last(all).next - 1)
  <2>1. Last(all).next - 1 = 0
    BY <1>3, <1>5
  <2> QED BY <2>1 DEF Settled
<1> QED BY <1>3, <1>11, <1>12 DEF StackOK, all, new

LEMMA OrderKept ==
  ASSUME NEW st, NEW st1, NEW o, OrderedOK(st, o), \A j \in DOMAIN unique : st1[j] = 2 <=> st[j] = 2
  PROVE  OrderedOK(st1, o)
<1>1. ASSUME NEW j \in DOMAIN o PROVE \E i \in DOMAIN unique : o[j] = unique[i] /\ st1[i] = 2
  BY DEF OrderedOK
<1>2. ASSUME NEW i \in DOMAIN unique, st1[i] = 2 PROVE \E j \in DOMAIN o : o[j] = unique[i]
  BY <1>2 DEF OrderedOK
<1> QED BY <1>1, <1>2 DEF OrderedOK

\* What visit() of a definition does to the search: it is done, being visited, or begun.
LEMMA CallKeeps ==
  ASSUME unique \in Seq(Definitions), Strict(unique), ToSet(unique) = Given,
         state \in [1..Len(unique) -> 0..2], OrderedOK(state, ordered),
         NEW calls, NEW i \in DOMAIN unique, Asked(state, calls, i), Visit(i, calls), phase = "order"
  PROVE  /\ phase' \in {"order", "cycle"} /\ ordered' = ordered
         /\ phase' = "cycle" => HoldsItself
         /\ phase' = "order" =>
              /\ state' \in [1..Len(unique) -> 0..2] /\ StackOK(state', stack') /\ OrderedOK(state', ordered)
              /\ state'[i] # 0 /\ \A j \in DOMAIN unique : state[j] # 0 => state'[j] # 0
<1>1. DOMAIN unique = 1..Len(unique) /\ StackShape(state, calls) /\ calls \in Seq(VisitCalls)
  <2>1. StackShape(state, calls)
    BY DEF Asked
  <2>2. calls \in Seq(VisitCalls)
    BY <2>1 DEF StackShape
  <2> QED BY <2>1, <2>2
<1>2. CASE state[i] = 2
  <2>1. stack' = calls /\ state' = state /\ ordered' = ordered /\ phase' = phase
    BY <1>2 DEF Visit, IsDone
  <2>2. ASSUME calls # <<>> PROVE Settled(state, Last(calls), Last(calls).next - 1)
    <3>1. Last(calls) \in VisitCalls
      BY <1>1, <2>2, FrontFacts
    <3>2. Waits(Last(calls), i) /\ Settled(state, Last(calls), Last(calls).next - 2)
      BY <2>2 DEF Asked
    <3> QED BY <1>2, <3>1, <3>2, FieldSettled
  <2>3. StackOK(state', stack')
    BY <1>1, <2>1, <2>2 DEF StackOK
  <2> QED BY <1>2, <2>1, <2>3
<1>3. CASE state[i] = 1
  <2>1. phase' = "cycle" /\ ordered' = ordered
    BY <1>3 DEF Visit, IsDone, Cyclic
  <2>2. HoldsItself
    BY <1>3, CycleFound
  <2> QED BY <2>1, <2>2
<1>4. CASE state[i] = 0
  <2>1. /\ stack' = Append(calls, [index |-> i, next |-> 1])
        /\ state' = [state EXCEPT ![i] = 1] /\ ordered' = ordered /\ phase' = phase
    BY <1>4 DEF Visit, IsDone, Cyclic
  <2>2. StackOK(state', stack')
    BY <1>4, <2>1, PushKeeps
  <2>3. OrderedOK(state', ordered)
    <3>1. \A j \in DOMAIN unique : state'[j] = 2 <=> state[j] = 2
      BY <1>1, <1>4, <2>1
    <3> QED BY <3>1, OrderKept
  <2>4. state' \in [1..Len(unique) -> 0..2] /\ state'[i] = 1 /\ \A j \in DOMAIN unique : j # i => state'[j] = state[j]
    BY <1>1, <2>1
  <2> QED BY <2>1, <2>2, <2>3, <2>4
<1> QED BY <1>1, <1>2, <1>3, <1>4
-----------------------------------------------------------------------------
\* What StackShape says, over the number of calls.
LEMMA StackFacts ==
  ASSUME NEW st, NEW calls, StackShape(st, calls)
  PROVE  /\ calls \in Seq(VisitCalls) /\ DOMAIN calls = 1..Len(calls)
         /\ \A p, q \in 1..Len(calls) : calls[p].index = calls[q].index => p = q
         /\ \A i \in DOMAIN unique : st[i] = 1 <=> \E p \in 1..Len(calls) : calls[p].index = i
         /\ \A p \in 1..(Len(calls) - 1) :
              Waits(calls[p], calls[p + 1].index) /\ Settled(st, calls[p], calls[p].next - 2)
<1>1. calls \in Seq(VisitCalls)
  BY DEF StackShape
<1>2. DOMAIN calls = 1..Len(calls)
  BY <1>1
<1>3. /\ \A p, q \in DOMAIN calls : calls[p].index = calls[q].index => p = q
      /\ \A i \in DOMAIN unique : st[i] = 1 <=> \E p \in DOMAIN calls : calls[p].index = i
      /\ \A p \in 1..(Len(calls) - 1) :
           Waits(calls[p], calls[p + 1].index) /\ Settled(st, calls[p], calls[p].next - 2)
  BY ONLY StackShape(st, calls) DEF StackShape
<1> QED BY ONLY <1>1, <1>2, <1>3

\* visit() returns: its definition goes behind all that it holds, and the field it was called
\* for is settled.
LEMMA ReturnKeeps ==
  ASSUME unique \in Seq(Definitions), Strict(unique), state \in [1..Len(unique) -> 0..2],
         StackOK(state, stack), OrderedOK(state, ordered), Return
  PROVE  /\ state' \in [1..Len(unique) -> 0..2] /\ \A j \in DOMAIN unique : state[j] # 0 => state'[j] # 0
         /\ StackOK(state', stack') /\ OrderedOK(state', ordered')
<1> DEFINE n == Len(stack)
           t == Last(stack).index
           m == Len(ordered)
<1>1. /\ stack # <<>> /\ Last(stack).next > Len(unique[t].fields)
      /\ state' = [state EXCEPT ![t] = 2] /\ ordered' = Append(ordered, unique[t]) /\ stack' = Front(stack)
  BY DEF Return, Top, FieldsOfCall
<1>2. /\ StackShape(state, stack) /\ Settled(state, Last(stack), Last(stack).next - 1)
  BY <1>1 DEF StackOK
<1>3. /\ stack \in Seq(VisitCalls) /\ DOMAIN stack = 1..n /\ DOMAIN unique = 1..Len(unique)
      /\ \A p, q \in 1..n : stack[p].index = stack[q].index => p = q
      /\ \A i \in DOMAIN unique : state[i] = 1 <=> \E p \in 1..n : stack[p].index = i
      /\ \A p \in 1..(n - 1) : Waits(stack[p], stack[p + 1].index) /\ Settled(state, stack[p], stack[p].next - 2)
  <2>1. DOMAIN unique = 1..Len(unique)
    OBVIOUS
  <2> QED BY <1>2, StackFacts
<1>4. /\ Front(stack) \in Seq(VisitCalls) /\ Len(Front(stack)) = n - 1 /\ n \in Nat /\ n > 0
      /\ \A p \in 1..(n - 1) : Front(stack)[p] = stack[p]
      /\ Last(stack) = stack[n] /\ Last(stack) \in VisitCalls
  BY <1>1, <1>3, FrontFacts, Zenon
<1> HIDE DEF n
<1>5. /\ n \in 1..n /\ n - 1 \in Nat
      /\ \A p \in 1..(n - 1) : p \in 1..n /\ p + 1 \in 1..n /\ p # n /\ (p = n - 1 \/ p + 1 \in 1..(n - 1))
  BY ONLY <1>4
<1>6. t \in DOMAIN unique /\ state[t] = 1 /\ unique[t] \in Definitions
  <2>1. t \in DOMAIN unique /\ unique[t] \in Definitions
    BY <1>4, CallTypes
  <2> QED BY <1>3, <1>4, <1>5, <2>1
<1>7. /\ state' \in [1..Len(unique) -> 0..2] /\ state'[t] = 2
      /\ \A j \in DOMAIN unique : j # t => state'[j] = state[j]
  BY <1>1, <1>3, <1>6
<1>8. ASSUME NEW c, NEW k, Settled(state, c, k) PROVE Settled(state', c, k)
  <2> SUFFICES ASSUME NEW l \in 1..k, NEW j \in Dependencies(FieldAt(c, l)) PROVE state'[j] = 2
    BY DEF Settled
  <2>1. state[j] = 2 /\ j \in DOMAIN unique
    BY <1>8 DEF Settled, Dependencies, Positions
  <2> QED BY <1>7, <2>1
<1>9. StackShape(state', Front(stack))
  <2>1. DOMAIN Front(stack) = 1..(n - 1)
    BY <1>4
  <2>2. \A p, q \in DOMAIN Front(stack) : Front(stack)[p].index = Front(stack)[q].index => p = q
    BY <1>3, <1>4, <1>5, <2>1
  <2>3. ASSUME NEW i \in DOMAIN unique
        PROVE  state'[i] = 1 <=> \E p \in DOMAIN Front(stack) : Front(stack)[p].index = i
    <3>0. stack[n].index = t
      BY <1>4
    <3> HIDE DEF t
    <3>1. CASE i = t
      <4>1. \A p \in 1..(n - 1) : stack[p].index # t
        BY <1>3, <1>5, <3>0
      <4>2. \A p \in DOMAIN Front(stack) : Front(stack)[p].index # t
        BY <1>4, <2>1, <4>1
      <4> QED BY <1>7, <3>1, <4>2
    <3>2. CASE i # t
      <4>1. \A p \in 1..n : stack[p].index = i => p \in 1..(n - 1)
        <5>1. \A p \in 1..n : p = n \/ p \in 1..(n - 1)
          BY <1>4
        <5> QED BY <3>0, <3>2, <5>1
      <4>2. state'[i] = state[i]
        BY <1>7, <3>2
      <4>3. (\E p \in 1..n : stack[p].index = i) <=> \E p \in 1..(n - 1) : stack[p].index = i
        BY ONLY <1>5, <4>1
      <4>4. (\E p \in 1..(n - 1) : stack[p].index = i) <=> \E p \in DOMAIN Front(stack) : Front(stack)[p].index = i
        BY <1>4, <2>1
      <4>5. state[i] = 1 <=> \E p \in 1..n : stack[p].index = i
        BY <1>3
      <4> QED BY ONLY <4>2, <4>3, <4>4, <4>5
    <3> QED BY <3>1, <3>2
  <2>4. ASSUME NEW p \in 1..(Len(Front(stack)) - 1)
        PROVE  Waits(Front(stack)[p], Front(stack)[p + 1].index)
               /\ Settled(state', Front(stack)[p], Front(stack)[p].next - 2)
    <3>1. p \in 1..(n - 1) /\ p + 1 \in 1..(n - 1)
      BY <1>4
    <3>2. Front(stack)[p] = stack[p] /\ Front(stack)[p + 1] = stack[p + 1]
      BY <1>4, <3>1
    <3> QED BY <1>3, <1>8, <3>1, <3>2
  <2> QED BY <1>4, <2>2, <2>3, <2>4 DEF StackShape
<1>10. ASSUME Front(stack) # <<>> PROVE Settled(state', Last(Front(stack)), Last(Front(stack)).next - 1)
  <2> DEFINE c == stack[n - 1]
  <2>1. n - 1 \in 1..(n - 1) /\ Last(Front(stack)) = c /\ c \in VisitCalls
    <3>1. Len(Front(stack)) # 0
      BY <1>4, <1>10
    <3>2. n - 1 \in 1..(n - 1) /\ n - 1 \in 1..n
      BY ONLY <1>4, <3>1
    <3> QED BY <1>3, <1>4, <3>2 DEF Last
  <2>2. (n - 1) + 1 = n
    BY <1>4
  <2>3. Waits(c, t) /\ Settled(state, c, c.next - 2)
    BY <1>3, <1>4, <2>1, <2>2
  <2>4. Settled(state', c, c.next - 2)
    BY <1>8, <2>3
  <2> HIDE DEF c, t
  <2>5. Settled(state', c, c.next - 1)
    BY <1>6, <1>7, <2>1, <2>3, <2>4, FieldSettled
  <2> QED BY <2>1, <2>5
<1>11. StackOK(state', stack')
  BY <1>1, <1>9, <1>10 DEF StackOK
<1>12. /\ ordered \in Seq(Definitions) /\ m \in Nat /\ DOMAIN ordered = 1..m
       /\ \A j \in 1..m : \E i \in DOMAIN unique : ordered[j] = unique[i] /\ state[i] = 2
       /\ \A i \in DOMAIN unique : state[i] = 2 => \E j \in 1..m : ordered[j] = unique[i]
       /\ \A i, j \in 1..m : ordered[i] = ordered[j] => i = j
       /\ \A j \in 1..m : \A k \in DOMAIN ordered[j].fields : \A i \in Dependencies(ordered[j].fields[k]) :
            \E h \in 1..(j - 1) : ordered[h] = unique[i]
  <2>1. ordered \in Seq(Definitions)
    BY DEF OrderedOK
  <2>2. m \in Nat /\ DOMAIN ordered = 1..m
    BY <2>1
  <2> HIDE DEF m
  <2>3. \A j \in 1..m : \E i \in DOMAIN unique : ordered[j] = unique[i] /\ state[i] = 2
    BY <2>2 DEF OrderedOK
  <2>4. \A i \in DOMAIN unique : state[i] = 2 => \E j \in 1..m : ordered[j] = unique[i]
    BY <2>2 DEF OrderedOK
  <2>5. \A i, j \in 1..m : ordered[i] = ordered[j] => i = j
    BY <2>2 DEF OrderedOK
  <2>6. \A j \in 1..m : \A k \in DOMAIN ordered[j].fields : \A i \in Dependencies(ordered[j].fields[k]) :
          \E h \in 1..(j - 1) : ordered[h] = unique[i]
    BY <2>2 DEF OrderedOK
  <2> QED BY <2>1, <2>2, <2>3, <2>4, <2>5, <2>6
<1>13. /\ ordered' \in Seq(Definitions) /\ Len(ordered') = m + 1 /\ ordered'[m + 1] = unique[t]
       /\ \A j \in 1..m : ordered'[j] = ordered[j]
  BY <1>1, <1>6, <1>12, AppendFacts
<1> HIDE DEF m
<1>14. /\ DOMAIN ordered' = 1..(m + 1) /\ m + 1 \in 1..(m + 1)
       /\ \A j \in 1..(m + 1) : j \in 1..m \/ (j = m + 1 /\ 1..(j - 1) = 1..m)
       /\ \A j \in 1..m : j \in 1..(m + 1) /\ \A h \in 1..(j - 1) : h \in 1..m
  <2>1. DOMAIN ordered' = 1..(m + 1)
    BY <1>13
  <2>2. m + 1 \in 1..(m + 1)
    BY <1>12
  <2>3. \A j \in 1..(m + 1) : j \in 1..m \/ (j = m + 1 /\ j - 1 = m)
    BY <1>12
  <2>4. \A j \in 1..m : j \in 1..(m + 1) /\ \A h \in 1..(j - 1) : h \in 1..m
    BY <1>12
  <2> QED BY <2>1, <2>2, <2>3, <2>4
<1>15. \A j \in 1..m : ordered[j] # unique[t]
  <2> SUFFICES ASSUME NEW j \in 1..m, ordered[j] = unique[t] PROVE FALSE
    OBVIOUS
  <2>1. PICK i \in DOMAIN unique : ordered[j] = unique[i] /\ state[i] = 2
    BY <1>12
  <2> HIDE DEF t
  <2>2. i = t
    BY <1>6, <2>1, DifferentDefinitions
  <2> QED BY <1>6, <2>1, <2>2
<1>16. OrderedOK(state', ordered')
  <2>1. ASSUME NEW j \in 1..(m + 1) PROVE \E i \in DOMAIN unique : ordered'[j] = unique[i] /\ state'[i] = 2
    <3>1. CASE j \in 1..m
      <4>1. PICK i \in DOMAIN unique : ordered[j] = unique[i] /\ state[i] = 2
        BY <1>12, <3>1
      <4>2. i # t
        BY <1>6, <4>1
      <4> QED BY <1>7, <1>13, <3>1, <4>1, <4>2
    <3>2. CASE j = m + 1
      BY <1>6, <1>7, <1>13, <3>2
    <3> QED BY <1>14, <3>1, <3>2
  <2>2. ASSUME NEW i \in DOMAIN unique, state'[i] = 2 PROVE \E j \in 1..(m + 1) : ordered'[j] = unique[i]
    <3>1. CASE i = t
      BY <1>13, <1>14, <3>1
    <3>2. CASE i # t
      <4>1. PICK j \in 1..m : ordered[j] = unique[i]
        BY <1>7, <1>12, <2>2, <3>2
      <4> QED BY <1>13, <1>14, <4>1
    <3> QED BY <3>1, <3>2
  <2>3. ASSUME NEW i \in 1..(m + 1), NEW j \in 1..(m + 1), ordered'[i] = ordered'[j] PROVE i = j
    <3>1. CASE i \in 1..m /\ j \in 1..m
      BY <1>12, <1>13, <2>3, <3>1
    <3>2. CASE i = m + 1 /\ j \in 1..m
      BY <1>13, <1>15, <2>3, <3>2
    <3>3. CASE i \in 1..m /\ j = m + 1
      BY <1>13, <1>15, <2>3, <3>3
    <3> QED BY <1>14, <3>1, <3>2, <3>3
  <2>4. ASSUME NEW j \in 1..(m + 1), NEW k \in DOMAIN ordered'[j].fields,
               NEW i \in Dependencies(ordered'[j].fields[k])
        PROVE  \E h \in 1..(j - 1) : ordered'[h] = unique[i]
    <3>1. CASE j \in 1..m
      <4>2. ordered'[j] = ordered[j]
        BY <1>13, <3>1
      <4>3. k \in DOMAIN ordered[j].fields /\ i \in Dependencies(ordered[j].fields[k])
        BY <2>4, <4>2
      <4>1. PICK h \in 1..(j - 1) : ordered[h] = unique[i]
        BY ONLY <1>12, <3>1, <4>3
      <4> QED BY <1>13, <1>14, <3>1, <4>1
    <3>2. CASE j = m + 1
      <4>1. ordered'[j] = unique[t] /\ 1..(j - 1) = 1..m
        BY <1>12, <1>13, <3>2
      <4>2. k \in 1..(Last(stack).next - 1)
        <5>1. Len(unique[t].fields) \in Nat /\ DOMAIN unique[t].fields = 1..Len(unique[t].fields)
          BY <1>6, DefinitionTypes
        <5>2. Last(stack).next \in Nat
          BY <1>4, CallTypes
        <5>3. k \in 1..Len(unique[t].fields)
          BY <2>4, <4>1, <5>1
        <5> QED BY ONLY <1>1, <5>1, <5>2, <5>3, SMTT(20)
      <4>3. FieldAt(Last(stack), k) = unique[t].fields[k]
        BY DEF FieldAt
      <4>4. i \in DOMAIN unique /\ state[i] = 2
        BY <1>2, <2>4, <4>1, <4>2, <4>3 DEF Settled, Dependencies, Positions
      <4>5. PICK h \in 1..m : ordered[h] = unique[i]
        BY <1>12, <4>4
      <4> QED BY <1>13, <4>1, <4>5
    <3> QED BY <1>14, <3>1, <3>2
  <2>5. /\ \A j \in DOMAIN ordered' : \E i \in DOMAIN unique : ordered'[j] = unique[i] /\ state'[i] = 2
        /\ \A i \in DOMAIN unique : state'[i] = 2 => \E j \in DOMAIN ordered' : ordered'[j] = unique[i]
        /\ \A i, j \in DOMAIN ordered' : ordered'[i] = ordered'[j] => i = j
    BY ONLY <1>14, <2>1, <2>2, <2>3
  <2>6. \A j \in DOMAIN ordered' : \A k \in DOMAIN ordered'[j].fields :
          \A i \in Dependencies(ordered'[j].fields[k]) : \E h \in 1..(j - 1) : ordered'[h] = unique[i]
    BY ONLY <1>14, <2>4
  <2> QED BY <1>13, <2>5, <2>6 DEF OrderedOK
<1> QED BY <1>6, <1>7, <1>11, <1>16

\* The loop over the fields goes on: the running call is behind the field it looked at.
LEMMA CallingFacts ==
  ASSUME unique \in Seq(Definitions), StackOK(state, stack), stack # <<>>,
         Last(stack).next <= Len(unique[Last(stack).index].fields)
  PROVE  /\ StackShape(state, Callers) /\ Callers # <<>>
         /\ Last(Callers) = [index |-> Last(stack).index, next |-> Last(stack).next + 1]
         /\ Last(Callers) \in VisitCalls
         /\ Settled(state, Last(Callers), Last(Callers).next - 2)
         /\ Last(stack) \in VisitCalls
<1> DEFINE n == Len(stack)
           c == Last(stack)
           d == [index |-> c.index, next |-> c.next + 1]
<1>1. /\ StackShape(state, stack) /\ Settled(state, c, c.next - 1)
  BY DEF StackOK
<1>2. /\ stack \in Seq(VisitCalls) /\ DOMAIN stack = 1..n
      /\ \A p, q \in 1..n : stack[p].index = stack[q].index => p = q
      /\ \A i \in DOMAIN unique : state[i] = 1 <=> \E p \in 1..n : stack[p].index = i
      /\ \A p \in 1..(n - 1) : Waits(stack[p], stack[p + 1].index) /\ Settled(state, stack[p], stack[p].next - 2)
  BY <1>1, StackFacts
<1>3. /\ Front(stack) \in Seq(VisitCalls) /\ Len(Front(stack)) = n - 1 /\ n \in Nat /\ n > 0
      /\ \A p \in 1..(n - 1) : Front(stack)[p] = stack[p]
      /\ c = stack[n] /\ c \in VisitCalls
  BY <1>2, FrontFacts, Zenon
<1> HIDE DEF n
<1>4. d \in VisitCalls /\ c = [index |-> c.index, next |-> c.next] /\ c.next \in Nat
  <2>1. c \in [index : 1..Len(unique), next : Nat]
    BY <1>3 DEF VisitCalls
  <2>2. c.index \in 1..Len(unique) /\ c.next \in Nat /\ c = [index |-> c.index, next |-> c.next]
    BY <2>1
  <2>3. Len(unique[c.index].fields) \in Nat
    BY <1>3, CallTypes
  <2>4. c.next + 1 \in 1..(Len(unique[c.index].fields) + 1)
    BY <2>2, <2>3
  <2> QED BY <2>2, <2>4 DEF VisitCalls
<1>5. Callers = Append(Front(stack), d)
  <2>1. Advanced(c) = d
    BY <1>4 DEF Advanced
  <2> QED BY <2>1 DEF Callers, Top
<1> HIDE DEF d
<1>6. /\ Callers \in Seq(VisitCalls) /\ Len(Callers) = n - 1 + 1 /\ Callers # <<>>
      /\ \A p \in 1..(n - 1) : Callers[p] = Front(stack)[p]
      /\ Callers[n - 1 + 1] = d /\ Last(Callers) = d
  BY <1>3, <1>4, <1>5, AppendFacts
<1>7. /\ n - 1 + 1 = n /\ n \in 1..n /\ n - 1 \in Nat /\ \A p \in 1..n : p = n \/ p \in 1..(n - 1)
      /\ \A p \in 1..(n - 1) : p \in 1..n /\ p + 1 \in 1..n
  BY ONLY <1>3
<1>8. Len(Callers) = n /\ DOMAIN Callers = 1..n /\ Callers[n] = d /\ \A p \in 1..(n - 1) : Callers[p] = stack[p]
  <2>1. Len(Callers) = n /\ Callers[n] = d
    BY <1>6, <1>7
  <2> QED BY <1>3, <1>6, <2>1
<1>9. d.index = c.index /\ d.next = c.next + 1
  BY DEF d
<1>10. \A p \in 1..n : Callers[p].index = stack[p].index
  BY <1>3, <1>7, <1>8, <1>9
<1>11. StackShape(state, Callers)
  <2>1. \A p, q \in DOMAIN Callers : Callers[p].index = Callers[q].index => p = q
    BY <1>2, <1>8, <1>10
  <2>2. \A i \in DOMAIN unique : state[i] = 1 <=> \E p \in DOMAIN Callers : Callers[p].index = i
    BY <1>2, <1>8, <1>10
  <2>3. ASSUME NEW p \in 1..(n - 1)
        PROVE  Waits(Callers[p], Callers[p + 1].index) /\ Settled(state, Callers[p], Callers[p].next - 2)
    <3>1. p + 1 \in 1..n
      BY <1>7
    <3>2. Callers[p] = stack[p] /\ Callers[p + 1].index = stack[p + 1].index
      BY <1>8, <1>10, <3>1
    <3> QED BY <1>2, <3>2
  <2> QED BY <1>6, <1>8, <2>1, <2>2, <2>3 DEF StackShape
<1>12. Settled(state, d, d.next - 2)
  <2>1. d.next - 2 = c.next - 1
    BY <1>4, <1>9
  <2>2. \A k : FieldAt(d, k) = FieldAt(c, k)
    BY <1>9 DEF FieldAt
  <2> QED BY <1>1, <2>1, <2>2 DEF Settled
<1> QED BY <1>3, <1>4, <1>6, <1>11, <1>12 DEF d
-----------------------------------------------------------------------------
\* What the invariants say only depends on these variables.
LEMMA Framed ==
  ASSUME result' = result, unique' = unique
  PROVE  /\ Given' = Given /\ HoldsItself' = HoldsItself /\ FieldsOK' = FieldsOK
         /\ Conflicting' = Conflicting /\ Clashing' = Clashing /\ Unresolved' = Unresolved
<1>1. Given' = Given
  BY DEF Given
<1>2. HoldsItself' = HoldsItself
  BY <1>1 DEF HoldsItself
<1>3. FieldsOK' = FieldsOK
  BY DEF FieldsOK, Faulty, RepeatsName, Resolved, Positions
<1>4. Conflicting' = Conflicting /\ Clashing' = Clashing /\ Unresolved' = Unresolved
  BY <1>1 DEF Conflicting, Clashing, Unresolved
<1> QED BY <1>1, <1>2, <1>3, <1>4

LEMMA FramedSearch ==
  ASSUME unique' = unique
  PROVE  /\ StackOK(state, stack)' <=> StackOK(state', stack')
         /\ OrderedOK(state, ordered)' <=> OrderedOK(state', ordered')
<1>1. VisitCalls' = VisitCalls
  BY DEF VisitCalls
<1>2. \A f : Dependencies(f)' = Dependencies(f)
  BY DEF Dependencies, Positions
<1>3. StackOK(state, stack)' <=> StackOK(state', stack')
  BY <1>1, <1>2 DEF StackOK, StackShape, Settled, Waits, FieldAt, Dependencies, Positions
<1>4. OrderedOK(state, ordered)' <=> OrderedOK(state', ordered')
  BY <1>1, <1>2 DEF OrderedOK, Dependencies, Positions
<1> QED BY <1>3, <1>4

LEMMA FramedOrder ==
  ASSUME unique' = unique, UNCHANGED search
  PROVE  SearchOK => SearchOK'
<1>1. state' = state /\ stack' = stack /\ outer' = outer /\ ordered' = ordered
  BY DEF search
<1>2. StackOK(state', stack') <=> StackOK(state, stack)
  BY <1>1
<1>3. OrderedOK(state', ordered') <=> OrderedOK(state, ordered)
  BY <1>1
<1>4. (StackOK(state, stack)' <=> StackOK(state, stack)) /\ (OrderedOK(state, ordered)' <=> OrderedOK(state, ordered))
  BY <1>2, <1>3, FramedSearch
<1> QED BY <1>1, <1>4 DEF SearchOK

\* A step that changes nothing but the phase, and the files, after the definitions were read.
LEMMA PhaseKeeps ==
  ASSUME CompilerInv, UNCHANGED <<result, unique, search>>, phase' \in Phases,
         phase' = "unique" => Sorted(result),
         phase' \in Unified => phase \in Unified,
         phase' \in Searched \cup {"cycle"} => phase \in Searched \cup {"cycle"},
         phase' \in Searched => phase \in Searched,
         phase' \in {"read", "unique", "check"} => phase \in {"read", "unique", "check"},
         phase' \in {"header", "registry", "write", "done"} => stack = <<>> /\ outer > Len(unique),
         FilesInv',
         phase' = "conflict" => Conflicting, phase' = "names" => Clashing,
         phase' = "unresolved" => Unresolved, phase' = "cycle" => HoldsItself
  PROVE  CompilerInv'
<1>1. result' = result /\ unique' = unique /\ UNCHANGED search
      /\ stack' = stack /\ outer' = outer /\ ordered' = ordered
  BY DEF search
<1>2. /\ Given' = Given /\ HoldsItself' = HoldsItself /\ FieldsOK' = FieldsOK
      /\ Conflicting' = Conflicting /\ Clashing' = Clashing /\ Unresolved' = Unresolved
  BY <1>1, Framed
<1>3. SearchOK => SearchOK'
  BY <1>1, FramedOrder
<1>4. CompilerTypes'
  BY <1>1 DEF CompilerInv, CompilerTypes
<1>5. UniqueInv'
  BY <1>1, <1>2 DEF CompilerInv, UniqueInv
<1>6. CheckedInv'
  BY <1>2 DEF CompilerInv, CheckedInv
<1>7. SearchInv'
  BY <1>1, <1>3 DEF CompilerInv, SearchInv
<1>8. RefusedInv'
  BY <1>2 DEF RefusedInv
<1> QED BY <1>4, <1>5, <1>6, <1>7, <1>8 DEF CompilerInv

LEMMA ReadFileKeeps ==
  ASSUME CompilerInv, NEW d \in Definitions, ReadFile(d)
  PROVE  CompilerInv'
<1>1. /\ phase = "read" /\ phase' = "read" /\ result' = Append(result, d) /\ unique' = unique
      /\ stack' = stack /\ outer' = outer /\ ordered' = ordered /\ header' = header /\ registry' = registry
  BY DEF ReadFile, search, files
<1>2. CompilerTypes'
  BY <1>1 DEF CompilerInv, CompilerTypes
<1>3. UniqueInv' /\ CheckedInv' /\ SearchInv' /\ RefusedInv'
  BY <1>1 DEF UniqueInv, CheckedInv, SearchInv, RefusedInv, Unified, Searched
<1>4. FilesInv'
  BY <1>1 DEF CompilerInv, FilesInv
<1> QED BY <1>2, <1>3, <1>4 DEF CompilerInv

LEMMA FileRefusedKeeps ==
  ASSUME CompilerInv, FileRefused
  PROVE  CompilerInv'
<1>1. phase = "read" /\ phase' = "file" /\ UNCHANGED <<result, unique, search>> /\ UNCHANGED files
  BY DEF FileRefused, Refuse
<1>2. FilesInv'
  BY <1>1 DEF CompilerInv, FilesInv, files
<1> QED BY <1>1, <1>2, PhaseKeeps DEF Phases, Unified, Searched

\* Sorting keeps the definitions.
LEMMA SortedGiven ==
  ASSUME result \in Seq(Definitions), NEW p \in [DOMAIN result -> DOMAIN result], IsInjective(p),
         NEW s, s = [i \in DOMAIN result |-> result[p[i]]]
  PROVE  s \in Seq(Definitions) /\ ToSet(s) = ToSet(result)
<1> DEFINE n == Len(result)
<1>1. n \in Nat /\ DOMAIN result = 1..n /\ \A i \in 1..n : result[i] \in Definitions
  OBVIOUS
<1>2. DOMAIN s = 1..n /\ \A i \in 1..n : p[i] \in 1..n /\ s[i] = result[p[i]]
  BY <1>1
<1>3. s \in Seq(Definitions)
  <2>1. s \in [1..n -> Definitions]
    <3> HIDE DEF n
    <3> QED BY <1>1, <1>2
  <2> QED BY <1>1, <2>1
<1>4. ASSUME NEW k \in 1..n PROVE \E i \in 1..n : p[i] = k
  <2> DEFINE S == 1..n
  <2>1. IsFiniteSet(S)
    BY <1>1, FS_Interval
  <2>2. p \in Injection(S, S)
    <3>1. p \in [S -> S] /\ \A i, j \in S : p[i] = p[j] => i = j
      BY <1>1 DEF IsInjective
    <3> QED BY <3>1 DEF Injection
  <2> HIDE DEF S
  <2>3. p \in Surjection(S, S)
    BY <2>1, <2>2, FS_Injection
  <2> QED BY <2>3 DEF Surjection, S
<1>5. ToSet(s) = ToSet(result)
  BY <1>1, <1>2, <1>4 DEF ToSet
<1> QED BY <1>3, <1>5

LEMMA SortKeeps ==
  ASSUME CompilerInv, Sort
  PROVE  CompilerInv'
<1>1. /\ phase = "read" /\ phase' = "unique" /\ unique' = unique
      /\ stack' = stack /\ outer' = outer /\ ordered' = ordered /\ header' = header /\ registry' = registry
      /\ Sorted(result')
  BY DEF Sort, search, files
<1>2. PICK p \in [DOMAIN result -> DOMAIN result] :
        IsInjective(p) /\ result' = [i \in DOMAIN result |-> result[p[i]]]
  BY DEF Sort
<1>3. result' \in Seq(Definitions)
  BY <1>2, SortedGiven DEF CompilerInv, CompilerTypes
<1>4. CompilerTypes'
  BY <1>1, <1>3 DEF CompilerInv, CompilerTypes, Phases
<1>5. UniqueInv'
  BY <1>1 DEF UniqueInv, Unified, Searched
<1>6. CheckedInv' /\ SearchInv' /\ RefusedInv'
  BY <1>1 DEF CheckedInv, SearchInv, RefusedInv, Searched
<1>7. FilesInv'
  BY <1>1 DEF CompilerInv, FilesInv
<1> QED BY <1>4, <1>5, <1>6, <1>7 DEF CompilerInv

LEMMA UnifyKeeps ==
  ASSUME CompilerInv, Unify
  PROVE  CompilerInv'
<1>1. phase = "unique" /\ result \in Seq(Definitions) /\ Sorted(result)
  BY DEF Unify, CompilerInv, CompilerTypes, UniqueInv
<1> DEFINE n == Len(result)
           kept == KeptOf(result)
<1>2. n \in Nat /\ DOMAIN result = 1..n
  BY <1>1
<1>3. CASE Conflict
  <2>1. phase' = "conflict" /\ UNCHANGED <<result, unique, search>> /\ UNCHANGED files
    BY <1>3 DEF Unify, Refuse
  <2>2. FilesInv'
    BY <1>1, <2>1 DEF CompilerInv, FilesInv, files
  <2>3. PICK i \in 1..n : Repeats(kept[i - 1], result[i]) /\ ~Same(Last(kept[i - 1]), result[i])
    BY <1>2, <1>3 DEF Conflict
  <2> HIDE DEF kept, n
  <2>4. i - 1 \in 0..n
    BY <1>2
  <2>5. kept[i - 1] \in Seq(Definitions) /\ ToSet(kept[i - 1]) \subseteq Given
    BY <1>1, <2>4, KeptAscends DEF kept, n, Given
  <2>6. kept[i - 1] # <<>> /\ Last(kept[i - 1]).type = result[i].type
    BY <2>3 DEF Repeats
  <2>7. Last(kept[i - 1]) \in ToSet(kept[i - 1])
    <3> DEFINE x == kept[i - 1]
    <3> HIDE DEF x
    <3>1. x \in Seq(Definitions) /\ x # <<>>
      BY <2>5, <2>6 DEF x
    <3>2. Last(x) = x[Len(x)] /\ Len(x) \in Nat /\ Len(x) > 0
      BY <3>1, FrontFacts
    <3>3. Len(x) \in DOMAIN x
      BY <3>1, <3>2
    <3>4. Last(x) \in ToSet(x)
      BY <3>2, <3>3 DEF ToSet
    <3> QED BY <3>4 DEF x
  <2>8. result[i] \in Given
    BY <1>2 DEF Given, ToSet
  <2>9. Conflicting
    <3>1. Last(kept[i - 1]) # result[i]
      BY <2>3, <2>6 DEF Same
    <3> QED BY <2>5, <2>6, <2>7, <2>8, <3>1 DEF Conflicting
  <2> QED BY <2>1, <2>2, <2>9, PhaseKeeps DEF Phases, Unified, Searched
<1>4. CASE ~Conflict
  <2>1. /\ unique' = kept[n] /\ phase' = "check" /\ result' = result
        /\ stack' = stack /\ outer' = outer /\ ordered' = ordered /\ header' = header /\ registry' = registry
    BY <1>4 DEF Unify, search, files
  <2>2. kept[n] \in Seq(Definitions) /\ Strict(kept[n]) /\ ToSet(kept[n]) \subseteq Given
    <3>1. n \in 0..n
      BY <1>2
    <3> QED BY <1>1, <3>1, KeptAscends DEF Given
  <2>3. \A j \in 1..n : result[j] \in ToSet(kept[n])
    <3>1. n \in 0..n
      BY <1>2
    <3> QED BY <1>1, <1>4, <3>1, KeptCovers
  <2>4. ToSet(kept[n]) = Given
    BY <1>2, <2>2, <2>3 DEF Given, ToSet
  <2> HIDE DEF kept, n
  <2>5. CompilerTypes'
    BY <1>1, <2>1, <2>2 DEF CompilerInv, CompilerTypes, Phases, Unified
  <2>6. UniqueInv'
    BY <2>1, <2>2, <2>4 DEF UniqueInv, Given
  <2>7. CheckedInv' /\ SearchInv' /\ RefusedInv'
    BY <2>1 DEF CheckedInv, SearchInv, RefusedInv, Searched
  <2>8. FilesInv'
    BY <1>1, <2>1 DEF CompilerInv, FilesInv
  <2> QED BY <2>5, <2>6, <2>7, <2>8 DEF CompilerInv
<1> QED BY <1>3, <1>4

\* The elements of unique are the definitions that were given.
LEMMA UniqueGiven ==
  ASSUME CompilerTypes, ToSet(unique) = Given
  PROVE  /\ unique \in Seq(Definitions) /\ Len(unique) \in Nat /\ DOMAIN unique = 1..Len(unique)
         /\ \A i \in DOMAIN unique : unique[i] \in Given /\ unique[i] \in Definitions
         /\ \A d \in Given : d \in Definitions /\ \E i \in DOMAIN unique : unique[i] = d
<1>1. unique \in Seq(Definitions)
  BY DEF CompilerTypes
<1>2. Len(unique) \in Nat /\ DOMAIN unique = 1..Len(unique) /\ \A i \in DOMAIN unique : unique[i] \in Definitions
  BY <1>1
<1>3. \A i \in DOMAIN unique : unique[i] \in Given
  BY DEF ToSet
<1>4. \A d \in Given : \E i \in DOMAIN unique : unique[i] = d
  BY DEF ToSet
<1> QED BY <1>1, <1>2, <1>3, <1>4

\* Two fields have one name exactly if a field has the name of one before it.
LEMMA ClashesAreRepeated ==
  ASSUME NEW d \in Definitions
  PROVE  NamesClash(d) <=> \E k \in DOMAIN d.fields : RepeatsName(d, k)
<1>1. Len(d.fields) \in Nat /\ DOMAIN d.fields = 1..Len(d.fields)
  BY DefinitionsAssumption
<1>2. ASSUME NamesClash(d) PROVE \E k \in DOMAIN d.fields : RepeatsName(d, k)
  <2>1. PICK i \in DOMAIN d.fields, j \in DOMAIN d.fields :
          i # j /\ Sanitized[d.fields[i].name] = Sanitized[d.fields[j].name]
    BY <1>2 DEF NamesClash
  <2>2. CASE i < j
    <3>1. i \in 1..(j - 1)
      BY <1>1, <2>2
    <3> QED BY <2>1, <3>1 DEF RepeatsName
  <2>3. CASE j < i
    <3>1. j \in 1..(i - 1)
      BY <1>1, <2>3
    <3> QED BY <2>1, <3>1 DEF RepeatsName
  <2>4. i < j \/ j < i
    BY <1>1, <2>1
  <2> QED BY <2>2, <2>3, <2>4
<1>3. ASSUME NEW k \in DOMAIN d.fields, RepeatsName(d, k) PROVE NamesClash(d)
  <2>1. PICK j \in 1..(k - 1) : Sanitized[d.fields[j].name] = Sanitized[d.fields[k].name]
    BY <1>3 DEF RepeatsName
  <2>2. j \in DOMAIN d.fields /\ j # k
    BY <1>1
  <2> QED BY <2>1, <2>2 DEF NamesClash
<1> QED BY <1>2, <1>3

LEMMA FieldRefusedKeeps ==
  ASSUME CompilerInv, FieldRefused
  PROVE  CompilerInv'
<1>1. phase = "check" /\ CompilerTypes /\ Strict(unique) /\ ToSet(unique) = Given
  BY DEF FieldRefused, CompilerInv, UniqueInv, Unified
<1>2. \A i \in DOMAIN unique : unique[i] \in Given /\ unique[i] \in Definitions
  BY <1>1, UniqueGiven
<1>3. PICK i \in DOMAIN unique : \E k \in DOMAIN unique[i].fields :
        FirstFault(i, k) /\ Refuse(IF RepeatsName(unique[i], k) THEN "names" ELSE "unresolved")
  BY DEF FieldRefused
<1>4. PICK k \in DOMAIN unique[i].fields :
        FirstFault(i, k) /\ Refuse(IF RepeatsName(unique[i], k) THEN "names" ELSE "unresolved")
  BY <1>3
<1>5. UNCHANGED <<result, unique, search>> /\ UNCHANGED files
  BY <1>4 DEF Refuse
<1>6. CASE RepeatsName(unique[i], k)
  <2>1. phase' = "names"
    BY <1>4, <1>6 DEF Refuse
  <2>2. FilesInv'
    BY <1>1, <1>5, <2>1 DEF CompilerInv, FilesInv, files
  <2>3. NamesClash(unique[i])
    BY <1>2, <1>6, ClashesAreRepeated
  <2>4. Clashing
    BY <1>2, <2>3 DEF Clashing
  <2> QED BY <1>1, <1>5, <2>1, <2>2, <2>4, PhaseKeeps DEF Phases, Unified, Searched
<1>7. CASE ~RepeatsName(unique[i], k)
  <2>1. phase' = "unresolved"
    BY <1>4, <1>7 DEF Refuse
  <2>2. FilesInv'
    BY <1>1, <1>5, <2>1 DEF CompilerInv, FilesInv, files
  <2>3. ~Resolved(unique[i].fields[k].of)
    BY <1>4, <1>7 DEF FirstFault, Faulty
  <2>4. \A d \in Given : \E j \in DOMAIN unique : unique[j] = d
    BY <1>1, UniqueGiven
  <2>5. /\ unique[i].fields[k].of # Primitive /\ unique[i].fields[k].of \notin Builtin
        /\ \A e \in Given : e.type # unique[i].fields[k].of
    BY <2>3, <2>4 DEF Resolved, Positions
  <2>6. Unresolved
    BY <1>2, <2>5 DEF Unresolved
  <2> QED BY <1>1, <1>5, <2>1, <2>2, <2>6, PhaseKeeps DEF Phases, Unified, Searched
<1> QED BY <1>6, <1>7

LEMMA CheckFieldsKeeps ==
  ASSUME CompilerInv, CheckFields
  PROVE  CompilerInv'
<1>1. phase = "check" /\ CompilerTypes /\ Strict(unique) /\ ToSet(unique) = Given
  BY DEF CheckFields, CompilerInv, UniqueInv, Unified
<1>2. unique \in Seq(Definitions) /\ Len(unique) \in Nat /\ DOMAIN unique = 1..Len(unique)
  BY <1>1, UniqueGiven
<1>3. stack = <<>> /\ outer = 1 /\ ordered = <<>>
  BY <1>1 DEF CompilerTypes
<1>4. /\ state' = [i \in DOMAIN unique |-> 0] /\ phase' = "order" /\ result' = result /\ unique' = unique
      /\ stack' = stack /\ outer' = outer /\ ordered' = ordered /\ header' = header /\ registry' = registry
  BY DEF CheckFields, files
<1>5. CompilerTypes'
  BY <1>1, <1>4 DEF CompilerTypes, Phases, Unified, Searched
<1>6. Given' = Given /\ FieldsOK' = FieldsOK
  BY <1>4, Framed
<1>7. UniqueInv'
  BY <1>1, <1>4, <1>6 DEF UniqueInv
<1>8. FieldsOK
  BY DEF CheckFields, FieldsOK
<1>9. CheckedInv' /\ RefusedInv'
  BY <1>4, <1>6, <1>8 DEF CheckedInv, RefusedInv
<1>10. FilesInv'
  BY <1>1, <1>4 DEF CompilerInv, FilesInv
<1>11. StackOK(state', stack')
  <2>1. /\ stack' = <<>> /\ <<>> \in Seq(VisitCalls) /\ Len(<<>>) = 0 /\ DOMAIN <<>> = {}
    BY <1>3, <1>4
  <2>2. \A i \in DOMAIN unique : state'[i] # 1
    BY <1>4
  <2>3. 1..(0 - 1) = {}
    OBVIOUS
  <2>4. StackShape(state', <<>>)
    BY <2>1, <2>2, <2>3 DEF StackShape
  <2> QED BY <2>1, <2>4 DEF StackOK
<1>12. OrderedOK(state', ordered')
  <2>1. /\ ordered' = <<>> /\ <<>> \in Seq(Definitions) /\ DOMAIN <<>> = {}
    BY <1>3, <1>4
  <2>2. \A i \in DOMAIN unique : state'[i] # 2
    BY <1>4
  <2> QED BY <2>1, <2>2 DEF OrderedOK
<1>13. state' \in [1..Len(unique) -> 0..2] /\ outer' \in 1..(Len(unique) + 1) /\ 1..(outer' - 1) = {}
  BY <1>2, <1>3, <1>4
<1>14. SearchOK'
  BY <1>4, <1>11, <1>12, <1>13, FramedSearch DEF SearchOK
<1>15. SearchInv'
  BY <1>4, <1>14 DEF SearchInv
<1> QED BY <1>5, <1>7, <1>9, <1>10, <1>15 DEF CompilerInv

\* What holds while the definitions are put in order.
LEMMA Ordering ==
  ASSUME CompilerInv, phase = "order"
  PROVE  /\ CompilerTypes /\ Strict(unique) /\ ToSet(unique) = Given /\ FieldsOK
         /\ unique \in Seq(Definitions) /\ Len(unique) \in Nat /\ DOMAIN unique = 1..Len(unique)
         /\ state \in [1..Len(unique) -> 0..2] /\ StackOK(state, stack) /\ OrderedOK(state, ordered)
         /\ outer \in 1..(Len(unique) + 1) /\ \A i \in 1..(outer - 1) : state[i] # 0
         /\ header = "old" /\ registry = "old"
<1>1. CompilerTypes /\ Strict(unique) /\ ToSet(unique) = Given
  BY DEF CompilerInv, UniqueInv, Unified, Searched
<1>2. FieldsOK /\ SearchOK
  BY DEF CompilerInv, CheckedInv, SearchInv, Searched
<1>3. header = "old" /\ registry = "old"
  BY DEF CompilerInv, FilesInv
<1> QED BY <1>1, <1>2, <1>3, UniqueGiven DEF SearchOK

\* A step of the search goes on, or finds a cycle.
LEMMA SearchKeeps ==
  ASSUME CompilerInv, phase = "order", UNCHANGED <<result, unique, files>>,
         phase' \in {"order", "cycle"}, phase' = "cycle" => HoldsItself,
         phase' = "order" =>
           /\ state' \in [1..Len(unique) -> 0..2] /\ StackOK(state', stack') /\ OrderedOK(state', ordered')
           /\ outer' \in 1..(Len(unique) + 1) /\ \A i \in 1..(outer' - 1) : state'[i] # 0
  PROVE  CompilerInv'
<1>1. result' = result /\ unique' = unique /\ header' = header /\ registry' = registry
  BY DEF files
<1>2. CompilerTypes /\ Strict(unique) /\ ToSet(unique) = Given /\ FieldsOK /\ header = "old" /\ registry = "old"
  BY Ordering
<1>3. Given' = Given /\ HoldsItself' = HoldsItself /\ FieldsOK' = FieldsOK
  BY <1>1, Framed
<1>4. CompilerTypes'
  BY <1>1, <1>2 DEF CompilerTypes, Phases, Unified, Searched
<1>5. UniqueInv' /\ CheckedInv' /\ RefusedInv' /\ FilesInv'
  BY <1>1, <1>2, <1>3 DEF UniqueInv, CheckedInv, RefusedInv, FilesInv
<1>6. phase' = "order" => SearchOK'
  BY <1>1, FramedSearch DEF SearchOK
<1>7. SearchInv'
  BY <1>6 DEF SearchInv, Searched
<1> QED BY <1>4, <1>5, <1>7 DEF CompilerInv

LEMMA VisitNextKeeps ==
  ASSUME CompilerInv, VisitNext
  PROVE  CompilerInv'
<1>1. /\ phase = "order" /\ stack = <<>> /\ outer <= Len(unique) /\ outer' = outer + 1
      /\ Visit(outer, <<>>) /\ UNCHANGED <<result, unique, files>>
  BY DEF VisitNext
<1>2. /\ CompilerTypes /\ Strict(unique) /\ ToSet(unique) = Given
      /\ unique \in Seq(Definitions) /\ Len(unique) \in Nat /\ DOMAIN unique = 1..Len(unique)
      /\ state \in [1..Len(unique) -> 0..2] /\ StackOK(state, stack) /\ OrderedOK(state, ordered)
      /\ outer \in 1..(Len(unique) + 1) /\ \A i \in 1..(outer - 1) : state[i] # 0
  BY <1>1, Ordering
<1>3. outer \in DOMAIN unique /\ outer' \in 1..(Len(unique) + 1) /\ outer \in Nat
      /\ \A i \in 1..(outer' - 1) : i \in DOMAIN unique /\ (i = outer \/ i \in 1..(outer - 1))
  BY <1>1, <1>2
<1>4. Asked(state, <<>>, outer)
  BY <1>1, <1>2 DEF StackOK, Asked
<1>5. /\ phase' \in {"order", "cycle"} /\ ordered' = ordered
      /\ phase' = "cycle" => HoldsItself
      /\ phase' = "order" =>
           /\ state' \in [1..Len(unique) -> 0..2] /\ StackOK(state', stack') /\ OrderedOK(state', ordered)
           /\ state'[outer] # 0 /\ \A j \in DOMAIN unique : state[j] # 0 => state'[j] # 0
  BY <1>1, <1>2, <1>3, <1>4, CallKeeps
<1>6. phase' = "order" => \A i \in 1..(outer' - 1) : state'[i] # 0
  BY <1>2, <1>3, <1>5
<1>7. phase' = "order" => OrderedOK(state', ordered')
  BY <1>5
<1> QED BY <1>1, <1>3, <1>5, <1>6, <1>7, SearchKeeps

LEMMA VisitFieldKeeps ==
  ASSUME CompilerInv, VisitField
  PROVE  CompilerInv'
<1> DEFINE c == Last(stack)
           f == unique[c.index].fields[c.next]
<1>1. /\ phase = "order" /\ stack # <<>> /\ c.next <= Len(unique[c.index].fields)
      /\ outer' = outer /\ UNCHANGED <<result, unique, files>>
      /\ Dependencies(f) = {} => stack' = Callers /\ UNCHANGED <<state, ordered, phase>>
      /\ Dependencies(f) # {} => \E i \in Dependencies(f) : Visit(i, Callers)
  BY DEF VisitField, Top, FieldsOfCall
<1>2. /\ CompilerTypes /\ Strict(unique) /\ ToSet(unique) = Given
      /\ unique \in Seq(Definitions) /\ Len(unique) \in Nat /\ DOMAIN unique = 1..Len(unique)
      /\ state \in [1..Len(unique) -> 0..2] /\ StackOK(state, stack) /\ OrderedOK(state, ordered)
      /\ outer \in 1..(Len(unique) + 1) /\ \A i \in 1..(outer - 1) : state[i] # 0
  BY <1>1, Ordering
<1> DEFINE e == Last(Callers)
<1>3. /\ StackShape(state, Callers) /\ Callers # <<>> /\ e = [index |-> c.index, next |-> c.next + 1]
      /\ e \in VisitCalls /\ Settled(state, e, e.next - 2) /\ c \in VisitCalls
  BY <1>1, <1>2, CallingFacts
<1>4. c.next \in Nat /\ c.next >= 1 /\ e.next = c.next + 1 /\ e.index = c.index
  BY <1>2, <1>3, CallTypes
<1>5. e.next \in Nat /\ e.next > 1 /\ e.next - 1 = c.next /\ e.next - 2 = c.next - 1
  <2> HIDE DEF c, e
  <2> QED BY <1>4
<1>6. FieldAt(e, e.next - 1) = f
  BY <1>4, <1>5 DEF FieldAt
<1> HIDE DEF c, e, f
<1>7. CASE Dependencies(f) = {}
  <2>1. stack' = Callers /\ state' = state /\ ordered' = ordered /\ phase' = phase
    BY <1>1, <1>7
  <2>2. Settled(state, e, e.next - 1)
    <3> SUFFICES ASSUME NEW k \in 1..(e.next - 1), NEW j \in Dependencies(FieldAt(e, k)) PROVE state[j] = 2
      BY DEF Settled
    <3>1. k = e.next - 1 \/ k \in 1..(e.next - 2)
      BY <1>5
    <3>2. k # e.next - 1
      BY <1>6, <1>7
    <3> QED BY <1>3, <3>1, <3>2 DEF Settled
  <2>3. StackOK(state, Callers)
    BY <1>3, <2>2 DEF StackOK, e
  <2>4. StackOK(state', stack') /\ OrderedOK(state', ordered')
    BY <1>2, <2>1, <2>3
  <2> QED BY <1>1, <1>2, <2>1, <2>4, SearchKeeps
<1>8. CASE Dependencies(f) # {}
  <2>1. PICK i \in Dependencies(f) : Visit(i, Callers)
    BY <1>1, <1>8
  <2>2. ByValue(f) /\ i \in DOMAIN unique /\ unique[i].type = f.of
    BY <2>1 DEF Dependencies, Positions
  <2>3. Waits(e, i)
    BY <1>5, <1>6, <2>2 DEF Waits
  <2>4. Asked(state, Callers, i)
    BY <1>3, <2>3 DEF Asked, e
  <2>5. /\ phase' \in {"order", "cycle"} /\ ordered' = ordered
        /\ phase' = "cycle" => HoldsItself
        /\ phase' = "order" =>
             /\ state' \in [1..Len(unique) -> 0..2] /\ StackOK(state', stack') /\ OrderedOK(state', ordered)
             /\ \A j \in DOMAIN unique : state[j] # 0 => state'[j] # 0
    BY <1>1, <1>2, <2>1, <2>2, <2>4, CallKeeps
  <2>6. phase' = "order" => \A j \in 1..(outer' - 1) : state'[j] # 0
    <3>1. \A j \in 1..(outer - 1) : j \in DOMAIN unique
      BY <1>2
    <3> QED BY <1>1, <1>2, <2>5, <3>1
  <2>7. phase' = "order" => OrderedOK(state', ordered')
    BY <2>5
  <2> QED BY <1>1, <1>2, <2>5, <2>6, <2>7, SearchKeeps
<1> QED BY <1>7, <1>8

LEMMA ReturnStepKeeps ==
  ASSUME CompilerInv, Return
  PROVE  CompilerInv'
<1>1. phase = "order" /\ phase' = "order" /\ outer' = outer /\ UNCHANGED <<result, unique, files>>
  BY DEF Return
<1>2. /\ Strict(unique)
      /\ unique \in Seq(Definitions) /\ Len(unique) \in Nat /\ DOMAIN unique = 1..Len(unique)
      /\ state \in [1..Len(unique) -> 0..2] /\ StackOK(state, stack) /\ OrderedOK(state, ordered)
      /\ outer \in 1..(Len(unique) + 1) /\ \A i \in 1..(outer - 1) : state[i] # 0
  BY <1>1, Ordering
<1>3. /\ state' \in [1..Len(unique) -> 0..2] /\ \A j \in DOMAIN unique : state[j] # 0 => state'[j] # 0
      /\ StackOK(state', stack') /\ OrderedOK(state', ordered')
  BY <1>2, ReturnKeeps
<1>4. \A j \in 1..(outer' - 1) : state'[j] # 0
  <2>1. \A j \in 1..(outer - 1) : j \in DOMAIN unique
    BY <1>2
  <2> QED BY <1>1, <1>2, <1>3, <2>1
<1> QED BY <1>1, <1>2, <1>3, <1>4, SearchKeeps

LEMMA CollectedKeeps ==
  ASSUME CompilerInv, Collected
  PROVE  CompilerInv'
<1>1. /\ phase = "order" /\ stack = <<>> /\ outer > Len(unique) /\ phase' \in {"none", "header"}
      /\ UNCHANGED <<result, unique, search>> /\ UNCHANGED files
  BY DEF Collected, Refuse
<1>2. FilesInv'
  BY <1>1 DEF CompilerInv, FilesInv, files
<1> QED BY <1>1, <1>2, PhaseKeeps DEF Phases, Unified, Searched

LEMMA WriteHeaderKeeps ==
  ASSUME CompilerInv, NEW outcome \in {"old", "part", "new"}, WriteHeader(outcome)
  PROVE  CompilerInv'
<1>1. /\ phase = "header" /\ header' = outcome /\ registry' = registry
      /\ phase' = IF outcome = "new" THEN "registry" ELSE "write"
      /\ UNCHANGED <<result, unique, search>>
  BY DEF WriteHeader, Written
<1>2. FilesInv'
  BY <1>1 DEF CompilerInv, FilesInv
<1>3. stack = <<>> /\ outer > Len(unique)
  BY <1>1 DEF CompilerInv, SearchInv
<1> QED BY <1>1, <1>2, <1>3, PhaseKeeps DEF Phases, Unified, Searched

LEMMA WriteRegistryKeeps ==
  ASSUME CompilerInv, NEW outcome \in {"old", "part", "new"}, WriteRegistry(outcome)
  PROVE  CompilerInv'
<1>1. /\ phase = "registry" /\ registry' = outcome /\ header' = header
      /\ phase' = IF outcome = "new" THEN "done" ELSE "write"
      /\ UNCHANGED <<result, unique, search>>
  BY DEF WriteRegistry, Written
<1>2. FilesInv'
  BY <1>1 DEF CompilerInv, FilesInv
<1>3. stack = <<>> /\ outer > Len(unique)
  BY <1>1 DEF CompilerInv, SearchInv
<1> QED BY <1>1, <1>2, <1>3, PhaseKeeps DEF Phases, Unified, Searched

LEMMA CompilerStutters ==
  ASSUME CompilerInv, UNCHANGED compilerVars
  PROVE  CompilerInv'
<1>1. phase' = phase /\ UNCHANGED <<result, unique, search>> /\ header' = header /\ registry' = registry
  BY DEF compilerVars, files
<1>2. CompilerTypes /\ phase \in Phases
  BY DEF CompilerInv, CompilerTypes
<1>3. FilesInv'
  BY <1>1 DEF CompilerInv, FilesInv
<1>4. /\ phase = "unique" => Sorted(result)
      /\ phase \in {"header", "registry", "write", "done"} => stack = <<>> /\ outer > Len(unique)
      /\ (phase = "conflict" => Conflicting) /\ (phase = "names" => Clashing)
      /\ (phase = "unresolved" => Unresolved) /\ (phase = "cycle" => HoldsItself)
  BY DEF CompilerInv, UniqueInv, SearchInv, RefusedInv
<1>5. /\ phase' \in Phases /\ (phase' = "unique" => Sorted(result))
      /\ phase' \in {"header", "registry", "write", "done"} => stack = <<>> /\ outer > Len(unique)
      /\ (phase' = "conflict" => Conflicting) /\ (phase' = "names" => Clashing)
      /\ (phase' = "unresolved" => Unresolved) /\ (phase' = "cycle" => HoldsItself)
  BY <1>1, <1>2, <1>4
<1>6. /\ phase' \in Unified => phase \in Unified
      /\ phase' \in Searched \cup {"cycle"} => phase \in Searched \cup {"cycle"}
      /\ phase' \in Searched => phase \in Searched
      /\ phase' \in {"read", "unique", "check"} => phase \in {"read", "unique", "check"}
  BY <1>1
<1> QED BY <1>1, <1>3, <1>5, <1>6, PhaseKeeps

LEMMA CompilerBegins ==
  ASSUME CompilerInit
  PROVE  CompilerInv
<1>1. /\ result = <<>> /\ unique = <<>> /\ phase = "read" /\ stack = <<>> /\ outer = 1 /\ ordered = <<>>
      /\ header = "old" /\ registry = "old" /\ <<>> \in Seq(Definitions)
  BY DEF CompilerInit
<1>2. CompilerTypes
  BY <1>1 DEF CompilerTypes, Phases
<1>3. UniqueInv /\ CheckedInv /\ SearchInv /\ FilesInv /\ RefusedInv
  BY <1>1 DEF UniqueInv, CheckedInv, SearchInv, FilesInv, RefusedInv, Unified, Searched
<1> QED BY <1>2, <1>3 DEF CompilerInv

\* The invariant of the compiler: what has been kept, checked and put in order so far.
THEOREM CompilerInvariance == CompilerSpec => []CompilerInv
<1>1. CompilerInit => CompilerInv
  BY CompilerBegins
<1>2. CompilerInv /\ [CompilerNext]_compilerVars => CompilerInv'
  <2> SUFFICES ASSUME CompilerInv, [CompilerNext]_compilerVars PROVE CompilerInv'
    OBVIOUS
  <2>1. CASE \E d \in Definitions : ReadFile(d)
    BY <2>1, ReadFileKeeps
  <2>2. CASE FileRefused
    BY <2>2, FileRefusedKeeps
  <2>3. CASE Sort
    BY <2>3, SortKeeps
  <2>4. CASE Unify
    BY <2>4, UnifyKeeps
  <2>5. CASE FieldRefused \/ CheckFields
    BY <2>5, FieldRefusedKeeps, CheckFieldsKeeps
  <2>6. CASE VisitNext
    BY <2>6, VisitNextKeeps
  <2>7. CASE VisitField
    BY <2>7, VisitFieldKeeps
  <2>8. CASE Return
    BY <2>8, ReturnStepKeeps
  <2>9. CASE Collected
    BY <2>9, CollectedKeeps
  <2>10. CASE \E outcome \in {"old", "part", "new"} : WriteHeader(outcome) \/ WriteRegistry(outcome)
    BY <2>10, WriteHeaderKeeps, WriteRegistryKeeps
  <2>11. CASE Stopped \/ UNCHANGED compilerVars
    <3>1. UNCHANGED compilerVars
      BY <2>11 DEF Stopped
    <3> QED BY <3>1, CompilerStutters
  <2> QED BY <2>1, <2>2, <2>3, <2>4, <2>5, <2>6, <2>7, <2>8, <2>9, <2>10, <2>11 DEF CompilerNext, Run
<1> QED BY <1>1, <1>2, PTL DEF CompilerSpec

-----------------------------------------------------------------------------
\* When a header may have been written all definitions are in order.
LEMMA AllOrdered ==
  ASSUME CompilerInv, phase \in {"registry", "write", "done"}
  PROVE  /\ Strict(unique) /\ FieldsOK /\ unique \in Seq(Definitions)
         /\ \A i \in DOMAIN unique : unique[i] \in Given /\ unique[i] \in Definitions
         /\ \A d \in Given : d \in Definitions /\ \E i \in DOMAIN unique : unique[i] = d
         /\ \A j \in DOMAIN ordered : \E i \in DOMAIN unique : ordered[j] = unique[i]
         /\ \A i \in DOMAIN unique : \E j \in DOMAIN ordered : ordered[j] = unique[i]
         /\ ordered \in Seq(Definitions) /\ OrderedOK(state, ordered)
<1>1. CompilerTypes /\ Strict(unique) /\ ToSet(unique) = Given
  BY DEF CompilerInv, UniqueInv, Unified, Searched
<1>2. FieldsOK /\ SearchOK /\ stack = <<>> /\ outer > Len(unique)
  BY DEF CompilerInv, CheckedInv, SearchInv, Searched
<1>3. /\ unique \in Seq(Definitions) /\ Len(unique) \in Nat /\ DOMAIN unique = 1..Len(unique)
      /\ \A i \in DOMAIN unique : unique[i] \in Given /\ unique[i] \in Definitions
      /\ \A d \in Given : d \in Definitions /\ \E i \in DOMAIN unique : unique[i] = d
  BY <1>1, UniqueGiven
<1>4. \A i \in DOMAIN unique : state[i] = 2
  <2>1. /\ state \in [1..Len(unique) -> 0..2] /\ StackOK(state, stack)
        /\ outer \in 1..(Len(unique) + 1) /\ \A i \in 1..(outer - 1) : state[i] # 0
    BY <1>2 DEF SearchOK
  <2>2. \A i \in DOMAIN unique : state[i] # 0 /\ state[i] \in 0..2
    BY <1>2, <1>3, <2>1
  <2>3. \A i \in DOMAIN unique : state[i] # 1
    <3>1. DOMAIN stack = {}
      BY <1>2
    <3> QED BY <2>1, <3>1 DEF StackOK, StackShape
  <2> QED BY <2>2, <2>3
<1>5. OrderedOK(state, ordered)
  BY <1>2 DEF SearchOK
<1>6. /\ ordered \in Seq(Definitions)
      /\ \A j \in DOMAIN ordered : \E i \in DOMAIN unique : ordered[j] = unique[i]
      /\ \A i \in DOMAIN unique : \E j \in DOMAIN ordered : ordered[j] = unique[i]
  BY <1>4, <1>5 DEF OrderedOK
<1> QED BY <1>1, <1>2, <1>3, <1>5, <1>6

\* What a definition holds by value comes before it.
LEMMA HeldBefore ==
  ASSUME CompilerInv, phase \in {"registry", "write", "done"},
         NEW j \in DOMAIN ordered, NEW k \in DOMAIN ordered[j].fields, Holds(ordered[j].fields[k]),
         NEW i \in DOMAIN unique, unique[i].type = ordered[j].fields[k].of
  PROVE  \E h \in 1..(j - 1) : ordered[h] = unique[i]
<1>1. OrderedOK(state, ordered)
  BY AllOrdered
<1>2. i \in Dependencies(ordered[j].fields[k])
  BY DEF Holds, Dependencies, Positions, ByValue
<1> QED BY <1>1, <1>2 DEF OrderedOK

LEMMA HeaderIsSound ==
  ASSUME CompilerInv
  PROVE  HeaderSound
<1> SUFFICES ASSUME header = "new"
             PROVE  /\ ToSet(ordered) = Given
                    /\ \A i, j \in DOMAIN ordered : i # j => ordered[i].type # ordered[j].type
                    /\ \A i \in DOMAIN ordered : \A k \in DOMAIN ordered[i].fields :
                         LET f == ordered[i].fields[k] IN
                         Holds(f) /\ IsGenerated(f.of) => \E j \in 1..(i - 1) : ordered[j].type = f.of
  BY DEF HeaderSound
<1>1. phase \in {"registry", "write", "done"}
  BY DEF CompilerInv, FilesInv
<1>2. /\ Strict(unique) /\ FieldsOK /\ unique \in Seq(Definitions)
      /\ \A i \in DOMAIN unique : unique[i] \in Given /\ unique[i] \in Definitions
      /\ \A d \in Given : d \in Definitions /\ \E i \in DOMAIN unique : unique[i] = d
      /\ \A j \in DOMAIN ordered : \E i \in DOMAIN unique : ordered[j] = unique[i]
      /\ \A i \in DOMAIN unique : \E j \in DOMAIN ordered : ordered[j] = unique[i]
      /\ ordered \in Seq(Definitions) /\ OrderedOK(state, ordered)
  BY <1>1, AllOrdered
<1>3. ToSet(ordered) = Given
  <2>1. \A d \in Given : d \in ToSet(ordered)
    <3> SUFFICES ASSUME NEW d \in Given PROVE d \in ToSet(ordered)
      OBVIOUS
    <3>1. PICK i \in DOMAIN unique : unique[i] = d
      BY <1>2
    <3>2. PICK j \in DOMAIN ordered : ordered[j] = unique[i]
      BY <1>2
    <3> QED BY <3>1, <3>2 DEF ToSet
  <2>2. \A d \in ToSet(ordered) : d \in Given
    BY <1>2 DEF ToSet
  <2> QED BY <2>1, <2>2
<1>4. ASSUME NEW i \in DOMAIN ordered, NEW j \in DOMAIN ordered, ordered[i].type = ordered[j].type PROVE i = j
  <2>1. PICK a \in DOMAIN unique : ordered[i] = unique[a]
    BY <1>2
  <2>2. PICK b \in DOMAIN unique : ordered[j] = unique[b]
    BY <1>2
  <2>3. a = b
    <3> DEFINE f == [of |-> ordered[i].type]
    <3>1. unique[a].type = f.of /\ unique[b].type = f.of
      BY <1>4, <2>1, <2>2
    <3> HIDE DEF f
    <3> QED BY <1>2, <3>1, OnePosition
  <2>4. ordered[i] = ordered[j]
    BY <2>1, <2>2, <2>3
  <2> QED BY <1>2, <2>4 DEF OrderedOK
<1>5. ASSUME NEW i \in DOMAIN ordered, NEW k \in DOMAIN ordered[i].fields,
             Holds(ordered[i].fields[k]), IsGenerated(ordered[i].fields[k].of)
      PROVE  \E j \in 1..(i - 1) : ordered[j].type = ordered[i].fields[k].of
  <2> DEFINE t == ordered[i].fields[k].of
  <2>1. PICK a \in DOMAIN unique : ordered[i] = unique[a]
    BY <1>2
  <2>2. Resolved(t)
    BY <1>2, <2>1 DEF FieldsOK, Faulty
  <2>3. t # Primitive /\ t \notin Builtin
    BY <1>5, DefinitionsAssumption DEF IsGenerated
  <2>4. PICK p \in DOMAIN unique : unique[p].type = t
    BY <2>2, <2>3 DEF Resolved, Positions
  <2>5. PICK h \in 1..(i - 1) : ordered[h] = unique[p]
    BY <1>1, <1>5, <2>4, HeldBefore
  <2> QED BY <2>4, <2>5
<1> QED BY <1>3, <1>4, <1>5

\* Types that hold themselves could not have been put in order.
LEMMA NoneHoldsItself ==
  ASSUME CompilerInv, phase \in {"registry", "write", "done"}
  PROVE  ~HoldsItself
<1> SUFFICES ASSUME NEW S \in SUBSET Given, S # {}, \A d \in S : \E e \in S : DependsOn(d, e.type) PROVE FALSE
  BY DEF HoldsItself
<1>1. /\ \A d \in Given : d \in Definitions /\ \E i \in DOMAIN unique : unique[i] = d
      /\ \A i \in DOMAIN unique : \E j \in DOMAIN ordered : ordered[j] = unique[i]
      /\ ordered \in Seq(Definitions)
  BY AllOrdered
<1> DEFINE P == {j \in DOMAIN ordered : ordered[j] \in S}
<1>2. P # {} /\ P \in SUBSET Nat
  <2>1. PICK d \in S : TRUE
    OBVIOUS
  <2>2. PICK i \in DOMAIN unique : unique[i] = d
    BY <1>1
  <2>3. PICK j \in DOMAIN ordered : ordered[j] = unique[i]
    BY <1>1
  <2>4. DOMAIN ordered \subseteq Nat
    BY <1>1
  <2> QED BY <2>2, <2>3, <2>4
<1>3. PICK j \in P : \A h \in P : j <= h
  <2> HIDE DEF P
  <2> QED BY <1>2, LeastNatural
<1>4. PICK e \in S : DependsOn(ordered[j], e.type)
  OBVIOUS
<1>5. PICK k \in DOMAIN ordered[j].fields : Holds(ordered[j].fields[k]) /\ ordered[j].fields[k].of = e.type
  BY <1>4 DEF DependsOn
<1>6. PICK i \in DOMAIN unique : unique[i] = e
  BY <1>1
<1>7. PICK h \in 1..(j - 1) : ordered[h] = unique[i]
  BY <1>5, <1>6, HeldBefore
<1>8. h \in P /\ h < j /\ h \in Nat /\ j \in Nat
  <2>1. Len(ordered) \in Nat /\ DOMAIN ordered = 1..Len(ordered)
    BY <1>1
  <2>2. h \in DOMAIN ordered
    BY <2>1
  <2> QED BY <1>6, <1>7, <2>1, <2>2
<1> QED BY <1>3, <1>8

LEMMA RefusalsAreExact ==
  ASSUME CompilerInv
  PROVE  RefusesExactly
<1>1. /\ phase = "conflict" => Conflicting
      /\ phase = "names" => Clashing
      /\ phase = "unresolved" => Unresolved
      /\ phase = "cycle" => HoldsItself
  BY DEF CompilerInv, RefusedInv
<1>2. ASSUME header # "old" PROVE ~(Conflicting \/ Unresolved \/ HoldsItself \/ Clashing)
  <2>1. phase \in {"registry", "write", "done"}
    BY <1>2 DEF CompilerInv, FilesInv
  <2>2. /\ Strict(unique) /\ FieldsOK /\ unique \in Seq(Definitions)
        /\ \A i \in DOMAIN unique : unique[i] \in Given
        /\ \A d \in Given : \E i \in DOMAIN unique : unique[i] = d
    BY <2>1, AllOrdered
  <2>3. ~Conflicting
    <3> SUFFICES ASSUME NEW d \in Given, NEW e \in Given, d.type = e.type PROVE d = e
      BY DEF Conflicting
    <3>1. PICK a \in DOMAIN unique : unique[a] = d
      BY <2>2
    <3>2. PICK b \in DOMAIN unique : unique[b] = e
      BY <2>2
    <3> DEFINE f == [of |-> d.type]
    <3>3. unique[a].type = f.of /\ unique[b].type = f.of
      BY <3>1, <3>2
    <3> HIDE DEF f
    <3>4. a = b
      BY <2>2, <3>3, OnePosition
    <3> QED BY <3>1, <3>2, <3>4
  <2>4. ~Unresolved
    <3> SUFFICES ASSUME NEW d \in Given, NEW k \in DOMAIN d.fields, d.fields[k].of # Primitive,
                        d.fields[k].of \notin Builtin, \A e \in Given : e.type # d.fields[k].of
                 PROVE  FALSE
      BY DEF Unresolved
    <3>1. PICK a \in DOMAIN unique : unique[a] = d
      BY <2>2
    <3>2. Resolved(d.fields[k].of)
      BY <2>2, <3>1 DEF FieldsOK, Faulty
    <3> QED BY <2>2, <3>2 DEF Resolved, Positions
  <2>5. ~Clashing
    <3> SUFFICES ASSUME NEW d \in Given PROVE ~NamesClash(d)
      BY DEF Clashing
    <3>1. PICK a \in DOMAIN unique : unique[a] = d
      BY <2>2
    <3>2. d \in Definitions /\ \A k \in DOMAIN d.fields : ~RepeatsName(d, k)
      BY <2>2, <3>1 DEF FieldsOK, Faulty
    <3> QED BY <3>2, ClashesAreRepeated
  <2> QED BY <2>1, <2>3, <2>4, <2>5, NoneHoldsItself
<1> QED BY <1>1, <1>2 DEF RefusesExactly, Conflicting, Clashing, Unresolved

\* The header that collect() and generate() write holds every definition once, each behind
\* those it holds by value.
THEOREM GeneratesSoundHeaders == CompilerSpec => []HeaderSound
<1>1. CompilerInv => HeaderSound
  BY HeaderIsSound
<1> QED BY <1>1, CompilerInvariance, PTL

\* collect() refuses definitions for what is wrong with them, and no others.
THEOREM RefusesUnsoundOnly == CompilerSpec => []RefusesExactly
<1>1. CompilerInv => RefusesExactly
  BY RefusalsAreExact
<1> QED BY <1>1, CompilerInvariance, PTL

\* generate() leaves the files alone until everything was checked, and writes the registry
\* next to a whole header only.
THEOREM WritesInStep == CompilerSpec => []FilesInStep
<1>1. CompilerInv => FilesInStep
  BY DEF CompilerInv, FilesInv, FilesInStep, Refusals
<1> QED BY <1>1, CompilerInvariance, PTL

-----------------------------------------------------------------------------
\* What the decoder has taken and given is what the frames it has finished hold, and what it
\* took and gave of the one it is in, which is not over.
PlaceInv ==
  /\ part \in 1..(Len(input.parts) + 1)
  /\ \A k \in 1..(part - 1) : input.parts[k].kind = "frame"
  /\ taken = InOfFirst(part - 1, input.parts) + in
  /\ size = OutOfFirst(part - 1, input.parts) + out
  /\ part \notin DOMAIN input.parts => in = 0 /\ out = 0
  /\ part \in DOMAIN input.parts =>
       /\ in <= Part.in /\ out <= Part.out
       /\ in = Part.in => codec = "zstd" /\ out < Part.out

\* The buffer holds what was read and not taken.
BufferInv ==
  /\ taken <= read /\ read <= input.length
  /\ eof => codec = "zstd" /\ read = input.length

\* zstd is at the end of a frame exactly if it is between two; the other loops stop there.
FrameInv ==
  /\ complete <=> codec = "zstd" /\ part > 1 /\ in = 0
  /\ codec # "zstd" /\ status = "running" => part = 1

Statuses == {"running", "ok", "format", "limit", "io"}
TypeInv ==
  /\ codec \in Codecs /\ input \in Inputs /\ status \in Statuses
  /\ {read, taken, part, in, out, size, capacity} \subseteq Nat
  /\ eof \in BOOLEAN /\ complete \in BOOLEAN

IInv == TypeInv /\ PlaceInv /\ BufferInv /\ FrameInv /\ LimitExact /\ AcceptsExactly

\* Of a given input, the sums are natural numbers that grow with every part.
LEMMA PartsOf ==
  ASSUME NEW i \in Inputs
  PROVE  /\ Len(i.parts) \in Nat /\ DOMAIN i.parts = 1..Len(i.parts)
         /\ \A k \in 1..Len(i.parts) : i.parts[k].in \in Nat \ {0} /\ i.parts[k].out \in Nat
         /\ i.length \in Nat /\ i.declared \in Nat
<1>1. i.parts \in Seq(Parts) /\ i.declared \in Nat
  BY InputsAssumption
<1>2. Len(i.parts) \in Nat /\ DOMAIN i.parts = 1..Len(i.parts)
      /\ \A k \in 1..Len(i.parts) : i.parts[k] \in Parts
  BY <1>1
<1>3. i.length \in 0..Whole(i.parts)
  BY InputsAssumption
<1> QED BY <1>1, <1>2, <1>3 DEF Parts

\* The sum of a table of naturals up to n grows by its n-th entry.
LEMMA SumToNext ==
  ASSUME NEW n \in Nat, NEW f, \A k \in 1..n : f[k] \in Nat, NEW m \in 1..n
  PROVE  SumFunctionOnSet(f, 1..m) = SumFunctionOnSet(f, 1..(m - 1)) + f[m]
<1> DEFINE S == 1..(m - 1)
<1>1. IsFiniteSet(S)
  <2>1. 1 \in Int /\ m - 1 \in Int
    OBVIOUS
  <2> QED BY <2>1, FS_Interval
<1>2. S \cup {m} = 1..m /\ m \notin S /\ \A k \in S \cup {m} : f[k] \in Int
  OBVIOUS
<1> HIDE DEF S
<1>3. SumFunctionOnSet(f, S \cup {m}) = SumFunctionOnSet(f, S) + f[m]
  BY ONLY <1>1, <1>2, SumAdd
<1> QED BY <1>2, <1>3 DEF S

LEMMA SumToGrows ==
  ASSUME NEW n \in Nat, NEW f, \A k \in 1..n : f[k] \in Nat
  PROVE  /\ SumFunctionOnSet(f, 1..0) = 0
         /\ \A b \in 0..n : SumFunctionOnSet(f, 1..b) \in Nat
         /\ \A b \in 0..n : \A a \in 0..b : SumFunctionOnSet(f, 1..a) <= SumFunctionOnSet(f, 1..b)
<1> DEFINE Sum(m) == SumFunctionOnSet(f, 1..m)
           T == {b \in 0..n : Sum(b) \in Nat /\ \A a \in 0..b : Sum(a) \in Nat /\ Sum(a) <= Sum(b)}
<1>1. Sum(0) = 0
  <2>1. 1..0 = {}
    OBVIOUS
  <2> QED BY <2>1, SumOfNothing
<1>2. ASSUME NEW b \in 1..n PROVE Sum(b) = Sum(b - 1) + f[b]
  BY SumToNext
<1> HIDE DEF Sum
<1>3. 0 \in T
  BY <1>1
<1>4. ASSUME NEW b \in 1..n, b - 1 \in T PROVE b \in T
  <2>1. Sum(b) = Sum(b - 1) + f[b] /\ Sum(b - 1) \in Nat /\ f[b] \in Nat
    BY <1>2, <1>4
  <2>2. \A a \in 0..b : a = b \/ a \in 0..(b - 1)
    OBVIOUS
  <2>3. \A a \in 0..(b - 1) : Sum(a) \in Nat /\ Sum(a) <= Sum(b - 1)
    BY <1>4
  <2>4. \A a \in 0..b : Sum(a) \in Nat /\ Sum(a) <= Sum(b)
    BY <2>1, <2>2, <2>3
  <2> QED BY <2>1, <2>4
<1>5. 0..n \subseteq T
  <2> HIDE DEF T
  <2> QED BY <1>3, <1>4, Upwards
<1> QED BY <1>1, <1>5 DEF Sum

\* What the parts of an input hold, up to each of them.
LEMMA SumsOfInput ==
  ASSUME NEW i \in Inputs
  PROVE  /\ InOfFirst(0, i.parts) = 0 /\ OutOfFirst(0, i.parts) = 0
         /\ \A b \in 0..Len(i.parts) : InOfFirst(b, i.parts) \in Nat /\ OutOfFirst(b, i.parts) \in Nat
         /\ \A b \in 0..Len(i.parts) : \A a \in 0..b :
              InOfFirst(a, i.parts) <= InOfFirst(b, i.parts) /\ OutOfFirst(a, i.parts) <= OutOfFirst(b, i.parts)
         /\ \A b \in 1..Len(i.parts) :
              /\ InOfFirst(b, i.parts) = InOfFirst(b - 1, i.parts) + i.parts[b].in
              /\ OutOfFirst(b, i.parts) = OutOfFirst(b - 1, i.parts) + i.parts[b].out
<1> DEFINE n == Len(i.parts)
           f == [k \in DOMAIN i.parts |-> i.parts[k].in]
           g == [k \in DOMAIN i.parts |-> i.parts[k].out]
<1>1. n \in Nat /\ \A k \in 1..n : f[k] \in Nat /\ g[k] \in Nat /\ f[k] = i.parts[k].in /\ g[k] = i.parts[k].out
  BY PartsOf
<1>2. \A b : InOfFirst(b, i.parts) = SumFunctionOnSet(f, 1..b) /\ OutOfFirst(b, i.parts) = SumFunctionOnSet(g, 1..b)
  BY DEF InOfFirst, OutOfFirst
<1> HIDE DEF n, f, g
<1>3. /\ SumFunctionOnSet(f, 1..0) = 0
      /\ \A b \in 0..n : SumFunctionOnSet(f, 1..b) \in Nat
      /\ \A b \in 0..n : \A a \in 0..b : SumFunctionOnSet(f, 1..a) <= SumFunctionOnSet(f, 1..b)
  BY <1>1, SumToGrows
<1>4. /\ SumFunctionOnSet(g, 1..0) = 0
      /\ \A b \in 0..n : SumFunctionOnSet(g, 1..b) \in Nat
      /\ \A b \in 0..n : \A a \in 0..b : SumFunctionOnSet(g, 1..a) <= SumFunctionOnSet(g, 1..b)
  BY <1>1, SumToGrows
<1>5. ASSUME NEW b \in 1..n
      PROVE  /\ SumFunctionOnSet(f, 1..b) = SumFunctionOnSet(f, 1..(b - 1)) + f[b]
             /\ SumFunctionOnSet(g, 1..b) = SumFunctionOnSet(g, 1..(b - 1)) + g[b]
  BY <1>1, SumToNext
<1>6. \A b \in 1..n : f[b] = i.parts[b].in /\ g[b] = i.parts[b].out
  BY <1>1
<1>7. QED
  BY <1>2, <1>3, <1>4, <1>5, <1>6 DEF n

\* The lesser of two numbers.
LEMMA MinOfTwo ==
  ASSUME NEW a \in Nat, NEW b \in Nat
  PROVE  Min({a, b}) \in Nat /\ Min({a, b}) <= a /\ Min({a, b}) <= b
<1>1. {a, b} \in SUBSET Int /\ {a, b} # {} /\ \A t \in {a, b} : 0 <= t
  OBVIOUS
<1>2. Min({a, b}) \in {a, b} /\ \A t \in {a, b} : Min({a, b}) <= t
  BY <1>1, MinOfBounded
<1> QED BY <1>2
-----------------------------------------------------------------------------
\* Where the decoder is, in the sums.
LEMMA HereFacts ==
  ASSUME TypeInv, PlaceInv, BufferInv
  PROVE  /\ read \in Nat /\ taken \in Nat /\ part \in Nat /\ in \in Nat /\ out \in Nat /\ size \in Nat
         /\ capacity \in Nat /\ input.length \in Nat /\ Len(input.parts) \in Nat
         /\ Available \in Nat /\ Available = read - taken
         /\ Remaining \in Nat /\ Remaining = input.length - read
         /\ Whole(input.parts) \in Nat /\ Decoded(input.parts) \in Nat /\ input.declared \in Nat
         /\ DOMAIN input.parts = 1..Len(input.parts)
<1>1. input \in Inputs /\ {read, taken, part, in, out, size, capacity} \subseteq Nat
  BY DEF TypeInv
<1>2. /\ Len(input.parts) \in Nat /\ DOMAIN input.parts = 1..Len(input.parts)
      /\ input.length \in Nat /\ input.declared \in Nat
  BY <1>1, PartsOf
<1>3. Whole(input.parts) \in Nat /\ Decoded(input.parts) \in Nat
  BY <1>1, <1>2, SumsOfInput DEF Whole, Decoded
<1>4. taken <= read /\ read <= input.length
  BY DEF BufferInv
<1> QED BY <1>1, <1>2, <1>3, <1>4, SMTT(20) DEF Available, Remaining

LEMMA PartFacts ==
  ASSUME TypeInv, PlaceInv, BufferInv, part \in DOMAIN input.parts
  PROVE  /\ Part.in \in Nat \ {0} /\ Part.out \in Nat /\ in <= Part.in /\ out <= Part.out
         /\ InOfFirst(part, input.parts) \in Nat /\ OutOfFirst(part, input.parts) \in Nat
         /\ taken + (Part.in - in) = InOfFirst(part, input.parts)
         /\ size + (Part.out - out) = OutOfFirst(part, input.parts)
         /\ InOfFirst(part, input.parts) <= Whole(input.parts)
         /\ OutOfFirst(part, input.parts) <= Decoded(input.parts)
         /\ part < Len(input.parts) => InOfFirst(part, input.parts) < input.length
<1> DEFINE n == Len(input.parts)
<1>1. input \in Inputs /\ n \in Nat /\ part \in 1..n /\ part \in 0..n /\ part - 1 \in 0..n /\ n \in 0..n /\ in \in Nat /\ out \in Nat
  <2>1. input \in Inputs
    BY DEF TypeInv
  <2>2. n \in Nat /\ part \in 1..n /\ in \in Nat /\ out \in Nat
    BY HereFacts
  <2> HIDE DEF n
  <2> QED BY ONLY <2>1, <2>2
<1>2. /\ InOfFirst(part, input.parts) = InOfFirst(part - 1, input.parts) + Part.in
      /\ OutOfFirst(part, input.parts) = OutOfFirst(part - 1, input.parts) + Part.out
      /\ InOfFirst(part - 1, input.parts) \in Nat /\ OutOfFirst(part - 1, input.parts) \in Nat
  BY <1>1, SumsOfInput DEF Part
<1>3. Part.in \in Nat \ {0} /\ Part.out \in Nat
  BY <1>1, PartsOf DEF Part
<1>4. part \in 0..n /\ n \in 0..n
  BY <1>1
<1>5. /\ InOfFirst(part, input.parts) <= Whole(input.parts)
      /\ OutOfFirst(part, input.parts) <= Decoded(input.parts)
  BY <1>1, SumsOfInput DEF Whole, Decoded
<1>6. ASSUME part < n PROVE InOfFirst(part, input.parts) < input.length
  <2>1. n - 1 \in 0..n /\ part \in 0..(n - 1)
    BY <1>1, <1>6
  <2>2. InOfFirst(part, input.parts) <= InOfFirst(n - 1, input.parts) /\ InOfFirst(n - 1, input.parts) \in Nat
        /\ InOfFirst(part, input.parts) \in Nat
    BY <1>1, <2>1, SumsOfInput
  <2>3. input.parts # <<>>
    BY <1>1
  <2>4. input.length > InOfFirst(n - 1, input.parts) /\ input.length \in Nat
    BY <1>1, <2>3, InputsAssumption, PartsOf
  <2> QED BY <2>2, <2>4
<1>7. /\ taken = InOfFirst(part - 1, input.parts) + in
      /\ size = OutOfFirst(part - 1, input.parts) + out
      /\ in <= Part.in /\ out <= Part.out
  BY DEF PlaceInv
<1>8. InOfFirst(part, input.parts) \in Nat /\ OutOfFirst(part, input.parts) \in Nat
  BY <1>2, <1>3
<1>9. taken \in Nat /\ size \in Nat
  BY HereFacts
<1>10. /\ taken + (Part.in - in) = InOfFirst(part, input.parts)
       /\ size + (Part.out - out) = OutOfFirst(part, input.parts)
  <2>1. \A a, b, c \in Nat : (a + b) + (c - b) = a + c
    OBVIOUS
  <2>2. Part.in \in Nat /\ in \in Nat /\ out \in Nat
    BY <1>1, <1>3
  <2>3. InOfFirst(part - 1, input.parts) + in + (Part.in - in) = InOfFirst(part - 1, input.parts) + Part.in
    BY ONLY <2>1, <2>2, <1>2
  <2>4. OutOfFirst(part - 1, input.parts) + out + (Part.out - out) = OutOfFirst(part - 1, input.parts) + Part.out
    BY ONLY <2>1, <2>2, <1>2, <1>3
  <2> QED BY ONLY <1>2, <1>7, <2>3, <2>4
<1> QED BY <1>3, <1>5, <1>6, <1>7, <1>8, <1>10

\* An input that is used up inside a part is not whole.
LEMMA UsedUpInside ==
  ASSUME TypeInv, PlaceInv, BufferInv, part \in DOMAIN input.parts,
         taken = input.length, in < Part.in
  PROVE  ~Sound
<1>1. taken \in Nat /\ in \in Nat /\ Part.in \in Nat /\ input.length \in Nat
      /\ InOfFirst(part, input.parts) \in Nat /\ Whole(input.parts) \in Nat
      /\ taken + (Part.in - in) = InOfFirst(part, input.parts)
      /\ InOfFirst(part, input.parts) <= Whole(input.parts)
  BY HereFacts, PartFacts
<1>2. input.length < Whole(input.parts)
  BY <1>1
<1> QED BY <1>1, <1>2 DEF Sound

\* Nothing but status changes: what End does to the invariant.
LEMMA EndInv ==
  ASSUME IInv, NEW outcome \in Statuses, status = "running", End(outcome),
         outcome \notin {"ok", "limit", "format"}
           \/ (outcome = "format" /\ ~Sound)
           \/ (outcome = "limit" /\ (Decoded(input.parts) > Limit
                 \/ \E k \in DOMAIN input.parts : input.parts[k].kind = "window"))
           \/ (outcome = "ok" /\ Sound /\ size = Decoded(input.parts))
  PROVE  IInv'
<1>1. status' = outcome /\ UNCHANGED <<codec, input, read, taken, eof, complete, part, in, out, size, capacity>>
  BY DEF End, given, decoder
<1>2. outcome # "running" \/ outcome = "running"
  OBVIOUS
<1>3. TypeInv'
  BY <1>1 DEF IInv, TypeInv
<1>4. PlaceInv' /\ BufferInv'
  BY <1>1 DEF IInv, PlaceInv, BufferInv, Part
<1>5. FrameInv'
  BY <1>1 DEF IInv, FrameInv
<1>6. Sound' = Sound
  BY <1>1 DEF Sound
<1>7. LimitExact'
  BY <1>1 DEF IInv, LimitExact
<1>8. AcceptsExactly'
  BY <1>1, <1>6 DEF IInv, AcceptsExactly
<1> QED BY <1>3, <1>4, <1>5, <1>7, <1>8 DEF IInv

LEMMA InitInv == Init => IInv
<1> SUFFICES ASSUME Init PROVE IInv
  OBVIOUS
<1>1. /\ codec \in Codecs /\ input \in Inputs /\ read = 0 /\ taken = 0 /\ eof = FALSE /\ complete = FALSE
      /\ part = 1 /\ in = 0 /\ out = 0 /\ size = 0 /\ capacity = 0 /\ status = "running"
  BY DEF Init
<1>2. TypeInv
  <2>1. {read, taken, part, in, out, size, capacity} \subseteq Nat
    BY <1>1
  <2>2. status \in Statuses /\ eof \in BOOLEAN /\ complete \in BOOLEAN
    BY <1>1 DEF Statuses
  <2> QED BY <1>1, <2>1, <2>2 DEF TypeInv
<1>3. /\ Len(input.parts) \in Nat /\ DOMAIN input.parts = 1..Len(input.parts) /\ input.length \in Nat
      /\ \A k \in 1..Len(input.parts) : input.parts[k].in \in Nat \ {0} /\ input.parts[k].out \in Nat
  BY <1>1, PartsOf
<1>4. InOfFirst(0, input.parts) = 0 /\ OutOfFirst(0, input.parts) = 0
  BY <1>1, SumsOfInput
<1>5. PlaceInv
  <2>1. part - 1 = 0 /\ 1..(part - 1) = {} /\ part \in 1..(Len(input.parts) + 1)
    BY <1>1, <1>3
  <2>2. part \in DOMAIN input.parts => in <= Part.in /\ out <= Part.out /\ in # Part.in
    BY <1>1, <1>3 DEF Part
  <2> QED BY <1>1, <1>4, <2>1, <2>2 DEF PlaceInv
<1>6. BufferInv
  BY <1>1, <1>3 DEF BufferInv
<1>7. FrameInv
  BY <1>1 DEF FrameInv
<1>8. LimitExact /\ AcceptsExactly
  BY <1>1, BuffersAssumption DEF LimitExact, AcceptsExactly
<1> QED BY <1>2, <1>5, <1>6, <1>7, <1>8 DEF IInv

\* Reading more of the input.
LEMMA FillInv ==
  ASSUME IInv, Fill
  PROVE  IInv'
<1>1. TypeInv /\ PlaceInv /\ BufferInv /\ FrameInv /\ status = "running" /\ NeedsInput
  BY DEF IInv, Fill
<1>2. CASE codec = "lz4" /\ Remaining = 0
  <2>1. End("format")
    BY <1>2 DEF Fill
  <2>2. part = 1 /\ Available = 0
    BY <1>1, <1>2 DEF FrameInv, NeedsInput
  <2>3. ~Sound
    <3>1. SUFFICES ASSUME Sound PROVE FALSE
      OBVIOUS
    <3>2. part \in DOMAIN input.parts /\ Part.kind = "frame"
      <4>1. input.parts # <<>> /\ \A k \in DOMAIN input.parts : input.parts[k].kind = "frame"
        BY <3>1 DEF Sound
      <4>2. Len(input.parts) \in Nat /\ DOMAIN input.parts = 1..Len(input.parts) /\ input.parts \in Seq(Parts)
        BY <1>1, HereFacts, InputsAssumption DEF TypeInv
      <4>3. Len(input.parts) # 0
        BY <4>1, <4>2
      <4> QED BY <2>2, <4>1, <4>2, <4>3 DEF Part
    <3>3. in < Part.in
      <4>1. in <= Part.in /\ (in = Part.in => codec = "zstd")
        BY <1>1, <3>2 DEF PlaceInv
      <4>2. in \in Nat /\ Part.in \in Nat
        BY <1>1, <3>2, HereFacts, PartFacts
      <4>3. in # Part.in
        BY <1>2, <4>1
      <4> QED BY ONLY <4>1, <4>2, <4>3
    <3>4. taken = input.length
      BY <1>1, <1>2, <2>2, HereFacts, SMTT(20)
    <3> QED BY <1>1, <3>1, <3>2, <3>3, <3>4, UsedUpInside
  <2> QED BY <1>1, <2>1, <2>3, EndInv DEF Statuses
<1>3. CASE ~(codec = "lz4" /\ Remaining = 0)
  <2>1. /\ read' = read + Min({BufferIn, Remaining}) /\ eof' = (codec = "zstd" /\ Remaining = 0)
        /\ UNCHANGED <<codec, input, taken, complete, part, in, out, size, capacity, status>>
    BY <1>3 DEF Fill, given, decoder
  <2>2. /\ read \in Nat /\ taken \in Nat /\ input.length \in Nat /\ Remaining \in Nat
        /\ Remaining = input.length - read /\ taken <= read
    BY <1>1, HereFacts DEF BufferInv
  <2>3. Min({BufferIn, Remaining}) \in Nat /\ Min({BufferIn, Remaining}) <= Remaining
    BY <2>2, BuffersAssumption, MinOfTwo
  <2>4. TypeInv'
    BY <1>1, <2>1, <2>2, <2>3 DEF TypeInv
  <2>5. PlaceInv'
    BY <1>1, <2>1 DEF PlaceInv, Part
  <2>6. BufferInv'
    <3> DEFINE more == Min({BufferIn, Remaining})
    <3>1. taken <= read + more /\ read + more <= input.length
          /\ (Remaining = 0 => read + more = input.length)
      <4> HIDE DEF more
      <4>1. more \in Nat /\ more <= Remaining
        BY <2>3 DEF more
      <4> QED BY ONLY <2>2, <4>1
    <3>2. read' = read + more
      BY <2>1
    <3> HIDE DEF more
    <3>3. taken' <= read' /\ read' <= input'.length
      BY <2>1, <3>1, <3>2
    <3>4. eof' => codec' = "zstd" /\ read' = input'.length
      BY <2>1, <3>1, <3>2
    <3> QED BY <3>3, <3>4 DEF BufferInv
  <2>7. FrameInv' /\ LimitExact'
    BY <2>1 DEF IInv, FrameInv, LimitExact
  <2>8. AcceptsExactly'
    BY <1>1, <2>1 DEF AcceptsExactly
  <2> QED BY <2>4, <2>5, <2>6, <2>7, <2>8 DEF IInv
<1> QED BY <1>2, <1>3
-----------------------------------------------------------------------------
\* What a call takes is there and of the frame, and what it gives is of the frame.
LEMMA CallFacts ==
  ASSUME IInv, NEW dIn \in 0..BufferIn, NEW dOut \in 0..BufferOut, Call(dIn, dOut)
  PROVE  /\ part \in DOMAIN input.parts /\ Part.kind = "frame"
         /\ dIn \in Nat /\ dOut \in Nat /\ dIn <= Available
         /\ in + dIn <= Part.in /\ out + dOut <= Part.out
         /\ Part.in \in Nat \ {0} /\ Part.out \in Nat
<1>1. TypeInv /\ PlaceInv /\ BufferInv /\ part \in DOMAIN input.parts /\ Part.kind = "frame"
  BY DEF IInv, Call
<1>2. /\ Available \in Nat /\ in \in Nat /\ out \in Nat /\ Part.in \in Nat \ {0} /\ Part.out \in Nat
      /\ in <= Part.in /\ out <= Part.out
  BY <1>1, HereFacts, PartFacts
<1>3. dIn \in Nat /\ dOut \in Nat /\ BufferOut \in Nat
  BY BuffersAssumption
<1>4. Part.in - in \in Nat /\ Part.out - out \in Nat
  BY ONLY <1>2
<1>5. dIn <= Min({Available, Part.in - in}) /\ dOut <= Min({BufferOut, Part.out - out})
  BY DEF Call
<1>6. /\ Min({Available, Part.in - in}) \in Nat /\ Min({Available, Part.in - in}) <= Available
      /\ Min({Available, Part.in - in}) <= Part.in - in
  BY <1>2, <1>4, MinOfTwo
<1>7. Min({BufferOut, Part.out - out}) \in Nat /\ Min({BufferOut, Part.out - out}) <= Part.out - out
  BY <1>3, <1>4, MinOfTwo
<1>8. dIn <= Available /\ in + dIn <= Part.in /\ out + dOut <= Part.out
  BY ONLY <1>2, <1>3, <1>5, <1>6, <1>7
<1> QED BY <1>1, <1>2, <1>3, <1>8

\* A call that did something leaves the decoder in the same part, or before the next.
LEMMA AdvanceInv ==
  ASSUME IInv, NEW dIn \in 0..BufferIn, NEW dOut \in 0..BufferOut, Call(dIn, dOut), Advance(dIn, dOut),
         UNCHANGED <<codec, input, read, eof>>, size' = size + dOut
  PROVE  /\ PlaceInv' /\ BufferInv'
         /\ {read', taken', part', in', out', size'} \subseteq Nat
         /\ FrameOver(dIn, dOut) => in' = 0 /\ part' = part + 1
         /\ ~FrameOver(dIn, dOut) => in' = in + dIn /\ part' = part
<1>1. /\ part \in DOMAIN input.parts /\ Part.kind = "frame"
      /\ dIn \in Nat /\ dOut \in Nat /\ dIn <= Available
      /\ in + dIn <= Part.in /\ out + dOut <= Part.out
      /\ Part.in \in Nat \ {0} /\ Part.out \in Nat
  BY CallFacts
<1>2. TypeInv /\ PlaceInv /\ BufferInv
  BY DEF IInv
<1>3. /\ read \in Nat /\ taken \in Nat /\ part \in Nat /\ in \in Nat /\ out \in Nat /\ size \in Nat
      /\ input.length \in Nat /\ Len(input.parts) \in Nat /\ Available = read - taken
      /\ DOMAIN input.parts = 1..Len(input.parts)
  BY <1>2, HereFacts
<1>4. /\ InOfFirst(part, input.parts) \in Nat /\ OutOfFirst(part, input.parts) \in Nat
      /\ taken + (Part.in - in) = InOfFirst(part, input.parts)
      /\ size + (Part.out - out) = OutOfFirst(part, input.parts)
  BY <1>1, <1>2, PartFacts
<1>5. taken' = taken + dIn
  BY DEF Advance
<1>6. BufferInv'
  <2>1. taken' <= read
    BY ONLY <1>1, <1>3, <1>5
  <2>2. read' = read /\ input' = input /\ eof' = eof /\ codec' = codec
    OBVIOUS
  <2>3. read <= input.length /\ (eof => codec = "zstd" /\ read = input.length)
    BY <1>2 DEF BufferInv
  <2> QED BY <2>1, <2>2, <2>3 DEF BufferInv
<1>7. CASE FrameOver(dIn, dOut)
  <2>1. part' = part + 1 /\ in' = 0 /\ out' = 0
    BY <1>7 DEF Advance
  <2>2. in + dIn = Part.in /\ out + dOut = Part.out
    BY <1>7 DEF FrameOver
  <2>3. taken + dIn = InOfFirst(part, input.parts) /\ size + dOut = OutOfFirst(part, input.parts)
    <3>1. \A t, i, d, x, s \in Nat : i + d = x /\ t + (x - i) = s => t + d = s
      OBVIOUS
    <3>2. Part.in \in Nat
      BY <1>1
    <3>3. taken + dIn = InOfFirst(part, input.parts)
      BY ONLY <1>1, <1>3, <1>4, <2>2, <3>1, <3>2
    <3>4. size + dOut = OutOfFirst(part, input.parts)
      BY ONLY <1>1, <1>3, <1>4, <2>2, <3>1
    <3> QED BY <3>3, <3>4
  <2>4. part' - 1 = part /\ part' \in 1..(Len(input.parts) + 1)
    BY <1>1, <1>3, <2>1, SMTT(20)
  <2>5. \A k \in 1..part : input.parts[k].kind = "frame"
    <3>1. \A k \in 1..(part - 1) : input.parts[k].kind = "frame"
      BY <1>2 DEF PlaceInv
    <3>2. \A k \in 1..part : k = part \/ k \in 1..(part - 1)
      BY <1>3
    <3> QED BY <1>1, <3>1, <3>2 DEF Part
  <2>6. part' \in DOMAIN input.parts => 0 <= input.parts[part'].in /\ 0 <= input.parts[part'].out /\ 0 # input.parts[part'].in
    <3>1. input \in Inputs
      BY <1>2 DEF TypeInv
    <3>2. \A k \in 1..Len(input.parts) : input.parts[k].in \in Nat \ {0} /\ input.parts[k].out \in Nat
      BY <3>1, PartsOf
    <3> QED BY <1>3, <3>2
  <2>7. PlaceInv'
    <3>1. taken' = InOfFirst(part' - 1, input.parts) + in' /\ size' = OutOfFirst(part' - 1, input.parts) + out'
      BY <1>3, <1>4, <1>5, <2>1, <2>3, <2>4, SMTT(20)
    <3>2. input' = input /\ codec' = codec
      OBVIOUS
    <3>3. \A k \in 1..(part' - 1) : input.parts[k].kind = "frame"
      BY <2>4, <2>5
    <3>4. Part' = input.parts[part']
      BY <3>2 DEF Part
    <3> QED BY <2>1, <2>4, <2>6, <3>1, <3>2, <3>3, <3>4 DEF PlaceInv
  <2>8. {read', taken', part', in', out', size'} \subseteq Nat
    <3>1. read' = read /\ size' = size + dOut
      OBVIOUS
    <3>2. dIn \in Nat /\ dOut \in Nat
      BY <1>1
    <3>3. taken' \in Nat /\ size' \in Nat
      BY ONLY <1>3, <1>5, <3>1, <3>2
    <3>4. read' \in Nat /\ part' \in Nat /\ in' \in Nat /\ out' \in Nat
      BY ONLY <1>3, <2>1, <3>1, <3>2
    <3> QED BY ONLY <3>3, <3>4
  <2> QED BY <1>6, <1>7, <2>1, <2>7, <2>8
<1>8. CASE ~FrameOver(dIn, dOut)
  <2>1. part' = part /\ in' = in + dIn /\ out' = out + dOut
    BY <1>8 DEF Advance
  <2>2. input' = input /\ codec' = codec /\ Part' = Part
    BY <2>1 DEF Part
  <2>3. /\ taken = InOfFirst(part - 1, input.parts) + in /\ size = OutOfFirst(part - 1, input.parts) + out
        /\ part \in 1..(Len(input.parts) + 1) /\ \A k \in 1..(part - 1) : input.parts[k].kind = "frame"
    BY <1>2 DEF PlaceInv
  <2>4. InOfFirst(part - 1, input.parts) \in Nat /\ OutOfFirst(part - 1, input.parts) \in Nat
    <3>1. input \in Inputs /\ part - 1 \in 0..Len(input.parts)
      BY <1>2, <1>3, <2>3 DEF TypeInv
    <3> QED BY <3>1, SumsOfInput
  <2>5. taken' = InOfFirst(part - 1, input.parts) + in' /\ size' = OutOfFirst(part - 1, input.parts) + out'
    <3> DEFINE a == InOfFirst(part - 1, input.parts)
               b == OutOfFirst(part - 1, input.parts)
    <3>1. a \in Nat /\ b \in Nat /\ taken = a + in /\ size = b + out
      BY <2>3, <2>4
    <3> HIDE DEF a, b
    <3>2. taken + dIn = a + (in + dIn)
      BY ONLY <1>1, <1>3, <3>1
    <3>3. size + dOut = b + (out + dOut)
      BY ONLY <1>1, <1>3, <3>1
    <3>4. taken' = taken + dIn /\ size' = size + dOut
      BY <1>5
    <3> QED BY ONLY <2>1, <3>2, <3>3, <3>4 DEF a, b
  <2>6. in' = Part.in => codec = "zstd" /\ out' < Part.out
    <3>1. SUFFICES ASSUME in + dIn = Part.in PROVE codec = "zstd" /\ out + dOut < Part.out
      BY <2>1
    <3>2. out + dOut # Part.out
      BY <1>8, <3>1 DEF FrameOver
    <3>3. codec = "zstd"
      BY <3>1, <3>2 DEF Call
    <3>4. out + dOut < Part.out
      BY ONLY <1>1, <1>3, <3>2, SMTT(20)
    <3> QED BY <3>3, <3>4
  <2>7. PlaceInv'
    <3>1. in' <= Part.in /\ out' <= Part.out
      BY <1>1, <2>1
    <3> QED BY <1>1, <2>1, <2>2, <2>3, <2>5, <2>6, <3>1 DEF PlaceInv
  <2>8. {read', taken', part', in', out', size'} \subseteq Nat
    <3>1. read' = read /\ size' = size + dOut
      OBVIOUS
    <3>2. dIn \in Nat /\ dOut \in Nat
      BY <1>1
    <3>3. taken' \in Nat /\ size' \in Nat
      BY ONLY <1>3, <1>5, <3>1, <3>2
    <3>4. read' \in Nat /\ part' \in Nat /\ in' \in Nat /\ out' \in Nat
      BY ONLY <1>3, <2>1, <3>1, <3>2
    <3> QED BY ONLY <3>3, <3>4
  <2> QED BY <1>6, <1>8, <2>1, <2>7, <2>8
<1> QED BY <1>7, <1>8

\* Output that does not fit is more than the limit.
LEMMA TooMuch ==
  ASSUME IInv, NEW dIn \in 0..BufferIn, NEW dOut \in 0..BufferOut, Call(dIn, dOut)
  PROVE  /\ Fits(dOut) => size + dOut <= Limit
         /\ ~Fits(dOut) => Decoded(input.parts) > Limit
<1>1. /\ part \in DOMAIN input.parts /\ dOut \in Nat /\ out + dOut <= Part.out /\ Part.out \in Nat
  BY CallFacts
<1>2. TypeInv /\ PlaceInv /\ BufferInv /\ size <= Limit /\ Limit \in Nat
  BY BuffersAssumption DEF IInv, LimitExact
<1>3. /\ size \in Nat /\ out \in Nat /\ Decoded(input.parts) \in Nat /\ OutOfFirst(part, input.parts) \in Nat
      /\ size + (Part.out - out) = OutOfFirst(part, input.parts)
      /\ OutOfFirst(part, input.parts) <= Decoded(input.parts)
  BY <1>1, <1>2, HereFacts, PartFacts
<1>4. /\ dOut <= Limit - size => size + dOut <= Limit
      /\ ~(dOut <= Limit - size) => Decoded(input.parts) > Limit
  BY ONLY <1>1, <1>2, <1>3
<1> QED BY <1>4 DEF Fits

\* The room for the output stays within the limit.
LEMMA ReserveFits ==
  ASSUME NEW required \in Nat, required <= Limit, capacity \in Nat, capacity <= Limit
  PROVE  Reserve(required) \in Nat /\ Reserve(required) <= Limit
<1> DEFINE grown == IF capacity > Limit \div 2 THEN Limit ELSE capacity * 2
<1>1. Limit \in Nat
  BY BuffersAssumption
<1>2. grown \in Nat /\ grown <= Limit
  BY <1>1
<1> HIDE DEF grown
<1>3. Max({required, grown}) \in {required, grown}
  <2>1. {required, grown} \in SUBSET Int /\ {required, grown} # {} /\ \A t \in {required, grown} : t <= Limit
    BY <1>2
  <2> QED BY <1>1, <2>1, MaxOfBounded
<1>4. Growth(required) = Max({required, grown})
  BY DEF Growth, grown
<1> QED BY <1>1, <1>2, <1>3, <1>4 DEF Reserve

\* The decoder waits, or is called with nothing: an input that ends here is not whole.
LEMMA StuckUnsound ==
  ASSUME IInv, status = "running", ~NeedsInput, NEW dIn \in 0..BufferIn, NEW dOut \in 0..BufferOut,
         Call(dIn, dOut), Stuck(dIn, dOut)
  PROVE  ~Sound
<1>1. Available = 0 /\ in < Part.in /\ part \in DOMAIN input.parts
  BY DEF Call, Stuck
<1>2. TypeInv /\ PlaceInv /\ BufferInv
  BY DEF IInv
<1>3. read \in Nat /\ taken \in Nat /\ input.length \in Nat /\ Available = read - taken /\ Remaining = input.length - read
      /\ Remaining \in Nat
  BY <1>2, HereFacts
<1>4. read = input.length
  <2>1. CASE codec = "zstd"
    BY <1>1, <1>2, <2>1 DEF NeedsInput, BufferInv
  <2>2. CASE codec = "lz4"
    BY <1>1, <2>2 DEF NeedsInput
  <2>3. CASE codec = "bz2"
    <3>1. ~(Remaining > 0)
      BY <1>1, <2>3 DEF NeedsInput
    <3> QED BY ONLY <1>3, <3>1
  <2> QED BY <1>2, <2>1, <2>2, <2>3 DEF TypeInv, Codecs
<1>5. taken = input.length
  BY <1>1, <1>3, <1>4
<1> QED BY <1>1, <1>2, <1>5, UsedUpInside

LEMMA ZstdCallInv ==
  ASSUME IInv, ZstdCall
  PROVE  IInv'
<1>1. PICK dIn \in 0..BufferIn, dOut \in 0..BufferOut :
        /\ Call(dIn, dOut)
        /\ IF ~Fits(dOut) THEN End("limit")
           ELSE IF Stuck(dIn, dOut) THEN End("format")
           ELSE /\ Advance(dIn, dOut)
                /\ complete' = FrameOver(dIn, dOut)
                /\ size' = size + dOut
                /\ capacity' = Reserve(size + dOut)
                /\ UNCHANGED <<given, read, eof, status>>
  BY DEF ZstdCall
<1>2. status = "running" /\ codec = "zstd" /\ ~NeedsInput
  BY DEF ZstdCall, Calling
<1>3. CASE ~Fits(dOut)
  <2>1. End("limit") /\ Decoded(input.parts) > Limit
    BY <1>1, <1>3, TooMuch
  <2> QED BY <1>2, <2>1, EndInv DEF Statuses
<1>4. CASE Fits(dOut) /\ Stuck(dIn, dOut)
  <2>1. End("format") /\ ~Sound
    BY <1>1, <1>2, <1>4, StuckUnsound
  <2> QED BY <1>2, <2>1, EndInv DEF Statuses
<1>5. CASE Fits(dOut) /\ ~Stuck(dIn, dOut)
  <2>1. /\ Advance(dIn, dOut) /\ complete' = FrameOver(dIn, dOut) /\ size' = size + dOut
        /\ capacity' = Reserve(size + dOut) /\ UNCHANGED <<codec, input, read, eof, status>>
    BY <1>1, <1>5 DEF given
  <2>2. /\ PlaceInv' /\ BufferInv' /\ {read', taken', part', in', out', size'} \subseteq Nat
        /\ FrameOver(dIn, dOut) => in' = 0 /\ part' = part + 1
        /\ ~FrameOver(dIn, dOut) => in' = in + dIn /\ part' = part
    BY <1>1, <2>1, AdvanceInv
  <2>3. size + dOut \in Nat /\ size + dOut <= Limit
    <3>1. size + dOut <= Limit
      BY <1>1, <1>5, TooMuch
    <3> QED BY <2>1, <2>2, <3>1
  <2>4. capacity' \in Nat /\ capacity' <= Limit
    <3>1. capacity \in Nat /\ capacity <= Limit
      BY DEF IInv, TypeInv, LimitExact
    <3> QED BY <2>1, <2>3, <3>1, ReserveFits
  <2>5. TypeInv'
    <3>1. complete' \in BOOLEAN
      BY <2>1 DEF FrameOver
    <3> QED BY <2>1, <2>2, <2>4, <3>1 DEF IInv, TypeInv
  <2>6. FrameInv'
    <3>1. part \in Nat /\ part >= 1 /\ in \in Nat /\ dIn \in Nat
      <4>1. TypeInv /\ PlaceInv /\ BufferInv
        BY DEF IInv
      <4>2. part \in 1..(Len(input.parts) + 1) /\ Len(input.parts) \in Nat
        BY <4>1, HereFacts DEF PlaceInv
      <4> QED BY <4>1, <4>2, HereFacts, BuffersAssumption
    <3>2. ASSUME ~FrameOver(dIn, dOut) PROVE in' # 0
      <4>1. SUFFICES ASSUME in + dIn = 0 PROVE FALSE
        BY <2>2, <3>2
      <4>2. in = 0 /\ dIn = 0
        BY <3>1, <4>1
      <4>3. dOut # 0
        BY <1>5, <4>2 DEF Stuck
      <4>4. dOut > 0
        BY <4>3, BuffersAssumption
      <4> QED BY <1>1, <4>1, <4>4 DEF Call
    <3>3. complete' <=> part' > 1 /\ in' = 0
      BY <2>1, <2>2, <3>1, <3>2
    <3> QED BY <1>2, <2>1, <3>3 DEF FrameInv
  <2>7. LimitExact'
    BY <1>2, <2>1, <2>3, <2>4 DEF LimitExact
  <2>8. AcceptsExactly'
    BY <1>2, <2>1 DEF AcceptsExactly
  <2> QED BY <2>2, <2>5, <2>6, <2>7, <2>8 DEF IInv
<1> QED BY <1>3, <1>4, <1>5
-----------------------------------------------------------------------------
LEMMA ZstdReturnInv ==
  ASSUME IInv, ZstdReturn
  PROVE  IInv'
<1> DEFINE n == Len(input.parts)
<1>1. /\ TypeInv /\ PlaceInv /\ BufferInv /\ FrameInv /\ status = "running"
      /\ codec = "zstd" /\ eof /\ Available = 0 /\ complete /\ End("ok")
  BY DEF IInv, ZstdReturn, ZstdOver
<1>2. /\ read \in Nat /\ taken \in Nat /\ part \in Nat /\ n \in Nat /\ input.length \in Nat /\ Available = read - taken
      /\ DOMAIN input.parts = 1..n
  BY <1>1, HereFacts
<1>3. part > 1 /\ in = 0 /\ read = input.length
  BY <1>1 DEF FrameInv, BufferInv
<1>4. taken = input.length
  BY <1>1, <1>2, <1>3
<1>5. part = n + 1
  <2>1. part \in 1..(n + 1)
    BY <1>1 DEF PlaceInv
  <2>2. SUFFICES ASSUME part \in 1..n PROVE FALSE
    BY <1>2, <2>1
  <2>3. /\ taken = InOfFirst(part - 1, input.parts) + in
        /\ InOfFirst(part - 1, input.parts) \in Nat /\ InOfFirst(n - 1, input.parts) \in Nat
        /\ InOfFirst(part - 1, input.parts) <= InOfFirst(n - 1, input.parts)
    <3>1. part - 1 \in 0..(n - 1) /\ n - 1 \in 0..n /\ part - 1 \in 0..n
      BY <1>2, <2>2
    <3>2. taken = InOfFirst(part - 1, input.parts) + in /\ input \in Inputs
      BY <1>1 DEF PlaceInv, TypeInv
    <3> QED BY <3>1, <3>2, SumsOfInput
  <2>4. input.length > InOfFirst(n - 1, input.parts)
    <3>1. input.parts # <<>> /\ input \in Inputs
      BY <1>1, <1>2, <2>2 DEF TypeInv
    <3> QED BY <3>1, InputsAssumption
  <2> QED BY <1>2, <1>3, <1>4, <2>3, <2>4
<1>6. /\ input.length = Whole(input.parts) /\ size = Decoded(input.parts)
      /\ \A k \in DOMAIN input.parts : input.parts[k].kind = "frame"
  <2>1. part - 1 = n /\ out = 0 /\ n \in 0..n
    BY <1>1, <1>2, <1>5 DEF PlaceInv
  <2>2. /\ taken = InOfFirst(n, input.parts) + 0 /\ size = OutOfFirst(n, input.parts) + 0
        /\ \A k \in 1..n : input.parts[k].kind = "frame"
    BY <1>1, <1>3, <2>1 DEF PlaceInv
  <2>3. InOfFirst(n, input.parts) \in Nat /\ OutOfFirst(n, input.parts) \in Nat
    BY <1>1, <2>1, SumsOfInput DEF TypeInv
  <2> QED BY <1>2, <1>4, <2>2, <2>3, SMTT(20) DEF Whole, Decoded
<1>7. input.parts # <<>>
  BY <1>2, <1>3, <1>5
<1>8. Sound
  BY <1>1, <1>6, <1>7 DEF Sound
<1> QED BY <1>1, <1>6, <1>8, EndInv DEF Statuses

LEMMA ZstdEmptyInv ==
  ASSUME IInv, ZstdEmpty
  PROVE  IInv'
<1>1. /\ TypeInv /\ PlaceInv /\ BufferInv /\ status = "running" /\ codec = "zstd" /\ read = 0
      /\ ~NeedsInput /\ End("format")
  BY DEF IInv, ZstdEmpty, Calling
<1>2. taken \in Nat /\ taken <= read /\ Available = read - taken /\ Len(input.parts) \in Nat /\ input.length \in Nat
  BY <1>1, HereFacts DEF BufferInv
<1>3. Available = 0
  BY <1>1, <1>2
<1>4. input.length = 0
  BY <1>1, <1>3 DEF NeedsInput, BufferInv
<1>5. input.parts = <<>>
  <2>1. SUFFICES ASSUME input.parts # <<>> PROVE FALSE
    OBVIOUS
  <2>2. input \in Inputs /\ input.parts \in Seq(Parts) /\ input.length > InOfFirst(Len(input.parts) - 1, input.parts)
    BY <1>1, <2>1, InputsAssumption DEF TypeInv
  <2>3. Len(input.parts) - 1 \in 0..Len(input.parts)
    <3>1. Len(input.parts) # 0
      BY <2>1, <2>2
    <3> QED BY <1>2, <3>1
  <2>4. InOfFirst(Len(input.parts) - 1, input.parts) \in Nat
    BY <2>2, <2>3, SumsOfInput
  <2> QED BY <1>4, <2>2, <2>4
<1>6. ~Sound
  BY <1>5 DEF Sound
<1> QED BY <1>1, <1>6, EndInv DEF Statuses

\* The end of a chunk's frame: it is the whole input, and of the size announced, or not.
LEMMA ChunkEnds ==
  ASSUME IInv, status = "running", codec # "zstd",
         NEW dIn \in 0..BufferIn, NEW dOut \in 0..BufferOut, Call(dIn, dOut), FrameOver(dIn, dOut)
  PROVE  /\ ChunkResult(dIn, dOut) = "ok" => Sound /\ size + dOut = Decoded(input.parts)
         /\ ChunkResult(dIn, dOut) # "ok" => ChunkResult(dIn, dOut) = "format" /\ ~Sound
<1> DEFINE n == Len(input.parts)
<1>1. /\ TypeInv /\ PlaceInv /\ BufferInv /\ part = 1
  BY DEF IInv, FrameInv
<1>2. /\ part \in DOMAIN input.parts /\ Part.kind = "frame" /\ dIn \in Nat /\ dOut \in Nat /\ dIn <= Available
      /\ Part.in \in Nat /\ Part.out \in Nat
  BY CallFacts
<1>3. /\ read \in Nat /\ taken \in Nat /\ in \in Nat /\ out \in Nat /\ size \in Nat /\ n \in Nat /\ input.length \in Nat
      /\ Available = read - taken /\ Remaining = input.length - read /\ Remaining \in Nat
      /\ DOMAIN input.parts = 1..n
  BY <1>1, HereFacts
<1>4. in + dIn = Part.in /\ out + dOut = Part.out
  BY DEF FrameOver
<1>5. /\ InOfFirst(1, input.parts) = Part.in /\ OutOfFirst(1, input.parts) = Part.out
      /\ (1 < n => Part.in < input.length) /\ taken = in /\ size = out
  <2>1. /\ InOfFirst(1, input.parts) \in Nat /\ OutOfFirst(1, input.parts) \in Nat
        /\ 1 < n => InOfFirst(1, input.parts) < input.length
    BY <1>1, <1>2, PartFacts
  <2>2. /\ InOfFirst(0, input.parts) = 0 /\ OutOfFirst(0, input.parts) = 0 /\ 1 \in 1..n
        /\ InOfFirst(1, input.parts) = InOfFirst(1 - 1, input.parts) + input.parts[1].in
        /\ OutOfFirst(1, input.parts) = OutOfFirst(1 - 1, input.parts) + input.parts[1].out
    BY <1>1, <1>2, <1>3, SumsOfInput DEF TypeInv
  <2>3. 1 - 1 = 0 /\ Part = input.parts[1]
    BY <1>1 DEF Part
  <2>4. InOfFirst(1, input.parts) = Part.in /\ OutOfFirst(1, input.parts) = Part.out
    BY <1>2, <2>2, <2>3
  <2>5. taken = InOfFirst(part - 1, input.parts) + in /\ size = OutOfFirst(part - 1, input.parts) + out
    BY <1>1 DEF PlaceInv
  <2>6. part - 1 = 0
    BY <1>1
  <2>7. taken = in /\ size = out
    BY <1>3, <2>2, <2>5, <2>6
  <2> QED BY <2>1, <2>4, <2>7
<1>6. taken + dIn = Part.in /\ size + dOut = Part.out
  BY <1>4, <1>5
<1>7. (Available = dIn /\ Remaining = 0) <=> input.length = Part.in
  <2>1. \A r, t, d, l, p \in Nat :
          t + d = p /\ d <= r - t /\ l - r \in Nat => ((r - t = d /\ l - r = 0) <=> l = p)
    OBVIOUS
  <2>2. /\ read \in Nat /\ taken \in Nat /\ dIn \in Nat /\ input.length \in Nat /\ Part.in \in Nat
        /\ taken + dIn = Part.in /\ dIn <= read - taken /\ input.length - read \in Nat
    BY ONLY <1>2, <1>3, <1>6
  <2>3. (read - taken = dIn /\ input.length - read = 0) <=> input.length = Part.in
    BY ONLY <2>1, <2>2
  <2> QED BY ONLY <1>3, <2>3
<1>8. Trailing(dIn) <=> input.length # Part.in
  <2>1. Trailing(dIn) <=> ~(Available = dIn /\ Remaining = 0)
    BY DEF Trailing
  <2> QED BY <1>7, <2>1
<1>9. Sound <=> input.length = Part.in /\ size + dOut = input.declared
  <2>1. ASSUME n = 1, input.length = Part.in, size + dOut = input.declared PROVE Sound
    <3>1. Whole(input.parts) = Part.in /\ Decoded(input.parts) = Part.out
      BY <1>5, <2>1 DEF Whole, Decoded
    <3>2. input.parts # <<>> /\ \A k \in DOMAIN input.parts : input.parts[k].kind = "frame"
      BY <1>1, <1>2, <1>3, <2>1 DEF Part
    <3> QED BY <1>6, <2>1, <3>1, <3>2 DEF Sound
  <2>2. input.length = Part.in => n = 1
    <3>1. SUFFICES ASSUME input.length = Part.in PROVE n = 1
      OBVIOUS
    <3>2. 1 \in 1..n /\ ~(1 < n)
      BY <1>1, <1>2, <1>3, <1>5, <3>1
    <3>3. n \in Nat
      BY <1>3
    <3> HIDE DEF n
    <3> QED BY ONLY <3>2, <3>3
  <2>3. ASSUME Sound PROVE input.length = Part.in /\ size + dOut = input.declared
    <3>1. n = 1 /\ input.length = Whole(input.parts) /\ Decoded(input.parts) = input.declared
      BY <2>3 DEF Sound
    <3>2. Whole(input.parts) = Part.in /\ Decoded(input.parts) = Part.out
      BY <1>5, <3>1 DEF Whole, Decoded
    <3> QED BY <1>6, <3>1, <3>2
  <2> QED BY <2>1, <2>2, <2>3
<1>10. ChunkResult(dIn, dOut) = IF input.length # Part.in \/ size + dOut # input.declared THEN "format" ELSE "ok"
  BY <1>8 DEF ChunkResult
<1>11. Sound => size + dOut = Decoded(input.parts)
  BY <1>9 DEF Sound
<1> QED BY <1>9, <1>10, <1>11

LEMMA ChunkCallInv ==
  ASSUME IInv, ChunkCall
  PROVE  IInv'
<1>1. PICK dIn \in 0..BufferIn, dOut \in 0..BufferOut :
        /\ Call(dIn, dOut)
        /\ IF Stuck(dIn, dOut) THEN End("format")
           ELSE IF ~Fits(dOut) THEN End("limit")
           ELSE /\ Advance(dIn, dOut)
                /\ size' = size + dOut
                /\ status' = ChunkResult(dIn, dOut)
                /\ UNCHANGED <<given, read, eof, complete, capacity>>
  BY DEF ChunkCall
<1>2. status = "running" /\ codec # "zstd" /\ ~NeedsInput
  BY DEF ChunkCall, Calling
<1>3. CASE Stuck(dIn, dOut)
  <2>1. End("format") /\ ~Sound
    BY <1>1, <1>2, <1>3, StuckUnsound
  <2> QED BY <1>2, <2>1, EndInv DEF Statuses
<1>4. CASE ~Stuck(dIn, dOut) /\ ~Fits(dOut)
  <2>1. End("limit") /\ Decoded(input.parts) > Limit
    BY <1>1, <1>4, TooMuch
  <2> QED BY <1>2, <2>1, EndInv DEF Statuses
<1>5. CASE ~Stuck(dIn, dOut) /\ Fits(dOut)
  <2>1. /\ Advance(dIn, dOut) /\ size' = size + dOut /\ status' = ChunkResult(dIn, dOut)
        /\ UNCHANGED <<codec, input, read, eof, complete, capacity>>
    BY <1>1, <1>5 DEF given
  <2>2. /\ PlaceInv' /\ BufferInv' /\ {read', taken', part', in', out', size'} \subseteq Nat
        /\ ~FrameOver(dIn, dOut) => part' = part
    BY <1>1, <2>1, AdvanceInv
  <2>3. size' <= Limit /\ capacity' <= Limit
    BY <1>1, <1>5, <2>1, TooMuch DEF IInv, LimitExact
  <2>4. Sound' = Sound /\ Decoded(input.parts)' = Decoded(input.parts)
    BY <2>1 DEF Sound
  <2>5. CASE FrameOver(dIn, dOut)
    <3>1. /\ status' = "ok" => Sound /\ size' = Decoded(input.parts)
          /\ status' # "ok" => status' = "format" /\ ~Sound
      BY <1>1, <1>2, <2>1, <2>5, ChunkEnds
    <3>2. status' \in Statuses /\ status' # "running" /\ status' # "limit"
      <4>1. status' \in {"ok", "format"}
        BY <3>1
      <4> QED BY <4>1 DEF Statuses
    <3>3. TypeInv'
      BY <2>1, <2>2, <3>2 DEF IInv, TypeInv
    <3>4. FrameInv'
      BY <1>2, <2>1, <3>2 DEF IInv, FrameInv
    <3>5. LimitExact'
      BY <2>3, <3>2 DEF LimitExact
    <3>6. AcceptsExactly'
      BY <2>1, <2>4, <3>1 DEF AcceptsExactly
    <3> QED BY <2>2, <3>3, <3>4, <3>5, <3>6 DEF IInv
  <2>6. CASE ~FrameOver(dIn, dOut)
    <3>1. status' = "running"
      BY <2>1, <2>6 DEF ChunkResult
    <3>2. TypeInv'
      BY <2>1, <2>2, <3>1 DEF IInv, TypeInv, Statuses
    <3>3. FrameInv'
      BY <1>2, <2>1, <2>2, <2>6 DEF IInv, FrameInv
    <3>4. LimitExact' /\ AcceptsExactly'
      BY <2>3, <3>1 DEF LimitExact, AcceptsExactly
    <3> QED BY <2>2, <3>2, <3>3, <3>4 DEF IInv
  <2> QED BY <2>5, <2>6
<1> QED BY <1>3, <1>4, <1>5

LEMMA DecoderRejectsInv ==
  ASSUME IInv, DecoderRejects
  PROVE  IInv'
<1>1. status = "running"
  BY DEF DecoderRejects, Calling
<1>2. CASE Rejects("garbage") /\ End("format")
  <2>1. ~Sound
    BY <1>2 DEF Rejects, Part, Sound
  <2> QED BY <1>1, <1>2, <2>1, EndInv DEF Statuses
<1>3. CASE Rejects("window") /\ End(IF codec = "zstd" THEN "limit" ELSE "format")
  <2>1. ~Sound /\ \E k \in DOMAIN input.parts : input.parts[k].kind = "window"
    BY <1>3 DEF Rejects, Part, Sound
  <2>2. CASE codec = "zstd"
    <3>1. End("limit")
      BY <1>3, <2>2
    <3> QED BY <1>1, <2>1, <3>1, EndInv DEF Statuses
  <2>3. CASE codec # "zstd"
    <3>1. End("format")
      BY <1>3, <2>3
    <3> QED BY <1>1, <2>1, <3>1, EndInv DEF Statuses
  <2> QED BY <2>2, <2>3
<1> QED BY <1>2, <1>3 DEF DecoderRejects

LEMMA DecoderWaitsInv ==
  ASSUME IInv, DecoderWaits
  PROVE  IInv'
<1>1. /\ TypeInv /\ PlaceInv /\ BufferInv /\ FrameInv /\ status = "running"
      /\ part \in DOMAIN input.parts /\ Available > 0 /\ Available < Part.in - in
      /\ taken' = read /\ in' = in + Available /\ complete' = FALSE
      /\ UNCHANGED <<codec, input, read, eof, part, out, size, capacity, status>>
  BY DEF IInv, DecoderWaits, Calling, Rejects, given
<1>2. /\ read \in Nat /\ taken \in Nat /\ in \in Nat /\ Available \in Nat /\ Available = read - taken
      /\ Part.in \in Nat /\ input.length \in Nat /\ Len(input.parts) \in Nat
  BY <1>1, HereFacts, PartFacts
<1>3. in + Available < Part.in /\ in + Available \in Nat /\ in + Available # 0
  BY ONLY <1>1, <1>2
<1>4. TypeInv'
  BY <1>1, <1>2, <1>3 DEF TypeInv
<1>5. PlaceInv'
  <2>1. /\ taken = InOfFirst(part - 1, input.parts) + in /\ InOfFirst(part - 1, input.parts) \in Nat
    <3>1. input \in Inputs /\ part \in 1..(Len(input.parts) + 1)
      BY <1>1 DEF TypeInv, PlaceInv
    <3>2. part - 1 \in 0..Len(input.parts)
      BY <1>2, <3>1
    <3>3. taken = InOfFirst(part - 1, input.parts) + in
      BY <1>1 DEF PlaceInv
    <3> QED BY <3>1, <3>2, <3>3, SumsOfInput
  <2>2. read = InOfFirst(part - 1, input.parts) + (in + Available)
    BY ONLY <1>2, <2>1, SMTT(20)
  <2>3. Part' = Part
    BY <1>1 DEF Part
  <2>4. in' <= Part.in /\ in' # Part.in
    BY <1>1, <1>2, <1>3
  <2> QED BY <1>1, <2>2, <2>3, <2>4 DEF PlaceInv
<1>6. BufferInv'
  BY <1>1, <1>2 DEF BufferInv
<1>7. FrameInv'
  BY <1>1, <1>3 DEF FrameInv
<1>8. LimitExact' /\ AcceptsExactly'
  BY <1>1 DEF IInv, LimitExact, AcceptsExactly
<1> QED BY <1>4, <1>5, <1>6, <1>7, <1>8 DEF IInv

LEMMA StarvedInv ==
  ASSUME IInv, Starved
  PROVE  IInv'
<1>1. /\ TypeInv /\ PlaceInv /\ BufferInv /\ FrameInv /\ status = "running" /\ ~NeedsInput /\ ~ZstdOver
      /\ Available = 0 /\ End("format") /\ (part \in DOMAIN input.parts => Part.kind # "frame")
  BY DEF IInv, Starved, Calling
<1>2. ~Sound
  <2>1. CASE part \in DOMAIN input.parts
    BY <1>1, <2>1 DEF Sound, Part
  <2>2. CASE part \notin DOMAIN input.parts
    <3>1. in = 0 /\ part \in 1..(Len(input.parts) + 1) /\ Len(input.parts) \in Nat /\ DOMAIN input.parts = 1..Len(input.parts)
      BY <1>1, <2>2, HereFacts DEF PlaceInv
    <3>2. part = 1
      <4>1. CASE codec = "zstd"
        <5>1. ~complete
          BY <1>1, <4>1 DEF NeedsInput, ZstdOver
        <5> QED BY <1>1, <3>1, <4>1, <5>1 DEF FrameInv
      <4>2. CASE codec # "zstd"
        BY <1>1, <4>2 DEF FrameInv
      <4> QED BY <4>1, <4>2
    <3>3. Len(input.parts) = 0 /\ input.parts \in Seq(Parts)
      BY <1>1, <2>2, <3>1, <3>2, InputsAssumption DEF TypeInv
    <3>4. input.parts = <<>>
      BY <3>3
    <3> QED BY <3>4 DEF Sound
  <2> QED BY <2>1, <2>2
<1> QED BY <1>1, <1>2, EndInv DEF Statuses

\* Whatever the decoder takes and gives, the loops keep the invariant.
THEOREM Invariance == Spec => []IInv
<1>1. ASSUME IInv, [Next]_vars PROVE IInv'
  <2>1. CASE ReadFails \/ WriteFails
    <3>1. status = "running" /\ End("io")
      BY <2>1 DEF ReadFails, WriteFails, Calling
    <3> QED BY <1>1, <3>1, EndInv DEF Statuses
  <2>2. CASE Done \/ UNCHANGED vars
    BY <1>1, <2>2, SMTT(20) DEF Done, vars, given, decoder, IInv, TypeInv, PlaceInv, BufferInv, FrameInv, LimitExact,
         AcceptsExactly, Part, Sound
  <2>3. CASE Step
    BY <1>1, <2>3, FillInv, ZstdReturnInv, ZstdEmptyInv, ZstdCallInv, ChunkCallInv, DecoderRejectsInv,
       DecoderWaitsInv, StarvedInv DEF Step
  <2> QED BY <1>1, <2>1, <2>2, <2>3 DEF Next
<1> QED BY <1>1, InitInv, PTL DEF Spec

\* The budgets of sqlite3.cpp and rosbag1.cpp hold for every decoder and every limit, and a
\* limit error is never raised for an output that fits.
THEOREM LimitsExact == Spec => []LimitExact
<1>1. IInv => LimitExact
  BY DEF IInv
<1> QED BY <1>1, Invariance, PTL

\* The three loops accept the inputs that are whole, with all of their output, and no others,
\* wherever the frames fall into the buffers.
THEOREM WholeInputs == Spec => []AcceptsExactly
<1>1. IInv => AcceptsExactly
  BY DEF IInv
<1> QED BY <1>1, Invariance, PTL

-----------------------------------------------------------------------------
(* Names of types                                                           *)

\* The name of n parts with "msg" put in front of its last part
Long(s, n) == [i \in 1..(n + 1) |-> IF i < n THEN s[i] ELSE IF i = n THEN "msg" ELSE s[n]]
\* normalize_type() leaves the name of n parts as it is.
IsFull(s, n) == n = 1 \/ (n > 2 /\ s[n - 1] \in {"msg", "action"})

\* The names in a type name, and those that normalisation makes
LEMMA NameFacts ==
  ASSUME NEW s, IsSequence(s), s # <<>>
  PROVE  \E n \in Nat : n > 0 /\ Len(s) = n /\ s = [i \in 1..n |-> s[i]]
           /\ \E X : "msg" \in X /\ s \in Seq(X) /\ \A i \in 1..n : s[i] \in X
<1>1. s \in Seq(ToSet(s))
  BY DEF IsSequence
<1> DEFINE X == ToSet(s) \cup {"msg"}
<1>2. s \in Seq(X) /\ "msg" \in X
  BY <1>1
<1>3. PICK n \in Nat : n = Len(s)
  BY <1>1
<1> HIDE DEF X
<1>4. s = [i \in 1..n |-> s[i]] /\ \A i \in 1..n : s[i] \in X
  BY <1>2, <1>3
<1>5. n # 0
  BY <1>2, <1>3, EmptySeq
<1> QED BY <1>2, <1>3, <1>4, <1>5

\* What it makes of a name whose middle is missing
LEMMA LongIs ==
  ASSUME NEW X, "msg" \in X, NEW s \in Seq(X), NEW n \in Nat, n > 1, Len(s) = n
  PROVE  /\ SubSeq(s, 1, n - 1) \o <<"msg", Last(s)>> = Long(s, n)
         /\ InsertAt(s, n, "msg") = Long(s, n)
<1>1. \A i \in 1..n : s[i] \in X
  OBVIOUS
<1> DEFINE p == SubSeq(s, 1, n - 1)
           t == SubSeq(s, n, n)
           m == <<"msg">>
           u == <<"msg", Last(s)>>
<1>2. p \in Seq(X) /\ Len(p) = n - 1 /\ \A i \in 1..(n - 1) : p[i] = s[i]
  BY <1>1
<1>3. t \in Seq(X) /\ Len(t) = 1 /\ t[1] = s[n]
  BY <1>1
<1>4. Last(s) = s[n] /\ s[n] \in X
  BY <1>1 DEF Last
<1>5. m \in Seq(X) /\ Len(m) = 1 /\ m[1] = "msg"
  OBVIOUS
<1>6. u \in Seq(X) /\ Len(u) = 2 /\ u[1] = "msg" /\ u[2] = s[n]
  BY <1>4
<1> HIDE DEF p, t, m, u
<1>7. PICK k \in Nat : k = n - 1
  OBVIOUS
<1>a. PICK one \in Nat : one = 1
  OBVIOUS
<1>b. PICK two \in Nat : two = 2
  OBVIOUS
<1>8. Len(p) = k /\ n = k + 1 /\ \A i \in 1..k : p[i] = s[i]
  BY <1>2, <1>7
<1>9. p \o u = Long(s, n)
  <2> DEFINE q == p \o u
  <2>0. q = p \o u
    OBVIOUS
  <2> HIDE DEF q
  <2>a. p \in Seq(X) /\ u \in Seq(X) /\ Len(p) = k /\ Len(u) = two
    BY <1>2, <1>6, <1>8, <1>b
  <2>s. q \in Seq(X)
    BY ONLY <2>a, <2>0
  <2>b. Len(q) = k + two
    BY <2>a, <2>0, ConcatProperties
  <2>c. \A i \in 1..k : q[i] = p[i]
    BY ONLY <2>a, <2>0, k \in Nat, two \in Nat
  <2>d. \A i \in 1..two : q[k + i] = u[i]
    BY ONLY <2>a, <2>0, k \in Nat, two \in Nat
  <2>1. /\ q \in Seq(X) /\ Len(q) = k + two
        /\ \A i \in 1..k : q[i] = p[i]
        /\ \A i \in 1..two : q[k + i] = u[i]
    BY <2>b, <2>c, <2>s, <2>d
  <2>2. q[k + 1] = "msg" /\ q[k + 2] = s[n]
    BY <1>6, <1>b, <2>1, 1 \in 1..2, 2 \in 1..2
  <2>3. \A i \in 1..(k + 2) : q[i] = Long(s, n)[i]
    <3> SUFFICES ASSUME NEW i \in 1..(k + 2) PROVE q[i] = Long(s, n)[i]
      OBVIOUS
    <3>1. Long(s, n)[i] = IF i < n THEN s[i] ELSE IF i = n THEN "msg" ELSE s[n]
      BY <1>8 DEF Long
    <3>2. i \in 1..k \/ i = k + 1 \/ i = k + 2
      OBVIOUS
    <3> QED BY <1>8, <2>1, <2>2, <3>1, <3>2
  <2>4. Long(s, n) = [i \in 1..(k + 2) |-> Long(s, n)[i]]
    BY <1>8 DEF Long
  <2>5. q = [i \in 1..(k + 2) |-> q[i]]
    BY ONLY <1>b, <2>1, k \in Nat
  <2>6. q = Long(s, n)
    BY <2>5, <2>3, <2>4
  <2> QED BY <2>6 DEF q
<1>10. (p \o m) \o t = Long(s, n)
  <2> DEFINE q == p \o m
             r == q \o t
  <2>0. q = p \o m /\ r = q \o t
    OBVIOUS
  <2> HIDE DEF q, r
  <2>a. p \in Seq(X) /\ m \in Seq(X) /\ Len(p) = k /\ Len(m) = one
    BY <1>2, <1>5, <1>8, <1>a
  <2>s. q \in Seq(X)
    BY ONLY <2>a, <2>0
  <2>b. Len(q) = k + one
    BY <2>a, <2>0, ConcatProperties
  <2>c. \A i \in 1..k : q[i] = p[i]
    BY ONLY <2>a, <2>0, k \in Nat, one \in Nat
  <2>d. \A i \in 1..one : q[k + i] = m[i]
    BY ONLY <2>a, <2>0, k \in Nat, one \in Nat, SMTT(20)
  <2>1. /\ q \in Seq(X) /\ Len(q) = k + 1 /\ \A i \in 1..k : q[i] = p[i]
        /\ \A i \in 1..one : q[k + i] = m[i]
    BY <1>a, <2>b, <2>c, <2>s, <2>d
  <2>j. r = q \o t
    BY <2>0
  <2>e. t \in Seq(X) /\ Len(t) = one /\ q \in Seq(X) /\ Len(q) = n
    BY <1>3, <1>8, <1>a, <2>1
  <2>f. r \in Seq(X) /\ Len(r) = n + one
    BY <2>e, <2>j, ConcatProperties
  <2>g. \A i \in 1..n : r[i] = q[i]
    BY ONLY <2>e, <2>j, n \in Nat, one \in Nat
  <2>h. \A i \in 1..one : r[n + i] = t[i]
    BY ONLY <2>j, <2>e, n \in Nat, one \in Nat, SMTT(20)
  <2>2. /\ r \in Seq(X) /\ Len(r) = n + 1
        /\ \A i \in 1..n : r[i] = q[i]
        /\ \A i \in 1..one : r[n + i] = t[i]
    BY <1>a, <2>f, <2>g, <2>h
  <2>3. q[n] = "msg" /\ r[n + 1] = s[n]
    BY <1>3, <1>5, <1>8, <1>a, <2>1, <2>2, 1 \in 1..1
  <2>4. \A i \in 1..(n + 1) : r[i] = Long(s, n)[i]
    <3> SUFFICES ASSUME NEW i \in 1..(n + 1) PROVE r[i] = Long(s, n)[i]
      OBVIOUS
    <3>1. Long(s, n)[i] = IF i < n THEN s[i] ELSE IF i = n THEN "msg" ELSE s[n]
      BY DEF Long
    <3>2. (i \in 1..k /\ i \in 1..n) \/ i = n \/ i = n + 1
      BY <1>8
    <3> QED BY <1>8, <2>1, <2>2, <2>3, <3>1, <3>2
  <2>5. Long(s, n) = [i \in 1..(n + 1) |-> Long(s, n)[i]]
    BY DEF Long
  <2>6. r = [i \in 1..(n + 1) |-> r[i]]
    BY ONLY <2>2, n \in Nat
  <2>7. r = Long(s, n)
    BY <2>4, <2>5, <2>6
  <2> QED BY <2>7 DEF r, q
<1> QED BY <1>9, <1>10 DEF InsertAt, p, t, m, u

\* What normalize_type() returns
LEMMA NormalIs ==
  ASSUME NEW X, "msg" \in X, NEW s \in Seq(X), NEW n \in Nat, n > 0, Len(s) = n
  PROVE  NormalizeType(s) = IF IsFull(s, n) THEN s ELSE Long(s, n)
<1>1. \A i \in 1..n : s[i] \in X
  OBVIOUS
<1> DEFINE p == SubSeq(s, 1, n - 1)
<1>2. NormalizeType(s) = IF n = 1 \/ (Len(p) > 1 /\ Last(p) \in {"msg", "action"})
                           THEN s ELSE p \o <<"msg", Last(s)>>
  BY DEF NormalizeType
<1>3. CASE n = 1
  BY <1>2, <1>3 DEF IsFull
<1>4. CASE n > 1
  <2>1. p \in Seq(X) /\ Len(p) = n - 1 /\ p[n - 1] = s[n - 1]
    BY <1>1, <1>4
  <2>2. Last(p) = s[n - 1]
    BY <2>1 DEF Last
  <2>3. p \o <<"msg", Last(s)>> = Long(s, n)
    BY <1>4, LongIs
  <2> HIDE DEF p
  <2>4. (n = 1 \/ (Len(p) > 1 /\ Last(p) \in {"msg", "action"})) <=> IsFull(s, n)
    BY <1>4, <2>1, <2>2 DEF IsFull
  <2> QED BY <1>2, <2>3, <2>4
<1> QED BY <1>3, <1>4

\* The names that normalize_type() takes to one name are those of one type.
LEMMA NormalForm ==
  ASSUME NEW a, IsSequence(a), a # <<>>, NEW b, IsSequence(b), b # <<>>
  PROVE  (NormalizeType(a) = NormalizeType(b)) <=> SameType(a, b)
<1> DEFINE Wider(x, y) == /\ Len(y) > 1 /\ Len(x) = Len(y) + 1 /\ x = InsertAt(y, Len(y), "msg")
                          /\ Len(y) > 2 => y[Len(y) - 1] \notin {"msg", "action"}
<1>1. PICK m \in Nat : m > 0 /\ Len(a) = m /\ a = [i \in 1..m |-> a[i]] /\ \E X : "msg" \in X /\ a \in Seq(X)
  BY NameFacts
<1>2. PICK n \in Nat : n > 0 /\ Len(b) = n /\ b = [i \in 1..n |-> b[i]] /\ \E X : "msg" \in X /\ b \in Seq(X)
  BY NameFacts
<1>3. ASSUME NEW y, NEW k \in Nat, k > 0, Len(y) = k, \E X : "msg" \in X /\ y \in Seq(X), NEW x
      PROVE  Wider(x, y) <=> (~IsFull(y, k) /\ x = Long(y, k))
  <2>1. ~IsFull(y, k) <=> k > 1 /\ (k > 2 => y[k - 1] \notin {"msg", "action"})
    <3>1. k = 1 \/ k > 1
      BY <1>3
    <3> QED BY <3>1 DEF IsFull
  <2>2. k > 1 => InsertAt(y, k, "msg") = Long(y, k)
    BY <1>3, LongIs
  <2>3. x = Long(y, k) => Len(x) = k + 1
    BY DEF Long
  <2> QED BY <1>3, <2>1, <2>2, <2>3
<1>4. SameType(a, b) <=> a = b \/ Wider(a, b) \/ Wider(b, a)
  <2>1. ~Wider(a, a) /\ ~Wider(b, b)
    BY <1>1, <1>2
  <2> QED BY <2>1 DEF SameType
<1>5. ASSUME NEW x, NEW y, NEW j \in Nat, NEW k \in Nat, k > 0, Len(x) = j, Len(y) = k,
             x = Long(y, k), ~IsFull(y, k)
      PROVE  IsFull(x, j)
  <2>1. k > 1
    BY <1>5 DEF IsFull
  <2>2. Len(Long(y, k)) = k + 1 /\ Long(y, k)[k] = "msg"
    BY <2>1 DEF Long
  <2>3. j = k + 1
    BY <1>5, <2>2
  <2> QED BY <1>5, <2>1, <2>2, <2>3 DEF IsFull
<1>6. ASSUME Long(a, m) = Long(b, n)
      PROVE  a = b
  <2>1. m = n
    <3>1. Len(Long(a, m)) = m + 1 /\ Len(Long(b, n)) = n + 1
      BY DEF Long
    <3> QED BY <1>6, <3>1
  <2>2. ASSUME NEW i \in 1..m PROVE a[i] = b[i]
    <3>1. CASE i < m
      <4>1. Long(a, m)[i] = a[i] /\ Long(b, n)[i] = b[i]
        BY <2>1, <3>1 DEF Long
      <4> QED BY <1>6, <4>1
    <3>2. CASE i = m
      <4>1. Long(a, m)[m + 1] = a[m]
        BY <1>1 DEF Long
      <4>2. Long(b, n)[n + 1] = b[n]
        BY <1>2 DEF Long
      <4> QED BY <1>6, <2>1, <3>2, <4>1, <4>2
    <3> QED BY <3>1, <3>2
  <2> QED BY <1>1, <1>2, <2>1, <2>2
<1>7. /\ NormalizeType(a) = IF IsFull(a, m) THEN a ELSE Long(a, m)
      /\ NormalizeType(b) = IF IsFull(b, n) THEN b ELSE Long(b, n)
  BY <1>1, <1>2, NormalIs
<1>8. /\ Wider(a, b) <=> (~IsFull(b, n) /\ a = Long(b, n))
      /\ Wider(b, a) <=> (~IsFull(a, m) /\ b = Long(a, m))
  BY <1>1, <1>2, <1>3
<1>9. /\ a = Long(b, n) /\ ~IsFull(b, n) => IsFull(a, m)
      /\ b = Long(a, m) /\ ~IsFull(a, m) => IsFull(b, n)
  BY <1>1, <1>2, <1>5
<1>10. a = b => m = n
  BY <1>1, <1>2
<1> HIDE DEF Wider
<1> QED BY <1>4, <1>6, <1>7, <1>8, <1>9, <1>10

-----------------------------------------------------------------------------
(* The registry                                                             *)

MessageKey == Key(use.message.profile, use.message.name)
\* The registrations so far that name the type of the message, and what each registers for it
Past == Offering \cap 1..registered
TypeAt(i) == CHOOSE t \in Offers(use.supports[i]) : TRUE

\* What has been registered for the type of the message was registered last for it; once
\* decode() is called, everything is registered.
RegistryInv ==
  /\ use \in Uses /\ registered \in 0..Len(use.supports)
  /\ MessageKey \in DOMAIN supports_ <=> Past # {}
  /\ Past # {} => supports_[MessageKey].type = TypeAt(Max(Past))
  /\ \A k \in DOMAIN supports_ : supports_[k].type \in Types \cup {"legacy"}
  /\ progress # "new" => registered = Len(use.supports)
  /\ progress = "new" => format = "none"

\* What one use of the library does
LEMMA UseFacts ==
  ASSUME NEW u \in Uses
  PROVE  /\ Len(u.supports) \in Nat /\ DOMAIN u.supports = 1..Len(u.supports)
         /\ \A i \in 1..Len(u.supports) :
              /\ u.supports[i].type \in Types \cup {"legacy", "all"}
              /\ u.supports[i].type # "all" => IsSequence(u.supports[i].name) /\ u.supports[i].name # <<>>
         /\ IsSequence(u.message.name) /\ u.message.name # <<>> /\ u.sizes \subseteq 0..(Word - 1)
         /\ u.policy \in Policies
<1>1. u.supports \in Seq(ToSet(u.supports))
  BY UsesAssumption DEF IsSequence
<1>2. Len(u.supports) \in Nat /\ DOMAIN u.supports = 1..Len(u.supports)
  BY <1>1
<1> QED BY <1>2, UsesAssumption

\* The names of the built-in types are in their normal form.
LEMMA BuiltinNames ==
  ASSUME NEW t
  PROVE  /\ IsSequence(BuiltinName(t)) /\ BuiltinName(t) # <<>>
         /\ NormalizeType(BuiltinName(t)) = BuiltinName(t)
<1> DEFINE last == CASE t = "std_Time" -> "Time" [] t = "std_Duration" -> "Duration" [] OTHER -> t
           p == PackageOf(t)
           X == {p, "msg", last}
           s == <<p, "msg", last>>
<1>1. BuiltinName(t) = s
  BY DEF BuiltinName
<1> HIDE DEF last, p
<1>2. s \in Seq(X) /\ s # <<>> /\ Len(s) = 3 /\ s[2] = "msg" /\ "msg" \in X
  OBVIOUS
<1>3. IsSequence(s)
  <2>1. ToSet(s) = X
    <3>1. DOMAIN s = {1, 2, 3}
      OBVIOUS
    <3> QED BY <3>1 DEF ToSet
  <2> QED BY <1>2, <2>1 DEF IsSequence
<1> HIDE DEF s, X
<1>4. NormalizeType(s) = s
  <2>1. PICK n \in Nat : n = 3
    OBVIOUS
  <2>2. n > 2 /\ n > 0 /\ n - 1 = 2 /\ Len(s) = n
    BY <1>2, <2>1
  <2>3. IsFull(s, n)
    BY <1>2, <2>2 DEF IsFull
  <2> QED BY ONLY <1>2, <2>2, <2>3, n \in Nat, NormalIs
<1> QED BY <1>1, <1>2, <1>3, <1>4

\* No two built-in types have one name.
LEMMA BuiltinsApart ==
  ASSUME NEW profile, NEW t \in RegisteredTypes(profile), NEW u \in RegisteredTypes(profile),
         NormalizeType(BuiltinName(t)) = NormalizeType(BuiltinName(u))
  PROVE  t = u
<1>1. BuiltinName(t) = BuiltinName(u)
  BY BuiltinNames
<1>2. t \notin {"Time", "Duration"} /\ u \notin {"Time", "Duration"}
  BY DEF RegisteredTypes
<1> DEFINE Last3(x) == CASE x = "std_Time" -> "Time" [] x = "std_Duration" -> "Duration" [] OTHER -> x
<1>3. \A x : BuiltinName(x)[3] = Last3(x)
  BY DEF BuiltinName
<1>4. Last3(t) = Last3(u)
  BY <1>1, <1>3
<1> QED BY <1>2, <1>4

\* A registration of one type: its key is that of the message exactly if it names its type.
LEMMA OneOffers ==
  ASSUME use \in Uses, NEW i \in 1..Len(use.supports), use.supports[i].type # "all"
  PROVE  /\ i \in Offering <=> Key(use.supports[i].profile, use.supports[i].name) = MessageKey
         /\ i \in Offering => TypeAt(i) = use.supports[i].type
<1> DEFINE step == use.supports[i]
<1>1. /\ IsSequence(step.name) /\ step.name # <<>>
      /\ IsSequence(use.message.name) /\ use.message.name # <<>> /\ i \in DOMAIN use.supports
  BY UseFacts
<1>2. (NormalizeType(step.name) = NormalizeType(use.message.name)) <=> SameType(step.name, use.message.name)
  BY <1>1, NormalForm
<1>3. Offers(step) = IF SameType(step.name, use.message.name) THEN {step.type} ELSE {}
  BY DEF Offers
<1>4. i \in Offering <=> step.profile = use.message.profile /\ Offers(step) # {}
  BY <1>1 DEF Offering
<1>5. Key(step.profile, step.name) = MessageKey
        <=> step.profile = use.message.profile /\ NormalizeType(step.name) = NormalizeType(use.message.name)
  BY DEF Key, MessageKey
<1>6. i \in Offering => Offers(step) = {step.type}
  BY <1>3, <1>4
<1>7. i \in Offering => TypeAt(i) = step.type
  BY <1>6 DEF TypeAt
<1> HIDE DEF step
<1> QED BY <1>2, <1>3, <1>4, <1>5, <1>7 DEF step

\* A registration of all built-in types: the key of the message is one of theirs exactly if
\* one of them has its name, and it is that type's.
LEMMA AllOffer ==
  ASSUME use \in Uses, NEW i \in 1..Len(use.supports), use.supports[i].type = "all"
  PROVE  LET more == BuiltinSupports(use.supports[i].profile) IN
         /\ i \in Offering <=> MessageKey \in DOMAIN more
         /\ i \in Offering => TypeAt(i) = more[MessageKey].type
         /\ \A k \in DOMAIN more : more[k].type \in Types
<1> DEFINE step == use.supports[i]
           profile == step.profile
           types == RegisteredTypes(profile)
           more == BuiltinSupports(profile)
           At(k) == CHOOSE t \in types : Key(profile, BuiltinName(t)) = k
<1>1. IsSequence(use.message.name) /\ use.message.name # <<>> /\ i \in DOMAIN use.supports
  BY UseFacts
<1>2. /\ DOMAIN more = {Key(profile, BuiltinName(t)) : t \in types}
      /\ \A k \in DOMAIN more : more[k].type = At(k)
  BY DEF BuiltinSupports
<1>3. Offers(step) = {t \in types : SameType(BuiltinName(t), use.message.name)}
  BY DEF Offers
<1>4. i \in Offering <=> profile = use.message.profile /\ Offers(step) # {}
  BY <1>1 DEF Offering
<1>5. ASSUME NEW t \in types
      PROVE  Key(profile, BuiltinName(t)) = MessageKey <=> profile = use.message.profile /\ t \in Offers(step)
  <2>1. (NormalizeType(BuiltinName(t)) = NormalizeType(use.message.name))
           <=> SameType(BuiltinName(t), use.message.name)
    BY <1>1, BuiltinNames, NormalForm
  <2>2. Key(profile, BuiltinName(t)) = MessageKey
          <=> profile = use.message.profile /\ NormalizeType(BuiltinName(t)) = NormalizeType(use.message.name)
    BY DEF Key, MessageKey
  <2> QED BY <1>3, <2>1, <2>2
<1>6. types \subseteq Types
  BY DEF RegisteredTypes, Types
<1>7. Offers(step) \subseteq types
  BY <1>3
<1> HIDE DEF step, profile, types, more
<1>8. \A k \in DOMAIN more : At(k) \in types /\ Key(profile, BuiltinName(At(k))) = k
  BY <1>2
<1>9. i \in Offering <=> MessageKey \in DOMAIN more
  BY <1>2, <1>4, <1>5, <1>7
<1>10. ASSUME i \in Offering
       PROVE  TypeAt(i) = more[MessageKey].type
  <2> DEFINE k == MessageKey
             a == At(k)
             b == TypeAt(i)
  <2>1. k \in DOMAIN more
    BY <1>9, <1>10
  <2>2. a \in types /\ Key(profile, BuiltinName(a)) = k /\ more[k].type = a
    BY <1>2, <1>8, <2>1
  <2>3. b \in Offers(step)
    BY <1>4, <1>10 DEF TypeAt, step
  <2>4. b \in types /\ Key(profile, BuiltinName(b)) = k
    BY <1>4, <1>5, <1>7, <1>10, <2>3
  <2> HIDE DEF a, b, k
  <2>5. NormalizeType(BuiltinName(a)) = NormalizeType(BuiltinName(b))
    BY <2>2, <2>4 DEF Key
  <2>6. a = b
    BY <2>2, <2>4, <2>5, BuiltinsApart DEF types
  <2> QED BY <2>2, <2>6 DEF b, k
<1> QED BY <1>2, <1>6, <1>8, <1>9, <1>10 DEF more, profile, step

\* A table over another one
LEMMA TwoTables ==
  ASSUME NEW f, NEW g, NEW h, h = Both(f, g)
  PROVE  /\ DOMAIN h = DOMAIN f \cup DOMAIN g
         /\ \A x \in DOMAIN f : h[x] = f[x]
         /\ \A x \in DOMAIN g : x \notin DOMAIN f => h[x] = g[x]
BY DEF Both

\* The supports that were registered before
LEMMA PastFacts ==
  ASSUME use \in Uses, registered \in 0..Len(use.supports)
  PROVE  Past # {} => Max(Past) \in Past /\ \A i \in Past : i <= Max(Past)
<1>1. Len(use.supports) \in Nat
  BY UseFacts
<1>2. Past \in SUBSET Int /\ registered \in Int /\ \A i \in Past : i <= registered
  BY <1>1 DEF Past
<1> QED BY ONLY <1>2, MaxOfBounded

\* One more registration, of the types in more
LEMMA RegisteredKeeps ==
  ASSUME RegistryInv, registered < Len(use.supports), registered' = registered + 1,
         UNCHANGED <<readerVars, use>>, NEW more, supports_' = Both(more, supports_),
         \A k \in DOMAIN more : more[k].type \in Types \cup {"legacy"},
         (registered + 1 \in Offering) <=> MessageKey \in DOMAIN more,
         registered + 1 \in Offering => TypeAt(registered + 1) = more[MessageKey].type
  PROVE  RegistryInv'
<1> DEFINE n == registered + 1
<1>1. Len(use.supports) \in Nat /\ registered \in 0..Len(use.supports) /\ use \in Uses
  BY UseFacts DEF RegistryInv
<1>2. n \in 1..Len(use.supports) /\ n \in 0..Len(use.supports) /\ registered' = n
  BY <1>1
<1>3. use' = use /\ progress' = progress /\ format' = format
  BY DEF readerVars, payload
<1>4. MessageKey' = MessageKey /\ Offering' = Offering /\ \A i : TypeAt(i)' = TypeAt(i)
  BY <1>3 DEF MessageKey, Offering, TypeAt, Offers
<1>5. /\ DOMAIN supports_' = DOMAIN more \cup DOMAIN supports_
      /\ \A k \in DOMAIN more : supports_'[k] = more[k]
      /\ \A k \in DOMAIN supports_ : k \notin DOMAIN more => supports_'[k] = supports_[k]
  <2>1. PICK now : now = supports_'
    OBVIOUS
  <2>2. PICK before : before = supports_
    OBVIOUS
  <2>3. now = Both(more, before)
    BY <2>1, <2>2
  <2>4. /\ DOMAIN now = DOMAIN more \cup DOMAIN before
        /\ \A k \in DOMAIN more : now[k] = more[k]
        /\ \A k \in DOMAIN before : k \notin DOMAIN more => now[k] = before[k]
    BY ONLY <2>3 DEF Both
  <2> QED BY ONLY <2>1, <2>2, <2>4
<1>6. Past' = Past \cup (IF n \in Offering THEN {n} ELSE {})
  BY <1>1, <1>2, <1>4 DEF Past
<1>7. (MessageKey \in DOMAIN supports_ <=> Past # {})
      /\ (Past # {} => supports_[MessageKey].type = TypeAt(Max(Past)))
  BY DEF RegistryInv
<1>8. MessageKey' \in DOMAIN supports_' <=> Past' # {}
  BY <1>4, <1>5, <1>6, <1>7
<1>9. ASSUME Past' # {}
      PROVE  supports_'[MessageKey'].type = TypeAt(Max(Past))'
  <2>1. CASE n \in Offering
    <3>1. n \in Past' /\ \A i \in Past' : i <= n /\ i \in Int
      BY <1>1, <1>6, <2>1 DEF Past
    <3>2. Max(Past') = n
      BY <1>1, <3>1, MaxIs
    <3>3. MessageKey \in DOMAIN more
      BY <2>1
    <3> QED BY <1>4, <1>5, <2>1, <3>2, <3>3
  <2>2. CASE n \notin Offering
    BY <1>4, <1>5, <1>6, <1>7, <1>9, <2>2
  <2> QED BY <2>1, <2>2
<1>10. \A k \in DOMAIN supports_' : supports_'[k].type \in Types \cup {"legacy"}
  BY <1>5 DEF RegistryInv
<1> QED BY <1>1, <1>2, <1>3, <1>8, <1>9, <1>10 DEF RegistryInv

\* One more support
LEMMA RegisterTypeKeeps == RegistryInv /\ RegisterType => RegistryInv'
<1> SUFFICES ASSUME RegistryInv, RegisterType PROVE RegistryInv'
  OBVIOUS
<1> DEFINE step == use.supports[registered + 1]
           key == Key(step.profile, step.name)
           more == [k \in {key} |-> step]
<1>1. /\ registered < Len(use.supports) /\ step.type # "all" /\ registered' = registered + 1
      /\ supports_' = Both(more, supports_) /\ UNCHANGED <<readerVars, use>>
  BY DEF RegisterType, Registered, Registering
<1>2. use \in Uses /\ registered \in 0..Len(use.supports) /\ Len(use.supports) \in Nat
  BY UseFacts DEF RegistryInv
<1>3. registered + 1 \in 1..Len(use.supports)
  BY <1>1, <1>2
<1>4. /\ registered + 1 \in Offering <=> key = MessageKey
      /\ registered + 1 \in Offering => TypeAt(registered + 1) = step.type
  BY <1>1, <1>2, <1>3, OneOffers
<1>5. step.type \in Types \cup {"legacy"}
  BY <1>1, <1>2, <1>3, UseFacts
<1> HIDE DEF key, step
<1>6. DOMAIN more = {key} /\ more[key] = step
  OBVIOUS
<1> HIDE DEF more
<1> QED BY <1>1, <1>4, <1>5, <1>6, RegisteredKeeps

\* All built-in types at once
LEMMA RegisterBuiltinTypesKeeps == RegistryInv /\ RegisterBuiltinTypes => RegistryInv'
<1> SUFFICES ASSUME RegistryInv, RegisterBuiltinTypes PROVE RegistryInv'
  OBVIOUS
<1> DEFINE step == use.supports[registered + 1]
           more == BuiltinSupports(step.profile)
<1>1. /\ registered < Len(use.supports) /\ step.type = "all" /\ registered' = registered + 1
      /\ supports_' = Both(more, supports_) /\ UNCHANGED <<readerVars, use>>
  BY DEF RegisterBuiltinTypes, Registered, Registering
<1>2. use \in Uses /\ registered \in 0..Len(use.supports) /\ Len(use.supports) \in Nat
  BY UseFacts DEF RegistryInv
<1>3. registered + 1 \in 1..Len(use.supports)
  BY <1>1, <1>2
<1>4. /\ registered + 1 \in Offering <=> MessageKey \in DOMAIN more
      /\ registered + 1 \in Offering => TypeAt(registered + 1) = more[MessageKey].type
      /\ \A k \in DOMAIN more : more[k].type \in Types
  BY <1>1, <1>2, <1>3, AllOffer
<1> HIDE DEF step, more
<1> QED BY <1>1, <1>4, RegisteredKeeps

\* A step that registers nothing, after all has been registered
LEMMA RegistryKept ==
  ASSUME RegistryInv, UNCHANGED registrations, registered = Len(use.supports), progress' # "new"
  PROVE  RegistryInv'
<1>1. use' = use /\ registered' = registered /\ supports_' = supports_
  BY DEF registrations
<1>2. MessageKey' = MessageKey /\ Past' = Past /\ \A i : TypeAt(i)' = TypeAt(i)
  BY <1>1 DEF MessageKey, Past, Offering, TypeAt, Offers
<1> QED BY <1>1, <1>2 DEF RegistryInv

\* What a reader's step leaves alone, and what it may answer
Answers == {"reading", "ok", "truncated", "bound", "nul", "limit", "depth", "elements", "trailing"}
\* Reading leaves the payload as it is.
LEMMA ReadKeeps ==
  ASSUME Read
  PROVE  progress = "reading" /\ UNCHANGED payload /\ progress' \in Answers
<1>1. CASE ReadNumber
  BY <1>1 DEF ReadNumber, Reading, Throw, Answers
<1>2. ASSUME NEW n \in Lengths, NEW nul \in BOOLEAN, ReadString(n, nul)
      PROVE  progress = "reading" /\ UNCHANGED payload /\ progress' \in Answers
  BY <1>2 DEF ReadString, Reading, Throw, ThrowTooShort, Answers
<1>3. CASE EnterMessage
  BY <1>3 DEF EnterMessage, Reading, Throw, Answers
<1>4. CASE LeaveMessage
  BY <1>4 DEF LeaveMessage, Reading, Answers
<1>5. ASSUME NEW n \in Lengths, ReadSequence(n)
      PROVE  progress = "reading" /\ UNCHANGED payload /\ progress' \in Answers
  BY <1>5 DEF ReadSequence, Reading, Throw, ThrowTooShort, Answers
<1>6. CASE ReadBytes
  BY <1>6 DEF ReadBytes, Reading, Throw, Answers
<1>7. CASE ReadElement
  BY <1>7 DEF ReadElement, Reading, Answers
<1>8. CASE Finish
  BY <1>8 DEF Finish, Reading, Throw, Answers
<1> QED BY <1>1, <1>2, <1>3, <1>4, <1>5, <1>6, <1>7, <1>8 DEF Read

\* Once all is registered, the entry of the message's key is what was meant.
LEMMA FoundIsMeant ==
  ASSUME RegistryInv, registered = Len(use.supports)
  PROVE  (Found <=> Offering # {}) /\ (Found => Support.type = Meant /\ Meant \in Types \cup {"legacy"})
<1>1. use \in Uses /\ Len(use.supports) \in Nat /\ DOMAIN use.supports = 1..Len(use.supports)
  BY UseFacts DEF RegistryInv
<1>2. Past = Offering
  BY <1>1 DEF Past, Offering
<1>3. Found <=> MessageKey \in DOMAIN supports_
  BY DEF Found, MessageKey
<1>4. Found <=> Offering # {}
  BY <1>2, <1>3 DEF RegistryInv
<1>5. ASSUME Found PROVE Support.type = Meant /\ Meant \in Types \cup {"legacy"}
  <2>1. Support = supports_[MessageKey]
    BY DEF Support, MessageKey
  <2>2. supports_[MessageKey].type = TypeAt(Max(Past)) /\ supports_[MessageKey].type \in Types \cup {"legacy"}
    BY <1>2, <1>3, <1>4, <1>5 DEF RegistryInv
  <2>3. TypeAt(Max(Past)) = Meant
    BY <1>2 DEF TypeAt, Meant
  <2> QED BY <2>1, <2>2, <2>3
<1> QED BY <1>4, <1>5

DecodeInv == RegistryInv /\ DecodesAsRegistered

\* What was decided stays so.
LEMMA DecodesKept ==
  ASSUME DecodesAsRegistered, UNCHANGED <<use, format, root>>,
         progress' = progress \/ progress' \notin {"custom", "wrapped", "unregistered", "raw", "nothing"}
  PROVE  DecodesAsRegistered'
<1>1. Offering' = Offering /\ Meant' = Meant
  BY DEF Offering, Offers, Meant
<1> QED BY <1>1 DEF DecodesAsRegistered

\* Every step keeps to what is registered.
LEMMA DecodeStep ==
  ASSUME DecodeInv, [DecodeNext]_allVars
  PROVE  DecodeInv'
<1>1. RegistryInv /\ DecodesAsRegistered
  BY DEF DecodeInv
<1>2. CASE RegisterType
  <2>1. UNCHANGED <<use, format, root, progress>>
    BY <1>2 DEF RegisterType, readerVars, payload
  <2> QED BY <1>1, <1>2, <2>1, RegisterTypeKeeps, DecodesKept DEF DecodeInv
<1>3. CASE RegisterBuiltinTypes
  <2>1. UNCHANGED <<use, format, root, progress>>
    BY <1>3 DEF RegisterBuiltinTypes, readerVars, payload
  <2> QED BY <1>1, <1>3, <2>1, RegisterBuiltinTypesKeeps, DecodesKept DEF DecodeInv
<1>4. ASSUME NEW outcome, Answer(outcome), Decoding, outcome # "new",
             outcome \in {"custom", "wrapped"} => Offering # {} /\ Meant = "legacy",
             outcome \in {"unregistered", "raw", "nothing"} => Offering = {}
      PROVE  DecodeInv'
  <2>1. progress' = outcome /\ UNCHANGED <<format, root, registrations>>
    BY <1>4 DEF Answer
  <2>2. use' = use
    BY <2>1 DEF registrations
  <2>3. Offering' = Offering /\ Meant' = Meant
    BY <2>2 DEF Offering, Offers, Meant
  <2>4. registered = Len(use.supports)
    BY <1>4 DEF Decoding
  <2>5. RegistryInv'
    BY <1>1, <1>4, <2>1, <2>4, RegistryKept
  <2>6. DecodesAsRegistered'
    BY <1>1, <1>4, <2>1, <2>3 DEF DecodesAsRegistered
  <2> QED BY <2>5, <2>6 DEF DecodeInv
<1>5. Decoding => (Found <=> Offering # {}) /\ (Found => Support.type = Meant /\ Meant \in Types \cup {"legacy"})
  BY <1>1, FoundIsMeant DEF Decoding
<1>6. CASE NoMessage
  BY <1>4, <1>6, Zenon DEF NoMessage
<1>7. CASE Unregistered
  <2>1. Decoding /\ ~Found /\ Offering = {}
    BY <1>5, <1>7 DEF Unregistered
  <2>2. use.policy \in Policies
    BY <1>1, UseFacts DEF RegistryInv
  <2>3. \E outcome \in {"unregistered", "raw", "nothing"} : Answer(outcome)
    BY <1>7, <2>2 DEF Unregistered, Policies
  <2> QED BY <1>4, <2>1, <2>3
<1>8. CASE Unsupported
  BY <1>4, <1>8 DEF Unsupported
<1>9. CASE CallLegacy
  <2>1. Decoding /\ Offering # {} /\ Meant = "legacy"
    BY <1>5, <1>9 DEF CallLegacy
  <2>2. \E outcome \in {"custom", "wrapped"} : Answer(outcome)
    BY <1>9 DEF CallLegacy
  <2> QED BY <1>4, <2>1, <2>2
<1>10. CASE BeginSupport
  <2>1. /\ Decoding /\ Offering # {} /\ Support.type = Meant /\ UNCHANGED registrations
        /\ \E wellFormed \in BOOLEAN : Begin(FormatOf, Support.type, wellFormed)
    BY <1>5, <1>10 DEF BeginSupport
  <2>2. root' = Meant /\ progress' \in {"header", "limit", "reading"}
    BY <2>1 DEF Begin
  <2>3. use' = use
    BY <2>1 DEF registrations
  <2>4. Offering' = Offering /\ Meant' = Meant
    BY <2>3 DEF Offering, Offers, Meant
  <2>5. registered = Len(use.supports)
    BY <2>1 DEF Decoding
  <2>6. RegistryInv'
    BY <1>1, <2>1, <2>2, <2>5, RegistryKept
  <2>7. DecodesAsRegistered'
    BY <2>1, <2>2, <2>4 DEF DecodesAsRegistered
  <2> QED BY <2>6, <2>7 DEF DecodeInv
<1>11. CASE Read /\ UNCHANGED registrations
  <2>1. progress = "reading" /\ UNCHANGED payload /\ progress' \in Answers
    BY <1>11, ReadKeeps
  <2>2. registered = Len(use.supports)
    BY <1>1, <2>1 DEF RegistryInv
  <2>3. progress' # "new"
    BY <2>1 DEF Answers
  <2>4. RegistryInv'
    BY <1>1, <1>11, <2>2, <2>3, RegistryKept
  <2>5. UNCHANGED <<use, format, root>>
    BY <1>11, <2>1 DEF payload, registrations
  <2>6. progress' \notin {"custom", "wrapped", "unregistered", "raw", "nothing"}
    BY <2>1 DEF Answers
  <2>7. DecodesAsRegistered'
    BY <1>1, <2>5, <2>6, DecodesKept
  <2> QED BY <2>4, <2>7 DEF DecodeInv
<1>12. CASE UNCHANGED allVars
  <2>1. UNCHANGED <<use, registered, supports_, format, root, progress>>
    BY <1>12 DEF allVars, registrations, readerVars, payload
  <2>2. MessageKey' = MessageKey /\ Past' = Past /\ \A i : TypeAt(i)' = TypeAt(i)
    BY <2>1 DEF MessageKey, Past, Offering, TypeAt, Offers
  <2>3. RegistryInv'
    BY <1>1, <2>1, <2>2 DEF RegistryInv
  <2> QED BY <1>1, <2>1, <2>3, DecodesKept DEF DecodeInv
<1> QED BY <1>2, <1>3, <1>6, <1>7, <1>8, <1>9, <1>10, <1>11, <1>12 DEF DecodeNext, Answered

\* Nothing is registered at first.
LEMMA DecodeBegins == DecodeInit => DecodeInv
<1> SUFFICES ASSUME DecodeInit PROVE DecodeInv
  OBVIOUS
<1>1. use \in Uses /\ registered = 0 /\ supports_ = <<>> /\ progress = "new" /\ format = "none"
  BY DEF DecodeInit, ReaderInit
<1>2. Len(use.supports) \in Nat
  BY <1>1, UseFacts
<1>3. Past = {} /\ DOMAIN supports_ = {}
  BY <1>1 DEF Past
<1>4. RegistryInv
  BY <1>1, <1>2, <1>3 DEF RegistryInv
<1> QED BY <1>1, <1>4 DEF DecodeInv, DecodesAsRegistered

\* The entry found in the registry is what was registered last for the type of the message,
\* under either of the type's names, whatever the application registered before and after.
THEOREM DecodeInvariance == DecodeSpec => []DecodeInv
<1>1. DecodeInit => DecodeInv
  BY DecodeBegins
<1>2. DecodeInv /\ [DecodeNext]_allVars => DecodeInv'
  BY DecodeStep
<1> QED BY <1>1, <1>2, PTL DEF DecodeSpec

THEOREM DecodesMeantType == DecodeSpec => []DecodesAsRegistered
<1>1. DecodeInv => DecodesAsRegistered
  BY DEF DecodeInv
<1> QED BY <1>1, DecodeInvariance, PTL

-----------------------------------------------------------------------------
(* Sizes in a word                                                          *)

\* A difference that is not negative is that of the numbers.
LEMMA MinusIs ==
  ASSUME NEW a \in 0..(Word - 1), NEW b \in 0..a
  PROVE  Minus(a, b) = a - b
<1>1. Word \in Nat /\ a \in Nat /\ b \in Nat /\ b <= a /\ a < Word
  BY WordAssumption
<1>2. \A w \in Nat, d \in Nat : d < w => (d + w) % w = d
  OBVIOUS
<1>3. a - b \in Nat /\ a - b < Word /\ a + Word - b = (a - b) + Word
  BY <1>1
<1> QED BY ONLY <1>1, <1>2, <1>3 DEF Minus

\* A product that fits into a word is that of the numbers.
LEMMA TimesIs ==
  ASSUME NEW a \in Nat, NEW b \in Nat, a * b < Word
  PROVE  Times(a, b) = a * b
<1>1. Word \in Nat /\ a * b \in Nat
  BY WordAssumption
<1>2. \A w \in Nat, d \in Nat : d < w => d % w = d
  OBVIOUS
<1> QED BY ONLY <1>1, <1>2, a * b < Word DEF Times

-----------------------------------------------------------------------------
(* What decoding does to the reader                                         *)

Verdicts == {"no message", "unregistered", "raw", "nothing", "unsupported", "custom", "wrapped"}

\* A reader is begun, reads, or is left alone with or without a verdict.
LEMMA ReaderSteps ==
  ASSUME DecodeInv, [DecodeNext]_allVars
  PROVE  \/ \E form \in Formats, t \in Types, wellFormed \in BOOLEAN : Begin(form, t, wellFormed)
         \/ Read
         \/ UNCHANGED readerVars
         \/ /\ progress = "new" /\ progress' \in Verdicts
            /\ UNCHANGED <<size_, format, root, position, allocated, depth, todo, history>>
<1>1. RegistryInv
  BY DEF DecodeInv
<1>2. CASE RegisterType \/ RegisterBuiltinTypes \/ UNCHANGED allVars
  BY <1>2 DEF RegisterType, RegisterBuiltinTypes, allVars
<1>3. CASE NoMessage
  BY <1>3, Zenon DEF NoMessage, Answer, Decoding, Verdicts
<1>4. CASE Unregistered
  <2>1. use.policy \in Policies
    BY <1>1, UseFacts DEF RegistryInv
  <2> QED BY <1>4, <2>1, Zenon DEF Unregistered, Answer, Decoding, Verdicts, Policies
<1>5. CASE Unsupported
  BY <1>5 DEF Unsupported, Answer, Decoding, Verdicts
<1>6. CASE CallLegacy
  BY <1>6, Zenon DEF CallLegacy, Answer, Decoding, Verdicts
<1>7. CASE BeginSupport
  <2>1. registered = Len(use.supports) /\ Found /\ Support.type # "legacy" /\ FormatOf # "unsupported"
        /\ \E wellFormed \in BOOLEAN : Begin(FormatOf, Support.type, wellFormed)
    BY <1>7 DEF BeginSupport, Decoding
  <2>2. Support.type \in Types
    BY <1>1, <2>1, FoundIsMeant
  <2>3. FormatOf \in Formats
    BY <2>1, Zenon DEF FormatOf, Formats
  <2> QED BY <2>1, <2>2, <2>3
<1> QED BY <1>2, <1>3, <1>4, <1>5, <1>6, <1>7 DEF DecodeNext, Answered

\* The calls that a reading function has before it
CallSet ==
  [do : {"element"}, of : WireElement] \cup [do : {"repeat", "bytes"}, of : WireElement, n : Nat]
    \cup [do : {"sequence"}, of : WireElement, bound : Nat] \cup [do : {"leave", "finish"}]

\* The parts of a call
LEMMA CallsAre ==
  ASSUME NEW c \in CallSet
  PROVE  /\ c.do \in {"element", "repeat", "bytes", "sequence", "leave", "finish"}
         /\ c.do \in {"element", "repeat", "bytes", "sequence"} => c.of \in WireElement
         /\ c.do \in {"repeat", "bytes"} => c.n \in Nat
         /\ c.do = "sequence" => c.bound \in Nat
<1>1. CASE c \in [do : {"element"}, of : WireElement]
  BY ONLY <1>1
<1>2. CASE c \in [do : {"repeat", "bytes"}, of : WireElement, n : Nat]
  BY ONLY <1>2
<1>3. CASE c \in [do : {"sequence"}, of : WireElement, bound : Nat]
  BY ONLY <1>3
<1>4. CASE c \in [do : {"leave", "finish"}]
  BY ONLY <1>4
<1> QED BY ONLY <1>1, <1>2, <1>3, <1>4, c \in CallSet DEF CallSet

\* The call that a reading function comes to, and those behind it
LEMMA NextCall ==
  ASSUME todo \in Seq(CallSet), todo # <<>>
  PROVE  /\ Now \in CallSet /\ Rest \in Seq(CallSet) /\ todo = <<Now>> \o Rest
         /\ \A c \in CallSet : <<c>> \o Rest \in Seq(CallSet) /\ <<c>> \o Rest # <<>>
BY DEF Now, Rest

\* A field is read by one call ...
LEMMA FieldCalls ==
  ASSUME NEW f \in WireField
  PROVE  Calls(f) \in CallSet /\ Calls(f).do \in {"element", "repeat", "sequence"}
<1>1. f.kind \in {"scalar", "array", "sequence"} /\ f.of \in WireElement
      /\ (f.kind = "array" => f.length \in Nat) /\ (f.kind = "sequence" => f.bound \in Nat)
  BY FieldFacts
<1> QED BY ONLY <1>1 DEF Calls, CallSet

\* ... and a message by those of its fields, and the end of it.
LEMMA BodyCalls ==
  ASSUME format \in Formats, NEW t \in Types
  PROVE  Body(t) \in Seq(CallSet)
<1> DEFINE fields == FieldsOf(format, t)
           calls == [i \in DOMAIN fields |-> Calls(fields[i])]
           last == [do |-> "leave"]
<1>1. fields \in Seq(WireField)
  BY FieldsOfTypes
<1>2. calls \in Seq(CallSet)
  <2> HIDE DEF fields
  <2>1. PICK n \in Nat : DOMAIN fields = 1..n
    BY <1>1
  <2>2. \A i \in 1..n : fields[i] \in WireField
    BY <1>1, <2>1
  <2>3. calls \in [1..n -> CallSet]
    BY <2>1, <2>2, FieldCalls
  <2> QED BY ONLY <2>1, <2>3
<1>3. last \in CallSet
  BY DEF CallSet
<1> HIDE DEF calls, last
<1>4. calls \o <<last>> \in Seq(CallSet)
  BY ONLY <1>2, <1>3
<1> QED BY <1>4 DEF Body, calls, last

-----------------------------------------------------------------------------
(* Storage                                                                  *)

\* The storage a decode holds is what its calls allocated, and never over the limit.
StorageInv ==
  /\ allocated \in 0..MaxDecoded /\ held = allocated
  /\ progress = "new" => allocated = 0
  /\ todo \in Seq(CallSet)
  /\ todo # <<>> => format \in Formats

\* The limits are numbers that fit into a word.
LEMMA LimitsAre ==
  /\ Word \in Nat /\ MaxDecoded \in 0..(Word - 1) /\ MaxElements \in Nat /\ MaxDepth \in Nat
  /\ \A n \in Lengths : n \in 0..(Word - 1)
  /\ \A t \in Types : SizeOf[t] \in 1..(Word - 1)
BY WordAssumption, SizesAssumption

\* account_allocation() and check_sequence() let pass what is left, and no more.
LEMMA Allocates ==
  ASSUME allocated \in 0..MaxDecoded
  PROVE  /\ \A b \in Nat : MayAllocate(b) => allocated + b \in 0..MaxDecoded
         /\ \A n \in Nat, e \in WireElement :
              ~TooLarge(n, e) => /\ allocated + n * StorageOf(e) \in 0..MaxDecoded
                                 /\ Times(n, StorageOf(e)) = n * StorageOf(e)
<1>1. Word \in Nat /\ MaxDecoded \in 0..(Word - 1) /\ MaxDecoded \in Nat /\ allocated \in Nat
      /\ MaxDecoded - allocated \in Nat /\ MaxDecoded < Word
  BY LimitsAre
<1>2. Minus(MaxDecoded, allocated) = MaxDecoded - allocated
  BY <1>1, MinusIs
<1>3. ASSUME NEW b \in Nat, MayAllocate(b) PROVE allocated + b \in 0..MaxDecoded
  <2>1. b <= MaxDecoded - allocated
    BY <1>2, <1>3 DEF MayAllocate
  <2> QED BY ONLY <1>1, <2>1, b \in Nat
<1>4. ASSUME NEW n \in Nat, NEW e \in WireElement, ~TooLarge(n, e)
      PROVE  allocated + n * StorageOf(e) \in 0..MaxDecoded /\ Times(n, StorageOf(e)) = n * StorageOf(e)
  <2>1. PICK s \in Nat : s = StorageOf(e) /\ s > 0
    <3>1. StorageOf(e) \in 1..(Word - 1)
      BY ElementFacts
    <3> QED BY <1>1, <3>1
  <2>2. (MaxDecoded - allocated) \div s \in Nat
    BY <1>1, <2>1
  <2>3. n <= (MaxDecoded - allocated) \div s
    BY <1>2, <1>4, <2>1, <2>2 DEF TooLarge
  <2>4. n * s <= MaxDecoded - allocated
    BY ONLY <1>1, <2>1, <2>3, n \in Nat, Quotient
  <2>5. n * s \in Nat
    BY ONLY <2>1, n \in Nat
  <2>6. allocated + n * s \in 0..MaxDecoded /\ n * s < Word
    BY ONLY <1>1, <2>4, <2>5
  <2>7. Times(n, s) = n * s
    BY ONLY <2>1, <2>6, n \in Nat, TimesIs
  <2> QED BY ONLY <2>1, <2>6, <2>7
<1> QED BY <1>3, <1>4

\* Reading charges what it asks for.
LEMMA StorageRead ==
  ASSUME StorageInv, Read
  PROVE  StorageInv'
<1>1. /\ allocated \in 0..MaxDecoded /\ held = allocated
      /\ todo \in Seq(CallSet) /\ todo # <<>> /\ format \in Formats
  BY DEF StorageInv, Read, Reading, ReadNumber, ReadString, EnterMessage, LeaveMessage, ReadSequence,
         ReadBytes, ReadElement, Finish
<1>2. /\ Now \in CallSet /\ Rest \in Seq(CallSet) /\ \A c \in CallSet : <<c>> \o Rest \in Seq(CallSet)
  BY <1>1, NextCall
<1>3. format' = format /\ progress' # "new"
  BY ReadKeeps DEF payload, Answers
<1>4. ASSUME held' - allocated' = held - allocated, UNCHANGED <<allocated, held>>, todo' \in Seq(CallSet)
      PROVE  StorageInv'
  BY <1>1, <1>3, <1>4 DEF StorageInv
<1>5. ASSUME NEW kind, Throw(kind) PROVE StorageInv'
  <2>1. UNCHANGED <<allocated, held, todo>>
    BY <1>5 DEF Throw, history
  <2> QED BY <1>1, <1>3, <2>1 DEF StorageInv
<1>6. ASSUME NEW c \in CallSet, ThrowTooShort(c) PROVE StorageInv'
  <2>1. UNCHANGED <<allocated, held>> /\ todo' = <<c>> \o Rest
    BY <1>6 DEF ThrowTooShort
  <2> QED BY <1>1, <1>2, <1>3, <2>1 DEF StorageInv
<1>7. ASSUME UNCHANGED <<allocated, held>>, todo' = Rest PROVE StorageInv'
  BY <1>1, <1>2, <1>3, <1>7 DEF StorageInv
<1>8. CASE ReadNumber
  BY <1>5, <1>7, <1>8 DEF ReadNumber
<1>9. ASSUME NEW n \in Lengths, NEW nul \in BOOLEAN, ReadString(n, nul) PROVE StorageInv'
  <2>1. Now.of \in WireElement /\ n \in Nat
    BY <1>2, <1>9, CallsAre, LimitsAre DEF ReadString
  <2>2. [do |-> "bytes", of |-> Now.of, n |-> n] \in CallSet
    BY <2>1 DEF CallSet
  <2>3. StringBytes(n) \in Nat
    BY <2>1 DEF StringBytes
  <2>4. ASSUME MayAllocate(StringBytes(n)), allocated' = allocated + StringBytes(n),
               held' = held + StringBytes(n), todo' = Rest
        PROVE  StorageInv'
    <3>1. allocated + StringBytes(n) \in 0..MaxDecoded
      BY <1>1, <2>3, <2>4, Allocates
    <3> QED BY <1>1, <1>2, <1>3, <2>4, <3>1 DEF StorageInv
  <2>5. \/ \E kind : Throw(kind)
        \/ ThrowTooShort([do |-> "bytes", of |-> Now.of, n |-> n])
        \/ /\ MayAllocate(StringBytes(n)) /\ allocated' = allocated + StringBytes(n)
           /\ held' = held + StringBytes(n) /\ todo' = Rest
    BY <1>9 DEF ReadString
  <2> QED BY <1>5, <1>6, <2>2, <2>4, <2>5
<1>10. CASE EnterMessage
  <2>1. Now.of \in WireElement /\ Now.of.base = "message"
    BY <1>2, <1>10, CallsAre DEF EnterMessage
  <2>2. Body(Now.of.type) \in Seq(CallSet)
    BY <1>1, <2>1, ElementFacts, BodyCalls
  <2>3. \/ \E kind : Throw(kind)
        \/ UNCHANGED <<allocated, held>> /\ todo' = Body(Now.of.type) \o Rest
    BY <1>10 DEF EnterMessage, history
  <2>4. Body(Now.of.type) \o Rest \in Seq(CallSet)
    BY <1>2, <2>2
  <2> QED BY <1>1, <1>3, <1>5, <2>3, <2>4 DEF StorageInv
<1>11. CASE LeaveMessage
  BY <1>7, <1>11 DEF LeaveMessage, history
<1>12. ASSUME NEW n \in Lengths, ReadSequence(n) PROVE StorageInv'
  <2>1. Now.of \in WireElement /\ n \in Nat
    BY <1>2, <1>12, CallsAre, LimitsAre DEF ReadSequence
  <2>2. [do |-> "repeat", of |-> Now.of, n |-> n] \in CallSet /\ [do |-> "bytes", of |-> Now.of, n |-> n] \in CallSet
    BY <2>1 DEF CallSet
  <2>3. ASSUME ~TooLarge(n, Now.of), allocated' = allocated + Times(n, StorageOf(Now.of)),
               held' = held + n * StorageOf(Now.of), NEW c \in CallSet, todo' = <<c>> \o Rest
        PROVE  StorageInv'
    <3>1. allocated + n * StorageOf(Now.of) \in 0..MaxDecoded /\ Times(n, StorageOf(Now.of)) = n * StorageOf(Now.of)
      BY <1>1, <2>1, <2>3, Allocates
    <3>2. allocated' \in 0..MaxDecoded /\ held' = allocated'
      BY <1>1, <2>3, <3>1
    <3> QED BY <1>1, <1>2, <1>3, <2>3, <3>2 DEF StorageInv
  <2>4. \/ \E kind : Throw(kind)
        \/ ThrowTooShort([do |-> "repeat", of |-> Now.of, n |-> n])
        \/ /\ ~TooLarge(n, Now.of) /\ allocated' = allocated + Times(n, StorageOf(Now.of))
           /\ held' = held + n * StorageOf(Now.of)
           /\ todo' = <<[do |-> IF IsByte(Now.of) THEN "bytes" ELSE "repeat", of |-> Now.of, n |-> n]>> \o Rest
    BY <1>12 DEF ReadSequence
  <2>5. [do |-> IF IsByte(Now.of) THEN "bytes" ELSE "repeat", of |-> Now.of, n |-> n] \in CallSet
    BY <2>2
  <2> QED BY <1>5, <1>6, <2>2, <2>3, <2>4, <2>5
<1>13. CASE ReadBytes
  BY <1>5, <1>7, <1>13 DEF ReadBytes
<1>14. CASE ReadElement
  <2>1. Now \in CallSet /\ Now.do = "repeat" /\ Now.of \in WireElement /\ Now.n \in Nat
    BY <1>2, <1>14, CallsAre DEF ReadElement
  <2>2. UNCHANGED <<allocated, held>>
    BY <1>14 DEF ReadElement, history
  <2>3. CASE Now.n = 0
    BY <1>7, <1>14, <2>2, <2>3 DEF ReadElement
  <2>4. CASE Now.n # 0
    <3> DEFINE c == [do |-> "element", of |-> Now.of]
               d == [Now EXCEPT !.n = Less(@)]
    <3>1. c \in CallSet
      BY <2>1 DEF CallSet
    <3>2. d \in CallSet
      <4>1. Now \in [do : {"repeat", "bytes"}, of : WireElement, n : Nat]
        BY <2>1 DEF CallSet
      <4>2. Less(Now.n) \in Nat
        BY <2>1, <2>4 DEF Less
      <4>3. d \in [do : {"repeat", "bytes"}, of : WireElement, n : Nat]
        BY ONLY <4>1, <4>2
      <4> QED BY <4>3 DEF CallSet
    <3>3. todo' = <<c, d>> \o Rest
      BY <1>14, <2>4 DEF ReadElement
    <3> HIDE DEF c, d
    <3>4. <<c, d>> \o Rest \in Seq(CallSet)
      BY <1>2, <3>1, <3>2
    <3> QED BY <1>1, <1>3, <2>2, <3>3, <3>4 DEF StorageInv
  <2> QED BY <2>3, <2>4
<1>15. CASE Finish
  <2>1. (\E kind : Throw(kind)) \/ (UNCHANGED <<allocated, held>> /\ todo' = Rest)
    BY <1>15 DEF Finish, history
  <2> QED BY <1>5, <1>7, <2>1
<1> QED BY <1>8, <1>9, <1>10, <1>11, <1>12, <1>13, <1>14, <1>15 DEF Read

\* So does every step.
LEMMA StorageStep ==
  ASSUME DecodeInv, StorageInv, [DecodeNext]_allVars
  PROVE  StorageInv'
<1>1. ASSUME NEW form \in Formats, NEW t \in Types, NEW wellFormed \in BOOLEAN, Begin(form, t, wellFormed)
      PROVE  StorageInv'
  <2>1. progress = "new" /\ format' = form /\ progress' # "new"
    BY <1>1 DEF Begin
  <2>2. allocated \in 0..MaxDecoded /\ allocated = 0 /\ held = 0 /\ todo \in Seq(CallSet)
    BY <2>1 DEF StorageInv
  <2>3. CASE UNCHANGED <<allocated, held, todo>>
    BY <2>1, <2>2, <2>3 DEF StorageInv
  <2>4. CASE ~UNCHANGED <<allocated, held, todo>>
    <3>1. /\ MayAllocate(SizeOf[t]) /\ allocated' = allocated + SizeOf[t] /\ held' = SizeOf[t]
          /\ todo' = <<[do |-> "element", of |-> Nested(t)], [do |-> "finish"]>>
      BY <1>1, <2>4 DEF Begin
    <3>2. SizeOf[t] \in Nat
      BY LimitsAre
    <3>3. allocated + SizeOf[t] \in 0..MaxDecoded /\ held' = allocated'
      BY <2>2, <3>1, <3>2, Allocates
    <3>4. [do |-> "element", of |-> Nested(t)] \in CallSet /\ [do |-> "finish"] \in CallSet
      BY DEF CallSet, WireElement, Nested
    <3>5. todo' \in Seq(CallSet)
      BY ONLY <3>1, <3>4
    <3> QED BY <2>1, <3>1, <3>3, <3>5 DEF StorageInv
  <2> QED BY <2>3, <2>4
<1>2. CASE UNCHANGED readerVars
  BY <1>2 DEF StorageInv, readerVars, payload, history
<1>3. CASE /\ progress = "new" /\ progress' \in Verdicts
           /\ UNCHANGED <<size_, format, root, position, allocated, depth, todo, history>>
  BY <1>3, Zenon DEF StorageInv, Verdicts, history
<1> QED BY <1>1, <1>2, <1>3, ReaderSteps, StorageRead

\* Nothing is charged at first.
LEMMA StorageBegins == DecodeInit => StorageInv
<1> SUFFICES ASSUME DecodeInit PROVE StorageInv
  OBVIOUS
<1>1. allocated = 0 /\ held = 0 /\ todo = <<>> /\ 0 \in 0..MaxDecoded
  BY LimitsAre DEF DecodeInit, ReaderInit
<1> QED BY <1>1 DEF StorageInv

\* Whatever the payload says, decoding asks for no more storage than the limit allows, and
\* the sums and products that it is counted with are those of the numbers, not of the words.
THEOREM StorageWithinLimit == DecodeSpec => []StorageHeld
<1>1. DecodeInit => StorageInv
  BY StorageBegins
<1>2. DecodeInv /\ StorageInv /\ [DecodeNext]_allVars => StorageInv'
  BY StorageStep
<1>3. StorageInv => StorageHeld
  BY LimitsAre DEF StorageInv, StorageHeld
<1> QED BY <1>1, <1>2, <1>3, DecodeInvariance, PTL DEF DecodeSpec

-----------------------------------------------------------------------------
(* The least sizes of the types                                             *)

\* The least size of a message is that of its fields, and depends on what it holds only.
LEMMA LayoutLocal ==
  ASSUME NEW form, NEW s \in Seq(WireField), NEW g, NEW h, \A u \in HeldIn(s) : g[u] = h[u]
  PROVE  LayoutMinimum(form, s, g) = LayoutMinimum(form, s, h)
<1>1. ASSUME NEW i \in DOMAIN s PROVE FieldMinimum(form, s[i], g) = FieldMinimum(form, s[i], h)
  <2> DEFINE f == s[i]
  <2>1. f \in ToSet(s) /\ f \in WireField
    BY DEF ToSet
  <2>2. f.kind # "sequence" /\ f.of.base = "message" => f.of.type \in HeldIn(s)
    BY <2>1 DEF HeldIn
  <2>3. f.kind \in {"scalar", "array", "sequence"} /\ f.of \in WireElement
    BY <2>1, FieldFacts
  <2>4. f.of.base \in {"number", "string", "message"}
    BY <2>3, ElementFacts
  <2> HIDE DEF f
  <2>5. f.kind # "sequence" => MinimumOf(form, f.of, g) = MinimumOf(form, f.of, h)
    BY <2>2, <2>4 DEF MinimumOf
  <2>6. FieldMinimum(form, f, g) = FieldMinimum(form, f, h)
    BY <2>3, <2>5 DEF FieldMinimum
  <2> QED BY <2>6 DEF f
<1>2. [i \in DOMAIN s |-> FieldMinimum(form, s[i], g)] = [i \in DOMAIN s |-> FieldMinimum(form, s[i], h)]
  BY <1>1
<1> QED BY <1>2 DEF LayoutMinimum

\* The row of a table depends on its nested types only.
LEMMA RowLocal ==
  ASSUME NEW form, NEW row, NEW g, NEW h, \A u \in ToSet(row.nested) : g[u] = h[u]
  PROVE  RowMinimum(form, row, g) = RowMinimum(form, row, h)
<1>1. \A i \in DOMAIN row.nested : g[row.nested[i]] = h[row.nested[i]]
  BY DEF ToSet
<1>2. [i \in DOMAIN row.nested |-> g[row.nested[i]]] = [i \in DOMAIN row.nested |-> h[row.nested[i]]]
  BY <1>1
<1> QED BY <1>2 DEF RowMinimum

\* h has the least size of every type.
Sizes(form, h) == h \in Tables /\ h = [t \in Types |-> LayoutMinimum(form, FieldsOf(form, t), h)]

\* Every type has a least size, for no type holds itself ...
LEMMA SizesExist ==
  ASSUME NEW form \in Formats
  PROVE  \E h : Sizes(form, h)
<1> DEFINE rank == [t \in Types |-> Height[t]]
           step == [g \in Tables |-> [t \in Types |-> LayoutMinimum(form, FieldsOf(form, t), g)]]
<1>1. rank \in [Types -> Nat]
  BY HeightAssumption
<1>2. \A g \in Tables : \A t \in Types : step[g][t] = LayoutMinimum(form, FieldsOf(form, t), g)
  OBVIOUS
<1>3. step \in [Tables -> Tables]
  <2>1. \A g \in Tables : \A t \in Types : LayoutMinimum(form, FieldsOf(form, t), g) \in Nat
    BY FieldsOfTypes, LayoutIsNat
  <2>2. \A g \in Tables : [t \in Types |-> LayoutMinimum(form, FieldsOf(form, t), g)] \in Tables
    BY <2>1 DEF Tables
  <2> QED BY <2>2
<1>4. ASSUME NEW g \in Tables, NEW h \in Tables, NEW t \in Types,
             \A u \in Types : rank[u] < rank[t] => g[u] = h[u]
      PROVE  step[g][t] = step[h][t]
  <2>1. \A u \in HeldIn(FieldsOf(form, t)) : g[u] = h[u]
    BY <1>4, HeldTypesAre
  <2>2. LayoutMinimum(form, FieldsOf(form, t), g) = LayoutMinimum(form, FieldsOf(form, t), h)
    BY <2>1, FieldsOfTypes, LayoutLocal
  <2> QED BY <1>2, <2>2
<1>5. \A g \in Tables : step[g] = [t \in Types |-> LayoutMinimum(form, FieldsOf(form, t), g)]
  OBVIOUS
<1> HIDE DEF step, rank
<1>6. Ranked(step, Types, Nat, rank)
  BY <1>1, <1>3, <1>4 DEF Ranked, Tables
<1>7. PICK g \in [Types -> Nat] : g = step[g]
  BY <1>6, TableExists
<1>8. g \in Tables
  BY ONLY <1>7 DEF Tables
<1>9. g = [t \in Types |-> LayoutMinimum(form, FieldsOf(form, t), g)]
  BY ONLY <1>5, <1>7, <1>8
<1> QED BY ONLY <1>8, <1>9 DEF Sizes

\* g and h are equal at a type of S if they are at those of S that it holds.
Follows(form, g, h, S) ==
  \A t \in S : (\A u \in HeldIn(FieldsOf(form, t)) \cap S : g[u] = h[u]) => g[t] = h[t]

\* ... and only one.
LEMMA SizesUnique ==
  ASSUME NEW form \in Formats, NEW S, S \subseteq Types, NEW g, NEW h, Follows(form, g, h, S)
  PROVE  \A t \in S : g[t] = h[t]
<1> DEFINE low == {t \in S : g[t] # h[t]}
           bad == {Height[t] : t \in low}
<1> SUFFICES ASSUME NEW x \in S, g[x] # h[x] PROVE FALSE
  OBVIOUS
<1>1. bad \in SUBSET Nat /\ Height[x] \in bad
  BY HeightAssumption
<1> HIDE DEF bad
<1>2. PICK m \in bad : \A k \in bad : m <= k
  BY <1>1, LeastNatural
<1>3. PICK t \in low : Height[t] = m
  BY <1>2 DEF bad
<1>4. ASSUME NEW u \in HeldIn(FieldsOf(form, t)) \cap S PROVE g[u] = h[u]
  <2>1. Height[u] \in Nat /\ Height[t] \in Nat /\ Height[u] < Height[t]
    BY HeldTypesAre
  <2>2. ~(m <= Height[u])
    BY <1>3, <2>1
  <2> QED BY <1>2, <2>2 DEF bad
<1> QED BY <1>3, <1>4 DEF Follows

\* The table that the library keeps by hand has the least size of every built-in type.
LEMMA ProfileSizes ==
  ASSUME NEW form \in Formats, NEW h, Sizes(form, h)
  PROVE  \A t \in ProfileTypes : ProfileMinimum[form][t] = h[t]
<1> DEFINE T == WireTable[form]
           p == [t \in ProfileTypes |-> h[t]]
           Defines(f) == f = [t \in ProfileTypes |-> RowMinimum(form, T[t], f)]
           least == CHOOSE f : Defines(f)
<1>1. h \in Tables /\ \A t \in Types : h[t] = LayoutMinimum(form, FieldsOf(form, t), h)
  BY DEF Sizes
<1>2. ProfileTypes \subseteq Types /\ \A t \in ProfileTypes : FieldsOf(form, t) = ProfileFields[form][t]
  BY FieldsAssumption DEF FieldsOf, Types
<1>3. ASSUME NEW t \in ProfileTypes
      PROVE  /\ ToSet(T[t].nested) \subseteq HeldIn(FieldsOf(form, t)) \cap ProfileTypes
             /\ RowMinimum(form, T[t], h) = h[t]
  <2>1. Matches(form, h, ProfileFields[form][t], T[t])
    BY <1>1, TableMatches
  <2> QED BY <1>1, <1>2, <2>1, NestableTypes DEF Matches
<1> HIDE DEF T
<1>4. Defines(p)
  <2>1. ASSUME NEW t \in ProfileTypes PROVE RowMinimum(form, T[t], p) = h[t]
    <3>1. \A u \in ToSet(T[t].nested) : p[u] = h[u]
      BY <1>3
    <3> HIDE DEF p
    <3>2. RowMinimum(form, T[t], p) = RowMinimum(form, T[t], h)
      BY <3>1, RowLocal
    <3> QED BY <1>3, <3>2
  <2> QED BY <2>1
<1>5. ProfileMinimum[form] = least
  BY DEF ProfileMinimum, T
<1>6. Defines(least)
  <2> HIDE DEF Defines
  <2> QED BY <1>4
<1> HIDE DEF least, p
<1>7. \A t \in ProfileTypes : least[t] = RowMinimum(form, T[t], least)
  BY <1>6
<1>8. ASSUME NEW t \in ProfileTypes, \A u \in HeldIn(FieldsOf(form, t)) \cap ProfileTypes : least[u] = h[u]
      PROVE  least[t] = h[t]
  <2>1. RowMinimum(form, T[t], least) = RowMinimum(form, T[t], h)
    <3>1. \A u \in ToSet(T[t].nested) : least[u] = h[u]
      BY <1>3, <1>8
    <3> QED BY <3>1, RowLocal
  <2> QED BY <1>3, <1>7, <2>1
<1>9. \A t \in ProfileTypes : least[t] = h[t]
  <2>1. Follows(form, least, h, ProfileTypes)
    BY <1>8 DEF Follows
  <2> QED BY <1>2, <2>1, SizesUnique
<1> QED BY <1>5, <1>9

\* WireMinimum of every type is the least size of it, whether generated or built in.
LEMMA TypeSizes ==
  ASSUME NEW form \in Formats, NEW h, Sizes(form, h)
  PROVE  TypeMinimum[form] = h
<1> DEFINE Defines(f) == f = [t \in Types |-> IF t \in DOMAIN Fields THEN LayoutMinimum(form, Fields[t], f)
                                              ELSE ProfileMinimum[form][t]]
           least == CHOOSE f : Defines(f)
<1>1. h \in Tables /\ h = [t \in Types |-> h[t]] /\ \A t \in Types : h[t] = LayoutMinimum(form, FieldsOf(form, t), h)
  BY DEF Sizes, Tables
<1>2. ASSUME NEW t \in Types
      PROVE  /\ t \in DOMAIN Fields => FieldsOf(form, t) = Fields[t]
             /\ t \notin DOMAIN Fields => ProfileMinimum[form][t] = h[t]
  BY ProfileSizes DEF FieldsOf, Types
<1>3. Defines(h)
  <2>1. \A t \in Types : h[t] = IF t \in DOMAIN Fields THEN LayoutMinimum(form, Fields[t], h) ELSE ProfileMinimum[form][t]
    BY <1>1, <1>2
  <2> QED BY <1>1, <2>1
<1>4. TypeMinimum[form] = least
  BY DEF TypeMinimum
<1>5. Defines(least)
  <2> HIDE DEF Defines
  <2> QED BY <1>3
<1> HIDE DEF least
<1>6. ASSUME NEW t \in Types, \A u \in HeldIn(FieldsOf(form, t)) \cap Types : least[u] = h[u]
      PROVE  least[t] = h[t]
  <2>1. CASE t \in DOMAIN Fields
    <3>1. least[t] = LayoutMinimum(form, FieldsOf(form, t), least)
      BY <1>2, <1>5, <2>1
    <3>2. \A u \in HeldIn(FieldsOf(form, t)) : least[u] = h[u]
      BY <1>6, HeldTypesAre
    <3>3. LayoutMinimum(form, FieldsOf(form, t), least) = LayoutMinimum(form, FieldsOf(form, t), h)
      BY <3>2, FieldsOfTypes, LayoutLocal
    <3> QED BY <1>1, <3>1, <3>3
  <2>2. CASE t \notin DOMAIN Fields
    BY <1>2, <1>5, <2>2
  <2> QED BY <2>1, <2>2
<1>7. \A t \in Types : least[t] = h[t]
  <2>1. Follows(form, least, h, Types)
    BY <1>6 DEF Follows
  <2> QED BY <2>1, SizesUnique
<1>8. least = [t \in Types |-> least[t]]
  BY <1>5
<1> QED BY <1>1, <1>4, <1>7, <1>8

\* So is the size of a message of no elements and no characters.
LEMMA PackedSizes ==
  ASSUME NEW form \in Formats, NEW h, Sizes(form, h)
  PROVE  PackedMessage[form] = h
<1> DEFINE Defines(f) == f = [t \in Types |-> LayoutMinimum(form, FieldsOf(form, t), f)]
           packed == CHOOSE f : Defines(f)
<1>1. h \in Tables /\ h = [t \in Types |-> h[t]] /\ \A t \in Types : h[t] = LayoutMinimum(form, FieldsOf(form, t), h)
  BY DEF Sizes, Tables
<1>2. PackedMessage[form] = packed
  BY DEF PackedMessage
<1>3. Defines(h)
  BY DEF Sizes
<1>4. Defines(packed)
  <2> HIDE DEF Defines
  <2> QED BY <1>3
<1> HIDE DEF packed
<1>5. ASSUME NEW t \in Types, \A u \in HeldIn(FieldsOf(form, t)) \cap Types : packed[u] = h[u]
      PROVE  packed[t] = h[t]
  <2>1. packed[t] = LayoutMinimum(form, FieldsOf(form, t), packed)
    BY <1>4
  <2>2. \A u \in HeldIn(FieldsOf(form, t)) : packed[u] = h[u]
    BY <1>5, HeldTypesAre
  <2>3. LayoutMinimum(form, FieldsOf(form, t), packed) = LayoutMinimum(form, FieldsOf(form, t), h)
    BY <2>2, FieldsOfTypes, LayoutLocal
  <2> QED BY <1>1, <2>1, <2>3
<1>6. \A t \in Types : packed[t] = h[t]
  <2>1. Follows(form, packed, h, Types)
    BY <1>5 DEF Follows
  <2> QED BY <2>1, SizesUnique
<1>7. packed = [t \in Types |-> packed[t]]
  BY <1>4
<1> QED BY <1>1, <1>2, <1>6, <1>7

-----------------------------------------------------------------------------
(* Positions                                                                *)

Widths == {1, 2, 4, 8}
Pad(at, width) == IF at % width = 0 THEN 0 ELSE width - (at % width)

\* Padding goes up to the next multiple.
LEMMA PadFacts ==
  ASSUME NEW at \in Nat, NEW width \in Widths
  PROVE  /\ Pad(at, width) \in Nat /\ Pad(at, width) < width
         /\ (at + Pad(at, width)) % width = 0
         /\ \A b \in at..(at + width - 1) : b % width = 0 => b = at + Pad(at, width)
<1>1. CASE width = 1
  BY <1>1 DEF Pad
<1>2. CASE width = 2
  BY <1>2 DEF Pad
<1>3. CASE width = 4
  BY <1>3 DEF Pad
<1>4. CASE width = 8
  BY <1>4 DEF Pad
<1> QED BY <1>1, <1>2, <1>3, <1>4 DEF Widths

\* Where a number ends in an encoding
LEMMA EncodedIs ==
  ASSUME NEW form \in Formats, NEW at \in Nat, NEW width \in Widths
  PROVE  /\ EncodedNumber(form, at, width) = IF form = "ros1" THEN at + width ELSE at + Pad(at, width) + width
         /\ EncodedNumber(form, at, width) \in Nat /\ EncodedNumber(form, at, width) >= at + width
<1> DEFINE c == CHOOSE b \in at..(at + width - 1) : b % width = 0
           p == Pad(at, width)
<1>1. p \in Nat /\ p < width /\ (at + p) % width = 0
      /\ \A b \in at..(at + width - 1) : b % width = 0 => b = at + p
  BY PadFacts
<1>4. width \in Nat
  BY DEF Widths
<1>2. EncodedNumber(form, at, width) = width + IF form = "ros1" THEN at ELSE c
  BY DEF EncodedNumber, Encoded
<1> HIDE DEF p
<1>3. c = at + p
  <2>1. at + p \in at..(at + width - 1)
    BY <1>1, <1>4
  <2>2. c \in at..(at + width - 1) /\ c % width = 0
    BY <1>1, <2>1
  <2> HIDE DEF c
  <2> QED BY <1>1, <2>2
<1> HIDE DEF c
<1> QED BY <1>1, <1>2, <1>3, <1>4 DEF p

\* The reader is where the encoding of what it has read ends: it stands at the same
\* multiples, and reads a number if the payload has room for it.
InPlace == /\ format \in Formats /\ size_ \in 0..(Word - 1) /\ end \in Nat
           /\ position \in 0..size_ /\ position = HeaderSize + end

\* A reader that is in place, in numbers
LEMMA HeaderIs ==
  ASSUME InPlace
  PROVE  /\ HeaderSize \in {0, 4} /\ (format = "cdr" => HeaderSize = 4) /\ (format # "cdr" => HeaderSize = 0 /\ format = "ros1")
         /\ Word \in Nat /\ size_ \in Nat /\ position \in Nat /\ end \in Nat
         /\ position <= size_ /\ size_ < Word /\ position = HeaderSize + end
BY WordAssumption DEF InPlace, HeaderSize, HeaderSizeOf, Formats

\* require() compares numbers, not words.
LEMMA HasBytesIs ==
  ASSUME size_ \in 0..(Word - 1), NEW at \in 0..size_, NEW n \in Nat
  PROVE  /\ HasBytes(at, n) <=> at + n <= size_
         /\ Minus(size_, at) = size_ - at
<1>1. Minus(size_, at) = size_ - at
  BY MinusIs
<1>2. size_ \in Nat /\ at \in Nat /\ at <= size_
  BY WordAssumption
<1> QED BY <1>1, <1>2 DEF HasBytes

\* A number ends in the payload where it ends in the encoding.
LEMMA NumbersInPlace ==
  ASSUME InPlace, NEW width \in Widths
  PROVE  /\ AfterNumber(position, width) = HeaderSize + EncodedNumber(format, end, width)
         /\ AfterNumber(position, width) \in Nat
         /\ NumberFits(position, width) <=> AfterNumber(position, width) <= size_
<1> DEFINE p == Padding(position, width)
<1>1. /\ HeaderSize \in {0, 4} /\ (format = "cdr" => HeaderSize = 4) /\ (format # "cdr" => HeaderSize = 0 /\ format = "ros1")
      /\ Word \in Nat /\ size_ \in Nat /\ position \in Nat /\ end \in Nat
      /\ position <= size_ /\ size_ < Word /\ position = HeaderSize + end
  BY HeaderIs
<1>2. width \in Nat /\ Pad(end, width) \in Nat
  <2>1. Pad(end, width) \in Nat
    BY <1>1, PadFacts
  <2> QED BY <2>1 DEF Widths
<1>3. format \in Formats /\ size_ \in 0..(Word - 1)
  BY DEF InPlace
<1>4. p = IF format = "ros1" THEN 0 ELSE Pad(end, width)
  <2>1. CASE format = "ros1"
    BY <2>1 DEF Padding
  <2>2. CASE format # "ros1"
    <3>1. format = "cdr" /\ position = 4 + end
      BY <1>1, <2>2
    <3>2. position \in 0..(Word - 1) /\ 4 \in 0..position
      BY <1>1, <3>1
    <3>3. Minus(position, 4) = end
      BY <1>1, <3>1, <3>2, MinusIs
    <3> QED BY <2>2, <3>3 DEF Padding, Origin, Pad
  <2> QED BY <2>1, <2>2
<1>5. p \in Nat
  BY <1>2, <1>4
<1>6. AfterNumber(position, width) = position + p + width
  BY DEF AfterNumber
<1>7. AfterNumber(position, width) = HeaderSize + EncodedNumber(format, end, width)
  <2>1. EncodedNumber(format, end, width) = IF format = "ros1" THEN end + width ELSE end + Pad(end, width) + width
    BY <1>1, <1>3, EncodedIs
  <2> QED BY <1>1, <1>2, <1>4, <1>6, <2>1
<1> HIDE DEF p
<1>8. HasBytes(position, p) <=> position + p <= size_
  BY <1>1, <1>3, <1>5, HasBytesIs
<1>9. ASSUME position + p <= size_ PROVE HasBytes(position + p, width) <=> position + p + width <= size_
  <2>1. position + p \in 0..size_
    BY <1>1, <1>5, <1>9
  <2> QED BY <1>2, <1>3, <2>1, HasBytesIs
<1>10. NumberFits(position, width) <=> HasBytes(position, p) /\ HasBytes(position + p, width)
  BY DEF NumberFits, p
<1>11. NumberFits(position, width) <=> position + p + width <= size_
  BY <1>1, <1>2, <1>5, <1>8, <1>9, <1>10
<1> QED BY <1>1, <1>2, <1>5, <1>6, <1>7, <1>11

\* The position while a message is being read: inside it, with the bytes that the
\* calls still to come need (InPlace).
PositionInv ==
  /\ size_ \in 0..(Word - 1)
  /\ progress = "new" => position = 0 /\ end = 0
  /\ progress = "reading" => InPlace

\* The type of the element, and the count, that a reading function comes to
LEMMA NowIs ==
  ASSUME StorageInv, Reading
  PROVE  /\ Now \in CallSet /\ Rest \in Seq(CallSet) /\ todo = <<Now>> \o Rest /\ format \in Formats
         /\ Now.do \in {"element", "repeat", "bytes", "sequence"} => Now.of \in WireElement
         /\ Now.do = "element" /\ Now.of.base = "number" => Now.of.width \in Widths
         /\ Now.do \in {"repeat", "bytes"} => Now.n \in Nat
<1>1. todo \in Seq(CallSet) /\ todo # <<>> /\ format \in Formats
  BY DEF StorageInv, Reading
<1>2. Now \in CallSet /\ Rest \in Seq(CallSet) /\ todo = <<Now>> \o Rest
  BY <1>1, NextCall
<1>3. /\ Now.do \in {"element", "repeat", "bytes", "sequence"} => Now.of \in WireElement
      /\ Now.do \in {"repeat", "bytes"} => Now.n \in Nat
  BY <1>2, CallsAre
<1>4. ASSUME Now.do = "element", Now.of.base = "number" PROVE Now.of.width \in Widths
  BY <1>3, <1>4, ElementFacts DEF Widths
<1> QED BY <1>1, <1>2, <1>3, <1>4

\* Reading leaves the reader in place.
LEMMA PlaceRead ==
  ASSUME StorageInv, PositionInv, Read
  PROVE  PositionInv'
<1>1. progress = "reading" /\ size_' = size_ /\ format' = format /\ progress' # "new"
  BY ReadKeeps DEF payload, Answers
<1>2. InPlace
  BY <1>1 DEF PositionInv
<1>3. HeaderSize' = HeaderSize
  BY <1>1 DEF HeaderSize
<1> SUFFICES ASSUME progress' = "reading" PROVE InPlace'
  BY <1>1 DEF PositionInv
<1>4. Reading
  BY DEF Read, ReadNumber, ReadString, EnterMessage, LeaveMessage, ReadSequence, ReadBytes, ReadElement, Finish
<1>5. /\ Now.do = "element" /\ Now.of.base = "number" => Now.of.width \in Widths
      /\ Now.do \in {"repeat", "bytes"} => Now.n \in Nat
  BY <1>4, NowIs
<1>6. /\ HeaderSize \in Nat /\ Word \in Nat /\ size_ \in Nat /\ position \in Nat /\ end \in Nat
      /\ position <= size_ /\ size_ < Word /\ position = HeaderSize + end
  BY <1>2, HeaderIs
<1>7. ASSUME position' \in Nat, position' <= size_, end' \in Nat, position' = HeaderSize + end' PROVE InPlace'
  <2>1. position' \in Nat /\ position' <= size_
    BY <1>7
  <2>2. position' \in 0..size_
    BY ONLY <1>6, <2>1
  <2> QED BY <1>1, <1>2, <1>3, <1>7, <2>2 DEF InPlace
<1>8. CASE UNCHANGED <<position, end>>
  BY <1>6, <1>7, <1>8
<1>9. ASSUME NEW width \in Widths, NumberFits(position, width)
      PROVE  /\ AfterNumber(position, width) \in Nat /\ AfterNumber(position, width) <= size_
             /\ EncodedNumber(format, end, width) \in Nat
             /\ AfterNumber(position, width) = HeaderSize + EncodedNumber(format, end, width)
  <2>1. format \in Formats
    BY <1>2 DEF InPlace
  <2> QED BY <1>2, <1>6, <1>9, <2>1, NumbersInPlace, EncodedIs
<1>10. 4 \in Widths
  BY DEF Widths
<1>11. \A n \in Lengths : n \in Nat
  BY LimitsAre
<1>12. CASE ReadNumber
  <2>1. /\ NumberFits(position, Now.of.width) /\ position' = AfterNumber(position, Now.of.width)
        /\ end' = EncodedNumber(format, end, Now.of.width) /\ Now.of.width \in Widths
    BY <1>5, <1>12 DEF ReadNumber, Throw
  <2> QED BY <1>7, <1>9, <2>1
<1>13. ASSUME NEW n \in Lengths, NEW nul \in BOOLEAN, ReadString(n, nul) PROVE InPlace'
  <2>1. /\ NumberFits(position, 4) /\ HasBytes(AfterNumber(position, 4), n)
        /\ position' = AfterNumber(position, 4) + n /\ end' = EncodedNumber(format, end, 4) + n
    BY <1>13 DEF ReadString, Throw, ThrowTooShort
  <2>2. /\ AfterNumber(position, 4) \in Nat /\ AfterNumber(position, 4) <= size_
        /\ EncodedNumber(format, end, 4) \in Nat
        /\ AfterNumber(position, 4) = HeaderSize + EncodedNumber(format, end, 4) /\ n \in Nat
    BY <1>9, <1>10, <1>11, <2>1
  <2>3. AfterNumber(position, 4) \in 0..size_ /\ size_ \in 0..(Word - 1)
    BY <1>2, <1>6, <2>2 DEF InPlace
  <2>4. AfterNumber(position, 4) + n <= size_
    BY <2>1, <2>2, <2>3, HasBytesIs
  <2> QED BY <1>6, <1>7, <2>1, <2>2, <2>4
<1>14. CASE EnterMessage
  BY <1>8, <1>14 DEF EnterMessage, Throw, history
<1>15. CASE LeaveMessage
  BY <1>8, <1>15 DEF LeaveMessage, history
<1>16. ASSUME NEW n \in Lengths, ReadSequence(n) PROVE InPlace'
  <2>1. /\ NumberFits(position, 4) /\ position' = AfterNumber(position, 4)
        /\ end' = EncodedNumber(format, end, 4)
    BY <1>16 DEF ReadSequence, Throw, ThrowTooShort
  <2> QED BY <1>7, <1>9, <1>10, <2>1
<1>17. CASE ReadBytes
  <2>1. HasBytes(position, Now.n) /\ position' = position + Now.n /\ end' = end + Now.n /\ Now.n \in Nat
    BY <1>5, <1>17 DEF ReadBytes, Throw
  <2>2. position \in 0..size_ /\ size_ \in 0..(Word - 1)
    BY <1>2 DEF InPlace
  <2>3. position + Now.n <= size_
    BY <2>1, <2>2, HasBytesIs
  <2> QED BY <1>6, <1>7, <2>1, <2>3
<1>18. CASE ReadElement
  BY <1>8, <1>18 DEF ReadElement, history
<1>19. CASE Finish
  BY <1>19 DEF Finish, Throw
<1> QED BY <1>12, <1>13, <1>14, <1>15, <1>16, <1>17, <1>18, <1>19 DEF Read

\* So does every step.
LEMMA PlaceStep ==
  ASSUME DecodeInv, StorageInv, PositionInv, [DecodeNext]_allVars
  PROVE  PositionInv'
<1>1. ASSUME NEW form \in Formats, NEW t \in Types, NEW wellFormed \in BOOLEAN, Begin(form, t, wellFormed)
      PROVE  PositionInv'
  <2>1. progress = "new" /\ size_' = size_ /\ format' = form /\ end' = end /\ progress' # "new"
    BY <1>1 DEF Begin
  <2>2. position = 0 /\ end = 0 /\ size_ \in 0..(Word - 1)
    BY <2>1 DEF PositionInv
  <2>3. ASSUME progress' = "reading" PROVE InPlace'
    <3>1. position' = HeaderSizeOf(form) /\ ~(form = "cdr" /\ size_ < 4)
      BY <1>1, <2>3 DEF Begin
    <3>2. HeaderSize' = HeaderSizeOf(form)
      BY <2>1 DEF HeaderSize
    <3>3. size_ \in Nat
      BY <2>2, WordAssumption
    <3>4. position' \in 0..size_ /\ position' = HeaderSizeOf(form) + 0
      BY <3>1, <3>3 DEF HeaderSizeOf
    <3> QED BY <2>1, <2>2, <3>2, <3>4 DEF InPlace
  <2> QED BY <2>1, <2>2, <2>3 DEF PositionInv
<1>2. CASE UNCHANGED readerVars
  BY <1>2 DEF PositionInv, InPlace, HeaderSize, readerVars, payload, history
<1>3. CASE /\ progress = "new" /\ progress' \in Verdicts
           /\ UNCHANGED <<size_, format, root, position, allocated, depth, todo, history>>
  BY <1>3, Zenon DEF PositionInv, Verdicts
<1> QED BY <1>1, <1>2, <1>3, ReaderSteps, PlaceRead

\* It begins in place.
LEMMA PlaceBegins == DecodeInit => PositionInv
<1> SUFFICES ASSUME DecodeInit PROVE PositionInv
  OBVIOUS
<1>1. size_ \in 0..(Word - 1) /\ progress = "new" /\ position = 0 /\ end = 0
  BY DEF DecodeInit, ReaderInit
<1> QED BY <1>1 DEF PositionInv

\* What is left of the payload holds the elements that a sequence is said to have.
LEMMA CountStep ==
  ASSUME DecodeInv, StorageInv, PositionInv, [DecodeNext]_allVars
  PROVE  [Reading /\ Now.do = "sequence" /\ progress' = "reading" =>
            Head(todo').n * MinimumOf(format, Now.of, PackedMessage[format]) <= size_ - position']_readerVars
<1> SUFFICES ASSUME ~UNCHANGED readerVars, Reading, Now.do = "sequence", progress' = "reading"
             PROVE  Head(todo').n * MinimumOf(format, Now.of, PackedMessage[format]) <= size_ - position'
  OBVIOUS
<1>1. Read
  <2>1. progress # "new"
    BY DEF Reading
  <2> QED BY <2>1, ReaderSteps DEF Begin
<1>2. PICK n \in Lengths : ReadSequence(n)
  BY <1>1 DEF Read, ReadNumber, ReadString, EnterMessage, LeaveMessage, ReadBytes, ReadElement, Finish
<1> DEFINE at == AfterNumber(position, 4)
           c == [do |-> IF IsByte(Now.of) THEN "bytes" ELSE "repeat", of |-> Now.of, n |-> n]
<1>3. /\ NumberFits(position, 4) /\ ~TooLong(n, Now.of, at)
      /\ position' = at /\ todo' = <<c>> \o Rest
  BY <1>2 DEF ReadSequence, Throw, ThrowTooShort
<1>4. Rest \in Seq(CallSet) /\ format \in Formats /\ Now.of \in WireElement
  BY NowIs
<1>5. Head(todo').n = n
  <2>1. c.n = n
    OBVIOUS
  <2> HIDE DEF c
  <2>2. Head(<<c>> \o Rest) = c
    BY <1>4
  <2> QED BY <1>3, <2>1, <2>2
<1> HIDE DEF c
<1>6. InPlace /\ 4 \in Widths /\ n \in Nat
  BY LimitsAre DEF Reading, PositionInv, Widths
<1>7. at \in Nat /\ at <= size_
  BY <1>3, <1>6, NumbersInPlace
<1> HIDE DEF at
<1>8. size_ \in Nat /\ at \in 0..size_ /\ size_ \in 0..(Word - 1) /\ size_ - at \in Nat
  BY <1>6, <1>7, HeaderIs DEF InPlace
<1>9. Minus(size_, at) = size_ - at
  BY <1>8, HasBytesIs
<1>10. PICK h : Sizes(format, h)
  BY <1>4, SizesExist
<1>11. PICK w \in Nat : w = MinimumOf(format, Now.of, h)
  BY <1>4, <1>10, FieldIsNat DEF Sizes
<1>12. WireMinimum(Now.of) = w /\ MinimumOf(format, Now.of, PackedMessage[format]) = w
  BY <1>4, <1>10, <1>11, TypeSizes, PackedSizes DEF WireMinimum
<1>13. n * w <= size_ - at
  <2>1. CASE w = 0
    <3>1. n * 0 = 0
      BY <1>6
    <3> QED BY <1>8, <2>1, <3>1
  <2>2. CASE w > 0
    <3>1. ~(n > (size_ - at) \div w)
      BY <1>3, <1>9, <1>12, <2>2 DEF TooLong
    <3>2. (size_ - at) \div w \in Nat
      BY <1>8, <1>11, <2>2
    <3>3. n <= (size_ - at) \div w
      BY <1>6, <3>1, <3>2
    <3> QED BY ONLY <1>6, <1>8, <1>11, <2>2, <3>3, Quotient
  <2> QED BY <1>11, <2>1, <2>2
<1> QED BY <1>3, <1>5, <1>12, <1>13

\* Elements are made room for only when the payload can still hold them all, whether their
\* type is generated or built in: whatever the compiler takes the least size of a type from, and
\* whatever the table has that the library keeps by hand, it is what the readers read at least.
THEOREM CountsAreCovered == DecodeSpec => CountsCovered
<1>1. DecodeInit => StorageInv /\ PositionInv
  BY StorageBegins, PlaceBegins
<1>2. DecodeInv /\ StorageInv /\ PositionInv /\ [DecodeNext]_allVars => StorageInv' /\ PositionInv'
  BY StorageStep, PlaceStep
<1>3. DecodeInv /\ StorageInv /\ PositionInv /\ [DecodeNext]_allVars =>
        [Reading /\ Now.do = "sequence" /\ progress' = "reading" =>
           Head(todo').n * MinimumOf(format, Now.of, PackedMessage[format]) <= size_ - position']_readerVars
  BY CountStep
<1> QED BY <1>1, <1>2, <1>3, DecodeInvariance, PTL DEF DecodeSpec, CountsCovered

-----------------------------------------------------------------------------
(* The least that is still to be read                                       *)

\* The table g says where a message of the element's type ends, wherever it begins, ...
Runs(g, e) == e.base = "message" => g[e.type] \in [Nat -> Nat]
\* ... which is not before its least size.
Longer(g, h, e) == e.base = "message" => \A x \in Nat : g[e.type][x] >= x + h[e.type]
Equal(g, h, e) == e.base = "message" => g[e.type] = h[e.type]

\* An element ends in a natural, not before its least size, and the table counts for its type only.
LEMMA ElementEnds ==
  ASSUME NEW form \in Formats, NEW e \in WireElement, NEW g, Runs(g, e)
  PROVE  /\ \A x \in Nat : LeastOf(form, e, x, g) \in Nat
         /\ \A h \in Tables : Longer(g, h, e) => \A x \in Nat : LeastOf(form, e, x, g) >= x + MinimumOf(form, e, h)
         /\ \A h : Equal(g, h, e) => \A x \in Nat : LeastOf(form, e, x, g) = LeastOf(form, e, x, h)
<1>1. e.base \in {"number", "string", "message"} /\ (e.base = "number" => e.width \in Widths)
      /\ (e.base = "message" => e.type \in Types)
  BY ElementFacts DEF Widths
<1>2. \A x \in Nat, w \in Widths : EncodedNumber(form, x, w) \in Nat /\ EncodedNumber(form, x, w) >= x + w
  BY EncodedIs
<1>3. 4 \in Widths /\ form \in {"ros1", "cdr"} /\ \A w \in Widths : w \in Nat
  BY DEF Widths, Formats
<1>4. CASE e.base = "number"
  BY <1>1, <1>2, <1>4 DEF LeastOf, MinimumOf
<1>5. CASE e.base = "string"
  <2>1. ASSUME NEW x \in Nat
        PROVE  /\ LeastOf(form, e, x, g) \in Nat /\ \A h : LeastOf(form, e, x, g) = LeastOf(form, e, x, h)
               /\ \A h : LeastOf(form, e, x, g) >= x + MinimumOf(form, e, h)
    <3>1. EncodedNumber(form, x, 4) \in Nat /\ EncodedNumber(form, x, 4) >= x + 4
      BY <1>2, <1>3
    <3>2. \A f : LeastOf(form, e, x, f) = EncodedNumber(form, x, 4) + IF form = "cdr" THEN 1 ELSE 0
      BY <1>5 DEF LeastOf
    <3>3. \A f : MinimumOf(form, e, f) = IF form = "cdr" THEN 5 ELSE 4
      BY <1>5 DEF MinimumOf
    <3> QED BY <1>3, <3>1, <3>2, <3>3
  <2> QED BY <2>1
<1>6. CASE e.base = "message"
  <2>1. \A x, f : LeastOf(form, e, x, f) = f[e.type][x] /\ MinimumOf(form, e, f) = f[e.type]
    BY <1>6 DEF LeastOf, MinimumOf
  <2> QED BY <1>6, <2>1 DEF Runs, Longer, Equal
<1> QED BY <1>1, <1>4, <1>5, <1>6

\* The ends of n elements behind each other
TimesLoop(form, n, e, at, g, a) ==
  /\ a \in [0..n -> Nat]
  /\ a[0] = at /\ \A i \in 1..n : a[i] = LeastOf(form, e, a[i - 1], g)
  /\ LeastTimes(form, n, e, at, g) = a[n]

\* The loop over n elements is well defined ...
LEMMA TimesRuns ==
  ASSUME NEW form \in Formats, NEW n \in Nat, NEW e \in WireElement, NEW at \in Nat, NEW g, Runs(g, e)
  PROVE  \E a : TimesLoop(form, n, e, at, g, a)
<1> DEFINE step == [p \in (1..n) \X Nat |-> LeastOf(form, e, p[2], g)]
           Defines(b) == b = [i \in 0..n |-> IF i = 0 THEN at ELSE LeastOf(form, e, b[i - 1], g)]
           after == CHOOSE b : Defines(b)
<1>1. \A x \in Nat : LeastOf(form, e, x, g) \in Nat
  BY ElementEnds
<1>2. step \in [(1..n) \X Nat -> Nat] /\ \A i \in 1..n : \A x \in Nat : step[<<i, x>>] = LeastOf(form, e, x, g)
  BY <1>1
<1> HIDE DEF step
<1>3. PICK f \in [0..n -> Nat] : IsLoop(f, at, step, n)
  BY <1>2, LoopExists
<1>4. Defines(f)
  <2>1. \A i \in 0..n : f[i] = IF i = 0 THEN at ELSE LeastOf(form, e, f[i - 1], g)
    <3>1. \A i \in 0..n : i # 0 => i \in 1..n /\ i - 1 \in 0..n
      OBVIOUS
    <3> QED BY <1>2, <1>3, <3>1 DEF IsLoop
  <2>2. f = [i \in 0..n |-> f[i]]
    OBVIOUS
  <2> QED BY <2>1, <2>2
<1>5. LeastTimes(form, n, e, at, g) = after[n]
  BY DEF LeastTimes
<1>6. Defines(after)
  <2> HIDE DEF Defines
  <2> QED BY <1>4
<1> HIDE DEF after
<1>7. after[0] = at /\ \A i \in 1..n : after[i] = LeastOf(form, e, after[i - 1], g)
  BY <1>6
<1>8. after = [i \in 0..n |-> after[i]]
  BY <1>6
<1>9. 0..n \subseteq {i \in 0..n : after[i] \in Nat}
  <2> DEFINE T == {i \in 0..n : after[i] \in Nat}
  <2>1. 0 \in T
    BY <1>7
  <2>2. ASSUME NEW i \in 1..n, i - 1 \in T PROVE i \in T
    <3>1. after[i - 1] \in Nat /\ after[i] = LeastOf(form, e, after[i - 1], g)
      BY <1>7, <2>2
    <3>2. after[i] \in Nat
      <4>1. \A x \in Nat : LeastOf(form, e, x, g) \in Nat
        BY <1>1
      <4> QED BY ONLY <3>1, <4>1
    <3>3. i \in 0..n
      OBVIOUS
    <3> QED BY <3>2, <3>3
  <2> HIDE DEF T
  <2>3. 0..n \subseteq T
    BY <2>1, <2>2, Upwards
  <2> QED BY <2>3 DEF T
<1>10. after \in [0..n -> Nat]
  BY <1>8, <1>9
<1> QED BY <1>5, <1>7, <1>10 DEF TimesLoop

\* ... and ends like n elements.
LEMMA TimesEnd ==
  ASSUME NEW form \in Formats, NEW n \in Nat, NEW e \in WireElement, NEW at \in Nat, NEW g, Runs(g, e)
  PROVE  /\ LeastTimes(form, n, e, at, g) \in Nat
         /\ \A h \in Tables : Longer(g, h, e) => LeastTimes(form, n, e, at, g) >= at + n * MinimumOf(form, e, h)
         /\ \A h : Runs(h, e) /\ Equal(g, h, e) => LeastTimes(form, n, e, at, g) = LeastTimes(form, n, e, at, h)
<1>0. PICK a : TimesLoop(form, n, e, at, g, a)
  BY TimesRuns
<1>1. /\ a \in [0..n -> Nat]
      /\ a[0] = at /\ \A i \in 1..n : a[i] = LeastOf(form, e, a[i - 1], g)
      /\ LeastTimes(form, n, e, at, g) = a[n]
  BY <1>0 DEF TimesLoop
<1>2. ASSUME NEW h \in Tables, Longer(g, h, e)
      PROVE  LeastTimes(form, n, e, at, g) >= at + n * MinimumOf(form, e, h)
  <2>1. PICK w \in Nat : w = MinimumOf(form, e, h)
    BY FieldIsNat
  <2>2. \A x \in Nat : LeastOf(form, e, x, g) >= x + w
    BY <1>2, <2>1, ElementEnds
  <2> DEFINE T == {i \in 0..n : a[i] >= at + i * w}
  <2>3. 0 \in T
    BY <1>1
  <2>4. ASSUME NEW i \in 1..n, i - 1 \in T PROVE i \in T
    <3>0. i - 1 \in 0..n /\ i \in 0..n /\ i - 1 \in Nat
      OBVIOUS
    <3>1. a[i - 1] \in Nat /\ a[i] \in Nat /\ a[i - 1] >= at + (i - 1) * w /\ i - 1 \in Nat
      BY <1>1, <2>4, <3>0
    <3>2. a[i] >= a[i - 1] + w
      BY <1>1, <2>2, <3>1
    <3>3. (i - 1) * w \in Nat /\ i * w = (i - 1) * w + w
      BY <3>1
    <3>4. a[i] >= at + i * w
      BY ONLY <3>1, <3>2, <3>3, at \in Nat, w \in Nat
    <3> QED BY <3>4
  <2> HIDE DEF T
  <2>5. n \in T
    <3>1. 0..n \subseteq T
      BY ONLY <2>3, <2>4, n \in Nat, Upwards
    <3> QED BY <3>1
  <2> QED BY <1>1, <2>1, <2>5 DEF T
<1>3. ASSUME NEW h, Runs(h, e), Equal(g, h, e)
      PROVE  LeastTimes(form, n, e, at, g) = LeastTimes(form, n, e, at, h)
  <2>0. PICK b : TimesLoop(form, n, e, at, h, b)
    BY <1>3, TimesRuns
  <2>1. /\ b \in [0..n -> Nat]
        /\ b[0] = at /\ \A i \in 1..n : b[i] = LeastOf(form, e, b[i - 1], h)
        /\ LeastTimes(form, n, e, at, h) = b[n]
    BY <2>0 DEF TimesLoop
  <2>2. \A x \in Nat : LeastOf(form, e, x, g) = LeastOf(form, e, x, h)
    BY <1>3, ElementEnds
  <2> DEFINE T == {i \in 0..n : a[i] = b[i]}
  <2>3. 0 \in T
    BY <1>1, <2>1
  <2>4. \A i \in 1..n : i - 1 \in T => i \in T
    BY <1>1, <2>1, <2>2
  <2> HIDE DEF T
  <2>5. n \in T
    <3>1. 0..n \subseteq T
      BY ONLY <2>3, <2>4, n \in Nat, Upwards
    <3> QED BY <3>1
  <2> QED BY <1>1, <2>1, <2>5 DEF T
<1>4. LeastTimes(form, n, e, at, g) \in Nat
  BY <1>1
<1> QED BY <1>2, <1>3, <1>4

\* So does a field.
LEMMA FieldEnds ==
  ASSUME NEW form \in Formats, NEW f \in WireField, NEW at \in Nat, NEW g, f.kind # "sequence" => Runs(g, f.of)
  PROVE  /\ LeastField(form, f, at, g) \in Nat
         /\ \A h \in Tables : (f.kind # "sequence" => Longer(g, h, f.of)) =>
                                LeastField(form, f, at, g) >= at + FieldMinimum(form, f, h)
         /\ \A h : (f.kind # "sequence" => Runs(h, f.of) /\ Equal(g, h, f.of)) =>
                      LeastField(form, f, at, g) = LeastField(form, f, at, h)
<1>1. f.kind \in {"scalar", "array", "sequence"} /\ f.of \in WireElement /\ (f.kind = "array" => f.length \in Nat)
  BY FieldFacts
<1>2. CASE f.kind = "scalar"
  <2>1. \A h : LeastField(form, f, at, h) = LeastOf(form, f.of, at, h) /\ FieldMinimum(form, f, h) = MinimumOf(form, f.of, h)
    BY <1>2 DEF LeastField, FieldMinimum
  <2> QED BY <1>1, <1>2, <2>1, ElementEnds
<1>3. CASE f.kind = "array"
  <2>1. \A h : /\ LeastField(form, f, at, h) = LeastTimes(form, f.length, f.of, at, h)
               /\ FieldMinimum(form, f, h) = f.length * MinimumOf(form, f.of, h)
    BY <1>3 DEF LeastField, FieldMinimum
  <2> QED BY <1>1, <1>3, <2>1, TimesEnd
<1>4. CASE f.kind = "sequence"
  <2>1. \A h : LeastField(form, f, at, h) = EncodedNumber(form, at, 4) /\ FieldMinimum(form, f, h) = 4
    BY <1>4 DEF LeastField, FieldMinimum
  <2>2. EncodedNumber(form, at, 4) \in Nat /\ EncodedNumber(form, at, 4) >= at + 4
    <3>1. 4 \in Widths
      BY DEF Widths
    <3> QED BY <3>1, EncodedIs
  <2> QED BY <2>1, <2>2
<1> QED BY <1>1, <1>2, <1>3, <1>4

RunsIn(g, s) == \A u \in HeldIn(s) : g[u] \in [Nat -> Nat]
LongerIn(g, h, s) == \A u \in HeldIn(s) : \A x \in Nat : g[u][x] >= x + h[u]
SameIn(g, h, s) == \A u \in HeldIn(s) : g[u] = h[u]

\* What is known of the types that fields hold is known of the type of each field.
LEMMA FieldHolds ==
  ASSUME NEW s \in Seq(WireField), NEW i \in 1..Len(s)
  PROVE  /\ s[i] \in WireField
         /\ \A g : RunsIn(g, s) => (s[i].kind # "sequence" => Runs(g, s[i].of))
         /\ \A g, h : LongerIn(g, h, s) => (s[i].kind # "sequence" => Longer(g, h, s[i].of))
         /\ \A g, h : SameIn(g, h, s) => (s[i].kind # "sequence" => Equal(g, h, s[i].of))
<1>1. s[i] \in WireField /\ s[i] \in ToSet(s)
  BY DEF ToSet
<1>2. s[i].kind # "sequence" /\ s[i].of.base = "message" => s[i].of.type \in HeldIn(s)
  BY <1>1 DEF HeldIn
<1> QED BY <1>1, <1>2 DEF RunsIn, Runs, LongerIn, Longer, SameIn, Equal

\* The ends of the fields of a message
LayoutLoop(form, s, at, g, a) ==
  /\ a \in [0..Len(s) -> Nat]
  /\ a[0] = at /\ \A i \in 1..Len(s) : a[i] = LeastField(form, s[i], a[i - 1], g)
  /\ LeastLayout(form, s, at, g) = a[Len(s)]

\* The loop over the fields is well defined ...
LEMMA LayoutRuns ==
  ASSUME NEW form \in Formats, NEW s \in Seq(WireField), NEW at \in Nat, NEW g, RunsIn(g, s)
  PROVE  \E a : LayoutLoop(form, s, at, g, a)
<1> DEFINE n == Len(s)
           step == [p \in (1..n) \X Nat |-> LeastField(form, s[p[1]], p[2], g)]
           Defines(b) == b = [i \in 0..n |-> IF i = 0 THEN at ELSE LeastField(form, s[i], b[i - 1], g)]
           after == CHOOSE b : Defines(b)
<1>0. n \in Nat
  OBVIOUS
<1>1. \A i \in 1..n : \A x \in Nat : LeastField(form, s[i], x, g) \in Nat
  <2> TAKE i \in 1..n
  <2> TAKE x \in Nat
  <2>1. s[i] \in WireField /\ (s[i].kind # "sequence" => Runs(g, s[i].of))
    BY FieldHolds
  <2> QED BY <2>1, FieldEnds
<1>2. step \in [(1..n) \X Nat -> Nat] /\ \A i \in 1..n : \A x \in Nat : step[<<i, x>>] = LeastField(form, s[i], x, g)
  BY <1>1
<1>5. LeastLayout(form, s, at, g) = after[n]
  BY DEF LeastLayout
<1> HIDE DEF step, n
<1>3. PICK f \in [0..n -> Nat] : IsLoop(f, at, step, n)
  BY <1>0, <1>2, LoopExists
<1>4. Defines(f)
  <2>1. \A i \in 0..n : f[i] = IF i = 0 THEN at ELSE LeastField(form, s[i], f[i - 1], g)
    <3>1. \A i \in 0..n : i # 0 => i \in 1..n /\ i - 1 \in 0..n
      BY <1>0
    <3> QED BY <1>2, <1>3, <3>1 DEF IsLoop
  <2>2. f = [i \in 0..n |-> f[i]]
    OBVIOUS
  <2> QED BY <2>1, <2>2
<1>6. Defines(after)
  <2> HIDE DEF Defines
  <2> QED BY <1>4
<1> HIDE DEF after
<1>7. after[0] = at /\ \A i \in 1..n : after[i] = LeastField(form, s[i], after[i - 1], g)
  <2>1. \A i \in 1..n : i \in 0..n /\ i # 0
    BY <1>0
  <2>2. 0 \in 0..n
    BY <1>0
  <2> QED BY <1>6, <2>1, <2>2
<1>8. after = [i \in 0..n |-> after[i]]
  BY <1>6
<1>9. 0..n \subseteq {i \in 0..n : after[i] \in Nat}
  <2> DEFINE T == {i \in 0..n : after[i] \in Nat}
  <2>1. 0 \in T
    BY <1>0, <1>7
  <2>2. ASSUME NEW i \in 1..n, i - 1 \in T PROVE i \in T
    <3>1. after[i - 1] \in Nat /\ after[i] = LeastField(form, s[i], after[i - 1], g)
      BY <1>7, <2>2
    <3>2. after[i] \in Nat
      BY ONLY <1>1, <3>1, i \in 1..n
    <3>3. i \in 0..n
      BY <1>0
    <3> QED BY <3>2, <3>3
  <2> HIDE DEF T
  <2>3. 0..n \subseteq T
    BY <1>0, <2>1, <2>2, Upwards
  <2> QED BY <2>3 DEF T
<1>10. after \in [0..n -> Nat]
  BY <1>8, <1>9
<1> QED BY <1>5, <1>7, <1>10 DEF LayoutLoop, n

\* ... and ends like the fields.
LEMMA LayoutEnd ==
  ASSUME NEW form \in Formats, NEW s \in Seq(WireField), NEW at \in Nat, NEW g, RunsIn(g, s)
  PROVE  /\ LeastLayout(form, s, at, g) \in Nat
         /\ \A h \in Tables : LongerIn(g, h, s) => LeastLayout(form, s, at, g) >= at + LayoutMinimum(form, s, h)
         /\ \A h : RunsIn(h, s) /\ SameIn(g, h, s) => LeastLayout(form, s, at, g) = LeastLayout(form, s, at, h)
<1> DEFINE n == Len(s)
<1>0. PICK a : LayoutLoop(form, s, at, g, a)
  BY LayoutRuns
<1>1. /\ a \in [0..n -> Nat] /\ n \in Nat
      /\ a[0] = at /\ \A i \in 1..n : a[i] = LeastField(form, s[i], a[i - 1], g)
      /\ LeastLayout(form, s, at, g) = a[n]
  BY <1>0 DEF LayoutLoop
<1>4. \A i \in 1..n : i - 1 \in 0..n /\ i \in 0..n /\ i - 1 \in Nat
  BY <1>1
<1>2. ASSUME NEW h \in Tables, LongerIn(g, h, s)
      PROVE  LeastLayout(form, s, at, g) >= at + LayoutMinimum(form, s, h)
  <2> DEFINE L(k) == LayoutMinimum(form, SubSeq(s, 1, k), h)
             T == {k \in 0..n : L(k) \in Nat /\ a[k] >= at + L(k)}
  <2>1. SubSeq(s, 1, 0) = <<>> /\ SubSeq(s, 1, n) = s
    OBVIOUS
  <2>2. 0 \in T
    <3>1. L(0) = 0
      BY <2>1, LayoutOfNone
    <3> QED BY <1>1, <3>1
  <2>3. ASSUME NEW i \in 1..n, i - 1 \in T PROVE i \in T
    <3> DEFINE b == SubSeq(s, 1, i - 1)
    <3>1. SubSeq(s, 1, i) = Append(b, s[i]) /\ b \in Seq(WireField)
      BY <1>1
    <3> HIDE DEF b
    <3>2. s[i] \in WireField /\ (s[i].kind # "sequence" => Runs(g, s[i].of) /\ Longer(g, h, s[i].of))
      BY <1>2, FieldHolds
    <3>3. LayoutMinimum(form, Append(b, s[i]), h) = LayoutMinimum(form, b, h) + FieldMinimum(form, s[i], h)
      BY <3>1, <3>2, LayoutAppend
    <3>4. FieldMinimum(form, s[i], h) \in Nat
      BY <3>2, FieldIsNat
    <3>5. LayoutMinimum(form, b, h) \in Nat /\ a[i - 1] >= at + LayoutMinimum(form, b, h)
      BY <2>3 DEF b
    <3>6. a[i - 1] \in Nat /\ a[i] \in Nat /\ a[i] = LeastField(form, s[i], a[i - 1], g)
      BY <1>1, <1>4
    <3>7. LeastField(form, s[i], a[i - 1], g) >= a[i - 1] + FieldMinimum(form, s[i], h)
      BY <3>2, <3>6, FieldEnds
    <3>8. PICK p \in Nat, q \in Nat, x \in Nat, y \in Nat :
            p = LayoutMinimum(form, b, h) /\ q = FieldMinimum(form, s[i], h) /\ x = a[i - 1] /\ y = a[i]
      BY <3>4, <3>5, <3>6
    <3>9. L(i) = p + q /\ y >= x + q /\ x >= at + p
      BY <3>1, <3>3, <3>5, <3>6, <3>7, <3>8
    <3> HIDE DEF L
    <3>10. L(i) \in Nat /\ y >= at + L(i)
      BY ONLY <3>9, at \in Nat, p \in Nat, q \in Nat, x \in Nat, y \in Nat
    <3> QED BY <1>4, <3>8, <3>10
  <2> HIDE DEF T
  <2>4. n \in T
    <3>1. 0..n \subseteq T
      BY ONLY <2>2, <2>3, <1>1, Upwards
    <3> QED BY <1>1, <3>1
  <2> QED BY <1>1, <2>1, <2>4 DEF T
<1>3. ASSUME NEW h, RunsIn(h, s), SameIn(g, h, s)
      PROVE  LeastLayout(form, s, at, g) = LeastLayout(form, s, at, h)
  <2>0. PICK b : LayoutLoop(form, s, at, h, b)
    BY <1>3, LayoutRuns
  <2>1. /\ b \in [0..n -> Nat]
        /\ b[0] = at /\ \A i \in 1..n : b[i] = LeastField(form, s[i], b[i - 1], h)
        /\ LeastLayout(form, s, at, h) = b[n]
    BY <2>0 DEF LayoutLoop
  <2> HIDE DEF n
  <2> DEFINE T == {i \in 0..n : a[i] = b[i]}
  <2>3. 0 \in T
    BY <1>1, <2>1
  <2>4. ASSUME NEW i \in 1..n, i - 1 \in T PROVE i \in T
    <3>1. /\ s[i] \in WireField
          /\ s[i].kind # "sequence" => Runs(g, s[i].of) /\ Runs(h, s[i].of) /\ Equal(g, h, s[i].of)
      BY <1>3, FieldHolds DEF n
    <3>2. a[i - 1] \in Nat /\ b[i - 1] = a[i - 1]
      BY <1>1, <1>4, <2>4
    <3>3. LeastField(form, s[i], a[i - 1], g) = LeastField(form, s[i], a[i - 1], h)
      BY <3>1, <3>2, FieldEnds
    <3> QED BY <1>1, <1>4, <2>1, <3>2, <3>3
  <2> HIDE DEF T
  <2>5. n \in T
    <3>1. 0..n \subseteq T
      BY ONLY <2>3, <2>4, <1>1, Upwards
    <3> QED BY <1>1, <3>1
  <2> QED BY <1>1, <2>1, <2>5 DEF T
<1>5. LeastLayout(form, s, at, g) \in Nat
  BY <1>1
<1> QED BY <1>2, <1>3, <1>5

\* What holds of a type if it holds of those inside of it holds of every type.
LEMMA Inwards ==
  ASSUME NEW form \in Formats, NEW S, \A t \in Types : HeldIn(FieldsOf(form, t)) \subseteq S => t \in S
  PROVE  Types \subseteq S
<1> DEFINE low == Types \ S
           bad == {Height[t] : t \in low}
<1> SUFFICES ASSUME NEW x \in low PROVE FALSE
  OBVIOUS
<1>1. bad \in SUBSET Nat /\ Height[x] \in bad
  BY HeightAssumption
<1> HIDE DEF bad
<1>2. PICK m \in bad : \A k \in bad : m <= k
  BY <1>1, LeastNatural
<1>3. PICK t \in low : Height[t] = m
  BY <1>2 DEF bad
<1>4. ASSUME NEW u \in HeldIn(FieldsOf(form, t)) PROVE u \in S
  <2>1. u \in Types /\ Height[u] \in Nat /\ Height[t] \in Nat /\ Height[u] < Height[t]
    BY HeldTypesAre
  <2>2. ~(m <= Height[u])
    BY <1>3, <2>1
  <2> QED BY <1>2, <2>1, <2>2 DEF bad
<1> QED BY <1>3, <1>4

\* Where a message of each type ends, wherever it begins
LEMMA MessageEnds ==
  ASSUME NEW form \in Formats, NEW h, Sizes(form, h)
  PROVE  \A t \in Types : /\ LeastMessage[form][t] \in [Nat -> Nat]
                          /\ \A x \in Nat : /\ LeastMessage[form][t][x] = LeastLayout(form, FieldsOf(form, t), x, LeastMessage[form])
                                            /\ LeastMessage[form][t][x] >= x + h[t]
<1> DEFINE D == [Nat -> Nat]
           rank == [t \in Types |-> Height[t]]
           EndsOf(g, t) == [at \in Nat |-> LeastLayout(form, FieldsOf(form, t), at, g)]
           step == [g \in [Types -> D] |-> [t \in Types |-> EndsOf(g, t)]]
           Defines(f) == f = [t \in Types |-> [at \in Nat |-> LeastLayout(form, FieldsOf(form, t), at, f)]]
           least == CHOOSE f : Defines(f)
<1>1. rank \in [Types -> Nat]
  BY HeightAssumption
<1>2. ASSUME NEW g, NEW t \in Types, RunsIn(g, FieldsOf(form, t)) PROVE EndsOf(g, t) \in D
  <2>1. FieldsOf(form, t) \in Seq(WireField)
    BY FieldsOfTypes
  <2>2. \A at \in Nat : LeastLayout(form, FieldsOf(form, t), at, g) \in Nat
    BY <1>2, <2>1, LayoutEnd
  <2> QED BY <2>2
<1>3. ASSUME NEW g \in [Types -> D], NEW t \in Types PROVE RunsIn(g, FieldsOf(form, t))
  BY HeldTypesAre DEF RunsIn
<1>4. ASSUME NEW g, NEW f, NEW t \in Types, RunsIn(g, FieldsOf(form, t)), RunsIn(f, FieldsOf(form, t)),
             SameIn(g, f, FieldsOf(form, t))
      PROVE  EndsOf(g, t) = EndsOf(f, t)
  <2>1. FieldsOf(form, t) \in Seq(WireField)
    BY FieldsOfTypes
  <2>2. \A at \in Nat : LeastLayout(form, FieldsOf(form, t), at, g) = LeastLayout(form, FieldsOf(form, t), at, f)
    BY <1>4, <2>1, LayoutEnd
  <2> QED BY <2>2
<1>5. \A g \in [Types -> D] : step[g] = [t \in Types |-> EndsOf(g, t)]
  OBVIOUS
<1>6. LeastMessage[form] = least
  BY DEF LeastMessage
<1>7. \A f : Defines(f) <=> f = [t \in Types |-> EndsOf(f, t)]
  OBVIOUS
<1>8. \A g, t : \A x \in Nat : EndsOf(g, t)[x] = LeastLayout(form, FieldsOf(form, t), x, g)
  OBVIOUS
<1> HIDE DEF Defines, EndsOf, step
<1>9. Ranked(step, Types, D, rank)
  <2>1. \A g \in [Types -> D] : step[g] \in [Types -> D]
    <3> HIDE DEF D
    <3> TAKE g \in [Types -> D]
    <3>1. \A t \in Types : EndsOf(g, t) \in D
      BY <1>2, <1>3
    <3>2. step[g] = [t \in Types |-> EndsOf(g, t)]
      BY <1>5
    <3> QED BY ONLY <3>1, <3>2
  <2>2. step = [g \in [Types -> D] |-> step[g]]
    BY DEF step
  <2>3. step \in [[Types -> D] -> [Types -> D]]
    <3> HIDE DEF D
    <3> QED BY <2>1, <2>2
  <2>4. ASSUME NEW g \in [Types -> D], NEW f \in [Types -> D], NEW t \in Types,
               \A u \in Types : rank[u] < rank[t] => g[u] = f[u]
        PROVE  step[g][t] = step[f][t]
    <3>1. SameIn(g, f, FieldsOf(form, t))
      BY <2>4, HeldTypesAre DEF SameIn
    <3>2. EndsOf(g, t) = EndsOf(f, t)
      BY <1>3, <1>4, <3>1
    <3>3. step[g][t] = EndsOf(g, t)
      BY <1>5
    <3>4. step[f][t] = EndsOf(f, t)
      BY <1>5
    <3> QED BY ONLY <3>2, <3>3, <3>4
  <2> HIDE DEF D, rank
  <2> QED BY <1>1, <2>3, <2>4 DEF Ranked
<1>10. PICK f \in [Types -> D] : f = step[f]
  <2>1. D # {}
    <3>1. [x \in Nat |-> 0] \in D
      OBVIOUS
    <3> QED BY <3>1
  <2> HIDE DEF D, rank
  <2> QED BY <1>9, <2>1, TableExists
<1>11. Defines(f)
  BY <1>5, <1>7, <1>10
<1>12. Defines(least)
  <2> QED BY <1>11
<1> HIDE DEF least, rank
<1>13. \A t \in Types : least[t] = EndsOf(least, t)
  BY <1>7, <1>12
<1>14. h \in Tables /\ \A t \in Types : h[t] \in Nat /\ h[t] = LayoutMinimum(form, FieldsOf(form, t), h)
  BY DEF Sizes, Tables
<1> DEFINE S == {t \in Types : least[t] \in [Nat -> Nat] /\ \A x \in Nat : least[t][x] >= x + h[t]}
<1>15. ASSUME NEW t \in Types, HeldIn(FieldsOf(form, t)) \subseteq S PROVE t \in S
  <2>1. RunsIn(least, FieldsOf(form, t)) /\ LongerIn(least, h, FieldsOf(form, t))
    BY <1>15 DEF RunsIn, LongerIn
  <2>2. FieldsOf(form, t) \in Seq(WireField)
    BY FieldsOfTypes
  <2>3. least[t] \in [Nat -> Nat]
    BY <1>2, <1>13, <2>1
  <2>4. ASSUME NEW x \in Nat PROVE least[t][x] >= x + h[t]
    <3>1. LeastLayout(form, FieldsOf(form, t), x, least) >= x + LayoutMinimum(form, FieldsOf(form, t), h)
      BY <1>14, <2>1, <2>2, LayoutEnd
    <3> QED BY <1>8, <1>13, <1>14, <3>1
  <2> QED BY <2>3, <2>4
<1>16. Types \subseteq S
  <2> HIDE DEF S
  <2> QED BY <1>15, Inwards
<1> QED BY <1>6, <1>8, <1>13, <1>16

-----------------------------------------------------------------------------
(* The least that a call, and all calls, still read                         *)

\* What is known of messages is known of elements.
LEMMA ElementsEnd ==
  ASSUME NEW form \in Formats, NEW h, Sizes(form, h), NEW e \in WireElement
  PROVE  Runs(LeastMessage[form], e) /\ Longer(LeastMessage[form], h, e)
<1>1. e.base = "message" => e.type \in Types
  BY ElementFacts
<1> QED BY <1>1, MessageEnds DEF Runs, Longer

\* A call goes on from where it begins.
LEMMA CallEnds ==
  ASSUME NEW form \in Formats, NEW room \in Nat, NEW c \in CallSet, NEW x \in Nat
  PROVE  LeastCall(form, room, c, x) \in Nat /\ LeastCall(form, room, c, x) >= x
<1>1. /\ c.do \in {"element", "repeat", "bytes", "sequence", "leave", "finish"}
      /\ c.do \in {"element", "repeat", "bytes", "sequence"} => c.of \in WireElement
      /\ c.do \in {"repeat", "bytes"} => c.n \in Nat
  BY CallsAre
<1>2. PICK h : Sizes(form, h)
  BY SizesExist
<1>3. h \in Tables
  BY <1>2 DEF Sizes
<1>4. CASE c.do = "element"
  <2>1. LeastCall(form, room, c, x) = LeastOf(form, c.of, x, LeastMessage[form])
    BY <1>4 DEF LeastCall
  <2>2. Runs(LeastMessage[form], c.of) /\ Longer(LeastMessage[form], h, c.of) /\ c.of \in WireElement
    BY <1>1, <1>2, <1>4, ElementsEnd
  <2>3. LeastOf(form, c.of, x, LeastMessage[form]) \in Nat
    BY <2>2, ElementEnds
  <2>4. LeastOf(form, c.of, x, LeastMessage[form]) >= x + MinimumOf(form, c.of, h)
    BY <1>3, <2>2, ElementEnds
  <2>5. MinimumOf(form, c.of, h) \in Nat
    BY <1>3, <2>2, FieldIsNat
  <2> QED BY <2>1, <2>3, <2>4, <2>5
<1>5. CASE c.do = "repeat"
  <2> DEFINE k == Min({c.n, room + 1})
  <2>0. LeastCall(form, room, c, x) = LeastTimes(form, k, c.of, x, LeastMessage[form])
    BY <1>5 DEF LeastCall
  <2>1. k \in Nat
    <3>1. c.n \in Nat /\ room + 1 \in Nat
      BY <1>1, <1>5
    <3>2. \A t \in {c.n, room + 1} : 0 <= t
      BY <3>1
    <3>3. {c.n, room + 1} \in SUBSET Int
      BY <3>1
    <3>4. Min({c.n, room + 1}) \in {c.n, room + 1}
      BY <3>2, <3>3, MinOfBounded
    <3> QED BY <3>1, <3>4
  <2> HIDE DEF k
  <2>2. Runs(LeastMessage[form], c.of) /\ Longer(LeastMessage[form], h, c.of) /\ c.of \in WireElement
    BY <1>1, <1>2, <1>5, ElementsEnd
  <2>3. LeastTimes(form, k, c.of, x, LeastMessage[form]) \in Nat
    BY <2>1, <2>2, TimesEnd
  <2>4. LeastTimes(form, k, c.of, x, LeastMessage[form]) >= x + k * MinimumOf(form, c.of, h)
    BY <1>3, <2>1, <2>2, TimesEnd
  <2>5. PICK w \in Nat : w = MinimumOf(form, c.of, h)
    BY <1>3, <2>2, FieldIsNat
  <2>6. k * w \in Nat
    BY <2>1
  <2> QED BY <2>0, <2>3, <2>4, <2>5, <2>6
<1>6. CASE c.do = "sequence"
  <2>1. 4 \in Widths
    BY DEF Widths
  <2>2. EncodedNumber(form, x, 4) \in Nat /\ EncodedNumber(form, x, 4) >= x + 4
    BY <2>1, EncodedIs
  <2>3. LeastCall(form, room, c, x) = EncodedNumber(form, x, 4)
    BY <1>6 DEF LeastCall
  <2> QED BY <2>2, <2>3
<1>7. CASE c.do = "bytes"
  <2>1. LeastCall(form, room, c, x) = x + c.n
    BY <1>7 DEF LeastCall
  <2> QED BY <1>1, <1>7, <2>1
<1>8. CASE c.do \in {"leave", "finish"}
  <2>1. LeastCall(form, room, c, x) = x
    BY <1>8 DEF LeastCall
  <2> QED BY <2>1
<1> QED BY <1>1, <1>4, <1>5, <1>6, <1>7, <1>8

\* The ends of what each call reads
CallLoop(form, room, s, at, a) ==
  /\ a \in [0..Len(s) -> Nat]
  /\ a[0] = at /\ \A i \in 1..Len(s) : a[i] = LeastCall(form, room, s[i], a[i - 1])
  /\ LeastAfter(form, room, s, at) = a[Len(s)]

\* The loop over the calls is well defined.
LEMMA CallsRun ==
  ASSUME NEW form \in Formats, NEW room \in Nat, NEW s \in Seq(CallSet), NEW at \in Nat
  PROVE  \E a : CallLoop(form, room, s, at, a)
<1> DEFINE n == Len(s)
           step == [p \in (1..n) \X Nat |-> LeastCall(form, room, s[p[1]], p[2])]
           Defines(b) == b = [i \in 0..n |-> IF i = 0 THEN at ELSE LeastCall(form, room, s[i], b[i - 1])]
           after == CHOOSE b : Defines(b)
<1>0. n \in Nat
  OBVIOUS
<1>1. \A i \in 1..n : \A x \in Nat : LeastCall(form, room, s[i], x) \in Nat
  <2> TAKE i \in 1..n
  <2> TAKE x \in Nat
  <2>1. s[i] \in CallSet
    OBVIOUS
  <2> QED BY <2>1, CallEnds
<1>2. step \in [(1..n) \X Nat -> Nat] /\ \A i \in 1..n : \A x \in Nat : step[<<i, x>>] = LeastCall(form, room, s[i], x)
  BY <1>1
<1>5. LeastAfter(form, room, s, at) = after[n]
  BY DEF LeastAfter
<1> HIDE DEF step, n
<1>3. PICK f \in [0..n -> Nat] : IsLoop(f, at, step, n)
  BY <1>0, <1>2, LoopExists
<1>4. Defines(f)
  <2>1. \A i \in 0..n : f[i] = IF i = 0 THEN at ELSE LeastCall(form, room, s[i], f[i - 1])
    <3>1. \A i \in 0..n : i # 0 => i \in 1..n /\ i - 1 \in 0..n
      BY <1>0
    <3> QED BY <1>2, <1>3, <3>1 DEF IsLoop
  <2>2. f = [i \in 0..n |-> f[i]]
    OBVIOUS
  <2> QED BY <2>1, <2>2
<1>6. Defines(after)
  <2> HIDE DEF Defines
  <2> QED BY <1>4
<1> HIDE DEF after
<1>7. after[0] = at /\ \A i \in 1..n : after[i] = LeastCall(form, room, s[i], after[i - 1])
  <2>1. \A i \in 1..n : i \in 0..n /\ i # 0
    BY <1>0
  <2>2. 0 \in 0..n
    BY <1>0
  <2> QED BY <1>6, <2>1, <2>2
<1>8. after = [i \in 0..n |-> after[i]]
  BY <1>6
<1>9. 0..n \subseteq {i \in 0..n : after[i] \in Nat}
  <2> DEFINE T == {i \in 0..n : after[i] \in Nat}
  <2>1. 0 \in T
    BY <1>0, <1>7
  <2>2. ASSUME NEW i \in 1..n, i - 1 \in T PROVE i \in T
    <3>1. after[i - 1] \in Nat /\ after[i] = LeastCall(form, room, s[i], after[i - 1])
      BY <1>7, <2>2
    <3>2. after[i] \in Nat
      BY ONLY <1>1, <3>1, i \in 1..n
    <3>3. i \in 0..n
      BY <1>0
    <3> QED BY <3>2, <3>3
  <2> HIDE DEF T
  <2>3. 0..n \subseteq T
    BY <1>0, <2>1, <2>2, Upwards
  <2> QED BY <2>3 DEF T
<1>10. after \in [0..n -> Nat]
  BY <1>8, <1>9
<1> QED BY <1>5, <1>7, <1>10 DEF CallLoop, n

\* All calls read no less than the first of them.
LEMMA FirstCall ==
  ASSUME NEW form \in Formats, NEW room \in Nat, NEW s \in Seq(CallSet), s # <<>>, NEW at \in Nat
  PROVE  /\ LeastCall(form, room, s[1], at) \in Nat
         /\ LeastAfter(form, room, s, at) \in Nat
         /\ LeastAfter(form, room, s, at) >= LeastCall(form, room, s[1], at)
<1> DEFINE n == Len(s)
<1>0. PICK a : CallLoop(form, room, s, at, a)
  BY CallsRun
<1>1. /\ a \in [0..n -> Nat] /\ n \in Nat /\ n >= 1
      /\ a[0] = at /\ \A i \in 1..n : a[i] = LeastCall(form, room, s[i], a[i - 1])
      /\ LeastAfter(form, room, s, at) = a[n]
  BY <1>0 DEF CallLoop
<1>2. \A i \in 1..n : s[i] \in CallSet
  OBVIOUS
<1> HIDE DEF n
<1>3. a[1] = LeastCall(form, room, s[1], at)
  BY <1>1
<1>4. \A i \in 1..n : i - 1 \in 0..n /\ i \in 0..n
  BY <1>1
<1> DEFINE T == {i \in 0..n : i = 0 \/ a[i] >= a[1]}
<1>5. 0 \in T
  BY <1>1
<1>6. ASSUME NEW i \in 1..n, i - 1 \in T PROVE i \in T
  <2>1. a[i - 1] \in Nat /\ a[i] \in Nat /\ a[1] \in Nat
    BY <1>1, <1>4
  <2>2. a[i] >= a[i - 1]
    <3>1. a[i] = LeastCall(form, room, s[i], a[i - 1]) /\ s[i] \in CallSet
      BY <1>1, <1>2
    <3> QED BY <2>1, <3>1, CallEnds
  <2>3. CASE i = 1
    BY <1>4, <2>1, <2>3
  <2>4. CASE i # 1
    <3>1. a[i - 1] >= a[1]
      BY <1>6, <2>4
    <3> QED BY <1>4, <2>1, <2>2, <3>1
  <2> QED BY <2>3, <2>4
<1> HIDE DEF T
<1>7. n \in T
  <2>1. 0..n \subseteq T
    BY ONLY <1>1, <1>5, <1>6, Upwards
  <2> QED BY <1>1, <2>1
<1>8. a[1] \in Nat /\ a[n] \in Nat /\ a[n] >= a[1]
  BY <1>1, <1>7 DEF T
<1> QED BY <1>1, <1>3, <1>8

\* A payload that ends before the first call is done ends before all are.
LEMMA EndsBefore ==
  ASSUME NEW form \in Formats, NEW room \in Nat, NEW s \in Seq(CallSet), NEW c \in CallSet, NEW at \in Nat,
         NEW front \in Nat, room < front + LeastCall(form, room, c, at)
  PROVE  room < front + LeastAfter(form, room, <<c>> \o s, at)
<1> DEFINE t == <<c>> \o s
<1>1. t \in Seq(CallSet) /\ t # <<>> /\ t[1] = c
  OBVIOUS
<1> HIDE DEF t
<1>2. /\ LeastCall(form, room, c, at) \in Nat /\ LeastAfter(form, room, t, at) \in Nat
      /\ LeastAfter(form, room, t, at) >= LeastCall(form, room, c, at)
  BY <1>1, FirstCall
<1> QED BY <1>2 DEF t

-----------------------------------------------------------------------------
(* The messages that are open                                               *)

LeavesOf(s) == {i \in DOMAIN s : s[i].do = "leave"}

\* They are finitely many ...
LEMMA LeavesCount ==
  ASSUME NEW s \in Seq(CallSet)
  PROVE  IsFiniteSet(LeavesOf(s)) /\ Cardinality(LeavesOf(s)) \in Nat
<1>1. PICK n \in Nat : DOMAIN s = 1..n
  OBVIOUS
<1>2. IsFiniteSet(1..n)
  BY FS_Interval
<1>3. LeavesOf(s) \in SUBSET (1..n)
  BY <1>1 DEF LeavesOf
<1> QED BY <1>2, <1>3, FS_Subset, FS_CardinalityType

\* ... and of calls behind calls, as many as of both.
LEMMA LeavesJoin ==
  ASSUME NEW s \in Seq(CallSet), NEW t \in Seq(CallSet)
  PROVE  Cardinality(LeavesOf(s \o t)) = Cardinality(LeavesOf(s)) + Cardinality(LeavesOf(t))
<1> DEFINE n == Len(s)
           m == Len(t)
           A == LeavesOf(s)
           B == LeavesOf(t)
           f == [i \in B |-> n + i]
           C == {n + i : i \in B}
<1>1. n \in Nat /\ m \in Nat /\ DOMAIN s = 1..n /\ DOMAIN t = 1..m
  OBVIOUS
<1>2. DOMAIN (s \o t) = 1..(n + m)
  OBVIOUS
<1>3. \A i \in 1..n : (s \o t)[i] = s[i]
  OBVIOUS
<1>4. \A i \in 1..m : (s \o t)[n + i] = t[i]
  OBVIOUS
<1>5. A \subseteq 1..n /\ B \subseteq 1..m
  BY <1>1 DEF LeavesOf
<1>6. IsFiniteSet(A) /\ Cardinality(A) \in Nat /\ IsFiniteSet(B) /\ Cardinality(B) \in Nat
  BY LeavesCount
<1>7. \A i \in 1..n : i \in A <=> s[i].do = "leave"
  BY <1>1 DEF LeavesOf
<1>8. \A i \in 1..m : i \in B <=> t[i].do = "leave"
  BY <1>1 DEF LeavesOf
<1> DEFINE u == s \o t
<1>9. LeavesOf(u) = {i \in 1..(n + m) : u[i].do = "leave"}
  BY <1>2 DEF LeavesOf
<1> HIDE DEF n, m, A, B, u
<1>10. LeavesOf(u) = A \cup C
  <2>1. ASSUME NEW i \in LeavesOf(u) PROVE i \in A \cup C
    <3>1. i \in 1..(n + m) /\ u[i].do = "leave"
      BY <1>9, <2>1
    <3>2. CASE i <= n
      <4>1. i \in 1..n
        BY <1>1, <3>1, <3>2
      <4> QED BY <1>3, <1>7, <3>1, <4>1 DEF u
    <3>3. CASE ~(i <= n)
      <4>1. PICK j \in 1..m : i = n + j
        <5>1. i - n \in 1..m /\ i = n + (i - n)
          BY <1>1, <3>1, <3>3
        <5> QED BY <5>1
      <4>2. u[i] = t[j]
        BY <1>4, <4>1 DEF u
      <4>3. j \in B
        BY <1>8, <3>1, <4>2
      <4> QED BY <4>1, <4>3
    <3> QED BY <3>2, <3>3
  <2>2. ASSUME NEW i \in A PROVE i \in LeavesOf(u)
    <3>1. i \in 1..n /\ i \in 1..(n + m)
      BY <1>1, <1>5
    <3> QED BY <1>3, <1>7, <1>9, <3>1 DEF u
  <2>3. ASSUME NEW j \in B PROVE n + j \in LeavesOf(u)
    <3>1. j \in 1..m /\ n + j \in 1..(n + m)
      BY <1>1, <1>5
    <3>2. u[n + j] = t[j]
      BY <1>4, <3>1 DEF u
    <3> QED BY <1>8, <1>9, <3>1, <3>2
  <2> QED BY <2>1, <2>2, <2>3
<1>11. IsFiniteSet(C) /\ Cardinality(C) = Cardinality(B)
  <2>1. \A i \in B : i \in Nat
    BY <1>1, <1>5
  <2>2. f \in Bijection(B, C)
    BY <1>1, <2>1 DEF Bijection, Injection, Surjection, IsInjective
  <2> HIDE DEF f, C
  <2> QED BY <1>6, <2>2, FS_Bijection DEF ExistsBijection
<1>12. A \cap C = {}
  <2>1. \A j \in B : n + j \notin 1..n
    BY <1>1, <1>5
  <2> QED BY <1>5, <2>1
<1> HIDE DEF C
<1>13. Cardinality(A \cup C) = Cardinality(A) + Cardinality(C) - Cardinality(A \cap C)
  BY <1>6, <1>11, FS_Union
<1>14. Cardinality(A \cap C) = 0
  BY <1>12, FS_EmptySet
<1> QED BY <1>6, <1>10, <1>11, <1>13, <1>14 DEF u, A, B

\* A single call
LEMMA LeavesOfOne ==
  ASSUME NEW c \in CallSet
  PROVE  Cardinality(LeavesOf(<<c>>)) = IF c.do = "leave" THEN 1 ELSE 0
<1>1. DOMAIN <<c>> = {1} /\ <<c>>[1] = c
  OBVIOUS
<1>2. LeavesOf(<<c>>) = IF c.do = "leave" THEN {1} ELSE {}
  BY <1>1 DEF LeavesOf
<1> QED BY <1>2, FS_Singleton, FS_EmptySet

\* What a message reads has one end of a message in it, its own.
LEMMA LeavesOfBody ==
  ASSUME format \in Formats, NEW t \in Types
  PROVE  Cardinality(LeavesOf(Body(t))) = 1
<1> DEFINE fields == FieldsOf(format, t)
           calls == [i \in DOMAIN fields |-> Calls(fields[i])]
           last == [do |-> "leave"]
<1>1. fields \in Seq(WireField)
  BY FieldsOfTypes
<1>2. PICK n \in Nat : DOMAIN fields = 1..n
  BY <1>1
<1>3. \A i \in 1..n : fields[i] \in WireField
  BY <1>1, <1>2
<1> HIDE DEF fields
<1>4. \A i \in 1..n : Calls(fields[i]) \in CallSet /\ Calls(fields[i]).do # "leave"
  BY <1>3, FieldCalls
<1>5. calls \in [1..n -> CallSet]
  BY <1>2, <1>4
<1>6. calls \in Seq(CallSet)
  BY ONLY <1>5
<1>7. LeavesOf(calls) = {}
  BY <1>2, <1>4 DEF LeavesOf
<1>8. last \in CallSet /\ last.do = "leave"
  BY DEF CallSet
<1> HIDE DEF calls, last
<1>9. Cardinality(LeavesOf(calls)) = 0
  BY <1>7, FS_EmptySet
<1>10. Cardinality(LeavesOf(<<last>>)) = 1
  BY <1>8, LeavesOfOne
<1>11. <<last>> \in Seq(CallSet)
  BY <1>8
<1>12. Cardinality(LeavesOf(calls \o <<last>>)) = 0 + 1
  BY <1>6, <1>9, <1>10, <1>11, LeavesJoin
<1> QED BY <1>12 DEF Body, fields, calls, last

-----------------------------------------------------------------------------
(* Payloads that are too short, and those that are not                      *)

ReadingInv == (progress = "new" => depth = 0 /\ todo = <<>>) /\ ReadsExactly

\* Nothing that begins as the payload does would fit into it.
TooShort == size_ < HeaderSize + LeastEnd

\* A payload that is too short for its next call is too short.
LEMMA NowTooShort ==
  ASSUME StorageInv, Reading, InPlace, size_ < HeaderSize + LeastCall(format, size_, Now, end)
  PROVE  TooShort
<1>1. HeaderSize \in Nat /\ size_ \in Nat /\ end \in Nat
  BY HeaderIs
<1>2. Now \in CallSet /\ Rest \in Seq(CallSet) /\ todo = <<Now>> \o Rest /\ format \in Formats
  BY NowIs
<1> DEFINE c == Now
           s == Rest
<1> HIDE DEF c, s
<1>3. size_ < HeaderSize + LeastAfter(format, size_, <<c>> \o s, end)
  BY <1>1, <1>2, EndsBefore DEF c, s
<1> QED BY <1>2, <1>3 DEF TooShort, LeastEnd, c, s

\* A number that the payload has no room for
LEMMA NumberTooShort ==
  ASSUME StorageInv, Reading, InPlace, NEW width \in Widths, ~NumberFits(position, width),
         LeastCall(format, size_, Now, end) \in Nat,
         LeastCall(format, size_, Now, end) >= EncodedNumber(format, end, width)
  PROVE  TooShort
<1>1. HeaderSize \in Nat /\ size_ \in Nat /\ end \in Nat
  BY HeaderIs
<1>2. /\ AfterNumber(position, width) = HeaderSize + EncodedNumber(format, end, width)
      /\ AfterNumber(position, width) \in Nat
      /\ ~(AfterNumber(position, width) <= size_)
  BY NumbersInPlace
<1>3. EncodedNumber(format, end, width) \in Nat
  BY <1>1, EncodedIs DEF InPlace
<1>4. size_ < HeaderSize + LeastCall(format, size_, Now, end)
  BY <1>1, <1>2, <1>3
<1> QED BY <1>4, NowTooShort

\* A length that asks for more than the payload has left
LEMMA LengthTooShort ==
  ASSUME StorageInv, Reading, InPlace, NEW c \in CallSet, ThrowTooShort(c), UNCHANGED <<format, size_>>,
         size_ < HeaderSize + LeastCall(format, size_, c, EncodedNumber(format, end, 4))
  PROVE  TooShort'
<1>1. HeaderSize \in Nat /\ size_ \in Nat /\ end \in Nat
  BY HeaderIs
<1>2. Rest \in Seq(CallSet) /\ format \in Formats /\ 4 \in Widths
  BY NowIs DEF Widths
<1> DEFINE e == EncodedNumber(format, end, 4)
           s == Rest
<1>3. e \in Nat
  BY <1>1, <1>2, EncodedIs
<1>4. end' = e /\ todo' = <<c>> \o s /\ HeaderSize' = HeaderSize
  BY DEF ThrowTooShort, HeaderSize
<1> HIDE DEF e, s
<1>5. size_ < HeaderSize + LeastAfter(format, size_, <<c>> \o s, e)
  BY <1>1, <1>2, <1>3, EndsBefore DEF e, s
<1>6. size_' = size_ /\ format' = format
  OBVIOUS
<1>7. TooShort' <=> size_' < HeaderSize' + LeastAfter(format', size_', todo', end')
  BY DEF TooShort, LeastEnd
<1> QED BY <1>4, <1>5, <1>6, <1>7

\* The calls before the reader: the ends of the messages that are open
LEMMA LeavesNow ==
  ASSUME StorageInv, Reading
  PROVE  /\ Cardinality(LeavesOf(Rest)) \in Nat
         /\ Cardinality(LeavesOf(todo)) = Cardinality(LeavesOf(Rest)) + IF Now.do = "leave" THEN 1 ELSE 0
<1>1. Now \in CallSet /\ Rest \in Seq(CallSet) /\ todo = <<Now>> \o Rest
  BY NowIs
<1>2. <<Now>> \in Seq(CallSet)
  BY <1>1
<1>3. Cardinality(LeavesOf(<<Now>> \o Rest)) = Cardinality(LeavesOf(<<Now>>)) + Cardinality(LeavesOf(Rest))
  BY <1>1, <1>2, LeavesJoin
<1>4. Cardinality(LeavesOf(<<Now>>)) = IF Now.do = "leave" THEN 1 ELSE 0
  BY <1>1, LeavesOfOne
<1>5. Cardinality(LeavesOf(Rest)) \in Nat
  BY <1>1, LeavesCount
<1> QED BY <1>1, <1>3, <1>4, <1>5

\* A call that is no end of a message adds none.
LEMMA LeavesBehind ==
  ASSUME NEW s \in Seq(CallSet), NEW c \in CallSet, c.do # "leave"
  PROVE  Cardinality(LeavesOf(<<c>> \o s)) = Cardinality(LeavesOf(s))
<1>1. <<c>> \in Seq(CallSet)
  OBVIOUS
<1>2. Cardinality(LeavesOf(<<c>> \o s)) = Cardinality(LeavesOf(<<c>>)) + Cardinality(LeavesOf(s))
  BY <1>1, LeavesJoin
<1>3. Cardinality(LeavesOf(<<c>>)) = 0
  BY LeavesOfOne
<1>4. Cardinality(LeavesOf(s)) \in Nat
  BY LeavesCount
<1> QED BY <1>2, <1>3, <1>4

\* What ReadsExactly says of each verdict
LEMMA Exactly ==
  ReadsExactly <=> /\ progress \in {"reading", "ok"} => position = HeaderSize + end
                   /\ progress = "ok" => size_ = HeaderSize + end
                   /\ progress = "trailing" => size_ > HeaderSize + end
                   /\ progress = "truncated" => TooShort
                   /\ progress = "reading" => depth = Cardinality(LeavesOf(todo))
                   /\ progress = "reading" => depth <= MaxDepth
                   /\ progress = "depth" => Cardinality(LeavesOf(todo)) >= MaxDepth
BY DEF ReadsExactly, TooShort, LeavesOf

\* Reading is exact: the payload is turned down at the call that it is too short for.
LEMMA ReadingRead ==
  ASSUME StorageInv, PositionInv, PositionInv', ReadingInv, Read
  PROVE  ReadingInv'
<1>1. progress = "reading" /\ UNCHANGED <<size_, format, root>> /\ progress' # "new"
  BY ReadKeeps DEF payload, Answers
<1>2. InPlace /\ (progress' = "reading" => InPlace')
  BY <1>1 DEF PositionInv
<1>3. HeaderSize' = HeaderSize
  BY <1>1 DEF HeaderSize
<1>4. Reading
  BY DEF Read, ReadNumber, ReadString, EnterMessage, LeaveMessage, ReadSequence, ReadBytes, ReadElement, Finish
<1>5. /\ Now \in CallSet /\ Rest \in Seq(CallSet) /\ todo = <<Now>> \o Rest /\ format \in Formats
      /\ Now.do \in {"element", "repeat", "bytes", "sequence"} => Now.of \in WireElement
      /\ Now.do = "element" /\ Now.of.base = "number" => Now.of.width \in Widths
      /\ Now.do \in {"repeat", "bytes"} => Now.n \in Nat
  BY <1>4, NowIs
<1>6. /\ HeaderSize \in Nat /\ Word \in Nat /\ size_ \in Nat /\ position \in Nat /\ end \in Nat
      /\ position <= size_ /\ size_ < Word /\ position = HeaderSize + end
  BY <1>2, HeaderIs
<1>7. /\ Cardinality(LeavesOf(Rest)) \in Nat
      /\ Cardinality(LeavesOf(todo)) = Cardinality(LeavesOf(Rest)) + IF Now.do = "leave" THEN 1 ELSE 0
      /\ depth = Cardinality(LeavesOf(todo)) /\ depth <= MaxDepth /\ MaxDepth \in Nat
  BY <1>1, <1>4, LeavesNow, LimitsAre, Exactly DEF ReadingInv
<1>8. LeastCall(format, size_, Now, end) \in Nat /\ LeastCall(format, size_, Now, end) >= end
  BY <1>5, <1>6, CallEnds
<1>9. 4 \in Widths
  BY DEF Widths
<1>10. \A n \in Lengths : n \in Nat
  BY LimitsAre
<1>11. ASSUME progress' \in {"reading", "ok"} => position' = HeaderSize' + end',
              progress' = "ok" => size_' = HeaderSize' + end',
              progress' = "trailing" => size_' > HeaderSize' + end',
              progress' = "truncated" => TooShort',
              progress' = "reading" => depth' = Cardinality(LeavesOf(todo')) /\ depth' <= MaxDepth,
              progress' = "depth" => Cardinality(LeavesOf(todo')) >= MaxDepth
       PROVE  ReadsExactly'
  BY <1>11 DEF ReadsExactly, TooShort, LeavesOf
<1> SUFFICES ReadsExactly'
  BY <1>1 DEF ReadingInv
\* It reads on.
<1>12. ASSUME progress' = "reading", depth' = Cardinality(LeavesOf(todo')), depth' <= MaxDepth
       PROVE  ReadsExactly'
  <2>1. position' = HeaderSize' + end'
    BY <1>2, <1>12 DEF InPlace
  <2> QED BY <1>11, <1>12, <2>1
<1>13. ASSUME Throw("truncated"), TooShort PROVE ReadsExactly'
  <2>1. UNCHANGED <<size_, format, todo, end>> /\ progress' = "truncated"
    BY <1>13 DEF Throw, payload, history
  <2>2. TooShort'
    BY <1>3, <1>13, <2>1 DEF TooShort, LeastEnd
  <2> QED BY <1>11, <2>1, <2>2
<1>14. ASSUME progress' \in {"bound", "nul", "limit", "elements"} PROVE ReadsExactly'
  BY <1>11, <1>14
<1>15. ASSUME NEW c \in CallSet, ThrowTooShort(c),
              size_ < HeaderSize + LeastCall(format, size_, c, EncodedNumber(format, end, 4))
       PROVE  ReadsExactly'
  <2>1. TooShort'
    BY <1>1, <1>2, <1>4, <1>15, LengthTooShort
  <2>2. progress' = "truncated"
    BY <1>15 DEF ThrowTooShort
  <2> QED BY <1>11, <2>1, <2>2
<1>16. ASSUME NumberFits(position, 4)
       PROVE  /\ AfterNumber(position, 4) \in Nat /\ AfterNumber(position, 4) <= size_
              /\ AfterNumber(position, 4) \in 0..size_ /\ size_ \in 0..(Word - 1)
              /\ EncodedNumber(format, end, 4) \in Nat
              /\ AfterNumber(position, 4) = HeaderSize + EncodedNumber(format, end, 4)
  <2>1. /\ AfterNumber(position, 4) \in Nat /\ AfterNumber(position, 4) <= size_
        /\ AfterNumber(position, 4) = HeaderSize + EncodedNumber(format, end, 4)
    BY <1>2, <1>9, <1>16, NumbersInPlace
  <2>2. EncodedNumber(format, end, 4) \in Nat
    BY <1>5, <1>6, <1>9, EncodedIs
  <2> QED BY <1>2, <1>6, <2>1, <2>2 DEF InPlace
<1>17. CASE ReadNumber
  <2>1. Now.do = "element" /\ Now.of.base = "number" /\ Now.of.width \in Widths
    BY <1>5, <1>17 DEF ReadNumber
  <2>2. CASE NumberFits(position, Now.of.width)
    <3>1. progress' = "reading" /\ todo' = Rest /\ depth' = depth
      BY <1>1, <1>17, <2>2 DEF ReadNumber
    <3> QED BY <1>7, <1>12, <2>1, <3>1
  <2>3. CASE ~NumberFits(position, Now.of.width)
    <3>1. Throw("truncated")
      BY <1>17, <2>3 DEF ReadNumber
    <3>2. LeastCall(format, size_, Now, end) = EncodedNumber(format, end, Now.of.width)
      BY <2>1 DEF LeastCall, LeastOf
    <3>3. LeastCall(format, size_, Now, end) >= EncodedNumber(format, end, Now.of.width)
      BY <1>8, <3>2
    <3>4. TooShort
      BY <1>2, <1>4, <1>8, <2>1, <2>3, <3>3, NumberTooShort
    <3> QED BY <1>13, <3>1, <3>4
  <2> QED BY <2>2, <2>3
<1>18. ASSUME NEW n \in Lengths, NEW nul \in BOOLEAN, ReadString(n, nul) PROVE ReadsExactly'
  <2>1. Now.do = "element" /\ Now.of.base = "string" /\ Now.of \in WireElement /\ n \in Nat
    BY <1>5, <1>10, <1>18 DEF ReadString
  <2>2. CASE ~NumberFits(position, 4)
    <3>1. Throw("truncated")
      BY <1>18, <2>2 DEF ReadString
    <3>2. LeastCall(format, size_, Now, end) = EncodedNumber(format, end, 4) + IF format = "cdr" THEN 1 ELSE 0
      BY <2>1 DEF LeastCall, LeastOf
    <3>3. EncodedNumber(format, end, 4) \in Nat
      BY <1>5, <1>6, <1>9, EncodedIs
    <3>4. LeastCall(format, size_, Now, end) >= EncodedNumber(format, end, 4)
      BY <3>2, <3>3
    <3>5. TooShort
      BY <1>2, <1>4, <1>8, <1>9, <2>2, <3>4, NumberTooShort
    <3> QED BY <1>13, <3>1, <3>5
  <2> DEFINE c == [do |-> "bytes", of |-> Now.of, n |-> n]
  <2>3. CASE NumberFits(position, 4) /\ ThrowTooShort(c) /\ ~HasBytes(AfterNumber(position, 4), n)
    <3>1. c \in CallSet /\ c.do = "bytes" /\ c.n = n
      BY <2>1 DEF CallSet
    <3> HIDE DEF c
    <3>2. LeastCall(format, size_, c, EncodedNumber(format, end, 4)) = EncodedNumber(format, end, 4) + n
      BY <3>1 DEF LeastCall
    <3>3. /\ AfterNumber(position, 4) \in Nat /\ AfterNumber(position, 4) \in 0..size_ /\ size_ \in 0..(Word - 1)
          /\ EncodedNumber(format, end, 4) \in Nat
          /\ AfterNumber(position, 4) = HeaderSize + EncodedNumber(format, end, 4)
      BY <1>16, <2>3
    <3>4. ~(AfterNumber(position, 4) + n <= size_)
      BY <2>1, <2>3, <3>3, HasBytesIs
    <3>5. size_ < HeaderSize + LeastCall(format, size_, c, EncodedNumber(format, end, 4))
      BY <1>6, <2>1, <3>2, <3>3, <3>4
    <3> QED BY <1>15, <2>3, <3>1, <3>5
  <2>4. CASE progress' = "reading" /\ todo' = Rest /\ depth' = depth
    BY <1>7, <1>12, <2>1, <2>4
  <2>5. \/ ~NumberFits(position, 4)
        \/ progress' \in {"bound", "nul", "limit"}
        \/ NumberFits(position, 4) /\ ThrowTooShort(c) /\ ~HasBytes(AfterNumber(position, 4), n)
        \/ progress' = "reading" /\ todo' = Rest /\ depth' = depth
    BY <1>1, <1>18 DEF ReadString, Throw
  <2> HIDE DEF c
  <2> QED BY <1>14, <2>2, <2>3, <2>4, <2>5
<1>19. CASE EnterMessage
  <2>1. Now.do = "element" /\ Now.of.base = "message" /\ Now.of.type \in Types
    BY <1>5, <1>19, ElementFacts DEF EnterMessage
  <2>2. CASE ~MayNest
    <3>1. progress' = "depth" /\ todo' = todo
      BY <1>19, <2>2 DEF EnterMessage, Throw
    <3>2. ~(depth < MaxDepth) /\ MaxDepth \in Nat
      BY <2>2, LimitsAre DEF MayNest
    <3>3. Cardinality(LeavesOf(todo')) >= MaxDepth
      BY <1>7, <2>1, <3>1, <3>2
    <3> QED BY <1>11, <3>1, <3>3
  <2>3. CASE MayNest
    <3>1. depth' = depth + 1 /\ todo' = Body(Now.of.type) \o Rest /\ progress' = "reading"
      BY <1>1, <1>19, <2>3 DEF EnterMessage
    <3>2. Body(Now.of.type) \in Seq(CallSet) /\ Cardinality(LeavesOf(Body(Now.of.type))) = 1
      BY <1>5, <2>1, BodyCalls, LeavesOfBody
    <3>3. Cardinality(LeavesOf(Body(Now.of.type) \o Rest)) = 1 + Cardinality(LeavesOf(Rest))
      BY <1>5, <3>2, LeavesJoin
    <3>4. depth' <= MaxDepth
      BY <1>7, <2>3, <3>1 DEF MayNest
    <3> QED BY <1>7, <1>12, <2>1, <3>1, <3>3, <3>4
  <2> QED BY <2>2, <2>3
<1>20. CASE LeaveMessage
  <2>1. Now.do = "leave" /\ depth' = depth - 1 /\ todo' = Rest /\ progress' = "reading"
    BY <1>1, <1>20 DEF LeaveMessage, DepthAfterLeave
  <2> QED BY <1>7, <1>12, <2>1
<1>21. ASSUME NEW n \in Lengths, ReadSequence(n) PROVE ReadsExactly'
  <2>1. Now.do = "sequence" /\ Now.of \in WireElement /\ n \in Nat
    BY <1>5, <1>10, <1>21 DEF ReadSequence
  <2> DEFINE at == AfterNumber(position, 4)
             e == EncodedNumber(format, end, 4)
             c == [do |-> "repeat", of |-> Now.of, n |-> n]
             d == [do |-> IF IsByte(Now.of) THEN "bytes" ELSE "repeat", of |-> Now.of, n |-> n]
  <2>2. CASE ~NumberFits(position, 4)
    <3>1. Throw("truncated")
      BY <1>21, <2>2 DEF ReadSequence
    <3>2. LeastCall(format, size_, Now, end) = e
      BY <2>1 DEF LeastCall
    <3>4. LeastCall(format, size_, Now, end) >= EncodedNumber(format, end, 4)
      BY <1>8, <3>2
    <3>5. TooShort
      BY <1>2, <1>4, <1>8, <1>9, <2>2, <3>4, NumberTooShort
    <3> QED BY <1>13, <3>1, <3>5
  <2>3. c \in CallSet /\ c.do = "repeat" /\ c.n = n /\ c.of = Now.of
    BY <2>1 DEF CallSet
  <2>4. d \in CallSet /\ d.do # "leave"
    BY <2>1 DEF CallSet
  <2>5. \/ ~NumberFits(position, 4)
        \/ progress' \in {"bound", "elements", "limit"}
        \/ NumberFits(position, 4) /\ TooLong(n, Now.of, at) /\ ThrowTooShort(c)
        \/ progress' = "reading" /\ todo' = <<d>> \o Rest /\ depth' = depth
    BY <1>1, <1>21 DEF ReadSequence, Throw
  <2> HIDE DEF c, d
  <2>6. CASE NumberFits(position, 4) /\ TooLong(n, Now.of, at) /\ ThrowTooShort(c)
    <3>1. /\ at \in Nat /\ at <= size_ /\ at \in 0..size_ /\ size_ \in 0..(Word - 1)
          /\ e \in Nat /\ at = HeaderSize + e
      BY <1>16, <2>6
    <3> HIDE DEF at, e
    <3>2. PICK h : Sizes(format, h)
      BY <1>5, SizesExist
    <3>3. PICK w \in Nat : w = MinimumOf(format, Now.of, h)
      BY <2>1, <3>2, FieldIsNat DEF Sizes
    <3>4. WireMinimum(Now.of) = w
      BY <1>5, <3>2, <3>3, TypeSizes DEF WireMinimum
    <3>5. Minus(size_, at) = size_ - at /\ size_ - at \in Nat
      BY <1>6, <3>1, HasBytesIs
    <3>6. w > 0 /\ n > (size_ - at) \div w
      BY <2>6, <3>4, <3>5 DEF TooLong
    <3>7. ~(n * w <= size_ - at) /\ n * w \in Nat
      <4>1. (size_ - at) \div w \in Nat
        BY <3>3, <3>5, <3>6
      <4>2. ~(n <= (size_ - at) \div w)
        BY <2>1, <3>6, <4>1
      <4>3. n <= (size_ - at) \div w <=> n * w <= size_ - at
        BY ONLY <2>1, <3>3, <3>5, <3>6, Quotient
      <4> QED BY <2>1, <3>3, <4>2, <4>3
    <3> DEFINE k == Min({n, size_ + 1})
    <3>8. k \in {n, size_ + 1}
      <4>1. n \in Nat /\ size_ + 1 \in Nat
        BY <1>6, <2>1
      <4>2. \A t \in {n, size_ + 1} : 0 <= t
        BY <4>1
      <4>3. {n, size_ + 1} \in SUBSET Int
        BY <4>1
      <4>4. Min({n, size_ + 1}) \in {n, size_ + 1}
        BY <4>2, <4>3, MinOfBounded
      <4> QED BY <4>4 DEF k
    <3> HIDE DEF k
    <3>9. k \in Nat
      BY <1>6, <2>1, <3>8
    <3>10. k * w \in Nat /\ k * w > size_ - at
      <4>1. CASE k = n
        BY <3>5, <3>7, <4>1
      <4>2. CASE k = size_ + 1
        <5>1. PICK v \in Nat : w = v + 1
          <6>1. w - 1 \in Nat /\ w = (w - 1) + 1
            BY <3>3, <3>6
          <6> QED BY <6>1
        <5>2. k * w = k * v + k /\ k * v \in Nat
          BY <3>9, <5>1
        <5> QED BY <1>6, <3>1, <4>2, <5>2
      <4> QED BY <3>8, <4>1, <4>2
    <3>11. Runs(LeastMessage[format], Now.of) /\ Longer(LeastMessage[format], h, Now.of)
      BY <1>5, <2>1, <3>2, ElementsEnd
    <3>12. /\ LeastTimes(format, k, Now.of, e, LeastMessage[format]) \in Nat
           /\ LeastTimes(format, k, Now.of, e, LeastMessage[format]) >= e + k * w
      <4>1. h \in Tables
        BY <3>2 DEF Sizes
      <4> QED BY <1>5, <2>1, <3>1, <3>3, <3>9, <3>11, <4>1, TimesEnd
    <3>13. LeastCall(format, size_, c, e) = LeastTimes(format, k, Now.of, e, LeastMessage[format])
      BY <2>3 DEF LeastCall, k
    <3>14. size_ < HeaderSize + LeastCall(format, size_, c, e)
      BY <1>6, <3>1, <3>10, <3>12, <3>13
    <3> QED BY <1>15, <2>3, <2>6, <3>14 DEF e
  <2>7. CASE progress' = "reading" /\ todo' = <<d>> \o Rest /\ depth' = depth
    <3>1. Cardinality(LeavesOf(<<d>> \o Rest)) = Cardinality(LeavesOf(Rest))
      BY <1>5, <2>4, LeavesBehind
    <3> QED BY <1>7, <1>12, <2>1, <2>7, <3>1
  <2> QED BY <1>14, <2>2, <2>5, <2>6, <2>7
<1>22. CASE ReadBytes
  <2>1. Now.do = "bytes" /\ Now.n \in Nat
    BY <1>5, <1>22 DEF ReadBytes
  <2>2. CASE HasBytes(position, Now.n)
    <3>1. progress' = "reading" /\ todo' = Rest /\ depth' = depth
      BY <1>1, <1>22, <2>2 DEF ReadBytes
    <3> QED BY <1>7, <1>12, <2>1, <3>1
  <2>3. CASE ~HasBytes(position, Now.n)
    <3>1. Throw("truncated")
      BY <1>22, <2>3 DEF ReadBytes
    <3>2. position \in 0..size_ /\ size_ \in 0..(Word - 1)
      BY <1>2 DEF InPlace
    <3>3. ~(position + Now.n <= size_)
      BY <2>1, <2>3, <3>2, HasBytesIs
    <3>4. LeastCall(format, size_, Now, end) = end + Now.n
      BY <2>1 DEF LeastCall
    <3>5. size_ < HeaderSize + LeastCall(format, size_, Now, end)
      BY <1>6, <2>1, <3>3, <3>4
    <3>6. TooShort
      BY <1>2, <1>4, <3>5, NowTooShort
    <3> QED BY <1>13, <3>1, <3>6
  <2> QED BY <2>2, <2>3
<1>23. CASE ReadElement
  <2>1. Now.do = "repeat" /\ Now.n \in Nat /\ Now.of \in WireElement /\ progress' = "reading" /\ depth' = depth
    BY <1>1, <1>5, <1>23 DEF ReadElement
  <2>2. CASE Now.n = 0
    <3>1. todo' = Rest
      BY <1>23, <2>2 DEF ReadElement
    <3> QED BY <1>7, <1>12, <2>1, <3>1
  <2>3. CASE Now.n # 0
    <3> DEFINE c == [do |-> "element", of |-> Now.of]
               d == [Now EXCEPT !.n = Less(@)]
    <3>1. c \in CallSet /\ c.do # "leave"
      BY <2>1 DEF CallSet
    <3>2. d \in CallSet /\ d.do # "leave"
      <4>1. Now \in [do : {"repeat", "bytes"}, of : WireElement, n : Nat]
        BY <1>5, <2>1 DEF CallSet
      <4>2. Less(Now.n) \in Nat
        BY <2>1, <2>3 DEF Less
      <4>3. d \in [do : {"repeat", "bytes"}, of : WireElement, n : Nat]
        BY ONLY <4>1, <4>2
      <4>4. d.do # "leave"
        BY ONLY <4>3
      <4> QED BY <4>3, <4>4 DEF CallSet
    <3>3. todo' = <<c, d>> \o Rest
      BY <1>23, <2>3 DEF ReadElement
    <3> HIDE DEF c, d
    <3> DEFINE two == <<c, d>>
    <3>4. two \in Seq(CallSet) /\ LeavesOf(two) = {}
      <4>1. DOMAIN two = {1, 2} /\ two[1] = c /\ two[2] = d
        OBVIOUS
      <4>2. two \in Seq(CallSet)
        BY <3>1, <3>2
      <4> HIDE DEF two
      <4> QED BY <3>1, <3>2, <4>1, <4>2 DEF LeavesOf
    <3> HIDE DEF two
    <3>5. Cardinality(LeavesOf(two \o Rest)) = Cardinality(LeavesOf(Rest))
      <4>1. Cardinality(LeavesOf(two)) = 0
        BY <3>4, FS_EmptySet
      <4>2. Cardinality(LeavesOf(two \o Rest)) = Cardinality(LeavesOf(two)) + Cardinality(LeavesOf(Rest))
        BY <1>5, <3>4, LeavesJoin
      <4> QED BY <1>7, <4>1, <4>2
    <3>6. todo' = two \o Rest
      BY <3>3 DEF two
    <3> QED BY <1>7, <1>12, <2>1, <3>5, <3>6
  <2> QED BY <2>2, <2>3
<1>24. CASE Finish
  <2>1. CASE AtEnd
    <3>1. progress' = "ok" /\ position' = position /\ end' = end /\ size_' = size_
      BY <1>1, <1>24, <2>1 DEF Finish, history
    <3>2. size_ = position
      BY <2>1 DEF AtEnd
    <3> QED BY <1>3, <1>6, <1>11, <3>1, <3>2
  <2>2. CASE ~AtEnd
    <3>1. progress' = "trailing" /\ end' = end /\ size_' = size_
      BY <1>1, <1>24, <2>2 DEF Finish, Throw, history
    <3>2. size_ # position
      BY <2>2 DEF AtEnd
    <3> QED BY <1>3, <1>6, <1>11, <3>1, <3>2
  <2> QED BY <2>1, <2>2
<1> QED BY <1>17, <1>18, <1>19, <1>20, <1>21, <1>22, <1>23, <1>24 DEF Read

\* So is every step.
LEMMA ReadingStep ==
  ASSUME DecodeInv, StorageInv, PositionInv, PositionInv', ReadingInv, [DecodeNext]_allVars
  PROVE  ReadingInv'
<1>1. ASSUME NEW form \in Formats, NEW t \in Types, NEW wellFormed \in BOOLEAN, Begin(form, t, wellFormed)
      PROVE  ReadingInv'
  <2>1. progress = "new" /\ depth' = depth /\ end' = end /\ progress' \in {"header", "limit", "reading"}
    BY <1>1 DEF Begin
  <2>2. depth = 0
    BY <2>1 DEF ReadingInv
  <2>3. CASE progress' = "reading"
    <3>1. todo' = <<[do |-> "element", of |-> Nested(t)], [do |-> "finish"]>>
      BY <1>1, <2>3 DEF Begin
    <3>2. LeavesOf(todo') = {}
      <4>1. DOMAIN todo' = {1, 2} /\ todo'[1].do = "element" /\ todo'[2].do = "finish"
        BY <3>1
      <4> QED BY <4>1 DEF LeavesOf
    <3>3. Cardinality(LeavesOf(todo')) = 0
      BY <3>2, FS_EmptySet
    <3>4. position' = HeaderSize' + end'
      BY <2>3 DEF PositionInv, InPlace
    <3>5. depth' <= MaxDepth
      BY <2>1, <2>2, LimitsAre
    <3> QED BY <2>1, <2>2, <2>3, <3>3, <3>4, <3>5 DEF ReadingInv, ReadsExactly, LeavesOf
  <2>4. CASE progress' # "reading"
    BY <2>1, <2>4 DEF ReadingInv, ReadsExactly
  <2> QED BY <2>3, <2>4
<1>2. CASE UNCHANGED readerVars
  BY <1>2 DEF ReadingInv, ReadsExactly, LeastEnd, HeaderSize, readerVars, payload, history
<1>3. CASE /\ progress = "new" /\ progress' \in Verdicts
           /\ UNCHANGED <<size_, format, root, position, allocated, depth, todo, history>>
  BY <1>3, Zenon DEF ReadingInv, ReadsExactly, Verdicts
<1> QED BY <1>1, <1>2, <1>3, ReaderSteps, ReadingRead

\* Nothing was read at first.
LEMMA ReadingBegins == DecodeInit => ReadingInv
BY DEF DecodeInit, ReaderInit, ReadingInv, ReadsExactly

\* A payload is accepted only if it is an encoding from its first byte to its last, of whatever
\* type, format and lengths; it is turned down as too short only if nothing that begins like it
\* could fit, and as too deep only for messages that are inside of each other.
THEOREM ReadsOnlyExactly == DecodeSpec => []ReadsExactly
<1>1. DecodeInit => StorageInv /\ PositionInv /\ ReadingInv
  BY StorageBegins, PlaceBegins, ReadingBegins
<1>2. DecodeInv /\ StorageInv /\ PositionInv /\ [DecodeNext]_allVars => StorageInv' /\ PositionInv'
  BY StorageStep, PlaceStep
<1>3. DecodeInv /\ StorageInv /\ PositionInv /\ PositionInv' /\ ReadingInv /\ [DecodeNext]_allVars => ReadingInv'
  BY ReadingStep
<1>4. ReadingInv => ReadsExactly
  BY DEF ReadingInv
<1> QED BY <1>1, <1>2, <1>3, <1>4, DecodeInvariance, PTL DEF DecodeSpec
=============================================================================
