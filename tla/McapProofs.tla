----------------------------- MODULE McapProofs -----------------------------
(***************************************************************************)
(* Proofs about the MCAP backend for any files, filters and budgets: open()*)
(* keeps the index and the spool within budget and is all or nothing; what *)
(* it decides about the index, tells of the messages and spools is right;  *)
(* and the cursor over the index or the spool is a MessageStream.          *)
(*                                                                         *)
(* First what a scan of the records is, record by record, and where the    *)
(* spool holds each message; then the budgets; then the walk of open()     *)
(* from step to step; then the cursor.                                     *)
(***************************************************************************)
EXTENDS McapCursor, DataLemmas

-----------------------------------------------------------------------------
\* The sequences s[1], ..., s[k] joined.
Joined(s, k) == FlattenSeq(SubSeq(s, 1, k))

\* What FlattenSeq computes, step by step.
IsFlatten(g, s) == g = [i \in 1..Len(s) |-> IF i = 1 THEN s[i] ELSE g[i - 1] \o s[i]]

LEMMA FlattenLoop ==
  ASSUME NEW T, NEW s \in Seq(Seq(T)), Len(s) # 0
  PROVE  \E g : IsFlatten(g, s) /\ FlattenSeq(s) = g[Len(s)]
<1> DEFINE n == Len(s)
           D == Seq(T)
           step == [p \in (1..n) \X D |-> p[2] \o s[p[1]]]
           g == CHOOSE g : IsFlatten(g, s)
<1>1. n \in Nat /\ n # 0 /\ \A i \in 1..n : s[i] \in D
  OBVIOUS
<1>2. <<>> \in D /\ step \in [(1..n) \X D -> D]
  BY <1>1
<1>3. \A i \in 1..n : \A d \in D : step[<<i, d>>] = d \o s[i]
  OBVIOUS
<1>4. \A d \in D : <<>> \o d = d
  OBVIOUS
<1>5. FlattenSeq(s) = g[n]
  BY <1>1, Zenon DEF FlattenSeq, IsFlatten
<1> HIDE DEF step, n, D, g
<1>6. PICK h \in [0..n -> D] : IsLoop(h, <<>>, step, n)
  BY ONLY <1>1, <1>2, LoopExists
<1>7. h[0] = <<>> /\ \A i \in 1..n : h[i] = step[<<i, h[i - 1]>>]
  BY ONLY <1>6 DEF IsLoop
<1> DEFINE k == [i \in 1..n |-> h[i]]
<1>8. \A i \in 1..n : k[i] = IF i = 1 THEN s[i] ELSE k[i - 1] \o s[i]
  <2> SUFFICES ASSUME NEW i \in 1..n PROVE k[i] = IF i = 1 THEN s[i] ELSE k[i - 1] \o s[i]
    OBVIOUS
  <2>1. i - 1 \in 0..n /\ h[i - 1] \in D
    BY <1>1, <1>6
  <2>2. h[i] = h[i - 1] \o s[i]
    BY <1>3, <1>7, <2>1
  <2>3. CASE i = 1
    <3>1. h[i] = <<>> \o s[i] /\ s[i] \in D
      BY <1>1, <1>7, <2>2, <2>3
    <3> QED BY <1>4, <2>3, <3>1
  <2>4. CASE i # 1
    <3>1. i - 1 \in 1..n
      BY <1>1, <2>4
    <3> QED BY <2>2, <2>4, <3>1
  <2> QED BY <2>3, <2>4
<1>9. IsFlatten(k, s)
  <2>1. k = [i \in 1..n |-> k[i]]
    OBVIOUS
  <2> HIDE DEF k
  <2> QED BY <1>8, <2>1 DEF IsFlatten, n
<1>10. IsFlatten(g, s)
  BY ONLY <1>9 DEF g
<1> QED BY <1>5, <1>10 DEF n

\* Two such functions agree wherever the sequences they are of do.
LEMMA FlattenUnique ==
  ASSUME NEW T, NEW s \in Seq(Seq(T)), NEW t \in Seq(Seq(T)), NEW m \in Nat, m <= Len(s), m <= Len(t),
         \A i \in 1..m : s[i] = t[i],
         NEW g, IsFlatten(g, s), NEW h, IsFlatten(h, t)
  PROVE  \A i \in 1..m : g[i] = h[i] /\ g[i] \in Seq(T)
<1> DEFINE U == {0} \cup {i \in 1..m : g[i] = h[i] /\ g[i] \in Seq(T)}
<1>1. 0 \in U
  OBVIOUS
<1>2. \A i \in 1..m : i - 1 \in U => i \in U
  <2> SUFFICES ASSUME NEW i \in 1..m, i - 1 \in U PROVE g[i] = h[i] /\ g[i] \in Seq(T)
    OBVIOUS
  <2>1. /\ g[i] = IF i = 1 THEN s[i] ELSE g[i - 1] \o s[i]
        /\ h[i] = IF i = 1 THEN t[i] ELSE h[i - 1] \o t[i]
    <3>1. i \in 1..Len(s) /\ i \in 1..Len(t)
      BY SMTT(20)
    <3>2. /\ g = [j \in 1..Len(s) |-> IF j = 1 THEN s[j] ELSE g[j - 1] \o s[j]]
          /\ h = [j \in 1..Len(t) |-> IF j = 1 THEN t[j] ELSE h[j - 1] \o t[j]]
      BY DEF IsFlatten
    <3> QED BY ONLY <3>1, <3>2
  <2>2. s[i] = t[i] /\ s[i] \in Seq(T)
    OBVIOUS
  <2>3. CASE i = 1
    BY <2>1, <2>2, <2>3
  <2>4. CASE i # 1
    <3>1. g[i - 1] = h[i - 1] /\ g[i - 1] \in Seq(T)
      BY <2>4
    <3> QED BY <2>1, <2>2, <2>4, <3>1
  <2> QED BY <2>3, <2>4
<1> HIDE DEF U
<1>3. 0..m \subseteq U
  BY ONLY <1>1, <1>2, m \in Nat, Upwards
<1>4. \A i \in 1..m : i \in 0..m /\ i # 0
  OBVIOUS
<1> QED BY <1>3, <1>4 DEF U

LEMMA JoinedSteps ==
  ASSUME NEW T, NEW s \in Seq(Seq(T))
  PROVE  /\ Joined(s, 0) = <<>>
         /\ Joined(s, Len(s)) = FlattenSeq(s)
         /\ \A k \in 1..Len(s) : Joined(s, k) = Joined(s, k - 1) \o s[k]
         /\ \A k \in 0..Len(s) : Joined(s, k) \in Seq(T)
<1>1. \A k \in 0..Len(s) : /\ SubSeq(s, 1, k) \in Seq(Seq(T)) /\ Len(SubSeq(s, 1, k)) = k
                           /\ \A i \in 1..k : SubSeq(s, 1, k)[i] = s[i] /\ s[i] \in Seq(T)
  OBVIOUS
<1>2. Joined(s, 0) = <<>>
  <2>1. SubSeq(s, 1, 0) = <<>>
    OBVIOUS
  <2> QED BY <2>1 DEF Joined, FlattenSeq
<1>3. SubSeq(s, 1, Len(s)) = s
  OBVIOUS
<1>4. ASSUME NEW k \in 1..Len(s)
      PROVE  Joined(s, k) = Joined(s, k - 1) \o s[k] /\ Joined(s, k) \in Seq(T)
  <2> DEFINE p == SubSeq(s, 1, k)
             q == SubSeq(s, 1, k - 1)
  <2>1. k \in Nat \ {0} /\ k - 1 \in 0..Len(s) /\ k \in 0..Len(s)
    OBVIOUS
  <2>2. /\ p \in Seq(Seq(T)) /\ Len(p) = k /\ \A i \in 1..k : p[i] = s[i] /\ s[i] \in Seq(T)
        /\ q \in Seq(Seq(T)) /\ Len(q) = k - 1 /\ \A i \in 1..(k - 1) : q[i] = s[i]
    BY <1>1, <2>1
  <2>3. Joined(s, k) = FlattenSeq(p) /\ Joined(s, k - 1) = FlattenSeq(q)
    BY DEF Joined
  <2> HIDE DEF p, q
  <2>4. PICK g : IsFlatten(g, p) /\ FlattenSeq(p) = g[k]
    BY <2>1, <2>2, FlattenLoop
  <2>5. \A i \in 1..k : g[i] \in Seq(T)
    <3>1. p \in Seq(Seq(T)) /\ k \in Nat /\ k <= Len(p) /\ \A i \in 1..k : p[i] = p[i]
      BY <2>1, <2>2
    <3> QED BY ONLY <2>4, <3>1, FlattenUnique
  <2>6. g[k] = IF k = 1 THEN p[k] ELSE g[k - 1] \o p[k]
    <3>1. g = [j \in 1..k |-> IF j = 1 THEN p[j] ELSE g[j - 1] \o p[j]]
      BY <2>2, <2>4 DEF IsFlatten
    <3>2. k \in 1..k
      BY <2>1
    <3> QED BY ONLY <3>1, <3>2
  <2>7. CASE k = 1
    <3>1. Joined(s, k - 1) = <<>>
      BY <1>2, <2>7
    <3>2. g[k] = s[k] /\ s[k] \in Seq(T)
      BY <2>1, <2>2, <2>6, <2>7
    <3>3. \A d \in Seq(T) : <<>> \o d = d
      OBVIOUS
    <3> QED BY <2>3, <2>4, <3>1, <3>2, <3>3
  <2>8. CASE k # 1
    <3>1. PICK h : IsFlatten(h, q) /\ FlattenSeq(q) = h[k - 1]
      <4>1. Len(q) # 0 /\ Len(q) = k - 1
        BY <2>1, <2>2, <2>8
      <4> QED BY <2>2, <4>1, FlattenLoop
    <3> DEFINE m == k - 1
    <3>2. m \in Nat /\ m <= k /\ m \in 1..m /\ \A i \in 1..m : i \in 1..k
      BY <2>1, <2>8
    <3>3. g[k - 1] = h[k - 1]
      <4>1. Len(q) = m /\ \A i \in 1..m : q[i] = s[i]
        BY <2>2
      <4> HIDE DEF m
      <4>2. m <= Len(p) /\ m <= Len(q)
        BY ONLY <2>2, <3>2, <4>1
      <4>3. \A i \in 1..m : p[i] = q[i]
        BY ONLY <2>2, <3>2, <4>1
      <4>4. \A i \in 1..m : g[i] = h[i] /\ g[i] \in Seq(T)
        BY ONLY <2>2, <2>4, <3>1, <3>2, <4>2, <4>3, FlattenUnique
      <4>5. g[m] = h[m]
        BY ONLY <3>2, <4>4
      <4> QED BY <4>5 DEF m
    <3>4. g[k] = g[k - 1] \o s[k] /\ k \in 1..k
      <4>1. k \in 1..k
        BY <2>1
      <4> QED BY ONLY <2>2, <2>6, <2>8, <4>1
    <3> QED BY <2>3, <2>4, <2>5, <3>1, <3>3, <3>4
  <2> QED BY <2>7, <2>8
<1>5. \A k \in 0..Len(s) : k = 0 \/ k \in 1..Len(s)
  OBVIOUS
<1>6. <<>> \in Seq(T)
  OBVIOUS
<1> QED BY <1>2, <1>3, <1>4, <1>5, <1>6 DEF Joined

-----------------------------------------------------------------------------
\* The messages of each record, and how many there are in the first k records.
Lists(f) == [n \in DOMAIN f.records |-> f.records[n].messages]
Before(f, k) == Len(Joined(Lists(f), k))

LEMMA FileRecords ==
  ASSUME NEW f \in Files
  PROVE  /\ f.records \in Seq(RecordType)
         /\ Lists(f) \in Seq(Seq(MessageType)) /\ Len(Lists(f)) = Len(f.records)
         /\ \A n \in DOMAIN f.records : Lists(f)[n] = f.records[n].messages
         /\ Messages(f) = FlattenSeq(Lists(f))
<1>1. f.records \in Seq(RecordType)
  BY FilesAssumption
<1>2. \A r \in RecordType : r.messages \in Seq(MessageType)
  BY DEF RecordType
<1>3. Len(f.records) \in Nat /\ DOMAIN f.records = 1..Len(f.records)
      /\ \A n \in DOMAIN f.records : f.records[n] \in RecordType
  BY <1>1
<1>4. Lists(f) \in [1..Len(f.records) -> Seq(MessageType)]
  BY <1>2, <1>3 DEF Lists
<1>5. Lists(f) \in Seq(Seq(MessageType)) /\ Len(Lists(f)) = Len(f.records)
  BY <1>3, <1>4
<1>6. Messages(f) = FlattenSeq(Lists(f))
  BY Zenon DEF Lists, Messages
<1>7. \A n \in DOMAIN f.records : Lists(f)[n] = f.records[n].messages
  BY DEF Lists
<1> QED BY <1>1, <1>5, <1>6, <1>7

LEMMA MessagesType ==
  ASSUME NEW f \in Files
  PROVE  /\ Messages(f) \in Seq(MessageType)
         /\ Len(Messages(f)) \in Nat /\ DOMAIN Messages(f) = 1..Len(Messages(f))
         /\ \A n \in DOMAIN Messages(f) :
              /\ Messages(f)[n].time \in 0..Top /\ Messages(f)[n].size \in Nat
              /\ Messages(f)[n].channel \in Nat
<1>1. Messages(f) \in Seq(MessageType)
  <2>1. Len(Lists(f)) \in 0..Len(Lists(f))
    BY FileRecords
  <2> QED BY <2>1, FileRecords, JoinedSteps
<1>2. \A m \in MessageType : m.time \in 0..Top /\ m.size \in Nat /\ m.channel \in Nat
  BY DEF MessageType
<1> QED BY <1>1, <1>2

LEMMA BeforeSteps ==
  ASSUME NEW f \in Files
  PROVE  /\ Before(f, 0) = 0 /\ Before(f, Len(f.records)) = Len(Messages(f))
         /\ \A k \in 0..Len(f.records) : Before(f, k) \in Nat
         /\ \A k \in 1..Len(f.records) :
              /\ Before(f, k) = Before(f, k - 1) + Len(f.records[k].messages)
              /\ Len(f.records[k].messages) \in Nat
<1> DEFINE s == Lists(f)
<1>1. s \in Seq(Seq(MessageType)) /\ Len(s) = Len(f.records) /\ Len(s) \in Nat
      /\ Messages(f) = FlattenSeq(s)
      /\ \A n \in 1..Len(s) : s[n] = f.records[n].messages /\ s[n] \in Seq(MessageType)
  BY FileRecords
<1> HIDE DEF s
<1>2. /\ Joined(s, 0) = <<>> /\ Joined(s, Len(s)) = FlattenSeq(s)
      /\ \A k \in 1..Len(s) : Joined(s, k) = Joined(s, k - 1) \o s[k]
      /\ \A k \in 0..Len(s) : Joined(s, k) \in Seq(MessageType)
  BY <1>1, JoinedSteps
<1>3. Len(<<>>) = 0
  OBVIOUS
<1>4. \A k : Before(f, k) = Len(Joined(s, k))
  BY DEF Before, s
<1>5. ASSUME NEW k \in 1..Len(s)
      PROVE  Before(f, k) = Before(f, k - 1) + Len(s[k]) /\ Len(s[k]) \in Nat
  <2>1. k - 1 \in 0..Len(s) /\ Joined(s, k - 1) \in Seq(MessageType) /\ s[k] \in Seq(MessageType)
    BY <1>1, <1>2
  <2>2. Len(Joined(s, k - 1) \o s[k]) = Len(Joined(s, k - 1)) + Len(s[k])
    BY ONLY <2>1
  <2>3. Before(f, k) = Len(Joined(s, k - 1) \o s[k]) /\ Before(f, k - 1) = Len(Joined(s, k - 1))
    BY ONLY <1>2, <1>4, <1>5
  <2>4. Len(s[k]) \in Nat
    BY ONLY <2>1
  <2> QED BY ONLY <2>2, <2>3, <2>4
<1>6. Before(f, 0) = 0 /\ Before(f, Len(s)) = Len(Messages(f))
  BY ONLY <1>1, <1>2, <1>3, <1>4
<1>7. \A k \in 0..Len(s) : Before(f, k) \in Nat
  BY ONLY <1>2, <1>4
<1> QED BY <1>1, <1>5, <1>6, <1>7

\* Each message comes from one of the records.
LEMMA RecordOf ==
  ASSUME NEW f \in Files, NEW n \in DOMAIN Messages(f)
  PROVE  \E k \in DOMAIN f.records :
           n \in Before(f, k - 1) + 1..Before(f, k - 1) + Len(f.records[k].messages)
<1> DEFINE Held(m, k) == m \in Before(f, k - 1) + 1..Before(f, k - 1) + Len(f.records[k].messages)
           last == Len(f.records)
           T == {j \in 0..last : \A m \in 1..Before(f, j) : \E k \in 1..j : Held(m, k)}
<1>1. last \in Nat /\ DOMAIN f.records = 1..last
  BY FileRecords
<1>2. 0 \in T
  BY <1>1, BeforeSteps
<1>3. \A j \in 1..last : j - 1 \in T => j \in T
  <2> SUFFICES ASSUME NEW j \in 1..last, j - 1 \in T, NEW m \in 1..Before(f, j) PROVE \E k \in 1..j : Held(m, k)
    BY <1>1
  <2>1. /\ Before(f, j) = Before(f, j - 1) + Len(f.records[j].messages)
        /\ Len(f.records[j].messages) \in Nat /\ Before(f, j - 1) \in Nat /\ j \in Nat
    BY <1>1, BeforeSteps
  <2>2. CASE m \in 1..Before(f, j - 1)
    <3>1. PICK k \in 1..(j - 1) : Held(m, k)
      BY <2>2
    <3>2. k \in 1..j
      BY <2>1
    <3> QED BY <3>1, <3>2
  <2>3. CASE m \notin 1..Before(f, j - 1)
    <3>1. Held(m, j) /\ j \in 1..j
      BY <2>1, <2>3
    <3> QED BY <3>1
  <2> QED BY <2>2, <2>3
<1> HIDE DEF T
<1>4. 0..last \subseteq T
  BY ONLY <1>1, <1>2, <1>3, Upwards
<1>5. last \in T
  BY <1>1, <1>4
<1>6. n \in 1..Before(f, last)
  BY MessagesType, BeforeSteps
<1> QED BY <1>1, <1>5, <1>6 DEF T

\* The scan of a part of the file from its beginning.
LEMMA PrefixLength ==
  ASSUME NEW f \in Files, NEW k \in 0..Len(f.records)
  PROVE  Len(Messages([records |-> SubSeq(f.records, 1, k)])) = Before(f, k)
<1> DEFINE part == SubSeq(f.records, 1, k)
           s == Lists(f)
<1>1. f.records \in Seq(RecordType) /\ s \in Seq(Seq(MessageType)) /\ Len(s) = Len(f.records)
      /\ \A n \in DOMAIN f.records : s[n] = f.records[n].messages
  BY FileRecords
<1> HIDE DEF s
<1>2. /\ DOMAIN part = 1..k /\ \A n \in 1..k : part[n] = f.records[n] /\ n \in DOMAIN f.records
  BY <1>1
<1>5. SubSeq(s, 1, k) = [n \in 1..k |-> s[n]]
  BY <1>1
<1>3. [n \in DOMAIN part |-> part[n].messages] = SubSeq(s, 1, k)
  <2> HIDE DEF part
  <2> QED BY <1>1, <1>2, <1>5
<1>4. Messages([records |-> part]) = FlattenSeq(SubSeq(s, 1, k))
  <2>1. [records |-> part].records = part
    OBVIOUS
  <2> HIDE DEF part
  <2>2. Messages([records |-> part]) =
          FlattenSeq([n \in DOMAIN [records |-> part].records |-> [records |-> part].records[n].messages])
    BY Zenon DEF Messages
  <2> QED BY ONLY <1>3, <2>1, <2>2
<1> QED BY <1>4 DEF Before, Joined, s

-----------------------------------------------------------------------------
\* Places in the spool: the first is 0, and each is behind the payload before it.
LEMMA PlaceSteps ==
  ASSUME NEW f \in Files
  PROVE  /\ Place(f, 1) = 0
         /\ \A n \in DOMAIN Messages(f) : Place(f, n + 1) = Place(f, n) + Messages(f)[n].size + 1
         /\ \A n \in 1..(Len(Messages(f)) + 1) : Place(f, n) \in Int
<1> DEFINE all == Messages(f)
           g == [k \in DOMAIN all |-> all[k].size + 1]
<1>1. Len(all) \in Nat /\ DOMAIN all = 1..Len(all) /\ \A k \in DOMAIN all : all[k].size \in Nat
  BY MessagesType
<1> HIDE DEF all
<1>2. \A k \in 1..Len(all) : g[k] = all[k].size + 1 /\ g[k] \in Int
  BY <1>1
<1> HIDE DEF g
<1>3. \A n : Place(f, n) = SumFunctionOnSet(g, 1..(n - 1))
  BY Zenon DEF Place, all, g
<1>4. \A n \in Nat : IsFiniteSet(1..n)
  <2> SUFFICES ASSUME NEW n \in Nat PROVE IsFiniteSet(1..n)
    OBVIOUS
  <2> QED BY FS_Interval, 1 \in Int, n \in Int
<1>5. Place(f, 1) = 0
  <2>1. 1..(1 - 1) = {}
    OBVIOUS
  <2> QED BY <1>3, <2>1, SumOfNothing
<1>6. ASSUME NEW n \in 1..Len(all) PROVE Place(f, n + 1) = Place(f, n) + all[n].size + 1
  <2> DEFINE S == 1..(n - 1)
  <2>1. IsFiniteSet(S) /\ n \notin S /\ 1..((n + 1) - 1) = S \cup {n}
    <3>1. n - 1 \in Nat
      OBVIOUS
    <3> QED BY <1>4, <3>1
  <2>2. \A y \in S \cup {n} : g[y] \in Int
    BY <1>1, <1>2
  <2>3. Place(f, n) = SumFunctionOnSet(g, S) /\ Place(f, n + 1) = SumFunctionOnSet(g, S \cup {n})
    BY <1>3, <2>1
  <2> HIDE DEF S
  <2>4. SumFunctionOnSet(g, S \cup {n}) = SumFunctionOnSet(g, S) + g[n]
    BY ONLY <2>1, <2>2, SumAdd
  <2>5. SumFunctionOnSet(g, S) \in Int
    BY ONLY <2>1, <2>2, SumIsInt
  <2> QED BY <1>1, <1>2, <2>3, <2>4, <2>5
<1>7. ASSUME NEW n \in 1..(Len(all) + 1) PROVE Place(f, n) \in Int
  <2> DEFINE S == 1..(n - 1)
  <2>1. IsFiniteSet(S) /\ \A y \in S : g[y] \in Int
    <3>1. n - 1 \in Nat /\ \A y \in S : y \in 1..Len(all)
      BY <1>1
    <3> QED BY <1>2, <1>4, <3>1
  <2> HIDE DEF S
  <2>2. SumFunctionOnSet(g, S) \in Int
    BY ONLY <2>1, SumIsInt
  <2> QED BY <1>3, <2>2 DEF S
<1> QED BY <1>1, <1>5, <1>6, <1>7 DEF all

\* So no two messages have the same place, and later ones are behind earlier ones.
LEMMA PlacesApart ==
  ASSUME NEW f \in Files
  PROVE  \A m, n \in DOMAIN Messages(f) :
           /\ Place(f, m) \in Nat
           /\ Place(f, m) < Place(f, n) <=> m < n
           /\ Place(f, m) = Place(f, n) <=> m = n
<1> DEFINE last == Len(Messages(f))
           T == {j \in 0..last : \A m \in 1..j : Place(f, m) \in Nat /\ Place(f, m) < Place(f, j + 1)
                                                 /\ Place(f, j + 1) \in Nat}
<1>1. last \in Nat /\ DOMAIN Messages(f) = 1..last /\ \A n \in 1..last : Messages(f)[n].size \in Nat
  BY MessagesType
<1>2. /\ Place(f, 1) = 0 /\ \A n \in 1..(last + 1) : Place(f, n) \in Int
      /\ \A n \in 1..last : Place(f, n + 1) = Place(f, n) + Messages(f)[n].size + 1
  BY <1>1, PlaceSteps
<1>3. 0 \in T
  BY <1>1
<1>4. \A j \in 1..last : j - 1 \in T => j \in T
  <2> SUFFICES ASSUME NEW j \in 1..last, j - 1 \in T, NEW m \in 1..j
               PROVE  Place(f, m) \in Nat /\ Place(f, m) < Place(f, j + 1) /\ Place(f, j + 1) \in Nat
    BY <1>1
  <2>1. Place(f, j + 1) = Place(f, j) + Messages(f)[j].size + 1 /\ Messages(f)[j].size \in Nat
    BY <1>1, <1>2
  <2>2. (j - 1) + 1 = j
    OBVIOUS
  <2>3. \A k \in 1..(j - 1) : Place(f, k) \in Nat /\ Place(f, k) < Place(f, j) /\ Place(f, j) \in Nat
    BY <2>2
  <2>4. CASE j = 1
    <3>1. Place(f, j) = 0 /\ m = j
      BY <1>2, <2>4
    <3> QED BY <2>1, <3>1
  <2>5. CASE j # 1
    <3>1. 1 \in 1..(j - 1) /\ (m = j \/ m \in 1..(j - 1))
      BY <2>5
    <3>2. Place(f, j) \in Nat
      BY <2>3, <3>1
    <3> QED BY <2>1, <2>3, <3>1, <3>2
  <2> QED BY <2>4, <2>5
<1> HIDE DEF T
<1>5. 0..last \subseteq T
  BY ONLY <1>1, <1>3, <1>4, Upwards
<1>6. ASSUME NEW m \in 1..last, NEW n \in 1..last, m < n
      PROVE  Place(f, m) < Place(f, n) /\ Place(f, m) \in Nat /\ Place(f, n) \in Nat
  <2>1. n - 1 \in 0..last /\ m \in 1..(n - 1) /\ (n - 1) + 1 = n
    BY <1>6
  <2>2. n - 1 \in T
    BY <1>5, <2>1
  <2> QED BY <2>1, <2>2 DEF T
<1>7. ASSUME NEW m \in 1..last PROVE Place(f, m) \in Nat
  <2>1. CASE m = 1
    BY <1>2, <2>1
  <2>2. CASE m # 1
    <3>1. 1 \in 1..last /\ 1 < m
      BY <1>1, <2>2
    <3> QED BY <1>6, <3>1
  <2> QED BY <2>1, <2>2
<1>8. \A m, n \in 1..last : m < n \/ m = n \/ n < m
  OBVIOUS
<1> QED BY <1>1, <1>6, <1>7, <1>8

-----------------------------------------------------------------------------
USE SizesAssumption

EntryType == [time : Nat, offset : Nat, size : Nat, channel : Nat]

\* Where a call of open() is, and the file it reads.
PhaseInv ==
  /\ pc \in {"idle", "destroyed", "inspect", "summary", "scan", "fill", "spool", "done"}
  /\ pc \notin {"idle", "destroyed"} => file \in Files
  /\ pc = "spool" => spool >= 0

\* The budgets, with what the growth of the vector and the unsigned subtractions need:
\* capacity stays within the number of entries the budget admits, and there are no more
\* entries than room for them.
BudgetInv ==
  /\ index_bytes \in 0..MaxIndexBytes
  /\ spool \in -1..MaxTemporaryBytes
  /\ capacity \in 0..Maximum
  /\ entries_ \in Seq(EntryType)
  /\ Len(entries_) <= capacity

IInv == PhaseInv /\ BudgetInv /\ AllOrNothing

-----------------------------------------------------------------------------
\* As many entries as Maximum take no more than the budget for the index.
LEMMA MaximumFits ==
  /\ Maximum \in Nat
  /\ \A n \in 0..Maximum : n * EntryBytes <= MaxIndexBytes
<1>1. EntryBytes \in Nat \ {0} /\ MaxIndexBytes \in Nat
  OBVIOUS
<1>2. Maximum \in Nat
  BY <1>1, SMT DEF Maximum
<1>3. EntryBytes * Maximum <= MaxIndexBytes
  BY <1>1, SMT DEF Maximum
<1>4. ASSUME NEW n \in 0..Maximum PROVE n * EntryBytes <= MaxIndexBytes
  <2>1. n * EntryBytes <= Maximum * EntryBytes
    BY <1>1, <1>2, SMT
  <2>2. QED
    BY <1>1, <1>2, <1>3, <2>1, SMT
<1>5. QED
  BY <1>2, <1>4

\* The vector that is full grows by at least one entry and never above Maximum.
LEMMA GrowthBounded ==
  ASSUME capacity \in 0..Maximum, capacity # Maximum
  PROVE  Growth \in (capacity + 1)..Maximum
<1>1. Maximum \in Nat
  BY MaximumFits
<1>2. QED
  BY <1>1, SMT DEF Growth

\* Below the budget the unsigned subtractions of build_sorted_spool are exact.
LEMMA SpoolFitsExactly ==
  ASSUME spool \in 0..MaxTemporaryBytes, NEW size \in Nat, SpoolFits(size)
  PROVE  spool + size + 1 <= MaxTemporaryBytes
BY DEF SpoolFits, Minus

\* Sorting the entries changes their order and not how many they are.
LEMMA SortKeepsEntries ==
  ASSUME NEW s \in Seq(EntryType), NEW t \in Sorted(s)
  PROVE  t \in Seq(EntryType) /\ Len(t) = Len(s)
<1>1. PICK p \in [DOMAIN s -> DOMAIN s] : t = [n \in DOMAIN s |-> s[p[n]]]
  BY DEF Sorted, Arrangements
<1>2. \A n \in DOMAIN s : p[n] \in DOMAIN s
  OBVIOUS
<1>3. DOMAIN s = 1..Len(s) /\ Len(s) \in Nat /\ \A n \in DOMAIN s : s[n] \in EntryType
  OBVIOUS
<1>4. t \in [1..Len(s) -> EntryType]
  BY <1>1, <1>2, <1>3
<1>5. QED
  BY <1>3, <1>4

-----------------------------------------------------------------------------
\* close() and every failure leave nothing behind.
LEMMA ClearedInv ==
  ASSUME Cleared, pc' \in {"idle", "destroyed", "inspect"},
         pc' = "inspect" => file' \in Files
  PROVE  IInv'
<1>1. 0 \in 0..MaxIndexBytes /\ -1 \in -1..MaxTemporaryBytes /\ 0 \in 0..Maximum
  BY MaximumFits
<1>2. <<>> \in Seq(EntryType) /\ Len(<<>>) = 0
  OBVIOUS
<1>3. PhaseInv'
  BY DEF PhaseInv
<1>4. BudgetInv'
  BY <1>1, <1>2 DEF Cleared, BudgetInv
<1>5. AllOrNothing'
  BY DEF Cleared, AllOrNothing, Nothing
<1>6. QED
  BY <1>3, <1>4, <1>5 DEF IInv

\* A backend that was never opened has nothing.
LEMMA InitInv == Init => IInv
<1> SUFFICES ASSUME Init PROVE IInv
  OBVIOUS
<1>1. 0 \in 0..MaxIndexBytes /\ -1 \in -1..MaxTemporaryBytes /\ 0 \in 0..Maximum
  BY MaximumFits
<1>2. <<>> \in Seq(EntryType) /\ Len(<<>>) = 0
  OBVIOUS
<1>3. PhaseInv
  BY DEF Init, PhaseInv
<1>4. BudgetInv
  BY <1>1, <1>2 DEF Init, BudgetInv
<1>5. AllOrNothing
  BY DEF Init, AllOrNothing, Nothing
<1>6. QED
  BY <1>3, <1>4, <1>5 DEF IInv

\* The walk over the records counts an index record only when it fits.
LEMMA InspectInv == IInv /\ Inspect => IInv'
<1> SUFFICES ASSUME IInv, Inspect PROVE IInv'
  OBVIOUS
<1> DEFINE record == file.records[at]
<1>1. file \in Files /\ at \in DOMAIN file.records /\ pc = "inspect"
  BY DEF IInv, PhaseInv, Inspect
<1>2. record \in RecordType
  BY <1>1, FileRecords
<1>3. CASE TooLarge(record) \/ Overflows(record)
  <2>1. Cleared /\ pc' = "idle"
    BY <1>3 DEF Inspect, Throw
  <2>2. QED
    BY <2>1, ClearedInv
<1>4. CASE ~TooLarge(record) /\ ~Overflows(record)
  <2>1. /\ index_bytes' = index_bytes + (IF record.op = "index" THEN record.length ELSE 0)
        /\ UNCHANGED <<file, open_, indexed_, summary_vars, tables, pc>>
    BY <1>4 DEF Inspect
  <2>2. index_bytes' \in 0..MaxIndexBytes
    <3>1. index_bytes \in 0..MaxIndexBytes /\ MaxIndexBytes \in Nat
      BY DEF IInv, BudgetInv
    <3>2. CASE record.op = "index"
      <4>1. record.length \in Nat
        BY <1>2 DEF RecordType
      <4>2. IndexFits(record.length)
        BY <1>4, <3>2 DEF TooLarge
      <4>3. Minus(MaxIndexBytes, index_bytes) = MaxIndexBytes - index_bytes
        BY <3>1 DEF Minus
      <4>4. record.length <= MaxIndexBytes - index_bytes
        BY <4>2, <4>3 DEF IndexFits
      <4>5. index_bytes' = index_bytes + record.length
        BY <2>1, <3>2
      <4>6. QED
        BY ONLY <3>1, <4>1, <4>4, <4>5
    <3>3. CASE record.op # "index"
      BY <2>1, <3>1, <3>3
    <3>4. QED
      BY <3>2, <3>3
  <2>3. PhaseInv'
    BY <1>1, <2>1 DEF PhaseInv
  <2>4. BudgetInv'
    BY <2>1, <2>2 DEF IInv, BudgetInv, tables
  <2>5. AllOrNothing'
    BY <1>1, <2>1 DEF AllOrNothing
  <2>6. QED
    BY <2>3, <2>4, <2>5 DEF IInv
<1>5. QED
  BY <1>3, <1>4

\* A payload and its entry are kept only when both budgets have room for them.
LEMMA SpoolInv == IInv /\ Spool => IInv'
<1> SUFFICES ASSUME IInv, Spool PROVE IInv'
  OBVIOUS
<1> DEFINE message == Messages(file)[at]
<1>1. file \in Files /\ at \in DOMAIN Messages(file) /\ pc = "spool" /\ spool >= 0
  BY DEF IInv, PhaseInv, Spool
<1>2. message \in MessageType
  <2>1. Messages(file) \in Seq(MessageType)
    BY <1>1, MessagesType
  <2>2. QED
    BY <1>1, <2>1
<1>3. CASE Throw("limit") \/ Throw("format")
  <2>1. Cleared /\ pc' = "idle"
    BY <1>3 DEF Throw
  <2>2. QED
    BY <2>1, ClearedInv
<1>4. CASE /\ SpoolFits(message.size) /\ Len(entries_) # Maximum
           /\ capacity' = IF Len(entries_) = capacity THEN Growth ELSE capacity
           /\ entries_' = Append(entries_, [time |-> message.time, offset |-> spool,
                                           size |-> message.size, channel |-> message.channel])
           /\ spool' = spool + message.size + 1
           /\ UNCHANGED <<file, index_bytes, pc>>
  <2>1. /\ spool \in 0..MaxTemporaryBytes /\ MaxTemporaryBytes \in Nat
        /\ capacity \in 0..Maximum /\ Len(entries_) <= capacity
        /\ entries_ \in Seq(EntryType) /\ Len(entries_) \in Nat /\ Maximum \in Nat
    BY <1>1, MaximumFits DEF IInv, BudgetInv
  <2>2. message.time \in Nat /\ message.size \in Nat /\ message.channel \in Nat
    BY <1>1, MessagesType
  <2>3. spool' \in 0..MaxTemporaryBytes
    <3>1. spool + message.size + 1 <= MaxTemporaryBytes
      BY <1>4, <2>1, <2>2, SpoolFitsExactly
    <3>2. spool \in Nat /\ spool' = spool + message.size + 1
      BY <1>4, <2>1
    <3>3. QED
      BY ONLY <2>1, <2>2, <3>1, <3>2, SMTT(20)
  <2>4. entries_' \in Seq(EntryType) /\ Len(entries_') = Len(entries_) + 1
    <3>1. [time |-> message.time, offset |-> spool, size |-> message.size,
           channel |-> message.channel] \in EntryType
      BY <2>1, <2>2 DEF EntryType
    <3>2. QED
      BY <1>4, <2>1, <3>1
  <2>5. capacity' \in 0..Maximum /\ Len(entries_) + 1 <= capacity'
    <3>1. CASE Len(entries_) = capacity
      <4>1. Growth \in (capacity + 1)..Maximum
        BY <1>4, <2>1, <3>1, GrowthBounded
      <4>2. capacity' = Growth
        BY <1>4, <3>1
      <4>3. QED
        BY ONLY <2>1, <3>1, <4>1, <4>2
    <3>2. CASE Len(entries_) # capacity
      <4>1. capacity' = capacity
        BY <1>4, <3>2
      <4>2. QED
        BY ONLY <2>1, <3>2, <4>1
    <3>3. QED
      BY <3>1, <3>2
  <2>6. PhaseInv'
    BY <1>1, <1>4, <2>3 DEF PhaseInv
  <2>7. BudgetInv'
    <3>1. index_bytes' \in 0..MaxIndexBytes
      BY <1>4 DEF IInv, BudgetInv
    <3>2. spool' \in -1..MaxTemporaryBytes
      BY ONLY <2>1, <2>3
    <3>3. Len(entries_') <= capacity'
      BY ONLY <2>4, <2>5
    <3>4. QED
      BY ONLY <2>4, <2>5, <3>1, <3>2, <3>3 DEF BudgetInv
  <2>8. AllOrNothing'
    BY <1>1, <1>4 DEF AllOrNothing
  <2>9. QED
    BY <2>6, <2>7, <2>8 DEF IInv
<1>5. QED
  BY <1>3, <1>4 DEF Spool

\* The entries are sorted, or too few: then there are none.
LEMMA SpoolDoneInv == IInv /\ SpoolDone => IInv'
<1> SUFFICES ASSUME IInv, SpoolDone PROVE IInv'
  OBVIOUS
<1>1. CASE ~Counted
  <2>1. Cleared /\ pc' = "idle"
    BY <1>1 DEF SpoolDone, Throw
  <2>2. QED
    BY <2>1, ClearedInv
<1>2. CASE Counted
  <2>1. /\ entries_' \in Sorted(entries_) /\ pc' = "done" /\ pc = "spool"
        /\ UNCHANGED <<file, index_bytes, capacity, spool>>
    BY <1>2 DEF SpoolDone, Goto
  <2>2. entries_' \in Seq(EntryType) /\ Len(entries_') = Len(entries_)
    BY <2>1, SortKeepsEntries DEF IInv, BudgetInv
  <2>3. PhaseInv'
    BY <2>1 DEF IInv, PhaseInv
  <2>4. BudgetInv'
    BY <2>1, <2>2 DEF IInv, BudgetInv
  <2>5. AllOrNothing'
    BY <2>1 DEF AllOrNothing
  <2>6. QED
    BY <2>3, <2>4, <2>5 DEF IInv
<1>3. QED
  BY <1>1, <1>2

\* Reading the summary and scanning decide what is done next, and keep nothing.
LEMMA SummaryInv == IInv /\ (Inspected \/ ReadSummary \/ Scan) => IInv'
<1> SUFFICES ASSUME IInv, Inspected \/ ReadSummary \/ Scan PROVE IInv'
  OBVIOUS
<1>1. CASE Throw("format")
  <2>1. Cleared /\ pc' = "idle"
    BY <1>1 DEF Throw
  <2>2. QED
    BY <2>1, ClearedInv
<1>2. CASE ~Throw("format")
  <2>1. /\ pc \in {"inspect", "summary", "scan"} /\ pc' \in {"summary", "scan", "fill"}
        /\ UNCHANGED <<file, index_bytes, tables>>
    BY <1>2 DEF Inspected, ReadSummary, Scan, Goto
  <2>2. PhaseInv'
    BY <2>1 DEF IInv, PhaseInv
  <2>3. BudgetInv'
    BY <2>1 DEF IInv, BudgetInv, tables
  <2>4. AllOrNothing'
    BY <2>1 DEF AllOrNothing
  <2>5. QED
    BY <2>2, <2>3, <2>4 DEF IInv
<1>3. QED
  BY <1>1, <1>2

\* The connections and the metadata are made; the spool begins empty, or there is none.
LEMMA FillInv == IInv /\ Fill => IInv'
<1> SUFFICES ASSUME IInv, Fill PROVE IInv'
  OBVIOUS
<1>1. CASE EndOverflows
  <2>1. Cleared /\ pc' = "idle"
    BY <1>1 DEF Fill, Throw
  <2>2. QED
    BY <2>1, ClearedInv
<1>2. CASE ~EndOverflows
  <2>1. /\ spool' = IF statistics.count > 0 /\ ~indexed_ THEN 0 ELSE -1
        /\ pc' = IF spool' = 0 THEN "spool" ELSE "done"
        /\ pc = "fill"
        /\ UNCHANGED <<file, index_bytes, entries_, capacity>>
    BY <1>2 DEF Fill, Goto
  <2>2. spool' \in -1..MaxTemporaryBytes
    BY <2>1
  <2>3. PhaseInv'
    BY <2>1, <2>2 DEF IInv, PhaseInv
  <2>4. BudgetInv'
    BY <2>1, <2>2 DEF IInv, BudgetInv
  <2>5. AllOrNothing'
    BY <2>1 DEF AllOrNothing
  <2>6. QED
    BY <2>3, <2>4, <2>5 DEF IInv
<1>3. QED
  BY <1>1, <1>2

\* open() returns.
LEMMA FinishInv == IInv /\ FinishOpen => IInv'
BY DEF IInv, FinishOpen, PhaseInv, BudgetInv, AllOrNothing, tables

\* Nothing happens.
LEMMA StutterInv == IInv /\ UNCHANGED vars => IInv'
BY DEF IInv, vars, tables, summary_vars, PhaseInv, BudgetInv, AllOrNothing

-----------------------------------------------------------------------------
\* The budgets, the phases of open() and all-or-nothing hold together in every state.
THEOREM Invariance == Spec => []IInv
<1>1. Init => IInv
  BY InitInv
<1>2. IInv /\ [Next]_vars => IInv'
  <2> SUFFICES ASSUME IInv, [Next]_vars PROVE IInv'
    OBVIOUS
  <2>1. CASE BeginOpen
    BY <2>1, ClearedInv DEF BeginOpen, Goto
  <2>2. CASE Close
    BY <2>2, ClearedInv DEF Close
  <2>3. CASE Destroy
    BY <2>3, ClearedInv DEF Destroy
  <2>4. CASE Running
    BY <2>4, InspectInv, SummaryInv, FillInv, SpoolInv, SpoolDoneInv, FinishInv DEF Running
  <2>5. CASE ReadFails
    BY <2>5, ClearedInv DEF ReadFails, Throw
  <2>6. CASE Stopped \/ UNCHANGED vars
    BY <2>6, StutterInv DEF Stopped
  <2>7. QED
    BY <2>1, <2>2, <2>3, <2>4, <2>5, <2>6 DEF Next
<1>3. QED
  BY <1>1, <1>2, PTL DEF Spec

\* A cursor reads what open() left and changes none of it: every behaviour of a backend
\* with a cursor is one of the backend alone (mcap.cpp:234-312 against 72-162).
THEOREM CursorOnlyReads == ReaderSpec => Spec
<1>1. ReaderInit => Init
  BY DEF ReaderInit
<1>2. [ReaderNext]_<<vars, cursor>> => [Next]_vars
  <2> SUFFICES ASSUME [ReaderNext]_<<vars, cursor>> PROVE [Next]_vars
    OBVIOUS
  <2>1. CASE status = "new" /\ Next /\ UNCHANGED cursor
    BY <2>1
  <2>2. CASE CursorStep
    BY ONLY <2>2 DEF CursorStep, StartCursor, StartFails, NextOfEmpty, SpoolRound, SpoolEnd,
                     ViewRound, ViewEnd
  <2>3. CASE ViewBreaks \/ Destroyed \/ UNCHANGED <<vars, cursor>>
    BY ONLY <2>3 DEF ViewBreaks, Destroyed
  <2>4. QED
    BY ONLY <2>1, <2>2, <2>3, [ReaderNext]_<<vars, cursor>> DEF ReaderNext
<1>3. QED
  BY <1>1, <1>2, PTL DEF ReaderSpec, Spec

\* Neither the index records nor the room for the spool's entries exceed max_index_bytes
\* (mcap.cpp:65, 195-200).
THEOREM IndexBudget == ReaderSpec => []IndexBudgetHeld
<1>1. IInv => IndexBudgetHeld
  BY MaximumFits DEF IInv, BudgetInv, IndexBudgetHeld
<1>2. QED
  BY <1>1, Invariance, CursorOnlyReads, PTL

\* The temporary file never exceeds max_temporary_bytes (mcap.cpp:193).
THEOREM SpoolBudget == ReaderSpec => []SpoolInBudget
<1>1. IInv => SpoolInBudget
  BY DEF IInv, BudgetInv, SpoolInBudget
<1>2. QED
  BY <1>1, Invariance, CursorOnlyReads, PTL

\* What a failed or closed open() had built is gone (mcap.cpp:147, 152-162).
THEOREM Complete == ReaderSpec => []AllOrNothing
<1>1. IInv => AllOrNothing
  BY DEF IInv
<1>2. QED
  BY <1>1, Invariance, CursorOnlyReads, PTL

-----------------------------------------------------------------------------
(* What an open backend says of its file, and where its messages are.        *)

\* The shape of the first k records.
ChunksAmong(f, k) == {n \in 1..k : f.records[n].op = "chunk"}
ShapeOf(f, k) ==
  [chunks |-> Cardinality(ChunksAmong(f, k)), direct |-> \E n \in 1..k : f.records[n].op = "message"]

\* Every message can be read through the index.
FullyIndexed == \A n \in DOMAIN Messages(file) : Indexed(n)

\* The statistics are those of a scan, or of the summary of an indexed file.
Known ==
  \/ statistics = Scanned(file)
  \/ indexed_ /\ statistics = file.summary.statistics /\ statistics # NoStatistics

\* The connections and the metadata are made of them.
Told ==
  /\ ~EndOverflows
  /\ connections_ = [c \in DOMAIN channels_ |->
                       IF c \in DOMAIN statistics.counts THEN statistics.counts[c] ELSE 0]
  /\ metadata_ = [messages |-> statistics.count, start |-> statistics.start,
                  end |-> Plus(statistics.end, IF statistics.count > 0 THEN 1 ELSE 0)]

\* The spool entry of message n.
EntryOf(f, n) ==
  [time |-> Messages(f)[n].time, offset |-> Place(f, n), size |-> Messages(f)[n].size,
   channel |-> Messages(f)[n].channel]

\* The entries are those of the first k messages, in file order.
SpoolOf(f, e, k) == Len(e) = k /\ \A n \in 1..k : e[n] = EntryOf(f, n)

\* The entries are those of all messages, in time order, and in file order where times
\* are equal.
SortedSpool(f, e) ==
  /\ DOMAIN e = DOMAIN Messages(f)
  /\ \A n \in DOMAIN Messages(f) : \E i \in DOMAIN e : e[i] = EntryOf(f, n)
  /\ \A i \in DOMAIN e : \E n \in DOMAIN Messages(f) : e[i] = EntryOf(f, n)
  /\ \A i, j \in DOMAIN e : i < j => ByTime(e[i], e[j])

\* The walk over the records has seen those before it, and the scan has spooled those
\* before it.
WalkInv ==
  /\ pc \in {"inspect", "summary", "scan", "fill"} => entries_ = <<>>
  /\ pc = "inspect" => at \in 1..(Len(file.records) + 1) /\ shape = ShapeOf(file, at - 1)
  /\ pc = "summary" => shape = ShapeOf(file, Len(file.records))
  /\ pc = "spool" =>
       /\ at \in 1..(Len(Messages(file)) + 1) /\ Len(entries_) = at - 1 /\ spool = Place(file, at)
       /\ \A n \in 1..(at - 1) : entries_[n] = EntryOf(file, n)

Decided == pc \in {"spool", "done"} \/ open_

\* Only an open() that is over has opened the backend; what it decided is right.
DecisionInv ==
  /\ open_ => pc = "idle" /\ file \in Files
  /\ indexed_ => FullyIndexed
  /\ pc = "fill" \/ Decided => Known
  /\ Decided => Told
  /\ pc = "spool" => ~indexed_
  /\ (pc = "done" \/ open_) /\ ~indexed_ /\ statistics.count > 0 => SortedSpool(file, entries_)

OpenInv == IInv /\ WalkInv /\ DecisionInv

-----------------------------------------------------------------------------
\* What a scan finds is true.
LEMMA ScannedFacts ==
  ASSUME NEW f \in Files
  PROVE  /\ Scanned(f).count = Len(Messages(f))
         /\ Scanned(f).start \in 0..Top /\ Scanned(f).end \in 0..Top
         /\ \A n \in DOMAIN Messages(f) :
              Scanned(f).start <= Messages(f)[n].time /\ Messages(f)[n].time <= Scanned(f).end
         /\ (\E n \in DOMAIN Messages(f) : Messages(f)[n].time = Top) => Scanned(f).end = Top
         /\ \A c : (IF c \in DOMAIN Scanned(f).counts THEN Scanned(f).counts[c] ELSE 0)
                     = Cardinality({n \in DOMAIN Messages(f) : Messages(f)[n].channel = c})
<1> DEFINE all == Messages(f)
           times == {all[n].time : n \in DOMAIN all}
           channels == {all[n].channel : n \in DOMAIN all}
           counts == [c \in channels |-> Cardinality({n \in DOMAIN all : all[n].channel = c})]
<1>1. /\ Scanned(f).count = Len(all)
      /\ Scanned(f).start = IF times = {} THEN Top ELSE Min(times)
      /\ Scanned(f).end = IF times = {} THEN 0 ELSE Max(times)
      /\ Scanned(f).counts = counts
  BY DEF Scanned
<1>2. /\ Len(all) \in Nat /\ DOMAIN all = 1..Len(all)
      /\ \A n \in DOMAIN all : all[n].time \in 0..Top
  BY MessagesType
<1>3. Top \in Nat
  BY DEF Top
<1> HIDE DEF all
<1>4. times \subseteq 0..Top /\ \A n \in DOMAIN all : all[n].time \in times
  BY <1>2
<1>5. ASSUME times # {}
      PROVE  /\ Min(times) \in times /\ \A t \in times : Min(times) <= t
             /\ Max(times) \in times /\ \A t \in times : t <= Max(times)
  <2>1. times \in SUBSET Int /\ 0 \in Int /\ Top \in Int /\ \A t \in times : 0 <= t /\ t <= Top
    BY <1>3, <1>4
  <2> HIDE DEF times
  <2> QED BY <1>5, <2>1, MinOfBounded, MaxOfBounded
<1>6. Scanned(f).start \in 0..Top /\ Scanned(f).end \in 0..Top
  <2>1. 0 \in 0..Top /\ Top \in 0..Top
    BY <1>3
  <2> HIDE DEF times
  <2>2. CASE times = {}
    BY ONLY <1>1, <2>1, <2>2
  <2>3. CASE times # {}
    <3>1. Min(times) \in 0..Top /\ Max(times) \in 0..Top
      BY ONLY <1>4, <1>5, <2>3
    <3> QED BY ONLY <1>1, <2>3, <3>1
  <2> QED BY <2>2, <2>3
<1>7. ASSUME NEW n \in DOMAIN all
      PROVE  /\ Scanned(f).start <= all[n].time /\ all[n].time <= Scanned(f).end
             /\ all[n].time = Top => Scanned(f).end = Top
  <2>1. all[n].time \in times /\ all[n].time \in 0..Top
    BY <1>2, <1>4
  <2> HIDE DEF times
  <2>2. Scanned(f).start <= all[n].time /\ all[n].time <= Scanned(f).end
    BY <1>1, <1>5, <2>1
  <2> QED BY <1>3, <1>6, <2>1, <2>2
<1>8. ASSUME NEW c
      PROVE  (IF c \in DOMAIN counts THEN counts[c] ELSE 0)
               = Cardinality({n \in DOMAIN all : all[n].channel = c})
  <2>1. CASE c \in channels
    BY <2>1
  <2>2. CASE c \notin channels
    <3>1. {n \in DOMAIN all : all[n].channel = c} = {}
      BY <2>2
    <3>2. c \notin DOMAIN counts
      BY <2>2
    <3> QED BY <3>1, <3>2, FS_EmptySet
  <2> QED BY <2>1, <2>2
<1> HIDE DEF counts
<1> QED BY <1>1, <1>6, <1>7, <1>8 DEF all

\* The chunk indexes of a trusted summary are those of all chunks, and all messages are in
\* chunks.
LEMMA TrustedCovers ==
  ASSUME file \in Files, shape = ShapeOf(file, Len(file.records)), Trusted(file.summary)
  PROVE  FullyIndexed
<1> DEFINE I == file.summary.indexes
           last == Len(file.records)
           C == ChunksAmong(file, last)
           g == [i \in I |-> i.chunk]
<1>1. /\ IsFiniteSet(I) /\ \A i \in I : i = [chunk |-> i.chunk, usable |-> i.usable]
      /\ \A i \in I : i.chunk \in DOMAIN file.records /\ file.records[i.chunk].op = "chunk"
      /\ \A n \in DOMAIN file.records : file.records[n].op \notin {"chunk", "message"} => file.records[n].messages = <<>>
  BY FilesAssumption
<1>2. last \in Nat /\ DOMAIN file.records = 1..last
  BY FileRecords
<1>3. /\ Cardinality(I) = Cardinality(C) /\ \A i \in I : i.usable
      /\ \A n \in 1..last : file.records[n].op # "message"
  <2>1. shape.chunks = Cardinality(C) /\ (shape.direct <=> \E n \in 1..last : file.records[n].op = "message")
    BY DEF ShapeOf
  <2> QED BY <2>1 DEF Trusted
<1>4. IsFiniteSet(C)
  <2>1. C \in SUBSET (1..last)
    BY DEF ChunksAmong
  <2>2. IsFiniteSet(1..last)
    BY <1>2, 1 \in Int, last \in Int, FS_Interval
  <2> HIDE DEF C
  <2> QED BY ONLY <2>1, <2>2, FS_Subset
<1>5. g \in Injection(I, C)
  <2>1. \A i \in I : i.chunk \in C
    BY <1>1, <1>2 DEF ChunksAmong
  <2>2. ASSUME NEW i \in I, NEW j \in I, i.chunk = j.chunk PROVE i = j
    <3>1. i.usable = j.usable
      <4>1. i.usable \in BOOLEAN /\ j.usable \in BOOLEAN
        BY FilesAssumption
      <4> QED BY <1>3, <4>1
    <3> QED BY <1>1, <2>2, <3>1
  <2> HIDE DEF C, I
  <2>3. g \in [I -> C] /\ IsInjective(g)
    BY <2>1, <2>2 DEF IsInjective
  <2> QED BY <2>3 DEF Injection
<1>6. g \in Surjection(I, C)
  <2> HIDE DEF C, I, g
  <2> QED BY ONLY <1>3, <1>4, <1>5, FS_Injection
<1> SUFFICES ASSUME NEW n \in DOMAIN Messages(file) PROVE Indexed(n)
  BY DEF FullyIndexed
<1>7. PICK k \in DOMAIN file.records :
        n \in Before(file, k - 1) + 1..Before(file, k - 1) + Len(file.records[k].messages)
  BY RecordOf
<1>8. k \in 1..last /\ k - 1 \in 0..last /\ Before(file, k - 1) \in Nat /\ Len(file.records[k].messages) \in Nat
  <2>1. k \in 1..last /\ k - 1 \in 0..last
    BY <1>2, SMTT(20)
  <2> HIDE DEF last
  <2>2. \A j \in 0..last : Before(file, j) \in Nat
    BY BeforeSteps DEF last
  <2>3. \A j \in 1..last : Len(file.records[j].messages) \in Nat
    BY BeforeSteps DEF last
  <2> QED BY ONLY <2>1, <2>2, <2>3
<1>9. k \in C
  <2>1. Len(file.records[k].messages) # 0
    BY <1>7, <1>8, SMTT(20)
  <2>2. file.records[k].messages # <<>>
    BY <2>1
  <2> QED BY <1>1, <1>3, <1>7, <1>8, <2>2 DEF ChunksAmong
<1>10. PICK i \in I : i.chunk = k
  BY <1>6, <1>9 DEF Surjection
<1>11. Len(Messages([records |-> SubSeq(file.records, 1, i.chunk - 1)])) = Before(file, k - 1)
  BY <1>8, <1>10, PrefixLength
<1> QED BY <1>3, <1>7, <1>10, <1>11 DEF Indexed

\* Sorting the entries of all messages, with a sort that may do as it likes with equal ones.
LEMMA SortedAll ==
  ASSUME NEW f \in Files, NEW s \in Seq(EntryType), SpoolOf(f, s, Len(Messages(f))), NEW t \in Sorted(s)
  PROVE  SortedSpool(f, t)
<1> DEFINE D == DOMAIN s
<1>1. PICK p \in [D -> D] : IsInjective(p) /\ t = [n \in D |-> s[p[n]]]
  BY DEF Sorted, Arrangements
<1>2. \A m, n \in DOMAIN t : m < n => ~ByTime(t[n], t[m])
  BY DEF Sorted
<1>3. Len(s) \in Nat /\ Len(s) = Len(Messages(f)) /\ D = 1..Len(s) /\ D = DOMAIN Messages(f) /\ DOMAIN t = D
  BY <1>1, MessagesType DEF SpoolOf
<1>4. p \in Surjection(D, D)
  <2>1. IsFiniteSet(1..Len(s))
    BY <1>3, 1 \in Int, Len(s) \in Int, FS_Interval
  <2>2. p \in Injection(D, D)
    BY <1>1 DEF Injection
  <2> HIDE DEF D
  <2>3. IsFiniteSet(D)
    BY <1>3, <2>1
  <2> QED BY ONLY <2>2, <2>3, FS_Injection
<1>10. \A n \in D : s[n] = EntryOf(f, n)
  BY <1>3 DEF SpoolOf
<1> HIDE DEF D
<1>5. \A i \in D : p[i] \in D /\ t[i] = EntryOf(f, p[i])
  BY <1>1, <1>3, <1>10
<1>6. \A n \in D : \E i \in D : p[i] = n
  BY <1>4 DEF Surjection
<1>7. \A i, j \in D : p[i] = p[j] => i = j
  BY <1>1 DEF IsInjective
<1>8. ASSUME NEW i \in D, NEW j \in D, i < j PROVE ByTime(t[i], t[j])
  <2> DEFINE m == p[i]
             n == p[j]
  <2>1. m \in D /\ n \in D /\ m # n
    BY <1>3, <1>5, <1>7, <1>8
  <2>2. t[i] = EntryOf(f, m) /\ t[j] = EntryOf(f, n) /\ ~ByTime(t[j], t[i])
    BY <1>2, <1>3, <1>5, <1>8
  <2> HIDE DEF m, n
  <2>3. /\ EntryOf(f, m).time = Messages(f)[m].time /\ EntryOf(f, m).offset = Place(f, m)
        /\ EntryOf(f, n).time = Messages(f)[n].time /\ EntryOf(f, n).offset = Place(f, n)
    BY DEF EntryOf
  <2>4. Messages(f)[m].time \in Nat /\ Messages(f)[n].time \in Nat
    BY <1>3, <2>1, MessagesType
  <2>5. Place(f, m) \in Nat /\ Place(f, n) \in Nat /\ Place(f, m) # Place(f, n)
    BY <1>3, <2>1, PlacesApart
  <2> QED BY ONLY <2>2, <2>3, <2>4, <2>5 DEF ByTime
<1>9. /\ DOMAIN t = DOMAIN Messages(f)
      /\ \A n \in DOMAIN Messages(f) : \E i \in DOMAIN t : t[i] = EntryOf(f, n)
      /\ \A i \in DOMAIN t : \E n \in DOMAIN Messages(f) : t[i] = EntryOf(f, n)
      /\ \A i, j \in DOMAIN t : i < j => ByTime(t[i], t[j])
  BY ONLY <1>3, <1>5, <1>6, <1>8
<1> QED BY <1>9 DEF SortedSpool

-----------------------------------------------------------------------------
\* open() from its first step to its last.
LEMMA Restarted ==
  ASSUME Cleared, pc' \in {"idle", "destroyed"} \/ (pc' = "inspect" /\ at' = 1 /\ file' \in Files)
  PROVE  (WalkInv /\ DecisionInv)'
<1>1. ~open_' /\ ~indexed_' /\ shape' = NoShape /\ entries_' = <<>>
  BY DEF Cleared
<1>2. WalkInv'
  <2>1. CASE pc' = "inspect"
    <3>1. Len(file'.records) \in Nat
      BY <2>1, FileRecords
    <3>2. at' = 1 /\ at' \in 1..(Len(file'.records) + 1)
      BY <2>1, <3>1
    <3>3. ShapeOf(file', at' - 1) = NoShape
      <4>1. ChunksAmong(file', at' - 1) = {} /\ 1..(at' - 1) = {}
        BY <3>2 DEF ChunksAmong
      <4> QED BY <4>1, FS_EmptySet DEF ShapeOf, NoShape
    <3>4. shape' = ShapeOf(file', at' - 1)
      BY <1>1, <3>3
    <3> QED BY <1>1, <2>1, <3>2, <3>4 DEF WalkInv
  <2>2. CASE pc' \in {"idle", "destroyed"}
    BY <2>2 DEF WalkInv
  <2> QED BY <2>1, <2>2
<1>3. DecisionInv'
  BY <1>1 DEF DecisionInv, Decided
<1> QED BY <1>2, <1>3

\* The shape grows record by record.
LEMMA ShapeStep ==
  ASSUME NEW f, NEW k \in Nat \ {0}
  PROVE  ShapeOf(f, k) = [chunks |-> ShapeOf(f, k - 1).chunks + (IF f.records[k].op = "chunk" THEN 1 ELSE 0),
                          direct |-> ShapeOf(f, k - 1).direct \/ f.records[k].op = "message"]
<1> DEFINE C(j) == ChunksAmong(f, j)
<1>1. k - 1 \in Nat /\ 1..k = 1..(k - 1) \cup {k} /\ k \notin 1..(k - 1)
  OBVIOUS
<1>2. IsFiniteSet(C(k - 1))
  <2>1. C(k - 1) \in SUBSET (1..(k - 1))
    BY DEF ChunksAmong
  <2>2. IsFiniteSet(1..(k - 1))
    BY <1>1, 1 \in Int, k - 1 \in Int, FS_Interval
  <2> HIDE DEF C
  <2> QED BY ONLY <2>1, <2>2, FS_Subset
<1>3. Cardinality(C(k)) = Cardinality(C(k - 1)) + (IF f.records[k].op = "chunk" THEN 1 ELSE 0)
  <2>1. k \notin C(k - 1)
    BY <1>1 DEF ChunksAmong
  <2>2. CASE f.records[k].op = "chunk"
    <3>1. C(k) = C(k - 1) \cup {k}
      BY <1>1, <2>2 DEF ChunksAmong
    <3>2. Cardinality(C(k - 1) \cup {k}) = Cardinality(C(k - 1)) + 1
      <4> HIDE DEF C
      <4> QED BY ONLY <1>2, <2>1, FS_AddElement
    <3> QED BY <2>2, <3>1, <3>2
  <2>3. CASE f.records[k].op # "chunk"
    <3>1. C(k) = C(k - 1)
      BY <1>1, <2>3 DEF ChunksAmong
    <3>2. Cardinality(C(k - 1)) \in Nat
      <4> HIDE DEF C
      <4> QED BY ONLY <1>2, FS_CardinalityType
    <3> QED BY <2>3, <3>1, <3>2
  <2> QED BY <2>2, <2>3
<1>4. (\E n \in 1..k : f.records[n].op = "message")
        <=> (\E n \in 1..(k - 1) : f.records[n].op = "message") \/ f.records[k].op = "message"
  BY <1>1
<1>5. /\ ShapeOf(f, k - 1).chunks = Cardinality(C(k - 1))
      /\ ShapeOf(f, k - 1).direct <=> \E n \in 1..(k - 1) : f.records[n].op = "message"
      /\ ShapeOf(f, k) = [chunks |-> Cardinality(C(k)), direct |-> \E n \in 1..k : f.records[n].op = "message"]
  BY DEF ShapeOf
<1>6. /\ ShapeOf(f, k - 1).direct \in BOOLEAN
      /\ (\E n \in 1..k : f.records[n].op = "message") \in BOOLEAN
  BY DEF ShapeOf
<1>7. (\E n \in 1..k : f.records[n].op = "message") = (ShapeOf(f, k - 1).direct \/ f.records[k].op = "message")
  BY <1>4, <1>5, <1>6
<1> HIDE DEF C
<1> QED BY ONLY <1>3, <1>5, <1>7

LEMMA InspectWalk == OpenInv /\ Inspect => (WalkInv /\ DecisionInv)'
<1> SUFFICES ASSUME OpenInv, Inspect PROVE (WalkInv /\ DecisionInv)'
  OBVIOUS
<1> DEFINE record == file.records[at]
<1>1. /\ pc = "inspect" /\ file \in Files /\ at \in DOMAIN file.records
      /\ at \in 1..(Len(file.records) + 1) /\ shape = ShapeOf(file, at - 1) /\ entries_ = <<>>
  BY DEF OpenInv, IInv, PhaseInv, WalkInv, Inspect
<1>2. CASE TooLarge(record) \/ Overflows(record)
  <2>1. Cleared /\ pc' = "idle"
    BY <1>2 DEF Inspect, Throw
  <2> QED BY <2>1, Restarted
<1>3. CASE ~TooLarge(record) /\ ~Overflows(record)
  <2>1. /\ shape' = [chunks |-> shape.chunks + (IF record.op = "chunk" THEN 1 ELSE 0),
                     direct |-> shape.direct \/ record.op = "message"]
        /\ at' = at + 1 /\ file' = file /\ pc' = pc /\ open_' = open_ /\ indexed_' = indexed_
        /\ entries_' = entries_
    BY <1>3 DEF Inspect, tables
  <2>2. at \in Nat \ {0} /\ Len(file.records) \in Nat /\ DOMAIN file.records = 1..Len(file.records)
    <3>1. Len(file.records) \in Nat /\ DOMAIN file.records = 1..Len(file.records)
      BY ONLY <1>1, FileRecords
    <3> QED BY ONLY <1>1, <3>1
  <2>3. at' \in 1..(Len(file.records) + 1) /\ at' - 1 = at
    <3>1. at \in 1..Len(file.records)
      BY ONLY <1>1, <2>2
    <3> QED BY ONLY <2>1, <2>2, <3>1
  <2>4. shape' = ShapeOf(file, at)
    <3> HIDE DEF record
    <3> QED BY <1>1, <2>1, <2>2, ShapeStep DEF record
  <2>6. shape' = ShapeOf(file', at' - 1)
    BY <2>1, <2>3, <2>4
  <2>7. WalkInv'
    BY <1>1, <2>1, <2>3, <2>6 DEF WalkInv
  <2>8. ~open_
    BY <1>1 DEF OpenInv, DecisionInv
  <2>9. FullyIndexed' = FullyIndexed
    BY <2>1 DEF FullyIndexed, Indexed
  <2> QED BY <1>1, <2>1, <2>7, <2>8, <2>9 DEF OpenInv, DecisionInv, Decided
<1> QED BY <1>2, <1>3

\* What was decided is of the file, the statistics and what was made of them.
LEMMA SameDecision ==
  ASSUME UNCHANGED <<file, indexed_, statistics, channels_, connections_, metadata_>>
  PROVE  FullyIndexed' = FullyIndexed /\ Known' = Known /\ Told' = Told
<1>1. FullyIndexed' = FullyIndexed
  BY DEF FullyIndexed, Indexed
<1>2. Known' = Known
  BY DEF Known, Scanned
<1>3. Told' = Told
  BY DEF Told, EndOverflows
<1> QED BY <1>1, <1>2, <1>3

LEMMA InspectedWalk == OpenInv /\ Inspected => (WalkInv /\ DecisionInv)'
<1> SUFFICES ASSUME OpenInv, Inspected PROVE (WalkInv /\ DecisionInv)'
  OBVIOUS
<1>1. /\ pc = "inspect" /\ file \in Files /\ at \notin DOMAIN file.records
      /\ at \in 1..(Len(file.records) + 1) /\ shape = ShapeOf(file, at - 1) /\ entries_ = <<>>
      /\ pc' = "summary"
      /\ UNCHANGED <<file, open_, indexed_, shape, statistics, channels_, connections_, metadata_, entries_>>
  BY DEF OpenInv, IInv, PhaseInv, WalkInv, Inspected, Goto, summary_vars, tables
<1>2. at - 1 = Len(file.records)
  <2>1. Len(file.records) \in Nat /\ DOMAIN file.records = 1..Len(file.records)
    BY <1>1, FileRecords
  <2> QED BY ONLY <1>1, <2>1
<1>3. WalkInv'
  BY <1>1, <1>2 DEF WalkInv
<1>4. FullyIndexed' = FullyIndexed /\ ~open_
  BY <1>1, SameDecision DEF OpenInv, DecisionInv
<1> QED BY <1>1, <1>3, <1>4 DEF OpenInv, DecisionInv, Decided

LEMMA ReadSummaryWalk == OpenInv /\ ReadSummary => (WalkInv /\ DecisionInv)'
<1> SUFFICES ASSUME OpenInv, ReadSummary PROVE (WalkInv /\ DecisionInv)'
  OBVIOUS
<1>1. /\ pc = "summary" /\ file \in Files /\ shape = ShapeOf(file, Len(file.records)) /\ ~open_ /\ entries_ = <<>>
  BY DEF OpenInv, IInv, PhaseInv, WalkInv, DecisionInv, ReadSummary
<1>2. CASE file.summary.read = "bad"
  <2>1. Cleared /\ pc' = "idle"
    BY <1>2 DEF ReadSummary, Throw
  <2> QED BY <2>1, Restarted
<1>3. CASE file.summary.read # "bad"
  <2>1. /\ statistics' = file.summary.statistics /\ indexed_' = Trusted(file.summary)
        /\ pc' = IF statistics' = NoStatistics \/ ~indexed_' THEN "scan" ELSE "fill"
        /\ file' = file /\ open_' = open_ /\ entries_' = entries_
    BY <1>3 DEF ReadSummary, Goto, tables
  <2>2. Trusted(file.summary) => FullyIndexed
    BY <1>1, TrustedCovers
  <2>3. FullyIndexed' = FullyIndexed
    BY <2>1 DEF FullyIndexed, Indexed
  <2>4. indexed_' => FullyIndexed'
    BY <2>1, <2>2, <2>3
  <2>5. pc' = "fill" => Known'
    BY <2>1 DEF Known
  <2>6. pc' \in {"scan", "fill"} /\ ~open_'
    BY <1>1, <2>1
  <2>7. WalkInv'
    BY <1>1, <2>1, <2>6 DEF WalkInv
  <2> QED BY ONLY <2>4, <2>5, <2>6, <2>7 DEF DecisionInv, Decided
<1> QED BY <1>2, <1>3

LEMMA ScanWalk == OpenInv /\ Scan => (WalkInv /\ DecisionInv)'
<1> SUFFICES ASSUME OpenInv, Scan PROVE (WalkInv /\ DecisionInv)'
  OBVIOUS
<1>1. /\ pc = "scan" /\ pc' = "fill" /\ ~open_ /\ open_' = open_ /\ file' = file
      /\ statistics' = Scanned(file) /\ (indexed_' => indexed_) /\ entries_ = <<>> /\ entries_' = entries_
  BY DEF Scan, Goto, OpenInv, WalkInv, DecisionInv, tables
<1>2. FullyIndexed' = FullyIndexed /\ Scanned(file)' = Scanned(file)
  BY <1>1 DEF FullyIndexed, Indexed, Scanned
<1>3. Known' /\ (indexed_' => FullyIndexed')
  BY <1>1, <1>2 DEF Known, OpenInv, DecisionInv
<1>4. WalkInv'
  BY <1>1 DEF WalkInv
<1> QED BY <1>1, <1>3, <1>4 DEF DecisionInv, Decided

LEMMA FillWalk == OpenInv /\ Fill => (WalkInv /\ DecisionInv)'
<1> SUFFICES ASSUME OpenInv, Fill PROVE (WalkInv /\ DecisionInv)'
  OBVIOUS
<1>1. /\ pc = "fill" /\ file \in Files /\ ~open_ /\ Known /\ entries_ = <<>>
  BY DEF OpenInv, IInv, PhaseInv, WalkInv, DecisionInv, Fill
<1>2. CASE EndOverflows
  <2>1. Cleared /\ pc' = "idle"
    BY <1>2 DEF Fill, Throw
  <2> QED BY <2>1, Restarted
<1>3. CASE ~EndOverflows
  <2>1. /\ connections_' = [c \in DOMAIN channels_ |->
                             IF c \in DOMAIN statistics.counts THEN statistics.counts[c] ELSE 0]
        /\ metadata_' = [messages |-> statistics.count, start |-> statistics.start,
                         end |-> Plus(statistics.end, IF statistics.count > 0 THEN 1 ELSE 0)]
        /\ spool' = IF statistics.count > 0 /\ ~indexed_ THEN 0 ELSE -1
        /\ pc' = IF spool' = 0 THEN "spool" ELSE "done"
        /\ at' = 1
        /\ UNCHANGED <<file, open_, indexed_, statistics, channels_, entries_>>
    BY <1>3 DEF Fill, Goto, summary_vars
  <2>2. Told'
    BY <1>3, <2>1 DEF Told, EndOverflows
  <2>3. Known' /\ FullyIndexed' = FullyIndexed
    <3>1. Known' = Known
      BY <2>1 DEF Known, Scanned
    <3>2. FullyIndexed' = FullyIndexed
      BY <2>1 DEF FullyIndexed, Indexed
    <3> QED BY <1>1, <3>1, <3>2
  <2>4. (pc' = "spool" <=> statistics.count > 0 /\ ~indexed_) /\ pc' \in {"spool", "done"}
        /\ (pc' = "spool" => spool' = 0)
    BY <2>1
  <2>5. WalkInv'
    <3>1. Len(Messages(file)) \in Nat
      BY <1>1, MessagesType
    <3>2. at' \in 1..(Len(Messages(file')) + 1) /\ Len(entries_') = at' - 1 /\ 1..(at' - 1) = {}
      BY <1>1, <2>1, <3>1
    <3>3. Place(file', at') = 0
      BY <1>1, <2>1, PlaceSteps
    <3> QED BY <2>4, <3>2, <3>3 DEF WalkInv
  <2>6. indexed_' => FullyIndexed'
    BY <2>1, <2>3 DEF OpenInv, DecisionInv
  <2>7. ~open_' /\ indexed_' = indexed_ /\ statistics' = statistics
    BY <1>1, <2>1
  <2> QED BY ONLY <2>2, <2>3, <2>4, <2>5, <2>6, <2>7 DEF DecisionInv, Decided
<1> QED BY <1>2, <1>3

LEMMA SpoolWalk == OpenInv /\ Spool => (WalkInv /\ DecisionInv)'
<1> SUFFICES ASSUME OpenInv, Spool PROVE (WalkInv /\ DecisionInv)'
  OBVIOUS
<1> DEFINE message == Messages(file)[at]
           entry == [time |-> message.time, offset |-> spool, size |-> message.size,
                     channel |-> message.channel]
<1>1. /\ pc = "spool" /\ file \in Files /\ at \in DOMAIN Messages(file)
      /\ at \in 1..(Len(Messages(file)) + 1) /\ Len(entries_) = at - 1 /\ spool = Place(file, at)
      /\ \A n \in 1..(at - 1) : entries_[n] = EntryOf(file, n)
      /\ entries_ \in Seq(EntryType) /\ ~open_
  BY DEF OpenInv, IInv, PhaseInv, BudgetInv, WalkInv, DecisionInv, Spool
<1>2. CASE Throw("limit") \/ Throw("format")
  <2>1. Cleared /\ pc' = "idle"
    BY <1>2 DEF Throw
  <2> QED BY <2>1, Restarted
<1>3. CASE /\ entries_' = Append(entries_, entry) /\ spool' = spool + message.size + 1 /\ at' = at + 1
           /\ UNCHANGED <<file, open_, indexed_, summary_vars, connections_, metadata_, pc>>
  <2>1. UNCHANGED <<file, indexed_, statistics, channels_, connections_, metadata_>> /\ pc' = pc /\ open_' = open_
    BY <1>3 DEF summary_vars
  <2>2. at \in Nat /\ Len(Messages(file)) \in Nat /\ DOMAIN Messages(file) = 1..Len(Messages(file))
    BY <1>1, MessagesType
  <2>3. at' = at + 1 /\ at' \in 1..(Len(Messages(file)) + 1) /\ at' - 1 = at
    BY <1>1, <1>3, <2>2
  <2>4. entry = EntryOf(file, at)
    BY <1>1 DEF EntryOf
  <2>5. Len(entries_') = at /\ entries_'[at] = entry /\ \A n \in 1..(at - 1) : entries_'[n] = entries_[n]
    <3>1. Len(entries_) = at - 1 /\ entries_ \in Seq(EntryType) /\ DOMAIN entries_ = 1..(at - 1)
      BY <1>1
    <3> HIDE DEF entry
    <3> QED BY ONLY <1>3, <2>2, <3>1
  <2>6. \A n \in 1..at : entries_'[n] = EntryOf(file, n)
    <3> SUFFICES ASSUME NEW n \in 1..at PROVE entries_'[n] = EntryOf(file, n)
      OBVIOUS
    <3>1. n = at \/ n \in 1..(at - 1)
      BY <2>2
    <3> HIDE DEF entry
    <3> QED BY ONLY <1>1, <2>4, <2>5, <3>1
  <2>7. spool' = Place(file, at + 1)
    BY <1>1, <1>3, PlaceSteps
  <2>8. /\ at' \in 1..(Len(Messages(file')) + 1) /\ Len(entries_') = at' - 1 /\ spool' = Place(file', at')
        /\ \A n \in 1..(at' - 1) : entries_'[n] = EntryOf(file', n)
    BY ONLY <2>1, <2>3, <2>5, <2>6, <2>7
  <2>9. WalkInv'
    BY <1>1, <2>1, <2>8 DEF WalkInv
  <2>10. FullyIndexed' = FullyIndexed /\ Known' = Known /\ Told' = Told
    BY <2>1, SameDecision
  <2> QED BY <1>1, <2>1, <2>9, <2>10 DEF OpenInv, DecisionInv, Decided
<1> QED BY <1>2, <1>3 DEF Spool

LEMMA SpoolDoneWalk == OpenInv /\ SpoolDone => (WalkInv /\ DecisionInv)'
<1> SUFFICES ASSUME OpenInv, SpoolDone PROVE (WalkInv /\ DecisionInv)'
  OBVIOUS
<1>1. /\ pc = "spool" /\ file \in Files /\ Len(entries_) = at - 1
      /\ \A n \in 1..(at - 1) : entries_[n] = EntryOf(file, n)
      /\ entries_ \in Seq(EntryType) /\ ~open_ /\ ~indexed_ /\ Known /\ Told
  BY DEF OpenInv, IInv, PhaseInv, BudgetInv, WalkInv, DecisionInv, Decided, SpoolDone
<1>2. CASE ~Counted
  <2>1. Cleared /\ pc' = "idle"
    BY <1>2 DEF SpoolDone, Throw
  <2> QED BY <2>1, Restarted
<1>3. CASE Counted
  <2>1. /\ entries_' \in Sorted(entries_) /\ pc' = "done"
        /\ UNCHANGED <<file, open_, indexed_, statistics, channels_, connections_, metadata_>>
    BY <1>3 DEF SpoolDone, Goto, summary_vars
  <2>2. Len(entries_) = Len(Messages(file))
    <3>1. statistics.count = Len(Messages(file))
      BY <1>1, ScannedFacts DEF Known
    <3>2. metadata_.messages = statistics.count
      BY <1>1 DEF Told
    <3> QED BY <1>3, <3>1, <3>2 DEF Counted
  <2>3. SortedSpool(file', entries_')
    <3> DEFINE s == entries_
    <3>1. s \in Seq(EntryType) /\ entries_' \in Sorted(s) /\ file' \in Files
      BY <1>1, <2>1
    <3>2. SpoolOf(file', s, Len(Messages(file')))
      BY <1>1, <2>1, <2>2 DEF SpoolOf
    <3> HIDE DEF s
    <3> QED BY ONLY <3>1, <3>2, SortedAll
  <2>4. FullyIndexed' = FullyIndexed /\ Known' = Known /\ Told' = Told
    BY <2>1, SameDecision
  <2>5. WalkInv'
    BY <2>1 DEF WalkInv
  <2> QED BY <1>1, <2>1, <2>3, <2>4, <2>5 DEF DecisionInv, Decided
<1> QED BY <1>2, <1>3

LEMMA FinishWalk == OpenInv /\ FinishOpen => (WalkInv /\ DecisionInv)'
<1> SUFFICES ASSUME OpenInv, FinishOpen PROVE (WalkInv /\ DecisionInv)'
  OBVIOUS
<1>1. /\ pc = "done" /\ file \in Files /\ pc' = "idle"
      /\ UNCHANGED <<file, indexed_, statistics, channels_, connections_, metadata_, entries_>>
  BY DEF OpenInv, IInv, PhaseInv, FinishOpen, summary_vars, tables
<1>2. FullyIndexed' = FullyIndexed /\ Known' = Known /\ Told' = Told
  BY <1>1, SameDecision
<1>3. SortedSpool(file', entries_') = SortedSpool(file, entries_)
  BY <1>1
<1>4. WalkInv'
  BY <1>1 DEF WalkInv
<1> QED BY <1>1, <1>2, <1>3, <1>4 DEF OpenInv, DecisionInv, Decided

LEMMA StutterWalk == OpenInv /\ UNCHANGED vars => (WalkInv /\ DecisionInv)'
<1> SUFFICES ASSUME OpenInv, UNCHANGED vars PROVE (WalkInv /\ DecisionInv)'
  OBVIOUS
<1>1. UNCHANGED <<file, indexed_, statistics, channels_, connections_, metadata_, entries_, pc, at, shape, open_, spool>>
  BY DEF vars, summary_vars, tables
<1>2. FullyIndexed' = FullyIndexed /\ Known' = Known /\ Told' = Told
  BY <1>1, SameDecision
<1>3. SortedSpool(file', entries_') = SortedSpool(file, entries_)
  BY <1>1
<1>4. WalkInv'
  BY <1>1 DEF OpenInv, WalkInv
<1> QED BY <1>1, <1>2, <1>3, <1>4 DEF OpenInv, DecisionInv, Decided

LEMMA NextWalk == OpenInv /\ [Next]_vars => (WalkInv /\ DecisionInv)'
<1> SUFFICES ASSUME OpenInv, [Next]_vars PROVE (WalkInv /\ DecisionInv)'
  OBVIOUS
<1>1. CASE BeginOpen \/ Close \/ Destroy \/ ReadFails
  <2>1. Cleared /\ (pc' \in {"idle", "destroyed"} \/ (pc' = "inspect" /\ at' = 1 /\ file' \in Files))
    BY <1>1 DEF BeginOpen, Close, Destroy, ReadFails, Throw, Goto
  <2> QED BY <2>1, Restarted
<1>2. CASE Running
  BY <1>2, InspectWalk, InspectedWalk, ReadSummaryWalk, ScanWalk, FillWalk, SpoolWalk, SpoolDoneWalk,
     FinishWalk DEF Running
<1>3. CASE Stopped \/ UNCHANGED vars
  BY <1>3, StutterWalk DEF Stopped
<1> QED BY <1>1, <1>2, <1>3 DEF Next

\* What open() counts, decides and spools is so in every state.
THEOREM Opening == Spec => []OpenInv
<1>1. Init => WalkInv /\ DecisionInv
  BY DEF Init, WalkInv, DecisionInv, Decided
<1> QED BY <1>1, NextWalk, Invariance, PTL DEF Spec, OpenInv

\* What an open backend that scanned says of its messages is so (mcap.cpp:104-114, 132-145).
THEOREM Described == ReaderSpec => []MetadataTrue
<1>1. OpenInv => MetadataTrue
  <2> DEFINE all == Messages(file)
  <2> SUFFICES ASSUME OpenInv, open_, ~indexed_ \/ file.summary.statistics = NoStatistics
               PROVE  /\ metadata_.messages = Len(all)
                      /\ \A c \in DOMAIN connections_ :
                           connections_[c] = Cardinality({n \in DOMAIN all : all[n].channel = c})
                      /\ \A n \in DOMAIN all : metadata_.start <= all[n].time /\ all[n].time < metadata_.end
    BY DEF MetadataTrue
  <2>1. file \in Files /\ Told /\ statistics = Scanned(file)
    BY DEF OpenInv, DecisionInv, Decided, Known
  <2>2. metadata_.messages = Len(all)
    BY <2>1, ScannedFacts DEF Told
  <2>3. ASSUME NEW c \in DOMAIN connections_
        PROVE  connections_[c] = Cardinality({n \in DOMAIN all : all[n].channel = c})
    <3>1. connections_[c] = IF c \in DOMAIN Scanned(file).counts THEN Scanned(file).counts[c] ELSE 0
      BY <2>1 DEF Told
    <3> QED BY <2>1, <3>1, ScannedFacts
  <2>4. ASSUME NEW n \in DOMAIN all PROVE metadata_.start <= all[n].time /\ all[n].time < metadata_.end
    <3>1. /\ statistics.start <= all[n].time /\ all[n].time <= statistics.end
          /\ statistics.count = Len(all) /\ statistics.end \in 0..Top /\ statistics.start \in 0..Top
      BY <2>1, ScannedFacts
    <3>2. Len(all) \in Nat /\ Len(all) # 0 /\ all[n].time \in Nat
      BY <2>1, <2>4, MessagesType
    <3>3. statistics.end # Top /\ metadata_.start = statistics.start
          /\ metadata_.end = Plus(statistics.end, 1)
      <4>1. statistics.count > 0
        BY <3>1, <3>2
      <4> QED BY <2>1, <4>1 DEF Told, EndOverflows
    <3>4. Plus(statistics.end, 1) = statistics.end + 1
      <4>1. Modulus \in Nat \ {0} /\ Top = Modulus - 1
        BY DEF Top
      <4>2. statistics.end + 1 \in 0..(Modulus - 1)
        BY <3>1, <3>3, <4>1, SMTT(20)
      <4> HIDE DEF all
      <4> QED BY ONLY <4>1, <4>2 DEF Plus
    <3> HIDE DEF all
    <3>5. statistics.end \in Int /\ all[n].time \in Int
      BY <3>1, <3>2, SMTT(20)
    <3> QED BY ONLY <3>1, <3>3, <3>4, <3>5
  <2> QED BY <2>2, <2>3, <2>4
<1> QED BY <1>1, Opening, CursorOnlyReads, PTL

-----------------------------------------------------------------------------
(* The cursor: what is asked for, what was handed out and what is left.      *)

InTime(f, time) ==
  /\ f.start = NoTime \/ time >= f.start
  /\ f.stop = NoTime \/ time < f.stop
OnTopic(f, channel) == f.topics = {} \/ \E t \in f.topics : SameTopic(t, Topic[channel], f.match)
OfConnection(f, channel) == f.connection_ids = {} \/ channel \in f.connection_ids

\* Message n is one that the filter accepts, one that was handed out, one before another.
Asked(f, n) ==
  /\ InTime(f, Messages(file)[n].time)
  /\ OnTopic(f, Messages(file)[n].channel) /\ OfConnection(f, Messages(file)[n].channel)
HandedOut(n) == \E k \in DOMAIN out : out[k].index = n
MessageBefore(m, n) ==
  \/ Messages(file)[m].time < Messages(file)[n].time
  \/ Messages(file)[m].time = Messages(file)[n].time /\ m < n

\* The entries the cursor has not come to.
Left == {i \in DOMAIN entries_ : i >= position}

SpoolAnswer ==
  /\ SortedSpool(file, entries_)
  /\ position \in Nat \ {0}
  /\ \A i \in Left : filter.start = NoTime \/ entries_[i].time >= filter.start
  /\ \A i \in Left : \A n \in DOMAIN Messages(file) : entries_[i] = EntryOf(file, n) => ~HandedOut(n)
  /\ \A n \in DOMAIN Messages(file) :
       Asked(filter, n) => HandedOut(n) \/ \E i \in Left : entries_[i] = EntryOf(file, n)
  /\ status = "ended" => \A i \in Left : AfterStop(entries_[i])

ViewAnswer ==
  /\ view \in Seq(DOMAIN Messages(file))
  /\ \A i, j \in DOMAIN view : i < j => MessageBefore(view[i], view[j])
  /\ \A i \in DOMAIN view :
       /\ ~HandedOut(view[i])
       /\ InTime(filter, Messages(file)[view[i]].time) /\ OnTopic(filter, Messages(file)[view[i]].channel)
  /\ problem => view = <<>>
  /\ ~problem => \A n \in DOMAIN Messages(file) :
                   Asked(filter, n) => HandedOut(n) \/ \E i \in DOMAIN view : view[i] = n
  /\ status = "ended" => view = <<>> /\ ~problem

AnswerInv ==
  /\ empty => \A n \in DOMAIN Messages(file) : ~Asked(filter, n)
  /\ ~empty /\ ~indexed_ => SpoolAnswer
  /\ ~empty /\ indexed_ => ViewAnswer

OutType == [time : Nat, source : {0}, index : Nat, connection : Nat]
OutInv ==
  /\ out \in Seq(OutType)
  /\ \A k \in DOMAIN out : out[k].index \in DOMAIN Messages(file) /\ out[k] = Message(out[k].index)

CursorInv ==
  /\ status \in {"new", "open", "ended", "failed"}
  /\ status = "new" => out = <<>> /\ view = <<>> /\ ~problem /\ position = 1
  /\ status # "new" => pc = "idle" /\ open_ /\ filter \in Filters /\ OutInv
  /\ Callable => Legal(filter.match) /\ AnswerInv

ReaderInv == OpenInv /\ CursorInv

-----------------------------------------------------------------------------
\* What is said of the cursor depends on these.
LEMMA SameFile ==
  ASSUME UNCHANGED <<file, filter>>
  PROVE  /\ \A f, n : Asked(f, n)' = Asked(f, n)
         /\ \A n : Message(n)' = Message(n)
         /\ \A m, n : MessageBefore(m, n)' = MessageBefore(m, n)
         /\ \A entry : AfterStop(entry)' = AfterStop(entry)
         /\ Wanted' = Wanted
<1>1. \A f, n : Asked(f, n)' = Asked(f, n)
  BY DEF Asked
<1>2. \A n : Message(n)' = Message(n)
  BY DEF Message
<1>3. \A m, n : MessageBefore(m, n)' = MessageBefore(m, n)
  BY DEF MessageBefore
<1>4. \A entry : AfterStop(entry)' = AfterStop(entry)
  BY DEF AfterStop
<1>5. Wanted' = Wanted
  BY DEF Wanted, Message
<1> QED BY <1>1, <1>2, <1>3, <1>4, <1>5

\* The topics of a legal filter match as they are meant.
LEMMA TopicFacts ==
  ASSUME NEW f \in Filters, Legal(f.match), NEW channel \in DOMAIN Topic
  PROVE  TopicMatches(f, channel) <=> OnTopic(f, channel)
BY TopicsAssumption DEF TopicMatches, OnTopic

LEMMA TimeFacts ==
  ASSUME NEW f \in Filters
  PROVE  /\ f.start = NoTime \/ f.start \in 0..Top
         /\ f.stop = NoTime \/ f.stop \in 0..Top
         /\ Top \in Nat
         /\ OrElse(f.start, 0) \in Nat
         /\ \A t \in Nat : OrElse(f.start, 0) <= t <=> f.start = NoTime \/ t >= f.start
<1>1. Top \in Nat
  BY DEF Top
<1>2. /\ f.start = NoTime \/ f.start \in 0..Top
      /\ f.stop = NoTime \/ f.stop \in 0..Top
  BY FiltersAssumption
<1> QED BY <1>1, <1>2 DEF OrElse

\* A cursor that is empty has nothing to hand out.
LEMMA EmptyAsked ==
  ASSUME OpenInv, open_, NEW f \in Filters, IsEmpty(f), NEW n \in DOMAIN Messages(file)
  PROVE  ~Asked(f, n)
<1>1. file \in Files /\ Known /\ Told
  BY DEF OpenInv, DecisionInv, Decided
<1>2. Messages(file)[n].time \in 0..Top /\ Messages(file) # <<>> /\ Len(Messages(file)) # 0
  BY <1>1, MessagesType
<1>3. metadata_.messages # 0
  <2>1. metadata_.messages = statistics.count
    BY <1>1 DEF Told
  <2>2. CASE statistics = Scanned(file)
    BY <1>1, <1>2, <2>1, <2>2, ScannedFacts
  <2>3. CASE statistics = file.summary.statistics /\ statistics # NoStatistics
    BY <1>1, <1>2, <2>1, <2>3, StatisticsAssumption
  <2> QED BY <1>1, <2>2, <2>3 DEF Known
<1>4. f.start # NoTime /\ f.stop # NoTime /\ f.start >= f.stop
  BY <1>3 DEF IsEmpty
<1> QED BY <1>2, <1>4, TimeFacts, SMTT(20) DEF Asked, InTime

\* The cursor over the spool begins behind the entries that are too early.
LEMMA SpoolStart ==
  ASSUME OpenInv, open_, ~indexed_, NEW f \in Filters, ~IsEmpty(f)
  PROVE  /\ SortedSpool(file, entries_)
         /\ LowerBound(OrElse(f.start, 0)) \in Nat \ {0}
         /\ \A i \in DOMAIN entries_ :
              i >= LowerBound(OrElse(f.start, 0)) <=> (f.start = NoTime \/ entries_[i].time >= f.start)
<1>1. file \in Files /\ Known /\ Told /\ entries_ \in Seq(EntryType)
  BY DEF OpenInv, IInv, BudgetInv, DecisionInv, Decided
<1>2. SortedSpool(file, entries_)
  <2>1. statistics = Scanned(file) /\ statistics.count = Len(Messages(file)) /\ Len(Messages(file)) \in Nat
    BY <1>1, ScannedFacts, MessagesType DEF Known
  <2>2. metadata_.messages = statistics.count
    BY <1>1 DEF Told
  <2>3. statistics.count > 0
    BY <2>1, <2>2 DEF IsEmpty
  <2> QED BY <2>3 DEF OpenInv, DecisionInv
<1> DEFINE t == OrElse(f.start, 0)
           last == Len(entries_)
           T == {n \in 1..(last + 1) : n \in DOMAIN entries_ => entries_[n].time >= t}
<1>3. /\ last \in Nat /\ DOMAIN entries_ = 1..last
      /\ \A i \in DOMAIN entries_ : entries_[i].time \in Nat
  <2>1. \A e \in EntryType : e.time \in Nat
    BY DEF EntryType
  <2> QED BY <1>1, <2>1
<1>4. t \in Nat /\ \A i \in DOMAIN entries_ : entries_[i].time >= t <=> (f.start = NoTime \/ entries_[i].time >= f.start)
  BY <1>3, TimeFacts
<1>5. LowerBound(t) = Min(T)
  BY DEF LowerBound
<1> HIDE DEF t, last
<1>6. T \in SUBSET Int /\ last + 1 \in T /\ \A n \in T : 1 <= n /\ n \in 1..(last + 1)
  BY <1>3
<1>7. Min(T) \in T /\ \A n \in T : Min(T) <= n
  <2> HIDE DEF T
  <2>1. 1 \in Int /\ T # {}
    BY <1>6
  <2> QED BY ONLY <1>6, <2>1, MinOfBounded
<1>8. \A i, j \in DOMAIN entries_ : i <= j => entries_[i].time <= entries_[j].time
  <2> SUFFICES ASSUME NEW i \in DOMAIN entries_, NEW j \in DOMAIN entries_, i <= j
               PROVE  entries_[i].time <= entries_[j].time
    OBVIOUS
  <2>1. /\ i \in Int /\ j \in Int /\ entries_[i].time \in Nat /\ entries_[j].time \in Nat
        /\ i < j => ByTime(entries_[i], entries_[j])
    BY <1>2, <1>3 DEF SortedSpool
  <2>2. i < j => entries_[i].time <= entries_[j].time
    BY ONLY <2>1 DEF ByTime
  <2>3. i = j \/ i < j
    BY <2>1
  <2> QED BY <2>1, <2>2, <2>3
<1>9. ASSUME NEW i \in DOMAIN entries_ PROVE i >= Min(T) <=> entries_[i].time >= t
  <2>1. CASE entries_[i].time >= t
    <3>1. i \in T
      BY <1>3, <2>1
    <3> HIDE DEF T
    <3>2. Min(T) \in Int /\ i \in Int /\ Min(T) <= i
      BY <1>6, <1>7, <3>1
    <3> QED BY <2>1, <3>2
  <2>2. CASE i >= Min(T)
    <3>1. Min(T) \in DOMAIN entries_ /\ Min(T) <= i
      <4>1. Min(T) \in 1..(last + 1) /\ i \in 1..last /\ i >= Min(T)
        BY <1>3, <1>7, <2>2
      <4> HIDE DEF T
      <4> QED BY ONLY <1>3, <4>1
    <3>2. entries_[Min(T)].time >= t /\ entries_[Min(T)].time <= entries_[i].time
      BY <1>7, <1>8, <3>1
    <3> QED BY <1>3, <1>4, <2>2, <3>1, <3>2, SMTT(20)
  <2> QED BY <2>1, <2>2
<1>10. Min(T) \in Nat \ {0}
  <2>1. Min(T) \in 1..(last + 1)
    BY <1>7
  <2> HIDE DEF T
  <2> QED BY ONLY <1>3, <2>1
<1> QED BY <1>2, <1>4, <1>5, <1>9, <1>10 DEF t

\* The last time that is one is no message's: its span would not end.
LEMMA NoneAtTop ==
  ASSUME OpenInv, open_, NEW n \in DOMAIN Messages(file)
  PROVE  Messages(file)[n].time \in Nat /\ Messages(file)[n].time < Top
<1>1. file \in Files /\ Known /\ ~EndOverflows
  BY DEF OpenInv, DecisionInv, Decided, Told
<1>2. Messages(file)[n].time \in 0..Top /\ Len(Messages(file)) # 0 /\ Len(Messages(file)) \in Nat
      /\ Messages(file) # <<>> /\ Top \in Nat
  BY <1>1, MessagesType DEF Top
<1>3. Messages(file)[n].time # Top
  <2> SUFFICES ASSUME Messages(file)[n].time = Top PROVE FALSE
    OBVIOUS
  <2>1. CASE statistics = Scanned(file)
    <3>1. statistics.end = Top /\ statistics.count > 0
      BY <1>1, <1>2, <2>1, ScannedFacts
    <3> QED BY <1>1, <3>1 DEF EndOverflows
  <2>2. CASE statistics = file.summary.statistics /\ statistics # NoStatistics
    <3>1. statistics.end = Top /\ statistics.count # 0
      BY <1>1, <1>2, <2>2, StatisticsAssumption
    <3>2. statistics.count \in 0..Top
      BY <1>1, <2>2, FilesAssumption
    <3> QED BY <1>1, <1>2, <3>1, <3>2 DEF EndOverflows
  <2> QED BY <1>1, <2>1, <2>2 DEF Known
<1> QED BY <1>2, <1>3

\* The view of an indexed file: the messages in time and on the topics, each once, in order.
Viewed(f) ==
  {n \in DOMAIN Messages(file) :
     InTime(f, Messages(file)[n].time) /\ OnTopic(f, Messages(file)[n].channel)}
Order ==
  {p \in (DOMAIN Messages(file)) \X (DOMAIN Messages(file)) : MessageBefore(p[1], p[2])}

LEMMA MessageOrder ==
  ASSUME file \in Files
  PROVE  StrictOrder(Order, DOMAIN Messages(file))
<1> DEFINE D == DOMAIN Messages(file)
           time == [n \in D |-> Messages(file)[n].time]
<1>1. \A n \in D : n \in Int /\ time[n] \in Int
  BY MessagesType
<1>2. \A m, n \in D : <<m, n>> \in Order <=> time[m] < time[n] \/ (time[m] = time[n] /\ m < n)
  BY DEF Order, MessageBefore
<1> HIDE DEF D, time
<1>3. \A x, y \in D : x = y \/ <<x, y>> \in Order \/ <<y, x>> \in Order
  <2> SUFFICES ASSUME NEW x \in D, NEW y \in D PROVE x = y \/ <<x, y>> \in Order \/ <<y, x>> \in Order
    BY Zenon
  <2>1. x \in Int /\ y \in Int /\ time[x] \in Int /\ time[y] \in Int
    BY <1>1
  <2> QED BY <1>2, <2>1
<1>4. \A x, y \in D : ~(<<x, y>> \in Order /\ <<y, x>> \in Order)
  <2> SUFFICES ASSUME NEW x \in D, NEW y \in D PROVE ~(<<x, y>> \in Order /\ <<y, x>> \in Order)
    BY Zenon
  <2>1. x \in Int /\ y \in Int /\ time[x] \in Int /\ time[y] \in Int
    BY <1>1
  <2> QED BY <1>2, <2>1
<1>5. \A x, y, z \in D : <<x, y>> \in Order /\ <<y, z>> \in Order => <<x, z>> \in Order
  <2> SUFFICES ASSUME NEW x \in D, NEW y \in D, NEW z \in D, <<x, y>> \in Order, <<y, z>> \in Order
               PROVE  <<x, z>> \in Order
    OBVIOUS
  <2>1. /\ x \in Int /\ y \in Int /\ z \in Int
        /\ time[x] \in Int /\ time[y] \in Int /\ time[z] \in Int
    BY <1>1
  <2>2. /\ time[x] < time[y] \/ (time[x] = time[y] /\ x < y)
        /\ time[y] < time[z] \/ (time[y] = time[z] /\ y < z)
    BY <1>2
  <2>3. time[x] < time[z] \/ (time[x] = time[z] /\ x < z)
    BY ONLY <2>1, <2>2
  <2> QED BY <1>2, <2>3
<1> QED BY <1>3, <1>4, <1>5 DEF StrictOrder, D

LEMMA ViewFacts ==
  ASSUME OpenInv, open_, indexed_, NEW f \in Filters, Legal(f.match)
  PROVE  /\ View(f) \in Seq(DOMAIN Messages(file))
         /\ \A i \in DOMAIN View(f) : View(f)[i] \in Viewed(f)
         /\ \A n \in Viewed(f) : \E i \in DOMAIN View(f) : View(f)[i] = n
         /\ \A i, j \in DOMAIN View(f) : i < j => MessageBefore(View(f)[i], View(f)[j])
<1> DEFINE all == Messages(file)
           S == {n \in DOMAIN all :
                   /\ Indexed(n) /\ OrElse(f.start, 0) <= all[n].time /\ all[n].time < EndTime(f)
                   /\ TopicMatches(f, all[n].channel)}
           s == View(f)
           B(m, n) == all[m].time < all[n].time \/ (all[m].time = all[n].time /\ m < n)
<1>1. /\ file \in Files /\ FullyIndexed
      /\ Len(all) \in Nat /\ DOMAIN all = 1..Len(all)
  BY MessagesType DEF OpenInv, DecisionInv
<1>2. S = Viewed(f)
  <2> SUFFICES ASSUME NEW n \in DOMAIN all
               PROVE  n \in S <=> InTime(f, all[n].time) /\ OnTopic(f, all[n].channel)
    BY DEF Viewed
  <2>1. Indexed(n) /\ all[n].channel \in DOMAIN Topic
    BY <1>1, TopicsAssumption DEF FullyIndexed
  <2>2. TopicMatches(f, all[n].channel) <=> OnTopic(f, all[n].channel)
    BY <2>1, TopicFacts
  <2>3. all[n].time \in Nat /\ all[n].time < Top
    BY NoneAtTop
  <2>4. OrElse(f.start, 0) <= all[n].time <=> f.start = NoTime \/ all[n].time >= f.start
    BY <2>3, TimeFacts
  <2>5. all[n].time < EndTime(f) <=> f.stop = NoTime \/ all[n].time < f.stop
    BY <2>3, TimeFacts DEF EndTime, OrElse
  <2> QED BY <2>1, <2>2, <2>4, <2>5 DEF InTime
<1>3. s = CHOOSE t \in [1..Cardinality(S) -> S] : \A i, j \in DOMAIN t : i < j => B(t[i], t[j])
  BY Zenon DEF View
<1>4. \A m, n : MessageBefore(m, n) <=> B(m, n)
  BY DEF MessageBefore
<1>5. IsFiniteSet(S) /\ Cardinality(S) \in Nat /\ S \subseteq DOMAIN all
  <2>1. S \subseteq DOMAIN all
    OBVIOUS
  <2>2. IsFiniteSet(1..Len(all))
    BY <1>1, 1 \in Int, Len(all) \in Int, FS_Interval
  <2> HIDE DEF S, all
  <2> QED BY ONLY <1>1, <2>1, <2>2, FS_Subset, FS_CardinalityType
<1>6. \A x, y \in S : <<x, y>> \in Order <=> MessageBefore(x, y)
  BY DEF Order
<1>7. StrictOrder(Order, S)
  <2>1. StrictOrder(Order, DOMAIN all)
    BY <1>1, MessageOrder
  <2> HIDE DEF S, all
  <2> QED BY ONLY <1>5, <2>1 DEF StrictOrder
<1> HIDE DEF S, all, s, B
<1>8. PICK t : Enumerates(t, Order, S)
  BY <1>5, <1>7, Enumerable
<1>9. t \in [1..Cardinality(S) -> S] /\ \A i, j \in DOMAIN t : i < j => B(t[i], t[j])
  BY <1>4, <1>6, <1>8 DEF Enumerates
<1>10. s \in [1..Cardinality(S) -> S] /\ \A i, j \in DOMAIN s : i < j => B(s[i], s[j])
  BY ONLY <1>3, <1>9
<1>11. \A n \in S : \E i \in DOMAIN s : s[i] = n
  <2> DEFINE N == 1..Cardinality(S)
  <2>1. \A i \in N : s[i] \in S
    BY <1>10
  <2>2. \A i, j \in N : i # j => i < j \/ j < i
    BY <1>5
  <2>3. \A x \in S : ~B(x, x)
    <3>1. \A x \in S : <<x, x>> \notin Order
      BY <1>7 DEF StrictOrder
    <3> QED BY <1>4, <1>6, <3>1
  <2>4. DOMAIN s = N
    BY <1>10
  <2> HIDE DEF N
  <2>5. s \in Injection(N, S)
    <3>1. \A i, j \in N : s[i] = s[j] => i = j
      BY <1>10, <2>1, <2>2, <2>3, <2>4
    <3> QED BY <1>10, <2>4, <3>1 DEF Injection, IsInjective, N
  <2>6. IsFiniteSet(N) /\ Cardinality(N) = Cardinality(S)
    <3> DEFINE c == Cardinality(S)
    <3>1. c \in Int /\ 1 \in Int /\ c \in Nat
      BY <1>5
    <3> HIDE DEF c
    <3>2. IsFiniteSet(1..c) /\ Cardinality(1..c) = c
      <4>1. IsFiniteSet(1..c) /\ Cardinality(1..c) = IF 1 > c THEN 0 ELSE c - 1 + 1
        BY ONLY <3>1, FS_Interval
      <4> QED BY ONLY <3>1, <4>1
    <3> QED BY <3>2 DEF N, c
  <2>7. s \in Surjection(N, S)
    BY ONLY <1>5, <2>5, <2>6, FS_Injection
  <2> QED BY <2>4, <2>7 DEF Surjection
<1>12. s \in Seq(DOMAIN all)
  <2>1. s \in [1..Cardinality(S) -> DOMAIN all]
    BY <1>5, <1>10
  <2> QED BY <1>5, <2>1
<1> QED BY <1>2, <1>4, <1>10, <1>11, <1>12 DEF s, all

-----------------------------------------------------------------------------
\* A step of the cursor leaves the backend alone.
LEMMA OnlyReads ==
  ASSUME CursorStep \/ ViewBreaks \/ Destroyed
  PROVE  UNCHANGED <<file, open_, indexed_, connections_, metadata_, entries_, pc>>
BY DEF CursorStep, StartCursor, StartFails, NextOfEmpty, SpoolRound, SpoolEnd, ViewRound, ViewEnd,
       ViewBreaks, Destroyed, vars, tables

\* The constructor.
LEMMA StartKeeps == ReaderInv /\ StartCursor => CursorInv'
<1> SUFFICES ASSUME ReaderInv, StartCursor PROVE CursorInv'
  OBVIOUS
<1>1. PICK f \in Filters : Legal(f.match) /\ filter' = f
  BY DEF StartCursor
<1>2. /\ pc = "idle" /\ open_ /\ status = "new" /\ status' = "open"
      /\ empty' = IsEmpty(f)
      /\ position' = IF ~empty' /\ ~indexed_ THEN LowerBound(OrElse(f.start, 0)) ELSE position
      /\ view' = IF ~empty' /\ indexed_ THEN View(f) ELSE <<>>
      /\ UNCHANGED <<file, open_, indexed_, entries_, pc, problem, out>>
  BY <1>1 DEF StartCursor, vars, tables
<1>3. /\ OpenInv /\ file \in Files /\ out = <<>> /\ ~problem
  BY <1>2 DEF ReaderInv, OpenInv, DecisionInv, CursorInv
<1>4. \A n : Asked(f, n)' = Asked(f, n) /\ ~HandedOut(n)'
  BY <1>2, <1>3 DEF Asked, HandedOut
<1>5. \A m, n : MessageBefore(m, n)' = MessageBefore(m, n)
  BY <1>2 DEF MessageBefore
<1>6. OutInv'
  BY <1>2, <1>3 DEF OutInv
<1>7. empty' => \A n \in DOMAIN Messages(file) : ~Asked(f, n)
  BY <1>1, <1>2, <1>3, EmptyAsked
<1>8. ~empty' /\ ~indexed_ => SpoolAnswer'
  <2> SUFFICES ASSUME ~empty', ~indexed_ PROVE SpoolAnswer'
    OBVIOUS
  <2>1. /\ SortedSpool(file, entries_) /\ position' \in Nat \ {0}
        /\ \A i \in DOMAIN entries_ : i >= position' <=> (f.start = NoTime \/ entries_[i].time >= f.start)
    <3>1. position' = LowerBound(OrElse(f.start, 0)) /\ ~IsEmpty(f)
      BY <1>2
    <3> QED BY <1>2, <1>3, <3>1, SpoolStart
  <2>2. Left' = {i \in DOMAIN entries_ : i >= position'}
    BY <1>2 DEF Left
  <2>3. ASSUME NEW n \in DOMAIN Messages(file), Asked(f, n)
        PROVE  \E i \in Left' : entries_[i] = EntryOf(file, n)
    <3>1. PICK i \in DOMAIN entries_ : entries_[i] = EntryOf(file, n)
      BY <2>1 DEF SortedSpool
    <3>2. entries_[i].time = Messages(file)[n].time
      BY <3>1 DEF EntryOf
    <3>3. f.start = NoTime \/ entries_[i].time >= f.start
      BY <2>3, <3>2 DEF Asked, InTime
    <3> QED BY <2>1, <2>2, <3>1, <3>3
  <2>4. \A i \in Left' : f.start = NoTime \/ entries_[i].time >= f.start
    BY <2>1, <2>2
  <2>5. status' # "ended"
    BY <1>2
  <2> QED BY ONLY <1>1, <1>2, <1>4, <2>1, <2>3, <2>4, <2>5 DEF SpoolAnswer
<1>9. ~empty' /\ indexed_ => ViewAnswer'
  <2> SUFFICES ASSUME ~empty', indexed_ PROVE ViewAnswer'
    OBVIOUS
  <2>1. view' = View(f)
    BY <1>2
  <2>2. /\ view' \in Seq(DOMAIN Messages(file))
        /\ \A i \in DOMAIN view' : view'[i] \in Viewed(f)
        /\ \A n \in Viewed(f) : \E i \in DOMAIN view' : view'[i] = n
        /\ \A i, j \in DOMAIN view' : i < j => MessageBefore(view'[i], view'[j])
    BY <1>1, <1>2, <1>3, <2>1, ViewFacts
  <2>3. \A i \in DOMAIN view' : /\ InTime(f, Messages(file)[view'[i]].time)
                                /\ OnTopic(f, Messages(file)[view'[i]].channel)
    BY <2>2 DEF Viewed
  <2>4. \A n \in DOMAIN Messages(file) : Asked(f, n) => \E i \in DOMAIN view' : view'[i] = n
    BY <2>2 DEF Viewed, Asked
  <2>5. status' # "ended" /\ ~problem'
    BY <1>2, <1>3
  <2> QED BY ONLY <1>1, <1>2, <1>4, <1>5, <2>2, <2>3, <2>4, <2>5 DEF ViewAnswer
<1>10. AnswerInv'
  BY <1>1, <1>2, <1>4, <1>7, <1>8, <1>9 DEF AnswerInv
<1> QED BY <1>1, <1>2, <1>6, <1>10 DEF CursorInv

\* Handing out message n.
LEMMA HandingOut ==
  ASSUME OutInv, file \in Files, file' = file, NEW n \in DOMAIN Messages(file),
         out' = Append(out, Message(n))
  PROVE  OutInv' /\ \A k : HandedOut(k)' <=> HandedOut(k) \/ k = n
<1>1. /\ out \in Seq(OutType) /\ Len(out) \in Nat /\ DOMAIN out = 1..Len(out)
      /\ \A k \in DOMAIN out : out[k].index \in DOMAIN Messages(file) /\ out[k] = Message(out[k].index)
  BY DEF OutInv
<1>2. Message(n) \in OutType /\ Message(n).index = n
  BY MessagesType DEF Message, OutType
<1>3. /\ out' \in Seq(OutType) /\ DOMAIN out' = 1..(Len(out) + 1) /\ out'[Len(out) + 1] = Message(n)
      /\ \A k \in DOMAIN out : out'[k] = out[k]
  BY <1>1, <1>2
<1>4. \A k \in DOMAIN out' : k \in DOMAIN out \/ k = Len(out) + 1
  BY <1>1, <1>3
<1>5. \A k : Message(k)' = Message(k)
  BY DEF Message
<1>6. \A k \in DOMAIN out' : out'[k].index \in DOMAIN Messages(file) /\ out'[k] = Message(out'[k].index)
  BY <1>1, <1>2, <1>3, <1>4
<1>7. OutInv'
  BY <1>3, <1>5, <1>6 DEF OutInv
<1>8. \A k : HandedOut(k)' <=> HandedOut(k) \/ k = n
  <2>1. Len(out) + 1 \in DOMAIN out' /\ DOMAIN out \subseteq DOMAIN out'
    BY <1>1, <1>3
  <2> QED BY <1>2, <1>3, <1>4, <2>1 DEF HandedOut
<1> QED BY <1>7, <1>8

\* The entry the cursor has come to is that of one message, before those of all entries left.
LEMMA SpoolHead ==
  ASSUME file \in Files, entries_ \in Seq(EntryType), SpoolAnswer, position \in DOMAIN entries_
  PROVE  /\ position \in Left
         /\ \A i \in Left : i # position => ByTime(entries_[position], entries_[i])
         /\ \E n \in DOMAIN Messages(file) :
              /\ entries_[position] = EntryOf(file, n) /\ SpooledAt(entries_[position].offset) = n
              /\ \A m \in DOMAIN Messages(file) : entries_[position] = EntryOf(file, m) => m = n
              /\ \A m \in DOMAIN Messages(file), i \in Left :
                   i # position /\ entries_[i] = EntryOf(file, m) => m # n /\ MessageBefore(n, m)
<1>1. position \in Int /\ DOMAIN entries_ \subseteq Int
  BY DEF SpoolAnswer
<1>2. position \in Left /\ \A i \in Left : i # position => i \in DOMAIN entries_ /\ position < i
  BY <1>1 DEF Left
<1>3. \A i \in Left : i # position => ByTime(entries_[position], entries_[i])
  BY <1>2 DEF SpoolAnswer, SortedSpool
<1>4. PICK n \in DOMAIN Messages(file) : entries_[position] = EntryOf(file, n)
  BY DEF SpoolAnswer, SortedSpool
<1>5. \A m : EntryOf(file, m).time = Messages(file)[m].time /\ EntryOf(file, m).offset = Place(file, m)
  BY DEF EntryOf
<1>6. \A k, m \in DOMAIN Messages(file) :
        /\ Place(file, k) = Place(file, m) <=> k = m
        /\ Place(file, k) < Place(file, m) <=> k < m
        /\ Place(file, m) \in Nat /\ Messages(file)[m].time \in Nat
  BY PlacesApart, MessagesType
<1>7. SpooledAt(entries_[position].offset) = n
  BY <1>4, <1>5, <1>6 DEF SpooledAt
<1>8. \A m \in DOMAIN Messages(file) : entries_[position] = EntryOf(file, m) => m = n
  <2> SUFFICES ASSUME NEW m \in DOMAIN Messages(file), EntryOf(file, n) = EntryOf(file, m) PROVE m = n
    BY <1>4
  <2>1. Place(file, n) = Place(file, m)
    BY <1>5
  <2> QED BY <1>6, <2>1
<1>9. ASSUME NEW m \in DOMAIN Messages(file), NEW i \in Left, i # position, entries_[i] = EntryOf(file, m)
      PROVE  m # n /\ MessageBefore(n, m)
  <2>1. ByTime(EntryOf(file, n), EntryOf(file, m))
    BY <1>3, <1>4, <1>9
  <2>2. \/ Messages(file)[n].time < Messages(file)[m].time
        \/ Messages(file)[n].time = Messages(file)[m].time /\ Place(file, n) < Place(file, m)
    BY <1>5, <2>1 DEF ByTime
  <2>3. MessageBefore(n, m)
    BY <1>6, <2>2 DEF MessageBefore
  <2>4. m # n
    BY <1>6, <2>2
  <2> QED BY <2>3, <2>4
<1> QED BY <1>2, <1>3, <1>4, <1>7, <1>8, <1>9

\* Of entries in time order, those behind one that is too late are too late.
LEMMA StopIsLast ==
  ASSUME file \in Files, entries_ \in Seq(EntryType), SpoolAnswer, filter \in Filters,
         position \in DOMAIN entries_, AfterStop(entries_[position])
  PROVE  \A i \in Left : AfterStop(entries_[i])
<1> SUFFICES ASSUME NEW i \in Left, i # position PROVE AfterStop(entries_[i])
  OBVIOUS
<1>1. ByTime(entries_[position], entries_[i]) /\ i \in DOMAIN entries_
  BY SpoolHead DEF Left
<1>2. entries_[position].time \in Nat /\ entries_[i].time \in Nat
  <2>1. \A e \in EntryType : e.time \in Nat
    BY DEF EntryType
  <2> QED BY <1>1, <2>1
<1>3. filter.stop = NoTime \/ filter.stop \in Nat
  BY TimeFacts
<1> QED BY <1>1, <1>2, <1>3, SMTT(20) DEF AfterStop, ByTime

\* What open() left is what a cursor that may be called reads.
LEMMA CalledFacts ==
  ASSUME ReaderInv, Callable
  PROVE  /\ file \in Files /\ entries_ \in Seq(EntryType) /\ filter \in Filters /\ OutInv /\ AnswerInv
         /\ status # "new" /\ pc = "idle" /\ open_ /\ Legal(filter.match)
         /\ \A n \in DOMAIN Messages(file) :
              HasTopic(Messages(file)[n].channel)
                <=> /\ OnTopic(filter, Messages(file)[n].channel)
                    /\ OfConnection(filter, Messages(file)[n].channel)
<1>1. /\ file \in Files /\ entries_ \in Seq(EntryType) /\ filter \in Filters /\ OutInv /\ AnswerInv
      /\ status # "new" /\ pc = "idle" /\ open_ /\ Legal(filter.match)
  BY DEF ReaderInv, OpenInv, IInv, BudgetInv, DecisionInv, CursorInv, Callable
<1>2. ASSUME NEW n \in DOMAIN Messages(file)
      PROVE  TopicMatches(filter, Messages(file)[n].channel) <=> OnTopic(filter, Messages(file)[n].channel)
  <2>1. Messages(file)[n].channel \in DOMAIN Topic
    BY <1>1, TopicsAssumption
  <2> QED BY <1>1, <2>1, TopicFacts
<1> QED BY <1>1, <1>2 DEF HasTopic, OfConnection

\* A round of the loop over the spool, said of the message of its entry.
LEMMA RoundFacts ==
  ASSUME ReaderInv, SpoolRound
  PROVE  /\ SpoolAnswer /\ position \in DOMAIN entries_ /\ position \in Left /\ Left' = Left \ {position}
         /\ position' = position + 1 /\ ~empty /\ ~indexed_ /\ Callable
         /\ UNCHANGED <<file, open_, indexed_, entries_, pc, filter, empty, view, problem>>
         /\ \E n \in DOMAIN Messages(file) :
              /\ entries_[position] = EntryOf(file, n)
              /\ \A m \in DOMAIN Messages(file) : entries_[position] = EntryOf(file, m) => m = n
              /\ \A m \in DOMAIN Messages(file), i \in Left :
                   i # position /\ entries_[i] = EntryOf(file, m) => m # n /\ MessageBefore(n, m)
              /\ \/ /\ ~Asked(filter, n) /\ out' = out /\ status' = "ended"
                    /\ \A i \in Left : AfterStop(entries_[i])
                 \/ ~Asked(filter, n) /\ out' = out /\ status' = status
                 \/ /\ Asked(filter, n) /\ out' = Append(out, Message(n))
                    /\ status = "open" /\ status' = "open"
                 \/ status = "open" /\ out' = out /\ status' = "failed"
<1>1. /\ Callable /\ ~empty /\ ~indexed_ /\ position \in DOMAIN entries_ /\ position' = position + 1
      /\ UNCHANGED <<file, open_, indexed_, entries_, pc, filter, empty, view, problem>>
  BY DEF SpoolRound, vars, tables
<1>2. /\ file \in Files /\ entries_ \in Seq(EntryType) /\ filter \in Filters /\ SpoolAnswer
      /\ \A n \in DOMAIN Messages(file) :
              HasTopic(Messages(file)[n].channel)
                <=> /\ OnTopic(filter, Messages(file)[n].channel)
                    /\ OfConnection(filter, Messages(file)[n].channel)
  BY <1>1, CalledFacts DEF AnswerInv
<1>3. position \in Left /\ position \in Nat
  BY <1>1, <1>2, SpoolHead DEF SpoolAnswer
<1>4. Left' = Left \ {position}
  <2>1. DOMAIN entries_ \subseteq Int
    BY <1>2
  <2>2. \A i \in DOMAIN entries_ : i >= position + 1 <=> i >= position /\ i # position
    BY <1>3, <2>1
  <2> QED BY <1>1, <2>2 DEF Left
<1>5. PICK n \in DOMAIN Messages(file) :
        /\ entries_[position] = EntryOf(file, n) /\ SpooledAt(entries_[position].offset) = n
        /\ \A m \in DOMAIN Messages(file) : entries_[position] = EntryOf(file, m) => m = n
        /\ \A m \in DOMAIN Messages(file), i \in Left :
             i # position /\ entries_[i] = EntryOf(file, m) => m # n /\ MessageBefore(n, m)
  BY <1>1, <1>2, SpoolHead
<1> DEFINE entry == entries_[position]
<1>6. entry.time = Messages(file)[n].time /\ entry.channel = Messages(file)[n].channel
  BY <1>5 DEF EntryOf
<1>7. Asked(filter, n) <=> ~AfterStop(entry) /\ HasTopic(entry.channel)
  <2>1. filter.start = NoTime \/ entry.time >= filter.start
    BY <1>2, <1>3 DEF SpoolAnswer
  <2>2. InTime(filter, entry.time) <=> ~AfterStop(entry)
    <3>1. entry.time \in Nat
      BY <1>2, <1>6, MessagesType
    <3>2. filter.stop = NoTime \/ filter.stop \in Nat
      BY <1>2, TimeFacts
    <3> HIDE DEF entry
    <3> QED BY ONLY <2>1, <3>1, <3>2 DEF InTime, AfterStop
  <2> HIDE DEF entry
  <2> QED BY ONLY <1>2, <1>6, <2>2 DEF Asked
<1>8. status = "ended" => AfterStop(entry)
  BY <1>2, <1>3 DEF SpoolAnswer
<1>9. status \in {"open", "ended"}
  BY <1>1 DEF Callable
<1>10. \/ AfterStop(entry) /\ status' = "ended" /\ out' = out
       \/ ~AfterStop(entry) /\ ~HasTopic(entry.channel) /\ status' = status /\ out' = out
       \/ /\ ~AfterStop(entry) /\ HasTopic(entry.channel) /\ out' = Append(out, Message(n))
          /\ status' = status
       \/ ~AfterStop(entry) /\ HasTopic(entry.channel) /\ status' = "failed" /\ out' = out
  BY <1>5 DEF SpoolRound, Finish, SkipEntry
<1>11. AfterStop(entry) => \A i \in Left : AfterStop(entries_[i])
  BY <1>1, <1>2, StopIsLast
<1>12. \/ /\ ~Asked(filter, n) /\ out' = out /\ status' = "ended"
          /\ \A i \in Left : AfterStop(entries_[i])
       \/ ~Asked(filter, n) /\ out' = out /\ status' = status
       \/ /\ Asked(filter, n) /\ out' = Append(out, Message(n))
          /\ status = "open" /\ status' = "open"
       \/ status = "open" /\ out' = out /\ status' = "failed"
  <2> HIDE DEF entry
  <2> QED BY ONLY <1>7, <1>8, <1>9, <1>10, <1>11
<1> QED BY ONLY <1>1, <1>2, <1>3, <1>4, <1>5, <1>12

LEMMA SpoolRoundKeeps == ReaderInv /\ SpoolRound => CursorInv'
<1> SUFFICES ASSUME ReaderInv, SpoolRound PROVE CursorInv'
  OBVIOUS
<1>1. /\ SpoolAnswer /\ position \in DOMAIN entries_ /\ position \in Left /\ Left' = Left \ {position}
      /\ position' = position + 1 /\ ~empty /\ ~indexed_ /\ Callable
      /\ UNCHANGED <<file, open_, indexed_, entries_, pc, filter, empty, view, problem>>
  BY RoundFacts
<1>2. PICK n \in DOMAIN Messages(file) :
        /\ entries_[position] = EntryOf(file, n)
        /\ \A m \in DOMAIN Messages(file) : entries_[position] = EntryOf(file, m) => m = n
        /\ \A m \in DOMAIN Messages(file), i \in Left :
             i # position /\ entries_[i] = EntryOf(file, m) => m # n /\ MessageBefore(n, m)
        /\ \/ /\ ~Asked(filter, n) /\ out' = out /\ status' = "ended"
              /\ \A i \in Left : AfterStop(entries_[i])
           \/ ~Asked(filter, n) /\ out' = out /\ status' = status
           \/ /\ Asked(filter, n) /\ out' = Append(out, Message(n))
              /\ status = "open" /\ status' = "open"
           \/ status = "open" /\ out' = out /\ status' = "failed"
  BY RoundFacts
<1>3. /\ file \in Files /\ filter \in Filters /\ OutInv /\ Legal(filter.match)
      /\ pc = "idle" /\ open_ /\ status \in {"open", "ended"}
  BY <1>1, CalledFacts DEF Callable
<1>4. /\ \A f, k : Asked(f, k)' = Asked(f, k)
      /\ \A k : Message(k)' = Message(k)
      /\ \A entry : AfterStop(entry)' = AfterStop(entry)
  BY <1>1, SameFile
<1>5. OutInv' /\ \A k : HandedOut(k)' <=> HandedOut(k) \/ (k = n /\ out' # out)
  <2>1. CASE out' = out
    BY <1>1, <1>3, <1>4, <2>1 DEF OutInv, HandedOut
  <2>2. CASE out' = Append(out, Message(n))
    <3>1. out' # out
      <4>1. Len(out') = Len(out) + 1 /\ Len(out) \in Nat
        BY <1>3, <2>2 DEF OutInv
      <4> QED BY <4>1
    <3> QED BY <1>1, <1>3, <2>2, <3>1, HandingOut
  <2> QED BY <1>2, <2>1, <2>2
<1>6. status' # "failed" => SpoolAnswer'
  <2> SUFFICES ASSUME status' # "failed" PROVE SpoolAnswer'
    OBVIOUS
  <2>1. SortedSpool(file, entries_) /\ position' \in Nat \ {0}
    BY <1>1 DEF SpoolAnswer
  <2>2. \A i \in Left' : filter.start = NoTime \/ entries_[i].time >= filter.start
    BY <1>1 DEF SpoolAnswer
  <2>3. ASSUME NEW i \in Left', NEW m \in DOMAIN Messages(file), entries_[i] = EntryOf(file, m)
        PROVE  ~HandedOut(m)'
    <3>1. ~HandedOut(m) /\ m # n
      BY <1>1, <1>2, <2>3 DEF SpoolAnswer
    <3> QED BY <1>5, <3>1
  <2>4. ASSUME NEW m \in DOMAIN Messages(file), Asked(filter, m)
        PROVE  HandedOut(m)' \/ \E i \in Left' : entries_[i] = EntryOf(file, m)
    <3>1. CASE m = n
      <4>1. out' = Append(out, Message(n))
        BY <1>2, <2>4, <3>1, status' # "failed"
      <4>2. out' # out
        <5>1. Len(out') = Len(out) + 1 /\ Len(out) \in Nat
          BY <1>3, <4>1 DEF OutInv
        <5> QED BY <5>1
      <4> QED BY <1>5, <3>1, <4>2
    <3>2. CASE m # n
      <4>1. HandedOut(m) \/ \E i \in Left : entries_[i] = EntryOf(file, m)
        BY <1>1, <2>4 DEF SpoolAnswer
      <4>2. ASSUME NEW i \in Left, entries_[i] = EntryOf(file, m) PROVE i \in Left'
        BY <1>1, <1>2, <3>2, <4>2
      <4> QED BY <1>5, <4>1, <4>2
    <3> QED BY <3>1, <3>2
  <2>5. status' = "ended" => \A i \in Left' : AfterStop(entries_[i])
    <3>1. CASE status = "ended"
      BY <1>1, <3>1 DEF SpoolAnswer
    <3>2. CASE status = "open" /\ status' = "ended"
      <4>1. \A i \in Left : AfterStop(entries_[i])
        BY <1>2, <3>2
      <4> QED BY <1>1, <4>1
    <3> QED BY <1>3, <3>1, <3>2
  <2> QED BY ONLY <1>1, <1>4, <2>1, <2>2, <2>3, <2>4, <2>5 DEF SpoolAnswer
<1>7. status' \in {"open", "ended", "failed"}
  BY <1>2, <1>3
<1> QED BY <1>1, <1>3, <1>5, <1>6, <1>7 DEF CursorInv, AnswerInv, Callable

\* A round of the loop over the view, said of its first message.
LEMMA ViewFirst ==
  ASSUME ReaderInv, ViewRound
  PROVE  /\ ViewAnswer /\ ~problem /\ ~empty /\ indexed_ /\ status = "open"
         /\ UNCHANGED <<file, open_, indexed_, entries_, pc, filter, empty, position, problem>>
         /\ Len(view) \in Nat \ {0} /\ DOMAIN view = 1..Len(view) /\ view[1] \in DOMAIN Messages(file)
         /\ \/ /\ ~Asked(filter, view[1]) /\ view' = Tail(view) /\ out' = out /\ status' = "open"
            \/ /\ Asked(filter, view[1]) /\ view' = Tail(view) /\ out' = Append(out, Message(view[1]))
               /\ status' = "open"
            \/ out' = out /\ view' = view /\ status' = "failed"
<1>1. /\ Callable /\ ~empty /\ indexed_ /\ view # <<>>
      /\ UNCHANGED <<file, open_, indexed_, entries_, pc, filter, empty, position, problem>>
  BY DEF ViewRound, vars, tables
<1>2. /\ ViewAnswer
      /\ \A n \in DOMAIN Messages(file) :
              HasTopic(Messages(file)[n].channel)
                <=> /\ OnTopic(filter, Messages(file)[n].channel)
                    /\ OfConnection(filter, Messages(file)[n].channel)
  BY <1>1, CalledFacts DEF AnswerInv
<1>3. status = "open" /\ ~problem
  BY <1>1, <1>2 DEF ViewAnswer, Callable
<1>4. /\ Len(view) \in Nat \ {0} /\ DOMAIN view = 1..Len(view) /\ view[1] \in DOMAIN Messages(file)
      /\ Head(view) = view[1] /\ 1 \in DOMAIN view
  BY <1>1, <1>2 DEF ViewAnswer
<1> DEFINE n == view[1]
<1>5. Asked(filter, n) <=> HasTopic(Messages(file)[n].channel)
  BY <1>2, <1>4 DEF ViewAnswer, Asked
<1>6. \/ /\ ~HasTopic(Messages(file)[n].channel) /\ view' = Tail(view) /\ out' = out /\ status' = status
      \/ /\ HasTopic(Messages(file)[n].channel) /\ view' = Tail(view) /\ out' = Append(out, Message(n))
         /\ status' = status
      \/ out' = out /\ view' = view /\ status' = "failed"
  BY <1>4 DEF ViewRound, Finish, Passes
<1> QED BY <1>1, <1>2, <1>3, <1>4, <1>5, <1>6

LEMMA ViewRoundKeeps == ReaderInv /\ ViewRound => CursorInv'
<1> SUFFICES ASSUME ReaderInv, ViewRound PROVE CursorInv'
  OBVIOUS
<1>0. PICK n, rest : n = view[1] /\ rest = Tail(view)
  OBVIOUS
<1>1. /\ ViewAnswer /\ ~problem /\ ~empty /\ indexed_ /\ status = "open"
      /\ UNCHANGED <<file, open_, indexed_, entries_, pc, filter, empty, position, problem>>
      /\ Len(view) \in Nat \ {0} /\ DOMAIN view = 1..Len(view) /\ n \in DOMAIN Messages(file)
      /\ \/ /\ ~Asked(filter, n) /\ view' = rest /\ out' = out /\ status' = "open"
         \/ /\ Asked(filter, n) /\ view' = rest /\ out' = Append(out, Message(n))
            /\ status' = "open"
         \/ out' = out /\ view' = view /\ status' = "failed"
  BY <1>0, ViewFirst
<1>2. /\ file \in Files /\ filter \in Filters /\ OutInv /\ Legal(filter.match) /\ pc = "idle" /\ open_
  BY <1>1, CalledFacts DEF Callable
<1>3. /\ \A f, k : Asked(f, k)' = Asked(f, k)
      /\ \A k : Message(k)' = Message(k)
      /\ \A k, m : MessageBefore(k, m)' = MessageBefore(k, m)
  BY <1>1, SameFile
<1>4. CASE status' = "failed"
  <2>1. OutInv'
    BY <1>1, <1>2, <1>3, <1>4 DEF OutInv
  <2> QED BY <1>1, <1>2, <1>4, <2>1 DEF CursorInv, Callable
<1>5. CASE view' = rest /\ status' = "open"
  <2>1. /\ OutInv' /\ \A k : HandedOut(k)' => HandedOut(k) \/ k = n
        /\ \A k : HandedOut(k) => HandedOut(k)'
        /\ Asked(filter, n) => HandedOut(n)'
    <3>1. CASE out' = out
      <4>1. ~Asked(filter, n) \/ out' = Append(out, Message(n))
        BY <1>1, <1>5
      <4>2. Append(out, Message(n)) # out
        <5>1. Len(Append(out, Message(n))) = Len(out) + 1 /\ Len(out) \in Nat
          BY <1>2 DEF OutInv
        <5> QED BY <5>1
      <4> QED BY <1>1, <1>2, <1>3, <3>1, <4>1, <4>2 DEF OutInv, HandedOut
    <3>2. CASE out' = Append(out, Message(n))
      BY <1>1, <1>2, <3>2, HandingOut
    <3> QED BY <1>1, <3>1, <3>2
  <2>2. /\ rest \in Seq(DOMAIN Messages(file)) /\ DOMAIN rest = 1..(Len(view) - 1)
        /\ \A i \in 1..(Len(view) - 1) : i + 1 \in DOMAIN view /\ rest[i] = view[i + 1]
    BY <1>0, <1>1 DEF ViewAnswer
  <2>3. ASSUME NEW i \in DOMAIN rest
        PROVE  /\ ~HandedOut(rest[i])'
               /\ InTime(filter, Messages(file)[rest[i]].time)
               /\ OnTopic(filter, Messages(file)[rest[i]].channel)
    <3>1. rest[i] = view[i + 1] /\ i + 1 \in DOMAIN view /\ 1 \in DOMAIN view /\ 1 < i + 1
      BY <1>1, <2>2, SMTT(20)
    <3>2. /\ MessageBefore(n, view[i + 1]) /\ ~HandedOut(view[i + 1])
          /\ InTime(filter, Messages(file)[view[i + 1]].time)
          /\ OnTopic(filter, Messages(file)[view[i + 1]].channel)
      BY <1>0, <1>1, <3>1 DEF ViewAnswer
    <3>3. ~MessageBefore(n, n)
      BY <1>1, <1>2, MessagesType DEF MessageBefore
    <3> QED BY ONLY <2>1, <3>1, <3>2, <3>3
  <2>4. ASSUME NEW i \in DOMAIN rest, NEW j \in DOMAIN rest, i < j
        PROVE  MessageBefore(rest[i], rest[j])
    <3>1. /\ rest[i] = view[i + 1] /\ rest[j] = view[j + 1]
          /\ i + 1 \in DOMAIN view /\ j + 1 \in DOMAIN view /\ i + 1 < j + 1
      BY <1>1, <2>2, <2>4, SMTT(20)
    <3> QED BY <1>1, <3>1 DEF ViewAnswer
  <2>5. ASSUME NEW m \in DOMAIN Messages(file), Asked(filter, m)
        PROVE  HandedOut(m)' \/ \E i \in DOMAIN rest : rest[i] = m
    <3>1. HandedOut(m) \/ \E i \in DOMAIN view : view[i] = m
      BY <1>1, <2>5 DEF ViewAnswer
    <3>2. ASSUME NEW i \in DOMAIN view, view[i] = m, i # 1
          PROVE  i - 1 \in DOMAIN rest /\ rest[i - 1] = m
      <4>1. i - 1 \in 1..(Len(view) - 1) /\ (i - 1) + 1 = i
        BY <1>1, <3>2, SMTT(20)
      <4> QED BY <2>2, <3>2, <4>1
    <3> QED BY ONLY <1>0, <2>1, <2>5, <3>1, <3>2
  <2>6. ViewAnswer'
    BY ONLY <1>1, <1>3, <1>5, <2>2, <2>3, <2>4, <2>5 DEF ViewAnswer
  <2> QED BY <1>1, <1>2, <1>5, <2>1, <2>6 DEF CursorInv, AnswerInv, Callable
<1> QED BY <1>1, <1>4, <1>5

\* The other steps: the SDK breaks off, next() returns false, or the cursor is not made.
LEMMA OtherKeeps ==
  ReaderInv /\ (StartFails \/ NextOfEmpty \/ SpoolEnd \/ ViewEnd \/ ViewBreaks) => CursorInv'
<1> SUFFICES ASSUME ReaderInv, StartFails \/ NextOfEmpty \/ SpoolEnd \/ ViewEnd \/ ViewBreaks PROVE CursorInv'
  OBVIOUS
<1>1. CASE StartFails
  <2>1. pc' = "idle" /\ open_' /\ status' = "failed" /\ filter' \in Filters /\ out' = <<>>
    BY <1>1 DEF StartFails, ReaderInv, CursorInv, vars
  <2> QED BY <2>1 DEF CursorInv, OutInv, Callable
<1>2. CASE NextOfEmpty \/ SpoolEnd \/ ViewEnd \/ ViewBreaks
  <2>1. /\ Callable /\ UNCHANGED <<file, open_, indexed_, entries_, pc, filter, empty, position, out>>
        /\ status' \in {"open", "ended", "failed"}
    BY <1>2 DEF NextOfEmpty, SpoolEnd, ViewEnd, ViewBreaks, Callable, Finish, AtEnd, vars, tables
  <2>2. /\ filter \in Filters /\ OutInv /\ AnswerInv /\ Legal(filter.match) /\ pc = "idle" /\ open_
    BY <2>1, CalledFacts
  <2>3. /\ \A f, k : Asked(f, k)' = Asked(f, k)
        /\ \A k : Message(k)' = Message(k)
        /\ \A k, m : MessageBefore(k, m)' = MessageBefore(k, m)
        /\ \A entry : AfterStop(entry)' = AfterStop(entry)
    BY <2>1, SameFile
  <2>4. OutInv' /\ \A k : HandedOut(k)' = HandedOut(k)
    BY <2>1, <2>2, <2>3 DEF OutInv, HandedOut
  <2>5. Left' = Left
    BY <2>1 DEF Left
  <2>6. AnswerInv' \/ status' = "failed"
    <3>1. CASE NextOfEmpty
      <4>1. empty /\ UNCHANGED <<view, problem>>
        BY <3>1 DEF NextOfEmpty
      <4> QED BY <2>1, <2>2, <2>3, <4>1 DEF AnswerInv
    <3>2. CASE SpoolEnd
      <4>1. ~empty /\ ~indexed_ /\ position \notin DOMAIN entries_ /\ SpoolAnswer
        BY <2>2, <3>2 DEF SpoolEnd, AnswerInv
      <4>2. Left = {}
        <5>1. \A i \in DOMAIN entries_ : ~(i >= position)
          <6>1. DOMAIN entries_ = 1..Len(entries_) /\ Len(entries_) \in Nat /\ position \in Nat \ {0}
            BY <2>1, <4>1, CalledFacts DEF SpoolAnswer
          <6> QED BY <4>1, <6>1
        <5> QED BY <5>1 DEF Left
      <4>3. SpoolAnswer'
        BY <2>1, <2>3, <2>4, <2>5, <4>1, <4>2 DEF SpoolAnswer
      <4> QED BY <2>1, <4>1, <4>3 DEF AnswerInv
    <3>3. CASE ViewEnd
      <4>1. /\ ~empty /\ indexed_ /\ view = <<>> /\ ViewAnswer /\ UNCHANGED <<view, problem>>
            /\ status' = IF problem THEN "failed" ELSE "ended"
        BY <2>2, <3>3 DEF ViewEnd, AnswerInv, Finish, AtEnd
      <4>2. ~problem => ViewAnswer'
        BY <2>1, <2>3, <2>4, <4>1 DEF ViewAnswer
      <4> QED BY <2>1, <4>1, <4>2 DEF AnswerInv
    <3>4. CASE ViewBreaks
      <4>1. ~empty /\ indexed_ /\ view' = <<>> /\ problem' /\ status' = "open"
        BY <3>4 DEF ViewBreaks
      <4>2. ViewAnswer'
        BY <4>1 DEF ViewAnswer
      <4> QED BY <2>1, <4>1, <4>2 DEF AnswerInv
    <3> QED BY <1>2, <3>1, <3>2, <3>3, <3>4
  <2> QED BY <2>1, <2>2, <2>4, <2>6 DEF CursorInv, Callable
<1> QED BY <1>1, <1>2

LEMMA CursorStutterKeeps == ReaderInv /\ UNCHANGED <<vars, cursor>> => CursorInv'
<1> SUFFICES ASSUME ReaderInv, UNCHANGED <<vars, cursor>> PROVE CursorInv'
  OBVIOUS
<1>1. /\ UNCHANGED <<file, open_, indexed_, entries_, pc>>
      /\ UNCHANGED <<filter, status, empty, position, view, problem, out>>
  BY DEF vars, tables, cursor
<1>2. /\ \A f, k : Asked(f, k)' = Asked(f, k)
      /\ \A k : Message(k)' = Message(k)
      /\ \A k, m : MessageBefore(k, m)' = MessageBefore(k, m)
      /\ \A entry : AfterStop(entry)' = AfterStop(entry)
  BY <1>1, SameFile
<1>3. OutInv' = OutInv /\ \A k : HandedOut(k)' = HandedOut(k)
  BY <1>1, <1>2 DEF OutInv, HandedOut
<1>4. Left' = Left
  BY <1>1 DEF Left
<1>5. SpoolAnswer => SpoolAnswer'
  BY <1>1, <1>2, <1>3, <1>4 DEF SpoolAnswer
<1>6. ViewAnswer => ViewAnswer'
  BY <1>1, <1>2, <1>3 DEF ViewAnswer
<1>7. AnswerInv => AnswerInv'
  BY <1>1, <1>2, <1>5, <1>6 DEF AnswerInv
<1> QED BY <1>1, <1>3, <1>7 DEF ReaderInv, CursorInv, Callable

LEMMA ReaderNextKeeps == ReaderInv /\ [ReaderNext]_<<vars, cursor>> => CursorInv'
<1> SUFFICES ASSUME ReaderInv, [ReaderNext]_<<vars, cursor>> PROVE CursorInv'
  OBVIOUS
<1>1. CASE status = "new" /\ Next /\ UNCHANGED cursor
  <2>1. status' = "new" /\ out' = out /\ view' = view /\ problem' = problem /\ position' = position
    BY <1>1 DEF cursor
  <2> QED BY <1>1, <2>1 DEF ReaderInv, CursorInv, Callable
<1>2. CASE CursorStep \/ ViewBreaks
  BY <1>2, StartKeeps, SpoolRoundKeeps, ViewRoundKeeps, OtherKeeps DEF CursorStep
<1>3. CASE Destroyed \/ UNCHANGED <<vars, cursor>>
  BY <1>3, CursorStutterKeeps DEF Destroyed
<1> QED BY <1>1, <1>2, <1>3 DEF ReaderNext

\* What is left to hand out is right at every moment.
THEOREM Reading == ReaderSpec => []ReaderInv
<1>1. ReaderInit => CursorInv
  BY DEF ReaderInit, CursorInv, Callable
<1>2. ReaderInv /\ [ReaderNext]_<<vars, cursor>> => CursorInv'
  BY ReaderNextKeeps
<1> QED BY <1>1, <1>2, Opening, CursorOnlyReads, PTL DEF ReaderSpec, ReaderInv

-----------------------------------------------------------------------------
\* The messages the filter accepts are those asked for.
LEMMA WantedFacts ==
  ASSUME NEW m
  PROVE  m \in Wanted <=> \E n \in DOMAIN Messages(file) : Asked(filter, n) /\ m = Message(n)
BY DEF Wanted, Asked, InTime, OnTopic, OfConnection

LEMMA HandedFacts ==
  ASSUME OutInv, NEW n \in DOMAIN Messages(file)
  PROVE  Message(n) \in Stream!Handed <=> HandedOut(n)
<1>1. Message(n).index = n
  BY DEF Message
<1> QED BY <1>1 DEF OutInv, Stream!Handed, HandedOut

\* A message asked for that is before all the others that are not handed out is the next
\* of the stream.
LEMMA Delivers ==
  ASSUME OutInv, status = "open", status' = "open", UNCHANGED <<file, filter>>,
         NEW n \in DOMAIN Messages(file), Asked(filter, n), ~HandedOut(n),
         \A m \in DOMAIN Messages(file) :
           Asked(filter, m) => HandedOut(m) \/ m = n \/ MessageBefore(n, m),
         out' = Append(out, Message(n))
  PROVE  Stream!Deliver
<1>1. Wanted' = Wanted
  BY SameFile
<1>2. Message(n) \in Wanted \ Stream!Handed
  BY WantedFacts, HandedFacts
<1>3. ASSUME NEW m \in Wanted \ Stream!Handed, m # Message(n) PROVE Stream!Precedes(Message(n), m)
  <2>1. PICK k \in DOMAIN Messages(file) : Asked(filter, k) /\ m = Message(k)
    BY WantedFacts
  <2>2. ~HandedOut(k) /\ k # n
    BY <1>3, <2>1, HandedFacts
  <2>3. MessageBefore(n, k)
    BY <2>1, <2>2
  <2> QED BY <2>1, <2>3 DEF MessageBefore, Message, Stream!Precedes
<1> QED BY <1>1, <1>2, <1>3 DEF Stream!Deliver

\* The stream ends when all that is asked for was handed out, and does not end twice.
LEMMA Ends ==
  ASSUME OutInv, Callable, status' = "ended", UNCHANGED <<file, filter, out>>,
         \A n \in DOMAIN Messages(file) : Asked(filter, n) => HandedOut(n)
  PROVE  Stream!End \/ UNCHANGED Stream!vars
<1>1. Wanted' = Wanted
  BY SameFile
<1>2. Wanted \subseteq Stream!Handed
  BY WantedFacts, HandedFacts
<1> QED BY <1>1, <1>2 DEF Stream!End, Stream!vars, Callable

LEMMA Fails ==
  ASSUME status = "open", status' = "failed", UNCHANGED <<file, filter, out>>
  PROVE  Stream!Fail
<1>1. Wanted' = Wanted
  BY SameFile
<1> QED BY <1>1 DEF Stream!Fail

LEMMA Stutters ==
  ASSUME status' = status, status # "new" => UNCHANGED <<file, filter>>, out' = out
  PROVE  UNCHANGED Stream!vars
<1>1. status # "new" => Wanted' = Wanted
  BY SameFile
<1> QED BY <1>1 DEF Stream!vars

-----------------------------------------------------------------------------
LEMMA SpoolRoundStreams == ReaderInv /\ SpoolRound => [Stream!Next]_(Stream!vars)
<1> SUFFICES ASSUME ReaderInv, SpoolRound PROVE Stream!Next \/ UNCHANGED Stream!vars
  OBVIOUS
<1>1. /\ SpoolAnswer /\ position \in DOMAIN entries_ /\ position \in Left /\ Callable
      /\ UNCHANGED <<file, filter>>
  BY RoundFacts
<1>2. PICK n \in DOMAIN Messages(file) :
        /\ entries_[position] = EntryOf(file, n)
        /\ \A m \in DOMAIN Messages(file) : entries_[position] = EntryOf(file, m) => m = n
        /\ \A m \in DOMAIN Messages(file), i \in Left :
             i # position /\ entries_[i] = EntryOf(file, m) => m # n /\ MessageBefore(n, m)
        /\ \/ /\ ~Asked(filter, n) /\ out' = out /\ status' = "ended"
              /\ \A i \in Left : AfterStop(entries_[i])
           \/ ~Asked(filter, n) /\ out' = out /\ status' = status
           \/ /\ Asked(filter, n) /\ out' = Append(out, Message(n))
              /\ status = "open" /\ status' = "open"
           \/ status = "open" /\ out' = out /\ status' = "failed"
  BY RoundFacts
<1>3. file \in Files /\ filter \in Filters /\ OutInv
  BY <1>1, CalledFacts
<1>4. CASE out' = out /\ status' = "ended" /\ \A i \in Left : AfterStop(entries_[i])
  <2>1. ASSUME NEW m \in DOMAIN Messages(file), Asked(filter, m) PROVE HandedOut(m)
    <3>1. ASSUME NEW i \in Left, entries_[i] = EntryOf(file, m) PROVE FALSE
      <4>1. entries_[i].time = Messages(file)[m].time /\ Messages(file)[m].time \in Nat
        BY <1>3, <3>1, MessagesType DEF EntryOf
      <4>2. filter.stop = NoTime \/ filter.stop \in Nat
        BY <1>3, TimeFacts
      <4> QED BY <1>4, <2>1, <4>1, <4>2 DEF AfterStop, Asked, InTime
    <3> QED BY <1>1, <2>1, <3>1 DEF SpoolAnswer
  <2> QED BY <1>1, <1>3, <1>4, <2>1, Ends DEF Stream!Next
<1>5. CASE out' = out /\ status' = status
  BY <1>1, <1>5, Stutters
<1>6. CASE /\ Asked(filter, n) /\ out' = Append(out, Message(n))
           /\ status = "open" /\ status' = "open"
  <2>1. ~HandedOut(n)
    BY <1>1, <1>2 DEF SpoolAnswer
  <2>2. ASSUME NEW m \in DOMAIN Messages(file), Asked(filter, m)
        PROVE  HandedOut(m) \/ m = n \/ MessageBefore(n, m)
    BY <1>1, <1>2, <2>2 DEF SpoolAnswer
  <2> QED BY <1>1, <1>3, <1>6, <2>1, <2>2, Delivers DEF Stream!Next
<1>7. CASE status = "open" /\ out' = out /\ status' = "failed"
  BY <1>1, <1>7, Fails DEF Stream!Next
<1> QED BY <1>2, <1>4, <1>5, <1>6, <1>7

LEMMA ViewRoundStreams == ReaderInv /\ ViewRound => [Stream!Next]_(Stream!vars)
<1> SUFFICES ASSUME ReaderInv, ViewRound PROVE Stream!Next \/ UNCHANGED Stream!vars
  OBVIOUS
<1>1. PICK n : n = view[1]
  OBVIOUS
<1>2. /\ ViewAnswer /\ ~problem /\ status = "open" /\ UNCHANGED <<file, filter>>
      /\ Len(view) \in Nat \ {0} /\ DOMAIN view = 1..Len(view) /\ n \in DOMAIN Messages(file)
      /\ \/ out' = out /\ status' = "open"
         \/ Asked(filter, n) /\ out' = Append(out, Message(n)) /\ status' = "open"
         \/ out' = out /\ status' = "failed"
  BY <1>1, ViewFirst
<1>3. OutInv
  BY <1>2, CalledFacts DEF Callable
<1>4. CASE out' = out /\ status' = "open"
  BY <1>2, <1>4, Stutters
<1>5. CASE Asked(filter, n) /\ out' = Append(out, Message(n)) /\ status' = "open"
  <2>1. 1 \in DOMAIN view /\ \A i \in DOMAIN view : i = 1 \/ 1 < i
    BY <1>2
  <2>2. ~HandedOut(n)
    BY <1>1, <1>2, <2>1 DEF ViewAnswer
  <2>3. ASSUME NEW m \in DOMAIN Messages(file), Asked(filter, m)
        PROVE  HandedOut(m) \/ m = n \/ MessageBefore(n, m)
    BY <1>1, <1>2, <2>1, <2>3 DEF ViewAnswer
  <2> QED BY <1>2, <1>3, <1>5, <2>2, <2>3, Delivers DEF Stream!Next
<1>6. CASE out' = out /\ status' = "failed"
  BY <1>2, <1>6, Fails DEF Stream!Next
<1> QED BY <1>2, <1>4, <1>5, <1>6

LEMMA EndStreams ==
  ReaderInv /\ (NextOfEmpty \/ SpoolEnd \/ ViewEnd \/ ViewBreaks) => [Stream!Next]_(Stream!vars)
<1> SUFFICES ASSUME ReaderInv, NextOfEmpty \/ SpoolEnd \/ ViewEnd \/ ViewBreaks
             PROVE  Stream!Next \/ UNCHANGED Stream!vars
  OBVIOUS
<1>1. Callable /\ UNCHANGED <<file, filter, out>>
  BY DEF NextOfEmpty, SpoolEnd, ViewEnd, ViewBreaks, Callable, vars
<1>2. OutInv /\ AnswerInv
  BY <1>1, CalledFacts
<1>3. CASE NextOfEmpty
  <2>1. empty /\ status' = "ended"
    BY <1>3 DEF NextOfEmpty, Finish
  <2> QED BY <1>1, <1>2, <2>1, Ends DEF AnswerInv, Stream!Next
<1>4. CASE SpoolEnd
  <2>1. SpoolAnswer /\ position \notin DOMAIN entries_ /\ status' = "ended"
    BY <1>2, <1>4 DEF SpoolEnd, AnswerInv, Finish
  <2>2. Left = {}
    <3>1. DOMAIN entries_ = 1..Len(entries_) /\ Len(entries_) \in Nat /\ position \in Nat \ {0}
      BY <1>1, <2>1, CalledFacts DEF SpoolAnswer
    <3>2. \A i \in DOMAIN entries_ : ~(i >= position)
      BY <2>1, <3>1
    <3> QED BY <3>2 DEF Left
  <2>3. \A n \in DOMAIN Messages(file) : Asked(filter, n) => HandedOut(n)
    BY <2>1, <2>2 DEF SpoolAnswer
  <2> QED BY <1>1, <1>2, <2>1, <2>3, Ends DEF Stream!Next
<1>5. CASE ViewEnd
  <2>1. ViewAnswer /\ view = <<>> /\ status' = IF problem THEN "failed" ELSE "ended"
    BY <1>2, <1>5 DEF ViewEnd, AnswerInv, Finish, AtEnd
  <2>2. CASE problem
    <3>1. status = "open"
      BY <1>1, <2>1, <2>2 DEF ViewAnswer, Callable
    <3> QED BY <1>1, <2>1, <2>2, <3>1, Fails DEF Stream!Next
  <2>3. CASE ~problem
    <3>1. \A n \in DOMAIN Messages(file) : Asked(filter, n) => HandedOut(n)
      BY <2>1, <2>3 DEF ViewAnswer
    <3> QED BY <1>1, <1>2, <2>1, <2>3, <3>1, Ends DEF Stream!Next
  <2> QED BY <2>2, <2>3
<1>6. CASE ViewBreaks
  <2>1. status' = status
    BY <1>6 DEF ViewBreaks
  <2> QED BY <1>1, <2>1, Stutters
<1> QED BY <1>3, <1>4, <1>5, <1>6

\* Whatever open() decided, index or spool, the cursor is a MessageStream of the messages
\* in the records of the file, for any file, filter and budget (mcap.cpp:94-113, 187-217,
\* 237-307).
THEOREM Refinement == ReaderSpec => MergesStably
<1>1. ReaderInit => Stream!Init
  BY DEF ReaderInit, Stream!Init
<1>2. ReaderInv /\ [ReaderNext]_<<vars, cursor>> => [Stream!Next]_(Stream!vars)
  <2> SUFFICES ASSUME ReaderInv, [ReaderNext]_<<vars, cursor>> PROVE [Stream!Next]_(Stream!vars)
    OBVIOUS
  <2>1. CASE status = "new" /\ Next /\ UNCHANGED cursor
    BY <2>1, Stutters DEF cursor
  <2>2. CASE StartCursor \/ StartFails
    <3>1. status = "new" /\ status' \in {"open", "failed"} /\ out' = out
      BY <2>2 DEF StartCursor, StartFails
    <3> QED BY <3>1 DEF Stream!Next, Stream!Create
  <2>3. CASE SpoolRound \/ ViewRound
    BY <2>3, SpoolRoundStreams, ViewRoundStreams
  <2>4. CASE NextOfEmpty \/ SpoolEnd \/ ViewEnd \/ ViewBreaks
    BY <2>4, EndStreams
  <2>5. CASE Destroyed \/ UNCHANGED <<vars, cursor>>
    <3>1. UNCHANGED <<file, filter, status, out>>
      BY <2>5 DEF Destroyed, vars, cursor
    <3> QED BY <3>1, Stutters
  <2> QED BY <2>1, <2>2, <2>3, <2>4, <2>5 DEF ReaderNext, CursorStep
<1> QED BY <1>1, <1>2, Reading, PTL DEF ReaderSpec, MergesStably, Stream!Spec
=============================================================================
