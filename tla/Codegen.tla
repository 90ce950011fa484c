------------------------------- MODULE Codegen -------------------------------
(***************************************************************************)
(* The definition compiler, src/codegen.cpp: collect() reads the message   *)
(* definitions, throws away repeated ones, checks the fields and orders    *)
(* the types so that each comes after those it holds by value; generate()  *)
(* writes a header and a registry from that order.                         *)
(*                                                                         *)
(* A canonical type name is a number, its order the order of the names.    *)
(* How a file is parsed is left out: it holds a definition or is refused.  *)
(***************************************************************************)
EXTENDS Naturals, Sequences, FiniteSets, SequencesExt

CONSTANTS
  Definitions,       \* the definitions that files may hold: [type, fields]
  MaxFiles,          \* bound: files read
  Builtin,           \* types that register_builtin_types() registers
  BuiltinPackages,   \* types whose package is_builtin_package()
  Primitive,         \* the type of fields that hold no message
  Sanitized          \* C++ name of each field name

\* A field is [name, of, kind], kind "scalar", "array" or "sequence".
Field == [name : DOMAIN Sanitized, of : Nat, kind : {"scalar", "array", "sequence"}]
ASSUME DefinitionsAssumption ==
  /\ MaxFiles \in Nat
  /\ Builtin \subseteq BuiltinPackages /\ Primitive \notin BuiltinPackages
  /\ \A d \in Definitions : d \in [type : Nat, fields : Seq(Field)]

VARIABLES
  result,    \* definitions in the order they were read, then sorted
  unique,    \* result without repetitions
  state,     \* of each of unique: 0 not visited, 1 being visited, 2 done
  stack,     \* the calls of visit() that are running: [index, next]
  outer,     \* the loop around visit()
  ordered,
  phase,     \* what comes next, or "done", or what was thrown
  header, registry   \* the files: "old", "part" or "new"

files == <<header, registry>>
search == <<state, stack, outer, ordered>>
compilerVars == <<result, unique, search, phase, files>>

CompilerInit ==
  /\ result = <<>> /\ unique = <<>> /\ phase = "read"
  /\ state = <<>> /\ stack = <<>> /\ outer = 1 /\ ordered = <<>>
  /\ header = "old" /\ registry = "old"

Refuse(kind) ==
  /\ phase' = kind
  /\ UNCHANGED <<result, unique, search, files>>

-----------------------------------------------------------------------------
(* collect()                                                                *)

\* The files of a directory come in no particular order.
ReadFile(d) ==
  /\ phase = "read" /\ Len(result) < MaxFiles
  /\ result' = Append(result, d)
  /\ UNCHANGED <<unique, search, phase, files>>
FileRefused == phase = "read" /\ Refuse("file")

\* std::sort, which is not stable
Sorted(s) == \A i, j \in DOMAIN s : i < j => s[i].type <= s[j].type
Sort ==
  /\ phase = "read"
  /\ \E p \in {q \in [DOMAIN result -> DOMAIN result] : IsInjective(q)} :
       /\ result' = [i \in DOMAIN result |-> result[p[i]]]
       /\ Sorted(result')
  /\ phase' = "unique"
  /\ UNCHANGED <<unique, search, files>>

\* same_definition()
Same_Name(a, b) == a.type = b.type
Same(a, b) == a.type = b.type /\ a.fields = b.fields
\* Whether the definition repeats the last one kept
Repeats_Never(kept, d) == FALSE
Repeats(kept, d) == kept # <<>> /\ Last(kept).type = d.type
Keep(kept, d) == IF Repeats(kept, d) THEN kept ELSE Append(kept, d)
\* What is kept of the first i definitions
KeptOf(s) ==
  LET kept[i \in 0..Len(s)] == IF i = 0 THEN <<>> ELSE Keep(kept[i - 1], s[i]) IN kept
Conflict ==
  \E i \in DOMAIN result :
    LET kept == KeptOf(result)[i - 1]
    IN Repeats(kept, result[i]) /\ ~Same(Last(kept), result[i])
Unify ==
  /\ phase = "unique"
  /\ IF Conflict
       THEN Refuse("conflict")
       ELSE /\ unique' = KeptOf(result)[Len(result)]
            /\ phase' = "check"
            /\ UNCHANGED <<result, search, files>>

\* positions: the index of a type among the definitions
Positions(t) == {i \in DOMAIN unique : unique[i].type = t}
Resolved(t) == t = Primitive \/ Positions(t) # {} \/ t \in Builtin
\* Field k of a definition has the C++ name of a field before it.
RepeatsName(d, k) ==
  \E j \in 1..(k - 1) : Sanitized[d.fields[j].name] = Sanitized[d.fields[k].name]
Faulty(d, k) == RepeatsName(d, k) \/ ~Resolved(d.fields[k].of)
\* Definition by definition, field by field, the name before the type: the first fault
\* is the one that is thrown.
FirstFault(i, k) ==
  /\ Faulty(unique[i], k)
  /\ \A l \in 1..(k - 1) : ~Faulty(unique[i], l)
  /\ \A j \in 1..(i - 1) : \A l \in DOMAIN unique[j].fields : ~Faulty(unique[j], l)
FieldRefused ==
  /\ phase = "check"
  /\ \E i \in DOMAIN unique : \E k \in DOMAIN unique[i].fields :
       /\ FirstFault(i, k)
       /\ Refuse(IF RepeatsName(unique[i], k) THEN "names" ELSE "unresolved")
CheckFields ==
  /\ phase = "check"
  /\ \A i \in DOMAIN unique : \A k \in DOMAIN unique[i].fields : ~Faulty(unique[i], k)
  /\ state' = [i \in DOMAIN unique |-> 0]
  /\ phase' = "order"
  /\ UNCHANGED <<result, unique, stack, outer, ordered, files>>

\* The definitions that a field makes visit() go to: at most one
ByValue_All(f) == f.of # Primitive
ByValue_Scalar(f) == f.kind = "scalar" /\ f.of # Primitive
ByValue(f) == f.kind # "sequence" /\ f.of # Primitive
Dependencies(f) == IF ByValue(f) THEN Positions(f.of) ELSE {}

IsDone_Seen(i) == state[i] # 0
IsDone(i) == state[i] = 2
Cyclic(i) == state[i] = 1
Top == Last(stack)
\* The caller goes on behind the field.
Advanced(call) == [call EXCEPT !.next = @ + 1]
Callers == IF stack = <<>> THEN <<>> ELSE Append(Front(stack), Advanced(Top))

\* visit(i), called with the calls "callers" running
Visit(i, callers) ==
  IF IsDone(i)
    THEN stack' = callers /\ UNCHANGED <<state, ordered, phase>>
  ELSE IF Cyclic(i)
    THEN phase' = "cycle" /\ stack' = callers /\ UNCHANGED <<state, ordered>>
  ELSE /\ stack' = Append(callers, [index |-> i, next |-> 1])
       /\ state' = [state EXCEPT ![i] = 1]
       /\ UNCHANGED <<ordered, phase>>

VisitNext ==
  /\ phase = "order" /\ stack = <<>> /\ outer <= Len(unique)
  /\ outer' = outer + 1
  /\ Visit(outer, <<>>)
  /\ UNCHANGED <<result, unique, files>>

FieldsOfCall(call) == unique[call.index].fields
VisitField ==
  /\ phase = "order" /\ stack # <<>> /\ Top.next <= Len(FieldsOfCall(Top))
  /\ LET next == Dependencies(FieldsOfCall(Top)[Top.next]) IN
     IF next = {}
       THEN stack' = Callers /\ UNCHANGED <<state, ordered, phase>>
       ELSE \E i \in next : Visit(i, Callers)
  /\ UNCHANGED <<result, unique, outer, files>>

Return ==
  /\ phase = "order" /\ stack # <<>> /\ Top.next > Len(FieldsOfCall(Top))
  /\ state' = [state EXCEPT ![Top.index] = 2]
  /\ ordered' = Append(ordered, unique[Top.index])
  /\ stack' = Front(stack)
  /\ UNCHANGED <<result, unique, outer, phase, files>>

Collected ==
  /\ phase = "order" /\ stack = <<>> /\ outer > Len(unique)
  /\ IF ordered = <<>>
       THEN Refuse("none")
       ELSE phase' = "header" /\ UNCHANGED <<result, unique, search, files>>

-----------------------------------------------------------------------------
(* generate()                                                               *)

\* Opening a file for output empties it.  Writing and closing it may fail.
Written_Unchecked(outcome, next) == phase' = IF outcome # "old" THEN next ELSE "write"
Written(outcome, next) == phase' = IF outcome = "new" THEN next ELSE "write"
WriteHeader(outcome) ==
  /\ phase = "header"
  /\ header' = outcome /\ Written(outcome, "registry")
  /\ UNCHANGED <<result, unique, search, registry>>
WriteRegistry(outcome) ==
  /\ phase = "registry"
  /\ registry' = outcome /\ Written(outcome, "done")
  /\ UNCHANGED <<result, unique, search, header>>

Refusals == {"file", "conflict", "names", "unresolved", "cycle", "none"}
Ends == Refusals \cup {"done", "write"}
Stopped == phase \in Ends /\ UNCHANGED compilerVars

Run ==
  \/ \E d \in Definitions : ReadFile(d)
  \/ FileRefused
  \/ Sort \/ Unify \/ FieldRefused \/ CheckFields
  \/ VisitNext \/ VisitField \/ Return \/ Collected
  \/ \E outcome \in {"old", "part", "new"} :
       WriteHeader(outcome) \/ WriteRegistry(outcome)

CompilerNext == Run \/ Stopped

CompilerSpec == CompilerInit /\ [][CompilerNext]_compilerVars

-----------------------------------------------------------------------------
(* Properties                                                               *)

Given == ToSet(result)
Holds(f) == f.of # Primitive /\ f.kind \in {"scalar", "array"}
DependsOn(d, t) == \E i \in DOMAIN d.fields : Holds(d.fields[i]) /\ d.fields[i].of = t
\* Types that hold each other by value: a set of them in which each needs another
HoldsItself ==
  \E S \in SUBSET Given : S # {} /\ \A d \in S : \E e \in S : DependsOn(d, e.type)

\* local_type(): the C++ type of a field is a generated one, unless its package is built in.
IsGenerated(t) == t # Primitive /\ t \notin BuiltinPackages

\* In the header is every type that was given, once, however often and in whatever order
\* the files were read, and it comes after the structures it has members or array
\* members of, as C++ wants; a sequence only needs its element declared.
HeaderSound ==
  header = "new" =>
    /\ ToSet(ordered) = Given
    /\ \A i, j \in DOMAIN ordered : i # j => ordered[i].type # ordered[j].type
    /\ \A i \in DOMAIN ordered : \A k \in DOMAIN ordered[i].fields :
         LET f == ordered[i].fields[k] IN
         Holds(f) /\ IsGenerated(f.of) => \E j \in 1..(i - 1) : ordered[j].type = f.of

\* Two fields have one C++ name.
NamesClash(d) ==
  \E i, j \in DOMAIN d.fields :
    i # j /\ Sanitized[d.fields[i].name] = Sanitized[d.fields[j].name]

\* The definitions are turned down for what is wrong with them, and only for that: a type
\* may hold a sequence of itself but not itself, and the same definition may come twice.
RefusesExactly ==
  LET conflict == \E d, e \in Given : d.type = e.type /\ d # e
      unresolved == \E d \in Given : \E k \in DOMAIN d.fields :
        LET t == d.fields[k].of
        IN t # Primitive /\ t \notin Builtin /\ \A e \in Given : e.type # t
  IN /\ phase = "conflict" => conflict
     /\ phase = "names" => \E d \in Given : NamesClash(d)
     /\ phase = "unresolved" => unresolved
     /\ phase = "cycle" => HoldsItself
     /\ header # "old" => ~(conflict \/ unresolved \/ HoldsItself \/ \E d \in Given : NamesClash(d))

\* Definitions that are turned down leave the files of an earlier run alone, and a
\* registry is only written next to a header that is whole.
FilesInStep ==
  /\ phase \in Refusals => header = "old" /\ registry = "old"
  /\ registry # "old" => header = "new"

\* Every type a generated header names exists: it is generated with it or built in.
NamedTypesExist ==
  header = "new" =>
    \A i \in DOMAIN ordered : \A k \in DOMAIN ordered[i].fields :
      LET t == ordered[i].fields[k].of IN
      \/ t = Primitive
      \/ t \in Builtin
      \/ IsGenerated(t) /\ \E j \in DOMAIN ordered : ordered[j].type = t

=============================================================================
