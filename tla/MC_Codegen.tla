----------------------------- MODULE MC_Codegen ------------------------------
(* Three types of the project (1 to 3), a built-in one (5) and one that is *)
(* missing (9).  Type 4 is of a built-in package and not built in.         *)
EXTENDS Codegen

field(n, k, t) == [name |-> n, kind |-> k, of |-> t]
scalar(t) == << field("a", "scalar", t) >>
MCFieldLists ==
  { << >>, scalar(0), scalar(1), scalar(2), scalar(3), scalar(5), scalar(9),
    << field("a", "sequence", 1) >>,
    << field("a", "scalar", 2), field("b", "array", 3) >>,
    << field("a", "sequence", 2), field("b", "array", 1) >>,
    << field("class", "scalar", 0), field("class_", "scalar", 5) >>,
    << field("class", "scalar", 9), field("class_", "scalar", 0) >>,
    << field("class", "scalar", 0), field("class_", "scalar", 9) >> }
MCDefinitions == [type : {1, 2, 3}, fields : MCFieldLists]

\* Definitions of a message of the project and of one in a built-in package
MCPackageDefinitions ==
  [type : {1, 4, 5}, fields : { << >>, scalar(4), scalar(5), << field("a", "sequence", 4) >> }]

MCSanitized == [n \in {"a", "b", "class", "class_"} |-> IF n = "class" THEN "class_" ELSE n]
=============================================================================
