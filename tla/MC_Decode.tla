------------------------------ MODULE MC_Decode ------------------------------
(* Small message types for WireReader: numbers of several widths, bounded  *)
(* strings, blobs, a type that holds itself, types of no wire size, a type *)
(* that holds a built-in one.  Applications for Decode: one for every type *)
(* and format, and some that register a type twice or not at all.          *)
EXTENDS Decode

string(b) == [base |-> "string", bound |-> b]
octet == [Number(1) EXCEPT !.stored = 2]
array(n, of) == [kind |-> "array", of |-> of, length |-> n]
bounded(b, of) == [kind |-> "sequence", of |-> of, bound |-> b]

OwnFields ==
  [ leaf  |-> << One(Number(1)), One(Number(8)) >>,
    text  |-> << One(Number(2)), bounded(2, string(2)) >>,
    rows  |-> << Many(Nested("leaf")), array(2, Number(2)), One(Wide) >>,
    blob  |-> << Many(Octet), One(Text) >>,
    note  |-> << array(2, Number(8)), One(Text) >>,
    tree  |-> << One(Number(1)), Many(Nested("tree")) >>,
    none  |-> << >>,
    grid  |-> << array(4, Nested("none")) >>,
    grids |-> << Many(Nested("grid")), Many(Nested("none")) >>,
    log   |-> << One(Number(2)), Many(Nested("Header")) >> ]
\* and for each built-in type one that holds a sequence of it
ListOf(t) == "list of " \o t
MCFields ==
  Both(OwnFields, [ name \in {ListOf(t) : t \in ProfileTypes} |-> << List(SubSeq(name, 9, Len(name))) >> ])

MCSizeOf == [ t \in ProfileTypes \cup DOMAIN MCFields |->
  CASE t = "tree" -> 33   \* six of them inside of each other are within the limits on bytes
    [] t = "grid" -> 61   \* so many that their size wraps
    [] t \in {"leaf", "rows", "text", "blob", "log"} -> 16
    [] t \in {"note", "grids", "PoseStamped", "PointCloud2"} -> 24
    [] t \in {"none", "Empty"} -> 1
    [] OTHER -> 12 ]

support(profile, name, type) == [profile |-> profile, name |-> name, type |-> type]
message(profile, name, in) ==
  [complete |-> TRUE, profile |-> profile, name |-> name, serialization_format |-> in]
plain == <<"my", "msg", "Type">>
reads(t, in, sizes) ==
  [supports |-> <<support("p", plain, t)>>, message |-> message("p", plain, in), policy |-> "Error",
   sizes |-> sizes]

Small_ == {3, 4, 5, 8, 9, 11, 12, 13, 14, 16, 17, 18, 20, 21, 22, 23, 24, 25, 28, 32, 33, 36, 40, 42, 49, 52, 92, 100}
\* the shortest payload of a built-in type, the shortest list of one of it, and one byte less or more
Shortest(in, t) == HeaderSizeOf(in) + LeastMessage[in][t][0]
ShortestList(in, t) == HeaderSizeOf(in) + LeastMessage[in][t][4]

MCUses ==
  {reads(t, in, Small_) : in \in Formats, t \in DOMAIN OwnFields \cup
     {"Path", "GridCells", "Joy", "MultiEchoLaserScan", "PointCloud2", "Range", "ByteMultiArray", "Empty"}}
  \cup
  {reads(t, in, {Shortest(in, t) + 1, Shortest(in, t), Max({0, Shortest(in, t) - 1})}) :
     in \in Formats, t \in ProfileTypes}
  \cup
  {reads(ListOf(t), in, {ShortestList(in, t), ShortestList(in, t) - 1}) : in \in Formats, t \in ProfileTypes}
  \cup
  {[supports |-> <<support("p", a, "leaf"), support(p, b, t), support("q", plain, "note")>>,
    message |-> message("p", c, ""), policy |-> "WarnAndRaw", sizes |-> {9, 24}] :
     a \in {plain, <<"my", "Type">>, <<"my", "action", "Type">>},
     b \in {plain, <<"my", "Type">>, <<"Type">>},
     p \in {"p", "q"}, t \in {"blob", "legacy"},
     c \in {plain, <<"my", "Type">>, <<"my", "action", "Type">>, <<"my", "action", "msg", "Type">>, <<"Type">>}}
  \cup
  {[supports |-> <<support("p", plain, t)>>,
    message |-> [message("p", name, in) EXCEPT !.complete = complete], policy |-> policy, sizes |-> {4}] :
     t \in {"legacy", "none"}, name \in {plain, <<"msg", "Type">>}, in \in {"", "protobuf"},
     complete \in BOOLEAN, policy \in Policies}
  \cup   \* all built-in types of a profile, and one of the application's own in front of or after them
  {[supports |-> IF own = "first" THEN <<mine, all>> ELSE IF own = "last" THEN <<all, mine>> ELSE <<all>>,
    message |-> message(profile, name, "cdr"), policy |-> "WarnAndSkip", sizes |-> {12}] :
     own \in {"first", "last", "none"},
     all \in {support(profile, <<>>, "all") : profile \in KnownProfiles \cup {"mine"}},
     mine \in {support("ros2_humble", <<"std_msgs", "Time">>, "blob")},
     profile \in {"ros1_noetic", "ros2_humble", "mine"},
     name \in {<<"std_msgs", "msg", "Time">>, <<"std_msgs", "Time">>,
               <<"geometry_msgs", "msg", "VelocityStamped">>, <<"builtin_interfaces", "msg", "Time">>}}
=============================================================================
