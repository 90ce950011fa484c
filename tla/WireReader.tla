----------------------------- MODULE WireReader -----------------------------
(***************************************************************************)
(* Decoding of one payload: the readers of include/rosbags/serialization.  *)
(* hpp as the generated code (emit_reader of src/codegen.cpp) and the      *)
(* built-in one (src/profiles.cpp) drive them, for ROS1 and for CDR.       *)
(*                                                                         *)
(* The payload is as long as it is; the numbers in it are whatever they    *)
(* are.  A number that is a length matters, any other does not.            *)
(***************************************************************************)
EXTENDS Profiles, FiniteSets

CONSTANTS
  Fields,      \* the generated message types: each a sequence of fields
  SizeOf,      \* sizeof of each message type
  StringSize,  \* sizeof(std::string)
  Lengths,     \* lengths and counts a payload may hold
  MaxElements, MaxDecoded, MaxDepth   \* DecodeLimits

Types == ProfileTypes \cup DOMAIN Fields
\* A generated type has the same fields in both formats; it may hold built-in ones.
FieldsOf(in, t) == IF t \in DOMAIN Fields THEN Fields[t] ELSE ProfileFields[in][t]
\* read as one block, into a vector of uint8
IsByte(of) == of = Octet

\* The elements of messages, and their fields
WireElement ==
  [base : {"number"}, width : {1, 2, 4, 8}, stored : 1..(Word - 1)]
    \cup [base : {"number"}, width : {1, 2, 4, 8}, stored : 1..(Word - 1), signed : {TRUE}]
    \cup [base : {"string"}, bound : 0..(Word - 1)] \cup [base : {"message"}, type : Types]
WireField ==
  [kind : {"scalar"}, of : WireElement] \cup [kind : {"array"}, of : WireElement, length : 0..(Word - 1)]
    \cup [kind : {"sequence"}, of : WireElement, bound : 0..(Word - 1)]
ASSUME FieldsAssumption ==
  DOMAIN Fields \cap ProfileTypes = {} /\ \A t \in DOMAIN Fields : Fields[t] \in Seq(WireField)

\* The messages that a type holds by value, and how deep they are inside of each other:
\* no type of C++ holds itself.
HeldIn(fields) == {f.of.type : f \in {g \in ToSet(fields) : g.kind # "sequence" /\ g.of.base = "message"}}
HeldByValue(t) == UNION {HeldIn(FieldsOf(in, t)) : in \in Formats}
Height[t \in Types] == 1 + Max({0} \cup {Height[u] : u \in HeldByValue(t)})
ASSUME HeightAssumption ==
  \A t \in Types : Height[t] \in Nat /\ \A u \in HeldByValue(t) : Height[u] < Height[t]

ASSUME SizesAssumption ==
  /\ Lengths \subseteq 0..(Word - 1)
  /\ SizeOf \in [Types -> 1..(Word - 1)] /\ StringSize \in 1..(Word - 1)
  /\ {MaxElements, MaxDecoded, MaxDepth} \subseteq 0..(Word - 1)

VARIABLES
  size_,                 \* of the payload
  format, root,         \* the format and the type it is read as, once it is read
  position, allocated, depth,
  todo,                 \* the calls that the reading functions have before them
  progress,               \* "new", "reading", "ok", or what was thrown
  end,                  \* history: where an encoding of what was read so far ends
  held                  \* history: bytes of storage asked for, counted without bound

payload == <<format, size_, root>>
history == <<end, held>>
readerVars == <<payload, position, allocated, depth, todo, progress, history>>

Minus(a, b) == (a + Word - b) % Word
Times(a, b) == (a * b) % Word

Origin == 4   \* data_origin_

ReaderInit ==
  /\ size_ \in 0..(Word - 1) /\ format = "none" /\ root = "none"
  /\ position = 0 /\ allocated = 0 /\ depth = 0 /\ todo = <<>>
  /\ progress = "new" /\ end = 0 /\ held = 0

-----------------------------------------------------------------------------
(* The generated code                                                       *)

StorageOf(of) ==
  CASE of.base = "number" -> of.stored
    [] of.base = "string" -> StringSize
    [] of.base = "message" -> SizeOf[of.type]

\* WireMinimum<T> of src/codegen.cpp and profiles/wire_minimum.hpp
MinimumOf_Padded(in, of, messages) ==
  CASE of.base = "number" -> of.width
    [] of.base = "string" -> IF in = "cdr" THEN 8 ELSE 4
    [] of.base = "message" -> messages[of.type]
MinimumOf(in, of, messages) ==
  CASE of.base = "number" -> of.width
    [] of.base = "string" -> IF in = "cdr" THEN 5 ELSE 4
    [] of.base = "message" -> messages[of.type]
FieldMinimum(in, f, messages) ==
  CASE f.kind = "sequence" -> 4
    [] f.kind = "array" -> f.length * MinimumOf(in, f.of, messages)
    [] f.kind = "scalar" -> MinimumOf(in, f.of, messages)
LayoutMinimum(in, fields, messages) ==
  SumFunction([i \in DOMAIN fields |-> FieldMinimum(in, fields[i], messages)])
TypeMinimum ==
  [in \in Formats |->
     LET least[t \in Types] ==
           IF t \in DOMAIN Fields THEN LayoutMinimum(in, Fields[t], least) ELSE ProfileMinimum[in][t]
     IN least]
WireMinimum_Unknown(of) ==
  IF of.base = "message" THEN 0 ELSE MinimumOf(format, of, TypeMinimum[format])
WireMinimum(of) == MinimumOf(format, of, TypeMinimum[format])

\* What a read function calls for one field, and for a message
Calls(f) ==
  CASE f.kind = "scalar" -> [do |-> "element", of |-> f.of]
    [] f.kind = "array" -> [do |-> "repeat", of |-> f.of, n |-> f.length]
    [] f.kind = "sequence" -> [do |-> "sequence", of |-> f.of, bound |-> f.bound]
Body(t) ==
  LET fields == FieldsOf(format, t)
  IN [i \in DOMAIN fields |-> Calls(fields[i])] \o <<[do |-> "leave"]>>

-----------------------------------------------------------------------------
(* ReaderBase, Ros1Reader, CdrReader                                        *)

Reading == progress = "reading" /\ todo # <<>>
Now == Head(todo)
Rest == Tail(todo)

\* fail(), or a throw; the NestingGuards of all open messages are destroyed.
Throw(kind) ==
  /\ progress' = kind /\ depth' = 0
  /\ UNCHANGED <<payload, position, allocated, todo, history>>

\* require()
HasBytes(at, n) == n <= Minus(size_, at)
\* align()
Padding_FromStart(at, alignment) ==
  LET remainder == at % alignment
  IN IF format = "ros1" \/ remainder = 0 THEN 0 ELSE alignment - remainder
Padding(at, alignment) ==
  LET remainder == Minus(at, Origin) % alignment
  IN IF format = "ros1" \/ remainder = 0 THEN 0 ELSE alignment - remainder
\* u8() to u64(): whether a number can be read at a position, and where it ends
NumberFits(at, width) ==
  /\ HasBytes(at, Padding(at, width))
  /\ HasBytes(at + Padding(at, width), width)
AfterNumber(at, width) == at + Padding(at, width) + width

\* account_allocation()
MayAllocate(bytes) == bytes <= Minus(MaxDecoded, allocated)

\* check_sequence()
TooLong_All(n, of, at) ==
  WireMinimum(of) > 0 /\ n >= Minus(size_, at) \div WireMinimum(of)
TooLong(n, of, at) ==
  WireMinimum(of) > 0 /\ n > Minus(size_, at) \div WireMinimum(of)
TooMany(n) == n > MaxElements
TooLarge_Product(n, of) == Times(n, StorageOf(of)) > Minus(MaxDecoded, allocated)
TooLarge(n, of) == n > Minus(MaxDecoded, allocated) \div StorageOf(of)

\* Where the next item of an encoding ends: a number begins at a multiple of its
\* width in CDR, counted from the end of the header; anything else follows at once.
Encoded(in, at, alignment, n) ==
  n + IF in = "ros1" THEN at
      ELSE CHOOSE begin \in at..(at + alignment - 1) : begin % alignment = 0
EncodedNumber(in, at, width) == Encoded(in, at, width, width)
HeaderSizeOf(in) == IF in = "cdr" THEN 4 ELSE 0
HeaderSize == HeaderSizeOf(format)

\* fail() after a length has been read that asks for more than there is
ThrowTooShort(call) ==
  /\ progress' = "truncated" /\ depth' = 0
  /\ position' = AfterNumber(position, 4)
  /\ end' = EncodedNumber(format, end, 4)
  /\ todo' = <<call>> \o Rest
  /\ UNCHANGED <<payload, allocated, held>>

\* deserialize_ros1, deserialize_cdr: construct the reader, charge the message, read it.
Begin(in, t, wellFormed) ==
  LET refused == IF in = "cdr" /\ (size_ < 4 \/ ~wellFormed) THEN "header"
                 ELSE IF ~MayAllocate(SizeOf[t]) THEN "limit" ELSE "no" IN
  /\ progress = "new"
  /\ format' = in /\ root' = t
  /\ IF refused # "no"
       THEN progress' = refused /\ UNCHANGED <<position, allocated, held, todo>>
       ELSE /\ position' = HeaderSizeOf(in)
            /\ allocated' = allocated + SizeOf[t] /\ held' = SizeOf[t]
            /\ todo' = <<[do |-> "element", of |-> Nested(t)], [do |-> "finish"]>>
            /\ progress' = "reading"
  /\ UNCHANGED <<size_, depth, end>>

ReadNumber ==
  /\ Reading /\ Now.do = "element" /\ Now.of.base = "number"
  /\ IF ~NumberFits(position, Now.of.width)
       THEN Throw("truncated")
       ELSE /\ position' = AfterNumber(position, Now.of.width)
            /\ end' = EncodedNumber(format, end, Now.of.width)
            /\ todo' = Rest
            /\ UNCHANGED <<payload, allocated, depth, progress, held>>

\* string(): "n" is the length in front of it, "nul" whether its last byte is 0.
\* Only the length in CDR counts a NUL, and in memory there is one in any case.
StringBytes(n) == IF format = "cdr" THEN n ELSE n + 1
OverBound(n, bound) ==
  IF format = "cdr" THEN n > 0 /\ n - 1 > bound ELSE n > bound
ReadString(n, nul) ==
  /\ Reading /\ Now.do = "element" /\ Now.of.base = "string"
  /\ IF ~NumberFits(position, 4)
       THEN Throw("truncated")
     ELSE IF OverBound(n, Now.of.bound)
       THEN Throw("bound")
     ELSE IF ~HasBytes(AfterNumber(position, 4), n)
       THEN ThrowTooShort([do |-> "bytes", of |-> Now.of, n |-> n])
     ELSE IF format = "cdr" /\ (n = 0 \/ ~nul)
       THEN Throw("nul")
     ELSE IF ~MayAllocate(StringBytes(n))
       THEN Throw("limit")
     ELSE /\ position' = AfterNumber(position, 4) + n
          /\ allocated' = allocated + StringBytes(n)
          /\ held' = held + StringBytes(n)
          /\ end' = EncodedNumber(format, end, 4) + n
          /\ todo' = Rest
          /\ UNCHANGED <<payload, depth, progress>>

\* read_ros1, read_cdr of a message: the NestingGuard, then field after field.
MayNest_OneMore == depth <= MaxDepth
MayNest_OneLess == depth + 1 < MaxDepth
MayNest == depth < MaxDepth
EnterMessage ==
  /\ Reading /\ Now.do = "element" /\ Now.of.base = "message"
  /\ IF ~MayNest
       THEN Throw("depth")
       ELSE /\ depth' = depth + 1
            /\ todo' = Body(Now.of.type) \o Rest
            /\ UNCHANGED <<payload, position, allocated, progress, history>>
DepthAfterLeave_Kept == depth
DepthAfterLeave == depth - 1
LeaveMessage ==
  /\ Reading /\ Now.do = "leave"
  /\ depth' = DepthAfterLeave
  /\ todo' = Rest
  /\ UNCHANGED <<payload, position, allocated, progress, history>>

\* The count of a sequence of "n" elements, its bound, and check_sequence().
ReadSequence(n) ==
  /\ Reading /\ Now.do = "sequence"
  /\ LET at == AfterNumber(position, 4) IN
     IF ~NumberFits(position, 4)
       THEN Throw("truncated")
     ELSE IF Now.bound > 0 /\ n > Now.bound
       THEN Throw("bound")
     ELSE IF TooLong(n, Now.of, at)
       THEN ThrowTooShort([do |-> "repeat", of |-> Now.of, n |-> n])
     ELSE IF TooMany(n)
       THEN Throw("elements")
     ELSE IF TooLarge(n, Now.of)
       THEN Throw("limit")
     ELSE /\ position' = at
          /\ allocated' = allocated + Times(n, StorageOf(Now.of))
          /\ held' = held + n * StorageOf(Now.of)
          /\ end' = EncodedNumber(format, end, 4)
          /\ todo' = <<[do |-> IF IsByte(Now.of) THEN "bytes" ELSE "repeat",
                        of |-> Now.of, n |-> n]>> \o Rest
          /\ UNCHANGED <<payload, depth, progress>>

\* read_byte_values()
ReadBytes ==
  /\ Reading /\ Now.do = "bytes"
  /\ IF ~HasBytes(position, Now.n)
       THEN Throw("truncated")
       ELSE /\ position' = position + Now.n
            /\ end' = end + Now.n
            /\ todo' = Rest
            /\ UNCHANGED <<payload, allocated, depth, progress, held>>

\* One turn of the loop over the elements of a sequence or an array, or its end.
Less(n) == n - 1
ReadElement ==
  /\ Reading /\ Now.do = "repeat"
  /\ todo' = IF Now.n = 0 THEN Rest
             ELSE <<[do |-> "element", of |-> Now.of], [Now EXCEPT !.n = Less(@)]>> \o Rest
  /\ UNCHANGED <<payload, position, allocated, depth, progress, history>>

\* finish()
AtEnd_Any == TRUE
AtEnd == position = size_
Finish ==
  /\ Reading /\ Now.do = "finish"
  /\ IF AtEnd
       THEN /\ progress' = "ok" /\ todo' = Rest
            /\ UNCHANGED <<payload, position, allocated, depth, history>>
       ELSE Throw("trailing")

Read ==
  \/ ReadNumber
  \/ \E n \in Lengths, nul \in BOOLEAN : ReadString(n, nul)
  \/ EnterMessage \/ LeaveMessage
  \/ \E n \in Lengths : ReadSequence(n)
  \/ ReadBytes \/ ReadElement
  \/ Finish

-----------------------------------------------------------------------------
(* Properties                                                               *)

\* The least that an element, and then all that is still to be read, could add to an
\* encoding: no sequence has elements, no string has characters.
LeastOf(in, of, at, messages) ==
  CASE of.base = "number" -> EncodedNumber(in, at, of.width)
    [] of.base = "string" -> EncodedNumber(in, at, 4) + IF in = "cdr" THEN 1 ELSE 0
    [] of.base = "message" -> messages[of.type][at]
LeastTimes(in, n, of, at, messages) ==
  LET After[i \in 0..n] == IF i = 0 THEN at ELSE LeastOf(in, of, After[i - 1], messages)
  IN After[n]
LeastField(in, f, at, messages) ==
  CASE f.kind = "scalar" -> LeastOf(in, f.of, at, messages)
    [] f.kind = "array" -> LeastTimes(in, f.length, f.of, at, messages)
    [] f.kind = "sequence" -> EncodedNumber(in, at, 4)
LeastLayout(in, fields, at, messages) ==
  LET After[i \in 0..Len(fields)] ==
        IF i = 0 THEN at ELSE LeastField(in, fields[i], After[i - 1], messages)
  IN After[Len(fields)]
LeastMessage ==
  [in \in Formats |->
     LET least[t \in Types] == [at \in Nat |-> LeastLayout(in, FieldsOf(in, t), at, least)] IN least]
LeastCall(in, size, call, at) ==
  CASE call.do = "element" -> LeastOf(in, call.of, at, LeastMessage[in])
    [] call.do = "repeat" ->   \* more elements than bytes: too long, or of no size
         LeastTimes(in, Min({call.n, size + 1}), call.of, at, LeastMessage[in])
    [] call.do = "sequence" -> EncodedNumber(in, at, 4)
    [] call.do = "bytes" -> at + call.n
    [] OTHER -> at
LeastAfter(in, size, calls, at) ==
  LET After[i \in 0..Len(calls)] == IF i = 0 THEN at ELSE LeastCall(in, size, calls[i], After[i - 1])
  IN After[Len(calls)]
LeastEnd == LeastAfter(format, size_, todo, end)

\* While it reads, the reader is where the encoding of what it has read so far ends:
\* align() counts from the end of the CDR header, not from the start of the payload.
\* A payload is accepted only if it is an encoding from its first byte to its last,
\* and turned down as too short only if nothing that begins like it could fit into
\* it; a count is held against the payload before the elements are read.  It is turned
\* down as too deep for messages inside of each other, not for how many there are, and
\* exactly when there are more than max_nesting_depth.
ReadsExactly ==
  /\ progress \in {"reading", "ok"} => position = HeaderSize + end
  /\ progress = "ok" => size_ = HeaderSize + end
  /\ progress = "trailing" => size_ > HeaderSize + end
  /\ progress = "truncated" => size_ < HeaderSize + LeastEnd
  /\ progress = "reading" => depth = Cardinality({i \in DOMAIN todo : todo[i].do = "leave"})
  /\ progress = "reading" => depth <= MaxDepth
  /\ progress = "depth" => Cardinality({i \in DOMAIN todo : todo[i].do = "leave"}) >= MaxDepth

\* The storage that decoding asks for is within max_decoded_bytes, counted without
\* the width of size_t: the product of a count and an element size never wraps.
StorageHeld == held <= MaxDecoded

\* The bytes that a message of no elements and no characters has, padding left out
PackedMessage ==
  [in \in Formats |->
     LET packed[t \in Types] == LayoutMinimum(in, FieldsOf(in, t), packed) IN packed]

\* Elements are made room for only when the payload can still hold them all: whatever
\* the least size of a type is taken from, it leaves out nothing that its reader reads.
CountsCovered ==
  [][Reading /\ Now.do = "sequence" /\ progress' = "reading" =>
       Head(todo').n * MinimumOf(format, Now.of, PackedMessage[format]) <= size_ - position']_readerVars
=============================================================================
