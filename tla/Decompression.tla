---------------------------- MODULE Decompression ----------------------------
(***************************************************************************)
(* The three loops that drive a streaming decoder through a buffer of      *)
(* fixed size: stream_zstd of src/sqlite3.cpp (files and, by zstd_bytes,   *)
(* payloads) and decompress_lz4 and decompress_bz2 of src/rosbag1.cpp.     *)
(*                                                                         *)
(* The decoders are external.  One call takes some of the input it is      *)
(* given and fills some of the output.  What the loops rely on: a call     *)
(* does something if it has input, or output left from input it has taken; *)
(* it says when the frame is over.  zstd may take all of the input and     *)
(* keep output back; LZ4 and BZip2 take the end mark of a frame last.      *)
(***************************************************************************)
EXTENDS Naturals, Sequences, FiniteSets, FiniteSetsExt, SequencesExt

CONSTANTS
  Inputs,     \* possible inputs [parts, length, declared]
  BufferIn,   \* source.size()
  BufferOut,  \* destination.size()
  Limit       \* the budget for the output

\* parts: what the input would be if it were whole; a part is a frame of "in" bytes
\* that decodes to "out" bytes, a frame above the window limit, or garbage.
\* length: how many of these bytes there are, some of each part.  declared: the uncompressed size the
\* chunk header announces (LZ4 and BZip2 only).
InOfFirst(n, parts) == SumFunctionOnSet([k \in DOMAIN parts |-> parts[k].in], 1..n)
OutOfFirst(n, parts) == SumFunctionOnSet([k \in DOMAIN parts |-> parts[k].out], 1..n)
Whole(parts) == InOfFirst(Len(parts), parts)
Decoded(parts) == OutOfFirst(Len(parts), parts)

Parts == [kind : {"frame", "window", "garbage"}, in : Nat \ {0}, out : Nat]
ASSUME InputsAssumption ==
  \A i \in Inputs :
    /\ i.parts \in Seq(Parts) /\ i.declared \in Nat
    /\ \A k \in DOMAIN i.parts : i.parts[k].out > 0 => i.parts[k].in > 1
    /\ i.length \in 0..Whole(i.parts)
    /\ i.parts # <<>> => i.length > InOfFirst(Len(i.parts) - 1, i.parts)
ASSUME BuffersAssumption == {BufferIn, BufferOut} \subseteq Nat \ {0} /\ Limit \in Nat

Codecs == {"zstd", "lz4", "bz2"}

VARIABLES
  codec, input,     \* fixed by Init
  read,             \* bytes read from the input: length - read is "remaining"
  taken,            \* bytes the decoder has taken: read - taken are in the buffer
  eof, complete,    \* of stream_zstd
  part, in, out,    \* the decoder: the part it is in, what it took and gave of it
  size,             \* output bytes: output_size, output.size()
  capacity,         \* of the output of zstd_bytes
  status            \* "running", "ok", or the exception: "format", "limit", "io"

decoder == <<part, in, out>>
given == <<codec, input>>
vars == <<given, read, taken, eof, complete, decoder, size, capacity, status>>

Available == read - taken
Remaining == input.length - read

Init ==
  /\ codec \in Codecs /\ input \in Inputs
  /\ read = 0 /\ taken = 0
  /\ eof = FALSE /\ complete = FALSE
  /\ part = 1 /\ in = 0 /\ out = 0
  /\ size = 0 /\ capacity = 0
  /\ status = "running"

End(result) ==
  /\ status' = result
  /\ UNCHANGED <<given, read, taken, eof, complete, decoder, size, capacity>>

-----------------------------------------------------------------------------
\* What one call of the decoder may do (external): it takes dIn and gives dOut bytes.
Part == input.parts[part]

FrameOver(dIn, dOut) == in + dIn = Part.in /\ out + dOut = Part.out

Call(dIn, dOut) ==
  /\ part \in DOMAIN input.parts
  /\ Part.kind = "frame"
  /\ dIn \in 0..Min({Available, Part.in - in})
  /\ dOut \in 0..Min({BufferOut, Part.out - out})
  /\ dOut > 0 => in + dIn > 0
  /\ codec # "zstd" /\ in + dIn = Part.in => out + dOut = Part.out
  /\ dIn = 0 /\ dOut = 0 => Available = 0 /\ in < Part.in

\* The decoder sees that what follows is no frame, or one above the window limit.  It
\* may need several bytes to tell, and waits for them.
Rejects(kind) ==
  /\ part \in DOMAIN input.parts
  /\ Part.kind = kind
  /\ Available > 0

Advance(dIn, dOut) ==
  /\ taken' = taken + dIn
  /\ IF FrameOver(dIn, dOut)
     THEN part' = part + 1 /\ in' = 0 /\ out' = 0
     ELSE part' = part /\ in' = in + dIn /\ out' = out + dOut

-----------------------------------------------------------------------------
\* The budget both loops hold the output against before they keep it.
Fits_Each(dOut) == dOut <= Limit
Fits_Strict(dOut) == dOut < Limit - size
Fits(dOut) == dOut <= Limit - size

\* The room zstd_bytes reserves for the output.
Growth_Double(required) == Max({required, capacity * 2})
Growth(required) ==
  Max({required, IF capacity > Limit \div 2 THEN Limit ELSE capacity * 2})

Reserve(required) == IF required > capacity THEN Growth(required) ELSE capacity

\* The buffer is refilled when it is used up; zstd finds the end by reading nothing,
\* LZ4 knows how much there is, and BZip2 is called without input if need be.
NeedsInput ==
  /\ Available = 0
  /\ CASE codec = "zstd" -> ~eof
       [] codec = "lz4"  -> TRUE
       [] codec = "bz2"  -> Remaining > 0

\* The input buffer is filled again; the lz4 loop takes no end of input before the end of
\* its frame.
Fill ==
  /\ status = "running" /\ NeedsInput
  /\ IF codec = "lz4" /\ Remaining = 0
     THEN End("format")
     ELSE /\ read' = read + Min({BufferIn, Remaining})
          /\ eof' = (codec = "zstd" /\ Remaining = 0)
          /\ UNCHANGED <<given, taken, complete, decoder, size, capacity, status>>

ReadFails ==
  /\ status = "running" /\ NeedsInput
  /\ End("io")

\* stream_zstd returns: nothing left, and the last frame was over.
ZstdOver_AnyEof == codec = "zstd" /\ eof /\ Available = 0
ZstdOver_FirstFrame == codec = "zstd" /\ complete
ZstdOver == codec = "zstd" /\ eof /\ Available = 0 /\ complete

ZstdReturn ==
  /\ status = "running" /\ ~NeedsInput
  /\ ZstdOver
  /\ End("ok")

Calling == status = "running" /\ ~NeedsInput /\ ~ZstdOver

ZstdEmpty ==
  /\ Calling
  /\ codec = "zstd" /\ read = 0
  /\ End("format")

\* The call did nothing; output alone is progress.
Stuck_Input(dIn, dOut) == dIn = 0
Stuck_Never(dIn, dOut) == FALSE
Stuck(dIn, dOut) == dIn = 0 /\ dOut = 0

ZstdCall ==
  /\ Calling /\ codec = "zstd" /\ read > 0
  /\ \E dIn \in 0..BufferIn, dOut \in 0..BufferOut :
       /\ Call(dIn, dOut)
       /\ IF ~Fits(dOut) THEN End("limit")
          ELSE IF Stuck(dIn, dOut) THEN End("format")
          ELSE /\ Advance(dIn, dOut)
               /\ complete' = FrameOver(dIn, dOut)
               /\ size' = size + dOut
               /\ capacity' = Reserve(size + dOut)
               /\ UNCHANGED <<given, read, eof, status>>

\* What follows the frame that is over.
Trailing_Buffer(dIn) == Available # dIn
Trailing(dIn) == Available # dIn \/ Remaining # 0

\* How the LZ4 and the BZip2 loop go on after a call.
ChunkResult_AnySize(dIn, dOut) ==
  IF FrameOver(dIn, dOut) THEN (IF Trailing(dIn) THEN "format" ELSE "ok") ELSE "running"

ChunkResult(dIn, dOut) ==
  IF ~FrameOver(dIn, dOut) THEN "running"
  ELSE IF Trailing(dIn) \/ size + dOut # input.declared THEN "format" ELSE "ok"

ChunkCall ==
  /\ Calling /\ codec # "zstd"
  /\ \E dIn \in 0..BufferIn, dOut \in 0..BufferOut :
       /\ Call(dIn, dOut)
       /\ IF Stuck(dIn, dOut) THEN End("format")
          ELSE IF ~Fits(dOut) THEN End("limit")
          ELSE /\ Advance(dIn, dOut)
               /\ size' = size + dOut
               /\ status' = ChunkResult(dIn, dOut)
               /\ UNCHANGED <<given, read, eof, complete, capacity>>

\* The decoder returns an error.
DecoderRejects ==
  /\ Calling
  /\ \/ Rejects("garbage") /\ End("format")
     \/ Rejects("window") /\ End(IF codec = "zstd" THEN "limit" ELSE "format")

\* It takes the garbage there is and asks for more.
DecoderWaits ==
  /\ Calling
  /\ Rejects("garbage") /\ Available < Part.in - in
  /\ taken' = read /\ in' = in + Available
  /\ complete' = FALSE
  /\ UNCHANGED <<given, read, eof, part, out, size, capacity, status>>

\* Called without input and without a frame to finish: nothing happens.
Starved ==
  /\ Calling
  /\ codec = "zstd" => read > 0
  /\ Available = 0
  /\ part \in DOMAIN input.parts => Part.kind # "frame"
  /\ End("format")

\* The destination cannot be written.
WriteFails ==
  /\ Calling /\ codec = "zstd"
  /\ \E dIn \in 0..BufferIn, dOut \in 1..BufferOut : Call(dIn, dOut) /\ Fits(dOut)
  /\ End("io")

Done ==
  /\ status # "running"
  /\ UNCHANGED vars

Step ==
  \/ Fill \/ ZstdReturn \/ ZstdEmpty \/ ZstdCall \/ ChunkCall
  \/ DecoderRejects \/ DecoderWaits \/ Starved

Next == Step \/ ReadFails \/ WriteFails \/ Done

Spec == Init /\ [][Next]_vars

\* The loop runs in one call, which nothing interrupts.
FairSpec == Spec /\ WF_vars(Step)

\* Never is more kept or written than the budget allows, nor more room reserved, and a
\* limit error means that a limit is exceeded: an output of exactly the limit passes
\* (sqlite3.cpp:75, 96-98; rosbag1.cpp:136).
LimitExact ==
  /\ size <= Limit /\ capacity <= Limit
  /\ status = "limit" =>
       \/ Decoded(input.parts) > Limit
       \/ \E k \in DOMAIN input.parts : input.parts[k].kind = "window"

\* The input is whole frames to the last byte: for zstd one or more, for a chunk one,
\* of the declared size.
Sound ==
  /\ input.parts # <<>>
  /\ input.length = Whole(input.parts)
  /\ \A k \in DOMAIN input.parts : input.parts[k].kind = "frame"
  /\ codec # "zstd" => Len(input.parts) = 1 /\ Decoded(input.parts) = input.declared

\* A loop accepts exactly the sound inputs and then has all of their output: it takes
\* no truncated frame, no trailing bytes and no wrong size, and refuses no sound input
\* for running out of input while output is held back, or for the way the frames fall
\* into the buffers (sqlite3.cpp:60-83, rosbag1.cpp:154-177, 193-218).
AcceptsExactly ==
  /\ status = "ok" => Sound /\ size = Decoded(input.parts)
  /\ status = "format" => ~Sound

\* The loop ends, whatever the decoder holds back.
Terminates == <>(status # "running")
=============================================================================
