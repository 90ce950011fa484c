------------------------------- MODULE Decode -------------------------------
(***************************************************************************)
(* TypeRegistry and decode() of src/rosbags.cpp: the application registers *)
(* type supports, each for a profile and a type name, and then decodes a   *)
(* message whose connection gives a type name and a serialization format.  *)
(* The support that is found reads the payload as WireReader describes,    *)
(* unless it is a legacy one, whose decoder knows no limits.               *)
(***************************************************************************)
EXTENDS WireReader, Topics

CONSTANTS
  Uses   \* what applications do: [supports: the supports they register, in their order,
         \* message: the message they decode, policy: for a type that is not registered,
         \* sizes: of the payload]

\* A support is [profile, name, type], its type one of Types or "legacy"; the type "all"
\* stands for a call that registers all built-in types of the profile.
\* A message is [complete, profile, name, serialization_format], the profile being the caller's.
\* Names are sequences of the parts between slashes, of which there is always one.
Policies == {"Error", "WarnAndRaw", "WarnAndSkip"}
IsSequence(s) == s \in Seq(ToSet(s))
ASSUME UsesAssumption ==
  \A use \in Uses :
    /\ use.policy \in Policies
    /\ IsSequence(use.supports)
    /\ \A i \in DOMAIN use.supports :
         LET support == use.supports[i] IN
         /\ support.type \in Types \cup {"legacy", "all"}
         /\ support.type # "all" => IsSequence(support.name) /\ support.name # <<>>
    /\ IsSequence(use.message.name) /\ use.message.name # <<>>
    /\ use.sizes \subseteq 0..(Word - 1)

VARIABLES
  use,          \* history: which of Uses this is
  registered,   \* how many supports have been registered
  supports_

registrations == <<use, registered, supports_>>
allVars == <<readerVars, registrations>>

Key_Plain(profile, name) == <<profile, name>>
Key(profile, name) == <<profile, NormalizeType(name)>>

DecodeInit ==
  /\ use \in Uses /\ size_ \in use.sizes /\ ReaderInit
  /\ registered = 0 /\ supports_ = <<>>

\* register_type(): a support for the same key replaces the one before.
Registering == use.supports[registered + 1]
Registered_KeepFirst(more) == Both(supports_, more)
Registered(more) == Both(more, supports_)
RegisterType ==
  /\ registered < Len(use.supports) /\ Registering.type # "all"
  /\ registered' = registered + 1
  /\ supports_' = Registered([key \in {Key(Registering.profile, Registering.name)} |-> Registering])
  /\ UNCHANGED <<readerVars, use>>

\* register_builtin_types(): one after the other, no two of the same name
BuiltinSupports(profile) ==
  LET types == RegisteredTypes(profile)
      support(t) == [profile |-> profile, name |-> BuiltinName(t), type |-> t]
      typeAt == [k \in {Key(profile, BuiltinName(t)) : t \in types} |->
                   CHOOSE t \in types : Key(profile, BuiltinName(t)) = k]
  IN [k \in DOMAIN typeAt |-> support(typeAt[k])]
RegisterBuiltinTypes ==
  /\ registered < Len(use.supports) /\ Registering.type = "all"
  /\ registered' = registered + 1
  /\ supports_' = Registered(BuiltinSupports(Registering.profile))
  /\ UNCHANGED <<readerVars, use>>

Decoding == registered = Len(use.supports) /\ progress = "new"
Found == Key(use.message.profile, use.message.name) \in DOMAIN supports_
Support == supports_[Key(use.message.profile, use.message.name)]

\* decode() returns or throws without reading anything.
Answer(outcome) ==
  /\ progress' = outcome
  /\ UNCHANGED <<size_, format, root, position, allocated, depth, todo, history, registrations>>

NoMessage ==
  /\ Decoding /\ ~use.message.complete
  /\ Answer("no message")

Unregistered ==
  /\ Decoding /\ use.message.complete /\ ~Found
  /\ Answer(CASE use.policy = "Error" -> "unregistered"
              [] use.policy = "WarnAndRaw" -> "raw"
              [] use.policy = "WarnAndSkip" -> "nothing")

FormatOf ==
  CASE use.message.serialization_format = "cdr" -> "cdr"
    [] use.message.serialization_format \in {"ros1", ""} -> "ros1"
    [] OTHER -> "unsupported"

Unsupported ==
  /\ Decoding /\ use.message.complete /\ Found
  /\ FormatOf = "unsupported"
  /\ Answer("unsupported")

\* Any exception of an application's own decoder becomes a DecodeError.
CallLegacy ==
  /\ Decoding /\ use.message.complete /\ Found
  /\ FormatOf # "unsupported" /\ Support.type = "legacy"
  /\ \E outcome \in {"custom", "wrapped"} : Answer(outcome)

BeginSupport ==
  /\ Decoding /\ use.message.complete /\ Found
  /\ FormatOf # "unsupported" /\ Support.type # "legacy"
  /\ \E wellFormed \in BOOLEAN : Begin(FormatOf, Support.type, wellFormed)
  /\ UNCHANGED registrations

Answered == progress \notin {"new", "reading"} /\ UNCHANGED allVars

DecodeNext ==
  \/ RegisterType \/ RegisterBuiltinTypes
  \/ NoMessage \/ Unregistered \/ Unsupported \/ CallLegacy \/ BeginSupport
  \/ Read /\ UNCHANGED registrations
  \/ Answered

DecodeSpec == DecodeInit /\ [][DecodeNext]_allVars

-----------------------------------------------------------------------------
(* Properties                                                               *)

\* Two names of one type: p/Name and p/msg/Name are, whatever p is, unless p
\* itself ends in /msg or /action.
SameType(a, b) ==
  \/ a = b
  \/ \E long \in {a, b}, short \in {a, b} :
       /\ Len(short) > 1 /\ Len(long) = Len(short) + 1
       /\ long = InsertAt(short, Len(short), "msg")
       /\ Len(short) > 2 => short[Len(short) - 1] \notin {"msg", "action"}

\* The types that the registrations for the type of the message name, in their order
Offers(step) ==
  IF step.type = "all"
    THEN {t \in RegisteredTypes(step.profile) : SameType(BuiltinName(t), use.message.name)}
    ELSE IF SameType(step.name, use.message.name) THEN {step.type} ELSE {}
Offering ==
  {i \in DOMAIN use.supports :
     use.supports[i].profile = use.message.profile /\ Offers(use.supports[i]) # {}}
Meant == CHOOSE t \in Offers(use.supports[Max(Offering)]) : TRUE

\* A payload is read as the type that was registered last for its type, one by one or
\* with all of a profile, under either of the type's names, and by the profile asked
\* for; with none such it is not read.
DecodesAsRegistered ==
  /\ format # "none" => Offering # {} /\ root = Meant
  /\ progress \in {"custom", "wrapped"} => Offering # {} /\ Meant = "legacy"
  /\ progress \in {"unregistered", "raw", "nothing"} => Offering = {}
=============================================================================
