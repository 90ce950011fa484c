------------------------------- MODULE Topics -------------------------------
(***************************************************************************)
(* Names in src/rosbags.cpp: normalize_topic(), topics_match() and         *)
(* normalize_type().  The name of a topic is a sequence of slashes and of  *)
(* what stands between two slashes, whole; the name of a type is the       *)
(* sequence of what stands between its slashes.  A pattern is what a       *)
(* filter says of topics: [policy, namespace].                             *)
(***************************************************************************)
EXTENDS Naturals, Sequences, SequencesExt

\* One slash for several, and none at the end.
NormalizeTopic(topic) ==
  LET leading == IF topic # <<>> /\ Head(topic) = "/" THEN <<"/">> ELSE <<>>
      single == FoldLeft(LAMBDA name, c :
                           IF c = "/" /\ (name = <<>> \/ Last(name) = "/") THEN name ELSE Append(name, c),
                         leading, topic)
  IN IF Len(single) > 1 /\ Last(single) = "/" THEN Front(single) ELSE single

IsAbsolute(name) == name # <<>> /\ Head(name) = "/"

\* topics_match() throws for any other pattern.
Legal(pattern) == pattern.policy = "ResolveNamespace" => IsAbsolute(NormalizeTopic(pattern.namespace))

\* The lambda key of topics_match()
TopicKey(name, pattern) ==
  LET value == NormalizeTopic(name) IN
  CASE pattern.policy = "IgnoreLeadingSlash" /\ IsAbsolute(value) -> Tail(value)
    [] pattern.policy = "ResolveNamespace" /\ value # <<>> /\ ~IsAbsolute(value) ->
         NormalizeTopic(NormalizeTopic(pattern.namespace) \o <<"/">> \o value)
    [] OTHER -> value

TopicsMatch(left, right, pattern) == TopicKey(left, pattern) = TopicKey(right, pattern)

NormalizeType(name) ==
  LET parent == SubSeq(name, 1, Len(name) - 1) IN
  IF Len(name) = 1 \/ (Len(parent) > 1 /\ Last(parent) \in {"msg", "action"})
    THEN name
    ELSE parent \o <<"msg", Last(name)>>

-----------------------------------------------------------------------------
(* What the names mean, to hold against it                                  *)

NameParts(name) == SelectSeq(name, LAMBDA c : c # "/")

SameTopic(left, right, pattern) ==
  LET Resolved(name) == (IF IsAbsolute(name) THEN <<>> ELSE NameParts(pattern.namespace)) \o NameParts(name) IN
  CASE pattern.policy = "Strict" ->
         NameParts(left) = NameParts(right) /\ (IsAbsolute(left) <=> IsAbsolute(right))
    [] pattern.policy = "IgnoreLeadingSlash" -> NameParts(left) = NameParts(right)
    [] pattern.policy = "ResolveNamespace" -> Resolved(left) = Resolved(right)
=============================================================================
