----------------------------- MODULE TopicMatch -----------------------------
(***************************************************************************)
(* Client.matchTopic (mqtt/client.go): does a topic name match a topic     *)
(* filter?  The loop walks the filter with filterPos and the topic with    *)
(* topicPos; both count from 0, as in the code.  Reading past the end of a *)
(* string is a run-time panic.                                             *)
(***************************************************************************)
EXTENDS Naturals, Sequences, FiniteSetsExt

CONSTANTS
  Letters,       \* characters that are neither separators nor wildcards
  MaxLength      \* bound: length of a topic and of a filter

Slash == "/"
Plus == "+"
Hash == "#"

ASSUME TopicAssumption ==
  /\ MaxLength \in Nat \ {0}
  /\ {Slash, Plus, Hash} \cap Letters = {}

(* A topic name holds no wildcard; neither string is empty. *)
Strings(S) == UNION {[1..n -> S] : n \in 1..MaxLength}
Topics == Strings(Letters \cup {Slash})
Filters == Strings(Letters \cup {Slash, Plus, Hash})

VARIABLES
  topic, filter,          \* the arguments
  filterPos, topicPos,    \* positions in them
  result                  \* "none" while the loop runs

vars == <<topic, filter, filterPos, topicPos, result>>

(* s[k], for a position k of the code *)
CharAt(s, k) == s[k + 1]

-----------------------------------------------------------------------------
Init ==
  /\ topic \in Topics
  /\ filter \in Filters
  /\ filterPos = 0
  /\ topicPos = 0
  /\ result = "none"

Running == result = "none"

(* The loop is at a character c of the filter. *)
FilterAt(c) ==
  /\ Running
  /\ filterPos < Len(filter)
  /\ CharAt(filter, filterPos) = c

Return(r) ==
  /\ result' = r
  /\ UNCHANGED <<topic, filter, filterPos, topicPos>>

AfterSlash == filterPos # 0 => CharAt(filter, filterPos - 1) = Slash
AtEnd == filterPos = Len(filter) - 1
BeforeSlash == ~ AtEnd => CharAt(filter, filterPos + 1) = Slash

(* Faulty variant: '#' is not required to be a whole level. *)
MultiLevelAnywhere ==
  /\ FilterAt(Hash)
  /\ Return("true")

(* '#': true if it is a whole level and the last one *)
MultiLevel ==
  /\ FilterAt(Hash)
  /\ \/ /\ Len(filter) = 1 \/ (AfterSlash /\ AtEnd)
        /\ Return("true")
     \/ /\ Len(filter) # 1 /\ ~ (AfterSlash /\ AtEnd)
        /\ Return("false")

(* '+': it must be a whole level *)
PlusInvalid ==
  /\ FilterAt(Plus)
  /\ ~ (AfterSlash /\ BeforeSlash)
  /\ Return("false")

InLevel == topicPos < Len(topic) /\ CharAt(topic, topicPos) # Slash

(* Faulty variant: the inner loop steps over the separator, too. *)
PlusSkipTwo ==
  /\ FilterAt(Plus)
  /\ AfterSlash /\ BeforeSlash
  /\ InLevel
  /\ topicPos' = topicPos + 2
  /\ UNCHANGED <<topic, filter, filterPos, result>>

(* The inner loop: forward to the end of the topic's level *)
PlusSkip ==
  /\ FilterAt(Plus)
  /\ AfterSlash /\ BeforeSlash
  /\ InLevel
  /\ topicPos' = topicPos + 1
  /\ UNCHANGED <<topic, filter, filterPos, result>>

(* The end of the topic: true, whatever is left of the filter *)
PlusLast ==
  /\ FilterAt(Plus)
  /\ AfterSlash /\ BeforeSlash
  /\ topicPos = Len(topic)
  /\ Return("true")

(* Faulty variant: the position is not advanced. *)
PlusNextStuck ==
  /\ FilterAt(Plus)
  /\ AfterSlash /\ BeforeSlash
  /\ ~ InLevel
  /\ topicPos # Len(topic)
  /\ UNCHANGED vars

(* Faulty variant: the topic's position moves past the separator, too. *)
PlusNextBoth ==
  /\ FilterAt(Plus)
  /\ AfterSlash /\ BeforeSlash
  /\ ~ InLevel
  /\ topicPos # Len(topic)
  /\ filterPos' = filterPos + 1
  /\ topicPos' = topicPos + 1
  /\ UNCHANGED <<topic, filter, result>>

(* The topic goes on: behind the '+', at the separator *)
PlusNext ==
  /\ FilterAt(Plus)
  /\ AfterSlash /\ BeforeSlash
  /\ ~ InLevel
  /\ topicPos # Len(topic)
  /\ filterPos' = filterPos + 1
  /\ UNCHANGED <<topic, filter, topicPos, result>>

(* Faulty variant: off by one. *)
FilterTooLongByOne == filterPos > Len(topic)

(* Any other character.  The bound that is tested is filterPos, the index  *)
(* that is used is topicPos.                                               *)
FilterTooLong == filterPos >= Len(topic)

(* Faulty variant: only the filter's position advances. *)
LiteralOneSided ==
  /\ Running
  /\ filterPos < Len(filter)
  /\ CharAt(filter, filterPos) \notin {Plus, Hash}
  /\ \/ /\ FilterTooLong
        /\ Return("false")
     \/ /\ ~ FilterTooLong
        /\ filterPos' = filterPos + 1
        /\ UNCHANGED <<topic, filter, topicPos, result>>

Literal ==
  /\ Running
  /\ filterPos < Len(filter)
  /\ CharAt(filter, filterPos) \notin {Plus, Hash}
  /\ \/ /\ FilterTooLong
        /\ Return("false")
     \/ /\ ~ FilterTooLong
        /\ topicPos >= Len(topic)
        /\ Return("panic")
     \/ /\ ~ FilterTooLong
        /\ topicPos < Len(topic)
        /\ CharAt(filter, filterPos) # CharAt(topic, topicPos)
        /\ Return("false")
     \/ /\ ~ FilterTooLong
        /\ topicPos < Len(topic)
        /\ CharAt(filter, filterPos) = CharAt(topic, topicPos)
        /\ filterPos' = filterPos + 1
        /\ topicPos' = topicPos + 1
        /\ UNCHANGED <<topic, filter, result>>

(* Faulty variant: what is left of the topic is not looked at. *)
FinishEarly ==
  /\ Running
  /\ filterPos = Len(filter)
  /\ Return("true")

(* After the loop: is any of the topic left? *)
Finish ==
  /\ Running
  /\ filterPos = Len(filter)
  /\ \/ /\ Len(filter) # Len(topic) /\ topicPos < Len(topic)
        /\ Return("false")
     \/ /\ Len(filter) = Len(topic) \/ topicPos >= Len(topic)
        /\ Return("true")

Next ==
  \/ MultiLevel
  \/ PlusInvalid \/ PlusSkip \/ PlusLast \/ PlusNext
  \/ Literal
  \/ Finish

Spec == Init /\ [][Next]_vars

(* The loop is sequential code. *)
FairSpec == Spec /\ WF_vars(Next)

-----------------------------------------------------------------------------
(* The reference: MQTT 5, section 4.7.  Strings are compared level by      *)
(* level.                                                                  *)

SlashesBefore(s, k) == {j \in 1..(k - 1) : s[j] = Slash}

Levels(s) == 1 + Cardinality(SlashesBefore(s, Len(s) + 1))

(* The n-th level of s *)
Level(s, n) ==
  LET P == {k \in 1..Len(s) : s[k] # Slash
                              /\ Cardinality(SlashesBefore(s, k)) = n - 1}
  IN IF P = {} THEN <<>> ELSE SubSeq(s, Min(P), Max(P))

Has(s, c) == \E k \in 1..Len(s) : s[k] = c

(* A wildcard is a whole level; '#' is the last one. *)
ValidFilter(f) ==
  \A n \in 1..Levels(f) :
    /\ Has(Level(f, n), Plus) => Level(f, n) = <<Plus>>
    /\ Has(Level(f, n), Hash) => Level(f, n) = <<Hash>> /\ n = Levels(f)

LevelMatches(t, f, n) ==
  n <= Levels(t) /\ Level(f, n) \in {<<Plus>>, Level(t, n)}

Matches(t, f) ==
  /\ ValidFilter(f)
  /\ IF Level(f, Levels(f)) = <<Hash>>
     THEN \A n \in 1..(Levels(f) - 1) : LevelMatches(t, f, n)
     ELSE /\ Levels(t) = Levels(f)
          /\ \A n \in 1..Levels(f) : LevelMatches(t, f, n)

(* A filter that ends in '#' matches the parent level as well. *)
IsParent(t, f) == f = t \o <<Slash, Hash>>

-----------------------------------------------------------------------------
(* Properties *)

Results == {"none", "true", "false", "panic"}

(* The positions stay within the strings, or one past their end. *)
TypeOK ==
  /\ topic \in Topics
  /\ filter \in Filters
  /\ filterPos \in 0..Len(filter)
  /\ topicPos \in 0..Len(topic)
  /\ result \in Results

(* Without '+' in the filter the two positions move in step: the bound     *)
(* that matchTopic tests is then the bound of the index it uses, and no    *)
(* read is out of range.                                                   *)
SafeWithoutPlus ==
  ~ Has(filter, Plus) => topicPos = filterPos /\ result # "panic"

(* As far as the loop has come without '+', topic and filter agree.        *)
PrefixAgrees ==
  ~ Has(filter, Plus) =>
    \A k \in 1..filterPos : k <= Len(topic) /\ topic[k] = filter[k]

(* A filter without wildcards matches exactly the topic it spells.         *)
PlainFilterExact ==
  ~ Has(filter, Plus) /\ ~ Has(filter, Hash) /\ ~ Running
    => (result = "true") = (topic = filter)

(* A filter without '+' is matched as MQTT defines it, except that         *)
(* "x/#" does not match its parent "x".                                    *)
HashFilterCorrect ==
  ~ Has(filter, Plus) /\ ~ Running /\ ~ IsParent(topic, filter)
    => (result = "true") = Matches(topic, filter)

(* A topic without empty levels that a filter matches, other than as the   *)
(* parent of '#', is not turned away, '+' included: topicPos is then never *)
(* behind filterPos, and the test of filterPos against the topic's length  *)
(* comes out right.                                                        *)
NoMissedMatch ==
  /\ ~ Running /\ Matches(topic, filter)
  /\ \A k \in 1..Levels(topic) : Level(topic, k) # <<>>
  /\ Has(filter, Hash) => Levels(filter) <= Levels(topic)
  => result = "true"

(* matchTopic returns on every topic and filter. *)
Returns == <>(~ Running)
=============================================================================
