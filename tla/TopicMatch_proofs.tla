------------------------- MODULE TopicMatch_proofs -------------------------
(***************************************************************************)
(* Proofs about TopicMatch for strings of every length over every          *)
(* alphabet: a filter without '+' is matched without a read out of range   *)
(* and as MQTT defines it, and no topic that a filter matches is turned    *)
(* away, '+' included.  The definition of MQTT speaks of levels, the loop  *)
(* of positions: the lemmas in between say where a level is in a string,   *)
(* and that the levels of two strings differ where the strings do.         *)
(***************************************************************************)
EXTENDS TopicMatch, SequenceTheorems, FiniteSetTheorems,
        WellFoundedInduction, TLAPS

USE TopicAssumption

(* Topics and filters are non-empty sequences. *)
LEMMA StringsAreSequences ==
  ASSUME NEW S, NEW s \in Strings(S)
  PROVE  s \in Seq(S) /\ Len(s) \in Nat \ {0} /\ DOMAIN s = 1..Len(s)
<1>1. PICK n \in 1..MaxLength : s \in [1..n -> S]
  BY DEF Strings
<1>2. s \in Seq(S) /\ n \in Nat \ {0}
  BY <1>1
<1>3. DOMAIN s = 1..Len(s) /\ Len(s) \in Nat
  BY <1>2, LenProperties
<1>4. 1 \in DOMAIN s
  BY <1>1, <1>2
<1>5. Len(s) # 0
  BY <1>3, <1>4
<1>6. QED
  BY <1>2, <1>3, <1>5

(* The inductive invariant *)
MatchInv == TypeOK /\ SafeWithoutPlus /\ PrefixAgrees /\ PlainFilterExact

LEMMA InitInv == Init => MatchInv
BY DEF Init, MatchInv, TypeOK, SafeWithoutPlus, PrefixAgrees,
       PlainFilterExact, Running, Results

LEMMA NextInv ==
  ASSUME MatchInv, [Next]_vars
  PROVE  MatchInv'
<1>1. /\ topic \in Seq(Letters \cup {Slash}) /\ Len(topic) \in Nat
      /\ filter \in Seq(Letters \cup {Slash, Plus, Hash})
      /\ Len(filter) \in Nat
  BY StringsAreSequences DEF MatchInv, TypeOK, Topics, Filters
<1> USE <1>1 DEF MatchInv, TypeOK, SafeWithoutPlus, PrefixAgrees,
        PlainFilterExact, Running, Results, Return, FilterAt, CharAt, Has
<1>2. CASE MultiLevel
  BY <1>2 DEF MultiLevel
<1>3. CASE PlusInvalid
  BY <1>3 DEF PlusInvalid
<1>4. CASE PlusSkip
  BY <1>4 DEF PlusSkip, InLevel
<1>5. CASE PlusLast
  BY <1>5 DEF PlusLast
<1>6. CASE PlusNext
  BY <1>6 DEF PlusNext
<1>7. CASE Literal
  BY <1>7 DEF Literal, FilterTooLong
<1>8. CASE Finish
  BY <1>8 DEF Finish
<1>9. CASE UNCHANGED vars
  BY <1>9 DEF vars
<1>10. QED
  BY <1>2, <1>3, <1>4, <1>5, <1>6, <1>7, <1>8, <1>9 DEF Next

LEMMA Inductive == Spec => []MatchInv
BY InitInv, NextInv, PTL DEF Spec

-----------------------------------------------------------------------------
(* Levels.  The definition of a level counts separators: what follows says *)
(* that a level is an interval of positions, and what its characters are.  *)

Count(s, k) == Cardinality(SlashesBefore(s, k))
Positions(s, n) ==
  {k \in 1..Len(s) : s[k] # Slash /\ Count(s, k) = n - 1}

(* A set of natural numbers that is not empty has a least element. *)
LEMMA Least ==
  ASSUME NEW T \in SUBSET Nat, T # {}
  PROVE  \E x \in T : \A y \in T : x <= y
<1>1. PICK x \in T : \A y \in T : ~ (<<y, x>> \in OpToRel(<, Nat))
  BY NatLessThanWellFounded, WFMin
<1>2. \A y \in T : ~ (y < x)
  BY <1>1 DEF OpToRel
<1>3. QED
  BY <1>2

(* A set of natural numbers with an upper bound has a greatest element. *)
LEMMA Greatest ==
  ASSUME NEW T \in SUBSET Nat, T # {}, NEW n \in Nat, \A y \in T : y <= n
  PROVE  \E x \in T : \A y \in T : y <= x
<1> DEFINE Bounds == {m \in Nat : \A y \in T : y <= m}
<1>1. PICK m \in Bounds : \A l \in Bounds : m <= l
  BY Least
<1>2. SUFFICES ASSUME m \notin T PROVE FALSE
  BY <1>1
<1>3. \A y \in T : y <= m - 1
  BY <1>1, <1>2
<1>4. m - 1 \in Nat
  <2>1. PICK y \in T : TRUE
    OBVIOUS
  <2>2. QED
    BY <1>3, <2>1
<1>5. m - 1 \in Bounds
  BY <1>3, <1>4
<1>6. QED
  BY <1>1, <1>5

(* The separators before a position are finitely many. *)
LEMMA CountNat ==
  ASSUME NEW s, NEW k \in Nat
  PROVE  IsFiniteSet(SlashesBefore(s, k)) /\ Count(s, k) \in Nat
<1>1. IsFiniteSet(1..(k - 1))
  BY FS_Interval
<1>2. IsFiniteSet(SlashesBefore(s, k))
  BY <1>1, FS_Subset DEF SlashesBefore
<1>3. QED
  BY <1>2, FS_CardinalityType DEF Count

(* The count of separators never falls along a string. *)
LEMMA CountMonotone ==
  ASSUME NEW s, NEW k \in Nat, NEW m \in Nat, k <= m
  PROVE  Count(s, k) <= Count(s, m)
<1>1. SlashesBefore(s, k) \subseteq SlashesBefore(s, m)
  BY DEF SlashesBefore
<1>2. QED
  BY <1>1, CountNat, FS_Subset DEF Count

(* It grows by one at a separator, and nowhere else. *)
LEMMA CountStep ==
  ASSUME NEW s, NEW k \in Nat \ {0}
  PROVE  /\ s[k] = Slash => Count(s, k + 1) = Count(s, k) + 1
         /\ s[k] # Slash => Count(s, k + 1) = Count(s, k)
<1>1. CASE s[k] = Slash
  <2>1. SlashesBefore(s, k + 1) = SlashesBefore(s, k) \cup {k}
    BY <1>1 DEF SlashesBefore
  <2>2. k \notin SlashesBefore(s, k)
    BY DEF SlashesBefore
  <2>3. QED
    BY <1>1, <2>1, <2>2, CountNat, FS_AddElement DEF Count
<1>2. CASE s[k] # Slash
  <2>1. SlashesBefore(s, k + 1) = SlashesBefore(s, k)
    BY <1>2 DEF SlashesBefore
  <2>2. QED
    BY <1>2, <2>1 DEF Count
<1>3. QED
  BY <1>1, <1>2

(* Strings that agree before a position have the same separators there. *)
LEMMA CountAgrees ==
  ASSUME NEW s, NEW t, NEW k \in Nat,
         \A j \in 1..(k - 1) : s[j] = t[j]
  PROVE  Count(s, k) = Count(t, k)
<1>1. SlashesBefore(s, k) = SlashesBefore(t, k)
  BY DEF SlashesBefore
<1>2. QED
  BY <1>1 DEF Count

(* The n-th level of s is the interval from a to b. *)
Spans(S, s, n, a, b) ==
  /\ a \in Positions(s, n) /\ b \in Positions(s, n) /\ a <= b
  /\ \A j \in Positions(s, n) : a <= j /\ j <= b
  /\ \A j \in a..b : j \in Positions(s, n)
  /\ Level(s, n) \in Seq(S) /\ Len(Level(s, n)) = b - a + 1
  /\ \A j \in a..b : Level(s, n)[j - a + 1] = s[j]

(* A level with characters is the interval of their positions. *)
LEMMA LevelInterval ==
  ASSUME NEW S, NEW s \in Seq(S), NEW n \in Nat, Positions(s, n) # {}
  PROVE  \E a, b \in 1..Len(s) : Spans(S, s, n, a, b)
<1> DEFINE P == Positions(s, n)
<1>1. P \in SUBSET Nat /\ Len(s) \in Nat /\ \A y \in P : y <= Len(s)
  BY DEF Positions
<1>2. PICK a \in P : \A y \in P : a <= y
  BY <1>1, Least
<1>3. PICK b \in P : \A y \in P : y <= b
  BY <1>1, Greatest
<1>4. a \in 1..Len(s) /\ b \in 1..Len(s) /\ a <= b
  BY <1>2, <1>3 DEF Positions
<1>5. Min(P) = a
  BY <1>1, <1>2 DEF Min
<1>6. Max(P) = b
  BY <1>1, <1>3 DEF Max
<1>7. ASSUME NEW k \in a..b PROVE k \in P
  <2>1. /\ Count(s, a) = n - 1 /\ Count(s, b) = n - 1 /\ s[b] # Slash
        /\ k \in 1..Len(s) /\ k \in Nat \ {0} /\ k + 1 \in Nat
    BY <1>2, <1>3, <1>4, <1>7 DEF Positions
  <2>2. Count(s, k) = n - 1
    BY <1>4, <1>7, <2>1, CountNat, CountMonotone
  <2>3. ASSUME s[k] = Slash PROVE FALSE
    <3>1. k + 1 <= b
      BY <1>4, <1>7, <2>1, <2>3
    <3>2. Count(s, k + 1) = n
      BY <2>1, <2>2, <2>3, CountStep
    <3>3. Count(s, k + 1) <= Count(s, b)
      BY <1>4, <2>1, <3>1, CountMonotone
    <3>4. QED
      BY <2>1, <3>2, <3>3
  <2>4. QED
    BY <2>1, <2>2, <2>3 DEF Positions
<1>8. Level(s, n) = SubSeq(s, a, b)
  BY <1>5, <1>6 DEF Level, Positions, Count
<1>9. \A j \in a..b : s[j] \in S
  BY <1>4
<1>10. /\ SubSeq(s, a, b) \in Seq(S) /\ Len(SubSeq(s, a, b)) = b - a + 1
       /\ \A j \in 1..(b - a + 1) : SubSeq(s, a, b)[j] = s[a + j - 1]
  BY <1>4, <1>9, SubSeqProperties
<1>11. \A j \in a..b : SubSeq(s, a, b)[j - a + 1] = s[j]
  BY <1>4, <1>10
<1>12. QED
  BY <1>2, <1>3, <1>4, <1>7, <1>8, <1>10, <1>11 DEF Spans

(* A level without characters is empty. *)
LEMMA LevelEmpty ==
  ASSUME NEW s, NEW n, Positions(s, n) = {}
  PROVE  Level(s, n) = <<>>
BY DEF Level, Positions, Count

(* A character of a level is one of the string, and the other way round;   *)
(* a level with characters is one of the levels of the string.             *)
LEMMA LevelCharacters ==
  ASSUME NEW S, NEW s \in Seq(S), NEW n \in Nat \ {0}
  PROVE  /\ \A c : Has(Level(s, n), c) <=> \E k \in Positions(s, n) : s[k] = c
         /\ Levels(s) \in Nat \ {0}
         /\ Positions(s, n) # {} => n <= Levels(s)
<1>0. Len(s) \in Nat
  OBVIOUS
<1>1. Levels(s) \in Nat \ {0} /\ Levels(s) = 1 + Count(s, Len(s) + 1)
  BY <1>0, CountNat DEF Levels, Count
<1>2. CASE Positions(s, n) = {}
  <2>1. Level(s, n) = <<>>
    BY <1>2, LevelEmpty
  <2>2. \A c : ~ Has(Level(s, n), c)
    BY <2>1 DEF Has
  <2>3. QED
    BY <1>1, <1>2, <2>2
<1>3. CASE Positions(s, n) # {}
  <2>1. PICK a \in 1..Len(s), b \in 1..Len(s) : Spans(S, s, n, a, b)
    BY <1>3, LevelInterval
  <2>2. ASSUME NEW c, Has(Level(s, n), c)
        PROVE  \E k \in Positions(s, n) : s[k] = c
    <3>1. PICK i \in 1..(b - a + 1) : Level(s, n)[i] = c
      BY <2>1, <2>2 DEF Has, Spans
    <3>2. i + a - 1 \in a..b /\ (i + a - 1) - a + 1 = i
      BY <1>0, <2>1 DEF Spans
    <3>3. QED
      BY <2>1, <3>1, <3>2 DEF Spans
  <2>3. ASSUME NEW c, NEW k \in Positions(s, n), s[k] = c
        PROVE  Has(Level(s, n), c)
    <3>1. k \in Nat /\ k \in a..b
      BY <1>0, <2>1 DEF Spans, Positions
    <3>2. k - a + 1 \in 1..Len(Level(s, n))
      BY <1>0, <2>1, <3>1 DEF Spans
    <3>3. QED
      BY <2>1, <2>3, <3>1, <3>2 DEF Has, Spans
  <2>4. n <= Levels(s)
    <3>1. Count(s, a) = n - 1 /\ a \in Nat /\ a <= Len(s) + 1
      BY <1>0, <2>1 DEF Spans, Positions
    <3>2. QED
      BY <1>0, <1>1, <3>1, CountMonotone, CountNat
  <2>5. QED
    BY <1>1, <2>2, <2>3, <2>4
<1>4. QED
  BY <1>2, <1>3

(* Where two strings part, at a character that is no separator of one of   *)
(* them, the levels of that position differ.                               *)
LEMMA LevelsDiffer ==
  ASSUME NEW S, NEW s \in Seq(S), NEW t \in Seq(S),
         NEW k \in 1..Len(s), s[k] # Slash, k <= Len(t) + 1,
         \A j \in 1..(k - 1) : s[j] = t[j],
         k <= Len(t) => s[k] # t[k]
  PROVE  Level(s, Count(s, k) + 1) # Level(t, Count(s, k) + 1)
<1>1. PICK n : n = Count(s, k) + 1
  OBVIOUS
<1>2. /\ n \in Nat /\ k \in Nat \ {0} /\ Len(s) \in Nat /\ Len(t) \in Nat
      /\ Count(s, k) = n - 1
  BY <1>1, CountNat
<1>3. Count(t, k) = n - 1
  BY <1>2, CountAgrees
<1>4. k \in Positions(s, n)
  BY <1>2 DEF Positions
<1>5. PICK a \in 1..Len(s), b \in 1..Len(s) : Spans(S, s, n, a, b)
  BY <1>2, <1>4, LevelInterval
<1>6. CASE Positions(t, n) = {}
  <2>1. Len(Level(t, n)) = 0
    BY <1>6, LevelEmpty
  <2>2. QED
    BY <1>1, <1>2, <1>5, <2>1 DEF Spans
<1>7. CASE Positions(t, n) # {}
  <2>1. PICK c \in 1..Len(t), d \in 1..Len(t) : Spans(S, t, n, c, d)
    BY <1>2, <1>7, LevelInterval
  <2>2. ASSUME NEW j \in 1..(k - 1)
        PROVE  j \in Positions(s, n) <=> j \in Positions(t, n)
    <3>1. j \in 1..Len(s) /\ j \in 1..Len(t) /\ j \in Nat /\ s[j] = t[j]
      BY <1>2, <2>2
    <3>2. \A i \in 1..(j - 1) : s[i] = t[i]
      BY <1>2, <3>1
    <3>3. Count(s, j) = Count(t, j)
      BY <3>1, <3>2, CountAgrees
    <3>4. QED
      BY <3>1, <3>3 DEF Positions
  <2>3. k \in a..b
    BY <1>2, <1>4, <1>5 DEF Spans
  <2>4. CASE k \in Positions(t, n)
    <3>1. k \in c..d /\ k <= Len(t)
      BY <1>2, <2>1, <2>4 DEF Spans
    <3>2. a = c
      <4>1. a < k => c <= a
        BY <1>2, <1>5, <2>1, <2>2 DEF Spans
      <4>2. c < k => a <= c
        BY <1>2, <1>5, <2>1, <2>2 DEF Spans
      <4>3. QED
        BY <1>2, <2>1, <2>3, <3>1, <4>1, <4>2
    <3>3. Level(s, n)[k - a + 1] = s[k] /\ Level(t, n)[k - a + 1] = t[k]
      BY <1>5, <2>1, <2>3, <3>1, <3>2 DEF Spans
    <3>4. QED
      BY <1>1, <3>1, <3>3
  <2>5. CASE k \notin Positions(t, n)
    <3>1. d < k
      <4>1. SUFFICES ASSUME k <= d PROVE FALSE
        BY <1>2, <2>1
      <4>2. /\ k \in 1..Len(t) /\ k # d /\ d \in Nat
            /\ k + 1 \in Nat /\ k + 1 <= d
        BY <1>2, <2>1, <2>5, <4>1 DEF Spans
      <4>3. t[k] = Slash
        BY <1>3, <2>5, <4>2 DEF Positions
      <4>4. Count(t, k + 1) = n
        <5>1. Count(t, k + 1) = Count(t, k) + 1
          BY <1>2, <4>3, CountStep
        <5>2. QED
          BY <1>2, <1>3, <5>1
      <4>5. Count(t, d) = n - 1
        BY <2>1 DEF Spans, Positions
      <4>6. QED
        BY <1>2, <4>2, <4>4, <4>5, CountMonotone
    <3>2. a <= c
      <4>1. c \in 1..(k - 1) /\ c \in Positions(t, n)
        BY <1>2, <2>1, <3>1 DEF Spans
      <4>2. QED
        BY <1>5, <2>2, <4>1 DEF Spans
    <3>3. Len(Level(t, n)) < Len(Level(s, n))
      BY <1>2, <1>5, <2>1, <2>3, <3>1, <3>2 DEF Spans
    <3>4. QED
      BY <1>1, <1>2, <1>5, <2>1, <3>3
  <2>6. QED
    BY <2>4, <2>5
<1>8. QED
  BY <1>6, <1>7

(* A level that ends before a position up to which two strings agree is    *)
(* the same in both.                                                       *)
LEMMA LevelsAgree ==
  ASSUME NEW S, NEW s \in Seq(S), NEW t \in Seq(S), NEW m \in Nat,
         m <= Len(s), m <= Len(t), \A j \in 1..m : s[j] = t[j],
         NEW n \in Nat, n <= Count(s, m + 1)
  PROVE  Level(s, n) = Level(t, n)
<1>1. Len(s) \in Nat /\ Len(t) \in Nat /\ Count(t, m + 1) = Count(s, m + 1)
  BY CountAgrees
<1>2. ASSUME NEW u \in {s, t}, NEW j \in Positions(u, n) PROVE j \in 1..m
  <2>1. Count(u, m + 1) = Count(s, m + 1) /\ Count(u, m + 1) \in Nat
    BY <1>1, CountNat
  <2>2. j \in Nat \ {0} /\ Count(u, j) = n - 1
    BY <1>1 DEF Positions
  <2>3. m + 1 <= j => Count(u, m + 1) <= Count(u, j)
    BY <2>2, CountMonotone
  <2>4. QED
    BY <2>1, <2>2, <2>3
<1>3. ASSUME NEW j \in 1..m
      PROVE  j \in Positions(s, n) <=> j \in Positions(t, n)
  <2>1. j \in 1..Len(s) /\ j \in 1..Len(t) /\ j \in Nat /\ s[j] = t[j]
    BY <1>1, <1>3
  <2>2. Count(s, j) = Count(t, j)
    BY <2>1, CountAgrees
  <2>3. QED
    BY <2>1, <2>2 DEF Positions
<1>4. Positions(s, n) = Positions(t, n)
  BY <1>2, <1>3
<1>5. CASE Positions(s, n) = {}
  BY <1>4, <1>5, LevelEmpty
<1>6. CASE Positions(s, n) # {}
  <2>1. PICK a \in 1..Len(s), b \in 1..Len(s) : Spans(S, s, n, a, b)
    BY <1>6, LevelInterval
  <2>2. PICK c \in 1..Len(t), d \in 1..Len(t) : Spans(S, t, n, c, d)
    BY <1>4, <1>6, LevelInterval
  <2>3. c <= a /\ b <= d /\ a <= c /\ d <= b
    BY <1>4, <2>1, <2>2 DEF Spans
  <2>4. a = c /\ b = d
    BY <1>1, <2>1, <2>2, <2>3
  <2>5. \A j \in a..b : s[j] = t[j]
    BY <1>2, <2>1 DEF Spans
  <2>6. ASSUME NEW i \in 1..(b - a + 1) PROVE Level(s, n)[i] = Level(t, n)[i]
    <3>1. PICK j \in a..b : j - a + 1 = i
      <4>1. i + a - 1 \in a..b /\ (i + a - 1) - a + 1 = i
        BY <1>1, <2>1, <2>6
      <4>2. QED
        BY <4>1
    <3>2. Level(s, n)[j - a + 1] = s[j]
      BY <2>1 DEF Spans
    <3>3. Level(t, n)[j - a + 1] = t[j]
      BY <2>2, <2>4 DEF Spans
    <3>4. QED
      BY <2>5, <3>1, <3>2, <3>3
  <2>7. QED
    BY <2>1, <2>2, <2>4, <2>6, SeqEqual DEF Spans
<1>7. QED
  BY <1>5, <1>6

-----------------------------------------------------------------------------
(* What the loop can find in a filter without '+', against the reference.  *)

(* '#' as a whole level at the end of a filter is the filter's last level. *)
LEMMA HashLevel ==
  ASSUME NEW S, NEW f \in Seq(S), NEW p \in Nat, Len(f) = p + 1,
         f[p + 1] = Hash, p # 0 => f[p] = Slash
  PROVE  /\ Levels(f) = Count(f, p + 1) + 1
         /\ Level(f, Levels(f)) = <<Hash>>
<1>1. Count(f, p + 1) \in Nat /\ Count(f, p + 2) = Count(f, p + 1)
  <2>1. f[p + 1] # Slash /\ p + 1 \in Nat \ {0} /\ (p + 1) + 1 = p + 2
    BY DEF Hash, Slash
  <2>2. QED
    BY <2>1, CountNat, CountStep
<1>2. Levels(f) = Count(f, p + 1) + 1 /\ Levels(f) \in Nat
  BY <1>1 DEF Levels, Count
<1>3. p + 1 \in Positions(f, Levels(f))
  BY <1>1, <1>2 DEF Positions, Hash, Slash
<1>4. PICK a \in 1..Len(f), b \in 1..Len(f) : Spans(S, f, Levels(f), a, b)
  BY <1>2, <1>3, LevelInterval
<1>5. b = p + 1
  BY <1>3, <1>4 DEF Spans
<1>6. a = p + 1
  <2>1. SUFFICES ASSUME a <= p PROVE FALSE
    BY <1>4
  <2>2. f[p] = Slash /\ p \in Nat \ {0} /\ a \in Nat
    BY <1>4, <2>1
  <2>3. Count(f, p + 1) = Count(f, p) + 1 /\ Count(f, a) <= Count(f, p)
    BY <2>1, <2>2, CountStep, CountMonotone
  <2>4. Count(f, a) = Count(f, p + 1)
    BY <1>1, <1>2, <1>4 DEF Spans, Positions
  <2>5. QED
    BY <2>2, <2>3, <2>4, CountNat
<1>7. /\ Level(f, Levels(f)) \in Seq(S) /\ Len(Level(f, Levels(f))) = 1
      /\ Level(f, Levels(f))[1] = Hash
  <2>1. (p + 1) \in a..b /\ (p + 1) - a + 1 = 1 /\ b - a + 1 = 1
    BY <1>5, <1>6
  <2>2. Level(f, Levels(f))[(p + 1) - a + 1] = f[p + 1]
    BY <1>4, <2>1 DEF Spans
  <2>3. QED
    BY <1>4, <2>1, <2>2 DEF Spans
<1>8. QED
  BY <1>2, <1>7

(* A filter that is a prefix of the topic followed by '#' matches it. *)
LEMMA PrefixThenHash ==
  ASSUME NEW S, NEW t \in Seq(S), NEW f \in Seq(S), NEW p \in Nat,
         Len(f) = p + 1, f[p + 1] = Hash, p # 0 => f[p] = Slash,
         p <= Len(t), \A j \in 1..p : t[j] = f[j],
         ~ Has(f, Plus), ~ Has(t, Hash)
  PROVE  Matches(t, f)
<1>1. /\ Levels(f) = Count(f, p + 1) + 1 /\ Level(f, Levels(f)) = <<Hash>>
      /\ Levels(f) \in Nat \ {0} /\ Len(t) \in Nat /\ p + 1 \in Nat
  BY HashLevel, LevelCharacters
<1>2. ASSUME NEW n \in 1..Levels(f), NEW c \in {Plus, Hash},
             Has(Level(f, n), c)
      PROVE  c = Hash /\ n = Levels(f)
  <2>0. n \in Nat \ {0}
    BY <1>1
  <2>1. PICK k \in Positions(f, n) : f[k] = c
    BY <1>2, <2>0, LevelCharacters, SMTT(30)
  <2>2. k \in 1..(p + 1) /\ Count(f, k) = n - 1
    BY <2>1, SMTT(30) DEF Positions
  <2>3. c = Hash
    BY <2>1, <2>2 DEF Has
  <2>4. k = p + 1
    BY <1>1, <2>1, <2>2, <2>3 DEF Has
  <2>5. QED
    BY <1>1, <2>2, <2>3, <2>4, CountNat
<1>3. ValidFilter(f)
  BY <1>1, <1>2 DEF ValidFilter, Plus, Hash
<1>4. ASSUME NEW n \in 1..(Levels(f) - 1) PROVE LevelMatches(t, f, n)
  <2>0. Count(f, p + 1) \in Nat
    BY <1>1, CountNat
  <2>1. n \in Nat /\ n <= Count(f, p + 1) /\ p <= Len(f)
    BY <1>1, <2>0
  <2>2. Level(f, n) = Level(t, n)
    BY <1>1, <2>1, LevelsAgree
  <2>3. Count(f, p + 1) = Count(t, p + 1)
    BY <1>1, CountAgrees
  <2>4. Count(t, p + 1) <= Count(t, Len(t) + 1)
    BY <1>1, CountMonotone
  <2>5. n <= Levels(t)
    BY <1>1, <2>1, <2>3, <2>4, CountNat DEF Levels, Count
  <2>6. QED
    BY <2>2, <2>5 DEF LevelMatches
<1>5. QED
  BY <1>1, <1>3, <1>4 DEF Matches

(* A topic matches itself as a filter. *)
LEMMA SelfMatch ==
  ASSUME NEW S, NEW t \in Seq(S), ~ Has(t, Plus), ~ Has(t, Hash)
  PROVE  Matches(t, t)
<1>1. Levels(t) \in Nat \ {0}
  BY LevelCharacters
<1>2. ASSUME NEW n \in 1..Levels(t), NEW c \in {Plus, Hash}
      PROVE  ~ Has(Level(t, n), c)
  <2>1. Has(Level(t, n), c) => \E k \in Positions(t, n) : t[k] = c
    BY <1>1, LevelCharacters
  <2>2. QED
    BY <2>1 DEF Positions, Has
<1>3. ValidFilter(t)
  BY <1>2 DEF ValidFilter
<1>4. \A n \in 1..Levels(t) : LevelMatches(t, t, n)
  BY <1>1 DEF LevelMatches
<1>5. Has(<<Hash>>, Hash)
  BY DEF Has
<1>6. QED
  BY <1>1, <1>2, <1>3, <1>4, <1>5 DEF Matches

(* The only character of a level has separators, or nothing, around it. *)
LEMMA OnlyCharacter ==
  ASSUME NEW S, NEW f \in Seq(S), NEW n \in Nat, NEW k \in Positions(f, n),
         Len(Level(f, n)) = 1
  PROVE  /\ \A j \in Positions(f, n) : j = k
         /\ k # 1 => f[k - 1] = Slash
         /\ k < Len(f) => f[k + 1] = Slash
<1>1. /\ k \in 1..Len(f) /\ Count(f, k) = n - 1 /\ f[k] # Slash
      /\ Len(f) \in Nat /\ k \in Nat \ {0} /\ k + 1 \in Nat \ {0}
  BY DEF Positions
<1>2. PICK a \in 1..Len(f), b \in 1..Len(f) : Spans(S, f, n, a, b)
  BY LevelInterval
<1>3. a = k /\ b = k
  <2>1. b - a + 1 = 1 /\ a <= k /\ k <= b
    BY <1>2 DEF Spans
  <2>2. QED
    BY <1>1, <1>2, <2>1
<1>4. \A j \in Positions(f, n) : j = k
  <2>1. \A j \in Positions(f, n) : j \in Nat
    BY <1>1 DEF Positions
  <2>2. QED
    BY <1>1, <1>2, <1>3, <2>1 DEF Spans
<1>5. ASSUME k # 1, f[k - 1] # Slash PROVE FALSE
  <2>1. k - 1 \in 1..Len(f) /\ k - 1 \in Nat \ {0} /\ (k - 1) + 1 = k
    BY <1>1, <1>5
  <2>2. Count(f, (k - 1) + 1) = Count(f, k - 1)
    BY <1>5, <2>1, CountStep
  <2>3. k - 1 \in Positions(f, n)
    BY <1>1, <1>5, <2>1, <2>2 DEF Positions
  <2>4. QED
    BY <1>1, <1>4, <2>3
<1>6. ASSUME k < Len(f), f[k + 1] # Slash PROVE FALSE
  <2>1. Count(f, k + 1) = n - 1 /\ k + 1 \in 1..Len(f)
    BY <1>1, <1>6, CountStep
  <2>2. k + 1 \in Positions(f, n)
    BY <1>6, <2>1 DEF Positions
  <2>3. QED
    BY <1>1, <1>4, <2>2
<1>7. QED
  BY <1>4, <1>5, <1>6

(* The levels up to a position, and one more if there is a separator. *)
LEMMA LevelsFrom ==
  ASSUME NEW S, NEW s \in Seq(S), NEW k \in Nat \ {0}, k <= Len(s) + 1
  PROVE  /\ Levels(s) \in Nat \ {0} /\ Count(s, k) + 1 <= Levels(s)
         /\ k = Len(s) + 1 => Levels(s) = Count(s, k) + 1
         /\ k <= Len(s) /\ s[k] = Slash => Count(s, k) + 2 <= Levels(s)
<1>1. /\ Len(s) \in Nat /\ Len(s) + 1 \in Nat /\ k + 1 \in Nat
      /\ Count(s, k) \in Nat /\ Count(s, Len(s) + 1) \in Nat
      /\ Levels(s) = 1 + Count(s, Len(s) + 1)
  BY CountNat DEF Levels, Count
<1>2. Count(s, k) <= Count(s, Len(s) + 1)
  BY <1>1, CountMonotone
<1>3. ASSUME k <= Len(s), s[k] = Slash
      PROVE  Count(s, k) + 1 <= Count(s, Len(s) + 1)
  <2>1. Count(s, k + 1) = Count(s, k) + 1 /\ k + 1 <= Len(s) + 1
    BY <1>1, <1>3, CountStep
  <2>2. QED
    BY <1>1, <2>1, CountMonotone
<1>4. QED
  BY <1>1, <1>2, <1>3

(* A wildcard of a valid filter is a level of its own. *)
LEMMA WildcardAlone ==
  ASSUME NEW S, NEW f \in Seq(S), ValidFilter(f),
         NEW k \in 1..Len(f), f[k] \in {Plus, Hash}
  PROVE  /\ \A j \in Positions(f, Count(f, k) + 1) : j = k
         /\ Level(f, Count(f, k) + 1) = <<f[k]>>
         /\ k # 1 => f[k - 1] = Slash
         /\ k < Len(f) => f[k + 1] = Slash
         /\ f[k] = Hash => k = Len(f) /\ Count(f, k) + 1 = Levels(f)
<1>0. /\ Len(f) \in Nat /\ k \in Nat \ {0} /\ f[k] # Slash
      /\ k + 1 \in Nat \ {0}
  BY DEF Slash, Plus, Hash
<1>1. PICK n : n = Count(f, k) + 1
  OBVIOUS
<1>2. n \in Nat \ {0} /\ Count(f, k) = n - 1
  <2>1. Count(f, k) \in Nat
    BY <1>0, CountNat
  <2>2. QED
    BY <1>1, <2>1
<1>3. k \in Positions(f, n)
  BY <1>0, <1>2 DEF Positions
<1>4. n \in 1..Levels(f) /\ Has(Level(f, n), f[k])
  BY <1>2, <1>3, LevelCharacters
<1>5. Level(f, n) = <<f[k]>> /\ (f[k] = Hash => n = Levels(f))
  BY <1>4 DEF ValidFilter, Plus, Hash
<1>6. Len(Level(f, n)) = 1
  BY <1>5
<1>7. /\ \A j \in Positions(f, n) : j = k
      /\ k # 1 => f[k - 1] = Slash
      /\ k < Len(f) => f[k + 1] = Slash
  BY <1>2, <1>3, <1>6, OnlyCharacter
<1>8. f[k] = Hash => k = Len(f)
  <2>1. SUFFICES ASSUME f[k] = Hash, k < Len(f) PROVE FALSE
    BY <1>0
  <2>2. Count(f, k + 1) = n - 1 /\ f[k + 1] = Slash /\ k + 1 <= Len(f)
    BY <1>0, <1>2, <1>7, <2>1, CountStep
  <2>3. Count(f, k + 1) + 2 <= Levels(f)
    BY <1>0, <2>2, LevelsFrom
  <2>4. QED
    BY <1>2, <1>5, <2>1, <2>2, <2>3
<1>9. QED
  BY <1>1, <1>5, <1>7, <1>8

(* '#' that is not a whole level, or not the last one, is not valid. *)
LEMMA MisplacedHash ==
  ASSUME NEW S, NEW f \in Seq(S), NEW k \in 1..Len(f), f[k] = Hash,
         k < Len(f) \/ (k # 1 /\ f[k - 1] # Slash)
  PROVE  ~ ValidFilter(f)
BY WildcardAlone

(* A topic and a filter without '+' that part before any '#' do not match, *)
(* unless the filter goes on with the level '#' where the topic ends.      *)
LEMMA Parted ==
  ASSUME NEW S, NEW t \in Seq(S), NEW f \in Seq(S), NEW p \in Nat,
         p <= Len(t), p <= Len(f), \A j \in 1..p : t[j] = f[j],
         ~ Has(f, Plus), ~ Has(t, Hash),
         p < Len(f) => f[p + 1] # Hash,
         p < Len(f) \/ p < Len(t),
         p < Len(f) /\ p < Len(t) => f[p + 1] # t[p + 1],
         Matches(t, f)
  PROVE  IsParent(t, f)
<1>1. PICK k : k = p + 1
  OBVIOUS
<1>2. PICK n : n = Count(f, k) + 1
  OBVIOUS
<1>3. /\ k \in Nat \ {0} /\ k + 1 \in Nat \ {0} /\ n \in Nat \ {0}
      /\ Len(t) \in Nat /\ Len(f) \in Nat
      /\ Count(f, k) = n - 1
  <2>1. k \in Nat \ {0} /\ k + 1 \in Nat \ {0}
    BY <1>1
  <2>2. Count(f, k) \in Nat
    BY <2>1, CountNat
  <2>3. QED
    BY <1>2, <2>1, <2>2
<1>4. Count(t, k) = n - 1
  BY <1>1, <1>3, CountAgrees
<1>5. /\ Levels(f) = 1 + Count(f, Len(f) + 1) /\ Levels(f) \in Nat \ {0}
      /\ Levels(t) = 1 + Count(t, Len(t) + 1) /\ Levels(t) \in Nat \ {0}
      /\ Count(f, Len(f) + 1) \in Nat /\ Count(t, Len(t) + 1) \in Nat
  <2>1. /\ Levels(f) = 1 + Count(f, Len(f) + 1)
        /\ Levels(t) = 1 + Count(t, Len(t) + 1)
    BY DEF Levels, Count
  <2>2. Len(f) + 1 \in Nat /\ Len(t) + 1 \in Nat
    BY <1>3
  <2>3. Count(f, Len(f) + 1) \in Nat /\ Count(t, Len(t) + 1) \in Nat
    BY <2>2, CountNat
  <2>4. QED
    BY <2>1, <2>3
<1> DEFINE LastHash == Level(f, Levels(f)) = <<Hash>>
<1>6. ASSUME NEW m \in 1..Levels(f), ~ (LastHash /\ m = Levels(f))
      PROVE  m <= Levels(t) /\ Level(f, m) = Level(t, m)
  <2>1. LevelMatches(t, f, m)
    BY <1>5, <1>6 DEF Matches
  <2>2. Level(f, m) # <<Plus>>
    <3>1. Has(<<Plus>>, Plus)
      BY DEF Has
    <3>2. Has(Level(f, m), Plus) => \E j \in Positions(f, m) : f[j] = Plus
      BY <1>5, LevelCharacters
    <3>3. QED
      BY <3>1, <3>2 DEF Positions, Has
  <2>3. QED
    BY <2>1, <2>2 DEF LevelMatches
<1>7. CASE p < Len(f) /\ f[k] # Slash
  <2>1. k \in 1..Len(f) /\ k \in Positions(f, n)
    BY <1>1, <1>3, <1>7 DEF Positions
  <2>2. n \in 1..Levels(f) /\ Has(Level(f, n), f[k])
    <3>1. n <= Levels(f) /\ Has(Level(f, n), f[k])
      BY <1>3, <2>1, LevelCharacters
    <3>2. QED
      BY <1>3, <1>5, <3>1
  <2>3. ~ (LastHash /\ n = Levels(f))
    <3>1. ~ Has(<<Hash>>, f[k])
      BY <1>1, <1>7 DEF Has
    <3>2. QED
      BY <2>2, <3>1
  <2>4. Level(f, n) = Level(t, n)
    BY <1>6, <2>2, <2>3
  <2>5. /\ k <= Len(t) + 1 /\ \A j \in 1..(k - 1) : f[j] = t[j]
        /\ k <= Len(t) => f[k] # t[k]
    BY <1>1, <1>3, <1>7
  <2>6. Level(f, Count(f, k) + 1) # Level(t, Count(f, k) + 1)
    BY <1>7, <2>1, <2>5, LevelsDiffer
  <2>7. QED
    BY <1>2, <2>4, <2>6
<1>8. ASSUME p < Len(f), f[k] = Slash
      PROVE  Count(f, k + 1) = n /\ n + 1 <= Levels(f)
  <2>1. Count(f, k + 1) = Count(f, k) + 1
    BY <1>3, <1>8, CountStep
  <2>2. Count(f, k + 1) <= Count(f, Len(f) + 1)
    <3>1. k + 1 <= Len(f) + 1 /\ Len(f) + 1 \in Nat
      BY <1>1, <1>3, <1>8
    <3>2. QED
      BY <1>3, <3>1, CountMonotone
  <2>3. QED
    BY <1>3, <1>5, <2>1, <2>2
<1>9. CASE p < Len(f) /\ f[k] = Slash /\ p < Len(t)
  <2>1. Level(f, n) = Level(t, n)
    <3>1. n + 1 <= Levels(f)
      BY <1>8, <1>9
    <3>2. n \in 1..Levels(f) /\ n # Levels(f)
      BY <1>3, <1>5, <3>1, SMTT(30)
    <3>3. QED
      BY <1>6, <3>2
  <2>2. /\ k \in 1..Len(t) /\ t[k] # Slash /\ k <= Len(f) + 1
        /\ \A j \in 1..(k - 1) : t[j] = f[j]
        /\ k <= Len(f) => t[k] # f[k]
    BY <1>1, <1>3, <1>9
  <2>3. Level(t, Count(t, k) + 1) # Level(f, Count(t, k) + 1)
    BY <2>2, LevelsDiffer
  <2>4. QED
    BY <1>2, <1>3, <1>4, <2>1, <2>3
<1>10. CASE p < Len(f) /\ f[k] = Slash /\ p = Len(t)
  <2>1. Levels(t) = n
    BY <1>1, <1>3, <1>4, <1>5, <1>10
  <2>2. Count(f, k + 1) = n /\ n + 1 <= Levels(f)
    BY <1>8, <1>10
  <2>3. LastHash
    BY <1>3, <2>1, <2>2 DEF Matches
  <2>4. Levels(f) = n + 1
    <3>1. SUFFICES ASSUME n + 1 # Levels(f) PROVE FALSE
      OBVIOUS
    <3>2. n + 1 \in 1..Levels(f)
      BY <1>3, <1>5, <2>2
    <3>3. n + 1 <= Levels(t)
      BY <1>6, <3>1, <3>2
    <3>4. QED
      BY <1>3, <2>1, <3>3
  <2>5. Positions(f, n + 1) # {}
    <3>1. Len(Level(f, n + 1)) = 1
      BY <2>3, <2>4
    <3>2. Len(<<>>) # 1
      OBVIOUS
    <3>3. QED
      BY <3>1, <3>2, LevelEmpty
  <2>6. PICK a \in 1..Len(f), b \in 1..Len(f) : Spans(S, f, n + 1, a, b)
    BY <1>3, <2>5, LevelInterval
  <2>7. a = b
    <3>1. b - a + 1 = 1
      BY <2>3, <2>4, <2>6 DEF Spans
    <3>2. QED
      BY <1>3, <2>6, <3>1
  <2>8. k < a
    <3>1. a \in Nat /\ Count(f, a) = n
      BY <1>3, <2>6 DEF Spans, Positions
    <3>2. a <= k => Count(f, a) <= Count(f, k)
      BY <1>3, <3>1, CountMonotone
    <3>3. QED
      BY <1>3, <3>1, <3>2
  <2>9. ASSUME NEW j \in (k + 1)..Len(f) PROVE j = a
    <3>1. /\ j \in Nat \ {0} /\ j + 1 \in Nat \ {0} /\ j \in 1..Len(f)
          /\ k + 1 <= j /\ j <= Len(f) + 1 /\ j + 1 <= Len(f) + 1
          /\ Len(f) + 1 \in Nat
      BY <1>3, <2>9
    <3>2. Count(f, k + 1) <= Count(f, j) /\ Count(f, j) <= Count(f, Len(f) + 1)
      BY <1>3, <3>1, CountMonotone
    <3>3. Count(f, j) = n
      <4>1. Count(f, j) \in Nat
        BY <3>1, CountNat
      <4>2. QED
        BY <1>3, <1>5, <2>2, <2>4, <3>2, <4>1, SMTT(60)
    <3>4. f[j] # Slash
      <4>1. SUFFICES ASSUME f[j] = Slash PROVE FALSE
        OBVIOUS
      <4>2. Count(f, j + 1) = Count(f, j) + 1
        BY <3>1, <4>1, CountStep
      <4>3. Count(f, j + 1) <= Count(f, Len(f) + 1)
        BY <3>1, CountMonotone
      <4>4. QED
        BY <1>3, <1>5, <2>4, <3>3, <4>2, <4>3
    <3>5. j \in Positions(f, n + 1)
      BY <1>3, <3>1, <3>3, <3>4 DEF Positions
    <3>6. QED
      BY <1>3, <2>6, <2>7, <3>1, <3>5 DEF Spans
  <2>10. a = k + 1 /\ Len(f) = k + 1
    <3>1. k + 1 \in (k + 1)..Len(f) /\ Len(f) \in (k + 1)..Len(f)
      BY <1>3, <2>6, <2>8
    <3>2. QED
      BY <2>9, <3>1
  <2>11. f[k + 1] = Hash
    <3>1. Level(f, n + 1)[a - a + 1] = f[a]
      BY <1>3, <2>6, <2>7 DEF Spans
    <3>2. a - a + 1 = 1
      BY <1>3, <2>10
    <3>3. <<Hash>>[1] = Hash
      OBVIOUS
    <3>4. QED
      BY <2>3, <2>4, <2>10, <3>1, <3>2, <3>3
  <2>12. PICK g : g = t \o <<Slash, Hash>>
    OBVIOUS
  <2>13. Slash \in S /\ Hash \in S
    BY <1>1, <1>3, <1>10, <2>10, <2>11
  <2>14. /\ g \in Seq(S) /\ Len(g) = k + 1
         /\ \A j \in 1..p : g[j] = t[j]
         /\ g[k] = Slash /\ g[k + 1] = Hash
    BY <1>1, <1>3, <1>10, <2>12, <2>13
  <2>15. \A j \in 1..Len(f) : f[j] = g[j]
    BY <1>1, <1>3, <1>10, <2>10, <2>11, <2>14
  <2>16. f = g
    BY <2>10, <2>14, <2>15, SeqEqual
  <2>17. QED
    BY <2>12, <2>16 DEF IsParent
<1>11. CASE p = Len(f) /\ p < Len(t)
  <2>1. Levels(f) = n
    BY <1>1, <1>3, <1>5, <1>11
  <2>2. ~ LastHash
    <3>1. Has(<<Hash>>, Hash)
      BY DEF Has
    <3>2. Has(Level(f, n), Hash) => \E j \in Positions(f, n) : f[j] = Hash
      BY <1>3, LevelCharacters
    <3>3. \A j \in Positions(f, n) : f[j] # Hash
      BY <1>3, <1>11 DEF Positions, Has
    <3>4. QED
      BY <2>1, <3>1, <3>2, <3>3
  <2>3. Levels(t) = n
    BY <2>1, <2>2 DEF Matches
  <2>4. Level(f, n) = Level(t, n)
    BY <1>3, <1>6, <2>1, <2>2
  <2>5. t[k] # Slash
    <3>1. SUFFICES ASSUME t[k] = Slash PROVE FALSE
      OBVIOUS
    <3>2. Count(t, k + 1) = Count(t, k) + 1
      BY <1>3, <3>1, CountStep
    <3>3. k + 1 <= Len(t) + 1 /\ Len(t) + 1 \in Nat
      BY <1>1, <1>3, <1>11
    <3>4. Count(t, k + 1) <= Count(t, Len(t) + 1)
      BY <1>3, <3>3, CountMonotone
    <3>5. QED
      BY <1>3, <1>4, <1>5, <2>3, <3>2, <3>4
  <2>6. /\ k \in 1..Len(t) /\ k <= Len(f) + 1 /\ ~ (k <= Len(f))
        /\ \A j \in 1..(k - 1) : t[j] = f[j]
    BY <1>1, <1>3, <1>11
  <2>7. Level(t, Count(t, k) + 1) # Level(f, Count(t, k) + 1)
    BY <2>5, <2>6, LevelsDiffer
  <2>8. QED
    BY <1>2, <1>3, <1>4, <2>4, <2>7
<1>12. QED
  BY <1>3, <1>7, <1>9, <1>10, <1>11

(* The characters of level n up to p are those of level n of t up to q,    *)
(* as far from the start of the level.                                     *)
Shifted(s, t, p, q, n) ==
  \A j \in Positions(s, n) : j <= p => j + (q - p) \in Positions(t, n)

(* Equal levels that are aligned up to two positions go on alike. *)
LEMMA AlignedLevels ==
  ASSUME NEW S, NEW s \in Seq(S), NEW t \in Seq(S),
         NEW p \in Nat, NEW q \in Nat, NEW n \in Nat,
         Count(t, q + 1) = n - 1,
         Shifted(s, t, p, q, n), Shifted(t, s, q, p, n),
         Level(s, n) = Level(t, n), p + 1 \in Positions(s, n)
  PROVE  q + 1 \in Positions(t, n) /\ s[p + 1] = t[q + 1]
<1>0. Len(s) \in Nat /\ Len(t) \in Nat /\ q + 1 \in Nat \ {0}
  OBVIOUS
<1>1. PICK a \in 1..Len(s), b \in 1..Len(s) : Spans(S, s, n, a, b)
  BY LevelInterval
<1>2. Positions(t, n) # {}
  <2>1. Len(Level(t, n)) = b - a + 1 /\ a <= b
    BY <1>1 DEF Spans
  <2>2. Len(<<>>) # b - a + 1
    BY <1>0, <1>1, <2>1
  <2>3. QED
    BY <2>1, <2>2, LevelEmpty
<1>3. PICK c \in 1..Len(t), d \in 1..Len(t) : Spans(S, t, n, c, d)
  BY <1>2, LevelInterval
<1>4. b - a = d - c /\ a <= p + 1 /\ p + 1 <= b
  <2>1. b - a + 1 = d - c + 1
    BY <1>1, <1>3 DEF Spans
  <2>2. a <= p + 1 /\ p + 1 <= b
    BY <1>1 DEF Spans
  <2>3. QED
    BY <1>0, <2>1, <2>2
<1>5. c = a + (q - p)
  <2>1. CASE a <= p
    <3>1. c <= a + (q - p)
      BY <1>1, <1>3, <2>1 DEF Spans, Shifted
    <3>2. c <= q
      BY <1>0, <1>1, <1>3, <2>1, <3>1
    <3>3. a <= c + (p - q)
      BY <1>1, <1>3, <3>2 DEF Spans, Shifted
    <3>4. QED
      BY <1>0, <1>1, <1>3, <3>1, <3>3
  <2>2. CASE a = p + 1
    <3>1. q + 1 <= c
      <4>1. SUFFICES ASSUME c <= q PROVE FALSE
        BY <1>0, <1>3
      <4>2. a <= c + (p - q)
        BY <1>1, <1>3, <4>1 DEF Spans, Shifted
      <4>3. QED
        BY <1>0, <1>3, <2>2, <4>1, <4>2
    <3>2. q + 1 \in 1..Len(t) /\ c \in Nat
      BY <1>0, <1>3, <3>1
    <3>3. t[q + 1] # Slash
      <4>1. SUFFICES ASSUME t[q + 1] = Slash PROVE FALSE
        OBVIOUS
      <4>2. Count(t, (q + 1) + 1) = Count(t, q + 1) + 1
        BY <1>0, <4>1, CountStep
      <4>3. c # q + 1 /\ Count(t, c) = n - 1
        BY <1>3, <4>1 DEF Spans, Positions
      <4>4. (q + 1) + 1 <= c /\ (q + 1) + 1 \in Nat
        BY <1>0, <3>1, <3>2, <4>3
      <4>5. Count(t, (q + 1) + 1) <= Count(t, c)
        BY <3>2, <4>4, CountMonotone
      <4>6. QED
        BY <4>2, <4>3, <4>5
    <3>4. q + 1 \in Positions(t, n)
      BY <3>2, <3>3 DEF Positions
    <3>5. c <= q + 1
      BY <1>3, <3>4 DEF Spans
    <3>6. QED
      BY <1>0, <2>2, <3>1, <3>2, <3>5
  <2>3. QED
    BY <1>0, <1>1, <1>4, <2>1, <2>2
<1>6. /\ q + 1 \in c..d /\ p + 1 \in a..b
      /\ (p + 1) - a + 1 = (q + 1) - c + 1
  BY <1>0, <1>1, <1>3, <1>4, <1>5
<1>7. /\ Level(s, n)[(p + 1) - a + 1] = s[p + 1]
      /\ Level(t, n)[(q + 1) - c + 1] = t[q + 1]
      /\ q + 1 \in Positions(t, n)
  BY <1>1, <1>3, <1>6 DEF Spans
<1>8. QED
  BY <1>6, <1>7

-----------------------------------------------------------------------------
(* How the loop over a filter without '+' ends: the five ways to return,   *)
(* each with what is known of the position where it stopped.               *)

WholeLastLevel ==
  filterPos + 1 = Len(filter) /\ (filterPos # 0 => filter[filterPos] = Slash)

AtHash == filterPos < Len(filter) /\ filter[filterPos + 1] = Hash

Outcome ==
  ~ Has(filter, Plus) /\ ~ Running =>
    \/ result = "true" /\ AtHash /\ WholeLastLevel
    \/ result = "true" /\ topic = filter
    \/ result = "false" /\ AtHash /\ ~ WholeLastLevel
    \/ /\ result = "false" /\ ~ AtHash
       /\ filterPos < Len(filter) \/ filterPos < Len(topic)
       /\ filterPos < Len(filter) /\ filterPos < Len(topic)
            => filter[filterPos + 1] # topic[filterPos + 1]

LEMMA InitOutcome == Init => Outcome
BY DEF Init, Outcome, Running

LEMMA NextOutcome ==
  ASSUME MatchInv, Outcome, [Next]_vars
  PROVE  Outcome'
<1>1. /\ topic \in Seq(Letters \cup {Slash}) /\ Len(topic) \in Nat
      /\ filter \in Seq(Letters \cup {Slash, Plus, Hash})
      /\ Len(filter) \in Nat /\ filterPos \in Nat /\ filterPos <= Len(filter)
  BY StringsAreSequences DEF MatchInv, TypeOK, Topics, Filters
<1>2. SUFFICES ASSUME ~ Has(filter, Plus)' PROVE Outcome'
  BY DEF Outcome
<1>3. CASE UNCHANGED vars
  BY <1>3 DEF Outcome, vars, Running, AtHash, WholeLastLevel
<1>4. CASE Next
  <2>1. Running /\ filter' = filter /\ topic' = topic
    BY <1>4 DEF Next, MultiLevel, PlusInvalid, PlusSkip, PlusLast, PlusNext,
           Literal, Finish, FilterAt, Running, Return
  <2>2. ~ Has(filter, Plus)
    BY <1>2, <2>1 DEF Has
  <2>3. CASE MultiLevel
    <3>1. AtHash
      BY <2>3 DEF MultiLevel, FilterAt, CharAt, AtHash
    <3>2. WholeLastLevel
            <=> Len(filter) = 1 \/ (AfterSlash /\ AtEnd)
      <4>1. (filterPos - 1) + 1 = filterPos
        BY <1>1
      <4>2. AfterSlash <=> (filterPos # 0 => filter[filterPos] = Slash)
        BY <4>1 DEF AfterSlash, CharAt
      <4>3. AtEnd <=> filterPos + 1 = Len(filter)
        BY <1>1 DEF AtEnd
      <4>4. Len(filter) = 1 => filterPos = 0 /\ filterPos + 1 = Len(filter)
        BY <1>1, <3>1 DEF AtHash
      <4>5. QED
        BY <4>2, <4>3, <4>4 DEF WholeLastLevel
    <3>3. AtHash' /\ (WholeLastLevel' <=> WholeLastLevel)
      BY <2>3, <3>1 DEF MultiLevel, Return, AtHash, WholeLastLevel
    <3>4. result' = IF WholeLastLevel THEN "true" ELSE "false"
      BY <2>3, <3>2 DEF MultiLevel, Return
    <3>5. QED
      BY <3>3, <3>4 DEF Outcome
  <2>4. CASE PlusInvalid \/ PlusSkip \/ PlusLast \/ PlusNext
    BY <1>1, <2>2, <2>4 DEF PlusInvalid, PlusSkip, PlusLast, PlusNext,
           FilterAt, CharAt, Has
  <2>5. topicPos = filterPos
    BY <2>2 DEF MatchInv, SafeWithoutPlus
  <2>6. CASE Literal
    BY <1>1, <2>1, <2>5, <2>6 DEF Literal, FilterTooLong, CharAt, Return,
           Running, Outcome, AtHash
  <2>7. CASE Finish
    <3>1. CASE Len(filter) # Len(topic) /\ topicPos < Len(topic)
               /\ Return("false")
      BY <1>1, <2>5, <2>7, <3>1 DEF Finish, Return, Outcome, AtHash
    <3>2. CASE (Len(filter) = Len(topic) \/ topicPos >= Len(topic))
               /\ Return("true")
      <4>1. \A j \in 1..Len(filter) : j <= Len(topic) /\ topic[j] = filter[j]
        BY <2>2, <2>7 DEF MatchInv, PrefixAgrees, Finish
      <4>2. Len(filter) = Len(topic)
        BY <1>1, <2>5, <2>7, <3>2, <4>1 DEF Finish
      <4>3. topic = filter
        BY <1>1, <4>1, <4>2
      <4>4. QED
        BY <3>2, <4>3 DEF Return, Outcome
    <3>3. QED
      BY <2>7, <3>1, <3>2 DEF Finish
  <2>8. QED
    BY <1>4, <2>3, <2>4, <2>6, <2>7 DEF Next
<1>5. QED
  BY <1>3, <1>4

-----------------------------------------------------------------------------
(* Filters with '+'.  While it runs on a topic that it should match, the   *)
(* loop is in the same level of both strings, never further in the filter  *)
(* than in the topic, and as far from the start of the level in both,      *)
(* unless that level of the filter is '+'.                                 *)

Expected(t, f) ==
  /\ Matches(t, f)
  /\ \A k \in 1..Levels(t) : Level(t, k) # <<>>
  /\ Has(f, Hash) => Levels(f) <= Levels(t)

Aligned(t, f, p, q) ==
  /\ Count(t, q + 1) = Count(f, p + 1)
  /\ p <= q
  /\ \A j \in 1..p : f[j] # Hash
  /\ p < Len(f) /\ f[p + 1] = Plus
       => \A j \in Positions(t, Count(f, p + 1) + 1) : p < j
  /\ p # 0 /\ f[p] = Plus => q < Len(t) /\ t[q + 1] = Slash
  /\ ~ (p < Len(f) /\ f[p + 1] = Plus) /\ ~ (p # 0 /\ f[p] = Plus)
       => /\ Shifted(f, t, p, q, Count(f, p + 1) + 1)
          /\ Shifted(t, f, q, p, Count(f, p + 1) + 1)

(* What Expected says of a level of the filter other than a last '#'. *)
LEMMA ExpectedLevel ==
  ASSUME NEW S, NEW t \in Seq(S), NEW f \in Seq(S), Expected(t, f),
         NEW n \in 1..Levels(f),
         ~ (Level(f, Levels(f)) = <<Hash>> /\ n = Levels(f))
  PROVE  n <= Levels(t) /\ Level(f, n) \in {<<Plus>>, Level(t, n)}
<1>1. Levels(f) \in Nat \ {0}
  BY LevelCharacters
<1>2. LevelMatches(t, f, n)
  BY <1>1 DEF Expected, Matches
<1>3. QED
  BY <1>2 DEF LevelMatches

(* Behind the last character of a level '+' of the filter stands '+'. *)
LEMMA PlusIsBehind ==
  ASSUME NEW S, NEW f \in Seq(S), NEW p \in Nat, p <= Len(f),
         p + 1 \notin Positions(f, Count(f, p + 1) + 1),
         Level(f, Count(f, p + 1) + 1) = <<Plus>>
  PROVE  p # 0 /\ f[p] = Plus
<1>1. PICK n : n = Count(f, p + 1) + 1
  OBVIOUS
<1>2. /\ n \in Nat \ {0} /\ Count(f, p + 1) = n - 1 /\ Len(f) \in Nat
      /\ p + 1 \in Nat \ {0} /\ (p + 1) + 1 \in Nat
  <2>1. Count(f, p + 1) \in Nat
    BY CountNat
  <2>2. QED
    BY <1>1, <2>1
<1>3. Has(Level(f, n), Plus) /\ Len(Level(f, n)) = 1
  BY <1>1 DEF Has
<1>4. PICK j \in Positions(f, n) : f[j] = Plus
  BY <1>2, <1>3, LevelCharacters
<1>5. j \in 1..Len(f) /\ j \in Nat \ {0} /\ Count(f, j) = n - 1
  BY <1>2, <1>4 DEF Positions
<1>6. j <= p
  <2>1. SUFFICES ASSUME p + 1 <= j PROVE FALSE
    BY <1>5
  <2>2. j # p + 1
    BY <1>1, <1>4
  <2>3. p + 1 \in 1..Len(f) /\ (p + 1) + 1 <= j
    BY <1>2, <1>5, <2>1, <2>2
  <2>4. f[p + 1] = Slash
    BY <1>1, <1>2, <2>3 DEF Positions
  <2>5. Count(f, (p + 1) + 1) = Count(f, p + 1) + 1
    BY <1>2, <2>4, CountStep
  <2>6. Count(f, (p + 1) + 1) <= Count(f, j)
    BY <1>2, <1>5, <2>3, CountMonotone
  <2>7. QED
    BY <1>2, <1>5, <2>5, <2>6
<1>7. p \in Positions(f, n)
  <2>1. p \in Nat \ {0} /\ p \in 1..Len(f) /\ p <= p + 1
    BY <1>5, <1>6
  <2>2. Count(f, j) <= Count(f, p) /\ Count(f, p) <= Count(f, p + 1)
    BY <1>2, <1>5, <1>6, <2>1, CountMonotone
  <2>3. Count(f, p) \in Nat
    BY CountNat
  <2>4. Count(f, p) = n - 1
    BY <1>2, <1>5, <2>2, <2>3
  <2>5. f[p] # Slash
    BY <1>2, <2>1, <2>4, CountStep
  <2>6. QED
    BY <2>1, <2>4, <2>5 DEF Positions
<1>8. p = j
  BY <1>2, <1>3, <1>4, <1>7, OnlyCharacter
<1>9. QED
  BY <1>4, <1>5, <1>8

(* Any other character of the filter is the next one of the topic: the     *)
(* read at topicPos is in range and the comparison succeeds.               *)
LEMMA LiteralAgrees ==
  ASSUME NEW S, NEW t \in Seq(S), NEW f \in Seq(S),
         NEW p \in Nat, NEW q \in Nat,
         p < Len(f), q <= Len(t), Expected(t, f), Aligned(t, f, p, q),
         f[p + 1] \notin {Plus, Hash}
  PROVE  q < Len(t) /\ f[p + 1] = t[q + 1]
<1>1. PICK n : n = Count(f, p + 1) + 1
  OBVIOUS
<1>2. /\ n \in Nat \ {0} /\ Count(f, p + 1) = n - 1 /\ Count(t, q + 1) = n - 1
      /\ Len(f) \in Nat /\ Len(t) \in Nat /\ p + 1 \in 1..Len(f)
      /\ p + 1 \in Nat \ {0} /\ q + 1 \in Nat \ {0}
  <2>1. Count(f, p + 1) \in Nat
    BY CountNat
  <2>2. Count(t, q + 1) = Count(f, p + 1)
    BY DEF Aligned
  <2>3. QED
    BY <1>1, <2>1, <2>2
<1>3. n \in 1..Levels(f) /\ (f[p + 1] = Slash => n + 1 <= Levels(f))
  <2>1. p + 1 <= Len(f) + 1 /\ p + 1 <= Len(f)
    BY <1>2
  <2>2. /\ Levels(f) \in Nat /\ Count(f, p + 1) + 1 <= Levels(f)
        /\ f[p + 1] = Slash => Count(f, p + 1) + 2 <= Levels(f)
    BY <1>2, <2>1, LevelsFrom
  <2>3. QED
    BY <1>2, <2>2
<1>4. CASE p # 0 /\ f[p] = Plus
  <2>1. q < Len(t) /\ t[q + 1] = Slash
    BY <1>4 DEF Aligned
  <2>2. p \in 1..Len(f) /\ ValidFilter(f)
    BY <1>2, <1>4 DEF Expected, Matches
  <2>3. f[p + 1] = Slash
    BY <1>4, <2>2, WildcardAlone
  <2>4. QED
    BY <2>1, <2>3
<1>5. CASE ~ (p # 0 /\ f[p] = Plus)
  <2>1. Shifted(f, t, p, q, n) /\ Shifted(t, f, q, p, n)
    BY <1>1, <1>5 DEF Aligned
  <2>2. CASE f[p + 1] # Slash
    <3>1. p + 1 \in Positions(f, n)
      BY <1>2, <2>2 DEF Positions
    <3>2. Has(Level(f, n), f[p + 1])
      BY <1>2, <3>1, LevelCharacters
    <3>3. ~ Has(<<Plus>>, f[p + 1]) /\ ~ Has(<<Hash>>, f[p + 1])
      BY DEF Has
    <3>4. Level(f, n) = Level(t, n)
      BY <1>3, <3>2, <3>3, ExpectedLevel
    <3>5. q + 1 \in Positions(t, n) /\ f[p + 1] = t[q + 1]
      BY <1>2, <2>1, <3>1, <3>4, AlignedLevels
    <3>6. QED
      BY <1>2, <3>5 DEF Positions
  <2>3. CASE f[p + 1] = Slash
    <3>1. n # Levels(f) /\ Levels(f) \in Nat
      BY <1>2, <1>3, <2>3, LevelCharacters
    <3>2. n <= Levels(t) /\ Level(f, n) \in {<<Plus>>, Level(t, n)}
      BY <1>3, <3>1, ExpectedLevel
    <3>3. q < Len(t)
      <4>1. SUFFICES ASSUME q = Len(t) PROVE FALSE
        BY <1>2
      <4>2. Levels(t) = n
        <5>1. q + 1 = Len(t) + 1 /\ q + 1 <= Len(t) + 1
          BY <1>2, <4>1
        <5>2. Levels(t) = Count(t, q + 1) + 1
          BY <1>2, <5>1, LevelsFrom
        <5>3. QED
          BY <1>2, <5>2
      <4>3. Levels(f) <= Levels(t)
        <5>1. CASE Level(f, Levels(f)) = <<Hash>>
          <6>1. Has(Level(f, Levels(f)), Hash)
            BY <5>1 DEF Has
          <6>2. \E k \in Positions(f, Levels(f)) : f[k] = Hash
            BY <6>1, LevelCharacters
          <6>3. Has(f, Hash)
            BY <6>2 DEF Has, Positions
          <6>4. QED
            BY <6>3 DEF Expected
        <5>2. CASE Level(f, Levels(f)) # <<Hash>>
          <6>1. Levels(t) = Levels(f)
            BY <5>2 DEF Expected, Matches
          <6>2. QED
            BY <3>1, <6>1
        <5>3. QED
          BY <5>1, <5>2
      <4>4. QED
        BY <1>2, <1>3, <2>3, <3>1, <4>2, <4>3
    <3>4. t[q + 1] = Slash
      <4>1. SUFFICES ASSUME t[q + 1] # Slash PROVE FALSE
        OBVIOUS
      <4>2. q + 1 \in Positions(t, n)
        BY <1>2, <3>3, <4>1 DEF Positions
      <4>3. p + 1 \notin Positions(f, n)
        BY <2>3 DEF Positions
      <4>4. Level(f, n) # <<Plus>>
        BY <1>1, <1>2, <1>5, <4>3, PlusIsBehind
      <4>5. Level(t, n) = Level(f, n)
        BY <3>2, <4>4
      <4>6. p + 1 \in Positions(f, n)
        BY <1>2, <2>1, <4>2, <4>5, AlignedLevels
      <4>7. QED
        BY <4>3, <4>6
    <3>5. QED
      BY <2>3, <3>3, <3>4
  <2>4. QED
    BY <2>2, <2>3
<1>6. QED
  BY <1>4, <1>5

(* At the end of the filter the topic ends, too. *)
LEMMA EndAgrees ==
  ASSUME NEW S, NEW t \in Seq(S), NEW f \in Seq(S),
         NEW p \in Nat, NEW q \in Nat,
         p = Len(f), q < Len(t), Expected(t, f), Aligned(t, f, p, q)
  PROVE  FALSE
<1>1. PICK n : n = Count(f, p + 1) + 1
  OBVIOUS
<1>2. /\ n \in Nat \ {0} /\ Count(f, p + 1) = n - 1 /\ Count(t, q + 1) = n - 1
      /\ Len(f) \in Nat /\ Len(t) \in Nat
      /\ q + 1 \in 1..Len(t) /\ q + 1 \in Nat \ {0} /\ p + 1 \in Nat \ {0}
  <2>1. Count(f, p + 1) \in Nat
    BY CountNat
  <2>2. Count(t, q + 1) = Count(f, p + 1)
    BY DEF Aligned
  <2>3. QED
    BY <1>1, <2>1, <2>2
<1>3. Levels(f) = n
  <2>1. p + 1 = Len(f) + 1 /\ p + 1 <= Len(f) + 1
    BY <1>2
  <2>2. Levels(f) = Count(f, p + 1) + 1
    BY <1>2, <2>1, LevelsFrom
  <2>3. QED
    BY <1>1, <2>2
<1>4. Level(f, n) # <<Hash>>
  <2>1. SUFFICES ASSUME Level(f, n) = <<Hash>> PROVE FALSE
    OBVIOUS
  <2>2. Has(Level(f, n), Hash)
    BY <2>1 DEF Has
  <2>3. PICK k \in Positions(f, n) : f[k] = Hash
    BY <1>2, <2>2, LevelCharacters
  <2>4. QED
    BY <2>3 DEF Positions, Aligned
<1>5. Levels(t) = n
  BY <1>3, <1>4 DEF Expected, Matches
<1>6. t[q + 1] # Slash
  <2>1. q + 1 <= Len(t) /\ q + 1 <= Len(t) + 1
    BY <1>2
  <2>2. t[q + 1] = Slash => Count(t, q + 1) + 2 <= Levels(t)
    BY <1>2, <2>1, LevelsFrom
  <2>3. QED
    BY <1>2, <1>5, <2>2
<1>7. ~ (p # 0 /\ f[p] = Plus)
  BY <1>6 DEF Aligned
<1>8. Shifted(f, t, p, q, n) /\ Shifted(t, f, q, p, n)
  BY <1>1, <1>2, <1>7 DEF Aligned
<1>9. p + 1 \notin Positions(f, n)
  BY <1>2 DEF Positions
<1>10. Level(f, n) # <<Plus>>
  BY <1>1, <1>2, <1>7, <1>9, PlusIsBehind
<1>11. Level(t, n) = Level(f, n)
  BY <1>2, <1>3, <1>4, <1>10, ExpectedLevel
<1>12. q + 1 \in Positions(t, n)
  BY <1>2, <1>6 DEF Positions
<1>13. p + 1 \in Positions(f, n)
  BY <1>2, <1>8, <1>11, <1>12, AlignedLevels
<1>14. QED
  BY <1>9, <1>13

(* The loop starts aligned. *)
LEMMA StartAligned ==
  ASSUME NEW S, NEW t \in Seq(S), NEW f \in Seq(S)
  PROVE  Aligned(t, f, 0, 0)
<1>1. Count(t, 0 + 1) = Count(f, 0 + 1)
  BY CountAgrees
<1>2. \A s, n : \A j \in Positions(s, n) : 0 < j /\ ~ (j <= 0)
  BY DEF Positions
<1>3. QED
  BY <1>1, <1>2 DEF Aligned, Shifted

(* Comparing two characters that are equal keeps the loop aligned. *)
LEMMA LiteralAligned ==
  ASSUME NEW S, NEW t \in Seq(S), NEW f \in Seq(S),
         NEW p \in Nat, NEW q \in Nat,
         p < Len(f), q < Len(t), Expected(t, f), Aligned(t, f, p, q),
         f[p + 1] \notin {Plus, Hash}, f[p + 1] = t[q + 1]
  PROVE  Aligned(t, f, p + 1, q + 1)
<1>1. PICK n : n = Count(f, p + 1) + 1
  OBVIOUS
<1>2. PICK m : m = Count(f, (p + 1) + 1) + 1
  OBVIOUS
<1>3. /\ n \in Nat \ {0} /\ Count(f, p + 1) = n - 1 /\ Count(t, q + 1) = n - 1
      /\ Len(f) \in Nat /\ Len(t) \in Nat /\ p + 1 \in 1..Len(f)
      /\ q + 1 \in 1..Len(t) /\ p <= q
      /\ p + 1 \in Nat \ {0} /\ q + 1 \in Nat \ {0}
  <2>1. Count(f, p + 1) \in Nat
    BY CountNat
  <2>2. Count(t, q + 1) = Count(f, p + 1) /\ p <= q
    BY DEF Aligned
  <2>3. QED
    BY <1>1, <2>1, <2>2
<1>4. /\ Count(t, (q + 1) + 1) = m - 1 /\ Count(f, (p + 1) + 1) = m - 1
      /\ m = IF f[p + 1] = Slash THEN n + 1 ELSE n
  <2>1. CASE f[p + 1] = Slash
    <3>1. /\ Count(f, (p + 1) + 1) = Count(f, p + 1) + 1
          /\ Count(t, (q + 1) + 1) = Count(t, q + 1) + 1
      BY <1>3, <2>1, CountStep
    <3>2. QED
      BY <1>2, <1>3, <2>1, <3>1
  <2>2. CASE f[p + 1] # Slash
    <3>1. /\ Count(f, (p + 1) + 1) = Count(f, p + 1)
          /\ Count(t, (q + 1) + 1) = Count(t, q + 1)
      BY <1>3, <2>2, CountStep
    <3>2. QED
      BY <1>2, <1>3, <2>2, <3>1
  <2>3. QED
    BY <2>1, <2>2
<1>5. \A j \in 1..(p + 1) : f[j] # Hash
  BY <1>3 DEF Aligned
<1>6. ASSUME f[p + 1] = Slash, NEW s, NEW j \in Positions(s, m),
             NEW k \in Nat, Count(s, k) = n - 1
      PROVE  k < j /\ j \in Nat
  <2>1. j \in Nat /\ Count(s, j) = n
    BY <1>3, <1>4, <1>6 DEF Positions
  <2>2. QED
    BY <1>3, <1>6, <2>1, CountMonotone
<1>7. ASSUME p + 1 < Len(f), f[(p + 1) + 1] = Plus
      PROVE  \A j \in Positions(t, m) : p + 1 < j
  <2>1. f[p + 1] = Slash
    <3>1. PICK k : k = (p + 1) + 1
      OBVIOUS
    <3>2. k \in 1..Len(f) /\ k # 1 /\ k - 1 = p + 1 /\ f[k] = Plus
      BY <1>3, <1>7, <3>1
    <3>3. QED
      BY <3>2, WildcardAlone DEF Expected, Matches
  <2>2. \A j \in Positions(t, m) : q + 1 < j /\ j \in Nat
    BY <1>3, <1>6, <2>1
  <2>3. QED
    BY <1>3, <2>2
<1>8. /\ Shifted(f, t, p + 1, q + 1, m)
      /\ Shifted(t, f, q + 1, p + 1, m)
  <2>0. (q + 1) - (p + 1) = q - p /\ (p + 1) - (q + 1) = p - q
    BY <1>3
  <2>1. CASE f[p + 1] = Slash
    <3>1. \A j \in Positions(f, m) : p + 1 < j /\ j \in Nat
      BY <1>3, <1>6, <2>1
    <3>2. \A j \in Positions(t, m) : q + 1 < j /\ j \in Nat
      BY <1>3, <1>6, <2>1
    <3>3. QED
      BY <1>3, <3>1, <3>2 DEF Shifted
  <2>2. CASE f[p + 1] # Slash
    <3>1. m = n
      BY <1>4, <2>2
    <3>2. ~ (p # 0 /\ f[p] = Plus)
      BY <2>2 DEF Aligned
    <3>3. Shifted(f, t, p, q, n) /\ Shifted(t, f, q, p, n)
      BY <1>1, <3>2 DEF Aligned
    <3>4. p + 1 \in Positions(f, n) /\ q + 1 \in Positions(t, n)
      BY <1>3, <2>2 DEF Positions
    <3>5. ASSUME NEW j \in Positions(f, n), j <= p + 1
          PROVE  j + (q - p) \in Positions(t, n)
      <4>1. j \in Nat /\ (j <= p \/ (j = p + 1 /\ j + (q - p) = q + 1))
        BY <1>3, <3>5 DEF Positions
      <4>2. QED
        BY <3>3, <3>4, <4>1 DEF Shifted
    <3>6. ASSUME NEW j \in Positions(t, n), j <= q + 1
          PROVE  j + (p - q) \in Positions(f, n)
      <4>1. j \in Nat /\ (j <= q \/ (j = q + 1 /\ j + (p - q) = p + 1))
        BY <1>3, <3>6 DEF Positions
      <4>2. QED
        BY <3>3, <3>4, <4>1 DEF Shifted
    <3>7. QED
      BY <2>0, <3>1, <3>5, <3>6 DEF Shifted
  <2>3. QED
    BY <2>1, <2>2
<1>9. p + 1 <= q + 1
  BY <1>3
<1>10. QED
  BY <1>2, <1>4, <1>5, <1>7, <1>8, <1>9 DEF Aligned

(* '+' of an expected filter: the loop may skip it. *)
LEMMA PlusWhole ==
  ASSUME NEW S, NEW t \in Seq(S), NEW f \in Seq(S), NEW p \in Nat,
         p < Len(f), Expected(t, f), f[p + 1] = Plus
  PROVE  /\ p # 0 => f[p] = Slash
         /\ p + 1 # Len(f) => f[p + 2] = Slash
<1>1. PICK k : k = p + 1
  OBVIOUS
<1>2. /\ k \in 1..Len(f) /\ f[k] = Plus /\ k - 1 = p /\ k + 1 = p + 2
      /\ (k # 1 <=> p # 0) /\ (k < Len(f) <=> p + 1 # Len(f))
  BY <1>1
<1>3. /\ k # 1 => f[k - 1] = Slash
      /\ k < Len(f) => f[k + 1] = Slash
  BY <1>2, WildcardAlone DEF Expected, Matches
<1>4. QED
  BY <1>2, <1>3

(* Stepping over a character of the topic's level at '+' *)
LEMMA SkipAligned ==
  ASSUME NEW S, NEW t \in Seq(S), NEW f \in Seq(S),
         NEW p \in Nat, NEW q \in Nat,
         p < Len(f), Expected(t, f), Aligned(t, f, p, q),
         f[p + 1] = Plus, t[q + 1] # Slash
  PROVE  Aligned(t, f, p, q + 1)
<1>1. p # 0 => f[p] = Slash
  BY PlusWhole
<1>2. Count(t, (q + 1) + 1) = Count(t, q + 1)
  BY CountStep
<1>3. ~ (p # 0 /\ f[p] = Plus)
  BY <1>1 DEF Slash, Plus
<1>4. QED
  BY <1>2, <1>3 DEF Aligned

(* Leaving '+' at the end of the topic's level.  The level has a character *)
(* that the loop has skipped, so that the filter's position stays behind.  *)
LEMMA NextAligned ==
  ASSUME NEW S, NEW t \in Seq(S), NEW f \in Seq(S),
         NEW p \in Nat, NEW q \in Nat,
         p < Len(f), q < Len(t), Expected(t, f), Aligned(t, f, p, q),
         f[p + 1] = Plus, t[q + 1] = Slash
  PROVE  Aligned(t, f, p + 1, q)
<1>1. PICK n : n = Count(f, p + 1) + 1
  OBVIOUS
<1>2. /\ n \in Nat \ {0} /\ Count(f, p + 1) = n - 1 /\ Count(t, q + 1) = n - 1
      /\ Len(f) \in Nat /\ Len(t) \in Nat
      /\ p + 1 \in Nat \ {0} /\ q + 1 \in Nat \ {0}
  <2>1. Count(f, p + 1) \in Nat
    BY CountNat
  <2>2. Count(t, q + 1) = Count(f, p + 1)
    BY DEF Aligned
  <2>3. QED
    BY <1>1, <2>1, <2>2
<1>3. Count(f, (p + 1) + 1) = Count(f, p + 1)
  <2>1. f[p + 1] # Slash
    BY DEF Slash, Plus
  <2>2. QED
    BY <1>2, <2>1, CountStep
<1>4. PICK j \in Positions(t, n) : TRUE
  <2>1. n \in 1..Levels(t)
    <3>1. q + 1 <= Len(t) + 1
      BY <1>2
    <3>2. Levels(t) \in Nat /\ Count(t, q + 1) + 1 <= Levels(t)
      BY <1>2, <3>1, LevelsFrom
    <3>3. QED
      BY <1>2, <3>2
  <2>2. Level(t, n) # <<>>
    BY <2>1 DEF Expected
  <2>3. QED
    BY <2>2, LevelEmpty
<1>5. j \in Nat /\ Count(t, j) = n - 1 /\ t[j] # Slash /\ p < j
  BY <1>1 DEF Positions, Aligned
<1>6. j <= q
  <2>1. SUFFICES ASSUME q + 1 <= j PROVE FALSE
    BY <1>5
  <2>2. (q + 1) + 1 <= j /\ (q + 1) + 1 \in Nat
    BY <1>2, <1>5, <2>1
  <2>3. Count(t, (q + 1) + 1) = Count(t, q + 1) + 1
    BY <1>2, CountStep
  <2>4. Count(t, (q + 1) + 1) <= Count(t, j)
    BY <1>5, <2>2, CountMonotone
  <2>5. QED
    BY <1>2, <1>5, <2>3, <2>4
<1>7. p + 1 <= q
  BY <1>5, <1>6
<1>8. ~ (p + 1 < Len(f) /\ f[(p + 1) + 1] = Plus)
  <2>1. p + 1 # Len(f) => f[p + 2] = Slash
    BY PlusWhole
  <2>2. (p + 1) + 1 = p + 2
    OBVIOUS
  <2>3. QED
    BY <1>2, <2>1, <2>2 DEF Slash, Plus
<1>9. \A i \in 1..(p + 1) : f[i] # Hash
  BY <1>2 DEF Aligned, Plus, Hash
<1>10. Count(t, q + 1) = Count(f, (p + 1) + 1)
  BY <1>2, <1>3
<1>11. QED
  BY <1>7, <1>8, <1>9, <1>10 DEF Aligned

(* On a topic that it should match the loop stays aligned until it returns *)
(* true.                                                                   *)
ExpectedInv ==
  Expected(topic, filter) =>
    /\ Running => Aligned(topic, filter, filterPos, topicPos)
    /\ result \in {"none", "true"}

LEMMA InitExpected == Init => ExpectedInv
<1>1. ASSUME Init PROVE Aligned(topic, filter, 0, 0)
  <2>1. /\ topic \in Seq(Letters \cup {Slash})
        /\ filter \in Seq(Letters \cup {Slash, Plus, Hash})
    BY <1>1, StringsAreSequences DEF Init, Topics, Filters
  <2>2. topic \in Seq(Letters \cup {Slash, Plus, Hash})
    BY <2>1
  <2>3. QED
    BY <2>1, <2>2, StartAligned
<1>2. QED
  BY <1>1 DEF Init, ExpectedInv, Running

LEMMA NextExpected ==
  ASSUME MatchInv, ExpectedInv, [Next]_vars
  PROVE  ExpectedInv'
<1> DEFINE S == Letters \cup {Slash, Plus, Hash}
<1>1. /\ topic \in Seq(S) /\ filter \in Seq(S)
      /\ Len(topic) \in Nat /\ Len(filter) \in Nat
      /\ filterPos \in Nat /\ filterPos <= Len(filter)
      /\ topicPos \in Nat /\ topicPos <= Len(topic)
  <2>1. /\ topic \in Seq(Letters \cup {Slash}) /\ Len(topic) \in Nat
        /\ filter \in Seq(S) /\ Len(filter) \in Nat
    BY StringsAreSequences DEF MatchInv, TypeOK, Topics, Filters
  <2>2. topic \in Seq(S)
    BY <2>1
  <2>3. QED
    BY <2>1, <2>2 DEF MatchInv, TypeOK
<1>2. CASE UNCHANGED vars
  BY <1>2 DEF ExpectedInv, vars, Running
<1>3. CASE Next
  <2>1. Running /\ filter' = filter /\ topic' = topic
    BY <1>3 DEF Next, MultiLevel, PlusInvalid, PlusSkip, PlusLast, PlusNext,
           Literal, Finish, FilterAt, Running, Return
  <2>2. SUFFICES ASSUME Expected(topic, filter)
                 PROVE  /\ Running' => Aligned(topic, filter,
                                               filterPos', topicPos')
                        /\ result' \in {"none", "true"}
    BY <2>1 DEF ExpectedInv
  <2>3. Aligned(topic, filter, filterPos, topicPos)
    BY <2>1, <2>2 DEF ExpectedInv
  <2>4. ValidFilter(filter)
    BY <2>2 DEF Expected, Matches
  <2>5. CASE MultiLevel
    <3>1. PICK k : k = filterPos + 1
      OBVIOUS
    <3>2. k \in 1..Len(filter) /\ filter[k] = Hash /\ filterPos = k - 1
      BY <1>1, <2>5, <3>1 DEF MultiLevel, FilterAt, CharAt
    <3>3. k = Len(filter) /\ (k # 1 => filter[k - 1] = Slash)
      BY <1>1, <2>4, <3>2, WildcardAlone
    <3>4. (filterPos - 1) + 1 = k - 1
      BY <1>1, <3>1
    <3>5. AfterSlash /\ AtEnd
      BY <1>1, <3>1, <3>2, <3>3, <3>4 DEF AfterSlash, AtEnd, CharAt
    <3>6. QED
      BY <2>5, <3>5 DEF MultiLevel, Return, Running
  <2>6. ASSUME FilterAt(Plus)
        PROVE  /\ filterPos < Len(filter) /\ filter[filterPos + 1] = Plus
               /\ AfterSlash /\ BeforeSlash
    <3>1. filterPos < Len(filter) /\ filter[filterPos + 1] = Plus
      BY <2>6 DEF FilterAt, CharAt
    <3>2. /\ filterPos # 0 => filter[filterPos] = Slash
          /\ filterPos + 1 # Len(filter) => filter[filterPos + 2] = Slash
      BY <1>1, <2>2, <3>1, PlusWhole
    <3>3. /\ (filterPos - 1) + 1 = filterPos
          /\ (filterPos + 1) + 1 = filterPos + 2
      BY <1>1
    <3>4. QED
      BY <1>1, <3>1, <3>2, <3>3 DEF AfterSlash, BeforeSlash, AtEnd, CharAt
  <2>7. CASE PlusInvalid
    BY <2>6, <2>7 DEF PlusInvalid
  <2>8. CASE PlusSkip
    <3>1. topic[topicPos + 1] # Slash /\ FilterAt(Plus)
      BY <2>8 DEF PlusSkip, InLevel, CharAt
    <3>2. Aligned(topic, filter, filterPos, topicPos + 1)
      BY <1>1, <2>2, <2>3, <2>6, <3>1, SkipAligned
    <3>3. QED
      BY <2>1, <2>8, <3>2 DEF PlusSkip, Running
  <2>9. CASE PlusLast
    BY <2>9 DEF PlusLast, Return, Running
  <2>10. CASE PlusNext
    <3>1. /\ FilterAt(Plus) /\ topicPos < Len(topic)
          /\ topic[topicPos + 1] = Slash
      BY <1>1, <2>10 DEF PlusNext, InLevel, CharAt
    <3>2. Aligned(topic, filter, filterPos + 1, topicPos)
      BY <1>1, <2>2, <2>3, <2>6, <3>1, NextAligned
    <3>3. QED
      BY <2>1, <2>10, <3>2 DEF PlusNext, Running
  <2>11. CASE Literal
    <3>1. /\ filterPos < Len(filter)
          /\ filter[filterPos + 1] \notin {Plus, Hash}
      BY <2>11 DEF Literal, CharAt
    <3>2. /\ topicPos < Len(topic)
          /\ filter[filterPos + 1] = topic[topicPos + 1]
      BY <1>1, <2>2, <2>3, <3>1, LiteralAgrees
    <3>3. Aligned(topic, filter, filterPos + 1, topicPos + 1)
      BY <1>1, <2>2, <2>3, <3>1, <3>2, LiteralAligned
    <3>4. ~ FilterTooLong
      BY <1>1, <2>3, <3>2 DEF FilterTooLong, Aligned
    <3>5. /\ filterPos' = filterPos + 1 /\ topicPos' = topicPos + 1
          /\ result' = result
      BY <1>1, <2>11, <3>2, <3>4 DEF Literal, CharAt
    <3>6. QED
      BY <2>1, <3>3, <3>5 DEF Running
  <2>12. CASE Finish
    <3>1. filterPos = Len(filter)
      BY <2>12 DEF Finish
    <3>2. ~ (topicPos < Len(topic))
      BY <1>1, <2>2, <2>3, <3>1, EndAgrees
    <3>3. QED
      BY <2>12, <3>2 DEF Finish, Return, Running
  <2>13. QED
    BY <1>3, <2>5, <2>7, <2>8, <2>9, <2>10, <2>11, <2>12 DEF Next
<1>4. QED
  BY <1>2, <1>3

-----------------------------------------------------------------------------
(* Both positions stay within their strings or one past the end, for       *)
(* strings of every length, with '+' too.                                  *)
THEOREM TypeCorrect == Spec => []TypeOK
BY Inductive, PTL DEF MatchInv

(* Without '+' in the filter matchTopic never reads past the end of the    *)
(* topic, although it tests filterPos and reads at topicPos.               *)
THEOREM NoPanicWithoutPlus == Spec => []SafeWithoutPlus
BY Inductive, PTL DEF MatchInv

(* As far as matchTopic has come without '+', topic and filter agree.      *)
THEOREM CommonPrefix == Spec => []PrefixAgrees
BY Inductive, PTL DEF MatchInv

(* A filter without wildcards matches exactly the topic it spells, for     *)
(* topics and filters of every length.                                     *)
THEOREM PlainFiltersExact == Spec => []PlainFilterExact
BY Inductive, PTL DEF MatchInv

(* A filter without '+' is matched as MQTT defines it, for topics and      *)
(* filters of every length over every alphabet: '#' covers the levels that *)
(* are left, is turned away anywhere but as a last level of its own, and   *)
(* all other levels must be equal.  The one exception is that "x/#" does   *)
(* not match its parent "x".                                               *)
THEOREM HashFiltersCorrect == Spec => []HashFilterCorrect
<1>1. MatchInv /\ Outcome => HashFilterCorrect
  <2> SUFFICES ASSUME MatchInv, Outcome, ~ Has(filter, Plus), ~ Running,
                      ~ IsParent(topic, filter)
               PROVE  (result = "true") = Matches(topic, filter)
    BY DEF HashFilterCorrect
  <2> DEFINE S == Letters \cup {Slash, Plus, Hash}
  <2>1. /\ topic \in Seq(Letters \cup {Slash}) /\ topic \in Seq(S)
        /\ filter \in Seq(S) /\ Len(topic) \in Nat /\ Len(filter) \in Nat
        /\ filterPos \in Nat /\ filterPos <= Len(filter)
        /\ topicPos = filterPos /\ filterPos <= Len(topic)
    BY StringsAreSequences
       DEF MatchInv, TypeOK, Topics, Filters, SafeWithoutPlus
  <2>2. ~ Has(topic, Hash) /\ ~ Has(topic, Plus)
    BY <2>1 DEF Has, Hash, Slash, Plus
  <2>3. \A j \in 1..filterPos : topic[j] = filter[j]
    BY DEF MatchInv, PrefixAgrees
  <2>4. CASE result = "true" /\ AtHash /\ WholeLastLevel
    <3>1. Matches(topic, filter)
      BY <2>1, <2>2, <2>3, <2>4, PrefixThenHash DEF AtHash, WholeLastLevel
    <3>2. QED
      BY <2>4, <3>1 DEF Matches
  <2>5. CASE result = "true" /\ topic = filter
    <3>1. Matches(topic, filter)
      BY <2>1, <2>2, <2>5, SelfMatch
    <3>2. QED
      BY <2>5, <3>1 DEF Matches
  <2>6. CASE result = "false" /\ AtHash /\ ~ WholeLastLevel
    <3>1. ~ ValidFilter(filter)
      <4>1. PICK k : k = filterPos + 1
        OBVIOUS
      <4>2. /\ k \in 1..Len(filter) /\ filter[k] = Hash
            /\ k < Len(filter) \/ (k # 1 /\ filter[k - 1] # Slash)
        BY <2>1, <2>6, <4>1 DEF AtHash, WholeLastLevel
      <4>3. QED
        BY <2>1, <4>2, MisplacedHash
    <3>2. QED
      BY <2>6, <3>1 DEF Matches
  <2>7. CASE /\ result = "false" /\ ~ AtHash
             /\ filterPos < Len(filter) \/ filterPos < Len(topic)
             /\ filterPos < Len(filter) /\ filterPos < Len(topic)
                  => filter[filterPos + 1] # topic[filterPos + 1]
    <3>1. ~ Matches(topic, filter)
      BY <2>1, <2>2, <2>3, <2>7, Parted DEF AtHash
    <3>2. QED
      BY <2>7, <3>1 DEF Matches
  <2>8. QED
    BY <2>4, <2>5, <2>6, <2>7 DEF Outcome
<1>2. QED
  BY <1>1, Inductive, InitOutcome, NextOutcome, PTL DEF Spec

(* No match is missed, for filters with '+' too and strings of every       *)
(* length: a topic without empty levels that a filter matches, other than  *)
(* as the parent of '#', is never turned away, and matchTopic does not     *)
(* panic on it.                                                            *)
THEOREM NoMatchMissed == Spec => []NoMissedMatch
<1>1. MatchInv /\ ExpectedInv => NoMissedMatch
  BY DEF MatchInv, TypeOK, ExpectedInv, NoMissedMatch, Expected, Running
<1>2. QED
  BY <1>1, Inductive, InitExpected, NextExpected, PTL DEF Spec
=============================================================================
