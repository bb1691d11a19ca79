-------------------------- MODULE Decoding_proofs --------------------------
(***************************************************************************)
(* Proofs about the codecs: every packet that is not Miscounted announces  *)
(* the lengths it has, the remaining length is read as it was written, and *)
(* no reader loses its place in the stream but in an Unreadable packet,    *)
(* for every set of lengths and payloads that MQTT allows (SizesFit).  In  *)
(* the order of the module: sums over finite sets,                         *)
(* the variable byte integer, the sizes of a sequence of items, the sizes  *)
(* of properties, the frames of each packet type, and the readers.         *)
(*                                                                         *)
(* The recursions are those of WriteVarInt and of the fold that adds up    *)
(* sizes.  The first is unfolded: four bytes are the most there are.  The  *)
(* second takes an induction, which the library states for predicates;     *)
(* here it is for a set (SubsetInduction), from the well-foundedness of    *)
(* the proper subsets of a finite set.                                     *)
(***************************************************************************)
EXTENDS Decoding, SequenceTheorems, FiniteSetTheorems, FunctionTheorems,
        WellFoundedInduction, TLAPS

(* Induction over the subsets of a finite set: the library states it for   *)
(* predicates, and this is the form for a set that stands for one.         *)
LEMMA SubsetInduction ==
  ASSUME NEW S, IsFiniteSet(S), NEW P,
         \A s \in SUBSET S :
           (\A r \in SUBSET s : r # s => r \in P) => s \in P
  PROVE  \A s \in SUBSET S : s \in P
<1> DEFINE T == {s \in SUBSET S : s \notin P}
<1>1. SUFFICES ASSUME T # {} PROVE FALSE
  OBVIOUS
<1>2. T \subseteq FiniteSubsetsOf(S)
  BY FS_FiniteSubsetsOfFinite
<1>3. PICK s \in T : \A r \in T : ~ (<<r, s>> \in StrictSubsetOrdering(S))
  <2> DEFINE R == StrictSubsetOrdering(S)
             U == FiniteSubsetsOf(S)
  <2>1. IsWellFoundedOn(R, U)
    BY FS_StrictSubsetOrderingWellFounded
  <2>2. T \subseteq U
    BY <1>2
  <2> HIDE DEF R, U, T
  <2>3. \E s \in T : \A r \in T : ~ (<<r, s>> \in R)
    BY <1>1, <2>1, <2>2, WFMin
  <2>4. QED
    BY <2>3 DEF R
<1>4. \A r \in SUBSET s : r # s => r \in P
  <2>1. SUFFICES ASSUME NEW r \in SUBSET s, r # s, r \notin P PROVE FALSE
    OBVIOUS
  <2>2. r \in T /\ r \in SUBSET S /\ s \in SUBSET S
    BY <2>1
  <2>3. <<r, s>> \in StrictSubsetOrdering(S)
    BY <2>1, <2>2 DEF StrictSubsetOrdering
  <2>4. QED
    BY <1>3, <2>2, <2>3
<1>5. QED
  BY <1>4

(* The fold of the library is a function on sets that it chooses by its    *)
(* equation. *)
Sum(F, S) == SumFunctionOnSet(F, S)
Chosen(S) == CHOOSE x \in S : TRUE
Solves(h, F, S) ==
  h = [s \in SUBSET S |-> IF s = {} THEN 0
                          ELSE F[Chosen(s)] + h[s \ {Chosen(s)}]]
Solution(F, S) == CHOOSE h : Solves(h, F, S)

LEMMA SumChosen ==
  ASSUME NEW F, NEW S
  PROVE  Sum(F, S) = Solution(F, S)[S]
BY DEF Sum, SumFunctionOnSet, FoldFunctionOnSet, MapThenFoldSet, Solution,
       Solves, Chosen

LEMMA ChosenIn ==
  ASSUME NEW S, S # {}
  PROVE  Chosen(S) \in S
BY DEF Chosen

LEMMA SolvesAt ==
  ASSUME NEW F, NEW S, NEW h, Solves(h, F, S), NEW s \in SUBSET S
  PROVE  h[s] = IF s = {} THEN 0 ELSE F[Chosen(s)] + h[s \ {Chosen(s)}]
<1> DEFINE g == [q \in SUBSET S |-> IF q = {} THEN 0
                                    ELSE F[Chosen(q)] + h[q \ {Chosen(q)}]]
<1>1. h = g
  BY DEF Solves
<1>2. g[s] = IF s = {} THEN 0 ELSE F[Chosen(s)] + h[s \ {Chosen(s)}]
  OBVIOUS
<1> HIDE DEF g
<1>3. QED
  BY <1>1, <1>2

(* Two solutions agree. *)
LEMMA SolutionsAgree ==
  ASSUME NEW F, NEW S, IsFiniteSet(S), NEW h, Solves(h, F, S),
         NEW T, NEW g, Solves(g, F, T), NEW s \in SUBSET S, s \in SUBSET T
  PROVE  h[s] = g[s]
<1> DEFINE P == {q \in SUBSET S : q \in SUBSET T => h[q] = g[q]}
<1>1. ASSUME NEW q \in SUBSET S, \A r \in SUBSET q : r # q => r \in P
      PROVE  q \in P
  <2>1. SUFFICES ASSUME q \in SUBSET T PROVE h[q] = g[q]
    OBVIOUS
  <2>2. CASE q = {}
    BY <2>1, <2>2, SolvesAt
  <2>3. CASE q # {}
    <3>1. Chosen(q) \in q
      BY <2>3, ChosenIn
    <3>2. q \ {Chosen(q)} \in SUBSET q /\ q \ {Chosen(q)} # q
      BY <3>1
    <3>3. h[q \ {Chosen(q)}] = g[q \ {Chosen(q)}]
      BY <1>1, <2>1, <3>2
    <3>4. h[q] = IF q = {} THEN 0 ELSE F[Chosen(q)] + h[q \ {Chosen(q)}]
      BY SolvesAt
    <3>5. g[q] = IF q = {} THEN 0 ELSE F[Chosen(q)] + g[q \ {Chosen(q)}]
      BY <2>1, SolvesAt
    <3>6. QED
      BY <2>3, <3>3, <3>4, <3>5
  <2>4. QED
    BY <2>2, <2>3
<1> HIDE DEF P
<1>2. \A q \in SUBSET S : q \in P
  BY <1>1, SubsetInduction
<1>3. QED
  BY <1>2 DEF P

(* There is a solution. *)
LEMMA Solvable ==
  ASSUME NEW F, NEW S, IsFiniteSet(S)
  PROVE  Solves(Solution(F, S), F, S)
<1> DEFINE P == {s \in SUBSET S : \E h : Solves(h, F, s)}
<1>1. ASSUME NEW s \in SUBSET S, \A r \in SUBSET s : r # s => r \in P
      PROVE  s \in P
  <2> DEFINE Less(q) == q \ {Chosen(q)}
             h == [q \in SUBSET s |->
                     IF q = {} THEN 0
                     ELSE F[Chosen(q)] + Solution(F, Less(q))[Less(q)]]
  <2>1. ASSUME NEW q \in SUBSET s, q # {}
        PROVE  /\ Less(q) \in SUBSET s /\ Less(q) # s
               /\ IsFiniteSet(Less(q))
               /\ Solves(Solution(F, Less(q)), F, Less(q))
    <3>1. Chosen(q) \in q
      BY <2>1, ChosenIn
    <3>2. Less(q) \in SUBSET s /\ Less(q) # s
      BY <3>1
    <3>3. PICK g : Solves(g, F, Less(q))
      BY <1>1, <3>2
    <3>4. Solves(Solution(F, Less(q)), F, Less(q))
      BY <3>3 DEF Solution
    <3>5. IsFiniteSet(Less(q))
      BY <3>2, FS_Subset
    <3>6. QED
      BY <3>2, <3>4, <3>5
  <2>2. ASSUME NEW q \in SUBSET s, q # {}
        PROVE  Solution(F, Less(q))[Less(q)] = h[Less(q)]
    <3> DEFINE p == Less(q)
    <3>1. p \in SUBSET s /\ IsFiniteSet(p) /\ Solves(Solution(F, p), F, p)
      BY <2>1, <2>2
    <3>2. CASE p = {}
      <4>1. Solution(F, p)[p] = 0
        BY <3>1, <3>2, SolvesAt
      <4>2. h[p] = 0
        BY <3>2
      <4>3. QED
        BY <4>1, <4>2
    <3>3. CASE p # {}
      <4>1. Solution(F, p)[p] = F[Chosen(p)] + Solution(F, p)[Less(p)]
        <5> HIDE DEF p
        <5>1. p \in SUBSET p /\ p \ {Chosen(p)} = Less(p)
          OBVIOUS
        <5>2. QED
          BY <3>1, <3>3, <5>1, SolvesAt
      <4>2. Solves(Solution(F, Less(p)), F, Less(p))
        BY <2>1, <3>1, <3>3
      <4>3. Less(p) \in SUBSET p /\ Less(p) \in SUBSET Less(p)
        OBVIOUS
      <4>4. Solution(F, p)[Less(p)] = Solution(F, Less(p))[Less(p)]
        BY <3>1, <4>2, <4>3, SolutionsAgree
      <4>5. h[p] = F[Chosen(p)] + Solution(F, Less(p))[Less(p)]
        BY <3>1, <3>3
      <4>6. QED
        BY <4>1, <4>4, <4>5
    <3>4. QED
      BY <3>2, <3>3
  <2>3. h = [q \in SUBSET s |-> IF q = {} THEN 0
                                ELSE F[Chosen(q)] + h[q \ {Chosen(q)}]]
    <3> DEFINE g == [q \in SUBSET s |-> IF q = {} THEN 0
                                ELSE F[Chosen(q)] + h[q \ {Chosen(q)}]]
    <3>1. ASSUME NEW q \in SUBSET s PROVE h[q] = g[q]
      <4>1. CASE q = {}
        BY <4>1
      <4>2. CASE q # {}
        <5>1. Solution(F, Less(q))[Less(q)] = h[Less(q)]
          BY <2>2, <4>2
        <5>2. h[q] = F[Chosen(q)] + Solution(F, Less(q))[Less(q)]
          BY <4>2
        <5>3. g[q] = F[Chosen(q)] + h[Less(q)]
          BY <4>2
        <5>4. QED
          BY <5>1, <5>2, <5>3
      <4>3. QED
        BY <4>1, <4>2
    <3>2. QED
      BY <3>1
  <2>4. Solves(h, F, s)
    BY <2>3 DEF Solves
  <2>5. QED
    BY <2>4
<1> HIDE DEF P
<1>2. S \in P
  BY <1>1, SubsetInduction
<1>3. QED
  BY <1>2 DEF P, Solution

(* What a sum is: nothing for the empty set, and a step for any other. *)
LEMMA SumEmpty ==
  ASSUME NEW F
  PROVE  Sum(F, {}) = 0
<1>1. Solves(Solution(F, {}), F, {})
  BY FS_EmptySet, Solvable
<1>2. QED
  BY <1>1, SolvesAt, SumChosen

LEMMA SumChoice ==
  ASSUME NEW F, NEW S, IsFiniteSet(S), S # {}
  PROVE  Sum(F, S) = F[Chosen(S)] + Sum(F, S \ {Chosen(S)})
<1> DEFINE T == S \ {Chosen(S)}
<1>1. IsFiniteSet(T) /\ T \in SUBSET S
  BY FS_Subset
<1>2. Solves(Solution(F, S), F, S) /\ Solves(Solution(F, T), F, T)
  BY <1>1, Solvable
<1>3. Solution(F, S)[T] = Solution(F, T)[T]
  BY <1>1, <1>2, SolutionsAgree
<1>4. Solution(F, S)[S] = F[Chosen(S)] + Solution(F, S)[T]
  BY <1>2, SolvesAt
<1>5. QED
  BY <1>3, <1>4, SumChosen

LEMMA SumInt ==
  ASSUME NEW S, IsFiniteSet(S), NEW F, \A x \in S : F[x] \in Int
  PROVE  Sum(F, S) \in Int
<1> DEFINE P == {s \in SUBSET S : Sum(F, s) \in Int}
<1>1. ASSUME NEW s \in SUBSET S, \A r \in SUBSET s : r # s => r \in P
      PROVE  s \in P
  <2>1. CASE s = {}
    BY <2>1, SumEmpty
  <2>2. CASE s # {}
    <3>1. Chosen(s) \in s /\ IsFiniteSet(s)
      BY <2>2, ChosenIn, FS_Subset
    <3>2. s \ {Chosen(s)} \in P
      BY <1>1, <3>1
    <3>3. Sum(F, s) = F[Chosen(s)] + Sum(F, s \ {Chosen(s)})
      BY <2>2, <3>1, SumChoice
    <3>4. QED
      BY <3>1, <3>2, <3>3
  <2>3. QED
    BY <2>1, <2>2
<1> HIDE DEF P
<1>2. S \in P
  BY <1>1, SubsetInduction
<1>3. QED
  BY <1>2 DEF P

(* The sum does not depend on what is chosen: any element may be split off. *)
LEMMA SumStep ==
  ASSUME NEW S, IsFiniteSet(S), NEW F, \A x \in S : F[x] \in Int, NEW x \in S
  PROVE  Sum(F, S) = F[x] + Sum(F, S \ {x})
<1> DEFINE P == {s \in SUBSET S :
                   \A y \in s : Sum(F, s) = F[y] + Sum(F, s \ {y})}
<1>1. ASSUME NEW s \in SUBSET S, \A r \in SUBSET s : r # s => r \in P
      PROVE  s \in P
  <2>1. SUFFICES ASSUME NEW y \in s
                 PROVE  Sum(F, s) = F[y] + Sum(F, s \ {y})
    OBVIOUS
  <2> DEFINE z == Chosen(s)
  <2>2. z \in s /\ IsFiniteSet(s)
    BY ChosenIn, FS_Subset
  <2>3. Sum(F, s) = F[z] + Sum(F, s \ {z})
    BY <2>2, SumChoice
  <2> HIDE DEF z
  <2>4. CASE y = z
    BY <2>3, <2>4
  <2>5. CASE y # z
    <3>1. s \ {z} \in P /\ s \ {y} \in P
      BY <1>1, <2>2
    <3>2. Sum(F, s \ {z}) = F[y] + Sum(F, (s \ {z}) \ {y})
      BY <2>5, <3>1
    <3>3. Sum(F, s \ {y}) = F[z] + Sum(F, (s \ {y}) \ {z})
      BY <2>2, <2>5, <3>1
    <3>4. (s \ {y}) \ {z} = (s \ {z}) \ {y}
      OBVIOUS
    <3>5. Sum(F, (s \ {z}) \ {y}) \in Int
      <4>1. IsFiniteSet((s \ {z}) \ {y})
        BY <2>2, FS_Subset
      <4>2. QED
        BY <4>1, SumInt
    <3>6. F[y] \in Int /\ F[z] \in Int
      BY <2>2
    <3>7. PICK j \in Int : j = Sum(F, (s \ {z}) \ {y})
      BY <3>5
    <3>8. Sum(F, s) = F[z] + (F[y] + j) /\ Sum(F, s \ {y}) = F[z] + j
      BY <2>3, <3>2, <3>3, <3>4, <3>7
    <3>9. QED
      BY <3>6, <3>7, <3>8
  <2>6. QED
    BY <2>4, <2>5
<1> HIDE DEF P
<1>2. S \in P
  BY <1>1, SubsetInduction
<1>3. QED
  BY <1>2 DEF P

LEMMA SumNat ==
  ASSUME NEW S, IsFiniteSet(S), NEW F, \A x \in S : F[x] \in Nat
  PROVE  Sum(F, S) \in Nat
<1> DEFINE P == {s \in SUBSET S : Sum(F, s) \in Nat}
<1>1. ASSUME NEW s \in SUBSET S, \A r \in SUBSET s : r # s => r \in P
      PROVE  s \in P
  <2>1. CASE s = {}
    BY <2>1, SumEmpty
  <2>2. CASE s # {}
    <3>1. Chosen(s) \in s /\ IsFiniteSet(s)
      BY <2>2, ChosenIn, FS_Subset
    <3>2. s \ {Chosen(s)} \in P
      BY <1>1, <3>1
    <3>3. Sum(F, s) = F[Chosen(s)] + Sum(F, s \ {Chosen(s)})
      BY <2>2, <3>1, SumChoice
    <3>4. QED
      BY <3>1, <3>2, <3>3
  <2>3. QED
    BY <2>1, <2>2
<1> HIDE DEF P
<1>2. S \in P
  BY <1>1, SubsetInduction
<1>3. QED
  BY <1>2 DEF P

(* A sum over other indices: m is a renaming of them. *)
Renames(m, A, B, F, G) ==
  /\ \A x \in A : m[x] \in B
  /\ \A x, y \in A : m[x] = m[y] => x = y
  /\ \A z \in B : \E x \in A : m[x] = z
  /\ \A x \in A : F[x] = G[m[x]]
  /\ \A z \in B : G[z] \in Int

LEMMA SumRenamed ==
  ASSUME NEW A, IsFiniteSet(A), NEW B, IsFiniteSet(B), NEW m, NEW F, NEW G,
         Renames(m, A, B, F, G)
  PROVE  Sum(F, A) = Sum(G, B)
<1> USE DEF Renames
<1> DEFINE Image(s) == {m[x] : x \in s}
           P == {s \in SUBSET A : Sum(F, s) = Sum(G, Image(s))}
<1>1. ASSUME NEW s \in SUBSET A, \A r \in SUBSET s : r # s => r \in P
      PROVE  s \in P
  <2>1. CASE s = {}
    <3>1. Image(s) = {}
      BY <2>1
    <3>2. QED
      BY <2>1, <3>1, SumEmpty
  <2>2. CASE s # {}
    <3> DEFINE a == Chosen(s)
    <3>1. a \in s /\ IsFiniteSet(s)
      BY <2>2, ChosenIn, FS_Subset
    <3>2. Sum(F, s) = F[a] + Sum(F, s \ {a})
      BY <2>2, <3>1, SumChoice
    <3> HIDE DEF a
    <3>3. s \ {a} \in P
      BY <1>1, <3>1
    <3>4. Image(s \ {a}) = Image(s) \ {m[a]}
      BY <3>1
    <3>5. Image(s) \in SUBSET B /\ m[a] \in Image(s)
      BY <3>1
    <3>6. IsFiniteSet(Image(s)) /\ \A z \in Image(s) : G[z] \in Int
      BY <3>5, FS_Subset
    <3> HIDE DEF Image
    <3>7. Sum(G, Image(s)) = G[m[a]] + Sum(G, Image(s) \ {m[a]})
      BY <3>5, <3>6, SumStep
    <3>8. Sum(F, s \ {a}) = Sum(G, Image(s \ {a})) /\ F[a] = G[m[a]]
      BY <3>1, <3>3
    <3>9. QED
      BY <3>2, <3>4, <3>7, <3>8
  <2>3. QED
    BY <2>1, <2>2
<1> HIDE DEF P
<1>2. A \in P
  BY <1>1, SubsetInduction
<1>3. Image(A) = B
  OBVIOUS
<1>4. QED
  BY <1>2, <1>3 DEF P

LEMMA SumSame ==
  ASSUME NEW S, IsFiniteSet(S), NEW F, NEW G,
         \A x \in S : F[x] = G[x] /\ G[x] \in Int
  PROVE  Sum(F, S) = Sum(G, S)
<1> DEFINE m == [x \in S |-> x]
<1>1. \A x \in S : m[x] = x
  OBVIOUS
<1> HIDE DEF m
<1>2. QED
  <2>1. Renames(m, S, S, F, G)
    BY <1>1 DEF Renames
  <2>2. QED
    BY <2>1, SumRenamed

(* The sum over two sets that are apart. *)
LEMMA SumUnion ==
  ASSUME NEW A, IsFiniteSet(A), NEW B, IsFiniteSet(B), A \cap B = {},
         NEW F, \A x \in A \cup B : F[x] \in Int
  PROVE  Sum(F, A \cup B) = Sum(F, A) + Sum(F, B)
<1> DEFINE P == {s \in SUBSET A : Sum(F, s \cup B) = Sum(F, s) + Sum(F, B)}
<1>0. Sum(F, B) \in Int
  BY SumInt
<1>1. ASSUME NEW s \in SUBSET A, \A r \in SUBSET s : r # s => r \in P
      PROVE  s \in P
  <2>1. CASE s = {}
    <3>1. s \cup B = B
      BY <2>1
    <3>2. QED
      BY <1>0, <2>1, <3>1, SumEmpty
  <2>2. CASE s # {}
    <3>1. PICK a \in s : TRUE
      BY <2>2
    <3>2. s \ {a} \in P
      BY <1>1, <3>1
    <3>3. (s \cup B) \ {a} = (s \ {a}) \cup B
      BY <3>1
    <3>4. /\ IsFiniteSet(s) /\ \A x \in s : F[x] \in Int
          /\ IsFiniteSet(s \ {a}) /\ \A x \in s \ {a} : F[x] \in Int
          /\ IsFiniteSet(s \cup B) /\ \A x \in s \cup B : F[x] \in Int
      <4>1. IsFiniteSet(s) /\ IsFiniteSet(s \ {a})
        BY FS_Subset
      <4>2. QED
        BY <4>1, FS_Union
    <3>5. Sum(F, s) = F[a] + Sum(F, s \ {a})
      BY <3>4, SumStep
    <3>6. Sum(F, s \cup B) = F[a] + Sum(F, (s \cup B) \ {a})
      BY <3>4, SumStep
    <3>7. Sum(F, s \ {a}) \in Int /\ F[a] \in Int
      BY <3>4, SumInt
    <3>8. Sum(F, (s \ {a}) \cup B) = Sum(F, s \ {a}) + Sum(F, B)
      BY <3>2
    <3>9. Sum(F, s \cup B) = Sum(F, s) + Sum(F, B)
      <4>1. PICK j \in Int, k \in Int, l \in Int :
              j = Sum(F, s \ {a}) /\ k = F[a] /\ l = Sum(F, B)
        BY <1>0, <3>7
      <4>2. Sum(F, s) = k + j /\ Sum(F, s \cup B) = k + (j + l)
        BY <3>3, <3>5, <3>6, <3>8, <4>1
      <4>3. QED
        BY <4>1, <4>2
    <3>10. QED
      BY <3>9
  <2>3. QED
    BY <2>1, <2>2
<1> HIDE DEF P
<1>2. A \in P
  BY <1>1, SubsetInduction
<1>3. QED
  BY <1>2 DEF P

-----------------------------------------------------------------------------
(* Variable byte integers *)

Low(v, more) == [digit |-> v % Base, more |-> more]
Up(v) == v \div Base

(* The bytes it takes, and what they are, without recursion *)
Count(v) ==
  IF v < 128 THEN 1 ELSE IF v < 16384 THEN 2 ELSE IF v < 2097152 THEN 3 ELSE 4
Bytes(v) ==
  IF Count(v) = 1 THEN <<Low(v, FALSE)>>
  ELSE IF Count(v) = 2 THEN <<Low(v, TRUE), Low(Up(v), FALSE)>>
  ELSE IF Count(v) = 3
  THEN <<Low(v, TRUE), Low(Up(v), TRUE), Low(Up(Up(v)), FALSE)>>
  ELSE <<Low(v, TRUE), Low(Up(v), TRUE), Low(Up(Up(v)), TRUE),
         Low(Up(Up(Up(v))), FALSE)>>

LEMMA Powers ==
  /\ Base = 128 /\ Base ^ 2 = 16384 /\ Base ^ 3 = 2097152
  /\ Base ^ 0 = 1 /\ Base ^ 1 = 128
BY SMT DEF Base

LEMMA Limit == MaxVarInt = 268435455 /\ MaxVarInt \in Int
BY SMT DEF Base, MaxVarInt

(* The prover takes a range with numbers at both ends one by one. *)
LEMMA Ranged ==
  ASSUME NEW v
  PROVE  v \in 0..MaxVarInt <=> v \in Nat /\ v <= MaxVarInt
<1>1. MaxVarInt \in Int
  BY Limit
<1>2. QED
  BY SMT, <1>1

LEMMA UpSmaller ==
  ASSUME NEW v \in Nat
  PROVE  /\ Up(v) \in Nat
         /\ v % Base \in Nat /\ v % Base < Base
         /\ v = (v % Base) + Base * Up(v)
         /\ Count(v) \in {1, 2, 3, 4}
         /\ (v < Base) = (Count(v) = 1)
         /\ Count(v) = 1 => v % Base = v /\ Up(v) = 0
         /\ Count(v) = 2 => Count(Up(v)) = 1
         /\ Count(v) = 3 => Count(Up(v)) = 2
         /\ v <= MaxVarInt =>
              Up(v) <= MaxVarInt /\ (Count(v) = 4 => Count(Up(v)) = 3)
BY SMT DEF Up, Base, Count, MaxVarInt

LEMMA ConcatIs ==
  ASSUME NEW S, NEW s \in Seq(S), NEW t \in Seq(S), NEW u \in Seq(S),
         Len(u) = Len(s) + Len(t),
         \A k \in 1..Len(s) : u[k] = s[k],
         \A k \in 1..Len(t) : u[Len(s) + k] = t[k]
  PROVE  s \o t = u
<1>1. s \o t \in Seq(S) /\ Len(s \o t) = Len(u)
  BY ConcatProperties
<1>2. Len(s) \in Nat /\ Len(t) \in Nat
  BY LenProperties
<1>3. ASSUME NEW k \in 1..Len(u) PROVE (s \o t)[k] = u[k]
  <2>1. (s \o t)[k] = IF k <= Len(s) THEN s[k] ELSE t[k - Len(s)]
    BY <1>3, ConcatProperties
  <2>2. CASE k <= Len(s)
    BY <1>2, <2>1, <2>2
  <2>3. CASE ~ (k <= Len(s))
    <3>1. k - Len(s) \in 1..Len(t) /\ Len(s) + (k - Len(s)) = k
      BY <1>2, <2>3
    <3>2. QED
      BY <2>1, <2>3, <3>1
  <2>4. QED
    BY <2>2, <2>3
<1>4. QED
  BY <1>1, <1>3, SeqEqual

LEMMA Prepended ==
  ASSUME NEW a, NEW b, NEW c, NEW d
  PROVE  /\ <<a>> \o <<b>> = <<a, b>> /\ <<a>> \o <<b, c>> = <<a, b, c>>
         /\ <<a>> \o <<b, c, d>> = <<a, b, c, d>>
<1> DEFINE s == <<a>>
           S == {a, b, c, d}
<1>1. s \in Seq(S) /\ Len(s) = 1 /\ s[1] = a
  OBVIOUS
<1>2. s \o <<b>> = <<a, b>>
  <2> DEFINE t == <<b>>  u == <<a, b>>
  <2>1. t \in Seq(S) /\ Len(t) = 1 /\ t[1] = b
    OBVIOUS
  <2>2. u \in Seq(S) /\ Len(u) = 2 /\ u[1] = a /\ u[2] = b
    OBVIOUS
  <2> HIDE DEF s, t, u, S
  <2>3. Len(u) = Len(s) + Len(t)
    BY <1>1, <2>1, <2>2
  <2>4. \A k \in 1..Len(s) : u[k] = s[k]
    BY <1>1, <2>1, <2>2
  <2>5. \A k \in 1..Len(t) : u[Len(s) + k] = t[k]
    BY <1>1, <2>1, <2>2
  <2>6. s \o t = u
    BY <1>1, <2>1, <2>2, <2>3, <2>4, <2>5, ConcatIs
  <2>7. QED
    BY <2>6 DEF t, u
<1>3. s \o <<b, c>> = <<a, b, c>>
  <2> DEFINE t == <<b, c>>  u == <<a, b, c>>
  <2>1. t \in Seq(S) /\ Len(t) = 2 /\ t[1] = b /\ t[2] = c
    OBVIOUS
  <2>2. /\ u \in Seq(S) /\ Len(u) = 3
        /\ u[1] = a /\ u[2] = b /\ u[3] = c
    OBVIOUS
  <2> HIDE DEF s, t, u, S
  <2>3. Len(u) = Len(s) + Len(t)
    BY <1>1, <2>1, <2>2
  <2>4. \A k \in 1..Len(s) : u[k] = s[k]
    BY <1>1, <2>1, <2>2
  <2>5. \A k \in 1..Len(t) : u[Len(s) + k] = t[k]
    BY <1>1, <2>1, <2>2
  <2>6. s \o t = u
    BY <1>1, <2>1, <2>2, <2>3, <2>4, <2>5, ConcatIs
  <2>7. QED
    BY <2>6 DEF t, u
<1>4. s \o <<b, c, d>> = <<a, b, c, d>>
  <2> DEFINE t == <<b, c, d>>  u == <<a, b, c, d>>
  <2>1. /\ t \in Seq(S) /\ Len(t) = 3
        /\ t[1] = b /\ t[2] = c /\ t[3] = d
    OBVIOUS
  <2>2. /\ u \in Seq(S) /\ Len(u) = 4
        /\ u[1] = a /\ u[2] = b /\ u[3] = c /\ u[4] = d
    OBVIOUS
  <2> HIDE DEF s, t, u, S
  <2>3. Len(u) = Len(s) + Len(t)
    BY <1>1, <2>1, <2>2
  <2>4. \A k \in 1..Len(s) : u[k] = s[k]
    BY <1>1, <2>1, <2>2
  <2>5. \A k \in 1..Len(t) : u[Len(s) + k] = t[k]
    BY <1>1, <2>1, <2>2
  <2>6. s \o t = u
    BY <1>1, <2>1, <2>2, <2>3, <2>4, <2>5, ConcatIs
  <2>7. QED
    BY <2>6 DEF t, u
<1>5. QED
  BY <1>2, <1>3, <1>4

LEMMA BytesStep ==
  ASSUME NEW v \in Nat, v <= MaxVarInt
  PROVE  Bytes(v) = IF v < Base THEN <<[digit |-> v, more |-> FALSE]>>
                    ELSE <<[digit |-> v % Base, more |-> TRUE]>>
                           \o Bytes(v \div Base)
<1>1. /\ Count(v) \in {1, 2, 3, 4} /\ (v < Base) = (Count(v) = 1)
      /\ Count(v) = 1 => v % Base = v
      /\ Count(v) = 2 => Count(Up(v)) = 1
      /\ Count(v) = 3 => Count(Up(v)) = 2
      /\ Count(v) = 4 => Count(Up(v)) = 3
  BY UpSmaller
<1> DEFINE a == Low(v, TRUE)  b == Low(Up(v), TRUE)  c == Low(Up(Up(v)), TRUE)
           d == Low(Up(Up(Up(v))), FALSE)
           e == Low(v, FALSE)  f == Low(Up(v), FALSE)  g == Low(Up(Up(v)), FALSE)
<1>2. /\ Bytes(v) = IF Count(v) = 1 THEN <<e>> ELSE IF Count(v) = 2 THEN <<a, f>>
                   ELSE IF Count(v) = 3 THEN <<a, b, g>> ELSE <<a, b, c, d>>
      /\ Bytes(Up(v)) = IF Count(Up(v)) = 1 THEN <<f>>
                       ELSE IF Count(Up(v)) = 2 THEN <<b, g>>
                       ELSE IF Count(Up(v)) = 3 THEN <<b, c, d>>
                       ELSE <<b, c, Low(Up(Up(Up(v))), TRUE),
                              Low(Up(Up(Up(Up(v)))), FALSE)>>
  BY Zenon DEF Bytes
<1>3. a = [digit |-> v % Base, more |-> TRUE]
  BY DEF Low
<1>4. Count(v) = 1 => e = [digit |-> v, more |-> FALSE]
  BY <1>1 DEF Low
<1> HIDE DEF a, b, c, d, e, f, g
<1>5. CASE Count(v) = 1
  <2>1. Bytes(v) = <<e>>
    BY <1>2, <1>5
  <2>2. QED
    BY <1>1, <1>4, <1>5, <2>1
<1>6. CASE Count(v) = 2
  <2>1. Bytes(v) = <<a, f>> /\ Bytes(Up(v)) = <<f>>
    BY <1>1, <1>2, <1>6
  <2>2. Bytes(v) = <<a>> \o Bytes(Up(v))
    BY <2>1, Prepended
  <2>3. QED
    BY <1>1, <1>3, <1>6, <2>2 DEF Up
<1>7. CASE Count(v) = 3
  <2>1. Bytes(v) = <<a, b, g>> /\ Bytes(Up(v)) = <<b, g>>
    BY <1>1, <1>2, <1>7
  <2>2. Bytes(v) = <<a>> \o Bytes(Up(v))
    BY <2>1, Prepended
  <2>3. QED
    BY <1>1, <1>3, <1>7, <2>2 DEF Up
<1>8. CASE Count(v) = 4
  <2>1. Bytes(v) = <<a, b, c, d>> /\ Bytes(Up(v)) = <<b, c, d>>
    BY <1>1, <1>2, <1>8
  <2>2. Bytes(v) = <<a>> \o Bytes(Up(v))
    BY <2>1, Prepended
  <2>3. QED
    BY <1>1, <1>3, <1>8, <2>2 DEF Up
<1>9. QED
  BY <1>1, <1>5, <1>6, <1>7, <1>8

(* The recursion has a solution, so its equation holds, and it is Bytes. *)
Writes(f) ==
  f = [v \in 0..MaxVarInt |->
         IF v < Base THEN <<[digit |-> v, more |-> FALSE]>>
         ELSE <<[digit |-> v % Base, more |-> TRUE]>> \o f[v \div Base]]

LEMMA WriteVarIntChosen == WriteVarInt = CHOOSE f : Writes(f)
BY SMT DEF WriteVarInt, Writes

LEMMA BytesWrite == Writes([v \in 0..MaxVarInt |-> Bytes(v)])
<1> DEFINE g == [v \in 0..MaxVarInt |-> Bytes(v)]
           h == [v \in 0..MaxVarInt |->
                   IF v < Base THEN <<[digit |-> v, more |-> FALSE]>>
                   ELSE <<[digit |-> v % Base, more |-> TRUE]>>
                          \o g[v \div Base]]
<1>1. ASSUME NEW v \in 0..MaxVarInt PROVE g[v] = h[v]
  <2>1. v \in Nat /\ v <= MaxVarInt
    BY Ranged
  <2>2. v \div Base \in 0..MaxVarInt
    BY <2>1, UpSmaller, Ranged DEF Up
  <2>3. g[v] = Bytes(v) /\ g[v \div Base] = Bytes(v \div Base)
    BY <2>2
  <2>4. h[v] = IF v < Base THEN <<[digit |-> v, more |-> FALSE]>>
               ELSE <<[digit |-> v % Base, more |-> TRUE]>> \o g[v \div Base]
    BY Zenon
  <2> HIDE DEF g, h
  <2>5. QED
    BY Zenon, <2>1, <2>3, <2>4, BytesStep
<1>2. g = h
  BY <1>1
<1>3. QED
  BY <1>2 DEF Writes

LEMMA WritesAt ==
  ASSUME NEW v \in Nat, v <= MaxVarInt
  PROVE  WriteVarInt[v] = IF v < Base THEN <<[digit |-> v, more |-> FALSE]>>
                          ELSE <<[digit |-> v % Base, more |-> TRUE]>>
                                 \o WriteVarInt[v \div Base]
<1>1. Writes(WriteVarInt)
  BY WriteVarIntChosen, BytesWrite
<1> DEFINE f == WriteVarInt
           h == [w \in 0..MaxVarInt |->
                   IF w < Base THEN <<[digit |-> w, more |-> FALSE]>>
                   ELSE <<[digit |-> w % Base, more |-> TRUE]>>
                          \o f[w \div Base]]
<1>2. WriteVarInt = h
  BY <1>1 DEF Writes
<1>3. v \in 0..MaxVarInt
  BY Ranged
<1>4. h[v] = IF v < Base THEN <<[digit |-> v, more |-> FALSE]>>
             ELSE <<[digit |-> v % Base, more |-> TRUE]>> \o f[v \div Base]
  BY Zenon, <1>3
<1> HIDE DEF h
<1>5. QED
  BY <1>2, <1>4

LEMMA Written ==
  ASSUME NEW v \in Nat, v <= MaxVarInt
  PROVE  WriteVarInt[v] = Bytes(v)
<1> DEFINE Same(w) == w <= MaxVarInt => WriteVarInt[w] = Bytes(w)
<1>1. ASSUME NEW w \in Nat, Count(w) = 1 \/ Same(Up(w))
      PROVE  Same(w)
  <2>1. SUFFICES ASSUME w <= MaxVarInt PROVE WriteVarInt[w] = Bytes(w)
    OBVIOUS
  <2>2. (w < Base) = (Count(w) = 1) /\ Up(w) <= MaxVarInt
    BY <2>1, UpSmaller
  <2>3. w < Base \/ WriteVarInt[w \div Base] = Bytes(w \div Base)
    BY <1>1, <2>2 DEF Up
  <2>4. QED
    BY Zenon, <2>1, <2>3, WritesAt, BytesStep
<1> HIDE DEF Same
<1>2. \A w \in Nat : Count(w) = 1 => Same(w)
  BY <1>1
<1>3. \A w \in Nat : Count(w) = 2 => Same(w)
  BY <1>1, <1>2, UpSmaller
<1>4. \A w \in Nat : Count(w) = 3 => Same(w)
  BY <1>1, <1>3, UpSmaller
<1>5. Count(v) = 4 => Same(v)
  BY <1>1, <1>4, UpSmaller
<1>6. Same(v)
  BY <1>2, <1>3, <1>4, <1>5, UpSmaller
<1>7. QED
  BY <1>6 DEF Same

LEMMA LengthAt ==
  ASSUME NEW v \in Nat, v <= MaxVarInt
  PROVE  Length(v) = Count(v) /\ Length(v) \in Nat /\ Length(v) \in 1..4
<1>1. Length(v) = Count(v)
  BY SMT, Powers DEF Length, Count
<1>2. QED
  BY <1>1, UpSmaller

LEMMA VarIntLength ==
  ASSUME NEW v \in Nat, v <= MaxVarInt
  PROVE  /\ Len(WriteVarInt[v]) = Length(v)
         /\ Length(v) \in Nat /\ Length(v) \in 1..4
<1>1. Len(Bytes(v)) = Count(v)
  <2> DEFINE a == Low(v, TRUE)  b == Low(Up(v), TRUE)  c == Low(Up(Up(v)), TRUE)
             d == Low(Up(Up(Up(v))), FALSE)
             e == Low(v, FALSE)  f == Low(Up(v), FALSE)  g == Low(Up(Up(v)), FALSE)
  <2>1. Bytes(v) = IF Count(v) = 1 THEN <<e>> ELSE IF Count(v) = 2 THEN <<a, f>>
                   ELSE IF Count(v) = 3 THEN <<a, b, g>> ELSE <<a, b, c, d>>
    BY Zenon DEF Bytes
  <2> HIDE DEF a, b, c, d, e, f, g
  <2>2. Count(v) \in {1, 2, 3, 4}
    BY UpSmaller
  <2>3. QED
    BY <2>1, <2>2
<1>2. QED
  BY <1>1, Written, LengthAt

(* Sums over the first indices *)
LEMMA SumNext ==
  ASSUME NEW F, NEW k \in Nat, \A j \in 1..k + 1 : F[j] \in Int
  PROVE  Sum(F, 1..k + 1) = Sum(F, 1..k) + F[k + 1] /\ Sum(F, 1..k) \in Int
<1>1. IsFiniteSet(1..k + 1) /\ IsFiniteSet(1..k)
  BY FS_Interval
<1>2. k + 1 \in 1..k + 1 /\ (1..k + 1) \ {k + 1} = 1..k
  OBVIOUS
<1>3. Sum(F, 1..k + 1) = F[k + 1] + Sum(F, 1..k)
  BY <1>1, <1>2, SumStep
<1>4. \A j \in 1..k : F[j] \in Int
  OBVIOUS
<1>5. Sum(F, 1..k) \in Int
  BY <1>1, <1>4, SumInt
<1>6. F[k + 1] \in Int
  BY <1>2
<1>7. QED
  BY <1>3, <1>5, <1>6

LEMMA SumFour ==
  ASSUME NEW F
  PROVE  /\ F[1] \in Int => Sum(F, 1..1) = F[1]
         /\ F[1] \in Int /\ F[2] \in Int => Sum(F, 1..2) = F[1] + F[2]
         /\ F[1] \in Int /\ F[2] \in Int /\ F[3] \in Int =>
              Sum(F, 1..3) = F[1] + F[2] + F[3]
         /\ F[1] \in Int /\ F[2] \in Int /\ F[3] \in Int /\ F[4] \in Int =>
              Sum(F, 1..4) = F[1] + F[2] + F[3] + F[4]
<1>1. ASSUME F[1] \in Int PROVE Sum(F, 1..1) = F[1]
  <2>1. 1..0 = {}
    OBVIOUS
  <2>2. Sum(F, 1..0) = 0
    BY <2>1, SumEmpty
  <2>3. Sum(F, 1..0 + 1) = Sum(F, 1..0) + F[0 + 1]
    <3>1. 0 \in Nat /\ \A j \in 1..0 + 1 : F[j] \in Int
      BY <1>1
    <3>2. QED
      BY <3>1, SumNext
  <2>4. QED
    BY <1>1, <2>2, <2>3
<1>2. ASSUME F[1] \in Int, F[2] \in Int PROVE Sum(F, 1..2) = F[1] + F[2]
  <2>1. \A j \in 1..1 + 1 : F[j] \in Int
    BY <1>2
  <2>2. Sum(F, 1..1 + 1) = Sum(F, 1..1) + F[1 + 1]
    BY <2>1, SumNext
  <2>3. QED
    BY <1>1, <1>2, <2>2
<1>3. ASSUME F[1] \in Int, F[2] \in Int, F[3] \in Int
      PROVE  Sum(F, 1..3) = F[1] + F[2] + F[3]
  <2>1. \A j \in 1..2 + 1 : F[j] \in Int
    BY <1>3
  <2>2. Sum(F, 1..2 + 1) = Sum(F, 1..2) + F[2 + 1]
    BY <2>1, SumNext
  <2>3. QED
    BY <1>2, <1>3, <2>2
<1>4. ASSUME F[1] \in Int, F[2] \in Int, F[3] \in Int, F[4] \in Int
      PROVE  Sum(F, 1..4) = F[1] + F[2] + F[3] + F[4]
  <2>1. \A j \in 1..3 + 1 : F[j] \in Int
    BY <1>4
  <2>2. Sum(F, 1..3 + 1) = Sum(F, 1..3) + F[3 + 1]
    BY <2>1, SumNext
  <2>3. QED
    BY <1>3, <1>4, <2>2
<1>5. QED
  BY <1>1, <1>2, <1>3, <1>4

(* Where the first byte without continuation bit is the last one *)
Weighted(bytes, c) == [k \in 1..c |-> bytes[k].digit * Base ^ (k - 1)]
LEMMA ReadAt ==
  ASSUME NEW bytes, NEW c \in {1, 2, 3, 4}, DOMAIN bytes = 1..c,
         ~ bytes[c].more, \A k \in 1..c : k < c => bytes[k].more
  PROVE  ReadVarInt(bytes) = Sum(Weighted(bytes, c), 1..c)
<1> DEFINE Ends == {k \in DOMAIN bytes : ~ bytes[k].more}
<1>1. Ends = {c}
  <2>1. c \in Ends
    BY SMT
  <2>2. ASSUME NEW k \in Ends PROVE k = c
    BY <2>2
  <2>3. QED
    BY <2>1, <2>2
<1>2. Min({c}) = c
  BY DEF Min
<1>3. QED
  BY <1>1, <1>2 DEF ReadVarInt, Sum, Weighted

LEMMA Digits ==
  ASSUME NEW v \in Nat, v <= MaxVarInt
  PROVE  /\ Up(v) \in Nat /\ Up(Up(v)) \in Nat /\ Up(Up(Up(v))) \in Nat
         /\ Count(v) = 1 => v = v % Base
         /\ Count(v) = 2 => v = (v % Base) + (Up(v) % Base) * Base
         /\ Count(v) = 3 =>
              v = (v % Base) + (Up(v) % Base) * Base
                    + (Up(Up(v)) % Base) * Base ^ 2
         /\ Count(v) = 4 =>
              v = (v % Base) + (Up(v) % Base) * Base
                    + (Up(Up(v)) % Base) * Base ^ 2
                    + (Up(Up(Up(v))) % Base) * Base ^ 3
<1> DEFINE u == Up(v)  w == Up(u)  x == Up(w)
<1>1. u \in Nat /\ w \in Nat /\ x \in Nat
  BY UpSmaller
<1>2. /\ v = (v % Base) + Base * u /\ u = (u % Base) + Base * w
      /\ w = (w % Base) + Base * x
      /\ v % Base \in Nat /\ u % Base \in Nat /\ w % Base \in Nat
      /\ x % Base \in Nat
      /\ Count(v) = 2 => Count(u) = 1
      /\ Count(v) = 3 => Count(u) = 2
      /\ Count(v) = 4 => Count(u) = 3
      /\ Count(u) = 2 => Count(w) = 1
      /\ Count(u) = 3 => Count(w) = 2
      /\ Count(w) = 2 => Count(x) = 1
      /\ Count(v) = 1 => u = 0
      /\ Count(u) = 1 => u % Base = u
      /\ Count(w) = 1 => w % Base = w
      /\ Count(x) = 1 => x % Base = x
  BY <1>1, UpSmaller
<1> HIDE DEF u, w, x
<1>3. PICK p \in Nat, q \in Nat, r \in Nat, t \in Nat :
        p = v % Base /\ q = u % Base /\ r = w % Base /\ t = x % Base
  BY <1>2
<1>4. /\ Count(v) = 1 => v = p
      /\ Count(v) = 2 => v = p + q * 128
      /\ Count(v) = 3 => v = p + q * 128 + r * 16384
      /\ Count(v) = 4 => v = p + q * 128 + r * 16384 + t * 2097152
  BY SMT, <1>1, <1>2, <1>3, Powers
<1>5. /\ Count(v) = 1 => v = v % Base
      /\ Count(v) = 2 => v = (v % Base) + (u % Base) * Base
      /\ Count(v) = 3 => v = (v % Base) + (u % Base) * Base
                               + (w % Base) * Base ^ 2
      /\ Count(v) = 4 => v = (v % Base) + (u % Base) * Base
                               + (w % Base) * Base ^ 2 + (x % Base) * Base ^ 3
  BY SMT, <1>3, <1>4, Powers
<1>6. QED
  BY <1>1, <1>5 DEF u, w, x

(* What is written is read: the remaining length and the length of the     *)
(* properties come back as they were announced.                            *)
LEMMA ReadBack ==
  ASSUME NEW v \in Nat, v <= MaxVarInt
  PROVE  ReadVarInt(WriteVarInt[v]) = v
<1> DEFINE u == Up(v)  w == Up(u)  x == Up(w)
           d1 == v % Base  d2 == u % Base  d3 == w % Base  d4 == x % Base
<1>1. d1 \in Nat /\ d2 \in Nat /\ d3 \in Nat /\ d4 \in Nat
  BY Digits, UpSmaller
<1>2. WriteVarInt[v] = Bytes(v)
  BY Written
<1>3. /\ Base ^ (1 - 1) = 1 /\ Base ^ (2 - 1) = Base
      /\ Base ^ (3 - 1) = Base ^ 2 /\ Base ^ (4 - 1) = Base ^ 3
      /\ Base \in Int /\ Base ^ 2 \in Int /\ Base ^ 3 \in Int
  BY SMT DEF Base
<1>4. /\ Count(v) = 1 => v = d1
      /\ Count(v) = 2 => v = d1 + d2 * Base
      /\ Count(v) = 3 => v = d1 + d2 * Base + d3 * Base ^ 2
      /\ Count(v) = 4 => v = d1 + d2 * Base + d3 * Base ^ 2 + d4 * Base ^ 3
  BY Digits
<1>5. CASE Count(v) = 1
  <2> DEFINE bytes == <<Low(v, FALSE)>>
  <2>1. Bytes(v) = bytes
    BY <1>5 DEF Bytes
  <2>2. DOMAIN bytes = 1..1 /\ ~ bytes[1].more /\ bytes[1].digit = d1
    BY DEF Low
  <2> HIDE DEF bytes, d1, d2, d3, d4
  <2>3. Weighted(bytes, 1)[1] = d1
    BY <1>1, <1>3, <2>2 DEF Weighted
  <2>4. ReadVarInt(bytes) = Sum(Weighted(bytes, 1), 1..1)
    <3>1. \A k \in 1..1 : k < 1 => bytes[k].more
      BY <2>2
    <3>2. QED
      BY <2>2, <3>1, ReadAt
  <2>5. Sum(Weighted(bytes, 1), 1..1) = d1
    BY <1>1, <2>3, SumFour
  <2>6. QED
    BY <1>2, <1>4, <1>5, <2>1, <2>4, <2>5
<1>6. CASE Count(v) = 2
  <2> DEFINE bytes == <<Low(v, TRUE), Low(u, FALSE)>>
  <2>1. Bytes(v) = bytes
    BY <1>6 DEF Bytes
  <2>2. /\ DOMAIN bytes = 1..2 /\ bytes[1].more /\ ~ bytes[2].more
        /\ bytes[1].digit = d1 /\ bytes[2].digit = d2
    BY DEF Low
  <2> HIDE DEF bytes, d1, d2, d3, d4
  <2>3. Weighted(bytes, 2)[1] = d1 /\ Weighted(bytes, 2)[2] = d2 * Base
    BY <1>1, <1>3, <2>2 DEF Weighted
  <2>4. ReadVarInt(bytes) = Sum(Weighted(bytes, 2), 1..2)
    <3>1. \A k \in 1..2 : k < 2 => bytes[k].more
      BY <2>2
    <3>2. QED
      BY <2>2, <3>1, ReadAt
  <2>5. Sum(Weighted(bytes, 2), 1..2) = d1 + d2 * Base
    BY <1>1, <1>3, <2>3, SumFour
  <2>6. QED
    BY <1>2, <1>4, <1>6, <2>1, <2>4, <2>5
<1>7. CASE Count(v) = 3
  <2> DEFINE bytes == <<Low(v, TRUE), Low(u, TRUE), Low(w, FALSE)>>
  <2>1. Bytes(v) = bytes
    BY <1>7 DEF Bytes
  <2>2. /\ DOMAIN bytes = 1..3
        /\ bytes[1].more /\ bytes[2].more /\ ~ bytes[3].more
        /\ bytes[1].digit = d1 /\ bytes[2].digit = d2 /\ bytes[3].digit = d3
    BY DEF Low
  <2> HIDE DEF bytes, d1, d2, d3, d4
  <2>3. /\ Weighted(bytes, 3)[1] = d1 /\ Weighted(bytes, 3)[2] = d2 * Base
        /\ Weighted(bytes, 3)[3] = d3 * Base ^ 2
    BY <1>1, <1>3, <2>2 DEF Weighted
  <2>4. ReadVarInt(bytes) = Sum(Weighted(bytes, 3), 1..3)
    <3>1. \A k \in 1..3 : k < 3 => bytes[k].more
      BY <2>2
    <3>2. QED
      BY <2>2, <3>1, ReadAt
  <2>5. Sum(Weighted(bytes, 3), 1..3) = d1 + d2 * Base + d3 * Base ^ 2
    BY <1>1, <1>3, <2>3, SumFour
  <2>6. QED
    BY <1>2, <1>4, <1>7, <2>1, <2>4, <2>5
<1>8. CASE Count(v) = 4
  <2> DEFINE bytes == <<Low(v, TRUE), Low(u, TRUE), Low(w, TRUE), Low(x, FALSE)>>
  <2>1. Bytes(v) = bytes
    BY <1>8 DEF Bytes
  <2>2. /\ DOMAIN bytes = 1..4
        /\ bytes[1].more /\ bytes[2].more /\ bytes[3].more /\ ~ bytes[4].more
        /\ bytes[1].digit = d1 /\ bytes[2].digit = d2 /\ bytes[3].digit = d3
        /\ bytes[4].digit = d4
    BY DEF Low
  <2> HIDE DEF bytes, d1, d2, d3, d4
  <2>3. /\ Weighted(bytes, 4)[1] = d1 /\ Weighted(bytes, 4)[2] = d2 * Base
        /\ Weighted(bytes, 4)[3] = d3 * Base ^ 2 /\ Weighted(bytes, 4)[4] = d4 * Base ^ 3
    BY <1>1, <1>3, <2>2 DEF Weighted
  <2>4. ReadVarInt(bytes) = Sum(Weighted(bytes, 4), 1..4)
    <3>1. \A k \in 1..4 : k < 4 => bytes[k].more
      BY <2>2
    <3>2. QED
      BY <2>2, <3>1, ReadAt
  <2>5. Sum(Weighted(bytes, 4), 1..4) = d1 + d2 * Base + d3 * Base ^ 2 + d4 * Base ^ 3
    BY <1>1, <1>3, <2>3, SumFour
  <2>6. QED
    BY <1>2, <1>4, <1>8, <2>1, <2>4, <2>5
<1>9. QED
  BY <1>5, <1>6, <1>7, <1>8, UpSmaller

-----------------------------------------------------------------------------
(* Items of a frame *)

AnyItem == [class : {"field", "length", "property", "payload"}, id : Nat,
            size : Nat \ {0}, value : Nat]

(* The bytes before an item *)
Before(items, k) == Sum(Sizes(items), 1..k - 1)

LEMMA SizesAt ==
  ASSUME NEW s \in Seq(AnyItem)
  PROVE  /\ Len(s) \in Nat /\ DOMAIN s = 1..Len(s)
         /\ DOMAIN Sizes(s) = 1..Len(s)
         /\ \A k \in 1..Len(s) :
              /\ s[k] \in AnyItem
              /\ Sizes(s)[k] = s[k].size
              /\ Sizes(s)[k] \in Nat /\ Sizes(s)[k] > 0 /\ Sizes(s)[k] \in Int
<1>1. Len(s) \in Nat /\ DOMAIN s = 1..Len(s) /\ \A k \in 1..Len(s) : s[k] \in AnyItem
  BY LenProperties, ElementOfSeq
<1>2. \A k \in 1..Len(s) : Sizes(s)[k] = s[k].size
  BY <1>1 DEF Sizes
<1>3. \A x \in AnyItem : x.size \in Nat /\ x.size > 0 /\ x.size \in Int
  BY DEF AnyItem
<1>4. DOMAIN Sizes(s) = 1..Len(s)
  BY <1>1 DEF Sizes
<1>5. QED
  BY <1>1, <1>2, <1>3, <1>4

LEMMA SizeSumIs ==
  ASSUME NEW s \in Seq(AnyItem)
  PROVE  SizeSum(s) = Sum(Sizes(s), 1..Len(s)) /\ SizeSum(s) \in Nat
<1>1. SizeSum(s) = Sum(Sizes(s), 1..Len(s))
  BY SizesAt DEF SizeSum, SumFunction, Sum
<1>2. IsFiniteSet(1..Len(s))
  BY SizesAt, FS_Interval
<1>3. QED
  BY <1>1, <1>2, SizesAt, SumNat

LEMMA SizeSumNone ==
  SizeSum(<<>>) = 0 /\ <<>> \in Seq(AnyItem) /\ Len(<<>>) = 0
<1>1. <<>> \in Seq(AnyItem) /\ Len(<<>>) = 0 /\ 1..0 = {}
  OBVIOUS
<1>2. QED
  BY <1>1, SizeSumIs, SumEmpty

LEMMA SizeSumOne ==
  ASSUME NEW x \in AnyItem
  PROVE  /\ <<x>> \in Seq(AnyItem) /\ Len(<<x>>) = 1 /\ <<x>>[1] = x
         /\ SizeSum(<<x>>) = x.size
<1> DEFINE s == <<x>>
<1>1. s \in Seq(AnyItem) /\ Len(s) = 1 /\ s[1] = x
  OBVIOUS
<1> HIDE DEF s
<1>2. Sizes(s)[1] = x.size /\ Sizes(s)[1] \in Int
  BY <1>1, SizesAt
<1>3. SizeSum(s) = Sum(Sizes(s), 1..1)
  BY <1>1, SizeSumIs
<1>4. SizeSum(s) = x.size
  BY <1>2, <1>3, SumFour
<1>5. QED
  BY <1>1, <1>4 DEF s

(* A sequence after another *)
LEMMA SizeSumConcat ==
  ASSUME NEW s \in Seq(AnyItem), NEW t \in Seq(AnyItem)
  PROVE  /\ s \o t \in Seq(AnyItem) /\ Len(s \o t) = Len(s) + Len(t)
         /\ \A k \in 1..Len(s) : (s \o t)[k] = s[k]
         /\ \A k \in 1..Len(t) : (s \o t)[Len(s) + k] = t[k]
         /\ Before(s \o t, Len(s) + 1) = SizeSum(s)
         /\ SizeSum(s \o t) = SizeSum(s) + SizeSum(t)
<1> DEFINE u == s \o t
           m == Len(s)
           A == 1..m
           B == 1..Len(t)
           C == m + 1..m + Len(t)
<1>1. u \in Seq(AnyItem) /\ Len(u) = m + Len(t) /\ m \in Nat /\ Len(t) \in Nat
  BY ConcatProperties, SizesAt
<1>2. \A k \in 1..Len(s) : u[k] = s[k]
  BY <1>1, ConcatProperties
<1>3. ASSUME NEW k \in 1..Len(t) PROVE u[m + k] = t[k]
  <2>1. m + k \in 1..m + Len(t) /\ ~ (m + k <= m) /\ (m + k) - m = k
    BY <1>1
  <2>2. u[m + k] = IF m + k <= m THEN s[m + k] ELSE t[(m + k) - m]
    BY <2>1, ConcatProperties
  <2>3. QED
    BY <2>1, <2>2
<1> HIDE DEF u
<1>4. IsFiniteSet(A) /\ IsFiniteSet(B) /\ IsFiniteSet(C)
  BY <1>1, FS_Interval
<1>5. A \cap C = {} /\ A \cup C = 1..Len(u)
  BY <1>1
<1>6. Sum(Sizes(u), A) = Sum(Sizes(s), A)
  <2>1. ASSUME NEW k \in A
        PROVE  Sizes(u)[k] = Sizes(s)[k] /\ Sizes(s)[k] \in Int
    <3>1. k \in 1..Len(u)
      BY <1>1
    <3>2. Sizes(u)[k] = u[k].size /\ Sizes(s)[k] = s[k].size
      BY <1>1, <3>1, SizesAt
    <3>3. Sizes(s)[k] \in Int
      BY SizesAt
    <3>4. QED
      BY <1>2, <3>2, <3>3
  <2>2. QED
    BY <1>4, <2>1, SumSame
<1>7. Sum(Sizes(t), B) = Sum(Sizes(u), C)
  <2> DEFINE r == [k \in B |-> m + k]
  <2>1. /\ \A k \in B : r[k] \in C
        /\ \A j, k \in B : r[j] = r[k] => j = k
    BY <1>1
  <2>2. \A z \in C : \E k \in B : r[k] = z
    <3>1. TAKE z \in C
    <3>2. z - m \in B /\ r[z - m] = z
      BY <1>1
    <3>3. QED
      BY <3>2
  <2>3. ASSUME NEW k \in B PROVE Sizes(t)[k] = Sizes(u)[r[k]]
    <3>1. r[k] = m + k /\ m + k \in 1..Len(u)
      BY <1>1
    <3>2. Sizes(u)[m + k] = u[m + k].size /\ Sizes(t)[k] = t[k].size
      BY <1>1, <3>1, SizesAt
    <3>3. QED
      BY <1>3, <3>1, <3>2
  <2>4. \A z \in C : Sizes(u)[z] \in Int
    BY <1>1, SizesAt
  <2> DEFINE F == Sizes(t)
             G == Sizes(u)
  <2>5. (\A k \in B : F[k] = G[r[k]]) /\ \A z \in C : G[z] \in Int
    BY <2>3, <2>4
  <2> HIDE DEF r, A, B, C, F, G
  <2>6. Renames(r, B, C, F, G)
    BY Zenon, <2>1, <2>2, <2>5 DEF Renames
  <2>7. Sum(F, B) = Sum(G, C)
    BY <1>4, <2>6, SumRenamed
  <2>8. QED
    BY <2>7 DEF F, G
<1>8. Sum(Sizes(u), A \cup C) = Sum(Sizes(u), A) + Sum(Sizes(u), C)
  <2>1. \A k \in A \cup C : Sizes(u)[k] \in Int
    BY <1>1, <1>5, SizesAt
  <2> HIDE DEF A, C
  <2>2. QED
    BY <1>4, <1>5, <2>1, SumUnion
<1>9. SizeSum(u) = SizeSum(s) + SizeSum(t)
  BY <1>1, <1>5, <1>6, <1>7, <1>8, SizeSumIs
<1>10. Before(u, m + 1) = SizeSum(s)
  <2>1. 1..(m + 1) - 1 = A
    BY <1>1
  <2>2. QED
    BY <1>6, <2>1, SizeSumIs DEF Before
<1>11. QED
  BY <1>1, <1>2, <1>3, <1>9, <1>10 DEF u

(* The bytes up to an item grow with every item, from none to all. *)
LEMMA BeforeStep ==
  ASSUME NEW s \in Seq(AnyItem), NEW k \in 1..Len(s)
  PROVE  /\ Before(s, k + 1) = Before(s, k) + s[k].size
         /\ Before(s, k) \in Nat /\ Before(s, k + 1) \in Nat
<1>1. k \in Nat /\ Len(s) \in Nat /\ k >= 1 /\ k <= Len(s)
  BY SizesAt
<1>2. PICK j \in Nat : k = j + 1
  <2>1. k - 1 \in Nat /\ k = (k - 1) + 1
    BY <1>1
  <2>2. QED
    BY <2>1
<1>3. \A i \in 1..j + 1 : Sizes(s)[i] \in Int /\ Sizes(s)[i] \in Nat
  BY <1>1, <1>2, SizesAt
<1>4. Sum(Sizes(s), 1..j + 1) = Sum(Sizes(s), 1..j) + Sizes(s)[j + 1]
  BY <1>3, SumNext
<1>5. 1..k - 1 = 1..j /\ 1..(k + 1) - 1 = 1..j + 1
  BY <1>2
<1>6. Before(s, k + 1) = Before(s, k) + Sizes(s)[k]
  BY <1>2, <1>4, <1>5 DEF Before
<1>7. Before(s, k) \in Nat
  <2>1. IsFiniteSet(1..j)
    BY FS_Interval
  <2>2. \A i \in 1..j : Sizes(s)[i] \in Nat
    BY <1>3
  <2>3. QED
    BY <1>5, <2>1, <2>2, SumNat DEF Before
<1>8. Sizes(s)[k] = s[k].size /\ Sizes(s)[k] \in Nat
  BY SizesAt
<1>9. QED
  BY <1>6, <1>7, <1>8

LEMMA BeforeEnds ==
  ASSUME NEW s \in Seq(AnyItem)
  PROVE  Before(s, 1) = 0 /\ Before(s, Len(s) + 1) = SizeSum(s)
<1>1. 1..1 - 1 = {} /\ 1..(Len(s) + 1) - 1 = 1..Len(s)
  BY SizesAt
<1>2. QED
  BY <1>1, SumEmpty, SizeSumIs DEF Before

(* The difference is the sum of what is between. *)
LEMMA BeforeBetween ==
  ASSUME NEW s \in Seq(AnyItem), NEW j \in 1..Len(s) + 1,
         NEW k \in 1..Len(s) + 1, j <= k
  PROVE  /\ Sum(Sizes(s), j..k - 1) = Before(s, k) - Before(s, j)
         /\ Before(s, j) \in Nat /\ Before(s, k) \in Nat
         /\ Before(s, j) <= Before(s, k)
         /\ j < k => Before(s, j) < Before(s, k)
<1>1. Len(s) \in Nat /\ j \in Nat /\ k \in Nat
  BY SizesAt
<1> DEFINE A == 1..j - 1
           B == j..k - 1
<1>2. IsFiniteSet(A) /\ IsFiniteSet(B)
  <2>1. 1 \in Int /\ j \in Int /\ j - 1 \in Int /\ k - 1 \in Int
    BY <1>1
  <2>2. QED
    BY <2>1, FS_Interval
<1>3. A \cap B = {} /\ A \cup B = 1..k - 1
  BY <1>1
<1>4. /\ \A i \in A \cup B : Sizes(s)[i] \in Int /\ Sizes(s)[i] \in Nat
      /\ \A i \in B : Sizes(s)[i] > 0
  BY <1>1, SizesAt
<1> HIDE DEF A, B
<1>5. Sum(Sizes(s), A \cup B) = Sum(Sizes(s), A) + Sum(Sizes(s), B)
  BY <1>2, <1>3, <1>4, SumUnion
<1>6. Sum(Sizes(s), A) \in Nat /\ Sum(Sizes(s), B) \in Nat
  BY <1>2, <1>4, SumNat
<1>7. Before(s, k) = Before(s, j) + Sum(Sizes(s), B) /\ Before(s, j) \in Nat
  BY <1>3, <1>5, <1>6 DEF Before, A
<1>8. j < k => Sum(Sizes(s), B) > 0
  <2>1. SUFFICES ASSUME j < k PROVE Sum(Sizes(s), B) > 0
    OBVIOUS
  <2>2. j \in B
    BY <1>1, <2>1 DEF B
  <2>3. Sum(Sizes(s), B) = Sizes(s)[j] + Sum(Sizes(s), B \ {j})
    BY <1>2, <1>4, <2>2, SumStep
  <2>4. Sum(Sizes(s), B \ {j}) \in Nat
    <3>1. IsFiniteSet(B \ {j}) /\ \A i \in B \ {j} : Sizes(s)[i] \in Nat
      BY <1>2, <1>4, FS_Subset
    <3>2. QED
      BY <3>1, SumNat
  <2>5. QED
    BY <1>4, <2>2, <2>3, <2>4
<1>9. QED
  BY <1>6, <1>7, <1>8 DEF B

-----------------------------------------------------------------------------
(* Properties *)

LEMMA SumBound ==
  ASSUME NEW S, IsFiniteSet(S), NEW F, NEW c \in Nat,
         \A x \in S : F[x] \in Nat /\ F[x] <= c
  PROVE  Sum(F, S) <= c * Cardinality(S)
<1> DEFINE P == {s \in SUBSET S : Sum(F, s) <= c * Cardinality(s)}
<1>1. ASSUME NEW s \in SUBSET S, \A r \in SUBSET s : r # s => r \in P
      PROVE  s \in P
  <2>1. CASE s = {}
    <3>1. Sum(F, s) = 0 /\ Cardinality(s) = 0
      BY <2>1, SumEmpty, FS_EmptySet
    <3>2. QED
      BY <3>1
  <2>2. CASE s # {}
    <3> DEFINE a == Chosen(s)
               r == s \ {a}
    <3>1. a \in s /\ IsFiniteSet(s)
      BY <2>2, ChosenIn, FS_Subset
    <3>2. Sum(F, s) = F[a] + Sum(F, r)
      BY <2>2, <3>1, SumChoice
    <3> HIDE DEF a
    <3>3. r \in P
      BY <1>1, <3>1
    <3>4. IsFiniteSet(r) /\ Cardinality(r) = Cardinality(s) - 1
      BY <3>1, FS_RemoveElement
    <3>5. Cardinality(s) \in Nat /\ Sum(F, r) \in Nat /\ F[a] \in Nat /\ F[a] <= c
      <4>1. \A x \in r : F[x] \in Nat
        OBVIOUS
      <4>2. QED
        BY <3>1, <3>4, <4>1, FS_CardinalityType, SumNat
    <3> HIDE DEF r
    <3>6. PICK i \in Nat, j \in Nat, k \in Nat :
            i = Sum(F, r) /\ j = F[a] /\ k = Cardinality(s)
      BY <3>5
    <3>7. i <= c * (k - 1) /\ j <= c
      BY <3>3, <3>4, <3>5, <3>6
    <3>8. i + j <= c * k
      <4>1. c * k = c * (k - 1) + c
        OBVIOUS
      <4>2. PICK e \in Int : e = c * (k - 1)
        OBVIOUS
      <4>3. QED
        BY <3>7, <4>1, <4>2
    <3>9. QED
      BY <3>2, <3>6, <3>8
  <2>3. QED
    BY <2>1, <2>2
<1> HIDE DEF P
<1>2. S \in P
  BY <1>1, SubsetInduction
<1>3. QED
  BY <1>2 DEF P

(* SetToSeq lists every element once. *)
LEMMA Listed ==
  ASSUME NEW S, IsFiniteSet(S)
  PROVE  /\ SetToSeq(S) \in Seq(S) /\ Len(SetToSeq(S)) = Cardinality(S)
         /\ DOMAIN SetToSeq(S) = 1..Cardinality(S)
         /\ \A j, k \in 1..Cardinality(S) :
              SetToSeq(S)[j] = SetToSeq(S)[k] => j = k
         /\ \A x \in S : \E k \in 1..Cardinality(S) : SetToSeq(S)[k] = x
<1> DEFINE D == 1..Cardinality(S)
           f == SetToSeq(S)
<1>1. Cardinality(S) \in Nat /\ ExistsBijection(D, S)
  BY FS_CardinalityType
<1>2. PICK g : g \in Bijection(D, S)
  BY <1>1 DEF ExistsBijection
<1>3. g \in [D -> S] /\ IsInjective(g)
  BY <1>2 DEF Bijection, Injection
<1>4. f \in [D -> S] /\ IsInjective(f)
  BY <1>3 DEF SetToSeq
<1>5. f \in Injection(D, S)
  BY <1>4 DEF Injection
<1>6. IsFiniteSet(D) /\ Cardinality(D) = Cardinality(S)
  BY <1>1, FS_Interval
<1> HIDE DEF f
<1>7. f \in Surjection(D, S)
  BY <1>5, <1>6, FS_Injection
<1>8. /\ \A j, k \in D : f[j] = f[k] => j = k
      /\ \A x \in S : \E k \in D : f[k] = x
  BY <1>4, <1>7 DEF IsInjective, Surjection
<1>9. f \in Seq(S) /\ Len(f) = Cardinality(S)
  BY <1>1, <1>4
<1>10. QED
  BY <1>4, <1>8, <1>9 DEF f

LEMMA SumListed ==
  ASSUME NEW S, IsFiniteSet(S), NEW G, \A x \in S : G[x] \in Int,
         NEW F, \A k \in 1..Cardinality(S) : F[k] = G[SetToSeq(S)[k]]
  PROVE  Sum(F, 1..Cardinality(S)) = Sum(G, S)
<1> DEFINE m == SetToSeq(S)
           D == 1..Cardinality(S)
<1>1. IsFiniteSet(D)
  BY FS_CardinalityType, FS_Interval
<1>2. /\ \A j, k \in D : m[j] = m[k] => j = k
      /\ \A x \in S : \E k \in D : m[k] = x
  BY Listed
<1>3. \A k \in D : m[k] \in S
  BY Listed, FS_CardinalityType
<1>4. \A k \in D : F[k] = G[m[k]]
  OBVIOUS
<1> HIDE DEF m, D
<1>5. Sum(F, D) = Sum(G, S)
  <2>1. Renames(m, D, S, F, G)
    BY <1>2, <1>3, <1>4 DEF Renames
  <2>2. QED
    BY <1>1, <2>1, SumRenamed
<1>6. QED
  BY <1>5 DEF D

Kinds == {"byte", "uint16", "uint32", "varint", "pair", "string"}

LEMMA KindType ==
  ASSUME NEW id
  PROVE  Kind(id) \in Kinds
<1> DEFINE p == id \in {1, 23, 25, 36, 37, 40, 41, 42}
           q == id \in {19, 33, 34, 35}
           r == id \in {2, 17, 24, 39}
           s == id = 11
           t == id = 38
<1>1. Kind(id) = CASE p -> "byte" [] q -> "uint16" [] r -> "uint32"
                   [] s -> "varint" [] t -> "pair" [] OTHER -> "string"
  BY Zenon DEF Kind
<1> HIDE DEF p, q, r, s, t
<1>2. QED
  BY Zenon, <1>1 DEF Kinds

(* The longest string, and the longest property: two of them, with their   *)
(* lengths and the identifier                                              *)
MaxString == 65535
MaxProperty == 2 * (2 + MaxString) + 1

LEMMA StringSizeIs ==
  ASSUME NEW l \in Nat, l <= MaxString
  PROVE  StringSize(l) = 2 + l
<1>1. l < 65536
  BY SMT DEF MaxString
<1>2. l % 2 ^ 16 = l
  BY SMT, <1>1
<1>3. QED
  BY <1>2 DEF StringSize

LEMMA PropertySize ==
  ASSUME NEW id, NEW l \in Nat, l <= MaxString
  PROVE  /\ WrittenSize(id, l) = SizeOf(id, l)
         /\ ReadSize(id, l) = SizeOf(id, l)
         /\ SizeOf(id, l) \in Nat /\ 1 + SizeOf(id, l) <= MaxProperty
<1> DEFINE k == Kind(id)
<1>1. k \in Kinds
  BY KindType
<1>2. l <= MaxVarInt
  BY SMT, Limit DEF MaxString
<1>3. /\ Len(WriteVarInt[l]) = Length(l) /\ Length(l) \in Nat
      /\ Length(l) \in 1..4
  BY <1>2, VarIntLength
<1>4. StringSize(l) = 2 + l
  BY StringSizeIs
<1>5. SizeOf(id, l) = CASE k = "byte" -> 1
                        [] k = "uint16" -> 2
                        [] k = "uint32" -> 4
                        [] k = "varint" -> Length(l)
                        [] k = "pair" -> 2 * (2 + l)
                        [] k = "string" -> 2 + l
  BY DEF SizeOf
<1>6. WrittenSize(id, l) = IF k = "varint" THEN Len(WriteVarInt[l])
                           ELSE SizeOf(id, l)
  BY DEF WrittenSize
<1>7. ReadSize(id, l) = CASE k = "string" -> StringSize(l)
                          [] k = "pair" -> 2 * StringSize(l)
                          [] OTHER -> WrittenSize(id, l)
  BY Zenon DEF ReadSize
<1> HIDE DEF k
<1>8. /\ k = "byte" => SizeOf(id, l) = 1
      /\ k = "uint16" => SizeOf(id, l) = 2
      /\ k = "uint32" => SizeOf(id, l) = 4
      /\ k = "varint" => SizeOf(id, l) = Length(l)
      /\ k = "pair" => SizeOf(id, l) = 2 * (2 + l)
      /\ k = "string" => SizeOf(id, l) = 2 + l
  BY <1>5
<1>9. WrittenSize(id, l) = SizeOf(id, l)
  BY <1>3, <1>6, <1>8
<1>10. /\ k = "string" => ReadSize(id, l) = StringSize(l)
       /\ k = "pair" => ReadSize(id, l) = 2 * StringSize(l)
       /\ k # "string" /\ k # "pair" => ReadSize(id, l) = WrittenSize(id, l)
  BY Zenon, <1>7
<1>11. ReadSize(id, l) = SizeOf(id, l)
  BY <1>1, <1>4, <1>8, <1>9, <1>10 DEF Kinds
<1>12. SizeOf(id, l) \in Nat /\ 1 + SizeOf(id, l) <= MaxProperty
  BY SMT, <1>1, <1>3, <1>8 DEF Kinds, MaxProperty, MaxString
<1>13. QED
  BY <1>9, <1>11, <1>12

LEMMA PropertiesLenIs ==
  ASSUME NEW ids, IsFiniteSet(ids), NEW l \in Nat, l <= MaxString
  PROVE  /\ PropertiesLen(ids, l) = Sum([id \in ids |-> 1 + SizeOf(id, l)], ids)
         /\ PropertiesLen(ids, l) \in Nat
         /\ PropertiesLen(ids, l) <= MaxProperty * Cardinality(ids)
<1> DEFINE G == [id \in ids |-> 1 + SizeOf(id, l)]
<1>1. PropertiesLen(ids, l) = Sum(G, ids)
  BY DEF PropertiesLen, SumFunction, Sum
<1>2. \A id \in ids : G[id] \in Nat /\ G[id] <= MaxProperty
  BY PropertySize
<1>3. MaxProperty \in Nat
  BY SMT DEF MaxProperty, MaxString
<1> HIDE DEF G
<1>4. Sum(G, ids) \in Nat /\ Sum(G, ids) <= MaxProperty * Cardinality(ids)
  BY <1>2, <1>3, SumNat, SumBound
<1>5. QED
  BY <1>1, <1>4 DEF G

(* The properties of a section *)
Listing(name, ids, l) ==
  [k \in 1..Len(SetToSeq(ids)) |->
     Renamed(Property(SetToSeq(ids)[k], l), name[SetToSeq(ids)[k]])]

LEMMA ListingIs ==
  ASSUME NEW ids \in SUBSET Nat, IsFiniteSet(ids), NEW l \in Nat, l <= MaxString,
         NEW name, \A id \in ids : name[id] \in Nat
  PROVE  /\ Listing(name, ids, l) \in Seq(AnyItem)
         /\ Len(Listing(name, ids, l)) = Cardinality(ids)
         /\ Cardinality(ids) \in Nat
         /\ \A k \in 1..Cardinality(ids) :
              /\ Listing(name, ids, l)[k].class = "property"
              /\ \E id \in ids :
                   /\ Listing(name, ids, l)[k].id = name[id]
                   /\ Listing(name, ids, l)[k].size = 1 + SizeOf(id, l)
         /\ SizeSum(Listing(name, ids, l)) = PropertiesLen(ids, l)
<1> DEFINE f == SetToSeq(ids)
           c == Cardinality(ids)
           s == Listing(name, ids, l)
           G == [id \in ids |-> 1 + SizeOf(id, l)]
<1>1. c \in Nat /\ Len(f) = c
  BY Listed, FS_CardinalityType
<1>2. \A k \in 1..c : f[k] \in ids
  BY <1>1, Listed
<1>3. /\ \A j, k \in 1..c : f[j] = f[k] => j = k
      /\ \A x \in ids : \E k \in 1..c : f[k] = x
  BY Listed
<1>4. s = [k \in 1..c |-> Renamed(Property(f[k], l), name[f[k]])]
  BY <1>1 DEF Listing
<1> HIDE DEF f, s, c
<1>5. ASSUME NEW k \in 1..c
      PROVE  /\ s[k] \in AnyItem /\ s[k].class = "property"
             /\ s[k].id = name[f[k]] /\ s[k].size = 1 + SizeOf(f[k], l)
  <2>1. s[k] = Renamed(Property(f[k], l), name[f[k]])
    BY <1>4
  <2>2. WrittenSize(f[k], l) = SizeOf(f[k], l) /\ SizeOf(f[k], l) \in Nat
    BY PropertySize
  <2>3. s[k] = [class |-> "property", id |-> name[f[k]],
                size |-> 1 + SizeOf(f[k], l), value |-> 0]
    BY <2>1, <2>2 DEF Renamed, Property
  <2>4. name[f[k]] \in Nat /\ 1 + SizeOf(f[k], l) \in Nat \ {0}
    <3>1. f[k] \in ids
      BY <1>2
    <3>2. name[f[k]] \in Nat
      BY <3>1
    <3>3. 1 + SizeOf(f[k], l) \in Nat \ {0}
      BY <2>2
    <3>4. QED
      BY <3>2, <3>3
  <2>5. QED
    BY <2>3, <2>4 DEF AnyItem
<1>6. s \in Seq(AnyItem) /\ Len(s) = c
  <2>1. s \in [1..c -> AnyItem]
    BY <1>4, <1>5
  <2>2. QED
    BY <1>1, <2>1
<1>7. SizeSum(s) = Sum(G, ids)
  <2>1. \A k \in 1..c : Sizes(s)[k] = G[f[k]]
    BY <1>2, <1>5, <1>6, SizesAt
  <2>2. \A id \in ids : G[id] \in Int
    BY PropertySize
  <2> HIDE DEF G
  <2>4. Sum(Sizes(s), 1..c) = Sum(G, ids)
    BY <2>1, <2>2, SumListed DEF c, f
  <2>5. QED
    BY <1>6, <2>4, SizeSumIs
<1>8. SizeSum(s) = PropertiesLen(ids, l)
  BY <1>7, PropertiesLenIs
<1>9. \A k \in 1..c : \E id \in ids : s[k].id = name[id] /\ s[k].size = 1 + SizeOf(id, l)
  BY <1>2, <1>5
<1>10. QED
  BY <1>1, <1>5, <1>6, <1>8, <1>9 DEF s, c

LEMMA LengthItemIs ==
  ASSUME NEW v \in Nat, v <= MaxVarInt
  PROVE  /\ LengthItem(v) \in AnyItem /\ LengthItem(v).class = "length"
         /\ LengthItem(v).size = Length(v) /\ LengthItem(v).value = v
<1>1. Len(WriteVarInt[v]) = Length(v) /\ Length(v) \in Nat \ {0}
  BY VarIntLength
<1>2. LengthItem(v) = [class |-> "length", id |-> 0, size |-> Length(v),
                       value |-> v]
  BY <1>1 DEF LengthItem
<1>3. QED
  BY <1>1, <1>2 DEF AnyItem

LEMMA FieldIs ==
  ASSUME NEW z \in Nat \ {0}
  PROVE  Field(z) \in AnyItem /\ Field(z).class = "field" /\ Field(z).size = z
BY DEF Field, AnyItem

LEMMA RestIs ==
  ASSUME NEW z \in Nat
  PROVE  /\ Rest(z) \in Seq(AnyItem) /\ SizeSum(Rest(z)) = z
         /\ Len(Rest(z)) = IF z = 0 THEN 0 ELSE 1
         /\ \A k \in 1..Len(Rest(z)) : Rest(z)[k].class = "payload"
<1>1. CASE z = 0
  <2>1. Rest(z) = <<>>
    BY <1>1 DEF Rest
  <2>2. Len(Rest(z)) = 0 /\ 1..0 = {}
    BY <2>1, SizeSumNone
  <2>3. QED
    BY <1>1, <2>1, <2>2, SizeSumNone
<1>2. CASE z # 0
  <2> DEFINE x == [class |-> "payload", id |-> 0, size |-> z, value |-> 0]
  <2>1. Rest(z) = <<x>>
    BY <1>2 DEF Rest
  <2>2. x \in AnyItem /\ x.class = "payload" /\ x.size = z
    BY <1>2 DEF AnyItem
  <2> HIDE DEF x
  <2>3. QED
    BY <1>2, <2>1, <2>2, SizeSumOne
<1>3. QED
  BY <1>1, <1>2

-----------------------------------------------------------------------------
(* Frames with a section of properties *)

(* Its length is item a, its properties are the items up to b. *)
Sectioned(items, a, b) ==
  /\ items \in Seq(AnyItem)
  /\ a \in 1..Len(items) /\ b \in a..Len(items)
  /\ items[a].class = "length"
  /\ items[a].value <= MaxVarInt
  /\ items[a].value = Before(items, b + 1) - Before(items, a + 1)
  /\ \A k \in 1..a - 1 : items[k].class = "field"
  /\ \A k \in a + 1..b : items[k].class = "property"
  /\ \A k \in b + 1..Len(items) : items[k].class \in {"field", "payload"}

(* What FrameExact says of a frame *)
Announces(f) ==
  /\ f.remaining = SizeSum(f.items)
  /\ \A k \in DOMAIN f.items :
       f.items[k].class = "length" =>
         LET run == {j \in k + 1..Len(f.items) :
                       \A i \in k + 1..j : f.items[i].class = "property"}
         IN f.items[k].value = Sum(Sizes(f.items), run)

LEMMA SectionedAnnounces ==
  ASSUME NEW f, NEW a, NEW b, Sectioned(f.items, a, b),
         f.remaining = SizeSum(f.items)
  PROVE  Announces(f)
<1> DEFINE s == f.items
<1>1. /\ s \in Seq(AnyItem) /\ Len(s) \in Nat /\ DOMAIN s = 1..Len(s)
      /\ a \in Nat /\ b \in Nat /\ 1 <= a /\ a <= b /\ b <= Len(s)
  BY SizesAt DEF Sectioned
<1>2. ASSUME NEW k \in DOMAIN s, s[k].class = "length"
      PROVE  s[k].value = Sum(Sizes(s), {j \in k + 1..Len(s) :
                              \A i \in k + 1..j : s[i].class = "property"})
  <2>1. k = a
    <3>1. ~ (k \in 1..a - 1) /\ ~ (k \in a + 1..b) /\ ~ (k \in b + 1..Len(s))
      BY <1>2 DEF Sectioned
    <3>2. QED
      BY <1>1, <3>1
  <2> DEFINE R == {j \in a + 1..Len(s) :
                     \A i \in a + 1..j : s[i].class = "property"}
  <2>2. R = a + 1..b
    <3>1. ASSUME NEW j \in a + 1..b PROVE j \in R
      <4>1. j \in a + 1..Len(s) /\ \A i \in a + 1..j : i \in a + 1..b
        BY <1>1, <3>1
      <4>2. QED
        BY <4>1 DEF Sectioned
    <3>2. ASSUME NEW j \in R PROVE j \in a + 1..b
      <4>1. SUFFICES ASSUME j > b PROVE FALSE
        BY <1>1
      <4>2. b + 1 \in a + 1..j /\ b + 1 \in b + 1..Len(s)
        BY <1>1, <3>2, <4>1
      <4>3. s[b + 1].class = "property" /\ s[b + 1].class \in {"field", "payload"}
        BY <3>2, <4>2 DEF Sectioned
      <4>4. QED
        BY <4>3
    <3> HIDE DEF R
    <3>3. QED
      BY <3>1, <3>2
  <2>3. Sum(Sizes(s), a + 1..b) = Before(s, b + 1) - Before(s, a + 1)
    <3>1. /\ a + 1 \in 1..Len(s) + 1 /\ b + 1 \in 1..Len(s) + 1
          /\ a + 1 <= b + 1 /\ (b + 1) - 1 = b
      BY <1>1
    <3>2. QED
      BY <1>1, <3>1, BeforeBetween
  <2>4. s[a].value = Sum(Sizes(s), R)
    BY <2>2, <2>3 DEF Sectioned
  <2>5. QED
    BY <2>1, <2>4
<1>3. QED
  BY <1>2 DEF Announces

LEMMA Regrouped ==
  ASSUME NEW s \in Seq(AnyItem), NEW t \in Seq(AnyItem), NEW u \in Seq(AnyItem)
  PROVE  s \o (t \o u) = (s \o t) \o u
BY SMT

Assembly(pre, name, length, ids, l, post) ==
  pre \o SectionAs(name, length, ids, l) \o post

Assembled(items, a, b, pre, name, length, ids, l, post) ==
  /\ Sectioned(items, a, b)
  /\ Len(items) = b + Len(post)
  /\ SizeSum(items) = SizeSum(pre) + Length(length) + length + SizeSum(post)
  /\ \A k \in 1..a - 1 : items[k] = pre[k]
  /\ items[a] = LengthItem(length)
  /\ \A k \in a + 1..b :
       \E id \in ids : /\ items[k].id = name[id]
                       /\ items[k].size = 1 + SizeOf(id, l)
  /\ \A k \in b + 1..Len(items) : items[k] = post[k - b]

LEMMA AssemblyIs ==
  ASSUME NEW pre \in Seq(AnyItem), \A k \in 1..Len(pre) : pre[k].class = "field",
         NEW post \in Seq(AnyItem),
         \A k \in 1..Len(post) : post[k].class \in {"field", "payload"},
         NEW ids \in SUBSET Nat, IsFiniteSet(ids), NEW l \in Nat, l <= MaxString,
         NEW name, \A id \in ids : name[id] \in Nat,
         NEW length, length = PropertiesLen(ids, l), length <= MaxVarInt,
         NEW items, items = Assembly(pre, name, length, ids, l, post),
         NEW a, a = Len(pre) + 1, NEW b, b = a + Cardinality(ids)
  PROVE  Assembled(items, a, b, pre, name, length, ids, l, post)
<1> DEFINE x == LengthItem(length)
           p == Listing(name, ids, l)
           c == Cardinality(ids)
           h == pre \o <<x>>
           m == h \o p
<1>1. length \in Nat
  BY PropertiesLenIs
<1>2. /\ x \in AnyItem /\ x.class = "length" /\ x.size = Length(length)
      /\ x.value = length
  BY <1>1, LengthItemIs
<1>3. /\ p \in Seq(AnyItem) /\ Len(p) = c /\ c \in Nat /\ SizeSum(p) = length
      /\ \A k \in 1..c :
           /\ p[k].class = "property"
           /\ \E id \in ids : p[k].id = name[id] /\ p[k].size = 1 + SizeOf(id, l)
  <2>1. /\ p \in Seq(AnyItem) /\ Len(p) = c /\ c \in Nat
        /\ SizeSum(p) = PropertiesLen(ids, l)
    <3>1. p \in Seq(AnyItem) /\ Len(p) = c
      BY ListingIs
    <3>2. c \in Nat
      BY FS_CardinalityType
    <3>3. SizeSum(p) = PropertiesLen(ids, l)
      BY ListingIs
    <3>4. QED
      BY <3>1, <3>2, <3>3
  <2>2. ASSUME NEW k \in 1..c PROVE p[k].class = "property"
    BY ListingIs
  <2>3. ASSUME NEW k \in 1..c
        PROVE  \E id \in ids : p[k].id = name[id] /\ p[k].size = 1 + SizeOf(id, l)
    BY ListingIs
  <2>4. QED
    BY <2>1, <2>2, <2>3
<1>4. SectionAs(name, length, ids, l) = <<x>> \o p
  BY DEF SectionAs, Listing
<1> HIDE DEF x, p, c
<1>5. /\ <<x>> \in Seq(AnyItem) /\ Len(<<x>>) = 1 /\ <<x>>[1] = x
      /\ SizeSum(<<x>>) = x.size
  BY <1>2, SizeSumOne
<1>6. items = m \o post
  <2>1. pre \o (<<x>> \o p) = (pre \o <<x>>) \o p
    <3>1. <<x>> \in Seq(AnyItem) /\ p \in Seq(AnyItem)
      BY <1>3, <1>5
    <3>2. QED
      BY <3>1, Regrouped
  <2>2. QED
    BY <1>4, <2>1 DEF Assembly
<1>7. Len(pre) \in Nat /\ a \in Nat /\ a >= 1 /\ b \in Nat /\ b = a + c /\ Len(post) \in Nat
  BY <1>3, SizesAt DEF c
<1>8. /\ h \in Seq(AnyItem) /\ Len(h) = a /\ h[a] = x
      /\ \A k \in 1..a - 1 : h[k] = pre[k]
      /\ SizeSum(h) = SizeSum(pre) + Length(length)
  <2>1. /\ h \in Seq(AnyItem) /\ Len(h) = Len(pre) + 1
        /\ \A k \in 1..Len(pre) : h[k] = pre[k]
        /\ \A k \in 1..1 : h[Len(pre) + k] = <<x>>[k]
        /\ SizeSum(h) = SizeSum(pre) + SizeSum(<<x>>)
    BY <1>5, SizeSumConcat
  <2> HIDE DEF h
  <2>2. h[a] = x
    BY <1>5, <2>1
  <2>3. a - 1 = Len(pre)
    BY <1>7
  <2>4. QED
    BY <1>2, <1>5, <2>1, <2>2, <2>3
<1> HIDE DEF h
<1>9. /\ m \in Seq(AnyItem) /\ Len(m) = b
      /\ \A k \in 1..a : m[k] = h[k]
      /\ \A k \in 1..c : m[a + k] = p[k]
      /\ SizeSum(m) = SizeSum(h) + length
      /\ Before(m, a + 1) = SizeSum(h)
  <2>1. h \in Seq(AnyItem) /\ p \in Seq(AnyItem) /\ Len(h) = a /\ Len(p) = c
    BY <1>3, <1>8
  <2>2. /\ m \in Seq(AnyItem) /\ Len(m) = Len(h) + Len(p)
        /\ \A k \in 1..Len(h) : m[k] = h[k]
        /\ \A k \in 1..Len(p) : m[Len(h) + k] = p[k]
        /\ Before(m, Len(h) + 1) = SizeSum(h)
        /\ SizeSum(m) = SizeSum(h) + SizeSum(p)
    BY <2>1, SizeSumConcat
  <2> HIDE DEF m
  <2>3. QED
    BY <1>3, <1>7, <2>1, <2>2
<1> HIDE DEF m
<1>10. /\ items \in Seq(AnyItem) /\ Len(items) = b + Len(post)
       /\ \A k \in 1..b : items[k] = m[k]
       /\ \A k \in 1..Len(post) : items[b + k] = post[k]
       /\ SizeSum(items) = SizeSum(m) + SizeSum(post)
       /\ Before(items, b + 1) = SizeSum(m)
  <2>1. m \in Seq(AnyItem) /\ Len(m) = b
    BY <1>9
  <2>2. /\ m \o post \in Seq(AnyItem) /\ Len(m \o post) = Len(m) + Len(post)
        /\ \A k \in 1..Len(m) : (m \o post)[k] = m[k]
        /\ \A k \in 1..Len(post) : (m \o post)[Len(m) + k] = post[k]
        /\ Before(m \o post, Len(m) + 1) = SizeSum(m)
        /\ SizeSum(m \o post) = SizeSum(m) + SizeSum(post)
    BY <2>1, SizeSumConcat
  <2>3. QED
    BY Zenon, <1>6, <2>1, <2>2
<1>11. Before(items, a + 1) = SizeSum(h)
  <2> DEFINE t == p \o post
  <2>1. items = h \o t
    <3>1. (h \o p) \o post = h \o (p \o post)
      BY <1>3, <1>8, Regrouped
    <3>2. QED
      BY <1>6, <3>1 DEF m
  <2>2. t \in Seq(AnyItem)
    BY <1>3, SizeSumConcat
  <2> HIDE DEF t
  <2>3. QED
    BY <1>8, <2>1, <2>2, SizeSumConcat
<1>12. /\ \A k \in 1..a - 1 : items[k] = pre[k]
       /\ items[a] = x
  <2>1. \A k \in 1..a - 1 : k \in 1..a /\ k \in 1..b
    BY <1>3, <1>7
  <2>2. a \in 1..a /\ a \in 1..b
    BY <1>3, <1>7
  <2>3. QED
    BY <1>8, <1>9, <1>10, <2>1, <2>2
<1>13. ASSUME NEW k \in a + 1..b
       PROVE  /\ items[k].class = "property"
              /\ \E id \in ids : /\ items[k].id = name[id]
                                 /\ items[k].size = 1 + SizeOf(id, l)
  <2>1. k \in 1..b /\ k - a \in 1..c /\ a + (k - a) = k
    BY <1>3, <1>7, <1>13
  <2>2. items[k] = p[k - a]
    <3>1. items[k] = m[k]
      BY <1>10, <2>1
    <3>2. m[a + (k - a)] = p[k - a]
      BY <1>9, <2>1
    <3>3. QED
      BY <2>1, <3>1, <3>2
  <2>3. QED
    BY <1>3, <2>1, <2>2
<1>14. ASSUME NEW k \in b + 1..Len(items)
       PROVE  items[k] = post[k - b] /\ items[k].class \in {"field", "payload"}
  <2>1. k - b \in 1..Len(post) /\ b + (k - b) = k
    BY <1>7, <1>10, <1>14
  <2>2. items[b + (k - b)] = post[k - b]
    BY <1>10, <2>1
  <2>3. QED
    BY <2>1, <2>2
<1>15. /\ SizeSum(pre) \in Nat /\ SizeSum(post) \in Nat /\ Length(length) \in Nat
       /\ SizeSum(h) \in Nat /\ SizeSum(m) \in Nat
  BY <1>1, <1>8, <1>9, SizeSumIs, VarIntLength
<1>16. length = Before(items, b + 1) - Before(items, a + 1)
  <2>1. PICK x1 \in Nat, x2 \in Nat : x1 = SizeSum(h) /\ x2 = length
    BY <1>1, <1>15
  <2>2. Before(items, a + 1) = x1 /\ Before(items, b + 1) = x1 + x2
    BY Zenon, <1>9, <1>10, <1>11, <2>1
  <2>3. QED
    BY <2>1, <2>2
<1>17. SizeSum(items) = SizeSum(pre) + Length(length) + length + SizeSum(post)
  BY <1>1, <1>8, <1>9, <1>10, <1>15
<1>18. Sectioned(items, a, b)
  <2>1. a \in 1..Len(items) /\ b \in a..Len(items)
    BY <1>3, <1>7, <1>10
  <2>2. \A k \in 1..a - 1 : items[k].class = "field"
    <3>1. a - 1 = Len(pre)
      BY <1>7
    <3>2. QED
      BY <1>12, <3>1
  <2>3. items[a].class = "length" /\ items[a].value = length
    BY <1>2, <1>12
  <2>4. \A k \in a + 1..b : items[k].class = "property"
    BY <1>13
  <2>5. \A k \in b + 1..Len(items) : items[k].class \in {"field", "payload"}
    BY <1>14
  <2>6. items \in Seq(AnyItem)
    BY <1>10
  <2>7. items[a].value <= MaxVarInt
    BY <2>3
  <2>8. items[a].value = Before(items, b + 1) - Before(items, a + 1)
    BY <1>16, <2>3
  <2>9. QED
    BY Zenon, <2>1, <2>2, <2>3, <2>4, <2>5, <2>6, <2>7, <2>8 DEF Sectioned
<1>19. QED
  BY <1>10, <1>12, <1>13, <1>14, <1>17, <1>18 DEF x, Assembled

-----------------------------------------------------------------------------
(* What the theorems assume of an instance, for all to fit the largest     *)
(* remaining length: a string has at most 65535 bytes, which its uint16    *)
(* length can count; no packet has more than 17 properties (there are no   *)
(* more identifiers for any); and the payload leaves Room for them.        *)
Room == 4194304
SizesFit ==
  /\ \A l \in Lengths : l <= MaxString
  /\ MaxOptional <= 17
  /\ \A z \in Payloads : z + Room <= MaxVarInt

(* The last theorem needs more: what is on its way comes, and comes whole. *)
WholeReads == "timeout" \notin Cuts /\ "short_read" \notin Cuts

(* The identifiers that any packet uses *)
Ids == 1..42

LEMMA IdsAre ==
  ASSUME NEW ids \in SUBSET Ids
  PROVE  IsFiniteSet(ids) /\ ids \in SUBSET Nat /\ Cardinality(ids) \in Nat
<1>1. IsFiniteSet(Ids) /\ Ids \in SUBSET Nat
  <2> DEFINE m == 42
  <2>1. m \in Int /\ 1 \in Int
    OBVIOUS
  <2> HIDE DEF m
  <2>2. IsFiniteSet(1..m) /\ 1..m \in SUBSET Nat
    BY <2>1, FS_Interval
  <2>3. QED
    BY <2>2 DEF Ids, m
<1>2. IsFiniteSet(ids)
  BY <1>1, FS_Subset
<1>3. QED
  BY <1>1, <1>2, FS_CardinalityType

LEMMA SomeIs ==
  ASSUME SizesFit, NEW S \in SUBSET Ids, NEW ids \in Some(S)
  PROVE  ids \in SUBSET S /\ ids \in SUBSET Ids /\ Cardinality(ids) <= 17
<1>1. PICK k \in 0..MaxOptional : ids \in kSubset(k, S)
  BY DEF Some
<1>2. ids \in SUBSET S /\ Cardinality(ids) = k
  BY <1>1 DEF kSubset
<1>3. k <= 17
  BY EncodingAssumption DEF SizesFit
<1>4. QED
  BY <1>2, <1>3

LEMMA LengthsAre ==
  ASSUME SizesFit, NEW l \in Lengths \cup {1}
  PROVE  l \in Nat /\ l >= 1 /\ l <= MaxString
<1>1. 1 <= MaxString
  BY SMT DEF MaxString
<1>2. QED
  BY <1>1, EncodingAssumption DEF SizesFit

(* The properties are shorter than the room left for them, with the fields *)
(* before them.                                                            *)
MaxFields == 70000
MaxProperties == 18 * MaxProperty

LEMMA PropertiesFit ==
  ASSUME NEW ids \in SUBSET Ids, Cardinality(ids) <= 18,
         NEW l \in Nat, l <= MaxString
  PROVE  /\ PropertiesLen(ids, l) \in Nat
         /\ PropertiesLen(ids, l) <= MaxProperties
         /\ PropertiesLen(ids, l) <= MaxVarInt
<1>1. /\ PropertiesLen(ids, l) \in Nat /\ Cardinality(ids) \in Nat
      /\ PropertiesLen(ids, l) <= MaxProperty * Cardinality(ids)
  BY IdsAre, PropertiesLenIs
<1>2. PICK v \in Nat, c \in Nat : v = PropertiesLen(ids, l) /\ c = Cardinality(ids)
  BY <1>1
<1>3. MaxProperty = 131075 /\ MaxProperties = 2359350
  BY SMT DEF MaxProperties, MaxProperty, MaxString
<1>4. v <= 131075 * c /\ c <= 18
  BY SMT, <1>1, <1>2, <1>3
<1>5. v <= 2359350 /\ v <= 268435455
  BY SMT, <1>4
<1>6. QED
  BY SMT, <1>2, <1>3, <1>5, Limit

-----------------------------------------------------------------------------
(* Frames that the readers take *)

Trailing == {"PUBLISH", "SUBACK", "UNSUBACK"}
Brief == Acks \cup {"DISCONNECT", "AUTH"}
Unread == {"CONNECT", "SUBSCRIBE", "UNSUBSCRIBE"}
Read == {"PUBLISH", "SUBACK", "UNSUBACK", "CONNACK", "DISCONNECT", "AUTH"}
          \cup Acks

(* The fields come first, as many as there are; then the packet is over,   *)
(* or its properties follow, of known kinds, and what comes after them.    *)
Readable(f, a, b) ==
  /\ f.type \in Read
  /\ f.items \in Seq(AnyItem)
  /\ f.remaining = SizeSum(f.items) /\ f.remaining <= MaxVarInt
  /\ a \in Nat /\ a >= 2 /\ a <= Len(f.items) + 1
  /\ a <= Len(Fields(f)) + 1 /\ Len(Fields(f)) \in Nat
  /\ \A k \in 1..a - 1 : /\ f.items[k].class \in {"field", "length"}
                         /\ f.items[k].size = Fields(f)[k]
  /\ \/ a = Len(f.items) + 1 /\ f.type \in Brief
     \/ /\ a = Len(Fields(f)) + 1 /\ Sectioned(f.items, a, b)
        /\ \A k \in a + 1..b :
             /\ f.items[k].id \in Known(f.type)
             /\ f.items[k].size = 1 + ReadSize(f.items[k].id, f.len)
        /\ \/ b = Len(f.items) /\ f.type \notin {"SUBACK", "UNSUBACK"}
           \/ /\ b + 1 = Len(f.items) /\ f.type \in Trailing
              /\ f.items[b + 1].class = "payload"

(* The remaining length is one that can be written. *)
Fits(f) == f.remaining \in Nat /\ f.remaining <= MaxVarInt

(* What is in the stream: miscounted, unreadable, or neither *)
Good(f) ==
  /\ Announces(f) \/ Miscounted(f)
  /\ f.type \in Unread \/ Fits(f)
  /\ \/ f.type \in Unread
     \/ Unreadable(f)
     \/ f.type = "PINGRESP" /\ f.items = <<>> /\ f.remaining = 0
     \/ \E a, b \in Nat : Readable(f, a, b)

(* The property that a broker may send and that has no case *)
Odd(type) == IF type = "PUBLISH" THEN {1} ELSE {}

LEMMA AssemblyReadable ==
  ASSUME NEW pre \in Seq(AnyItem), \A k \in 1..Len(pre) : pre[k].class = "field",
         NEW z \in Nat, NEW ids \in SUBSET Ids, Cardinality(ids) <= 18,
         NEW f, f.len \in Nat, f.len <= MaxString,
         f.items = Assembly(pre, [id \in ids |-> id],
                            PropertiesLen(ids, f.len), ids, f.len, Rest(z)),
         f.remaining = SizeSum(pre) + Length(PropertiesLen(ids, f.len))
                         + PropertiesLen(ids, f.len) + z
           \/ f.remaining = SizeSum(f.items),
         SizeSum(pre) <= MaxFields, z + Room <= MaxVarInt,
         f.type \in Read, Len(pre) >= 1, Len(Fields(f)) = Len(pre),
         \A k \in 1..Len(pre) : pre[k].size = Fields(f)[k],
         ids \subseteq Known(f.type) \cup Odd(f.type),
         z = 0 => f.type \notin {"SUBACK", "UNSUBACK"},
         z # 0 => f.type \in Trailing
  PROVE  Good(f)
<1> DEFINE l == f.len
           v == PropertiesLen(ids, l)
           name == [id \in ids |-> id]
           items == f.items
           a == Len(pre) + 1
           b == a + Cardinality(ids)
<1>1. IsFiniteSet(ids) /\ ids \in SUBSET Nat /\ Cardinality(ids) \in Nat
  BY IdsAre
<1>2. v \in Nat /\ v <= MaxProperties /\ v <= MaxVarInt
  BY PropertiesFit
<1>3. /\ Rest(z) \in Seq(AnyItem) /\ SizeSum(Rest(z)) = z
      /\ Len(Rest(z)) = IF z = 0 THEN 0 ELSE 1
      /\ \A k \in 1..Len(Rest(z)) : Rest(z)[k].class = "payload"
  BY RestIs
<1>4. \A id \in ids : name[id] = id /\ name[id] \in Nat
  BY <1>1
<1>5. items = Assembly(pre, name, v, ids, l, Rest(z))
  OBVIOUS
<1> HIDE DEF name
<1>6. /\ Sectioned(items, a, b)
      /\ Len(items) = b + Len(Rest(z))
      /\ SizeSum(items) = SizeSum(pre) + Length(v) + v + SizeSum(Rest(z))
      /\ \A k \in 1..a - 1 : items[k] = pre[k]
      /\ \A k \in a + 1..b :
           \E id \in ids : /\ items[k].id = name[id]
                           /\ items[k].size = 1 + SizeOf(id, l)
      /\ \A k \in b + 1..Len(items) : items[k] = Rest(z)[k - b]
  <2> DEFINE post == Rest(z)
             w == v
             aa == a
             bb == b
  <2>1. /\ post \in Seq(AnyItem)
        /\ \A k \in 1..Len(post) : post[k].class \in {"field", "payload"}
    BY <1>3
  <2>2. aa = Len(pre) + 1 /\ bb = aa + Cardinality(ids)
    OBVIOUS
  <2>3. w = PropertiesLen(ids, l) /\ w <= MaxVarInt
    BY <1>2
  <2>4. items = Assembly(pre, name, w, ids, l, post)
    BY <1>5
  <2>5. \A id \in ids : name[id] \in Nat
    BY <1>4
  <2>6. l \in Nat /\ l <= MaxString
    OBVIOUS
  <2> HIDE DEF post, w, aa, bb, items, l
  <2>7. Assembled(items, aa, bb, pre, name, w, ids, l, post)
    BY <1>1, <2>1, <2>2, <2>3, <2>4, <2>5, <2>6, AssemblyIs
  <2>8. Assembled(f.items, Len(pre) + 1, Len(pre) + 1 + Cardinality(ids), pre, name,
                  PropertiesLen(ids, f.len), ids, f.len, Rest(z))
    BY <2>7 DEF post, w, aa, bb, items, l
  <2>9. QED
    BY <2>8 DEF Assembled, items, l
<1>7. Len(pre) \in Nat /\ a \in Nat /\ b \in Nat /\ SizeSum(pre) \in Nat
  BY <1>1, SizesAt, SizeSumIs
<1>8. Length(v) \in Nat /\ Length(v) <= 4
  <2>1. Length(v) \in Nat /\ Length(v) \in 1..4
    BY <1>2, VarIntLength
  <2>2. QED
    BY <2>1
<1>9. f.remaining = SizeSum(items) /\ f.remaining <= MaxVarInt
  <2>1. PICK i \in Nat, j \in Nat, k \in Nat :
          i = SizeSum(pre) /\ j = Length(v) /\ k = v
    BY <1>2, <1>7, <1>8
  <2>2. SizeSum(items) = i + j + k + z /\ f.remaining = i + j + k + z
    BY <1>3, <1>6, <2>1
  <2>3. i <= MaxFields /\ j <= 4 /\ k <= MaxProperties /\ z + Room <= MaxVarInt
    BY <1>2, <1>8, <2>1
  <2>4. i + j + k + z <= MaxVarInt
    <3>1. /\ MaxFields = 70000 /\ MaxProperties = 2359350 /\ Room = 4194304
          /\ MaxVarInt \in Int
      BY SMT, Limit DEF MaxFields, MaxProperties, MaxProperty, MaxString, Room
    <3>2. QED
      BY SMT, <2>3, <3>1
  <2>5. QED
    BY <2>2, <2>4
<1>10. Announces(f)
  BY <1>6, <1>9, SectionedAnnounces
<1>11. ASSUME ~ Unreadable(f), NEW k \in a + 1..b
       PROVE  items[k].id \in Known(f.type)
              /\ items[k].size = 1 + ReadSize(items[k].id, f.len)
  <2>1. PICK id \in ids : items[k].id = name[id] /\ items[k].size = 1 + SizeOf(id, l)
    BY <1>6, <1>11
  <2>2. k \in DOMAIN items /\ items[k].class = "property"
    <3>1. /\ items \in Seq(AnyItem) /\ b \in a..Len(items)
          /\ \A j \in a + 1..b : items[j].class = "property"
      BY <1>6 DEF Sectioned
    <3>2. Len(items) \in Nat /\ DOMAIN items = 1..Len(items)
      BY <3>1, SizesAt
    <3>3. k \in 1..Len(items)
      BY <1>7, <1>11, <3>1, <3>2
    <3>4. QED
      BY <1>11, <3>1, <3>2, <3>3
  <2>3. ~ (f.type = "PUBLISH" /\ items[k].id = 1)
    BY <1>11, <2>2 DEF Unreadable
  <2>4. items[k].id = id /\ id \in Known(f.type)
    BY <1>4, <2>1, <2>3 DEF Odd
  <2>5. ReadSize(id, l) = SizeOf(id, l)
    BY PropertySize
  <2>6. QED
    BY <2>1, <2>4, <2>5
<1>12. \/ b = Len(items) /\ f.type \notin {"SUBACK", "UNSUBACK"}
       \/ /\ b + 1 = Len(items) /\ f.type \in Trailing
          /\ items[b + 1].class = "payload"
  <2>1. CASE z = 0
    BY <1>3, <1>6, <1>7, <2>1
  <2>2. CASE z # 0
    <3>1. Len(items) = b + 1 /\ Len(Rest(z)) = 1
      BY <1>3, <1>6, <2>2
    <3>2. b + 1 \in b + 1..Len(items) /\ (b + 1) - b = 1
      BY <1>7, <3>1
    <3>3. items[b + 1] = Rest(z)[1]
      BY <1>6, <3>2
    <3>4. QED
      BY <1>3, <2>2, <3>1, <3>3
  <2>3. QED
    BY <2>1, <2>2
<1>13. \A k \in 1..a - 1 : /\ items[k].class \in {"field", "length"}
                           /\ items[k].size = Fields(f)[k]
  <2>1. a - 1 = Len(pre)
    BY <1>7
  <2>2. QED
    BY <1>6, <2>1
<1>14. /\ items \in Seq(AnyItem) /\ a >= 2 /\ a <= Len(items) + 1
       /\ a = Len(Fields(f)) + 1 /\ Len(Fields(f)) \in Nat
  <2>1. items \in Seq(AnyItem) /\ a \in 1..Len(items)
    BY <1>6 DEF Sectioned
  <2>2. Len(items) \in Nat
    BY <2>1, SizesAt
  <2>3. QED
    BY <1>7, <2>1, <2>2
<1> HIDE DEF a, b
<1>15. ASSUME ~ Unreadable(f) PROVE Readable(f, a, b)
  BY <1>6, <1>7, <1>9, <1>11, <1>12, <1>13, <1>14, <1>15 DEF Readable
<1>16. Fits(f)
  BY <1>9, <1>14, SizeSumIs DEF Fits
<1>17. QED
  BY <1>7, <1>10, <1>15, <1>16 DEF Good

LEMMA Built ==
  ASSUME NEW type, NEW len, NEW topic, NEW qos, NEW rem, NEW items,
         NEW f, f = Frame(type, len, topic, qos, rem, items)
  PROVE  /\ f.type = type /\ f.len = len /\ f.topic = topic /\ f.qos = qos
         /\ f.remaining = rem /\ f.items = items
BY DEF Frame

LEMMA OneField ==
  ASSUME NEW y \in Nat \ {0}, NEW s, s = <<Field(y)>>
  PROVE  /\ s \in Seq(AnyItem) /\ Len(s) = 1 /\ SizeSum(s) = y
         /\ s[1].class = "field" /\ s[1].size = y
         /\ \A k \in 1..Len(s) : s[k].class = "field"
<1> DEFINE x == Field(y)
<1>1. x \in AnyItem /\ x.class = "field" /\ x.size = y
  BY FieldIs
<1>2. s = <<x>>
  OBVIOUS
<1> HIDE DEF x
<1>3. s \in Seq(AnyItem) /\ Len(s) = 1 /\ s[1] = x /\ SizeSum(s) = x.size
  BY <1>1, <1>2, SizeSumOne
<1>4. QED
  BY <1>1, <1>3

LEMMA TwoFields ==
  ASSUME NEW y \in Nat \ {0}, NEW z \in Nat \ {0}, NEW s, s = <<Field(y), Field(z)>>
  PROVE  /\ s \in Seq(AnyItem) /\ Len(s) = 2 /\ SizeSum(s) = y + z
         /\ s[1].class = "field" /\ s[1].size = y
         /\ s[2].class = "field" /\ s[2].size = z
         /\ \A k \in 1..Len(s) : s[k].class = "field"
<1> DEFINE t == <<Field(y)>>  u == <<Field(z)>>
<1>1. t \o u = s
  BY Prepended
<1>2. /\ t \in Seq(AnyItem) /\ Len(t) = 1 /\ SizeSum(t) = y
      /\ t[1].class = "field" /\ t[1].size = y
  BY OneField
<1>3. /\ u \in Seq(AnyItem) /\ Len(u) = 1 /\ SizeSum(u) = z
      /\ u[1].class = "field" /\ u[1].size = z
  BY OneField
<1>4. s[1] = Field(y) /\ s[2] = Field(z) /\ t[1] = Field(y) /\ u[1] = Field(z)
  OBVIOUS
<1> HIDE DEF t, u
<1>6. /\ s \in Seq(AnyItem) /\ Len(s) = Len(t) + Len(u)
      /\ SizeSum(s) = SizeSum(t) + SizeSum(u)
  <2> DEFINE w == t \o u
  <2>1. /\ w \in Seq(AnyItem) /\ Len(w) = Len(t) + Len(u)
        /\ SizeSum(w) = SizeSum(t) + SizeSum(u)
    BY <1>2, <1>3, SizeSumConcat
  <2>2. w = s
    BY <1>1
  <2> HIDE DEF w
  <2>3. QED
    BY Zenon, <2>1, <2>2
<1>7. Len(s) = 2 /\ SizeSum(s) = y + z
  BY <1>2, <1>3, <1>6
<1>8. /\ s[1].class = "field" /\ s[1].size = y
      /\ s[2].class = "field" /\ s[2].size = z
  BY <1>2, <1>3, <1>4
<1>9. \A k \in 1..Len(s) : s[k].class = "field"
  BY <1>7, <1>8
<1>10. QED
  BY <1>6, <1>7, <1>8, <1>9

LEMMA FieldsAt ==
  ASSUME NEW f
  PROVE  /\ f.type \in Acks => Fields(f) = <<2, 1>>
         /\ f.type \in {"SUBACK", "UNSUBACK"} => Fields(f) = <<2>>
         /\ f.type = "CONNACK" => Fields(f) = <<1, 1>>
         /\ f.type \in {"DISCONNECT", "AUTH"} => Fields(f) = <<1>>
         /\ f.type = "PUBLISH" =>
              Fields(f) = <<StringSize(f.topic)>> \o When(f.qos > 0, <<2>>)
<1> DEFINE x == <<StringSize(f.topic)>> \o When(f.qos > 0, <<2>>)
<1>1. Fields(f) = CASE f.type = "PUBLISH" -> x
                    [] f.type \in Acks -> <<2, 1>>
                    [] f.type \in {"SUBACK", "UNSUBACK"} -> <<2>>
                    [] f.type = "CONNACK" -> <<1, 1>>
                    [] f.type \in {"DISCONNECT", "AUTH"} -> <<1>>
  BY DEF Fields
<1> HIDE DEF x
<1>2. /\ f.type \in Acks => Fields(f) = <<2, 1>>
      /\ f.type \in {"SUBACK", "UNSUBACK"} => Fields(f) = <<2>>
      /\ f.type = "CONNACK" => Fields(f) = <<1, 1>>
      /\ f.type \in {"DISCONNECT", "AUTH"} => Fields(f) = <<1>>
      /\ f.type = "PUBLISH" => Fields(f) = x
  BY <1>1 DEF Acks
<1>3. QED
  BY <1>2 DEF x

LEMMA KnownAt ==
  ASSUME NEW type
  PROVE  /\ type = "PUBLISH" => Known(type) = PublishKnown
         /\ type \in Acks => Known(type) = {31, 38}
         /\ type \in {"SUBACK", "UNSUBACK"} => Known(type) = {31, 38}
         /\ type = "CONNACK" => Known(type) = ConnackKnown
         /\ type = "DISCONNECT" => Known(type) = DisconnectKnown
         /\ type = "AUTH" => Known(type) = AuthKnown
<1>1. Known(type) = CASE type = "PUBLISH" -> PublishKnown
                      [] type \in Acks -> {31, 38}
                      [] type = "SUBACK" -> {31, 38}
                      [] type = "UNSUBACK" -> {31, 38}
                      [] type = "CONNACK" -> ConnackKnown
                      [] type = "DISCONNECT" -> DisconnectKnown
                      [] type = "AUTH" -> AuthKnown
  BY DEF Known, PubackKnown, SubackKnown, UnsubackKnown
<1>2. QED
  BY <1>1 DEF Acks

LEMMA KnownIds ==
  /\ PublishKnown \in SUBSET Ids /\ ConnackKnown \in SUBSET Ids
  /\ DisconnectKnown \in SUBSET Ids /\ AuthKnown \in SUBSET Ids
  /\ {31, 38} \in SUBSET Ids
BY DEF Ids, PublishKnown, ConnackKnown, DisconnectKnown, AuthKnown

(* PUBLISH, of the client and of the broker *)
LEMMA PublishGood ==
  ASSUME SizesFit, NEW l \in Nat, l <= MaxString, NEW topic \in Nat,
         topic <= MaxString, NEW qos \in {0, 1}, NEW z \in Payloads,
         NEW ids \in SUBSET (PublishKnown \cup {1}), Cardinality(ids) <= 18,
         NEW rem, NEW f,
         f = Frame("PUBLISH", l, topic, qos, rem,
               <<Field(2 + topic)>> \o When(qos > 0, <<Field(2)>>)
                 \o Section(PropertiesLen(ids, l), ids, l) \o Rest(z)),
         rem = 2 + topic + (IF qos > 0 THEN 2 ELSE 0)
                 + Length(PropertiesLen(ids, l)) + PropertiesLen(ids, l) + z
           \/ rem = SizeSum(f.items)
  PROVE  Good(f)
<1> DEFINE pre == <<Field(2 + topic)>> \o When(qos > 0, <<Field(2)>>)
           name == [id \in ids |-> id]
           v == PropertiesLen(ids, l)
<1>1. /\ f.type = "PUBLISH" /\ f.len = l /\ f.topic = topic /\ f.qos = qos
      /\ f.remaining = rem /\ f.items = pre \o Section(v, ids, l) \o Rest(z)
  <2> DEFINE items == pre \o Section(v, ids, l) \o Rest(z)
  <2>1. f = Frame("PUBLISH", l, topic, qos, rem, items)
    OBVIOUS
  <2> HIDE DEF items
  <2>2. /\ f.type = "PUBLISH" /\ f.len = l /\ f.topic = topic /\ f.qos = qos
        /\ f.remaining = rem /\ f.items = items
    BY <2>1, Built
  <2>3. QED
    BY <2>2 DEF items
<1>2. f.items = Assembly(pre, name, v, ids, l, Rest(z))
  BY <1>1 DEF Assembly, Section
<1>3. StringSize(topic) = 2 + topic /\ 2 + topic \in Nat \ {0}
  BY StringSizeIs
<1>4. /\ pre \in Seq(AnyItem) /\ Len(pre) >= 1
      /\ \A k \in 1..Len(pre) : pre[k].class = "field"
      /\ SizeSum(pre) = 2 + topic + (IF qos > 0 THEN 2 ELSE 0)
      /\ Len(Fields(f)) = Len(pre)
      /\ \A k \in 1..Len(pre) : pre[k].size = Fields(f)[k]
  <2>1. CASE qos = 0
    <3>1. pre = <<Field(2 + topic)>> /\ Fields(f) = <<2 + topic>>
      <4>1. When(qos > 0, <<Field(2)>>) = <<>> /\ When(qos > 0, <<2>>) = <<>>
        BY <2>1 DEF When
      <4>2. <<Field(2 + topic)>> \o <<>> = <<Field(2 + topic)>>
        <5>1. <<Field(2 + topic)>> \in Seq(AnyItem)
          BY <1>3, OneField
        <5>2. QED
          BY <5>1, ConcatEmptySeq
      <4>3. <<2 + topic>> \o <<>> = <<2 + topic>>
        OBVIOUS
      <4>4. QED
        BY <1>1, <1>3, <4>1, <4>2, <4>3, FieldsAt
    <3> DEFINE g == Fields(f)
    <3>2. Len(g) = 1 /\ g[1] = 2 + topic
      BY <3>1
    <3>3. /\ pre \in Seq(AnyItem) /\ Len(pre) = 1 /\ SizeSum(pre) = 2 + topic
          /\ pre[1].class = "field" /\ pre[1].size = 2 + topic
          /\ \A k \in 1..Len(pre) : pre[k].class = "field"
      <4> DEFINE y == 2 + topic
      <4>1. y \in Nat \ {0} /\ pre = <<Field(y)>>
        BY <1>3, <3>1
      <4> HIDE DEF pre, y
      <4>2. /\ pre \in Seq(AnyItem) /\ Len(pre) = 1 /\ SizeSum(pre) = y
            /\ pre[1].class = "field" /\ pre[1].size = y
            /\ \A k \in 1..Len(pre) : pre[k].class = "field"
        BY <4>1, OneField
      <4>3. QED
        BY <4>2 DEF y
    <3> HIDE DEF pre, g
    <3>4. Len(g) = Len(pre) /\ \A k \in 1..Len(pre) : pre[k].size = g[k]
      BY <3>2, <3>3
    <3>5. QED
      BY <2>1, <3>3, <3>4 DEF g
  <2>2. CASE qos = 1
    <3>1. pre = <<Field(2 + topic), Field(2)>> /\ Fields(f) = <<2 + topic, 2>>
      <4>1. /\ When(qos > 0, <<Field(2)>>) = <<Field(2)>>
            /\ When(qos > 0, <<2>>) = <<2>>
        BY <2>2 DEF When
      <4>2. pre = <<Field(2 + topic), Field(2)>>
        BY <4>1, Prepended
      <4>3. Fields(f) = <<2 + topic>> \o <<2>>
        BY <1>1, <1>3, <4>1, FieldsAt
      <4>4. QED
        BY <4>2, <4>3, Prepended
    <3> DEFINE g == Fields(f)
    <3>2. Len(g) = 2 /\ g[1] = 2 + topic /\ g[2] = 2
      BY <3>1
    <3>3. /\ pre \in Seq(AnyItem) /\ Len(pre) = 2 /\ SizeSum(pre) = 2 + topic + 2
          /\ pre[1].class = "field" /\ pre[1].size = 2 + topic
          /\ pre[2].class = "field" /\ pre[2].size = 2
          /\ \A k \in 1..Len(pre) : pre[k].class = "field"
      <4> DEFINE y == 2 + topic
      <4>1. y \in Nat \ {0} /\ pre = <<Field(y), Field(2)>> /\ 2 \in Nat \ {0}
        BY <1>3, <3>1
      <4> HIDE DEF pre, y
      <4>2. /\ pre \in Seq(AnyItem) /\ Len(pre) = 2 /\ SizeSum(pre) = y + 2
            /\ pre[1].class = "field" /\ pre[1].size = y
            /\ pre[2].class = "field" /\ pre[2].size = 2
            /\ \A k \in 1..Len(pre) : pre[k].class = "field"
        BY <4>1, TwoFields
      <4>3. QED
        BY <4>2 DEF y
    <3> HIDE DEF pre, g
    <3>4. Len(g) = Len(pre) /\ \A k \in 1..Len(pre) : pre[k].size = g[k]
      BY <3>2, <3>3
    <3>5. QED
      BY <2>2, <3>3, <3>4 DEF g
  <2>3. QED
    BY <2>1, <2>2
<1>5. SizeSum(pre) <= MaxFields
  <2>1. SizeSum(pre) <= 2 + topic + 2
    BY <1>4
  <2> HIDE DEF pre
  <2>2. QED
    BY SMT, <1>4, <2>1 DEF MaxFields, MaxString
<1>6. z \in Nat /\ z + Room <= MaxVarInt
  BY EncodingAssumption DEF SizesFit
<1>7. ids \in SUBSET Ids /\ ids \subseteq Known(f.type) \cup Odd(f.type)
  <2>1. 1 \in Ids
    BY DEF Ids
  <2>2. QED
    BY <1>1, <2>1, KnownAt, KnownIds DEF Odd
<1>8. f.remaining = SizeSum(pre) + Length(v) + v + z \/ f.remaining = SizeSum(f.items)
  BY <1>1, <1>4
<1>9. f.type \in Read /\ f.type \in Trailing /\ f.type \notin {"SUBACK", "UNSUBACK"}
  BY <1>1 DEF Read, Trailing
<1> HIDE DEF pre
<1>10. QED
  BY <1>1, <1>2, <1>4, <1>5, <1>6, <1>7, <1>8, <1>9, AssemblyReadable

(* A section of any announced length starts with it. *)
LEMMA SectionStarts ==
  ASSUME NEW ids \in SUBSET Ids, NEW l \in Nat, l <= MaxString,
         NEW v \in Nat, v <= MaxVarInt,
         NEW name, \A id \in ids : name[id] \in Nat
  PROVE  /\ SectionAs(name, v, ids, l) \in Seq(AnyItem)
         /\ Len(SectionAs(name, v, ids, l)) >= 1
         /\ SectionAs(name, v, ids, l)[1] = LengthItem(v)
<1> DEFINE x == LengthItem(v)
           p == Listing(name, ids, l)
<1>1. IsFiniteSet(ids) /\ ids \in SUBSET Nat
  BY IdsAre
<1>2. x \in AnyItem
  BY LengthItemIs
<1>3. p \in Seq(AnyItem)
  BY <1>1, ListingIs
<1>4. SectionAs(name, v, ids, l) = <<x>> \o p
  BY DEF SectionAs, Listing
<1>5. x = LengthItem(v)
  OBVIOUS
<1> HIDE DEF x, p
<1>6. <<x>> \in Seq(AnyItem) /\ Len(<<x>>) = 1 /\ <<x>>[1] = x
  BY <1>2
<1>7. /\ <<x>> \o p \in Seq(AnyItem)
      /\ Len(<<x>> \o p) = Len(<<x>>) + Len(p)
      /\ \A k \in 1..Len(<<x>>) : (<<x>> \o p)[k] = <<x>>[k]
  BY <1>3, <1>6, SizeSumConcat
<1>8. Len(p) \in Nat
  BY <1>3, SizesAt
<1>9. QED
  BY <1>4, <1>5, <1>6, <1>7, <1>8

LEMMA SectionTyped ==
  ASSUME NEW ids \in SUBSET Ids, NEW l \in Nat, l <= MaxString,
         PropertiesLen(ids, l) <= MaxVarInt,
         NEW name, \A id \in ids : name[id] \in Nat
  PROVE  SectionAs(name, PropertiesLen(ids, l), ids, l) \in Seq(AnyItem)
<1> DEFINE v == PropertiesLen(ids, l)
           x == LengthItem(v)
           p == Listing(name, ids, l)
<1>1. IsFiniteSet(ids) /\ ids \in SUBSET Nat
  BY IdsAre
<1>2. v \in Nat
  BY <1>1, PropertiesLenIs
<1>3. x \in AnyItem
  BY <1>2, LengthItemIs
<1>4. p \in Seq(AnyItem)
  BY <1>1, ListingIs
<1>5. SectionAs(name, v, ids, l) = <<x>> \o p
  BY DEF SectionAs, Listing
<1> HIDE DEF x, p, v
<1>6. <<x>> \in Seq(AnyItem)
  BY <1>3
<1>7. <<x>> \o p \in Seq(AnyItem)
  BY <1>4, <1>6, ConcatProperties
<1>8. QED
  BY <1>5, <1>7 DEF v

LEMMA WithNothing ==
  ASSUME NEW s \in Seq(AnyItem)
  PROVE  s \o <<>> = s /\ s \o Rest(0) = s
<1>1. Rest(0) = <<>>
  BY DEF Rest
<1>2. s \o <<>> = s
  BY ConcatEmptySeq
<1>3. QED
  BY <1>1, <1>2

(* A frame that ends with its properties, or with a payload after them *)
LEMMA SimpleGood ==
  ASSUME SizesFit, NEW l \in Nat, l <= MaxString, NEW z \in Nat, z <= 2,
         NEW type \in Read \ {"PUBLISH"},
         NEW ids \in SUBSET Known(type), Cardinality(ids) <= 18,
         NEW pre \in Seq(AnyItem), Len(pre) >= 1, SizeSum(pre) <= 3,
         \A k \in 1..Len(pre) : pre[k].class = "field",
         NEW rem, NEW f,
         f = Frame(type, l, 0, 0, rem,
                   pre \o Section(PropertiesLen(ids, l), ids, l) \o Rest(z)),
         rem = SizeSum(pre) + Length(PropertiesLen(ids, l))
                 + PropertiesLen(ids, l) + z
           \/ rem = SizeSum(f.items),
         Len(Fields(f)) = Len(pre),
         \A k \in 1..Len(pre) : pre[k].size = Fields(f)[k],
         (z # 0) = (type \in {"SUBACK", "UNSUBACK"})
  PROVE  Good(f)
<1> DEFINE name == [id \in ids |-> id]
           v == PropertiesLen(ids, l)
<1>1. /\ f.type = type /\ f.len = l /\ f.remaining = rem
      /\ f.items = pre \o Section(v, ids, l) \o Rest(z)
  <2> DEFINE items == pre \o Section(v, ids, l) \o Rest(z)
  <2>1. f = Frame(type, l, 0, 0, rem, items)
    OBVIOUS
  <2> HIDE DEF items
  <2>2. f.type = type /\ f.len = l /\ f.remaining = rem /\ f.items = items
    BY <2>1, Built
  <2>3. QED
    BY <2>2 DEF items
<1>2. f.items = Assembly(pre, name, v, ids, l, Rest(z))
  BY <1>1 DEF Assembly, Section
<1>3. SizeSum(pre) <= MaxFields /\ z + Room <= MaxVarInt
  <2>1. SizeSum(pre) \in Nat
    BY SizeSumIs
  <2>2. QED
    BY SMT, <2>1, Limit DEF MaxFields, Room
<1>4. ids \in SUBSET Ids /\ ids \subseteq Known(f.type)
  <2>1. Known(type) \in SUBSET Ids
    BY KnownAt, KnownIds DEF Read, Acks
  <2>2. QED
    BY <1>1, <2>1
<1>5. f.remaining = SizeSum(pre) + Length(v) + v + z \/ f.remaining = SizeSum(f.items)
  BY <1>1
<1>6. /\ f.type \in Read /\ (z # 0 => f.type \in Trailing)
      /\ (z = 0 => f.type \notin {"SUBACK", "UNSUBACK"})
  BY <1>1 DEF Trailing
<1>7. QED
  BY <1>1, <1>2, <1>3, <1>4, <1>5, <1>6, AssemblyReadable

(* The fields of each type *)
Leading(type) ==
  IF type \in Acks THEN <<Field(2), Field(1)>>
  ELSE IF type \in {"SUBACK", "UNSUBACK"} THEN <<Field(2)>>
  ELSE IF type = "CONNACK" THEN <<Field(1), Field(1)>> ELSE <<Field(1)>>

LEMMA LeadingIs ==
  ASSUME NEW type \in Read \ {"PUBLISH"}, NEW pre, pre = Leading(type),
         NEW f, f.type = type
  PROVE  /\ pre \in Seq(AnyItem) /\ Len(pre) >= 1 /\ SizeSum(pre) <= 3
         /\ \A k \in 1..Len(pre) : pre[k].class = "field"
         /\ Len(Fields(f)) = Len(pre)
         /\ \A k \in 1..Len(pre) : pre[k].size = Fields(f)[k]
         /\ type \in Acks => SizeSum(pre) = 3
         /\ type = "DISCONNECT" => SizeSum(pre) = 1
<1> DEFINE g == Fields(f)
<1>1. 1 \in Nat \ {0} /\ 2 \in Nat \ {0}
  OBVIOUS
<1>2. CASE type \in Acks
  <2>1. g = <<2, 1>> /\ pre = <<Field(2), Field(1)>>
    BY <1>2, FieldsAt DEF Leading
  <2>2. Len(g) = 2 /\ g[1] = 2 /\ g[2] = 1
    BY <2>1
  <2>3. /\ pre \in Seq(AnyItem) /\ Len(pre) = 2 /\ SizeSum(pre) = 2 + 1
        /\ pre[1].class = "field" /\ pre[1].size = 2
        /\ pre[2].class = "field" /\ pre[2].size = 1
        /\ \A k \in 1..Len(pre) : pre[k].class = "field"
    BY <1>1, <2>1, TwoFields
  <2> HIDE DEF g
  <2>4. Len(g) = Len(pre) /\ \A k \in 1..Len(pre) : pre[k].size = g[k]
    BY <2>2, <2>3
  <2>5. QED
    BY <1>2, <2>3, <2>4 DEF g, Acks
<1>3. CASE type = "CONNACK"
  <2>1. g = <<1, 1>> /\ pre = <<Field(1), Field(1)>>
    BY <1>3, FieldsAt DEF Leading, Acks
  <2>2. Len(g) = 2 /\ g[1] = 1 /\ g[2] = 1
    BY <2>1
  <2>3. /\ pre \in Seq(AnyItem) /\ Len(pre) = 2 /\ SizeSum(pre) = 1 + 1
        /\ pre[1].class = "field" /\ pre[1].size = 1
        /\ pre[2].class = "field" /\ pre[2].size = 1
        /\ \A k \in 1..Len(pre) : pre[k].class = "field"
    BY <1>1, <2>1, TwoFields
  <2> HIDE DEF g
  <2>4. Len(g) = Len(pre) /\ \A k \in 1..Len(pre) : pre[k].size = g[k]
    BY <2>2, <2>3
  <2>5. QED
    BY <1>3, <2>3, <2>4 DEF g, Acks
<1>4. CASE type \in {"SUBACK", "UNSUBACK"}
  <2>1. g = <<2>> /\ pre = <<Field(2)>>
    BY <1>4, FieldsAt DEF Leading, Acks
  <2>2. Len(g) = 1 /\ g[1] = 2
    BY <2>1
  <2>3. /\ pre \in Seq(AnyItem) /\ Len(pre) = 1 /\ SizeSum(pre) = 2
        /\ pre[1].class = "field" /\ pre[1].size = 2
        /\ \A k \in 1..Len(pre) : pre[k].class = "field"
    BY <1>1, <2>1, OneField
  <2> HIDE DEF g
  <2>4. Len(g) = Len(pre) /\ \A k \in 1..Len(pre) : pre[k].size = g[k]
    BY <2>2, <2>3
  <2>5. QED
    BY <1>4, <2>3, <2>4 DEF g, Acks
<1>5. CASE type \in {"DISCONNECT", "AUTH"}
  <2>1. g = <<1>> /\ pre = <<Field(1)>>
    BY <1>5, FieldsAt DEF Leading, Acks
  <2>2. Len(g) = 1 /\ g[1] = 1
    BY <2>1
  <2>3. /\ pre \in Seq(AnyItem) /\ Len(pre) = 1 /\ SizeSum(pre) = 1
        /\ pre[1].class = "field" /\ pre[1].size = 1
        /\ \A k \in 1..Len(pre) : pre[k].class = "field"
    BY <1>1, <2>1, OneField
  <2> HIDE DEF g
  <2>4. Len(g) = Len(pre) /\ \A k \in 1..Len(pre) : pre[k].size = g[k]
    BY <2>2, <2>3
  <2>5. QED
    BY <1>5, <2>3, <2>4 DEF g, Acks
<1>6. QED
  BY <1>2, <1>3, <1>4, <1>5 DEF Read

LEMMA LeadingGood ==
  ASSUME SizesFit, NEW l \in Nat, l <= MaxString, NEW z \in Nat, z <= 2,
         NEW type \in Read \ {"PUBLISH"},
         NEW ids \in SUBSET Known(type), Cardinality(ids) <= 18,
         NEW rem, NEW f,
         f = Frame(type, l, 0, 0, rem, Leading(type)
                   \o Section(PropertiesLen(ids, l), ids, l) \o Rest(z)),
         rem = SizeSum(Leading(type)) + Length(PropertiesLen(ids, l))
                 + PropertiesLen(ids, l) + z
           \/ rem = SizeSum(f.items),
         (z # 0) = (type \in {"SUBACK", "UNSUBACK"})
  PROVE  Good(f)
<1> DEFINE pre == Leading(type)
<1>1. f.type = type
  BY Built
<1>2. /\ pre \in Seq(AnyItem) /\ Len(pre) >= 1 /\ SizeSum(pre) <= 3
      /\ \A k \in 1..Len(pre) : pre[k].class = "field"
      /\ Len(Fields(f)) = Len(pre)
      /\ \A k \in 1..Len(pre) : pre[k].size = Fields(f)[k]
  BY <1>1, LeadingIs
<1> HIDE DEF pre
<1>3. f = Frame(type, l, 0, 0, rem,
                pre \o Section(PropertiesLen(ids, l), ids, l) \o Rest(z))
  BY DEF pre
<1>4. rem = SizeSum(pre) + Length(PropertiesLen(ids, l))
              + PropertiesLen(ids, l) + z
        \/ rem = SizeSum(f.items)
  BY DEF pre
<1>5. QED
  BY <1>2, <1>3, <1>4, SimpleGood

(* A frame of fields only: the reader returns where n reaches the length.  *)
LEMMA BriefGood ==
  ASSUME NEW f, f.items \in Seq(AnyItem), Len(f.items) >= 1,
         f.type \in Brief, f.remaining = SizeSum(f.items), f.remaining <= 3,
         Len(Fields(f)) \in Nat, Len(f.items) <= Len(Fields(f)),
         \A k \in 1..Len(f.items) : /\ f.items[k].class = "field"
                                    /\ f.items[k].size = Fields(f)[k]
  PROVE  Good(f)
<1> DEFINE a == Len(f.items) + 1
<1>1. Len(f.items) \in Nat /\ DOMAIN f.items = 1..Len(f.items)
  BY SizesAt
<1>2. Announces(f)
  BY <1>1 DEF Announces
<1>3. f.remaining <= MaxVarInt /\ Fits(f)
  <2>1. f.remaining \in Nat
    BY SizeSumIs
  <2>2. f.remaining <= MaxVarInt
    BY SMT, <2>1, Limit
  <2>3. QED
    BY <2>1, <2>2 DEF Fits
<1>4. f.type \in Read
  BY DEF Brief, Read
<1>5. a \in Nat /\ a >= 2 /\ a - 1 = Len(f.items)
  BY <1>1
<1>6. Readable(f, a, a)
  BY <1>3, <1>4, <1>5 DEF Readable
<1>7. QED
  BY <1>2, <1>3, <1>5, <1>6 DEF Good

LEMMA ShortAckGood ==
  ASSUME NEW type \in Acks, NEW f,
         f = Announced(type, 1, 0, 0, <<Field(2)>>)
           \/ f = Announced(type, 1, 0, 0, <<Field(2), Field(1)>>)
  PROVE  Good(f)
<1> DEFINE g == Fields(f)
<1>1. /\ f.type = type /\ f.remaining = SizeSum(f.items)
      /\ f.items = <<Field(2)>> \/ f.items = <<Field(2), Field(1)>>
  BY Built DEF Announced
<1>2. g = <<2, 1>>
  BY <1>1, FieldsAt
<1>3. Len(g) = 2 /\ g[1] = 2 /\ g[2] = 1
  BY <1>2
<1>4. f.type \in Brief
  BY <1>1 DEF Brief
<1> HIDE DEF g
<1>5. 1 \in Nat \ {0} /\ 2 \in Nat \ {0}
  OBVIOUS
<1> DEFINE s == f.items
<1>6. CASE s = <<Field(2)>>
  <2>1. /\ s \in Seq(AnyItem) /\ Len(s) = 1 /\ SizeSum(s) = 2
        /\ s[1].class = "field" /\ s[1].size = 2
    BY <1>5, <1>6, OneField
  <2> HIDE DEF s
  <2>2. /\ Len(s) >= 1 /\ Len(s) <= Len(g) /\ Len(g) \in Nat
        /\ \A k \in 1..Len(s) : s[k].class = "field" /\ s[k].size = g[k]
    BY <1>3, <2>1
  <2>3. f.remaining = SizeSum(f.items) /\ f.remaining <= 3
    BY <1>1, <2>1 DEF s
  <2>4. QED
    BY <1>4, <2>1, <2>2, <2>3, BriefGood DEF s, g
<1>7. CASE s = <<Field(2), Field(1)>>
  <2>1. /\ s \in Seq(AnyItem) /\ Len(s) = 2 /\ SizeSum(s) = 2 + 1
        /\ s[1].class = "field" /\ s[1].size = 2
        /\ s[2].class = "field" /\ s[2].size = 1
    BY <1>5, <1>7, TwoFields
  <2> HIDE DEF s
  <2>2. /\ Len(s) >= 1 /\ Len(s) <= Len(g) /\ Len(g) \in Nat
        /\ \A k \in 1..Len(s) : s[k].class = "field" /\ s[k].size = g[k]
    BY <1>3, <2>1
  <2>3. f.remaining = SizeSum(f.items) /\ f.remaining <= 3
    BY <1>1, <2>1 DEF s
  <2>4. QED
    BY <1>4, <2>1, <2>2, <2>3, BriefGood DEF s, g
<1>8. QED
  BY <1>1, <1>6, <1>7

LEMMA ShortSessionGood ==
  ASSUME NEW type \in {"DISCONNECT", "AUTH"}, NEW f,
         f = Announced(type, 1, 0, 0, <<Field(1)>>)
  PROVE  Good(f)
<1> DEFINE g == Fields(f)
           s == f.items
<1>1. f.type = type /\ f.remaining = SizeSum(f.items) /\ s = <<Field(1)>>
  BY Built DEF Announced
<1>2. g = <<1>>
  BY <1>1, FieldsAt
<1>3. Len(g) = 1 /\ g[1] = 1
  BY <1>2
<1>4. f.type \in Brief
  BY <1>1 DEF Brief
<1>5. 1 \in Nat \ {0}
  OBVIOUS
<1>6. /\ s \in Seq(AnyItem) /\ Len(s) = 1 /\ SizeSum(s) = 1
      /\ s[1].class = "field" /\ s[1].size = 1
  BY <1>1, <1>5, OneField
<1> HIDE DEF s, g
<1>7. /\ Len(s) >= 1 /\ Len(s) <= Len(g) /\ Len(g) \in Nat
      /\ \A k \in 1..Len(s) : s[k].class = "field" /\ s[k].size = g[k]
  BY <1>3, <1>6
<1>8. QED
  BY <1>1, <1>4, <1>6, <1>7, BriefGood DEF s, g

LEMMA EmptyGood ==
  ASSUME NEW f, f.type \in {"PINGRESP", "DISCONNECT", "AUTH"},
         f.remaining = 0, f.items = <<>>
  PROVE  Good(f)
<1>1. DOMAIN f.items = {}
  BY SizesAt, SizeSumNone
<1>2. Announces(f)
  BY <1>1, SizeSumNone DEF Announces
<1>3. Fits(f)
  BY SMT, Limit DEF Fits
<1>4. QED
  BY <1>2, <1>3 DEF Good, Unreadable

LEMMA NothingGood ==
  Good(Nothing) /\ ~ Unreadable(Nothing)
<1>1. Nothing.type = "PINGRESP" /\ Nothing.remaining = 0 /\ Nothing.items = <<>>
  BY Built DEF Nothing
<1>2. QED
  BY <1>1, EmptyGood DEF Unreadable

-----------------------------------------------------------------------------
(* The packets that the client writes *)

LEMMA PropsOf ==
  ASSUME SizesFit, NEW type \in {"PUBLISH", "PUBACK", "SUBACK", "DISCONNECT"},
         NEW ids, ids \in Some(Known(type))
  PROVE  ids \in SUBSET Known(type) /\ ids \in SUBSET Ids /\ Cardinality(ids) <= 18
<1>1. Known(type) \in SUBSET Ids
  BY KnownAt, KnownIds DEF Acks
<1>2. ids \in SUBSET Known(type) /\ ids \in SUBSET Ids /\ Cardinality(ids) <= 17
  BY <1>1, SomeIs
<1>3. Cardinality(ids) \in Nat
  BY <1>2, IdsAre
<1>4. QED
  BY <1>2, <1>3

LEMMA WritePublishGood ==
  ASSUME SizesFit, NEW p \in Publishes
  PROVE  Good(WritePublish(p))
<1> DEFINE l == p.len
           ids == p.props
           v == PropertiesLen(ids, l)
           items == <<Field(2 + p.topic)>> \o When(p.qos > 0, <<Field(2)>>)
                      \o Section(v, ids, l) \o Rest(p.payload)
           rem == 2 + p.topic + (IF p.qos > 0 THEN 2 ELSE 0)
                    + Length(v) + v + p.payload
           f == Frame("PUBLISH", l, p.topic, p.qos, rem, items)
<1>1. /\ ids \in Some(PublishKnown) /\ l \in Lengths
      /\ p.topic \in {0, 1} \cup Lengths /\ p.qos \in {0, 1}
      /\ p.payload \in Payloads
  BY DEF Publishes, PublishKnown
<1>2. l \in Nat /\ l <= MaxString
  BY <1>1, LengthsAre
<1>3. p.topic \in Nat /\ p.topic <= MaxString
  <2>1. CASE p.topic = 0
    BY SMT, <2>1 DEF MaxString
  <2>2. CASE p.topic \in Lengths \cup {1}
    BY <2>2, LengthsAre
  <2>3. QED
    BY <1>1, <2>1, <2>2
<1>4. ids \in SUBSET PublishKnown /\ Cardinality(ids) <= 18
  <2>1. Known("PUBLISH") = PublishKnown
    BY KnownAt
  <2>2. QED
    BY <1>1, <2>1, PropsOf
<1>5. WritePublish(p) = f
  BY DEF WritePublish
<1>6. f = Frame("PUBLISH", l, p.topic, p.qos, rem,
            <<Field(2 + p.topic)>> \o When(p.qos > 0, <<Field(2)>>)
              \o Section(PropertiesLen(ids, l), ids, l) \o Rest(p.payload))
  OBVIOUS
<1>7. rem = 2 + p.topic + (IF p.qos > 0 THEN 2 ELSE 0)
              + Length(PropertiesLen(ids, l)) + PropertiesLen(ids, l) + p.payload
  OBVIOUS
<1> HIDE DEF f, rem, l, ids, v, items
<1>8. Good(f)
  BY <1>1, <1>2, <1>3, <1>4, <1>6, <1>7, PublishGood
<1>9. QED
  BY <1>5, <1>8

(* Without a reason code the length of the properties, which is zero, is   *)
(* read in its place: the two have the same size.                          *)
LEMMA NoCodeGood ==
  ASSUME NEW type \in Acks, NEW l \in Nat, l <= MaxString,
         NEW ids \in SUBSET Ids, PropertiesLen(ids, l) = 0,
         NEW f, f.type = type, f.remaining = 3,
         f.items = <<Field(2)>> \o Section(PropertiesLen(ids, l), ids, l)
  PROVE  Good(f)
<1> DEFINE pre == <<Field(2)>>
           name == [id \in ids |-> id]
           v == PropertiesLen(ids, l)
           a == 2
           b == a + Cardinality(ids)
           items == f.items
<1>1. /\ pre \in Seq(AnyItem) /\ Len(pre) = 1 /\ SizeSum(pre) = 2
      /\ pre[1].class = "field" /\ pre[1].size = 2
      /\ \A k \in 1..Len(pre) : pre[k].class = "field"
  <2>1. 2 \in Nat \ {0}
    OBVIOUS
  <2>2. QED
    BY <2>1, OneField
<1>2. /\ IsFiniteSet(ids) /\ ids \in SUBSET Nat /\ Cardinality(ids) \in Nat
      /\ \A id \in ids : name[id] \in Nat
  BY IdsAre
<1>3. v = 0 /\ v <= MaxVarInt
  BY SMT, Limit
<1>4. items = Assembly(pre, name, v, ids, l, <<>>)
  <2>1. SectionAs(name, v, ids, l) \in Seq(AnyItem)
    BY <1>2, <1>3, SectionTyped
  <2>2. pre \o SectionAs(name, v, ids, l) \in Seq(AnyItem)
    BY <1>1, <2>1, ConcatProperties
  <2>3. items = pre \o SectionAs(name, v, ids, l)
    BY DEF Section
  <2> DEFINE t == pre \o SectionAs(name, v, ids, l)
  <2> HIDE DEF t
  <2>4. t \o <<>> = t
    BY <2>2, WithNothing DEF t
  <2>5. QED
    BY <2>3, <2>4 DEF t, Assembly
<1>5. <<>> \in Seq(AnyItem) /\ Len(<<>>) = 0 /\ SizeSum(<<>>) = 0
  BY SizeSumNone
<1>6. a = Len(pre) + 1 /\ b = a + Cardinality(ids) /\ v = PropertiesLen(ids, l)
  BY <1>1
<1>7. \A k \in 1..Len(<<>>) : <<>>[k].class \in {"field", "payload"}
  BY <1>5
<1> HIDE DEF pre, name, v, b, items
<1>8. Assembled(items, a, b, pre, name, v, ids, l, <<>>)
  BY <1>1, <1>2, <1>3, <1>4, <1>5, <1>6, <1>7, AssemblyIs
<1>9. Sectioned(items, a, b) /\ items \in Seq(AnyItem) /\ Len(items) = b
  <2>1. Sectioned(items, a, b) /\ items \in Seq(AnyItem) /\ Len(items) = b + Len(<<>>)
    BY <1>8 DEF Assembled, Sectioned
  <2>2. QED
    BY <1>2, <1>5, <2>1 DEF b
<1>10. b = 2
  <2>1. items[a] = LengthItem(v)
    BY <1>8 DEF Assembled
  <2>2. items[a].value = 0
    BY <1>3, <2>1 DEF LengthItem
  <2>3. Before(items, b + 1) - Before(items, a + 1) = 0
    BY <1>9, <2>2 DEF Sectioned
  <2>4. /\ a + 1 \in 1..Len(items) + 1 /\ b + 1 \in 1..Len(items) + 1
        /\ a + 1 <= b + 1
    BY <1>2, <1>9 DEF b
  <2>5. /\ Before(items, a + 1) \in Nat /\ Before(items, b + 1) \in Nat
        /\ a + 1 < b + 1 => Before(items, a + 1) < Before(items, b + 1)
    BY <1>9, <2>4, BeforeBetween
  <2>6. ~ (a + 1 < b + 1)
    BY <2>3, <2>5
  <2>7. QED
    BY <1>2, <1>6, <2>4, <2>6 DEF b
<1>11. /\ items[1].class = "field" /\ items[1].size = 2
       /\ items[2].class = "length" /\ items[2].size = 1
  <2>1. items[1] = pre[1] /\ items[2] = LengthItem(0)
    BY <1>3, <1>8 DEF Assembled
  <2>2. Length(0) = 1
    BY DEF Length, Base
  <2>3. 0 <= MaxVarInt
    BY SMT, Limit
  <2>4. LengthItem(0).class = "length" /\ LengthItem(0).size = 1
    BY <2>2, <2>3, LengthItemIs
  <2>5. QED
    BY <1>1, <2>1, <2>4
<1>12. SizeSum(items) = 3
  <2>1. SizeSum(items) = SizeSum(pre) + Length(v) + v + SizeSum(<<>>)
    BY <1>8 DEF Assembled
  <2>2. Length(0) = 1
    BY DEF Length, Base
  <2>3. QED
    BY <1>1, <1>3, <1>5, <2>1, <2>2
<1>13. Announces(f)
  BY <1>9, <1>12, SectionedAnnounces DEF items
<1> DEFINE g == Fields(f)
<1>14. g = <<2, 1>>
  BY FieldsAt
<1>15. Len(g) = 2 /\ g[1] = 2 /\ g[2] = 1
  BY <1>14
<1> HIDE DEF g
<1>16. \A k \in 1..3 - 1 : /\ items[k].class \in {"field", "length"}
                           /\ items[k].size = g[k]
  BY <1>11, <1>15
<1>17. f.remaining <= MaxVarInt
  BY SMT, Limit
<1>18. f.type \in Read /\ f.type \in Brief
  BY DEF Read, Brief
<1>19. /\ 3 \in Nat /\ 3 >= 2 /\ 3 <= Len(items) + 1 /\ 3 = Len(items) + 1
       /\ 3 <= Len(g) + 1 /\ Len(g) \in Nat
  BY <1>9, <1>10, <1>15
<1>20. Readable(f, 3, 3)
  BY <1>9, <1>12, <1>16, <1>17, <1>18, <1>19 DEF Readable, items, g
<1>21. Fits(f)
  BY <1>17 DEF Fits
<1>22. QED
  BY <1>13, <1>20, <1>21 DEF Good

LEMMA WritePubackGood ==
  ASSUME SizesFit, NEW p \in Pubacks
  PROVE  Good(WritePuback(p))
<1> DEFINE l == p.len
           ids == p.props
           type == p.type
           v == PropertiesLen(ids, l)
           sec == Section(v, ids, l)
           withCode == p.code # 0 \/ v # 0
           rem == 2 + (IF withCode THEN 1 ELSE 0) + Length(v) + v
           items == <<Field(2)>> \o When(withCode, <<Field(1)>>) \o sec
           f == Frame(type, l, 0, 0, rem, items)
<1>1. WritePuback(p) = f
  BY DEF WritePuback
<1>2. type \in Acks /\ ids \in Some({31, 38}) /\ l \in Lengths
  BY DEF Pubacks
<1>3. l \in Nat /\ l <= MaxString
  BY <1>2, LengthsAre
<1>4. ids \in SUBSET Known(type) /\ ids \in SUBSET Ids /\ Cardinality(ids) <= 18
  <2>1. Known("PUBACK") = {31, 38} /\ Known(type) = {31, 38}
    BY <1>2, KnownAt DEF Acks
  <2>2. QED
    BY <1>2, <2>1, PropsOf
<1>5. v \in Nat /\ v <= MaxVarInt
  BY <1>3, <1>4, PropertiesFit
<1>6. sec \in Seq(AnyItem)
  <2>1. \A id \in ids : [i \in ids |-> i][id] \in Nat
    BY <1>4, IdsAre
  <2>2. QED
    BY <1>3, <1>4, <1>5, <2>1, SectionTyped DEF Section
<1>7. /\ f.type = type /\ f.remaining = rem /\ f.items = items
  <2>1. f = Frame(type, l, 0, 0, rem, items)
    OBVIOUS
  <2> HIDE DEF f, type, l, rem, items
  <2>2. QED
    BY <2>1, Built
<1>8. CASE ~ withCode
  <2>1. v = 0 /\ Length(v) = 1 /\ rem = 3
    <3>1. v = 0
      BY <1>8
    <3>2. Length(0) = 1
      BY DEF Length, Base
    <3> HIDE DEF v, withCode
    <3>3. QED
      BY <1>8, <3>1, <3>2
  <2>2. items = <<Field(2)>> \o Section(PropertiesLen(ids, l), ids, l)
    <3>1. When(withCode, <<Field(1)>>) = <<>>
      BY <1>8 DEF When
    <3>2. <<Field(2)>> \o <<>> = <<Field(2)>>
      BY ConcatEmptySeq, FieldIs, WithNothing, SizeSumOne
    <3>3. QED
      BY <3>1, <3>2
  <2> HIDE DEF f, rem, items, withCode, sec
  <2>3. QED
    BY <1>1, <1>2, <1>3, <1>4, <1>7, <2>1, <2>2, NoCodeGood
<1>9. CASE withCode
  <2>1. items = Leading(type) \o Section(v, ids, l) \o Rest(0)
    <3>1. When(withCode, <<Field(1)>>) = <<Field(1)>>
      BY <1>9 DEF When
    <3>2. <<Field(2)>> \o <<Field(1)>> = Leading(type)
      BY <1>2, Prepended DEF Leading
    <3>3. Leading(type) \in Seq(AnyItem)
      BY <1>2, <1>7, LeadingIs DEF Read, Acks
    <3> HIDE DEF sec
    <3>4. Leading(type) \o sec \in Seq(AnyItem)
      BY <1>6, <3>3, ConcatProperties
    <3> DEFINE t == Leading(type) \o sec
    <3>5. items = t
      BY <3>1, <3>2
    <3> HIDE DEF t
    <3>6. t \o Rest(0) = t
      BY <3>4, WithNothing DEF t
    <3>7. QED
      BY <3>5, <3>6 DEF t, sec
  <2>2. SizeSum(Leading(type)) = 3
    BY <1>2, <1>7, LeadingIs DEF Read, Acks
  <2>3. rem = SizeSum(Leading(type)) + Length(v) + v + 0
    <3>1. Length(v) \in Nat
      BY <1>5, VarIntLength
    <3>2. PICK x \in Nat, y \in Nat : x = v /\ y = Length(v)
      BY <1>5, <3>1
    <3>3. rem = 2 + 1 + Length(v) + v
      BY <1>9
    <3> HIDE DEF v, rem
    <3>4. QED
      BY <2>2, <3>2, <3>3
  <2>4. type \in Read \ {"PUBLISH"} /\ type \notin {"SUBACK", "UNSUBACK"}
    BY <1>2 DEF Read, Acks
  <2>5. f = Frame(type, l, 0, 0, rem, Leading(type)
              \o Section(PropertiesLen(ids, l), ids, l) \o Rest(0))
    BY <2>1
  <2>6. rem = SizeSum(Leading(type)) + Length(PropertiesLen(ids, l))
                + PropertiesLen(ids, l) + 0
    BY <2>3
  <2> HIDE DEF f, rem, items, withCode, sec, v, l, ids, type
  <2>7. QED
    BY <1>1, <1>3, <1>4, <2>4, <2>5, <2>6, LeadingGood
<1>10. QED
  BY <1>8, <1>9

(* CONNECT, SUBSCRIBE and UNSUBSCRIBE have no reader here: what counts is  *)
(* that they announce what they have.                                      *)
Composed(f, pre, name, v, ids, l, post) ==
  /\ pre \in Seq(AnyItem) /\ \A k \in 1..Len(pre) : pre[k].class = "field"
  /\ post \in Seq(AnyItem)
  /\ \A k \in 1..Len(post) : post[k].class \in {"field", "payload"}
  /\ ids \in SUBSET Ids /\ l \in Nat /\ l <= MaxString
  /\ \A id \in ids : name[id] \in Nat
  /\ v = PropertiesLen(ids, l) /\ v <= MaxVarInt
  /\ f.type \in Unread /\ f.items = Assembly(pre, name, v, ids, l, post)
  /\ f.remaining = SizeSum(pre) + Length(v) + v + SizeSum(post)

LEMMA UnreadGood ==
  ASSUME NEW f, NEW pre, NEW name, NEW v, NEW ids, NEW l, NEW post,
         Composed(f, pre, name, v, ids, l, post)
  PROVE  Good(f)
<1> USE DEF Composed
<1> DEFINE a == Len(pre) + 1
           b == a + Cardinality(ids)
           items == f.items
<1>1. IsFiniteSet(ids) /\ ids \in SUBSET Nat
  BY IdsAre
<1>2. a = Len(pre) + 1 /\ b = a + Cardinality(ids) /\ items = f.items
      /\ items = Assembly(pre, name, v, ids, l, post)
  OBVIOUS
<1> HIDE DEF a, b, items
<1>3. Assembled(items, a, b, pre, name, v, ids, l, post)
  BY <1>1, <1>2, AssemblyIs
<1>4. Sectioned(f.items, a, b) /\ f.remaining = SizeSum(f.items)
  BY <1>2, <1>3 DEF Assembled
<1>5. Announces(f)
  BY <1>4, SectionedAnnounces
<1>6. QED
  BY <1>5 DEF Good

LEMMA WriteSubscribeGood ==
  ASSUME SizesFit, NEW p \in Subscribes, NEW f,
         f = WriteSubscribe(p) \/ f = WriteUnsubscribe(p)
  PROVE  Good(f)
<1> DEFINE l == p.len
           ids == p.props
           v == PropertiesLen(ids, l)
           name == [id \in ids |-> id]
           pre == <<Field(2)>>
<1>1. /\ ids \in Some({11, 38}) \/ ids \in Some({38})
      /\ l \in Lengths /\ p.topics \in 0..2
  BY DEF Subscribes
<1>2. l \in Nat /\ l <= MaxString
  BY <1>1, LengthsAre
<1>3. ids \in SUBSET Ids /\ Cardinality(ids) <= 18
  <2>1. {11, 38} \in SUBSET Ids /\ {38} \in SUBSET Ids
    BY DEF Ids
  <2>2. ids \in SUBSET Ids /\ Cardinality(ids) <= 17
    BY <1>1, <2>1, SomeIs
  <2>3. Cardinality(ids) \in Nat
    BY <2>2, IdsAre
  <2>4. QED
    BY <2>2, <2>3
<1>4. v \in Nat /\ v <= MaxVarInt /\ v = PropertiesLen(ids, l)
  BY <1>2, <1>3, PropertiesFit
<1>5. \A id \in ids : name[id] \in Nat
  BY <1>3, IdsAre
<1>6. /\ pre \in Seq(AnyItem) /\ Len(pre) = 1 /\ SizeSum(pre) = 2
      /\ \A k \in 1..Len(pre) : pre[k].class = "field"
  <2>1. 2 \in Nat \ {0}
    OBVIOUS
  <2>2. QED
    BY <2>1, OneField
<1>7. PICK z : /\ z = p.topics * (2 + l + 1) \/ z = p.topics * (2 + l)
               /\ \E type \in Unread :
                    f = Frame(type, l, 0, 0, 2 + Length(v) + v + z,
                              pre \o Section(v, ids, l) \o Rest(z))
  <2>1. CASE f = WriteSubscribe(p)
    BY <2>1 DEF WriteSubscribe, Unread
  <2>2. CASE f = WriteUnsubscribe(p)
    BY <2>2 DEF WriteUnsubscribe, Unread
  <2>3. QED
    BY <2>1, <2>2
<1>8. z \in Nat
  <2>1. p.topics = 0 \/ p.topics = 1 \/ p.topics = 2
    BY <1>1
  <2>2. QED
    BY <1>2, <1>7, <2>1
<1>9. PICK type \in Unread :
        f = Frame(type, l, 0, 0, 2 + Length(v) + v + z,
                  pre \o Section(v, ids, l) \o Rest(z))
  BY <1>7
<1>10. /\ f.type \in Unread /\ f.remaining = 2 + Length(v) + v + z
       /\ f.items = Assembly(pre, name, v, ids, l, Rest(z))
  <2> DEFINE items == pre \o Section(v, ids, l) \o Rest(z)
             rem == 2 + Length(v) + v + z
  <2>1. f = Frame(type, l, 0, 0, rem, items)
    BY <1>9
  <2> HIDE DEF items, rem
  <2>2. f.type = type /\ f.remaining = rem /\ f.items = items
    BY <2>1, Built
  <2>3. QED
    BY <1>9, <2>2 DEF items, rem, Assembly, Section
<1>11. /\ Rest(z) \in Seq(AnyItem) /\ SizeSum(Rest(z)) = z
       /\ \A k \in 1..Len(Rest(z)) : Rest(z)[k].class \in {"field", "payload"}
  BY <1>8, RestIs
<1> HIDE DEF pre, name, v
<1>12. f.remaining = SizeSum(pre) + Length(v) + v + SizeSum(Rest(z))
  BY <1>6, <1>10, <1>11
<1> DEFINE post == Rest(z)
<1> HIDE DEF post, l, ids
<1>13. /\ post \in Seq(AnyItem)
       /\ \A k \in 1..Len(post) : post[k].class \in {"field", "payload"}
       /\ f.items = Assembly(pre, name, v, ids, l, post)
       /\ f.remaining = SizeSum(pre) + Length(v) + v + SizeSum(post)
  BY <1>10, <1>11, <1>12 DEF post
<1>14. Composed(f, pre, name, v, ids, l, post)
  BY Zenon, <1>2, <1>3, <1>4, <1>5, <1>6, <1>10, <1>13 DEF Composed
<1>15. QED
  BY <1>14, UnreadGood

LEMMA WriteDisconnectGood ==
  ASSUME SizesFit, NEW p \in Disconnects
  PROVE  Good(WriteDisconnect(p))
<1> DEFINE ids == p.props
           v == PropertiesLen(ids, 1)
           sec == Section(v, ids, 1)
           type == "DISCONNECT"
           rem == 2 + v
           f == WriteDisconnect(p)
<1>1. ids \in Some({17}) /\ p.len = 1
  BY DEF Disconnects
<1>2. {17} \in SUBSET Ids
  BY DEF Ids
<1>3. ids \in SUBSET {17} /\ ids \in SUBSET Ids /\ Cardinality(ids) <= 17
  BY <1>1, <1>2, SomeIs
<1>4. Cardinality(ids) \in Nat /\ IsFiniteSet(ids) /\ Cardinality(ids) <= 18
  <2>1. Cardinality(ids) \in Nat /\ IsFiniteSet(ids)
    BY <1>3, IdsAre
  <2>2. QED
    BY <1>3, <2>1
<1>5. ids \in SUBSET Known(type)
  <2>1. Known(type) = DisconnectKnown
    BY KnownAt
  <2>2. QED
    BY <1>3, <2>1 DEF DisconnectKnown
<1>6. 1 \in Nat /\ 1 <= MaxString
  BY SMT DEF MaxString
<1>7. v \in Nat /\ v <= 85 /\ v <= MaxVarInt
  <2> DEFINE F == [id \in ids |-> 1 + SizeOf(id, 1)]
  <2>1. Kind(17) = "uint32"
    <3> DEFINE a == 17 \in {1, 23, 25, 36, 37, 40, 41, 42}
               b == 17 \in {19, 33, 34, 35}
               c == 17 \in {2, 17, 24, 39}
               d == 17 = 11
               e == 17 = 38
    <3>1. ~ a /\ ~ b /\ c /\ ~ d /\ ~ e
      OBVIOUS
    <3>2. Kind(17) = CASE a -> "byte" [] b -> "uint16" [] c -> "uint32"
                       [] d -> "varint" [] e -> "pair" [] OTHER -> "string"
      BY DEF Kind
    <3> HIDE DEF a, b, c, d, e
    <3>3. QED
      BY Zenon, <3>1, <3>2
  <2>2. SizeOf(17, 1) = 4
    BY <2>1 DEF SizeOf
  <2>3. \A id \in ids : F[id] \in Nat /\ F[id] <= 5
    BY <1>3, <2>2
  <2>4. v = Sum(F, ids) /\ v \in Nat
    BY <1>4, <1>6, PropertiesLenIs
  <2> HIDE DEF F
  <2>5. Sum(F, ids) <= 5 * Cardinality(ids)
    <3>1. 5 \in Nat
      OBVIOUS
    <3>2. QED
      BY <1>4, <2>3, <3>1, SumBound
  <2>6. PICK c \in Nat : c = Cardinality(ids) /\ c <= 17
    BY <1>3, <1>4
  <2>7. v <= 5 * c
    BY <2>4, <2>5, <2>6
  <2> HIDE DEF v
  <2>8. QED
    BY SMT, <2>4, <2>6, <2>7, Limit
<1>8. Length(v) = 1
  <2> HIDE DEF v
  <2>1. QED
    BY <1>7 DEF Length, Base
<1>9. sec \in Seq(AnyItem)
  <2>1. \A id \in ids : [i \in ids |-> i][id] \in Nat
    BY <1>3, IdsAre
  <2>2. QED
    BY <1>3, <1>6, <1>7, <2>1, SectionTyped DEF Section
<1>10. f = Frame(type, 1, 0, 0, rem, <<Field(1)>> \o sec)
  <2>1. ids \ {31} = ids /\ ids \ {28} = ids
    BY <1>3
  <2>2. QED
    BY <1>1, <2>1 DEF WriteDisconnect
<1>11. type \in Read \ {"PUBLISH"} /\ Leading(type) = <<Field(1)>>
  BY DEF Read, Leading, Acks
<1>12. f.type = type
  <2> DEFINE items == <<Field(1)>> \o sec
  <2>1. f = Frame(type, 1, 0, 0, rem, items)
    BY <1>10
  <2> HIDE DEF f, items, rem
  <2>2. QED
    BY <2>1, Built
<1>13. Leading(type) \in Seq(AnyItem) /\ SizeSum(Leading(type)) = 1
  BY <1>11, <1>12, LeadingIs
<1>14. <<Field(1)>> \o sec = Leading(type) \o sec \o Rest(0)
  <2> DEFINE t == Leading(type) \o sec
  <2> HIDE DEF sec
  <2>1. t \in Seq(AnyItem)
    BY <1>9, <1>13, ConcatProperties
  <2>2. <<Field(1)>> \o sec = t
    BY <1>11
  <2> HIDE DEF t
  <2>3. t \o Rest(0) = t
    BY <2>1, WithNothing
  <2>4. QED
    BY <2>2, <2>3 DEF t
<1>15. f = Frame(type, 1, 0, 0, rem, Leading(type)
             \o Section(PropertiesLen(ids, 1), ids, 1) \o Rest(0))
  BY <1>10, <1>14
<1>16. rem = SizeSum(Leading(type)) + Length(PropertiesLen(ids, 1))
               + PropertiesLen(ids, 1) + 0
  <2>1. PICK x \in Nat : x = v
    BY <1>7
  <2>2. rem = 2 + x /\ Length(PropertiesLen(ids, 1)) = 1 /\ PropertiesLen(ids, 1) = x
    BY <1>8, <2>1
  <2> HIDE DEF rem
  <2>3. QED
    BY <1>13, <2>2
<1>17. 0 \in Nat /\ 0 <= 2 /\ (0 # 0) = (type \in {"SUBACK", "UNSUBACK"})
  OBVIOUS
<1> HIDE DEF f, rem, sec, v, ids, type
<1>18. Good(f)
  BY <1>4, <1>5, <1>6, <1>11, <1>15, <1>16, <1>17, LeadingGood
<1>19. QED
  BY <1>18 DEF f

LEMMA FourFields ==
  ASSUME NEW s, s = <<Field(6), Field(1), Field(1), Field(2)>>
  PROVE  /\ s \in Seq(AnyItem) /\ SizeSum(s) = 10
         /\ \A k \in 1..Len(s) : s[k].class = "field"
<1>1. 1 \in Nat \ {0} /\ 2 \in Nat \ {0} /\ 6 \in Nat \ {0}
  OBVIOUS
<1> DEFINE t == <<Field(1), Field(2)>>
           u == <<Field(1)>> \o t
           x == <<Field(1)>>
           y == <<Field(6)>>
<1>2. s = y \o u
  <2>1. u = <<Field(1), Field(1), Field(2)>>
    BY Prepended
  <2>2. QED
    BY <2>1, Prepended
<1>3. /\ t \in Seq(AnyItem) /\ SizeSum(t) = 1 + 2
  BY <1>1, TwoFields
<1>4. /\ x \in Seq(AnyItem) /\ SizeSum(x) = 1
      /\ y \in Seq(AnyItem) /\ SizeSum(y) = 6
  BY <1>1, OneField
<1> HIDE DEF t, x, y
<1>5. u = x \o t
  BY DEF x
<1> HIDE DEF u
<1>6. u \in Seq(AnyItem) /\ SizeSum(u) = 1 + (1 + 2)
  BY <1>3, <1>4, <1>5, SizeSumConcat
<1>7. s \in Seq(AnyItem) /\ SizeSum(s) = 6 + (1 + (1 + 2))
  <2>1. y \o u \in Seq(AnyItem) /\ SizeSum(y \o u) = SizeSum(y) + SizeSum(u)
    BY <1>4, <1>6, SizeSumConcat
  <2>2. QED
    BY <1>2, <1>4, <1>6, <2>1
<1>8. \A k \in 1..Len(s) : s[k].class = "field"
  BY FieldIs, <1>1
<1>9. QED
  BY <1>7, <1>8

LEMMA ConnectIdsAre ==
  ASSUME SizesFit, NEW p, p.props \in Some({17, 33, 39, 34, 25, 23, 38, 21})
  PROVE  ConnectIds(p) \in SUBSET Ids /\ Cardinality(ConnectIds(p)) <= 18
<1>1. {17, 33, 39, 34, 25, 23, 38, 21} \in SUBSET Ids /\ 22 \in Ids
  BY DEF Ids
<1>2. p.props \in SUBSET Ids /\ Cardinality(p.props) <= 17
  BY <1>1, SomeIs
<1>3. IsFiniteSet(p.props) /\ Cardinality(p.props) \in Nat
  BY <1>2, IdsAre
<1>4. IsFiniteSet({22}) /\ Cardinality({22}) = 1
  BY FS_Singleton
<1>5. /\ Cardinality(p.props \cup {22}) <= Cardinality(p.props) + 1
      /\ Cardinality(p.props \cup {22}) \in Nat
  BY <1>3, FS_AddElement
<1>6. QED
  BY <1>1, <1>2, <1>3, <1>5 DEF ConnectIds

LEMMA ConnectNames ==
  ASSUME NEW ids \in SUBSET Ids
  PROVE  \A id \in ids : [x \in ids |-> ConnectId(x)][id] \in Nat
<1>1. ASSUME NEW id \in ids PROVE ConnectId(id) \in Nat
  <2>1. id \in Nat /\ 18 \in Nat /\ 25 \in Nat
    BY IdsAre
  <2>2. ConnectId(id) = 18 \/ ConnectId(id) = 25 \/ ConnectId(id) = id
    <3> DEFINE c == id = 34
               d == id = 23
               x == 18
               w == 25
    <3>1. ConnectId(id) = CASE c -> x [] d -> w [] OTHER -> id
      BY DEF ConnectId
    <3>2. SUFFICES ConnectId(id) = x \/ ConnectId(id) = w \/ ConnectId(id) = id
      OBVIOUS
    <3> HIDE DEF c, d, x, w
    <3>3. QED
      BY Zenon, <3>1
  <2>3. QED
    BY <2>1, <2>2
<1>2. QED
  BY <1>1

LEMMA WillItemsStart ==
  ASSUME SizesFit, NEW p \in Connects
  PROVE  /\ WillItems(p) \in Seq(AnyItem) /\ Len(WillItems(p)) >= 1
         /\ WillItems(p)[1].class = "length"
<1> DEFINE l == p.len
           ids == p.willProps \cup {1}
           v == PropertiesLen(p.willProps, l)
           name == [id \in ids |-> WillId(id)]
           sec == SectionAs(name, v, ids, l)
           y == 2 + l
           t == <<Field(y), Field(y)>>
<1>1. p.willProps \in Some({24, 2, 3, 8, 9, 38}) /\ l \in Lengths
  BY DEF Connects
<1>2. l \in Nat /\ l <= MaxString
  BY <1>1, LengthsAre
<1>3. p.willProps \in SUBSET Ids /\ Cardinality(p.willProps) <= 17
  <2>1. {24, 2, 3, 8, 9, 38} \in SUBSET Ids
    BY DEF Ids
  <2>2. QED
    BY <1>1, <2>1, SomeIs
<1>4. ids \in SUBSET Ids
  BY <1>3 DEF Ids
<1>5. v \in Nat /\ v <= MaxVarInt
  <2>1. Cardinality(p.willProps) \in Nat
    BY <1>3, IdsAre
  <2>2. Cardinality(p.willProps) <= 18
    BY <1>3, <2>1
  <2>3. QED
    BY <1>2, <1>3, <2>2, PropertiesFit
<1>6. \A id \in ids : name[id] \in Nat
  <2>1. ASSUME NEW id \in ids PROVE WillId(id) \in Nat
    BY <1>4, IdsAre DEF WillId
  <2>2. QED
    BY <2>1
<1>7. sec \in Seq(AnyItem) /\ Len(sec) >= 1 /\ sec[1] = LengthItem(v)
  <2> HIDE DEF name, v, ids, l
  <2>1. QED
    BY <1>2, <1>4, <1>5, <1>6, SectionStarts
<1>8. LengthItem(v).class = "length"
  BY <1>5, LengthItemIs
<1>9. t \in Seq(AnyItem)
  <2>1. y \in Nat \ {0}
    BY <1>2
  <2> HIDE DEF y
  <2>2. QED
    BY <2>1, TwoFields
<1>10. WillItems(p) = sec \o t
  BY DEF WillItems
<1> HIDE DEF sec, t, v
<1>11. /\ sec \o t \in Seq(AnyItem) /\ Len(sec \o t) = Len(sec) + Len(t)
       /\ \A k \in 1..Len(sec) : (sec \o t)[k] = sec[k]
  BY <1>7, <1>9, SizeSumConcat
<1>12. Len(sec) \in Nat /\ Len(t) \in Nat
  BY <1>7, <1>9, SizesAt
<1>13. QED
  BY <1>7, <1>8, <1>10, <1>11, <1>12

LEMMA PlainConnectGood ==
  ASSUME SizesFit, NEW p \in Connects, p.will = FALSE,
         PropertiesLen(ConnectIds(p), p.len) < Base
  PROVE  Good(WriteConnect(p))
<1> DEFINE l == p.len
           ids == ConnectIds(p)
           v == PropertiesLen(ids, l)
           name == [id \in ids |-> ConnectId(id)]
           sec == SectionAs(name, v, ids, l)
           pre == <<Field(6), Field(1), Field(1), Field(2)>>
           y == 2 + l
           z == p.names * y
           fl == <<Field(y)>>
           rest == Rest(z)
           post == fl \o rest
           rem == 11 + v + (1 + p.names) * y + 0
           items == pre \o sec \o fl \o <<>> \o rest
           f == WriteConnect(p)
<1>1. /\ p.props \in Some({17, 33, 39, 34, 25, 23, 38, 21}) /\ l \in Lengths
      /\ p.names \in 0..2 /\ p.will = FALSE /\ v < Base
  BY DEF Connects
<1>2. l \in Nat /\ l <= MaxString
  BY <1>1, LengthsAre
<1>3. ids \in SUBSET Ids
  <2>1. {17, 33, 39, 34, 25, 23, 38, 21} \in SUBSET Ids /\ 22 \in Ids
    BY DEF Ids
  <2>2. p.props \in SUBSET Ids
    BY <1>1, <2>1, SomeIs
  <2>3. QED
    BY <2>1, <2>2 DEF ConnectIds
<1>4. v \in Nat /\ v <= MaxVarInt /\ Length(v) = 1
  <2>1. v \in Nat
    BY <1>2, <1>3, IdsAre, PropertiesLenIs
  <2> HIDE DEF v
  <2>2. v <= MaxVarInt
    BY SMT, <1>1, <2>1, Limit DEF Base
  <2>3. QED
    BY <1>1, <2>1, <2>2 DEF Length
<1>5. \A id \in ids : name[id] \in Nat
  <2>1. ASSUME NEW id \in ids PROVE name[id] \in Nat
    <3>1. id \in Nat /\ 18 \in Nat /\ 25 \in Nat
      BY <1>3, IdsAre
    <3>2. ConnectId(id) = 18 \/ ConnectId(id) = 25 \/ ConnectId(id) = id
      <4> DEFINE c == id = 34
                 d == id = 23
                 x == 18
                 w == 25
      <4>1. ConnectId(id) = CASE c -> x [] d -> w [] OTHER -> id
        BY DEF ConnectId
      <4>2. SUFFICES ConnectId(id) = x \/ ConnectId(id) = w \/ ConnectId(id) = id
        OBVIOUS
      <4> HIDE DEF c, d, x, w
      <4>3. QED
        BY Zenon, <4>1
    <3>3. QED
      BY <3>1, <3>2
  <2>2. QED
    BY <2>1
<1>6. sec \in Seq(AnyItem)
  BY <1>2, <1>3, <1>4, <1>5, SectionTyped
<1>7. /\ pre \in Seq(AnyItem) /\ SizeSum(pre) = 10
      /\ \A k \in 1..Len(pre) : pre[k].class = "field"
  BY FourFields
<1>8. y \in Nat \ {0} /\ z \in Nat /\ (1 + p.names) * y = y + z
  <2>1. p.names = 0 \/ p.names = 1 \/ p.names = 2
    BY <1>1
  <2>2. y \in Nat \ {0}
    BY <1>2
  <2> HIDE DEF y
  <2>3. QED
    BY <2>1, <2>2
<1> HIDE DEF y
<1>9. /\ fl \in Seq(AnyItem) /\ Len(fl) = 1 /\ SizeSum(fl) = y
      /\ \A k \in 1..Len(fl) : fl[k].class = "field"
  BY <1>8, OneField
<1> HIDE DEF z
<1>10. /\ rest \in Seq(AnyItem) /\ SizeSum(rest) = z
       /\ \A k \in 1..Len(rest) : rest[k].class = "payload"
  BY <1>8, RestIs
<1> HIDE DEF fl, rest, pre, sec
<1>11. /\ post \in Seq(AnyItem) /\ SizeSum(post) = y + z
       /\ Len(post) = Len(fl) + Len(rest)
       /\ \A k \in 1..Len(fl) : post[k] = fl[k]
       /\ \A k \in 1..Len(rest) : post[Len(fl) + k] = rest[k]
  BY <1>9, <1>10, SizeSumConcat
<1>12. \A k \in 1..Len(post) : post[k].class \in {"field", "payload"}
  <2> HIDE DEF post
  <2>1. Len(rest) \in Nat
    BY <1>10, SizesAt
  <2>2. ASSUME NEW k \in 1..Len(post)
        PROVE  post[k].class \in {"field", "payload"}
    <3>1. CASE k = 1
      BY <1>9, <1>11, <3>1
    <3>2. CASE k # 1
      <4>1. k - 1 \in 1..Len(rest) /\ Len(fl) + (k - 1) = k
        BY <1>9, <1>11, <2>1, <2>2, <3>2
      <4>2. post[Len(fl) + (k - 1)] = rest[k - 1]
        BY <1>11, <4>1
      <4>3. QED
        BY <1>10, <4>1, <4>2
    <3>3. QED
      BY <3>1, <3>2
  <2>3. QED
    BY <2>2
<1>13. items = pre \o sec \o post
  <2> DEFINE h == pre \o sec
  <2>1. h \in Seq(AnyItem)
    BY <1>6, <1>7, ConcatProperties
  <2> HIDE DEF h
  <2>2. h \o fl \in Seq(AnyItem)
    BY <1>9, <2>1, ConcatProperties
  <2> DEFINE g == h \o fl
  <2> HIDE DEF g
  <2>3. g \o <<>> = g
    BY <2>2, WithNothing DEF g
  <2>4. (h \o fl) \o rest = h \o (fl \o rest)
    BY <1>9, <1>10, <2>1, Regrouped
  <2>5. items = g \o <<>> \o rest
    BY DEF g, h
  <2>6. QED
    BY <2>3, <2>4, <2>5 DEF g, h
<1>14. f = Frame("CONNECT", l, 0, 0, rem, items)
  <2>1. (IF p.will THEN WillLength(p) ELSE 0) = 0 /\ When(p.will, WillItems(p)) = <<>>
    BY <1>1 DEF When
  <2>2. QED
    BY <2>1 DEF WriteConnect, pre, sec, fl, rest, y, z
<1>15. f.type = "CONNECT" /\ f.remaining = rem /\ f.items = items
  <2> HIDE DEF f, rem, items, l
  <2>1. QED
    BY <1>14, Built
<1>16. f.remaining = SizeSum(pre) + Length(v) + v + SizeSum(post)
  <2>1. PICK x \in Nat : x = v
    BY <1>4
  <2>2. rem = 11 + x + (y + z) + 0
    BY <1>8, <2>1
  <2> HIDE DEF f, rem, items, v, post
  <2>3. SizeSum(pre) + Length(v) + v + SizeSum(post) = 10 + 1 + x + (y + z)
    BY <1>4, <1>7, <1>11, <2>1
  <2>4. 10 + 1 + x + (y + z) = 11 + x + (y + z) + 0
    BY <1>8, <2>1
  <2>5. QED
    BY <1>15, <2>2, <2>3, <2>4
<1>17. f.items = Assembly(pre, name, v, ids, l, post)
  <2>1. f.items = pre \o sec \o post
    BY <1>13, <1>15
  <2>2. QED
    BY <2>1 DEF Assembly, sec
<1>18. f.type \in Unread /\ v = PropertiesLen(ids, l)
  BY <1>15 DEF Unread
<1> HIDE DEF f, v, ids, l, name, post
<1>19. Good(f)
  <2>1. Composed(f, pre, name, v, ids, l, post)
    BY Zenon, <1>2, <1>3, <1>4, <1>5, <1>7, <1>11, <1>12, <1>16, <1>17, <1>18
       DEF Composed
  <2>2. QED
    BY <2>1, UnreadGood
<1>20. QED
  BY <1>19 DEF f

(* The length that counts for the will is an item behind the fifth, and    *)
(* the fifth is the length of the properties of the CONNECT itself.        *)
LEMMA MiscountedConnect ==
  ASSUME SizesFit, NEW p \in Connects,
         p.will \/ ~ (PropertiesLen(ConnectIds(p), p.len) < Base)
  PROVE  Good(WriteConnect(p))
<1> DEFINE l == p.len
           ids == ConnectIds(p)
           v == PropertiesLen(ids, l)
           name == [id \in ids |-> ConnectId(id)]
           sec == SectionAs(name, v, ids, l)
           pre == <<Field(6), Field(1), Field(1), Field(2)>>
           fl == <<Field(2 + l)>>
           g == pre \o sec \o fl
           w == When(p.will, WillItems(p))
           rest == Rest(p.names * (2 + l))
           f == WriteConnect(p)
<1>1. /\ p.props \in Some({17, 33, 39, 34, 25, 23, 38, 21}) /\ l \in Lengths
      /\ p.names \in 0..2 /\ p.willProps \in Some({24, 2, 3, 8, 9, 38})
      /\ p.will \in BOOLEAN
  BY DEF Connects
<1>2. l \in Nat /\ l <= MaxString
  BY <1>1, LengthsAre
<1>3. ids \in SUBSET Ids /\ Cardinality(ids) <= 18
  BY <1>1, ConnectIdsAre
<1>4. v \in Nat /\ v <= MaxVarInt
  BY <1>2, <1>3, PropertiesFit
<1>5. \A id \in ids : name[id] \in Nat
  BY <1>3, ConnectNames
<1>6. sec \in Seq(AnyItem) /\ Len(sec) >= 1 /\ sec[1] = LengthItem(v)
  <2> HIDE DEF name, v, ids, l
  <2>1. QED
    BY <1>2, <1>3, <1>4, <1>5, SectionStarts
<1>7. pre \in Seq(AnyItem) /\ Len(pre) = 4
  BY FourFields
<1>8. fl \in Seq(AnyItem) /\ Len(fl) = 1
  <2>1. 2 + l \in Nat \ {0}
    BY <1>2
  <2>2. QED
    BY <2>1, OneField
<1>9. LengthItem(v).class = "length" /\ LengthItem(v).value = v
  BY <1>4, LengthItemIs
<1>10. w \in Seq(AnyItem) /\ (p.will => Len(w) >= 1 /\ w[1].class = "length")
  <2>1. CASE p.will
    BY <2>1, WillItemsStart DEF When
  <2>2. CASE ~ p.will
    <3>1. w = <<>>
      BY <2>2 DEF When
    <3>2. QED
      BY <2>2, <3>1, SizeSumNone
  <2>3. QED
    BY <2>1, <2>2
<1>11. rest \in Seq(AnyItem)
  <2>1. p.names * (2 + l) \in Nat
    BY <1>1, <1>2
  <2>2. QED
    BY <2>1, RestIs
<1>12. f.type = "CONNECT" /\ f.items = g \o w \o rest
  BY DEF WriteConnect, Frame
<1> HIDE DEF pre, sec, fl, w, rest, f, v, l, ids, name
<1>13. /\ g \in Seq(AnyItem) /\ Len(g) \in Nat /\ Len(g) >= 6 /\ g[5] = sec[1]
  <2> DEFINE h == pre \o sec
  <2>1. /\ h \in Seq(AnyItem) /\ Len(h) = Len(pre) + Len(sec)
        /\ \A k \in 1..Len(sec) : h[Len(pre) + k] = sec[k]
    BY <1>6, <1>7, SizeSumConcat
  <2> HIDE DEF h
  <2>2. /\ h \o fl \in Seq(AnyItem) /\ Len(h \o fl) = Len(h) + Len(fl)
        /\ \A k \in 1..Len(h) : (h \o fl)[k] = h[k]
    BY <1>8, <2>1, SizeSumConcat
  <2>3. Len(sec) \in Nat /\ 1 \in 1..Len(sec)
    BY <1>6, SizesAt
  <2>4. h[5] = sec[1] /\ 5 \in 1..Len(h) /\ Len(h) >= 5 /\ Len(h) \in Nat
    BY <1>7, <2>1, <2>3
  <2>5. g = h \o fl
    BY DEF h
  <2>6. QED
    BY <1>8, <2>2, <2>4, <2>5
<1> HIDE DEF g
<1>14. /\ f.items \in Seq(AnyItem) /\ Len(f.items) >= Len(g) + Len(w)
       /\ Len(f.items) \in Nat /\ Len(w) \in Nat
       /\ \A k \in 1..Len(g) : f.items[k] = g[k]
       /\ \A k \in 1..Len(w) : f.items[Len(g) + k] = w[k]
  <2> DEFINE h == g \o w
  <2>1. /\ h \in Seq(AnyItem) /\ Len(h) = Len(g) + Len(w)
        /\ \A k \in 1..Len(g) : h[k] = g[k]
        /\ \A k \in 1..Len(w) : h[Len(g) + k] = w[k]
    BY <1>10, <1>13, SizeSumConcat
  <2> HIDE DEF h
  <2>2. /\ h \o rest \in Seq(AnyItem) /\ Len(h \o rest) = Len(h) + Len(rest)
        /\ \A k \in 1..Len(h) : (h \o rest)[k] = h[k]
    BY <1>11, <2>1, SizeSumConcat
  <2>3. f.items = h \o rest
    BY <1>12 DEF h
  <2>4. Len(w) \in Nat /\ Len(rest) \in Nat
    BY <1>10, <1>11, SizesAt
  <2>5. ASSUME NEW k \in 1..Len(g) PROVE f.items[k] = g[k]
    BY <1>13, <2>1, <2>2, <2>3, <2>4
  <2>6. ASSUME NEW k \in 1..Len(w) PROVE f.items[Len(g) + k] = w[k]
    <3>1. Len(g) + k \in 1..Len(h)
      BY <1>13, <2>1, <2>4
    <3>2. QED
      BY <2>1, <2>2, <2>3, <3>1
  <2>7. QED
    BY <1>13, <2>1, <2>2, <2>3, <2>4, <2>5, <2>6
<1>15. DOMAIN f.items = 1..Len(f.items)
  BY <1>14, SizesAt
<1>16. ASSUME ~ (v < Base) PROVE Good(f)
  <2>1. 5 \in DOMAIN f.items /\ f.items[5] = LengthItem(v)
    <3>1. 5 \in 1..Len(g) /\ 5 \in 1..Len(f.items)
      BY <1>13, <1>14
    <3>2. f.items[5] = g[5]
      BY Zenon, <1>14, <3>1
    <3>3. g[5] = sec[1] /\ sec[1] = LengthItem(v)
      BY Zenon, <1>6, <1>13
    <3>4. QED
      BY Zenon, <1>15, <3>1, <3>2, <3>3
  <2>2. f.items[5].value >= Base
    <3>1. Base \in Nat
      BY DEF Base
    <3>2. v >= Base
      BY <1>4, <1>16, <3>1
    <3>3. QED
      BY <1>9, <2>1, <3>2
  <2>3. f.items[5].class = "length"
    BY <1>9, <2>1
  <2>4. Miscounted(f)
    BY <1>12, <2>1, <2>2, <2>3 DEF Miscounted
  <2>5. QED
    BY <1>12, <2>4 DEF Good, Unread
<1>17. ASSUME p.will PROVE Good(f)
  <2> DEFINE k == Len(g) + 1
  <2>1. k \in DOMAIN f.items /\ k # 5 /\ f.items[k] = w[1]
    BY <1>10, <1>13, <1>14, <1>15, <1>17
  <2>2. f.items[k].class = "length"
    BY <1>10, <1>17, <2>1
  <2> HIDE DEF k
  <2>3. Miscounted(f)
    BY <1>12, <2>1, <2>2 DEF Miscounted
  <2>4. QED
    BY <1>12, <2>3 DEF Good, Unread
<1>18. p.will \/ ~ (v < Base)
  BY DEF v, ids, l
<1>19. Good(f)
  BY <1>16, <1>17, <1>18
<1>20. QED
  BY <1>19 DEF f

LEMMA WriteConnectGood ==
  ASSUME SizesFit, NEW p \in Connects
  PROVE  Good(WriteConnect(p))
<1>1. p.will \in BOOLEAN
  BY DEF Connects
<1>2. QED
  BY <1>1, PlainConnectGood, MiscountedConnect

LEMMA WriteToIs ==
  ASSUME NEW p
  PROVE  /\ p.type = "PUBLISH" => WriteTo(p) = WritePublish(p)
         /\ p.type \in Acks => WriteTo(p) = WritePuback(p)
         /\ p.type = "SUBSCRIBE" => WriteTo(p) = WriteSubscribe(p)
         /\ p.type = "UNSUBSCRIBE" => WriteTo(p) = WriteUnsubscribe(p)
         /\ p.type = "DISCONNECT" => WriteTo(p) = WriteDisconnect(p)
         /\ p.type = "CONNECT" => WriteTo(p) = WriteConnect(p)
BY DEF WriteTo, Acks

LEMMA WriteToGood ==
  ASSUME SizesFit, NEW p \in Packets
  PROVE  Good(WriteTo(p))
<1>1. CASE p \in Publishes
  <2>1. p.type = "PUBLISH"
    BY <1>1 DEF Publishes
  <2>2. QED
    BY <1>1, <2>1, WriteToIs, WritePublishGood
<1>2. CASE p \in Pubacks
  <2>1. p.type \in Acks
    BY <1>2 DEF Pubacks
  <2>2. QED
    BY <1>2, <2>1, WriteToIs, WritePubackGood
<1>3. CASE p \in Subscribes
  <2>1. p.type = "SUBSCRIBE" \/ p.type = "UNSUBSCRIBE"
    BY <1>3 DEF Subscribes
  <2>2. WriteTo(p) = WriteSubscribe(p) \/ WriteTo(p) = WriteUnsubscribe(p)
    BY <2>1, WriteToIs
  <2>3. QED
    BY <1>3, <2>2, WriteSubscribeGood
<1>4. CASE p \in Disconnects
  <2>1. p.type = "DISCONNECT"
    BY <1>4 DEF Disconnects
  <2>2. QED
    BY <1>4, <2>1, WriteToIs, WriteDisconnectGood
<1>5. CASE p \in Connects
  <2>1. p.type = "CONNECT"
    BY <1>5 DEF Connects
  <2>2. QED
    BY <1>5, <2>1, WriteToIs, WriteConnectGood
<1>6. QED
  BY <1>1, <1>2, <1>3, <1>4, <1>5 DEF Packets

-----------------------------------------------------------------------------
(* The packets of the broker *)

LEMMA BrokerPublishGood ==
  ASSUME SizesFit, NEW f \in BrokerPublishes
  PROVE  Good(f)
<1>2. PICK l \in Lengths, topic \in {1} \cup Lengths, qos \in {0, 1},
           z \in Payloads, ids \in Some({1, 2, 35, 8, 9, 38, 11, 3}) :
        f = Announced("PUBLISH", l, topic, qos,
              <<Field(2 + topic)>> \o When(qos > 0, <<Field(2)>>)
                \o Props(ids, l) \o Rest(z))
  BY DEF BrokerPublishes
<1>3. ids \in SUBSET (PublishKnown \cup {1}) /\ Cardinality(ids) <= 18
  <2>1. {1, 2, 35, 8, 9, 38, 11, 3} = PublishKnown \cup {1}
    BY DEF PublishKnown
  <2>2. {1, 2, 35, 8, 9, 38, 11, 3} \in SUBSET Ids
    BY DEF Ids
  <2>3. /\ ids \in SUBSET {1, 2, 35, 8, 9, 38, 11, 3}
        /\ ids \in SUBSET Ids /\ Cardinality(ids) <= 17
    BY <2>2, SomeIs
  <2>4. Cardinality(ids) \in Nat
    BY <2>3, IdsAre
  <2>5. QED
    BY <2>1, <2>3, <2>4
<1>4. l \in Nat /\ l <= MaxString /\ topic \in Nat /\ topic <= MaxString
  BY LengthsAre
<1> DEFINE items == <<Field(2 + topic)>> \o When(qos > 0, <<Field(2)>>)
                      \o Section(PropertiesLen(ids, l), ids, l) \o Rest(z)
           rem == SizeSum(items)
<1>5. f = Frame("PUBLISH", l, topic, qos, rem, items)
  BY <1>2 DEF Announced, Props
<1>6. rem = SizeSum(f.items)
  <2> HIDE DEF items, rem
  <2>1. f.items = items
    BY <1>5, Built
  <2>2. QED
    BY <2>1 DEF rem
<1>7. f = Frame("PUBLISH", l, topic, qos, rem,
            <<Field(2 + topic)>> \o When(qos > 0, <<Field(2)>>)
              \o Section(PropertiesLen(ids, l), ids, l) \o Rest(z))
  BY <1>5
<1> HIDE DEF items, rem
<1>8. QED
  BY <1>3, <1>4, <1>6, <1>7, PublishGood

(* A broker's packet with properties *)
LEMMA BrokerGood ==
  ASSUME SizesFit, NEW l \in Lengths, NEW type \in Read \ {"PUBLISH"},
         NEW ids \in Some(Known(type)), NEW z \in 0..2,
         (z # 0) = (type \in {"SUBACK", "UNSUBACK"}), NEW f,
         f = Announced(type, l, 0, 0, Leading(type) \o Props(ids, l) \o Rest(z))
  PROVE  Good(f)
<1> DEFINE items == Leading(type) \o Section(PropertiesLen(ids, l), ids, l) \o Rest(z)
           rem == SizeSum(items)
<1>1. f = Frame(type, l, 0, 0, rem, items)
  BY DEF Announced, Props
<1>2. l \in Nat /\ l <= MaxString
  BY LengthsAre
<1>3. ids \in SUBSET Known(type) /\ Cardinality(ids) <= 18
  <2>1. Known(type) \in SUBSET Ids
    BY KnownAt, KnownIds DEF Read, Acks
  <2>2. ids \in SUBSET Known(type) /\ ids \in SUBSET Ids /\ Cardinality(ids) <= 17
    BY <2>1, SomeIs
  <2>3. Cardinality(ids) \in Nat
    BY <2>2, IdsAre
  <2>4. QED
    BY <2>2, <2>3
<1>4. rem = SizeSum(f.items)
  <2> HIDE DEF items, rem
  <2>1. f.items = items
    BY <1>1, Built
  <2>2. QED
    BY <2>1 DEF rem
<1>5. f = Frame(type, l, 0, 0, rem, Leading(type)
            \o Section(PropertiesLen(ids, l), ids, l) \o Rest(z))
  BY <1>1
<1>6. z \in Nat /\ z <= 2
  OBVIOUS
<1> HIDE DEF items, rem
<1>7. QED
  BY <1>2, <1>3, <1>4, <1>5, <1>6, LeadingGood

LEMMA BrokerEndsGood ==
  ASSUME SizesFit, NEW l \in Lengths,
         NEW type \in Read \ {"PUBLISH", "SUBACK", "UNSUBACK"},
         NEW ids \in Some(Known(type)), NEW f,
         f = Announced(type, l, 0, 0, Leading(type) \o Props(ids, l))
  PROVE  Good(f)
<1> DEFINE sec == Props(ids, l)
           t == Leading(type) \o sec
<1>1. l \in Nat /\ l <= MaxString
  BY LengthsAre
<1>2. ids \in SUBSET Ids /\ Cardinality(ids) <= 18
  <2>1. Known(type) \in SUBSET Ids
    BY KnownAt, KnownIds DEF Read, Acks
  <2>2. ids \in SUBSET Ids /\ Cardinality(ids) <= 17
    BY <2>1, SomeIs
  <2>3. Cardinality(ids) \in Nat
    BY <2>2, IdsAre
  <2>4. QED
    BY <2>2, <2>3
<1>3. sec \in Seq(AnyItem)
  <2>1. \A id \in ids : [i \in ids |-> i][id] \in Nat
    BY <1>2, IdsAre
  <2>2. QED
    BY <1>1, <1>2, <2>1, PropertiesFit, SectionTyped DEF Section, Props
<1>4. Leading(type) \in Seq(AnyItem)
  <2>1. [type |-> type].type = type
    OBVIOUS
  <2>2. QED
    BY <2>1, LeadingIs
<1> HIDE DEF sec
<1>5. t \in Seq(AnyItem)
  BY <1>3, <1>4, ConcatProperties
<1>6. t = Leading(type) \o sec /\ f = Announced(type, l, 0, 0, t)
  BY DEF sec
<1> HIDE DEF t
<1>7. t \o Rest(0) = t
  BY <1>5, WithNothing
<1>8. f = Announced(type, l, 0, 0, Leading(type) \o Props(ids, l) \o Rest(0))
  BY <1>6, <1>7 DEF sec
<1>9. 0 \in 0..2 /\ (0 # 0) = (type \in {"SUBACK", "UNSUBACK"})
  OBVIOUS
<1>10. QED
  BY <1>8, <1>9, BrokerGood

LEMMA BrokerAckGood ==
  ASSUME SizesFit, NEW f \in BrokerAcks
  PROVE  Good(f)
<1>1. CASE f \in {Announced(type, 1, 0, 0, <<Field(2)>>) : type \in Acks}
  BY <1>1, ShortAckGood
<1>2. CASE f \in {Announced(type, 1, 0, 0, <<Field(2), Field(1)>>) : type \in Acks}
  BY <1>2, ShortAckGood
<1>3. CASE f \in {Announced(type, l, 0, 0, <<Field(2), Field(1)>> \o Props(ids, l)) :
                    type \in Acks, l \in Lengths, ids \in Some({31, 38})}
  <2>1. PICK type \in Acks, l \in Lengths, ids \in Some({31, 38}) :
          f = Announced(type, l, 0, 0, <<Field(2), Field(1)>> \o Props(ids, l))
    BY <1>3
  <2>2. /\ type \in Read \ {"PUBLISH", "SUBACK", "UNSUBACK"}
        /\ Leading(type) = <<Field(2), Field(1)>>
    BY DEF Read, Acks, Leading
  <2>3. Known(type) = {31, 38}
    BY KnownAt
  <2>4. QED
    BY <2>1, <2>2, <2>3, BrokerEndsGood
<1>4. CASE f \in {Announced(type, l, 0, 0,
                            <<Field(2)>> \o Props(ids, l) \o Rest(size)) :
                    type \in {"SUBACK", "UNSUBACK"}, l \in Lengths, size \in 1..2,
                    ids \in Some({31, 38})}
  <2>1. PICK type \in {"SUBACK", "UNSUBACK"}, l \in Lengths, z \in 1..2,
             ids \in Some({31, 38}) :
          f = Announced(type, l, 0, 0, <<Field(2)>> \o Props(ids, l) \o Rest(z))
    BY <1>4
  <2>2. type \in Read \ {"PUBLISH"} /\ Leading(type) = <<Field(2)>>
    BY DEF Read, Acks, Leading
  <2>3. Known(type) = {31, 38}
    BY KnownAt
  <2>4. z \in 0..2 /\ (z # 0) = (type \in {"SUBACK", "UNSUBACK"})
    OBVIOUS
  <2>5. QED
    BY <2>1, <2>2, <2>3, <2>4, BrokerGood
<1>5. QED
  BY <1>1, <1>2, <1>3, <1>4 DEF BrokerAcks

LEMMA BrokerSessionGood ==
  ASSUME SizesFit, NEW f \in BrokerSessions
  PROVE  Good(f)
<1> DEFINE C == {Announced("CONNACK", l, 0, 0, <<Field(1), Field(1)>> \o Props(ids, l)) :
                   l \in Lengths, ids \in Some(ConnackKnown)}
           D == {Announced("DISCONNECT", l, 0, 0, <<Field(1)>> \o Props(ids, l)) :
                   l \in Lengths, ids \in Some({31, 38, 28})}
           A == {Announced("AUTH", l, 0, 0, <<Field(1)>> \o Props(ids, l)) :
                   l \in Lengths, ids \in Some(AuthKnown)}
           S == {Announced(type, 1, 0, 0, <<Field(1)>>) :
                   type \in {"DISCONNECT", "AUTH"}}
           E == {Announced(type, 1, 0, 0, <<>>) :
                   type \in {"PINGRESP", "DISCONNECT", "AUTH"}}
<1>1. f \in C \/ f \in D \/ f \in A \/ f \in S \/ f \in E
  <2>2. BrokerSessions = C \cup D \cup A \cup S \cup E
    BY DEF BrokerSessions, ConnackKnown, AuthKnown
  <2> HIDE DEF C, D, A, S, E
  <2>3. QED
    BY <2>2
<1>2. CASE f \in C
  <2>1. PICK l \in Lengths, ids \in Some(ConnackKnown) :
          f = Announced("CONNACK", l, 0, 0, <<Field(1), Field(1)>> \o Props(ids, l))
    BY <1>2
  <2>2. /\ "CONNACK" \in Read \ {"PUBLISH", "SUBACK", "UNSUBACK"}
        /\ Leading("CONNACK") = <<Field(1), Field(1)>>
    BY DEF Read, Acks, Leading
  <2>3. Known("CONNACK") = ConnackKnown
    BY KnownAt
  <2>4. QED
    BY <2>1, <2>2, <2>3, BrokerEndsGood
<1>3. CASE f \in D
  <2>1. PICK l \in Lengths, ids \in Some({31, 38, 28}) :
          f = Announced("DISCONNECT", l, 0, 0, <<Field(1)>> \o Props(ids, l))
    BY <1>3
  <2>2. /\ "DISCONNECT" \in Read \ {"PUBLISH", "SUBACK", "UNSUBACK"}
        /\ Leading("DISCONNECT") = <<Field(1)>>
    BY DEF Read, Acks, Leading
  <2>3. ids \in Some(Known("DISCONNECT"))
    <3>1. Known("DISCONNECT") = DisconnectKnown
      BY KnownAt
    <3>2. PICK k \in 0..MaxOptional : ids \in kSubset(k, {31, 38, 28})
      BY DEF Some
    <3>3. ids \in kSubset(k, DisconnectKnown)
      BY <3>2 DEF kSubset, DisconnectKnown
    <3>4. QED
      BY <3>1, <3>3 DEF Some
  <2>4. QED
    BY <2>1, <2>2, <2>3, BrokerEndsGood
<1>4. CASE f \in A
  <2>1. PICK l \in Lengths, ids \in Some(AuthKnown) :
          f = Announced("AUTH", l, 0, 0, <<Field(1)>> \o Props(ids, l))
    BY <1>4
  <2>2. /\ "AUTH" \in Read \ {"PUBLISH", "SUBACK", "UNSUBACK"}
        /\ Leading("AUTH") = <<Field(1)>>
    BY DEF Read, Acks, Leading
  <2>3. Known("AUTH") = AuthKnown
    BY KnownAt
  <2>4. QED
    BY <2>1, <2>2, <2>3, BrokerEndsGood
<1>5. CASE f \in S
  BY <1>5, ShortSessionGood
<1>6. CASE f \in E
  <2>1. PICK type \in {"PINGRESP", "DISCONNECT", "AUTH"} :
          f = Announced(type, 1, 0, 0, <<>>)
    BY <1>6
  <2>2. f.type = type /\ f.remaining = 0 /\ f.items = <<>>
    BY <2>1, Built, SizeSumNone DEF Announced
  <2>3. QED
    BY <2>2, EmptyGood
<1>7. QED
  BY <1>1, <1>2, <1>3, <1>4, <1>5, <1>6

LEMMA BrokerFramesGood ==
  ASSUME SizesFit, NEW f \in BrokerFrames
  PROVE  Good(f)
BY BrokerPublishGood, BrokerAckGood, BrokerSessionGood DEF BrokerFrames

-----------------------------------------------------------------------------
(* Reading *)

(* Half of the invariant: the frame is one that the readers take, and n    *)
(* and left count what is before and after the item that is read next.     *)
Stages == {"idle", "type", "length", "fields", "properties", "done", "error"}

Position(a, b) ==
  /\ Readable(frame, a, b)
  /\ remaining = frame.remaining
  /\ at \in Nat /\ at >= 1 /\ n = Before(frame.items, at)
  /\ \/ stage = "fields" /\ at <= a /\ fld = at
     \/ /\ stage = "properties" /\ a <= Len(frame.items)
        /\ a < at /\ at <= b + 1
        /\ left = Before(frame.items, b + 1) - Before(frame.items, at)

Reading ==
  /\ Good(frame) /\ ~ Unreadable(frame)
  /\ stage \in Stages
  /\ stage \in {"type", "length"} => at = 1 /\ fld = 1 /\ n = 0
  /\ stage = "length" => frame.type \notin Unread
  /\ stage \in {"fields", "properties"} => \E a, b \in Nat : Position(a, b)

LEMMA BeforeOrder ==
  ASSUME NEW s \in Seq(AnyItem), NEW j \in 1..Len(s) + 1, NEW k \in 1..Len(s) + 1
  PROVE  /\ Before(s, j) \in Nat /\ Before(s, k) \in Nat
         /\ Before(s, j) >= Before(s, k) => j >= k
<1>1. Len(s) \in Nat
  BY SizesAt
<1>2. CASE j <= k
  <2>1. /\ Before(s, j) \in Nat /\ Before(s, k) \in Nat
        /\ j < k => Before(s, j) < Before(s, k)
    BY <1>2, BeforeBetween
  <2>2. QED
    BY <1>1, <1>2, <2>1
<1>3. CASE k <= j
  <2>1. /\ Before(s, j) \in Nat /\ Before(s, k) \in Nat
    BY <1>3, BeforeBetween
  <2>2. QED
    BY <1>1, <1>3, <2>1
<1>4. QED
  BY <1>1, <1>2, <1>3

LEMMA ReadableFacts ==
  ASSUME NEW f, NEW a, NEW b, Readable(f, a, b)
  PROVE  /\ f.items \in Seq(AnyItem) /\ Len(f.items) \in Nat
         /\ f.remaining \in Nat /\ f.remaining <= MaxVarInt
         /\ f.remaining = Before(f.items, Len(f.items) + 1)
         /\ Before(f.items, 1) = 0
         /\ a \in Nat /\ a >= 2 /\ a <= Len(f.items) + 1
         /\ Len(Fields(f)) \in Nat /\ a <= Len(Fields(f)) + 1
         /\ f.type \in Read
<1>1. /\ f.items \in Seq(AnyItem) /\ f.remaining = SizeSum(f.items)
      /\ f.remaining <= MaxVarInt
      /\ a \in Nat /\ a >= 2 /\ a <= Len(f.items) + 1
      /\ Len(Fields(f)) \in Nat /\ a <= Len(Fields(f)) + 1
      /\ f.type \in Read
  BY DEF Readable
<1>2. QED
  BY <1>1, BeforeEnds, SizeSumIs, SizesAt

LEMMA ReadableSection ==
  ASSUME NEW f, NEW a, NEW b, Readable(f, a, b), a <= Len(f.items)
  PROVE  /\ a = Len(Fields(f)) + 1
         /\ b \in Nat /\ a <= b /\ b <= Len(f.items)
         /\ f.items[a].class = "length"
         /\ f.items[a].value \in Nat /\ f.items[a].value <= MaxVarInt
         /\ f.items[a].value = Before(f.items, b + 1) - Before(f.items, a + 1)
         /\ \A k \in a + 1..b :
              /\ f.items[k].class = "property"
              /\ f.items[k].id \in Known(f.type)
              /\ f.items[k].size = 1 + ReadSize(f.items[k].id, f.len)
         /\ \/ b = Len(f.items) /\ f.type \notin {"SUBACK", "UNSUBACK"}
            \/ /\ b + 1 = Len(f.items) /\ f.type \in Trailing
               /\ f.items[b + 1].class = "payload"
<1> DEFINE s == f.items
<1>1. s \in Seq(AnyItem) /\ Len(s) \in Nat /\ a \in Nat
  BY ReadableFacts
<1>2. a # Len(s) + 1
  BY <1>1
<1>3. /\ a = Len(Fields(f)) + 1 /\ Sectioned(s, a, b)
      /\ \A k \in a + 1..b :
           /\ s[k].id \in Known(f.type)
           /\ s[k].size = 1 + ReadSize(s[k].id, f.len)
      /\ \/ b = Len(s) /\ f.type \notin {"SUBACK", "UNSUBACK"}
         \/ /\ b + 1 = Len(s) /\ f.type \in Trailing
            /\ s[b + 1].class = "payload"
  BY <1>2 DEF Readable
<1>4. /\ a \in 1..Len(s) /\ b \in a..Len(s)
      /\ s[a].class = "length" /\ s[a].value <= MaxVarInt
      /\ s[a].value = Before(s, b + 1) - Before(s, a + 1)
      /\ \A k \in a + 1..b : s[k].class = "property"
  BY <1>3 DEF Sectioned
<1>5. s[a] \in AnyItem
  BY <1>1, <1>4, SizesAt
<1>6. s[a].value \in Nat
  BY <1>5 DEF AnyItem
<1> HIDE DEF s
<1>7. b \in Nat /\ a <= b /\ b <= Len(s)
  BY <1>1, <1>4
<1>8. QED
  BY <1>3, <1>4, <1>6, <1>7 DEF s

LEMMA ReaderInit ==
  Init => Reading
<1>1. Good(Nothing) /\ ~ Unreadable(Nothing)
  BY NothingGood
<1>2. QED
  BY <1>1 DEF Init, Reading, Stages

LEMMA StartKeeps ==
  ASSUME NEW f, Good(f), ~ Unreadable(f), Start(f)
  PROVE  Reading'
BY DEF Start, Reading, Stages

LEMMA ReadTypeKeeps ==
  ASSUME Reading, ReadType
  PROVE  Reading'
BY DEF Reading, ReadType, Stages, Unread

LEMMA TimeoutKeeps ==
  ASSUME WholeReads, Reading, Timeout
  PROVE  Reading'
<1>1. /\ stage \in {"idle", "type"}
      /\ UNCHANGED <<stage, frame, at, fld, remaining, n, left>>
  BY DEF Timeout, WholeReads, Reading, Stages
<1>2. QED
  BY <1>1 DEF Reading, Stages

LEMMA FailKeeps ==
  ASSUME Reading, Fail
  PROVE  Reading'
BY DEF Reading, Fail, Stages

LEMMA AgainKeeps ==
  ASSUME Again
  PROVE  Reading'
<1>1. Good(Nothing) /\ ~ Unreadable(Nothing)
  BY NothingGood
<1>2. QED
  BY <1>1 DEF Again, Reading, Stages

(* The remaining length is read back; a PINGRESP ends with it. *)
LEMMA ReadLengthKeeps ==
  ASSUME Reading, ReadLength
  PROVE  Reading'
<1>1. /\ Good(frame) /\ stage = "length" /\ frame.type \notin Unread
      /\ ~ Unreadable(frame)
      /\ at = 1 /\ fld = 1 /\ n = 0 /\ frame' = frame
      /\ remaining' = ReadVarInt(WriteVarInt[frame.remaining])
      /\ stage' = IF frame.type = "PINGRESP" THEN Returns(at) ELSE "fields"
      /\ at' = at /\ fld' = fld /\ n' = n /\ left' = left
  BY DEF Reading, ReadLength
<1>2. CASE frame.type = "PINGRESP" /\ frame.items = <<>> /\ frame.remaining = 0
  <2>1. stage' = "done"
    BY <1>1, <1>2, SizeSumNone DEF Returns
  <2>2. QED
    BY <1>1, <2>1 DEF Reading, Stages
<1>3. CASE \E a, b \in Nat : Readable(frame, a, b)
  <2>1. PICK a \in Nat, b \in Nat : Readable(frame, a, b)
    BY <1>3
  <2>2. /\ frame.remaining \in Nat /\ frame.remaining <= MaxVarInt
        /\ Before(frame.items, 1) = 0 /\ a >= 2 /\ frame.type \in Read
    BY <2>1, ReadableFacts
  <2>3. remaining' = frame.remaining
    BY <1>1, <2>2, ReadBack
  <2>4. stage' = "fields"
    BY <1>1, <2>2 DEF Read, Acks
  <2>5. Position(a, b)'
    BY <1>1, <2>1, <2>2, <2>3, <2>4 DEF Position
  <2>6. QED
    BY <1>1, <2>4, <2>5 DEF Reading, Stages
<1>4. QED
  BY <1>1, <1>2, <1>3 DEF Good

(* Where the reader of the fields stands *)
LEMMA InFields ==
  ASSUME Reading, stage = "fields", NEW a \in Nat, NEW b \in Nat,
         Position(a, b)
  PROVE  /\ Readable(frame, a, b) /\ remaining = frame.remaining
         /\ at \in Nat /\ at >= 1 /\ at <= a /\ fld = at
         /\ n = Before(frame.items, at) /\ n \in Nat /\ remaining \in Nat
         /\ n >= remaining => at = Len(frame.items) + 1
         /\ GoesOn /\ at = a => a <= Len(frame.items)
<1>1. /\ Readable(frame, a, b) /\ remaining = frame.remaining
      /\ at \in Nat /\ at >= 1 /\ at <= a /\ fld = at
      /\ n = Before(frame.items, at)
  BY DEF Position
<1>2. /\ frame.items \in Seq(AnyItem) /\ Len(frame.items) \in Nat
      /\ remaining = Before(frame.items, Len(frame.items) + 1)
      /\ remaining \in Nat /\ a >= 2 /\ a <= Len(frame.items) + 1
  BY <1>1, ReadableFacts
<1>3. at \in 1..Len(frame.items) + 1 /\ Len(frame.items) + 1 \in 1..Len(frame.items) + 1
  BY <1>1, <1>2
<1>4. /\ Before(frame.items, at) \in Nat
      /\ Before(frame.items, at) >= Before(frame.items, Len(frame.items) + 1)
           => at >= Len(frame.items) + 1
  BY <1>2, <1>3, BeforeOrder
<1>5. n \in Nat /\ (n >= remaining => at = Len(frame.items) + 1)
  BY <1>1, <1>2, <1>3, <1>4
<1>6. ASSUME GoesOn, at = a PROVE a <= Len(frame.items)
  <2>1. SUFFICES ASSUME a = Len(frame.items) + 1 PROVE FALSE
    BY <1>2
  <2>2. n = remaining
    BY <1>1, <1>2, <1>6, <2>1
  <2>3. frame.type = "PUBLISH"
    BY <1>1, <1>2, <1>5, <1>6, <2>2 DEF GoesOn
  <2>4. frame.type \notin Brief
    BY <2>3 DEF Brief, Acks
  <2>5. Sectioned(frame.items, a, b)
    BY <1>1, <2>4 DEF Readable
  <2>6. a <= Len(frame.items)
    BY <1>2, <2>5 DEF Sectioned
  <2>7. QED
    BY <1>2, <2>1, <2>6
<1>7. QED
  BY <1>1, <1>2, <1>5, <1>6

LEMMA ReadFieldKeeps ==
  ASSUME WholeReads, Reading, ReadField
  PROVE  Reading'
<1>1. /\ stage = "fields" /\ GoesOn /\ fld <= Len(Fields(frame))
      /\ stage' \in After(Here({"field", "length"}, Fields(frame)[fld]),
                          frame.type = "PUBLISH" /\ fld = 1, "fields")
      /\ n' = n + Fields(frame)[fld]
      /\ at' = at + 1 /\ fld' = fld + 1
      /\ frame' = frame /\ remaining' = remaining /\ left' = left
  BY DEF ReadField
<1>2. PICK a \in Nat, b \in Nat : Position(a, b)
  BY <1>1 DEF Reading
<1>3. /\ Readable(frame, a, b) /\ remaining = frame.remaining
      /\ at \in Nat /\ at >= 1 /\ at <= a /\ fld = at
      /\ n = Before(frame.items, at)
      /\ GoesOn /\ at = a => a <= Len(frame.items)
  BY <1>1, <1>2, InFields
<1>4. /\ frame.items \in Seq(AnyItem) /\ Len(frame.items) \in Nat
      /\ a <= Len(frame.items) + 1 /\ Len(Fields(frame)) \in Nat
  BY <1>3, ReadableFacts
<1>5. at # a
  <2>1. SUFFICES ASSUME at = a PROVE FALSE
    OBVIOUS
  <2>2. a = Len(Fields(frame)) + 1
    BY <1>1, <1>3, <2>1, ReadableSection
  <2>3. QED
    BY <1>1, <1>3, <1>4, <2>1, <2>2
<1>6. at \in 1..a - 1 /\ at \in 1..Len(frame.items) /\ at + 1 <= a
  BY <1>3, <1>4, <1>5
<1>7. /\ frame.items[at].class \in {"field", "length"}
      /\ frame.items[at].size = Fields(frame)[at]
  BY <1>3, <1>6 DEF Readable
<1>8. Here({"field", "length"}, Fields(frame)[fld])
  BY <1>3, <1>6, <1>7 DEF Here, Item
<1>9. stage' = "fields"
  BY <1>1, <1>8 DEF After, WholeReads
<1>10. n' = Before(frame.items, at + 1)
  <2>1. Before(frame.items, at + 1) = Before(frame.items, at) + frame.items[at].size
    BY <1>4, <1>6, BeforeStep
  <2>2. QED
    BY <1>1, <1>3, <1>7, <2>1
<1>11. Position(a, b)'
  BY <1>1, <1>3, <1>6, <1>9, <1>10 DEF Position
<1>12. QED
  BY <1>1, <1>9, <1>11 DEF Reading, Stages

LEMMA ReturnEarlyKeeps ==
  ASSUME Reading, ReturnEarly
  PROVE  Reading'
<1>1. /\ stage = "fields" /\ ~ GoesOn /\ stage' = Returns(at)
      /\ frame' = frame
  BY DEF ReturnEarly
<1>2. PICK a \in Nat, b \in Nat : Position(a, b)
  BY <1>1 DEF Reading
<1>3. /\ Readable(frame, a, b) /\ at \in Nat /\ n \in Nat /\ remaining \in Nat
      /\ n >= remaining => at = Len(frame.items) + 1
  BY <1>1, <1>2, InFields
<1>4. Len(frame.items) \in Nat
  BY <1>3, ReadableFacts
<1>5. n >= remaining
  BY <1>1, <1>3 DEF GoesOn
<1>6. stage' = "done"
  BY <1>1, <1>3, <1>4, <1>5 DEF Returns
<1>7. QED
  BY <1>1, <1>6 DEF Reading, Stages

LEMMA ReadPropertiesLenKeeps ==
  ASSUME Reading, ReadPropertiesLen
  PROVE  Reading'
<1>1. /\ stage = "fields" /\ GoesOn /\ fld > Len(Fields(frame))
      /\ at' = at + 1 /\ frame' = frame /\ fld' = fld /\ remaining' = remaining
  BY DEF ReadPropertiesLen
<1>2. PICK a \in Nat, b \in Nat : Position(a, b)
  BY <1>1 DEF Reading
<1>3. /\ Readable(frame, a, b) /\ remaining = frame.remaining
      /\ at \in Nat /\ at >= 1 /\ at <= a /\ fld = at
      /\ n = Before(frame.items, at)
      /\ GoesOn /\ at = a => a <= Len(frame.items)
  BY <1>1, <1>2, InFields
<1> DEFINE s == frame.items
<1>4. /\ s \in Seq(AnyItem) /\ Len(s) \in Nat
      /\ a \in Nat /\ Len(Fields(frame)) \in Nat /\ a <= Len(Fields(frame)) + 1
      /\ remaining = Before(s, Len(s) + 1)
  BY <1>3, ReadableFacts
<1>5. at = a /\ a <= Len(s)
  BY <1>1, <1>3, <1>4
<1>6. /\ b \in Nat /\ a <= b /\ b <= Len(s) /\ s[a].class = "length"
      /\ s[a].value \in Nat /\ s[a].value <= MaxVarInt
      /\ s[a].value = Before(s, b + 1) - Before(s, a + 1)
  BY <1>3, <1>5, ReadableSection
<1>7. /\ n' = n + s[a].size
      /\ left' = ReadVarInt(WriteVarInt[s[a].value])
      /\ stage' = IF n' >= remaining /\ TestsAgain(frame.type)
                  THEN Returns(at + 1) ELSE "properties"
  BY <1>5, <1>6 DEF ReadPropertiesLen, Item
<1>8. n' = Before(s, a + 1)
  <2>1. a \in 1..Len(s)
    BY <1>3, <1>4, <1>5
  <2>2. Before(s, a + 1) = Before(s, a) + s[a].size
    BY <1>4, <2>1, BeforeStep
  <2>3. QED
    BY <1>3, <1>5, <1>7, <2>2
<1>9. left' = Before(s, b + 1) - Before(s, a + 1)
  BY <1>6, <1>7, ReadBack
<1>10. CASE n' >= remaining /\ TestsAgain(frame.type)
  <2>1. a + 1 \in 1..Len(s) + 1 /\ Len(s) + 1 \in 1..Len(s) + 1
    BY <1>3, <1>4, <1>5
  <2>2. a + 1 >= Len(s) + 1
    BY <1>4, <1>8, <1>10, <2>1, BeforeOrder
  <2>3. stage' = "done"
    BY <1>4, <1>5, <1>7, <1>10, <2>2 DEF Returns
  <2>4. QED
    BY <1>1, <2>3 DEF Reading, Stages
<1>11. CASE ~ (n' >= remaining /\ TestsAgain(frame.type))
  <2>1. stage' = "properties"
    BY <1>7, <1>11
  <2>2. at' = a + 1 /\ at' \in Nat /\ at' >= 1 /\ a < at' /\ at' <= b + 1
    BY <1>1, <1>4, <1>5, <1>6
  <2>3. Position(a, b)'
    BY <1>1, <1>3, <1>5, <1>8, <1>9, <2>1, <2>2 DEF Position
  <2>4. QED
    BY <1>1, <2>1, <2>3 DEF Reading, Stages
<1>12. QED
  BY <1>10, <1>11

(* Where the loop over the properties stands *)
LEMMA InProperties ==
  ASSUME Reading, stage = "properties", NEW a \in Nat, NEW b \in Nat,
         Position(a, b)
  PROVE  /\ Readable(frame, a, b) /\ remaining = frame.remaining
         /\ at \in Nat /\ a <= Len(frame.items) /\ a < at /\ at <= b + 1
         /\ at \in 1..Len(frame.items) + 1
         /\ n = Before(frame.items, at) /\ n \in Nat /\ remaining \in Nat
         /\ left = Before(frame.items, b + 1) - n
         /\ left \in Int
         /\ left <= 0 => at = b + 1
         /\ left > 0 => at \in a + 1..b
         /\ n >= remaining => at = Len(frame.items) + 1
<1> DEFINE s == frame.items
<1>1. /\ Readable(frame, a, b) /\ remaining = frame.remaining
      /\ at \in Nat /\ at >= 1 /\ a <= Len(s) /\ a < at /\ at <= b + 1
      /\ n = Before(s, at) /\ left = Before(s, b + 1) - Before(s, at)
  BY DEF Position
<1>2. /\ s \in Seq(AnyItem) /\ Len(s) \in Nat /\ remaining \in Nat
      /\ remaining = Before(s, Len(s) + 1)
  BY <1>1, ReadableFacts
<1>3. b <= Len(s)
  BY <1>1, ReadableSection
<1> HIDE DEF s
<1>4. /\ at \in 1..Len(s) + 1 /\ b + 1 \in 1..Len(s) + 1
      /\ Len(s) + 1 \in 1..Len(s) + 1
  BY <1>1, <1>2, <1>3
<1>5. /\ Before(s, at) \in Nat /\ Before(s, b + 1) \in Nat
      /\ Before(s, at) >= Before(s, b + 1) => at >= b + 1
      /\ Before(s, at) >= Before(s, Len(s) + 1) => at >= Len(s) + 1
  BY <1>2, <1>4, BeforeOrder
<1>6. left <= 0 => at = b + 1
  BY <1>1, <1>5
<1>7. left > 0 => at \in a + 1..b
  <2>1. SUFFICES ASSUME left > 0 PROVE at # b + 1
    BY <1>1
  <2>2. QED
    BY <1>1, <1>5, <2>1
<1>8. n >= remaining => at = Len(s) + 1
  BY <1>1, <1>2, <1>4, <1>5
<1>9. n \in Nat /\ left \in Int /\ left = Before(s, b + 1) - n
  BY <1>1, <1>5
<1>10. QED
  BY <1>1, <1>2, <1>4, <1>6, <1>7, <1>8, <1>9 DEF s

LEMMA ReadableProperty ==
  ASSUME NEW f, NEW a, NEW b, Readable(f, a, b), a <= Len(f.items),
         NEW k \in a + 1..b
  PROVE  /\ f.items[k].class = "property"
         /\ f.items[k].id \in Known(f.type)
         /\ f.items[k].size = 1 + ReadSize(f.items[k].id, f.len)
BY ReadableSection

LEMMA ReadPropertyKeeps ==
  ASSUME WholeReads, Reading, ReadProperty
  PROVE  Reading'
<1> DEFINE s == frame.items
           size == 1 + ReadSize(s[at].id, frame.len)
<1>1. /\ stage = "properties" /\ left > 0
      /\ at' = at + 1 /\ frame' = frame /\ fld' = fld /\ remaining' = remaining
  BY DEF ReadProperty
<1>2. PICK a \in Nat, b \in Nat : Position(a, b)
  BY <1>1 DEF Reading
<1>3. /\ Readable(frame, a, b) /\ remaining = frame.remaining
      /\ at \in Nat /\ a <= Len(s) /\ at \in a + 1..b
      /\ n = Before(s, at) /\ n \in Nat /\ left = Before(s, b + 1) - n
      /\ left \in Int
  BY <1>1, <1>2, InProperties
<1>4. b <= Len(s)
  BY <1>3, ReadableSection
<1>5. /\ s[at].class = "property" /\ s[at].id \in Known(frame.type)
      /\ s[at].size = size
  BY <1>3, ReadableProperty
<1>6. s \in Seq(AnyItem) /\ Len(s) \in Nat
  BY <1>3, ReadableFacts
<1>7. at <= Len(s) /\ at \in 1..Len(s)
  BY <1>3, <1>4, <1>6
<1>8. /\ n' = n + size /\ left' = left - size
      /\ stage' \in After(Here({"property"}, size),
                          Kind(s[at].id) \in {"string", "pair"}, "properties")
  BY <1>5, <1>7 DEF ReadProperty, Item
<1>9. Here({"property"}, size)
  BY <1>5, <1>7 DEF Here, Item
<1>10. stage' = "properties"
  BY <1>8, <1>9 DEF After, WholeReads
<1>11. n' = Before(s, at + 1) /\ left' = Before(s, b + 1) - Before(s, at + 1)
  <2>1. Before(s, at + 1) = Before(s, at) + s[at].size
    BY <1>6, <1>7, BeforeStep
  <2>2. s[at] \in AnyItem
    BY <1>6, <1>7, SizesAt
  <2>3. s[at].size \in Nat
    BY <2>2 DEF AnyItem
  <2>4. b + 1 \in 1..Len(s) + 1
    BY <1>4, <1>6
  <2>5. Before(s, b + 1) \in Nat
    BY <1>6, <2>4, BeforeOrder
  <2> HIDE DEF s, size
  <2>6. PICK x1 \in Nat, x2 \in Nat, x3 \in Nat :
          x1 = n /\ x2 = s[at].size /\ x3 = Before(s, b + 1)
    BY <1>3, <2>3, <2>5
  <2>7. n' = x1 + x2 /\ left' = (x3 - x1) - x2 /\ Before(s, at + 1) = x1 + x2
    BY Zenon, <1>3, <1>5, <1>8, <2>1, <2>6
  <2>8. QED
    BY <2>6, <2>7
<1>12. at' \in Nat /\ at' >= 1 /\ a < at' /\ at' <= b + 1
  BY <1>1, <1>3
<1>13. Position(a, b)'
  BY <1>1, <1>3, <1>10, <1>11, <1>12 DEF Position
<1>14. QED
  BY <1>1, <1>10, <1>13 DEF Reading, Stages

(* The three ways that ReadPayload goes on *)
LEMMA PayloadEnds ==
  ASSUME ReadPayload
  PROVE  /\ stage = "properties" /\ left <= 0 /\ frame' = frame
         /\ \/ /\ frame.type = "PUBLISH" /\ remaining > n
               /\ stage' \in After(Here({"payload"}, remaining - n), TRUE,
                                   Returns(at + 1))
            \/ /\ frame.type \in {"SUBACK", "UNSUBACK"}
               /\ stage' = IF n < remaining /\ Here({"payload"}, remaining - n)
                           THEN Returns(at + 1) ELSE "error"
            \/ /\ ~ (frame.type = "PUBLISH" /\ remaining > n)
               /\ frame.type \notin {"SUBACK", "UNSUBACK"}
               /\ stage' = Returns(at)
<1> DEFINE P == frame.type = "PUBLISH" /\ remaining > n
           Q == frame.type \in {"SUBACK", "UNSUBACK"}
           A == /\ stage' \in After(Here({"payload"}, remaining - n), TRUE,
                                    Returns(at + 1))
                /\ at' = at + 1
           B == /\ stage' = IF n < remaining /\ Here({"payload"}, remaining - n)
                            THEN Returns(at + 1) ELSE "error"
                /\ at' = at + 1
           C == stage' = Returns(at) /\ at' = at
<1>1. /\ stage = "properties" /\ left <= 0 /\ frame' = frame
      /\ (CASE P -> A [] Q -> B [] OTHER -> C)
  BY Zenon DEF ReadPayload
<1>2. (P /\ A) \/ (Q /\ B) \/ (~ P /\ ~ Q /\ C)
  <2>1. (CASE P -> A [] Q -> B [] OTHER -> C)
    BY <1>1
  <2>2. ~ (P /\ Q)
    OBVIOUS
  <2> HIDE DEF P, Q, A, B, C
  <2>3. CASE P
    BY Zenon, <2>1, <2>2, <2>3
  <2>4. CASE Q
    BY Zenon, <2>1, <2>2, <2>4
  <2>5. CASE ~ P /\ ~ Q
    BY Zenon, <2>1, <2>5
  <2>6. QED
    BY <2>3, <2>4, <2>5
<1>3. QED
  BY Zenon, <1>1, <1>2

LEMMA ReadPayloadKeeps ==
  ASSUME WholeReads, Reading, ReadPayload
  PROVE  Reading'
<1> DEFINE s == frame.items
           P == frame.type = "PUBLISH" /\ remaining > n
           Q == frame.type \in {"SUBACK", "UNSUBACK"}
           A == stage' \in After(Here({"payload"}, remaining - n), TRUE,
                                 Returns(at + 1))
           B == stage' = IF n < remaining /\ Here({"payload"}, remaining - n)
                         THEN Returns(at + 1) ELSE "error"
           C == stage' = Returns(at)
<1>1. stage = "properties" /\ left <= 0 /\ frame' = frame
  BY PayloadEnds
<1>2. (P /\ A) \/ (Q /\ B) \/ (~ P /\ ~ Q /\ C)
  BY PayloadEnds
<1>3. PICK a \in Nat, b \in Nat : Position(a, b)
  BY <1>1 DEF Reading
<1>4. /\ Readable(frame, a, b) /\ remaining = frame.remaining
      /\ at \in Nat /\ a <= Len(s) /\ at = b + 1
      /\ n = Before(s, at) /\ n \in Nat /\ remaining \in Nat
      /\ n >= remaining => at = Len(s) + 1
  BY <1>1, <1>3, InProperties
<1>5. /\ s \in Seq(AnyItem) /\ Len(s) \in Nat
      /\ remaining = Before(s, Len(s) + 1)
  BY <1>4, ReadableFacts
<1>6. \/ b = Len(s) /\ frame.type \notin {"SUBACK", "UNSUBACK"}
      \/ b + 1 = Len(s) /\ frame.type \in Trailing /\ s[b + 1].class = "payload"
  BY <1>4, ReadableSection
<1>7. ASSUME b + 1 = Len(s), s[b + 1].class = "payload"
      PROVE  Here({"payload"}, remaining - n) /\ n < remaining
  <2>1. at \in 1..Len(s) /\ at = Len(s)
    BY <1>4, <1>5, <1>7
  <2>2. Before(s, at + 1) = Before(s, at) + s[at].size
    BY <1>5, <2>1, BeforeStep
  <2>3. s[at] \in AnyItem
    BY <1>5, <2>1, SizesAt
  <2>4. s[at].size \in Nat /\ s[at].size > 0
    BY <2>3 DEF AnyItem
  <2>5. remaining = n + s[at].size
    BY <1>4, <1>5, <2>1, <2>2
  <2>6. s[at].size = remaining - n /\ n < remaining
    BY <1>4, <2>4, <2>5
  <2>7. QED
    BY <1>4, <1>7, <2>1, <2>6 DEF Here, Item
<1>8. Returns(Len(s) + 1) = "done"
  BY <1>5 DEF Returns
<1>9. stage' = "done"
  <2>1. CASE P /\ A
    <3>1. b # Len(s)
      BY <1>4, <1>5, <2>1
    <3>2. b + 1 = Len(s) /\ s[b + 1].class = "payload"
      BY <1>6, <3>1
    <3>3. stage' \in {Returns(at + 1)}
      BY <1>7, <2>1, <3>2 DEF After, WholeReads
    <3>4. QED
      BY <1>4, <1>8, <3>2, <3>3
  <2>2. CASE Q /\ B
    <3>1. b + 1 = Len(s) /\ s[b + 1].class = "payload"
      BY <1>6, <2>2
    <3>2. stage' = Returns(at + 1)
      BY <1>7, <2>2, <3>1
    <3>3. QED
      BY <1>4, <1>8, <3>1, <3>2
  <2>3. CASE ~ P /\ ~ Q /\ C
    <3>1. b = Len(s)
      <4>1. SUFFICES ASSUME b # Len(s) PROVE FALSE
        OBVIOUS
      <4>2. b + 1 = Len(s) /\ frame.type \in Trailing /\ s[b + 1].class = "payload"
        BY <1>6, <4>1
      <4>3. n < remaining /\ frame.type = "PUBLISH"
        BY <1>7, <2>3, <4>2 DEF Trailing
      <4>4. QED
        BY <1>4, <2>3, <4>3
    <3>2. QED
      BY <1>4, <1>8, <2>3, <3>1
  <2>4. QED
    BY <1>2, <2>1, <2>2, <2>3
<1>10. QED
  BY <1>1, <1>9 DEF Reading, Stages

LEMMA StutterKeeps ==
  ASSUME Reading, UNCHANGED vars
  PROVE  Reading'
<1>1. /\ frame' = frame /\ stage' = stage /\ at' = at /\ fld' = fld
      /\ remaining' = remaining /\ n' = n /\ left' = left
  BY DEF vars
<1>2. ASSUME NEW a, NEW b, Position(a, b) PROVE Position(a, b)'
  BY <1>1, <1>2 DEF Position
<1>3. QED
  BY <1>1, <1>2 DEF Reading

(* The invariant: of a frame that is unreadable nothing is said. *)
ReaderInv == Reading \/ Unreadable(frame)

LEMMA StartReads ==
  ASSUME NEW f, Good(f), Start(f)
  PROVE  ReaderInv'
<1>1. CASE Unreadable(f)
  BY <1>1 DEF Start, ReaderInv
<1>2. CASE ~ Unreadable(f)
  BY <1>2, StartKeeps DEF ReaderInv
<1>3. QED
  BY <1>1, <1>2

LEMMA ReaderStep ==
  ASSUME SizesFit, WholeReads, ReaderInv, [Next]_vars
  PROVE  ReaderInv'
<1>1. ASSUME NEW p \in Packets, Send(p) PROVE ReaderInv'
  BY <1>1, WriteToGood, StartReads DEF Send
<1>2. ASSUME NEW f \in BrokerFrames, Arrive(f) PROVE ReaderInv'
  BY <1>2, BrokerFramesGood, StartReads DEF Arrive
<1>3. CASE Again
  BY <1>3, AgainKeeps DEF ReaderInv
<1>4. ASSUME ReadType \/ Timeout \/ ReadLength \/ ReadField \/ ReturnEarly
             \/ ReadPropertiesLen \/ ReadProperty \/ ReadPayload \/ Fail
             \/ UNCHANGED vars
      PROVE  ReaderInv'
  <2>1. CASE Reading
    <3>1. Reading'
      BY <1>4, <2>1, ReadTypeKeeps, TimeoutKeeps, ReadLengthKeeps,
         ReadFieldKeeps, ReturnEarlyKeeps, ReadPropertiesLenKeeps,
         ReadPropertyKeeps, ReadPayloadKeeps, FailKeeps, StutterKeeps
    <3>2. QED
      BY <3>1 DEF ReaderInv
  <2>2. CASE Unreadable(frame)
    <3>1. frame' = frame
      BY Zenon, <1>4 DEF ReadType, Timeout, ReadLength, ReadField, ReturnEarly,
         ReadPropertiesLen, ReadProperty, ReadPayload, Fail, vars
    <3>2. QED
      BY <2>2, <3>1 DEF ReaderInv
  <2>3. QED
    BY <2>1, <2>2 DEF ReaderInv
<1>5. QED
  BY <1>1, <1>2, <1>3, <1>4 DEF Next

LEMMA ReaderAlways ==
  ASSUME SizesFit, WholeReads
  PROVE  Spec => []ReaderInv
<1>1. Init => ReaderInv
  BY ReaderInit DEF ReaderInv
<1>2. ReaderInv /\ [Next]_vars => ReaderInv'
  BY ReaderStep
<1>3. QED
  BY <1>1, <1>2, PTL DEF Spec

-----------------------------------------------------------------------------
(* What holds though reads are cut short: the frame, and the length that   *)
(* was read for it.                                                        *)
HeaderInv ==
  /\ Good(frame)
  /\ stage = "length" => frame.type \notin Unread
  /\ LengthDecoded

LEMMA HeaderLength ==
  ASSUME Good(frame), frame.type \notin Unread
  PROVE  ReadVarInt(WriteVarInt[frame.remaining]) = frame.remaining
<1>1. frame.remaining \in Nat /\ frame.remaining <= MaxVarInt
  BY DEF Good, Fits
<1>2. QED
  BY <1>1, ReadBack

LEMMA HeaderStart ==
  ASSUME NEW f, Good(f), Start(f)
  PROVE  HeaderInv'
BY DEF Start, HeaderInv, LengthDecoded

LEMMA HeaderStep ==
  ASSUME SizesFit, HeaderInv, [Next]_vars
  PROVE  HeaderInv'
<1>1. ASSUME NEW p \in Packets, Send(p) PROVE HeaderInv'
  BY <1>1, WriteToGood, HeaderStart DEF Send
<1>2. ASSUME NEW f \in BrokerFrames, Arrive(f) PROVE HeaderInv'
  BY <1>2, BrokerFramesGood, HeaderStart DEF Arrive
<1>3. CASE ReadType
  BY <1>3 DEF HeaderInv, ReadType, LengthDecoded, Unread
<1>4. CASE Timeout
  BY <1>4 DEF HeaderInv, Timeout, LengthDecoded
<1>5. CASE ReadLength
  <2>1. stage' # "length"
    BY <1>5 DEF ReadLength, Returns
  <2>2. remaining' = frame.remaining /\ frame' = frame
    BY <1>5, HeaderLength DEF HeaderInv, ReadLength
  <2>3. QED
    BY <2>1, <2>2 DEF HeaderInv, LengthDecoded
<1>6. ASSUME stage \in {"fields", "properties"}, stage' # "length",
             frame' = frame, remaining' = remaining
      PROVE  HeaderInv'
  BY <1>6 DEF HeaderInv, LengthDecoded
<1>7. CASE ReadField
  BY <1>6, <1>7 DEF ReadField, After
<1>8. CASE ReturnEarly
  BY <1>6, <1>8 DEF ReturnEarly, Returns
<1>9. CASE ReadPropertiesLen
  BY <1>6, <1>9 DEF ReadPropertiesLen, Returns
<1>10. CASE ReadProperty
  <2>1. stage' # "length"
    BY <1>10 DEF ReadProperty, After
  <2>2. QED
    BY <1>6, <1>10, <2>1 DEF ReadProperty
<1>11. CASE ReadPayload
  <2>1. stage = "properties" /\ frame' = frame /\ remaining' = remaining
    BY Zenon, <1>11 DEF ReadPayload
  <2>2. stage' # "length"
    BY <1>11, PayloadEnds DEF After, Returns
  <2>3. QED
    BY <1>6, <2>1, <2>2
<1>12. CASE Fail
  BY <1>12 DEF HeaderInv, Fail, LengthDecoded
<1>13. CASE Again
  <2>1. Good(Nothing)
    BY NothingGood
  <2>2. QED
    BY <1>13, <2>1 DEF HeaderInv, Again, LengthDecoded
<1>14. CASE UNCHANGED vars
  BY <1>14 DEF HeaderInv, LengthDecoded, vars
<1>15. QED
  BY <1>1, <1>2, <1>3, <1>4, <1>5, <1>7, <1>8, <1>9, <1>10, <1>11, <1>12,
     <1>13, <1>14 DEF Next

LEMMA HeaderAlways ==
  ASSUME SizesFit
  PROVE  Spec => []HeaderInv
<1>1. Init => HeaderInv
  <2>1. Good(Nothing)
    BY NothingGood
  <2>2. QED
    BY <2>1 DEF Init, HeaderInv, LengthDecoded
<1>2. HeaderInv /\ [Next]_vars => HeaderInv'
  BY HeaderStep
<1>3. QED
  BY <1>1, <1>2, PTL DEF Spec

-----------------------------------------------------------------------------
(* Every packet of the client that is not a CONNECT announces exactly what *)
(* it has, and so does a CONNECT that is not Miscounted, that is one with  *)
(* no will and less than 128 bytes of properties: the remaining length     *)
(* that WriteTo counts before it writes is the size of all it writes, and  *)
(* the length of the properties that of the properties, also where a       *)
(* variable byte integer grows.                                            *)
THEOREM FramesExact ==
  ASSUME SizesFit
  PROVE  Spec => []FrameExact
<1>1. HeaderInv => FrameExact
  BY DEF HeaderInv, Good, Announces, FrameExact, Exact, Sum
<1>2. QED
  BY <1>1, HeaderAlways, PTL

(* While a ReadFrom goes by header.Remaining, it is the length that the    *)
(* sender wrote: VariableByteInt.ReadFrom undoes WriteTo, for every length *)
(* up to the largest.                                                      *)
THEOREM LengthsDecoded ==
  ASSUME SizesFit
  PROVE  Spec => []LengthDecoded
<1>1. HeaderInv => LengthDecoded
  BY DEF HeaderInv
<1>2. QED
  BY <1>1, HeaderAlways, PTL

(* When reads are whole and no deadline passes in the middle of a header,  *)
(* a ReadFrom takes more or less than the packet has of no packet but the  *)
(* Unreadable ones, PUBLISH with the payload format and DISCONNECT and     *)
(* AUTH without a body; after any other FixedHeader reads where a packet   *)
(* starts: for packets that end early, with and without properties, reason *)
(* codes or payload.                                                       *)
THEOREM ReadersInSync ==
  ASSUME SizesFit, WholeReads
  PROVE  Spec => []InSync
<1>1. ReaderInv => InSync
  BY DEF ReaderInv, Reading, Stages, InSync
<1>2. QED
  BY <1>1, ReaderAlways, PTL
=============================================================================
