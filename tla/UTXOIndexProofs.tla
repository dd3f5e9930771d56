--------------------------- MODULE UTXOIndexProofs ---------------------------
(***************************************************************************)
(* The safety properties of UTXOIndex for any outpoints, virtuals, channel  *)
(* size, step and number of crashes, when no goroutine outlives a panic     *)
(* (ExitWindow is FALSE).                                                   *)
(*                                                                         *)
(* First what the provers have to know about a sum over a set, about sums   *)
(* modulo Word and about the outpoints a step of Reset reads; then the      *)
(* inductive invariant and one lemma per action.                            *)
(***************************************************************************)
EXTENDS UTXOIndex, NumberLemmas, FiniteSetTheorems, TLAPS

-----------------------------------------------------------------------------
(* Sums over sets of outpoints *)

Pick(s) == CHOOSE x \in s : TRUE

(* The recursion by which SumFunctionOnSet is defined, on the sets of D.   *)
SumsOn(g, D) ==
  g = [s \in D |-> IF s = {} THEN 0 ELSE Amount[Pick(s)] + g[s \ {Pick(s)}]]

UpTo(S, n) == {s \in SUBSET S : Cardinality(s) <= n}

(* The recursion has a solution on the subsets of at most n elements.      *)
LEMMA SumsUpToExist ==
  ASSUME NEW S \in SUBSET Outpoint, NEW n \in Nat
  PROVE  \E g : SumsOn(g, UpTo(S, n))
<1> DEFINE H == {m \in Nat : \E g : SumsOn(g, UpTo(S, m))}
<1>1. \A s \in SUBSET S : IsFiniteSet(s) /\ Cardinality(s) \in Nat
  BY OutpointAssumption, FS_Subset, FS_CardinalityType, Zenon
<1>2. \A s \in SUBSET S : s # {} => /\ Pick(s) \in s
                                    /\ s \ {Pick(s)} \in SUBSET S
                                    /\ Cardinality(s \ {Pick(s)}) = Cardinality(s) - 1
  BY <1>1, FS_RemoveElement, Zenon DEF Pick
<1>3. 0 \in H
  <2> DEFINE g == [s \in UpTo(S, 0) |-> 0]
  <2>1. UpTo(S, 0) = {{}}
    BY <1>1, FS_EmptySet DEF UpTo
  <2>2. SumsOn(g, UpTo(S, 0))
    BY <2>1 DEF SumsOn
  <2> QED BY <2>2
<1>4. ASSUME NEW m \in Nat, m \in H
      PROVE  m + 1 \in H
  <2>1. PICK g : SumsOn(g, UpTo(S, m))
    BY <1>4
  <2> DEFINE step(s) == IF s = {} THEN 0 ELSE Amount[Pick(s)] + g[s \ {Pick(s)}]
             h == [s \in UpTo(S, m + 1) |-> step(s)]
  <2>2. \A s \in UpTo(S, m) : g[s] = step(s)
    BY <2>1, Zenon DEF SumsOn
  <2>3. \A s \in UpTo(S, m) : s \in UpTo(S, m + 1)
    BY <1>1 DEF UpTo
  <2>4. \A s \in UpTo(S, m) : h[s] = g[s]
    BY <2>2, <2>3
  <2>5. \A s \in UpTo(S, m + 1) : s # {} => s \ {Pick(s)} \in UpTo(S, m)
    BY <1>1, <1>2 DEF UpTo
  <2>6. \A s \in UpTo(S, m + 1) :
           step(s) = IF s = {} THEN 0 ELSE Amount[Pick(s)] + h[s \ {Pick(s)}]
    BY <2>4, <2>5, Zenon
  <2>7. SumsOn(h, UpTo(S, m + 1))
    <3> HIDE DEF step
    <3> QED BY <2>6, Zenon DEF SumsOn
  <2> QED BY <2>7
<1>5. \A m \in Nat : (\A k \in 0..(m - 1) : k \in H) => m \in H
  <2> SUFFICES ASSUME NEW m \in Nat, \A k \in 0..(m - 1) : k \in H
               PROVE  m \in H
    OBVIOUS
  <2> HIDE DEF H
  <2>1. CASE m = 0
    BY <1>3, <2>1
  <2>2. CASE m # 0
    <3>1. m - 1 \in Nat /\ m - 1 \in H /\ (m - 1) + 1 = m
      BY <2>2
    <3> QED BY <1>4, <3>1
  <2> QED BY <2>1, <2>2
<1>6. Nat \subseteq H
  <2> HIDE DEF H
  <2> QED BY <1>5, NoLeastCounterexample
<1> QED BY <1>6

(* SumFunctionOnSet of a set of outpoints, as one function.                *)
Sums == CHOOSE g : SumsOn(g, SUBSET Outpoint)

(* Sums satisfies the recursion, and its values are naturals.              *)
LEMMA SumsRecursion ==
  /\ Sums[{}] = 0
  /\ \A s \in SUBSET Outpoint : s # {} =>
        /\ Pick(s) \in s
        /\ Sums[s] = Amount[Pick(s)] + Sums[s \ {Pick(s)}]
<1>1. UpTo(Outpoint, Cardinality(Outpoint)) = SUBSET Outpoint
  BY OutpointAssumption, FS_Subset DEF UpTo
<1>2. \E g : SumsOn(g, SUBSET Outpoint)
  <2>1. Cardinality(Outpoint) \in Nat
    BY OutpointAssumption, FS_CardinalityType
  <2> QED BY <1>1, <2>1, SumsUpToExist
<1>3. SumsOn(Sums, SUBSET Outpoint)
  BY <1>2, Zenon DEF Sums
<1>4. Sums[{}] = 0
  BY <1>3 DEF SumsOn
<1> QED BY <1>3, <1>4 DEF SumsOn, Pick

(* SumFunctionOnSet(Amount, S) is Sums[S] for every set S of outpoints.    *)
LEMMA SumIsSums ==
  ASSUME NEW S \in SUBSET Outpoint
  PROVE  SumFunctionOnSet(Amount, S) = Sums[S]
<1> DEFINE g == CHOOSE f : SumsOn(f, SUBSET S)
           H == {n \in Nat : \A s \in SUBSET S : Cardinality(s) = n => g[s] = Sums[s]}
<1>1. SumFunctionOnSet(Amount, S) = g[S]
  BY DEF SumFunctionOnSet, FoldFunctionOnSet, MapThenFoldSet, SumsOn, Pick
<1>2. IsFiniteSet(S) /\ Cardinality(S) \in Nat
  BY OutpointAssumption, FS_Subset, FS_CardinalityType, Zenon
<1>3. UpTo(S, Cardinality(S)) = SUBSET S
  BY <1>2, FS_Subset DEF UpTo
<1>4. SumsOn(g, SUBSET S)
  <2>1. \E f : SumsOn(f, SUBSET S)
    <3>1. \E f : SumsOn(f, UpTo(S, Cardinality(S)))
      BY <1>2, SumsUpToExist
    <3> QED BY <1>3, <3>1
  <2> QED BY <2>1, Zenon
<1>5. ASSUME NEW n \in Nat, \A m \in 0..(n - 1) : m \in H
      PROVE  n \in H
  <2> SUFFICES ASSUME NEW s \in SUBSET S, Cardinality(s) = n
               PROVE  g[s] = Sums[s]
    OBVIOUS
  <2>1. CASE s = {}
    <3> HIDE DEF g
    <3> QED BY <1>4, <2>1, SumsRecursion DEF SumsOn
  <2>2. CASE s # {}
    <3> DEFINE t == s \ {Pick(s)}
    <3>1. Pick(s) \in s /\ Sums[s] = Amount[Pick(s)] + Sums[t]
      BY <2>2, SumsRecursion
    <3>2. g[s] = Amount[Pick(s)] + g[t]
      <4> HIDE DEF g
      <4> QED BY <1>4, <2>2, Zenon DEF SumsOn
    <3>3. t \in SUBSET S /\ Cardinality(t) \in 0..(n - 1)
      BY <1>2, <3>1, FS_Subset, FS_CardinalityType, FS_RemoveElement
    <3>4. g[t] = Sums[t]
      <4> HIDE DEF g
      <4> QED BY <1>5, <3>3
    <3> QED BY <3>1, <3>2, <3>4
  <2> QED BY <2>1, <2>2
<1>6. Nat \subseteq H
  <2> HIDE DEF H
  <2> QED BY <1>5, NoLeastCounterexample
<1>7. g[S] = Sums[S]
  <2> HIDE DEF g
  <2> QED BY <1>2, <1>6
<1> QED BY <1>1, <1>7

(* The order in which a sum takes the elements does not matter.            *)
LEMMA SumsAddElement ==
  ASSUME NEW S \in SUBSET Outpoint, NEW x \in Outpoint, x \notin S
  PROVE  Sums[S] \in Nat /\ Sums[S \cup {x}] = Sums[S] + Amount[x]
<1> DEFINE H == {n \in Nat : \A s \in SUBSET Outpoint : Cardinality(s) = n =>
                   /\ Sums[s] \in Nat
                   /\ \A y \in Outpoint \ s : Sums[s \cup {y}] = Sums[s] + Amount[y]}
<1>1. \A s \in SUBSET Outpoint : IsFiniteSet(s) /\ Cardinality(s) \in Nat
  BY OutpointAssumption, FS_Subset, FS_CardinalityType, Zenon
<1>2. \A y \in Outpoint : Amount[y] \in Nat
  BY OutpointAssumption
<1>3. ASSUME NEW n \in Nat, \A m \in 0..(n - 1) : m \in H
      PROVE  n \in H
  <2> SUFFICES ASSUME NEW s \in SUBSET Outpoint, Cardinality(s) = n
               PROVE  /\ Sums[s] \in Nat
                      /\ \A y \in Outpoint \ s : Sums[s \cup {y}] = Sums[s] + Amount[y]
    OBVIOUS
  <2>1. ASSUME NEW p \in s
        PROVE  /\ s \ {p} \in SUBSET Outpoint
               /\ Sums[s \ {p}] \in Nat
               /\ \A y \in Outpoint \ (s \ {p}) :
                     Sums[(s \ {p}) \cup {y}] = Sums[s \ {p}] + Amount[y]
    <3>1. Cardinality(s \ {p}) \in 0..(n - 1)
      BY <1>1, FS_RemoveElement
    <3> QED BY <1>3, <3>1, Zenon
  <2>2. Sums[s] \in Nat
    <3>1. CASE s = {}
      BY <3>1, SumsRecursion
    <3>2. CASE s # {}
      <4>1. Pick(s) \in s /\ Sums[s] = Amount[Pick(s)] + Sums[s \ {Pick(s)}]
        BY <3>2, SumsRecursion
      <4>2. Sums[s \ {Pick(s)}] \in Nat /\ Amount[Pick(s)] \in Nat
        BY <1>2, <2>1, <4>1
      <4> QED BY <4>1, <4>2
    <3> QED BY <3>1, <3>2
  <2>3. ASSUME NEW y \in Outpoint \ s
        PROVE  Sums[s \cup {y}] = Sums[s] + Amount[y]
    <3> DEFINE t == s \cup {y}
               p == Pick(t)
    <3>1. t \in SUBSET Outpoint /\ p \in t /\ Sums[t] = Amount[p] + Sums[t \ {p}]
      BY SumsRecursion, Zenon
    <3>2. CASE p = y
      <4>1. t \ {p} = s
        BY <3>2
      <4> HIDE DEF p
      <4> QED BY <1>2, <2>2, <3>1, <3>2, <4>1
    <3>3. CASE p # y
      <4> HIDE DEF p
      <4>1. p \in s /\ t \ {p} = (s \ {p}) \cup {y} /\ s = (s \ {p}) \cup {p}
        BY <3>1, <3>3
      <4>2. Sums[t \ {p}] = Sums[s \ {p}] + Amount[y]
        BY <2>1, <4>1
      <4>3. Sums[s] = Sums[s \ {p}] + Amount[p] /\ Sums[s \ {p}] \in Nat
        BY <2>1, <4>1, Zenon
      <4>4. Amount[p] \in Nat /\ Amount[y] \in Nat
        BY <1>2, <4>1
      <4>5. Sums[t] = Sums[s] + Amount[y]
        <5> HIDE DEF t
        <5> QED BY <3>1, <4>2, <4>3, <4>4
      <4> QED BY <4>5
    <3> QED BY <3>2, <3>3
  <2> QED BY <2>2, <2>3
<1>4. Nat \subseteq H
  <2> HIDE DEF H
  <2> QED BY <1>3, NoLeastCounterexample
<1> QED BY <1>1, <1>4

(* A sum of amounts is a natural number.                                   *)
LEMMA SumsNat == \A S \in SUBSET Outpoint : Sums[S] \in Nat
<1> SUFFICES ASSUME NEW S \in SUBSET Outpoint PROVE Sums[S] \in Nat
  OBVIOUS
<1>1. CASE S = {}
  BY <1>1, SumsRecursion
<1>2. CASE S # {}
  <2>1. Pick(S) \in S /\ Sums[S] = Amount[Pick(S)] + Sums[S \ {Pick(S)}]
    BY <1>2, SumsRecursion
  <2>2. Sums[S \ {Pick(S)}] \in Nat
    <3>1. S \ {Pick(S)} \in SUBSET Outpoint /\ Pick(S) \in Outpoint /\ Pick(S) \notin S \ {Pick(S)}
      BY <2>1
    <3> QED BY <3>1, SumsAddElement, Zenon
  <2>3. Amount[Pick(S)] \in Nat
    BY <2>1, OutpointAssumption, Zenon
  <2> QED BY <2>1, <2>2, <2>3
<1> QED BY <1>1, <1>2

(* The sum over a union of disjoint sets is the sum of the sums.           *)
LEMMA SumsUnion ==
  ASSUME NEW S \in SUBSET Outpoint, NEW T \in SUBSET Outpoint, S \cap T = {}
  PROVE  Sums[S \cup T] = Sums[S] + Sums[T]
<1> DEFINE H == {n \in Nat : \A t \in SUBSET Outpoint :
                   Cardinality(t) = n /\ S \cap t = {} => Sums[S \cup t] = Sums[S] + Sums[t]}
<1>1. \A s \in SUBSET Outpoint : IsFiniteSet(s) /\ Cardinality(s) \in Nat
  BY OutpointAssumption, FS_Subset, FS_CardinalityType, Zenon
<1>2. \A s \in SUBSET Outpoint : Sums[s] \in Nat
  BY SumsNat
<1>3. ASSUME NEW n \in Nat, \A m \in 0..(n - 1) : m \in H
      PROVE  n \in H
  <2> SUFFICES ASSUME NEW t \in SUBSET Outpoint, Cardinality(t) = n, S \cap t = {}
               PROVE  Sums[S \cup t] = Sums[S] + Sums[t]
    OBVIOUS
  <2>1. CASE t = {}
    <3>1. S \cup t = S
      BY <2>1
    <3> QED BY <1>2, <2>1, <3>1, SumsRecursion
  <2>2. CASE t # {}
    <3>1. PICK p \in t : TRUE
      BY <2>2
    <3> DEFINE u == t \ {p}
    <3>2. u \in SUBSET Outpoint /\ Cardinality(u) \in 0..(n - 1) /\ S \cap u = {}
      BY <1>1, <3>1, FS_RemoveElement
    <3>3. Sums[S \cup u] = Sums[S] + Sums[u]
      BY <1>3, <3>2
    <3>4. p \notin u /\ p \notin S \cup u /\ S \cup u \in SUBSET Outpoint /\ p \in Outpoint
      BY <3>1
    <3>5. t = u \cup {p} /\ S \cup t = (S \cup u) \cup {p}
      BY <3>1
    <3> HIDE DEF u
    <3>6. Sums[t] = Sums[u] + Amount[p]
      BY <3>2, <3>4, <3>5, SumsAddElement
    <3>7. Sums[S \cup t] = Sums[S \cup u] + Amount[p]
      BY <3>4, <3>5, SumsAddElement
    <3>8. Amount[p] \in Nat /\ Sums[S] \in Nat /\ Sums[u] \in Nat
      BY <1>2, <3>2, <3>4, OutpointAssumption
    <3> QED BY <3>3, <3>6, <3>7, <3>8
  <2> QED BY <2>1, <2>2
<1>4. Nat \subseteq H
  <2> HIDE DEF H
  <2> QED BY <1>3, NoLeastCounterexample
<1> QED BY <1>1, <1>4

-----------------------------------------------------------------------------
(* Sums modulo Word *)

(* Two integers that differ by a multiple of Word have the same remainder. *)
LEMMA SameRemainder ==
  ASSUME NEW a \in Int, NEW b \in Int, NEW k \in Int, a = b + Word * k
  PROVE  a % Word = b % Word
<1> DEFINE q == b \div Word
           r == b % Word
<1>1. q \in Int /\ r \in Int /\ 0 <= r /\ r < Word /\ b = Word * q + r
  BY BoundsAssumption
<1>2. a = Word * (q + k) + r
  <2> HIDE DEF q, r
  <2> QED BY <1>1, BoundsAssumption
<1>3. a % Word = r
  <2> HIDE DEF q, r
  <2> QED BY <1>1, <1>2, BoundsAssumption
<1> QED BY <1>3

(* Adding and subtracting reduced sums gives the reduced sum.              *)
LEMMA ReducedSum ==
  ASSUME NEW a \in Int, NEW b \in Int, NEW c \in Int
  PROVE  ((a % Word) + (b % Word) - (c % Word)) % Word = (a + b - c) % Word
<1> DEFINE q(x) == x \div Word
           r(x) == x % Word
           k == q(c) - q(a) - q(b)
<1>1. \A x \in Int : q(x) \in Int /\ r(x) \in Int /\ x = Word * q(x) + r(x)
  BY BoundsAssumption
<1>2. /\ r(a) + r(b) - r(c) \in Int
      /\ a + b - c \in Int
      /\ k \in Int
      /\ r(a) + r(b) - r(c) = (a + b - c) + Word * k
  <2>1. /\ q(a) \in Int /\ q(b) \in Int /\ q(c) \in Int
        /\ r(a) \in Int /\ r(b) \in Int /\ r(c) \in Int
        /\ a = Word * q(a) + r(a) /\ b = Word * q(b) + r(b) /\ c = Word * q(c) + r(c)
    BY <1>1
  <2> HIDE DEF q, r
  <2>2. Word * k = Word * q(c) - Word * q(a) - Word * q(b)
    BY <2>1, BoundsAssumption
  <2>3. Word * q(a) \in Int /\ Word * q(b) \in Int /\ Word * q(c) \in Int /\ k \in Int
    BY <2>1, BoundsAssumption
  <2> HIDE DEF k
  <2> QED BY <2>1, <2>2, <2>3
<1>3. (r(a) + r(b) - r(c)) % Word = (a + b - c) % Word
  <2> HIDE DEF k, r
  <2> QED BY <1>2, SameRemainder
<1> QED BY <1>3

(* Total is a remainder, and that of no outpoints is 0.                    *)
LEMMA TotalType ==
  /\ \A S \in SUBSET Outpoint : Total(S) \in 0..(Word - 1)
  /\ Total({}) = 0
<1>1. \A S \in SUBSET Outpoint : Total(S) = Sums[S] % Word /\ Sums[S] \in Nat
  BY SumIsSums, SumsNat DEF Total
<1>2. \A n \in Nat : n % Word \in 0..(Word - 1)
  BY BoundsAssumption
<1>3. Total({}) = 0
  <2>1. Total({}) = 0 % Word
    BY <1>1, SumsRecursion
  <2> QED BY <2>1, BoundsAssumption
<1> QED BY <1>1, <1>2, <1>3

(* Update: adding the total of what comes in and subtracting the total of  *)
(* what goes out gives the total of the result, also when a sum wraps.     *)
LEMMA TotalUpdate ==
  ASSUME NEW E \in SUBSET Outpoint, NEW A \in SUBSET Outpoint, NEW R \in SUBSET E,
         A \cap E = {}
  PROVE  (Total(E) + Total(A) - Total(R)) % Word = Total((E \ R) \cup A)
<1>1. \A S \in SUBSET Outpoint : Total(S) = Sums[S] % Word /\ Sums[S] \in Nat
  BY SumIsSums, SumsNat DEF Total
<1>2. Sums[E] = Sums[E \ R] + Sums[R]
  <2>1. E = (E \ R) \cup R /\ (E \ R) \cap R = {}
    OBVIOUS
  <2> QED BY <2>1, SumsUnion
<1>3. Sums[(E \ R) \cup A] = Sums[E \ R] + Sums[A]
  <2>1. (E \ R) \cap A = {}
    OBVIOUS
  <2> QED BY <2>1, SumsUnion
<1>4. Sums[E] + Sums[A] - Sums[R] = Sums[(E \ R) \cup A]
  BY <1>1, <1>2, <1>3
<1>5. ((Sums[E] % Word) + (Sums[A] % Word) - (Sums[R] % Word)) % Word
        = (Sums[E] + Sums[A] - Sums[R]) % Word
  <2>1. Sums[E] \in Int /\ Sums[A] \in Int /\ Sums[R] \in Int
    BY <1>1
  <2> QED BY <2>1, ReducedSum, Zenon
<1> QED BY <1>1, <1>4, <1>5

(* Reset: the total of the outpoints read so far and of the next ones.     *)
LEMMA TotalUnion ==
  ASSUME NEW E \in SUBSET Outpoint, NEW A \in SUBSET Outpoint, A \cap E = {}
  PROVE  (Total(E) + Total(A)) % Word = Total(E \cup A)
<1>1. (Total(E) + Total(A) - Total({})) % Word = Total((E \ {}) \cup A)
  BY TotalUpdate
<1>2. (E \ {}) \cup A = E \cup A
  OBVIOUS
<1>3. Total(E) \in Int /\ Total(A) \in Int /\ Total({}) = 0
  BY TotalType
<1>4. Total(E) + Total(A) - Total({}) = Total(E) + Total(A)
  BY <1>3
<1> QED BY <1>1, <1>2, <1>4

-----------------------------------------------------------------------------
(* The outpoints a step of Reset reads *)

Set(v) == DOMAIN VirtualUTXO[v]

(* VirtualUTXOs: fewer outpoints than asked for are all that is left;      *)
(* otherwise they are the ones up to the greatest of them.                 *)
LEMMA StepOfReset ==
  ASSUME virtual \in Virtual, NEW from \in Outpoint \cup {0}
  PROVE  LET read == VirtualUTXOs(from)
         IN  /\ read \subseteq {o \in Set(virtual) : o > from}
             /\ Cardinality(read) < Step => read = {o \in Set(virtual) : o > from}
             /\ ~(Cardinality(read) < Step) =>
                   /\ Max(read) \in Outpoint
                   /\ read = {o \in Set(virtual) : o > from /\ o <= Max(read)}
<1> DEFINE later == {o \in Set(virtual) : o > from}
           before(o) == {p \in later : p < o}
           read == {o \in later : Cardinality(before(o)) < Step}
<1>1. VirtualUTXOs(from) = read
  BY DEF VirtualUTXOs, Set
<1>2. /\ later \subseteq Outpoint
      /\ later \subseteq Nat
      /\ read \subseteq later
  BY VirtualUTXOAssumption, OutpointAssumption, Zenon DEF Set
<1>3. /\ IsFiniteSet(read)
      /\ Cardinality(read) \in Nat
      /\ \A o \in later : IsFiniteSet(before(o)) /\ Cardinality(before(o)) \in Nat
  <2>1. IsFiniteSet(later)
    BY <1>2, OutpointAssumption, FS_Subset
  <2>2. \A o \in later : before(o) \in SUBSET later
    OBVIOUS
  <2> HIDE DEF later, before, read
  <2> QED BY <1>2, <2>1, <2>2, FS_Subset, FS_CardinalityType, Zenon
<1>4. Cardinality(read) < Step => read = later
  <2> SUFFICES ASSUME Cardinality(read) < Step, later \ read # {}
               PROVE  FALSE
    BY <1>2
  <2>1. PICK o \in later \ read : \A p \in later \ read : o <= p
    BY <1>2, LeastNat, Zenon
  <2>2. \A p \in before(o) : p \in read
    BY <1>2, <2>1
  <2>3. Cardinality(before(o)) <= Cardinality(read)
    <3> HIDE DEF before, read, later
    <3> QED BY <1>3, <2>2, FS_Subset
  <2>4. ~(Cardinality(before(o)) < Step)
    BY <2>1
  <2> QED BY <1>3, <2>1, <2>3, <2>4, BoundsAssumption
<1>5. ASSUME ~(Cardinality(read) < Step)
      PROVE  Max(read) \in Outpoint /\ read = {o \in later : o <= Max(read)}
  <2>1. read # {}
    <3> HIDE DEF read
    <3> QED BY <1>5, FS_EmptySet, BoundsAssumption
  <2>2. Max(read) \in read /\ \A o \in read : o <= Max(read)
    <3>1. read \subseteq Nat
      BY <1>2
    <3> HIDE DEF read
    <3> QED BY <1>3, <2>1, <3>1, MaxProps, Zenon
  <2>3. ASSUME NEW o \in later, NEW m \in read, o <= m
        PROVE  o \in read
    <3>1. before(o) \in SUBSET before(m)
      BY <1>2, <2>3
    <3>2. Cardinality(before(o)) <= Cardinality(before(m))
      <4> HIDE DEF before, later
      <4> QED BY <1>2, <1>3, <3>1, FS_Subset
    <3>3. Cardinality(before(m)) < Step /\ m \in later
      OBVIOUS
    <3>4. Cardinality(before(o)) < Step
      <4> HIDE DEF before, later
      <4> QED BY <1>3, <3>2, <3>3, BoundsAssumption
    <3> QED BY <3>4
  <2> HIDE DEF read
  <2> QED BY <1>2, <2>2, <2>3
<1>6. {o \in later : o <= Max(read)} = {o \in Set(virtual) : o > from /\ o <= Max(read)}
  OBVIOUS
<1> HIDE DEF read
<1> QED BY <1>1, <1>2, <1>4, <1>5, <1>6

-----------------------------------------------------------------------------
(* The inductive invariant *)

Types ==
  /\ virtual \in Virtual
  /\ events \in Seq([from : Virtual, to : Virtual])
  /\ Len(events) <= Capacity
  /\ DOMAIN entries \subseteq Outpoint
  /\ parents \in Virtual \cup {None}
  /\ parents # None => parents <= virtual
  /\ supply \in 0..(Word - 1) \cup {None}
  /\ node \in {"down", "starting", "running", "exiting"}
  /\ reset \in [phase : {"none", "parents", "supply", "entries", "copy", "mark"},
                at : Virtual \cup {None}, from : Outpoint \cup {0}]
  /\ replayed \in BOOLEAN

(* The channel is filled, and Reset runs, only in a started node.          *)
Modes ==
  /\ node \in {"down", "starting"} => events = <<>>
  /\ node = "down" => reset = NoReset
  /\ node = "starting" => reset.phase # "none"
  /\ reset.phase = "none" => reset = NoReset

(* The change sets in the channel lead to the virtual without a gap.       *)
Channel ==
  /\ \A i \in 1..Len(events) :
       /\ events[i].to <= virtual
       /\ i < Len(events) => events[i].to < virtual /\ events[i].to = events[i + 1].from
  /\ events # <<>> => events[Len(events)].to = virtual

(* The next change set in the channel starts from r.                       *)
IsNext(r) == r = IF events = <<>> THEN virtual ELSE events[1].from

(* The change sets in the channel go through r.                            *)
OnTheWay(r) == IsNext(r) \/ \E i \in 1..Len(events) : r = events[i].to

(* What the mark in the database promises at any time.                     *)
Marked ==
  parents = virtual =>
    /\ SameOutpoints(virtual)
    /\ supply # None /\ ~replayed => supply = Total(Set(virtual))

(* While Reset runs the mark is gone, and what is copied is the beginning  *)
(* of the set of one virtual, which the channel goes on from.              *)
Copying ==
  /\ reset.phase \in {"supply", "entries", "copy", "mark"} => parents = None
  /\ reset.phase \in {"copy", "mark"} =>
       /\ reset.at \in Virtual
       /\ reset.at <= virtual
       /\ OnTheWay(reset.at)
       /\ ~replayed => IsNext(reset.at)
       /\ supply = Total(DOMAIN entries)
  /\ reset.phase = "copy" => DOMAIN entries = {o \in Set(reset.at) : o <= reset.from}
  /\ reset.phase = "mark" => DOMAIN entries = Set(reset.at)

(* Each outpoint is as in the virtual of the mark or as in r.              *)
Between(r) ==
  \A o \in Outpoint : \/ o \in DOMAIN entries <=> o \in Set(parents)
                      \/ o \in DOMAIN entries <=> o \in Set(r)

(* An index that follows the channel is at the virtual of its mark, or is  *)
(* replaying change sets that Reset had already seen, up to some r ahead.  *)
Following ==
  /\ parents # None
  /\ supply # None
  /\ \/ SameOutpoints(parents) /\ OnTheWay(parents)
     \/ /\ events # <<>>
        /\ events[1].from = parents
        /\ parents < virtual
        /\ \E i \in 1..Len(events) : Between(events[i].to)
  /\ ~replayed => /\ SameOutpoints(parents)
                  /\ IsNext(parents)
                  /\ supply = Total(Set(parents))

IInv ==
  /\ Types
  /\ Modes
  /\ Marked
  /\ node \in {"starting", "running"} => Channel /\ Copying
  /\ node = "running" /\ reset = NoReset => Following

(* Virtuals are naturals, and so are the ends of the change sets.          *)
LEMMA EventType ==
  ASSUME Types
  PROVE  /\ Virtual \subseteq Nat
         /\ None \notin Virtual
         /\ Len(events) \in Nat
         /\ \A i \in 1..Len(events) : /\ events[i] \in [from : Virtual, to : Virtual]
                                      /\ events[i].from \in Nat
                                      /\ events[i].to \in Nat
<1> DEFINE Event == [from : Virtual, to : Virtual]
<1>1. Virtual \subseteq Nat /\ None \notin Virtual
  BY VirtualUTXOAssumption, BoundsAssumption DEF Virtual
<1>2. \A e \in Event : e.from \in Virtual /\ e.to \in Virtual
  OBVIOUS
<1>3. events \in Seq(Event)
  BY DEF Types
<1>4. Len(events) \in Nat /\ \A i \in 1..Len(events) : events[i] \in Event
  <2> HIDE DEF Event
  <2> QED BY <1>3
<1> QED BY <1>1, <1>2, <1>4, Zenon

(* The databases a first start can find satisfy the invariant.             *)
LEMMA InitIInv == Init => IInv
<1> HAVE Init
<1>1. Set(0) \subseteq Outpoint /\ 0 \in Virtual
  BY VirtualUTXOAssumption DEF Virtual, Set
<1>2. Types
  <2>1. DOMAIN entries \subseteq Outpoint
    BY <1>1 DEF Init, Set
  <2>2. events \in Seq([from : Virtual, to : Virtual]) /\ Len(events) <= Capacity
    BY BoundsAssumption DEF Init
  <2>3. NoReset \in [phase : {"none", "parents", "supply", "entries", "copy", "mark"},
                      at : Virtual \cup {None}, from : Outpoint \cup {0}]
    BY DEF NoReset
  <2>4. (parents \in Virtual \cup {None}) /\ (parents # None => parents <= virtual)
    BY <1>1 DEF Init
  <2> QED BY <1>1, <2>1, <2>2, <2>3, <2>4, Zenon DEF Types, Init
<1>3. Modes /\ Marked
  BY BoundsAssumption DEF Init, Modes, Marked, NoReset, SameOutpoints, Set
<1> QED BY <1>2, <1>3 DEF IInv, Init

(* ValidateAndInsertBlock: the change set it sends is the next of the way, *)
(* or the node exits with a mark that is behind the virtual.               *)
LEMMA ValidateAndInsertBlockStep ==
  ASSUME IInv, ~ExitWindow, NEW v \in Virtual, ValidateAndInsertBlock(v)
  PROVE  IInv'
<1> DEFINE e == [from |-> virtual, to |-> v]
<1>1. /\ node = "running" /\ v > virtual /\ virtual' = v
      /\ UNCHANGED <<entries, parents, supply, reset, replayed>>
  BY DEF ValidateAndInsertBlock, Alive, db
<1>2. Types /\ Modes /\ Channel /\ Copying
  BY <1>1 DEF IInv
<1>3. virtual \in Nat /\ v \in Nat /\ Virtual \subseteq Nat /\ None \notin Virtual
  BY <1>2, VirtualUTXOAssumption, BoundsAssumption DEF Types, Virtual
<1>4. (parents # virtual)'
  BY <1>1, <1>2, <1>3 DEF Types
<1>5. CASE Len(events) = Capacity /\ Panic /\ UNCHANGED events
  <2>1. Types'
    BY <1>1, <1>2, <1>3, <1>5 DEF Types, Panic
  <2>2. Modes'
    BY <1>1, <1>2, <1>5 DEF Modes, Panic
  <2> QED BY <1>4, <1>5, <2>1, <2>2 DEF IInv, Marked, Panic
<1>6. CASE Len(events) < Capacity /\ events' = Append(events, e) /\ UNCHANGED node
  <2>1. /\ e \in [from : Virtual, to : Virtual]
        /\ events' \in Seq([from : Virtual, to : Virtual])
        /\ Len(events') = Len(events) + 1
        /\ Len(events) \in Nat
        /\ \A i \in 1..Len(events) : events'[i] = events[i]
        /\ events'[Len(events) + 1] = e
        /\ events' # <<>>
    BY <1>2, <1>6 DEF Types
  <2>2. Types'
    BY <1>1, <1>2, <1>3, <1>6, <2>1, BoundsAssumption DEF Types
  <2>3. Modes'
    BY <1>1, <1>2, <1>6 DEF Modes
  <2>4. \A i \in 1..Len(events) : events[i].to \in Nat
    BY <1>2, EventType
  <2>5. Channel'
    <3>1. ASSUME NEW i \in 1..Len(events')
          PROVE  /\ events'[i].to <= v
                 /\ i < Len(events') => events'[i].to < v /\ events'[i].to = events'[i + 1].from
      <4>1. CASE i = Len(events) + 1
        BY <1>3, <2>1, <4>1
      <4>2. CASE i \in 1..Len(events)
        <5>1. events'[i].to < v
          BY <1>1, <1>2, <1>3, <2>1, <2>4, <4>2 DEF Channel
        <5>2. events'[i].to = events'[i + 1].from
          <6>1. CASE i = Len(events)
            BY <1>2, <2>1, <4>2, <6>1 DEF Channel
          <6>2. CASE i < Len(events)
            BY <1>2, <2>1, <4>2, <6>2 DEF Channel
          <6> QED BY <2>1, <4>2, <6>1, <6>2
        <5> QED BY <1>3, <2>1, <2>4, <4>2, <5>1, <5>2
      <4> QED BY <2>1, <4>1, <4>2
    <3> QED BY <1>1, <2>1, <3>1 DEF Channel
  <2>6. \A r : IsNext(r) => IsNext(r)'
    BY <1>1, <2>1 DEF IsNext
  <2>7. \A r : OnTheWay(r) => OnTheWay(r)'
    BY <1>1, <2>1, <2>6 DEF OnTheWay
  <2>8. Copying'
    <3>1. \A r \in Virtual : r <= virtual => r <= virtual'
      BY <1>1, <1>3
    <3> QED BY <1>1, <1>2, <2>6, <2>7, <3>1, Zenon DEF Copying, IsNext, OnTheWay
  <2>9. ASSUME reset = NoReset, Following
        PROVE  Following'
    <3>1. parents < virtual'
      <4>1. parents \in Nat /\ parents <= virtual
        BY <1>2, <1>3, <2>9 DEF Types, Following
      <4> QED BY <1>1, <1>3, <4>1
    <3> QED BY <1>1, <1>2, <1>3, <2>1, <2>6, <2>7, <2>9, <3>1 DEF Following, SameOutpoints, Between
  <2> QED BY <1>1, <1>4, <2>2, <2>3, <2>5, <2>8, <2>9 DEF IInv, Marked
<1> QED BY <1>5, <1>6 DEF ValidateAndInsertBlock

(* CommitStagingConsensus: the mark is behind the virtual until Reset      *)
(* deletes it.                                                             *)
LEMMA CommitStagingConsensusStep ==
  ASSUME IInv, ~ExitWindow, NEW v \in Virtual, CommitStagingConsensus(v)
  PROVE  IInv'
<1>1. /\ node = "running" /\ v > virtual /\ virtual' = v /\ events = <<>>
      /\ reset' = [phase |-> "parents", at |-> None, from |-> 0]
      /\ UNCHANGED <<events, entries, parents, supply, node, replayed>>
  BY DEF CommitStagingConsensus, Alive, NoReset, db
<1>2. Types /\ Modes
  BY DEF IInv
<1>3. virtual \in Nat /\ v \in Nat /\ Virtual \subseteq Nat /\ None \notin Virtual
  BY <1>2, EventType DEF Types
<1>4. (parents # virtual)'
  BY <1>1, <1>2, <1>3 DEF Types
<1>5. Types'
  <2>1. reset' \in [phase : {"none", "parents", "supply", "entries", "copy", "mark"},
                    at : Virtual \cup {None}, from : Outpoint \cup {0}]
    BY <1>1
  <2>2. (parents # None => parents <= virtual)'
    BY <1>1, <1>2, <1>3 DEF Types
  <2> QED BY <1>1, <1>2, <2>1, <2>2 DEF Types
<1>6. Modes' /\ Channel' /\ Copying' /\ (reset # NoReset)'
  BY <1>1 DEF Modes, Channel, Copying, NoReset
<1> QED BY <1>1, <1>4, <1>5, <1>6 DEF IInv, Marked

(* What a change set adds is new in its second virtual, and what it        *)
(* removes is gone from it: an outpoint with a new DAA score is neither.   *)
LEMMA Staged ==
  ASSUME NEW e \in [from : Virtual, to : Virtual]
  PROVE  /\ StagedToAdd(e) = Set(e.to) \ Set(e.from)
         /\ StagedToRemove(e) = Set(e.from) \ Set(e.to)
BY DEF StagedToAdd, StagedToRemove, ToAdd, ToRemove, Set

(* Update: the index moves with the change set; when it replays one, the   *)
(* outpoints it touches become those of its second virtual.                *)
LEMMA UpdateStep ==
  ASSUME IInv, ~ExitWindow, Update
  PROVE  IInv'
<1> DEFINE e == events[1]
<1>1. /\ node = "running" /\ reset = NoReset /\ events # <<>>
      /\ UNCHANGED <<virtual, node, reset, replayed>>
  BY DEF Update, Alive
<1>2. Types /\ Modes /\ Channel /\ Following
  BY <1>1 DEF IInv
<1>3. /\ Virtual \subseteq Nat /\ None \notin Virtual
      /\ Len(events) \in Nat /\ Len(events) >= 1
      /\ e \in [from : Virtual, to : Virtual]
      /\ e.from \in Virtual /\ e.to \in Virtual
  BY <1>1, <1>2, EventType DEF Types
<1>4. /\ events' \in Seq([from : Virtual, to : Virtual])
      /\ Len(events') = Len(events) - 1
      /\ \A i \in 1..Len(events') : events'[i] = events[i + 1]
      /\ events' = <<>> <=> Len(events) = 1
  <2> DEFINE Event == [from : Virtual, to : Virtual]
  <2>1. events \in Seq(Event) /\ events # <<>> /\ events' = Tail(events)
    BY <1>1, <1>2 DEF Types, Update
  <2> HIDE DEF Event
  <2>2. events' \in Seq(Event) /\ Len(events') = Len(events) - 1
    BY <2>1
  <2>3. \A i \in 1..Len(events') : events'[i] = events[i + 1]
    BY <2>1
  <2>4. events' = <<>> <=> Len(events') = 0
    <3>1. \A v \in Seq(Event) : v = <<>> <=> Len(v) = 0
      OBVIOUS
    <3> QED BY <2>2, <3>1, Zenon
  <2> QED BY <1>3, <2>2, <2>3, <2>4 DEF Event
<1>5. /\ DOMAIN entries' = (DOMAIN entries \ (Set(e.from) \ Set(e.to)))
                             \cup (Set(e.to) \ Set(e.from))
      /\ parents' = e.to
      /\ supply' = (supply + Total(Set(e.to) \ Set(e.from))
                           - Total(Set(e.from) \ Set(e.to))) % Word
  <2>1. Head(events) = e
    BY <1>1, <1>2 DEF Types
  <2> HIDE DEF e
  <2> QED BY <1>3, <2>1, Staged, Zenon DEF Update
<1>6. Set(e.to) \subseteq Outpoint /\ Set(e.from) \subseteq Outpoint
  BY <1>3, VirtualUTXOAssumption DEF Set
<1>7. e.to <= virtual /\ (Len(events) > 1 => e.to < virtual)
  BY <1>2, <1>3 DEF Channel
<1>a. supply' \in 0..(Word - 1) /\ supply' # None
  <2>1. supply \in Int
    BY <1>2, BoundsAssumption DEF Types, Following
  <2>2. \A S \in SUBSET Outpoint : Total(S) \in Int
    BY TotalType
  <2>3. Total(Set(e.to) \ Set(e.from)) \in Int /\ Total(Set(e.from) \ Set(e.to)) \in Int
    BY <1>6, <2>2
  <2>4. \A n \in Int : n % Word \in 0..(Word - 1) /\ n % Word # None
    BY BoundsAssumption
  <2> QED BY <1>5, <2>1, <2>3, <2>4
<1>8. Types'
  <2>1. DOMAIN entries' \subseteq Outpoint
    BY <1>2, <1>5, <1>6 DEF Types
  <2>3. Len(events') <= Capacity
    BY <1>2, <1>3, <1>4, BoundsAssumption DEF Types
  <2> QED BY <1>1, <1>2, <1>3, <1>4, <1>5, <1>7, <1>a, <2>1, <2>3 DEF Types
<1>9. Modes'
  BY <1>1, <1>2 DEF Modes, NoReset
<1>10. Channel'
  <2>1. ASSUME NEW i \in 1..Len(events')
        PROVE  /\ events'[i].to <= virtual
               /\ i < Len(events') => events'[i].to < virtual /\ events'[i].to = events'[i + 1].from
    <3>1. i + 1 \in 1..Len(events) /\ events'[i] = events[i + 1]
      BY <1>3, <1>4
    <3>2. i < Len(events') => i + 1 < Len(events) /\ events'[i + 1] = events[(i + 1) + 1]
      BY <1>3, <1>4
    <3> QED BY <1>2, <3>1, <3>2 DEF Channel
  <2>2. events' # <<>> => events'[Len(events')].to = virtual
    BY <1>1, <1>2, <1>3, <1>4 DEF Channel
  <2> QED BY <1>1, <2>1, <2>2 DEF Channel
<1>11. IsNext(parents)'
  <2>1. CASE Len(events) = 1
    BY <1>1, <1>2, <1>3, <1>4, <1>5, <2>1 DEF IsNext, Channel
  <2>2. CASE Len(events) > 1
    <3>1. events'[1] = events[2] /\ e.to = events[2].from
      BY <1>2, <1>3, <1>4, <2>2 DEF Channel
    <3> QED BY <1>3, <1>4, <1>5, <2>2, <3>1 DEF IsNext
  <2> QED BY <1>3, <2>1, <2>2
<1>12. OnTheWay(parents)'
  BY <1>11 DEF OnTheWay, IsNext
<1>13. \A o \in Outpoint : \/ o \in DOMAIN entries' <=> o \in Set(e.to)
                           \/ /\ o \in DOMAIN entries' <=> o \in DOMAIN entries
                              /\ o \in Set(e.from) <=> o \in Set(e.to)
  BY <1>5
<1>14. (DOMAIN entries = Set(e.from) \/ DOMAIN entries = Set(e.to)) => SameOutpoints(parents)'
  <2>1. SameOutpoints(parents)' <=> DOMAIN entries' = Set(e.to)
    BY <1>5 DEF SameOutpoints, Set
  <2> QED BY <1>5, <2>1
<1> DEFINE Replaying == /\ events' # <<>>
                        /\ events'[1].from = parents'
                        /\ parents' < virtual
                        /\ \E i \in 1..Len(events') : Between(events[i].to)'
<1>15. SameOutpoints(parents)' \/ Replaying
  <2> DEFINE Mixed(i) ==
               \A o \in Outpoint : \/ o \in DOMAIN entries <=> o \in Set(e.from)
                                   \/ o \in DOMAIN entries <=> o \in Set(events[i].to)
  <2>1. ASSUME NEW i \in 1..Len(events), i # 1, Mixed(i)
        PROVE  Replaying
    <3>1. i - 1 \in 1..Len(events') /\ events'[i - 1] = events[i] /\ events' # <<>> /\ Len(events) > 1
      BY <1>3, <1>4, <2>1
    <3>2. events'[1].from = parents' /\ parents' < virtual
      BY <1>5, <1>7, <1>11, <3>1 DEF IsNext
    <3>3. Between(events[i - 1].to)'
      BY <1>5, <1>13, <2>1, <3>1 DEF Between
    <3> QED BY <3>1, <3>2, <3>3
  <2>2. CASE SameOutpoints(parents) /\ IsNext(parents)
    BY <1>1, <1>14, <2>2 DEF SameOutpoints, IsNext, Set
  <2>3. ASSUME SameOutpoints(parents), NEW i \in 1..Len(events), parents = events[i].to
        PROVE  SameOutpoints(parents)' \/ Replaying
    <3>1. CASE i = 1
      BY <1>14, <2>3, <3>1 DEF SameOutpoints, Set
    <3>2. CASE i # 1
      <4>1. DOMAIN entries = Set(events[i].to)
        BY <2>3 DEF SameOutpoints, Set
      <4>2. Mixed(i)
        BY <4>1
      <4> HIDE DEF Replaying, Mixed
      <4> QED BY <2>1, <3>2, <4>2
    <3> QED BY <3>1, <3>2
  <2>4. ASSUME e.from = parents, NEW i \in 1..Len(events), Between(events[i].to)
        PROVE  SameOutpoints(parents)' \/ Replaying
    <3>1. CASE i = 1
      <4>1. \A o \in Outpoint : o \in DOMAIN entries' <=> o \in Set(e.to)
        BY <1>13, <2>4, <3>1 DEF Between
      <4>2. DOMAIN entries' = Set(e.to)
        BY <1>6, <1>8, <4>1, Zenon DEF Types
      <4> QED BY <1>5, <4>2 DEF SameOutpoints, Set
    <3>2. CASE i # 1
      <4>1. \A o \in Outpoint : \/ o \in DOMAIN entries <=> o \in Set(e.from)
                                \/ o \in DOMAIN entries <=> o \in Set(events[i].to)
        BY <2>4 DEF Between
      <4>2. Mixed(i)
        BY <4>1
      <4> HIDE DEF Replaying, Mixed
      <4> QED BY <2>1, <3>2, <4>2
    <3> QED BY <3>1, <3>2
  <2> QED BY <1>2, <2>2, <2>3, <2>4 DEF Following, OnTheWay
<1>16. ASSUME ~replayed
       PROVE  /\ SameOutpoints(parents)'
              /\ supply' = Total(Set(e.to))
  <2>1. DOMAIN entries = Set(e.from) /\ supply = Total(Set(e.from))
    BY <1>1, <1>2, <1>16 DEF Following, SameOutpoints, IsNext, Set
  <2>2. SameOutpoints(parents)'
    BY <1>14, <2>1
  <2> DEFINE E == Set(e.from)
             A == Set(e.to) \ Set(e.from)
             R == Set(e.from) \ Set(e.to)
  <2>3. (E \ R) \cup A = Set(e.to) /\ A \cap E = {} /\ R \in SUBSET E
    OBVIOUS
  <2>4. E \in SUBSET Outpoint /\ A \in SUBSET Outpoint
    BY <1>6
  <2>5. supply' = (Total(E) + Total(A) - Total(R)) % Word
    BY <1>5, <2>1
  <2> HIDE DEF E, A, R
  <2>6. supply' = Total(Set(e.to))
    BY <2>3, <2>4, <2>5, TotalUpdate
  <2> QED BY <2>2, <2>6
<1>17. Following'
  <2>1. parents' # None /\ supply' # None
    BY <1>3, <1>5, <1>a
  <2>2. ~replayed' => /\ SameOutpoints(parents)'
                      /\ IsNext(parents)'
                      /\ supply' = Total(Set(parents'))
    BY <1>1, <1>5, <1>11, <1>16
  <2> QED BY <1>1, <1>12, <1>15, <2>1, <2>2 DEF Following, Set
<1>18. Marked'
  <2>1. ASSUME parents' = virtual'
        PROVE  SameOutpoints(virtual)'
    <3>1. ~(parents' < virtual)
      <4>1. virtual \in Nat
        BY <1>2, <1>3 DEF Types
      <4> QED BY <1>1, <2>1, <4>1
    <3> QED BY <1>1, <1>15, <2>1, <3>1 DEF SameOutpoints
  <2> QED BY <1>1, <1>5, <1>16, <2>1 DEF Marked, Set
<1>19. Copying'
  BY <1>1 DEF Copying, NoReset
<1> QED BY <1>1, <1>8, <1>9, <1>10, <1>17, <1>18, <1>19 DEF IInv

(* The steps of Reset before the copy: the mark goes first, so whatever is *)
(* left when the node stops is not taken for a synced index.               *)
LEMMA DeleteStep ==
  ASSUME IInv, node \in {"starting", "running"},
         DeleteVirtualParents \/ DeleteCirculatingSupply \/ DeleteEntry
  PROVE  IInv'
<1>1. Types /\ Modes /\ Channel /\ Copying
  BY DEF IInv
<1>2. /\ UNCHANGED <<virtual, events, node, replayed>>
      /\ reset.phase \in {"parents", "supply", "entries"}
      /\ parents' = None
      /\ reset' \in [phase : {"supply", "entries"}, at : Virtual \cup {None}, from : Outpoint \cup {0}]
      /\ supply' \in {supply, None}
      /\ DOMAIN entries' \subseteq DOMAIN entries
  <2>1. CASE DeleteVirtualParents
    BY <1>1, <2>1 DEF DeleteVirtualParents, Types
  <2>2. CASE DeleteCirculatingSupply
    BY <1>1, <2>2 DEF DeleteCirculatingSupply, Types, Copying
  <2>3. CASE DeleteEntry
    BY <1>1, <2>3 DEF DeleteEntry, Types, Copying, Restrict
  <2> QED BY <2>1, <2>2, <2>3
<1>3. Types'
  BY <1>1, <1>2, EventType DEF Types
<1>4. Modes' /\ reset' # NoReset
  BY <1>1, <1>2 DEF Modes, NoReset
<1>5. Channel'
  BY <1>1, <1>2 DEF Channel
<1>6. Copying'
  BY <1>2 DEF Copying
<1>7. Marked'
  BY <1>1, <1>2, EventType DEF Marked, Types
<1> QED BY <1>2, <1>3, <1>4, <1>5, <1>6, <1>7 DEF IInv

(* ReadVirtualInfo: nothing is copied yet, and the channel ends at the     *)
(* virtual that will be copied.                                            *)
LEMMA ReadVirtualInfoStep ==
  ASSUME IInv, node \in {"starting", "running"}, ReadVirtualInfo
  PROVE  IInv'
<1>1. Types /\ Modes /\ Channel /\ Copying
  BY DEF IInv
<1>2. /\ UNCHANGED <<virtual, events, entries, parents, node>>
      /\ parents = None
      /\ DOMAIN entries = {}
      /\ supply' = Total(DOMAIN entries)
      /\ reset' = [phase |-> "copy", at |-> virtual, from |-> 0]
      /\ replayed' = (events # <<>>)
  BY <1>1 DEF ReadVirtualInfo, Copying
<1>3. Virtual \subseteq Nat /\ None \notin Virtual /\ virtual \in Virtual /\ Len(events) \in Nat
  BY <1>1, EventType DEF Types
<1>4. Types'
  <2>1. reset' \in [phase : {"none", "parents", "supply", "entries", "copy", "mark"},
                    at : Virtual \cup {None}, from : Outpoint \cup {0}]
    BY <1>2, <1>3
  <2>2. supply' \in 0..(Word - 1)
    BY <1>2, TotalType
  <2> QED BY <1>1, <1>2, <2>1, <2>2 DEF Types
<1>5. Modes' /\ reset' # NoReset
  BY <1>1, <1>2 DEF Modes, NoReset
<1>6. Channel'
  BY <1>1, <1>2 DEF Channel
<1>7. OnTheWay(virtual)
  <2>1. CASE events = <<>>
    BY <2>1 DEF OnTheWay, IsNext
  <2>2. CASE events # <<>>
    <3>1. Len(events) \in 1..Len(events)
      BY <1>1, <2>2 DEF Types
    <3> QED BY <1>1, <2>2, <3>1 DEF Channel, OnTheWay
  <2> QED BY <2>1, <2>2
<1>8. Copying'
  <2>1. {o \in Set(virtual) : o <= 0} = {}
    <3>1. \A o \in Set(virtual) : o \in Nat \ {0}
      BY <1>3, VirtualUTXOAssumption, OutpointAssumption, Zenon DEF Set
    <3>2. \A o \in Nat \ {0} : ~(o <= 0)
      OBVIOUS
    <3> QED BY <3>1, <3>2
  <2>2. ~replayed' => IsNext(virtual)
    BY <1>2, Zenon DEF IsNext
  <2>3. virtual <= virtual
    BY <1>3
  <2>4. reset'.phase = "copy" /\ reset'.at = virtual /\ reset'.from = 0
    BY <1>2
  <2>5. OnTheWay(reset.at)' /\ (~replayed => IsNext(reset.at))'
    BY <1>2, <1>7, <2>2, <2>4 DEF OnTheWay, IsNext
  <2>6. DOMAIN entries' = {o \in Set(reset'.at) : o <= reset'.from}
    BY <1>2, <2>1, <2>4
  <2> QED BY <1>2, <1>3, <2>3, <2>4, <2>5, <2>6 DEF Copying, Set
<1>9. Marked'
  BY <1>2, <1>3 DEF Marked
<1> QED BY <1>2, <1>4, <1>5, <1>6, <1>8, <1>9 DEF IInv

(* CopyOutpoints: the next outpoints come after those copied so far, and a *)
(* short step is the last one.                                             *)
LEMMA CopyOutpointsStep ==
  ASSUME IInv, node \in {"starting", "running"}, CopyOutpoints
  PROVE  IInv'
<1> DEFINE read == VirtualUTXOs(reset.from)
           rest == {o \in Set(virtual) : o > reset.from}
<1>1. Types /\ Modes /\ Channel /\ Copying
  BY DEF IInv
<1>2. /\ UNCHANGED <<virtual, events, parents, node, replayed>>
      /\ reset.phase = "copy"
      /\ reset.at = virtual
      /\ DOMAIN entries' = DOMAIN entries \cup read
      /\ supply' = (supply + Total(read)) % Word
      /\ reset' = IF Cardinality(read) < Step THEN [reset EXCEPT !.phase = "mark"]
                                              ELSE [reset EXCEPT !.from = Max(read)]
  BY DEF CopyOutpoints, ExpectedVirtualParents
<1>3. /\ parents = None
      /\ OnTheWay(virtual)
      /\ ~replayed => IsNext(virtual)
      /\ supply = Total(DOMAIN entries)
      /\ DOMAIN entries = {o \in Set(virtual) : o <= reset.from}
  BY <1>1, <1>2 DEF Copying, OnTheWay, IsNext
<1>4. /\ Virtual \subseteq Nat /\ None \notin Virtual /\ virtual \in Virtual
      /\ reset.from \in Outpoint \cup {0} /\ reset.from \in Nat
      /\ Set(virtual) \subseteq Outpoint
      /\ Outpoint \subseteq Nat
  <2>1. Virtual \subseteq Nat /\ None \notin Virtual /\ virtual \in Virtual
    BY <1>1, EventType DEF Types
  <2>2. reset.from \in Outpoint \cup {0}
    BY <1>1 DEF Types
  <2>3. Outpoint \subseteq Nat
    BY OutpointAssumption
  <2>4. Set(virtual) \subseteq Outpoint
    BY <2>1, VirtualUTXOAssumption DEF Set
  <2>5. reset.from \in Nat
    <3>1. \A n \in Outpoint \cup {0} : n \in Nat
      BY <2>3
    <3> QED BY <2>2, <3>1
  <2> QED BY <2>1, <2>2, <2>3, <2>4, <2>5
<1>5. /\ read \subseteq rest
      /\ Cardinality(read) < Step => read = rest
      /\ ~(Cardinality(read) < Step) =>
            /\ Max(read) \in Outpoint
            /\ read = {o \in Set(virtual) : o > reset.from /\ o <= Max(read)}
  BY <1>4, StepOfReset
<1> HIDE DEF read
<1>6. supply' = Total(DOMAIN entries')
  <2>1. read \cap DOMAIN entries = {} /\ read \in SUBSET Outpoint /\ DOMAIN entries \in SUBSET Outpoint
    <3>1. \A o \in Nat : ~(o > reset.from /\ o <= reset.from)
      BY <1>4
    <3> QED BY <1>3, <1>4, <1>5, <3>1, Zenon
  <2> QED BY <1>2, <1>3, <2>1, TotalUnion
<1>7. DOMAIN entries' \in SUBSET Outpoint
  BY <1>2, <1>3, <1>4, <1>5
<1>8. supply' \in 0..(Word - 1)
  BY <1>6, <1>7, TotalType
<1>9. CASE Cardinality(read) < Step
  <2>1. reset' = [phase |-> "mark", at |-> virtual, from |-> reset.from]
    BY <1>1, <1>2, <1>9 DEF Types
  <2>2. DOMAIN entries' = Set(virtual)
    BY <1>2, <1>3, <1>4, <1>5, <1>9
  <2>3. Types'
    BY <1>1, <1>2, <1>4, <1>7, <1>8, <2>1 DEF Types
  <2>4. Modes' /\ reset' # NoReset
    BY <1>1, <1>2, <2>1 DEF Modes, NoReset
  <2>5. Channel'
    BY <1>1, <1>2 DEF Channel
  <2>6. Copying'
    BY <1>2, <1>3, <1>4, <1>6, <2>1, <2>2 DEF Copying, OnTheWay, IsNext
  <2>7. Marked'
    BY <1>2, <1>3, <1>4 DEF Marked
  <2> QED BY <1>2, <2>3, <2>4, <2>5, <2>6, <2>7 DEF IInv
<1>10. CASE ~(Cardinality(read) < Step)
  <2>1. reset' = [phase |-> "copy", at |-> virtual, from |-> Max(read)]
    BY <1>1, <1>2, <1>10 DEF Types
  <2>2. read # {}
    BY <1>10, FS_EmptySet, BoundsAssumption
  <2>3. Max(read) \in Outpoint /\ Max(read) \in Nat /\ Max(read) > reset.from
    <3>1. PICK o \in read : TRUE
      BY <2>2
    <3>2. Max(read) \in Nat /\ o \in Nat /\ o > reset.from /\ o <= Max(read)
      BY <1>4, <1>5, <1>10, <3>1, Zenon
    <3> QED BY <1>4, <1>5, <1>10, <3>2
  <2>4. DOMAIN entries' = {o \in Set(virtual) : o <= Max(read)}
    BY <1>2, <1>3, <1>4, <1>5, <1>10, <2>3
  <2>5. Types'
    BY <1>1, <1>2, <1>4, <1>7, <1>8, <2>1, <2>3 DEF Types
  <2>6. Modes' /\ reset' # NoReset
    BY <1>1, <1>2, <2>1 DEF Modes, NoReset
  <2>7. Channel'
    BY <1>1, <1>2 DEF Channel
  <2>8. Copying'
    BY <1>2, <1>3, <1>4, <1>6, <2>1, <2>4 DEF Copying, OnTheWay, IsNext
  <2>9. Marked'
    BY <1>2, <1>3, <1>4 DEF Marked
  <2> QED BY <1>2, <2>5, <2>6, <2>7, <2>8, <2>9 DEF IInv
<1> QED BY <1>9, <1>10

(* ResetFails: the mark stays away.                                        *)
LEMMA ResetFailsStep ==
  ASSUME IInv, node \in {"starting", "running"}, ResetFails
  PROVE  IInv'
<1>1. Types /\ Modes /\ Marked
  BY DEF IInv
<1>2. /\ UNCHANGED <<virtual, events, entries, parents, supply, replayed>>
      /\ reset' = NoReset /\ node' = "exiting"
  BY DEF ResetFails, Panic, db
<1>3. Types'
  BY <1>1, <1>2 DEF Types, NoReset
<1>4. Modes' /\ Marked'
  BY <1>1, <1>2 DEF Modes, Marked, NoReset, SameOutpoints
<1> QED BY <1>2, <1>3, <1>4 DEF IInv

(* UpdateVirtualParents: the index is whole when it gets its mark.         *)
LEMMA UpdateVirtualParentsStep ==
  ASSUME IInv, node \in {"starting", "running"}, UpdateVirtualParents
  PROVE  IInv'
<1>1. Types /\ Modes /\ Channel /\ Copying
  BY DEF IInv
<1>2. /\ UNCHANGED <<virtual, events, entries, supply, replayed>>
      /\ reset.phase = "mark"
      /\ parents' = reset.at /\ reset' = NoReset /\ node' = "running"
  BY DEF UpdateVirtualParents
<1>3. /\ reset.at \in Virtual
      /\ reset.at <= virtual
      /\ OnTheWay(reset.at)
      /\ ~replayed => IsNext(reset.at)
      /\ supply = Total(Set(reset.at))
      /\ DOMAIN entries = Set(reset.at)
  BY <1>1, <1>2 DEF Copying
<1>4. Virtual \subseteq Nat /\ None \notin Virtual
  BY <1>1, EventType
<1>5. supply # None
  <2>1. Set(reset.at) \in SUBSET Outpoint
    BY <1>3, VirtualUTXOAssumption DEF Set
  <2>2. supply \in 0..(Word - 1)
    BY <1>3, <2>1, TotalType
  <2> QED BY <2>2, BoundsAssumption
<1>6. Types'
  BY <1>1, <1>2, <1>3 DEF Types, NoReset
<1>7. Modes' /\ Channel' /\ Copying'
  BY <1>1, <1>2 DEF Modes, Channel, Copying, NoReset
<1>8. Following' /\ Marked'
  BY <1>2, <1>3, <1>4, <1>5 DEF Following, Marked, SameOutpoints, OnTheWay, IsNext, Set
<1> QED BY <1>2, <1>6, <1>7, <1>8 DEF IInv

(* New: a node that finds the mark of the virtual goes on from it.         *)
LEMMA NewStep ==
  ASSUME IInv, New
  PROVE  IInv'
<1>1. Types /\ Modes /\ Marked /\ events = <<>>
  BY DEF IInv, Modes, New
<1>2. UNCHANGED <<virtual, events, entries, parents, supply, replayed>> /\ reset = NoReset
  BY <1>1 DEF New, db, Modes
<1>3. Virtual \subseteq Nat /\ None \notin Virtual /\ virtual \in Virtual
  BY <1>1, EventType, SMTT(30) DEF Types
<1>4. Channel' /\ Marked'
  BY <1>1, <1>2 DEF Channel, Marked, SameOutpoints
<1>5. CASE parents = virtual /\ supply # None /\ node' = "running" /\ UNCHANGED reset
  <2>1. Types'
    BY <1>1, <1>2, <1>5 DEF Types
  <2>2. Modes' /\ Copying'
    BY <1>1, <1>2, <1>5 DEF Modes, Copying, NoReset
  <2>3. Following'
    BY <1>1, <1>2, <1>3, <1>5 DEF Following, Marked, SameOutpoints, OnTheWay, IsNext, Set
  <2> QED BY <1>4, <2>1, <2>2, <2>3 DEF IInv
<1>6. CASE node' = "starting" /\ reset' = [NoReset EXCEPT !.phase = "parents"]
  <2>1. reset' = [phase |-> "parents", at |-> None, from |-> 0]
    BY <1>6 DEF NoReset
  <2>2. Types'
    BY <1>1, <1>2, <1>6, <2>1 DEF Types
  <2>3. Modes' /\ Copying'
    BY <1>1, <1>2, <1>6, <2>1 DEF Modes, Copying
  <2> QED BY <1>4, <1>6, <2>2, <2>3 DEF IInv
<1> QED BY <1>5, <1>6 DEF New, IsSynced

(* Crash and Exit: the database keeps what the mark promises.              *)
LEMMA StopStep ==
  ASSUME IInv, Stop
  PROVE  IInv'
<1>1. Types /\ Marked
  BY DEF IInv
<1>2. /\ UNCHANGED <<virtual, entries, parents, supply, replayed>>
      /\ node' = "down" /\ events' = <<>> /\ reset' = NoReset
  BY DEF Stop, db
<1>3. Types'
  <2>1. events' \in Seq([from : Virtual, to : Virtual]) /\ Len(events') <= Capacity
    BY <1>2, BoundsAssumption
  <2> QED BY <1>1, <1>2, <2>1 DEF Types, NoReset
<1>4. Modes' /\ Marked'
  BY <1>1, <1>2 DEF Modes, Marked, NoReset, SameOutpoints
<1> QED BY <1>2, <1>3, <1>4 DEF IInv

(* Every step preserves the invariant.                                     *)
LEMMA NextIInv ==
  ASSUME IInv, ~ExitWindow, [Next]_vars
  PROVE  IInv'
<1>1. ASSUME NEW v \in Virtual, ValidateAndInsertBlock(v) PROVE IInv'
  BY <1>1, ValidateAndInsertBlockStep
<1>2. ASSUME NEW v \in Virtual, CommitStagingConsensus(v) PROVE IInv'
  BY <1>2, CommitStagingConsensusStep
<1>3. CASE Update
  BY <1>3, UpdateStep
<1>4. CASE ResetStep
  <2>1. node \in {"starting", "running"}
    BY <1>4 DEF ResetStep, Alive
  <2> QED BY <1>4, <2>1, DeleteStep, ReadVirtualInfoStep, CopyOutpointsStep, ResetFailsStep,
             UpdateVirtualParentsStep DEF ResetStep
<1>5. CASE New
  BY <1>5, NewStep
<1>6. CASE Crash \/ Exit
  BY <1>6, StopStep, SMTT(30) DEF Crash, Exit
<1>7. CASE UNCHANGED vars
  <2>1. UNCHANGED <<virtual, events, entries, parents, supply, node, reset, replayed>>
    BY <1>7 DEF vars
  <2> QED BY <2>1 DEF IInv, Types, Modes, Marked, Channel, Copying, Following, SameOutpoints,
                      OnTheWay, IsNext, Between, NoReset
<1> QED BY <1>1, <1>2, <1>3, <1>4, <1>5, <1>6, <1>7 DEF Next

(* The invariant implies what the runs check.                              *)
LEMMA IInvImplies ==
  ASSUME IInv, ~ExitWindow
  PROVE  SyncedMeansSameOutpoints /\ ReadersSeeOneVirtual
<1>1. Types /\ Marked
  BY DEF IInv
<1>2. Alive /\ reset = NoReset => Following
  BY SMTT(30) DEF IInv, Alive
<1>3. TypeOK
  BY <1>1, <1>2, SMTT(30) DEF TypeOK, Types, Following
<1>4. ReadersSeeOneVirtual
  BY <1>2 DEF ReadersSeeOneVirtual, Following, Set
<1> QED BY <1>1, <1>3, <1>4 DEF SyncedMeansSameOutpoints, Marked

-----------------------------------------------------------------------------
(* When the goroutines of the node end with a panic, an index whose mark   *)
(* is that of the virtual (all that isSynced looks at) has the outpoints   *)
(* of the virtual, whatever crashes, Resets and queued change sets came    *)
(* before.                                                                 *)
THEOREM SyncedIndexIsCorrect ==
  ~ExitWindow => (Spec => []SyncedMeansSameOutpoints)
<1> SUFFICES ASSUME ~ExitWindow PROVE Spec => []SyncedMeansSameOutpoints
  OBVIOUS
<1>1. Init => IInv
  BY InitIInv
<1>2. IInv /\ [Next]_vars => IInv'
  BY NextIInv
<1>3. IInv => SyncedMeansSameOutpoints
  BY IInvImplies
<1> QED BY <1>1, <1>2, <1>3, PTL DEF Spec

(* UTXOs and GetCirculatingSompiSupply see the outpoints and the supply of *)
(* the virtual whose parents are stored, for any amounts, also where a sum *)
(* wraps around.                                                           *)
THEOREM ReadersSeeWholeChangeSets ==
  ~ExitWindow => (Spec => []ReadersSeeOneVirtual)
<1> SUFFICES ASSUME ~ExitWindow PROVE Spec => []ReadersSeeOneVirtual
  OBVIOUS
<1>1. Init => IInv
  BY InitIInv
<1>2. IInv /\ [Next]_vars => IInv'
  BY NextIInv
<1>3. IInv => ReadersSeeOneVirtual
  BY IInvImplies
<1> QED BY <1>1, <1>2, <1>3, PTL DEF Spec
=============================================================================
