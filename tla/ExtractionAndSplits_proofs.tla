-------------------- MODULE ExtractionAndSplits_proofs --------------------
(***************************************************************************)
(* Proofs about what the files of the sources and the splits make of the   *)
(* records.  PlaidExtraction, for any number of items, accounts and        *)
(* transactions, any page size and any changes by the bank: the bundle is  *)
(* the bank's log as it was read, to the entry (BundleIsExact), and the    *)
(* opening balances derived from it are what the bank's books say but for  *)
(* what each late, pending or misjudged transaction puts them off          *)
(* (BalancesExplained).                                                    *)
(* SplitFrames, for frames of any length with any keys and any synthetic   *)
(* records: which rows the splits lose, why they reject one, and that the  *)
(* mappers and the generator get the verdicts they mean.                   *)
(***************************************************************************)
EXTENDS PlaidExtraction, SplitFrames, FiniteSetTheorems, SequenceTheorems,
        WellFoundedInduction, TLAPS

-----------------------------------------------------------------------------
(* Sums over finite sets: MapThenSumSet takes an operator, which no fact   *)
(* can be stated for; these are stated for the function with its values.   *)
First(T) == CHOOSE x \in T : TRUE

Totals(f, w, S) ==
  \A T \in SUBSET S : f[T] = IF T = {} THEN 0 ELSE w[First(T)] + f[T \ {First(T)}]

Sums(f, w, S) == f \in [SUBSET S -> Int] /\ Totals(f, w, S)

SumOver(w, S) == MapThenSumSet(LAMBDA i : w[i], S)

(* A set that is not empty has a first element.                            *)
LEMMA FirstIsIn == \A T : T # {} => First(T) \in T
BY DEF First

(* Among the subsets of a finite set, one with nothing smaller beside it.  *)
LEMMA SmallestSubset ==
  ASSUME NEW S, IsFiniteSet(S), NEW B \in SUBSET (SUBSET S), B # {}
  PROVE  \E T \in B : \A U \in B : U \subseteq T => U = T
<1>1. IsWellFoundedOn(StrictSubsetOrdering(S), FiniteSubsetsOf(S))
  BY FS_StrictSubsetOrderingWellFounded
<1>2. FiniteSubsetsOf(S) = SUBSET S
  BY FS_FiniteSubsetsOfFinite
<1>3. PICK T \in B : \A U \in B : ~(<<U, T>> \in StrictSubsetOrdering(S))
  BY <1>1, <1>2, WFMin, ZenonT(30)
<1>4. ASSUME NEW U \in B, U \subseteq T PROVE U = T
  <2>1. U \subseteq S /\ T \subseteq S
    OBVIOUS
  <2> QED
    BY <1>3, <1>4, <2>1 DEF StrictSubsetOrdering
<1> QED
  BY <1>3, <1>4

(* What a sum comes to does not depend on the set it is taken in.          *)
LEMMA SumsAgree ==
  ASSUME NEW S, NEW R, IsFiniteSet(S), NEW v, NEW w, NEW f, NEW g,
         Sums(f, w, S), Sums(g, v, R), NEW T \in SUBSET S, T \subseteq R,
         \A x \in T : v[x] = w[x]
  PROVE  f[T] = g[T]
<1> DEFINE B == {U \in SUBSET S : U \subseteq T /\ f[U] # g[U]}
<1> SUFFICES ASSUME B # {} PROVE FALSE
  OBVIOUS
<1>1. PICK U \in B : \A V \in B : V \subseteq U => V = U
  <2>1. B \in SUBSET (SUBSET S)
    OBVIOUS
  <2> HIDE DEF B
  <2> QED
    BY <2>1, SmallestSubset
<1> DEFINE x == First(U)
           V == U \ {x}
<1>2. U \in SUBSET S /\ U \in SUBSET R /\ U \subseteq T /\ f[U] # g[U]
  OBVIOUS
<1>3. f[U] = (IF U = {} THEN 0 ELSE w[x] + f[V]) /\ g[U] = (IF U = {} THEN 0 ELSE v[x] + g[V])
  BY <1>2 DEF Sums, Totals
<1>4. U # {}
  BY <1>2, <1>3
<1>5. x \in U
  BY <1>4, FirstIsIn
<1> HIDE DEF x
<1>6. V \in SUBSET S /\ V \subseteq T /\ V \subseteq U /\ V # U
  BY <1>2, <1>5
<1>7. f[V] = g[V]
  BY <1>1, <1>6
<1>8. v[x] = w[x]
  BY <1>2, <1>5
<1> QED
  BY <1>2, <1>3, <1>4, <1>7, <1>8

(* Every finite set has a sum: the smallest subset without one is neither  *)
(* empty nor one element more than a set that has one.                     *)
LEMMA SumsExist ==
  ASSUME NEW S, IsFiniteSet(S), NEW w, \A x \in S : w[x] \in Int
  PROVE  \E f : Sums(f, w, S)
<1> DEFINE B == {U \in SUBSET S : ~\E f : Sums(f, w, U)}
<1> SUFFICES ASSUME B # {} PROVE FALSE
  OBVIOUS
<1>1. PICK T \in B : \A V \in B : V \subseteq T => V = T
  <2>1. B \in SUBSET (SUBSET S)
    OBVIOUS
  <2> HIDE DEF B
  <2> QED
    BY <2>1, SmallestSubset
<1> DEFINE Of(U) == CHOOSE f : Sums(f, w, U)
           value == [U \in SUBSET T |-> Of(U)[U]]
           full == w[First(T)] + value[T \ {First(T)}]
           F == [U \in SUBSET T |-> IF U = T THEN IF T = {} THEN 0 ELSE full ELSE value[U]]
<1>2. T \in SUBSET S /\ ~\E f : Sums(f, w, T)
  OBVIOUS
<1>3. ASSUME NEW U \in SUBSET T, U # T PROVE Sums(Of(U), w, U)
  <2>1. U \notin B /\ U \in SUBSET S
    BY <1>1, <1>2, <1>3
  <2>2. \E f : Sums(f, w, U)
    BY <2>1
  <2> QED
    BY <2>2
<1> HIDE DEF Of, B
<1>4. ASSUME NEW U \in SUBSET T, U # T
      PROVE  /\ value[U] \in Int
             /\ value[U] = IF U = {} THEN 0 ELSE w[First(U)] + value[U \ {First(U)}]
  <2>1. Sums(Of(U), w, U) /\ U \in SUBSET U /\ value[U] = Of(U)[U]
    BY <1>3, <1>4
  <2>2. /\ Of(U)[U] \in Int
        /\ Of(U)[U] = IF U = {} THEN 0 ELSE w[First(U)] + Of(U)[U \ {First(U)}]
    BY <2>1 DEF Sums, Totals
  <2>3. CASE U = {}
    BY <2>1, <2>2, <2>3
  <2>4. CASE U # {}
    <3> DEFINE V == U \ {First(U)}
    <3>1. V \in SUBSET T /\ V # T /\ V \in SUBSET U /\ value[V] = Of(V)[V]
      BY <1>4
    <3>2. Sums(Of(V), w, V) /\ IsFiniteSet(U) /\ IsFiniteSet(V)
      BY <1>2, <1>3, <3>1, FS_Subset
    <3> HIDE DEF V
    <3>3. Of(V)[V] = Of(U)[V]
      BY <2>1, <3>1, <3>2, SumsAgree
    <3> QED
      BY <2>1, <2>2, <2>4, <3>1, <3>3 DEF V
  <2> QED
    BY <2>3, <2>4
<1> HIDE DEF value
<1>5. ASSUME T # {} PROVE full \in Int
  <2>1. First(T) \in T
    BY <1>5, FirstIsIn
  <2>2. T \ {First(T)} \in SUBSET T /\ T \ {First(T)} # T /\ w[First(T)] \in Int
    BY <1>2, <2>1
  <2>3. value[T \ {First(T)}] \in Int
    BY <1>4, <2>2
  <2> QED
    BY <2>2, <2>3
<1>6. F \in [SUBSET T -> Int]
  <2> HIDE DEF full
  <2> SUFFICES ASSUME NEW U \in SUBSET T
               PROVE  (IF U = T THEN IF T = {} THEN 0 ELSE full ELSE value[U]) \in Int
    OBVIOUS
  <2>1. ASSUME U # T PROVE value[U] \in Int
    BY <1>4, <2>1
  <2> HIDE DEF F
  <2> QED
    BY <1>5, <2>1
<1>7. ASSUME NEW U \in SUBSET T
      PROVE  F[U] = IF U = {} THEN 0 ELSE w[First(U)] + F[U \ {First(U)}]
  <2>1. CASE U = {}
    BY <1>4, <2>1
  <2>2. CASE U # {}
    <3>1. First(U) \in U
      BY <2>2, FirstIsIn
    <3>2. U \ {First(U)} \in SUBSET T /\ U \ {First(U)} # T
      BY <3>1
    <3>3. F[U \ {First(U)}] = value[U \ {First(U)}]
      BY <3>2
    <3>4. F[U] = w[First(U)] + value[U \ {First(U)}]
      BY <1>4, <2>2
    <3> QED
      BY <2>2, <3>3, <3>4
  <2> QED
    BY <2>1, <2>2
<1>8. Sums(F, w, T)
  BY <1>6, <1>7 DEF Sums, Totals
<1> QED
  BY <1>2, <1>8

(* Whatever satisfies the equation of a sum comes to the same.             *)
LEMMA Determined ==
  ASSUME NEW S, IsFiniteSet(S), NEW w, NEW f, Sums(f, w, S), NEW g, Totals(g, w, S)
  PROVE  g[S] = f[S]
<1> DEFINE B == {T \in SUBSET S : g[T] # f[T]}
<1> SUFFICES ASSUME B # {} PROVE FALSE
  OBVIOUS
<1>1. PICK U \in B : \A V \in B : V \subseteq U => V = U
  <2>1. B \in SUBSET (SUBSET S)
    OBVIOUS
  <2> HIDE DEF B
  <2> QED
    BY <2>1, SmallestSubset
<1>2. U \in SUBSET S /\ f[U] # g[U]
  OBVIOUS
<1>3. f[U] = (IF U = {} THEN 0 ELSE w[First(U)] + f[U \ {First(U)}])
  BY <1>2 DEF Sums, Totals
<1>4. g[U] = (IF U = {} THEN 0 ELSE w[First(U)] + g[U \ {First(U)}])
  BY <1>2 DEF Totals
<1>5. U # {}
  BY <1>2, <1>3, <1>4
<1>6. First(U) \in U
  BY <1>5, FirstIsIn
<1>7. f[U \ {First(U)}] = g[U \ {First(U)}]
  BY <1>1, <1>2, <1>6
<1> QED
  BY <1>2, <1>3, <1>4, <1>5, <1>7

(* The library's sum is one of these.                                      *)
LEMMA SumOverSums ==
  ASSUME NEW S, IsFiniteSet(S), NEW w, \A x \in S : w[x] \in Int
  PROVE  \E f : Sums(f, w, S) /\ SumOver(w, S) = f[S]
<1> DEFINE Eq(f) == f = [T \in SUBSET S |-> IF T = {} THEN 0
                         ELSE w[CHOOSE x \in T : TRUE] + f[T \ {CHOOSE x \in T : TRUE}]]
           g == CHOOSE f : Eq(f)
<1>1. PICK f : Sums(f, w, S)
  BY SumsExist
<1>2. Eq(f)
  BY <1>1 DEF Sums, Totals, First
<1>3. Eq(g)
  <2>1. \E e : Eq(e)
    BY <1>2
  <2> HIDE DEF Eq
  <2> QED
    BY <2>1
<1>4. SumOver(w, S) = g[S]
  BY DEF SumOver, MapThenSumSet, MapThenFoldSet
<1> HIDE DEF g
<1>5. g[S] = f[S]
  <2>1. Totals(g, w, S)
    BY <1>3 DEF Totals, First
  <2> QED
    BY <1>1, <2>1, Determined
<1> QED
  BY <1>1, <1>4, <1>5

(* So are the sums of the balances' derivation,                            *)
LEMMA SignedTotalIs ==
  ASSUME NEW t, NEW S, IsFiniteSet(S), NEW w,
         \A x \in S : w[x] \in Int /\ w[x] = SignedAmount(t[x])
  PROVE  SignedTotal(t, S) = SumOver(w, S)
<1> DEFINE Eq(f) == f = [T \in SUBSET S |-> IF T = {} THEN 0
                         ELSE SignedAmount(t[CHOOSE x \in T : TRUE])
                              + f[T \ {CHOOSE x \in T : TRUE}]]
           g == CHOOSE f : Eq(f)
<1>1. \A x \in S : w[x] \in Int
  OBVIOUS
<1>2. PICK f : Sums(f, w, S) /\ SumOver(w, S) = f[S]
  BY <1>1, SumOverSums
<1>3. \A T \in SUBSET S : T # {} => w[First(T)] = SignedAmount(t[First(T)])
  BY FirstIsIn
<1>4. Eq(f)
  BY <1>2, <1>3 DEF Sums, Totals, First
<1>5. Eq(g)
  <2>1. \E e : Eq(e)
    BY <1>4
  <2> HIDE DEF Eq
  <2> QED
    BY <2>1
<1>6. SignedTotal(t, S) = g[S]
  BY DEF SignedTotal, MapThenSumSet, MapThenFoldSet
<1> HIDE DEF g
<1>7. Totals(g, w, S)
  BY <1>3, <1>5 DEF Totals, First
<1>8. g[S] = f[S]
  BY <1>2, <1>7, Determined
<1> QED
  BY <1>2, <1>6, <1>8

(* of the bank's books,                                                    *)
LEMMA BookedInIs ==
  ASSUME NEW log, NEW S, IsFiniteSet(S), NEW w,
         \A x \in S : w[x] \in Int /\ w[x] = Booked(log[x])
  PROVE  BookedIn(log, S) = SumOver(w, S)
<1> DEFINE Eq(f) == f = [T \in SUBSET S |-> IF T = {} THEN 0
                         ELSE Booked(log[CHOOSE x \in T : TRUE])
                              + f[T \ {CHOOSE x \in T : TRUE}]]
           g == CHOOSE f : Eq(f)
<1>1. \A x \in S : w[x] \in Int
  OBVIOUS
<1>2. PICK f : Sums(f, w, S) /\ SumOver(w, S) = f[S]
  BY <1>1, SumOverSums
<1>3. \A T \in SUBSET S : T # {} => w[First(T)] = Booked(log[First(T)])
  BY FirstIsIn
<1>4. Eq(f)
  BY <1>2, <1>3 DEF Sums, Totals, First
<1>5. Eq(g)
  <2>1. \E e : Eq(e)
    BY <1>4
  <2> HIDE DEF Eq
  <2> QED
    BY <2>1
<1>6. BookedIn(log, S) = g[S]
  BY DEF BookedIn, MapThenSumSet, MapThenFoldSet
<1> HIDE DEF g
<1>7. Totals(g, w, S)
  BY <1>3, <1>5 DEF Totals, First
<1>8. g[S] = f[S]
  BY <1>2, <1>7, Determined
<1> QED
  BY <1>2, <1>6, <1>8

(* and of what puts an opening off.                                        *)
LEMMA ShiftTotalIs ==
  ASSUME NEW p, NEW day, NEW S, IsFiniteSet(S), NEW w,
         \A x \in S : w[x] \in Int /\ w[x] = Shift(p, x, day)
  PROVE  MapThenSumSet(LAMBDA i : Shift(p, i, day), S) = SumOver(w, S)
<1> DEFINE Eq(f) == f = [T \in SUBSET S |-> IF T = {} THEN 0
                         ELSE Shift(p, CHOOSE x \in T : TRUE, day)
                              + f[T \ {CHOOSE x \in T : TRUE}]]
           g == CHOOSE f : Eq(f)
<1>1. \A x \in S : w[x] \in Int
  OBVIOUS
<1>2. PICK f : Sums(f, w, S) /\ SumOver(w, S) = f[S]
  BY <1>1, SumOverSums
<1>3. \A T \in SUBSET S : T # {} => w[First(T)] = Shift(p, First(T), day)
  BY FirstIsIn
<1>4. Eq(f)
  BY <1>2, <1>3 DEF Sums, Totals, First
<1>5. Eq(g)
  <2>1. \E e : Eq(e)
    BY <1>4
  <2> HIDE DEF Eq
  <2> QED
    BY <2>1
<1>6. MapThenSumSet(LAMBDA i : Shift(p, i, day), S) = g[S]
  BY DEF MapThenSumSet, MapThenFoldSet
<1> HIDE DEF g
<1>7. Totals(g, w, S)
  BY <1>3, <1>5 DEF Totals, First
<1>8. g[S] = f[S]
  BY <1>2, <1>7, Determined
<1> QED
  BY <1>2, <1>6, <1>8

(* Nothing sums up to 0; any element of a set may be taken out of its sum. *)
LEMMA SumWithout ==
  /\ \A w : SumOver(w, {}) = 0
  /\ \A S, w : IsFiniteSet(S) /\ (\A x \in S : w[x] \in Int) =>
       /\ SumOver(w, S) \in Int
       /\ \A x \in S : SumOver(w, S) = w[x] + SumOver(w, S \ {x})
<1>1. ASSUME NEW w PROVE SumOver(w, {}) = 0
  <2>1. IsFiniteSet({}) /\ \A x \in {} : w[x] \in Int
    BY FS_EmptySet
  <2>2. PICK f : Sums(f, w, {}) /\ SumOver(w, {}) = f[{}]
    BY <2>1, SumOverSums
  <2> QED
    BY <2>2 DEF Sums, Totals
<1>2. ASSUME NEW S, NEW w, IsFiniteSet(S), \A x \in S : w[x] \in Int
      PROVE  /\ SumOver(w, S) \in Int
             /\ \A x \in S : SumOver(w, S) = w[x] + SumOver(w, S \ {x})
  <2>1. PICK f : Sums(f, w, S) /\ SumOver(w, S) = f[S]
    BY <1>2, SumOverSums
  <2>2. /\ f \in [SUBSET S -> Int]
        /\ \A T \in SUBSET S : T # {} => f[T] = w[First(T)] + f[T \ {First(T)}]
    BY <2>1 DEF Sums, Totals
  <2> DEFINE B == {T \in SUBSET S : \E x \in T : f[T] # w[x] + f[T \ {x}]}
  <2>3. B = {}
    <3> SUFFICES ASSUME B # {} PROVE FALSE
      OBVIOUS
    <3>1. PICK T \in B : \A V \in B : V \subseteq T => V = T
      <4>1. B \in SUBSET (SUBSET S)
        OBVIOUS
      <4> HIDE DEF B
      <4> QED
        BY <1>2, <4>1, SmallestSubset
    <3>2. T \in SUBSET S
      OBVIOUS
    <3>3. PICK x \in T : f[T] # w[x] + f[T \ {x}]
      OBVIOUS
    <3> DEFINE y == First(T)
    <3>4. y \in T /\ f[T] = w[y] + f[T \ {y}] /\ x # y
      BY <2>2, <3>2, <3>3, FirstIsIn
    <3> HIDE DEF y
    <3>5. /\ T \ {x} \notin B /\ T \ {x} \in SUBSET S /\ y \in T \ {x}
          /\ T \ {y} \notin B /\ T \ {y} \in SUBSET S /\ x \in T \ {y}
      BY <3>1, <3>2, <3>3, <3>4
    <3>6. /\ f[T \ {x}] = w[y] + f[(T \ {x}) \ {y}]
          /\ f[T \ {y}] = w[x] + f[(T \ {y}) \ {x}]
      BY <3>5
    <3>7. (T \ {x}) \ {y} = (T \ {y}) \ {x} /\ (T \ {x}) \ {y} \in SUBSET S
      BY <3>2
    <3>8. f[(T \ {x}) \ {y}] \in Int /\ w[x] \in Int /\ w[y] \in Int
      BY <1>2, <2>2, <3>2, <3>4, <3>7
    <3> DEFINE all == f[T]
               no_x == f[T \ {x}]
               no_y == f[T \ {y}]
               rest == f[(T \ {x}) \ {y}]
    <3>9. /\ all # w[x] + no_x /\ all = w[y] + no_y /\ no_x = w[y] + rest /\ no_y = w[x] + rest
          /\ rest \in Int /\ w[x] \in Int /\ w[y] \in Int
      BY <3>3, <3>4, <3>6, <3>7, <3>8
    <3> HIDE DEF all, no_x, no_y, rest
    <3> QED
      BY <3>9
  <2>4. ASSUME NEW x \in S PROVE SumOver(w, S) = w[x] + SumOver(w, S \ {x})
    <3> DEFINE T == S \ {x}
    <3>1. IsFiniteSet(T) /\ T \in SUBSET S /\ T \in SUBSET T /\ \A z \in T : w[z] \in Int
      BY <1>2, FS_Subset
    <3>2. PICK g : Sums(g, w, T) /\ SumOver(w, T) = g[T]
      BY <3>1, SumOverSums
    <3>3. S \notin B
      BY <2>3
    <3>4. f[S] = w[x] + f[T]
      BY <3>3
    <3> HIDE DEF T
    <3>5. g[T] = f[T]
      BY <2>1, <3>1, <3>2, SumsAgree
    <3> QED
      BY <2>1, <3>2, <3>4, <3>5 DEF T
  <2> QED
    BY <2>1, <2>2, <2>4
<1> QED
  BY <1>1, <1>2

(* Two functions that agree on a set have the same sum over it.            *)
LEMMA SumSame ==
  ASSUME NEW S, IsFiniteSet(S), NEW v, NEW w, \A x \in S : w[x] \in Int /\ v[x] = w[x]
  PROVE  SumOver(v, S) = SumOver(w, S)
<1>1. \A x \in S : v[x] \in Int
  OBVIOUS
<1>2. PICK f : Sums(f, w, S) /\ SumOver(w, S) = f[S]
  BY SumOverSums
<1>3. PICK g : Sums(g, v, S) /\ SumOver(v, S) = g[S]
  BY <1>1, SumOverSums
<1>4. S \in SUBSET S
  OBVIOUS
<1> QED
  BY <1>2, <1>3, <1>4, SumsAgree

(* A sum is what a part of it comes to and what the rest does.             *)
LEMMA SumSplit ==
  ASSUME NEW S, IsFiniteSet(S), NEW w, \A x \in S : w[x] \in Int, NEW A \in SUBSET S
  PROVE  SumOver(w, S) = SumOver(w, A) + SumOver(w, S \ A)
<1> DEFINE B == {T \in SUBSET S : SumOver(w, S) # SumOver(w, T) + SumOver(w, S \ T)}
<1>1. \A T \in SUBSET S : IsFiniteSet(T) /\ SumOver(w, T) \in Int
  BY SumWithout, FS_Subset
<1>2. B = {}
  <2> SUFFICES ASSUME B # {} PROVE FALSE
    OBVIOUS
  <2>1. PICK T \in B : \A V \in B : V \subseteq T => V = T
    <3>1. B \in SUBSET (SUBSET S)
      OBVIOUS
    <3> HIDE DEF B
    <3> QED
      BY <3>1, SmallestSubset
  <2>2. T \in SUBSET S /\ SumOver(w, S) # SumOver(w, T) + SumOver(w, S \ T)
    OBVIOUS
  <2>3. T # {}
    <3>1. SumOver(w, {}) = 0 /\ S \ {} = S /\ SumOver(w, S) \in Int
      BY <1>1, SumWithout
    <3> QED
      BY <2>2, <3>1
  <2>4. PICK x \in T : TRUE
    BY <2>3
  <2> DEFINE V == T \ {x}
  <2>5. V \notin B /\ V \in SUBSET S /\ x \in S \ V /\ (S \ V) \ {x} = S \ T
    BY <2>1, <2>2
  <2>6. SumOver(w, S) = SumOver(w, V) + SumOver(w, S \ V)
    BY <2>5
  <2>7. SumOver(w, T) = w[x] + SumOver(w, V)
    BY <1>1, <2>2, SumWithout
  <2> HIDE DEF V
  <2>8. SumOver(w, S \ V) = w[x] + SumOver(w, S \ T)
    <3> DEFINE U == S \ V
    <3>1. U \in SUBSET S /\ \A z \in U : w[z] \in Int
      OBVIOUS
    <3>2. IsFiniteSet(U) /\ x \in U /\ U \ {x} = S \ T
      BY <1>1, <2>5, <3>1
    <3> HIDE DEF U
    <3>3. SumOver(w, U) = w[x] + SumOver(w, U \ {x})
      BY <3>1, <3>2, SumWithout
    <3> QED
      BY <3>2, <3>3 DEF U
  <2>9. SumOver(w, V) \in Int /\ SumOver(w, S \ T) \in Int /\ w[x] \in Int
    BY <1>1, <2>2, <2>5
  <2> QED
    BY <2>2, <2>6, <2>7, <2>8, <2>9
<1>3. A \notin B
  BY <1>2
<1> QED
  BY <1>3

(* Two sets whose elements match in value.                                 *)
LEMMA SumMatched ==
  ASSUME NEW S, IsFiniteSet(S), NEW w, NEW v, NEW h, NEW I,
         \A x \in S : w[x] \in Int /\ h[x] \in I /\ v[h[x]] = w[x],
         \A x, y \in S : h[x] = h[y] => x = y,
         \A i \in I : \E x \in S : h[x] = i
  PROVE  SumOver(v, I) = SumOver(w, S)
<1> DEFINE img(T) == {i \in I : \E x \in T : h[x] = i}
           B == {T \in SUBSET S : SumOver(v, img(T)) # SumOver(w, T)}
<1>1. ASSUME NEW T \in SUBSET S PROVE IsFiniteSet(T) /\ IsFiniteSet(img(T))
  <2>1. IsFiniteSet(T)
    BY FS_Subset
  <2> DEFINE back == [i \in img(T) |-> CHOOSE x \in T : h[x] = i]
  <2>2. \A i \in img(T) : back[i] \in T /\ h[back[i]] = i
    OBVIOUS
  <2>3. back \in [img(T) -> T]
    BY <2>2
  <2> HIDE DEF back, img
  <2>4. back \in Injection(img(T), T)
    BY <2>2, <2>3 DEF Injection, IsInjective
  <2> QED
    BY <2>1, <2>4, FS_Injection
<1>2. \A T \in SUBSET S : SumOver(w, T) \in Int
  BY <1>1, SumWithout
<1>3. B = {}
  <2> SUFFICES ASSUME B # {} PROVE FALSE
    OBVIOUS
  <2>1. PICK T \in B : \A V \in B : V \subseteq T => V = T
    <3>1. B \in SUBSET (SUBSET S)
      OBVIOUS
    <3> HIDE DEF B
    <3> QED
      BY <3>1, SmallestSubset
  <2>2. T \in SUBSET S /\ SumOver(v, img(T)) # SumOver(w, T)
    OBVIOUS
  <2>3. T # {}
    <3>1. SumOver(v, {}) = 0 /\ SumOver(w, {}) = 0 /\ img({}) = {}
      BY SumWithout
    <3> QED
      BY <2>2, <3>1
  <2>4. PICK x \in T : TRUE
    BY <2>3
  <2> DEFINE V == T \ {x}
  <2>5. V \notin B /\ V \in SUBSET S /\ img(V) = img(T) \ {h[x]} /\ h[x] \in img(T)
    BY <2>1, <2>2
  <2>6. SumOver(v, img(V)) = SumOver(w, V)
    BY <2>5
  <2>7. SumOver(w, T) = w[x] + SumOver(w, V)
    BY <1>1, <2>2, SumWithout
  <2>8. SumOver(v, img(T)) = v[h[x]] + SumOver(v, img(T) \ {h[x]})
    <3>1. \A i \in img(T) : v[i] \in Int
      BY <2>2
    <3>2. IsFiniteSet(img(T))
      BY <1>1, <2>2
    <3> HIDE DEF img
    <3> QED
      BY <2>5, <3>1, <3>2, SumWithout
  <2>9. SumOver(w, V) \in Int /\ w[x] \in Int /\ v[h[x]] = w[x]
    BY <1>2, <2>2, <2>5
  <2> DEFINE a == SumOver(v, img(T))
             b == SumOver(v, img(V))
             c == SumOver(w, T)
             d == SumOver(w, V)
  <2>10. /\ a # c /\ b = d /\ c = w[x] + d /\ a = v[h[x]] + b /\ d \in Int
         /\ w[x] \in Int /\ v[h[x]] = w[x]
    BY <2>2, <2>5, <2>6, <2>7, <2>8, <2>9
  <2> HIDE DEF a, b, c, d, img, V
  <2> QED
    BY <2>10
<1>4. S \notin B /\ img(S) = I
  BY <1>3
<1> QED
  BY <1>4

(* A sum of sums.                                                          *)
LEMMA SumLinear ==
  ASSUME NEW S, IsFiniteSet(S), NEW u, NEW v, NEW w,
         \A x \in S : u[x] \in Int /\ v[x] \in Int /\ w[x] = u[x] + v[x]
  PROVE  /\ SumOver(u, S) \in Int /\ SumOver(v, S) \in Int
         /\ SumOver(w, S) = SumOver(u, S) + SumOver(v, S)
<1> DEFINE B == {T \in SUBSET S : SumOver(w, T) # SumOver(u, T) + SumOver(v, T)}
<1>1. ASSUME NEW T \in SUBSET S
      PROVE  /\ IsFiniteSet(T)
             /\ \A x \in T : u[x] \in Int /\ v[x] \in Int /\ w[x] \in Int
             /\ SumOver(u, T) \in Int /\ SumOver(v, T) \in Int
  <2>1. IsFiniteSet(T) /\ \A x \in T : u[x] \in Int /\ v[x] \in Int /\ w[x] \in Int
    BY FS_Subset
  <2> QED
    BY <2>1, SumWithout
<1>2. B = {}
  <2> SUFFICES ASSUME B # {} PROVE FALSE
    OBVIOUS
  <2>1. PICK T \in B : \A V \in B : V \subseteq T => V = T
    <3>1. B \in SUBSET (SUBSET S)
      OBVIOUS
    <3> HIDE DEF B
    <3> QED
      BY <3>1, SmallestSubset
  <2>2. T \in SUBSET S /\ SumOver(w, T) # SumOver(u, T) + SumOver(v, T)
    OBVIOUS
  <2>3. T # {}
    <3> SUFFICES ASSUME T = {} PROVE FALSE
      OBVIOUS
    <3>1. SumOver(u, T) = 0 /\ SumOver(v, T) = 0 /\ SumOver(w, T) = 0
      BY SumWithout
    <3> QED
      BY <2>2, <3>1
  <2>4. PICK x \in T : TRUE
    BY <2>3
  <2> DEFINE V == T \ {x}
  <2>5. V \notin B /\ V \in SUBSET S
    BY <2>1, <2>2
  <2>6. SumOver(w, V) = SumOver(u, V) + SumOver(v, V)
    BY <2>5
  <2>7. /\ SumOver(u, T) = u[x] + SumOver(u, V)
        /\ SumOver(v, T) = v[x] + SumOver(v, V)
        /\ SumOver(w, T) = w[x] + SumOver(w, V)
    BY <1>1, <2>2, SumWithout
  <2>8. /\ SumOver(u, V) \in Int /\ SumOver(v, V) \in Int
        /\ u[x] \in Int /\ v[x] \in Int /\ w[x] = u[x] + v[x]
    BY <1>1, <2>2, <2>5
  <2> HIDE DEF V
  <2> QED
    BY <2>2, <2>6, <2>7, <2>8
<1>3. S \notin B /\ S \in SUBSET S
  BY <1>2
<1> QED
  BY <1>1, <1>3

(* What is 0 outside a part of a set sums up to what it does on that part. *)
LEMMA SumPart ==
  ASSUME NEW S, IsFiniteSet(S), NEW v, \A x \in S : v[x] \in Int, NEW A \in SUBSET S,
         \A x \in S \ A : v[x] = 0
  PROVE  SumOver(v, S) = SumOver(v, A)
<1> DEFINE R == S \ A
<1>1. IsFiniteSet(R) /\ IsFiniteSet(A) /\ \A x \in R : v[x] = 0
  BY FS_Subset
<1>2. SumOver(v, S) = SumOver(v, A) + SumOver(v, R)
  BY SumSplit
<1>3. SumOver(v, A) \in Int
  BY <1>1, SumWithout
<1> HIDE DEF R
<1>4. SumOver(v, R) \in Int /\ SumOver(v, R) = SumOver(v, R) + SumOver(v, R)
  <2>1. \A x \in R : v[x] \in Int /\ v[x] \in Int /\ v[x] = v[x] + v[x]
    BY <1>1
  <2> QED
    BY <1>1, <2>1, SumLinear
<1>5. SumOver(v, R) = 0
  <2>1. \A r \in Int : r = r + r => r = 0
    OBVIOUS
  <2> QED
    BY ONLY <1>4, <2>1
<1> QED
  BY ONLY <1>2, <1>3, <1>5

-----------------------------------------------------------------------------
(* What the bank books.                                                    *)

(* A sequence and the one with an element more.                            *)
LEMMA Appended ==
  ASSUME NEW T, NEW q \in Seq(T), NEW e \in T
  PROVE  /\ Append(q, e) \in Seq(T) /\ Len(Append(q, e)) = Len(q) + 1
         /\ DOMAIN q = 1..Len(q) /\ DOMAIN Append(q, e) = 1..Len(q) + 1 /\ Len(q) \in Nat
         /\ \A i \in 1..Len(q) : Append(q, e)[i] = q[i]
         /\ Append(q, e)[Len(q) + 1] = e
OBVIOUS

(* Mapping one record is what its fields say.                              *)
LEMMA RecordFields ==
  ASSUME NEW record \in Mapping!Records(Int)
  PROVE  /\ record.pending \in BOOLEAN /\ record.amount \in Int
         /\ [record EXCEPT !.pending = FALSE] \in Mapping!Records(Int)
         /\ ~[record EXCEPT !.pending = FALSE].pending
BY DEF Mapping!Records

(* An entry books a number.                                                *)
LEMMA BookedTyped ==
  ASSUME NEW entry \in Entries
  PROVE  /\ entry.record \in Mapping!Records(Int) /\ entry.record.amount \in Int
         /\ Change(entry) \in Int /\ Booked(entry) \in Int
<1>1. entry.record \in Mapping!Records(Int)
  BY DEF Entries
<1>2. entry.record.amount \in Int
  BY <1>1, RecordFields
<1>3. Change(entry) \in Int
  BY <1>2 DEF Change
<1>4. Booked(entry) \in Int
  BY <1>3 DEF Booked
<1> QED
  BY <1>1, <1>2, <1>3, <1>4

(* What was booked at places of a log is a sum of numbers.                 *)
LEMMA BookedInFacts ==
  ASSUME NEW log \in Seq(Entries), NEW S \in SUBSET DOMAIN log
  PROVE  /\ IsFiniteSet(S) /\ BookedIn(log, S) \in Int
         /\ \A w : (\A x \in S : w[x] = Booked(log[x])) => BookedIn(log, S) = SumOver(w, S)
<1>1. IsFiniteSet(S)
  <2>1. DOMAIN log = 1..Len(log) /\ Len(log) \in Nat
    OBVIOUS
  <2>2. IsFiniteSet(DOMAIN log)
    BY <2>1, FS_Interval
  <2> QED
    BY <2>2, FS_Subset
<1>2. \A x \in S : Booked(log[x]) \in Int
  <2>1. \A x \in S : log[x] \in Entries
    OBVIOUS
  <2> QED
    BY <2>1, BookedTyped
<1>3. ASSUME NEW w, \A x \in S : w[x] = Booked(log[x])
      PROVE  BookedIn(log, S) = SumOver(w, S) /\ SumOver(w, S) \in Int
  <2>1. \A x \in S : w[x] \in Int /\ w[x] = Booked(log[x])
    BY <1>2, <1>3
  <2> QED
    BY <1>1, <2>1, BookedInIs, SumWithout
<1>4. BookedIn(log, S) \in Int
  <2> DEFINE w == [x \in S |-> Booked(log[x])]
  <2>1. \A x \in S : w[x] = Booked(log[x])
    OBVIOUS
  <2> HIDE DEF w
  <2> QED
    BY <1>3, <2>1
<1> QED
  BY <1>1, <1>3, <1>4

(* An entry more adds what it books.                                       *)
LEMMA BookedInMore ==
  ASSUME NEW log \in Seq(Entries), NEW entry \in Entries, NEW S \in SUBSET DOMAIN log,
         NEW new, new = Append(log, entry)
  PROVE  /\ BookedIn(new, S) = BookedIn(log, S)
         /\ BookedIn(new, S \cup {Len(log) + 1}) = BookedIn(log, S) + Booked(entry)
         /\ BookedIn(log, S) \in Int /\ Booked(entry) \in Int
<1> DEFINE L == Len(log)
           w == [x \in 1..L + 1 |-> Booked(new[x])]
           more == S \cup {L + 1}
<1>1. /\ new \in Seq(Entries) /\ DOMAIN new = 1..L + 1 /\ DOMAIN log = 1..L /\ L \in Nat
      /\ \A x \in 1..L : new[x] = log[x]
      /\ new[L + 1] = entry
  BY Appended
<1> HIDE DEF L
<1>2. \A x \in 1..L + 1 : w[x] = Booked(new[x])
  OBVIOUS
<1> HIDE DEF w
<1>3. /\ S \in SUBSET DOMAIN new /\ more \in SUBSET DOMAIN new /\ L + 1 \in more
      /\ more \ {L + 1} = S
      /\ \A x \in S : w[x] = Booked(new[x]) /\ w[x] = Booked(log[x])
      /\ \A x \in more : w[x] = Booked(new[x])
  BY <1>1, <1>2
<1> HIDE DEF more
<1>4. BookedIn(new, S) = SumOver(w, S) /\ BookedIn(log, S) = SumOver(w, S) /\ BookedIn(log, S) \in Int
  <2>1. BookedIn(new, S) = SumOver(w, S)
    BY ONLY <1>1, <1>3, BookedInFacts
  <2>2. BookedIn(log, S) = SumOver(w, S) /\ BookedIn(log, S) \in Int
    BY ONLY <1>1, <1>3, BookedInFacts, log \in Seq(Entries)
  <2> QED
    BY ONLY <2>1, <2>2
<1>5. BookedIn(new, more) = SumOver(w, more) /\ IsFiniteSet(more)
  BY <1>1, <1>3, BookedInFacts
<1>6. \A x \in more : w[x] \in Int
  <2>1. \A x \in more : new[x] \in Entries
    BY <1>1, <1>3
  <2> QED
    BY <1>3, <2>1, BookedTyped
<1>7. SumOver(w, more) = w[L + 1] + SumOver(w, S)
  BY <1>3, <1>5, <1>6, SumWithout
<1>8. w[L + 1] = Booked(entry) /\ Booked(entry) \in Int
  BY <1>1, <1>2, BookedTyped
<1> QED
  BY <1>4, <1>5, <1>7, <1>8 DEF L, more

-----------------------------------------------------------------------------
(* The inductive invariant.                                                *)

(* An item's log: an entry is of an account linked to it, and one that     *)
(* settles an earlier entry is posted, the other one pending and of the    *)
(* same account.                                                           *)
Logged(item) ==
  \A i \in DOMAIN item.log :
    /\ item.log[i].account \in item.linked
    /\ item.log[i].settles # 0 =>
         /\ item.log[i].settles \in 1..i - 1
         /\ ~item.log[i].record.pending
         /\ item.log[item.log[i].settles].record.pending
         /\ item.log[item.log[i].settles].account = item.log[i].account

(* What was read of an item up to a place of its log: every entry that was *)
(* not settled by then is in one answer, none is in two, and one that      *)
(* settled before the accounts were read is in none.                       *)
SeenFirst(item, read) ==
  /\ read.seen <= Len(item.log)
  /\ \A i \in 1..read.seen : item.log[i].account \in read.accounts

InOnePage(pages) ==
  \A n, m \in DOMAIN pages : \A i \in pages[n] : i \in pages[m] => n = m

ReadOnly(item, read, upto) ==
  \A n \in DOMAIN read.pages : \A i \in read.pages[n] :
    /\ i \in 1..upto
    /\ \A j \in 1..read.seen : item.log[j].settles # i

ReadAll(item, read, upto) ==
  \A i \in 1..upto : Replaced(item.log, i) \/ \E n \in DOMAIN read.pages : i \in read.pages[n]

(* The balance of an account as it was read lacks what the entries that    *)
(* came after it have booked.                                              *)
After(log, a, seen) == {i \in DOMAIN log : log[i].account = a /\ i > seen}

BalanceRead(item, read) ==
  \A a \in Accounts :
    read.balance[a] = item.balance[a] - BookedIn(item.log, After(item.log, a, read.seen))

ReadTo(item, read, upto) ==
  /\ upto \in 0..Len(item.log)
  /\ SeenFirst(item, read)
  /\ BalanceRead(item, read)
  /\ InOnePage(read.pages)
  /\ ReadOnly(item, read, upto)
  /\ ReadAll(item, read, upto)

(* How far the extraction is: which item it is at, and that what it left   *)
(* behind was read to the end.                                             *)
Flow ==
  /\ step = "accounts" => Len(items) = Len(drawn) + 1 /\ cursor = 0
  /\ step # "accounts" => Len(items) = Len(drawn)
  /\ step \in {"accounts", "sync", "map"} => items # <<>> /\ Len(items) <= Profiles
  /\ step = "item" => Len(items) < Profiles
  /\ step \in {"map", "item"} /\ items # <<>> => cursor = Len(items[Len(items)].log)
  /\ step \in {"write", "stage", "done"} =>
       Len(items) = Profiles /\ cursor = Len(items[Len(items)].log)

Place(made, at, p) == IF p = Len(made) THEN at ELSE Len(made[p].log)

BundleFacts ==
  step \in {"stage", "done"} => bundle = [accounts |-> AccountsOf, transactions |-> TransactionsOf]

ExtractionInv ==
  step # "failed" =>
    /\ Flow
    /\ \A p \in DOMAIN items : Logged(items[p])
    /\ \A p \in DOMAIN drawn : ReadTo(items[p], drawn[p], Place(items, cursor, p))
    /\ BundleFacts

Inv == TypeOK /\ ExtractionInv

-----------------------------------------------------------------------------
(* The types.                                                              *)
ItemType == [linked : SUBSET Accounts, log : Seq(Entries), balance : [Accounts -> Int]]
ReadType ==
  [accounts : SUBSET Accounts, balance : [Accounts -> Int], seen : Nat, pages : Seq(SUBSET Nat)]

(* A page of answers holds places of the log after the cursor.             *)
LEMMA PageFacts ==
  ASSUME NEW log \in Seq(Entries), NEW from \in 0..Len(log)
  PROVE  /\ NextCursor(log, from) \in from..Len(log)
         /\ Added(log, from) \subseteq from + 1..NextCursor(log, from)
         /\ Added(log, from) \subseteq Nat
         /\ \A i \in from + 1..NextCursor(log, from) : i \in Added(log, from) \/ Replaced(log, i)
         /\ \A i \in Added(log, from) : ~Replaced(log, i)
<1>1. NextCursor(log, from) \in from..Len(log) /\ NextCursor(log, from) \in Nat
  BY ExtractionAssumption DEF NextCursor
<1>2. Added(log, from) = {i \in from + 1..NextCursor(log, from) : ~Replaced(log, i)}
  BY DEF Added
<1> HIDE DEF Added
<1> QED
  BY <1>1, <1>2

(* What the bank may add to an item: an entry of one of its accounts, or   *)
(* the settlement of a pending one.                                        *)
MayAdd(item, entry) ==
  /\ entry \in Entries /\ entry.account \in item.linked
  /\ entry.settles # 0 =>
       /\ entry.settles \in DOMAIN item.log /\ ~entry.record.pending
       /\ item.log[entry.settles].record.pending
       /\ item.log[entry.settles].account = entry.account

AddsTo(item, new, entry) ==
  /\ new \in ItemType /\ new.linked = item.linked /\ new.log = Append(item.log, entry)
  /\ \A a \in Accounts :
       new.balance[a] = item.balance[a] + IF a = entry.account THEN Booked(entry) ELSE 0

(* An entry more leaves the log sound and nothing read of it undone.       *)
LEMMA AddedKeeps ==
  ASSUME NEW item \in ItemType, NEW new \in ItemType, NEW entry, Logged(item),
         MayAdd(item, entry), AddsTo(item, new, entry)
  PROVE  /\ Logged(new)
         /\ \A read \in ReadType : \A upto \in 0..Len(item.log) :
              ReadTo(item, read, upto) => ReadTo(new, read, upto)
<1> DEFINE L == Len(item.log)
<1>1. /\ L \in Nat /\ DOMAIN item.log = 1..L /\ Len(new.log) = L + 1
      /\ DOMAIN new.log = 1..L + 1
      /\ \A i \in 1..L : new.log[i] = item.log[i]
      /\ new.log[L + 1] = entry /\ new.linked = item.linked
  BY Appended DEF ItemType, AddsTo, MayAdd
<1> HIDE DEF L
<1>2. ASSUME NEW i \in DOMAIN new.log
      PROVE  /\ new.log[i].account \in new.linked
             /\ new.log[i].settles # 0 =>
                  /\ new.log[i].settles \in 1..i - 1
                  /\ ~new.log[i].record.pending
                  /\ new.log[new.log[i].settles].record.pending
                  /\ new.log[new.log[i].settles].account = new.log[i].account
  <2>1. CASE i \in 1..L
    <3>1. /\ item.log[i].account \in item.linked
          /\ item.log[i].settles # 0 =>
               /\ item.log[i].settles \in 1..i - 1
               /\ ~item.log[i].record.pending
               /\ item.log[item.log[i].settles].record.pending
               /\ item.log[item.log[i].settles].account = item.log[i].account
      BY <1>1, <2>1 DEF Logged
    <3>2. item.log[i].settles \in 1..i - 1 => item.log[i].settles \in 1..L
      BY <1>1, <2>1
    <3> QED
      BY <1>1, <2>1, <3>1, <3>2
  <2>2. CASE i = L + 1
    BY <1>1, <2>2 DEF MayAdd
  <2> QED
    BY <1>1, <2>1, <2>2
<1>3. ASSUME NEW read \in ReadType, NEW upto \in 0..L, ReadTo(item, read, upto)
      PROVE  ReadTo(new, read, upto)
  <2>1. read.seen \in Nat /\ read.seen <= L
    BY <1>1, <1>3 DEF ReadTo, SeenFirst, ReadType, L
  <2>2. upto \in 0..Len(new.log)
    BY <1>1
  <2>3. SeenFirst(new, read)
    <3>1. \A i \in 1..read.seen : i \in 1..L
      BY <1>1, <2>1
    <3> QED
      BY <1>1, <1>3, <2>1, <3>1 DEF ReadTo, SeenFirst
  <2>4. ReadOnly(new, read, upto)
    <3>1. \A i \in 1..read.seen : i \in 1..L
      BY <1>1, <2>1
    <3> QED
      BY <1>1, <1>3, <3>1 DEF ReadTo, ReadOnly
  <2>5. ReadAll(new, read, upto)
    <3> SUFFICES ASSUME NEW i \in 1..upto, ~\E n \in DOMAIN read.pages : i \in read.pages[n]
                 PROVE  Replaced(new.log, i)
      BY DEF ReadAll
    <3>1. PICK j \in DOMAIN item.log : item.log[j].settles = i
      BY <1>3 DEF ReadTo, ReadAll, Replaced
    <3>2. j \in DOMAIN new.log /\ new.log[j] = item.log[j]
      BY <1>1
    <3> QED
      BY <3>1, <3>2 DEF Replaced
  <2>6. BalanceRead(new, read)
    <3> SUFFICES ASSUME NEW a \in Accounts
                 PROVE  read.balance[a]
                          = new.balance[a] - BookedIn(new.log, After(new.log, a, read.seen))
      BY DEF BalanceRead
    <3> DEFINE S == After(item.log, a, read.seen)
    <3>1. /\ item.log \in Seq(Entries) /\ entry \in Entries /\ new.log = Append(item.log, entry)
          /\ item.balance[a] \in Int
      BY DEF ItemType, MayAdd, AddsTo
    <3>2. S \in SUBSET DOMAIN item.log
      BY DEF After
    <3>3. read.balance[a] = item.balance[a] - BookedIn(item.log, S)
      BY <1>3 DEF ReadTo, BalanceRead
    <3>4. new.balance[a] = item.balance[a] + IF a = entry.account THEN Booked(entry) ELSE 0
      BY DEF AddsTo
    <3>5. After(new.log, a, read.seen) = IF a = entry.account THEN S \cup {L + 1} ELSE S
      <4>1. \A i \in DOMAIN new.log : i \in 1..L \/ i = L + 1
        BY <1>1
      <4>2. L + 1 > read.seen /\ L + 1 \in DOMAIN new.log
        BY <1>1, <2>1
      <4> QED
        BY <1>1, <4>1, <4>2 DEF After
    <3> HIDE DEF S
    <3>6. /\ BookedIn(new.log, S) = BookedIn(item.log, S)
          /\ BookedIn(new.log, S \cup {L + 1}) = BookedIn(item.log, S) + Booked(entry)
          /\ BookedIn(item.log, S) \in Int /\ Booked(entry) \in Int
      BY <3>1, <3>2, BookedInMore DEF L
    <3>7. CASE a = entry.account
      BY <3>1, <3>3, <3>4, <3>5, <3>6, <3>7
    <3>8. CASE a # entry.account
      BY <3>1, <3>3, <3>4, <3>5, <3>6, <3>8
    <3> QED
      BY <3>7, <3>8
  <2> QED
    BY <1>3, <2>2, <2>3, <2>4, <2>5, <2>6 DEF ReadTo
<1> QED
  BY <1>2, <1>3 DEF Logged, L

(* A page more is read of a log as it is.                                  *)
LEMMA PageKeeps ==
  ASSUME NEW item \in ItemType, NEW read \in ReadType, NEW new \in ReadType, NEW from,
         ReadTo(item, read, from),
         new.seen = read.seen, new.accounts = read.accounts, new.balance = read.balance,
         new.pages = Append(read.pages, Added(item.log, from))
  PROVE  ReadTo(item, new, NextCursor(item.log, from))
<1> DEFINE to == NextCursor(item.log, from)
           page == Added(item.log, from)
           N == Len(read.pages)
<1>1. item.log \in Seq(Entries) /\ from \in 0..Len(item.log) /\ read.pages \in Seq(SUBSET Nat)
      /\ read.seen \in Nat
  BY DEF ItemType, ReadType, ReadTo
<1>2. /\ to \in from..Len(item.log) /\ Len(item.log) \in Nat
      /\ page \subseteq from + 1..to /\ page \in SUBSET Nat
      /\ \A i \in from + 1..to : i \in page \/ Replaced(item.log, i)
      /\ \A i \in page : ~Replaced(item.log, i)
  BY <1>1, PageFacts
<1>3. /\ N \in Nat /\ DOMAIN read.pages = 1..N /\ DOMAIN new.pages = 1..N + 1
      /\ \A n \in 1..N : new.pages[n] = read.pages[n]
      /\ new.pages[N + 1] = page
  BY <1>1, <1>2, Appended
<1> HIDE DEF to, page, N
<1>4. to \in 0..Len(item.log)
  BY <1>1, <1>2
<1>5. \A n \in 1..N : \A i \in read.pages[n] :
        i \in 1..from /\ \A j \in 1..read.seen : item.log[j].settles # i
  BY <1>3 DEF ReadTo, ReadOnly
<1>6. SeenFirst(item, new)
  BY DEF ReadTo, SeenFirst
<1>7. BalanceRead(item, new)
  BY DEF ReadTo, BalanceRead
<1>8. InOnePage(new.pages)
  <2> SUFFICES ASSUME NEW n \in 1..N + 1, NEW m \in 1..N + 1, NEW i \in new.pages[n],
                      i \in new.pages[m]
               PROVE  n = m
    BY <1>3 DEF InOnePage
  <2>1. CASE n \in 1..N /\ m \in 1..N
    BY <1>3, <2>1 DEF ReadTo, InOnePage
  <2>2. CASE n = N + 1 /\ m \in 1..N
    BY <1>1, <1>2, <1>3, <1>5, <2>2
  <2>3. CASE n \in 1..N /\ m = N + 1
    BY <1>1, <1>2, <1>3, <1>5, <2>3
  <2> QED
    BY <1>3, <2>1, <2>2, <2>3
<1>9. ReadOnly(item, new, to)
  <2> SUFFICES ASSUME NEW n \in 1..N + 1, NEW i \in new.pages[n]
               PROVE  i \in 1..to /\ \A j \in 1..new.seen : item.log[j].settles # i
    BY <1>3 DEF ReadOnly
  <2>1. CASE n \in 1..N
    BY SMTT(30), <1>1, <1>2, <1>3, <1>5, <2>1
  <2>2. CASE n = N + 1
    <3>1. i \in page
      BY <1>3, <2>2
    <3>2. i \in 1..to
      BY <1>1, <1>2, <3>1
    <3>3. \A j \in DOMAIN item.log : item.log[j].settles # i
      BY <1>2, <3>1 DEF Replaced
    <3>4. \A j \in 1..read.seen : j \in DOMAIN item.log
      BY <1>1 DEF ReadTo, SeenFirst
    <3> QED
      BY <3>2, <3>3, <3>4
  <2>3. n \in 1..N \/ n = N + 1
    BY <1>3
  <2> QED
    BY <2>1, <2>2, <2>3
<1>10. ReadAll(item, new, to)
  <2> SUFFICES ASSUME NEW i \in 1..to, ~Replaced(item.log, i)
               PROVE  \E n \in DOMAIN new.pages : i \in new.pages[n]
    BY DEF ReadAll
  <2>1. CASE i \in 1..from
    <3>1. PICK n \in DOMAIN read.pages : i \in read.pages[n]
      BY <2>1 DEF ReadTo, ReadAll
    <3> QED
      BY <1>3, <3>1
  <2>2. CASE i \in from + 1..to
    <3>1. i \in page
      BY <1>2, <2>2
    <3>2. N + 1 \in DOMAIN new.pages /\ new.pages[N + 1] = page
      BY <1>3
    <3> QED
      BY <3>1, <3>2
  <2> QED
    BY <1>1, <1>2, <2>1, <2>2
<1> QED
  BY <1>4, <1>6, <1>8, <1>9, <1>10, <1>7 DEF ReadTo, to

-----------------------------------------------------------------------------
(* The steps, one lemma for each: before the bundle is written there is    *)
(* nothing to say about it.                                                *)
LEMMA CreateKeeps == Inv /\ CreateItem => Inv'
<1> SUFFICES ASSUME Inv, CreateItem PROVE Inv'
  OBVIOUS
<1> DEFINE L == Len(items)
<1>1. /\ step = "item" /\ step' = "accounts" /\ cursor' = 0
      /\ UNCHANGED <<updates, drawn, bundle, balances>>
  BY DEF CreateItem
<1>2. PICK linked \in SUBSET Accounts \ {{}} :
        items' = Append(items, [linked |-> linked, log |-> <<>>, balance |-> [a \in Accounts |-> 0]])
  BY DEF CreateItem
<1> DEFINE new == [linked |-> linked, log |-> <<>>, balance |-> [a \in Accounts |-> 0]]
<1>3. new \in ItemType /\ Logged(new)
  BY DEF ItemType, Logged
<1>4. items \in Seq(ItemType) /\ drawn \in Seq(ReadType)
  BY DEF Inv, TypeOK, ItemType, ReadType
<1> HIDE DEF new
<1>5. /\ items' \in Seq(ItemType) /\ Len(items') = L + 1
      /\ DOMAIN items = 1..L /\ DOMAIN items' = 1..L + 1 /\ L \in Nat
      /\ \A p \in 1..L : items'[p] = items[p]
      /\ items'[L + 1] = new
  BY <1>2, <1>3, <1>4, Appended DEF new
<1>6. TypeOK'
  BY <1>1, <1>5 DEF Inv, TypeOK, ItemType, Requests
<1>7. /\ L = Len(drawn) /\ L < Profiles /\ (items # <<>> => cursor = Len(items[L].log))
      /\ \A p \in DOMAIN items : Logged(items[p])
      /\ \A p \in DOMAIN drawn : ReadTo(items[p], drawn[p], Place(items, cursor, p))
  BY <1>1 DEF Inv, ExtractionInv, Flow
<1>8. DOMAIN drawn = 1..L
  BY <1>4, <1>7
<1> HIDE DEF L
<1>9. Flow'
  <2>1. items' # <<>> /\ Len(items') <= Profiles
    BY <1>5, <1>7, ExtractionAssumption
  <2> QED
    BY <1>1, <1>5, <1>7, <2>1 DEF Flow
<1>10. \A p \in DOMAIN items' : Logged(items'[p])
  BY <1>3, <1>5, <1>7
<1>11. ASSUME NEW p \in DOMAIN drawn' PROVE ReadTo(items'[p], drawn'[p], Place(items', cursor', p))
  <2>1. p \in 1..L /\ p # Len(items') /\ items'[p] = items[p] /\ drawn'[p] = drawn[p]
    BY <1>1, <1>5, <1>8
  <2>2. p = L => items # <<>>
    BY <1>5, <2>1
  <2>3. Place(items', cursor', p) = Place(items, cursor, p)
    BY <1>7, <2>1, <2>2 DEF Place, L
  <2> QED
    BY <1>1, <1>7, <2>1, <2>3
<1> QED
  BY <1>1, <1>6, <1>9, <1>10, <1>11 DEF Inv, ExtractionInv, BundleFacts

(* get_accounts: what is linked and seen now is what the bundle owes.      *)
LEMMA ReadAccountsKeeps == Inv /\ ReadAccounts => Inv'
<1> SUFFICES ASSUME Inv, ReadAccounts PROVE Inv'
  OBVIOUS
<1> DEFINE L == Len(drawn)
           C == Len(items)
           read == [accounts |-> items[C].linked, balance |-> items[C].balance,
                    seen |-> Len(items[C].log), pages |-> <<>>]
<1>1. /\ step = "accounts" /\ step' = "sync" /\ drawn' = Append(drawn, read)
      /\ UNCHANGED <<items, updates, cursor, bundle, balances>>
  BY DEF ReadAccounts, Item, Current
<1>2. items \in Seq(ItemType) /\ drawn \in Seq(ReadType)
  BY DEF Inv, TypeOK, ItemType, ReadType
<1>3. /\ C = L + 1 /\ cursor = 0 /\ items # <<>> /\ C <= Profiles
      /\ \A p \in DOMAIN items : Logged(items[p])
      /\ \A p \in DOMAIN drawn : ReadTo(items[p], drawn[p], Place(items, cursor, p))
  BY <1>1 DEF Inv, ExtractionInv, Flow
<1>4. C \in DOMAIN items /\ items[C] \in ItemType
  BY <1>2, <1>3
<1>5. read \in ReadType
  BY <1>4 DEF ItemType, ReadType
<1>6. /\ read.seen = Len(items[C].log) /\ read.accounts = items[C].linked /\ read.pages = <<>>
      /\ read.balance = items[C].balance
  OBVIOUS
<1> HIDE DEF read
<1>7. /\ drawn' \in Seq(ReadType) /\ Len(drawn') = L + 1
      /\ DOMAIN drawn = 1..L /\ DOMAIN drawn' = 1..L + 1 /\ L \in Nat
      /\ \A p \in 1..L : drawn'[p] = drawn[p]
      /\ drawn'[L + 1] = read
  BY <1>1, <1>2, <1>5, Appended
<1>8. TypeOK'
  BY <1>1, <1>7 DEF Inv, TypeOK, ReadType, Requests
<1> HIDE DEF L, C
<1>9. Flow'
  BY <1>1, <1>3, <1>7 DEF Flow, C
<1>10. ReadTo(items[C], read, 0)
  <2>1. Len(items[C].log) \in Nat /\ DOMAIN items[C].log = 1..Len(items[C].log)
    BY <1>4 DEF ItemType
  <2>2. SeenFirst(items[C], read)
    BY <1>3, <1>4, <1>6, <2>1 DEF SeenFirst, Logged
  <2>3. BalanceRead(items[C], read)
    <3> SUFFICES ASSUME NEW a \in Accounts
                 PROVE  read.balance[a] = items[C].balance[a]
                          - BookedIn(items[C].log, After(items[C].log, a, read.seen))
      BY DEF BalanceRead
    <3>1. items[C].log \in Seq(Entries) /\ items[C].balance[a] \in Int
      BY <1>4 DEF ItemType
    <3>2. After(items[C].log, a, read.seen) = {}
      BY <1>6, <2>1 DEF After
    <3>3. BookedIn(items[C].log, {}) = 0
      <4>1. \A w : SumOver(w, {}) = 0
        BY SumWithout
      <4>2. {} \in SUBSET DOMAIN items[C].log /\ \A w : \A x \in {} : w[x] = Booked(items[C].log[x])
        OBVIOUS
      <4> QED
        BY <3>1, <4>1, <4>2, BookedInFacts
    <3> QED
      BY <1>6, <3>1, <3>2, <3>3
  <2> QED
    BY <1>6, <2>1, <2>2, <2>3 DEF ReadTo, InOnePage, ReadOnly, ReadAll
<1>11. ASSUME NEW p \in DOMAIN drawn' PROVE ReadTo(items'[p], drawn'[p], Place(items', cursor', p))
  <2>1. CASE p \in 1..L
    BY <1>1, <1>3, <1>7, <2>1
  <2>2. CASE p = L + 1
    <3>1. Place(items', cursor', p) = 0
      BY <1>1, <1>3, <2>2 DEF Place, C
    <3> QED
      BY <1>1, <1>3, <1>7, <1>10, <2>2, <3>1
  <2> QED
    BY <1>7, <2>1, <2>2
<1> QED
  BY <1>1, <1>3, <1>8, <1>9, <1>11 DEF Inv, ExtractionInv, BundleFacts

(* A page goes on where the last one ended, so that nothing is in two, and *)
(* nothing is left out but what has settled by now.                        *)
LEMMA ReadPageKeeps == Inv /\ ReadPage => Inv'
<1> SUFFICES ASSUME Inv, ReadPage PROVE Inv'
  OBVIOUS
<1> DEFINE C == Len(items)
           to == NextCursor(items[C].log, cursor)
           page == Added(items[C].log, cursor)
<1>1. /\ step = "sync" /\ cursor' = to
      /\ step' = IF to = Len(items[C].log) THEN "map" ELSE "sync"
      /\ drawn' = [drawn EXCEPT ![C].pages = Append(@, page)]
      /\ UNCHANGED <<items, updates, bundle, balances>>
  BY DEF ReadPage, Advance, Item, Current
<1>2. items \in Seq(ItemType) /\ drawn \in Seq(ReadType)
  BY DEF Inv, TypeOK, ItemType, ReadType
<1>3. /\ C = Len(drawn) /\ items # <<>> /\ C <= Profiles
      /\ \A p \in DOMAIN items : Logged(items[p])
      /\ \A p \in DOMAIN drawn : ReadTo(items[p], drawn[p], Place(items, cursor, p))
  BY <1>1 DEF Inv, ExtractionInv, Flow
<1>4. /\ C \in DOMAIN items /\ items[C] \in ItemType /\ C \in DOMAIN drawn /\ drawn[C] \in ReadType
      /\ items[C].log \in Seq(Entries)
  <2>1. C \in DOMAIN items /\ items[C] \in ItemType /\ C \in DOMAIN drawn /\ drawn[C] \in ReadType
    BY <1>2, <1>3
  <2> QED
    BY <2>1 DEF ItemType
<1>5. ReadTo(items[C], drawn[C], cursor)
  BY <1>3, <1>4 DEF Place
<1>6. /\ to \in cursor..Len(items[C].log) /\ page \in SUBSET Nat /\ to \in Nat
  <2>1. cursor \in 0..Len(items[C].log) /\ Len(items[C].log) \in Nat
    BY <1>4, <1>5 DEF ReadTo
  <2> QED
    BY <1>4, <2>1, PageFacts
<1> DEFINE new == drawn'[C]
<1> HIDE DEF to, page, C
<1>7. /\ drawn' \in Seq(ReadType) /\ Len(drawn') = Len(drawn) /\ DOMAIN drawn' = DOMAIN drawn
      /\ \A p \in DOMAIN drawn : p # C => drawn'[p] = drawn[p]
      /\ new \in ReadType /\ new.seen = drawn[C].seen /\ new.accounts = drawn[C].accounts
      /\ new.balance = drawn[C].balance
      /\ new.pages = Append(drawn[C].pages, page)
  <2>1. drawn[C].pages \in Seq(SUBSET Nat)
    BY <1>4 DEF ReadType
  <2>2. Append(drawn[C].pages, page) \in Seq(SUBSET Nat)
    BY <1>6, <2>1
  <2>3. [drawn[C] EXCEPT !.pages = Append(drawn[C].pages, page)] \in ReadType
    BY <1>4, <2>2 DEF ReadType
  <2>4. drawn' = [drawn EXCEPT ![C] = [drawn[C] EXCEPT !.pages = Append(drawn[C].pages, page)]]
    BY <1>1, <1>4
  <2>5. new = [drawn[C] EXCEPT !.pages = Append(drawn[C].pages, page)]
    BY <1>4, <2>4
  <2>6. /\ new.seen = drawn[C].seen /\ new.accounts = drawn[C].accounts
        /\ new.balance = drawn[C].balance
        /\ new.pages = Append(drawn[C].pages, page)
    BY <1>4, <2>5 DEF ReadType
  <2>7. /\ drawn' \in Seq(ReadType) /\ Len(drawn') = Len(drawn) /\ DOMAIN drawn' = DOMAIN drawn
        /\ \A p \in DOMAIN drawn : p # C => drawn'[p] = drawn[p]
    BY <1>2, <1>4, <2>3, <2>4
  <2> QED
    BY <2>3, <2>5, <2>6, <2>7
<1>8. TypeOK'
  <2>1. step' \in {"map", "sync"}
    BY <1>1
  <2> QED
    BY <1>1, <1>6, <1>7, <2>1 DEF Inv, TypeOK, ReadType, Requests
<1>9. Flow'
  BY <1>1, <1>3, <1>7 DEF Flow, C
<1>10. ReadTo(items[C], new, to)
  BY <1>4, <1>5, <1>7, PageKeeps DEF to, page
<1>11. ASSUME NEW p \in DOMAIN drawn' PROVE ReadTo(items'[p], drawn'[p], Place(items', cursor', p))
  <2>1. CASE p # C
    <3>1. Place(items', cursor', p) = Place(items, cursor, p)
      BY <1>1, <2>1 DEF Place, C
    <3> QED
      BY <1>1, <1>3, <1>7, <2>1, <3>1
  <2>2. CASE p = C
    <3>1. Place(items', cursor', p) = to
      BY <1>1, <2>2 DEF Place, C
    <3> QED
      BY <1>1, <1>10, <2>2, <3>1
  <2> QED
    BY <2>1, <2>2
<1>12. step' \notin {"stage", "done"}
  BY <1>1
<1> QED
  BY <1>1, <1>3, <1>8, <1>9, <1>11, <1>12 DEF Inv, ExtractionInv, BundleFacts

(* What moves on without reading or writing keeps what was read.           *)
LEMMA MovesKeep ==
  ASSUME Inv, UNCHANGED <<items, drawn, cursor>>, step # "failed",
         step' # "failed" => Flow' /\ BundleFacts',
         TypeOK'
  PROVE  Inv'
<1>1. /\ \A p \in DOMAIN items : Logged(items[p])
      /\ \A p \in DOMAIN drawn : ReadTo(items[p], drawn[p], Place(items, cursor, p))
  BY DEF Inv, ExtractionInv
<1>2. /\ \A p \in DOMAIN items' : Logged(items'[p])
      /\ \A p \in DOMAIN drawn' : ReadTo(items'[p], drawn'[p], Place(items', cursor', p))
  BY <1>1
<1> QED
  BY <1>2 DEF Inv, ExtractionInv

(* The mapping of an item whose log was read to its end.                   *)
LEMMA NormalizeKeeps == Inv /\ Normalize => Inv'
<1> SUFFICES ASSUME Inv, Normalize PROVE Inv'
  OBVIOUS
<1>1. /\ step = "map" /\ UNCHANGED <<items, updates, drawn, cursor, bundle, balances>>
      /\ \/ step' = "failed"
         \/ step' = "item" /\ Len(items) < Profiles
         \/ step' = "write" /\ ~(Len(items) < Profiles)
  BY DEF Normalize, MoreProfiles, Current
<1>2. TypeOK'
  BY <1>1 DEF Inv, TypeOK, Requests
<1>3. /\ Len(items) = Len(drawn) /\ items # <<>> /\ Len(items) <= Profiles
      /\ cursor = Len(items[Len(items)].log) /\ Len(items) \in Nat
  BY <1>1 DEF Inv, ExtractionInv, Flow, TypeOK
<1>4. step' # "failed" => Flow' /\ BundleFacts'
  BY <1>1, <1>3, ExtractionAssumption DEF Flow, BundleFacts
<1> QED
  BY <1>1, <1>2, <1>4, MovesKeep

(* The bundle is made from what was read.                                  *)
LEMMA WriteKeeps == Inv /\ WriteBundle => Inv'
<1> SUFFICES ASSUME Inv, WriteBundle PROVE Inv'
  OBVIOUS
<1>1. /\ step = "write" /\ step' = "stage" /\ UNCHANGED <<items, updates, drawn, cursor, balances>>
      /\ bundle' = [accounts |-> AccountsOf, transactions |-> TransactionsOf]
  BY DEF WriteBundle
<1>2. TypeOK'
  BY <1>1 DEF Inv, TypeOK
<1>3. Flow'
  BY <1>1 DEF Inv, ExtractionInv, Flow
<1>4. BundleFacts'
  BY <1>1 DEF BundleFacts, AccountsOf, TransactionsOf, Rows, Mapped, MappedAccount
<1> QED
  BY <1>1, <1>2, <1>3, <1>4, MovesKeep

(* Staging reads the bundle.                                               *)
LEMMA StageKeeps == Inv /\ StageBalances => Inv'
<1> SUFFICES ASSUME Inv, StageBalances PROVE Inv'
  OBVIOUS
<1>1. /\ step = "stage" /\ step' = "done" /\ UNCHANGED <<items, updates, drawn, cursor, bundle>>
  BY DEF StageBalances
<1>2. TypeOK'
  BY <1>1 DEF Inv, TypeOK
<1>3. Flow'
  BY <1>1 DEF Inv, ExtractionInv, Flow
<1>4. BundleFacts'
  <2>1. bundle = [accounts |-> AccountsOf, transactions |-> TransactionsOf]
    BY <1>1 DEF Inv, ExtractionInv, BundleFacts
  <2> QED
    BY <1>1, <2>1 DEF BundleFacts, AccountsOf, TransactionsOf, Rows, Mapped, MappedAccount
<1> QED
  BY <1>1, <1>2, <1>3, <1>4, MovesKeep

(* The bank's changes are to the item that is being read.                  *)
LEMMA ChangedItemKeeps ==
  ASSUME Inv, Updatable, NEW new \in ItemType,
         items' = [items EXCEPT ![Len(items)] = new],
         Logged(new), Len(new.log) \in Nat, Len(items[Len(items)].log) <= Len(new.log),
         \A read \in ReadType : \A upto \in 0..Len(items[Len(items)].log) :
           ReadTo(items[Len(items)], read, upto) => ReadTo(new, read, upto)
  PROVE  Inv'
<1> DEFINE C == Len(items)
<1>1. /\ step \in {"accounts", "sync"} /\ UNCHANGED <<step, drawn, cursor, bundle, balances>>
      /\ updates < MaxUpdates /\ updates' = updates + 1
  BY DEF Updatable
<1>2. items \in Seq(ItemType) /\ drawn \in Seq(ReadType)
  BY DEF Inv, TypeOK, ItemType, ReadType
<1>3. /\ step = "accounts" => C = Len(drawn) + 1 /\ cursor = 0
      /\ step # "accounts" => C = Len(drawn)
      /\ items # <<>> /\ C <= Profiles
      /\ \A p \in DOMAIN items : Logged(items[p])
      /\ \A p \in DOMAIN drawn : ReadTo(items[p], drawn[p], Place(items, cursor, p))
  BY <1>1 DEF Inv, ExtractionInv, Flow
<1>4. /\ items' \in Seq(ItemType) /\ Len(items') = C /\ DOMAIN items' = DOMAIN items
      /\ \A p \in DOMAIN items : p # C => items'[p] = items[p]
      /\ C \in DOMAIN items /\ items'[C] = new
  BY <1>2, <1>3
<1>5. TypeOK'
  BY <1>1, <1>4, ExtractionAssumption DEF Inv, TypeOK, ItemType
<1> HIDE DEF C
<1>6. Flow'
  <2>1. items' # <<>>
    BY <1>4
  <2>2. step' = step /\ drawn' = drawn /\ cursor' = cursor
    BY <1>1
  <2> QED
    BY <1>1, <1>3, <1>4, <2>1, <2>2 DEF Flow
<1>7. \A p \in DOMAIN items' : Logged(items'[p])
  BY <1>3, <1>4
<1>8. ASSUME NEW p \in DOMAIN drawn' PROVE ReadTo(items'[p], drawn'[p], Place(items', cursor', p))
  <2>1. p \in DOMAIN drawn /\ drawn[p] \in ReadType /\ p \in DOMAIN items
    <3>1. drawn' = drawn
      BY <1>1
    <3>2. p \in DOMAIN drawn /\ drawn[p] \in ReadType
      BY <1>2, <3>1
    <3>3. /\ DOMAIN drawn = 1..Len(drawn) /\ DOMAIN items = 1..C
          /\ Len(drawn) \in Nat /\ C \in Nat
      BY <1>2 DEF C
    <3>4. Len(drawn) <= C
      <4>1. CASE step = "accounts"
        BY <1>3, <3>3, <4>1
      <4>2. CASE step # "accounts"
        BY <1>3, <3>3, <4>2
      <4> QED
        BY <4>1, <4>2
    <3> QED
      BY <3>2, <3>3, <3>4
  <2>2. CASE p # C
    <3>1. Place(items', cursor', p) = Place(items, cursor, p)
      BY <1>1, <1>4, <2>1, <2>2 DEF Place, C
    <3> QED
      BY <1>1, <1>3, <1>4, <2>1, <2>2, <3>1
  <2>3. CASE p = C
    <3>1. Place(items', cursor', p) = cursor /\ Place(items, cursor, p) = cursor
      BY <1>1, <1>4, <2>3 DEF Place, C
    <3>2. ReadTo(items[C], drawn[C], cursor) /\ cursor \in 0..Len(items[C].log)
      BY <1>3, <2>1, <2>3, <3>1 DEF ReadTo
    <3>3. ReadTo(new, drawn[C], cursor)
      BY <2>1, <2>3, <3>2 DEF C
    <3> QED
      BY <1>1, <1>4, <2>3, <3>1, <3>3
  <2> QED
    BY <2>2, <2>3
<1> QED
  BY <1>1, <1>5, <1>6, <1>7, <1>8 DEF Inv, ExtractionInv, BundleFacts

(* An item with another log and other balances.                            *)
LEMMA TwoFieldsChanged ==
  ASSUME NEW L, NEW S, NEW B, NEW item \in [linked : L, log : S, balance : B],
         NEW log \in S, NEW balance \in B,
         NEW new, new = [item EXCEPT !.log = log, !.balance = balance]
  PROVE  /\ new \in [linked : L, log : S, balance : B]
         /\ new.log = log /\ new.linked = item.linked /\ new.balance = balance
OBVIOUS

(* The bank's log grows while its pages are read: what was read stays      *)
(* read.                                                                   *)
LEMMA AddToLogKeeps ==
  ASSUME Inv, Updatable, NEW entry, AddToLog(entry), MayAdd(items[Len(items)], entry)
  PROVE  Inv'
<1> DEFINE C == Len(items)
           held == items[C].balance[entry.account]
           after == held + Booked(entry)
           new == [items[C] EXCEPT !.log = Append(items[C].log, entry),
                                   !.balance = [items[C].balance EXCEPT ![entry.account] = after]]
<1>1. /\ items \in Seq(ItemType) /\ items # <<>> /\ \A p \in DOMAIN items : Logged(items[p])
  BY DEF Inv, TypeOK, ItemType, ExtractionInv, Flow, Updatable
<1>2. C \in DOMAIN items /\ items[C] \in ItemType /\ Logged(items[C])
  BY <1>1
<1>3. entry \in Entries /\ entry.account \in Accounts
  BY <1>2 DEF MayAdd, Entries
<1>4. held \in Int /\ Booked(entry) \in Int
  BY <1>2, <1>3, BookedTyped DEF ItemType
<1>5. after \in Int
  BY <1>4
<1>6. items' = [items EXCEPT ![C] = new]
  BY <1>2 DEF AddToLog, Current
<1> HIDE DEF after
<1>7. /\ new \in ItemType /\ new.log = Append(items[C].log, entry)
      /\ new.linked = items[C].linked
      /\ \A a \in Accounts :
           new.balance[a] = items[C].balance[a] + IF a = entry.account THEN Booked(entry) ELSE 0
  <2>1. /\ items[C].log \in Seq(Entries) /\ items[C].balance \in [Accounts -> Int]
    BY <1>2 DEF ItemType
  <2> DEFINE log == Append(items[C].log, entry)
             balance == [items[C].balance EXCEPT ![entry.account] = after]
  <2>2. log \in Seq(Entries)
    BY <1>3, <2>1
  <2>3. balance \in [Accounts -> Int]
    BY <1>5, <2>1
  <2> HIDE DEF log, balance
  <2>4. new = [items[C] EXCEPT !.log = log, !.balance = balance]
    BY DEF log, balance
  <2> HIDE DEF new
  <2>5. new \in ItemType /\ new.log = log /\ new.linked = items[C].linked /\ new.balance = balance
    BY <1>2, <2>2, <2>3, <2>4, TwoFieldsChanged DEF ItemType
  <2>6. ASSUME NEW a \in Accounts
        PROVE  balance[a] = items[C].balance[a] + IF a = entry.account THEN Booked(entry) ELSE 0
    <3>1. items[C].balance[a] \in Int
      BY <2>1
    <3>2. balance[a] = IF a = entry.account THEN after ELSE items[C].balance[a]
      BY <2>1 DEF balance
    <3>3. after = items[C].balance[entry.account] + Booked(entry)
      BY DEF after
    <3> QED
      BY <3>1, <3>2, <3>3
  <2> QED
    BY <2>5, <2>6 DEF log
<1> HIDE DEF new
<1>8. AddsTo(items[C], new, entry)
  BY <1>7 DEF AddsTo
<1>9. /\ Logged(new)
      /\ \A read \in ReadType : \A upto \in 0..Len(items[C].log) :
           ReadTo(items[C], read, upto) => ReadTo(new, read, upto)
  BY <1>2, <1>7, <1>8, AddedKeeps
<1>10. Len(new.log) \in Nat /\ Len(items[C].log) <= Len(new.log)
  BY <1>2, <1>3, <1>7 DEF ItemType
<1> QED
  BY <1>6, <1>7, <1>9, <1>10, ChangedItemKeeps

(* A posting is such a growth.                                             *)
LEMMA PostsKeeps == Inv /\ BankPosts => Inv'
<1> SUFFICES ASSUME Inv, BankPosts PROVE Inv'
  OBVIOUS
<1>1. PICK a \in items[Len(items)].linked, day \in 1..Today, kind \in Kinds :
        AddToLog(Entry(a, day, kind, 0))
  BY DEF BankPosts, Item, Current
<1>2. items[Len(items)] \in ItemType
  <2>1. items \in Seq(ItemType) /\ items # <<>>
    BY DEF Inv, TypeOK, ItemType, ExtractionInv, Flow, BankPosts, Updatable
  <2> QED
    BY <2>1
<1>3. MayAdd(items[Len(items)], Entry(a, day, kind, 0))
  BY <1>2, ExtractionAssumption DEF MayAdd, Entry, Entries, ItemType
<1> QED
  BY <1>1, <1>3, AddToLogKeeps DEF BankPosts

(* So is a settlement, of an entry that was not settled before.            *)
LEMMA SettlesKeeps == Inv /\ BankSettles => Inv'
<1> SUFFICES ASSUME Inv, BankSettles PROVE Inv'
  OBVIOUS
<1> DEFINE C == Len(items)
<1>1. items[C] \in ItemType /\ Logged(items[C])
  <2>1. /\ items \in Seq(ItemType) /\ items # <<>>
        /\ \A p \in DOMAIN items : Logged(items[p])
    BY DEF Inv, TypeOK, ItemType, ExtractionInv, Flow, BankSettles, Updatable
  <2> QED
    BY <2>1
<1>2. PICK i \in DOMAIN items[C].log :
        /\ items[C].log[i].record.pending
        /\ AddToLog(Entry(items[C].log[i].account, items[C].log[i].day,
                          [items[C].log[i].record EXCEPT !.pending = FALSE], i))
  BY DEF BankSettles, Item, Current
<1> DEFINE held == items[C].log[i]
           posted == [held.record EXCEPT !.pending = FALSE]
<1>3. held \in Entries /\ i \in Nat
  BY <1>1 DEF ItemType
<1>4. held.record \in Mapping!Records(Int)
  BY <1>3 DEF Entries
<1>5. posted \in Mapping!Records(Int) /\ ~posted.pending
  BY <1>4, RecordFields
<1> DEFINE entry == Entry(held.account, held.day, posted, i)
<1>6. held.account \in items[C].linked
  BY <1>1 DEF Logged
<1> HIDE DEF posted
<1>7. /\ entry \in Entries /\ entry.account = held.account /\ entry.settles = i
      /\ entry.record = posted
  BY <1>3, <1>5 DEF Entry, Entries
<1>8. AddToLog(entry)
  BY <1>2 DEF posted
<1> HIDE DEF entry
<1>9. MayAdd(items[C], entry)
  BY <1>2, <1>5, <1>6, <1>7 DEF MayAdd
<1> QED
  BY <1>8, <1>9, AddToLogKeeps DEF BankSettles

(* An account linked later is not one the bundle owes.                     *)
LEMMA LinksKeeps == Inv /\ BankLinks => Inv'
<1> SUFFICES ASSUME Inv, BankLinks PROVE Inv'
  OBVIOUS
<1> DEFINE C == Len(items)
<1>1. PICK a \in Accounts : items' = [items EXCEPT ![C].linked = @ \cup {a}]
  BY DEF BankLinks, Item, Current
<1>2. /\ items \in Seq(ItemType) /\ items # <<>> /\ \A p \in DOMAIN items : Logged(items[p])
  BY DEF Inv, TypeOK, ItemType, ExtractionInv, Flow, BankLinks, Updatable
<1>3. C \in DOMAIN items /\ items[C] \in ItemType /\ Logged(items[C])
  BY <1>2
<1> DEFINE new == [items[C] EXCEPT !.linked = @ \cup {a}]
<1>4. items' = [items EXCEPT ![C] = new]
  BY <1>1, <1>3
<1>5. /\ new \in ItemType /\ new.log = items[C].log /\ new.linked = items[C].linked \cup {a}
      /\ new.balance = items[C].balance
      /\ Len(items[C].log) \in Nat
  BY <1>3 DEF ItemType
<1> HIDE DEF new
<1>6. Logged(new)
  BY <1>3, <1>5 DEF Logged
<1>7. \A read \in ReadType : \A upto \in 0..Len(items[C].log) :
        ReadTo(items[C], read, upto) => ReadTo(new, read, upto)
  BY <1>5 DEF ReadTo, SeenFirst, BalanceRead, After, ReadOnly, ReadAll
<1>8. Updatable /\ Len(new.log) \in Nat /\ Len(items[C].log) <= Len(new.log)
  BY <1>5 DEF BankLinks
<1> QED
  BY <1>4, <1>5, <1>6, <1>7, <1>8, ChangedItemKeeps

(* Every step keeps the invariant.                                         *)
LEMMA InvCorrect == Spec => []Inv
<1>1. Init => Inv
  <2> SUFFICES ASSUME Init PROVE Inv
    OBVIOUS
  <2>1. TypeOK
    BY ExtractionAssumption DEF Init, TypeOK, Requests
  <2>2. items = <<>> /\ drawn = <<>> /\ step = "item"
    BY DEF Init
  <2>3. Flow
    BY <2>2, ExtractionAssumption DEF Flow
  <2> QED
    BY <2>1, <2>2, <2>3 DEF Inv, ExtractionInv, BundleFacts
<1>2. Inv /\ [Next]_vars => Inv'
  <2> SUFFICES ASSUME Inv, [Next]_vars PROVE Inv'
    OBVIOUS
  <2>1. CASE Refused
    <3>1. TypeOK' /\ step' = "failed"
      BY <2>1 DEF Refused, Inv, TypeOK
    <3> QED
      BY <3>1 DEF Inv, ExtractionInv
  <2>2. CASE UNCHANGED vars
    <3>1. UNCHANGED <<step, items, updates, drawn, cursor, bundle, balances>>
      BY <2>2 DEF vars
    <3>2. TypeOK'
      BY <3>1 DEF Inv, TypeOK
    <3>3. CASE step = "failed"
      BY <3>1, <3>2, <3>3 DEF Inv, ExtractionInv
    <3>4. CASE step # "failed"
      <4>1. Flow' /\ BundleFacts'
        BY <3>1, <3>4 DEF Inv, ExtractionInv, Flow, BundleFacts, AccountsOf, TransactionsOf,
                         Rows, Mapped, MappedAccount
      <4> QED
        BY <3>1, <3>2, <3>4, <4>1, MovesKeep
    <3> QED
      BY <3>3, <3>4
  <2> QED
    BY <2>1, <2>2, CreateKeeps, ReadAccountsKeeps, ReadPageKeeps, NormalizeKeeps, WriteKeeps,
       StageKeeps, PostsKeeps, SettlesKeeps, LinksKeeps DEF Next, Extract
<1> QED
  BY <1>1, <1>2, PTL DEF Spec

(* The extraction's cursors, logs and answers keep their types.            *)
THEOREM TypeCorrect == Spec => []TypeOK
BY InvCorrect, PTL DEF Inv

-----------------------------------------------------------------------------
(* What is in the bundle.                                                  *)
InPages(p, i) == \E n \in DOMAIN drawn[p].pages : i \in drawn[p].pages[n]

(* The bundle row by row.                                                  *)
LEMMA BundleRows ==
  ASSUME bundle = [accounts |-> AccountsOf, transactions |-> TransactionsOf]
  PROVE  /\ \A k : k \in DOMAIN bundle.transactions <=>
              \E p \in 1..Profiles : \E n \in DOMAIN drawn[p].pages :
                \E i \in drawn[p].pages[n] : k = <<p, n, i>>
         /\ \A k \in DOMAIN bundle.transactions : bundle.transactions[k] = Mapped(k[1], k[3])
         /\ \A account \in bundle.accounts :
              \E p \in 1..Profiles : \E a \in drawn[p].accounts : account = MappedAccount(p, a)
<1>1. bundle.transactions = TransactionsOf /\ bundle.accounts = AccountsOf
  OBVIOUS
<1> DEFINE D == UNION {Rows(p) : p \in 1..Profiles}
<1>2. TransactionsOf = [row \in D |-> Mapped(row[1], row[3])]
  BY DEF TransactionsOf
<1>3. \A row : row \in D <=> \E p \in 1..Profiles : row \in Rows(p)
  OBVIOUS
<1> HIDE DEF D
<1>4. DOMAIN TransactionsOf = D /\ \A row \in D : TransactionsOf[row] = Mapped(row[1], row[3])
  BY <1>2
<1>5. \A p, row : row \in Rows(p) <=>
        \E n \in DOMAIN drawn[p].pages : \E i \in drawn[p].pages[n] : row = <<p, n, i>>
  BY DEF Rows
<1>6. \A account \in AccountsOf :
        \E p \in 1..Profiles : \E a \in drawn[p].accounts : account = MappedAccount(p, a)
  BY DEF AccountsOf
<1> QED
  BY <1>1, <1>3, <1>4, <1>5, <1>6

(* What is known of an item in a written bundle.                           *)
LEMMA WrittenItem ==
  ASSUME Inv, Written, NEW p \in 1..Profiles
  PROVE  /\ bundle = [accounts |-> AccountsOf, transactions |-> TransactionsOf]
         /\ Logged(items[p]) /\ ReadTo(items[p], drawn[p], Len(items[p].log))
         /\ items[p] \in ItemType /\ drawn[p] \in ReadType
         /\ Len(items[p].log) \in Nat /\ DOMAIN items[p].log = 1..Len(items[p].log)
         /\ \A i \in DOMAIN items[p].log : items[p].log[i] \in Entries
<1>1. /\ bundle = [accounts |-> AccountsOf, transactions |-> TransactionsOf]
      /\ Len(items) = Profiles /\ Len(drawn) = Profiles
      /\ cursor = Len(items[Len(items)].log)
      /\ \A q \in DOMAIN items : Logged(items[q])
      /\ \A q \in DOMAIN drawn : ReadTo(items[q], drawn[q], Place(items, cursor, q))
  BY DEF Inv, ExtractionInv, Flow, BundleFacts, Written
<1>2. p \in DOMAIN items /\ p \in DOMAIN drawn
  BY <1>1 DEF Inv, TypeOK
<1>3. Place(items, cursor, p) = Len(items[p].log)
  BY <1>1 DEF Place
<1>4. items \in Seq(ItemType) /\ drawn \in Seq(ReadType)
  BY DEF Inv, TypeOK, ItemType, ReadType
<1>5. items[p] \in ItemType
  BY <1>2, <1>4
<1>6. drawn[p] \in ReadType
  BY <1>2, <1>4
<1>7. items[p].log \in Seq(Entries)
  BY <1>5 DEF ItemType
<1>8. /\ Len(items[p].log) \in Nat /\ DOMAIN items[p].log = 1..Len(items[p].log)
      /\ \A i \in DOMAIN items[p].log : items[p].log[i] \in Entries
  BY <1>7
<1> QED
  BY <1>1, <1>2, <1>3, <1>5, <1>6, <1>8

(* The ids of the written bundle are the places that were read.            *)
LEMMA BundleContent ==
  ASSUME bundle = [accounts |-> AccountsOf, transactions |-> TransactionsOf]
  PROVE  /\ \A p \in 1..Profiles : \A i : <<p, i>> \in Ids <=> InPages(p, i)
         /\ \A k \in DOMAIN bundle.transactions :
              /\ k[1] \in 1..Profiles /\ k[2] \in DOMAIN drawn[k[1]].pages
              /\ k[3] \in drawn[k[1]].pages[k[2]] /\ k = <<k[1], k[2], k[3]>>
              /\ bundle.transactions[k].id = <<k[1], k[3]>>
              /\ bundle.transactions[k].account = <<k[1], items[k[1]].log[k[3]].account>>
         /\ \A p \in 1..Profiles : \A a \in drawn[p].accounts :
              \E account \in bundle.accounts : account.id = <<p, a>>
<1> DEFINE t == bundle.transactions
<1>1. /\ \A k : k \in DOMAIN t <=>
           \E p \in 1..Profiles : \E n \in DOMAIN drawn[p].pages :
             \E i \in drawn[p].pages[n] : k = <<p, n, i>>
      /\ \A k \in DOMAIN t : t[k] = Mapped(k[1], k[3])
  BY BundleRows
<1>2. \A p, i : Mapped(p, i).id = <<p, i>> /\ Mapped(p, i).account = <<p, items[p].log[i].account>>
  BY DEF Mapped
<1>3. Ids = {t[k].id : k \in DOMAIN t}
  BY DEF Ids
<1>4. bundle.accounts = AccountsOf
  OBVIOUS
<1> HIDE DEF t
<1>5. ASSUME NEW k \in DOMAIN t
      PROVE  /\ k[1] \in 1..Profiles /\ k[2] \in DOMAIN drawn[k[1]].pages
             /\ k[3] \in drawn[k[1]].pages[k[2]] /\ k = <<k[1], k[2], k[3]>>
             /\ t[k].id = <<k[1], k[3]>>
             /\ t[k].account = <<k[1], items[k[1]].log[k[3]].account>>
  <2>1. PICK p \in 1..Profiles : \E n \in DOMAIN drawn[p].pages :
          \E i \in drawn[p].pages[n] : k = <<p, n, i>>
    BY <1>1
  <2>2. PICK n \in DOMAIN drawn[p].pages : \E i \in drawn[p].pages[n] : k = <<p, n, i>>
    BY <2>1
  <2>3. PICK i \in drawn[p].pages[n] : k = <<p, n, i>>
    BY <2>2
  <2>4. k[1] = p /\ k[2] = n /\ k[3] = i
    BY <2>3
  <2> QED
    BY <1>1, <1>2, <2>3, <2>4
<1>6. ASSUME NEW p \in 1..Profiles, NEW i PROVE <<p, i>> \in Ids <=> InPages(p, i)
  <2>1. ASSUME InPages(p, i) PROVE <<p, i>> \in Ids
    <3>1. PICK n \in DOMAIN drawn[p].pages : i \in drawn[p].pages[n]
      BY <2>1 DEF InPages
    <3>2. <<p, n, i>> \in DOMAIN t
      BY <1>1, <3>1
    <3>3. t[<<p, n, i>>].id = <<p, i>>
      BY <1>1, <1>2, <3>2
    <3> QED
      BY <1>3, <3>2, <3>3
  <2>2. ASSUME <<p, i>> \in Ids PROVE InPages(p, i)
    <3>1. PICK k \in DOMAIN t : t[k].id = <<p, i>>
      BY <1>3, <2>2
    <3>2. k[1] = p /\ k[3] = i
      BY <1>5, <3>1
    <3> QED
      BY <1>5, <3>2 DEF InPages
  <2> QED
    BY <2>1, <2>2
<1>7. ASSUME NEW p \in 1..Profiles, NEW a \in drawn[p].accounts
      PROVE  \E account \in AccountsOf : account.id = <<p, a>>
  <2>1. MappedAccount(p, a) \in AccountsOf
    BY DEF AccountsOf
  <2>2. MappedAccount(p, a).id = <<p, a>>
    BY DEF MappedAccount
  <2> QED
    BY <2>1, <2>2
<1> QED
  BY <1>4, <1>5, <1>6, <1>7 DEF t

(* An entry read to the end is in the bundle or what settled it is: that   *)
(* one is posted, and nothing settles what is posted.                      *)
LEMMA WrittenIsExact == Inv /\ Written => BundleIsExact
<1> SUFFICES ASSUME Inv, Written PROVE BundleIsExact
  OBVIOUS
<1>1. bundle = [accounts |-> AccountsOf, transactions |-> TransactionsOf]
  <2>1. 1 \in 1..Profiles
    BY ExtractionAssumption
  <2> QED
    BY <2>1, WrittenItem
<1>2. ASSUME NEW p \in 1..Profiles
      PROVE  /\ Logged(items[p]) /\ ReadTo(items[p], drawn[p], Len(items[p].log))
             /\ items[p].log \in Seq(Entries) /\ drawn[p].seen \in Nat
  BY WrittenItem DEF ItemType, ReadType
<1>3. NothingMissed
  <2> SUFFICES ASSUME NEW p \in 1..Profiles, NEW i \in 1..drawn[p].seen, <<p, i>> \notin Ids
               PROVE  \E j \in DOMAIN items[p].log :
                        items[p].log[j].settles = i /\ <<p, j>> \in Ids
    BY DEF NothingMissed
  <2>1. /\ Len(items[p].log) \in Nat /\ DOMAIN items[p].log = 1..Len(items[p].log)
        /\ drawn[p].seen <= Len(items[p].log) /\ drawn[p].seen \in Nat
    BY <1>2 DEF ReadTo, SeenFirst
  <2>2. \A k \in 1..Len(items[p].log) : Replaced(items[p].log, k) \/ InPages(p, k)
    BY <1>2 DEF ReadTo, ReadAll, InPages
  <2>3. i \in 1..Len(items[p].log) /\ i # 0
    BY <2>1
  <2>4. PICK j \in DOMAIN items[p].log : items[p].log[j].settles = i
    BY <1>1, <2>2, <2>3, BundleContent DEF Replaced
  <2>5. ~items[p].log[j].record.pending
    BY <1>2, <2>3, <2>4 DEF Logged
  <2>6. ~Replaced(items[p].log, j)
    <3> SUFFICES ASSUME NEW k \in DOMAIN items[p].log, items[p].log[k].settles = j PROVE FALSE
      BY DEF Replaced
    <3>1. j # 0
      BY <2>1
    <3>2. items[p].log[j].record.pending
      BY <1>2, <3>1 DEF Logged
    <3> QED
      BY <2>5, <3>2
  <2> QED
    BY <1>1, <2>1, <2>2, <2>4, <2>6, BundleContent
<1>4. NothingTwice
  <2>1. ASSUME NEW k \in DOMAIN bundle.transactions, NEW l \in DOMAIN bundle.transactions,
               bundle.transactions[k].id = bundle.transactions[l].id
        PROVE  k = l
    <3>1. /\ k[1] \in 1..Profiles /\ k[2] \in DOMAIN drawn[k[1]].pages
          /\ k[3] \in drawn[k[1]].pages[k[2]] /\ k = <<k[1], k[2], k[3]>>
          /\ bundle.transactions[k].id = <<k[1], k[3]>>
      BY <1>1, BundleContent
    <3>2. /\ l[2] \in DOMAIN drawn[l[1]].pages
          /\ l[3] \in drawn[l[1]].pages[l[2]] /\ l = <<l[1], l[2], l[3]>>
          /\ bundle.transactions[l].id = <<l[1], l[3]>>
      BY <1>1, BundleContent
    <3>3. k[1] = l[1] /\ k[3] = l[3]
      <4>1. <<k[1], k[3]>> = <<l[1], l[3]>>
        BY <2>1, <3>1, <3>2
      <4> QED
        BY <4>1
    <3>4. k[2] = l[2]
      BY <1>2, <3>1, <3>2, <3>3 DEF ReadTo, InOnePage
    <3> QED
      BY <3>1, <3>2, <3>3, <3>4
  <2>2. ASSUME NEW p \in 1..Profiles, NEW j \in DOMAIN items[p].log,
               {<<p, j>>, <<p, items[p].log[j].settles>>} \subseteq Ids
        PROVE  j > drawn[p].seen
    <3>1. InPages(p, items[p].log[j].settles)
      BY <1>1, <2>2, BundleContent
    <3>2. ~(j \in 1..drawn[p].seen)
      BY <1>2, <3>1 DEF InPages, ReadTo, ReadOnly
    <3> QED
      BY <1>2, <3>2
  <2> QED
    BY <2>1, <2>2 DEF NothingTwice
<1>5. TransactionsHaveAccounts
  <2> SUFFICES ASSUME NEW k \in DOMAIN bundle.transactions
               PROVE  LET t == bundle.transactions[k] IN
                        \/ \E account \in bundle.accounts : account.id = t.account
                        \/ t.id[2] > drawn[t.id[1]].seen
                           /\ t.account[2] \notin drawn[t.id[1]].accounts
    BY DEF TransactionsHaveAccounts
  <2> DEFINE p == k[1]
             i == k[3]
             a == items[p].log[i].account
  <2>1. /\ p \in 1..Profiles /\ InPages(p, i)
        /\ bundle.transactions[k].id = <<p, i>>
        /\ bundle.transactions[k].account = <<p, a>>
    BY <1>1, BundleContent DEF InPages
  <2>2. i \in 1..Len(items[p].log)
    BY <1>2, <2>1 DEF InPages, ReadTo, ReadOnly
  <2>3. CASE a \in drawn[p].accounts
    BY <1>1, <2>1, <2>3, BundleContent
  <2>4. CASE a \notin drawn[p].accounts
    <3>1. ~(i \in 1..drawn[p].seen)
      BY <1>2, <2>1, <2>4 DEF ReadTo, SeenFirst
    <3>2. i > drawn[p].seen
      BY <1>2, <2>1, <2>2, <3>1
    <3> QED
      BY <2>1, <2>4, <3>2
  <2> QED
    BY <2>3, <2>4
<1> QED
  BY <1>3, <1>4, <1>5 DEF BundleIsExact

(* Whatever the bank posts, settles and links between the requests, the    *)
(* bundle holds every entry once, with its account, but for what happened  *)
(* after the accounts were read.                                           *)
THEOREM BundleCorrect == Spec => []BundleIsExact
<1>1. Inv => BundleIsExact
  <2>1. ~Written => BundleIsExact
    BY DEF BundleIsExact, NothingMissed, NothingTwice, TransactionsHaveAccounts
  <2> QED
    BY <2>1, WrittenIsExact
<1> QED
  BY <1>1, InvCorrect, PTL

-----------------------------------------------------------------------------
(* The balances.                                                           *)

(* A posted transaction counts as what it books, or as the opposite.       *)
LEMMA SignedOfMapped ==
  ASSUME NEW p, NEW i, NEW entry \in Entries, entry = items[p].log[i]
  PROVE  /\ SignedAmount(Mapped(p, i)) \in Int
         /\ ~entry.record.pending =>
              SignedAmount(Mapped(p, i)) = IF SignKept(entry) THEN Booked(entry) ELSE -Booked(entry)
<1> DEFINE record == entry.record
           type == Mapping!TransactionType(record)
           amount == record.amount
<1>1. record \in Mapping!Records(Int) /\ amount \in Int
  BY BookedTyped
<1>2. type # "REFUND"
  <2> DEFINE types == [credit |-> "CREDIT", wire |-> "WIRE", fee |-> "FEE"]
  <2>1. types["credit"] = "CREDIT" /\ types["wire"] = "WIRE" /\ types["fee"] = "FEE"
    OBVIOUS
  <2>2. record.text \in {"credit", "wire", "fee", "other"}
    BY <1>1 DEF Mapping!Records
  <2> HIDE DEF types, record
  <2>3. Mapping!TransactionType(record) \in {"CREDIT", "WIRE", "DEBIT", types[record.text]}
    BY DEF Mapping!TransactionType, types
  <2>4. record.text # "other" => types[record.text] \in {"CREDIT", "WIRE", "FEE"}
    BY <2>1, <2>2
  <2>5. record.text = "other" => Mapping!TransactionType(record) \in {"CREDIT", "WIRE", "DEBIT"}
    BY DEF Mapping!TransactionType
  <2> QED
    BY <2>3, <2>4, <2>5
<1>3. /\ Mapped(p, i).type = type
      /\ Mapped(p, i).amount = IF amount < 0 THEN -amount ELSE amount
  BY DEF Mapped, Mapping!MappedAmount, Mapping!Magnitude
<1>4. /\ Change(entry) = IF Owed(entry.account) THEN amount ELSE -amount
      /\ ~entry.record.pending => Booked(entry) = Change(entry)
  BY DEF Change, Booked
<1>5. SignKept(entry) <=> (type = "CREDIT" <=> Change(entry) > 0)
  BY DEF SignKept
<1>6. SignedAmount(Mapped(p, i)) =
        IF type = "CREDIT" THEN Mapped(p, i).amount ELSE -Mapped(p, i).amount
  BY <1>2, <1>3 DEF SignedAmount
<1> HIDE DEF type, amount, record
<1> DEFINE change == Change(entry)
           signed == SignedAmount(Mapped(p, i))
<1>7. /\ change = amount \/ change = -amount
      /\ signed = IF type = "CREDIT" THEN IF amount < 0 THEN -amount ELSE amount
                  ELSE -(IF amount < 0 THEN -amount ELSE amount)
  BY <1>3, <1>4, <1>6
<1> HIDE DEF change, signed
<1>8. signed \in Int
  BY <1>1, <1>7
<1>9. signed = IF type = "CREDIT" <=> change > 0 THEN change ELSE -change
  <2>1. CASE type = "CREDIT"
    BY <1>1, <1>7, <2>1
  <2>2. CASE type # "CREDIT"
    BY <1>1, <1>7, <2>2
  <2> QED
    BY <2>1, <2>2
<1> QED
  BY <1>4, <1>5, <1>8, <1>9 DEF change, signed

(* What is staged is derived from the bundle, once.                        *)
BalancesInv ==
  IF step = "done" THEN balances = Derive(bundle.accounts, bundle.transactions, Today)
  ELSE balances = {}

(* Only the last step stages balances, and after it nothing changes.       *)
LEMMA BalancesKept == Spec => []BalancesInv
<1>1. Init => BalancesInv
  BY DEF Init, BalancesInv
<1>2. BalancesInv /\ [Next]_vars => BalancesInv'
  <2> SUFFICES ASSUME BalancesInv, [Next]_vars PROVE BalancesInv'
    OBVIOUS
  <2>1. CASE StageBalances
    BY <2>1 DEF StageBalances, BalancesInv
  <2>2. CASE UNCHANGED vars
    BY <2>2 DEF vars, BalancesInv
  <2>3. CASE Next /\ ~StageBalances
    <3>1. step # "done" /\ step' # "done" /\ balances' = balances
      BY <2>3 DEF Next, Extract, CreateItem, ReadAccounts, ReadPage, Advance, Normalize, WriteBundle,
                  Refused, Requests, BankPosts, BankSettles, BankLinks, Updatable
    <3> QED
      BY <3>1 DEF BalancesInv
  <2> QED
    BY <2>1, <2>2, <2>3
<1> QED
  BY <1>1, <1>2, PTL DEF Spec

(* The rows of an account in the bundle, and those from a day on.          *)
AccountRows(p, a) == {k \in DOMAIN bundle.transactions : bundle.transactions[k].account = <<p, a>>}

LateRows(p, a, day) == {k \in AccountRows(p, a) : bundle.transactions[k].day \notin 0..day - 1}

(* The rows of an account are its entries whose ids are in the bundle.     *)
LEMMA RowsMatchEntries ==
  ASSUME Inv, Written, NEW p \in 1..Profiles, NEW a
  PROVE  /\ IsFiniteSet(AccountRows(p, a)) /\ IsFiniteSet(Own(p, a))
         /\ \A k \in AccountRows(p, a) :
              /\ bundle.transactions[k] = Mapped(p, k[3])
              /\ bundle.transactions[k].day = items[p].log[k[3]].day
              /\ k[3] \in Own(p, a) /\ <<p, k[3]>> \in Ids
         /\ \A k, l \in AccountRows(p, a) : k[3] = l[3] => k = l
         /\ \A i \in Own(p, a) : <<p, i>> \in Ids => \E k \in AccountRows(p, a) : k[3] = i
         /\ \A i \in Own(p, a) : items[p].log[i] \in Entries /\ items[p].log[i].day \in 1..Today
<1> DEFINE log == items[p].log
           pages == drawn[p].pages
<1>1. /\ bundle = [accounts |-> AccountsOf, transactions |-> TransactionsOf]
      /\ ReadTo(items[p], drawn[p], Len(log))
      /\ Len(log) \in Nat /\ DOMAIN log = 1..Len(log)
      /\ \A i \in DOMAIN log : log[i] \in Entries
  BY WrittenItem
<1>2. \A i \in DOMAIN log : log[i].day \in 1..Today
  BY <1>1 DEF Entries
<1>3. \A q, i : /\ Mapped(q, i).account = <<q, items[q].log[i].account>>
                /\ Mapped(q, i).day = items[q].log[i].day
  BY DEF Mapped
<1>4. \A i : <<p, i>> \in Ids <=> InPages(p, i)
  BY <1>1, BundleContent
<1>5. ASSUME NEW k \in AccountRows(p, a)
      PROVE  /\ k[2] \in DOMAIN pages /\ k[3] \in pages[k[2]] /\ k = <<p, k[2], k[3]>>
             /\ bundle.transactions[k] = Mapped(p, k[3]) /\ k[3] \in Own(p, a)
             /\ <<p, k[3]>> \in Ids
  <2>1. k \in DOMAIN bundle.transactions /\ bundle.transactions[k].account = <<p, a>>
    BY DEF AccountRows
  <2>2. PICK q \in 1..Profiles : \E n \in DOMAIN drawn[q].pages :
          \E i \in drawn[q].pages[n] : k = <<q, n, i>>
    BY <1>1, <2>1, BundleRows
  <2>3. PICK n \in DOMAIN drawn[q].pages : \E i \in drawn[q].pages[n] : k = <<q, n, i>>
    BY <2>2
  <2>4. PICK i \in drawn[q].pages[n] : k = <<q, n, i>>
    BY <2>3
  <2>5. k[1] = q /\ k[2] = n /\ k[3] = i
    BY <2>4
  <2>6. bundle.transactions[k] = Mapped(q, i)
    BY <1>1, <2>1, <2>5, BundleRows
  <2>7. q = p /\ items[q].log[i].account = a
    <3>1. <<q, items[q].log[i].account>> = <<p, a>>
      BY <1>3, <2>1, <2>6
    <3> QED
      BY <3>1
  <2>8. i \in DOMAIN log
    BY <1>1, <2>4, <2>7 DEF ReadTo, ReadOnly
  <2>9. <<p, k[3]>> \in Ids
    BY <1>4, <2>4, <2>5, <2>7 DEF InPages
  <2> QED
    BY <2>4, <2>5, <2>6, <2>7, <2>8, <2>9 DEF Own
<1>6. ASSUME NEW k \in AccountRows(p, a), NEW l \in AccountRows(p, a), k[3] = l[3] PROVE k = l
  <2>1. k[2] \in DOMAIN pages /\ k[3] \in pages[k[2]] /\ k = <<p, k[2], k[3]>>
    BY <1>5
  <2>2. l[2] \in DOMAIN pages /\ l[3] \in pages[l[2]] /\ l = <<p, l[2], l[3]>>
    BY <1>5
  <2>3. k[2] = l[2]
    BY <1>1, <1>6, <2>1, <2>2 DEF ReadTo, InOnePage
  <2> QED
    BY <1>6, <2>1, <2>2, <2>3
<1>7. IsFiniteSet(AccountRows(p, a)) /\ IsFiniteSet(Own(p, a))
  <2> DEFINE h == [k \in AccountRows(p, a) |-> k[3]]
  <2>1. h \in [AccountRows(p, a) -> DOMAIN log]
    BY <1>5 DEF Own
  <2>2. \A k, l \in AccountRows(p, a) : h[k] = h[l] => k = l
    BY <1>6
  <2> HIDE DEF h
  <2>3. h \in Injection(AccountRows(p, a), DOMAIN log)
    BY <2>1, <2>2 DEF Injection, IsInjective
  <2>4. IsFiniteSet(DOMAIN log)
    BY <1>1, FS_Interval
  <2>5. IsFiniteSet(AccountRows(p, a))
    BY <2>3, <2>4, FS_Injection
  <2>6. Own(p, a) \subseteq DOMAIN log
    BY DEF Own
  <2> QED
    BY <2>4, <2>5, <2>6, FS_Subset
<1>8. ASSUME NEW i \in Own(p, a), <<p, i>> \in Ids PROVE \E k \in AccountRows(p, a) : k[3] = i
  <2>1. i \in DOMAIN log /\ log[i].account = a
    BY DEF Own
  <2>2. PICK n \in DOMAIN pages : i \in pages[n]
    BY <1>4, <1>8 DEF InPages
  <2> DEFINE k == <<p, n, i>>
  <2>3. k[1] = p /\ k[3] = i
    OBVIOUS
  <2>4. k \in DOMAIN bundle.transactions
    BY <1>1, <2>2, BundleRows
  <2>5. bundle.transactions[k] = Mapped(p, i)
    BY <1>1, <2>3, <2>4, BundleRows
  <2>6. bundle.transactions[k].account = <<p, a>>
    BY <1>3, <2>1, <2>5
  <2>7. k \in AccountRows(p, a)
    BY <2>4, <2>6 DEF AccountRows
  <2> QED
    BY <2>3, <2>7
<1>9. \A i \in Own(p, a) : i \in DOMAIN log
  BY DEF Own
<1> QED
  BY <1>1, <1>2, <1>3, <1>5, <1>6, <1>7, <1>8, <1>9

(* What the rows of an account from a day on come to is what its entries   *)
(* from then on are counted for.                                           *)
LEMMA LateTotals ==
  ASSUME Inv, Written, NEW p \in 1..Profiles, NEW a, NEW day \in Nat,
         NEW c, \A i \in Own(p, a) : c[i] = IF items[p].log[i].day >= day THEN Counted(p, i) ELSE 0
  PROVE  /\ SignedTotal(bundle.transactions, AccountRows(p, a)) \in Int
         /\ SignedTotal(bundle.transactions, AccountRows(p, a) \ LateRows(p, a, day)) \in Int
         /\ SignedTotal(bundle.transactions, AccountRows(p, a))
              - SignedTotal(bundle.transactions, AccountRows(p, a) \ LateRows(p, a, day))
            = SumOver(c, Own(p, a))
         /\ \A i \in Own(p, a) : Counted(p, i) \in Int /\ c[i] \in Int
<1> DEFINE t == bundle.transactions
           O == AccountRows(p, a)
           late == LateRows(p, a, day)
           log == items[p].log
           all == Own(p, a)
           L == {i \in all : <<p, i>> \in Ids /\ log[i].day >= day}
           w == [k \in O |-> SignedAmount(t[k])]
           h == [k \in late |-> k[3]]
<1>1. /\ IsFiniteSet(O) /\ late \in SUBSET O /\ IsFiniteSet(all)
      /\ \A k \in O : /\ t[k] = Mapped(p, k[3]) /\ t[k].day = log[k[3]].day
                      /\ k[3] \in all /\ <<p, k[3]>> \in Ids
      /\ \A k, l \in O : k[3] = l[3] => k = l
      /\ \A i \in all : <<p, i>> \in Ids => \E k \in O : k[3] = i
      /\ \A i \in all : log[i] \in Entries /\ log[i].day \in Nat
  <2>1. late \in SUBSET O
    BY DEF LateRows
  <2>2. 1..Today \subseteq Nat
    BY ExtractionAssumption
  <2>3. \A i \in all : log[i] \in Entries /\ log[i].day \in 1..Today
    BY RowsMatchEntries
  <2>4. \A i \in all : log[i] \in Entries /\ log[i].day \in Nat
    BY ONLY <2>2, <2>3
  <2> QED
    BY <2>1, <2>4, RowsMatchEntries
<1>2. \A k \in O : k \in late <=> log[k[3]].day >= day
  <2>1. \A k \in O : k \in late <=> t[k].day \notin 0..day - 1
    BY DEF LateRows
  <2> SUFFICES ASSUME NEW k \in O PROVE k \in late <=> log[k[3]].day >= day
    OBVIOUS
  <2>2. /\ k \in late <=> t[k].day \notin 0..day - 1
        /\ t[k].day = log[k[3]].day /\ k[3] \in all
    BY <1>1, <2>1
  <2>3. log[k[3]].day \in Nat
    BY <1>1, <2>2
  <2> HIDE DEF O, late, t, all, log
  <2>4. log[k[3]].day \notin 0..day - 1 <=> log[k[3]].day >= day
    BY <2>3
  <2> QED
    BY <2>2, <2>4
<1>3. \A i \in all : SignedAmount(Mapped(p, i)) \in Int
  BY <1>1, SignedOfMapped
<1>0. \A i \in all : c[i] = IF log[i].day >= day THEN Counted(p, i) ELSE 0
  OBVIOUS
<1>4. \A i \in all :
        /\ Counted(p, i) \in Int
        /\ <<p, i>> \in Ids => Counted(p, i) = SignedAmount(Mapped(p, i))
        /\ <<p, i>> \notin Ids => Counted(p, i) = 0
  BY <1>3 DEF Counted
<1>5. \A i \in all : c[i] \in Int /\ c[i] = IF log[i].day >= day THEN Counted(p, i) ELSE 0
  <2> SUFFICES ASSUME NEW i \in all PROVE c[i] \in Int
    BY <1>0
  <2>1. c[i] = (IF log[i].day >= day THEN Counted(p, i) ELSE 0) /\ Counted(p, i) \in Int
    BY <1>0, <1>4
  <2>2. CASE log[i].day >= day
    BY <2>1, <2>2
  <2>3. CASE ~(log[i].day >= day)
    BY <2>1, <2>3
  <2> QED
    BY <2>2, <2>3
<1>6. \A k \in O : w[k] = SignedAmount(t[k])
  OBVIOUS
<1>7. \A k \in late : h[k] = k[3]
  OBVIOUS
<1>8. L \in SUBSET all /\ \A i \in all : i \in L <=> <<p, i>> \in Ids /\ log[i].day >= day
  OBVIOUS
<1> HIDE DEF O, late, L, w, h, t, all
<1>9. \A k \in O : w[k] \in Int /\ w[k] = Counted(p, k[3])
  <2> SUFFICES ASSUME NEW k \in O PROVE w[k] \in Int /\ w[k] = Counted(p, k[3])
    OBVIOUS
  <2>1. t[k] = Mapped(p, k[3]) /\ k[3] \in all /\ <<p, k[3]>> \in Ids
    BY <1>1
  <2>2. w[k] = SignedAmount(Mapped(p, k[3]))
    BY <1>6, <2>1
  <2> QED
    BY <1>4, <2>1, <2>2
<1>10. /\ IsFiniteSet(late) /\ IsFiniteSet(O \ late) /\ O \ late \in SUBSET O
       /\ \A k \in late : w[k] \in Int
       /\ \A k \in O \ late : w[k] \in Int /\ w[k] = SignedAmount(t[k])
  <2>1. O \ late \in SUBSET O
    OBVIOUS
  <2>2. IsFiniteSet(late) /\ IsFiniteSet(O \ late)
    BY ONLY <1>1, <2>1, FS_Subset
  <2> QED
    BY <1>1, <1>6, <1>9, <2>1, <2>2
<1>11. SumOver(c, L) = SumOver(w, late)
  <2>1. \A k \in late : w[k] \in Int /\ h[k] \in L /\ c[h[k]] = w[k]
    <3> SUFFICES ASSUME NEW k \in late PROVE w[k] \in Int /\ h[k] \in L /\ c[h[k]] = w[k]
      OBVIOUS
    <3>1. k \in O /\ h[k] = k[3] /\ k[3] \in all /\ <<p, k[3]>> \in Ids /\ log[k[3]].day >= day
      BY <1>1, <1>2, <1>7
    <3>2. k[3] \in L /\ c[k[3]] = Counted(p, k[3])
      BY <1>5, <1>8, <3>1
    <3> QED
      BY <1>9, <3>1, <3>2
  <2>2. \A k, l \in late : h[k] = h[l] => k = l
    BY <1>1, <1>7
  <2>3. \A i \in L : \E k \in late : h[k] = i
    <3> SUFFICES ASSUME NEW i \in L PROVE \E k \in late : h[k] = i
      OBVIOUS
    <3>1. i \in all /\ <<p, i>> \in Ids /\ log[i].day >= day
      BY <1>8
    <3>2. PICK k \in O : k[3] = i
      BY <1>1, <3>1
    <3>3. k \in late
      BY <1>2, <3>1, <3>2
    <3> QED
      BY <1>7, <3>2, <3>3
  <2> QED
    BY <1>10, <2>1, <2>2, <2>3, SumMatched
<1>12. SumOver(c, all) = SumOver(c, L)
  <2>1. \A i \in all \ L : c[i] = 0
    BY <1>4, <1>5, <1>8
  <2>2. \A i \in all : c[i] \in Int
    BY <1>5
  <2> QED
    BY <1>1, <1>8, <2>1, <2>2, SumPart
<1>13. SumOver(w, O) = SumOver(w, late) + SumOver(w, O \ late)
  BY <1>1, <1>9, SumSplit
<1>14. SumOver(w, O) \in Int /\ SumOver(w, late) \in Int /\ SumOver(w, O \ late) \in Int
  BY <1>1, <1>9, <1>10, SumWithout
<1>15. SignedTotal(t, O) = SumOver(w, O)
  BY <1>1, <1>6, <1>9, SignedTotalIs
<1>16. SignedTotal(t, O \ late) = SumOver(w, O \ late)
  BY <1>10, SignedTotalIs
<1> DEFINE total == SignedTotal(t, O)
           early == SignedTotal(t, O \ late)
           counted == SumOver(c, all)
<1>17. total - early = counted /\ total \in Int /\ early \in Int
  BY <1>11, <1>12, <1>13, <1>14, <1>15, <1>16
<1>18. \A i \in all : Counted(p, i) \in Int /\ c[i] \in Int
  BY <1>4, <1>5
<1> QED
  BY <1>17, <1>18 DEF O, late, t, all

(* A posted entry that was there when the accounts were read is in the     *)
(* bundle.                                                                 *)
LEMMA PostedIsCounted ==
  ASSUME Inv, Written, NEW p \in 1..Profiles, NEW i \in DOMAIN items[p].log,
         ~items[p].log[i].record.pending
  PROVE  <<p, i>> \in Ids
<1> DEFINE log == items[p].log
<1>1. /\ bundle = [accounts |-> AccountsOf, transactions |-> TransactionsOf]
      /\ Logged(items[p]) /\ ReadTo(items[p], drawn[p], Len(log))
      /\ Len(log) \in Nat /\ DOMAIN log = 1..Len(log)
  BY WrittenItem
<1>2. ~Replaced(log, i)
  <2> SUFFICES ASSUME NEW j \in DOMAIN log, log[j].settles = i PROVE FALSE
    BY DEF Replaced
  <2>1. i # 0
    BY <1>1
  <2> QED
    BY <1>1, <2>1 DEF Logged
<1>3. InPages(p, i)
  BY <1>1, <1>2 DEF ReadTo, ReadAll, InPages
<1> QED
  BY <1>1, <1>3, BundleContent

(* Entry by entry, what the bank booked from a day on is what puts the     *)
(* opening off, what was counted from that day on and what came too late   *)
(* to be in the balance.                                                   *)
LEMMA ShiftIs ==
  ASSUME Inv, Written, NEW p \in 1..Profiles, NEW a, NEW i \in Own(p, a), NEW day \in Nat
  PROVE  LET after == items[p].log[i].day >= day
             booked == Booked(items[p].log[i])
         IN /\ booked \in Int /\ Counted(p, i) \in Int /\ Shift(p, i, day) \in Int
            /\ (IF after THEN booked ELSE 0)
               = (Shift(p, i, day) + IF after THEN Counted(p, i) ELSE 0)
                 + IF i > drawn[p].seen THEN booked ELSE 0
<1> DEFINE entry == items[p].log[i]
           seen == drawn[p].seen
           after == entry.day >= day
           booked == Booked(entry)
           counted == Counted(p, i)
           shift == Shift(p, i, day)
<1>1. entry \in Entries /\ i \in DOMAIN items[p].log /\ i \in Nat /\ seen \in Nat
  <2>1. drawn[p] \in ReadType /\ DOMAIN items[p].log = 1..Len(items[p].log)
    BY WrittenItem
  <2>2. entry \in Entries
    BY RowsMatchEntries
  <2>3. i \in DOMAIN items[p].log
    BY DEF Own
  <2>4. Len(items[p].log) \in Nat
    BY WrittenItem
  <2>5. i \in Nat
    BY <2>1, <2>3, <2>4
  <2>6. seen \in Nat
    BY <2>1 DEF ReadType
  <2> QED
    BY <2>2, <2>3, <2>5, <2>6
<1>2. booked \in Int /\ entry.record.pending \in BOOLEAN
  BY <1>1, BookedTyped, RecordFields
<1>3. entry.record.pending => booked = 0
  BY DEF Booked
<1>4. /\ SignedAmount(Mapped(p, i)) \in Int
      /\ ~entry.record.pending =>
           SignedAmount(Mapped(p, i)) = IF SignKept(entry) THEN booked ELSE -booked
  BY <1>1, SignedOfMapped
<1>5. /\ counted \in Int
      /\ ~entry.record.pending => counted = IF SignKept(entry) THEN booked ELSE -booked
  BY <1>1, <1>4, PostedIsCounted DEF Counted
<1>6. /\ i > seen /\ ~after => shift = -booked
      /\ i > seen /\ after => shift = -counted
      /\ ~(i > seen) /\ ~after => shift = 0
      /\ ~(i > seen) /\ after => shift = IF entry.record.pending THEN -counted
                                         ELSE IF SignKept(entry) THEN 0 ELSE 2 * booked
  BY <1>1 DEF Shift
<1> HIDE DEF entry, seen, booked, counted, shift
<1>7. CASE ~after
  BY <1>1, <1>2, <1>5, <1>6, <1>7 DEF entry, seen, booked, counted, shift
<1>8. CASE after /\ i > seen
  BY <1>1, <1>2, <1>5, <1>6, <1>8 DEF entry, seen, booked, counted, shift
<1>9. CASE after /\ ~(i > seen)
  <2>1. shift = booked - counted
    BY <1>2, <1>3, <1>5, <1>6, <1>9
  <2> QED
    BY <1>2, <1>5, <1>9, <2>1 DEF entry, seen, booked, counted, shift
<1> QED
  BY <1>7, <1>8, <1>9

(* Reckoning back from the balance that was read.                          *)
LEMMA ReckonedBack ==
  ASSUME Inv, Written, NEW p \in 1..Profiles, NEW a \in Accounts, NEW day \in Nat
  PROVE  LET total == SignedTotal(bundle.transactions, AccountRows(p, a))
             early == SignedTotal(bundle.transactions, AccountRows(p, a) \ LateRows(p, a, day))
         IN /\ total \in Int /\ early \in Int /\ drawn[p].balance[a] \in Int
            /\ (drawn[p].balance[a] - total) + early
               = HeldBefore(p, a, day) + MapThenSumSet(LAMBDA i : Shift(p, i, day), Own(p, a))
<1> DEFINE log == items[p].log
           all == Own(p, a)
           seen == drawn[p].seen
           booked == [i \in all |-> Booked(log[i])]
           from == [i \in all |-> IF log[i].day >= day THEN Booked(log[i]) ELSE 0]
           newer == [i \in all |-> IF i > seen THEN Booked(log[i]) ELSE 0]
           counted == [i \in all |-> IF log[i].day >= day THEN Counted(p, i) ELSE 0]
           shift == [i \in all |-> Shift(p, i, day)]
           both == [i \in all |-> shift[i] + counted[i]]
           Late == {i \in all : log[i].day >= day}
           Newer == {i \in all : i > seen}
<1>1. /\ items[p] \in ItemType /\ drawn[p] \in ReadType
      /\ ReadTo(items[p], drawn[p], Len(log))
  BY WrittenItem
<1>2. /\ log \in Seq(Entries) /\ items[p].balance[a] \in Int /\ drawn[p].balance[a] \in Int
      /\ all \in SUBSET DOMAIN log
  BY <1>1 DEF ItemType, ReadType, Own
<1>3. /\ Late \in SUBSET all /\ Newer \in SUBSET all
      /\ Late \in SUBSET DOMAIN log /\ Newer \in SUBSET DOMAIN log
  BY <1>2
<1>4. ASSUME NEW i \in all
      PROVE  /\ Booked(log[i]) \in Int /\ Counted(p, i) \in Int /\ Shift(p, i, day) \in Int
             /\ from[i] = both[i] + newer[i]
             /\ from[i] \in Int /\ newer[i] \in Int /\ counted[i] \in Int /\ shift[i] \in Int
             /\ both[i] \in Int /\ both[i] = shift[i] + counted[i]
  <2>1. /\ Booked(log[i]) \in Int /\ Counted(p, i) \in Int /\ Shift(p, i, day) \in Int
        /\ (IF log[i].day >= day THEN Booked(log[i]) ELSE 0)
           = (Shift(p, i, day) + IF log[i].day >= day THEN Counted(p, i) ELSE 0)
             + IF i > seen THEN Booked(log[i]) ELSE 0
    BY ShiftIs
  <2> QED
    BY <2>1
<1>5. \A i \in all :
        /\ i \in Late => from[i] = Booked(log[i])
        /\ i \notin Late => from[i] = 0
        /\ i \in Newer => newer[i] = Booked(log[i])
        /\ i \notin Newer => newer[i] = 0
        /\ shift[i] = Shift(p, i, day)
        /\ counted[i] = IF log[i].day >= day THEN Counted(p, i) ELSE 0
  OBVIOUS
<1>6. HeldBefore(p, a, day) = items[p].balance[a] - BookedIn(log, Late)
  BY DEF HeldBefore
<1>7. drawn[p].balance[a] = items[p].balance[a] - BookedIn(log, Newer)
  <2>1. After(log, a, seen) = Newer
    BY DEF After, Own
  <2> QED
    BY <1>1, <2>1 DEF ReadTo, BalanceRead
<1>8. IsFiniteSet(all)
  BY RowsMatchEntries
<1> DEFINE total == SignedTotal(bundle.transactions, AccountRows(p, a))
           early == SignedTotal(bundle.transactions, AccountRows(p, a) \ LateRows(p, a, day))
<1>9. total \in Int /\ early \in Int /\ total - early = SumOver(counted, all)
  BY <1>5, LateTotals
<1> HIDE DEF all, booked, from, newer, counted, shift, both, Late, Newer, total, early
<1>10. BookedIn(log, Late) = SumOver(from, all)
  <2>1. \A i \in Late : from[i] = Booked(log[i])
    BY <1>3, <1>5
  <2>2. BookedIn(log, Late) = SumOver(from, Late)
    BY <1>2, <1>3, <2>1, BookedInFacts
  <2>3. \A i \in all \ Late : from[i] = 0
    BY <1>5
  <2>4. \A i \in all : from[i] \in Int
    BY <1>4
  <2> QED
    BY <1>3, <1>8, <2>2, <2>3, <2>4, SumPart
<1>11. BookedIn(log, Newer) = SumOver(newer, all)
  <2>1. \A i \in Newer : newer[i] = Booked(log[i])
    BY <1>3, <1>5
  <2>2. BookedIn(log, Newer) = SumOver(newer, Newer)
    BY <1>2, <1>3, <2>1, BookedInFacts
  <2>3. \A i \in all \ Newer : newer[i] = 0
    BY <1>5
  <2>4. \A i \in all : newer[i] \in Int
    BY <1>4
  <2> QED
    BY <1>3, <1>8, <2>2, <2>3, <2>4, SumPart
<1>12. /\ SumOver(both, all) \in Int /\ SumOver(newer, all) \in Int
       /\ SumOver(from, all) = SumOver(both, all) + SumOver(newer, all)
  BY <1>4, <1>8, SumLinear
<1>13. /\ SumOver(shift, all) \in Int /\ SumOver(counted, all) \in Int
       /\ SumOver(both, all) = SumOver(shift, all) + SumOver(counted, all)
  BY <1>4, <1>8, SumLinear
<1>14. MapThenSumSet(LAMBDA i : Shift(p, i, day), all) = SumOver(shift, all)
  <2>1. \A i \in all : shift[i] \in Int /\ shift[i] = Shift(p, i, day)
    BY <1>4, <1>5
  <2> QED
    BY <1>8, <2>1, ShiftTotalIs
<1> DEFINE now == items[p].balance[a]
           read == drawn[p].balance[a]
           f == SumOver(from, all)
           n == SumOver(newer, all)
           c == SumOver(counted, all)
           s == SumOver(shift, all)
           b == SumOver(both, all)
           held == HeldBefore(p, a, day)
           off == MapThenSumSet(LAMBDA i : Shift(p, i, day), all)
<1>15. /\ now \in Int /\ read \in Int /\ total \in Int /\ early \in Int
       /\ n \in Int /\ c \in Int /\ s \in Int /\ b \in Int
       /\ held = now - f /\ read = now - n /\ total - early = c
       /\ f = b + n /\ b = s + c /\ off = s
  BY <1>2, <1>6, <1>7, <1>9, <1>10, <1>11, <1>12, <1>13, <1>14
<1>16. (read - total) + early = held + off
  <2> HIDE DEF now, read, f, n, c, s, b, held, off
  <2> QED
    BY <1>15
<1> QED
  BY <1>15, <1>16 DEF total, early, all

(* The staged rows are such reckonings.                                    *)
LEMMA DerivedExplained ==
  ASSUME Inv, Written, balances = Derive(bundle.accounts, bundle.transactions, Today)
  PROVE  BalancesExplained
<1> SUFFICES ASSUME NEW row \in balances
             PROVE  row.opening = HeldBefore(row.account[1], row.account[2], row.day)
                      + MapThenSumSet(LAMBDA i : Shift(row.account[1], i, row.day),
                                      Own(row.account[1], row.account[2]))
  BY DEF BalancesExplained
<1> DEFINE t == bundle.transactions
<1>1. bundle = [accounts |-> AccountsOf, transactions |-> TransactionsOf]
  <2>1. 1 \in 1..Profiles
    BY ExtractionAssumption
  <2> QED
    BY <2>1, WrittenItem
<1>2. PICK account \in bundle.accounts : row \in BalancesOf(account, t, Today)
  BY DEF Derive
<1>3. PICK p \in 1..Profiles : \E a \in drawn[p].accounts : account = MappedAccount(p, a)
  BY <1>1, BundleRows
<1>4. PICK a \in drawn[p].accounts : account = MappedAccount(p, a)
  BY <1>3
<1>5. account.id = <<p, a>> /\ account.current = drawn[p].balance[a]
  BY <1>4 DEF MappedAccount
<1>6. a \in Accounts
  <2>1. drawn[p] \in ReadType
    BY WrittenItem
  <2> QED
    BY <2>1 DEF ReadType
<1> DEFINE own == {i \in DOMAIN t : t[i].account = account.id}
           before == account.current - SignedTotal(t, own)
           Until(days) == before + SignedTotal(t, {i \in own : t[i].day \in days})
           total == SignedTotal(t, AccountRows(p, a))
           early(day) == SignedTotal(t, AccountRows(p, a) \ LateRows(p, a, day))
<1>7. own = AccountRows(p, a)
  BY <1>5 DEF AccountRows
<1>8. ASSUME NEW day \in Nat, row.account = account.id, row.day = day,
             row.opening = (drawn[p].balance[a] - total) + early(day)
      PROVE  row.opening = HeldBefore(row.account[1], row.account[2], row.day)
               + MapThenSumSet(LAMBDA i : Shift(row.account[1], i, row.day),
                               Own(row.account[1], row.account[2]))
  <2>1. row.account[1] = p /\ row.account[2] = a
    BY <1>5, <1>8
  <2>2. (drawn[p].balance[a] - total) + early(day)
          = HeldBefore(p, a, day) + MapThenSumSet(LAMBDA i : Shift(p, i, day), Own(p, a))
    BY <1>6, ReckonedBack
  <2> QED
    BY <1>8, <2>1, <2>2
<1>9. CASE own = {}
  <2>1. row = [account |-> account.id, day |-> Today,
               opening |-> account.current, closing |-> account.current]
    BY <1>2, <1>9 DEF BalancesOf
  <2>2. row.account = account.id /\ row.day = Today /\ row.opening = drawn[p].balance[a]
    BY <1>5, <2>1
  <2>3. Today \in Nat
    BY ExtractionAssumption
  <2>4. early(Today) = total
    BY <1>7, <1>9
  <2>5. total \in Int /\ drawn[p].balance[a] \in Int
    BY <1>6, <2>3, ReckonedBack
  <2> HIDE DEF total, early
  <2>6. row.opening = (drawn[p].balance[a] - total) + early(Today)
    BY <2>2, <2>4, <2>5
  <2> QED
    BY <1>8, <2>2, <2>3, <2>6
<1>10. CASE own # {}
  <2>1. PICK day \in {t[i].day : i \in own} :
          row = [account |-> account.id, day |-> day,
                 opening |-> Until(0..day - 1), closing |-> Until(0..day)]
    BY <1>2, <1>10 DEF BalancesOf
  <2>2. row.account = account.id /\ row.day = day /\ row.opening = Until(0..day - 1)
    <3> HIDE DEF Until
    <3> QED
      BY <2>1
  <2>3. day \in Nat
    <3>1. PICK k \in AccountRows(p, a) : t[k].day = day
      BY <1>7
    <3>2. t[k].day = items[p].log[k[3]].day /\ k[3] \in Own(p, a)
      BY RowsMatchEntries
    <3>3. items[p].log[k[3]].day \in 1..Today
      BY <3>2, RowsMatchEntries
    <3> QED
      BY <3>1, <3>2, <3>3, ExtractionAssumption
  <2>4. {i \in own : t[i].day \in 0..day - 1} = AccountRows(p, a) \ LateRows(p, a, day)
    BY <1>7 DEF LateRows
  <2>5. row.opening = (drawn[p].balance[a] - total) + early(day)
    BY <1>5, <1>7, <2>2, <2>4
  <2> QED
    BY <1>8, <2>2, <2>3, <2>5
<1> QED
  BY <1>9, <1>10

(* The opening balance of a day is what the bank's books say, to the cent, *)
(* but for what each transaction that came late, is pending or is counted  *)
(* the wrong way puts it off, of every account of every type.              *)
THEOREM BalancesCorrect == Spec => []BalancesExplained
<1>1. Inv /\ BalancesInv => BalancesExplained
  <2> SUFFICES ASSUME Inv, BalancesInv PROVE BalancesExplained
    OBVIOUS
  <2>1. CASE step = "done"
    BY <2>1, DerivedExplained DEF BalancesInv, Written
  <2>2. CASE step # "done"
    BY <2>2 DEF BalancesInv, BalancesExplained
  <2> QED
    BY <2>1, <2>2
<1> QED
  BY <1>1, InvCorrect, BalancesKept, PTL

-----------------------------------------------------------------------------
(* The splits.  A check is true, false or NULL; a row passes when all are  *)
(* true and is rejected when one is false.                                 *)
Truths == {"true", "false", Null}

(* The negation of each truth.                                             *)
LEMMA StreamNegation ==
  /\ Stream!Negation("true") = "false" /\ Stream!Negation("false") = "true"
  /\ Stream!Negation(Null) = Null
BY DEF Stream!Negation, Null, Stream!Null

(* The same in the batch.                                                  *)
LEMMA BatchNegation ==
  /\ Batch!Negation("true") = "false" /\ Batch!Negation("false") = "true"
  /\ Batch!Negation(Null) = Null
BY DEF Batch!Negation, Null, Batch!Null

(* The conjunction and the disjunction of some truths.                     *)
LEMMA StreamAllOf ==
  ASSUME NEW S, S \subseteq Truths, S # {}
  PROVE  /\ Stream!AllOf(S) \in Truths
         /\ Stream!AllOf(S) = "true" <=> S = {"true"}
         /\ Stream!AllOf(S) = "false" <=> "false" \in S
BY DEF Stream!AllOf, Truths, Null, Stream!Null

(* The same in the batch.                                                  *)
LEMMA BatchAllOf ==
  ASSUME NEW S, S \subseteq Truths, S # {}
  PROVE  /\ Batch!AllOf(S) \in Truths
         /\ Batch!AllOf(S) = "true" <=> S = {"true"}
         /\ Batch!AllOf(S) = "false" <=> "false" \in S
BY DEF Batch!AllOf, Truths, Null, Batch!Null

(* A disjunction.                                                          *)
LEMMA StreamAnyOf ==
  ASSUME NEW S, S \subseteq Truths, S # {}
  PROVE  /\ Stream!AnyOf(S) \in Truths
         /\ Stream!AnyOf(S) = "true" <=> "true" \in S
         /\ Stream!AnyOf(S) = "false" <=> S = {"false"}
BY DEF Stream!AnyOf, Truths, Null, Stream!Null

(* What the batch split makes of a row.                                    *)
LEMMA BatchVerdict ==
  ASSUME NEW row
  PROVE  /\ Batch!Checks(row) \subseteq Truths
         /\ Batch!IsValid(row) <=> Batch!Checks(row) = {"true"}
         /\ Batch!IsRejected(row) <=> "false" \in Batch!Checks(row)
<1> DEFINE C == Batch!Checks(row)
<1>1. C \subseteq Truths /\ C # {}
  BY DEF Batch!Checks, Batch!ExtraCondition, Batch!IsIn, Batch!IsNotNull, Truths, Null, Batch!Null
<1> HIDE DEF C
<1>2. /\ Batch!AllOf(C) \in Truths
      /\ Batch!AllOf(C) = "true" <=> C = {"true"}
      /\ Batch!AllOf(C) = "false" <=> "false" \in C
  BY <1>1, BatchAllOf
<1>3. Batch!Negation(Batch!AllOf(C)) = "true" <=> Batch!AllOf(C) = "false"
  BY <1>2, BatchNegation DEF Truths, Null
<1> QED
  BY <1>1, <1>2, <1>3 DEF Batch!IsValid, Batch!IsRejected, Batch!Holds, C

(* What the stream split makes of a row.                                   *)
LEMMA StreamVerdict ==
  ASSUME NEW row
  PROVE  /\ Stream!UniversalChecks(row) \subseteq Truths /\ Stream!UniversalChecks(row) # {}
         /\ Stream!TransactionChecks(row) \subseteq Truths /\ Stream!TransactionChecks(row) # {}
         /\ Stream!PaymentChecks(row) \subseteq Truths /\ Stream!PaymentChecks(row) # {}
         /\ Stream!TradeChecks(row) \subseteq Truths /\ Stream!TradeChecks(row) # {}
         /\ Stream!IsValid(row) <=>
              /\ Stream!UniversalChecks(row) = {"true"}
              /\ \/ Stream!TransactionChecks(row) = {"true"}
                 \/ Stream!PaymentChecks(row) = {"true"}
                 \/ Stream!TradeChecks(row) = {"true"}
         /\ Stream!IsRejected(row) <=>
              \/ "false" \in Stream!UniversalChecks(row)
              \/ /\ "false" \in Stream!TransactionChecks(row)
                 /\ "false" \in Stream!PaymentChecks(row)
                 /\ "false" \in Stream!TradeChecks(row)
<1> DEFINE U == Stream!UniversalChecks(row)
           T == Stream!TransactionChecks(row)
           P == Stream!PaymentChecks(row)
           R == Stream!TradeChecks(row)
<1>1. U \subseteq Truths /\ U # {}
  BY DEF Stream!UniversalChecks, Stream!IsIn, Truths, Null, Stream!Null
<1>2. T \subseteq Truths /\ T # {}
  BY DEF Stream!TransactionChecks, Stream!IsIn, Stream!IsNotNull, Truths, Null, Stream!Null
<1>3. P \subseteq Truths /\ P # {}
  BY DEF Stream!PaymentChecks, Stream!IsIn, Stream!IsNotNull, Truths, Null, Stream!Null
<1>4. R \subseteq Truths /\ R # {}
  BY DEF Stream!TradeChecks, Stream!IsIn, Stream!IsNotNull, Truths, Null, Stream!Null
<1> HIDE DEF U, T, P, R
<1>5. /\ Stream!AllOf(U) \in Truths /\ Stream!AllOf(T) \in Truths
      /\ Stream!AllOf(P) \in Truths /\ Stream!AllOf(R) \in Truths
      /\ Stream!AllOf(U) = "true" <=> U = {"true"}
      /\ Stream!AllOf(T) = "true" <=> T = {"true"}
      /\ Stream!AllOf(P) = "true" <=> P = {"true"}
      /\ Stream!AllOf(R) = "true" <=> R = {"true"}
      /\ Stream!AllOf(U) = "false" <=> "false" \in U
      /\ Stream!AllOf(T) = "false" <=> "false" \in T
      /\ Stream!AllOf(P) = "false" <=> "false" \in P
      /\ Stream!AllOf(R) = "false" <=> "false" \in R
  BY <1>1, <1>2, <1>3, <1>4, StreamAllOf
<1> DEFINE three == {Stream!AllOf(T), Stream!AllOf(P), Stream!AllOf(R)}
           any == Stream!AnyOf(three)
           both == {Stream!AllOf(U), any}
           all == Stream!AllOf(both)
<1>6. any \in Truths /\ (any = "true" <=> "true" \in three) /\ (any = "false" <=> three = {"false"})
  <2>1. three \subseteq Truths /\ three # {}
    BY <1>5
  <2> HIDE DEF three
  <2> QED
    BY <2>1, StreamAnyOf
<1>7. all \in Truths /\ (all = "true" <=> both = {"true"}) /\ (all = "false" <=> "false" \in both)
  <2>1. both \subseteq Truths /\ both # {}
    BY <1>5, <1>6
  <2> HIDE DEF both
  <2> QED
    BY <2>1, StreamAllOf
<1>8. Stream!ValidCondition(row) = all
  BY DEF Stream!ValidCondition, U, T, P, R
<1> HIDE DEF all
<1>9. Stream!Negation(all) = "true" <=> all = "false"
  BY <1>7, StreamNegation DEF Truths, Null
<1>10. /\ Stream!IsValid(row) <=> both = {"true"}
       /\ Stream!IsRejected(row) <=> "false" \in both
  BY <1>7, <1>8, <1>9 DEF Stream!IsValid, Stream!IsRejected, Stream!Holds
<1> HIDE DEF any
<1>11. both = {"true"} <=> U = {"true"} /\ (T = {"true"} \/ P = {"true"} \/ R = {"true"})
  <2>1. both = {"true"} <=> Stream!AllOf(U) = "true" /\ any = "true"
    OBVIOUS
  <2> QED
    BY <1>5, <1>6, <2>1
<1>12. "false" \in both <=> "false" \in U \/ ("false" \in T /\ "false" \in P /\ "false" \in R)
  <2>1. "false" \in both <=> Stream!AllOf(U) = "false" \/ any = "false"
    OBVIOUS
  <2> QED
    BY <1>5, <1>6, <2>1
<1> QED
  BY <1>1, <1>2, <1>3, <1>4, <1>10, <1>11, <1>12 DEF U, T, P, R

(* A set of numbers has a least one.                                       *)
LEMMA SplitLeast ==
  ASSUME NEW S, S \subseteq Nat, S # {}
  PROVE  \E x \in S : \A y \in S : x <= y
<1>1. PICK x \in S : \A y \in S : <<y, x>> \notin OpToRel(<, Nat)
  <2>1. IsWellFoundedOn(OpToRel(<, Nat), Nat)
    BY NatLessThanWellFounded
  <2> QED
    BY <2>1, WFMin
<1>2. \A y \in S : ~(y < x)
  BY <1>1 DEF OpToRel
<1> QED
  BY <1>2

(* The reason of a stream row is the first whose when() holds.             *)
LEMMA StreamFirstReason ==
  ASSUME NEW row
  PROVE  \E m \in 1..6 :
           /\ Stream!RejectionReason(row) = Stream!Reasons(row)[m][1]
           /\ Stream!Holds(Stream!Reasons(row)[m][2])
           /\ \A k \in 1..6 : Stream!Holds(Stream!Reasons(row)[k][2]) => m <= k
<1> DEFINE R == Stream!Reasons(row)
           W == {k \in 1..6 : Stream!Holds(R[k][2])}
<1>1. Len(R) = 6 /\ R[6][2] = "true"
  BY DEF Stream!Reasons
<1>2. W # {} /\ W \subseteq Nat
  BY <1>1 DEF Stream!Holds
<1>3. Stream!RejectionReason(row) = R[Stream!Min(W)][1]
  <2> HIDE DEF R
  <2>1. Stream!SelectInSeq(R, LAMBDA when : Stream!Holds(when[2]))
          = IF {k \in 1..Len(R) : Stream!Holds(R[k][2])} # {}
            THEN Stream!Min({k \in 1..Len(R) : Stream!Holds(R[k][2])}) ELSE 0
    BY DEF Stream!SelectInSeq
  <2>2. Stream!RejectionReason(row) = R[Stream!SelectInSeq(R, LAMBDA when : Stream!Holds(when[2]))][1]
    BY DEF Stream!RejectionReason, R
  <2> QED
    BY <2>1, <2>2, <1>1, <1>2
<1> DEFINE m == Stream!Min(W)
<1>4. m \in W /\ \A k \in W : m <= k
  <2> HIDE DEF W
  <2>1. \E x \in W : \A y \in W : x <= y
    BY <1>2, SplitLeast
  <2> QED
    BY <2>1 DEF Stream!Min
<1>5. m \in 1..6 /\ Stream!Holds(R[m][2])
  BY <1>4
<1>6. \A k \in 1..6 : Stream!Holds(R[k][2]) => m <= k
  BY <1>4
<1>7. Stream!RejectionReason(row) = R[m][1]
  BY <1>3
<1> HIDE DEF m, R
<1> QED
  BY <1>5, <1>6, <1>7 DEF R
(* The reason of a batch row is the first whose when() holds.             *)
LEMMA BatchFirstReason ==
  ASSUME NEW row
  PROVE  \E m \in 1..5 :
           /\ Batch!RejectionReason(row) = Batch!Reasons(row)[m][1]
           /\ Batch!Holds(Batch!Reasons(row)[m][2])
           /\ \A k \in 1..5 : Batch!Holds(Batch!Reasons(row)[k][2]) => m <= k
<1> DEFINE R == Batch!Reasons(row)
           W == {k \in 1..5 : Batch!Holds(R[k][2])}
<1>1. Len(R) = 5 /\ R[5][2] = "true"
  BY DEF Batch!Reasons
<1>2. W # {} /\ W \subseteq Nat
  BY <1>1 DEF Batch!Holds
<1>3. Batch!RejectionReason(row) = R[Batch!Min(W)][1]
  <2> HIDE DEF R
  <2>1. Batch!SelectInSeq(R, LAMBDA when : Batch!Holds(when[2]))
          = IF {k \in 1..Len(R) : Batch!Holds(R[k][2])} # {}
            THEN Batch!Min({k \in 1..Len(R) : Batch!Holds(R[k][2])}) ELSE 0
    BY DEF Batch!SelectInSeq
  <2>2. Batch!RejectionReason(row) = R[Batch!SelectInSeq(R, LAMBDA when : Batch!Holds(when[2]))][1]
    BY DEF Batch!RejectionReason, R
  <2> QED
    BY <2>1, <2>2, <1>1, <1>2
<1> DEFINE m == Batch!Min(W)
<1>4. m \in W /\ \A k \in W : m <= k
  <2> HIDE DEF W
  <2>1. \E x \in W : \A y \in W : x <= y
    BY <1>2, SplitLeast
  <2> QED
    BY <2>1 DEF Batch!Min
<1>5. m \in 1..5 /\ Batch!Holds(R[m][2])
  BY <1>4
<1>6. \A k \in 1..5 : Batch!Holds(R[k][2]) => m <= k
  BY <1>4
<1>7. Batch!RejectionReason(row) = R[m][1]
  BY <1>3
<1> HIDE DEF m, R
<1> QED
  BY <1>5, <1>6, <1>7 DEF R

(* What the first when() says.                                             *)
LEMMA StreamReasonGiven ==
  ASSUME NEW row \in Stream!Row
  PROVE  LET reason == Stream!RejectionReason(row)
             sound == "false" \notin Stream!UniversalChecks(row) IN
         \/ reason = "invalid_currency" /\ row.currency_code = "ZZZ"
         \/ reason = "invalid_risk_score" /\ row.risk_score = "outside"
         \/ reason = "negative_amount" /\ row.transaction_amount = "negative"
         \/ reason = "invalid_transaction_record" /\ row.event_type = "transaction" /\ sound
         \/ reason = "invalid_payment_record" /\ row.event_type = "payment" /\ sound
         \/ reason = "invalid_trade_record" /\ row.event_type \notin {"transaction", "payment"} /\ sound
<1> DEFINE R == Stream!Reasons(row)
           reason == Stream!RejectionReason(row)
           sound == "false" \notin Stream!UniversalChecks(row)
<1>1. PICK m \in 1..6 :
        /\ reason = R[m][1] /\ Stream!Holds(R[m][2])
        /\ \A k \in 1..6 : Stream!Holds(R[k][2]) => m <= k
  BY StreamFirstReason
<1>2. /\ R[1][1] = "invalid_currency" /\ R[2][1] = "invalid_risk_score"
      /\ R[3][1] = "negative_amount" /\ R[4][1] = "invalid_transaction_record"
      /\ R[5][1] = "invalid_payment_record" /\ R[6][1] = "invalid_trade_record"
  BY DEF Stream!Reasons
<1>3. /\ Stream!Holds(R[1][2]) <=> row.currency_code = "ZZZ"
      /\ Stream!Holds(R[2][2]) <=> row.risk_score = "outside"
      /\ Stream!Holds(R[3][2]) <=> row.transaction_amount = "negative"
      /\ Stream!Holds(R[4][2]) <=> row.event_type = "transaction"
      /\ Stream!Holds(R[5][2]) <=> row.event_type = "payment"
  BY DEF Stream!Reasons, Stream!Holds, Stream!Negation, Stream!IsIn, Stream!ValidCurrencies,
         Stream!Row, Null, Stream!Null
<1>4. sound <=> /\ row.currency_code # "ZZZ" /\ row.risk_score # "outside"
                /\ row.transaction_amount # "negative"
  BY DEF Stream!UniversalChecks, Stream!IsIn, Stream!ValidCurrencies, Stream!Row, Null, Stream!Null
<1> HIDE DEF R, sound, reason
<1>5. m > 3 => sound
  BY <1>1, <1>3, <1>4
<1>6. m = 6 => row.event_type \notin {"transaction", "payment"}
  BY <1>1, <1>3
<1>7. m \in {1, 2, 3, 4, 5, 6}
  BY <1>1
<1> QED
  BY <1>1, <1>2, <1>3, <1>5, <1>6, <1>7 DEF sound, reason

(* The same in the batch.                                                  *)
LEMMA BatchReasonGiven ==
  ASSUME NEW row \in Batch!Row
  PROVE  LET reason == Batch!RejectionReason(row) IN
         \/ reason = "id_null" /\ row.id = Null
         \/ reason = "invalid_currency" /\ row.currency_code = "ZZZ"
         \/ reason = "negative_amount" /\ row.transaction_amount = "negative"
         \/ reason = "invalid_status" /\ row.transaction_status \notin Batch!ValidStatuses(row)
         \/ /\ reason = "validation_failed"
            /\ row.id # Null /\ row.currency_code # "ZZZ" /\ row.transaction_amount # "negative"
            /\ row.transaction_status \in Batch!ValidStatuses(row) \cup {Null}
<1> DEFINE R == Batch!Reasons(row)
           reason == Batch!RejectionReason(row)
<1>1. PICK m \in 1..5 :
        /\ reason = R[m][1] /\ Batch!Holds(R[m][2])
        /\ \A k \in 1..5 : Batch!Holds(R[k][2]) => m <= k
  BY BatchFirstReason
<1>2. /\ R[1][1] = "id_null" /\ R[2][1] = "invalid_currency" /\ R[3][1] = "negative_amount"
      /\ R[4][1] = "invalid_status" /\ R[5][1] = "validation_failed"
  BY DEF Batch!Reasons
<1>3. /\ Batch!Holds(R[1][2]) <=> row.id = Null
      /\ Batch!Holds(R[2][2]) <=> row.currency_code = "ZZZ"
      /\ Batch!Holds(R[3][2]) <=> row.transaction_amount = "negative"
  BY DEF Batch!Reasons, Batch!Holds, Batch!Negation, Batch!IsIn, Batch!IsNotNull,
         Batch!ValidCurrencies, Batch!Row, Null, Batch!Null
<1>4. Batch!Holds(R[4][2]) <=> row.transaction_status \notin Batch!ValidStatuses(row) \cup {Null}
  BY DEF Batch!Reasons, Batch!Holds, Batch!Negation, Batch!IsIn, Null, Batch!Null
<1>5. Null \notin Batch!ValidStatuses(row)
  BY DEF Batch!ValidStatuses, Null
<1> HIDE DEF R, reason
<1>6. m \in {1, 2, 3, 4, 5}
  BY <1>1
<1> QED
  BY <1>1, <1>2, <1>3, <1>4, <1>5, <1>6 DEF reason

(* The reason a rejected stream row carries is true of it.                 *)
LEMMA StreamReasonTrue ==
  ASSUME NEW row \in Stream!Row, Stream!IsRejected(row)
  PROVE  StreamReasonApplies(row)
<1>1. "false" \in Stream!UniversalChecks(row)
      \/ ("false" \in Stream!TransactionChecks(row) /\ "false" \in Stream!PaymentChecks(row)
            /\ "false" \in Stream!TradeChecks(row))
  BY StreamVerdict
<1> QED
  BY <1>1, StreamReasonGiven DEF StreamReasonApplies

(* The same in the batch.                                                  *)
LEMMA BatchReasonTrue ==
  ASSUME NEW row \in Batch!Row, Batch!IsRejected(row)
  PROVE  BatchReasonApplies(row)
<1>1. "false" \in Batch!Checks(row)
  BY BatchVerdict
<1>2. ASSUME row.id # Null, row.currency_code # "ZZZ", row.transaction_amount # "negative",
             row.transaction_status \in Batch!ValidStatuses(row) \cup {Null}
      PROVE  row.risk_score = "outside" \/ (row.dataset # "payments" /\ row.kind = "invalid")
  <2>1. /\ Batch!IsNotNull(row.id) # "false"
        /\ Batch!IsIn(row.currency_code, Batch!ValidCurrencies) # "false"
        /\ Batch!IsIn(row.transaction_amount, {"nonnegative"}) # "false"
        /\ Batch!IsIn(row.transaction_status, Batch!ValidStatuses(row)) # "false"
    BY <1>2 DEF Batch!IsIn, Batch!IsNotNull, Batch!ValidCurrencies, Batch!Row, Null, Batch!Null
  <2>2. Batch!IsIn(row.risk_score, {"within"}) = "false" => row.risk_score = "outside"
    BY DEF Batch!IsIn, Batch!Row, Null, Batch!Null
  <2>3. Batch!IsIn(row.kind, {"valid"}) = "false" => row.kind = "invalid"
    BY DEF Batch!IsIn, Batch!Row, Null, Batch!Null
  <2> QED
    BY <1>1, <2>1, <2>2, <2>3 DEF Batch!Checks, Batch!ExtraCondition
<1> QED
  BY <1>2, BatchReasonGiven DEF BatchReasonApplies

(* A batch row is lost exactly when it is undecided, and else in one table.*)
LEMMA BatchDecided ==
  ASSUME NEW row
  PROVE  IF "false" \notin Batch!Checks(row) /\ Batch!Checks(row) # {"true"}
         THEN BatchTables(row) = {} ELSE Cardinality(BatchTables(row)) = 1
<1>1. Batch!IsValid(row) /\ ~Batch!IsRejected(row) => BatchTables(row) = {"silver"}
  BY DEF BatchTables
<1>2. Batch!IsRejected(row) /\ ~Batch!IsValid(row) => BatchTables(row) = {"rejected"}
  BY DEF BatchTables
<1>3. ~Batch!IsRejected(row) /\ ~Batch!IsValid(row) => BatchTables(row) = {}
  BY DEF BatchTables
<1>4. Cardinality({"silver"}) = 1 /\ Cardinality({"rejected"}) = 1
  BY FS_Singleton
<1> QED
  BY <1>1, <1>2, <1>3, <1>4, BatchVerdict

(* What its event type decides of a stream row.                            *)
LEMMA StreamTypes ==
  ASSUME NEW row \in Stream!Row
  PROVE  LET T == Stream!TransactionChecks(row)
             P == Stream!PaymentChecks(row)
             R == Stream!TradeChecks(row) IN
         /\ row.event_type \in {"transaction", "payment", "trade", "other", Null}
         /\ row.event_type = "transaction" => "false" \in P /\ "false" \in R
         /\ row.event_type = "payment" => "false" \in T /\ "false" \in R
         /\ row.event_type = "trade" => "false" \in T /\ "false" \in P
         /\ row.event_type = "other" => "false" \in T /\ "false" \in P /\ "false" \in R
         /\ row.event_type = Null => Null \in T /\ Null \in P /\ Null \in R
<1>1. row.event_type \in {"transaction", "payment", "trade", "other", Null}
  BY DEF Stream!Row, Null, Stream!Null
<1> DEFINE t == row.event_type
<1>2. /\ Stream!IsIn(t, {"transaction"}) \in Stream!TransactionChecks(row)
      /\ Stream!IsIn(t, {"payment"}) \in Stream!PaymentChecks(row)
      /\ Stream!IsIn(t, {"trade"}) \in Stream!TradeChecks(row)
  BY DEF Stream!TransactionChecks, Stream!PaymentChecks, Stream!TradeChecks
<1>3. /\ t = Null => /\ Stream!IsIn(t, {"transaction"}) = Null
                     /\ Stream!IsIn(t, {"payment"}) = Null
                     /\ Stream!IsIn(t, {"trade"}) = Null
      /\ t \notin {"transaction", Null} => Stream!IsIn(t, {"transaction"}) = "false"
      /\ t \notin {"payment", Null} => Stream!IsIn(t, {"payment"}) = "false"
      /\ t \notin {"trade", Null} => Stream!IsIn(t, {"trade"}) = "false"
  BY DEF Stream!IsIn, Null, Stream!Null
<1> QED
  BY <1>1, <1>2, <1>3 DEF Null

(* The tables of a stream row whose type is projected if it is valid.      *)
LEMMA StreamTablesAre ==
  ASSUME NEW row \in Stream!Row, Stream!IsValid(row) => row.event_type \in ProjectedTypes
  PROVE  /\ Stream!IsValid(row) => StreamTables(row) = {row.event_type}
         /\ Stream!IsRejected(row) => StreamTables(row) = {"rejected"}
         /\ ~Stream!IsValid(row) /\ ~Stream!IsRejected(row) => StreamTables(row) = {}
<1>1. ~(Stream!IsValid(row) /\ Stream!IsRejected(row))
  BY StreamVerdict
<1>2. \A type \in ProjectedTypes :
        Stream!ProjectedTo(type, row) <=> Stream!IsValid(row) /\ row.event_type = type
  BY DEF Stream!ProjectedTo, Stream!Holds, Stream!IsIn, ProjectedTypes, Null, Stream!Null
<1> QED
  BY <1>1, <1>2 DEF StreamTables

(* A stream row is lost exactly when it is undecided.                      *)
LEMMA StreamDecided ==
  ASSUME NEW row \in Stream!Row, Stream!IsValid(row) => row.event_type \in ProjectedTypes, ~OfBatch
  PROVE  IF \E checks \in Judgements(row) : "false" \notin checks /\ checks # {"true"}
         THEN StreamTables(row) = {} ELSE Cardinality(StreamTables(row)) = 1
<1> DEFINE U == Stream!UniversalChecks(row)
           T == Stream!TransactionChecks(row)
           P == Stream!PaymentChecks(row)
           R == Stream!TradeChecks(row)
           t == row.event_type
<1>1. /\ t = "transaction" => Judgements(row) = {U \cup T}
      /\ t = "payment" => Judgements(row) = {U \cup P}
      /\ t = "trade" => Judgements(row) = {U \cup R}
      /\ t = "other" => Judgements(row) = {}
      /\ t = Null => Judgements(row) = {U \cup T, U \cup P, U \cup R}
  <2> DEFINE of == [transaction |-> T, payment |-> P, trade |-> R]
  <2>1. /\ of["transaction"] = T /\ of["payment"] = P /\ of["trade"] = R
        /\ DOMAIN of = {"transaction", "payment", "trade"}
    OBVIOUS
  <2>2. Judgements(row) = {U \cup of[type] : type \in {type \in DOMAIN of : t \in {type, Null}}}
    BY DEF Judgements, Null
  <2>3. t \in {"transaction", "payment", "trade", "other", Null}
    BY StreamTypes
  <2> HIDE DEF of, U, T, P, R, t
  <2>4. CASE t = "transaction"
    <3>1. {type \in DOMAIN of : t \in {type, Null}} = {"transaction"}
      BY <2>1, <2>4 DEF Null
    <3> QED
      BY <2>1, <2>2, <2>4, <3>1
  <2>5. CASE t = "payment"
    <3>1. {type \in DOMAIN of : t \in {type, Null}} = {"payment"}
      BY <2>1, <2>5 DEF Null
    <3> QED
      BY <2>1, <2>2, <2>5, <3>1
  <2>6. CASE t = "trade"
    <3>1. {type \in DOMAIN of : t \in {type, Null}} = {"trade"}
      BY <2>1, <2>6 DEF Null
    <3> QED
      BY <2>1, <2>2, <2>6, <3>1
  <2>7. CASE t = "other"
    <3>1. {type \in DOMAIN of : t \in {type, Null}} = {}
      BY <2>1, <2>7 DEF Null
    <3> QED
      BY <2>2, <2>7, <3>1 DEF Null
  <2>8. CASE t = Null
    <3>1. {type \in DOMAIN of : t \in {type, Null}} = {"transaction", "payment", "trade"}
      BY <2>1, <2>8 DEF Null
    <3>2. Judgements(row) = {U \cup T, U \cup P, U \cup R}
      BY <2>1, <2>2, <3>1
    <3> QED
      BY <2>8, <3>2 DEF Null
  <2> QED
    BY <2>3, <2>4, <2>5, <2>6, <2>7, <2>8
<1>2. /\ Stream!IsValid(row) => StreamTables(row) = {t}
      /\ Stream!IsRejected(row) => StreamTables(row) = {"rejected"}
      /\ ~Stream!IsValid(row) /\ ~Stream!IsRejected(row) => StreamTables(row) = {}
  BY StreamTablesAre
<1>3. Cardinality({t}) = 1 /\ Cardinality({"rejected"}) = 1
  BY FS_Singleton
<1>4. /\ U # {} /\ T # {} /\ P # {} /\ R # {}
      /\ Stream!IsValid(row) <=>
           U = {"true"} /\ (T = {"true"} \/ P = {"true"} \/ R = {"true"})
      /\ Stream!IsRejected(row) <=>
           "false" \in U \/ ("false" \in T /\ "false" \in P /\ "false" \in R)
  BY StreamVerdict
<1>5. /\ t \in {"transaction", "payment", "trade", "other", Null}
      /\ t = "transaction" => "false" \in P /\ "false" \in R
      /\ t = "payment" => "false" \in T /\ "false" \in R
      /\ t = "trade" => "false" \in T /\ "false" \in P
      /\ t = "other" => "false" \in T /\ "false" \in P /\ "false" \in R
      /\ t = Null => Null \in T /\ Null \in P /\ Null \in R
  BY StreamTypes
<1> DEFINE lost == ~Stream!IsValid(row) /\ ~Stream!IsRejected(row)
           undecided == \E checks \in Judgements(row) : "false" \notin checks /\ checks # {"true"}
<1>6. lost <=> undecided
  <2> HIDE DEF U, T, P, R, t
  <2>1. /\ U \cup T = {"true"} <=> U = {"true"} /\ T = {"true"}
        /\ U \cup P = {"true"} <=> U = {"true"} /\ P = {"true"}
        /\ U \cup R = {"true"} <=> U = {"true"} /\ R = {"true"}
    BY <1>4
  <2>2. CASE t = "transaction"
    <3>1. undecided <=> "false" \notin U \cup T /\ U \cup T # {"true"}
      BY <1>1, <2>2
    <3>2. lost <=> ~(U = {"true"} /\ T = {"true"}) /\ "false" \notin U /\ "false" \notin T
      BY <1>4, <1>5, <2>2
    <3> QED
      BY <2>1, <3>1, <3>2
  <2>3. CASE t = "payment"
    <3>1. undecided <=> "false" \notin U \cup P /\ U \cup P # {"true"}
      BY <1>1, <2>3
    <3>2. lost <=> ~(U = {"true"} /\ P = {"true"}) /\ "false" \notin U /\ "false" \notin P
      BY <1>4, <1>5, <2>3
    <3> QED
      BY <2>1, <3>1, <3>2
  <2>4. CASE t = "trade"
    <3>1. undecided <=> "false" \notin U \cup R /\ U \cup R # {"true"}
      BY <1>1, <2>4
    <3>2. lost <=> ~(U = {"true"} /\ R = {"true"}) /\ "false" \notin U /\ "false" \notin R
      BY <1>4, <1>5, <2>4
    <3> QED
      BY <2>1, <3>1, <3>2
  <2>5. CASE t = "other"
    BY <1>1, <1>4, <1>5, <2>5
  <2>6. CASE t = Null
    <3>1. undecided <=> \/ "false" \notin U \cup T /\ U \cup T # {"true"}
                        \/ "false" \notin U \cup P /\ U \cup P # {"true"}
                        \/ "false" \notin U \cup R /\ U \cup R # {"true"}
      BY <1>1, <2>6
    <3>2. Null \in T /\ Null \in P /\ Null \in R /\ Null # "true"
      BY <1>5, <2>6 DEF Null
    <3>3. lost <=> "false" \notin U /\ ("false" \notin T \/ "false" \notin P \/ "false" \notin R)
      BY <1>4, <3>2
    <3> QED
      BY <3>1, <3>2, <3>3
  <2> QED
    BY <1>5, <2>2, <2>3, <2>4, <2>5, <2>6
<1> QED
  BY <1>2, <1>3, <1>6

(* A valid stream row has a type.                                          *)
LEMMA ValidTyped ==
  ASSUME NEW row \in Stream!Row, Stream!IsValid(row)
  PROVE  row.event_type \in {"transaction", "payment", "trade"}
BY StreamVerdict, StreamTypes DEF Null

(* The columns the micro-batch schema leaves out belong to other types.    *)
LEMMA MicrobatchSees ==
  ASSUME NEW row \in Stream!Row
  PROVE  LET seen == Stream!MicrobatchRow(row) IN
         /\ seen \in Stream!Row /\ seen.event_type = row.event_type
         /\ Stream!UniversalChecks(seen) = Stream!UniversalChecks(row)
         /\ Stream!TradeChecks(seen) = Stream!TradeChecks(row)
         /\ Stream!IsValid(seen) => row.event_type = "trade"
<1> DEFINE seen == Stream!MicrobatchRow(row)
<1>1. /\ seen \in Stream!Row /\ seen.event_type = row.event_type
      /\ seen.transaction_id = Null /\ seen.payment_id = Null /\ seen.trade_id = row.trade_id
      /\ seen.side = row.side /\ seen.transaction_status = row.transaction_status
      /\ seen.currency_code = row.currency_code /\ seen.risk_score = row.risk_score
      /\ seen.transaction_amount = row.transaction_amount
  BY DEF Stream!MicrobatchRow, Stream!Row, Null, Stream!Null
<1> HIDE DEF seen
<1>2. Stream!UniversalChecks(seen) = Stream!UniversalChecks(row)
  BY <1>1 DEF Stream!UniversalChecks
<1>3. Stream!TradeChecks(seen) = Stream!TradeChecks(row)
  BY <1>1 DEF Stream!TradeChecks
<1>4. "false" \in Stream!TransactionChecks(seen) /\ "false" \in Stream!PaymentChecks(seen)
  BY <1>1 DEF Stream!TransactionChecks, Stream!PaymentChecks, Stream!IsNotNull, Null, Stream!Null
<1>5. Stream!IsValid(seen) => row.event_type = "trade"
  <2> SUFFICES ASSUME Stream!IsValid(seen) PROVE seen.event_type = "trade"
    BY <1>1
  <2>1. Stream!TradeChecks(seen) = {"true"}
    BY <1>4, StreamVerdict
  <2> QED
    BY <2>1 DEF Stream!TradeChecks, Stream!IsIn, Null, Stream!Null
<1> QED
  BY <1>1, <1>2, <1>3, <1>5 DEF seen

(* What the Plaid mapper lets through, the batch split accepts.            *)
LEMMA PlaidAccepted ==
  ASSUME SplitAssumption, NEW row \in PlaidRows
  PROVE  row \in Batch!Row /\ BatchTables(row) = {"silver"}
<1>1. PICK t \in Plaid!Records(Amounts), key \in Keys :
        ~Plaid!Raises(t) /\ row = Plaid!MapTransaction(t, key)
  BY DEF PlaidRows
<1>2. /\ t.amount \in Int /\ t.pending \in BOOLEAN
      /\ t.category \in {"PAYROLL", "TRANSFER", "LOAN", "other", "absent", Null}
      /\ t.text \in {"credit", "wire", "fee", "other"}
      /\ t.iso_currency_code \in {"USD", "EUR", "ZZZ", Null}
  BY DEF Plaid!Records, Null, Plaid!Null, SplitAssumption
<1>3. Plaid!MappedAmount(t) \in Nat
  BY <1>2 DEF Plaid!MappedAmount, Plaid!Magnitude
<1>4. Plaid!RiskScore(t) \in 0..100
  <2> DEFINE a == IF Plaid!Magnitude(t) > 1000 THEN 20 ELSE 0
             b == IF Plaid!Magnitude(t) > 5000 THEN 20 ELSE 0
             c == IF t.pending THEN 10 ELSE 0
             d == IF t.country = "abroad" THEN 15 ELSE 0
  <2>1. a \in 0..20 /\ b \in 0..20 /\ c \in 0..10 /\ d \in 0..15
    OBVIOUS
  <2>2. Plaid!RiskScore(t) = IF 20 + a + b + c + d > 100 THEN 100 ELSE 20 + a + b + c + d
    BY DEF Plaid!RiskScore
  <2> HIDE DEF a, b, c, d
  <2> QED
    BY <2>1, <2>2
<1>5. Plaid!TransactionType(t) \in {"DEBIT", "CREDIT", "FEE", "REFUND", "WIRE", "ACH"}
  <2> DEFINE types == [credit |-> "CREDIT", wire |-> "WIRE", fee |-> "FEE"]
  <2>1. types["credit"] = "CREDIT" /\ types["wire"] = "WIRE" /\ types["fee"] = "FEE"
    OBVIOUS
  <2>2. Plaid!TransactionType(t) = CASE t.category = "PAYROLL" -> "CREDIT"
          [] t.category \in {"TRANSFER", "LOAN"} -> "WIRE"
          [] OTHER -> IF t.text = "other" THEN IF t.amount < 0 THEN "CREDIT" ELSE "DEBIT"
                      ELSE types[t.text]
    BY DEF Plaid!TransactionType
  <2> HIDE DEF types
  <2> QED
    BY <1>2, <2>1, <2>2
<1>6. Plaid!Currency(t.iso_currency_code) \in {"USD", "EUR"}
  BY <1>1 DEF Plaid!Raises
<1>7. /\ row \in Batch!Row /\ row.dataset = "transactions" /\ row.id = key
      /\ row.currency_code \in {"USD", "EUR"} /\ row.transaction_amount = "nonnegative"
      /\ row.transaction_status \in {"PENDING", "POSTED"}
      /\ row.risk_score = "within" /\ row.kind = "valid"
  <2>1. row = [dataset |-> "transactions", id |-> key,
               currency_code |-> Plaid!Currency(t.iso_currency_code),
               transaction_amount |-> "nonnegative",
               transaction_status |-> IF t.pending THEN "PENDING" ELSE "POSTED",
               risk_score |-> "within", kind |-> "valid"]
    BY <1>1, <1>3, <1>4, <1>5 DEF Plaid!MapTransaction
  <2> QED
    BY <1>6, <2>1 DEF Batch!Row, Batch!Datasets, Null, Batch!Null
<1>8. Batch!Checks(row) = {"true"}
  <2>1. row.id # Null
    BY <1>7 DEF SplitAssumption
  <2> QED
    BY <1>7, <2>1 DEF Batch!Checks, Batch!IsIn, Batch!IsNotNull, Batch!ValidCurrencies,
      Batch!ValidStatuses, Batch!ExtraCondition, Null, Batch!Null
<1> QED
  BY <1>7, <1>8, BatchVerdict DEF BatchTables

(* What the Alpaca mapper makes of any trade, the stream split accepts.    *)
LEMMA AlpacaAccepted ==
  ASSUME SplitAssumption, NEW row \in AlpacaRows
  PROVE  row \in Stream!Row /\ row.event_type = "trade" /\ Stream!IsValid(row)
<1>1. PICK t \in Alpaca!Trades(Sizes, Prices, DefaultScores) : row = Alpaca!MapTrade(t)
  BY DEF AlpacaRows
<1>2. t.s \in Nat /\ t.p \in Nat /\ t.broker_risk \in 0..100
  BY DEF Alpaca!Trades, SplitAssumption
<1>3. Alpaca!TradeRiskScore(t) \in 0..100
  <2> DEFINE a == IF t.s >= 100 THEN 10 ELSE 0
             b == IF t.p * t.s >= 10000 THEN 15 ELSE 0
             c == IF t.z = "A" THEN 0 ELSE 5
             d == t.broker_risk
  <2>1. a \in 0..10 /\ b \in 0..15 /\ c \in 0..5 /\ d \in 0..100
    BY <1>2
  <2>2. Alpaca!TradeRiskScore(t) = IF d + a + b + c > 100 THEN 100 ELSE d + a + b + c
    BY DEF Alpaca!TradeRiskScore
  <2> HIDE DEF a, b, c, d
  <2> QED
    BY <2>1, <2>2
<1>4. ~(t.s * t.p < 0)
  BY <1>2
<1>5. Alpaca!TradeSide(t) \in {"BUY", "SELL"}
  BY DEF Alpaca!TradeSide
<1>6. row = [event_type |-> "trade", transaction_id |-> Null, payment_id |-> Null,
             trade_id |-> "given", transaction_type |-> Null, side |-> "valid",
             transaction_status |-> "POSTED", currency_code |-> "USD",
             risk_score |-> "within", transaction_amount |-> "nonnegative"]
  BY <1>1, <1>3, <1>4, <1>5 DEF Alpaca!MapTrade, Null, Alpaca!Null
<1>7. row \in Stream!Row
  BY <1>6 DEF Stream!Row, Null, Stream!Null
<1>8. Stream!UniversalChecks(row) = {"true"}
  BY <1>6 DEF Stream!UniversalChecks, Stream!IsIn, Stream!ValidCurrencies, Null, Stream!Null
<1>9. Stream!TradeChecks(row) = {"true"}
  BY <1>6 DEF Stream!TradeChecks, Stream!IsIn, Stream!IsNotNull, Stream!TransactionStatuses,
    Null, Stream!Null
<1> QED
  BY <1>6, <1>7, <1>8, <1>9, StreamVerdict

(* A generated row, or a damaged one.                                      *)
Definite(row) ==
  /\ row \in Batch!Row /\ row.currency_code \in {"EUR", "ZZZ"} /\ row.risk_score # Null
  /\ row.transaction_amount # Null /\ row.kind = "valid"
  /\ row.transaction_status \in Batch!ValidStatuses(row)

(* Sound, as far as the damage goes.                                       *)
Undamaged(row) ==
  /\ row.id # Null /\ row.currency_code # "ZZZ"
  /\ row.transaction_amount # "negative" /\ row.risk_score # "outside"

(* Each generated row has its id and is definite, damaged or not.          *)
LEMMA GeneratedRows ==
  ASSUME SplitAssumption, NEW dataset \in Batch!Datasets, NEW j \in DOMAIN RecordIds
  PROVE  LET row == Synthetic!Generated(dataset, j) IN
         /\ Definite(row) /\ row.id = RecordIds[j]
         /\ \A i \in Nat : Definite(Synthetic!Damage(row, i))
<1> DEFINE row == Synthetic!Generated(dataset, j)
<1>1. RecordIds[j] \in Keys
  BY DEF SplitAssumption
<1>2. row = [dataset |-> dataset, id |-> RecordIds[j], currency_code |-> "EUR",
             transaction_amount |-> "nonnegative",
             transaction_status |-> IF dataset = "payments" THEN "SETTLED" ELSE "POSTED",
             risk_score |-> "within", kind |-> "valid"]
  BY DEF Synthetic!Generated
<1> HIDE DEF row
<1>3. Definite(row) /\ row.id = RecordIds[j]
  BY <1>1, <1>2 DEF Definite, Batch!Row, Batch!ValidStatuses, Batch!Datasets, Null, Batch!Null
<1>4. ASSUME NEW i \in Nat PROVE Definite(Synthetic!Damage(row, i))
  <2>1. Synthetic!Damage(row, i) \in {[row EXCEPT !.id = Null],
          [row EXCEPT !.currency_code = "ZZZ"], [row EXCEPT !.transaction_amount = "negative"],
          [row EXCEPT !.risk_score = "outside"]}
    <3>1. i % 4 \in {0, 1, 2, 3}
      OBVIOUS
    <3> DEFINE m == i % 4
    <3>2. Synthetic!Damage(row, i) =
            CASE m = 1 -> [row EXCEPT !.id = Null]
              [] m = 2 -> [row EXCEPT !.currency_code = "ZZZ"]
              [] m = 3 -> [row EXCEPT !.transaction_amount = "negative"]
              [] m = 0 -> [row EXCEPT !.risk_score = "outside"]
      BY DEF Synthetic!Damage, Synthetic!Null, Null
    <3> HIDE DEF m
    <3> QED
      BY <3>1, <3>2 DEF m
  <2>2. Definite([row EXCEPT !.id = Null])
    BY <1>3 DEF Definite, Batch!Row, Batch!ValidStatuses, Null, Batch!Null
  <2>3. Definite([row EXCEPT !.currency_code = "ZZZ"])
    BY <1>3 DEF Definite, Batch!Row, Batch!ValidStatuses, Null, Batch!Null
  <2>4. Definite([row EXCEPT !.transaction_amount = "negative"])
    BY <1>3 DEF Definite, Batch!Row, Batch!ValidStatuses, Null, Batch!Null
  <2>5. Definite([row EXCEPT !.risk_score = "outside"])
    BY <1>3 DEF Definite, Batch!Row, Batch!ValidStatuses, Null, Batch!Null
  <2> QED
    BY <2>1, <2>2, <2>3, <2>4, <2>5
<1> QED
  BY <1>3, <1>4 DEF row

(* A definite row is in one table: silver if it is undamaged.              *)
LEMMA DefiniteTables ==
  ASSUME SplitAssumption, NEW row, Definite(row)
  PROVE  BatchTables(row) = IF Undamaged(row) THEN {"silver"} ELSE {"rejected"}
<1>1. /\ Batch!IsNotNull(row.id) = (IF row.id # Null THEN "true" ELSE "false")
      /\ Batch!IsIn(row.currency_code, Batch!ValidCurrencies)
           = (IF row.currency_code # "ZZZ" THEN "true" ELSE "false")
      /\ Batch!IsIn(row.transaction_amount, {"nonnegative"})
           = (IF row.transaction_amount # "negative" THEN "true" ELSE "false")
      /\ Batch!IsIn(row.risk_score, {"within"})
           = (IF row.risk_score # "outside" THEN "true" ELSE "false")
      /\ Batch!IsIn(row.transaction_status, Batch!ValidStatuses(row)) = "true"
      /\ Batch!ExtraCondition(row) = "true"
  <2>1. Batch!IsIn(row.transaction_status, Batch!ValidStatuses(row)) = "true"
    BY DEF Definite, Batch!IsIn, Batch!ValidStatuses, Null, Batch!Null
  <2>2. Batch!ExtraCondition(row) = "true"
    BY <2>1 DEF Batch!ExtraCondition, Definite, Batch!IsIn, Null, Batch!Null
  <2> QED
    BY <2>1, <2>2 DEF Definite, Batch!IsNotNull, Batch!IsIn, Batch!ValidCurrencies, Batch!Row,
      Null, Batch!Null
<1>2. Undamaged(row) => Batch!Checks(row) = {"true"}
  BY <1>1 DEF Undamaged, Batch!Checks
<1>3. ~Undamaged(row) => "false" \in Batch!Checks(row)
  BY <1>1 DEF Undamaged, Batch!Checks
<1> QED
  BY <1>2, <1>3, BatchVerdict DEF BatchTables

(* A synthetic frame: definite rows, and at the end the copies.            *)
LEMMA SyntheticFrames ==
  ASSUME SplitAssumption, NEW f \in Synthetic!Frames
  PROVE  /\ Len(f) \in Nat /\ Len(f) > 0 /\ DOMAIN f = 1..Len(f)
         /\ \A i \in DOMAIN f : Definite(f[i])
         /\ \E copies \in DOMAIN RecordIds :
              /\ f[Len(f)].id = RecordIds[copies]
              /\ \A j \in 1..copies : \E i \in DOMAIN f : f[i].id = RecordIds[j]
<1>1. PICK dataset \in Batch!Datasets, n \in 1..Len(RecordIds) :
        f \in {Synthetic!InjectAnomalies(dataset, n, duplicates, invalid) :
                 duplicates \in 1..n, invalid \in 1..n}
  BY DEF Synthetic!Frames, Batch!Datasets
<1>2. PICK d \in 1..n, invalid \in 1..n :
        f = Synthetic!InjectAnomalies(dataset, n, d, invalid)
  BY <1>1
<1> DEFINE G(j) == Synthetic!Generated(dataset, j)
           records == [i \in 1..n |-> G(i)]
           copies == SubSeq(records, 1, d)
           copied == records \o copies
<1>3. Len(RecordIds) \in Nat /\ DOMAIN RecordIds = 1..Len(RecordIds) /\ n \in Nat /\ d \in Nat
  BY DEF SplitAssumption
<1>4. \A j \in 1..n : /\ j \in DOMAIN RecordIds /\ Definite(G(j)) /\ G(j).id = RecordIds[j]
                      /\ \A i \in Nat : Definite(Synthetic!Damage(G(j), i))
  BY <1>3, GeneratedRows
<1> HIDE DEF G
<1>5. records \in Seq(Batch!Row) /\ Len(records) = n /\ \A i \in 1..n : records[i] = G(i)
  BY <1>3, <1>4 DEF Definite
<1> HIDE DEF records
<1>6. /\ copies \in Seq(Batch!Row) /\ Len(copies) = d
      /\ \A i \in 1..d : copies[i] = G(i)
  <2>1. \A i \in 1..d : records[i] \in Batch!Row /\ records[i] = G(i)
    BY <1>3, <1>4, <1>5 DEF Definite
  <2>2. /\ copies \in Seq(Batch!Row) /\ Len(copies) = IF 1 <= d THEN d - 1 + 1 ELSE 0
        /\ \A i \in 1..(d - 1 + 1) : copies[i] = records[1 + i - 1]
    BY <1>3, <2>1, SubSeqProperties
  <2> HIDE DEF copies
  <2> QED
    BY <1>3, <2>1, <2>2
<1> HIDE DEF copies
<1>7. /\ copied \in Seq(Batch!Row) /\ Len(copied) = n + d
      /\ \A i \in 1..(n + d) : copied[i] = IF i <= n THEN G(i) ELSE G(i - n)
  <2>1. /\ copied \in Seq(Batch!Row) /\ Len(copied) = Len(records) + Len(copies)
        /\ \A i \in 1..(Len(records) + Len(copies)) : copied[i] =
             IF i <= Len(records) THEN records[i] ELSE copies[i - Len(records)]
    BY <1>5, <1>6, ConcatProperties
  <2> HIDE DEF copied
  <2>2. copied \in Seq(Batch!Row) /\ Len(copied) = n + d
    BY <1>5, <1>6, <2>1
  <2>3. ASSUME NEW i \in 1..(n + d)
        PROVE  copied[i] = IF i <= n THEN G(i) ELSE G(i - n)
    <3>1. copied[i] = IF i <= n THEN records[i] ELSE copies[i - n]
      BY <1>5, <1>6, <2>1
    <3>2. i <= n => records[i] = G(i)
      BY <1>3, <1>5
    <3>3. ~(i <= n) => i - n \in 1..d /\ copies[i - n] = G(i - n)
      BY <1>3, <1>6
    <3> QED
      BY <3>1, <3>2, <3>3
  <2> QED
    BY <2>2, <2>3
<1>8. f = [i \in DOMAIN copied |->
             IF i <= invalid THEN Synthetic!Damage(copied[i], i) ELSE copied[i]]
  BY <1>2 DEF Synthetic!InjectAnomalies, records, copies, G
<1> HIDE DEF copied
<1>9. DOMAIN copied = 1..(n + d)
  BY <1>7
<1>10. /\ DOMAIN f = 1..(n + d) /\ Len(f) = n + d
       /\ \A i \in 1..(n + d) :
            f[i] = IF i <= invalid THEN Synthetic!Damage(copied[i], i) ELSE copied[i]
  BY <1>3, <1>8, <1>9
<1>11. ASSUME NEW i \in DOMAIN f PROVE Definite(f[i])
  <2>1. \E j \in 1..n : copied[i] = G(j)
    BY <1>3, <1>7, <1>10
  <2> QED
    BY <1>3, <1>4, <1>10, <2>1
<1>12. \A j \in 1..d : n + j \in DOMAIN f /\ f[n + j] = G(j) /\ G(j).id = RecordIds[j]
  BY <1>3, <1>4, <1>7, <1>10
<1>13. d \in DOMAIN RecordIds /\ d \in 1..d
  BY <1>3
<1>14. f[Len(f)].id = RecordIds[d]
  BY <1>10, <1>12, <1>13
<1>15. \A j \in 1..d : \E i \in DOMAIN f : f[i].id = RecordIds[j]
  BY <1>12
<1>16. Len(f) \in Nat /\ Len(f) > 0 /\ DOMAIN f = 1..Len(f)
  BY <1>3, <1>10
<1> QED
  BY <1>11, <1>13, <1>14, <1>15, <1>16

(* The frame stays as it was read; the places kept stand for its keys; and *)
(* the tables are those its rows were written to.                          *)
FrameInv ==
  /\ source \in BatchSources \cup {"foreach_batch", "microbatch", "alpaca"}
  /\ frame \in FramesOf(source)
  /\ stage \in {"read", "deduplicated", "split"}
  /\ kept \subseteq DOMAIN frame
  /\ stage = "deduplicated" => OfBatch
  /\ stage # "read" /\ OfBatch => OneOfEachKey(kept)
  /\ stage = "split" /\ ~OfBatch => kept = DOMAIN frame
  /\ tables = [i \in DOMAIN frame |->
                 IF stage # "split" \/ i \notin kept THEN {}
                 ELSE IF OfBatch THEN BatchTables(frame[i]) ELSE StreamTables(Seen(frame[i]))]

(* Frames keep it.                                                         *)
LEMMA FramesKept == FrameSpec => []FrameInv
<1>1. FrameInit => FrameInv
  BY DEF FrameInit, FrameInv, OfBatch
<1>2. FrameInv /\ [FrameNext]_frameVars => FrameInv'
  <2> SUFFICES ASSUME FrameInv, [FrameNext]_frameVars PROVE FrameInv'
    OBVIOUS
  <2> USE DEF FrameInv
  <2>1. CASE Deduplicate
    <3>1. source' = source /\ frame' = frame /\ tables' = tables /\ stage = "read"
          /\ stage' = "deduplicated" /\ OfBatch
      BY <2>1 DEF Deduplicate
    <3>2. kept' \in SUBSET DOMAIN frame /\ OneOfEachKey(kept')
      BY <2>1 DEF Deduplicate
    <3>3. OneOfEachKey(kept)' /\ OfBatch'
      BY <3>1, <3>2 DEF OneOfEachKey, KeysOf, OfBatch
    <3>4. tables' = [i \in DOMAIN frame |-> {}]
      BY <3>1
    <3> QED
      BY <3>1, <3>2, <3>3, <3>4
  <2>2. CASE SplitBatch
    <3>1. source' = source /\ frame' = frame /\ kept' = kept /\ stage = "deduplicated"
          /\ stage' = "split"
          /\ tables' = [i \in DOMAIN frame |-> IF i \in kept THEN BatchTables(frame[i]) ELSE {}]
      BY <2>2 DEF SplitBatch
    <3>2. OfBatch /\ OfBatch'
      BY <3>1 DEF OfBatch
    <3>3. OneOfEachKey(kept)'
      <4>1. OneOfEachKey(kept)
        BY <3>1, <3>2
      <4>2. KeysOf(kept)' = KeysOf(kept) /\ KeysOf(DOMAIN frame)' = KeysOf(DOMAIN frame)
        BY <3>1 DEF KeysOf
      <4> QED
        BY <3>1, <4>1, <4>2 DEF OneOfEachKey
    <3>4. \A i \in DOMAIN frame : BatchTables(frame[i])' = BatchTables(frame[i])
      BY <3>1 DEF BatchTables
    <3> QED
      BY <3>1, <3>2, <3>3, <3>4
  <2>3. CASE SplitStream
    <3>1. source' = source /\ frame' = frame /\ kept' = DOMAIN frame /\ stage = "read"
          /\ stage' = "split"
          /\ tables' = [i \in DOMAIN frame |-> StreamTables(Seen(frame[i]))]
      BY <2>3 DEF SplitStream
    <3>2. ~OfBatch /\ ~OfBatch'
      BY <2>3, <3>1 DEF SplitStream, OfBatch
    <3>3. \A i \in DOMAIN frame : StreamTables(Seen(frame[i]))' = StreamTables(Seen(frame[i]))
      BY <3>1 DEF StreamTables, ProjectedTypes, Seen
    <3> QED
      BY <3>1, <3>2, <3>3
  <2>4. CASE UNCHANGED frameVars
    <3>1. source' = source /\ frame' = frame /\ kept' = kept /\ stage' = stage /\ tables' = tables
      BY <2>4 DEF frameVars
    <3>2. /\ OfBatch' = OfBatch /\ OneOfEachKey(kept)' = OneOfEachKey(kept)
          /\ \A i \in DOMAIN frame : StreamTables(Seen(frame[i]))' = StreamTables(Seen(frame[i]))
          /\ \A i \in DOMAIN frame : BatchTables(frame[i])' = BatchTables(frame[i])
      BY <3>1 DEF OfBatch, OneOfEachKey, KeysOf, StreamTables, ProjectedTypes, Seen, BatchTables
    <3> QED
      BY <3>1, <3>2
  <2> QED
    BY <2>1, <2>2, <2>3, <2>4 DEF FrameNext
<1> QED
  BY <1>1, <1>2, PTL DEF FrameSpec

(* What kind of rows each frame has.                                       *)
LEMMA FrameRows ==
  ASSUME SplitAssumption, FrameInv, NEW i \in DOMAIN frame
  PROVE  /\ OfBatch => frame[i] \in Batch!Row
         /\ ~OfBatch => /\ frame[i] \in Stream!Row /\ Seen(frame[i]) \in Stream!Row
                        /\ Stream!IsValid(Seen(frame[i])) =>
                             Seen(frame[i]).event_type \in ProjectedTypes
         /\ source = "plaid" => frame[i] \in PlaidRows
         /\ source = "alpaca" => frame[i] \in AlpacaRows
<1>1. source # "synthetic" => frame[i] \in RowsOf(source)
  BY DEF FrameInv, FramesOf
<1>2. CASE source = "synthetic"
  BY <1>2, SyntheticFrames DEF FrameInv, FramesOf, OfBatch, BatchSources, Definite
<1>3. CASE source = "plaid"
  BY <1>1, <1>3, PlaidAccepted DEF RowsOf, OfBatch, BatchSources
<1>4. CASE source = "batch"
  BY <1>1, <1>4 DEF RowsOf, OfBatch, BatchSources
<1>5. CASE source = "alpaca"
  BY <1>1, <1>5, AlpacaAccepted DEF RowsOf, OfBatch, BatchSources, Seen, ProjectedTypes
<1>6. CASE source = "foreach_batch"
  BY <1>1, <1>6, ValidTyped DEF RowsOf, OfBatch, BatchSources, Seen, ProjectedTypes
<1>7. CASE source = "microbatch"
  BY <1>1, <1>7, MicrobatchSees DEF RowsOf, OfBatch, BatchSources, Seen, ProjectedTypes
<1> QED
  BY <1>2, <1>3, <1>4, <1>5, <1>6, <1>7 DEF FrameInv, BatchSources

(* What was written of a frame that was split.                             *)
LEMMA WrittenTo ==
  ASSUME FrameInv, NEW i \in DOMAIN frame
  PROVE  /\ stage # "split" \/ i \notin kept => tables[i] = {}
         /\ stage = "split" /\ i \in kept =>
              tables[i] = IF OfBatch THEN BatchTables(frame[i]) ELSE StreamTables(Seen(frame[i]))
BY DEF FrameInv

(* A row of a split frame is written to no table exactly when no check it  *)
(* is judged by definitely fails and one of them is NULL.                  *)
THEOREM OnlyUndecidedLost == FrameSpec => []LostOnlyUndecided
<1>1. FrameInv => LostOnlyUndecided
  <2> SUFFICES ASSUME FrameInv, stage = "split", NEW i \in kept
      PROVE  IF \E checks \in Judgements(Seen(frame[i])) : "false" \notin checks /\ checks # {"true"}
             THEN tables[i] = {} ELSE Cardinality(tables[i]) = 1
    BY DEF LostOnlyUndecided
  <2>1. i \in DOMAIN frame
    BY DEF FrameInv
  <2>2. CASE OfBatch
    <3>1. Judgements(Seen(frame[i])) = {Batch!Checks(frame[i])}
      BY <2>2 DEF Judgements, Seen, OfBatch, BatchSources
    <3>2. tables[i] = BatchTables(frame[i])
      BY <2>1, <2>2, WrittenTo
    <3> QED
      BY <3>1, <3>2, BatchDecided
  <2>3. CASE ~OfBatch
    <3> DEFINE seen == Seen(frame[i])
    <3>1. tables[i] = StreamTables(seen)
      BY <2>1, <2>3, WrittenTo
    <3>2. seen \in Stream!Row /\ (Stream!IsValid(seen) => seen.event_type \in ProjectedTypes)
      BY <2>1, <2>3, FrameRows, SplitAssumption
    <3> HIDE DEF seen
    <3>3. IF \E checks \in Judgements(seen) : "false" \notin checks /\ checks # {"true"}
          THEN StreamTables(seen) = {} ELSE Cardinality(StreamTables(seen)) = 1
      BY <2>3, <3>2, StreamDecided
    <3> QED
      BY <3>1, <3>3 DEF seen
  <2> QED
    BY <2>2, <2>3
<1> QED
  BY <1>1, FramesKept, PTL

(* The reason a rejected row carries is true of it.                        *)
THEOREM ReasonsTrue == FrameSpec => []ReasonApplies
<1>1. FrameInv => ReasonApplies
  <2> SUFFICES ASSUME FrameInv, NEW i \in kept, tables[i] = {"rejected"}
      PROVE  IF OfBatch THEN BatchReasonApplies(frame[i]) ELSE StreamReasonApplies(Seen(frame[i]))
    BY DEF ReasonApplies
  <2>1. i \in DOMAIN frame
    BY DEF FrameInv
  <2>2. stage = "split"
    BY <2>1, WrittenTo
  <2>3. CASE OfBatch
    <3>1. BatchTables(frame[i]) = {"rejected"} /\ frame[i] \in Batch!Row
      BY <2>1, <2>2, <2>3, WrittenTo, FrameRows, SplitAssumption
    <3>2. Batch!IsRejected(frame[i])
      BY <3>1 DEF BatchTables
    <3> QED
      BY <2>3, <3>1, <3>2, BatchReasonTrue
  <2>4. CASE ~OfBatch
    <3>1. StreamTables(Seen(frame[i])) = {"rejected"} /\ Seen(frame[i]) \in Stream!Row
      BY <2>1, <2>2, <2>4, WrittenTo, FrameRows, SplitAssumption
    <3>2. Stream!IsRejected(Seen(frame[i]))
      BY <3>1 DEF StreamTables, ProjectedTypes
    <3> QED
      BY <2>4, <3>1, <3>2, StreamReasonTrue
  <2> QED
    BY <2>3, <2>4
<1> QED
  BY <1>1, FramesKept, PTL

(* The two streaming pipelines agree on the trades.                        *)
THEOREM TradesKept == FrameSpec => []MicrobatchKeepsTrades
<1>1. FrameInv => MicrobatchKeepsTrades
  <2> SUFFICES ASSUME FrameInv, source = "microbatch", stage = "split", NEW i \in DOMAIN frame
      PROVE  /\ "trade" \in tables[i] <=> Stream!ProjectedTo("trade", frame[i])
             /\ frame[i].event_type = "trade" =>
                  ("rejected" \in tables[i] <=> Stream!IsRejected(frame[i]))
             /\ Stream!IsValid(Seen(frame[i])) => tables[i] = {"trade"}
    BY DEF MicrobatchKeepsTrades
  <2> DEFINE row == frame[i]
             seen == Stream!MicrobatchRow(row)
  <2>1. ~OfBatch /\ kept = DOMAIN frame /\ Seen(row) = seen
    BY DEF FrameInv, OfBatch, BatchSources, Seen
  <2>2. row \in Stream!Row /\ (Stream!IsValid(seen) => seen.event_type \in ProjectedTypes)
    BY <2>1, FrameRows, SplitAssumption
  <2>3. tables[i] = StreamTables(seen)
    BY <2>1, WrittenTo
  <2> HIDE DEF row
  <2>4. /\ seen \in Stream!Row /\ seen.event_type = row.event_type
        /\ Stream!UniversalChecks(seen) = Stream!UniversalChecks(row)
        /\ Stream!TradeChecks(seen) = Stream!TradeChecks(row)
        /\ Stream!IsValid(seen) => row.event_type = "trade"
    BY <2>2, MicrobatchSees
  <2> HIDE DEF seen
  <2>5. /\ Stream!IsValid(seen) => tables[i] = {"trade"}
        /\ Stream!IsRejected(seen) => tables[i] = {"rejected"}
        /\ ~Stream!IsValid(seen) /\ ~Stream!IsRejected(seen) => tables[i] = {}
    BY <2>2, <2>3, <2>4, StreamTablesAre
  <2>6. ~(Stream!IsValid(seen) /\ Stream!IsRejected(seen))
    BY StreamVerdict
  <2>7. row.event_type = "trade" =>
          /\ Stream!IsValid(seen) <=> Stream!IsValid(row)
          /\ Stream!IsRejected(seen) <=> Stream!IsRejected(row)
    <3> SUFFICES ASSUME row.event_type = "trade"
        PROVE  /\ Stream!IsValid(seen) <=> Stream!IsValid(row)
               /\ Stream!IsRejected(seen) <=> Stream!IsRejected(row)
      OBVIOUS
    <3>1. "false" \in Stream!TransactionChecks(seen) /\ "false" \in Stream!PaymentChecks(seen)
      BY <2>4, StreamTypes
    <3>2. "false" \in Stream!TransactionChecks(row) /\ "false" \in Stream!PaymentChecks(row)
      BY <2>2, StreamTypes
    <3>3. /\ Stream!IsValid(seen) <=>
               Stream!UniversalChecks(row) = {"true"} /\ Stream!TradeChecks(row) = {"true"}
          /\ Stream!IsRejected(seen) <=>
               "false" \in Stream!UniversalChecks(row) \/ "false" \in Stream!TradeChecks(row)
      BY <2>4, <3>1, StreamVerdict
    <3>4. /\ Stream!IsValid(row) <=>
               Stream!UniversalChecks(row) = {"true"} /\ Stream!TradeChecks(row) = {"true"}
          /\ Stream!IsRejected(row) <=>
               "false" \in Stream!UniversalChecks(row) \/ "false" \in Stream!TradeChecks(row)
      BY <3>2, StreamVerdict
    <3> QED
      BY <3>3, <3>4
  <2>8. Stream!ProjectedTo("trade", row) <=> Stream!IsValid(row) /\ row.event_type = "trade"
    BY DEF Stream!ProjectedTo, Stream!Holds, Stream!IsIn, Null, Stream!Null
  <2>9. "trade" \in tables[i] <=> Stream!IsValid(seen)
    BY <2>5
  <2>10. "rejected" \in tables[i] <=> Stream!IsRejected(seen)
    BY <2>5, <2>6
  <2>11. Stream!IsValid(seen) <=> Stream!IsValid(row) /\ row.event_type = "trade"
    BY <2>4, <2>7
  <2> QED
    BY <2>1, <2>5, <2>7, <2>8, <2>9, <2>10, <2>11 DEF row
<1> QED
  BY <1>1, FramesKept, PTL

(* What the mappers let through is accepted.                               *)
LEMMA MappersAccepted ==
  ASSUME SplitAssumption, FrameInv
  PROVE  MappedAccepted
<1> SUFFICES ASSUME stage = "split", NEW i \in kept
    PROVE  /\ source = "plaid" => tables[i] = {"silver"}
           /\ source = "alpaca" => tables[i] = {"trade"}
  BY DEF MappedAccepted
<1>1. i \in DOMAIN frame
  BY DEF FrameInv
<1>2. CASE source = "plaid"
  <2>1. OfBatch /\ frame[i] \in PlaidRows
    BY <1>1, <1>2, FrameRows DEF OfBatch, BatchSources
  <2> QED
    BY <1>1, <1>2, <2>1, WrittenTo, PlaidAccepted
<1>3. CASE source = "alpaca"
  <2>1. ~OfBatch /\ Seen(frame[i]) = frame[i] /\ frame[i] \in AlpacaRows
    BY <1>1, <1>3, FrameRows DEF OfBatch, BatchSources, Seen
  <2>2. /\ frame[i] \in Stream!Row /\ frame[i].event_type = "trade" /\ Stream!IsValid(frame[i])
        /\ ProjectedTypes = {"trade"}
    BY <1>3, <2>1, AlpacaAccepted DEF ProjectedTypes
  <2>3. StreamTables(frame[i]) = {"trade"}
    BY <2>2, StreamTablesAre
  <2> QED
    BY <1>1, <1>3, <2>1, <2>3, WrittenTo
<1> QED
  BY <1>2, <1>3

(* The synthetic data comes out as it was injected.                        *)
LEMMA SyntheticAsInjected ==
  ASSUME SplitAssumption, FrameInv
  PROVE  SyntheticVerdicts
<1> SUFFICES ASSUME source = "synthetic", stage = "split"
    PROVE  /\ \A key \in KeysOf(DOMAIN frame) :
                Cardinality({i \in DOMAIN frame : frame[i].id = key /\ tables[i] # {}}) = 1
           /\ \A i \in kept :
                tables[i] = IF Undamaged(frame[i]) THEN {"silver"} ELSE {"rejected"}
           /\ \E copies \in DOMAIN RecordIds :
                /\ frame[Len(frame)].id = RecordIds[copies]
                /\ {RecordIds[i] : i \in 1..copies} \subseteq KeysOf(kept)
  BY DEF SyntheticVerdicts, Undamaged
<1>1. frame \in Synthetic!Frames /\ OfBatch
  BY DEF FrameInv, FramesOf, OfBatch, BatchSources
<1>2. KeysOf(kept) = KeysOf(DOMAIN frame) /\ kept \subseteq DOMAIN frame
      /\ \A i, j \in kept : frame[i].id = frame[j].id => i = j
  BY <1>1 DEF FrameInv, OneOfEachKey
<1>3. \A i \in DOMAIN frame : Definite(frame[i])
  BY <1>1, SyntheticFrames
<1>4. \A i \in kept : tables[i] = IF Undamaged(frame[i]) THEN {"silver"} ELSE {"rejected"}
  BY <1>1, <1>2, <1>3, WrittenTo, DefiniteTables
<1>5. ASSUME NEW key \in KeysOf(DOMAIN frame)
      PROVE  Cardinality({i \in DOMAIN frame : frame[i].id = key /\ tables[i] # {}}) = 1
  <2>1. PICK k \in kept : frame[k].id = key
    BY <1>2 DEF KeysOf
  <2>2. \A i \in DOMAIN frame : tables[i] # {} => i \in kept
    BY WrittenTo
  <2>3. tables[k] # {}
    BY <1>4
  <2>4. {i \in DOMAIN frame : frame[i].id = key /\ tables[i] # {}} = {k}
    BY <1>2, <2>1, <2>2, <2>3
  <2> QED
    BY <2>4, FS_Singleton
<1>6. PICK copies \in DOMAIN RecordIds :
        /\ frame[Len(frame)].id = RecordIds[copies]
        /\ \A j \in 1..copies : \E i \in DOMAIN frame : frame[i].id = RecordIds[j]
  BY <1>1, SyntheticFrames
<1>7. {RecordIds[i] : i \in 1..copies} \subseteq KeysOf(kept)
  <2>1. \A j \in 1..copies : RecordIds[j] \in KeysOf(DOMAIN frame)
    BY <1>6 DEF KeysOf
  <2> QED
    BY <1>2, <2>1
<1> QED
  BY <1>4, <1>5, <1>6, <1>7

(* The verdict on a record is the one its maker meant.                     *)
THEOREM VerdictsAsMade == FrameSpec => []VerdictAsMade
<1>1. FrameInv => VerdictAsMade
  BY MappersAccepted, SyntheticAsInjected, SplitAssumption DEF VerdictAsMade
<1> QED
  BY <1>1, FramesKept, PTL

=============================================================================
