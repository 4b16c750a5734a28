------------------------------ MODULE FiniteSums ------------------------------
(***************************************************************************)
(* Sums over finite sets, as the community modules define them: that they  *)
(* exist, are numbers, and change as one of the values does.               *)
(***************************************************************************)
EXTENDS Integers, FiniteSets, FiniteSetTheorems, WellFoundedInduction, TLAPS

(* What holds of a finite set when it holds of its strict subsets holds of *)
(* all its subsets: a set of subsets stands for the predicate.             *)
LEMMA SubsetInduction ==
  ASSUME NEW S, IsFiniteSet(S), NEW P \in SUBSET (SUBSET S),
         \A s \in SUBSET S : (\A t \in SUBSET s : t # s => t \in P) => s \in P
  PROVE  P = SUBSET S
  <1>. DEFINE bad == (SUBSET S) \ P
  <1>1. CASE bad # {}
    <2>1. IsWellFoundedOn(StrictSubsetOrdering(S), FiniteSubsetsOf(S))
      BY FS_StrictSubsetOrderingWellFounded
    <2>2. FiniteSubsetsOf(S) = SUBSET S
      BY FS_FiniteSubsetsOfFinite
    <2>3. bad \subseteq FiniteSubsetsOf(S)
      BY <2>2
    <2>. HIDE DEF bad
    <2>4. PICK s \in bad : \A t \in bad : <<t, s>> \notin StrictSubsetOrdering(S)
      BY <1>1, <2>1, <2>3, WFMin
    <2>5. ASSUME NEW t \in SUBSET s, t # s, t \notin P PROVE FALSE
      <3>1. t \in bad /\ s \in SUBSET S /\ t \in SUBSET S
        BY <2>5 DEF bad
      <3>2. <<t, s>> \in StrictSubsetOrdering(S)
        BY <2>5, <3>1 DEF StrictSubsetOrdering
      <3>. QED
        BY <2>4, <3>1, <3>2
    <2>. QED
      BY <2>4, <2>5 DEF bad
  <1>. QED
    BY <1>1

(* How the community modules sum the values of g over a set: an element    *)
(* is chosen, and the rest is summed. *)
Pick(s) == CHOOSE x \in s : TRUE
SumsTo(it, g, S) ==
  it = [s \in SUBSET S |-> IF s = {} THEN 0 ELSE g[Pick(s)] + it[s \ {Pick(s)}]]

LEMMA PickIn == \A s : s # {} => Pick(s) \in s
  BY DEF Pick

LEMMA SumsAgree ==
  ASSUME NEW g, NEW S, NEW T, IsFiniteSet(S), T \subseteq S, NEW it, NEW jt,
         SumsTo(it, g, S), SumsTo(jt, g, T)
  PROVE  it[T] = jt[T]
  <1>. DEFINE P == {s \in SUBSET T : it[s] = jt[s]}
  <1>1. IsFiniteSet(T)
    BY FS_Subset
  <1>2. ASSUME NEW s \in SUBSET T, \A t \in SUBSET s : t # s => t \in P
        PROVE  s \in P
    <2>1. /\ it[s] = IF s = {} THEN 0 ELSE g[Pick(s)] + it[s \ {Pick(s)}]
          /\ jt[s] = IF s = {} THEN 0 ELSE g[Pick(s)] + jt[s \ {Pick(s)}]
      BY DEF SumsTo
    <2>2. s # {} => s \ {Pick(s)} \in P
      BY <1>2, PickIn
    <2>. QED
      BY <2>1, <2>2
  <1>. HIDE DEF P
  <1>3. P = SUBSET T
    <2>1. P \in SUBSET (SUBSET T)
      BY DEF P
    <2>. QED
      BY <1>1, <1>2, <2>1, SubsetInduction
  <1>. QED
    BY <1>3 DEF P

LEMMA SumExists ==
  ASSUME NEW g, NEW S, IsFiniteSet(S)
  PROVE  \E it : SumsTo(it, g, S)
  <1>. DEFINE P == {s \in SUBSET S : \E it : SumsTo(it, g, s)}
  <1>1. ASSUME NEW s \in SUBSET S, \A t \in SUBSET s : t # s => t \in P
        PROVE  s \in P
    <2>. DEFINE of(t) == CHOOSE it : SumsTo(it, g, t)
                sum(t) == IF t = {} THEN 0
                          ELSE g[Pick(t)] + of(t \ {Pick(t)})[t \ {Pick(t)}]
                jt == [t \in SUBSET s |-> sum(t)]
    <2>1. ASSUME NEW t \in SUBSET s, t # s PROVE SumsTo(of(t), g, t) /\ of(t)[t] = sum(t)
      <3>1. \E it : SumsTo(it, g, t)
        BY <1>1, <2>1
      <3>2. SumsTo(of(t), g, t)
        BY <3>1
      <3>. DEFINE u == t \ {Pick(t)}
      <3>3. of(t)[t] = IF t = {} THEN 0 ELSE g[Pick(t)] + of(t)[u]
        BY <3>2 DEF SumsTo
      <3>4. ASSUME t # {} PROVE of(t)[u] = of(u)[u]
        <4>1. u \in SUBSET s /\ u # s /\ u \subseteq t /\ IsFiniteSet(t)
          <5>1. u \in SUBSET s /\ u # s /\ u \subseteq t
            BY <2>1
          <5>2. IsFiniteSet(t)
            BY FS_Subset
          <5>. QED
            BY <5>1, <5>2
        <4>2. \E it : SumsTo(it, g, u)
          BY <1>1, <4>1
        <4>3. SumsTo(of(u), g, u)
          BY <4>2
        <4>. HIDE DEF of, u
        <4>. QED
          BY <3>2, <4>1, <4>3, SumsAgree
      <3>. QED
        BY <3>2, <3>3, <3>4
    <2>2. ASSUME NEW t \in SUBSET s
          PROVE  jt[t] = IF t = {} THEN 0 ELSE g[Pick(t)] + jt[t \ {Pick(t)}]
      <3>1. ASSUME t # {} PROVE jt[t \ {Pick(t)}] = of(t \ {Pick(t)})[t \ {Pick(t)}]
        <4>1. t \ {Pick(t)} \in SUBSET s /\ t \ {Pick(t)} # s
          BY <3>1, PickIn
        <4>. HIDE DEF of, sum
        <4>. QED
          BY <2>1, <4>1
      <3>. QED
        BY <3>1
    <2>. HIDE DEF sum, of
    <2>3. jt = [t \in SUBSET s |-> IF t = {} THEN 0 ELSE g[Pick(t)] + jt[t \ {Pick(t)}]]
      BY <2>2
    <2>4. SumsTo(jt, g, s)
      BY <2>3 DEF SumsTo
    <2>. QED
      BY <2>4
  <1>. HIDE DEF P
  <1>2. P = SUBSET S
    <2>1. P \in SUBSET (SUBSET S)
      BY DEF P
    <2>. QED
      BY <1>1, <2>1, SubsetInduction
  <1>. QED
    BY <1>2 DEF P

(* A sum is a number, and changes as one of its values does. *)
LEMMA SumInt ==
  ASSUME NEW S, IsFiniteSet(S), NEW g \in [S -> Int], NEW it, SumsTo(it, g, S)
  PROVE  \A s \in SUBSET S : it[s] \in Int
  <1>. DEFINE P == {s \in SUBSET S : it[s] \in Int}
  <1>1. ASSUME NEW s \in SUBSET S, \A t \in SUBSET s : t # s => t \in P
        PROVE  s \in P
    <2>1. it[s] = IF s = {} THEN 0 ELSE g[Pick(s)] + it[s \ {Pick(s)}]
      BY DEF SumsTo
    <2>2. s # {} => s \ {Pick(s)} \in P /\ g[Pick(s)] \in Int
      BY <1>1, PickIn
    <2>. QED
      BY <2>1, <2>2
  <1>. HIDE DEF P
  <1>2. P = SUBSET S
    <2>1. P \in SUBSET (SUBSET S)
      BY DEF P
    <2>. QED
      BY <1>1, <2>1, SubsetInduction
  <1>. QED
    BY <1>2 DEF P

LEMMA SumChange ==
  ASSUME NEW S, IsFiniteSet(S), NEW g \in [S -> Int], NEW h \in [S -> Int], NEW d \in S,
         \A x \in S \ {d} : h[x] = g[x],
         NEW it, SumsTo(it, g, S), NEW jt, SumsTo(jt, h, S)
  PROVE  it[S] \in Int /\ jt[S] = it[S] + (h[d] - g[d])
  <1>. DEFINE k(s) == IF d \in s THEN h[d] - g[d] ELSE 0
              P == {s \in SUBSET S : jt[s] = it[s] + k(s)}
  <1>0. \A s \in SUBSET S : it[s] \in Int /\ k(s) \in Int
    BY SumInt
  <1>1. ASSUME NEW s \in SUBSET S, \A t \in SUBSET s : t # s => t \in P
        PROVE  s \in P
    <2>1. /\ it[s] = IF s = {} THEN 0 ELSE g[Pick(s)] + it[s \ {Pick(s)}]
          /\ jt[s] = IF s = {} THEN 0 ELSE h[Pick(s)] + jt[s \ {Pick(s)}]
      BY DEF SumsTo
    <2>2. CASE s = {}
      BY <2>1, <2>2
    <2>3. CASE s # {}
      <3>. DEFINE t == s \ {Pick(s)}
      <3>1. Pick(s) \in S /\ Pick(s) \in s /\ t \in SUBSET S
        BY <2>3, PickIn
      <3>2. jt[t] = it[t] + k(t) /\ it[t] \in Int
        BY <1>0, <1>1, <3>1
      <3>3. h[Pick(s)] = g[Pick(s)] + IF Pick(s) = d THEN h[d] - g[d] ELSE 0
        BY <3>1
      <3>4. k(s) = k(t) + IF Pick(s) = d THEN h[d] - g[d] ELSE 0
        BY <3>1
      <3>5. k(t) \in Int /\ g[Pick(s)] \in Int /\ h[Pick(s)] \in Int
            /\ (IF Pick(s) = d THEN h[d] - g[d] ELSE 0) \in Int
        BY <1>0, <3>1
      <3>. HIDE DEF k, t
      <3>6. jt[s] = it[s] + k(s)
        BY <2>1, <2>3, <3>2, <3>3, <3>4, <3>5 DEF t
      <3>. QED
        BY <3>6
    <2>. QED
      BY <2>2, <2>3
  <1>. HIDE DEF P
  <1>2. P = SUBSET S
    <2>1. P \in SUBSET (SUBSET S)
      BY DEF P
    <2>. QED
      BY <1>1, <2>1, SubsetInduction
  <1>. QED
    BY <1>0, <1>2 DEF P

(* Whatever element is taken off first, the rest is summed.                *)
LEMMA SumWithout ==
  ASSUME NEW S, IsFiniteSet(S), NEW g \in [S -> Int], NEW it, SumsTo(it, g, S)
  PROVE  \A s \in SUBSET S : \A d \in s : it[s] = g[d] + it[s \ {d}]
  <1>. DEFINE P == {s \in SUBSET S : \A d \in s : it[s] = g[d] + it[s \ {d}]}
  <1>1. ASSUME NEW s \in SUBSET S, \A t \in SUBSET s : t # s => t \in P
        PROVE  s \in P
    <2>. SUFFICES ASSUME NEW d \in s PROVE it[s] = g[d] + it[s \ {d}]
      OBVIOUS
    <2>. DEFINE x == Pick(s)
    <2>1. x \in s /\ it[s] = g[x] + it[s \ {x}]
      BY PickIn DEF SumsTo
    <2>2. CASE x = d
      BY <2>1, <2>2
    <2>3. CASE x # d
      <3>1. /\ s \ {x} \in P /\ d \in s \ {x}
            /\ s \ {d} \in P /\ x \in s \ {d}
        BY <1>1, <2>1, <2>3
      <3>. HIDE DEF x
      <3>2. /\ it[s \ {x}] = g[d] + it[(s \ {x}) \ {d}]
            /\ it[s \ {d}] = g[x] + it[(s \ {d}) \ {x}]
        BY <3>1
      <3>3. PICK rest : rest = (s \ {x}) \ {d} /\ rest = (s \ {d}) \ {x} /\ rest \in SUBSET S
        OBVIOUS
      <3>4. it[rest] \in Int /\ g[x] \in Int /\ g[d] \in Int
        BY <2>1, <3>3, SumInt
      <3>5. it[s \ {x}] = g[d] + it[rest] /\ it[s \ {d}] = g[x] + it[rest]
        BY <3>2, <3>3
      <3>6. it[s] = g[x] + (g[d] + it[rest])
        BY <2>1, <3>5
      <3>7. it[s] = g[d] + (g[x] + it[rest])
        BY <3>4, <3>6
      <3>. QED
        BY <3>5, <3>7
    <2>. QED
      BY <2>2, <2>3
  <1>. HIDE DEF P
  <1>2. P = SUBSET S
    <2>1. P \in SUBSET (SUBSET S)
      BY DEF P
    <2>. QED
      BY <1>1, <2>1, SubsetInduction
  <1>. QED
    BY <1>2 DEF P

(* One element comes, goes or has another value: the sum moves by that.    *)
LEMMA SumMoves ==
  ASSUME NEW D, NEW E, IsFiniteSet(D), IsFiniteSet(E), NEW t, D \ {t} = E \ {t},
         NEW f \in [D -> Int], NEW g \in [E -> Int], \A x \in D \ {t} : f[x] = g[x],
         NEW it, SumsTo(it, f, D), NEW jt, SumsTo(jt, g, E)
  PROVE  /\ it[D] \in Int
         /\ jt[E] = it[D] + (IF t \in E THEN g[t] ELSE 0) - (IF t \in D THEN f[t] ELSE 0)
  <1>. DEFINE rest == D \ {t}
  <1>1. rest \subseteq D /\ rest \subseteq E /\ IsFiniteSet(rest) /\ rest = E \ {t}
    BY FS_Subset
  <1>2. PICK kt : SumsTo(kt, f, rest)
    BY <1>1, SumExists
  <1>3. SumsTo(kt, g, rest)
    <2>1. \A s \in SUBSET rest : s # {} => f[Pick(s)] = g[Pick(s)]
      BY PickIn
    <2>. QED
      BY <1>2, <2>1 DEF SumsTo
  <1>. HIDE DEF rest
  <1>4. it[rest] = kt[rest] /\ jt[rest] = kt[rest]
    BY <1>1, <1>2, <1>3, SumsAgree
  <1>5. it[D] \in Int /\ it[rest] \in Int
    BY <1>1, SumInt
  <1>6. it[D] = it[rest] + (IF t \in D THEN f[t] ELSE 0)
    <2>1. CASE t \in D
      <3>1. it[D] = f[t] + it[D \ {t}] /\ f[t] \in Int
        BY <2>1, SumWithout
      <3>. QED
        BY <1>5, <2>1, <3>1 DEF rest
    <2>2. CASE t \notin D
      <3>1. rest = D
        BY <2>2 DEF rest
      <3>. QED
        BY <1>5, <2>2, <3>1
    <2>. QED
      BY <2>1, <2>2
  <1>7. jt[E] = it[rest] + (IF t \in E THEN g[t] ELSE 0)
    <2>1. CASE t \in E
      <3>1. jt[E] = g[t] + jt[E \ {t}] /\ g[t] \in Int
        BY <2>1, SumWithout
      <3>. QED
        BY <1>1, <1>4, <1>5, <2>1, <3>1
    <2>2. CASE t \notin E
      <3>1. rest = E
        BY <1>1, <2>2
      <3>. QED
        BY <1>4, <1>5, <2>2, <3>1
    <2>. QED
      BY <2>1, <2>2
  <1>8. (IF t \in E THEN g[t] ELSE 0) \in Int /\ (IF t \in D THEN f[t] ELSE 0) \in Int
    OBVIOUS
  <1>. QED
    BY <1>5, <1>6, <1>7, <1>8

=============================================================================
