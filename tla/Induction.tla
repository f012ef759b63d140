------------------------------ MODULE Induction ------------------------------
(***************************************************************************)
(* Induction and recursion over the natural numbers and over finite sets,  *)
(* and sums, with sets and functions where the library's theorems have     *)
(* operators: in this form a first-order prover can instantiate them.      *)
(***************************************************************************)
EXTENDS Naturals, FiniteSets, Sums, FiniteSetTheorems, WellFoundedInduction, TLAPS

LEMMA Least ==
    ASSUME NEW S \in SUBSET Nat, S # {}
    PROVE  \E m \in S : \A n \in S : m <= n
<1>1. IsWellFoundedOn(OpToRel(<, Nat), Nat)
  BY NatLessThanWellFounded
<1>2. PICK m \in S : \A n \in S : ~(<<n, m>> \in OpToRel(<, Nat))
  BY <1>1, WFMin
<1>3. \A n \in S : ~(n < m)
  BY <1>2 DEF OpToRel
<1>. QED  BY <1>3

\* A set that holds 0, and with a number its successor, holds them all.
LEMMA Climb ==
    ASSUME NEW S, 0 \in S, \A n \in Nat : n \in S => n + 1 \in S
    PROVE  Nat \subseteq S
<1> DEFINE missing == Nat \ S
<1>1. ASSUME missing # {}  PROVE FALSE
  <2>1. PICK m \in missing : \A n \in missing : m <= n
    BY <1>1, Least
  <2>2. m \in Nat \ {0} /\ m - 1 \in Nat /\ ~(m <= m - 1)
    BY <2>1
  <2>3. m - 1 \in S
    BY <2>1, <2>2
  <2>4. (m - 1) + 1 \in S
    BY <2>2, <2>3
  <2>. QED  BY <2>1, <2>2, <2>4
<1>. QED  BY <1>1

\* A function of the natural numbers, given by its first value and by how each value
\* follows from the one before it.
Runs(f, X, first, step) ==
    f \in [Nat -> X] /\ f[0] = first /\ \A n \in Nat : f[n + 1] = step[n][f[n]]

Run(X, first, step) == CHOOSE f : Runs(f, X, first, step)

\* There is one whatever the first value and the steps are.
LEMMA Recursion ==
    ASSUME NEW X, NEW first \in X, NEW step \in [Nat -> [X -> X]]
    PROVE  Runs(Run(X, first, step), X, first, step)
<1> DEFINE Upto(n, f) == /\ f \in [0..n -> X] /\ f[0] = first
                         /\ \A k \in 0..n : k < n => f[k + 1] = step[k][f[k]]
           reached == {n \in Nat : \E f : Upto(n, f)}
<1>1. 0 \in reached
  <2>1. Upto(0, [k \in 0..0 |-> first])
    OBVIOUS
  <2>. QED  BY <2>1
<1>2. ASSUME NEW n \in Nat, n \in reached  PROVE n + 1 \in reached
  <2>1. PICK f : Upto(n, f)
    BY <1>2
  <2> DEFINE g == [k \in 0..n + 1 |-> IF k = n + 1 THEN step[n][f[n]] ELSE f[k]]
  <2>2. \A k \in 0..n : k \in 0..n + 1 /\ k # n + 1
    OBVIOUS
  <2>3. f[n] \in X /\ step[n][f[n]] \in X
    BY <2>1
  <2>4. g \in [0..n + 1 -> X]
    BY <2>1, <2>3
  <2>5. g[0] = first
    BY <2>1
  <2>6. ASSUME NEW k \in 0..n + 1, k < n + 1  PROVE g[k + 1] = step[k][g[k]]
    <3>1. k \in 0..n /\ k + 1 \in 0..n + 1 /\ g[k] = f[k]
      BY <2>6
    <3>2. CASE k = n
      BY <3>1, <3>2
    <3>3. CASE k # n
      <4>1. k < n /\ k + 1 \in 0..n /\ k + 1 # n + 1
        BY <3>1, <3>3
      <4>. QED  BY <2>1, <3>1, <4>1
    <3>. QED  BY <3>2, <3>3
  <2>7. Upto(n + 1, g)
    <3>. HIDE DEF g
    <3>. QED  BY <2>4, <2>5, <2>6
  <2>. HIDE DEF Upto
  <2>. QED  BY <2>7
<1>3. Nat \subseteq reached
  <2>. HIDE DEF reached
  <2>. QED  BY <1>1, <1>2, Climb
<1> DEFINE line(n) == CHOOSE f : Upto(n, f)
<1>4. \A n \in Nat : Upto(n, line(n))
  <2>. HIDE DEF Upto
  <2>. QED  BY <1>3
<1>. HIDE DEF line, reached
\* Two lines agree as far as the shorter goes.
<1>5. ASSUME NEW m \in Nat, NEW n \in Nat, m <= n, NEW f, NEW g, Upto(m, f), Upto(n, g)
      PROVE  \A k \in 0..m : f[k] = g[k]
  <2> DEFINE same == {k \in Nat : k <= m => f[k] = g[k]}
  <2>1. 0 \in same
    BY <1>5
  <2>2. ASSUME NEW k \in Nat, k \in same  PROVE k + 1 \in same
    <3> SUFFICES ASSUME k + 1 <= m  PROVE f[k + 1] = g[k + 1]
      OBVIOUS
    <3>1. k \in 0..m /\ k < m /\ k \in 0..n /\ k < n /\ k <= m
      BY <1>5
    <3>. QED  BY <1>5, <2>2, <3>1
  <2>3. Nat \subseteq same
    <3>. HIDE DEF same
    <3>. QED  BY <2>1, <2>2, Climb
  <2>. QED  BY <2>3
<1> DEFINE h == [n \in Nat |-> line(n)[n]]
<1>6. h \in [Nat -> X]
  BY <1>4
<1>7. h[0] = first
  BY <1>4
<1>8. ASSUME NEW n \in Nat  PROVE h[n + 1] = step[n][h[n]]
  <2>1. /\ Upto(n, line(n)) /\ Upto(n + 1, line(n + 1))
        /\ n + 1 \in Nat /\ n <= n + 1 /\ n \in 0..n /\ n \in 0..n + 1 /\ n < n + 1
    BY <1>4
  <2>2. line(n)[n] = line(n + 1)[n]
    <3>. HIDE DEF Upto
    <3>. QED  BY <1>5, <2>1
  <2>3. line(n + 1)[n + 1] = step[n][line(n + 1)[n]]
    BY <2>1
  <2>. QED  BY <2>1, <2>2, <2>3
<1>9. Runs(h, X, first, step)
  <2>. HIDE DEF h, Upto
  <2>. QED  BY <1>6, <1>7, <1>8 DEF Runs
<1>. HIDE DEF h
<1>. QED  BY <1>9 DEF Run

\* What a loop has after each of N turns.
Turns(N, first, step) ==
    CHOOSE f : f = [n \in 0..N |-> IF n = 0 THEN first ELSE step[n][f[n - 1]]]

LEMMA TurnsAre ==
    ASSUME NEW X, NEW first \in X, NEW N \in Nat, NEW step \in [1..N -> [X -> X]]
    PROVE  /\ Turns(N, first, step) \in [0..N -> X]
           /\ Turns(N, first, step)[0] = first
           /\ \A n \in 1..N : Turns(N, first, step)[n] = step[n][Turns(N, first, step)[n - 1]]
<1> DEFINE endless == [n \in Nat |-> [x \in X |-> IF n < N THEN step[n + 1][x] ELSE x]]
           F == Run(X, first, endless)
           next(f) == [n \in 0..N |-> IF n = 0 THEN first ELSE step[n][f[n - 1]]]
           g == [n \in 0..N |-> F[n]]
<1>1. endless \in [Nat -> [X -> X]]
  <2> SUFFICES ASSUME NEW n \in Nat, NEW x \in X, n < N  PROVE step[n + 1][x] \in X
    OBVIOUS
  <2>1. n + 1 \in 1..N
    OBVIOUS
  <2>. QED  BY <2>1
<1>2. Runs(F, X, first, endless)
  <2>. HIDE DEF endless
  <2>. QED  BY <1>1, Recursion
<1>3. F \in [Nat -> X] /\ F[0] = first
  <2>. HIDE DEF F
  <2>. QED  BY <1>2 DEF Runs
<1>4. ASSUME NEW n \in 1..N  PROVE F[n] = step[n][F[n - 1]]
  <2>1. n - 1 \in Nat /\ (n - 1) + 1 = n /\ n - 1 < N
    OBVIOUS
  <2>2. F[(n - 1) + 1] = endless[n - 1][F[n - 1]]
    <3>. HIDE DEF F, endless
    <3>. QED  BY <1>2, <2>1 DEF Runs
  <2>3. F[n - 1] \in X
    <3>. HIDE DEF F
    <3>. QED  BY <1>3, <2>1
  <2>. HIDE DEF F
  <2>. QED  BY <2>1, <2>2, <2>3
<1>. HIDE DEF F
<1>5. g = next(g)
  <2>1. ASSUME NEW n \in 0..N  PROVE g[n] = next(g)[n]
    <3>1. CASE n = 0
      BY <1>3, <3>1
    <3>2. CASE n # 0
      <4>1. n \in 1..N /\ n - 1 \in 0..N
        BY <3>2
      <4>. QED  BY <1>4, <3>2, <4>1
    <3>. QED  BY <3>1, <3>2
  <2>. HIDE DEF next
  <2>2. DOMAIN next(g) = 0..N /\ \A n \in 0..N : TRUE
    BY DEF next
  <2>. QED  BY <2>1 DEF next
<1> DEFINE T == Turns(N, first, step)
<1>6. T = next(T)
  BY <1>5 DEF Turns
<1>. HIDE DEF T, g
<1>7. T[0] = first
  BY <1>6
<1>8. ASSUME NEW n \in 1..N  PROVE T[n] = step[n][T[n - 1]]
  <2>1. n \in 0..N /\ n # 0
    OBVIOUS
  <2>2. next(T)[n] = step[n][T[n - 1]]
    BY <2>1
  <2>. HIDE DEF next
  <2>. QED  BY <1>6, <2>2
<1>9. \A n \in 0..N : T[n] \in X
  <2> DEFINE typed == {n \in Nat : n <= N => T[n] \in X}
  <2>1. 0 \in typed
    BY <1>7
  <2>2. ASSUME NEW n \in Nat, n \in typed  PROVE n + 1 \in typed
    <3> SUFFICES ASSUME n + 1 <= N  PROVE T[n + 1] \in X
      OBVIOUS
    <3>1. n + 1 \in 1..N /\ (n + 1) - 1 = n /\ n <= N
      OBVIOUS
    <3>2. T[n + 1] = step[n + 1][T[n]]
      BY <1>8, <3>1
    <3>. QED  BY <2>2, <3>1, <3>2
  <2>3. Nat \subseteq typed
    <3>. HIDE DEF typed
    <3>. QED  BY <2>1, <2>2, Climb
  <2>. QED  BY <2>3
<1>10. T \in [0..N -> X]
  <2>1. T = [n \in 0..N |-> T[n]]
    BY <1>6
  <2>. QED  BY <1>9, <2>1
<1>. QED  BY <1>7, <1>8, <1>10 DEF T

-----------------------------------------------------------------------------
(* Finite sets, one element after the other.                               *)

LEMMA Counts ==
    ASSUME NEW S, IsFiniteSet(S)
    PROVE  /\ Cardinality(S) \in Nat
           /\ Cardinality(S) = 0 => S = {}
<1>1. Cardinality(S) \in Nat
  BY FS_CardinalityType
<1>2. Cardinality(S) = 0 => S = {}
  BY FS_EmptySet
<1>. QED  BY <1>1, <1>2

\* A finite set without one of its elements has one less.
LEMMA Loses ==
    ASSUME NEW S, IsFiniteSet(S), NEW x \in S
    PROVE  /\ IsFiniteSet(S \ {x})
           /\ Cardinality(S) \in Nat /\ Cardinality(S \ {x}) \in Nat
           /\ Cardinality(S) = Cardinality(S \ {x}) + 1
<1>1. /\ IsFiniteSet(S \ {x})
      /\ Cardinality(S \ {x}) = Cardinality(S) - 1
  BY FS_RemoveElement
<1>2. Cardinality(S) \in Nat
  BY Counts
<1>3. Cardinality(S \ {x}) \in Nat
  BY <1>1, Counts
<1>4. \A a \in Nat, b \in Nat : b = a - 1 => a = b + 1
  OBVIOUS
<1>. QED  BY <1>1, <1>2, <1>3, <1>4

LEMMA PartIsFinite ==
    ASSUME NEW S, IsFiniteSet(S), NEW s \in SUBSET S
    PROVE  /\ IsFiniteSet(s)
           /\ Cardinality(s) \in Nat /\ Cardinality(S) \in Nat
           /\ Cardinality(s) <= Cardinality(S)
<1>1. IsFiniteSet(s) /\ Cardinality(s) <= Cardinality(S)
  BY FS_Subset
<1>2. Cardinality(s) \in Nat
  BY <1>1, Counts
<1>3. Cardinality(S) \in Nat
  BY Counts
<1>. QED  BY <1>1, <1>2, <1>3

\* What holds of the empty set, and of a set when it holds of it without any one of its
\* elements, holds of all subsets of a finite set.
LEMMA Shrink ==
    ASSUME NEW S, IsFiniteSet(S), NEW P, {} \in P,
           \A s \in SUBSET S : s # {} /\ (\A x \in s : s \ {x} \in P) => s \in P
    PROVE  SUBSET S \subseteq P
<1> DEFINE good == {n \in Nat : \A s \in SUBSET S : Cardinality(s) = n => s \in P}
<1>1. 0 \in good
  <2> SUFFICES ASSUME NEW s \in SUBSET S, Cardinality(s) = 0  PROVE s \in P
    OBVIOUS
  <2>1. IsFiniteSet(s)
    BY PartIsFinite
  <2>2. s = {}
    BY <2>1, Counts
  <2>. QED  BY <2>2
<1>2. ASSUME NEW n \in Nat, n \in good  PROVE n + 1 \in good
  <2> SUFFICES ASSUME NEW s \in SUBSET S, Cardinality(s) = n + 1  PROVE s \in P
    OBVIOUS
  <2>1. IsFiniteSet(s)
    BY PartIsFinite
  <2>2. s # {}
    <3>1. n + 1 # 0
      OBVIOUS
    <3>. QED  BY <3>1, FS_EmptySet
  <2>3. ASSUME NEW x \in s  PROVE s \ {x} \in P
    <3>1. Cardinality(s \ {x}) \in Nat /\ n + 1 = Cardinality(s \ {x}) + 1
      BY <2>1, Loses
    <3>2. Cardinality(s \ {x}) = n
      BY <3>1
    <3>. QED  BY <1>2, <3>2
  <2>. QED  BY <2>2, <2>3
<1>3. Nat \subseteq good
  <2>. HIDE DEF good
  <2>. QED  BY <1>1, <1>2, Climb
<1>4. \A s \in SUBSET S : Cardinality(s) \in Nat
  BY PartIsFinite
<1>. QED  BY <1>3, <1>4

-----------------------------------------------------------------------------
(* Sums over finite sets.                                                  *)

\* The element that a fold takes next.
Pick(S) == CHOOSE x \in S : TRUE

LEMMA PickIs == ASSUME NEW S, S # {}  PROVE Pick(S) \in S
BY DEF Pick

\* The sums over the subsets of S, as the fold works them out one from the other.
OneMore(w, S, f) ==
    [s \in SUBSET S |-> IF s = {} THEN 0 ELSE w[Pick(s)] + f[s \ {Pick(s)}]]

Table(w, S) == CHOOSE f : f = OneMore(w, S, f)

LEMMA WeightIsTable ==
    ASSUME NEW w, NEW S
    PROVE  Weight(w, S) = Table(w, S)[S]
BY DEF Weight, Table, OneMore, Pick, MapThenFoldSet

\* There is such a table: the one that its definition leads to from any other in as many
\* steps as S has elements.
LEMMA TableIs ==
    ASSUME NEW S, IsFiniteSet(S), NEW w, \A x \in S : w[x] \in Nat
    PROVE  Table(w, S) = OneMore(w, S, Table(w, S))
<1> DEFINE X == [SUBSET S -> Nat]
           first == [s \in SUBSET S |-> 0]
           step == [n \in Nat |-> [f \in X |-> OneMore(w, S, f)]]
           F == Run(X, first, step)
<1>1. first \in X
  OBVIOUS
<1>2. ASSUME NEW f \in X  PROVE OneMore(w, S, f) \in X
  <2> SUFFICES ASSUME NEW s \in SUBSET S, s # {}
               PROVE  w[Pick(s)] + f[s \ {Pick(s)}] \in Nat
    BY DEF OneMore
  <2>1. Pick(s) \in S
    BY PickIs
  <2>2. w[Pick(s)] \in Nat /\ f[s \ {Pick(s)}] \in Nat
    BY <2>1
  <2>. QED  BY <2>2
<1>3. step \in [Nat -> [X -> X]]
  <2>. HIDE DEF X
  <2>. QED  BY <1>2
<1>4. Runs(F, X, first, step)
  <2>. HIDE DEF X, step, first
  <2>. QED  BY <1>1, <1>3, Recursion
<1>. HIDE DEF F
<1>5. F[0] = first /\ \A n \in Nat : F[n] \in X /\ F[n + 1] = OneMore(w, S, F[n])
  <2>. HIDE DEF X, first
  <2>. QED  BY <1>4 DEF Runs
<1> DEFINE settled == {s \in SUBSET S : \A n \in Nat : Cardinality(s) <= n => F[n + 1][s] = F[n][s]}
<1>6. {} \in settled
  <2>1. \A f : OneMore(w, S, f)[{}] = 0
    BY DEF OneMore
  <2>2. \A n \in Nat : F[n + 1][{}] = 0
    BY <1>5, <2>1
  <2>3. F[0][{}] = 0
    BY <1>5
  <2>4. \A n \in Nat : n = 0 \/ (n - 1 \in Nat /\ (n - 1) + 1 = n)
    OBVIOUS
  <2>5. \A n \in Nat : F[n][{}] = 0
    BY <2>2, <2>3, <2>4
  <2>. QED  BY <2>2, <2>5
<1>7. ASSUME NEW s \in SUBSET S, s # {}, \A x \in s : s \ {x} \in settled  PROVE s \in settled
  <2> SUFFICES ASSUME NEW n \in Nat, Cardinality(s) <= n  PROVE F[n + 1][s] = F[n][s]
    BY <1>7
  <2> DEFINE t == s \ {Pick(s)}
  <2>1. Pick(s) \in s
    BY <1>7, PickIs
  <2>2. IsFiniteSet(s)
    BY PartIsFinite
  <2>3. Cardinality(t) \in Nat /\ Cardinality(s) \in Nat /\ Cardinality(s) = Cardinality(t) + 1
    BY <2>1, <2>2, Loses
  <2>4. n - 1 \in Nat /\ (n - 1) + 1 = n /\ Cardinality(t) <= n - 1
    <3>1. \A a \in Nat, b \in Nat : a = b + 1 /\ a <= n => n - 1 \in Nat /\ (n - 1) + 1 = n /\ b <= n - 1
      OBVIOUS
    <3>. QED  BY <2>3, <3>1
  <2>5. F[n][t] = F[n - 1][t]
    <3>1. t \in settled
      BY <1>7, <2>1
    <3>2. F[(n - 1) + 1][t] = F[n - 1][t]
      BY <2>4, <3>1
    <3>. QED  BY <2>4, <3>2
  <2>6. F[n + 1] = OneMore(w, S, F[n]) /\ F[n] = OneMore(w, S, F[n - 1])
    <3>1. F[(n - 1) + 1] = OneMore(w, S, F[n - 1])
      BY <1>5, <2>4
    <3>. QED  BY <1>5, <2>4, <3>1
  <2>7. \A f : OneMore(w, S, f)[s] = w[Pick(s)] + f[t]
    BY <1>7 DEF OneMore
  <2>. QED  BY <2>5, <2>6, <2>7
<1>8. SUBSET S \subseteq settled
  <2>. HIDE DEF settled
  <2>. QED  BY <1>6, <1>7, Shrink
<1> DEFINE N == Cardinality(S)
<1>9. N \in Nat /\ \A s \in SUBSET S : Cardinality(s) <= N
  BY PartIsFinite, Counts
<1>10. F[N + 1] = F[N]
  <2>1. \A s \in SUBSET S : F[N + 1][s] = F[N][s]
    BY <1>8, <1>9
  <2>2. F[N + 1] \in X /\ F[N] \in X
    <3>1. N + 1 \in Nat
      BY <1>9
    <3>. QED  BY <1>5, <1>9, <3>1
  <2>. QED  BY <2>1, <2>2
<1>11. F[N] = OneMore(w, S, F[N])
  BY <1>5, <1>9, <1>10
<1>. QED  BY <1>11 DEF Table

LEMMA TableReads ==
    ASSUME NEW S, IsFiniteSet(S), NEW w, \A x \in S : w[x] \in Nat, NEW s \in SUBSET S
    PROVE  Table(w, S)[s] = IF s = {} THEN 0 ELSE w[Pick(s)] + Table(w, S)[s \ {Pick(s)}]
<1>1. OneMore(w, S, Table(w, S))[s] = IF s = {} THEN 0 ELSE w[Pick(s)] + Table(w, S)[s \ {Pick(s)}]
  BY DEF OneMore
<1>. QED  BY <1>1, TableIs

\* The sum over a part of S does not depend on the rest, nor on what the rest weighs.
LEMMA TablesAgree ==
    ASSUME NEW S, IsFiniteSet(S), NEW w, \A x \in S : w[x] \in Nat,
           NEW T, IsFiniteSet(T), NEW v, \A x \in T : v[x] \in Nat,
           T \subseteq S, \A x \in T : v[x] = w[x]
    PROVE  \A s \in SUBSET T : Table(v, T)[s] = Table(w, S)[s]
<1> DEFINE P == {s \in SUBSET T : Table(v, T)[s] = Table(w, S)[s]}
<1>1. {} \in P
  BY TableReads
<1>2. ASSUME NEW s \in SUBSET T, s # {}, \A x \in s : s \ {x} \in P  PROVE s \in P
  <2>1. Pick(s) \in s /\ Pick(s) \in T /\ s \in SUBSET S
    BY <1>2, PickIs
  <2>2. Table(v, T)[s] = v[Pick(s)] + Table(v, T)[s \ {Pick(s)}]
    BY <1>2, TableReads
  <2>3. Table(w, S)[s] = w[Pick(s)] + Table(w, S)[s \ {Pick(s)}]
    BY <1>2, <2>1, TableReads
  <2>4. Table(v, T)[s \ {Pick(s)}] = Table(w, S)[s \ {Pick(s)}]
    BY <1>2, <2>1
  <2>. QED  BY <2>1, <2>2, <2>3, <2>4
<1>. HIDE DEF P
<1>3. SUBSET T \subseteq P
  BY <1>1, <1>2, Shrink
<1>. QED  BY <1>3 DEF P

LEMMA WeightAgrees ==
    ASSUME NEW S, IsFiniteSet(S), NEW w, NEW v, \A x \in S : w[x] \in Nat /\ v[x] = w[x]
    PROVE  Weight(v, S) = Weight(w, S)
<1>1. \A x \in S : v[x] \in Nat
  OBVIOUS
<1>2. Table(v, S)[S] = Table(w, S)[S]
  BY <1>1, TablesAgree
<1>. QED  BY <1>2, WeightIsTable

\* Within one finite set, the sums over its parts are what its table holds.
LEMMA WeightOfPart ==
    ASSUME NEW S, IsFiniteSet(S), NEW w, \A x \in S : w[x] \in Nat, NEW s \in SUBSET S
    PROVE  Weight(w, s) = Table(w, S)[s]
<1>1. IsFiniteSet(s) /\ \A x \in s : w[x] \in Nat
  BY PartIsFinite
<1>2. Table(w, s)[s] = Table(w, S)[s]
  BY <1>1, TablesAgree
<1>. QED  BY <1>2, WeightIsTable

\* What holds nothing weighs nothing.
LEMMA WeightEmpty == ASSUME NEW w  PROVE Weight(w, {}) = 0
<1>1. IsFiniteSet({})
  BY FS_EmptySet
<1>2. Table(w, {})[{}] = 0
  BY <1>1, TableReads
<1>. QED  BY <1>2, WeightIsTable

LEMMA WeightType ==
    ASSUME NEW S, IsFiniteSet(S), NEW w, \A x \in S : w[x] \in Nat
    PROVE  Weight(w, S) \in Nat
<1> DEFINE P == {s \in SUBSET S : Table(w, S)[s] \in Nat}
<1>1. {} \in P
  BY TableReads
<1>2. ASSUME NEW s \in SUBSET S, s # {}, \A x \in s : s \ {x} \in P  PROVE s \in P
  <2>1. Pick(s) \in s
    BY <1>2, PickIs
  <2>2. Table(w, S)[s] = w[Pick(s)] + Table(w, S)[s \ {Pick(s)}]
    BY <1>2, TableReads
  <2>3. Table(w, S)[s \ {Pick(s)}] \in Nat /\ w[Pick(s)] \in Nat
    BY <1>2, <2>1
  <2>. QED  BY <2>2, <2>3
<1>. HIDE DEF P
<1>3. SUBSET S \subseteq P
  BY <1>1, <1>2, Shrink
<1>4. S \in P
  BY <1>3
<1>. QED  BY <1>4, WeightIsTable DEF P

\* A set weighs what any one of its elements does and the others do.
LEMMA WeightSplits ==
    ASSUME NEW S, IsFiniteSet(S), NEW w, \A x \in S : w[x] \in Nat, NEW a \in S
    PROVE  Weight(w, S) = w[a] + Weight(w, S \ {a})
<1> DEFINE T == Table(w, S)
           P == {s \in SUBSET S : \A x \in s : T[s] = w[x] + T[s \ {x}]}
<1>0. \A s \in SUBSET S : T[s] \in Nat
  <2> SUFFICES ASSUME NEW s \in SUBSET S  PROVE T[s] \in Nat
    OBVIOUS
  <2>1. IsFiniteSet(s) /\ \A x \in s : w[x] \in Nat
    BY PartIsFinite
  <2>2. Weight(w, s) \in Nat
    BY <2>1, WeightType
  <2>. QED  BY <2>2, WeightOfPart
<1>1. {} \in P
  OBVIOUS
<1>2. ASSUME NEW s \in SUBSET S, s # {}, \A x \in s : s \ {x} \in P  PROVE s \in P
  <2> SUFFICES ASSUME NEW x \in s  PROVE T[s] = w[x] + T[s \ {x}]
    OBVIOUS
  <2> DEFINE p == Pick(s)
  <2>1. p \in s
    BY <1>2, PickIs
  <2>2. T[s] = w[p] + T[s \ {p}]
    BY <1>2, TableReads
  <2>. HIDE DEF p, T
  <2>3. CASE x = p
    BY <2>2, <2>3
  <2>4. CASE x # p
    <3>1. T[s \ {p}] = w[x] + T[(s \ {p}) \ {x}]
      BY <1>2, <2>1, <2>4
    <3>2. T[s \ {x}] = w[p] + T[(s \ {x}) \ {p}]
      BY <1>2, <2>1, <2>4
    <3>3. (s \ {p}) \ {x} = (s \ {x}) \ {p}
      OBVIOUS
    <3> DEFINE R == T[(s \ {x}) \ {p}]
    <3>4. w[x] \in Nat /\ w[p] \in Nat /\ R \in Nat
      BY <1>0, <2>1
    <3>5. T[s \ {p}] = w[x] + R /\ T[s \ {x}] = w[p] + R
      BY <3>1, <3>2, <3>3
    <3>. HIDE DEF R
    <3>6. w[p] + (w[x] + R) = w[x] + (w[p] + R)
      BY <3>4
    <3>. QED  BY <2>2, <3>5, <3>6
  <2>. QED  BY <2>3, <2>4
<1>. HIDE DEF P, T
<1>3. SUBSET S \subseteq P
  BY <1>1, <1>2, Shrink
<1>4. T[S] = w[a] + T[S \ {a}]
  BY <1>3 DEF P
<1>5. Weight(w, S) = T[S] /\ Weight(w, S \ {a}) = T[S \ {a}]
  BY WeightOfPart DEF T
<1>. QED  BY <1>4, <1>5

\* One more element, one more weight.
LEMMA WeightGrows ==
    ASSUME NEW S, IsFiniteSet(S), NEW w, \A x \in S : w[x] \in Nat,
           NEW a, a \notin S, w[a] \in Nat
    PROVE  Weight(w, S \cup {a}) = Weight(w, S) + w[a]
<1> DEFINE T == S \cup {a}
<1>1. IsFiniteSet(T) /\ (\A x \in T : w[x] \in Nat) /\ a \in T /\ T \ {a} = S
  BY FS_AddElement
<1>2. Weight(w, T) = w[a] + Weight(w, S)
  <2>. HIDE DEF T
  <2>. QED  BY <1>1, WeightSplits
<1>3. Weight(w, S) \in Nat
  BY WeightType
<1>4. \A i \in Nat, j \in Nat : i + j = j + i
  OBVIOUS
<1>. QED  BY <1>2, <1>3, <1>4

\* A part weighs no more than the whole.
LEMMA WeightOfPartIsLess ==
    ASSUME NEW S, IsFiniteSet(S), NEW w, \A x \in S : w[x] \in Nat, NEW s \in SUBSET S
    PROVE  Weight(w, s) <= Weight(w, S)
<1> DEFINE P == {d \in SUBSET S : \A u \in SUBSET S : u \cap d = {} => Weight(w, u) <= Weight(w, u \cup d)}
<1>0. \A u \in SUBSET S : /\ IsFiniteSet(u) /\ Weight(w, u) \in Nat
                          /\ \A x \in u : w[x] \in Nat
  BY PartIsFinite, WeightType
<1>1. {} \in P
  <2> SUFFICES ASSUME NEW u \in SUBSET S  PROVE Weight(w, u) <= Weight(w, u \cup {})
    OBVIOUS
  <2>1. u \cup {} = u
    OBVIOUS
  <2>2. \A n \in Nat : n <= n
    OBVIOUS
  <2>. QED  BY <1>0, <2>1, <2>2
<1>2. ASSUME NEW d \in SUBSET S, d # {}, \A x \in d : d \ {x} \in P  PROVE d \in P
  <2> SUFFICES ASSUME NEW u \in SUBSET S, u \cap d = {}
               PROVE  Weight(w, u) <= Weight(w, u \cup d)
    BY <1>2
  <2>1. PICK x \in d : TRUE
    BY <1>2
  <2> DEFINE e == d \ {x}
             c == u \cup e
  <2>2. Weight(w, u) <= Weight(w, c)
    BY <1>2, <2>1
  <2>3. c \in SUBSET S /\ x \notin c /\ u \cup d = c \cup {x} /\ x \in S
    BY <2>1
  <2>. HIDE DEF c, e, P
  <2>4. Weight(w, c \cup {x}) = Weight(w, c) + w[x]
    BY <1>0, <2>3, WeightGrows
  <2>5. \A i \in Nat, j \in Nat, k \in Nat : i <= j => i <= j + k
    OBVIOUS
  <2>. QED  BY <1>0, <2>2, <2>3, <2>4, <2>5
<1>3. SUBSET S \subseteq P
  <2>. HIDE DEF P
  <2>. QED  BY <1>1, <1>2, Shrink
<1>4. S \ s \in P /\ s \cap (S \ s) = {} /\ s \cup (S \ s) = S
  <2>1. S \ s \in P
    <3>. HIDE DEF P
    <3>. QED  BY <1>3
  <2>. QED  BY <2>1
<1>. QED  BY <1>4
=============================================================================
