------------------------------ MODULE MavenProofs ------------------------------
(***************************************************************************)
(* Theorems about Maven.tla, for every registry, jar and bound on ancestry. *)
(***************************************************************************)
EXTENDS Maven, Induction, TLAPS

Steps == {"chain", "jar", "expand", "sum"}

\* What the POMs fetched so far say of the registry: each was looked at, the first
\* is the component's own, and none was fetched only if that one is gone.
ChainInv ==
    /\ chain \in Seq([at : Coords, doc : Poms])
    /\ \A i \in DOMAIN chain : chain[i].at \in seen
    /\ NoPomTwice
    /\ chain # <<>> => pom[component] # None
    /\ pc = "chain" /\ chain = <<>> => coords = component /\ seen = {}
    /\ pomGone => pom[component] = None
    /\ pc \in {"jar", "expand", "sum", "artifact"} => chain # <<>> \/ pomGone

JarInv ==
    /\ JarReleased
    /\ pc \in {"expand", "sum"} => jar # None

Inv ==
    /\ pc \in Steps \cup Outcomes
    /\ component \in Components /\ coords \in Coords
    /\ pom \in [Coords -> Poms \cup {None}] /\ jar \in Jars \cup {None}
    /\ pomGone \in BOOLEAN
    /\ ChainInv
    /\ JarInv
    /\ FailureIsReported
    /\ GoneIsGone

LEMMA InitInv == Init => Inv
  <1> SUFFICES ASSUME Init PROVE Inv
    OBVIOUS
  <1>1. chain \in Seq([at : Coords, doc : Poms]) /\ DOMAIN chain = {}
    BY DEF Init
  <1>2. ChainInv
    BY <1>1 DEF Init, ChainInv, NoPomTwice
  <1>3. coords \in Coords
    BY MavenAssumption DEF Init
  <1> QED
    BY <1>2, <1>3 DEF Init, Inv, Steps, Outcomes, JarInv, JarReleased,
       FailureIsReported, GoneIsGone

\* The POM that is appended is not in the chain: pomChain looked at it just now.
LEMMA PomFoundKeepsChain ==
    Inv /\ PomFound => ChainInv'
  <1> SUFFICES ASSUME Inv, PomFound PROVE ChainInv'
    OBVIOUS
  <1> DEFINE new == [at |-> coords, doc |-> pom[coords]]
  <1>1. /\ chain \in Seq([at : Coords, doc : Poms])
        /\ new \in [at : Coords, doc : Poms]
        /\ chain' = Append(chain, new)
        /\ coords \notin seen
        /\ seen' = seen \cup {coords}
        /\ UNCHANGED <<component, pom, pomGone>>
        /\ pc = "chain" /\ pc' \in {"chain", "jar"}
    BY DEF Inv, ChainInv, PomFound, Asks, Goto, Repeated, registry
  <1>2. /\ chain' \in Seq([at : Coords, doc : Poms])
        /\ chain' # <<>>
        /\ DOMAIN chain' = DOMAIN chain \cup {Len(chain) + 1}
        /\ \A i \in DOMAIN chain : chain'[i] = chain[i]
        /\ chain'[Len(chain) + 1] = new
    <2> HIDE DEF new
    <2> QED BY <1>1
  <1>3. \A i \in DOMAIN chain' : chain'[i].at \in seen'
    BY <1>1, <1>2 DEF Inv, ChainInv
  <1>4. NoPomTwice'
    BY <1>1, <1>2 DEF Inv, ChainInv, NoPomTwice
  <1>5. pom[component] # None
    <2>1. CASE chain = <<>>
      BY <1>1, <2>1 DEF Inv, ChainInv, PomFound
    <2>2. CASE chain # <<>>
      BY <2>2 DEF Inv, ChainInv
    <2> QED BY <2>1, <2>2
  <1> QED BY <1>1, <1>2, <1>3, <1>4, <1>5 DEF Inv, ChainInv

LEMMA NextInv == Inv /\ [Next]_vars => Inv'
  <1> SUFFICES ASSUME Inv, [Next]_vars PROVE Inv'
    OBVIOUS
  <1> USE DEF Inv, Steps, Outcomes, Goto, registry, FailureIsReported, GoneIsGone,
              JarInv, JarReleased
  <1>1. CASE ChainStops
    <2>1. ~(chain = <<>>)
      <3>1. Len(<<>>) # MaxPOMAncestry
        BY MavenAssumption
      <3> QED BY <1>1, <3>1 DEF ChainStops, AtBound, Repeated, ChainInv
    <2> QED BY <1>1, <2>1 DEF ChainStops, ChainInv, NoPomTwice
  <1>2. CASE ComponentUnnameable
    BY <1>2 DEF ComponentUnnameable, Asks, ChainInv, NoPomTwice
  <1>3. CASE AncestorUnnameable
    BY <1>3 DEF AncestorUnnameable, Asks, ChainInv, NoPomTwice
  <1>4. CASE PomFound
    <2>1. ChainInv'
      BY <1>4, PomFoundKeepsChain
    <2>2. coords' \in Coords /\ pc' \in {"chain", "jar"}
      <3>1. pom[coords] \in Poms
        BY <1>4 DEF PomFound
      <3>2. pom[coords].parent # None => pom[coords].parent \in Coords
        BY <3>1, MavenAssumption
      <3> QED BY <1>4, <3>2 DEF PomFound, Asks, IsLast, ParentCoords
    <2> QED BY <1>4, <2>1, <2>2 DEF PomFound, Asks
  <1>5. CASE PomGone
    BY <1>5 DEF PomGone, Asks, ChainInv, NoPomTwice
  <1>6. CASE PomFails
    BY <1>6 DEF PomFails, Asks, FailureOfPom, ChainInv, NoPomTwice
  <1>7. CASE JarGone
    BY <1>7 DEF JarGone, JarMissing, ChainInv, NoPomTwice
  <1>8. CASE JarFails
    BY <1>8 DEF JarFails, ChainInv, NoPomTwice
  <1>9. CASE JarFetched
    BY <1>9 DEF JarFetched, ChainInv, NoPomTwice
  <1>10. CASE Expand
    BY <1>10 DEF Expand, StagedAfterReturn, ChainInv, NoPomTwice
  <1>11. CASE Checksum
    BY <1>11 DEF Checksum, StagedAfterReturn, ChainInv, NoPomTwice
  <1>12. CASE UNCHANGED vars
    BY <1>12 DEF vars, ChainInv, NoPomTwice
  <1> QED BY <1>1, <1>2, <1>4, <1>5, <1>6, <1>7, <1>8, <1>9, <1>10, <1>11, <1>12, <1>3
          DEF Next

LEMMA Invariance == Spec => []Inv
  BY InitInv, NextInv, PTL DEF Spec

\* A POM or jar request that failed for now, an ancestor's POM included, ends in
\* an error: a component is never resolved as declaring nothing, or as having no
\* jar, because a request failed (pomChain, jarContent).
THEOREM FailureReachesTheCaller == Spec => []FailureIsReported
  <1>1. Inv => FailureIsReported
    BY DEF Inv
  <1> QED BY <1>1, Invariance, PTL

\* A component is given up as gone only if the registry has neither its POM nor
\* its jar, and resolved only if it has one of them (Fetch).
THEOREM GoneMeansNeither == Spec => []GoneIsGone
  <1>1. Inv => GoneIsGone
    BY DEF Inv
  <1> QED BY <1>1, Invariance, PTL

\* A chain of parents that comes back to itself is followed once (pomChain).
THEOREM CyclesAreCut == Spec => []NoPomTwice
  <1>1. Inv => NoPomTwice
    BY DEF Inv, ChainInv
  <1> QED BY <1>1, Invariance, PTL

\* Whatever way jarContent returns, the staged jar is gone.
THEOREM JarIsReleased == Spec => []JarReleased
  <1>1. Inv => JarReleased
    BY DEF Inv, JarInv
  <1> QED BY <1>1, Invariance, PTL

\* However requests fail or find nothing, a resolution ends as what they found
\* says, and keeps nothing on disk (Fetch, pomChain, jarContent).
THEOREM ResolutionEndsForCause == Spec => []EndsForCause
  <1>1. Inv => EndsForCause
    BY DEF Inv, JarInv, EndsForCause
  <1> QED BY <1>1, Invariance, PTL

-----------------------------------------------------------------------------

LEMMA WrittenIs ==
  ASSUME chain \in Seq([at : Coords, doc : Poms]), NEW shipped \in [Depths -> Poms \cup {None}]
  PROVE  Written(shipped) \in [Depths -> Poms \cup {None}]
  <1>1. \A d \in Depths : d < Len(chain) => chain[d + 1].doc \in Poms
    <2>1. \A i \in 1..Len(chain) : chain[i].doc \in Poms
      <3>1. \A R : chain \in Seq(R) => \A i \in 1..Len(chain) : chain[i] \in R
        OBVIOUS
      <3>2. \A x \in [at : Coords, doc : Poms] : x.doc \in Poms
        OBVIOUS
      <3> QED BY <3>1, <3>2
    <2>2. Len(chain) \in Nat /\ \A d \in Depths : d \in Nat
      BY DEF Depths
    <2>3. \A d \in Depths : d < Len(chain) => d + 1 \in 1..Len(chain)
      BY <2>2
    <2> QED BY <2>1, <2>3
  <1> QED BY <1>1 DEF Written

LEMMA TypesKept ==
  ASSUME TypeOK, JarInv, Next
  PROVE  TypeOK'
  <1> USE MavenAssumption DEF TypeOK, Outcomes, Goto, registry, StagedAfterReturn
  <1>1. CASE ChainStops
    BY <1>1 DEF ChainStops
  <1>2. CASE ComponentUnnameable \/ AncestorUnnameable \/ PomGone \/ PomFails
    BY <1>2 DEF ComponentUnnameable, AncestorUnnameable, PomGone, PomFails, Asks, FailureOfPom
  <1>3. CASE PomFound
    <2> DEFINE new == [at |-> coords, doc |-> pom[coords]]
    <2>1. new \in [at : Coords, doc : Poms] /\ chain' = Append(chain, new)
      BY <1>3 DEF PomFound
    <2>2. Len(chain) # MaxPOMAncestry
      BY <1>3 DEF PomFound, Asks, AtBound
    <2>3. chain' \in Seq([at : Coords, doc : Poms]) /\ Len(chain') = Len(chain) + 1
      <3> HIDE DEF new
      <3> QED BY <2>1
    <2>4. Len(chain') <= MaxPOMAncestry
      BY <2>2, <2>3
    <2>5. coords' \in Coords
      <3>1. pom[coords].parent # None => pom[coords].parent \in Coords
        BY <2>1
      <3> QED BY <1>3, <3>1 DEF PomFound, IsLast, ParentCoords
    <2> QED BY <1>3, <2>3, <2>4, <2>5 DEF PomFound, Asks
  <1>4. CASE JarGone
    <2>1. Nothing \in [Depths -> Poms \cup {None}]
      BY DEF Nothing
    <2>2. result' \in [Depths -> Poms \cup {None}]
      BY <1>4, <2>1, WrittenIs DEF JarGone
    <2> QED BY <1>4, <2>2 DEF JarGone, JarMissing
  <1>5. CASE JarFails \/ JarFetched
    BY <1>5 DEF JarFails, JarFetched
  <1>6. CASE Expand
    BY <1>6 DEF Expand
  <1>7. CASE Checksum
    <2>1. jar \in Jars
      BY <1>7 DEF Checksum, JarInv
    <2>2. result' \in [Depths -> Poms \cup {None}]
      BY <1>7, <2>1, WrittenIs DEF Checksum
    <2> QED BY <1>7, <2>2 DEF Checksum
  <1> QED BY <1>1, <1>2, <1>3, <1>4, <1>5, <1>6, <1>7 DEF Next

LEMMA TypeAtStart ==
  ASSUME Init
  PROVE  TypeOK
  <1>1. chain \in Seq([at : Coords, doc : Poms]) /\ Len(chain) = 0
    BY DEF Init
  <1>2. result \in [Depths -> Poms \cup {None}]
    BY DEF Init
  <1>3. Len(chain) <= MaxPOMAncestry
    BY <1>1, MavenAssumption
  <1>4. component \in Components /\ coords \in Coords
    BY MavenAssumption DEF Init
  <1> QED BY <1>1, <1>2, <1>3, <1>4 DEF Init, TypeOK

\* The state of a resolution has its types, its chain never longer than
\* maxPOMAncestry (TypeOK).
THEOREM TypeCorrect == Spec => []TypeOK
  <1>1. Init => TypeOK
    BY TypeAtStart
  <1>2. Inv /\ TypeOK /\ [Next]_vars => TypeOK'
    <2>1. TypeOK /\ UNCHANGED vars => TypeOK'
      BY DEF TypeOK, vars, registry
    <2> QED BY <2>1, TypesKept DEF Inv
  <1> QED BY <1>1, <1>2, Invariance, PTL DEF Spec
-----------------------------------------------------------------------------
(* What the chain that pomChain followed is of the registry's.             *)

\* The coordinates after c on the way up.
Up(c) == IF c = None \/ pom[c] = None \/ ~pom[c].parses THEN None ELSE pom[c].parent

Places == Coords \cup {None}

LEMMA UpIs ==
  ASSUME TypeOK, NEW c \in Places
  PROVE  Up(c) \in Places
  <1>1. CASE Up(c) = None
    BY <1>1 DEF Places
  <1>2. CASE Up(c) # None
    <2>1. c \in Coords /\ pom[c] # None
      BY <1>2 DEF Up, Places
    <2>2. pom[c] \in Poms
      BY <2>1 DEF TypeOK
    <2>3. pom[c].parent \in Places
      BY <2>2, MavenAssumption DEF Places
    <2> QED BY <1>2, <2>3 DEF Up
  <1> QED BY <1>1, <1>2

\* Ancestor is what its definition says, at every depth.
LEMMA AncestorIs ==
  ASSUME TypeOK
  PROVE  /\ Ancestor \in [Nat -> Places]
         /\ Ancestor[0] = component
         /\ \A d \in Nat : Ancestor[d + 1] = Up(Ancestor[d])
  <1> DEFINE next(f) == [d \in Nat |-> IF d = 0 THEN component ELSE Up(f[d - 1])]
             step == [n \in Nat |-> [c \in Places |-> Up(c)]]
  <1>1. component \in Places
    BY MavenAssumption DEF TypeOK, Places
  <1>2. step \in [Nat -> [Places -> Places]]
    BY UpIs
  <1> DEFINE f == Run(Places, component, step)
  <1>3. f \in [Nat -> Places] /\ f[0] = component /\ \A n \in Nat : f[n + 1] = step[n][f[n]]
    <2> HIDE DEF step
    <2> QED BY <1>1, <1>2, Recursion DEF Runs
  <1> HIDE DEF f
  <1>4. \A n \in Nat : f[n + 1] = Up(f[n])
    BY <1>3
  <1>5. f = next(f)
    <2>1. \A d \in Nat : d # 0 => f[d] = Up(f[d - 1])
      <3>1. \A d \in Nat : d # 0 => d - 1 \in Nat /\ (d - 1) + 1 = d
        OBVIOUS
      <3> QED BY <1>4, <3>1
    <2>2. \A d \in Nat : f[d] = next(f)[d]
      BY <1>3, <2>1
    <2> QED BY <1>3, <2>2
  <1>6. Ancestor = next(Ancestor)
    BY <1>5 DEF Ancestor, Up
  <1>7. Ancestor[0] = component
    BY <1>6
  <1>8. \A d \in Nat : Ancestor[d + 1] = Up(Ancestor[d])
    <2> SUFFICES ASSUME NEW d \in Nat PROVE Ancestor[d + 1] = Up(Ancestor[d])
      OBVIOUS
    <2>1. d + 1 \in Nat /\ d + 1 # 0 /\ (d + 1) - 1 = d
      OBVIOUS
    <2>2. next(Ancestor)[d + 1] = Up(Ancestor[(d + 1) - 1])
      BY <2>1
    <2> QED BY <1>6, <2>1, <2>2
  <1>9. \A d \in Nat : Ancestor[d] \in Places
    <2> DEFINE typed == {d \in Nat : Ancestor[d] \in Places}
    <2>1. 0 \in typed
      BY <1>1, <1>7
    <2>2. \A d \in Nat : d \in typed => d + 1 \in typed
      BY <1>8, UpIs
    <2>3. Nat \subseteq typed
      <3> HIDE DEF typed
      <3> QED BY <2>1, <2>2, Climb
    <2> QED BY <2>3
  <1> QED
    <2>1. Ancestor = [d \in Nat |-> Ancestor[d]]
      BY <1>6
    <2> QED BY <1>7, <1>8, <1>9, <2>1

\* The way up that leaves a set of places never is one that never leaves it.
LEMMA ClosedHoldsAll ==
  ASSUME TypeOK, NEW S, component \in S, \A c \in S : Up(c) \in S
  PROVE  \A d \in Nat : Ancestor[d] \in S
  <1> DEFINE held == {d \in Nat : Ancestor[d] \in S}
  <1>1. 0 \in held
    BY AncestorIs
  <1>2. \A d \in Nat : d \in held => d + 1 \in held
    BY AncestorIs
  <1>3. Nat \subseteq held
    <2> HIDE DEF held
    <2> QED BY <1>1, <1>2, Climb
  <1> QED BY <1>3

\* Above coordinates that lead nowhere there is nothing.
LEMMA NothingAbove ==
  ASSUME TypeOK, NEW n \in Nat, Ancestor[n] = None
  PROVE  \A d \in Nat : d >= n => Ancestor[d] = None
  <1> DEFINE none == {d \in Nat : Ancestor[n + d] = None}
  <1>1. 0 \in none
    OBVIOUS
  <1>2. \A d \in Nat : d \in none => d + 1 \in none
    <2>1. \A d \in Nat : n + d \in Nat /\ n + (d + 1) = (n + d) + 1
      OBVIOUS
    <2> QED BY <2>1, AncestorIs DEF Up
  <1>3. Nat \subseteq none
    <2> HIDE DEF none
    <2> QED BY <1>1, <1>2, Climb
  <1>4. \A d \in Nat : d >= n => d - n \in Nat /\ n + (d - n) = d
    OBVIOUS
  <1> QED BY <1>3, <1>4

\* No POM above the chain declares a license, if the last one of the chain does not.
Settled ==
  \/ chain # <<>> /\ chain[Len(chain)].doc.parses /\ DeclaresLicense(chain[Len(chain)].doc)
  \/ \A d \in Declaring : d < Len(chain)

\* The chain is the way up from the component, each POM but the last naming a parent
\* and no license, and it stops where no license is to come.
PathInv ==
  /\ \A i \in 1..Len(chain) : /\ chain[i].at = Ancestor[i - 1]
                              /\ chain[i].doc = pom[chain[i].at]
                              /\ i < Len(chain) => ~IsLast(chain[i].doc)
  /\ pc = "chain" => /\ \A i \in 1..Len(chain) : ~IsLast(chain[i].doc)
                     /\ coords = Ancestor[Len(chain)]
                     /\ \A c \in seen : \E i \in 1..Len(chain) : c = chain[i].at
  /\ pc \in {"jar", "expand", "sum", "artifact"} => Settled
  /\ pc = "artifact" => result = Written(IF jar = None THEN Nothing ELSE jar.ships)

LEMMA ChainIs ==
  ASSUME TypeOK
  PROVE  /\ Len(chain) \in Nat
         /\ \A i \in 1..Len(chain) : chain[i].at \in Coords /\ chain[i].doc \in Poms
  <1>1. \A R : chain \in Seq(R) => Len(chain) \in Nat /\ \A i \in 1..Len(chain) : chain[i] \in R
    OBVIOUS
  <1>2. \A x \in [at : Coords, doc : Poms] : x.at \in Coords /\ x.doc \in Poms
    OBVIOUS
  <1> QED BY <1>1, <1>2 DEF TypeOK

\* If a POM above the chain is missing, those above it are too.
LEMMA MissingSettles ==
  ASSUME TypeOK, NEW n \in Nat, Ancestor[n] = None \/ pom[Ancestor[n]] = None
  PROVE  \A d \in Declaring : d < n
  <1> SUFFICES ASSUME NEW d \in Declaring, d >= n PROVE FALSE
    <2>1. \A d \in Declaring : d \in Nat /\ (d < n \/ d >= n)
      BY DEF Declaring, Depths
    <2> QED BY <2>1
  <1>1. d \in Nat /\ Ancestor[d] # None /\ pom[Ancestor[d]] # None
    BY DEF Declaring, Depths, Document
  <1>2. Ancestor[n] # None
    BY <1>1, NothingAbove
  <1>3. d # n
    BY <1>1, <1>2
  <1>4. n + 1 \in Nat /\ Ancestor[n + 1] = None
    BY <1>2, AncestorIs DEF Up
  <1>5. d >= n + 1
    BY <1>1, <1>3
  <1> QED BY <1>1, <1>4, <1>5, NothingAbove

\* A chain that comes back to itself goes nowhere else: what it has not declared
\* when it does, nothing on the way up declares.
LEMMA CycleSettles ==
  ASSUME TypeOK, PathInv, pc = "chain", coords \in seen
  PROVE  Declaring = {}
  <1> DEFINE S == {chain[i].at : i \in 1..Len(chain)}
  <1>0. Len(chain) \in Nat /\ \A i \in 1..Len(chain) : chain[i].at \in Coords /\ chain[i].doc \in Poms
    BY ChainIs
  <1>1. PICK k \in 1..Len(chain) : coords = chain[k].at
    BY DEF PathInv
  <1>2. component \in S
    <2>1. 1 \in 1..Len(chain) /\ 1 - 1 = 0
      BY <1>0
    <2>2. chain[1].at = Ancestor[0]
      BY <2>1 DEF PathInv
    <2> QED BY <2>1, <2>2, AncestorIs
  <1>3. \A c \in S : Up(c) \in S
    <2> SUFFICES ASSUME NEW i \in 1..Len(chain) PROVE Up(chain[i].at) \in S
      OBVIOUS
    <2>1. i \in Nat /\ i - 1 \in Nat /\ (i - 1) + 1 = i /\ (i + 1) - 1 = i
      BY <1>0
    <2>2. Up(chain[i].at) = Ancestor[i]
      BY <2>1, AncestorIs DEF PathInv
    <2>3. CASE i = Len(chain)
      BY <1>1, <2>2, <2>3 DEF PathInv
    <2>4. CASE i # Len(chain)
      <3>1. i + 1 \in 1..Len(chain)
        BY <1>0, <2>4
      <3>2. chain[i + 1].at = Ancestor[i]
        BY <2>1, <3>1 DEF PathInv
      <3> QED BY <2>2, <3>1, <3>2
    <2> QED BY <2>3, <2>4
  <1>4. \A d \in Nat : Ancestor[d] \in S
    <2> HIDE DEF S
    <2> QED BY <1>2, <1>3, ClosedHoldsAll
  <1>5. \A i \in 1..Len(chain) : pom[chain[i].at].license = Unlicensed
    BY DEF PathInv, IsLast, DeclaresLicense
  <1>6. \A c \in S : pom[c].license = Unlicensed
    BY <1>5
  <1> QED BY <1>4, <1>6 DEF Declaring, Depths, Document

\* The POM that is found goes on the chain as the next one up.
LEMMA FoundKeepsPath ==
  ASSUME TypeOK, PathInv, PomFound
  PROVE  PathInv'
  <1> DEFINE doc == pom[coords]
             new == [at |-> coords, doc |-> doc]
             n == Len(chain)
  <1>1. /\ pc = "chain" /\ doc # None /\ coords \in Coords /\ doc \in Poms
        /\ chain' = Append(chain, new) /\ seen' = seen \cup {coords}
        /\ IF IsLast(doc) THEN pc' = "jar" ELSE coords' = doc.parent /\ pc' = "chain"
        /\ UNCHANGED <<component, pom, jar>>
    BY DEF PomFound, Asks, Goto, ParentCoords, registry, TypeOK
  <1>2. /\ n \in Nat /\ Len(chain') = n + 1
        /\ \A i \in 1..n : chain'[i] = chain[i]
        /\ chain'[n + 1] = new
    <2>1. \A R, x : chain \in Seq(R) => /\ Len(chain) \in Nat
                                        /\ Len(Append(chain, x)) = Len(chain) + 1
                                        /\ \A i \in 1..Len(chain) : Append(chain, x)[i] = chain[i]
                                        /\ Append(chain, x)[Len(chain) + 1] = x
      OBVIOUS
    <2> HIDE DEF new
    <2> QED BY <1>1, <2>1 DEF TypeOK
  <1>3. new.at = coords /\ new.doc = doc
    OBVIOUS
  <1>4. Ancestor' = Ancestor /\ Declaring' = Declaring
    BY <1>1 DEF Ancestor, Declaring, Document
  <1> HIDE DEF new, doc
  <1>5. coords = Ancestor[n]
    BY <1>1 DEF PathInv
  <1>6. ASSUME NEW i \in 1..(n + 1)
        PROVE  /\ chain'[i].at = Ancestor[i - 1]
               /\ chain'[i].doc = pom[chain'[i].at]
               /\ i < n + 1 => ~IsLast(chain'[i].doc) /\ i \in 1..n /\ chain'[i] = chain[i]
    <2>1. CASE i = n + 1
      <3>1. i - 1 = n
        BY <1>2, <2>1
      <3> QED BY <1>2, <1>3, <1>5, <2>1, <3>1 DEF doc
    <2>2. CASE i # n + 1
      <3>1. i \in 1..n
        BY <1>2, <2>2
      <3> QED BY <1>1, <1>2, <3>1 DEF PathInv
    <2> QED BY <2>1, <2>2
  <1>7. IsLast(doc) => Settled'
    <2>1. CASE doc.parses /\ DeclaresLicense(doc)
      <3>1. chain' # <<>>
        BY <1>2
      <3> QED BY <1>2, <1>3, <2>1, <3>1 DEF Settled, DeclaresLicense
    <2>2. CASE ~(doc.parses /\ DeclaresLicense(doc)) /\ IsLast(doc)
      <3>1. ~doc.parses \/ doc.parent = None
        BY <2>2 DEF IsLast, ParentCoords
      <3>2. Ancestor[n + 1] = None
        BY <1>1, <1>2, <1>5, <3>1, AncestorIs DEF Up, doc
      <3>3. n + 1 \in Nat
        BY <1>2
      <3>4. \A d \in Declaring : d < n + 1
        BY <3>2, <3>3, MissingSettles
      <3> QED BY <1>2, <1>4, <3>4 DEF Settled
    <2> QED BY <2>1, <2>2
  <1>8. ~IsLast(doc) => coords' = Ancestor[n + 1]
    <2> SUFFICES ASSUME ~IsLast(doc) PROVE coords' = Ancestor[n + 1]
      OBVIOUS
    <2>1. doc.parses /\ coords' = doc.parent /\ coords # None
      BY <1>1, MavenAssumption DEF IsLast
    <2>2. Up(coords) = doc.parent
      BY <1>1, <2>1 DEF Up, doc
    <2> QED BY <1>2, <1>5, <2>1, <2>2, AncestorIs
  <1>9. pc' = "chain" => \A i \in 1..(n + 1) : ~IsLast(chain'[i].doc)
    BY <1>1, <1>2, <1>3, <1>6
  <1>10. pc' = "chain" => \A c \in seen' : \E i \in 1..(n + 1) : c = chain'[i].at
    <2> SUFFICES ASSUME NEW c \in seen' PROVE \E i \in 1..(n + 1) : c = chain'[i].at
      OBVIOUS
    <2>1. CASE c = coords
      <3>1. n + 1 \in 1..(n + 1)
        BY <1>2
      <3> QED BY <1>2, <1>3, <2>1, <3>1
    <2>2. CASE c \in seen
      <3>1. PICK i \in 1..n : c = chain[i].at
        BY <1>1, <2>2 DEF PathInv
      <3>2. i \in 1..(n + 1)
        BY <1>2
      <3> QED BY <1>2, <3>1, <3>2
    <2> QED BY <1>1, <2>1, <2>2
  <1>11. pc' \in {"chain", "jar"} /\ (pc' = "jar" => IsLast(doc)) /\ (pc' = "chain" => ~IsLast(doc))
    BY <1>1
  <1>12. \A i \in 1..Len(chain') : /\ chain'[i].at = Ancestor'[i - 1]
                                   /\ chain'[i].doc = pom'[chain'[i].at]
                                   /\ i < Len(chain') => ~IsLast(chain'[i].doc)
    BY <1>1, <1>2, <1>4, <1>6
  <1> QED BY <1>2, <1>4, <1>7, <1>8, <1>9, <1>10, <1>11, <1>12 DEF PathInv, IsLast, DeclaresLicense, ParentCoords

\* What stops the chain before the bound leaves no license further up.
LEMMA StopsSettle ==
  ASSUME TypeOK, PathInv, ChainStops \/ AncestorUnnameable \/ PomGone,
         \A c \in Unnameable : pom[c] = None
  PROVE  Settled
  <1>1. pc = "chain" /\ coords = Ancestor[Len(chain)] /\ Len(chain) \in Nat
    BY ChainIs DEF ChainStops, AncestorUnnameable, PomGone, Asks, PathInv
  <1>2. CASE AtBound
    BY <1>1, <1>2, MavenAssumption DEF AtBound, Settled, Declaring, Depths
  <1>3. CASE Repeated
    BY <1>1, <1>3, CycleSettles DEF Repeated, Settled
  <1>4. CASE AncestorUnnameable \/ PomGone
    <2>1. pom[coords] = None
      BY <1>4 DEF AncestorUnnameable, PomGone, Nameable
    <2>2. \A d \in Declaring : d < Len(chain)
      BY <1>1, <2>1, MissingSettles
    <2> QED BY <2>2 DEF Settled
  <1> QED BY <1>2, <1>3, <1>4 DEF ChainStops

LEMMA PathKept ==
  ASSUME TypeOK, JarInv, PathInv, \A c \in Unnameable : pom[c] = None, [Next]_vars
  PROVE  PathInv'
  <1>0. ASSUME UNCHANGED <<component, pom>>, UNCHANGED chain
        PROVE  Ancestor' = Ancestor /\ Declaring' = Declaring /\ Settled' = Settled
    BY <1>0 DEF Ancestor, Declaring, Document, Settled, DeclaresLicense
  <1>1. CASE ChainStops \/ AncestorUnnameable \/ PomGone
    <2>1. Settled
      BY <1>1, StopsSettle
    <2>2. UNCHANGED <<component, pom, chain>> /\ pc' = "jar"
      BY <1>1 DEF ChainStops, AncestorUnnameable, PomGone, Asks, Goto, registry
    <2> QED BY <1>0, <2>1, <2>2 DEF PathInv, IsLast, DeclaresLicense, ParentCoords
  <1>2. CASE PomFound
    BY <1>2, FoundKeepsPath
  <1>3. CASE ComponentUnnameable \/ PomFails \/ JarFails
    <2>1. UNCHANGED <<component, pom, chain>> /\ pc' = "error"
      BY <1>3 DEF ComponentUnnameable, PomFails, JarFails, Asks, Goto, registry, FailureOfPom
    <2> QED BY <1>0, <2>1 DEF PathInv, IsLast, DeclaresLicense, ParentCoords
  <1>4. CASE JarFetched \/ Expand
    <2>1. UNCHANGED <<component, pom, chain>> /\ pc \in {"jar", "expand"}
          /\ pc' \in {"expand", "sum", "error"}
      BY <1>4 DEF JarFetched, Expand, Goto, registry
    <2> QED BY <1>0, <2>1 DEF PathInv, IsLast, DeclaresLicense, ParentCoords
  <1>5. CASE JarGone
    <2>1. UNCHANGED <<component, pom, jar, chain>> /\ pc = "jar" /\ pc' \in {"gone", "artifact"}
          /\ jar = None /\ (pc' = "artifact" => result' = Written(Nothing))
      BY <1>5 DEF JarGone, JarMissing, Goto, registry
    <2>2. Written(Nothing)' = Written(Nothing)
      BY <2>1 DEF Written, Nothing
    <2> QED BY <1>0, <2>1, <2>2 DEF PathInv, IsLast, DeclaresLicense, ParentCoords, Written, Nothing
  <1>6. CASE Checksum
    <2>1. UNCHANGED <<component, pom, jar, chain>> /\ pc = "sum" /\ pc' = "artifact"
          /\ result' = Written(jar.ships) /\ jar # None
      BY <1>6 DEF Checksum, Goto, registry, JarInv
    <2> QED BY <1>0, <2>1 DEF PathInv, IsLast, DeclaresLicense, ParentCoords, Written, Nothing
  <1>7. CASE UNCHANGED vars
    BY <1>0, <1>7 DEF vars, registry, PathInv, IsLast, DeclaresLicense, ParentCoords, Written, Nothing
  <1> QED BY <1>1, <1>2, <1>3, <1>4, <1>5, <1>6, <1>7 DEF Next

\* The first of a set of depths is the one that comes before the others.
LEMMA NearestIs ==
  ASSUME NEW S \in SUBSET Depths, NEW m \in S, \A d \in S : m <= d
  PROVE  (CHOOSE d \in S : \A e \in S : d <= e) = m
  <1> DEFINE c == CHOOSE d \in S : \A e \in S : d <= e
  <1>1. c \in S /\ \A e \in S : c <= e
    OBVIOUS
  <1>2. Depths \subseteq Nat
    BY MavenAssumption DEF Depths
  <1>3. c \in Nat /\ m \in Nat /\ c <= m /\ m <= c
    BY <1>1, <1>2
  <1> QED BY <1>3

\* In an artifact, the POM files declare what the documents they were made of do, and
\* only those of the chain declare anything.
LEMMA FilesDeclare ==
  ASSUME TypeOK, Inv, PathInv, pc = "artifact", Document(0) # None, ShipsNoAncestor,
         NoneTooLarge, NEW d \in Depths
  PROVE  /\ PomLicense(result[d]) # Unlicensed <=> d \in Declaring /\ d < Len(chain)
         /\ PomLicense(result[d]) # Unlicensed => PomLicense(result[d]) = Document(d).license
         /\ Len(chain) # 0
  <1>0. /\ Len(chain) \in Nat
        /\ \A i \in 1..Len(chain) : chain[i].at \in Coords /\ chain[i].doc \in Poms
        /\ d \in Nat /\ d >= 0
    BY ChainIs DEF Depths
  <1>1. Len(chain) # 0
    <2>1. pom[component] # None
      BY AncestorIs DEF Document
    <2>2. chain # <<>>
      BY <2>1 DEF Inv, ChainInv
    <2>3. \A R : chain \in Seq(R) /\ chain # <<>> => Len(chain) # 0
      OBVIOUS
    <2> QED BY <2>2, <2>3 DEF TypeOK
  <1>2. result = Written(IF jar = None THEN Nothing ELSE jar.ships)
    BY DEF PathInv
  <1>3. CASE d < Len(chain)
    <2>1. d + 1 \in 1..Len(chain) /\ (d + 1) - 1 = d
      BY <1>0, <1>3
    <2>2. /\ result[d] = chain[d + 1].doc
          /\ chain[d + 1].at = Ancestor[d]
          /\ chain[d + 1].doc = pom[Ancestor[d]]
      BY <1>2, <1>3, <2>1 DEF Written, PathInv
    <2>3. /\ Ancestor[d] # None
          /\ result[d] = Document(d) /\ result[d] # None
          /\ ~result[d].large
      <3>1. chain[d + 1].at \in Coords /\ chain[d + 1].doc \in Poms
        BY <1>0, <2>1
      <3>2. \A R : chain \in Seq(R) => DOMAIN chain = 1..Len(chain)
        OBVIOUS
      <3>3. ~chain[d + 1].doc.large
        BY <2>1, <3>2 DEF NoneTooLarge, TypeOK
      <3> QED BY <2>2, <3>1, <3>3, MavenAssumption DEF Document
    <2> QED BY <1>1, <1>3, <2>3 DEF PomLicense, Declaring
  <1>4. CASE ~(d < Len(chain))
    <2>1. d # 0
      BY <1>0, <1>1, <1>4
    <2>2. result[d] = IF jar = None THEN None ELSE jar.ships[d]
      BY <1>2, <1>4 DEF Written, Nothing
    <2>3. result[d] = None
      BY <2>1, <2>2 DEF ShipsNoAncestor
    <2> QED BY <1>1, <1>4, <2>3 DEF PomLicense
  <1> QED BY <1>3, <1>4

LEMMA PathDecides ==
  ASSUME TypeOK, Inv, PathInv
  PROVE  NearestDeclares
  <1> SUFFICES ASSUME pc = "artifact", Document(0) # None, ShipsNoAncestor, NoneTooLarge
               PROVE  DeclaredMaven =
                        IF Declaring = {} THEN Unlicensed
                        ELSE Document(CHOOSE d \in Declaring : \A e \in Declaring : d <= e).license
    BY DEF NearestDeclares
  <1> DEFINE declaring == {d \in Depths : PomLicense(result[d]) # Unlicensed}
             nearest == CHOOSE d \in Declaring : \A e \in Declaring : d <= e
             first == CHOOSE d \in declaring : \A e \in declaring : d <= e
  <1>0. Len(chain) \in Nat /\ Declaring \subseteq Depths /\ Depths \subseteq Nat
    BY ChainIs DEF Declaring, Depths
  <1>1. declaring = {d \in Declaring : d < Len(chain)}
    BY <1>0, FilesDeclare
  <1>2. \A d \in declaring : PomLicense(result[d]) = Document(d).license
    BY FilesDeclare
  <1>3. Settled
    BY DEF PathInv
  <1>4. Declaring # {} => declaring # {}
    <2>1. CASE \A d \in Declaring : d < Len(chain)
      BY <1>1, <2>1
    <2>2. CASE /\ chain # <<>>
               /\ chain[Len(chain)].doc.parses /\ DeclaresLicense(chain[Len(chain)].doc)
      <3> DEFINE d == Len(chain) - 1
      <3>1. Len(chain) # 0
        <4>1. \A R : chain \in Seq(R) /\ chain # <<>> => Len(chain) # 0
          OBVIOUS
        <4> QED BY <2>2, <4>1 DEF TypeOK
      <3>2. d \in Depths /\ d + 1 = Len(chain) /\ d + 1 \in 1..Len(chain) /\ d < Len(chain)
            /\ Len(chain) - 1 = d
        BY <1>0, <3>1, MavenAssumption DEF Depths, TypeOK
      <3>3. /\ chain[Len(chain)].at = Ancestor[d] /\ Ancestor[d] \in Coords
            /\ chain[Len(chain)].doc = pom[Ancestor[d]] /\ pom[Ancestor[d]] \in Poms
        BY <3>2, ChainIs DEF PathInv
      <3>4. d \in Declaring
        BY <2>2, <3>2, <3>3, MavenAssumption DEF Declaring, Document, DeclaresLicense
      <3> QED BY <1>1, <3>2, <3>4
    <2> QED BY <1>3, <2>1, <2>2 DEF Settled
  <1> HIDE DEF declaring
  <1>5. CASE declaring = {}
    BY <1>1, <1>4, <1>5 DEF DeclaredMaven, declaring
  <1>6. CASE declaring # {}
    <2>1. declaring \in SUBSET Depths /\ declaring \in SUBSET Nat
      BY <1>0, <1>1
    <2>2. PICK m \in declaring : \A d \in declaring : m <= d
      BY <1>6, <2>1, Least
    <2>3. m \in Declaring /\ m < Len(chain)
      BY <1>1
    <2>4. \A d \in Declaring : m <= d
      <3> SUFFICES ASSUME NEW d \in Declaring PROVE m <= d
        OBVIOUS
      <3>1. m \in Nat /\ d \in Nat
        BY <1>0, <2>3
      <3>2. CASE d < Len(chain)
        BY <1>1, <2>2, <3>2
      <3>3. CASE ~(d < Len(chain))
        BY <1>0, <2>3, <3>1, <3>3
      <3> QED BY <3>2, <3>3
    <2>5. first = m
      BY <2>1, <2>2, NearestIs
    <2>6. nearest = m
      BY <1>0, <2>3, <2>4, NearestIs
    <2>7. DeclaredMaven = PomLicense(result[first])
      BY <1>6 DEF DeclaredMaven, declaring
    <2> HIDE DEF first, nearest
    <2>8. DeclaredMaven = Document(nearest).license /\ Declaring # {}
      BY <1>2, <2>3, <2>5, <2>6, <2>7
    <2> QED BY <2>8 DEF nearest
  <1> QED BY <1>5, <1>6

\* What a resolved component declares is what the nearest of its POMs declares, however
\* far up within the bound that is: not less because its ancestors refer to one
\* another in a cycle or one of them is missing, and not something else because the
\* jar holds a POM of its own (pomChain, Fetch, declaredMaven).
THEOREM NearestPomDeclares == Spec => []NearestDeclares
  <1> DEFINE Named == \A c \in Unnameable : pom[c] = None
  <1>1. Init => PathInv /\ Named
    <2> SUFFICES ASSUME Init PROVE PathInv /\ Named
      OBVIOUS
    <2>1. TypeOK
      BY TypeAtStart
    <2>2. Len(chain) = 0 /\ coords = Ancestor[0]
      BY <2>1, AncestorIs DEF Init
    <2> QED BY <2>2 DEF Init, PathInv
  <1>2. TypeOK /\ Inv /\ PathInv /\ Named /\ [Next]_vars => PathInv' /\ Named'
    <2> SUFFICES ASSUME TypeOK, Inv, PathInv, Named, [Next]_vars PROVE PathInv' /\ Named'
      OBVIOUS
    <2>1. UNCHANGED pom
      BY DEF Next, vars, registry, ChainStops, ComponentUnnameable, AncestorUnnameable,
         PomFound, PomGone, PomFails, JarGone, JarFails, JarFetched, Expand, Checksum,
         Asks
    <2> QED BY <2>1, PathKept DEF Inv
  <1>3. TypeOK /\ Inv /\ PathInv => NearestDeclares
    BY PathDecides
  <1> HIDE DEF Named
  <1> QED BY <1>1, <1>2, <1>3, TypeCorrect, Invariance, PTL DEF Spec
=============================================================================
