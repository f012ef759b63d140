---------------------------- MODULE ResolveProofs ----------------------------
(***************************************************************************)
(* Theorems about Resolve.tla, for every registry, lockfile and index, and *)
(* about the archives that it expands: what Archive.tla's expansions hold, *)
(* for every archive, every prefix and every bound.                        *)
(***************************************************************************)
EXTENDS Resolve, Archive, Induction, TLAPS

\* What Fetch has left to do.
Plans ==
    {<<"index", "request", "digest", "expand">>, <<"request", "digest", "expand">>,
     <<"request", "expand", "digest">>, <<"digest", "expand">>, <<"expand", "digest">>,
     <<"digest">>, <<"expand">>, <<>>}

\* What was read of the staged file is the whole of it, in whichever order.
WorkInv ==
    outcome = "running" =>
        /\ eco \in Schemes \cup {"npm"}
        /\ todo \in Plans
        /\ todo \in {<<"expand">>, <<>>} => digest = Hash(Algorithm, staged)
        /\ todo \in {<<"digest">>, <<>>} => fs = staged

ArtifactInv ==
    outcome = "artifact" => digest = Hash(Algorithm, fs) /\ matched = Agrees

Inv == WorkInv /\ ArtifactInv /\ StagedReleased

LEMMA StepsArePlans == \A e \in Schemes \cup {"npm"} :
    Steps(e) \in Plans /\ Steps(e) \notin {<<"expand">>, <<"digest">>, <<>>}
  BY DEF Schemes, Steps, Plans

\* What is left after a step of each plan.
LEMMA TailsOfPlans ==
    /\ Tail(<<"index", "request", "digest", "expand">>) = <<"request", "digest", "expand">>
    /\ Tail(<<"request", "digest", "expand">>) = <<"digest", "expand">>
    /\ Tail(<<"request", "expand", "digest">>) = <<"expand", "digest">>
    /\ Tail(<<"digest", "expand">>) = <<"expand">>
    /\ Tail(<<"expand", "digest">>) = <<"digest">>
    /\ Tail(<<"digest">>) = <<>>
    /\ Tail(<<"expand">>) = <<>>
  BY SMT

LEMMA HeadsOfPlans ==
    ASSUME NEW plan \in Plans, plan # <<>>
    PROVE  /\ Head(plan) = "index" => plan = <<"index", "request", "digest", "expand">>
           /\ Head(plan) = "request" => plan \in {<<"request", "digest", "expand">>,
                                                 <<"request", "expand", "digest">>}
           /\ Head(plan) = "digest" => plan \in {<<"digest", "expand">>, <<"digest">>}
           /\ Head(plan) = "expand" => plan \in {<<"expand", "digest">>, <<"expand">>}
  BY SMT DEF Plans

\* The steps after a request or an index are never the last.
LEMMA LongPlans ==
    \A plan \in {<<"request", "digest", "expand">>, <<"digest", "expand">>,
                  <<"expand", "digest">>} :
        plan \in Plans /\ plan \notin {<<"expand">>, <<"digest">>, <<>>}
  <1>1. {<<"request", "digest", "expand">>, <<"digest", "expand">>, <<"expand", "digest">>}
            \subseteq Plans
    BY SMT DEF Plans
  <1>2. \A plan \in {<<"expand">>, <<"digest">>, <<>>} : Len(plan) < 2
    BY SMT
  <1>3. /\ Len(<<"request", "digest", "expand">>) = 3
        /\ Len(<<"digest", "expand">>) = 2
        /\ Len(<<"expand", "digest">>) = 2
    BY SMT
  <1>4. \A plan \in {<<"request", "digest", "expand">>, <<"digest", "expand">>,
                      <<"expand", "digest">>} : ~(Len(plan) < 2)
    BY <1>3
  <1> QED
    BY <1>1, <1>2, <1>4, Zenon

LEMMA ShortPlans ==
    /\ {<<"expand">>, <<"digest">>, <<>>} \subseteq Plans
    /\ <<"expand">> # <<"digest">> /\ <<"expand">> # <<>> /\ <<"digest">> # <<>>
    /\ <<"digest", "expand">> \notin {<<"expand">>, <<"digest">>, <<>>}
  BY SMT DEF Plans

\* A file read as a stream is read from its start.
LEMMA StreamIsWhole == Streamed(Rewound) = staged
  BY DEF Streamed, Rewound

LEMMA ReturnInv ==
    ASSUME NEW why \in {"gone", "error"}, Return(why)
    PROVE  Inv'
  BY DEF Return, StagedAfterReturn, Inv, WorkInv, ArtifactInv, StagedReleased

LEMMA InitInv == Init => Inv
  BY DEF Init, Inv, WorkInv, ArtifactInv, StagedReleased

LEMMA NextInv == Inv /\ [Next]_vars => Inv'
  <1> SUFFICES ASSUME Inv, [Next]_vars PROVE Inv'
    OBVIOUS
  <1>1. CASE Dispatch
    <2>1. eco \in ByEcosystem => eco \in Schemes \cup {"npm"}
      BY ResolveAssumption
    <2> QED
      BY <1>1, <2>1, StepsArePlans
         DEF Dispatch, world, Inv, WorkInv, ArtifactInv, StagedReleased
  <1>2. CASE RequestFails
    BY <1>2, ReturnInv DEF RequestFails
  <1>3. CASE Index
    <2>1. CASE Return("gone")
      BY <2>1, ReturnInv
    <2>2. CASE ~Return("gone")
      <3>1. todo = <<"index", "request", "digest", "expand">>
        BY <1>3, HeadsOfPlans DEF Index, At, Inv, WorkInv
      <3>2. /\ outcome = "running" /\ todo' = Tail(todo)
            /\ UNCHANGED <<eco, staged, outcome>>
        BY <1>3, <2>2 DEF Index, At, world
      <3>3. todo' \in Plans /\ todo' \notin {<<"expand">>, <<"digest">>, <<>>}
        BY <3>1, <3>2, TailsOfPlans, LongPlans
      <3> QED
        BY <3>2, <3>3 DEF Inv, WorkInv, ArtifactInv, StagedReleased
    <2> QED BY <2>1, <2>2
  <1>4. CASE Request
    <2>1. CASE Return("gone")
      BY <2>1, ReturnInv
    <2>2. CASE ~Return("gone")
      <3>1. todo \in {<<"request", "digest", "expand">>, <<"request", "expand", "digest">>}
        BY <1>4, HeadsOfPlans DEF Request, At, Inv, WorkInv
      <3>2. /\ outcome = "running" /\ todo' = Tail(todo)
            /\ UNCHANGED <<eco, outcome>>
        BY <1>4, <2>2 DEF Request, At, world
      <3>3. todo' \in Plans /\ todo' \notin {<<"expand">>, <<"digest">>, <<>>}
        BY <3>1, <3>2, TailsOfPlans, LongPlans
      <3> QED
        BY <3>2, <3>3 DEF Inv, WorkInv, ArtifactInv, StagedReleased
    <2> QED BY <2>1, <2>2
  <1>5. CASE Digest
    <2>1. CASE Return("error")
      BY <2>1, ReturnInv
    <2>2. CASE ~Return("error")
      <3>1. todo \in {<<"digest", "expand">>, <<"digest">>}
        BY <1>5, HeadsOfPlans DEF Digest, At, Inv, WorkInv
      <3>2. digest' = Hash(Algorithm, staged)
        BY <1>5, <2>2, StreamIsWhole DEF Digest
      <3>3. Algorithm' = Algorithm
        BY <1>5, <2>2 DEF Digest, world, Algorithm, RecordedAlgorithm
      <3>4. /\ outcome = "running" /\ todo' = Tail(todo)
            /\ UNCHANGED <<eco, staged, fs, outcome>>
        BY <1>5, <2>2 DEF Digest, At, world
      <3>5. todo' \in {<<"expand">>, <<>>} /\ todo' \in Plans
        BY <3>1, <3>4, TailsOfPlans, ShortPlans
      <3>6. todo' \in {<<"digest">>, <<>>} => todo = <<"digest">>
        BY <3>1, <3>4, TailsOfPlans, ShortPlans
      <3>7. (digest = Hash(Algorithm, staged))'
        BY <3>2, <3>3, <3>4 DEF Hash
      <3> QED
        BY <3>4, <3>5, <3>6, <3>7 DEF Inv, WorkInv, ArtifactInv, StagedReleased
    <2> QED BY <2>1, <2>2
  <1>6. CASE Expand
    <2>1. CASE Return("error")
      BY <2>1, ReturnInv
    <2>2. CASE ~Return("error")
      <3>1. todo \in {<<"expand", "digest">>, <<"expand">>}
        BY <1>6, HeadsOfPlans DEF Expand, At, Inv, WorkInv
      <3>2. fs' = staged
        BY <1>6, <2>2, StreamIsWhole DEF Expand
      <3>3. Algorithm' = Algorithm
        BY <1>6, <2>2 DEF Expand, world, Algorithm, RecordedAlgorithm
      <3>4. /\ outcome = "running" /\ todo' = Tail(todo)
            /\ UNCHANGED <<eco, staged, digest, outcome>>
        BY <1>6, <2>2 DEF Expand, At, world
      <3>5. todo' \in {<<"digest">>, <<>>} /\ todo' \in Plans
        BY <3>1, <3>4, TailsOfPlans, ShortPlans
      <3>6. todo' \in {<<"expand">>, <<>>} => todo = <<"expand">>
        BY <3>1, <3>4, TailsOfPlans, ShortPlans
      <3>7. (digest = Hash(Algorithm, staged))' <=> digest = Hash(Algorithm, staged)
        BY <3>3, <3>4 DEF Hash
      <3> QED
        BY <3>2, <3>4, <3>5, <3>6, <3>7 DEF Inv, WorkInv, ArtifactInv, StagedReleased
    <2> QED BY <2>1, <2>2
  <1>7. CASE Deliver
    <2>1. digest = Hash(Algorithm, fs)
      BY <1>7 DEF Deliver, Inv, WorkInv
    <2>2. UNCHANGED <<Algorithm, Agrees, digest, fs>>
      BY <1>7 DEF Deliver, world, Expected, Agrees, Algorithm, RecordedAlgorithm
    <2> QED
      BY <1>7, <2>1, <2>2
         DEF Deliver, StagedAfterReturn, Hash, Inv, WorkInv, ArtifactInv, StagedReleased
  <1>8. CASE Lookup \/ UNCHANGED vars
    <2>1. UNCHANGED <<eco, recorded, todo, file, staged, digest, fs, matched, outcome>>
      BY <1>8 DEF Lookup, vars, world, fetchVars
    <2> QED
      BY <2>1 DEF Inv, WorkInv, ArtifactInv, StagedReleased, Algorithm,
                  RecordedAlgorithm, Expected, Agrees, Hash
  <1> QED BY <1>1, <1>2, <1>3, <1>4, <1>5, <1>6, <1>7, <1>8 DEF Next

LEMMA Invariance == Spec => []Inv
  BY InitInv, NextInv, PTL DEF Spec

\* An artifact that is said to match was expanded from the very bytes whose digest
\* the lockfile or the index recorded (Fetch of each resolver).
THEOREM NoFalseMatch == Spec => []MatchedIsContent
  <1>1. Inv => MatchedIsContent
    <2> SUFFICES ASSUME Inv, outcome = "artifact", matched
                 PROVE  Expected # <<>> /\ Expected[1].of = fs
      BY DEF MatchedIsContent
    <2>1. Expected # <<>> /\ Expected = <<digest>> /\ digest = Hash(Algorithm, fs)
      BY DEF Inv, ArtifactInv, Agrees
    <2>2. \A x : <<x>>[1] = x
      OBVIOUS
    <2> QED BY <2>1, <2>2 DEF Hash
  <1> QED BY <1>1, Invariance, PTL

\* Whatever way Fetch returns, the staged file is gone.
THEOREM StagedIsReleased == Spec => []StagedReleased
  <1>1. Inv => StagedReleased
    BY DEF Inv
  <1> QED BY <1>1, Invariance, PTL
-----------------------------------------------------------------------------
(* Which file of a release.                                                *)

\* A file is as good as another to fall back to if that one is not smaller.
NotAfter(f, g) == g.size > f.size \/ (g.size = f.size /\ g.name >= f.name)

\* What the loop of preferred has after the first n files.
Chosen(files, n, best) ==
    /\ best = None => \A i \in 1..n : files[i].kind = "other"
    /\ best # None =>
         /\ \E i \in 1..n : best = files[i]
         /\ best.kind \in {"sdist", "wheel"}
         /\ (\E i \in 1..n : files[i].kind = "sdist") => best.kind = "sdist"
         /\ best.kind = "wheel" =>
               \A i \in 1..n : IsWheel(files[i]) => NotAfter(best, files[i])

\* A release as the loop sees it.
LEMMA ReleaseIs ==
    ASSUME NEW files \in Releases
    PROVE  /\ Len(files) \in Nat /\ DOMAIN files = 1..Len(files)
           /\ \A i \in 1..Len(files) :
                 /\ files[i] # None /\ files[i].size \in Nat /\ files[i].name \in Nat
                 /\ files[i].kind \in {"sdist", "wheel", "other"}
                 /\ files[i].content \in Contents \cup {None}
                 /\ files[i].sha \in {<<>>} \cup {<<Hash("sha256", c)>> : c \in Contents}
  <1>1. Sequence(files)
    BY ResolveAssumption
  <1>2. \A s : Sequence(s) => Len(s) \in Nat /\ DOMAIN s = 1..Len(s)
    BY DEF Sequence
  <1>3. Len(files) \in Nat /\ DOMAIN files = 1..Len(files)
    BY <1>1, <1>2
  <1> QED BY <1>3, ResolveAssumption

\* One turn of the loop.
LEMMA BetterIs ==
    ASSUME NEW files \in Releases, NEW n \in 1..Len(files),
           NEW best, Chosen(files, n - 1, best)
    PROVE  Chosen(files, n, Better(best, files[n]))
  <1>1. /\ Len(files) \in Nat
        /\ \A i \in 1..Len(files) :
                 /\ files[i] # None /\ files[i].size \in Nat /\ files[i].name \in Nat
                 /\ files[i].kind \in {"sdist", "wheel", "other"}
    BY ReleaseIs
  <1>2. /\ \A i \in 1..n : i \in 1..Len(files) /\ (i = n \/ i \in 1..(n - 1))
        /\ \A i \in 1..(n - 1) : i \in 1..n
        /\ n \in 1..n
    BY <1>1
  <1> DEFINE f == files[n]
             b == Better(best, f)
  <1>3. CASE best = None
    <2>1. \A i \in 1..(n - 1) : files[i].kind = "other"
      BY <1>3 DEF Chosen
    <2>2. CASE f.kind = "other"
      BY <1>2, <1>3, <2>1, <2>2 DEF Chosen, Better, IsWheel
    <2>3. CASE f.kind \in {"sdist", "wheel"}
      <3>1. b = f
        BY <1>3, <2>3 DEF Better, IsWheel
      <3>2. \A i \in 1..n : files[i].kind # "other" => i = n
        BY <1>2, <2>1
      <3>3. NotAfter(f, f)
        BY <1>1, <1>2 DEF NotAfter
      <3> QED BY <1>1, <1>2, <2>3, <3>1, <3>2, <3>3 DEF Chosen, IsWheel
    <2> QED BY <1>1, <1>2, <2>2, <2>3
  <1>4. CASE best # None /\ best.kind = "sdist"
    BY <1>2, <1>4 DEF Chosen, Better
  <1>5. CASE best # None /\ best.kind # "sdist"
    <2>1. PICK k \in 1..(n - 1) : best = files[k]
      BY <1>5 DEF Chosen
    <2>2. /\ best.kind = "wheel"
          /\ \A i \in 1..(n - 1) : files[i].kind # "sdist"
          /\ \A i \in 1..(n - 1) : IsWheel(files[i]) => NotAfter(best, files[i])
          /\ best.size \in Nat /\ best.name \in Nat
      BY <1>1, <1>2, <1>5, <2>1 DEF Chosen
    <2>3. f.size \in Nat /\ f.name \in Nat /\ f # None
      BY <1>1, <1>2
    <2>4. CASE f.kind = "sdist"
      BY <1>2, <1>5, <2>3, <2>4 DEF Chosen, Better
    <2>5. CASE f.kind # "sdist" /\ ~(IsWheel(f) /\ SmallerThan(f, best))
      <3>1. b = best
        BY <1>5, <2>5 DEF Better
      <3>2. IsWheel(f) => NotAfter(best, f)
        BY <2>2, <2>3, <2>5 DEF NotAfter, SmallerThan
      <3>3. \A i \in 1..n : files[i].kind # "sdist"
        BY <1>2, <2>2, <2>5
      <3> QED BY <1>2, <2>1, <2>2, <3>1, <3>2, <3>3, <1>5 DEF Chosen
    <2>6. CASE f.kind # "sdist" /\ IsWheel(f) /\ SmallerThan(f, best)
      <3>1. b = f
        BY <1>5, <2>6 DEF Better
      <3>2. NotAfter(f, f)
        BY <2>3 DEF NotAfter
      <3>3. ASSUME NEW i \in 1..(n - 1), IsWheel(files[i]) PROVE NotAfter(f, files[i])
        <4>1. NotAfter(best, files[i]) /\ files[i].size \in Nat /\ files[i].name \in Nat
          BY <1>1, <1>2, <2>2, <3>3
        <4> QED BY <2>2, <2>3, <2>6, <4>1 DEF NotAfter, SmallerThan
      <3>4. \A i \in 1..n : files[i].kind # "sdist"
        BY <1>2, <2>2, <2>6
      <3>5. \A i \in 1..n : IsWheel(files[i]) => NotAfter(f, files[i])
        BY <1>2, <3>2, <3>3
      <3> QED BY <1>2, <2>3, <2>6, <3>1, <3>4, <3>5 DEF Chosen, IsWheel
    <2> QED BY <2>4, <2>5, <2>6
  <1> QED BY <1>3, <1>4, <1>5

\* What preferred returns, of any release.
LEMMA PreferredIs ==
    ASSUME NEW files \in Releases
    PROVE  Chosen(files, Len(files), Preferred(files))
  <1> DEFINE N == Len(files)
             X == {None} \cup {files[i] : i \in 1..N}
             step == [n \in 1..N |-> [best \in X |-> Better(best, files[n])]]
             T == Turns(N, None, step)
             turns(f) == [n \in 0..N |-> IF n = 0 THEN None ELSE Better(f[n - 1], files[n])]
             loop == CHOOSE f : f = turns(f)
  <1>1. N \in Nat
    BY ReleaseIs
  <1>2. step \in [1..N -> [X -> X]]
    BY DEF Better
  <1>3. T \in [0..N -> X] /\ T[0] = None /\ \A n \in 1..N : T[n] = step[n][T[n - 1]]
    <2>1. None \in X
      OBVIOUS
    <2> HIDE DEF step, X, N
    <2> QED BY <1>1, <1>2, <2>1, TurnsAre
  <1> HIDE DEF T
  <1>4. ASSUME NEW n \in 1..N PROVE T[n] = Better(T[n - 1], files[n])
    <2>1. n - 1 \in 0..N
      BY <1>1
    <2>2. T[n - 1] \in X
      <3> HIDE DEF X, step, N
      <3> QED BY <1>3, <2>1
    <2> HIDE DEF X
    <2> QED BY <1>3, <2>2
  <1>5. T = turns(T)
    <2>1. \A n \in 0..N : n # 0 => n \in 1..N
      BY <1>1
    <2> HIDE DEF X, step
    <2> QED BY <1>3, <1>4, <2>1
  <1>6. loop = turns(loop)
    <2> HIDE DEF turns
    <2> QED BY <1>5
  <1>7. Preferred(files) = loop[N]
    BY DEF Preferred
  <1> HIDE DEF loop
  <1>8. loop[0] = None /\ \A n \in 1..N : loop[n] = Better(loop[n - 1], files[n])
    <2>1. \A n \in 1..N : n \in 0..N /\ n # 0
      BY <1>1
    <2>2. turns(loop)[0] = None /\ \A n \in 1..N : turns(loop)[n] = Better(loop[n - 1], files[n])
      BY <1>1, <2>1
    <2> HIDE DEF turns
    <2> QED BY <1>6, <2>2
  <1> DEFINE right == {n \in Nat : n <= N => Chosen(files, n, loop[n])}
  <1>9. 0 \in right
    BY <1>8 DEF Chosen
  <1>10. ASSUME NEW n \in Nat, n \in right PROVE n + 1 \in right
    <2> SUFFICES ASSUME n + 1 <= N PROVE Chosen(files, n + 1, loop[n + 1])
      OBVIOUS
    <2>1. n + 1 \in 1..N /\ (n + 1) - 1 = n /\ n <= N
      BY <1>1
    <2>2. Chosen(files, (n + 1) - 1, loop[n])
      BY <1>10, <2>1
    <2>3. Chosen(files, n + 1, Better(loop[n], files[n + 1]))
      BY <2>1, <2>2, BetterIs
    <2>4. loop[n + 1] = Better(loop[n], files[n + 1])
      BY <1>8, <2>1
    <2> QED BY <2>3, <2>4
  <1>11. Nat \subseteq right
    <2> HIDE DEF right
    <2> QED BY <1>9, <1>10, Climb
  <1>12. N <= N
    BY <1>1
  <1> QED BY <1>1, <1>7, <1>11, <1>12
-----------------------------------------------------------------------------
(* What Fetch and Lookup answer for.                                       *)

WorldInv ==
    /\ eco \in Ecosystems /\ recorded \in Recorded[eco]
    /\ published \in Contents \cup {None}
    /\ release \in Releases \cup {None}
    /\ eco \in Databases => record \in Records[eco] \cup {None}

\* What each step finds that the one before it has left.
FlowInv ==
    /\ todo # <<>> => eco \in ByEcosystem /\ todo \in Left(eco)
    /\ outcome \in {"running", "artifact"} => eco \in ByEcosystem
    /\ At("index") => eco = "pypi"
    /\ outcome = "running" /\ ~At("index") /\ ~At("request") => staged \in Contents
    /\ outcome \in {"running", "artifact"} /\ eco = "pypi" /\ ~At("index") => file # None
    /\ file # None => release \in Releases /\ file = Preferred(release)
    /\ lookup # None => outcome \in Ended

ValuesInv ==
    /\ staged \in Contents \cup {None} /\ offset \in {"start", "end"}
    /\ digest = None \/ digest.of \in Contents
    /\ fs \in Expandable \cup {None}
    /\ matched \in BOOLEAN /\ failed \in BOOLEAN
    /\ outcome \in {"idle", "running"} \cup Ended
    /\ lookup \in {None} \cup Answers

FetchInv == WorldInv /\ FlowInv /\ ValuesInv /\ GoneIsPermanent /\ WitnessSawIt

LEMMA StepsAreSequences ==
    ASSUME NEW e \in Schemes \cup {"npm"}
    PROVE  Steps(e) \in Seq({"index", "request", "digest", "expand"})
  <1>1. \A R, a, b, c : {a, b, c} \subseteq R => <<a, b, c>> \in Seq(R)
    OBVIOUS
  <1>2. \A R, a, b, c, d : {a, b, c, d} \subseteq R => <<a, b, c, d>> \in Seq(R)
    OBVIOUS
  <1> DEFINE R == {"index", "request", "digest", "expand"}
  <1>3. {"request", "digest", "expand"} \subseteq R /\ {"request", "expand", "digest"} \subseteq R
        /\ {"index", "request", "digest", "expand"} \subseteq R
    OBVIOUS
  <1> HIDE DEF R
  <1>4. /\ <<"request", "digest", "expand">> \in Seq(R)
        /\ <<"request", "expand", "digest">> \in Seq(R)
        /\ <<"index", "request", "digest", "expand">> \in Seq(R)
    BY <1>1, <1>2, <1>3
  <1>5. Steps(e) \in {<<"request", "digest", "expand">>, <<"request", "expand", "digest">>,
                      <<"index", "request", "digest", "expand">>}
    BY DEF Steps, Schemes
  <1> QED BY <1>4, <1>5 DEF R

LEMMA TailIsLeft ==
    ASSUME NEW e \in Schemes \cup {"npm"}, NEW plan \in Left(e), plan # <<>>
    PROVE  Tail(plan) \in Left(e)
  <1> DEFINE s == Steps(e)
  <1>1. s \in Seq({"index", "request", "digest", "expand"})
    BY StepsAreSequences
  <1>2. \A R : \A q \in Seq(R) : \A k \in 1..Len(q) + 1 :
            SubSeq(q, k, Len(q)) # <<>> =>
                /\ k + 1 \in 1..Len(q) + 1
                /\ Tail(SubSeq(q, k, Len(q))) = SubSeq(q, k + 1, Len(q))
    <2> SUFFICES ASSUME NEW R, NEW q \in Seq(R), NEW k \in 1..Len(q) + 1,
                        SubSeq(q, k, Len(q)) # <<>>
                 PROVE  /\ k + 1 \in 1..Len(q) + 1
                        /\ Tail(SubSeq(q, k, Len(q))) = SubSeq(q, k + 1, Len(q))
      OBVIOUS
    <2>1. k # Len(q) + 1
      OBVIOUS
    <2>2. k + 1 \in 1..Len(q) + 1
      BY <2>1
    <2> QED BY <2>1, <2>2
  <1>3. PICK k \in 1..Len(s) + 1 : plan = SubSeq(s, k, Len(s))
    BY DEF Left
  <1> HIDE DEF s
  <1>4. k + 1 \in 1..Len(s) + 1 /\ Tail(plan) = SubSeq(s, k + 1, Len(s))
    BY <1>1, <1>2, <1>3
  <1> QED BY <1>4 DEF Left, s

LEMMA AllIsLeft ==
    ASSUME NEW e \in Schemes \cup {"npm"}
    PROVE  Steps(e) \in Left(e)
  <1> DEFINE s == Steps(e)
  <1>1. s \in Seq({"index", "request", "digest", "expand"})
    BY StepsAreSequences
  <1> HIDE DEF s
  <1>2. 1 \in 1..Len(s) + 1 /\ SubSeq(s, 1, Len(s)) = s
    BY <1>1
  <1> QED BY <1>2 DEF Left, s

\* The first of the steps, and what comes after each.
LEMMA FirstSteps ==
    ASSUME NEW e \in Schemes \cup {"npm"}
    PROVE  /\ Steps(e) # <<>>
           /\ Head(Steps(e)) \in {"index", "request"}
           /\ Head(Steps(e)) = "index" <=> e = "pypi"
  BY SMT DEF Steps, Schemes

LEMMA HeadsAfter ==
    ASSUME NEW plan \in Plans, plan # <<>>
    PROVE  /\ Head(plan) \in {"index", "request", "digest", "expand"}
           /\ Head(plan) = "index" => Tail(plan) # <<>> /\ Head(Tail(plan)) = "request"
           /\ Head(plan) # "index" =>
                Tail(plan) = <<>> \/ Head(Tail(plan)) \in {"digest", "expand"}
  <1>1. /\ \A a : Head(<<a>>) = a
        /\ \A a, b : Head(<<a, b>>) = a
        /\ \A a, b, c : Head(<<a, b, c>>) = a /\ <<a, b, c>> # <<>>
        /\ \A a, b, c, d : Head(<<a, b, c, d>>) = a
    OBVIOUS
  <1>2. plan \in {<<"index", "request", "digest", "expand">>, <<"request", "digest", "expand">>,
                  <<"request", "expand", "digest">>, <<"digest", "expand">>,
                  <<"expand", "digest">>, <<"digest">>, <<"expand">>}
    BY DEF Plans
  <1>3. CASE plan = <<"index", "request", "digest", "expand">>
    BY <1>1, <1>3, TailsOfPlans
  <1>4. CASE plan \in {<<"request", "digest", "expand">>, <<"request", "expand", "digest">>}
    BY <1>1, <1>4, TailsOfPlans
  <1>5. CASE plan \in {<<"digest", "expand">>, <<"expand", "digest">>}
    BY <1>1, <1>5, TailsOfPlans
  <1>6. CASE plan \in {<<"digest">>, <<"expand">>}
    BY <1>1, <1>6, TailsOfPlans
  <1> QED BY <1>2, <1>3, <1>4, <1>5, <1>6

\* What Lookup says of the lines of a record.
LEMMA AnswerIs ==
    ASSUME NEW lines, Sequence(lines), NEW d
    PROVE  /\ Answer(lines, d) = "match" =>
                \E i \in DOMAIN lines : lines[i].about = "archive" /\ d = <<lines[i].digest>>
           /\ Answer(lines, d) = "mismatch" =>
                \E i \in DOMAIN lines : lines[i].about = "archive" /\ d # <<lines[i].digest>>
           /\ Answer(lines, d) = "norecord" =>
                \A i \in DOMAIN lines : lines[i].about # "archive"
           /\ Answer(lines, d) \in {"match", "mismatch", "norecord"}
  <1> DEFINE found == {i \in DOMAIN lines : AboutArchive(lines[i])}
             first == CHOOSE i \in found : \A j \in found : i <= j
  <1>1. \A s : Sequence(s) => DOMAIN s \subseteq Nat
    BY DEF Sequence
  <1>2. found \in SUBSET Nat
    BY <1>1
  <1>3. Answer(lines, d) =
            IF found = {} THEN "norecord"
            ELSE IF d # <<>> /\ d = <<lines[first].digest>> THEN "match" ELSE "mismatch"
    BY DEF Answer
  <1>4. \A i \in DOMAIN lines : i \in found <=> lines[i].about = "archive"
    BY DEF AboutArchive
  <1>5. CASE found = {}
    BY <1>3, <1>4, <1>5
  <1>6. CASE found # {}
    <2>1. \E m \in found : \A j \in found : m <= j
      <3> HIDE DEF found
      <3> QED BY <1>2, <1>6, Least
    <2>2. first \in found
      <3> HIDE DEF found
      <3> QED BY <2>1
    <2>3. first \in DOMAIN lines /\ lines[first].about = "archive"
      BY <1>4, <2>2
    <2>4. <<>> # <<lines[first].digest>>
      OBVIOUS
    <2> HIDE DEF found, first
    <2> QED BY <1>3, <1>6, <2>3, <2>4
  <1> QED BY <1>5, <1>6

\* What is expected of an artifact: nothing, or one or more digests as they should be.
LEMMA ExpectedIs ==
    ASSUME WorldInv, FlowInv, outcome = "artifact", eco \in ByEcosystem, Len(Expected) = 1
    PROVE  \E c : Expected = <<Hash(Algorithm, c)>>
  <1>0. eco \in Schemes \cup {"npm"} /\ \A x : Len(<<>>) # 1 /\ (Len(<<x>>) = 1)
    BY ResolveAssumption
  <1>1. CASE eco = "pypi"
    <2>1. file # None /\ release \in Releases /\ file = Preferred(release)
      BY <1>1 DEF FlowInv, At
    <2>2. PICK i \in 1..Len(release) : file = release[i]
      BY <2>1, PreferredIs DEF Chosen
    <2>3. file.sha \in {<<>>} \cup {<<Hash("sha256", c)>> : c \in Contents}
      BY <2>1, <2>2, ReleaseIs
    <2>4. Expected = file.sha /\ Algorithm = "sha256"
      BY <1>1 DEF Expected, Algorithm, Scheme
    <2>5. Expected # <<>>
      BY <1>0
    <2> QED BY <2>3, <2>4, <2>5
  <1>2. CASE eco \in {"golang", "cargo"}
    <2>1. Expected = recorded /\ Algorithm = Scheme(eco) /\ eco \in Schemes
      BY <1>2 DEF Expected, Algorithm, Schemes
    <2>2. recorded # <<>>
      BY <1>0, <2>1
    <2> QED BY <2>1, <2>2, ResolveAssumption DEF WorldInv
  <1>3. CASE eco = "npm"
    <2>1. Expected = recorded /\ Len(recorded) = 1
      BY <1>3 DEF Expected
    <2>2. Sequence(recorded) /\ \A i \in DOMAIN recorded :
                                    recorded[i] = Hash(recorded[i].algo, recorded[i].of)
      BY ResolveAssumption DEF WorldInv
    <2>3. \A s : Sequence(s) /\ Len(s) = 1 => s = <<s[1]>> /\ 1 \in DOMAIN s /\ s # <<>>
      BY DEF Sequence
    <2>4. Algorithm = recorded[1].algo
      BY <1>3, <2>1, <2>2, <2>3 DEF Algorithm, RecordedAlgorithm
    <2> DEFINE x == recorded[1]
    <2>5. recorded = <<x>> /\ x = Hash(x.algo, x.of)
      BY <2>1, <2>2, <2>3
    <2> HIDE DEF x
    <2>6. recorded = <<Hash(x.algo, x.of)>>
      BY <2>5
    <2> QED BY <2>1, <2>4, <2>6 DEF x
  <1> QED BY <1>0, <1>1, <1>2, <1>3 DEF Schemes
\* Who is asked for an archive has it, or it is gone.
LEMMA LocatedIs ==
    ASSUME WorldInv, FlowInv, At("request")
    PROVE  /\ Located \in Contents \cup {None}
           /\ eco # "pypi" => Located = published
           /\ eco = "pypi" => file # None /\ Located = file.content
  <1>1. CASE eco # "pypi"
    BY <1>1 DEF Located, WorldInv
  <1>2. CASE eco = "pypi"
    <2>1. file # None /\ release \in Releases /\ file = Preferred(release)
      BY <1>2 DEF FlowInv, At
    <2>2. PICK i \in 1..Len(release) : file = release[i]
      BY <2>1, PreferredIs DEF Chosen
    <2>3. file.content \in Contents \cup {None}
      BY <2>1, <2>2, ReleaseIs
    <2> QED BY <1>2, <2>1, <2>3 DEF Located
  <1> QED BY <1>1, <1>2

LEMMA NoneIsNoAnswer == None \notin {"match", "mismatch", "norecord"}
  BY ResolveAssumption DEF Answers

\* Fetch returns without an artifact.
LEMMA ReturnKeeps ==
    ASSUME FetchInv, outcome = "running", NEW why \in {"gone", "error"}, Return(why),
           failed' \in BOOLEAN, failed' => why = "error",
           why = "gone" => IF eco # "pypi" THEN published = None
                           ELSE \/ release = None
                                \/ \A i \in DOMAIN release : release[i].kind = "other"
                                \/ file # None /\ file.content = None
    PROVE  FetchInv'
  <1>1. /\ UNCHANGED <<eco, recorded, published, release, record, todo, file, offset, digest, fs,
                       matched, asked, lookup>>
        /\ outcome' = why /\ staged' = None
    BY DEF Return, StagedAfterReturn, world, lookupVars
  <1>2. lookup = None
    BY DEF FetchInv, FlowInv, Ended
  <1>3. WitnessSawIt'
    <2>1. lookup' \notin {"match", "mismatch", "norecord"}
      BY <1>1, <1>2, NoneIsNoAnswer
    <2> QED BY <2>1 DEF WitnessSawIt
  <1>4. WorldInv'
    BY <1>1 DEF FetchInv, WorldInv
  <1>5. FlowInv'
    BY <1>1, <1>2 DEF FetchInv, FlowInv, At, Ended
  <1>6. ValuesInv'
    BY <1>1 DEF FetchInv, ValuesInv, Ended
  <1>7. GoneIsPermanent'
    BY <1>1 DEF GoneIsPermanent
  <1> QED BY <1>3, <1>4, <1>5, <1>6, <1>7 DEF FetchInv

\* A step of Fetch that goes on to the next.
LEMMA StepKeeps ==
    ASSUME Inv, FetchInv, NEW step, At(step), todo' = Tail(todo),
           UNCHANGED <<world, outcome, failed, matched, lookupVars>>,
           step = "index" => file' # None /\ release \in Releases /\ file' = Preferred(release),
           step # "index" => UNCHANGED file,
           step \notin {"index"} => staged' \in Contents,
           staged' \in Contents \cup {None}, offset' \in {"start", "end"},
           digest' = None \/ digest'.of \in Contents, fs' \in Expandable \cup {None}
    PROVE  FetchInv'
  <1>1. /\ outcome = "running" /\ todo # <<>> /\ Head(todo) = step /\ todo \in Plans
        /\ eco \in ByEcosystem /\ eco \in Schemes \cup {"npm"} /\ todo \in Left(eco)
        /\ UNCHANGED <<eco, recorded, published, release, record, asked, lookup>>
    BY DEF At, Inv, WorkInv, FetchInv, FlowInv, world, lookupVars
  <1>2. todo' \in Left(eco) /\ Left(eco)' = Left(eco)
    BY <1>1, TailIsLeft DEF Left
  <1>3. /\ step = "index" => At("request")'
        /\ step # "index" => ~At("index")' /\ ~At("request")'
        /\ ~At("index")'
    BY <1>1, HeadsAfter DEF At
  <1>4. lookup = None /\ failed = FALSE
    BY <1>1 DEF FetchInv, FlowInv, ValuesInv, GoneIsPermanent, Ended
  <1>5. WitnessSawIt'
    <2>1. lookup' \notin {"match", "mismatch", "norecord"}
      BY <1>1, <1>4, NoneIsNoAnswer
    <2> QED BY <2>1 DEF WitnessSawIt
  <1>6. WorldInv'
    BY <1>1 DEF FetchInv, WorldInv
  <1>7. FlowInv'
    <2>1. step # "index" /\ eco = "pypi" => file' # None
      BY <1>1 DEF FetchInv, FlowInv, At
    <2>2. file' # None => release \in Releases /\ file' = Preferred(release)
      BY DEF FetchInv, FlowInv
    <2>3. eco \in ByEcosystem
      BY <1>1
    <2> QED BY <1>1, <1>2, <1>3, <1>4, <2>1, <2>2 DEF FlowInv
  <1>8. ValuesInv'
    BY <1>1 DEF FetchInv, ValuesInv
  <1>9. GoneIsPermanent'
    BY <1>1, <1>4 DEF GoneIsPermanent
  <1> QED BY <1>5, <1>6, <1>7, <1>8, <1>9 DEF FetchInv

\* Lookup answers as the record it was given does.
LEMMA LookupKeeps ==
    ASSUME Inv, FetchInv, Lookup
    PROVE  FetchInv'
  <1> DEFINE named == {record[i].digest : i \in {j \in DOMAIN record : record[j].about = "archive"}}
  <1>1. /\ outcome \in Ended /\ UNCHANGED <<world, fetchVars>>
        /\ asked' = recorded \/ (outcome = "artifact" /\ asked' = <<digest>>)
        /\ eco \notin Databases => lookup' = "unsupported"
        /\ eco \in Databases => lookup' \in {"error", IF record = None THEN "gone" ELSE Answer(record, asked')}
    BY DEF Lookup
  <1>2. UNCHANGED <<eco, recorded, published, release, record, todo, file, staged, offset, digest,
                    fs, matched, outcome, failed>>
    BY <1>1 DEF world, fetchVars
  <1>3. eco \in Databases /\ record # None =>
            /\ Answer(record, asked') \in {"match", "mismatch", "norecord"}
            /\ Sequence(record)
    BY ResolveAssumption, AnswerIs DEF FetchInv, WorldInv
  <1>4. lookup' \in Answers
    BY <1>1, <1>3 DEF Answers
  <1>5. lookup' \in {"match", "mismatch", "norecord"} =>
            eco \in Databases /\ Sequence(record) /\ lookup' = Answer(record, asked')
    BY <1>1, <1>3
  <1>6. lookup' = "match" /\ outcome = "artifact" /\ asked' = <<digest>> =>
            Hash(Scheme(eco), fs) \in named
    <2> SUFFICES ASSUME lookup' = "match", outcome = "artifact", asked' = <<digest>>
                 PROVE  Hash(Scheme(eco), fs) \in named
      OBVIOUS
    <2>1. PICK i \in DOMAIN record : record[i].about = "archive" /\ asked' = <<record[i].digest>>
      BY <1>5, AnswerIs
    <2>2. \A x, y : <<x>> = <<y>> => x = y
      OBVIOUS
    <2>3. digest = record[i].digest
      BY <2>1, <2>2
    <2>4. digest = Hash(Scheme(eco), fs)
      BY <1>5 DEF Inv, ArtifactInv, Algorithm, Databases
    <2> QED BY <2>1, <2>3, <2>4
  <1>7. lookup' = "mismatch" => named # {} /\ \A d \in named : asked' = <<d>> => named # {d}
    <2> SUFFICES ASSUME lookup' = "mismatch"
                 PROVE  named # {} /\ \A d \in named : asked' = <<d>> => named # {d}
      OBVIOUS
    <2>1. PICK i \in DOMAIN record : record[i].about = "archive" /\ asked' # <<record[i].digest>>
      BY <1>5, AnswerIs
    <2>2. record[i].digest \in named
      BY <2>1
    <2> HIDE DEF named
    <2> QED BY <2>1, <2>2
  <1>8. lookup' = "norecord" => named = {}
    BY <1>5, AnswerIs
  <1>9. WitnessSawIt'
    <2>1. named' = named
      BY <1>2
    <2> QED BY <1>2, <1>6, <1>7, <1>8, <2>1 DEF WitnessSawIt, Scheme, Hash
  <1>10. WorldInv'
    BY <1>2 DEF FetchInv, WorldInv
  <1>11. FlowInv'
    BY <1>1, <1>2 DEF FetchInv, FlowInv, At, Ended, Left
  <1>12. ValuesInv'
    BY <1>2, <1>4 DEF FetchInv, ValuesInv
  <1>13. GoneIsPermanent'
    BY <1>2 DEF FetchInv, GoneIsPermanent
  <1> QED BY <1>9, <1>10, <1>11, <1>12, <1>13 DEF FetchInv
LEMMA FetchAtStart == Init => FetchInv
  <1> SUFFICES ASSUME Init PROVE FetchInv
    OBVIOUS
  <1>1. lookup \notin {"match", "mismatch", "norecord"}
    BY NoneIsNoAnswer DEF Init
  <1>2. WitnessSawIt
    BY <1>1 DEF WitnessSawIt
  <1>3. WorldInv
    BY DEF Init, WorldInv
  <1>4. FlowInv
    BY DEF Init, FlowInv, At
  <1>5. ValuesInv
    BY DEF Init, ValuesInv
  <1> QED BY <1>2, <1>3, <1>4, <1>5 DEF Init, FetchInv, GoneIsPermanent

LEMMA FetchKeeps == Inv /\ FetchInv /\ [Next]_vars => FetchInv'
  <1> SUFFICES ASSUME Inv, FetchInv, [Next]_vars PROVE FetchInv'
    OBVIOUS
  <1>0. outcome = "running" => failed = FALSE
    BY DEF FetchInv, ValuesInv, GoneIsPermanent
  <1>1. CASE Dispatch
    <2>1. /\ outcome = "idle" /\ lookup = None /\ failed = FALSE
          /\ UNCHANGED <<eco, recorded, published, release, record, file, staged, offset, digest, fs,
                         matched, failed, asked, lookup>>
      BY <1>1 DEF Dispatch, world, lookupVars, FetchInv, FlowInv, ValuesInv, GoneIsPermanent, Ended
    <2>2. WitnessSawIt'
      <3>1. lookup' \notin {"match", "mismatch", "norecord"}
        BY <2>1, NoneIsNoAnswer
      <3> QED BY <3>1 DEF WitnessSawIt
    <2>3. WorldInv'
      BY <2>1 DEF FetchInv, WorldInv
    <2>4. CASE eco \in ByEcosystem
      <3>1. eco \in Schemes \cup {"npm"} /\ outcome' = "running" /\ todo' = Steps(eco)
        BY <1>1, <2>4, ResolveAssumption DEF Dispatch
      <3>2. /\ todo' # <<>> /\ todo' \in Left(eco) /\ Head(todo') \in {"index", "request"}
            /\ Head(todo') = "index" <=> eco = "pypi"
        BY <3>1, FirstSteps, AllIsLeft
      <3>3. FlowInv'
        BY <2>1, <2>4, <3>1, <3>2 DEF FetchInv, FlowInv, At, Left
      <3>4. ValuesInv' /\ GoneIsPermanent'
        BY <2>1, <3>1 DEF FetchInv, ValuesInv, GoneIsPermanent
      <3> QED BY <2>2, <2>3, <3>3, <3>4 DEF FetchInv
    <2>5. CASE eco \notin ByEcosystem
      <3>1. outcome' = "unsupported" /\ todo' = todo
        BY <1>1, <2>5 DEF Dispatch
      <3>2. FlowInv'
        BY <2>1, <3>1 DEF FetchInv, FlowInv, At, Left, Ended
      <3>3. ValuesInv' /\ GoneIsPermanent'
        BY <2>1, <3>1 DEF FetchInv, ValuesInv, GoneIsPermanent, Ended
      <3> QED BY <2>2, <2>3, <3>2, <3>3 DEF FetchInv
    <2> QED BY <2>4, <2>5
  <1>2. CASE RequestFails
    <2>1. outcome = "running" /\ failed' = TRUE /\ Return("error")
      BY <1>2 DEF RequestFails, At
    <2> QED BY <2>1, ReturnKeeps
  <1>3. CASE Index
    <2>1. /\ At("index") /\ outcome = "running" /\ UNCHANGED failed /\ failed = FALSE /\ eco = "pypi"
      BY <1>0, <1>3 DEF Index, At, FetchInv, FlowInv
    <2>2. CASE release = None \/ Preferred(release) = None
      <3>1. release = None \/ \A i \in DOMAIN release : release[i].kind = "other"
        BY <2>2, PreferredIs, ReleaseIs DEF FetchInv, WorldInv, Chosen
      <3>2. Return("gone")
        BY <1>3, <2>2 DEF Index
      <3> QED BY <2>1, <3>1, <3>2, ReturnKeeps
    <2>3. CASE ~(release = None \/ Preferred(release) = None)
      <3>1. /\ file' = Preferred(release) /\ file' # None /\ release \in Releases
            /\ todo' = Tail(todo)
            /\ UNCHANGED <<world, staged, offset, digest, fs, matched, outcome, lookupVars>>
        BY <1>3, <2>3 DEF Index, FetchInv, WorldInv
      <3>2. UNCHANGED <<world, outcome, failed, matched, lookupVars>> /\ UNCHANGED <<staged, offset, digest, fs>>
        BY <2>1, <3>1
      <3>3. /\ staged' \in Contents \cup {None} /\ offset' \in {"start", "end"}
            /\ digest' = None \/ digest'.of \in Contents
            /\ fs' \in Expandable \cup {None}
        BY <3>2 DEF FetchInv, ValuesInv
      <3> QED BY <2>1, <3>1, <3>2, <3>3, StepKeeps
    <2> QED BY <2>2, <2>3
  <1>4. CASE Request
    <2>1. /\ At("request") /\ outcome = "running" /\ UNCHANGED failed /\ failed = FALSE
      BY <1>0, <1>4 DEF Request, At
    <2>2. CASE Located = None
      <3>1. Return("gone")
        BY <1>4, <2>2 DEF Request
      <3>2. IF eco # "pypi" THEN published = None ELSE file # None /\ file.content = None
        BY <2>1, <2>2, LocatedIs DEF FetchInv
      <3> QED BY <2>1, <3>1, <3>2, ReturnKeeps
    <2>3. CASE Located # None
      <3>1. /\ staged' = Located /\ staged' \in Contents /\ offset' = "start"
            /\ todo' = Tail(todo)
            /\ UNCHANGED <<world, file, digest, fs, matched, outcome, lookupVars>>
        BY <1>4, <2>1, <2>3, LocatedIs DEF Request, FetchInv
      <3>2. UNCHANGED <<world, outcome, failed, matched, lookupVars>> /\ UNCHANGED <<file, digest, fs>>
        BY <2>1, <3>1
      <3>3. digest' = None \/ digest'.of \in Contents
        BY <3>2 DEF FetchInv, ValuesInv
      <3>4. fs' \in Expandable \cup {None}
        BY <3>2 DEF FetchInv, ValuesInv
      <3> QED BY <2>1, <3>1, <3>2, <3>3, <3>4, StepKeeps
    <2> QED BY <2>2, <2>3
  <1>5. CASE Digest
    <2>1. /\ At("digest") /\ outcome = "running" /\ UNCHANGED failed /\ failed = FALSE
      BY <1>0, <1>5 DEF Digest, At
    <2>2. CASE Return("error")
      BY <2>1, <2>2, ReturnKeeps
    <2>3. CASE ~Return("error")
      <3>1. staged \in Contents
        BY <2>1 DEF FetchInv, FlowInv, At
      <3>2. /\ digest' = Hash(Algorithm, staged)
            /\ offset' = IF eco = "golang" THEN offset ELSE "end"
            /\ todo' = Tail(todo)
            /\ UNCHANGED <<world, file, staged, fs, matched, outcome, lookupVars>>
        BY <1>5, <2>3, StreamIsWhole DEF Digest
      <3>3. digest'.of \in Contents
        BY <3>1, <3>2 DEF Hash
      <3>4. UNCHANGED <<world, outcome, failed, matched, lookupVars>> /\ UNCHANGED <<file, fs, staged>>
        BY <2>1, <3>2
      <3>5. offset' \in {"start", "end"} /\ fs' \in Expandable \cup {None}
        BY <3>2, <3>4 DEF FetchInv, ValuesInv
      <3> QED BY <2>1, <3>1, <3>2, <3>3, <3>4, <3>5, StepKeeps
    <2> QED BY <2>2, <2>3
  <1>6. CASE Expand
    <2>1. /\ At("expand") /\ outcome = "running" /\ UNCHANGED failed /\ failed = FALSE
      BY <1>0, <1>6 DEF Expand, At
    <2>2. CASE Return("error")
      BY <2>1, <2>2, ReturnKeeps
    <2>3. CASE ~Return("error")
      <3>1. staged \in Contents
        BY <2>1 DEF FetchInv, FlowInv, At
      <3>2. /\ fs' \in Expandable
            /\ offset' = IF Format = "tar" THEN "end" ELSE offset
            /\ todo' = Tail(todo)
            /\ UNCHANGED <<world, file, staged, digest, matched, outcome, lookupVars>>
        BY <1>6, <2>3 DEF Expand
      <3>3. UNCHANGED <<world, outcome, failed, matched, lookupVars>> /\ UNCHANGED <<file, digest, staged>>
        BY <2>1, <3>2
      <3>4. offset' \in {"start", "end"}
        BY <3>2 DEF FetchInv, ValuesInv
      <3>5. digest' = None \/ digest'.of \in Contents
        BY <3>3 DEF FetchInv, ValuesInv
      <3> QED BY <2>1, <3>1, <3>2, <3>3, <3>4, <3>5, StepKeeps
    <2> QED BY <2>2, <2>3
  <1>7. CASE Deliver
    <2>1. /\ outcome = "running" /\ todo = <<>> /\ outcome' = "artifact" /\ matched' = Agrees
          /\ staged' = None /\ failed = FALSE /\ lookup = None
          /\ UNCHANGED <<eco, recorded, published, release, record, todo, file, offset, digest, fs,
                         failed, asked, lookup>>
      BY <1>0, <1>7 DEF Deliver, StagedAfterReturn, world, lookupVars, FetchInv, FlowInv, Ended
    <2>2. WitnessSawIt'
      <3>1. lookup' \notin {"match", "mismatch", "norecord"}
        BY <2>1, NoneIsNoAnswer
      <3> QED BY <3>1 DEF WitnessSawIt
    <2>3. WorldInv'
      BY <2>1 DEF FetchInv, WorldInv
    <2>4. FlowInv'
      BY <2>1 DEF FetchInv, FlowInv, At
    <2>5. ValuesInv'
      BY <2>1 DEF FetchInv, ValuesInv, Agrees, Ended
    <2>6. GoneIsPermanent'
      BY <2>1 DEF GoneIsPermanent
    <2> QED BY <2>2, <2>3, <2>4, <2>5, <2>6 DEF FetchInv
  <1>8. CASE Lookup
    BY <1>8, LookupKeeps
  <1>9. CASE UNCHANGED vars
    <2>1. UNCHANGED <<eco, recorded, published, release, record, todo, file, staged, offset, digest,
                      fs, matched, outcome, failed, asked, lookup>>
      BY <1>9 DEF vars, world, fetchVars, lookupVars
    <2>2. WorldInv' /\ ValuesInv' /\ GoneIsPermanent'
      BY <2>1 DEF FetchInv, WorldInv, ValuesInv, GoneIsPermanent
    <2>3. FlowInv'
      BY <2>1 DEF FetchInv, FlowInv, At, Left
    <2>4. WitnessSawIt'
      BY <2>1 DEF FetchInv, WitnessSawIt
    <2> QED BY <2>2, <2>3, <2>4 DEF FetchInv
  <1> QED BY <1>1, <1>2, <1>3, <1>4, <1>5, <1>6, <1>7, <1>8, <1>9 DEF Next

LEMMA FetchInvariance == Spec => []FetchInv
  BY FetchAtStart, FetchKeeps, Invariance, PTL DEF Spec

\* Fetch ends as what it found says, in every ecosystem: gone is said only of content that
\* is not there or of a release without a file to download, a request that failed for now
\* is an error, and nothing is left on disk (Fetch of each resolver).
THEOREM FetchEndsForCause == Spec => []EndsForCause
  <1>1. Inv /\ FetchInv => EndsForCause
    BY DEF Inv, FetchInv, WorldInv, FlowInv, ValuesInv, EndsForCause, TypeOK
  <1> QED BY <1>1, Invariance, FetchInvariance, PTL

\* An artifact matches exactly when it was expanded from the one content that the lockfile
\* or the index recorded, under any of the algorithms and whichever of hashing and
\* expanding read the staged file first (integrityOf, fetched.Digest).
THEOREM MatchesExactly == Spec => []MatchIsContent
  <1>1. Inv /\ FetchInv /\ MatchedIsContent => MatchIsContent
    <2> SUFFICES ASSUME Inv, FetchInv, outcome = "artifact", Len(Expected) = 1, Expected[1].of = fs
                 PROVE  matched
      BY DEF MatchIsContent, KnownContentMatches
    <2>1. digest = Hash(Algorithm, fs) /\ matched = Agrees
      BY DEF Inv, ArtifactInv
    <2>2. eco \in ByEcosystem
      BY DEF FetchInv, FlowInv
    <2>3. PICK c : Expected = <<Hash(Algorithm, c)>>
      BY <2>2, ExpectedIs DEF FetchInv
    <2>4. \A x : <<x>>[1] = x /\ <<x>> # <<>>
      OBVIOUS
    <2>5. c = fs /\ Expected # <<>>
      BY <2>3, <2>4 DEF Hash
    <2> QED BY <2>1, <2>3, <2>5 DEF Agrees
  <1> QED BY <1>1, Invariance, FetchInvariance, NoFalseMatch, PTL

\* Of a Python release the file that is fetched is a source distribution if it has one, and
\* else the smallest of its wheels, in whatever order the index lists them (preferred,
\* smallerThan).
THEOREM ChoiceDoesNotDependOnOrder == Spec => []ChoiceIsStable
  <1>1. FetchInv => ChoiceIsStable
    <2> SUFFICES ASSUME FetchInv, file # None PROVE ChoiceIsStable
      BY DEF ChoiceIsStable
    <2>1. release \in Releases /\ file = Preferred(release)
      BY DEF FetchInv, FlowInv
    <2>2. DOMAIN release = 1..Len(release) /\ Chosen(release, Len(release), file)
      BY <2>1, PreferredIs, ReleaseIs
    <2> QED BY <2>2 DEF ChoiceIsStable, Chosen, NotAfter, IsWheel
  <1> QED BY <1>1, FetchInvariance, PTL

\* A match with the checksum database is one of the archive the evidence was expanded
\* from; another recorded digest is a mismatch, and no record is neither (Lookup, goSum,
\* cargoSum).
THEOREM WitnessIsOfTheEvidence == Spec => []WitnessSawIt
  <1>1. FetchInv => WitnessSawIt
    BY DEF FetchInv
  <1> QED BY <1>1, FetchInvariance, PTL

-----------------------------------------------------------------------------
(* Archive.                                                                *)

\* Members are looked at in order; an expansion that succeeds saw them all.
Progress ==
    /\ next \in 1..Len(archive) + 1
    /\ archive \in Archives
    /\ expansion = "fs" => next = Len(archive) + 1

\* The prefix was seen exactly when a member before the next one lies in it.
Seen ==
    /\ prefixSeen \in BOOLEAN
    /\ prefixSeen <=> \E i \in InPrefix : i < next

\* What is kept comes from the evidence seen so far, and all of it is kept that
\* may still be handed back.
KeptIsEvidence ==
    \A k \in kept : \E i \in Evidence : i < next /\ k = Contribution(i)

EvidenceIsKept ==
    \A i \in Evidence :
        i < next /\ (i \in InPrefix \/ ~prefixSeen) => Contribution(i) \in kept

\* One name, one text, on either side of the prefix.
NamesAreTexts ==
    \A k, l \in kept : k.name = l.name /\ k.inside = l.inside => k.data = l.data

IInv == Progress /\ Seen /\ KeptIsEvidence /\ EvidenceIsKept /\ NamesAreTexts

Reading == <<archive, next, prefixSeen, kept>>

LEMMA InitHolds == ExpandInit => IInv
<1> SUFFICES ASSUME ExpandInit PROVE IInv
  OBVIOUS
<1>1. archive \in Seq([regular : BOOLEAN, path : Seq(STRING), data : DOMAIN SizeOf])
  BY ArchiveAssumption DEF ExpandInit
<1>2. Len(archive) \in Nat /\ DOMAIN archive = 1..Len(archive)
  BY <1>1
<1>3. Progress
  BY <1>2 DEF ExpandInit, Progress
<1>4. \A i \in Members : ~(i < next)
  BY <1>2 DEF ExpandInit, Members
<1>5. Seen
  BY <1>4 DEF ExpandInit, Seen, InPrefix
<1>6. EvidenceIsKept
  BY <1>4 DEF EvidenceIsKept, Evidence
<1>. QED  BY <1>3, <1>5, <1>6 DEF ExpandInit, IInv, KeptIsEvidence, NamesAreTexts

\* The name of a member is never undecided about its side.
LEMMA SideIsBoolean == \A path : MemberName(path).inside \in BOOLEAN
  BY DEF MemberName

\* The member at hand, seen from the properties.
LEMMA Here ==
    ASSUME Progress, AtMember
    PROVE  /\ next \in DOMAIN archive
           /\ next \in Members <=> Named
           /\ next \in InPrefix <=> Named /\ EntryInside
           /\ next \in Evidence <=> Named /\ Retain(EntryName)
           /\ Named => Contribution(next) =
                [inside |-> EntryInside, name |-> EntryName, data |-> Entry.data]
<1>1. archive \in Seq([regular : BOOLEAN, path : Seq(STRING), data : DOMAIN SizeOf])
  BY ArchiveAssumption DEF Progress
<1>2. next \in DOMAIN archive
  BY <1>1 DEF Progress, AtMember
<1>3. next \in Members <=> Named
  BY <1>2 DEF Members, Named, Entry, EntryName
<1>4. next \in InPrefix <=> Named /\ EntryInside
  BY <1>3 DEF InPrefix, EntryInside, Entry
<1>5. next \in Evidence <=> Named /\ Retain(EntryName)
  BY <1>3 DEF Evidence, EntryName, Entry
<1>6. EntryInside \in BOOLEAN
  BY SideIsBoolean DEF EntryInside
<1>7. Named => Contribution(next) =
        [inside |-> EntryInside, name |-> EntryName, data |-> Entry.data]
  BY <1>4, <1>6 DEF Contribution, Entry, EntryName
<1>. QED  BY <1>2, <1>3, <1>4, <1>5, <1>7

\* A step to the next member that keeps what it wants keeps the invariant.
LEMMA AdvanceHolds ==
    ASSUME IInv, AtMember, Advance, UNCHANGED <<archive, expansion>>,
           kept' = IF Wanted THEN kept \cup {Contribution(next)} ELSE kept,
           Wanted => ~Clashes(EntryName, EntryInside, Entry.data)
    PROVE  IInv'
<1>. USE DEF IInv
<1>1. archive \in Seq([regular : BOOLEAN, path : Seq(STRING), data : DOMAIN SizeOf])
  BY ArchiveAssumption DEF Progress
<1>2. Len(archive) \in Nat /\ next \in Nat /\ next' = next + 1
  BY <1>1 DEF Progress, Advance
<1>3. /\ Members' = Members /\ InPrefix' = InPrefix /\ Evidence' = Evidence
      /\ \A i : Contribution(i)' = Contribution(i)
  BY DEF Members, InPrefix, Evidence, Contribution
<1>4. Members \subseteq Nat /\ InPrefix \subseteq Members /\ Evidence \subseteq Members
  BY <1>1 DEF Members, InPrefix, Evidence
<1>5. \A i \in Members : i < next' <=> i < next \/ i = next
  BY <1>2, <1>4
<1>6. Progress'
  BY <1>2 DEF Progress, AtMember
<1>7. Seen'
  <2>1. prefixSeen' = (prefixSeen \/ next \in InPrefix)
    BY Here DEF Advance, Noted
  <2>. QED  BY <1>3, <1>4, <1>5, <2>1 DEF Seen
<1>8. KeptIsEvidence'
  <2> SUFFICES ASSUME NEW k \in kept' PROVE \E i \in Evidence : i < next' /\ k = Contribution(i)
    BY <1>3 DEF KeptIsEvidence
  <2>1. CASE k \in kept
    BY <2>1, <1>4, <1>5 DEF KeptIsEvidence
  <2>2. CASE k \notin kept
    <3>1. Wanted /\ k = Contribution(next)
      BY <2>2
    <3>2. next \in Evidence
      BY <3>1, Here DEF Wanted
    <3>. QED  BY <3>1, <3>2, <1>4, <1>5
  <2>. QED  BY <2>1, <2>2
<1>9. EvidenceIsKept'
  <2> SUFFICES ASSUME NEW i \in Evidence, i < next', i \in InPrefix \/ ~prefixSeen'
               PROVE  Contribution(i) \in kept'
    BY <1>3 DEF EvidenceIsKept
  <2>1. prefixSeen' = (prefixSeen \/ next \in InPrefix)
    BY Here DEF Advance, Noted
  <2>2. CASE i < next
    BY <2>1, <2>2 DEF EvidenceIsKept, Seen
  <2>3. CASE i = next
    <3>1. Named /\ Retain(EntryName)
      BY <2>3, Here
    <3>2. ~Skip(EntryInside, Noted)
      BY <2>1, <2>3, <3>1, Here DEF Skip, Noted, Seen
    <3>. QED  BY <2>3, <3>1, <3>2 DEF Wanted
  <2>. QED  BY <2>2, <2>3, <1>4, <1>5
<1>10. NamesAreTexts'
  <2>1. CASE ~Wanted
    BY <2>1 DEF NamesAreTexts
  <2>2. CASE Wanted
    <3> DEFINE c == [inside |-> EntryInside, name |-> EntryName, data |-> Entry.data]
    <3>1. kept' = kept \cup {c}
      BY <2>2, Here DEF Wanted
    <3>2. \A k \in kept : k.name = c.name /\ k.inside = c.inside => k.data = c.data
      BY <2>2 DEF Clashes
    <3>. QED  BY <3>1, <3>2 DEF NamesAreTexts
  <2>. QED  BY <2>1, <2>2
<1>. QED  BY <1>6, <1>7, <1>8, <1>9, <1>10

\* What happens without a step to the next member.
LEMMA StandHolds ==
    ASSUME IInv, UNCHANGED Reading,
           expansion' # "fs" \/ expansion' = expansion \/ next = Len(archive) + 1
    PROVE  IInv'
<1>. USE DEF IInv, Reading
<1>1. /\ Members' = Members /\ InPrefix' = InPrefix /\ Evidence' = Evidence
      /\ \A i : Contribution(i)' = Contribution(i)
  BY DEF Members, InPrefix, Evidence, Contribution
<1>2. Progress' /\ Seen'
  BY <1>1 DEF Progress, Seen
<1>3. KeptIsEvidence' /\ EvidenceIsKept' /\ NamesAreTexts'
  BY <1>1 DEF KeptIsEvidence, EvidenceIsKept, NamesAreTexts
<1>. QED  BY <1>2, <1>3

LEMMA NextHolds == IInv /\ [ExpandNext]_expandVars => IInv'
<1> SUFFICES ASSUME IInv, [ExpandNext]_expandVars PROVE IInv'
  OBVIOUS
<1>1. CASE RefuseEntries \/ RefuseStream \/ Unreadable \/ RefuseMember
  BY <1>1, StandHolds
  DEF RefuseEntries, RefuseStream, Unreadable, RefuseMember, Fail, Reading
<1>2. CASE PassOver
  BY <1>2, AdvanceHolds DEF PassOver
<1>3. CASE Keep
  <2>1. CASE Clashes(EntryName, EntryInside, Entry.data)
    BY <1>3, <2>1, StandHolds DEF Keep, Fail, Reading
  <2>2. CASE ~Clashes(EntryName, EntryInside, Entry.data)
    <3>1. AtMember /\ Wanted /\ Advance /\ UNCHANGED <<archive, expansion>>
      BY <1>3, <2>2 DEF Keep
    <3>2. kept' = kept \cup {Contribution(next)}
      BY <1>3, <2>2, <3>1, Here DEF Keep, Wanted, IInv
    <3>. QED  BY <2>2, <3>1, <3>2, AdvanceHolds
  <2>. QED  BY <2>1, <2>2
<1>4. CASE Finish
  <2>1. archive \in Seq([regular : BOOLEAN, path : Seq(STRING), data : DOMAIN SizeOf])
    BY ArchiveAssumption DEF IInv, Progress
  <2>2. next = Len(archive) + 1
    BY <1>4, <2>1 DEF Finish, IInv, Progress
  <2>. QED  BY <1>4, <2>2, StandHolds DEF Finish, Reading
<1>5. CASE UNCHANGED expandVars
  BY <1>5, StandHolds DEF expandVars, Reading
<1>. QED  BY <1>1, <1>2, <1>3, <1>4, <1>5 DEF ExpandNext

THEOREM ExpansionInvariance == ExpandSpec => []IInv
  BY InitHolds, NextHolds, PTL DEF ExpandSpec

-----------------------------------------------------------------------------

\* The expansion of any archive is the evidence of one root, in whatever order
\* its members come (OneRoot).
THEOREM ExpansionIsOneRoot == ExpandSpec => []OneRoot
<1>1. IInv => OneRoot
  <2> SUFFICES ASSUME IInv, expansion = "fs"
               PROVE  Resolve = {Contribution(i) :
                         i \in {j \in Evidence : (j \in InPrefix) <=> (InPrefix # {})}}
    BY DEF OneRoot
  <2>1. archive \in Seq([regular : BOOLEAN, path : Seq(STRING), data : DOMAIN SizeOf])
    BY ArchiveAssumption DEF IInv, Progress
  <2>2. \A i \in Members : i < next
    BY <2>1 DEF IInv, Progress, Members
  <2>3. InPrefix \subseteq Members /\ Evidence \subseteq Members
    BY DEF InPrefix, Evidence
  <2>4. prefixSeen = (InPrefix # {})
    BY <2>2, <2>3 DEF IInv, Seen
  <2>5. \A i \in Evidence : Contribution(i).inside = (i \in InPrefix)
    BY DEF Contribution
  <2>6. \A k \in kept : \E i \in Evidence : k = Contribution(i)
    BY DEF IInv, KeptIsEvidence
  <2>7. \A i \in Evidence : (i \in InPrefix) = prefixSeen => Contribution(i) \in kept
    BY <2>2, <2>3 DEF IInv, EvidenceIsKept, Seen
  <2>. QED  BY <2>4, <2>5, <2>6, <2>7 DEF Resolve
<1>. QED  BY <1>1, ExpansionInvariance, PTL

\* No text of an expansion took another one's place (OneText).
THEOREM NoTextIsReplaced == ExpandSpec => []OneText
<1>1. IInv => OneText
  BY DEF IInv, NamesAreTexts, OneText, Resolve
<1>. QED  BY <1>1, ExpansionInvariance, PTL
-----------------------------------------------------------------------------
(* The bounds.                                                             *)

\* What is charged of the members before the next one, and these themselves.
ChargedSoFar == {i \in Charged : i < next}
Before == {i \in DOMAIN archive : i < next}

\* The total is what the charged members before the next one expand to, and what is
\* kept is no more than that; a tar's stream was read up to the next member.
Budget ==
    /\ format \in {"zip", "tar"}
    /\ expansion \in {"reading", "fs"} \cup Failures
    /\ total = Weight(Sizes, ChargedSoFar) /\ total <= MaxExpanded
    /\ spent = IF format = "tar" THEN Weight(Frames, Before) ELSE 0
    /\ IsFiniteSet(kept)
    /\ \A k \in kept : k.inside \in BOOLEAN /\ k.data \in DOMAIN SizeOf /\ k.name # <<>>
    /\ \A k \in kept : \E i \in ChargedSoFar : k = Contribution(i)
    /\ Weight([k \in kept |-> SizeOf[k.data]], kept) <= total

\* The archive as the sums see it.
LEMMA ArchiveIs ==
    ASSUME archive \in Archives
    PROVE  /\ archive \in Seq([regular : BOOLEAN, path : Seq(STRING), data : DOMAIN SizeOf])
           /\ Len(archive) \in Nat /\ DOMAIN archive = 1..Len(archive)
           /\ DOMAIN archive \subseteq Nat /\ IsFiniteSet(DOMAIN archive)
           /\ \A i \in DOMAIN archive : archive[i].data \in DOMAIN SizeOf
           /\ \A i \in DOMAIN archive : Sizes[i] \in Nat /\ Sizes[i] = SizeOf[archive[i].data]
           /\ \A i \in DOMAIN archive : Frames[i] \in Nat /\ Frames[i] = Sizes[i] + Header
           /\ Charged \subseteq DOMAIN archive
           /\ {MaxEntries, MaxExpanded, MaxDecompressed, Header} \subseteq Nat
<1>1. archive \in Seq([regular : BOOLEAN, path : Seq(STRING), data : DOMAIN SizeOf])
  BY ArchiveAssumption
<1>2. Len(archive) \in Nat /\ DOMAIN archive = 1..Len(archive)
  BY <1>1
<1>3. IsFiniteSet(1..Len(archive))
  BY <1>2, FS_Interval
<1>4. \A i \in DOMAIN archive : archive[i].data \in DOMAIN SizeOf
  <2>1. \A R : archive \in Seq(R) => \A i \in DOMAIN archive : archive[i] \in R
    OBVIOUS
  <2>2. \A A, B, C : \A m \in [regular : A, path : B, data : C] : m.data \in C
    OBVIOUS
  <2>3. \A i \in DOMAIN archive :
            archive[i] \in [regular : BOOLEAN, path : Seq(STRING), data : DOMAIN SizeOf]
    BY <1>1, <2>1
  <2>. QED  BY <2>2, <2>3
<1>5. {MaxEntries, MaxExpanded, MaxDecompressed, Header} \subseteq Nat
  BY ArchiveAssumption
<1>6. \A i \in DOMAIN archive : Sizes[i] \in Nat /\ Sizes[i] = SizeOf[archive[i].data]
  BY <1>4, ArchiveAssumption DEF Sizes
<1>7. \A i \in DOMAIN archive : Frames[i] \in Nat /\ Frames[i] = Sizes[i] + Header
  BY <1>5, <1>6 DEF Frames
<1>8. Charged \subseteq DOMAIN archive
  BY DEF Charged, Evidence, Members
<1>. QED  BY <1>1, <1>2, <1>3, <1>4, <1>5, <1>6, <1>7, <1>8

\* A member is wanted exactly when it is one that the budget is spent on.
LEMMA WantedIsCharged ==
    ASSUME IInv, AtMember
    PROVE  Wanted <=> next \in Charged
<1>1. next \in Nat /\ InPrefix \subseteq Nat
  <2>1. archive \in Archives /\ next \in 1..Len(archive) + 1
    BY DEF IInv, Progress
  <2>. QED  BY <2>1, ArchiveIs DEF InPrefix, Members
<1>2. (\A j \in InPrefix : next < j) <=> next \notin InPrefix /\ ~prefixSeen
  BY <1>1 DEF IInv, Seen
<1>3. /\ next \in Evidence <=> Named /\ Retain(EntryName)
      /\ next \in InPrefix <=> Named /\ EntryInside
  BY Here DEF IInv
<1>. QED  BY <1>2, <1>3 DEF Wanted, Skip, Noted, Charged

\* What one member more weighs.
LEMMA OneMemberMore ==
    ASSUME IInv, Budget, AtMember
    PROVE  /\ next \in DOMAIN archive /\ Size = Sizes[next] /\ Size \in Nat
           /\ total \in Nat
           /\ Weight(Frames, Before \cup {next}) = Weight(Frames, Before) + (Size + Header)
           /\ Weight(Frames, Before) \in Nat
           /\ Weight(Sizes, ChargedSoFar \cup {next}) = total + Size
<1>1. archive \in Archives /\ next \in DOMAIN archive
  BY Here DEF IInv, Progress
<1>2. Size = Sizes[next] /\ Size \in Nat /\ Frames[next] = Size + Header /\ Frames[next] \in Nat
  BY <1>1, ArchiveIs DEF Size, Entry
<1>3. /\ Before \in SUBSET DOMAIN archive /\ ChargedSoFar \in SUBSET DOMAIN archive
      /\ next \notin Before /\ next \notin ChargedSoFar
  BY <1>1, ArchiveIs DEF Before, ChargedSoFar
<1>4. /\ IsFiniteSet(Before) /\ \A i \in Before : Frames[i] \in Nat
  BY <1>1, <1>3, ArchiveIs, PartIsFinite
<1>5. /\ IsFiniteSet(ChargedSoFar) /\ \A i \in ChargedSoFar : Sizes[i] \in Nat
  BY <1>1, <1>3, ArchiveIs, PartIsFinite
<1>6. total \in Nat
  BY <1>5, WeightType DEF Budget
<1>7. Weight(Frames, Before) \in Nat
  BY <1>4, WeightType
<1>8. Weight(Frames, Before \cup {next}) = Weight(Frames, Before) + Frames[next]
  BY <1>2, <1>3, <1>4, WeightGrows
<1>9. Weight(Sizes, ChargedSoFar \cup {next}) = Weight(Sizes, ChargedSoFar) + Sizes[next]
  BY <1>2, <1>3, <1>5, WeightGrows
<1>. QED  BY <1>1, <1>2, <1>6, <1>7, <1>8, <1>9 DEF Budget

\* What keeping one member more holds.
LEMMA OneKeptMore ==
    ASSUME Budget, NEW c, c.data \in DOMAIN SizeOf
    PROVE  /\ IsFiniteSet(kept \cup {c})
           /\ Weight([k \in kept \cup {c} |-> SizeOf[k.data]], kept \cup {c})
                <= Weight([k \in kept |-> SizeOf[k.data]], kept) + SizeOf[c.data]
           /\ Weight([k \in kept |-> SizeOf[k.data]], kept) \in Nat
           /\ SizeOf[c.data] \in Nat
<1> DEFINE w == [k \in kept |-> SizeOf[k.data]]
           v == [k \in kept \cup {c} |-> SizeOf[k.data]]
<1>1. IsFiniteSet(kept) /\ IsFiniteSet(kept \cup {c})
  BY FS_AddElement DEF Budget
<1>2. \A k \in kept : w[k] \in Nat /\ v[k] = w[k]
  BY ArchiveAssumption DEF Budget
<1>3. v[c] = SizeOf[c.data] /\ v[c] \in Nat
  BY ArchiveAssumption
<1>. HIDE DEF w, v
<1>4. Weight(v, kept) = Weight(w, kept)
  BY <1>1, <1>2, WeightAgrees
<1>5. Weight(w, kept) \in Nat
  BY <1>1, <1>2, WeightType
<1>6. CASE c \in kept
  <2>1. kept \cup {c} = kept
    BY <1>6
  <2>2. \A i \in Nat, j \in Nat : i <= i + j
    OBVIOUS
  <2>. QED  BY <1>1, <1>3, <1>4, <1>5, <2>1, <2>2 DEF w, v
<1>7. CASE c \notin kept
  <2>1. Weight(v, kept \cup {c}) = Weight(v, kept) + v[c]
    BY <1>1, <1>2, <1>3, <1>7, WeightGrows
  <2>2. \A i \in Nat : i <= i
    OBVIOUS
  <2>3. Weight(w, kept) + v[c] \in Nat
    BY <1>3, <1>5
  <2>. QED  BY <1>1, <1>3, <1>4, <1>5, <2>1, <2>2, <2>3 DEF w, v
<1>. QED  BY <1>6, <1>7

\* The bounds that a member runs into are reached by what is charged, or streamed, in all.
LEMMA BoundsAreReached ==
    ASSUME IInv, Budget, AtMember
    PROVE  /\ Wanted /\ TooLarge => Expansion >= MaxExpanded
           /\ Wanted /\ total < MaxExpanded /\ Exhausted(Header + ReadOf) =>
                format = "tar" /\ Stream > MaxDecompressed
<1>1. archive \in Archives
  BY DEF IInv, Progress
<1>2. /\ MaxExpanded \in Nat /\ MaxDecompressed \in Nat /\ Header \in Nat
      /\ total \in Nat /\ Size \in Nat /\ next \in DOMAIN archive
  BY <1>1, ArchiveIs, OneMemberMore
<1>3. Charged \in SUBSET DOMAIN archive /\ IsFiniteSet(Charged) /\ \A i \in Charged : Sizes[i] \in Nat
  BY <1>1, ArchiveIs, PartIsFinite
<1>4. Expansion \in Nat
  BY <1>3, WeightType DEF Expansion
<1>5. ASSUME Wanted, TooLarge  PROVE Expansion >= MaxExpanded
  <2>1. ChargedSoFar \cup {next} \in SUBSET Charged
    BY <1>5, WantedIsCharged DEF ChargedSoFar
  <2>2. Weight(Sizes, ChargedSoFar \cup {next}) <= Expansion
    BY <1>3, <2>1, WeightOfPartIsLess DEF Expansion
  <2>3. total + Size <= Expansion
    BY <2>2, OneMemberMore
  <2>. QED  BY <1>2, <1>4, <1>5, <2>3 DEF TooLarge, Accumulated
<1>6. ASSUME total < MaxExpanded, Exhausted(Header + ReadOf)
      PROVE  format = "tar" /\ Stream > MaxDecompressed
  <2>1. Before \cup {next} \in SUBSET DOMAIN archive
    BY <1>2 DEF Before
  <2>2. Weight(Frames, Before \cup {next}) <= Weight(Frames, DOMAIN archive)
    BY <1>1, <2>1, ArchiveIs, WeightOfPartIsLess
  <2>3. spent = Weight(Frames, Before) /\ format = "tar" /\ spent + (Header + ReadOf) > MaxDecompressed
    BY <1>6 DEF Exhausted, Budget
  <2>4. spent \in Nat /\ spent + (Size + Header) <= Weight(Frames, DOMAIN archive)
    BY <2>2, <2>3, OneMemberMore
  <2>5. Weight(Frames, DOMAIN archive) \in Nat
    BY <1>1, ArchiveIs, WeightType
  <2>6. ReadOf \in Nat /\ ReadOf <= Size
    BY <1>2, <1>6 DEF ReadOf
  <2>7. Stream > MaxDecompressed
    BY <1>2, <2>3, <2>4, <2>5, <2>6 DEF Stream
  <2>. QED  BY <2>3, <2>7
<1>. QED  BY <1>5, <1>6

\* The stream that ends before the next header is one that is too long.
LEMMA StreamIsReached ==
    ASSUME IInv, Budget, Exhausted(Header)
    PROVE  format = "tar" /\ Stream > MaxDecompressed
<1>1. archive \in Archives
  BY DEF IInv, Progress
<1>2. Before \in SUBSET DOMAIN archive
  BY DEF Before
<1>3. /\ IsFiniteSet(Before) /\ (\A i \in Before : Frames[i] \in Nat)
      /\ MaxDecompressed \in Nat /\ Header \in Nat
  BY <1>1, <1>2, ArchiveIs, PartIsFinite
<1>4. Weight(Frames, Before) \in Nat /\ Weight(Frames, DOMAIN archive) \in Nat
  BY <1>1, <1>3, ArchiveIs, WeightType
<1>5. Weight(Frames, Before) <= Weight(Frames, DOMAIN archive)
  BY <1>1, <1>2, ArchiveIs, WeightOfPartIsLess
<1>6. format = "tar" /\ Weight(Frames, Before) + Header > MaxDecompressed
  BY DEF Exhausted, Budget
<1>. QED  BY <1>3, <1>4, <1>5, <1>6 DEF Stream

\* Where an expansion comes from: it is reached once, for a cause the archive has.
LEMMA RefusalHasCause ==
    ASSUME IInv, Budget, RefusedForCause, [ExpandNext]_expandVars
    PROVE  RefusedForCause'
<1>1. archive \in Archives /\ next \in 1..Len(archive) + 1
  BY DEF IInv, Progress
<1>2. UNCHANGED <<format, archive>> /\ (expansion # "reading" => UNCHANGED expansion)
  BY DEF ExpandNext, expandVars, RefuseEntries, RefuseStream, Unreadable, PassOver, RefuseMember, Keep,
     Finish, Fail, AtMember, Advance
<1>3. /\ Charged' = Charged /\ Expansion' = Expansion /\ Stream' = Stream
      /\ \A i : Contribution(i)' = Contribution(i)
  BY <1>2 DEF Charged, Expansion, Stream, Sizes, Frames, Evidence, InPrefix, Members, Contribution
<1>4. CASE expansion # "reading"
  BY <1>2, <1>3, <1>4 DEF RefusedForCause
<1>5. CASE expansion = "reading"
  <2>1. expansion' = "entries" => Len(archive) > MaxEntries
    <3> SUFFICES ASSUME expansion' = "entries"  PROVE Len(archive) > MaxEntries
      OBVIOUS
    <3>1. TooManyEntries
      BY <1>5 DEF ExpandNext, expandVars, RefuseEntries, RefuseStream, Unreadable, PassOver, RefuseMember,
         Keep, Finish, Fail
    <3>. QED  BY <1>1, <3>1, ArchiveIs DEF TooManyEntries
  <2>2. expansion' = "expanded" => Expansion >= MaxExpanded
    <3> SUFFICES ASSUME expansion' = "expanded"  PROVE Expansion >= MaxExpanded
      OBVIOUS
    <3>1. AtMember /\ Wanted /\ TooLarge
      BY <1>5 DEF ExpandNext, expandVars, RefuseEntries, RefuseStream, Unreadable, PassOver, RefuseMember,
         Keep, Finish, Fail
    <3>. QED  BY <3>1, BoundsAreReached
  <2>3. expansion' = "decompressed" => format = "tar" /\ Stream > MaxDecompressed
    <3> SUFFICES ASSUME expansion' = "decompressed"  PROVE format = "tar" /\ Stream > MaxDecompressed
      OBVIOUS
    <3>1. \/ Exhausted(Header)
          \/ AtMember /\ Wanted /\ total < MaxExpanded /\ Exhausted(Header + ReadOf)
      BY <1>5 DEF ExpandNext, expandVars, RefuseEntries, RefuseStream, Unreadable, PassOver, RefuseMember,
         Keep, Finish, Fail
    <3>. QED  BY <3>1, StreamIsReached, BoundsAreReached
  <2>4. expansion' = "clash" =>
          \E i, j \in Charged : /\ Contribution(i).name = Contribution(j).name
                                /\ Contribution(i).inside = Contribution(j).inside
                                /\ archive[i].data # archive[j].data
    <3> SUFFICES ASSUME expansion' = "clash"
                 PROVE  \E i, j \in Charged : /\ Contribution(i).name = Contribution(j).name
                                              /\ Contribution(i).inside = Contribution(j).inside
                                              /\ archive[i].data # archive[j].data
      OBVIOUS
    <3>1. AtMember /\ Wanted /\ Clashes(EntryName, EntryInside, Entry.data)
      BY <1>5 DEF ExpandNext, expandVars, RefuseEntries, RefuseStream, Unreadable, PassOver, RefuseMember,
         Keep, Finish, Fail
    <3>2. PICK k \in kept : k.name = EntryName /\ k.inside = EntryInside /\ k.data # Entry.data
      BY <3>1 DEF Clashes
    <3>3. PICK i \in Charged : k = Contribution(i)
      BY DEF Budget, ChargedSoFar
    <3>4. k.data = archive[i].data
      BY <3>3 DEF Contribution
    <3>5. next \in Charged /\ Contribution(next).name = EntryName
          /\ Contribution(next).inside = EntryInside
      BY <3>1, WantedIsCharged, Here DEF IInv, Wanted
    <3>. QED  BY <3>2, <3>3, <3>4, <3>5 DEF Entry
  <2>. QED  BY <1>2, <1>3, <2>1, <2>2, <2>3, <2>4 DEF RefusedForCause
<1>. QED  BY <1>4, <1>5

\* What a step that stays at its member leaves of the budget.
LEMMA StandKeepsBudget ==
    ASSUME Budget, UNCHANGED <<format, archive, next, spent, total, kept>>,
           expansion' \in {"reading", "fs"} \cup Failures
    PROVE  Budget'
<1>1. /\ ChargedSoFar' = ChargedSoFar /\ Before' = Before
      /\ Sizes' = Sizes /\ Frames' = Frames
      /\ \A i : Contribution(i)' = Contribution(i)
  BY DEF ChargedSoFar, Charged, Before, Sizes, Frames, Evidence, InPrefix, Members, Contribution
<1>. QED  BY <1>1 DEF Budget, Failures

\* And what one does that goes on to the next.
LEMMA AdvanceKeepsBudget ==
    ASSUME IInv, Budget, AtMember, Advance, UNCHANGED <<format, archive, expansion>>,
           Wanted => ~TooLarge,
           total' = IF Wanted THEN total + Size ELSE total,
           kept' = IF Wanted THEN kept \cup {Contribution(next)} ELSE kept
    PROVE  Budget'
<1> DEFINE c == Contribution(next)
<1>1. archive \in Archives /\ next \in Nat
  <2>1. archive \in Archives /\ next \in 1..Len(archive) + 1
    BY DEF IInv, Progress
  <2>. QED  BY <2>1, ArchiveIs
<1>2. /\ next \in DOMAIN archive /\ Size \in Nat /\ total \in Nat
      /\ Weight(Frames, Before) \in Nat /\ MaxExpanded \in Nat /\ Header \in Nat
      /\ DOMAIN archive \subseteq Nat /\ Charged \subseteq DOMAIN archive
  BY <1>1, ArchiveIs, OneMemberMore
<1>3. /\ Sizes' = Sizes /\ Frames' = Frames /\ Charged' = Charged
      /\ \A i : Contribution(i)' = Contribution(i)
  BY DEF Charged, Sizes, Frames, Evidence, InPrefix, Members, Contribution
<1>4. next' = next + 1
  BY DEF Advance
<1>5. Before' = Before \cup {next}
  BY <1>1, <1>2, <1>4 DEF Before
<1>6. ChargedSoFar' = IF Wanted THEN ChargedSoFar \cup {next} ELSE ChargedSoFar
  <2>1. \A i \in Charged : i < next + 1 <=> i < next \/ i = next
    BY <1>1, <1>2
  <2>2. ChargedSoFar' = {i \in Charged : i < next + 1}
    BY <1>3, <1>4 DEF ChargedSoFar
  <2>. QED  BY <2>1, <2>2, WantedIsCharged DEF ChargedSoFar
<1>7. spent' = IF format = "tar" THEN Weight(Frames, Before)' ELSE 0
  <2>1. CASE format = "tar"
    <3>1. spent' = Weight(Frames, Before) + Header + Size
      BY <2>1 DEF Advance, Budget
    <3>2. Weight(Frames, Before) + Header + Size = Weight(Frames, Before) + (Size + Header)
      BY <1>2
    <3>. QED  BY <1>3, <1>5, <2>1, <3>1, <3>2, OneMemberMore
  <2>2. CASE format # "tar"
    BY <2>2 DEF Advance, Budget
  <2>. QED  BY <2>1, <2>2
<1>8. total' = Weight(Sizes, ChargedSoFar)'
  BY <1>3, <1>6, OneMemberMore DEF Budget
<1>9. total' <= MaxExpanded
  BY <1>2 DEF TooLarge, Accumulated, Budget
<1>10. CASE ~Wanted
  <2>1. UNCHANGED <<kept, total>> /\ ChargedSoFar' = ChargedSoFar
    BY <1>6, <1>10
  <2>. QED  BY <1>3, <1>7, <1>8, <1>9, <2>1 DEF Budget, Failures
<1>11. CASE Wanted
  <2>1. c = [inside |-> EntryInside, name |-> EntryName, data |-> Entry.data] /\ Named
    BY <1>11, Here DEF IInv, Wanted
  <2>2. c.data = Entry.data /\ c.name # <<>> /\ c.inside \in BOOLEAN
    BY <2>1, SideIsBoolean DEF Named, EntryInside
  <2>3. c.data \in DOMAIN SizeOf /\ SizeOf[c.data] = Size
    BY <1>1, <1>2, <2>2, ArchiveIs DEF Entry, Size
  <2>4. kept' = kept \cup {c} /\ next \in ChargedSoFar' /\ ChargedSoFar \subseteq ChargedSoFar'
    BY <1>6, <1>11
  <2>. HIDE DEF c
  <2>5. /\ IsFiniteSet(kept \cup {c})
        /\ Weight([k \in kept \cup {c} |-> SizeOf[k.data]], kept \cup {c})
             <= Weight([k \in kept |-> SizeOf[k.data]], kept) + Size
        /\ Weight([k \in kept |-> SizeOf[k.data]], kept) \in Nat
        /\ Weight([k \in kept |-> SizeOf[k.data]], kept) <= total
    BY <2>3, OneKeptMore DEF Budget
  <2>6. Weight([k \in kept \cup {c} |-> SizeOf[k.data]], kept \cup {c}) \in Nat
    <3> DEFINE T == kept \cup {c}
               v == [k \in T |-> SizeOf[k.data]]
    <3>1. \A k \in T : v[k] \in Nat
      BY <2>3, ArchiveAssumption DEF Budget
    <3>2. IsFiniteSet(T)
      BY <2>5
    <3>. HIDE DEF T, v
    <3>3. Weight(v, T) \in Nat
      BY <3>1, <3>2, WeightType
    <3>. QED  BY <3>3 DEF T, v
  <2>7. Weight([k \in kept \cup {c} |-> SizeOf[k.data]], kept \cup {c}) <= total + Size
    <3>1. \A i \in Nat, j \in Nat, k \in Nat, l \in Nat : i <= j + k /\ j <= l => i <= l + k
      OBVIOUS
    <3>. QED  BY <1>2, <2>5, <2>6, <3>1
  <2>8. (Weight([k \in kept |-> SizeOf[k.data]], kept) <= total)'
    BY <1>11, <2>4, <2>7
  <2>9. \A k \in kept' : \E i \in ChargedSoFar' : k = Contribution(i)
    BY <2>4 DEF Budget, c
  <2>10. \A k \in kept' : k.inside \in BOOLEAN /\ k.data \in DOMAIN SizeOf /\ k.name # <<>>
    BY <2>2, <2>3, <2>4 DEF Budget
  <2>11. IsFiniteSet(kept')
    BY <2>4, <2>5
  <2>12. /\ format' \in {"zip", "tar"}
         /\ expansion' \in {"reading", "fs"} \cup Failures
    BY DEF Budget
  <2>. QED  BY <1>3, <1>7, <1>8, <1>9, <2>8, <2>9, <2>10, <2>11, <2>12 DEF Budget, Failures
<1>. QED  BY <1>10, <1>11

LEMMA BudgetAtStart == ExpandInit => Budget /\ RefusedForCause
<1> SUFFICES ASSUME ExpandInit PROVE Budget /\ RefusedForCause
  OBVIOUS
<1>1. archive \in Archives /\ next = 1
  BY DEF ExpandInit
<1>2. DOMAIN archive = 1..Len(archive) /\ Len(archive) \in Nat /\ Charged \subseteq DOMAIN archive
  BY <1>1, ArchiveIs
<1>3. Before = {} /\ ChargedSoFar = {}
  BY <1>1, <1>2 DEF Before, ChargedSoFar
<1>4. kept = {} /\ IsFiniteSet({})
  BY FS_EmptySet DEF ExpandInit
<1>5. Weight(Sizes, {}) = 0 /\ Weight(Frames, {}) = 0 /\ Weight([k \in kept |-> SizeOf[k.data]], {}) = 0
  BY WeightEmpty
<1>6. MaxExpanded \in Nat /\ 0 <= MaxExpanded
  BY ArchiveAssumption
<1>7. Budget
  BY <1>3, <1>4, <1>5, <1>6 DEF ExpandInit, Budget
<1>8. RefusedForCause
  BY DEF ExpandInit, RefusedForCause
<1>. QED  BY <1>7, <1>8

LEMMA BudgetHolds == IInv /\ Budget /\ [ExpandNext]_expandVars => Budget'
<1> SUFFICES ASSUME IInv, Budget, [ExpandNext]_expandVars PROVE Budget'
  OBVIOUS
<1>1. CASE RefuseEntries \/ RefuseStream \/ Unreadable \/ RefuseMember
  BY <1>1, StandKeepsBudget
  DEF RefuseEntries, RefuseStream, Unreadable, RefuseMember, Fail, Failures
<1>2. CASE PassOver
  BY <1>2, AdvanceKeepsBudget DEF PassOver
<1>3. CASE Keep
  <2>1. CASE Clashes(EntryName, EntryInside, Entry.data)
    BY <1>3, <2>1, StandKeepsBudget DEF Keep, Fail, Failures
  <2>2. CASE ~Clashes(EntryName, EntryInside, Entry.data)
    <3>1. /\ AtMember /\ Wanted /\ ~TooLarge /\ Advance /\ UNCHANGED <<format, archive, expansion>>
          /\ total' = total + Size
      BY <1>3, <2>2 DEF Keep, Accumulated
    <3>2. kept' = kept \cup {Contribution(next)}
      BY <1>3, <2>2, <3>1, Here DEF Keep, Wanted, IInv
    <3>. QED  BY <3>1, <3>2, AdvanceKeepsBudget
  <2>. QED  BY <2>1, <2>2
<1>4. CASE Finish
  BY <1>4, StandKeepsBudget DEF Finish
<1>5. CASE UNCHANGED expandVars
  BY <1>5, StandKeepsBudget DEF expandVars, Budget
<1>. QED  BY <1>1, <1>2, <1>3, <1>4, <1>5 DEF ExpandNext

\* What an expansion keeps never outgrows MaxExpandedBytes, and an archive that is refused
\* for the number of its members, for their bytes, for its stream or for a name with two
\* contents has too many, reaches that bound or holds the two, wherever in it they are
\* (readMember, boundedReader, members.add).
THEOREM BoundsDecideBothWays == ExpandSpec => []BoundsDecide
<1>1. IInv /\ Budget /\ RefusedForCause => BoundsDecide
  <2> SUFFICES ASSUME IInv, Budget, RefusedForCause PROVE BoundsDecide
    OBVIOUS
  <2>1. archive \in Archives /\ next \in 1..Len(archive) + 1
    BY DEF IInv, Progress
  <2>2. /\ Before \in SUBSET DOMAIN archive /\ ChargedSoFar \in SUBSET DOMAIN archive
        /\ MaxExpanded \in Nat
    BY <2>1, ArchiveIs DEF Before, ChargedSoFar
  <2>3. IsFiniteSet(Before) /\ IsFiniteSet(ChargedSoFar)
    BY <2>1, <2>2, ArchiveIs, PartIsFinite
  <2>4. Weight(Frames, Before) \in Nat /\ Weight(Sizes, ChargedSoFar) \in Nat
    BY <2>1, <2>2, <2>3, ArchiveIs, WeightType
  <2>5. spent \in Nat /\ total \in 0..MaxExpanded
    BY <2>2, <2>4 DEF Budget
  <2>6. ArchiveTypeOK
    BY <2>1, <2>5 DEF ArchiveTypeOK, Budget, IInv, Seen
  <2> DEFINE held == Weight([k \in kept |-> SizeOf[k.data]], kept)
  <2>7. held \in Nat
    <3> DEFINE w == [k \in kept |-> SizeOf[k.data]]
    <3>1. IsFiniteSet(kept) /\ \A k \in kept : w[k] \in Nat
      BY ArchiveAssumption DEF Budget
    <3>. HIDE DEF w
    <3>2. Weight(w, kept) \in Nat
      BY <3>1, WeightType
    <3>. QED  BY <3>2 DEF w
  <2>8. held <= total /\ total <= MaxExpanded /\ total \in Nat
    BY <2>5 DEF Budget
  <2>9. held <= MaxExpanded
    <3>. HIDE DEF held
    <3>. QED  BY <2>2, <2>7, <2>8
  <2>. QED  BY <2>6, <2>9 DEF BoundsDecide, HeldWithinBound
<1>. QED  BY <1>1, BudgetAtStart, BudgetHolds, RefusalHasCause, ExpansionInvariance, PTL DEF ExpandSpec
=============================================================================
