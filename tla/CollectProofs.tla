---------------------------- MODULE CollectProofs ----------------------------
(***************************************************************************)
(* Collect.tla for every tree, every set of components and every way in    *)
(* which a collection may go wrong: the types, the owner of each license   *)
(* file, what the bundle's keys and copies say of its files, and what its  *)
(* answer, its closure and its gaps say of the tree as it is.              *)
(***************************************************************************)
EXTENDS VendoredCopy, Induction, SequenceTheorems
-----------------------------------------------------------------------------
(* Which component owns a file, for trees and sets of roots of any shape:  *)
(* leaving out the roots nested in one's own is the same as giving every   *)
(* file to the longest root that holds it.                                 *)

\* A root's root holds what the root holds.
LEMMA InsideTransitive ==
    ASSUME NEW S, NEW p \in Seq(S), NEW q \in Seq(S), NEW r \in Seq(S),
           Inside(p, q), Inside(q, r)
    PROVE  Inside(p, r)
BY DEF Inside

\* Of two roots that hold one file, the longer lies inside the shorter.
LEMMA InsideLinear ==
    ASSUME NEW S, NEW p \in Seq(S), NEW q \in Seq(S), NEW r \in Seq(S),
           Inside(p, q), Inside(p, r), Len(q) < Len(r)
    PROVE  Inside(r, q)
BY DEF Inside

\* Of two roots that hold one file, equally long ones are one.
LEMMA InsideSame ==
    ASSUME NEW S, NEW p \in Seq(S), NEW q \in Seq(S), NEW r \in Seq(S),
           Inside(p, q), Inside(p, r), Len(q) = Len(r)
    PROVE  q = r
BY DEF Inside

\* Making paths relative to a root that holds them loses nothing.
LEMMA RelativeInjective ==
    ASSUME NEW S, NEW p \in Seq(S), NEW q \in Seq(S), NEW root \in Seq(S),
           Inside(p, root), Inside(q, root),
           SubSeq(p, Len(root) + 1, Len(p)) = SubSeq(q, Len(root) + 1, Len(q))
    PROVE  p = q
<1> DEFINE k == Len(root)
           s == SubSeq(p, k + 1, Len(p))
           t == SubSeq(q, k + 1, Len(q))
<1>1. Len(p) = Len(q)
  <2>1. Len(s) = Len(p) - k /\ Len(t) = Len(q) - k
    BY DEF Inside
  <2>. QED  BY <2>1
<1>2. ASSUME NEW i \in 1..Len(p)  PROVE p[i] = q[i]
  <2>1. CASE i <= k
    BY <2>1 DEF Inside
  <2>2. CASE i > k
    <3>1. i - k \in 1..Len(s) /\ i - k \in 1..Len(t)
      BY <1>1, <2>2 DEF Inside
    <3>2. s[i - k] = p[i] /\ t[i - k] = q[i]
      BY <1>1, <2>2, <3>1 DEF Inside
    <3>. QED  BY <3>2
  <2>. QED  BY <2>1, <2>2
<1>. QED  BY <1>1, <1>2

\* What Relative leaves to a root is what no longer root holds.
LEMMA LongestOwns ==
    ASSUME NEW S, NEW p \in Seq(S), NEW all \in SUBSET Seq(S), NEW root \in all,
           Inside(p, root)
    PROVE  ~OwnedByNested(p, NestedRoots(root, all))
           <=> \A s \in all : Inside(p, s) => Len(s) <= Len(root)
<1>1. ASSUME ~OwnedByNested(p, NestedRoots(root, all)),
             NEW s \in all, Inside(p, s), ~(Len(s) <= Len(root))
      PROVE  FALSE
  <2>1. Inside(s, root)
    BY <1>1, InsideLinear
  <2>. QED  BY <1>1, <2>1 DEF NestedRoots, OwnedByNested
<1>2. ASSUME \A s \in all : Inside(p, s) => Len(s) <= Len(root),
             OwnedByNested(p, NestedRoots(root, all))
      PROVE  FALSE
  BY <1>2 DEF NestedRoots, OwnedByNested, Inside
<1>. QED  BY <1>1, <1>2

\* No record is owned by two roots: a license file of nested vendored components
\* is hashed into one of them only (Relative with NestedRoots).
THEOREM NoSharedRecord ==
    ASSUME NEW S, NEW all \in SUBSET Seq(S), NEW q \in all, NEW r \in all, q # r,
           NEW records, \A x \in records : x.path \in Seq(S)
    PROVE  Owned(records, q, NestedRoots(q, all))
               \cap Owned(records, r, NestedRoots(r, all)) = {}
<1> SUFFICES ASSUME NEW x \in Owned(records, q, NestedRoots(q, all)),
                    x \in Owned(records, r, NestedRoots(r, all))
             PROVE  FALSE
  OBVIOUS
<1>1. x.path \in Seq(S) /\ Inside(x.path, q) /\ Inside(x.path, r)
  BY DEF Owned
<1>2. Len(r) <= Len(q) /\ Len(q) <= Len(r)
  BY <1>1, LongestOwns DEF Owned
<1>3. q = r
  BY <1>1, <1>2, InsideSame
<1>. QED  BY <1>3
-----------------------------------------------------------------------------
(* What every state of a collection satisfies.                             *)

\* What a file of the bundle is: discovered or declared, with a digest unless
\* it carries an error.
Discovered ==
    \A f \in files :
        /\ f.path \in Declared \/ IsLicenseFile(f.path)
        /\ ~f.err => f.digest # None

\* What the last step derived still stands when the collection is over.
Assembled ==
    pc = "done" =>
    /\ \A c \in bundle.components : c.name \in Seq(Segments)
    /\ bundle.copies = VendoredRoots(bundle.components)
    /\ bundle.hashes = HashVendored(bundle.copies)
    /\ bundle.key = Compute(OwnFiles(bundle.copies))

IInv == TypeOK /\ Discovered /\ Assembled

\* The paths of the model are sequences of segments.
LEMMA Paths ==
    /\ Files \subseteq Seq(Segments) /\ Declared \subseteq Seq(Segments)
    /\ ModDir \o <<"vendor">> \in Seq(Segments)
    /\ None \notin Seq(Segments)
<1>. USE CollectAssumption
<1>1. <<"vendor">> \in Seq(Segments)
  <2>1. "vendor" \in Segments
    OBVIOUS
  <2>. QED  BY <2>1
<1>2. ModDir \o <<"vendor">> \in Seq(Segments)
  BY <1>1, ConcatProperties
<1>. QED  BY <1>2

\* What a file reads as.
LEMMA ReadFileIs ==
    ASSUME TypeOK, NEW p \in Selected
    PROVE  LET f == ReadFile(p) IN
           /\ f.path \in Files \cup Declared
           /\ f.digest \in {None} \cup {Text[q] : q \in DOMAIN Text}
           /\ f.err \in BOOLEAN
           /\ f.path \in Declared \/ IsLicenseFile(f.path)
           /\ ~f.err => f.digest # None
<1>. USE CollectAssumption
<1>1. p \in Files => p \in DOMAIN Text /\ Text[p] # None
  BY DEF Selected, Candidates
<1>2. p \in Files \cup Declared /\ (p \in Declared \/ IsLicenseFile(p))
  BY DEF Selected, Candidates
<1>. QED  BY <1>1, <1>2 DEF ReadFile, Opens, Astray

\* An enumerator names components of its own ecosystem and fails for no other.
LEMMA EnumerateIs ==
    ASSUME TypeOK, NEW e \in Ecosystems
    PROVE  /\ \A c \in Enumerate(e).components :
                  c.ecosystem \in Ecosystems /\ c.name \in Seq(Segments)
           /\ Enumerate(e).failures \subseteq Ecosystems
<1>. USE CollectAssumption DEF Enumeration, PURL
<1>1. CASE e = "golang"
  <2>1. Enumerate(e) = EnumerateGo
    BY <1>1 DEF Enumerate
  <2>. QED  BY <2>1, <1>1 DEF EnumerateGo, Ecosystems
<1>2. CASE e \in {"cargo", "npm"}
  <2>1. Enumerate(e) = EnumerateLock(e)
    BY <1>2 DEF Enumerate
  <2>. QED  BY <2>1, <1>2 DEF EnumerateLock, Ecosystems
<1>3. CASE e \in {"pypi", "maven"}
  <2>1. Enumerate(e) = EnumerateInstalled(e)
    BY <1>3 DEF Enumerate
  <2>2. \A u \in Installed[e] : Unit(u).name \in Seq(Segments)
    <3>1. \A u \in Installed[e] : u \in Seq(Segments) /\ u # <<>>
      BY <1>3
    <3>2. \A u \in Seq(Segments) : u # <<>> => u[Len(u)] \in Segments
      OBVIOUS
    <3>. QED  BY <3>1, <3>2 DEF Unit, Base
  <2>. QED  BY <2>1, <2>2, <1>3 DEF EnumerateInstalled, Ecosystems
<1>. QED  BY <1>1, <1>2, <1>3 DEF Ecosystems

LEMMA RemainingIs ==
    ASSUME NEW t \in Remaining, t # <<>>
    PROVE  Head(t) \in Ecosystems /\ Tail(t) \in Remaining
<1>1. \A a, b, c : /\ Head(<<a, b, c>>) = a /\ Tail(<<a, b, c>>) = <<b, c>>
                   /\ Head(<<b, c>>) = b /\ Tail(<<b, c>>) = <<c>>
                   /\ Head(<<c>>) = c /\ Tail(<<c>>) = <<>>
  OBVIOUS
<1>2. /\ Head(SourceEcosystems) = "golang" /\ Tail(SourceEcosystems) = <<"cargo", "npm">>
      /\ Head(InstalledEcosystems) = "pypi" /\ Tail(InstalledEcosystems) = <<"maven">>
      /\ Head(<<"cargo", "npm">>) = "cargo" /\ Tail(<<"cargo", "npm">>) = <<"npm">>
      /\ Head(<<"npm">>) = "npm" /\ Tail(<<"npm">>) = <<>>
      /\ Head(<<"maven">>) = "maven" /\ Tail(<<"maven">>) = <<>>
  BY <1>1 DEF SourceEcosystems, InstalledEcosystems
<1>3. \/ t = SourceEcosystems \/ t = <<"cargo", "npm">> \/ t = <<"npm">>
      \/ t = InstalledEcosystems \/ t = <<"maven">>
  BY DEF Remaining
<1>4. Head(t) \in {"golang", "pypi", "cargo", "npm", "maven"}
  BY <1>2, <1>3
<1>5. Tail(t) \in {<<"cargo", "npm">>, <<"maven">>, <<"npm">>, <<>>}
  BY <1>2, <1>3
<1>. QED  BY <1>4, <1>5 DEF Remaining, Ecosystems

-----------------------------------------------------------------------------
(* The invariant                                                           *)

LEMMA InitHolds == Init => IInv
BY DEF Init, IInv, TypeOK, Discovered, Assembled, Remaining, Faults

\* Only Assemble ends a collection with a bundle.
LEMMA OnlyAssembleEnds ==
    ASSUME Next, pc' = "done"
    PROVE  Assemble
BY DEF Next, Cancel, Start, Source, Detection, Licensing, EnumerateSourceNext,
       EnumerateInstalledNext, EnumerateNext, OpenInstalled, Goto

LEMMA TypesKept ==
    ASSUME TypeOK, Next
    PROVE  TypeOK'
<1>. USE DEF treeVars, Goto
<1>1. CASE Cancel
  BY <1>1 DEF Cancel, TypeOK
<1>2. CASE Start
  BY <1>2 DEF Start, TypeOK
<1>3. CASE Source
  <2>1. \A g \in gaps' : g.kind \in GapKinds
    <3>1. \A g \in gaps : g.kind \in GapKinds
      BY DEF TypeOK
    <3>2. Gap("source", <<>>).kind \in GapKinds
      BY DEF Gap, GapKinds
    <3>. QED  BY <1>3, <3>1, <3>2 DEF Source
  <2>. QED  BY <1>3, <2>1 DEF Source, TypeOK
<1>4. CASE Detection
  <2>1. CASE pc' = "error"
    BY <1>4, <2>1 DEF Detection, TypeOK
  <2>2. CASE pc' # "error"
    <3>1. \A f \in files' : /\ f.path \in Files \cup Declared
                            /\ f.digest \in {None} \cup {Text[q] : q \in DOMAIN Text}
                            /\ f.err \in BOOLEAN
      <4>1. files' = {ReadFile(p) : p \in Selected}
        BY <1>4, <2>2 DEF Detection
      <4>. QED  BY <4>1, ReadFileIs
    <3>2. \A g \in gaps' : g.kind \in GapKinds
      <4>1. \A g \in gaps : g.kind \in GapKinds
        BY DEF TypeOK
      <4>2. \A d \in Unreadable : Gap("unreadable-tree", d).kind \in GapKinds
        BY DEF Gap, GapKinds
      <4>. QED  BY <1>4, <2>2, <4>1, <4>2 DEF Detection
    <3>. QED  BY <1>4, <2>2, <3>1, <3>2 DEF Detection, TypeOK
  <2>. QED  BY <2>1, <2>2
<1>5. CASE Licensing
  BY <1>5 DEF Licensing, Stated, Notices, VendorRoot, TypeOK, Remaining
<1>6. ASSUME NEW step \in {"enumerateSource", "enumerateInstalled"},
             NEW next \in {"installed", "assemble"},
             EnumerateNext(step, next)
      PROVE  TypeOK'
  <2>1. CASE todo = <<>>
    BY <1>6, <2>1 DEF EnumerateNext, TypeOK
  <2>2. CASE todo # <<>>
    <3>1. Head(todo) \in Ecosystems /\ Tail(todo) \in Remaining /\ <<>> \in Remaining
      BY <2>2, RemainingIs DEF TypeOK, Remaining
    <3>2. /\ \A c \in Enumerate(Head(todo)).components :
                 c.ecosystem \in Ecosystems /\ c.name \in Seq(Segments)
          /\ Enumerate(Head(todo)).failures \subseteq Ecosystems
      BY <3>1, EnumerateIs
    <3>. QED  BY <1>6, <2>2, <3>1, <3>2 DEF EnumerateNext, TypeOK
  <2>. QED  BY <2>1, <2>2
<1>7. CASE OpenInstalled
  <2>1. \A g \in gaps' : g.kind \in GapKinds
    <3>1. \A g \in gaps : g.kind \in GapKinds
      BY DEF TypeOK
    <3>2. /\ Gap("installed", <<>>).kind \in GapKinds
          /\ Gap("no-installed-trees", <<>>).kind \in GapKinds
      BY DEF Gap, GapKinds
    <3>. QED  BY <1>7, <3>1, <3>2 DEF OpenInstalled
  <2>. QED  BY <1>7, <2>1 DEF OpenInstalled, TypeOK, Remaining
<1>8. CASE Assemble
  <2>1. \A g \in AllGaps : g.kind \in GapKinds
    <3>1. \A g \in gaps : g.kind \in GapKinds
      BY DEF TypeOK
    <3>2. \A d : /\ Gap("dependencies", d).kind \in GapKinds
                 /\ Gap("license-file", d).kind \in GapKinds
      BY DEF Gap, GapKinds
    <3>. QED  BY <3>1, <3>2 DEF AllGaps
  <2>. QED  BY <1>8, <2>1 DEF Assemble, TypeOK
<1>. QED  BY <1>1, <1>2, <1>3, <1>4, <1>5, <1>6, <1>7, <1>8
          DEF Next, EnumerateSourceNext, EnumerateInstalledNext

LEMMA DiscoveredKept ==
    ASSUME TypeOK, Discovered, Next
    PROVE  Discovered'
<1>1. CASE Detection /\ pc' # "error"
  <2>1. files' = {ReadFile(p) : p \in Selected}
    BY <1>1 DEF Detection, Goto
  <2>. QED  BY <2>1, ReadFileIs DEF Discovered
<1>2. CASE ~(Detection /\ pc' # "error")
  <2>1. UNCHANGED files
    BY <1>2 DEF Next, Cancel, Start, Source, Detection, Licensing,
                EnumerateSourceNext, EnumerateInstalledNext, EnumerateNext,
                OpenInstalled, Assemble, treeVars, Goto
  <2>. QED  BY <2>1 DEF Discovered
<1>. QED  BY <1>1, <1>2

LEMMA AssembledKept ==
    ASSUME TypeOK, Next
    PROVE  Assembled'
<1> SUFFICES ASSUME pc' = "done"  PROVE Assembled'
  BY DEF Assembled
<1>1. Assemble
  BY OnlyAssembleEnds
<1>2. UNCHANGED <<files, vendorRoot>>
  BY <1>1 DEF Assemble, treeVars
<1> DEFINE comps == Finalize(components)
<1>3. /\ bundle'.components = comps
      /\ bundle'.copies = VendoredRoots(comps)
      /\ bundle'.hashes = HashVendored(VendoredRoots(comps))
      /\ bundle'.key = Compute(OwnFiles(VendoredRoots(comps)))
  BY <1>1 DEF Assemble
<1>4. \A c \in comps : c.name \in Seq(Segments)
  BY DEF TypeOK, Finalize
<1>. HIDE DEF comps
<1>5. bundle'.copies = VendoredRoots(bundle.components)'
  BY <1>2, <1>3 DEF VendoredRoots
<1>6. bundle'.hashes = HashVendored(bundle.copies)'
  BY <1>2, <1>3 DEF HashVendored
<1>7. bundle'.key = Compute(OwnFiles(bundle.copies))'
  BY <1>2, <1>3 DEF OwnFiles, Compute
<1>. QED  BY <1>3, <1>4, <1>5, <1>6, <1>7 DEF Assembled

\* Every reachable state keeps the invariant.
THEOREM Invariance == Spec => []IInv
<1>1. Init => IInv
  BY InitHolds
<1>2. IInv /\ [Next]_vars => IInv'
  <2>1. IInv /\ Next => IInv'
    BY TypesKept, DiscoveredKept, AssembledKept DEF IInv
  <2>2. IInv /\ UNCHANGED vars => IInv'
    <3> SUFFICES ASSUME IInv, UNCHANGED vars  PROVE IInv'
      OBVIOUS
    <3>1. TypeOK'
      BY DEF IInv, TypeOK, vars, treeVars
    <3>2. Discovered'
      BY DEF IInv, Discovered, vars, treeVars
    <3>3. Assembled'
      BY DEF IInv, Assembled, vars, treeVars, VendoredRoots, HashVendored, OwnFiles
    <3>. QED  BY <3>1, <3>2, <3>3 DEF IInv
  <2>. QED  BY <2>1, <2>2
<1>. QED  BY <1>1, <1>2, PTL DEF Spec

\* The state of a collection has its types (TypeOK).
THEOREM TypeCorrect == Spec => []TypeOK
<1>1. IInv => TypeOK
  BY DEF IInv
<1>. QED  BY <1>1, Invariance, PTL

-----------------------------------------------------------------------------
(* The copies of a bundle                                                  *)

\* A copy lies in the vendor directory, under its component's name: so a purl
\* has one root, and a root is no prefix of the tree.
LEMMA CopiesAre ==
    ASSUME IInv, Delivered, NEW v \in bundle.copies
    PROVE  /\ v.root = ModDir \o <<"vendor">> \o v.purl.name
           /\ v.root \in Seq(Segments)
           /\ Len(ModDir) + 1 \in 1..Len(v.root)
           /\ v.root[Len(ModDir) + 1] = "vendor"
<1>1. /\ v.root = vendorRoot \o v.purl.name
      /\ v.purl.name \in Seq(Segments)
      /\ vendorRoot = ModDir \o <<"vendor">>
  <2>1. /\ bundle.copies = VendoredRoots(bundle.components)
        /\ \A c \in bundle.components : c.name \in Seq(Segments)
    BY DEF IInv, Assembled, Delivered
  <2>2. vendorRoot # None
    BY <2>1 DEF VendoredRoots
  <2>3. PICK c \in bundle.components : v = [purl |-> c, root |-> vendorRoot \o c.name]
    BY <2>1, <2>2 DEF VendoredRoots
  <2>4. vendorRoot = ModDir \o <<"vendor">>
    BY <2>2 DEF IInv, TypeOK
  <2>. QED  BY <2>1, <2>3, <2>4
<1>2. ModDir \in Seq(Segments) /\ <<"vendor">> \in Seq(Segments)
  <2>1. "vendor" \in Segments
    BY CollectAssumption
  <2>. QED  BY <2>1, CollectAssumption
<1>3. /\ vendorRoot \in Seq(Segments)
      /\ Len(vendorRoot) = Len(ModDir) + 1
      /\ vendorRoot[Len(ModDir) + 1] = "vendor"
  BY <1>1, <1>2, ConcatProperties
<1>4. /\ v.root \in Seq(Segments)
      /\ Len(v.root) = Len(vendorRoot) + Len(v.purl.name)
      /\ v.root[Len(vendorRoot)] = vendorRoot[Len(vendorRoot)]
  BY <1>1, <1>3, ConcatProperties
<1>5. Len(ModDir) \in Nat /\ Len(v.purl.name) \in Nat
  BY <1>1, <1>2
<1>6. Len(ModDir) + 1 \in 1..Len(v.root)
  <2>1. Len(v.root) = Len(ModDir) + 1 + Len(v.purl.name)
    BY <1>3, <1>4
  <2>2. ASSUME NEW i \in Nat, NEW j \in Nat  PROVE i + 1 \in 1..(i + 1 + j)
    OBVIOUS
  <2>. QED  BY <1>5, <2>1, <2>2
<1>7. v.root[Len(ModDir) + 1] = "vendor"
  <2> DEFINE n == Len(ModDir) + 1
  <2>1. v.root[n] = vendorRoot[n]
    BY <1>3, <1>4
  <2>. QED  BY <2>1, <1>3
<1>. QED  BY <1>1, <1>4, <1>6, <1>7

\* The hash recorded for a copy is that of its own root.
LEMMA HashOfCopy ==
    ASSUME IInv, Delivered, NEW v \in bundle.copies
    PROVE  bundle.hashes[v.purl] =
             Relative(From(files), v.root, NestedRoots(v.root, Roots(bundle.copies)))
<1> DEFINE w == CHOOSE x \in bundle.copies : x.purl = v.purl
<1>1. w \in bundle.copies /\ w.purl = v.purl
  OBVIOUS
<1>2. w.root = v.root
  BY <1>1, CopiesAre
<1>3. bundle.hashes = HashVendored(bundle.copies)
  BY DEF IInv, Assembled, Delivered
<1>4. HashVendored(bundle.copies)[v.purl] =
        Relative(From(files), w.root, NestedRoots(w.root, Roots(bundle.copies)))
  BY DEF HashVendored, Compute
<1>. QED  BY <1>2, <1>3, <1>4

\* LocalLicenseFiles answers from the bundle alone with the very files that
\* hashVendored hashed, whatever was collected (LocalCopyAgrees).
THEOREM LocalFilesAreHashed == Spec => []LocalCopyAgrees
<1>1. ASSUME IInv, Delivered, NEW v \in bundle.copies
      PROVE  Compute(LocalLicenseFiles(v.purl)) = bundle.hashes[v.purl]
  <2> DEFINE own == {x \in bundle.copies : x.purl = v.purl}
             w == CHOOSE x \in own : TRUE
  <2>1. own # {} /\ w \in bundle.copies /\ w.purl = v.purl
    <3>1. v \in own
      OBVIOUS
    <3>. QED  BY <3>1
  <2>2. w.root = v.root
    BY <1>1, <2>1, CopiesAre
  <2>3. LocalLicenseFiles(v.purl) =
          Relative(From(files), v.root, NestedRoots(v.root, Roots(bundle.copies)))
    BY <2>1, <2>2 DEF LocalLicenseFiles
  <2>. QED  BY <1>1, <2>3, HashOfCopy DEF Compute
<1>2. IInv => LocalCopyAgrees
  BY <1>1 DEF LocalCopyAgrees
<1>. QED  BY <1>2, Invariance, PTL

\* However vendored roots nest, a license file is hashed into the copy with the
\* longest of them, into no other and never into the subject's own key
\* (OneOwnerPerFile).
THEOREM FilesHaveOneOwner == Spec => []OneOwnerPerFile
<1>1. ASSUME IInv, Delivered, NEW r \in From(files)
      PROVE  /\ r.path \in Seq(Segments)
             /\ r = Record(r.path, r.digest)
  <2>1. PICK f \in files : r = Record(f.path, f.digest)
    BY <1>1 DEF From
  <2>2. r.path = f.path /\ r.digest = f.digest
    BY <2>1 DEF Record
  <2>3. f.path \in Files \cup Declared
    BY <1>1 DEF IInv, TypeOK
  <2>. QED  BY <2>1, <2>2, <2>3, Paths
<1>2. ASSUME IInv, Delivered, NEW r \in From(files),
             LongestRoot(r.path, Roots(bundle.copies)) # {}
      PROVE  r \notin bundle.key
  <2>1. OwnedByNested(r.path, Roots(bundle.copies))
    BY <1>2 DEF LongestRoot, OwnedByNested
  <2>2. bundle.key = OwnFiles(bundle.copies)
    BY <1>2 DEF IInv, Assembled, Delivered, Compute
  <2>. QED  BY <2>1, <2>2 DEF OwnFiles
<1>3. ASSUME IInv, Delivered, NEW r \in From(files), NEW v \in bundle.copies,
             Inside(r.path, v.root)
      PROVE  Record(SubSeq(r.path, Len(v.root) + 1, Len(r.path)), r.digest)
                 \in bundle.hashes[v.purl]
             <=> v.root \in LongestRoot(r.path, Roots(bundle.copies))
  <2> DEFINE roots == Roots(bundle.copies)
             nested == NestedRoots(v.root, roots)
             relative(x) == Record(SubSeq(x.path, Len(v.root) + 1, Len(x.path)), x.digest)
  <2>1. roots \in SUBSET Seq(Segments) /\ v.root \in roots /\ v.root \in Seq(Segments)
    BY <1>3, CopiesAre DEF Roots
  <2>2. v.root # <<>>
    <3>1. Len(ModDir) + 1 \in 1..Len(v.root)
      BY <1>3, CopiesAre
    <3>2. Len(ModDir) \in Nat
      BY CollectAssumption
    <3>. QED  BY <3>1, <3>2
  <2>3. bundle.hashes[v.purl] = {relative(x) : x \in Owned(From(files), v.root, nested)}
    BY <1>3, <2>2, HashOfCopy DEF Relative
  <2>4. ASSUME NEW x \in Owned(From(files), v.root, nested), relative(x) = relative(r)
        PROVE  ~OwnedByNested(r.path, nested)
    <3>1. /\ x.path \in Seq(Segments) /\ r.path \in Seq(Segments)
          /\ Inside(x.path, v.root)
      BY <1>1, <1>3, <2>4 DEF Owned
    <3>2. SubSeq(x.path, Len(v.root) + 1, Len(x.path))
            = SubSeq(r.path, Len(v.root) + 1, Len(r.path))
      BY <2>4 DEF Record
    <3>3. x.path = r.path
      BY <1>3, <2>1, <3>1, <3>2, RelativeInjective
    <3>. QED  BY <3>3, <2>4 DEF Owned
  <2>5. relative(r) \in bundle.hashes[v.purl] <=> ~OwnedByNested(r.path, nested)
    <3>1. ~OwnedByNested(r.path, nested) => r \in Owned(From(files), v.root, nested)
      BY <1>3 DEF Owned
    <3>. QED  BY <2>3, <2>4, <3>1
  <2>6. ~OwnedByNested(r.path, nested)
          <=> \A s \in roots : Inside(r.path, s) => Len(s) <= Len(v.root)
    BY <1>1, <1>3, <2>1, LongestOwns
  <2>. QED  BY <1>3, <2>1, <2>5, <2>6 DEF LongestRoot
<1>4. IInv => OneOwnerPerFile
  BY <1>2, <1>3 DEF OneOwnerPerFile
<1>. QED  BY <1>4, Invariance, PTL

-----------------------------------------------------------------------------
(* The conclusion and its key                                              *)

\* A file that speaks for the subject lies in no vendored copy.
LEMMA SpeakersAreNotVendored ==
    ASSUME IInv, Delivered, NEW f \in files, InScope(f.path)
    PROVE  ~OwnedByNested(f.path, Roots(bundle.copies))
<1> SUFFICES ASSUME NEW v \in bundle.copies, Inside(f.path, v.root)
             PROVE  FALSE
  BY DEF OwnedByNested, Roots
<1> DEFINE k == Len(ModDir) + 1
<1>1. k \in 1..Len(v.root) /\ v.root[k] = "vendor"
  BY CopiesAre
<1>2. f.path \in Seq(Segments) /\ v.root \in Seq(Segments)
  BY CopiesAre, Paths DEF IInv, TypeOK
<1>3. k \in DOMAIN f.path /\ f.path[k] = "vendor"
  BY <1>1, <1>2 DEF Inside
<1>4. k \in {i \in DOMAIN f.path : f.path[i] \in VendorSegments \cup BuildSegments}
  BY <1>3, CollectAssumption
<1>5. ClassifyDirExclusion(f.path) \in {"vendored", "build-output"}
  BY <1>4 DEF ClassifyDirExclusion
<1>6. ClassifyExclusion(f.path) # "none"
  BY <1>5 DEF ClassifyExclusion
<1>. QED  BY <1>6 DEF InScope

\* Every text a conclusion rests on is in the key it is stored under, but for one
\* that was declared under a name discovery would not find it by
\* (ConclusionIsKeyed).
THEOREM ConclusionsAreKeyed == Spec => []ConclusionIsKeyed
<1>1. ASSUME IInv, Delivered, NEW f \in Concluding(files),
             ~(f.path \in Declared /\ ~IsLicenseFile(f.path))
      PROVE  Record(f.path, f.digest) \in bundle.key
  <2>1. f \in files /\ InScope(f.path) /\ ~f.err
    BY DEF Concluding, PreferRoot
  <2>2. f.digest # None /\ Covers(f.path)
    BY <1>1, <2>1 DEF IInv, Discovered, Covers
  <2>3. ~OwnedByNested(f.path, Roots(bundle.copies))
    BY <1>1, <2>1, SpeakersAreNotVendored
  <2>4. ~BelongsToAnother(f.path)
    BY <2>1 DEF InScope, BelongsToAnother
  <2>5. Record(f.path, f.digest) \in From(files)
    BY <2>1, <2>2 DEF From
  <2>6. bundle.key = OwnFiles(bundle.copies)
    BY <1>1 DEF IInv, Assembled, Delivered, Compute
  <2>7. Record(f.path, f.digest).path = f.path
    BY DEF Record
  <2>. QED  BY <2>3, <2>4, <2>5, <2>6, <2>7 DEF OwnFiles
<1>2. IInv => ConclusionIsKeyed
  BY <1>1 DEF ConclusionIsKeyed
<1>. QED  BY <1>2, Invariance, PTL

\* Who owns a vendored license file is one component, and collecting and comparing
\* agree on which (Compute, Relative, LocalLicenseFiles).
THEOREM OwnersAgree == Spec => []OwnershipAgrees
<1>1. LocalCopyAgrees /\ OneOwnerPerFile => OwnershipAgrees
  BY DEF OwnershipAgrees
<1>. QED  BY <1>1, LocalFilesAreHashed, FilesHaveOneOwner, PTL

-----------------------------------------------------------------------------
(* What was read, against the tree as it is                                *)

\* The tree, as a collection that opened it has read it, and what is said of one
\* that could not be opened.
ReadInv ==
    /\ pc \in {"start", "source"} => source = ""
    /\ pc \in {"detect", "licensing", "enumerateSource"} => source = "ok"
    /\ pc \in {"installed", "enumerateInstalled", "assemble", "done"} => source # ""
    /\ source # "ok" => files = {} /\ stated = {} /\ heads = {} /\ vendorRoot = None
    /\ source = "lost" => Gap("source", <<>>) \in gaps
    /\ installed = "lost" => Gap("installed", <<>>) \in gaps
    /\ installed = "none" => Gap("no-installed-trees", <<>>) \in gaps
    /\ source = "ok" /\ pc \notin {"detect", "error"} =>
           /\ files = {ReadFile(p) : p \in Selected}
           /\ \A d \in Unreadable : Gap("unreadable-tree", d) \in gaps
    /\ heads \subseteq Notices
    /\ \A p \in Breakable : Astray(p) => p \in Links

\* What the last step says of what was read.
AnswerInv ==
    pc = "done" =>
    /\ \A f \in files : f.err => Gap("license-file", f.path) \in gaps
    /\ \A e \in failures : Gap("dependencies", e) \in gaps
    /\ bundle.conclusion = Conclusion
    /\ bundle.unknown = IsUnknown(gaps)
    /\ bundle.components = Finalize(components)

LEMMA InitRead == Init => ReadInv /\ AnswerInv
BY DEF Init, ReadInv, AnswerInv, Astray, Fault

\* What is broken stays so, and with it all that the tree shows.
LEMMA TreeStays ==
    ASSUME UNCHANGED fault
    PROVE  /\ Selected' = Selected /\ Unreadable' = Unreadable /\ Notices' = Notices
           /\ {ReadFile(p) : p \in Selected}' = {ReadFile(p) : p \in Selected}
           /\ \A p : Astray(p)' = Astray(p)
BY DEF Selected, Candidates, Unreadable, Notices, ReadFile, Reachable, Opens, Astray, Fault

LEMMA ReadKept ==
    ASSUME ReadInv, Next
    PROVE  ReadInv'
<1>. USE DEF treeVars, Goto
<1>. HIDE DEF ReadInv
<1>1. UNCHANGED fault
  BY DEF Next, Cancel, Start, Source, Detection, Licensing, EnumerateSourceNext,
         EnumerateInstalledNext, EnumerateNext, OpenInstalled, Assemble
<1>2. gaps \subseteq gaps'
  BY DEF Next, Cancel, Start, Source, Detection, Licensing, EnumerateSourceNext,
         EnumerateInstalledNext, EnumerateNext, OpenInstalled, Assemble, AllGaps
<1>3. CASE Detection
  <2>1. pc = "detect" /\ UNCHANGED <<source, stated, heads, vendorRoot, installed>>
    BY <1>3 DEF Detection
  <2>2. CASE pc' = "error" /\ UNCHANGED files
    BY <1>1, <1>2, <2>1, <2>2, TreeStays DEF ReadInv
  <2>3. CASE pc' = "licensing" /\ ~(pc' = "error" /\ UNCHANGED files)
    <3>1. /\ files' = {ReadFile(p) : p \in Selected}
          /\ gaps' = gaps \cup {Gap("unreadable-tree", d) : d \in Unreadable}
      BY <1>3, <2>3 DEF Detection
    <3>2. \A d \in Unreadable : Gap("unreadable-tree", d) \in gaps'
      BY <3>1
    <3>. QED  BY <1>1, <1>2, <2>1, <2>3, <3>1, <3>2, TreeStays DEF ReadInv
  <2>. QED  BY <1>3, <2>2, <2>3 DEF Detection
<1>4. CASE Licensing
  <2>1. /\ pc = "licensing" /\ pc' = "enumerateSource"
        /\ heads' = Notices /\ UNCHANGED <<source, installed, files, gaps>>
    BY <1>4 DEF Licensing
  <2>. QED  BY <1>1, <2>1, TreeStays DEF ReadInv
<1>5. CASE ~Detection /\ ~Licensing
  <2>1. /\ UNCHANGED <<files, stated, heads, vendorRoot>>
        /\ \/ pc' = pc /\ UNCHANGED <<source, installed>>
           \/ pc' \in {"error", "source"} /\ pc = "start" /\ UNCHANGED <<source, installed>>
           \/ pc = "source" /\ pc' = "detect" /\ source' = "ok" /\ UNCHANGED installed
           \/ /\ pc = "source" /\ pc' = "installed" /\ source' = "lost" /\ UNCHANGED installed
              /\ Gap("source", <<>>) \in gaps'
           \/ pc = "enumerateSource" /\ pc' = "installed" /\ UNCHANGED <<source, installed>>
           \/ /\ pc = "installed" /\ pc' \in {"enumerateInstalled", "assemble"}
              /\ UNCHANGED source
              /\ installed' = "lost" => Gap("installed", <<>>) \in gaps'
              /\ installed' = "none" => Gap("no-installed-trees", <<>>) \in gaps'
           \/ pc = "enumerateInstalled" /\ pc' = "assemble" /\ UNCHANGED <<source, installed>>
           \/ pc = "assemble" /\ pc' = "done" /\ UNCHANGED <<source, installed>>
    BY <1>5 DEF Next, Cancel, Start, Source, EnumerateSourceNext,
                EnumerateInstalledNext, EnumerateNext, OpenInstalled, Assemble
  <2>. QED  BY <1>1, <1>2, <2>1, TreeStays DEF ReadInv
<1>. QED  BY <1>3, <1>4, <1>5

LEMMA AnswerKept ==
    ASSUME Next
    PROVE  AnswerInv'
<1> SUFFICES ASSUME pc' = "done"  PROVE AnswerInv'
  BY DEF AnswerInv
<1>1. Assemble
  BY OnlyAssembleEnds
<1>2. UNCHANGED <<files, source, stated, heads, components, failures>>
  BY <1>1 DEF Assemble, treeVars
<1>3. /\ gaps' = AllGaps
      /\ bundle'.conclusion = Conclusion /\ bundle'.unknown = IsUnknown(AllGaps)
      /\ bundle'.components = Finalize(components)
  BY <1>1 DEF Assemble
<1>4. /\ \A f \in files : f.err => Gap("license-file", f.path) \in AllGaps
      /\ \A e \in failures : Gap("dependencies", e) \in AllGaps
  BY DEF AllGaps
<1>5. Conclusion' = Conclusion
  BY <1>2 DEF Conclusion, Grants
<1>6. IsUnknown(gaps)' = IsUnknown(AllGaps)
  BY <1>2, <1>3 DEF IsUnknown, GapDetails
<1>. QED  BY <1>2, <1>3, <1>4, <1>5, <1>6 DEF AnswerInv, Finalize

\* A finished collection has done all of this.
LEMMA ReadInvariance == Spec => [](IInv /\ ReadInv /\ AnswerInv)
<1>1. ReadInv /\ AnswerInv /\ [Next]_vars => ReadInv' /\ AnswerInv'
  <2>1. CASE Next
    BY <2>1, ReadKept, AnswerKept
  <2>2. CASE UNCHANGED vars
    <3> SUFFICES ASSUME ReadInv, AnswerInv, UNCHANGED vars  PROVE ReadInv' /\ AnswerInv'
      BY <2>2
    <3>1. ReadInv'
      BY TreeStays DEF vars, treeVars, ReadInv
    <3>2. AnswerInv'
      BY DEF vars, treeVars, AnswerInv, Conclusion, Grants, IsUnknown, GapDetails, Finalize
    <3>. QED  BY <3>1, <3>2
  <2>. QED  BY <2>1, <2>2
<1>. QED  BY <1>1, InitRead, Invariance, PTL DEF Spec

\* The license files that are there are those that do not lead nowhere, and
\* discovery finds the ones it can reach.
LEMMA LicenseFilesAre ==
    ASSUME ReadInv
    PROVE  /\ LicenseFiles = {p \in Files : IsLicenseFile(p) /\ ~Astray(p)}
           /\ Candidates = {p \in LicenseFiles : Reachable(p)}
<1>1. \A p \in Links : p \in Files /\ IsLicenseFile(p)
  BY CollectAssumption
<1>2. \A p : Astray(p) => p \in Links
  BY DEF ReadInv, Astray, Fault
<1>. QED  BY <1>1, <1>2 DEF LicenseFiles, PassedOver, Candidates

-----------------------------------------------------------------------------
(* Directories that cannot be listed                                       *)

\* The shallowest directory on the way to a file that does not open is one the walk
\* met.
LEMMA FirstObstacle ==
    ASSUME NEW p \in Files, NEW i \in 0..Len(p) - 1, ~Opens(SubSeq(p, 1, i))
    PROVE  \E m \in 0..i : SubSeq(p, 1, m) \in Unreadable
<1> DEFINE S == {j \in 0..i : ~Opens(SubSeq(p, 1, j))}
<1>1. p \in Seq(Segments) /\ Len(p) \in Nat
  BY Paths
<1>2. i \in S /\ S \subseteq Nat
  BY <1>1
<1>3. PICK m \in S : \A n \in S : m <= n
  <2>. HIDE DEF S
  <2>. QED  BY <1>2, Least
<1>4. m \in 0..i /\ m \in 0..Len(p) - 1 /\ m \in Nat /\ m <= Len(p)
  BY <1>1
<1> DEFINE d == SubSeq(p, 1, m)
<1>5. d \in Seq(Segments) /\ Len(d) = m /\ \A k \in 1..m : d[k] = p[k]
  BY <1>1, <1>4
<1>6. \A j \in 0..m - 1 : SubSeq(d, 1, j) = SubSeq(p, 1, j)
  <2> SUFFICES ASSUME NEW j \in 0..m - 1  PROVE SubSeq(d, 1, j) = SubSeq(p, 1, j)
    OBVIOUS
  <2>. HIDE DEF d
  <2>1. /\ SubSeq(d, 1, j) \in Seq(Segments) /\ SubSeq(p, 1, j) \in Seq(Segments)
        /\ Len(SubSeq(d, 1, j)) = j /\ Len(SubSeq(p, 1, j)) = j
    BY <1>1, <1>4, <1>5
  <2>2. \A k \in 1..j : SubSeq(d, 1, j)[k] = p[k] /\ SubSeq(p, 1, j)[k] = p[k]
    BY <1>1, <1>4, <1>5
  <2>. QED  BY <2>1, <2>2
<1>7. Reachable(d)
  <2> SUFFICES ASSUME NEW j \in 0..m - 1  PROVE Opens(SubSeq(p, 1, j))
    BY <1>5, <1>6 DEF Reachable, Above
  <2>1. j \in 0..i /\ ~(m <= j)
    BY <1>4
  <2>. QED  BY <1>3, <2>1
<1>8. d \in Directories /\ ~Opens(d)
  BY <1>4 DEF Directories, Above
<1>. QED  BY <1>4, <1>7, <1>8 DEF Unreadable

\* What a walk could not reach lies below one that it could not list.
LEMMA Obstructed ==
    ASSUME NEW p \in Files, ~Reachable(p)
    PROVE  \E d \in Above(p) : d \in Unreadable
<1>1. PICK i \in 0..Len(p) - 1 : ~Opens(SubSeq(p, 1, i))
  BY DEF Reachable, Above
<1>2. PICK m \in 0..i : SubSeq(p, 1, m) \in Unreadable
  BY <1>1, FirstObstacle
<1>3. m \in 0..Len(p) - 1
  <2>1. Len(p) \in Nat
    BY Paths
  <2>. QED  BY <2>1
<1>. QED  BY <1>2, <1>3 DEF Above

\* One that cannot be listed has a gap, or lies below one that has.
LEMMA ObstructedDirectory ==
    ASSUME NEW p \in Directories, ~Opens(p)
    PROVE  \E d \in Above(p) \cup {p} : d \in Unreadable
<1>1. PICK q \in Files : p \in Above(q)
  BY DEF Directories
<1>2. PICK i \in 0..Len(q) - 1 : p = SubSeq(q, 1, i)
  BY <1>1 DEF Above
<1>3. PICK m \in 0..i : SubSeq(q, 1, m) \in Unreadable
  BY <1>2, FirstObstacle
<1>4. q \in Seq(Segments) /\ Len(q) \in Nat
  BY Paths
<1>5. p \in Seq(Segments) /\ Len(p) = i /\ \A k \in 1..i : p[k] = q[k]
  BY <1>2, <1>4
<1>6. CASE m = i
  BY <1>2, <1>3, <1>6
<1>7. CASE m # i
  <2>1. m \in 0..Len(p) - 1 /\ m <= Len(q) /\ m <= Len(p) /\ m \in Nat
    BY <1>4, <1>5, <1>7
  <2>2. SubSeq(p, 1, m) = SubSeq(q, 1, m)
    <3>1. /\ SubSeq(p, 1, m) \in Seq(Segments) /\ SubSeq(q, 1, m) \in Seq(Segments)
          /\ Len(SubSeq(p, 1, m)) = m /\ Len(SubSeq(q, 1, m)) = m
      BY <1>4, <1>5, <2>1
    <3>2. \A k \in 1..m : SubSeq(p, 1, m)[k] = q[k] /\ SubSeq(q, 1, m)[k] = q[k]
      BY <1>4, <1>5, <2>1
    <3>. QED  BY <3>1, <3>2
  <2>. QED  BY <1>3, <2>1, <2>2 DEF Above
<1>. QED  BY <1>6, <1>7

\* What could not be read in a tree that was opened has a gap, or is below a
\* directory that has one; so has a tree that could not be opened
\* (NothingLostSilently).
THEOREM LossesAreGaps == Spec => []NothingLostSilently
<1>1. ASSUME ReadInv, AnswerInv, Delivered, source = "ok",
             NEW p \in Directories, ~Opens(p)
      PROVE  \E d \in Above(p) \cup {p} : Gap("unreadable-tree", d) \in gaps
  BY <1>1, ObstructedDirectory DEF ReadInv, Delivered
<1>2. ASSUME ReadInv, AnswerInv, Delivered, source = "ok",
             NEW p \in LicenseFiles \cup (Declared \cap Files), Fault(p) # ""
      PROVE  \/ Gap("license-file", p) \in gaps
             \/ \E d \in Above(p) \cup {p} : Gap("unreadable-tree", d) \in gaps
  <2>1. CASE Reachable(p) \/ p \in Declared
    <3>1. ReadFile(p) \in files
      BY <1>2, <2>1, LicenseFilesAre DEF ReadInv, Delivered, Selected
    <3>2. ReadFile(p).err /\ ReadFile(p).path = p
      BY <1>2 DEF ReadFile
    <3>. QED  BY <1>2, <3>1, <3>2 DEF AnswerInv, Delivered
  <2>2. CASE ~Reachable(p)
    BY <1>2, <2>2, Obstructed DEF ReadInv, Delivered, LicenseFiles
  <2>. QED  BY <2>1, <2>2
<1>3. IInv /\ ReadInv /\ AnswerInv => NothingLostSilently
  <2>1. ReadInv => /\ source = "lost" => Gap("source", <<>>) \in gaps
                   /\ installed = "lost" => Gap("installed", <<>>) \in gaps
    BY DEF ReadInv
  <2>. QED  BY <1>1, <1>2, <2>1 DEF NothingLostSilently
<1>. QED  BY <1>3, ReadInvariance, PTL

-----------------------------------------------------------------------------
(* The conclusion, against the texts of the tree                           *)

LEMMA InScopeIs ==
    ASSUME NEW p
    PROVE  /\ InScope(p) <=> OutsideForeignTrees(p) /\ Base(p) \notin SupplementaryNames
           /\ ClassifyDirExclusion(p) = "none" <=> OutsideForeignTrees(p)
           /\ ~BelongsToAnother(p) <=>
                 /\ \A i \in DOMAIN p : p[i] \notin VendorSegments \cup BuildSegments
                 /\ Base(p) \in SupplementaryNames \/ OutsideForeignTrees(p)
<1> DEFINE foreign == {i \in DOMAIN p : p[i] \in VendorSegments \cup BuildSegments}
<1>1. foreign # {} <=> ClassifyDirExclusion(p) \in {"vendored", "build-output"}
  BY DEF ClassifyDirExclusion
<1>2. ClassifyDirExclusion(p) = "none" <=> OutsideForeignTrees(p)
  BY DEF ClassifyDirExclusion, OutsideForeignTrees
<1>3. ClassifyDirExclusion(p) \in {"vendored", "build-output", "test-fixture", "none"}
  BY DEF ClassifyDirExclusion
<1>4. (\A i \in DOMAIN p : p[i] \notin VendorSegments \cup BuildSegments) <=> foreign = {}
  OBVIOUS
<1>. HIDE DEF foreign
<1>5. InScope(p) <=> OutsideForeignTrees(p) /\ Base(p) \notin SupplementaryNames
  BY <1>2, <1>3 DEF InScope, ClassifyExclusion
<1>6. ~BelongsToAnother(p) <=>
        foreign = {} /\ (Base(p) \in SupplementaryNames \/ OutsideForeignTrees(p))
  BY <1>1, <1>2, <1>3 DEF BelongsToAnother, ClassifyExclusion
<1>. QED  BY <1>2, <1>4, <1>5, <1>6

LEMMA ConcludedIs ==
    /\ \A e, r, i, b : /\ Concluded(e, r, i, b).expression = e
                       /\ Concluded(e, r, i, b).identifiers = i
                       /\ Undecided(r, i, b).expression = None
                       /\ Undecided(r, i, b).identifiers = i
    /\ \A i, x : Suffixed(i, x).suffix = x
BY DEF Concluded, Undecided, Suffixed

LEMMA GrantedIs ==
    ASSUME NEW i, NEW gs, NEW n
    PROVE  /\ Granted(i, gs, n).identifiers = {i}
           /\ Granted(i, gs, n).expression # None =>
                \/ Granted(i, gs, n).expression = Suffixed(i, "only")
                \/ Granted(i, gs, n).expression \in GrantFor(i, gs)
<1>1. CASE Cardinality(GrantFor(i, gs)) = 1
  <2>1. PICK g : g = CHOOSE x \in GrantFor(i, gs) : TRUE
    OBVIOUS
  <2>2. GrantFor(i, gs) # {}
    BY <1>1, FS_EmptySet
  <2>3. g \in GrantFor(i, gs)
    BY <2>1, <2>2
  <2>4. \E r, b : Granted(i, gs, n) = Concluded(g, r, {i}, b)
    BY <1>1, <2>1 DEF Granted
  <2>. QED  BY <2>3, <2>4, ConcludedIs
<1>2. CASE Cardinality(GrantFor(i, gs)) # 1 /\ GrantFor(i, gs) # {}
  <2>1. \E r, b : Granted(i, gs, n) = Undecided(r, {i}, b)
    BY <1>2 DEF Granted
  <2>. QED  BY <2>1, ConcludedIs
<1>3. CASE Cardinality(GrantFor(i, gs)) # 1 /\ GrantFor(i, gs) = {}
  <2>1. \E r, b : Granted(i, gs, n) = Concluded(Suffixed(i, "only"), r, {i}, b)
    BY <1>3 DEF Granted
  <2>. QED  BY <2>1, ConcludedIs
<1>. QED  BY <1>1, <1>2, <1>3

\* The identifiers of a conclusion are those of the texts it is drawn from.
LEMMA ConcludeIs ==
    ASSUME NEW fs, NEW gs, NEW n
    PROVE  LET ids == UNION {Named[f.digest] : f \in Concluding(fs)}
               c == Conclude(fs, gs, n) IN
           /\ c.identifiers \subseteq ids
           /\ IsFiniteSet(ids) => c.identifiers = ids
           /\ ids = {} => c.expression = None
           /\ c.expression # None /\ c.expression.suffix = "or-later" =>
                  c.expression \in gs /\ c.expression.id \in ids
<1> DEFINE texts == {f.digest : f \in Concluding(fs)}
           ids == UNION {Named[t] : t \in texts}
           id == CHOOSE i \in ids : TRUE
           c == Conclude(fs, gs, n)
<1>1. ids = UNION {Named[f.digest] : f \in Concluding(fs)}
  OBVIOUS
<1>2. ids # {} => id \in ids
  OBVIOUS
<1>3. /\ ids = {} => c.identifiers = {} /\ c.expression = None
      /\ ids # {} /\ Cardinality(ids) > 1 => c.identifiers = ids /\ c.expression = None
      /\ ids # {} /\ ~(Cardinality(ids) > 1) =>
           /\ id \in GrantFamilies => c = Granted(id, gs, n)
           /\ id \notin GrantFamilies =>
                  /\ c.identifiers = ids
                  /\ \E x : x # "or-later" /\ c.expression = Suffixed(id, x)
  <2>. HIDE DEF ids, id
  <2>1. ids = {} => \E r, b : c = Undecided(r, {}, b)
    BY DEF Conclude, ids
  <2>2. ids # {} /\ Cardinality(ids) > 1 => \E r, b : c = Undecided(r, ids, b)
    BY DEF Conclude, ids
  <2>3. ids # {} /\ ~(Cardinality(ids) > 1) /\ id \in GrantFamilies => c = Granted(id, gs, n)
    BY DEF Conclude, ids, id
  <2>4. ids # {} /\ ~(Cardinality(ids) > 1) /\ id \notin GrantFamilies =>
          \E x, r, b : x # "or-later" /\ c = Concluded(Suffixed(id, x), r, ids, b)
    <3>1. "" # "or-later"
      OBVIOUS
    <3>. QED  BY <3>1 DEF Conclude, ids, id
  <2>. HIDE DEF c
  <2>5. ids = {} => c.identifiers = {} /\ c.expression = None
    BY <2>1, ConcludedIs
  <2>6. ids # {} /\ Cardinality(ids) > 1 => c.identifiers = ids /\ c.expression = None
    BY <2>2, ConcludedIs
  <2>7. ids # {} /\ ~(Cardinality(ids) > 1) /\ id \notin GrantFamilies =>
          /\ c.identifiers = ids
          /\ \E x : x # "or-later" /\ c.expression = Suffixed(id, x)
    BY <2>4, ConcludedIs
  <2>. QED  BY <2>3, <2>5, <2>6, <2>7
<1>4. /\ Granted(id, gs, n).identifiers = {id}
      /\ Granted(id, gs, n).expression # None =>
           \/ Granted(id, gs, n).expression = Suffixed(id, "only")
           \/ Granted(id, gs, n).expression \in GrantFor(id, gs)
  BY GrantedIs
<1>5. ASSUME ids # {}, ~(Cardinality(ids) > 1), IsFiniteSet(ids)
      PROVE  ids = {id}
  <2>. HIDE DEF ids, id
  <2>1. Cardinality(ids) \in Nat /\ Cardinality(ids) # 0
    BY <1>5, FS_CardinalityType, FS_EmptySet
  <2>2. Cardinality(ids) = 1
    BY <1>5, <2>1
  <2>3. PICK x : ids = {x}
    BY <1>5, <2>2, FS_Singleton
  <2>. QED  BY <1>2, <1>5, <2>3
<1>. HIDE DEF ids, id, c, texts
<1>6. c.identifiers \subseteq ids
  BY <1>2, <1>3, <1>4
<1>7. ASSUME IsFiniteSet(ids)  PROVE c.identifiers = ids
  BY <1>3, <1>4, <1>5, <1>7
<1>8. ASSUME c.expression # None, c.expression.suffix = "or-later"
      PROVE  c.expression \in gs /\ c.expression.id \in ids
  <2>1. ids # {} /\ ~(Cardinality(ids) > 1)
    BY <1>3, <1>8
  <2>2. CASE id \in GrantFamilies
    <3>1. c.expression \in GrantFor(id, gs)
      <4>1. Suffixed(id, "only").suffix # "or-later"
        BY ConcludedIs
      <4>. QED  BY <1>3, <1>4, <1>8, <2>1, <2>2, <4>1
    <3>2. c.expression \in gs /\ c.expression.id = id
      BY <3>1 DEF GrantFor
    <3>. QED  BY <3>2, <2>1, <1>2
  <2>3. CASE id \notin GrantFamilies
    BY <1>3, <1>8, <2>1, <2>3, ConcludedIs
  <2>. QED  BY <2>2, <2>3
<1>9. ids = {} => c.expression = None
  BY <1>3
<1>10. ids = UNION {Named[f.digest] : f \in Concluding(fs)} /\ c = Conclude(fs, gs, n)
  BY <1>1 DEF c
<1>. QED  BY <1>6, <1>7, <1>8, <1>9, <1>10

\* Every text the conclusion may rest on is one of the tree's.
LEMMA SpeakerIs ==
    ASSUME ReadInv, Delivered, source = "ok", NEW f \in files, InScope(f.path), ~f.err
    PROVE  f.path \in OwnTexts /\ f.digest = Text[f.path]
<1>1. PICK p \in Selected : f = ReadFile(p)
  BY DEF ReadInv, Delivered
<1>2. f.path = p /\ p \in Files /\ f.digest = Text[p]
  BY <1>1 DEF ReadFile, Opens, Astray
<1>3. p \in LicenseFiles \cup (Declared \cap Files)
  BY <1>1, <1>2, LicenseFilesAre DEF Selected
<1>. QED  BY <1>2, <1>3, InScopeIs DEF OwnTexts

\* The root's license files are all met by a walk that can begin.
LEMMA RootRead ==
    ASSUME ReadInv, Delivered, source = "ok", Opens(<<>>), NEW p \in RootTexts
    PROVE  ReadFile(p) \in files /\ InScope(p) /\ AtRoot(p) /\ ReadFile(p).path = p
<1>1. p \in Files \cup Declared /\ Len(p) = 1 /\ InScope(p)
  BY InScopeIs DEF RootTexts, OwnTexts, AtRoot, LicenseFiles
<1>2. p \in Selected
  <2>1. CASE p \in Declared
    BY <2>1 DEF Selected
  <2>2. CASE p \notin Declared
    <3>1. p \in Files /\ p \in LicenseFiles
      BY <2>2 DEF RootTexts, OwnTexts, LicenseFiles
    <3>2. Reachable(p)
      <4>1. p \in Seq(Segments)
        BY <3>1, Paths
      <4>2. \A i \in 0..Len(p) - 1 : SubSeq(p, 1, i) = <<>>
        BY <1>1, <4>1
      <4>. QED  BY <4>2 DEF Reachable, Above
    <3>. QED  BY <3>1, <3>2, LicenseFilesAre DEF Selected
  <2>. QED  BY <2>1, <2>2
<1>3. ReadFile(p).path = p
  BY DEF ReadFile
<1>. QED  BY <1>1, <1>2, <1>3 DEF ReadInv, Delivered, AtRoot

\* What speaks for the subject is what speaks in the tree.
LEMMA SpeakersSpeak ==
    ASSUME ReadInv, Delivered, source = "ok", RootTexts = {} \/ Opens(<<>>)
    PROVE  UNION {Named[f.digest] : f \in Concluding(files)} \subseteq TrueIdentifiers
<1>1. ASSUME NEW f \in Concluding(files)
      PROVE  f.path \in SpeakingTexts /\ f.digest = Text[f.path]
  <2>1. f \in files /\ InScope(f.path) /\ ~f.err
    BY DEF Concluding, PreferRoot
  <2>2. f.path \in OwnTexts /\ f.digest = Text[f.path]
    BY <2>1, SpeakerIs
  <2>3. CASE RootTexts = {}
    BY <2>2, <2>3 DEF SpeakingTexts
  <2>4. CASE RootTexts # {}
    <3>1. PICK p \in RootTexts : TRUE
      BY <2>4
    <3>2. ReadFile(p) \in {g \in {h \in files : InScope(h.path)} : AtRoot(g.path)}
      BY <2>4, <3>1, RootRead
    <3>3. AtRoot(f.path)
      BY <3>2 DEF Concluding, PreferRoot
    <3>. QED  BY <2>2, <3>3 DEF SpeakingTexts, RootTexts
  <2>. QED  BY <2>3, <2>4
<1>. QED  BY <1>1 DEF TrueIdentifiers

LEMMA UndecidedNamesNothing ==
    ASSUME AnswerInv, Delivered, source # "ok"
    PROVE  bundle.conclusion.identifiers = {} /\ bundle.conclusion.expression = None
<1>1. \E r, b : Conclusion = Undecided(r, {}, b)
  BY DEF Conclusion
<1>2. bundle.conclusion = Conclusion
  BY DEF AnswerInv, Delivered
<1>. QED  BY <1>1, <1>2, ConcludedIs

LEMMA ConclusionIs ==
    ASSUME AnswerInv, Delivered, source = "ok"
    PROVE  LET ids == UNION {Named[f.digest] : f \in Concluding(files)}
               c == bundle.conclusion IN
           /\ c.identifiers \subseteq ids
           /\ IsFiniteSet(ids) => c.identifiers = ids
           /\ ids = {} => c.expression = None
           /\ c.expression # None /\ c.expression.suffix = "or-later" =>
                  c.expression \in Grants /\ c.expression.id \in ids
<1>1. bundle.conclusion = Conclude(files, Grants, Cardinality(heads))
  BY DEF AnswerInv, Delivered, Conclusion
<1>2. PICK gs, n : gs = Grants /\ n = Cardinality(heads)
  OBVIOUS
<1>3. bundle.conclusion = Conclude(files, gs, n)
  BY <1>1, <1>2
<1>4. LET ids == UNION {Named[f.digest] : f \in Concluding(files)}
          c == Conclude(files, gs, n) IN
      /\ c.identifiers \subseteq ids
      /\ IsFiniteSet(ids) => c.identifiers = ids
      /\ ids = {} => c.expression = None
      /\ c.expression # None /\ c.expression.suffix = "or-later" =>
             c.expression \in gs /\ c.expression.id \in ids
  BY ConcludeIs
<1>. QED  BY <1>2, <1>3, <1>4

\* Losing the root license may cost the answer; it never makes a deeper license
\* the answer (RootLicenseSpeaks).
THEOREM RootIsNotReplaced == Spec => []RootLicenseSpeaks
<1>1. ReadInv /\ AnswerInv => RootLicenseSpeaks
  BY SpeakersSpeak, ConclusionIs DEF RootLicenseSpeaks
<1>. QED  BY <1>1, ReadInvariance, PTL

\* An -or-later suffix rests on a notice for the license that it is put on, and on
\* none that a vendored or test file carries (LaterNeedsNotice).
THEOREM SuffixesAreGranted == Spec => []LaterNeedsNotice
<1>1. ASSUME ReadInv, AnswerInv, Delivered, bundle.conclusion.expression # None,
             bundle.conclusion.expression.suffix = "or-later"
      PROVE  /\ bundle.conclusion.expression \in TrueGrants
             /\ bundle.conclusion.expression.id \in TrueIdentifiers
  <2>1. source = "ok"
    BY <1>1, UndecidedNamesNothing
  <2>2. bundle.conclusion.expression \in Grants
    BY <1>1, <2>1, ConclusionIs
  <2>3. heads \subseteq Notices
    BY <1>1 DEF ReadInv
  <2>4. Grants \subseteq TrueGrants
    BY <2>3, InScopeIs DEF Grants, TrueGrants, Notices
  <2>5. Opens(<<>>)
    <3>1. PICK h \in heads : TRUE
      BY <2>2 DEF Grants
    <3>2. h \in Seq(Segments) \ {<<>>} /\ Reachable(h)
      BY <2>3, <3>1, CollectAssumption DEF Notices
    <3>3. SubSeq(h, 1, 0) = <<>> /\ 0 \in 0..Len(h) - 1
      BY <3>2
    <3>. QED  BY <3>2, <3>3 DEF Reachable, Above
  <2>. QED  BY <1>1, <2>1, <2>2, <2>4, <2>5, ConclusionIs, SpeakersSpeak
<1>2. ReadInv /\ AnswerInv => LaterNeedsNotice
  BY <1>1 DEF LaterNeedsNotice
<1>. QED  BY <1>2, ReadInvariance, PTL

\* Having read nothing of the component's own because some of it was lost is
\* unknown, and having lost nothing is not (UnreadIsUnknown).
THEOREM UnknownIsUnread == Spec => []UnreadIsUnknown
<1>1. ASSUME AnswerInv, Delivered, gaps = {}
      PROVE  ~bundle.unknown
  <2>1. \A f \in files : ~f.err
    BY <1>1 DEF AnswerInv, Delivered
  <2>2. bundle.unknown = IsUnknown({})
    BY <1>1 DEF AnswerInv, Delivered
  <2>. QED  BY <2>1, <2>2 DEF IsUnknown, GapDetails
<1>2. ASSUME ReadInv, AnswerInv, Delivered, OwnEvidenceLost, stated = {},
             \A f \in files : InScope(f.path) => f.err
      PROVE  bundle.unknown /\ bundle.conclusion.expression = None
  <2>1. \E g \in gaps : g.kind # "no-installed-trees"
    <3>1. Gap("source", <<>>).kind = "source"
      BY DEF Gap
    <3>. QED  BY <1>2, <3>1 DEF OwnEvidenceLost, HasGap, ReadInv
  <2>2. GapDetails(gaps) # {}
    BY <2>1 DEF GapDetails
  <2>3. bundle.unknown
    BY <1>2, <2>2 DEF AnswerInv, Delivered, IsUnknown
  <2>4. CASE source = "ok"
    <3>1. Concluding(files) = {}
      BY <1>2 DEF Concluding, PreferRoot
    <3>2. UNION {Named[f.digest] : f \in Concluding(files)} = {}
      BY <3>1
    <3>. QED  BY <1>2, <2>3, <2>4, <3>2, ConclusionIs
  <2>5. CASE source # "ok"
    BY <1>2, <2>3, <2>5, UndecidedNamesNothing
  <2>. QED  BY <2>4, <2>5
<1>3. ReadInv /\ AnswerInv => UnreadIsUnknown
  BY <1>1, <1>2 DEF UnreadIsUnknown, Complete
<1>. QED  BY <1>3, ReadInvariance, PTL

-----------------------------------------------------------------------------
(* A collection that lost none of the component's own evidence             *)

\* It has read the whole tree, what leads nowhere excepted.
LEMMA Intact ==
    ASSUME IInv, ReadInv, AnswerInv, Delivered, ~OwnEvidenceLost
    PROVE  /\ source = "ok" /\ Declared \subseteq Files
           /\ \A p \in Selected : IsLicenseFile(p) => p \in LicenseFiles
           /\ Selected = LicenseFiles \cup Declared
           /\ files = {[path |-> p, digest |-> Text[p], err |-> FALSE] : p \in Selected}
<1>1. source = "ok"
  BY DEF IInv, TypeOK, ReadInv, Delivered, OwnEvidenceLost
<1>2. Unreadable = {}
  <2>1. \A d \in Unreadable : Gap("unreadable-tree", d) \in gaps
    BY <1>1 DEF ReadInv, Delivered
  <2>2. \A d : Gap("unreadable-tree", d).kind = "unreadable-tree"
    BY DEF Gap
  <2>. QED  BY <2>1, <2>2 DEF OwnEvidenceLost, HasGap
<1>3. \A p \in Files : Reachable(p)
  BY <1>2, Obstructed
<1>4. files = {ReadFile(p) : p \in Selected}
  BY <1>1 DEF ReadInv, Delivered
<1>5. \A f \in files : ~f.err
  <2>1. \A f \in files : f.err => Gap("license-file", f.path) \in gaps
    BY DEF AnswerInv, Delivered
  <2>2. \A d : Gap("license-file", d).kind = "license-file"
    BY DEF Gap
  <2>. QED  BY <2>1, <2>2 DEF OwnEvidenceLost, HasGap
<1>6. Selected = LicenseFiles \cup Declared
  <2>1. \A p \in LicenseFiles : p \in Files
    BY DEF LicenseFiles
  <2>. QED  BY <1>3, <2>1, LicenseFilesAre DEF Selected
<1>7. ASSUME NEW p \in Selected
      PROVE  p \in Files /\ ReadFile(p) = [path |-> p, digest |-> Text[p], err |-> FALSE]
  <2>1. ~ReadFile(p).err
    BY <1>4, <1>5
  <2>2. p \in Files /\ Fault(p) = ""
    BY <2>1 DEF ReadFile
  <2>3. Opens(p)
    BY <2>2 DEF Opens, Astray
  <2>. QED  BY <2>2, <2>3 DEF ReadFile
<1>8. {ReadFile(p) : p \in Selected}
        = {[path |-> p, digest |-> Text[p], err |-> FALSE] : p \in Selected}
  BY <1>7
<1>9. Declared \subseteq Files
  BY <1>7 DEF Selected
<1>10. \A p \in Selected : ~Astray(p)
  <2>1. \A p \in Selected : ~ReadFile(p).err
    BY <1>4, <1>5
  <2>. QED  BY <2>1 DEF ReadFile, Astray
<1>11. \A p \in Selected : IsLicenseFile(p) => p \in LicenseFiles
  BY <1>7, <1>10, LicenseFilesAre
<1>. QED  BY <1>1, <1>4, <1>6, <1>8, <1>9, <1>11

\* When no gap touches the component's own evidence, the answer is that of its own
\* texts: the root's, and those below it only where the root has none
\* (CompleteAnswerIsTrue).
THEOREM CompleteAnswersAreTrue == Spec => []CompleteAnswerIsTrue
<1>1. ASSUME IInv, ReadInv, AnswerInv, Delivered, ~OwnEvidenceLost
      PROVE  bundle.conclusion.identifiers = TrueIdentifiers
  <2> DEFINE read(p) == [path |-> p, digest |-> Text[p], err |-> FALSE]
             ids == UNION {Named[f.digest] : f \in Concluding(files)}
  <2>1. /\ source = "ok" /\ Declared \subseteq Files
        /\ Selected = LicenseFiles \cup Declared
        /\ files = {read(p) : p \in Selected}
    BY <1>1, Intact
  <2>2. OwnTexts = {p \in Selected : InScope(p)}
    BY <2>1, InScopeIs DEF OwnTexts
  <2>3. {g \in files : InScope(g.path)} = {read(p) : p \in OwnTexts}
    BY <2>1, <2>2
  <2>4. {f \in {read(p) : p \in OwnTexts} : AtRoot(f.path)} = {read(p) : p \in RootTexts}
    BY DEF RootTexts
  <2>5. PreferRoot({read(p) : p \in OwnTexts}) = {read(p) : p \in SpeakingTexts}
    BY <2>4 DEF PreferRoot, SpeakingTexts
  <2>6. Concluding(files) = {read(p) : p \in SpeakingTexts}
    BY <2>3, <2>5 DEF Concluding
  <2>7. ids = TrueIdentifiers
    <3>1. {Named[f.digest] : f \in {read(p) : p \in SpeakingTexts}}
            = {Named[Text[p]] : p \in SpeakingTexts}
      <4>1. \A p : read(p).digest = Text[p]
        OBVIOUS
      <4>. HIDE DEF read
      <4>. QED  BY <4>1
    <3>. QED  BY <2>6, <3>1 DEF TrueIdentifiers
  <2>8. IsFiniteSet(TrueIdentifiers)
    <3>1. SpeakingTexts \subseteq Files \cup Declared /\ SpeakingTexts \subseteq DOMAIN Text
      BY CollectAssumption DEF SpeakingTexts, RootTexts, OwnTexts, LicenseFiles
    <3>2. IsFiniteSet(SpeakingTexts)
      BY <3>1, CollectAssumption, FS_Subset
    <3> DEFINE sets == {Named[Text[p]] : p \in SpeakingTexts}
               f == [p \in SpeakingTexts |-> Named[Text[p]]]
    <3>3. f \in Surjection(SpeakingTexts, sets)
      BY DEF Surjection
    <3>4. IsFiniteSet(sets)
      <4>. HIDE DEF f, sets
      <4>. QED  BY <3>2, <3>3, FS_Surjection
    <3>5. \A T \in sets : IsFiniteSet(T)
      BY <3>1, CollectAssumption
    <3>. QED  BY <3>4, <3>5, FS_UNION DEF TrueIdentifiers
  <2>. QED  BY <1>1, <2>1, <2>7, <2>8, ConclusionIs
<1>2. IInv /\ ReadInv /\ AnswerInv => CompleteAnswerIsTrue
  BY <1>1 DEF CompleteAnswerIsTrue
<1>. QED  BY <1>2, ReadInvariance, PTL

\* The key that an intact collection stores its answer under is a fact about the
\* tree, whatever the enumerators found or missed (KeyIsContent).
THEOREM KeysAreContent == Spec => []KeyIsContent
<1>1. ASSUME IInv, ReadInv, AnswerInv, Delivered, ~OwnEvidenceLost
      PROVE  bundle.key = TrueKey
  <2>1. /\ Declared \subseteq Files
        /\ \A p \in Selected : IsLicenseFile(p) => p \in LicenseFiles
        /\ Selected = LicenseFiles \cup Declared
        /\ files = {[path |-> p, digest |-> Text[p], err |-> FALSE] : p \in Selected}
    BY <1>1, Intact
  <2>2. From(files) = {Record(p, Text[p]) : p \in LicenseFiles}
    <3>1. \A p \in Selected : p \in Files /\ (IsLicenseFile(p) \/ p \in Declared)
      BY <2>1 DEF LicenseFiles
    <3>2. \A p \in Selected : Text[p] # None
      BY <3>1, CollectAssumption
    <3>3. {g \in files : g.digest # None /\ Covers(g.path)}
            = {[path |-> p, digest |-> Text[p], err |-> FALSE] :
                 p \in LicenseFiles}
      BY <2>1, <3>2 DEF Covers, LicenseFiles
    <3> DEFINE read(p) == [path |-> p, digest |-> Text[p], err |-> FALSE]
               found == LicenseFiles
    <3>4. {Record(f.path, f.digest) : f \in {read(p) : p \in found}}
            = {Record(p, Text[p]) : p \in found}
      <4>1. \A p : read(p).path = p /\ read(p).digest = Text[p]
        OBVIOUS
      <4>. HIDE DEF read, found
      <4>. QED  BY <4>1
    <3>. QED  BY <3>3, <3>4 DEF From
  <2>3. bundle.key = {r \in From(files) : /\ ~BelongsToAnother(r.path)
                                          /\ ~OwnedByNested(r.path, Roots(bundle.copies))}
    BY <1>1 DEF IInv, Assembled, Delivered, Compute, OwnFiles
  <2>4. ASSUME NEW p \in Files, ~BelongsToAnother(p)
        PROVE  ~OwnedByNested(p, Roots(bundle.copies))
    <3> SUFFICES ASSUME NEW v \in bundle.copies, Inside(p, v.root)
                 PROVE  FALSE
      BY DEF OwnedByNested, Roots
    <3> DEFINE k == Len(ModDir) + 1
    <3>1. k \in 1..Len(v.root) /\ v.root[k] = "vendor" /\ v.root \in Seq(Segments)
      BY <1>1, CopiesAre
    <3>2. p \in Seq(Segments)
      BY Paths
    <3>3. k \in DOMAIN p /\ p[k] = "vendor"
      BY <3>1, <3>2 DEF Inside
    <3>. QED  BY <2>4, <3>3, InScopeIs, CollectAssumption
  <2>5. \A p \in LicenseFiles :
          p \in Files /\ (p \in OwnCovered <=> ~BelongsToAnother(p))
    BY InScopeIs DEF OwnCovered, LicenseFiles
  <2>6. \A p : Record(p, Text[p]).path = p
    BY DEF Record
  <2>. QED  BY <2>2, <2>3, <2>4, <2>5, <2>6 DEF TrueKey, OwnCovered
<1>2. IInv /\ ReadInv /\ AnswerInv => KeyIsContent
  BY <1>1 DEF KeyIsContent
<1>. QED  BY <1>2, ReadInvariance, PTL

-----------------------------------------------------------------------------
(* The enumerations                                                        *)

Left == {todo[i] : i \in DOMAIN todo}

\* The enumerators that have had their turn.
Due(e) ==
    \/ /\ e \in {"golang", "cargo", "npm"} /\ source = "ok"
       /\ \/ pc = "enumerateSource" /\ e \notin Left
          \/ pc \in {"installed", "enumerateInstalled", "assemble", "done"}
    \/ /\ e \in {"pypi", "maven"} /\ installed = "ok"
       /\ \/ pc = "enumerateInstalled" /\ e \notin Left
          \/ pc \in {"assemble", "done"}

\* Where none has failed, each has added what it names.
EnumInv ==
    /\ pc = "enumerateInstalled" => installed = "ok"
    /\ pc \in {"assemble", "done"} => installed # ""
    /\ source = "ok" /\ pc \in {"enumerateSource", "installed", "enumerateInstalled",
                                "assemble", "done"} => vendorRoot = VendorRoot
    /\ failures = {} =>
           \A e \in Ecosystems : Due(e) =>
               Enumerate(e).components \subseteq components /\ Enumerate(e).failures = {}

LEMMA TodoIs == TypeOK => todo \in Seq(Ecosystems)
<1>1. \A E : \A a, b, c \in E : /\ <<a, b, c>> \in Seq(E) /\ <<b, c>> \in Seq(E)
                              /\ <<c>> \in Seq(E) /\ <<>> \in Seq(E)
  OBVIOUS
<1>2. {"golang", "cargo", "npm", "pypi", "maven"} = Ecosystems
  BY DEF Ecosystems
<1>3. /\ SourceEcosystems \in Seq(Ecosystems) /\ <<"cargo", "npm">> \in Seq(Ecosystems)
      /\ <<"npm">> \in Seq(Ecosystems) /\ InstalledEcosystems \in Seq(Ecosystems)
      /\ <<"maven">> \in Seq(Ecosystems) /\ <<>> \in Seq(Ecosystems)
  BY <1>1, <1>2 DEF SourceEcosystems, InstalledEcosystems
<1>. QED  BY <1>3 DEF TypeOK, Remaining

LEMMA LeftIs ==
    ASSUME TypeOK
    PROVE  /\ todo = <<>> => Left = {}
           /\ todo # <<>> => Left \subseteq {Head(todo)} \cup {Tail(todo)[i] : i \in DOMAIN Tail(todo)}
<1>1. todo \in Seq(Ecosystems)
  BY TodoIs
<1>2. todo # <<>> => \A i \in DOMAIN todo : i # 1 =>
        i - 1 \in DOMAIN Tail(todo) /\ Tail(todo)[i - 1] = todo[i]
  BY <1>1
<1>3. todo # <<>> => Head(todo) = todo[1]
  BY <1>1
<1>. QED  BY <1>2, <1>3 DEF Left

LEMMA EnumerateStays ==
    ASSUME UNCHANGED <<fault, vendorRoot>>
    PROVE  \A e : Enumerate(e)' = Enumerate(e)
BY DEF Enumerate, EnumerateGo, EnumerateLock, EnumerateInstalled, Enumeration, Met,
       Opens, Astray, Reachable, Fault

LEMMA EnumInit == Init => EnumInv
BY DEF Init, EnumInv, Due

LEMMA EnumKept ==
    ASSUME TypeOK, ReadInv, EnumInv, Next
    PROVE  EnumInv'
<1>. USE DEF treeVars, Goto
<1>1. UNCHANGED fault
  BY DEF Next, Cancel, Start, Source, Detection, Licensing, EnumerateSourceNext,
         EnumerateInstalledNext, EnumerateNext, OpenInstalled, Assemble
<1>2. VendorRoot' = VendorRoot
  BY <1>1 DEF VendorRoot, Reachable, Opens, Astray, Fault
<1>3. CASE Licensing
  <2>1. /\ pc' = "enumerateSource" /\ vendorRoot' = VendorRoot
        /\ todo' = SourceEcosystems
    BY <1>3 DEF Licensing
  <2>2. {"golang", "cargo", "npm"} \subseteq Left'
    <3>1. \A a, b, c : {a, b, c} \subseteq {<<a, b, c>>[i] : i \in DOMAIN <<a, b, c>>}
      OBVIOUS
    <3>2. Left' = {SourceEcosystems[i] : i \in DOMAIN SourceEcosystems}
      BY <2>1 DEF Left
    <3>. QED  BY <3>1, <3>2 DEF SourceEcosystems
  <2>3. \A e : ~Due(e)'
    BY <2>1, <2>2 DEF Due
  <2>. QED  BY <1>2, <2>1, <2>3 DEF EnumInv
<1>4. CASE OpenInstalled
  <2>1. /\ pc = "installed" /\ UNCHANGED <<source, vendorRoot, components, failures>>
        /\ \/ pc' = "enumerateInstalled" /\ installed' = "ok" /\ todo' = InstalledEcosystems
           \/ pc' = "assemble" /\ installed' \in {"lost", "none"}
    BY <1>4 DEF OpenInstalled
  <2>2. pc' = "enumerateInstalled" => {"pypi", "maven"} \subseteq Left'
    <3>1. \A a, b : {a, b} \subseteq {<<a, b>>[i] : i \in DOMAIN <<a, b>>}
      OBVIOUS
    <3>2. pc' = "enumerateInstalled" =>
            Left' = {InstalledEcosystems[i] : i \in DOMAIN InstalledEcosystems}
      BY <2>1 DEF Left
    <3>. QED  BY <3>1, <3>2 DEF InstalledEcosystems
  <2>3. \A e : Due(e)' => Due(e)
    BY <2>1, <2>2 DEF Due
  <2>4. \A e : Enumerate(e)' = Enumerate(e)
    BY <1>1, <2>1, EnumerateStays
  <2>. QED  BY <1>2, <2>1, <2>3, <2>4 DEF EnumInv
<1>5. ASSUME NEW step, NEW next, EnumerateNext(step, next),
             \/ step = "enumerateSource" /\ next = "installed"
             \/ step = "enumerateInstalled" /\ next = "assemble"
      PROVE  EnumInv'
  <2>1. pc = step /\ UNCHANGED <<source, installed, vendorRoot>>
    BY <1>5 DEF EnumerateNext
  <2>2. \A e : Enumerate(e)' = Enumerate(e)
    BY <1>1, <2>1, EnumerateStays
  <2>3. CASE todo = <<>>
    <3>1. pc' = next /\ UNCHANGED <<components, failures, todo>>
      BY <1>5, <2>3 DEF EnumerateNext
    <3>2. \A e : Due(e)' => Due(e)
      BY <1>5, <2>1, <2>3, <3>1, LeftIs DEF Due
    <3>. QED  BY <1>2, <1>5, <2>1, <2>2, <3>1, <3>2 DEF EnumInv
  <2>4. CASE todo # <<>> /\ cancelled
    <3>1. UNCHANGED pc /\ failures' # {}
      BY <1>5, <2>4 DEF EnumerateNext
    <3>. QED  BY <1>2, <1>5, <2>1, <3>1 DEF EnumInv
  <2>5. CASE todo # <<>> /\ ~cancelled
    <3>1. /\ components' = components \cup Enumerate(Head(todo)).components
          /\ failures' = failures \cup Enumerate(Head(todo)).failures
          /\ todo' = Tail(todo) /\ UNCHANGED pc
      BY <1>5, <2>5 DEF EnumerateNext
    <3>2. \A e : Due(e)' => e = Head(todo) \/ Due(e)
      <4>1. Left \subseteq {Head(todo)} \cup Left'
        BY <2>5, <3>1, LeftIs DEF Left
      <4>. QED  BY <1>5, <2>1, <3>1, <4>1 DEF Due
    <3>3. ASSUME failures' = {}, NEW e \in Ecosystems, Due(e)'
          PROVE  Enumerate(e)'.components \subseteq components' /\ Enumerate(e)'.failures = {}
      <4>1. CASE e = Head(todo)
        BY <2>2, <3>1, <3>3, <4>1
      <4>2. CASE e # Head(todo)
        <5>1. failures = {} /\ Due(e)
          BY <3>1, <3>2, <3>3, <4>2
        <5>. QED  BY <2>2, <3>1, <5>1 DEF EnumInv
      <4>. QED  BY <4>1, <4>2
    <3>. QED  BY <1>2, <1>5, <2>1, <3>1, <3>3 DEF EnumInv
  <2>. QED  BY <2>3, <2>4, <2>5
<1>6. CASE Cancel \/ Start \/ Source \/ Detection \/ Assemble
  <2>1. /\ UNCHANGED <<installed, vendorRoot, components, failures, todo>>
        /\ \/ UNCHANGED <<pc, source>>
           \/ pc' \in {"error", "source", "detect", "licensing"}
           \/ pc' = "installed" /\ source' = "lost"
           \/ pc = "assemble" /\ pc' = "done" /\ UNCHANGED source
    BY <1>6 DEF Cancel, Start, Source, Detection, Assemble
  <2>2. UNCHANGED Left
    BY <2>1 DEF Left
  <2>3. \A e : Due(e)' => Due(e)
    BY <2>1, <2>2 DEF Due
  <2>4. \A e : Enumerate(e)' = Enumerate(e)
    BY <1>1, <2>1, EnumerateStays
  <2>. QED  BY <1>2, <2>1, <2>3, <2>4 DEF EnumInv
<1>. QED  BY <1>3, <1>4, <1>5, <1>6 DEF Next, EnumerateSourceNext, EnumerateInstalledNext

LEMMA EnumInvariance == Spec => [](IInv /\ ReadInv /\ AnswerInv /\ EnumInv)
<1>1. EnumInv /\ UNCHANGED vars => EnumInv'
  <2> SUFFICES ASSUME EnumInv, UNCHANGED vars  PROVE EnumInv'
    OBVIOUS
  <2>1. VendorRoot' = VendorRoot
    BY DEF vars, treeVars, VendorRoot, Reachable, Opens, Astray, Fault
  <2>2. \A e : Enumerate(e)' = Enumerate(e)
    BY EnumerateStays DEF vars, treeVars
  <2>3. \A e : Due(e)' => Due(e)
    BY DEF vars, treeVars, Due, Left
  <2>. QED  BY <2>1, <2>2, <2>3 DEF vars, treeVars, EnumInv
<1>2. IInv /\ ReadInv /\ EnumInv /\ [Next]_vars => EnumInv'
  BY <1>1, EnumKept DEF IInv
<1>. QED  BY <1>2, EnumInit, ReadInvariance, PTL DEF Spec

\* The components that a bundle lacks are accounted for by one of its gaps,
\* whichever step was cancelled or lost, but for the two kinds that the enumerators
\* leave out without a word (ClosureOrGap).
THEOREM ClosuresAreWholeOrGapped == Spec => []ClosureOrGap
<1> DEFINE I == IInv /\ ReadInv /\ AnswerInv /\ EnumInv
<1>1. ASSUME I, Delivered, ~HasGap("dependencies")
      PROVE  failures = {}
  <2>1. \A d : Gap("dependencies", d).kind = "dependencies"
    BY DEF Gap
  <2>. QED  BY <1>1, <2>1 DEF AnswerInv, Delivered, HasGap
<1>2. ASSUME I, Delivered, failures = {}, NEW e \in Ecosystems, Due(e),
             NEW x \in Enumerate(e).components, UsableIdentifier(x)
      PROVE  x \in bundle.components
  BY <1>2 DEF EnumInv, AnswerInv, Delivered, Finalize
<1>3. ASSUME I, Delivered, failures = {}, source = "ok", Unreadable = {},
             NEW x \in NamedBySource, UsableIdentifier(x), x \notin LeftOut
      PROVE  x \in bundle.components
  <2>1. \A p \in Files : Reachable(p)
    BY <1>3, Obstructed
  <2>2. Due("golang") /\ Due("cargo") /\ Due("npm")
    BY <1>3 DEF Due, Delivered
  <2>3. /\ Enumerate("golang").failures = {} /\ Enumerate("cargo").failures = {}
        /\ Enumerate("npm").failures = {}
    BY <1>3, <2>2 DEF EnumInv, Ecosystems
  <2>4. CASE /\ GoModPath \in Files /\ GoList \in Files
             /\ \E n \in Names[GoList] : x = PURL("golang", n)
    <3>1. PICK n \in Names[GoList] : x = PURL("golang", n)
      BY <2>4
    <3>2. n \notin Unlisted
      BY <1>3, <3>1 DEF LeftOut
    <3>3. vendorRoot # None
      BY <1>3, <2>1, <2>4, Paths DEF EnumInv, Delivered, VendorRoot
    <3>4. Enumerate("golang") = EnumerateGo
      BY DEF Enumerate
    <3>5. GoSumPath \in Files => Opens(GoSumPath)
      BY <2>3, <3>3, <3>4 DEF EnumerateGo, Enumeration
    <3>6. x \in Enumerate("golang").components
      <4>1. CASE ModulesTxtPath \in Files /\ Opens(ModulesTxtPath)
        BY <3>1, <3>3, <3>4, <4>1 DEF EnumerateGo, Enumeration, GoList
      <4>2. CASE ~(ModulesTxtPath \in Files /\ Opens(ModulesTxtPath))
        <5>1. GoSumPath \in Files /\ n \in Names[GoSumPath]
          BY <2>4, <3>1, <3>2, <4>2 DEF GoList, Unlisted, StandsIn
        <5>. QED  BY <3>1, <3>3, <3>4, <3>5, <4>2, <5>1 DEF EnumerateGo, Enumeration
      <4>. QED  BY <4>1, <4>2
    <3>. QED  BY <1>2, <1>3, <2>2, <3>6 DEF Ecosystems
  <2>5. ASSUME NEW e \in {"cargo", "npm"}, Lock[e] \in Files, NEW n \in Names[Lock[e]],
               x = PURL(e, n)
        PROVE  x \in bundle.components
    <3>1. Enumerate(e) = EnumerateLock(e)
      BY DEF Enumerate
    <3>2. Opens(Lock[e])
      BY <2>1, <2>3, <2>5, <3>1 DEF EnumerateLock, Enumeration
    <3>3. x \in Enumerate(e).components
      BY <2>1, <2>5, <3>1, <3>2 DEF EnumerateLock, Enumeration
    <3>. QED  BY <1>2, <1>3, <2>2, <3>3 DEF Ecosystems
  <2>. QED  BY <2>4, <2>5 DEF NamedBySource
<1>4. ASSUME I, Delivered, failures = {}, installed = "ok",
             NEW x \in NamedByInstalled, UsableIdentifier(x), x \notin LeftOut
      PROVE  x \in bundle.components
  <2>1. PICK e \in {"pypi", "maven"} :
            \E u \in Installed[e] : x = PURL(e, Unit(u)) /\ Met(u)
    BY <1>4 DEF NamedByInstalled, LeftOut
  <2>2. Due(e) /\ e \in Ecosystems
    BY <1>4 DEF Due, Delivered, Ecosystems
  <2>3. Enumerate(e) = EnumerateInstalled(e)
    BY DEF Enumerate
  <2>4. \A u \in Installed[e] : Met(u) => Opens(u)
    BY <1>4, <2>2, <2>3 DEF EnumInv, EnumerateInstalled, Enumeration
  <2>5. x \in Enumerate(e).components
    BY <2>1, <2>3, <2>4 DEF EnumerateInstalled, Enumeration
  <2>. QED  BY <1>2, <1>4, <2>2, <2>5
<1>5. ASSUME I, Delivered, Unreadable # {} /\ source = "ok"
      PROVE  HasGap("unreadable-tree")
  <2>1. PICK d \in Unreadable : TRUE
    BY <1>5
  <2>2. Gap("unreadable-tree", d) \in gaps
    BY <1>5 DEF ReadInv, Delivered
  <2>3. Gap("unreadable-tree", d).kind = "unreadable-tree"
    BY DEF Gap
  <2>. QED  BY <2>2, <2>3 DEF HasGap
<1>6. ASSUME I, Delivered
      PROVE  /\ source \in {"ok", "lost"} /\ installed \in {"ok", "none", "lost"}
             /\ source = "lost" => HasGap("source")
             /\ installed = "lost" => HasGap("installed")
             /\ installed = "none" => HasGap("no-installed-trees")
  <2>1. \A k, d : Gap(k, d).kind = k
    BY DEF Gap
  <2>2. source # "" /\ installed # ""
    BY <1>6 DEF ReadInv, EnumInv, Delivered
  <2>3. source \in {"", "ok", "lost"} /\ installed \in {"", "ok", "none", "lost"}
    BY <1>6 DEF IInv, TypeOK
  <2>4. /\ source = "lost" => Gap("source", <<>>) \in gaps
        /\ installed = "lost" => Gap("installed", <<>>) \in gaps
        /\ installed = "none" => Gap("no-installed-trees", <<>>) \in gaps
    BY <1>6 DEF ReadInv
  <2>5. /\ source = "lost" => HasGap("source")
        /\ installed = "lost" => HasGap("installed")
        /\ installed = "none" => HasGap("no-installed-trees")
    BY <2>1, <2>4 DEF HasGap
  <2>. QED  BY <2>2, <2>3, <2>5
<1>7. I => ClosureOrGap
  <2> SUFFICES ASSUME I, Delivered, ~HasGap("dependencies"),
                      NEW x \in Finalize(NamedBySource \cup NamedByInstalled)
                                    \ (bundle.components \cup LeftOut)
               PROVE  \/ x \in NamedBySource /\ (HasGap("source") \/ HasGap("unreadable-tree"))
                      \/ x \in NamedByInstalled
                             /\ (HasGap("installed") \/ HasGap("no-installed-trees"))
    BY DEF ClosureOrGap
  <2>1. /\ UsableIdentifier(x) /\ x \notin LeftOut
        /\ x \in NamedBySource \/ x \in NamedByInstalled
    BY DEF Finalize
  <2>. HIDE DEF I
  <2>. QED  BY <1>1, <1>3, <1>4, <1>5, <1>6, <2>1
<1>. QED  BY <1>7, EnumInvariance, PTL

-----------------------------------------------------------------------------
(* Hashing up to line endings                                              *)

\* Dropping the first byte of every pair, byte by byte.
LEMMA UnixIs ==
    ASSUME NEW bytes \in Seq(Bytes)
    PROVE  \E u \in [0..Len(bytes) -> Seq(Bytes)] :
               /\ u[0] = <<>> /\ Unix(bytes) = u[Len(bytes)]
               /\ \A n \in 1..Len(bytes) :
                      u[n] = IF Pair(bytes, n) THEN u[n - 1] ELSE Append(u[n - 1], bytes[n])
<1> DEFINE N == Len(bytes)
           X == Seq(Bytes)
           Grown(x, n) == IF Pair(bytes, n) THEN x ELSE Append(x, bytes[n])
           step == [n \in 1..N |-> [x \in X |-> Grown(x, n)]]
           T == Turns(N, <<>>, step)
           next(f) == [n \in 0..N |-> IF n = 0 THEN <<>> ELSE Grown(f[n - 1], n)]
           u == CHOOSE f : f = next(f)
<1>1. N \in Nat /\ <<>> \in X
  OBVIOUS
<1>2. step \in [1..N -> [X -> X]]
  <2> SUFFICES ASSUME NEW n \in 1..N, NEW x \in X  PROVE Grown(x, n) \in X
    OBVIOUS
  <2>1. bytes[n] \in Bytes
    OBVIOUS
  <2>. QED  BY <2>1
<1>3. T \in [0..N -> X] /\ T[0] = <<>> /\ \A n \in 1..N : T[n] = step[n][T[n - 1]]
  <2>. HIDE DEF step, X, N
  <2>. QED  BY <1>1, <1>2, TurnsAre
<1>. HIDE DEF T
<1>4. ASSUME NEW n \in 1..N  PROVE T[n] = Grown(T[n - 1], n)
  <2>1. n - 1 \in 0..N
    BY <1>1
  <2>2. T[n - 1] \in X
    <3>. HIDE DEF X, step, N
    <3>. QED  BY <1>3, <2>1
  <2>. HIDE DEF X, Grown
  <2>. QED  BY <1>3, <2>2
<1>5. T = next(T)
  <2>1. \A n \in 0..N : n # 0 => n \in 1..N
    BY <1>1
  <2>. HIDE DEF X, step, Grown
  <2>. QED  BY <1>3, <1>4, <2>1
<1>6. u = next(u)
  <2>. HIDE DEF next
  <2>. QED  BY <1>5
<1>7. Unix(bytes) = u[N]
  BY DEF Unix
<1>. HIDE DEF u
<1>8. u[0] = <<>> /\ \A n \in 1..N : u[n] = Grown(u[n - 1], n)
  <2>1. \A n \in 1..N : n \in 0..N /\ n # 0
    BY <1>1
  <2>2. next(u)[0] = <<>> /\ \A n \in 1..N : next(u)[n] = Grown(u[n - 1], n)
    <3>. HIDE DEF Grown
    <3>. QED  BY <1>1, <2>1
  <2>. HIDE DEF next, Grown
  <2>. QED  BY <1>6, <2>2
<1>9. \A n \in 0..N : u[n] \in X
  <2> DEFINE typed == {n \in Nat : n <= N => u[n] \in X}
  <2>1. 0 \in typed
    <3>. HIDE DEF X, Grown
    <3>. QED  BY <1>1, <1>8
  <2>2. ASSUME NEW n \in Nat, n \in typed  PROVE n + 1 \in typed
    <3> SUFFICES ASSUME n + 1 <= N  PROVE u[n + 1] \in X
      OBVIOUS
    <3>1. n + 1 \in 1..N /\ (n + 1) - 1 = n /\ n <= N
      BY <1>1
    <3>2. u[n + 1] = Grown(u[n], n + 1)
      <4>. HIDE DEF Grown
      <4>. QED  BY <1>8, <3>1
    <3>3. bytes[n + 1] \in Bytes
      BY <3>1
    <3>. QED  BY <2>2, <3>1, <3>2, <3>3
  <2>3. Nat \subseteq typed
    <3>. HIDE DEF typed
    <3>. QED  BY <2>1, <2>2, Climb
  <2>. HIDE DEF X
  <2>. QED  BY <1>1, <2>3
<1>10. u \in [0..N -> X]
  <2>1. u = [n \in 0..N |-> u[n]]
    <3>. HIDE DEF Grown
    <3>. QED  BY <1>6
  <2>. HIDE DEF X
  <2>. QED  BY <1>9, <2>1
<1>. QED  BY <1>7, <1>8, <1>10

\* What is held back of n bytes, and what is written of them: all that is dropped of
\* them as a whole, but for a CR at the end that the next chunk will decide about.
Halfway(read, u, bytes, n) ==
    IF read.held THEN n # 0 /\ bytes[n] = "CR" /\ read.out = u[n - 1] ELSE read.out = u[n]

LEMMA TurnIs ==
    ASSUME NEW bytes \in Seq(Bytes), NEW ends, NEW u, NEW n \in 1..Len(bytes), NEW read,
           Halfway(read, u, bytes, n - 1),
           \A k \in 1..Len(bytes) :
               u[k] = IF Pair(bytes, k) THEN u[k - 1] ELSE Append(u[k - 1], bytes[k])
    PROVE  Halfway(Turn(read, bytes, n, ends), u, bytes, n)
<1> DEFINE out == IF read.held /\ bytes[n] # "LF" THEN Append(read.out, "CR") ELSE read.out
           last == n \in ends \cup {Len(bytes)}
           turn == Turn(read, bytes, n, ends)
<1>1. Len(bytes) \in Nat
  OBVIOUS
<1>2. out = u[n - 1]
  <2>1. CASE read.held
    <3>1. n - 1 \in 1..Len(bytes) /\ (n - 1) + 1 = n /\ n - 1 < Len(bytes)
      BY <1>1, <2>1 DEF Halfway
    <3>2. bytes[n - 1] = "CR" /\ read.out = u[(n - 1) - 1]
      BY <2>1 DEF Halfway
    <3>3. Pair(bytes, n - 1) <=> bytes[n] = "LF"
      BY <3>1, <3>2 DEF Pair
    <3>. QED  BY <2>1, <3>1, <3>2, <3>3
  <2>2. CASE ~read.held
    BY <2>2 DEF Halfway
  <2>. QED  BY <2>1, <2>2
<1>3. /\ turn.held = (bytes[n] = "CR" /\ last)
      /\ turn.out = IF bytes[n] = "CR" /\ (last \/ bytes[n + 1] = "LF") THEN out
                    ELSE Append(out, bytes[n])
  BY DEF Turn
<1> SUFFICES Halfway(turn, u, bytes, n)
  OBVIOUS
<1>. HIDE DEF turn, out
<1>4. CASE bytes[n] = "CR" /\ last
  <2>1. turn.held /\ turn.out = u[n - 1]
    BY <1>2, <1>3, <1>4
  <2>2. n # 0
    BY <1>1
  <2>. QED  BY <1>4, <2>1, <2>2 DEF Halfway
<1>5. CASE ~(bytes[n] = "CR" /\ last)
  <2>1. u[n] = IF Pair(bytes, n) THEN u[n - 1] ELSE Append(u[n - 1], bytes[n])
    OBVIOUS
  <2>2. Pair(bytes, n) <=> bytes[n] = "CR" /\ bytes[n + 1] = "LF" /\ n < Len(bytes)
    BY DEF Pair
  <2>3. bytes[n] = "CR" => n < Len(bytes)
    BY <1>1, <1>5
  <2>. QED  BY <1>2, <1>3, <1>5, <2>1, <2>2, <2>3 DEF Halfway
<1>. QED  BY <1>4, <1>5

\* However a file comes in chunks, what is hashed of it is the file without the CR of
\* every CR LF.
LEMMA ChunksDoNotMatter ==
    ASSUME NEW bytes \in Seq(Bytes), NEW ends
    PROVE  HashNormalized(bytes, ends) = Unix(bytes)
<1> DEFINE N == Len(bytes)
           X == [held : BOOLEAN, out : Seq(Bytes)]
           first == [held |-> FALSE, out |-> <<>>]
           step == [n \in 1..N |-> [x \in X |-> Turn(x, bytes, n, ends)]]
           T == Turns(N, first, step)
           next(f) == [i \in 0..N |-> IF i = 0 THEN first ELSE Turn(f[i - 1], bytes, i, ends)]
           read == CHOOSE f : f = next(f)
<1>1. N \in Nat /\ first \in X
  OBVIOUS
<1>2. step \in [1..N -> [X -> X]]
  <2> SUFFICES ASSUME NEW n \in 1..N, NEW x \in X  PROVE Turn(x, bytes, n, ends) \in X
    OBVIOUS
  <2>1. bytes[n] \in Bytes /\ "CR" \in Bytes /\ x.out \in Seq(Bytes)
    BY VendoredCopyAssumption
  <2>2. \A b \in Bytes, t \in Seq(Bytes) : Append(t, b) \in Seq(Bytes)
    OBVIOUS
  <2>. QED  BY <2>1, <2>2 DEF Turn
<1>3. T \in [0..N -> X] /\ T[0] = first /\ \A n \in 1..N : T[n] = step[n][T[n - 1]]
  <2>. HIDE DEF step, X, N, first
  <2>. QED  BY <1>1, <1>2, TurnsAre
<1>. HIDE DEF T
<1>4. ASSUME NEW n \in 1..N  PROVE T[n] = Turn(T[n - 1], bytes, n, ends)
  <2>1. n - 1 \in 0..N
    BY <1>1
  <2>2. T[n - 1] \in X
    <3>. HIDE DEF X, step, N
    <3>. QED  BY <1>3, <2>1
  <2>. HIDE DEF X
  <2>. QED  BY <1>3, <2>2
<1>5. T = next(T)
  <2>1. \A n \in 0..N : n # 0 => n \in 1..N
    BY <1>1
  <2>. HIDE DEF X, step, first
  <2>. QED  BY <1>3, <1>4, <2>1
<1>6. read = next(read)
  <2>. HIDE DEF next
  <2>. QED  BY <1>5
<1>7. HashNormalized(bytes, ends) = IF read[N].held THEN Append(read[N].out, "CR") ELSE read[N].out
  BY DEF HashNormalized
<1>. HIDE DEF read
<1>8. read[0] = first /\ \A n \in 1..N : read[n] = Turn(read[n - 1], bytes, n, ends)
  <2>1. \A n \in 1..N : n \in 0..N /\ n # 0
    BY <1>1
  <2>2. next(read)[0] = first /\ \A n \in 1..N : next(read)[n] = Turn(read[n - 1], bytes, n, ends)
    <3>. HIDE DEF first
    <3>. QED  BY <1>1, <2>1
  <2>. HIDE DEF next, first
  <2>. QED  BY <1>6, <2>2
<1>9. PICK u \in [0..N -> Seq(Bytes)] :
          /\ u[0] = <<>> /\ Unix(bytes) = u[N]
          /\ \A n \in 1..N :
                 u[n] = IF Pair(bytes, n) THEN u[n - 1] ELSE Append(u[n - 1], bytes[n])
  BY UnixIs
<1> DEFINE right == {n \in Nat : n <= N => Halfway(read[n], u, bytes, n)}
<1>10. 0 \in right
  BY <1>8, <1>9 DEF Halfway
<1>11. ASSUME NEW n \in Nat, n \in right  PROVE n + 1 \in right
  <2> SUFFICES ASSUME n + 1 <= N  PROVE Halfway(read[n + 1], u, bytes, n + 1)
    OBVIOUS
  <2>1. n + 1 \in 1..N /\ (n + 1) - 1 = n /\ n <= N
    BY <1>1
  <2>2. read[n + 1] = Turn(read[n], bytes, n + 1, ends)
    BY <1>8, <2>1
  <2>3. Halfway(read[n], u, bytes, (n + 1) - 1)
    BY <1>11, <2>1
  <2>. QED  BY <1>9, <2>1, <2>2, <2>3, TurnIs
<1>12. Halfway(read[N], u, bytes, N)
  <2>1. Nat \subseteq right
    <3>. HIDE DEF right
    <3>. QED  BY <1>10, <1>11, Climb
  <2>. QED  BY <1>1, <2>1
<1>13. CASE read[N].held
  <2>1. N \in 1..N /\ bytes[N] = "CR" /\ read[N].out = u[N - 1]
    BY <1>1, <1>12, <1>13 DEF Halfway
  <2>2. ~Pair(bytes, N)
    BY <1>1 DEF Pair
  <2>. QED  BY <1>7, <1>9, <1>13, <2>1, <2>2
<1>14. CASE ~read[N].held
  BY <1>7, <1>9, <1>12, <1>14 DEF Halfway
<1>. QED  BY <1>13, <1>14

\* Text whose lines end in LF is itself.
LEMMA UnixText ==
    ASSUME NEW t \in DOMAIN Content
    PROVE  Unix(Content[t]) = Content[t]
<1> DEFINE bytes == Content[t]
           N == Len(bytes)
<1>1. bytes \in Seq(Bytes) /\ \A n \in 1..N : ~Pair(bytes, n)
  BY VendoredCopyAssumption
<1>. HIDE DEF bytes
<1>2. PICK u \in [0..N -> Seq(Bytes)] :
          /\ u[0] = <<>> /\ Unix(bytes) = u[N]
          /\ \A n \in 1..N :
                 u[n] = IF Pair(bytes, n) THEN u[n - 1] ELSE Append(u[n - 1], bytes[n])
  BY <1>1, UnixIs
<1>3. \A n \in 1..N : u[n] = Append(u[n - 1], bytes[n])
  BY <1>1, <1>2
<1> DEFINE same == {n \in Nat : n <= N => Len(u[n]) = n /\ \A k \in 1..n : u[n][k] = bytes[k]}
<1>4. N \in Nat
  BY <1>1
<1>5. 0 \in same
  BY <1>2
<1>6. ASSUME NEW n \in Nat, n \in same  PROVE n + 1 \in same
  <2> SUFFICES ASSUME n + 1 <= N
               PROVE  Len(u[n + 1]) = n + 1 /\ \A k \in 1..n + 1 : u[n + 1][k] = bytes[k]
    OBVIOUS
  <2>1. n + 1 \in 1..N /\ (n + 1) - 1 = n /\ n \in 0..N
    BY <1>4
  <2>2. u[n + 1] = Append(u[n], bytes[n + 1]) /\ u[n] \in Seq(Bytes)
    BY <1>2, <1>3, <2>1
  <2>3. Len(u[n]) = n /\ \A k \in 1..n : u[n][k] = bytes[k]
    BY <1>6, <2>1
  <2>4. bytes[n + 1] \in Bytes
    BY <1>1, <2>1
  <2>5. Len(u[n + 1]) = n + 1
    BY <2>2, <2>3, <2>4
  <2>6. ASSUME NEW k \in 1..n + 1  PROVE u[n + 1][k] = bytes[k]
    <3>1. CASE k = n + 1
      BY <2>2, <2>3, <2>4, <3>1
    <3>2. CASE k \in 1..n
      BY <2>2, <2>3, <2>4, <3>2
    <3>. QED  BY <3>1, <3>2
  <2>. QED  BY <2>5, <2>6
<1>7. Nat \subseteq same
  <2>. HIDE DEF same
  <2>. QED  BY <1>5, <1>6, Climb
<1>8. Len(u[N]) = N /\ u[N] \in Seq(Bytes) /\ \A k \in 1..N : u[N][k] = bytes[k]
  BY <1>2, <1>4, <1>7
<1>9. u[N] = bytes
  BY <1>1, <1>8
<1>. QED  BY <1>2, <1>9 DEF bytes

-----------------------------------------------------------------------------
(* A consumer of the bundle                                                *)

\* The Go modules that are known became known together, after the tree was looked at.
Modules == {c \in components : c.ecosystem = "golang"}

ModulesInv ==
    /\ pc \in {"start", "source", "detect", "licensing"} => components = {}
    /\ Modules \in {{}, EnumerateGo.components}

LEMMA EnumeratedAre ==
    ASSUME NEW e \in Ecosystems, NEW c \in Enumerate(e).components
    PROVE  c.ecosystem = e
BY DEF Enumerate, EnumerateGo, EnumerateLock, EnumerateInstalled, Enumeration, PURL, Ecosystems

LEMMA ModulesKept ==
    ASSUME TypeOK, ModulesInv, Next
    PROVE  ModulesInv'
<1>. USE DEF treeVars, Goto
<1>1. UNCHANGED fault
  BY DEF Next, Cancel, Start, Source, Detection, Licensing, EnumerateSourceNext,
         EnumerateInstalledNext, EnumerateNext, OpenInstalled, Assemble
<1>2. vendorRoot' = vendorRoot => EnumerateGo' = EnumerateGo
  BY <1>1 DEF EnumerateGo, Enumeration, Opens, Astray, Fault
<1>3. CASE Licensing
  BY <1>3 DEF Licensing, ModulesInv, Modules
<1>4. CASE /\ UNCHANGED <<components, vendorRoot>>
           /\ pc' \in {"start", "source", "detect", "licensing"} =>
                  pc \in {"start", "source", "detect", "licensing"}
  BY <1>2, <1>4 DEF ModulesInv, Modules
<1>5. ASSUME NEW step, NEW next, EnumerateNext(step, next),
             step \in {"enumerateSource", "enumerateInstalled"}, next \in {"installed", "assemble"}
      PROVE  ModulesInv'
  <2>1. UNCHANGED vendorRoot /\ pc' \in {step, next}
    BY <1>5 DEF EnumerateNext
  <2>2. CASE UNCHANGED components
    BY <1>2, <1>5, <2>1, <2>2 DEF ModulesInv, Modules
  <2>3. CASE todo # <<>> /\ components' = components \cup Enumerate(Head(todo)).components
    <3>1. Head(todo) \in Ecosystems
      BY <2>3, TodoIs
    <3>2. \A c \in Enumerate(Head(todo)).components : c.ecosystem = Head(todo)
      BY <3>1, EnumeratedAre
    <3>3. CASE Head(todo) = "golang"
      <4>1. Enumerate(Head(todo)) = EnumerateGo
        BY <3>3 DEF Enumerate
      <4>2. Modules' = EnumerateGo.components
        BY <2>3, <3>2, <3>3, <4>1 DEF ModulesInv, Modules
      <4>. QED  BY <1>2, <1>5, <2>1, <4>2 DEF ModulesInv
    <3>4. CASE Head(todo) # "golang"
      <4>1. Modules' = Modules
        BY <2>3, <3>2, <3>4 DEF Modules
      <4>. QED  BY <1>2, <1>5, <2>1, <4>1 DEF ModulesInv
    <3>. QED  BY <3>3, <3>4
  <2>. QED  BY <1>5, <2>2, <2>3 DEF EnumerateNext
<1>6. CASE Cancel \/ Start \/ Source \/ Detection \/ OpenInstalled \/ Assemble
  <2>1. /\ UNCHANGED <<components, vendorRoot>>
        /\ pc' \in {"start", "source", "detect", "licensing"} =>
               pc \in {"start", "source", "detect", "licensing"}
    BY <1>6 DEF Cancel, Start, Source, Detection, OpenInstalled, Assemble
  <2>. QED  BY <1>4, <2>1
<1>. QED  BY <1>3, <1>5, <1>6 DEF Next, EnumerateSourceNext, EnumerateInstalledNext

CollectInv == IInv /\ ReadInv /\ AnswerInv /\ EnumInv /\ ModulesInv

LEMMA ModulesInvariance == Spec => []CollectInv
<1>1. Init => ModulesInv
  BY DEF Init, ModulesInv, Modules
<1>2. ModulesInv /\ UNCHANGED vars => ModulesInv'
  BY DEF vars, treeVars, ModulesInv, Modules, EnumerateGo, Enumeration, Opens, Astray, Fault
<1>3. IInv /\ ModulesInv /\ [Next]_vars => ModulesInv'
  BY <1>2, ModulesKept DEF IInv
<1>. QED  BY <1>1, <1>3, EnumInvariance, PTL DEF Spec, CollectInv

\* A verdict stands on the bundle as it was delivered.
VerdictInv ==
    verdict # None =>
        /\ Delivered
        /\ \E copy \in bundle.copies :
              /\ copy.purl.name \in DOMAIN Published
              /\ \E artifact \in Published[copy.purl.name], ends \in SUBSET Places :
                    verdict = [copy |-> copy, artifact |-> artifact,
                               result |-> Verify(LocalFiles(copy.purl), ArtifactFiles(artifact, ends))]

LEMMA NothingFollows ==
    ASSUME Delivered, [Next]_vars
    PROVE  UNCHANGED vars
BY DEF Delivered, Next, Cancel, Start, Source, Detection, Licensing, EnumerateSourceNext,
       EnumerateInstalledNext, EnumerateNext, OpenInstalled, Assemble

LEMMA VerdictStays ==
    ASSUME VerdictInv, [CopyNext]_copyVars
    PROVE  VerdictInv'
<1>1. CASE CheckSome
  <2>1. PICK copy \in bundle.copies : copy.purl.name \in DOMAIN Published /\
           \E artifact \in Published[copy.purl.name], ends \in SUBSET Places :
               Check(copy, artifact, ends)
    BY <1>1 DEF CheckSome
  <2>2. PICK artifact \in Published[copy.purl.name], ends \in SUBSET Places :
               Check(copy, artifact, ends)
    BY <2>1
  <2>3. /\ Delivered /\ UNCHANGED <<pc, bundle, files>>
        /\ verdict' = [copy |-> copy, artifact |-> artifact,
                       result |-> Verify(LocalFiles(copy.purl), ArtifactFiles(artifact, ends))]
    BY <2>2 DEF Check, vars, treeVars
  <2>4. LocalFiles(copy.purl)' = LocalFiles(copy.purl)
    BY <2>3 DEF LocalFiles, LocalLicenseFiles
  <2>. QED  BY <2>1, <2>3, <2>4 DEF VerdictInv, Delivered
<1>2. CASE UNCHANGED verdict /\ [Next]_vars
  <2> SUFFICES ASSUME verdict # None  PROVE VerdictInv'
    BY <1>2 DEF VerdictInv
  <2>1. PICK copy \in bundle.copies :
              /\ copy.purl.name \in DOMAIN Published
              /\ \E artifact \in Published[copy.purl.name], ends \in SUBSET Places :
                    verdict = [copy |-> copy, artifact |-> artifact,
                               result |-> Verify(LocalFiles(copy.purl), ArtifactFiles(artifact, ends))]
    BY DEF VerdictInv
  <2>2. Delivered /\ UNCHANGED <<pc, bundle, files>>
    BY <1>2, NothingFollows DEF VerdictInv, vars, treeVars
  <2>3. LocalFiles(copy.purl)' = LocalFiles(copy.purl)
    BY <2>2 DEF LocalFiles, LocalLicenseFiles
  <2>. QED  BY <1>2, <2>1, <2>2, <2>3 DEF VerdictInv, Delivered
<1>. QED  BY <1>1, <1>2 DEF CopyNext, copyVars

LEMMA CopyInvariance == CopySpec => [](CollectInv /\ VerdictInv)
<1>1. CopySpec => Spec
  <2>1. CopyInit => Init
    BY DEF CopyInit
  <2>2. [CopyNext]_copyVars => [Next]_vars
    BY DEF CopyNext, CheckSome, Check, copyVars
  <2>. QED  BY <2>1, <2>2, PTL DEF CopySpec, Spec
<1>2. CopyInit => VerdictInv
  BY DEF CopyInit, VerdictInv
<1>. QED  BY <1>1, <1>2, VerdictStays, ModulesInvariance, PTL DEF CopySpec

\* What the bundle's local files of a copy are: the files that no other copy with a
\* longer root holds.
LEMMA LocalAre ==
    ASSUME IInv, Delivered, NEW v \in bundle.copies
    PROVE  LocalLicenseFiles(v.purl) =
               {Record(RelativeTo(v.root, r.path), r.digest) :
                   r \in {x \in From(files) : v.root \in LongestRoot(x.path, Roots(bundle.copies))}}
<1> DEFINE own == {x \in bundle.copies : x.purl = v.purl}
           w == CHOOSE x \in own : TRUE
           roots == Roots(bundle.copies)
<1>1. v \in own /\ w \in own
  OBVIOUS
<1>2. w.root = v.root
  BY <1>1, CopiesAre
<1>3. LocalLicenseFiles(v.purl) = Relative(From(files), v.root, NestedRoots(v.root, roots))
  BY <1>1, <1>2 DEF LocalLicenseFiles
<1>4. /\ v.root # <<>> /\ v.root \in roots
      /\ roots \in SUBSET Seq(Segments)
  <2>1. roots \in SUBSET Seq(Segments) /\ v.root \in roots
    BY CopiesAre DEF Roots
  <2>2. Len(ModDir) + 1 \in 1..Len(v.root)
    BY CopiesAre
  <2>3. Len(ModDir) \in Nat
    BY CollectAssumption
  <2>. QED  BY <2>1, <2>2, <2>3
<1>5. ASSUME NEW x \in From(files)
      PROVE  x \in Owned(From(files), v.root, NestedRoots(v.root, roots))
             <=> v.root \in LongestRoot(x.path, roots)
  <2>1. x.path \in Seq(Segments)
    <3>1. PICK f \in files : x = Record(f.path, f.digest)
      BY DEF From
    <3>2. x.path = f.path /\ f.path \in Files \cup Declared
      BY <3>1 DEF Record, IInv, TypeOK
    <3>. QED  BY <3>2, Paths
  <2>2. CASE Inside(x.path, v.root)
    <3>1. ~OwnedByNested(x.path, NestedRoots(v.root, roots))
             <=> \A s \in roots : Inside(x.path, s) => Len(s) <= Len(v.root)
      BY <1>4, <2>1, <2>2, LongestOwns
    <3>. QED  BY <1>4, <2>2, <3>1 DEF Owned, LongestRoot
  <2>3. CASE ~Inside(x.path, v.root)
    BY <2>3 DEF Owned, LongestRoot
  <2>. QED  BY <2>2, <2>3
<1>6. Owned(From(files), v.root, NestedRoots(v.root, roots))
        = {x \in From(files) : v.root \in LongestRoot(x.path, roots)}
  BY <1>5 DEF Owned
<1>. QED  BY <1>3, <1>4, <1>6 DEF Relative, RelativeTo

\* The tree of a bundle with copies was opened, and its files are those of the tree.
LEMMA CopiesAreRead ==
    ASSUME CollectInv, Delivered, NEW v \in bundle.copies
    PROVE  /\ source = "ok" /\ vendorRoot # None
           /\ files = {ReadFile(p) : p \in Selected}
           /\ v.purl \in bundle.components
<1>1. vendorRoot # None /\ v.purl \in bundle.components
  <2>1. bundle.copies = VendoredRoots(bundle.components)
    BY DEF CollectInv, IInv, Assembled, Delivered
  <2>. QED  BY <2>1 DEF VendoredRoots
<1>. QED  BY <1>1 DEF CollectInv, ReadInv, Delivered

\* A file of the tree is in the bundle with its text, unless a gap says that it was lost.
LEMMA ReadOrLost ==
    ASSUME CollectInv, Delivered, source = "ok", NEW p \in LicenseFiles
    PROVE  Record(p, Text[p]) \in From(files) \/ LostFile(p)
<1>. p \in Files /\ IsLicenseFile(p)
  BY DEF LicenseFiles
<1>1. CASE ~Reachable(p)
  <2>1. PICK d \in Above(p) : d \in Unreadable
    BY <1>1, Obstructed
  <2>. QED  BY <2>1 DEF CollectInv, ReadInv, Delivered, LostFile
<1>2. CASE Reachable(p)
  <2>1. ReadFile(p) \in files /\ ReadFile(p).path = p
    BY <1>2, LicenseFilesAre DEF CollectInv, ReadInv, Delivered, Selected, ReadFile
  <2>2. CASE ReadFile(p).err
    BY <2>1, <2>2 DEF CollectInv, AnswerInv, Delivered, LostFile
  <2>3. CASE ~ReadFile(p).err
    <3>1. ReadFile(p).digest = Text[p] /\ Text[p] # None
      BY <2>3, CollectAssumption DEF ReadFile, Opens, Astray
    <3>. QED  BY <2>1, <3>1 DEF From, Covers
  <2>. QED  BY <2>2, <2>3
<1>. QED  BY <1>1, <1>2

\* A record is of a file of the tree, with its text.
LEMMA RecordsAre ==
    ASSUME CollectInv, Delivered, source = "ok", NEW r \in From(files)
    PROVE  /\ r.path \in Files /\ IsLicenseFile(r.path) /\ r.path \in LicenseFiles
           /\ r = Record(r.path, Text[r.path]) /\ Text[r.path] \in DOMAIN Content
<1>1. PICK f \in files : r = Record(f.path, f.digest) /\ f.digest # None /\ Covers(f.path)
  BY DEF From
<1>2. PICK p \in Selected : f = ReadFile(p)
  BY DEF CollectInv, ReadInv, Delivered
<1>3. f.path = p /\ p \in Files /\ f.digest = Text[p] /\ ~Astray(p)
  BY <1>1, <1>2 DEF ReadFile, Opens
<1>4. r.path = p /\ IsLicenseFile(p)
  BY <1>1, <1>3 DEF Record, Covers
<1>5. p \in LicenseFiles
  BY <1>3, <1>4, LicenseFilesAre DEF CollectInv
<1>. QED  BY <1>1, <1>3, <1>4, <1>5, CollectAssumption, VendoredCopyAssumption

\* The one root among others that is the longest.
LEMMA OnlyLongest ==
    ASSUME NEW p \in Seq(Segments), NEW roots \in SUBSET Seq(Segments), NEW root \in roots,
           root \in LongestRoot(p, roots)
    PROVE  LongestRoot(p, roots) = {root}
<1> SUFFICES ASSUME NEW s \in LongestRoot(p, roots)  PROVE s = root
  OBVIOUS
<1>1. /\ Inside(p, s) /\ Inside(p, root) /\ s \in Seq(Segments) /\ root \in Seq(Segments)
      /\ Len(s) <= Len(root) /\ Len(root) <= Len(s)
  BY DEF LongestRoot
<1>2. Len(s) = Len(root)
  <2>1. Len(s) \in Nat /\ Len(root) \in Nat
    BY <1>1
  <2>. QED  BY <1>1, <2>1
<1>. QED  BY <1>1, <1>2, InsideSame

\* A copy that verifies grants nothing that upstream did not.
LEMMA PristineStands == CollectInv /\ VerdictInv => PristineIsPublished
<1> SUFFICES ASSUME CollectInv, VerdictInv, verdict # None, verdict.result = "pristine",
                    NEW p \in OwnTo(verdict.copy.root, Roots(bundle.copies)),
                    ~LostFile(p)
             PROVE  PublishedAs(verdict.artifact, verdict.copy.root, p)
  BY DEF PristineIsPublished
<1>1. PICK v, artifact, ends :
          /\ v \in bundle.copies
          /\ Delivered /\ v.purl.name \in DOMAIN Published /\ artifact \in Published[v.purl.name]
          /\ verdict = [copy |-> v, artifact |-> artifact,
                        result |-> Verify(LocalFiles(v.purl), ArtifactFiles(artifact, ends))]
  BY DEF VerdictInv
<1>2. p \in LicenseFiles /\ v.root \in LongestRoot(p, Roots(bundle.copies))
  BY <1>1 DEF OwnTo
<1>3. Record(p, Text[p]) \in From(files) /\ Text[p] \in DOMAIN Content
  <2>1. Record(p, Text[p]).path = p
    BY DEF Record
  <2>. QED  BY <1>1, <1>2, <2>1, CopiesAreRead, ReadOrLost, RecordsAre
<1> DEFINE q == RelativeTo(v.root, p)
           t == Text[p]
<1>4. Record(q, t) \in LocalLicenseFiles(v.purl)
  <2>1. Record(p, t).path = p /\ Record(p, t).digest = t
    BY DEF Record
  <2>. QED  BY <1>1, <1>2, <1>3, <2>1, LocalAre DEF CollectInv
<1>5. Record(q, HashNormalized(Content[t], {})) \in LocalFiles(v.purl)
  <2>1. Record(q, t).path = q /\ Record(q, t).digest = t
    BY DEF Record
  <2>. QED  BY <1>4, <2>1 DEF LocalFiles
<1>6. HashNormalized(Content[t], {}) = Content[t]
  BY <1>3, ChunksDoNotMatter, UnixText, VendoredCopyAssumption
<1>7. LocalFiles(v.purl) \subseteq ArtifactFiles(artifact, ends)
  BY <1>1 DEF Verify
<1>8. PICK x \in DOMAIN artifact : Record(q, Content[t]) = Record(x, HashNormalized(artifact[x], ends))
  BY <1>5, <1>6, <1>7 DEF ArtifactFiles
<1>9. x = q /\ HashNormalized(artifact[x], ends) = Content[t]
  BY <1>8 DEF Record
<1>10. HashNormalized(artifact[x], ends) = Unix(artifact[x])
  BY <1>1, ChunksDoNotMatter, VendoredCopyAssumption
<1>. QED  BY <1>1, <1>8, <1>9, <1>10 DEF PublishedAs

\* A module nested in the copy of another that is known has a copy of its own, if it has a
\* license file, unless the list that stood in for modules.txt does not name it.
LEMMA NestedAreKnown ==
    ASSUME CollectInv, Delivered, NEW v \in bundle.copies, v.purl.ecosystem = "golang",
           ~NestingUnknown(v.root), NEW s \in ModuleRoots, Inside(s, v.root),
           NEW r \in From(files), Inside(r.path, s)
    PROVE  s \in Roots(bundle.copies)
<1>1. PICK c \in Finalize(NamedBySource) :
          c.ecosystem = "golang" /\ s = ModDir \o <<"vendor">> \o c.name
  BY DEF ModuleRoots
<1>2. /\ source = "ok" /\ vendorRoot # None /\ vendorRoot = ModDir \o <<"vendor">>
      /\ v.purl \in bundle.components
  <2>1. vendorRoot \in {None, ModDir \o <<"vendor">>}
    BY DEF CollectInv, IInv, TypeOK
  <2>. QED  BY <2>1, CopiesAreRead
<1>3. bundle.components = Finalize(components)
  BY DEF CollectInv, AnswerInv, Delivered
<1>4. EnumerateGo.components \subseteq components /\ EnumerateGo.components # {}
  <2>1. v.purl \in Modules
    BY <1>2, <1>3 DEF Modules, Finalize
  <2>. QED  BY <2>1 DEF CollectInv, ModulesInv, Modules
<1>5. c \in NamedBySource /\ UsableIdentifier(c)
  BY <1>1 DEF Finalize
<1>6. PICK n \in Names[GoList] : GoList \in Files /\ c = PURL("golang", n)
  <2>1. \A e, n : PURL(e, n).ecosystem = e
    BY DEF PURL
  <2>. QED  BY <1>1, <1>5, <2>1 DEF NamedBySource
<1>7. n \notin Unlisted
  BY <1>1, <1>6 DEF NestingUnknown, PURL
<1>8. c \in EnumerateGo.components
  <2> DEFINE opens(f) == f \in Files /\ Opens(f)
             from == IF opens(ModulesTxtPath) THEN ModulesTxtPath ELSE GoSumPath
  <2>1. EnumerateGo.components = IF opens(from) THEN {PURL("golang", m) : m \in Names[from]} ELSE {}
    BY <1>2 DEF EnumerateGo, Enumeration
  <2>2. opens(from) /\ EnumerateGo.components = {PURL("golang", m) : m \in Names[from]}
    BY <1>4, <2>1
  <2>3. n \in Names[from]
    BY <1>6, <1>7, <2>2 DEF GoList, Unlisted, StandsIn
  <2>. QED  BY <1>6, <2>2, <2>3
<1>9. c \in bundle.components
  BY <1>3, <1>4, <1>5, <1>8 DEF Finalize
<1>10. PICK f \in files : r = Record(f.path, f.digest) /\ Covers(f.path)
  BY DEF From
<1>11. Covers(f.path) /\ Inside(f.path, vendorRoot \o c.name)
  BY <1>1, <1>2, <1>10 DEF Record
<1>12. bundle.copies = VendoredRoots(bundle.components)
  BY DEF CollectInv, IInv, Assembled, Delivered
<1> DEFINE copy == [purl |-> c, root |-> vendorRoot \o c.name]
<1>13. copy \in bundle.copies
  BY <1>2, <1>9, <1>11, <1>12 DEF VendoredRoots
<1>14. copy.root = s
  BY <1>1, <1>2
<1>. HIDE DEF copy
<1>. QED  BY <1>13, <1>14 DEF Roots

\* What is left of a sequence after its first k elements are dropped (RelativeTo).
LEMMA AfterPrefix ==
    ASSUME NEW S, NEW s \in Seq(S), NEW k \in Nat, k < Len(s)
    PROVE  /\ Len(SubSeq(s, k + 1, Len(s))) = Len(s) - k
           /\ \A i \in 1..Len(s) - k : SubSeq(s, k + 1, Len(s))[i] = s[k + i]
<1>1. Len(s) \in Nat /\ \A i \in 1..Len(s) : s[i] \in S
  OBVIOUS
<1>2. \A i \in k + 1..Len(s) : s[i] \in S
  BY <1>1
<1>3. k + 1 \in Int /\ Len(s) \in Int /\ k + 1 <= Len(s)
  BY <1>1
<1>4. /\ Len(SubSeq(s, k + 1, Len(s))) = Len(s) - (k + 1) + 1
      /\ \A i \in 1..Len(s) - (k + 1) + 1 : SubSeq(s, k + 1, Len(s))[i] = s[k + 1 + i - 1]
  BY <1>2, <1>3, SubSeqProperties
<1>5. Len(s) - (k + 1) + 1 = Len(s) - k /\ \A i \in 1..Len(s) - k : k + 1 + i - 1 = k + i
  BY <1>1
<1>. QED  BY <1>4, <1>5

\* A module's copy that was pruned from its artifact verifies.
LEMMA PrunedStands == CollectInv /\ VerdictInv => PrunedIsPristine
<1> SUFFICES ASSUME CollectInv, VerdictInv, verdict # None, verdict.copy.purl.ecosystem = "golang",
                    ~NestingUnknown(verdict.copy.root),
                    \A p \in OwnTo(verdict.copy.root, ModuleRoots \cup {verdict.copy.root}) :
                        PublishedAs(verdict.artifact, verdict.copy.root, p)
             PROVE  verdict.result = "pristine"
  BY DEF PrunedIsPristine
<1>1. PICK v, artifact, ends :
          /\ v \in bundle.copies
          /\ Delivered /\ v.purl.name \in DOMAIN Published /\ artifact \in Published[v.purl.name]
          /\ verdict = [copy |-> v, artifact |-> artifact,
                        result |-> Verify(LocalFiles(v.purl), ArtifactFiles(artifact, ends))]
  BY DEF VerdictInv
<1>2. v.purl.ecosystem = "golang" /\ source = "ok" /\ v.root \in Seq(Segments)
  BY <1>1, CopiesAre, CopiesAreRead DEF CollectInv
<1>3. ASSUME NEW r \in From(files), v.root \in LongestRoot(r.path, Roots(bundle.copies))
      PROVE  r.path \in OwnTo(v.root, ModuleRoots \cup {v.root})
  <2> DEFINE roots == ModuleRoots \cup {v.root}
  <2>1. r.path \in LicenseFiles /\ r.path \in Seq(Segments)
    BY <1>1, <1>2, RecordsAre, Paths
  <2>2. roots \in SUBSET Seq(Segments)
    <3> SUFFICES ASSUME NEW s \in ModuleRoots  PROVE s \in Seq(Segments)
      BY <1>2
    <3>1. PICK c \in NamedBySource : s = ModDir \o <<"vendor">> \o c.name /\ c.ecosystem = "golang"
      BY DEF ModuleRoots, Finalize
    <3>2. \A e, n : PURL(e, n).ecosystem = e /\ PURL(e, n).name = n.name
      BY DEF PURL
    <3>3. PICK n \in Names[GoList] : GoList \in Files /\ c = PURL("golang", n)
      BY <3>1, <3>2 DEF NamedBySource
    <3>4. c.name \in Seq(Segments)
      BY <3>2, <3>3, CollectAssumption DEF GoList
    <3>5. ModDir \o <<"vendor">> \in Seq(Segments)
      BY Paths
    <3>. QED  BY <3>1, <3>4, <3>5
  <2>3. ASSUME NEW s \in roots, Inside(r.path, s)  PROVE Len(s) <= Len(v.root)
    <3>1. CASE s = v.root
      <4>1. Len(v.root) \in Nat
        BY <1>2
      <4>. QED  BY <3>1, <4>1
    <3>2. CASE s \in ModuleRoots /\ Inside(s, v.root)
      <4>1. s \in Roots(bundle.copies)
        BY <1>1, <1>2, <2>3, <3>2, NestedAreKnown
      <4>. QED  BY <1>3, <2>3, <4>1 DEF LongestRoot
    <3>3. CASE ~Inside(s, v.root)
      <4>1. Inside(r.path, v.root) /\ s \in Seq(Segments)
        BY <1>3, <2>2 DEF LongestRoot
      <4>2. Len(s) \in Nat /\ Len(v.root) \in Nat
        BY <1>2, <4>1
      <4>. QED  BY <1>2, <2>1, <2>3, <3>3, <4>1, <4>2, InsideLinear
    <3>. QED  BY <3>1, <3>2, <3>3
  <2>4. v.root \in LongestRoot(r.path, roots)
    BY <1>3, <2>3 DEF LongestRoot
  <2>5. LongestRoot(r.path, roots) = {v.root}
    <3>. HIDE DEF roots
    <3>1. v.root \in roots
      BY DEF roots
    <3>. QED  BY <2>1, <2>2, <2>4, <3>1, OnlyLongest
  <2>. QED  BY <2>1, <2>5 DEF OwnTo
<1>4. LocalFiles(v.purl) \subseteq ArtifactFiles(artifact, ends)
  <2> SUFFICES ASSUME NEW l \in LocalLicenseFiles(v.purl)
               PROVE  Record(l.path, HashNormalized(Content[l.digest], {})) \in ArtifactFiles(artifact, ends)
    BY DEF LocalFiles
  <2>1. PICK r \in From(files) :
            /\ v.root \in LongestRoot(r.path, Roots(bundle.copies))
            /\ l = Record(RelativeTo(v.root, r.path), r.digest)
    BY <1>1, LocalAre DEF CollectInv
  <2> DEFINE q == RelativeTo(v.root, r.path)
             t == Text[r.path]
  <2>2. /\ r.path \in Files /\ IsLicenseFile(r.path) /\ r = Record(r.path, t)
        /\ t \in DOMAIN Content
    BY <1>1, <1>2, RecordsAre
  <2>3. l.path = q /\ l.digest = t
    BY <2>1, <2>2 DEF Record
  <2>4. PublishedAs(artifact, v.root, r.path)
    BY <1>1, <1>3, <2>1
  <2>5. q \in DOMAIN artifact /\ Unix(artifact[q]) = Content[t]
    BY <2>4 DEF PublishedAs
  <2>6. Covers(q)
    <3>1. /\ r.path \in Seq(Segments) /\ Len(v.root) \in Nat /\ Len(r.path) \in Nat
          /\ Len(v.root) < Len(r.path)
      BY <1>2, <2>1, <2>2, Paths DEF LongestRoot, Inside
    <3>2. /\ Len(q) = Len(r.path) - Len(v.root)
          /\ \A i \in 1..Len(r.path) - Len(v.root) : q[i] = r.path[Len(v.root) + i]
      <4>. QED  BY <3>1, AfterPrefix DEF RelativeTo
    <3>3. /\ Len(r.path) - Len(v.root) \in 1..Len(r.path) - Len(v.root)
          /\ Len(v.root) + (Len(r.path) - Len(v.root)) = Len(r.path)
      BY <3>1
    <3>4. q[Len(q)] = r.path[Len(r.path)]
      <4>. HIDE DEF q
      <4>. QED  BY <3>2, <3>3
    <3>. QED  BY <2>2, <3>4 DEF Covers, IsLicenseFile, Base
  <2>7. HashNormalized(artifact[q], ends) = Content[t]
    BY <1>1, <2>5, ChunksDoNotMatter, VendoredCopyAssumption
  <2>8. HashNormalized(Content[t], {}) = Content[t]
    BY <2>2, ChunksDoNotMatter, UnixText, VendoredCopyAssumption
  <2>. QED  BY <2>3, <2>5, <2>6, <2>7, <2>8 DEF ArtifactFiles
<1>5. Verify(LocalFiles(v.purl), ArtifactFiles(artifact, ends)) = "pristine"
  <2>1. \A local, published : local \subseteq published => Verify(local, published) = "pristine"
    BY DEF Verify
  <2>. QED  BY <1>4, <2>1
<1>. QED  BY <1>1, <1>5

\* Whatever an artifact holds, however it streams and however its lines end, whatever the
\* collection lost and however roots nest: a copy that verifies holds no license text that
\* upstream does not publish under the same path, or a gap says that it was lost; and one
\* all of whose texts are published verifies, unless a module nested in it is missing from
\* the list that stood in for modules.txt (Verify, LocalLicenseFiles, hashNormalized).
THEOREM VerdictsAreTrue == CopySpec => []VerdictIsTrue
<1>1. CollectInv /\ VerdictInv => VerdictIsTrue
  BY PristineStands, PrunedStands DEF VerdictIsTrue
<1>. QED  BY <1>1, CopyInvariance, PTL
=============================================================================
