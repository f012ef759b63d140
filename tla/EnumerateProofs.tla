--------------------------- MODULE EnumerateProofs ----------------------------
(***************************************************************************)
(* Theorems about Enumerate.tla, for every tree, every table of names and  *)
(* every order of the lines.                                               *)
(***************************************************************************)
EXTENDS Enumerate, TLAPS

AfterCargo == {"npm", "finalize", "pypi", "maven", "done"}
AfterNpm == {"finalize", "pypi", "maven", "done"}

-----------------------------------------------------------------------------
(* Files, identities, and what Finalize returns of a set of components.    *)

LEMMA FilesHaveNames ==
  ASSUME tree \in Trees
  PROVE  \A p \in Present : p \in Seq(STRING) /\ p # <<>> /\ Len(p) \in Nat
  BY TreesAssumption DEF Present

\* There is one shallowest lockfile, and its name and place are what was asked for.
LEMMA Shallowest ==
  ASSUME tree \in Trees, NEW name \in Lockfiles
  PROVE  /\ \A p \in FindShallowest(name) :
                p \in Present /\ Base(p) = name /\ Detect!ClassifyDirExclusion(Dir(p)) = "none"
         /\ \A p, q \in FindShallowest(name) : p = q
  <1>1. \A p \in FindShallowest(name) :
            p \in Present /\ Base(p) = name /\ Detect!ClassifyDirExclusion(Dir(p)) = "none"
    BY DEF FindShallowest, First, Visited
  <1>2. ASSUME NEW p \in FindShallowest(name), NEW q \in FindShallowest(name)
        PROVE  p = q
    <2>1. /\ p \in Present /\ q \in Present
          /\ p[Len(p)] = name /\ q[Len(q)] = name
      BY <1>1 DEF Base
    <2>2. Len(p) \in Nat /\ Len(q) \in Nat
      BY <2>1, FilesHaveNames
    <2>3. Rank[p] \in Nat /\ Rank[q] \in Nat
      BY <2>1, TreesAssumption DEF Present
    <2>4. /\ Len(p) < Len(q) \/ (Len(p) = Len(q) /\ Rank[p] <= Rank[q])
          /\ Len(q) < Len(p) \/ (Len(q) = Len(p) /\ Rank[q] <= Rank[p])
      BY DEF FindShallowest, First
    <2>5. Len(p) = Len(q) /\ Rank[p] = Rank[q]
      BY <2>2, <2>3, <2>4
    <2> QED BY <2>1, <2>5, TreesAssumption DEF Present
  <1> QED BY <1>1, <1>2

LEMMA OneNpmLock ==
  ASSUME tree \in Trees
  PROVE  /\ \A p \in NpmLock : p \in Present /\ Detect!ClassifyDirExclusion(Dir(p)) = "none"
         /\ \A p, q \in NpmLock : p = q
  BY Shallowest DEF NpmLock, Lockfiles

\* A component's identity says whether it can be named.
LEMMA IdentityTells ==
  ASSUME NEW c
  PROVE  /\ Identity(c).purl.ecosystem = c.ecosystem
         /\ Identity(c).digest = c.digest
         /\ UsableIdentifier(c) <=> Usable(Identity(c))
  BY DEF Identity, PURL, UsableIdentifier, Usable

LEMMA DedupeKeeps ==
  ASSUME NEW comps, NEW kept \in Dedupe(comps)
  PROVE  /\ kept \subseteq comps
         /\ Identities(kept) = Identities(comps)
         /\ \A c, d \in kept : Identity(c) = Identity(d) => c = d
  BY DEF Dedupe, Identities

\* What Finalize returns are the identities that a usable component has.
LEMMA FinalizeKeeps ==
  ASSUME NEW comps, NEW kept \in Finalize(comps)
  PROVE  /\ kept \subseteq comps
         /\ \A c \in kept : UsableIdentifier(c)
         /\ Identities(kept) = Identities({c \in comps : UsableIdentifier(c)})
         /\ \A c, d \in kept : Identity(c) = Identity(d) => c = d
  <1>1. kept \in Dedupe(DropMalformed(comps))
    BY DEF Finalize
  <1> QED BY <1>1, DedupeKeeps DEF DropMalformed

\* Finalizing the halves and their union is finalizing all of it.
LEMMA FinalizeTwice ==
  ASSUME NEW left, NEW right, NEW one \in Finalize(left), NEW two \in Finalize(right),
         NEW both \in Finalize(one \cup two)
  PROVE  /\ both \subseteq left \cup right
         /\ Identities(both) = Identities({c \in left \cup right : UsableIdentifier(c)})
         /\ \A c, d \in both : Identity(c) = Identity(d) => c = d
  <1>1. /\ one \subseteq left /\ \A c \in one : UsableIdentifier(c)
        /\ Identities(one) = Identities({c \in left : UsableIdentifier(c)})
    BY FinalizeKeeps
  <1>2. /\ two \subseteq right /\ \A c \in two : UsableIdentifier(c)
        /\ Identities(two) = Identities({c \in right : UsableIdentifier(c)})
    BY FinalizeKeeps
  <1>3. /\ both \subseteq one \cup two
        /\ Identities(both) = Identities({c \in one \cup two : UsableIdentifier(c)})
        /\ \A c, d \in both : Identity(c) = Identity(d) => c = d
    BY FinalizeKeeps
  <1>4. Identities({c \in one \cup two : UsableIdentifier(c)}) = Identities(one) \cup Identities(two)
    BY <1>1, <1>2 DEF Identities
  <1>5. Identities({c \in left \cup right : UsableIdentifier(c)})
            = Identities({c \in left : UsableIdentifier(c)})
              \cup Identities({c \in right : UsableIdentifier(c)})
    BY DEF Identities
  <1> QED BY <1>1, <1>2, <1>3, <1>4, <1>5

-----------------------------------------------------------------------------
(* The invariant.                                                          *)

Placed ==
    /\ tree \in Trees
    /\ at \in {"golang", "cargo"} \cup AfterCargo

\* The file that is read, while there is something left of it.
ReadingInv ==
    /\ at = "golang" /\ rest # {} =>
          \E mod \in FindShallowest("go.mod") : reading \in {ModulesTxt(mod), GoSum(mod)}
    /\ at = "cargo" /\ reading # NoFile => reading \in FindShallowest("Cargo.lock")
    /\ at = "npm" /\ reading # NoFile => reading \in NpmLock
    /\ reading = NoFile /\ at \in {"cargo", "npm"} => rest = {} /\ seen = {}

\* A component comes from a place of the tree's own.
Anchored(c) ==
    /\ c.ecosystem \in {"cargo", "npm"} => Detect!ClassifyDirExclusion(Dir(c.from)) = "none"
    /\ c.ecosystem = "golang" =>
          \E root \in VendorRoot :
              /\ c.from \in {root \o <<"modules.txt">>, Dir(root) \o <<"go.sum">>}
              /\ Detect!ClassifyDirExclusion(Dir(root)) = "none"

\* Which enumerator names what, and when.
FoundInv ==
    /\ \A c \in found : Anchored(c) /\ c.ecosystem \in {"golang", "cargo", "npm"}
    /\ \A c \in installed : c.ecosystem \in {"pypi", "maven"}
    /\ at = "golang" \/ (at = "cargo" /\ reading = NoFile) =>
          \A c \in found : c.ecosystem = "golang"
    /\ at \in {"golang", "cargo"} \/ (at = "npm" /\ reading = NoFile) =>
          \A c \in found : c.ecosystem # "npm"

\* The crates named so far are those of the packages that were looked at.
Packages(lock) == {p \in tree[lock] : p.kind = "package"}
Crate(lock, p) ==
    Component("cargo", p.name, p.version, WithContentDigest(Checksum(lock, p), "sha256"), lock)
CratesOf(lock, packages) ==
    {c \in found : c.ecosystem = "cargo"}
        = {Crate(lock, p) : p \in {q \in packages : q.source # NoText}}

CargoInv ==
    \A lock \in FindShallowest("Cargo.lock") \ unreadable :
        /\ at = "cargo" /\ reading # NoFile =>
              rest \subseteq Packages(lock) /\ CratesOf(lock, Packages(lock) \ rest)
        /\ at \in AfterCargo => CratesOf(lock, Packages(lock))

\* The packages named so far are those of the entries that were looked at, and
\* whoever repeats one has its identity.
NpmIdentity(e) == Is("npm", NpmName(e), e.version, e.integrity)
PackagesOf(entries) ==
    {Identity(c) : c \in {d \in found : d.ecosystem = "npm"}}
        = {NpmIdentity(e) : e \in {x \in entries : Ships(x)}}

NpmInv ==
    \A lock \in NpmLock \ unreadable :
        /\ at = "npm" /\ reading # NoFile =>
              /\ rest \subseteq NpmEntries(lock)
              /\ PackagesOf(NpmEntries(lock) \ rest)
              /\ \A s \in seen : \E e \in NpmEntries(lock) \ rest : Ships(e) /\ s = Entry(e)
        /\ at \in AfterNpm => PackagesOf(NpmEntries(lock))

\* A unit that was looked at is installed, or missed.
DistIdentity(d) == Is("pypi", Normalized[d.name], d.version, NoText)
JarIdentity(c) == Is("maven", c.group \o ":" \o c.artifact, c.version, NoText)
DistNamed(p) ==
    \A d \in DistMetadata(p) :
        IsOwnDistribution(d.name) \/ DistIdentity(d) \in Identities(installed)
JarNamed(p) == \A c \in JarCoordinates(p) : JarIdentity(c) \in Identities(installed)

DistInv ==
    /\ at = "pypi" => \A p \in Units({"METADATA"}) \ rest :
          IF DistMetadata(p) = {} THEN p \in missed ELSE DistNamed(p)
    /\ at \in {"maven", "done"} => \A p \in Units({"METADATA"}) :
          IF DistMetadata(p) = {} THEN "pypi" \in failures ELSE DistNamed(p)
JarInv ==
    /\ at = "maven" => \A p \in Units(JarNames) \ rest :
          IF JarCoordinates(p) = {} THEN p \in missed ELSE JarNamed(p)
    /\ at = "done" => \A p \in Units(JarNames) :
          IF JarCoordinates(p) = {} THEN "maven" \in failures ELSE JarNamed(p)

\* What was finalized is what was found.
ClosureInv ==
    /\ at \in {"pypi", "maven"} => source \in Finalize(found)
    /\ at = "done" => closure \subseteq found \cup installed
    /\ OncePerIdentity

IInv ==
    /\ Placed /\ ReadingInv /\ FoundInv
    /\ CargoInv /\ NpmInv /\ DistInv /\ JarInv
    /\ ClosureInv

-----------------------------------------------------------------------------

\* Where the modules of a go.mod are listed, and its copies vendored.
LEMMA ModulePlaces ==
  ASSUME tree \in Trees, NEW mod \in FindShallowest("go.mod")
  PROVE  \E root \in VendorRoot :
            /\ ModulesTxt(mod) = root \o <<"modules.txt">>
            /\ GoSum(mod) = Dir(root) \o <<"go.sum">>
            /\ Detect!ClassifyDirExclusion(Dir(root)) = "none"
  <1> DEFINE dir == Dir(mod)
             root == dir \o <<"vendor">>
  <1>1. mod \in Seq(STRING) /\ mod # <<>> /\ Detect!ClassifyDirExclusion(dir) = "none"
    BY Shallowest, FilesHaveNames DEF Lockfiles
  <1>2. dir \in Seq(STRING)
    BY <1>1 DEF Dir
  <1>3. root \in VendorRoot
    BY DEF VendorRoot
  <1>4. ModulesTxt(mod) = root \o <<"modules.txt">>
    <2> HIDE DEF dir
    <2>1. dir \o <<"vendor", "modules.txt">> = (dir \o <<"vendor">>) \o <<"modules.txt">>
      BY <1>2
    <2> QED BY <2>1 DEF ModulesTxt, dir
  <1>5. Dir(root) = dir
    <2> HIDE DEF dir
    <2>1. SubSeq(dir \o <<"vendor">>, 1, Len(dir \o <<"vendor">>) - 1) = dir
      BY <1>2
    <2> QED BY <2>1 DEF Dir
  <1> QED BY <1>1, <1>3, <1>4, <1>5 DEF GoSum

LEMMA InitIInv == Init => IInv
  <1> SUFFICES ASSUME Init PROVE IInv
    OBVIOUS
  <1>1. /\ at = "golang" /\ reading = NoFile /\ rest = {} /\ seen = {}
        /\ found = {} /\ installed = {} /\ tree \in Trees
    BY DEF Init
  <1> QED BY <1>1 DEF IInv, Placed, ReadingInv, FoundInv, CargoInv, NpmInv, DistInv, JarInv,
          ClosureInv, OncePerIdentity, Delivered, AfterCargo, AfterNpm

-----------------------------------------------------------------------------
(* Every step keeps the invariant.                                         *)

LEMMA SameTree ==
  ASSUME UNCHANGED treeVars
  PROVE  /\ UNCHANGED <<tree, unreadable, skipped>>
         /\ Visited' = Visited
         /\ Present' = Present
         /\ VendorRoot' = VendorRoot
         /\ NpmLock' = NpmLock
         /\ \A name : FindShallowest(name)' = FindShallowest(name)
         /\ \A lock : Packages(lock)' = Packages(lock) /\ NpmEntries(lock)' = NpmEntries(lock)
         /\ \A lock, p : Crate(lock, p)' = Crate(lock, p)
         /\ \A p : DistMetadata(p)' = DistMetadata(p) /\ JarCoordinates(p)' = JarCoordinates(p)
         /\ \A names : Units(names)' = Units(names)
         /\ \A c : Anchored(c)' = Anchored(c)
         /\ \A mod : ModulesTxt(mod)' = ModulesTxt(mod) /\ GoSum(mod)' = GoSum(mod)
  BY DEF treeVars, Present, Visited, Above, VendorRoot, NpmLock, FindShallowest, First, Packages, NpmEntries, Crate,
     Checksum, MetadataChecksums, DistMetadata, JarCoordinates, Coordinates, Units, Readable,
     Anchored, ModulesTxt, GoSum

\* A lockfile is none of the files that are nowhere.
LEMMA LockIsFile ==
  ASSUME tree \in Trees
  PROVE  /\ \A p \in FindShallowest("Cargo.lock") : p # NoFile
         /\ \A p \in NpmLock : p # NoFile
  BY Shallowest, OneNpmLock, FilesHaveNames DEF Lockfiles, NoFile

\* While the source tree is enumerated nothing is promised of what comes later.
LEMMA LaterInv ==
  ASSUME at' \in {"golang", "cargo", "npm"}
  PROVE  DistInv' /\ JarInv' /\ ClosureInv'
  BY DEF DistInv, JarInv, ClosureInv, OncePerIdentity, Delivered

LEMMA OpenKeeps ==
  ASSUME IInv, NEW p, NEW lines, Open(p, lines), at \in {"golang", "cargo", "npm"},
         at = "golang" => \E mod \in FindShallowest("go.mod") : p \in {ModulesTxt(mod), GoSum(mod)},
         at = "cargo" => reading = NoFile /\ p \in FindShallowest("Cargo.lock")
                         /\ (p \notin unreadable => lines = Packages(p)),
         at = "npm" => reading = NoFile /\ p \in NpmLock
                       /\ (p \notin unreadable => lines = NpmEntries(p))
  PROVE  IInv'
  <1>1. /\ reading' = p /\ rest' = lines
        /\ UNCHANGED <<treeVars, at, seen, missed, found, source, installed, closure>>
    BY DEF Open
  <1>2. /\ UNCHANGED <<tree, unreadable>> /\ NpmLock' = NpmLock
        /\ \A name : FindShallowest(name)' = FindShallowest(name)
        /\ \A lock : Packages(lock)' = Packages(lock) /\ NpmEntries(lock)' = NpmEntries(lock)
        /\ \A lock, c : Crate(lock, c)' = Crate(lock, c)
        /\ \A c : Anchored(c)' = Anchored(c)
        /\ \A mod : ModulesTxt(mod)' = ModulesTxt(mod) /\ GoSum(mod)' = GoSum(mod)
    BY <1>1, SameTree
  <1>3. Placed' /\ tree \in Trees
    BY <1>1, <1>2 DEF IInv, Placed
  <1>4. ReadingInv'
    BY <1>1, <1>2, <1>3, LockIsFile DEF IInv, ReadingInv
  <1>5. FoundInv'
    BY <1>1, <1>2, <1>3, LockIsFile DEF IInv, FoundInv
  <1>6. CargoInv'
    <2>1. CASE at = "cargo"
      <3>1. \A c \in found : c.ecosystem = "golang"
        BY <2>1 DEF IInv, FoundInv
      <3>2. ASSUME NEW lock \in FindShallowest("Cargo.lock") \ unreadable
            PROVE  rest' = Packages(lock)
        BY <1>1, <1>3, <2>1, <3>2, Shallowest DEF Lockfiles
      <3> QED BY <1>1, <1>2, <2>1, <3>1, <3>2 DEF CargoInv, CratesOf, AfterCargo
    <2>2. CASE at = "npm"
      BY <1>1, <1>2, <2>2 DEF IInv, CargoInv, CratesOf, AfterCargo
    <2>3. CASE at = "golang"
      BY <1>1, <2>3 DEF CargoInv, AfterCargo
    <2> QED BY <2>1, <2>2, <2>3
  <1>7. NpmInv'
    <2>1. CASE at = "npm"
      <3>1. seen = {} /\ \A c \in found : c.ecosystem # "npm"
        BY <2>1 DEF IInv, FoundInv, ReadingInv
      <3>2. ASSUME NEW lock \in NpmLock \ unreadable
            PROVE  rest' = NpmEntries(lock)
        BY <1>1, <1>3, <2>1, <3>2, OneNpmLock
      <3> QED BY <1>1, <1>2, <2>1, <3>1, <3>2 DEF NpmInv, PackagesOf, AfterNpm
    <2>2. CASE at # "npm"
      BY <1>1, <2>2 DEF NpmInv, AfterNpm
    <2> QED BY <2>1, <2>2
  <1> QED BY <1>1, <1>3, <1>4, <1>5, <1>6, <1>7, LaterInv DEF IInv

LEMMA StartKeeps ==
  ASSUME IInv, EnumerateGo \/ EnumerateCargo \/ EnumerateNpm
  PROVE  IInv'
  <1>1. CASE EnumerateGo
    <2>1. PICK mod \in FindShallowest("go.mod") :
              \E p \in {ModulesTxt(mod), GoSum(mod)} : \E lines : Open(p, lines)
      BY <1>1 DEF EnumerateGo
    <2>2. PICK p \in {ModulesTxt(mod), GoSum(mod)} : \E lines : Open(p, lines)
      BY <2>1
    <2>3. PICK lines : Open(p, lines)
      BY <2>2
    <2>4. at = "golang"
      BY <1>1 DEF EnumerateGo
    <2> QED BY <2>2, <2>3, <2>4, OpenKeeps
  <1>2. CASE EnumerateCargo
    <2>1. at = "cargo" /\ reading = NoFile
      BY <1>2 DEF EnumerateCargo
    <2>2. PICK lock \in FindShallowest("Cargo.lock") : OpenLock("cargo", lock, Packages(lock))
      BY <1>2 DEF EnumerateCargo, Packages
    <2>3. lock \in Present
      BY Shallowest DEF Lockfiles, IInv, Placed
    <2>4. CASE Readable(lock)
      BY <2>1, <2>2, <2>4, OpenKeeps DEF OpenLock
    <2>5. CASE ~Readable(lock)
      BY <2>1, <2>2, <2>3, <2>5, OpenKeeps DEF OpenLock, Readable
    <2> QED BY <2>4, <2>5
  <1>3. CASE EnumerateNpm
    <2>1. at = "npm" /\ reading = NoFile
      BY <1>3 DEF EnumerateNpm
    <2>2. PICK lock \in NpmLock : OpenLock("npm", lock, NpmEntries(lock))
      BY <1>3 DEF EnumerateNpm
    <2>3. lock \in Present
      BY OneNpmLock DEF IInv, Placed
    <2>4. CASE Readable(lock)
      BY <2>1, <2>2, <2>4, OpenKeeps DEF OpenLock
    <2>5. CASE ~Readable(lock)
      BY <2>1, <2>2, <2>3, <2>5, OpenKeeps DEF OpenLock, Readable
    <2> QED BY <2>4, <2>5
  <1> QED BY <1>1, <1>2, <1>3

-----------------------------------------------------------------------------
(* A line is taken.                                                        *)

LEMMA TakeModuleKeeps ==
  ASSUME IInv, NEW line, NEW mod \in FindShallowest("go.mod"), TakeModule(mod, line)
  PROVE  IInv'
  <1> DEFINE content == WithContentDigest(GoDigest(mod, line.name, Effective(line)), "h1")
             new == Component("golang", line.name, Effective(line), content, reading)
  <1>1. /\ at = "golang" /\ line \in rest
        /\ rest' = rest \ {line} /\ found' = found \cup {new}
        /\ UNCHANGED <<treeVars, at, reading, missed, source, installed, failures, closure, seen>>
    BY DEF TakeModule, Take
  <1>2. new.ecosystem = "golang" /\ new.from = reading
    BY DEF Component
  <1>3. tree \in Trees
    BY DEF IInv, Placed
  <1>4. PICK place \in FindShallowest("go.mod") : reading \in {ModulesTxt(place), GoSum(place)}
    BY <1>1 DEF IInv, ReadingInv
  <1>5. Anchored(new)
    <2>1. PICK root \in VendorRoot :
            /\ ModulesTxt(place) = root \o <<"modules.txt">>
            /\ GoSum(place) = Dir(root) \o <<"go.sum">>
            /\ Detect!ClassifyDirExclusion(Dir(root)) = "none"
      BY <1>3, ModulePlaces
    <2> HIDE DEF new
    <2> QED BY <1>2, <1>4, <2>1 DEF Anchored
  <1> HIDE DEF new, content
  <1>6. /\ UNCHANGED <<tree, unreadable>>
        /\ \A name : FindShallowest(name)' = FindShallowest(name)
        /\ \A c : Anchored(c)' = Anchored(c)
        /\ \A place2 : ModulesTxt(place2)' = ModulesTxt(place2) /\ GoSum(place2)' = GoSum(place2)
    BY <1>1, SameTree
  <1>7. Placed'
    BY <1>1, <1>6 DEF IInv, Placed
  <1>8. ReadingInv'
    BY <1>1, <1>4, <1>6 DEF ReadingInv
  <1>9. FoundInv'
    BY <1>1, <1>2, <1>5, <1>6 DEF IInv, FoundInv
  <1>10. CargoInv' /\ NpmInv'
    BY <1>1 DEF CargoInv, NpmInv, AfterCargo, AfterNpm
  <1> QED BY <1>1, <1>7, <1>8, <1>9, <1>10, LaterInv DEF IInv

LEMMA TakeCrateKeeps ==
  ASSUME IInv, NEW p, TakeCrate(p)
  PROVE  IInv'
  <1> DEFINE new == Crate(reading, p)
             named == IF p.source = NoText THEN {} ELSE {new}
  <1>1. /\ at = "cargo" /\ p \in rest
        /\ rest' = rest \ {p} /\ found' = found \cup named
        /\ UNCHANGED <<treeVars, at, reading, missed, source, installed, failures, closure, seen>>
    BY DEF TakeCrate, Take, Crate
  <1>2. new.ecosystem = "cargo" /\ new.from = reading
    BY DEF Component, Crate
  <1>3. tree \in Trees
    BY DEF IInv, Placed
  <1>4. reading # NoFile /\ reading \in FindShallowest("Cargo.lock")
    BY <1>1 DEF IInv, ReadingInv
  <1>5. Anchored(new)
    <2>1. Detect!ClassifyDirExclusion(Dir(reading)) = "none"
      BY <1>3, <1>4, Shallowest DEF Lockfiles
    <2> HIDE DEF new
    <2> QED BY <1>2, <2>1 DEF Anchored
  <1>6. /\ UNCHANGED <<tree, unreadable>> /\ NpmLock' = NpmLock
        /\ \A name : FindShallowest(name)' = FindShallowest(name)
        /\ \A lock : Packages(lock)' = Packages(lock)
        /\ \A lock, c : Crate(lock, c)' = Crate(lock, c)
        /\ \A c : Anchored(c)' = Anchored(c)
    BY <1>1, SameTree
  <1>7. Placed'
    BY <1>1, <1>6 DEF IInv, Placed
  <1>8. ReadingInv'
    BY <1>1, <1>4, <1>6 DEF ReadingInv
  <1>9. FoundInv'
    <2> HIDE DEF new
    <2> QED BY <1>1, <1>2, <1>4, <1>5, <1>6 DEF IInv, FoundInv
  <1>10. CargoInv'
    <2>1. ASSUME NEW lock \in FindShallowest("Cargo.lock") \ unreadable
          PROVE  rest' \subseteq Packages(lock) /\ CratesOf(lock, Packages(lock) \ rest)'
      <3>1. lock = reading
        BY <1>3, <1>4, Shallowest DEF Lockfiles
      <3>2. rest \subseteq Packages(lock) /\ CratesOf(lock, Packages(lock) \ rest)
        BY <1>1, <1>4, <2>1 DEF IInv, CargoInv
      <3>3. Packages(lock) \ rest' = (Packages(lock) \ rest) \cup {p}
        BY <1>1, <3>2
      <3>4. {c \in found' : c.ecosystem = "cargo"} = {c \in found : c.ecosystem = "cargo"} \cup named
        <4> HIDE DEF new
        <4> QED BY <1>1, <1>2
      <3>5. {Crate(lock, q) : q \in {r \in Packages(lock) \ rest' : r.source # NoText}}
              = {Crate(lock, q) : q \in {r \in Packages(lock) \ rest : r.source # NoText}} \cup named
        BY <3>1, <3>3
      <3>6. {Crate(lock, q)' : q \in {r \in Packages(lock)' \ rest' : r.source # NoText'}}
              = {Crate(lock, q) : q \in {r \in Packages(lock) \ rest' : r.source # NoText}}
        BY <1>6 DEF NoText
      <3>7. CratesOf(lock, Packages(lock) \ rest)'
        <4> HIDE DEF new
        <4> QED BY <3>2, <3>4, <3>5, <3>6 DEF CratesOf
      <3>8. rest' \subseteq Packages(lock)
        BY <1>1, <3>2
      <3> QED BY <3>7, <3>8
    <2> QED BY <1>1, <1>6, <2>1 DEF CargoInv, AfterCargo
  <1>11. NpmInv'
    BY <1>1 DEF NpmInv, AfterNpm
  <1> QED BY <1>1, <1>7, <1>8, <1>9, <1>10, <1>11, LaterInv DEF IInv

\* The identity of an npm component is that of its entry, and two entries that
\* Repeated takes for one have one identity.
LEMMA EntryIdentity ==
  ASSUME NEW e, NEW lock
  PROVE  /\ Identity(Component("npm", NpmName(e), e.version,
                               WithContentDigest(e.integrity, "npm-integrity"), lock)) = NpmIdentity(e)
         /\ \A f : Entry(f) = Entry(e) => NpmIdentity(f) = NpmIdentity(e)
  BY DEF Identity, PURL, PURLName, Component, WithContentDigest, NpmIdentity, Is, Entry

LEMMA TakePackageKeeps ==
  ASSUME IInv, NEW e, TakePackage(e)
  PROVE  IInv'
  <1> DEFINE new == Component("npm", NpmName(e), e.version,
                              WithContentDigest(e.integrity, "npm-integrity"), reading)
             kept == Ships(e) /\ ~Repeated(e)
             named == IF kept THEN {new} ELSE {}
  <1>1. /\ at = "npm" /\ e \in rest
        /\ rest' = rest \ {e} /\ found' = found \cup named
        /\ seen' = IF kept THEN seen \cup {Entry(e)} ELSE seen
        /\ UNCHANGED <<treeVars, at, reading, missed, source, installed, failures, closure>>
    BY DEF TakePackage, Take
  <1>2. new.ecosystem = "npm" /\ new.from = reading /\ Identity(new) = NpmIdentity(e)
    BY EntryIdentity DEF Component
  <1>3. tree \in Trees
    BY DEF IInv, Placed
  <1>4. reading # NoFile /\ reading \in NpmLock
    BY <1>1 DEF IInv, ReadingInv
  <1> HIDE DEF new
  <1>5. Anchored(new)
    <2>1. Detect!ClassifyDirExclusion(Dir(reading)) = "none"
      BY <1>3, <1>4, OneNpmLock
    <2> QED BY <1>2, <2>1 DEF Anchored
  <1>6. /\ UNCHANGED <<tree, unreadable>> /\ NpmLock' = NpmLock
        /\ \A name : FindShallowest(name)' = FindShallowest(name)
        /\ \A lock : Packages(lock)' = Packages(lock) /\ NpmEntries(lock)' = NpmEntries(lock)
        /\ \A lock, c : Crate(lock, c)' = Crate(lock, c)
        /\ \A c : Anchored(c)' = Anchored(c)
    BY <1>1, SameTree
  <1>7. Placed'
    BY <1>1, <1>6 DEF IInv, Placed
  <1>8. ReadingInv'
    BY <1>1, <1>4, <1>6 DEF ReadingInv
  <1>9. FoundInv'
    BY <1>1, <1>2, <1>4, <1>5, <1>6 DEF IInv, FoundInv
  <1>10. CargoInv'
    <2>1. {c \in found' : c.ecosystem = "cargo"} = {c \in found : c.ecosystem = "cargo"}
      BY <1>1, <1>2
    <2> QED BY <1>1, <1>6, <2>1 DEF IInv, CargoInv, CratesOf, AfterCargo
  <1>11. NpmInv'
    <2>1. ASSUME NEW lock \in NpmLock \ unreadable
          PROVE  /\ rest' \subseteq NpmEntries(lock)
                 /\ PackagesOf(NpmEntries(lock) \ rest)'
                 /\ \A s \in seen' : \E f \in NpmEntries(lock) \ rest' : Ships(f) /\ s = Entry(f)
      <3> DEFINE done == NpmEntries(lock) \ rest
                 told(comps) == {Identity(c) : c \in {d \in comps : d.ecosystem = "npm"}}
                 listed(entries) == {NpmIdentity(f) : f \in {x \in entries : Ships(x)}}
      <3>1. lock = reading
        BY <1>3, <1>4, OneNpmLock
      <3>2. /\ rest \subseteq NpmEntries(lock)
            /\ told(found) = listed(done)
            /\ \A s \in seen : \E f \in done : Ships(f) /\ s = Entry(f)
        BY <1>1, <1>4, <2>1 DEF IInv, NpmInv, PackagesOf
      <3>3. NpmEntries(lock) \ rest' = done \cup {e}
        BY <1>1, <3>2
      <3>4. told(found') = told(found) \cup {Identity(c) : c \in named}
        BY <1>1, <1>2
      <3>5. listed(done \cup {e}) = listed(done) \cup (IF Ships(e) THEN {NpmIdentity(e)} ELSE {})
        OBVIOUS
      <3>6. told(found') = listed(done \cup {e})
        <4>1. CASE kept
          BY <1>2, <3>2, <3>4, <3>5, <4>1
        <4>2. CASE ~Ships(e)
          BY <3>2, <3>4, <3>5, <4>2
        <4>3. CASE Ships(e) /\ Repeated(e)
          <5>1. PICK f \in done : Ships(f) /\ Entry(e) = Entry(f)
            BY <3>2, <4>3 DEF Repeated
          <5>2. NpmIdentity(e) \in listed(done)
            BY <5>1, EntryIdentity
          <5> QED BY <3>2, <3>4, <3>5, <4>3, <5>2
        <4> QED BY <4>1, <4>2, <4>3
      <3>7. \A s \in seen' : \E f \in done \cup {e} : Ships(f) /\ s = Entry(f)
        BY <1>1, <3>2
      <3>8. PackagesOf(NpmEntries(lock) \ rest)'
        BY <1>6, <3>3, <3>6 DEF PackagesOf
      <3> QED BY <1>1, <3>2, <3>3, <3>7, <3>8
    <2> QED BY <1>1, <1>6, <2>1 DEF NpmInv, AfterNpm
  <1> QED BY <1>1, <1>7, <1>8, <1>9, <1>10, <1>11, LaterInv DEF IInv

-----------------------------------------------------------------------------
(* The source tree is left, and the installed units are looked at.         *)

LEMMA NextSourceKeeps ==
  ASSUME IInv, NextSource
  PROVE  IInv'
  <1>1. /\ rest = {} /\ rest' = {} /\ reading' = NoFile /\ seen' = {}
        /\ UNCHANGED <<treeVars, missed, found, source, installed, closure>>
        /\ \/ at = "golang" /\ at' = "cargo"
           \/ at = "cargo" /\ at' = "npm"
           \/ at = "npm" /\ at' = "finalize"
    BY DEF NextSource, GoOn
  <1>2. /\ UNCHANGED <<tree, unreadable>> /\ NpmLock' = NpmLock
        /\ \A name : FindShallowest(name)' = FindShallowest(name)
        /\ \A lock : Packages(lock)' = Packages(lock) /\ NpmEntries(lock)' = NpmEntries(lock)
        /\ \A lock, c : Crate(lock, c)' = Crate(lock, c)
        /\ \A c : Anchored(c)' = Anchored(c)
    BY <1>1, SameTree
  <1>3. Placed'
    BY <1>1, <1>2 DEF IInv, Placed, AfterCargo
  <1>4. ReadingInv'
    BY <1>1 DEF ReadingInv
  <1>5. FoundInv'
    BY <1>1, <1>2 DEF IInv, FoundInv
  <1>6. CargoInv'
    <2>1. CASE at = "golang"
      BY <1>1, <2>1 DEF CargoInv, AfterCargo
    <2>2. CASE at = "cargo"
      <3>1. \A lock \in FindShallowest("Cargo.lock") \ unreadable : CratesOf(lock, Packages(lock))
        BY <1>1, <2>2 DEF IInv, CargoInv, NextSource
      <3> QED BY <1>1, <1>2, <2>2, <3>1 DEF CargoInv, CratesOf
    <2>3. CASE at = "npm"
      BY <1>1, <1>2, <2>3 DEF IInv, CargoInv, CratesOf, AfterCargo
    <2> QED BY <1>1, <2>1, <2>2, <2>3
  <1>7. NpmInv'
    <2>1. CASE at = "npm"
      <3>1. \A lock \in NpmLock \ unreadable : PackagesOf(NpmEntries(lock))
        BY <1>1, <2>1 DEF IInv, NpmInv, NextSource
      <3> QED BY <1>1, <1>2, <2>1, <3>1 DEF NpmInv, PackagesOf
    <2>2. CASE at # "npm"
      BY <1>1, <2>2 DEF NpmInv, AfterNpm
    <2> QED BY <2>1, <2>2
  <1>8. DistInv' /\ JarInv' /\ ClosureInv'
    BY <1>1 DEF DistInv, JarInv, ClosureInv, OncePerIdentity, Delivered
  <1> QED BY <1>3, <1>4, <1>5, <1>6, <1>7, <1>8 DEF IInv

\* What the lockfiles named stays as it is after they were read.
LEMMA SourceStays ==
  ASSUME IInv, at \in AfterNpm, at' \in AfterNpm, UNCHANGED <<treeVars, found>>,
         \A c \in installed' : c.ecosystem \in {"pypi", "maven"}
  PROVE  Placed' /\ ReadingInv' /\ FoundInv' /\ CargoInv' /\ NpmInv'
  <1>1. /\ UNCHANGED <<tree, unreadable>> /\ NpmLock' = NpmLock
        /\ \A name : FindShallowest(name)' = FindShallowest(name)
        /\ \A lock : Packages(lock)' = Packages(lock) /\ NpmEntries(lock)' = NpmEntries(lock)
        /\ \A lock, c : Crate(lock, c)' = Crate(lock, c)
        /\ \A c : Anchored(c)' = Anchored(c)
    BY SameTree
  <1>2. at \in AfterCargo /\ at' \in AfterCargo
    BY DEF AfterCargo, AfterNpm
  <1>3. Placed'
    BY <1>1, <1>2 DEF IInv, Placed
  <1>4. ReadingInv'
    BY DEF ReadingInv, AfterNpm
  <1>5. FoundInv'
    BY <1>1 DEF IInv, FoundInv, AfterNpm
  <1>6. CargoInv'
    BY <1>1, <1>2 DEF IInv, CargoInv, CratesOf, AfterNpm
  <1>7. NpmInv'
    BY <1>1 DEF IInv, NpmInv, PackagesOf, AfterNpm
  <1> QED BY <1>3, <1>4, <1>5, <1>6, <1>7

\* A unit that is named stays named, whatever else is.
LEMMA NamedStays ==
  ASSUME UNCHANGED treeVars, installed \subseteq installed'
  PROVE  /\ \A p : DistNamed(p) => DistNamed(p)'
         /\ \A p : JarNamed(p) => JarNamed(p)'
  <1>1. \A i : i \in Identities(installed) => i \in Identities(installed')
    BY DEF Identities
  <1> QED BY <1>1, SameTree DEF DistNamed, JarNamed

LEMMA FinalizeSourceKeeps ==
  ASSUME IInv, FinalizeSource
  PROVE  IInv'
  <1>1. /\ at = "finalize" /\ at' = "pypi" /\ rest' = Units({"METADATA"})
        /\ source' \in Finalize(found)
        /\ UNCHANGED <<treeVars, reading, seen, missed, found, installed, failures, closure>>
    BY DEF FinalizeSource
  <1>2. Placed' /\ ReadingInv' /\ FoundInv' /\ CargoInv' /\ NpmInv'
    BY <1>1, SourceStays DEF IInv, FoundInv, AfterNpm
  <1>3. DistInv' /\ JarInv'
    BY <1>1, SameTree DEF DistInv, JarInv
  <1>4. ClosureInv'
    BY <1>1 DEF ClosureInv, OncePerIdentity, Delivered
  <1> QED BY <1>2, <1>3, <1>4 DEF IInv

LEMMA TakeDistKeeps ==
  ASSUME IInv, NEW p, TakeDist(p)
  PROVE  IInv'
  <1> DEFINE content == WithContentDigest(NoText, NoText)
             named(d) == Component("pypi", d.name, d.version, content, p)
             shipped == {d \in DistMetadata(p) : ~IsOwnDistribution(d.name)}
  <1>1. /\ at = "pypi" /\ rest' = rest \ {p}
        /\ installed' = installed \cup {named(d) : d \in shipped}
        /\ missed' = IF DistMetadata(p) = {} THEN missed \cup {p} ELSE missed
        /\ UNCHANGED <<treeVars, at, reading, seen, found, source, failures, closure>>
    BY DEF TakeDist, TakeUnit
  <1>2. \A d : named(d).ecosystem = "pypi" /\ Identity(named(d)) = DistIdentity(d)
    BY DEF Component, WithContentDigest, Identity, PURL, PURLName, DistIdentity, Is
  <1>3. Placed' /\ ReadingInv' /\ FoundInv' /\ CargoInv' /\ NpmInv'
    <2> HIDE DEF named
    <2> QED BY <1>1, <1>2, SourceStays DEF IInv, FoundInv, AfterNpm
  <1>4. DistNamed(p)'
    <2>1. ASSUME NEW d \in DistMetadata(p), ~IsOwnDistribution(d.name)
          PROVE  DistIdentity(d) \in Identities(installed')
      <3> HIDE DEF named
      <3>1. named(d) \in installed'
        BY <1>1, <2>1
      <3> QED BY <1>2, <3>1 DEF Identities
    <2>2. DistMetadata(p)' = DistMetadata(p)
      BY <1>1, SameTree
    <2> QED BY <2>1, <2>2 DEF DistNamed
  <1>5. DistInv'
    <2>1. /\ \A q : DistMetadata(q)' = DistMetadata(q)
          /\ \A q : DistNamed(q) => DistNamed(q)'
          /\ Units({"METADATA"})' = Units({"METADATA"})
      BY <1>1, SameTree, NamedStays
    <2>2. ASSUME NEW q \in Units({"METADATA"}) \ rest'
          PROVE  IF DistMetadata(q) = {} THEN q \in missed' ELSE DistNamed(q)'
      <3> HIDE DEF named
      <3>1. CASE q = p
        BY <1>1, <1>4, <3>1
      <3>2. CASE q # p
        BY <1>1, <2>1, <3>2 DEF IInv, DistInv
      <3> QED BY <3>1, <3>2
    <2> QED BY <1>1, <2>1, <2>2 DEF DistInv
  <1>6. JarInv' /\ ClosureInv'
    BY <1>1 DEF IInv, JarInv, ClosureInv, OncePerIdentity, Delivered
  <1> QED BY <1>3, <1>5, <1>6 DEF IInv

LEMMA TakeJarKeeps ==
  ASSUME IInv, NEW p, TakeJar(p)
  PROVE  IInv'
  <1> DEFINE content == WithContentDigest(NoText, NoText)
             named(c) == Component("maven", c.group \o ":" \o c.artifact, c.version, content, p)
  <1>1. /\ at = "maven" /\ rest' = rest \ {p}
        /\ installed' = installed \cup {named(c) : c \in JarCoordinates(p)}
        /\ missed' = IF JarCoordinates(p) = {} THEN missed \cup {p} ELSE missed
        /\ UNCHANGED <<treeVars, at, reading, seen, found, source, failures, closure>>
    BY DEF TakeJar, TakeUnit
  <1>2. \A c : named(c).ecosystem = "maven" /\ Identity(named(c)) = JarIdentity(c)
    BY DEF Component, WithContentDigest, Identity, PURL, PURLName, JarIdentity, Is
  <1>3. Placed' /\ ReadingInv' /\ FoundInv' /\ CargoInv' /\ NpmInv'
    <2> HIDE DEF named
    <2> QED BY <1>1, <1>2, SourceStays DEF IInv, FoundInv, AfterNpm
  <1>4. JarNamed(p)'
    <2>1. ASSUME NEW c \in JarCoordinates(p)
          PROVE  JarIdentity(c) \in Identities(installed')
      <3> HIDE DEF named
      <3>1. named(c) \in installed'
        BY <1>1, <2>1
      <3> QED BY <1>2, <3>1 DEF Identities
    <2>2. JarCoordinates(p)' = JarCoordinates(p)
      BY <1>1, SameTree
    <2> QED BY <2>1, <2>2 DEF JarNamed
  <1>5. /\ \A q : DistMetadata(q)' = DistMetadata(q) /\ JarCoordinates(q)' = JarCoordinates(q)
        /\ \A q : (DistNamed(q) => DistNamed(q)') /\ (JarNamed(q) => JarNamed(q)')
        /\ \A names : Units(names)' = Units(names)
    BY <1>1, SameTree, NamedStays
  <1>6. JarInv'
    <2>1. ASSUME NEW q \in Units(JarNames) \ rest'
          PROVE  IF JarCoordinates(q) = {} THEN q \in missed' ELSE JarNamed(q)'
      <3> HIDE DEF named
      <3>1. CASE q = p
        BY <1>1, <1>4, <3>1
      <3>2. CASE q # p
        BY <1>1, <1>5, <3>2 DEF IInv, JarInv
      <3> QED BY <3>1, <3>2
    <2> QED BY <1>1, <1>5, <2>1 DEF JarInv
  <1>7. DistInv'
    <2> HIDE DEF named
    <2> QED BY <1>1, <1>5 DEF IInv, DistInv
  <1>8. ClosureInv'
    BY <1>1 DEF IInv, ClosureInv, OncePerIdentity, Delivered
  <1> QED BY <1>3, <1>6, <1>7, <1>8 DEF IInv

LEMMA LeavePythonKeeps ==
  ASSUME IInv, LeavePython
  PROVE  IInv'
  <1>1. /\ at = "pypi" /\ rest = {} /\ at' = "maven" /\ rest' = Units(JarNames)
        /\ missed # {} => "pypi" \in failures'
        /\ UNCHANGED <<treeVars, reading, seen, found, source, installed, closure>>
    BY DEF LeavePython, FailMissed, Fail
  <1>2. Placed' /\ ReadingInv' /\ FoundInv' /\ CargoInv' /\ NpmInv'
    BY <1>1, SourceStays DEF IInv, FoundInv, AfterNpm
  <1>3. /\ \A q : DistMetadata(q)' = DistMetadata(q)
        /\ \A q : DistNamed(q) => DistNamed(q)'
        /\ \A names : Units(names)' = Units(names)
    BY <1>1, SameTree, NamedStays
  <1>4. DistInv' /\ JarInv'
    BY <1>1, <1>3 DEF IInv, DistInv, JarInv
  <1>5. ClosureInv'
    BY <1>1 DEF IInv, ClosureInv, OncePerIdentity, Delivered
  <1> QED BY <1>2, <1>4, <1>5 DEF IInv

LEMMA UnionKeeps ==
  ASSUME IInv, Union
  PROVE  IInv'
  <1>1. /\ at = "maven" /\ rest = {} /\ at' = "done"
        /\ missed # {} => "maven" \in failures'
        /\ failures \subseteq failures'
        /\ UNCHANGED <<treeVars, reading, rest, seen, missed, found, source, installed>>
    BY DEF Union, FailMissed, Fail
  <1>2. PICK half \in Finalize(installed) : closure' \in Finalize(source \cup half)
    BY DEF Union
  <1>3. Placed' /\ ReadingInv' /\ FoundInv' /\ CargoInv' /\ NpmInv'
    BY <1>1, SourceStays DEF IInv, FoundInv, AfterNpm
  <1>4. /\ \A q : DistMetadata(q)' = DistMetadata(q) /\ JarCoordinates(q)' = JarCoordinates(q)
        /\ \A q : (DistNamed(q) => DistNamed(q)') /\ (JarNamed(q) => JarNamed(q)')
        /\ \A names : Units(names)' = Units(names)
    BY <1>1, SameTree, NamedStays
  <1>5. DistInv' /\ JarInv'
    BY <1>1, <1>4 DEF IInv, DistInv, JarInv
  <1>6. source \in Finalize(found)
    BY <1>1 DEF IInv, ClosureInv
  <1>7. /\ closure' \subseteq found \cup installed
        /\ Identities(closure') = Identities({c \in found \cup installed : UsableIdentifier(c)})
        /\ \A c, d \in closure' : Identity(c) = Identity(d) => c = d
    BY <1>2, <1>6, FinalizeTwice
  <1>8. ClosureInv'
    BY <1>1, <1>7 DEF ClosureInv, OncePerIdentity
  <1> QED BY <1>3, <1>5, <1>8 DEF IInv

LEMMA NextIInv == IInv /\ [Next]_vars => IInv'
  <1> SUFFICES ASSUME IInv, [Next]_vars PROVE IInv'
    OBVIOUS
  <1>1. CASE EnumerateGo \/ EnumerateCargo \/ EnumerateNpm
    BY <1>1, StartKeeps
  <1>2. ASSUME NEW line \in rest, NEW mod \in FindShallowest("go.mod"), TakeModule(mod, line)
        PROVE  IInv'
    BY <1>2, TakeModuleKeeps
  <1>3. ASSUME NEW line \in rest,
               TakeCrate(line) \/ TakePackage(line) \/ TakeDist(line) \/ TakeJar(line)
        PROVE  IInv'
    BY <1>3, TakeCrateKeeps, TakePackageKeeps, TakeDistKeeps, TakeJarKeeps
  <1>4. CASE NextSource
    BY <1>4, NextSourceKeeps
  <1>5. CASE FinalizeSource
    BY <1>5, FinalizeSourceKeeps
  <1>6. CASE LeavePython
    BY <1>6, LeavePythonKeeps
  <1>7. CASE Union
    BY <1>7, UnionKeeps
  <1>8. CASE UNCHANGED vars
    <2>1. /\ UNCHANGED <<treeVars, at, reading, rest, seen, missed, found, source, installed,
                         failures, closure>>
      BY <1>8 DEF vars
    <2>2. /\ UNCHANGED <<tree, unreadable>> /\ NpmLock' = NpmLock
          /\ \A name : FindShallowest(name)' = FindShallowest(name)
          /\ \A lock : Packages(lock)' = Packages(lock) /\ NpmEntries(lock)' = NpmEntries(lock)
          /\ \A lock, c : Crate(lock, c)' = Crate(lock, c)
          /\ \A p : DistMetadata(p)' = DistMetadata(p) /\ JarCoordinates(p)' = JarCoordinates(p)
          /\ \A names : Units(names)' = Units(names)
          /\ \A c : Anchored(c)' = Anchored(c)
          /\ \A mod : ModulesTxt(mod)' = ModulesTxt(mod) /\ GoSum(mod)' = GoSum(mod)
      BY <2>1, SameTree
    <2>3. /\ \A q : (DistNamed(q) => DistNamed(q)') /\ (JarNamed(q) => JarNamed(q)')
      BY <2>1, NamedStays
    <2>4. Placed' /\ ReadingInv' /\ FoundInv'
      BY <2>1, <2>2 DEF IInv, Placed, ReadingInv, FoundInv
    <2>5. CargoInv'
      BY <2>1, <2>2 DEF IInv, CargoInv, CratesOf
    <2>6. NpmInv'
      BY <2>1, <2>2 DEF IInv, NpmInv, PackagesOf
    <2>7. DistInv' /\ JarInv'
      BY <2>1, <2>2, <2>3 DEF IInv, DistInv, JarInv
    <2>8. ClosureInv'
      BY <2>1 DEF IInv, ClosureInv, OncePerIdentity, Delivered
    <2> QED BY <2>4, <2>5, <2>6, <2>7, <2>8 DEF IInv
  <1> QED BY <1>1, <1>2, <1>3, <1>4, <1>5, <1>6, <1>7, <1>8 DEF Next

LEMMA Invariance == Spec => []IInv
  <1> QED BY InitIInv, NextIInv, PTL DEF Spec

-----------------------------------------------------------------------------
(* The theorems.                                                           *)

\* What a closure has of an ecosystem.
LEMMA ClosureNames ==
  ASSUME IInv, Delivered, NEW ecosystem, NEW i
  PROVE  i \in Named(ecosystem)
            <=> \E c \in found \cup installed :
                    c.ecosystem = ecosystem /\ Identity(c) = i /\ Usable(i)
  <1>1. Identities(closure) = Identities({c \in found \cup installed : UsableIdentifier(c)})
    BY DEF IInv, ClosureInv, OncePerIdentity
  <1>2. i \in Named(ecosystem) <=> i \in Identities(closure) /\ i.purl.ecosystem = ecosystem
    BY IdentityTells DEF Named, Identities
  <1>3. i \in Identities({c \in found \cup installed : UsableIdentifier(c)})
            <=> \E c \in found \cup installed : Identity(c) = i /\ Usable(i)
    BY IdentityTells DEF Identities
  <1> QED BY <1>1, <1>2, <1>3, IdentityTells

\* The closure has every usable identity that was found, each of them once.
THEOREM ClosureOncePerIdentity == Spec => []OncePerIdentity
  <1>1. IInv => OncePerIdentity
    BY DEF IInv, ClosureInv
  <1> QED BY <1>1, Invariance, PTL

\* Nothing in the closure comes out of a tree of others, and its modules come
\* from where vendored copies are looked for.
THEOREM ClosureAnchored == Spec => []AnchoredInOwnTree
  <1>1. IInv => AnchoredInOwnTree
    <2> SUFFICES ASSUME IInv, Delivered, NEW c \in closure,
                        c.ecosystem \in {"cargo", "npm", "golang"}
                 PROVE  Anchored(c)
      BY DEF AnchoredInOwnTree, Anchored
    <2>1. c \in found \cup installed
      BY DEF IInv, ClosureInv, Delivered
    <2> QED BY <2>1 DEF IInv, FoundInv
  <1> QED BY <1>1, Invariance, PTL

\* What ships in a directory that a walk comes to is in the closure, wherever and
\* however often it is listed, or its enumerator has a Failure.
THEOREM ClosureMissesNothing == Spec => []NothingMissed
  <1>1. ASSUME IInv, Delivered PROVE NothingMissed
    <2>1. ASSUME NEW lock \in NpmLock \ unreadable, NEW i
          PROVE  i \in Named("npm") <=>
                    Usable(i) /\ \E e \in NpmEntries(lock) : Ships(e) /\ i = NpmIdentity(e)
      <3>1. PackagesOf(NpmEntries(lock))
        BY <1>1 DEF IInv, NpmInv, AfterNpm, Delivered
      <3>2. \A c \in installed : c.ecosystem # "npm"
        BY <1>1 DEF IInv, FoundInv
      <3>3. i \in Named("npm")
                <=> Usable(i) /\ \E c \in found : c.ecosystem = "npm" /\ Identity(c) = i
        BY <1>1, <3>2, ClosureNames
      <3>4. (\E c \in found : c.ecosystem = "npm" /\ Identity(c) = i)
                <=> i \in {Identity(c) : c \in {d \in found : d.ecosystem = "npm"}}
        OBVIOUS
      <3>5. (\E e \in NpmEntries(lock) : Ships(e) /\ i = NpmIdentity(e))
                <=> i \in {NpmIdentity(e) : e \in {x \in NpmEntries(lock) : Ships(x)}}
        OBVIOUS
      <3> QED BY <3>1, <3>3, <3>4, <3>5 DEF PackagesOf
    <2>2. ShippedAnywhere
      <3> SUFFICES ASSUME NEW lock \in NpmLock \ unreadable
                   PROVE  Named("npm") = {i \in {NpmIdentity(e) :
                                e \in {x \in NpmEntries(lock) : Ships(x)}} : Usable(i)}
        BY DEF ShippedAnywhere, NpmIdentity
      <3>1. \A i \in Named("npm") : i \in {j \in {NpmIdentity(e) :
                e \in {x \in NpmEntries(lock) : Ships(x)}} : Usable(j)}
        BY <2>1
      <3>2. \A i \in {j \in {NpmIdentity(e) :
                e \in {x \in NpmEntries(lock) : Ships(x)}} : Usable(j)} : i \in Named("npm")
        BY <2>1
      <3> QED BY <3>1, <3>2
    <2>3. \A p : Units({"METADATA"}) \subseteq Present /\ Units(JarNames) \subseteq Present
      BY DEF Units, Visited
    <2>4. ASSUME NEW c \in installed, Usable(Identity(c))
          PROVE  Identity(c) \in Named(Identity(c).purl.ecosystem)
      BY <1>1, <2>4, ClosureNames, IdentityTells
    <2>5. \A i \in Identities(installed) : Usable(i) => i \in Named(i.purl.ecosystem)
      BY <2>4 DEF Identities
    <2>6. ASSUME NEW p \in Units({"METADATA"})
          PROVE  LET stated == IF p \in unreadable THEN {}
                               ELSE {d \in tree[p] : d.name # NoText /\ d.version # NoText}
                 IN  IF stated = {} THEN "pypi" \in failures
                     ELSE \A d \in stated :
                             \/ IsOwnDistribution(d.name)
                             \/ Usable(DistIdentity(d)) =>
                                   DistIdentity(d) \in Named(DistIdentity(d).purl.ecosystem)
      <3>1. DistMetadata(p) = IF p \in unreadable THEN {}
                              ELSE {d \in tree[p] : d.name # NoText /\ d.version # NoText}
        BY <2>3 DEF DistMetadata, Readable
      <3>2. IF DistMetadata(p) = {} THEN "pypi" \in failures ELSE DistNamed(p)
        BY <1>1 DEF IInv, DistInv, Delivered
      <3> QED BY <2>5, <3>1, <3>2 DEF DistNamed
    <2>7. ASSUME NEW p \in Units(JarNames)
          PROVE  LET stated == IF p \in unreadable THEN {}
                               ELSE {c \in tree[p] : NoText \notin {c.group, c.artifact, c.version}}
                 IN  IF stated = {} THEN "maven" \in failures
                     ELSE \A c \in stated : Usable(JarIdentity(c)) =>
                             JarIdentity(c) \in Named(JarIdentity(c).purl.ecosystem)
      <3>1. JarCoordinates(p) = IF p \in unreadable THEN {}
                                ELSE {c \in tree[p] : NoText \notin {c.group, c.artifact, c.version}}
        BY <2>3 DEF JarCoordinates, Coordinates, Readable
      <3>2. IF JarCoordinates(p) = {} THEN "maven" \in failures ELSE JarNamed(p)
        BY <1>1 DEF IInv, JarInv, Delivered
      <3> QED BY <2>5, <3>1, <3>2 DEF JarNamed
    <2>8. \A p \in Present : Above(p) \cap skipped = {} =>
              /\ Base(p) = "METADATA" => p \in Units({"METADATA"})
              /\ Base(p) \in JarNames => p \in Units(JarNames)
      BY DEF Units, Visited
    <2>9. InstalledOrFailure
      BY <2>6, <2>7, <2>8 DEF InstalledOrFailure, IsOwnDistribution, DistIdentity, JarIdentity
    <2> QED BY <2>2, <2>9 DEF NothingMissed
  <1>2. IInv => NothingMissed
    BY <1>1 DEF NothingMissed, ShippedAnywhere, InstalledOrFailure
  <1> QED BY <1>2, Invariance, PTL

\* The checksum that a crate is recorded with is one that its lockfile has for
\* exactly this package, and there is one if the lockfile has any.
LEMMA ChecksumIsOwn ==
  ASSUME tree \in Trees, NEW lock \in FindShallowest("Cargo.lock"), NEW p
  PROVE  IF ChecksumsOf(lock, p) = {} THEN Checksum(lock, p) = NoText
         ELSE Checksum(lock, p) \in ChecksumsOf(lock, p)
  <1>1. /\ ChecksumsOf(lock, p)
              = ({p.checksum} \cup {m.checksum : m \in MetadataChecksums(lock, p)}) \ {NoText}
        /\ \A m \in MetadataChecksums(lock, p) : m \in tree[lock] /\ m.kind = "metadata"
              /\ m.name = p.name /\ m.version = p.version /\ m.source = p.source
    BY DEF ChecksumsOf, MetadataChecksums
  <1>2. ASSUME NEW m \in MetadataChecksums(lock, p), NEW n \in MetadataChecksums(lock, p)
        PROVE  m = n
    <2>1. lock \in DOMAIN tree /\ lock[Len(lock)] = "Cargo.lock"
      BY Shallowest DEF Lockfiles, Present, Base
    <2> QED BY <1>1, <2>1, TreesAssumption
  <1> DEFINE chosen == CHOOSE m \in MetadataChecksums(lock, p) : TRUE
  <1>3. CASE p.checksum # NoText
    BY <1>1, <1>3 DEF Checksum
  <1>4. CASE p.checksum = NoText /\ MetadataChecksums(lock, p) = {}
    BY <1>1, <1>4 DEF Checksum
  <1>5. CASE p.checksum = NoText /\ MetadataChecksums(lock, p) # {}
    <2>1. chosen \in MetadataChecksums(lock, p)
      BY <1>5
    <2>2. MetadataChecksums(lock, p) = {chosen}
      <3> HIDE DEF chosen
      <3> QED BY <1>2, <2>1
    <2>3. Checksum(lock, p) = chosen.checksum
      BY <1>5 DEF Checksum
    <2> HIDE DEF chosen
    <2>4. ChecksumsOf(lock, p) = {chosen.checksum} \ {NoText}
      BY <1>1, <1>5, <2>2
    <2> QED BY <2>3, <2>4
  <1> QED BY <1>3, <1>4, <1>5

\* A crate's digest is a checksum of that very package, and a checksum that the
\* lockfile has for it is not lost behind another crate of its name.
THEOREM DigestsAreOwn == Spec => []NoBorrowedDigest
  <1>1. ASSUME IInv, Delivered PROVE NoBorrowedDigest
    <2> SUFFICES ASSUME NEW lock \in FindShallowest("Cargo.lock") \ unreadable
                 PROVE  LET crates == {p \in tree[lock] : p.kind = "package" /\ p.source # NoText}
                            named(p) == {d \in {NoText} \cup ChecksumsOf(lock, p) :
                                            Is("cargo", p.name, p.version, d) \in Named("cargo")}
                        IN  /\ \A p \in crates : {p.name, p.version} \cap Unusable = {} =>
                                  IF ChecksumsOf(lock, p) = {} THEN NoText \in named(p)
                                  ELSE named(p) \ {NoText} # {}
                            /\ \A c \in closure : c.ecosystem = "cargo" =>
                                  \E p \in crates : <<p.name, p.version>> = <<c.name, c.version>>
                                    /\ c.digest \in {NoText} \cup ChecksumsOf(lock, p)
      BY DEF NoBorrowedDigest
    <2> DEFINE crates == {p \in tree[lock] : p.kind = "package" /\ p.source # NoText}
    <2>1. \A p : IF ChecksumsOf(lock, p) = {} THEN Checksum(lock, p) = NoText
                 ELSE Checksum(lock, p) \in ChecksumsOf(lock, p)
      BY <1>1, ChecksumIsOwn DEF IInv, Placed
    <2>2. CratesOf(lock, Packages(lock))
      BY <1>1 DEF IInv, CargoInv, AfterCargo, Delivered
    <2>3. {c \in found : c.ecosystem = "cargo"} = {Crate(lock, p) : p \in crates}
      <3>1. {q \in Packages(lock) : q.source # NoText} = crates
        BY DEF Packages
      <3> QED BY <2>2, <3>1 DEF CratesOf
    <2>4. \A p : /\ Crate(lock, p).name = p.name /\ Crate(lock, p).version = p.version
                 /\ Crate(lock, p).digest = Checksum(lock, p)
                 /\ Identity(Crate(lock, p)) = Is("cargo", p.name, p.version, Checksum(lock, p))
      BY DEF Crate, Component, WithContentDigest, Identity, PURL, PURLName, Is
    <2>5. ASSUME NEW p \in crates, {p.name, p.version} \cap Unusable = {}
          PROVE  Is("cargo", p.name, p.version, Checksum(lock, p)) \in Named("cargo")
      <3>1. Crate(lock, p) \in found /\ Crate(lock, p).ecosystem = "cargo"
        BY <2>3
      <3>2. Usable(Is("cargo", p.name, p.version, Checksum(lock, p)))
        BY <2>5 DEF Usable, Is
      <3> QED BY <1>1, <2>4, <3>1, <3>2, ClosureNames
    <2>7. \A p, d : d \in ChecksumsOf(lock, p) => d # NoText
      BY DEF ChecksumsOf
    <2>8. ASSUME NEW c \in closure, c.ecosystem = "cargo"
          PROVE  \E p \in crates : <<p.name, p.version>> = <<c.name, c.version>>
                                   /\ c.digest \in {NoText} \cup ChecksumsOf(lock, p)
      <3>1. c \in found
        BY <1>1, <2>8 DEF IInv, ClosureInv, FoundInv, Delivered
      <3>2. PICK p \in crates : c = Crate(lock, p)
        BY <2>3, <2>8, <3>1
      <3> QED BY <2>1, <2>4, <3>2
    <2> QED BY <2>1, <2>5, <2>7, <2>8
  <1>2. IInv => NoBorrowedDigest
    BY <1>1 DEF NoBorrowedDigest
  <1> QED BY <1>2, Invariance, PTL

-----------------------------------------------------------------------------
(* Types.                                                                  *)

\* A component has a digest and its scheme together, and is read of a file there is.
IsComponent(c) ==
    /\ c.ecosystem \in {"golang", "cargo", "npm", "pypi", "maven"}
    /\ c.from \in Present
    /\ c.digest = NoText <=> c.algo = NoText

\* What is left to look at is of a file there is, or is one.
TypeInv ==
    /\ TypeOK
    /\ at \in {"golang", "cargo", "npm"} /\ rest # {} => reading \in Present
    /\ at \in {"pypi", "maven"} => rest \subseteq Present

LEMMA ComponentIs ==
  ASSUME NEW e \in {"golang", "cargo", "npm", "pypi", "maven"}, NEW n, NEW v, NEW d, NEW a,
         NEW p \in Present, a # NoText \/ d = NoText
  PROVE  IsComponent(Component(e, n, v, WithContentDigest(d, a), p))
  BY DEF IsComponent, Component, WithContentDigest

\* The schemes of the enumerators are not empty.
LEMMA Schemes == "h1" # NoText /\ "sha256" # NoText /\ "npm-integrity" # NoText
  BY DEF NoText

LEMMA TypesKept ==
  ASSUME IInv, TypeInv, Next
  PROVE  TypeInv'
  <1> DEFINE ecosystems == {"golang", "cargo", "npm", "pypi", "maven"}
  <1>1. /\ UNCHANGED <<tree, unreadable>>
        /\ Present' = Present
        /\ \A c : IsComponent(c)' = IsComponent(c)
        /\ \A mod : GoSum(mod)' = GoSum(mod)
        /\ \A name : FindShallowest(name)' = FindShallowest(name)
    <2>1. UNCHANGED treeVars
      BY DEF Next, EnumerateGo, EnumerateCargo, EnumerateNpm, OpenLock, Open, TakeModule,
             TakeCrate, TakePackage, TakeDist, TakeJar, TakeUnit, Take, NextSource, GoOn,
             FinalizeSource, LeavePython, Union
    <2> QED BY <2>1, SameTree DEF IsComponent
  <1>2. tree \in Trees
    BY DEF IInv, Placed
  <1>3. /\ at \in {"golang", "cargo", "npm", "finalize", "pypi", "maven", "done"}
        /\ reading \in Present \cup {NoFile} \cup {GoSum(mod) : mod \in FindShallowest("go.mod")}
        /\ missed \subseteq Present /\ failures \subseteq ecosystems
        /\ \A c \in found \cup source \cup installed \cup closure : IsComponent(c)
        /\ at \in {"golang", "cargo", "npm"} /\ rest # {} => reading \in Present
        /\ at \in {"pypi", "maven"} => rest \subseteq Present
    BY DEF TypeInv, TypeOK, IsComponent
  <1> DEFINE Goal ==
        /\ at' \in {"golang", "cargo", "npm", "finalize", "pypi", "maven", "done"}
        /\ reading' \in Present \cup {NoFile} \cup {GoSum(mod) : mod \in FindShallowest("go.mod")}
        /\ missed' \subseteq Present /\ failures' \subseteq ecosystems
        /\ \A c \in found' \cup source' \cup installed' \cup closure' : IsComponent(c)
        /\ at' \in {"golang", "cargo", "npm"} /\ rest' # {} => reading' \in Present
        /\ at' \in {"pypi", "maven"} => rest' \subseteq Present
  <1>4. SUFFICES Goal
    BY <1>1 DEF TypeInv, TypeOK, IsComponent
  <1>5. CASE EnumerateGo
    <2>1. PICK mod \in FindShallowest("go.mod") :
             /\ IF Readable(ModulesTxt(mod)) THEN Open(ModulesTxt(mod), tree[ModulesTxt(mod)])
                ELSE Open(GoSum(mod), ParseGoSum(mod))
             /\ IF GoSum(mod) \in unreadable THEN Fail("golang") ELSE UNCHANGED failures
      BY <1>5 DEF EnumerateGo
    <2>2. ParseGoSum(mod) # {} => GoSum(mod) \in Present
      BY DEF ParseGoSum, Readable
    <2>3. Readable(ModulesTxt(mod)) => ModulesTxt(mod) \in Present
      BY DEF Readable
    <2> QED BY <1>3, <1>5, <2>1, <2>2, <2>3 DEF EnumerateGo, Open, Fail
  <1>6. CASE EnumerateCargo \/ EnumerateNpm
    <2>1. /\ FindShallowest("Cargo.lock") \subseteq Present
          /\ NpmLock \subseteq Present
      BY <1>2, Shallowest, OneNpmLock DEF Lockfiles
    <2> QED BY <1>3, <1>6, <2>1 DEF EnumerateCargo, EnumerateNpm, OpenLock, Open, Fail
  <1>7. ASSUME NEW line \in rest,
               \/ \E mod \in FindShallowest("go.mod") : TakeModule(mod, line)
               \/ TakeCrate(line) \/ TakePackage(line)
        PROVE  Goal
    <2>1. reading \in Present
      BY <1>3, <1>7 DEF TakeModule, TakeCrate, TakePackage
    <2>2. PICK comps : Take(line, comps) /\ \A c \in comps : IsComponent(c)
      <3>1. ASSUME NEW mod, TakeModule(mod, line)
            PROVE  \E comps : Take(line, comps) /\ \A c \in comps : IsComponent(c)
        <4> DEFINE new == Component("golang", line.name, Effective(line),
                       WithContentDigest(GoDigest(mod, line.name, Effective(line)), "h1"), reading)
        <4>1. IsComponent(new)
          BY <2>1, ComponentIs, Schemes
        <4>2. Take(line, {new})
          BY <3>1 DEF TakeModule
        <4> HIDE DEF new
        <4> QED BY <4>1, <4>2
      <3>2. ASSUME TakeCrate(line)
            PROVE  \E comps : Take(line, comps) /\ \A c \in comps : IsComponent(c)
        <4> DEFINE new == Component("cargo", line.name, line.version,
                              WithContentDigest(Checksum(reading, line), "sha256"), reading)
        <4>1. IsComponent(new)
          BY <2>1, ComponentIs, Schemes
        <4>2. Take(line, IF line.source = NoText THEN {} ELSE {new})
          BY <3>2 DEF TakeCrate
        <4> HIDE DEF new
        <4> QED BY <4>1, <4>2
      <3>3. ASSUME TakePackage(line)
            PROVE  \E comps : Take(line, comps) /\ \A c \in comps : IsComponent(c)
        <4> DEFINE new == Component("npm", NpmName(line), line.version,
                              WithContentDigest(line.integrity, "npm-integrity"), reading)
        <4>1. IsComponent(new)
          BY <2>1, ComponentIs, Schemes
        <4>2. Take(line, {new}) \/ Take(line, {})
          BY <3>3 DEF TakePackage
        <4> HIDE DEF new
        <4> QED BY <4>1, <4>2
      <3> QED BY <1>7, <3>1, <3>2, <3>3
    <2> QED BY <1>3, <1>7, <2>1, <2>2 DEF Take
  <1>8. ASSUME NEW p \in rest, TakeDist(p) \/ TakeJar(p)
        PROVE  Goal
    <2>1. p \in Present /\ at \in {"pypi", "maven"}
      BY <1>3, <1>8 DEF TakeDist, TakeJar
    <2>2. PICK named, comps : TakeUnit(p, named, comps) /\ \A c \in comps : IsComponent(c)
      BY <1>8, <2>1, ComponentIs DEF TakeDist, TakeJar
    <2> QED BY <1>3, <1>8, <2>1, <2>2 DEF TakeUnit
  <1>9. CASE NextSource /\ UNCHANGED failures
    BY <1>3, <1>9 DEF NextSource, GoOn
  <1>10. CASE FinalizeSource
    BY <1>3, <1>10, FinalizeKeeps DEF FinalizeSource, Units, Visited
  <1>11. CASE LeavePython
    BY <1>3, <1>11 DEF LeavePython, FailMissed, Fail, Units, Visited
  <1>12. CASE Union
    <2>1. \A c \in closure' : c \in source \cup installed
      <3>1. PICK half \in Finalize(installed) : closure' \in Finalize(source \cup half)
        BY <1>12 DEF Union
      <3>2. half \subseteq installed
        BY <3>1, FinalizeKeeps
      <3>3. closure' \subseteq source \cup half
        BY <3>1, FinalizeKeeps
      <3> QED BY <3>2, <3>3
    <2> QED BY <1>3, <1>12, <2>1 DEF Union, FailMissed, Fail
  <1> HIDE DEF Goal
  <1> QED BY <1>5, <1>6, <1>7, <1>8, <1>9, <1>10, <1>11, <1>12 DEF Next

\* The state of an enumeration has its types: a component has the file it was read
\* of, and never a digest without its scheme (TypeOK).
THEOREM TypeCorrect == Spec => []TypeOK
  <1>1. Init => TypeInv
    BY DEF Init, TypeInv, TypeOK
  <1>2. TypeInv /\ UNCHANGED vars => TypeInv'
    <2> SUFFICES ASSUME TypeInv, UNCHANGED vars PROVE TypeInv'
      OBVIOUS
    <2>1. /\ Present' = Present /\ \A mod : GoSum(mod)' = GoSum(mod)
          /\ \A name : FindShallowest(name)' = FindShallowest(name)
      BY SameTree DEF vars
    <2> QED BY <2>1 DEF vars, TypeInv, TypeOK
  <1>3. IInv /\ TypeInv /\ [Next]_vars => TypeInv'
    BY <1>2, TypesKept
  <1>4. TypeInv => TypeOK
    BY DEF TypeInv
  <1> QED BY <1>1, <1>3, <1>4, Invariance, PTL DEF Spec
=============================================================================
