----------------------------- MODULE Enumerate ------------------------------
(***************************************************************************)
(* component: the identities that a source tree's lockfiles and a build's  *)
(* output trees name, one enumerator after the other, and the rules of the *)
(* set they make.                                                          *)
(*                                                                         *)
(* A file is the set of lines it is parsed into, each of them a record.    *)
(* They are taken in any order: those of a go.sum and of an npm lockfile   *)
(* come out of a map.  Sets stand for the slices that Finalize sorts.      *)
(* Cancellation is in Collect.tla.                                         *)
(***************************************************************************)
EXTENDS Naturals, Sequences, FiniteSets

CONSTANTS
    VendorSegments, BuildSegments, TestSegments,    \* as in Detect.tla
    Trees,          \* the trees there may be, functions from paths to lines
    Skippable,      \* the sets of directories that a walk may have to pass over
    Rank,           \* Rank[p]: when a walk in lexical order meets p
    JarNames,       \* names that end in .jar
    Normalized,     \* Normalized[n]: a distribution's name, as PEP 503 has it
    Own,            \* the package that is built, as a distribution's name
    Unusable        \* names and versions that no usable purl can be made of

Lockfiles == {"go.mod", "Cargo.lock", "npm-shrinkwrap.json", "package-lock.json"}

\* A path has a name, a walk meets no two lockfiles of one depth at once, and a
\* metadata table has one entry for a package of one source.
ASSUME TreesAssumption ==
    \A t \in Trees :
        /\ DOMAIN t \subseteq Seq(STRING) \ {<<>>}
        /\ \A p \in DOMAIN t : p[Len(p)] \in Lockfiles => Rank[p] \in Nat
        /\ \A p, q \in DOMAIN t :
              p[Len(p)] = q[Len(q)] /\ Len(p) = Len(q) /\ p[Len(p)] \in Lockfiles
                /\ Rank[p] = Rank[q] => p = q
        /\ \A p \in DOMAIN t : p[Len(p)] = "Cargo.lock" =>
              \A m, n \in {l \in t[p] : l.kind = "metadata"} :
                  m.name = n.name /\ m.version = n.version /\ m.source = n.source => m = n

VARIABLES
    tree,           \* tree[p]: the lines of p, for the files there are
    unreadable,     \* files that cannot be read or parsed
    skipped,        \* directories a walk passes over: those it cannot list, and links
    at,             \* the enumerator that runs, or the step after it
    reading,        \* the lockfile it reads, or none
    rest,           \* what is left to look at: lines, or installed units
    seen,           \* the npm entries that were kept
    missed,         \* the installed units without a name
    found,          \* the components of the source tree so far
    source,         \* what EnumerateSource returned of them
    installed,      \* the components of the installed trees so far
    failures,       \* the ecosystems with a Failure
    closure         \* the components of both, finalized

treeVars == <<tree, unreadable, skipped>>
vars == <<treeVars, at, reading, rest, seen, missed, found, source, installed,
          failures, closure>>

\* What a field is that a file leaves out.
NoText == ""

Detect == INSTANCE Detect WITH
    Segments <- {}, LicenseNames <- {}, SupplementaryNames <- {}, Named <- <<>>,
    Blank <- {}, GrantFamilies <- {}, None <- NoText

NoFile == <<>>
Base(p) == p[Len(p)]
Dir(p) == SubSeq(p, 1, Len(p) - 1)
Present == DOMAIN tree

\* The directories above a file, and the files that a walk comes to.  It has no
\* error for what it passes over.
Above(p) == {SubSeq(p, 1, k) : k \in 1..Len(p) - 1}
Visited == {p \in Present : Above(p) \cap skipped = {}}
Readable(p) == p \in Present \ unreadable

-----------------------------------------------------------------------------
(* Components.                                                             *)

\* A digest and its scheme are recorded together.
WithContentDigest(digest, algo) ==
    [digest |-> digest, algo |-> IF digest = NoText THEN NoText ELSE algo]

Component(ecosystem, name, version, content, from) ==
    [ecosystem |-> ecosystem, name |-> name, version |-> version,
     digest |-> content.digest, algo |-> content.algo, from |-> from]

\* Of the spellings of a distribution's name, its purl has one.
PURLName(c) == IF c.ecosystem = "pypi" THEN Normalized[c.name] ELSE c.name
PURL(c) == [ecosystem |-> c.ecosystem, name |-> PURLName(c), version |-> c.version]
Identity(c) == [purl |-> PURL(c), digest |-> c.digest]
UsableIdentifier(c) == {PURLName(c), c.version} \cap Unusable = {}

DropMalformed(comps) == {c \in comps : UsableIdentifier(c)}

\* One component for every identity, whichever comes first.  Slip: for every
\* purl.
DedupePURL(comps) ==
    {kept \in SUBSET comps :
        /\ {PURL(c) : c \in kept} = {PURL(c) : c \in comps}
        /\ \A c, d \in kept : PURL(c) = PURL(d) => c = d}
Dedupe(comps) ==
    {kept \in SUBSET comps :
        /\ {Identity(c) : c \in kept} = {Identity(c) : c \in comps}
        /\ \A c, d \in kept : Identity(c) = Identity(d) => c = d}

\* What Finalize may return.
Finalize(comps) == Dedupe(DropMalformed(comps))

\* The first of the shallowest files of a name, outside of the trees of
\* others.  Slip: anywhere.
First(there) ==
    {p \in there : \A q \in there : Len(p) < Len(q) \/ (Len(p) = Len(q) /\ Rank[p] <= Rank[q])}
FindAnywhere(name) == First({p \in Visited : Base(p) = name})
FindShallowest(name) ==
    First({p \in Visited : Base(p) = name /\ Detect!ClassifyDirExclusion(Dir(p)) = "none"})

-----------------------------------------------------------------------------

Init ==
    /\ tree \in Trees
    /\ unreadable \in SUBSET DOMAIN tree
    /\ skipped \in {dirs \in Skippable : dirs \subseteq UNION {Above(p) : p \in DOMAIN tree}}
    /\ at = "golang" /\ reading = NoFile
    /\ rest = {} /\ seen = {} /\ missed = {}
    /\ found = {} /\ source = {} /\ installed = {}
    /\ failures = {} /\ closure = {}

Fail(ecosystem) == failures' = failures \cup {ecosystem}

\* An enumerator starts on the lines of a file.
Open(p, lines) ==
    /\ reading' = p /\ rest' = lines
    /\ UNCHANGED <<treeVars, at, seen, missed, found, source, installed, closure>>

\* A line is looked at, and contributes these components.
Take(line, comps) ==
    /\ rest' = rest \ {line}
    /\ found' = found \cup comps
    /\ UNCHANGED <<treeVars, at, reading, missed, source, installed, failures, closure>>

\* The next enumerator.
GoOn(next) ==
    /\ at' = next /\ reading' = NoFile /\ rest' = {} /\ seen' = {}
    /\ UNCHANGED <<treeVars, missed, found, source, installed, closure>>

-----------------------------------------------------------------------------
(* enumerateGo.  A line of go.sum is [kind, name, version, hash], one of   *)
(* modules.txt [name, version, right], right the fields of a replacement.  *)

GoSum(mod) == Dir(mod) \o <<"go.sum">>
ModulesTxt(mod) == Dir(mod) \o <<"vendor", "modules.txt">>

\* parseGoSum: the hashes of zips, not those of a go.mod alone.
ParseGoSum(mod) ==
    IF Readable(GoSum(mod)) THEN {l \in tree[GoSum(mod)] : l.kind = "zip"} ELSE {}
GoDigest(mod, name, version) ==
    LET recorded == {l \in ParseGoSum(mod) : l.name = name /\ l.version = version}
    IN  IF recorded = {} THEN NoText ELSE (CHOOSE l \in recorded : TRUE).hash

EnumerateGo ==
    /\ at = "golang" /\ reading = NoFile
    /\ \E mod \in FindShallowest("go.mod") :
          /\ IF Readable(ModulesTxt(mod)) THEN Open(ModulesTxt(mod), tree[ModulesTxt(mod)])
             ELSE Open(GoSum(mod), ParseGoSum(mod))
          /\ IF GoSum(mod) \in unreadable THEN Fail("golang") ELSE UNCHANGED failures

\* A replaced module keeps its path and has the version that replaces it.
Effective(line) ==
    IF Base(reading) = "go.sum" \/ line.right = <<>> THEN line.version
    ELSE line.right[Len(line.right)]

TakeModule(mod, line) ==
    /\ at = "golang" /\ line \in rest
    /\ LET content == WithContentDigest(GoDigest(mod, line.name, Effective(line)), "h1")
       IN  Take(line, {Component("golang", line.name, Effective(line), content, reading)})
    /\ UNCHANGED seen

\* component.VendorRoot.
VendorRoot == {Dir(mod) \o <<"vendor">> : mod \in FindShallowest("go.mod")}

-----------------------------------------------------------------------------
(* enumerateCargo.  A line of Cargo.lock is a package or an entry of the   *)
(* metadata table: [kind, name, version, source, checksum].                *)

\* A lockfile that cannot be read or parsed ends its enumeration.
OpenLock(ecosystem, lock, lines) ==
    IF Readable(lock) THEN Open(lock, lines) /\ UNCHANGED failures
    ELSE Open(lock, {}) /\ Fail(ecosystem)

EnumerateCargo ==
    /\ at = "cargo" /\ reading = NoFile
    /\ \E lock \in FindShallowest("Cargo.lock") :
          OpenLock("cargo", lock, {p \in tree[lock] : p.kind = "package"})

\* The entries of a version 1 lockfile for a package, its source included.
\* Slip: not included.
EntriesOfVersion(lock, p) ==
    {m \in tree[lock] : m.kind = "metadata" /\ m.name = p.name /\ m.version = p.version}
MetadataChecksums(lock, p) ==
    {m \in tree[lock] : /\ m.kind = "metadata" /\ m.name = p.name
                        /\ m.version = p.version /\ m.source = p.source}
Checksum(lock, p) ==
    IF p.checksum # NoText \/ MetadataChecksums(lock, p) = {} THEN p.checksum
    ELSE (CHOOSE m \in MetadataChecksums(lock, p) : TRUE).checksum

\* A crate without a source is the package's own.
TakeCrate(p) ==
    /\ at = "cargo" /\ p \in rest
    /\ LET content == WithContentDigest(Checksum(reading, p), "sha256")
       IN  Take(p, IF p.source = NoText THEN {}
                   ELSE {Component("cargo", p.name, p.version, content, reading)})
    /\ UNCHANGED seen

-----------------------------------------------------------------------------
(* enumerateNpm.  An entry of the flat layout is [layout, path, name,      *)
(* version, resolved, integrity, dev, link]; path is what npmNameFromPath  *)
(* makes of it, and name an alias.  The nested layout has no alias and no  *)
(* link, and its walk reaches every entry.                                 *)

NpmLock ==
    IF FindShallowest("npm-shrinkwrap.json") # {} THEN FindShallowest("npm-shrinkwrap.json")
    ELSE FindShallowest("package-lock.json")

NpmEntries(lock) ==
    LET flat == {e \in tree[lock] : e.layout = "flat"}
    IN  IF flat # {} THEN flat ELSE tree[lock]

EnumerateNpm ==
    /\ at = "npm" /\ reading = NoFile
    /\ \E lock \in NpmLock : OpenLock("npm", lock, NpmEntries(lock))

FromNpmRegistry(resolved) == resolved = "https"
NpmName(e) == IF e.name # NoText THEN e.name ELSE e.path
Ships(e) ==
    /\ ~e.dev /\ ~e.link
    /\ NpmName(e) # NoText /\ e.version # NoText /\ FromNpmRegistry(e.resolved)

Entry(e) == [name |-> NpmName(e), version |-> e.version, integrity |-> e.integrity]

\* Slip: one entry of a name is enough.
RepeatedName(e) == \E s \in seen : s.name = Entry(e).name
Repeated(e) == Entry(e) \in seen

TakePackage(e) ==
    /\ at = "npm" /\ e \in rest
    /\ LET content == WithContentDigest(e.integrity, "npm-integrity")
       IN  IF Ships(e) /\ ~Repeated(e)
           THEN /\ Take(e, {Component("npm", NpmName(e), e.version, content, reading)})
                /\ seen' = seen \cup {Entry(e)}
           ELSE Take(e, {}) /\ UNCHANGED seen

NextSource ==
    \/ /\ at = "golang" /\ (reading # NoFile \/ FindShallowest("go.mod") = {})
       /\ rest = {} /\ GoOn("cargo")
    \/ /\ at = "cargo" /\ (reading # NoFile \/ FindShallowest("Cargo.lock") = {})
       /\ rest = {} /\ GoOn("npm")
    \/ /\ at = "npm" /\ (reading # NoFile \/ NpmLock = {})
       /\ rest = {} /\ GoOn("finalize")

-----------------------------------------------------------------------------
(* EnumerateInstalled.  A dist-info directory goes by its METADATA, whose  *)
(* line is [name, version]; a line of a jar is what one pom.properties of  *)
(* it says, [group, artifact, version].  A dist-info directory is not      *)
(* listed, only met: it is passed over if it is a link.                    *)

Units(names) == {p \in Visited : Base(p) \in names}

FinalizeSource ==
    /\ at = "finalize"
    /\ source' \in Finalize(found)
    /\ at' = "pypi" /\ rest' = Units({"METADATA"})
    /\ UNCHANGED <<treeVars, reading, seen, missed, found, installed, failures, closure>>

\* A unit is looked at: its components, or that it has none.
TakeUnit(p, named, comps) ==
    /\ rest' = rest \ {p}
    /\ installed' = installed \cup comps
    /\ missed' = IF named = {} THEN missed \cup {p} ELSE missed
    /\ UNCHANGED <<treeVars, at, reading, seen, found, source, failures, closure>>

\* The coordinates that METADATA states, if it states both of them.
DistMetadata(p) ==
    IF Readable(p) THEN {d \in tree[p] : d.name # NoText /\ d.version # NoText} ELSE {}

IsOwnDistribution(name) == Own # NoText /\ Normalized[name] = Normalized[Own]

TakeDist(p) ==
    /\ at = "pypi" /\ p \in rest
    /\ LET content == WithContentDigest(NoText, NoText)
           shipped == {d \in DistMetadata(p) : ~IsOwnDistribution(d.name)}
       IN  TakeUnit(p, DistMetadata(p),
                    {Component("pypi", d.name, d.version, content, p) : d \in shipped})

\* A jar whose reading fails half-way has no coordinates at all; a shaded one
\* has those of all that it folds in.
Coordinates(p) == {c \in tree[p] : c.group # NoText /\ c.artifact # NoText /\ c.version # NoText}
JarCoordinates(p) == IF Readable(p) THEN Coordinates(p) ELSE {}

TakeJar(p) ==
    /\ at = "maven" /\ p \in rest
    /\ LET content == WithContentDigest(NoText, NoText)
       IN  TakeUnit(p, JarCoordinates(p),
                    {Component("maven", c.group \o ":" \o c.artifact, c.version, content, p) :
                        c \in JarCoordinates(p)})

\* An enumerator with units it could not name has a Failure.
FailMissed(ecosystem) ==
    IF missed # {} THEN Fail(ecosystem) ELSE UNCHANGED failures

LeavePython ==
    /\ at = "pypi" /\ rest = {}
    /\ FailMissed("pypi")
    /\ at' = "maven" /\ rest' = Units(JarNames) /\ missed' = {}
    /\ UNCHANGED <<treeVars, reading, seen, found, source, installed, closure>>

\* Both halves are finalized, and their union again.
Union ==
    /\ at = "maven" /\ rest = {}
    /\ FailMissed("maven")
    /\ \E half \in Finalize(installed) : closure' \in Finalize(source \cup half)
    /\ at' = "done"
    /\ UNCHANGED <<treeVars, reading, rest, seen, missed, found, source, installed>>

Next ==
    \/ EnumerateGo \/ EnumerateCargo \/ EnumerateNpm
    \/ \E line \in rest : \/ \E mod \in FindShallowest("go.mod") : TakeModule(mod, line)
                          \/ TakeCrate(line) \/ TakePackage(line)
                          \/ TakeDist(line) \/ TakeJar(line)
    \/ NextSource /\ UNCHANGED failures
    \/ FinalizeSource \/ LeavePython \/ Union

Spec == Init /\ [][Next]_vars

-----------------------------------------------------------------------------
(* What the tree says, against which the closure is judged.                *)

Delivered == at = "done"
Identities(comps) == {Identity(c) : c \in comps}

\* The identities of an ecosystem that a closure has.
Named(ecosystem) == {Identity(c) : c \in {d \in closure : d.ecosystem = ecosystem}}
Is(ecosystem, name, version, digest) ==
    [purl |-> [ecosystem |-> ecosystem, name |-> name, version |-> version], digest |-> digest]
Usable(identity) == {identity.purl.name, identity.purl.version} \cap Unusable = {}

\* The checksums that a lockfile has for exactly this package.
ChecksumsOf(lock, p) ==
    ({p.checksum} \cup {m.checksum : m \in {l \in tree[lock] :
        l.kind = "metadata" /\ <<l.name, l.version, l.source>> = <<p.name, p.version, p.source>>}})
    \ {NoText}

-----------------------------------------------------------------------------
(* Properties.                                                             *)

TypeOK ==
    /\ at \in {"golang", "cargo", "npm", "finalize", "pypi", "maven", "done"}
    /\ reading \in Present \cup {NoFile} \cup {GoSum(mod) : mod \in FindShallowest("go.mod")}
    /\ missed \subseteq Present
    /\ failures \subseteq {"golang", "cargo", "npm", "pypi", "maven"}
    /\ \A c \in found \cup source \cup installed \cup closure :
          /\ c.ecosystem \in {"golang", "cargo", "npm", "pypi", "maven"}
          /\ c.from \in Present
          /\ c.digest = NoText <=> c.algo = NoText

\* A digest is the content of the crate it is recorded with: a crate from git
\* never has the checksum of the registry's crate of its name and version, nor
\* goes missing behind it (metadataChecksums, dedupe).
NoBorrowedDigest ==
    Delivered => \A lock \in FindShallowest("Cargo.lock") \ unreadable :
        LET crates == {p \in tree[lock] : p.kind = "package" /\ p.source # NoText}
            named(p) == {d \in {NoText} \cup ChecksumsOf(lock, p) :
                            Is("cargo", p.name, p.version, d) \in Named("cargo")}
        IN  /\ \A p \in crates : {p.name, p.version} \cap Unusable = {} =>
                  IF ChecksumsOf(lock, p) = {} THEN NoText \in named(p) ELSE named(p) \ {NoText} # {}
            /\ \A c \in closure : c.ecosystem = "cargo" =>
                  \E p \in crates : <<p.name, p.version>> = <<c.name, c.version>>
                                    /\ c.digest \in {NoText} \cup ChecksumsOf(lock, p)

\* Whatever order the entries come out of the map in, the npm packages of a
\* closure are those that some entry of the lockfile ships: development
\* dependencies elsewhere in it, links and repetitions change nothing.
ShippedAnywhere ==
    Delivered => \A lock \in NpmLock \ unreadable :
        Named("npm") = {i \in {Is("npm", NpmName(e), e.version, e.integrity) :
                                  e \in {x \in NpmEntries(lock) : Ships(x)}} : Usable(i)}

\* What ships in a build's trees and can be named is in the closure, is the
\* package's own project, or is missed with a Failure; missed without one is only
\* what lies below a directory that a walk passes over (enumeratePython,
\* enumerateJava, distInfoDirs, jarPaths).
InstalledOrFailure ==
    LET named(identity) == Usable(identity) => identity \in Named(identity.purl.ecosystem)
        passedOver(p) == Above(p) \cap skipped # {}
    IN  Delivered =>
        /\ \A p \in Present : Base(p) = "METADATA" /\ ~passedOver(p) =>
              LET stated == IF p \in unreadable THEN {}
                            ELSE {d \in tree[p] : d.name # NoText /\ d.version # NoText}
              IN  IF stated = {} THEN "pypi" \in failures
                  ELSE \A d \in stated :
                          \/ Own # NoText /\ Normalized[d.name] = Normalized[Own]
                          \/ named(Is("pypi", Normalized[d.name], d.version, NoText))
        /\ \A p \in Present : Base(p) \in JarNames /\ ~passedOver(p) =>
              LET stated == IF p \in unreadable THEN {}
                            ELSE {c \in tree[p] : NoText \notin {c.group, c.artifact, c.version}}
              IN  IF stated = {} THEN "maven" \in failures
                  ELSE \A c \in stated :
                          named(Is("maven", c.group \o ":" \o c.artifact, c.version, NoText))

\* What a closure names is what was found, each identity once: finalizing the
\* halves and then their union drops only what no purl can be made of
\* (Finalize, Merge).
OncePerIdentity ==
    Delivered =>
        /\ Identities(closure) = Identities({c \in found \cup installed : UsableIdentifier(c)})
        /\ \A c, d \in closure : Identity(c) = Identity(d) => c = d

\* Nothing is named by a lockfile in a tree of others, and the modules of a
\* closure come from where its vendored copies are looked for (findShallowest,
\* VendorRoot).
AnchoredInOwnTree ==
    Delivered =>
        /\ \A c \in closure : c.ecosystem \in {"cargo", "npm"} =>
              Detect!ClassifyDirExclusion(Dir(c.from)) = "none"
        /\ \A c \in closure : c.ecosystem = "golang" =>
              \E root \in VendorRoot :
                  /\ c.from \in {root \o <<"modules.txt">>, Dir(root) \o <<"go.sum">>}
                  /\ Detect!ClassifyDirExclusion(Dir(root)) = "none"

\* What a walk comes to is named if it ships, wherever and however often it is
\* listed, or there is a Failure (npmLock.entries, enumeratePython, enumerateJava).
NothingMissed == ShippedAnywhere /\ InstalledOrFailure
=============================================================================
