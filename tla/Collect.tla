------------------------------ MODULE Collect ------------------------------
(***************************************************************************)
(* evidence/collect.go: one collection of a subject's evidence bundle.     *)
(*                                                                         *)
(* Anything in the tree may be unreadable and the caller may cancel at any *)
(* step.  What could not be read is to end up as a gap of the bundle, save *)
(* for what discovery and the enumerators pass over without a word; what   *)
(* was read decides the keys, the conclusion and whether the assessment is *)
(* "unknown".                                                              *)
(***************************************************************************)
EXTENDS ContentHash

CONSTANTS
    Files,          \* paths of the source tree's files
    Links,          \* license files that are symbolic links
    Text,           \* Text[p]: the text file p holds
    Declared,       \* paths the build configuration declares a license for
    Heads,          \* source files a notice may head, at most MaxNoticeFiles
    Grant,          \* Grant[h]: the grant that head h states, or None
    Statements,     \* root manifests and prose files that mention a license
    ModDir,         \* directory of the shallowest go.mod, where there is one
    Lock,           \* Lock[e]: path of ecosystem e's lockfile, where it has one
    Names,          \* Names[f]: [name, version] pairs that lockfile f lists
    Installed,      \* Installed[e]: installed units, as paths that begin with
                    \* the name of their tree
    Malformed,      \* names that no usable purl can be made of
    Breakable       \* what may be unreadable: files, directories, units

\* The files of the module that the walk found in ModDir.
GoModPath == ModDir \o <<"go.mod">>
GoSumPath == ModDir \o <<"go.sum">>
ModulesTxtPath == ModDir \o <<"vendor", "modules.txt">>

ASSUME CollectAssumption ==
    /\ Files \cup Declared \cup Heads \subseteq Seq(Segments) \ {<<>>}
    /\ Statements \subseteq Files
    /\ Links \subseteq {p \in Files : IsLicenseFile(p)}
    /\ \A p \in Files : IsLicenseFile(p) \/ p \in Declared => p \in DOMAIN Text
    /\ {GoSumPath, ModulesTxtPath, Lock["cargo"], Lock["npm"]} \cap Files
           \subseteq DOMAIN Names
    /\ \A f \in DOMAIN Names : \A n \in Names[f] : n.name \in Seq(Segments)
    /\ \A e \in {"pypi", "maven"} : Installed[e] \subseteq Seq(Segments) \ {<<>>}
    /\ ModDir \in Seq(Segments)
    /\ "vendor" \in VendorSegments /\ VendorSegments \subseteq Segments
    /\ \A p \in DOMAIN Text : Text[p] # None
    /\ None \notin Seq(Segments)
    /\ IsFiniteSet(Files \cup Declared)
    /\ \A p \in DOMAIN Text : IsFiniteSet(Named[Text[p]])

VARIABLES
    pc,             \* the next step of Collect, or how it ended
    cancelled,      \* the context is cancelled
    fault,          \* fault[x]: what is wrong with x in this collection
    source,         \* what subject.Source answered: "", "ok", "lost"
    installed,      \* what subject.Installed answered: "", "ok", "none", "lost"
    files,          \* b.Files
    stated,         \* b.Manifests and b.Prose, by the files they come from
    heads,          \* b.Notices
    vendorRoot,     \* b.VendorRoot, or None
    todo,           \* the ecosystems EnumerateSource or -Installed has left
    components,     \* the union of the enumerations
    failures,       \* their Failures, by ecosystem
    gaps,           \* b.Gaps: [kind, detail]
    bundle          \* what the last step derives from all of this, or None

treeVars == <<files, stated, heads, vendorRoot>>
vars == <<pc, cancelled, fault, source, installed, treeVars, todo,
          components, failures, gaps, bundle>>

SourceEcosystems == <<"golang", "cargo", "npm">>
InstalledEcosystems == <<"pypi", "maven">>
Ecosystems == {"golang", "cargo", "npm", "pypi", "maven"}

GapKinds == {"source", "installed", "no-installed-trees", "license-file",
             "unreadable-tree", "dependencies"}

Gap(kind, detail) == [kind |-> kind, detail |-> detail]
HasGap(kind) == \E g \in gaps : g.kind = kind

\* An installed unit is named by what it is, not by a lockfile.
Unit(u) == [name |-> <<Base(u)>>, version |-> ""]

PURL(e, n) == [ecosystem |-> e, name |-> n.name, version |-> n.version]

\* What is left of a list of ecosystems that is worked through in order.
Remaining ==
    {SourceEcosystems, <<"cargo", "npm">>, <<"npm">>,
     InstalledEcosystems, <<"maven">>, <<>>}

\* A link is astray when what it names is outside the tree, not there, or no
\* regular file.
Faults == {"", "unreadable", "unclassified", "astray"}

TypeOK ==
    /\ pc \in {"start", "source", "detect", "licensing", "enumerateSource",
               "installed", "enumerateInstalled", "assemble", "done", "error"}
    /\ cancelled \in BOOLEAN
    /\ fault \in [Breakable -> Faults]
    /\ source \in {"", "ok", "lost"}
    /\ installed \in {"", "ok", "none", "lost"}
    /\ \A f \in files :
           /\ f.path \in Files \cup Declared
           /\ f.digest \in {None} \cup {Text[p] : p \in DOMAIN Text}
           /\ f.err \in BOOLEAN
    /\ stated \subseteq Statements
    /\ heads \subseteq Heads
    /\ vendorRoot \in {None, ModDir \o <<"vendor">>}
    /\ todo \in Remaining
    /\ \A c \in components : c.ecosystem \in Ecosystems /\ c.name \in Seq(Segments)
    /\ failures \subseteq Ecosystems
    /\ \A g \in gaps : g.kind \in GapKinds
    /\ pc # "done" => bundle = None

Init ==
    /\ pc = "start"
    /\ cancelled \in BOOLEAN
    /\ fault \in [Breakable -> Faults]
    /\ \A x \in Breakable :
           /\ fault[x] = "unclassified" => x \in Files /\ (IsLicenseFile(x) \/ x \in Declared)
           /\ fault[x] = "astray" => x \in Links
    /\ source = "" /\ installed = ""
    /\ files = {} /\ stated = {} /\ heads = {}
    /\ vendorRoot = None
    /\ todo = <<>>
    /\ components = {} /\ failures = {} /\ gaps = {}
    /\ bundle = None

-----------------------------------------------------------------------------
(* What of the tree a walk or an open gets to see                          *)

Fault(x) == IF x \in Breakable THEN fault[x] ELSE ""
Astray(p) == Fault(p) = "astray"
Opens(p) == Fault(p) # "unreadable" /\ ~Astray(p)

\* The directories a walk has to list before it meets p, the root included.
Above(p) == {SubSeq(p, 1, i) : i \in 0..Len(p) - 1}
Reachable(p) == \A d \in Above(p) : Opens(d)

Directories == UNION {Above(p) : p \in Files}

\* Find: the directories the walk could not list, and what it did find.  A link
\* that is astray is neither.
Unreadable == {d \in Directories : ~Opens(d) /\ Reachable(d)}
Candidates == {p \in Files : IsLicenseFile(p) /\ Reachable(p) /\ ~Astray(p)}

\* A file declared by path is opened whether or not discovery selected it.
Selected == Candidates \cup Declared

\* Without a digest when it could not be opened; with one and an error when its
\* text could not be read a second time or not be classified.
ReadFile(p) ==
    [path |-> p,
     digest |-> IF p \in Files /\ Opens(p) THEN Text[p] ELSE None,
     err |-> p \notin Files \/ Fault(p) # ""]

-----------------------------------------------------------------------------
(* Collect, in the order of the code                                       *)

Goto(step) == pc' = step

Cancel ==
    /\ ~cancelled
    /\ pc \notin {"done", "error"}
    /\ cancelled' = TRUE
    /\ UNCHANGED <<pc, fault, source, installed, treeVars, todo, components,
                   failures, gaps, bundle>>

Start ==
    /\ pc = "start"
    /\ Goto(IF cancelled THEN "error" ELSE "source")
    /\ UNCHANGED <<cancelled, fault, source, installed, treeVars, todo,
                   components, failures, gaps, bundle>>

\* subject.Source; whether it looks at the context is the subject's affair.
Source ==
    /\ pc = "source"
    /\ \/ source' = "ok" /\ Goto("detect") /\ UNCHANGED gaps
       \/ /\ source' = "lost"
          /\ gaps' = gaps \cup {Gap("source", <<>>)}
          /\ Goto("installed")
    /\ UNCHANGED <<cancelled, fault, installed, treeVars, todo, components,
                   failures, bundle>>

\* detect.Detect looks at the context before every file, so a cancellation
\* during its loop is one before it: no bundle at all, as when the classifier
\* cannot be loaded.
Detection ==
    /\ pc = "detect"
    /\ \/ Goto("error") /\ UNCHANGED <<files, gaps>>
       \/ /\ ~cancelled
          /\ files' = {ReadFile(p) : p \in Selected}
          /\ gaps' = gaps \cup {Gap("unreadable-tree", d) : d \in Unreadable}
          /\ Goto("licensing")
    /\ UNCHANGED <<cancelled, fault, source, installed, stated, heads,
                   vendorRoot, todo, components, failures, bundle>>

\* Manifests and Prose: the root files that state something about the license.
Stated == {s \in Statements : Reachable(s) /\ Opens(s)}

\* Notices passes over whole directories of others, and files it cannot open.
Notices == {h \in Heads : /\ ClassifyDirExclusion(Dir(h)) = "none"
                          /\ Reachable(h)
                          /\ Opens(h)}

VendorRoot ==
    IF GoModPath \in Files /\ Reachable(GoModPath) THEN ModDir \o <<"vendor">> ELSE None

\* None of the three says what it could not read.
Licensing ==
    /\ pc = "licensing"
    /\ stated' = Stated
    /\ heads' = Notices
    /\ vendorRoot' = VendorRoot
    /\ todo' = SourceEcosystems
    /\ Goto("enumerateSource")
    /\ UNCHANGED <<cancelled, fault, source, installed, files, components,
                   failures, gaps, bundle>>

Enumeration(comps, failed) == [components |-> comps, failures |-> failed]

\* enumerateGo: the vendored list when it can be read, go.sum otherwise; only
\* go.sum is missed.
EnumerateGo ==
    LET opens(f) == f \in Files /\ Opens(f)
        from == IF opens(ModulesTxtPath) THEN ModulesTxtPath ELSE GoSumPath IN
    IF vendorRoot = None THEN Enumeration({}, {})
    ELSE Enumeration(
            IF opens(from) THEN {PURL("golang", n) : n \in Names[from]} ELSE {},
            IF GoSumPath \in Files /\ ~Opens(GoSumPath) THEN {"golang"} ELSE {})

EnumerateLockQuietly(e) ==
    Enumeration(IF Lock[e] \notin Files \/ ~Reachable(Lock[e]) \/ ~Opens(Lock[e]) THEN {}
                ELSE {PURL(e, n) : n \in Names[Lock[e]]}, {})

\* enumerateCargo, enumerateNpm: one lockfile, the shallowest the walk meets.
EnumerateLock(e) ==
    IF Lock[e] \notin Files \/ ~Reachable(Lock[e]) THEN Enumeration({}, {})
    ELSE IF Opens(Lock[e])
    THEN Enumeration({PURL(e, n) : n \in Names[Lock[e]]}, {})
    ELSE Enumeration({}, {e})

\* enumeratePython, enumerateJava: every unit that can be read, and one failure
\* for those that cannot.  A directory that cannot be listed is passed over.
Met(u) == \A i \in 1..Len(u) - 1 : Opens(SubSeq(u, 1, i))

EnumerateInstalled(e) ==
    LET met == {u \in Installed[e] : Met(u)} IN
    Enumeration({PURL(e, Unit(u)) : u \in {v \in met : Opens(v)}},
                IF \E u \in met : ~Opens(u) THEN {e} ELSE {})

Enumerate(e) ==
    CASE e = "golang" -> EnumerateGo
      [] e \in {"cargo", "npm"} -> EnumerateLock(e)
      [] OTHER -> EnumerateInstalled(e)

\* The loop of EnumerateSource and of EnumerateInstalled: the enumerator that
\* finds the context cancelled is the last, and the only one of those left out
\* that is recorded.
EnumerateNext(step, next) ==
    /\ pc = step
    /\ IF todo = <<>>
       THEN Goto(next) /\ UNCHANGED <<todo, components, failures>>
       ELSE IF cancelled
       THEN /\ failures' = failures \cup {Head(todo)}
            /\ todo' = <<>>
            /\ UNCHANGED <<pc, components>>
       ELSE LET e == Enumerate(Head(todo)) IN
            /\ components' = components \cup e.components
            /\ failures' = failures \cup e.failures
            /\ todo' = Tail(todo)
            /\ UNCHANGED pc
    /\ UNCHANGED <<cancelled, fault, source, installed, treeVars, gaps, bundle>>

EnumerateSourceNext == EnumerateNext("enumerateSource", "installed")
EnumerateInstalledNext == EnumerateNext("enumerateInstalled", "assemble")

\* subject.Installed.
OpenInstalled ==
    /\ pc = "installed"
    /\ \/ /\ installed' = "ok"
          /\ todo' = InstalledEcosystems
          /\ Goto("enumerateInstalled")
          /\ UNCHANGED gaps
       \/ /\ \/ /\ installed' = "lost"
                /\ gaps' = gaps \cup {Gap("installed", <<>>)}
             \/ /\ installed' = "none"
                /\ gaps' = gaps \cup {Gap("no-installed-trees", <<>>)}
          /\ Goto("assemble")
          /\ UNCHANGED todo
    /\ UNCHANGED <<cancelled, fault, source, treeVars, components, failures,
                   bundle>>

-----------------------------------------------------------------------------
(* Assembly: what the last part of Collect derives from what was read      *)

UsableIdentifier(purl) == purl.name \notin Malformed

\* Finalize: no malformed purl, no repetition.  EnumerateSource and -Installed
\* apply it to their halves, Collect to the union.
Finalize(comps) == {c \in comps : UsableIdentifier(c)}

\* A component has a copy in the tree when there is a license file under the
\* directory it would be vendored into.
VendoredRoots(comps) ==
    IF vendorRoot = None THEN {}
    ELSE {[purl |-> c, root |-> vendorRoot \o c.name] :
            c \in {d \in comps : \E f \in files :
                        Covers(f.path) /\ Inside(f.path, vendorRoot \o d.name)}}

Roots(copies) == {v.root : v \in copies}

HashVendoredFlat(copies) ==
    [purl \in {v.purl : v \in copies} |->
        Compute(Relative(From(files),
                         (CHOOSE v \in copies : v.purl = purl).root, {}))]

\* What a copy's hash is computed from.
HashVendored(copies) ==
    [purl \in {v.purl : v \in copies} |->
        LET root == (CHOOSE v \in copies : v.purl = purl).root IN
        Compute(Relative(From(files), root, NestedRoots(root, Roots(copies))))]

BelongsToAnotherByRoot(p) == FALSE

BelongsToAnother(p) ==
    ClassifyExclusion(p) \in {"vendored", "build-output", "test-fixture"}

\* The records the subject's own key is computed from.
OwnFiles(copies) ==
    {r \in From(files) : /\ ~BelongsToAnother(r.path)
                         /\ ~OwnedByNested(r.path, Roots(copies))}

\* What the notices that were read grant.
Grants == {Grant[h] : h \in heads} \ {None}

\* A tree that was never opened concludes nothing, for no reason of its own.
Conclusion ==
    IF source = "ok"
    THEN Conclude(files, Grants, Cardinality(heads))
    ELSE Undecided("no-license-text", {}, "")

\* gapDetails: reaching no installed tree is not a failure to read one.  Slip:
\* only a file is.
UnreadFiles(all) == {g \in all : g.kind = "license-file"}
GapDetails(all) == {g \in all : g.kind # "no-installed-trees"}

\* assess.isUnknown: nothing was read, and something stopped it.
IsUnknown(all) ==
    LET own == {f \in files : InScope(f.path)} IN
    /\ \A f \in own : f.err
    /\ stated = {}
    /\ GapDetails(all) # {} \/ own # {}

AllButLicenseFiles == gaps \cup {Gap("dependencies", e) : e \in failures}

\* The gaps of the bundle: those met on the way, one per failed enumeration and
\* one per license file that carries an error.
AllGaps ==
    gaps \cup {Gap("dependencies", e) : e \in failures}
         \cup {Gap("license-file", f.path) : f \in {g \in files : g.err}}

Assemble ==
    LET comps == Finalize(components)
        copies == VendoredRoots(comps) IN
    /\ pc = "assemble"
    /\ gaps' = AllGaps
    /\ bundle' = [components |-> comps,
                  copies |-> copies,
                  hashes |-> HashVendored(copies),
                  key |-> Compute(OwnFiles(copies)),
                  conclusion |-> Conclusion,
                  unknown |-> IsUnknown(AllGaps)]
    /\ Goto("done")
    /\ UNCHANGED <<cancelled, fault, source, installed, treeVars, todo,
                   components, failures>>

Next ==
    \/ Cancel \/ Start \/ Source \/ Detection \/ Licensing
    \/ EnumerateSourceNext \/ OpenInstalled \/ EnumerateInstalledNext
    \/ Assemble

Spec == Init /\ [][Next]_vars

-----------------------------------------------------------------------------
(* What a consumer of the bundle does                                      *)

\* Bundle.LocalLicenseFiles, computed from the bundle alone.
LocalLicenseFiles(purl) ==
    LET own == {v \in bundle.copies : v.purl = purl}
        root == (CHOOSE v \in own : TRUE).root IN
    IF own = {} THEN {}
    ELSE Relative(From(files), root, NestedRoots(root, Roots(bundle.copies)))

\* Bundle.Complete.
Complete == gaps = {}

Delivered == pc = "done"

-----------------------------------------------------------------------------
(* The tree as it is, against which the bundle is judged                   *)

OutsideForeignTrees(p) ==
    \A i \in DOMAIN p : p[i] \notin VendorSegments \cup BuildSegments \cup TestSegments

\* The component a file belongs to is the deepest of these roots that holds it.
LongestRoot(p, roots) ==
    {r \in roots : Inside(p, r) /\ \A s \in roots : Inside(p, s) => Len(s) <= Len(r)}

\* The license files of the tree that discovery passes over: a link that leads
\* nowhere counts as not there.
PassedOver == {p \in Links : Astray(p)}
LicenseFiles == {p \in Files : IsLicenseFile(p)} \ PassedOver

\* The license texts of the component itself, discovered by name or declared.
OwnTexts == {p \in LicenseFiles \cup (Declared \cap Files) :
                OutsideForeignTrees(p) /\ Base(p) \notin SupplementaryNames}

RootTexts == {p \in OwnTexts : AtRoot(p)}
SpeakingTexts == IF RootTexts # {} THEN RootTexts ELSE OwnTexts
TrueIdentifiers == UNION {Named[Text[p]] : p \in SpeakingTexts}

\* The license files of no other component.  What only lies beside a license is no
\* fixture, wherever it is.
OwnCovered == {p \in LicenseFiles :
    /\ \A i \in DOMAIN p : p[i] \notin VendorSegments \cup BuildSegments
    /\ Base(p) \in SupplementaryNames \/ OutsideForeignTrees(p)}
TrueKey == {Record(p, Text[p]) : p \in OwnCovered}

OwnEvidenceLost ==
    \/ source = "lost"
    \/ HasGap("unreadable-tree")
    \/ HasGap("license-file")

\* The list of Go modules that are linked in: go.sum also lists those that were
\* pruned, and is the list only of a tree that vendors nothing.
GoList == IF ModulesTxtPath \in Files THEN ModulesTxtPath ELSE GoSumPath

NamedBySource ==
    (IF GoModPath \in Files /\ GoList \in Files
     THEN {PURL("golang", n) : n \in Names[GoList]} ELSE {})
    \cup UNION {{PURL(e, n) : n \in Names[Lock[e]]} :
                  e \in {x \in {"cargo", "npm"} : Lock[x] \in Files}}

NamedByInstalled ==
    UNION {{PURL(e, Unit(u)) : u \in Installed[e]} : e \in {"pypi", "maven"}}

\* What is left out without a gap: a module that go.sum does not list when it
\* stands in for a modules.txt that could not be read (a replaced one, or any
\* without a go.sum), and the units below a directory that could not be listed.
StandsIn == ModulesTxtPath \in Files /\ ~Opens(ModulesTxtPath)
Unlisted ==
    IF StandsIn
    THEN Names[ModulesTxtPath] \ (IF GoSumPath \in Files THEN Names[GoSumPath] ELSE {})
    ELSE {}
LeftOut ==
    {PURL("golang", n) : n \in Unlisted}
    \cup UNION {{PURL(e, Unit(u)) : u \in {v \in Installed[e] : ~Met(v)}} :
                  e \in {"pypi", "maven"}}

TrueGrants == {Grant[h] : h \in {g \in Heads : OutsideForeignTrees(Dir(g))}} \ {None}

-----------------------------------------------------------------------------
(* Properties                                                              *)

\* What could not be read is not taken for what is not there: a lost source,
\* installed tree, license file or directory leaves a gap, the gap of a directory
\* also speaking for what is below it.  The one exception is a license link that
\* leads nowhere, unless it is declared (Bundle.Gaps, Find).
NothingLostSilently ==
    Delivered =>
    /\ source = "lost" => Gap("source", <<>>) \in gaps
    /\ installed = "lost" => Gap("installed", <<>>) \in gaps
    /\ source = "ok" =>
        \A p \in {q \in LicenseFiles \cup (Declared \cap Files) : Fault(q) # ""}
                 \cup {d \in Directories : ~Opens(d)} :
            \/ Gap("license-file", p) \in gaps
            \/ \E d \in Above(p) \cup {p} : Gap("unreadable-tree", d) \in gaps

\* Every component a lockfile or an installed unit names is in the bundle, or a
\* gap says that some are missing: also when a cancellation kept enumerators from
\* running.  Nothing is left out without a gap but the modules that go.sum does
\* not list when it stands in, and what lies below an installed directory that
\* cannot be listed (EnumerateSource, EnumerateInstalled, enumerateGo).
ClosureOrGap ==
    LET absent == Finalize(NamedBySource \cup NamedByInstalled)
                      \ (bundle.components \cup LeftOut) IN
    Delivered /\ absent # {} =>
        \/ HasGap("dependencies")
        \/ absent \cap NamedBySource # {}
               /\ (HasGap("source") \/ HasGap("unreadable-tree"))
        \/ absent \cap NamedByInstalled # {}
               /\ (HasGap("installed") \/ HasGap("no-installed-trees"))

\* A license file under nested vendored roots is hashed into the copy with the
\* longest of them and into no other, and never into the subject's own key
\* (Relative, NestedRoots, ownFiles).
OneOwnerPerFile ==
    Delivered =>
    LET roots == Roots(bundle.copies)
        owner(r) == LongestRoot(r.path, roots) IN
    \A r \in From(files) :
        /\ owner(r) # {} => r \notin bundle.key
        /\ \A v \in bundle.copies :
               Inside(r.path, v.root) =>
               (Record(SubSeq(r.path, Len(v.root) + 1, Len(r.path)), r.digest)
                    \in bundle.hashes[v.purl]
                <=> v.root \in owner(r))

\* The local files a consumer compares with a published artifact, a year later
\* and from the bundle alone, are those behind the component's recorded hash
\* (LocalLicenseFiles, hashVendored).
LocalCopyAgrees ==
    Delivered =>
    \A v \in bundle.copies :
        Compute(LocalLicenseFiles(v.purl)) = bundle.hashes[v.purl]

\* Who owns a vendored license file is answered once: collecting, keying and
\* comparing agree on it (Relative, ownFiles, LocalLicenseFiles).
OwnershipAgrees == OneOwnerPerFile /\ LocalCopyAgrees

\* The key is a fact about content: when no gap touches the tree and its license
\* files, it is that of those which are there (a link that leads nowhere is not),
\* whatever the enumerators missed, whichever lockfile named the components and
\* wherever a cancellation came (ownFiles).
KeyIsContent ==
    Delivered /\ ~OwnEvidenceLost => bundle.key = TrueKey

\* When no gap touches the component's own evidence, the identifiers are those
\* of its own texts, root before subdirectory, where a link that leads nowhere
\* is no text: it yields to what is deeper (Conclude, Find).
CompleteAnswerIsTrue ==
    Delivered /\ ~OwnEvidenceLost =>
        bundle.conclusion.identifiers = TrueIdentifiers

\* A root license that could not be read or classified is not replaced by one
\* deeper in the tree: losing it may cost the answer, never change it.  Only a
\* link that leads nowhere is none (preferRoot, Find).
RootLicenseSpeaks ==
    Delivered /\ source = "ok" /\ RootTexts # {} /\ Opens(<<>>) =>
        bundle.conclusion.identifiers \subseteq TrueIdentifiers

\* Every text the conclusion rests on is in the key the conclusion is stored
\* under, whatever was declared, vendored or lost; only a text declared under a
\* name that no license file has is not (ownFiles, From, LicenseContentHash).
ConclusionIsKeyed ==
    Delivered => \A f \in Concluding(files) :
        \/ Record(f.path, f.digest) \in bundle.key
        \/ f.path \in Declared /\ ~IsLicenseFile(f.path)

\* An -or-later suffix is only concluded when a notice states it for that very
\* license: a notice for another license of the tree does not (GrantFor).
LaterNeedsNotice ==
    Delivered /\ bundle.conclusion.expression # None =>
        LET e == bundle.conclusion.expression IN
        e.suffix = "or-later" => e \in TrueGrants /\ e.id \in TrueIdentifiers

\* A collection that read none of the component's own evidence because some of
\* it was lost is unknown, not a component without a license; one that lost
\* nothing at all is not (gapDetails, isUnknown, Complete).
UnreadIsUnknown ==
    Delivered =>
        /\ Complete => ~bundle.unknown
        /\ OwnEvidenceLost /\ stated = {} /\ (\A f \in files : InScope(f.path) => f.err) =>
               bundle.unknown /\ bundle.conclusion.expression = None
=============================================================================
