---------------------------- MODULE MCEnumerate -----------------------------
(***************************************************************************)
(* The instance of Enumerate.tla for TLC: every choice of a few lines for  *)
(* each ecosystem, and trees that have something of them all.              *)
(***************************************************************************)
EXTENDS Enumerate, TLC

On(path, line) == [path |-> path, line |-> line]
TreeOf(facts) ==
    [p \in {f.path : f \in facts} |-> {f.line : f \in {g \in facts : g.path = p}}]

GoMod == <<"go.mod">>
GoSumFile == <<"go.sum">>
ModulesFile == <<"vendor", "modules.txt">>
FixtureMod == <<"testdata", "go.mod">>
LowerMod == <<"sub", "go.mod">>
LowerSum == <<"sub", "go.sum">>
Zip(name, version, hash) ==
    [kind |-> "zip", name |-> name, version |-> version, hash |-> hash, right |-> <<>>]
Module(name, version, right) == [kind |-> "module", name |-> name, version |-> version, right |-> right]
GoFacts == {
    On(GoMod, ""), On(LowerMod, ""), On(FixtureMod, ""),
    On(GoSumFile, Zip("a", "v1", "h1:a1")), On(GoSumFile, Zip("a", "v2", "h1:a2")),
    On(GoSumFile, [Zip("b", "v1", "h1:mod") EXCEPT !.kind = "go.mod"]),
    On(LowerSum, Zip("c", "v1", "h1:c1")),
    On(ModulesFile, Module("a", "v1", <<"b", "v2">>)), On(ModulesFile, Module("b", "v1", <<>>))}

CargoFile == <<"crates", "Cargo.lock">>
FixtureCargo == <<"testdata", "Cargo.lock">>
Crate(kind, origin, checksum) ==
    [kind |-> kind, name |-> "x", version |-> "1", source |-> origin, checksum |-> checksum]
CargoFacts == {
    On(CargoFile, Crate("package", "registry", "")),
    On(CargoFile, Crate("package", "git", "")),
    On(CargoFile, Crate("package", "", "")),
    On(CargoFile, [Crate("package", "registry", "sha-y") EXCEPT !.name = "y"]),
    On(CargoFile, [Crate("package", "git", "") EXCEPT !.name = "y"]),
    On(CargoFile, [Crate("package", "registry", "") EXCEPT !.name = "bad name"]),
    On(CargoFile, Crate("metadata", "registry", "sha-x")),
    On(FixtureCargo, Crate("package", "registry", "sha-z"))}

PackageLock == <<"package-lock.json">>
Shrinkwrap == <<"app", "npm-shrinkwrap.json">>
Flat(path, name, resolved, integrity, dev, link) ==
    [layout |-> "flat", path |-> path, name |-> name, version |-> "1",
     resolved |-> resolved, integrity |-> integrity, dev |-> dev, link |-> link]
Nested(name, integrity, dev) ==
    [Flat(name, "", "https", integrity, dev, FALSE) EXCEPT !.layout = "nested"]
NpmFacts == {
    On(PackageLock, Flat("p", "", "https", "sha512-p", TRUE, FALSE)),
    On(PackageLock, Flat("p", "", "https", "sha512-p", FALSE, FALSE)),
    On(PackageLock, Flat("p", "", "https", "sha1-p", FALSE, FALSE)),
    On(PackageLock, Flat("alias", "p", "https", "sha512-p", FALSE, FALSE)),
    On(PackageLock, Flat("w", "", "file", "", FALSE, TRUE)),
    On(PackageLock, Nested("q", "", FALSE)), On(PackageLock, Nested("q", "sha1-q", TRUE)),
    On(Shrinkwrap, Nested("r", "", FALSE))}

Dist(i) == <<"out", i \o ".dist-info", "METADATA">>
Jar == <<"out", "uber.jar">>
Jar2 == <<"out", "app.jar">>
InstalledFacts == {
    On(Dist("a"), [name |-> "zope.a", version |-> "1"]),
    On(Dist("b"), [name |-> "zope-a", version |-> "1"]),
    On(Dist("c"), [name |-> "medusa", version |-> "2"]),
    On(Dist("d"), [name |-> "medusa-x", version |-> ""]),
    On(Jar, [group |-> "g", artifact |-> "a", version |-> "1"]),
    On(Jar, [group |-> "g", artifact |-> "b", version |-> "1"]),
    On(Jar, [group |-> "g", artifact |-> "c", version |-> ""]),
    On(Jar2, [group |-> "g", artifact |-> "a", version |-> "1"]),
    On(Jar2, [group |-> "", artifact |-> "a", version |-> "1"])}

Mixed == {
    On(GoMod, ""), On(GoSumFile, Zip("a", "v1", "h1:a1")),
    On(CargoFile, Crate("package", "registry", "")),
    On(PackageLock, Flat("p", "", "https", "sha512-p", FALSE, FALSE)),
    On(Dist("a"), [name |-> "zope.a", version |-> "1"]),
    On(Jar, [group |-> "g", artifact |-> "a", version |-> "1"])}

SomeTrees == {TreeOf(facts) : facts \in
    SUBSET GoFacts \cup SUBSET CargoFacts \cup SUBSET NpmFacts \cup SUBSET InstalledFacts
    \cup SUBSET Mixed}

\* Nothing is passed over, the whole output, one distribution that is a link, or
\* the directory of a lockfile.
SomeSkippable == {{}, {<<"out">>}, {<<"out", "a.dist-info">>}, {<<"crates">>}, {<<"app">>}, {<<"sub">>}}

\* The order of a walk; only files of one depth are compared by it.
SomeRanks ==
    GoMod :> 1 @@ GoSumFile :> 1 @@ ModulesFile :> 1 @@ LowerMod :> 1 @@ LowerSum :> 1
    @@ FixtureMod :> 2 @@ CargoFile :> 1 @@ FixtureCargo :> 2 @@ PackageLock :> 1
    @@ Shrinkwrap :> 1
SomeNames == "zope.a" :> "zope-a" @@ "zope-a" :> "zope-a" @@ "medusa" :> "medusa"
    @@ "medusa-x" :> "medusa-x"
SpacedNames == {"bad name"}
=============================================================================
