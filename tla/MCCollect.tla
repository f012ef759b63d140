------------------------------ MODULE MCCollect ------------------------------
(***************************************************************************)
(* Instances of Collect.tla for TLC: small source trees, each with what a  *)
(* collection of it may find unreadable.                                   *)
(***************************************************************************)
EXTENDS Collect, TLC

License == <<"LICENSE">>
Copying == <<"docs", "COPYING">>
Fixture == <<"testdata", "LICENSE">>
Patents == <<"PATENTS">>
FixturePatents == <<"testdata", "PATENTS">>
GoMod == <<"go.mod">>
GoSum == <<"go.sum">>
ModulesTxt == <<"vendor", "modules.txt">>
CargoLock == <<"Cargo.lock">>
NpmLock == <<"package-lock.json">>
MainC == <<"main.c">>
UtilC == <<"lib", "util.c">>
Readme == <<"README">>
VendoredA == <<"vendor", "a", "LICENSE">>
VendoredAB == <<"vendor", "a", "b", "LICENSE">>
VendoredAR == <<"vendor", "a", "r", "LICENSE">>
Terms == <<"docs", "terms">>

Gpl == [id |-> "GPL-2.0", suffix |-> "or-later"]
Lgpl == [id |-> "LGPL-2.1", suffix |-> "or-later"]

TextIs ==
    License :> "mit" @@ Copying :> "gpl" @@ Fixture :> "exotic"
    @@ Patents :> "empty" @@ FixturePatents :> "mit" @@ VendoredA :> "mit"
    @@ VendoredAB :> "gpl" @@ VendoredAR :> "mit" @@ Terms :> "short"
NamedIs ==
    "mit" :> {"MIT"} @@ "gpl" :> {"GPL-2.0"} @@ "exotic" :> {"Zlib"}
    @@ "empty" :> {} @@ "short" :> {"GPL-2.0"}
GrantIs == MainC :> Gpl @@ UtilC :> Lgpl

V(name, version) == [name |-> name, version |-> version]
NamesAre ==
    ModulesTxt :> {V(<<"a">>, "1"), V(<<"a", "b">>, "1"), V(<<"a", "r">>, "fork"),
                   V(<<"bad name">>, "1")}
    @@ GoSum :> {V(<<"a">>, "1"), V(<<"a">>, "2"), V(<<"a", "b">>, "1"), V(<<"c">>, "1")}
    @@ CargoLock :> {V(<<"x">>, "1")}
    @@ NpmLock :> {V(<<"y">>, "1")}
LockIs == "cargo" :> CargoLock @@ "npm" :> NpmLock
Root == <<>>
AnySegment == STRING
MalformedNames == {<<"bad name">>}
SourceHeads == {MainC, UtilC}
Readmes == {Readme}

\* The configuration names a text by a path that discovery would not select.
DeclaredTexts == {Copying, Terms}

\* A Go tree that vendors a and its nested a/b and a/r, the last one replaced by a
\* fork that go.sum does not list, with a license of its own that is a link.
VendoredFiles ==
    {License, Copying, Fixture, GoMod, GoSum, ModulesTxt, CargoLock, NpmLock,
     VendoredA, VendoredAB, VendoredAR, FixturePatents}
VendoredLinks == {License, VendoredA}
VendoredInstalled ==
    "pypi" :> {<<"out", "p">>} @@ "maven" :> {<<"out", "lib", "g:j">>}
VendoredBreakable ==
    {License, VendoredA, <<"vendor", "a", "b">>, ModulesTxt, GoSum, CargoLock,
     <<"out", "lib">>, <<"out", "lib", "g:j">>}

\* A C tree whose texts are in docs/ and, by a link, in its root, its grants in the
\* heads of its sources.
ConcludeFiles == {License, Copying, Terms, Fixture, Patents, MainC, UtilC, Readme, CargoLock}
ConcludeLinks == {License}
ConcludeBreakable ==
    {Root, <<"docs">>, <<"lib">>, License, Copying, Patents, MainC, UtilC, Readme, CargoLock}
NothingInstalled == "pypi" :> {} @@ "maven" :> {}
=============================================================================
