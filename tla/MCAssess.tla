------------------------------ MODULE MCAssess ------------------------------
(***************************************************************************)
(* The instance of Assess.tla for TLC: up to three pieces of evidence out  *)
(* of texts identified well, poorly, twice and not at all, manifests in    *)
(* every format, and mentions in prose.                                    *)
(***************************************************************************)
EXTENDS Assess, TLC

SomeShaped == {"EPL-2.0", "ASL-2.0", "Apache-2.0", "MIT", "LICENSE.txt"}
SomeListed == {"EPL-2.0", "Apache-2.0", "MIT"}
SomeNames == "EPL-2.0" :> "EPL-2.0" @@ "ASL-2.0" :> "Apache-2.0" @@ "Apache-2.0" :> "Apache-2.0"
    @@ "Apache_2.0" :> "Apache-2.0"
SomeSlashes == "EPL-2.0/ASL-2.0" :> <<"EPL-2.0", "/", "ASL-2.0">>

\* A classifier's "Public-Domain" names no identifier.
SomeResolutions == "MIT" :> <<"MIT">> @@ "EPL" :> <<"EPL-2.0">>
    @@ "Apache" :> <<"Apache-2.0">> @@ "Public-Domain" :> <<>>

Found(matches) == [excluded |-> FALSE, err |-> FALSE, matches |-> matches]
As(name, confidence) == [name |-> name, confidence |-> confidence]
FilesThere == {
    Found(<<As("EPL", 98)>>), Found(<<As("Apache", 91)>>),
    Found(<<As("EPL", 95), As("Apache", 92)>>),
    Found(<<As("Public-Domain", 99), As("Apache", 95)>>),
    Found(<<As("MIT", 60)>>), Found(<<>>),
    [excluded |-> TRUE, err |-> FALSE, matches |-> <<As("MIT", 100)>>],
    [excluded |-> FALSE, err |-> TRUE, matches |-> <<>>]}

Both == <<"EPL-2.0", "AND", "ASL-2.0">>
Entry(type, url) == [type |-> type, url |-> url]
Field(shape, entries) == [shape |-> shape, entries |-> entries]
Absent == Field("absent", <<>>)
Package(license, licenses) == [license |-> license, licenses |-> licenses]
Line(kind, key, value) == [kind |-> kind, key |-> key, value |-> value]
DocumentsThere == {
    <<"package.json", Package(Field("string", <<Entry(<<"EPL-2.0/ASL-2.0">>, <<>>)>>), Absent)>>,
    <<"package.json", Package(Field("strings", <<Entry(Both, <<>>), Entry(<<>>, <<>>),
                                                 Entry(<<"MIT">>, <<>>)>>), Absent)>>,
    <<"package.json", Package(Field("object", <<Entry(<<>>, <<"MIT">>)>>), Absent)>>,
    <<"package.json", Package(Field("objects", <<Entry(<<"EPL-2.0">>, <<>>),
                                                 Entry(<<>>, <<"ASL-2.0">>)>>),
                              Field("string", <<Entry(<<"MIT">>, <<>>)>>))>>,
    <<"Cargo.toml", [license |-> <<>>, file |-> <<"LICENSE.txt">>]>>,
    <<"Cargo.toml", [license |-> <<"MIT">>, file |-> <<"LICENSE.txt">>]>>,
    <<"Cargo.toml", Damaged>>,
    <<"pyproject.toml", [project |-> "table", license |-> <<>>, file |-> <<"LICENSE.txt">>,
                         poetry |-> <<"MIT">>]>>,
    <<"pyproject.toml", [project |-> "none", license |-> <<>>, file |-> <<>>, poetry |-> <<"MIT">>]>>,
    <<"setup.cfg", [isFile |-> FALSE, license |-> Both]>>,
    <<"setup.cfg", [isFile |-> TRUE, license |-> <<"LICENSE.txt">>]>>,
    <<"PKG-INFO", [lines |-> <<Line("header", "license", <<"EPL-2.0", "ASL-2.0">>),
                               Line("folded", "license-expression", <<"MIT">>),
                               Line("blank", "", <<>>),
                               Line("header", "license-expression", <<"MIT">>)>>]>>,
    <<DistInfo, [lines |-> <<Line("header", "license", <<"a", "pasted", "license", "text">>),
                             Line("header", "license-expression", Both)>>]>>,
    <<"pom.xml", [entries |-> <<>>]>>,
    <<"pom.xml", [entries |-> <<[name |-> <<"(", "EPL-2.0", "OR", "MIT", ")">>, url |-> <<>>],
                                [name |-> <<"ASL-2.0">>, url |-> <<>>]>>]>>,
    <<"pom.xml", [entries |-> <<[name |-> <<"EPL-2.0/ASL-2.0">>, url |-> <<>>],
                                [name |-> <<>>, url |-> <<"MIT">>]>>]>>,
    <<"pom-parent-1.xml", [entries |-> <<[name |-> Both, url |-> <<"MIT">>],
                                         [name |-> <<"Apache_2.0">>, url |-> <<>>]>>]>>}

Mentions == {[choice |-> TRUE], [choice |-> FALSE]}
Reasons == {"an artifact that would not download"}
Declarations == {<<"EPL-2.0/ASL-2.0">>, Both, <<"MIT">>}
=============================================================================
