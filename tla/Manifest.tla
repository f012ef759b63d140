------------------------------ MODULE Manifest ------------------------------
(***************************************************************************)
(* component/manifest.go and the metadata headers of component/python.go:  *)
(* the license a component declares in the manifests at its root.          *)
(*                                                                         *)
(* A value is the sequence of its tokens, <<>> when blank or absent.  A    *)
(* document is what the format's parser makes of the file, or Damaged when *)
(* it cannot be read, is too large or does not parse.                      *)
(***************************************************************************)
EXTENDS Naturals, SequencesExt

CONSTANTS
    MaxDeclared     \* maxDeclaredLicenseChars, in tokens

Damaged == [damaged |-> TRUE]

\* The manifests with a reader; of the POMs that a component inherits from, up
\* to MaxPOMAncestry, the first.
Readable == {"Cargo.toml", "METADATA", "PKG-INFO", "package.json",
             "pom-parent-1.xml", "pom.xml", "pyproject.toml", "setup.cfg"}

\* The core metadata of a wheel, below the root.
DistInfo == "x.dist-info/METADATA"

Declares(license, file) == [license |-> license, file |-> file]
Nothing == Declares(<<>>, <<>>)

\* cmp.Or
First(a, b) == IF a # <<>> THEN a ELSE b

\* Several alternatives as a choice, blanks dropped.  Slip: as a conjunction.
JoinTurn(op, value, left) ==
    IF value = <<>> THEN left ELSE IF left = <<>> THEN value ELSE left \o <<op>> \o value
JoinedBy(op, values) ==
    LET joined[i \in 0..Len(values)] ==
            IF i = 0 THEN <<>> ELSE JoinTurn(op, values[i], joined[i - 1])
    IN  joined[Len(values)]
JoinAll(values) == JoinedBy("AND", values)
JoinChoice(values) == JoinedBy("OR", values)

-----------------------------------------------------------------------------
(* package.json.  A field has a shape and entries [type, url]; those of    *)
(* strings have no url.                                                    *)

JsonLicenseField(field) ==
    CASE field.shape = "string" -> field.entries[1].type
      [] field.shape = "strings" -> JoinChoice([i \in DOMAIN field.entries |-> field.entries[i].type])
      [] field.shape = "object" -> First(field.entries[1].type, field.entries[1].url)
      [] field.shape = "objects" ->
            JoinChoice([i \in DOMAIN field.entries |->
                First(field.entries[i].type, field.entries[i].url)])
      [] OTHER -> <<>>

JsonManifestLicense(doc) ==
    Declares(First(JsonLicenseField(doc.license), JsonLicenseField(doc.licenses)), <<>>)

-----------------------------------------------------------------------------
(* The other formats.                                                      *)

\* A license, or a pointer to the file that holds it.
CargoManifestLicense(doc) ==
    IF doc.license # <<>> THEN Declares(doc.license, <<>>) ELSE Declares(<<>>, doc.file)

\* PEP 621's table or string, then poetry's field.
PyprojectLicense(doc) ==
    CASE doc.project = "string" /\ doc.license # <<>> -> Declares(doc.license, <<>>)
      [] doc.project = "table" /\ doc.license # <<>> -> Declares(doc.license, <<>>)
      [] doc.project = "table" /\ doc.license = <<>> /\ doc.file # <<>> -> Declares(<<>>, doc.file)
      [] OTHER -> Declares(doc.poetry, <<>>)

SetupCfgLicense(doc) ==
    IF doc.isFile THEN Nothing ELSE Declares(doc.license, <<>>)

\* Core metadata: a sequence of lines.  Reading ends at a blank line, or at
\* one too long to be scanned; folded lines are passed over, and the first
\* value of a header counts.
HeaderLines(lines) ==
    {i \in DOMAIN lines : /\ lines[i].kind = "header"
                          /\ \A j \in 1..i : lines[j].kind \notin {"blank", "overlong"}}
Header(lines, key) ==
    LET at == {i \in HeaderLines(lines) : lines[i].key = key}
    IN  IF at = {} THEN <<>>
        ELSE lines[CHOOSE i \in at : \A j \in at : i <= j].value

PyMetadataLicense(doc) ==
    LET expr == Header(doc.lines, "license-expression")
        legacy == Header(doc.lines, "license")
    IN  Declares(First(expr, IF Len(legacy) > MaxDeclared THEN <<>> ELSE legacy), <<>>)

\* A POM's entries are [name, url].
PomLicense(doc) ==
    Declares(JoinChoice([i \in DOMAIN doc.entries |->
                 First(doc.entries[i].name, doc.entries[i].url)]), <<>>)

-----------------------------------------------------------------------------
(* The manifests of a root directory, a function from the names of files   *)
(* to documents, and what the component declares.                          *)

ReadManifest(name, doc) ==
    CASE doc = Damaged -> Nothing
      [] name = "package.json" -> JsonManifestLicense(doc)
      [] name = "Cargo.toml" -> CargoManifestLicense(doc)
      [] name = "pyproject.toml" -> PyprojectLicense(doc)
      [] name = "setup.cfg" -> SetupCfgLicense(doc)
      [] name \in {"METADATA", "PKG-INFO", DistInfo} -> PyMetadataLicense(doc)
      [] OTHER -> PomLicense(doc)

Declared(root, name) ==
    IF name \in DOMAIN root THEN ReadManifest(name, root[name]) ELSE Nothing

\* What each manifest declares that declares anything; nothing depends on the
\* order in which a directory lists them.
Manifests(root) ==
    [name \in {n \in Readable : Declared(root, n) # Nothing} |-> Declared(root, name)]

\* The nearest of several places that declares something.
FirstDeclared(root, names) ==
    LET stated == {i \in DOMAIN names : Declared(root, names[i]).license # <<>>}
    IN  IF stated = {} THEN <<>>
        ELSE Declared(root, names[CHOOSE i \in stated : \A j \in stated : i <= j]).license

DeclaredLicense(root, ecosystem) ==
    CASE ecosystem = "cargo" -> Declared(root, "Cargo.toml").license
      [] ecosystem = "npm" -> Declared(root, "package.json").license
      [] ecosystem = "pypi" -> FirstDeclared(root, <<"PKG-INFO", "METADATA", DistInfo>>)
      [] ecosystem = "maven" -> FirstDeclared(root, <<"pom.xml", "pom-parent-1.xml">>)
      [] OTHER -> <<>>
=============================================================================
