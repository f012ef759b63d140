------------------------------- MODULE Detect -------------------------------
(***************************************************************************)
(* detect: which files of a tree are license texts, which of them describe *)
(* the component itself, and what those resolve to.  Pure operators, used  *)
(* by ContentHash.tla and Collect.tla.                                     *)
(*                                                                         *)
(* A path is the sequence of its segments, the last one the file's name;   *)
(* the tables of names (regular expressions and maps in the code) are      *)
(* constants.                                                              *)
(***************************************************************************)
EXTENDS Naturals, Sequences, FiniteSets

CONSTANTS
    Segments,               \* what paths are made of
    LicenseNames,           \* names that filenameWeights gives a weight
    SupplementaryNames,     \* supplementaryFileNames, whatever the extension
    VendorSegments,         \* vendorDirSegments
    BuildSegments,          \* buildOutputDirSegments
    TestSegments,           \* testDirSegments
    Named,                  \* Named[t]: the identifiers text t classifies to
    Blank,                  \* the texts of no bytes
    GrantFamilies,          \* identifiers whose suffix no license text settles
    None                    \* no expression, no digest, no directory

Base(p) == p[Len(p)]
Dir(p) == SubSeq(p, 1, Len(p) - 1)
AtRoot(p) == Len(p) = 1

IsLicenseFile(p) == Base(p) \in LicenseNames

FixturesIncluded(p) ==
    IF \E i \in DOMAIN p : p[i] \in VendorSegments THEN "vendored"
    ELSE IF \E i \in DOMAIN p : p[i] \in BuildSegments THEN "build-output" ELSE "none"

\* The first segment that names another component's tree decides; a test
\* directory counts only where there is none.
ClassifyDirExclusion(p) ==
    LET foreign == {i \in DOMAIN p : p[i] \in VendorSegments \cup BuildSegments}
        first == CHOOSE i \in foreign : \A j \in foreign : i <= j IN
    IF foreign # {}
    THEN IF p[first] \in VendorSegments THEN "vendored" ELSE "build-output"
    ELSE IF \E i \in DOMAIN p : p[i] \in TestSegments THEN "test-fixture"
    ELSE "none"

\* Belonging to another component outranks what the file is called; being
\* called supplementary outranks lying in a test directory.
ClassifyExclusion(p) ==
    LET reason == ClassifyDirExclusion(p) IN
    IF reason \in {"none", "test-fixture"} /\ Base(p) \in SupplementaryNames
    THEN "supplementary" ELSE reason

InScopeAnywhere(p) == Base(p) \notin SupplementaryNames

InScope(p) == ClassifyExclusion(p) = "none"

-----------------------------------------------------------------------------
(* Result.Conclude.  A file is [path, digest, err]: the digest stands for  *)
(* the text, err says that it could not be read or not be classified.      *)

PreferReadableRoot(files) ==
    LET root == {f \in files : AtRoot(f.path) /\ ~f.err} IN
    IF root # {} THEN root ELSE files

\* A license file in the root silences those below it, also one that could not
\* be read.
PreferRoot(files) ==
    LET root == {f \in files : AtRoot(f.path)} IN
    IF root # {} THEN root ELSE files

\* The files a conclusion is drawn from.
Concluding(files) ==
    {f \in PreferRoot({g \in files : InScope(g.path)}) : ~f.err}

Suffixed(id, suffix) == [id |-> id, suffix |-> suffix]

GrantForAny(id, grants) == grants

\* The grants the notices state for this identifier (GrantFor): a grant for
\* another license does not count.
GrantFor(id, grants) == {g \in grants : g.id = id}

Concluded(expression, reason, ids, basis) ==
    [expression |-> expression, reason |-> reason, identifiers |-> ids,
     basis |-> basis]

Undecided(reason, ids, basis) == Concluded(None, reason, ids, basis)

\* One identifier of a family whose suffix only a notice can state.
Granted(id, grants, sampled) ==
    LET matched == GrantFor(id, grants) IN
    IF Cardinality(matched) = 1
    THEN Concluded(CHOOSE g \in matched : TRUE, "", {id}, "notice")
    ELSE IF matched # {} THEN Undecided("grant-undecided", {id}, "mixed")
    ELSE Concluded(Suffixed(id, "only"), "", {id},
                   IF sampled > 0 THEN "absent" ELSE "unknown")

Conclude(files, grants, sampled) ==
    LET texts == {f.digest : f \in Concluding(files)}
        ids == UNION {Named[t] : t \in texts}
        id == CHOOSE i \in ids : TRUE IN
    IF ids = {}
    THEN Undecided(IF \E t \in texts : Named[t] = {} /\ t \notin Blank
                   THEN "unrecognized-license-text" ELSE "no-license-text",
                   {}, "")
    ELSE IF Cardinality(ids) > 1 THEN Undecided("several-licenses", ids, "")
    ELSE IF id \in GrantFamilies THEN Granted(id, grants, sampled)
    ELSE Concluded(Suffixed(id, ""), "", ids, "")
=============================================================================
