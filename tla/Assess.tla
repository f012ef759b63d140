------------------------------- MODULE Assess -------------------------------
(***************************************************************************)
(* assess: how far the evidence about one component's licensing goes.      *)
(*                                                                         *)
(* The evidence is found piece by piece, and what there is is assessed     *)
(* after each.  A score is kept as the product of the                      *)
(* percentages of its terms, with the number of license texts apart, so    *)
(* that it is exact.  Declared values are read by Manifest.tla and by the  *)
(* parser of Expression.tla.                                               *)
(***************************************************************************)
EXTENDS Manifest, Expression

CONSTANTS
    Resolves,   \* Resolves[name]: the identifier of a classifier's name, of
                \* the license alone where a suffix is open, or <<>>
    Threshold,  \* ConfidenceThreshold, in percent
    SomeFiles, SomeDocuments, SomeProse, SomeReasons, SomeDeclared,
                \* the evidence there may be; a document is <<name, doc>>
    MaxPieces   \* bound on the pieces of evidence

Values == Seq(STRING)
IsField(field) ==
    /\ field.shape \in {"absent", "string", "strings", "object", "objects"}
    /\ field.entries \in Seq([type : Values, url : Values])
    /\ field.shape = "absent" => field.entries = <<>>
    /\ field.shape \in {"string", "object"} => Len(field.entries) = 1
    /\ field.shape \in {"string", "strings"} =>
          \A i \in DOMAIN field.entries : field.entries[i].url = <<>>

\* A file's matches are shares of a percent of a text; of the documents, only a
\* crate's manifest and PEP 621's table point at a file, and package.json and a
\* POM list alternatives.
ASSUME EvidenceAssumption ==
    /\ Threshold \in 1..100
    /\ \A file \in SomeFiles :
          /\ {file.excluded, file.err} \subseteq BOOLEAN
          /\ file.matches \in Seq([name : DOMAIN Resolves, confidence : 0..100])
    /\ \A document \in SomeDocuments :
          document[2] # Damaged /\ "file" \in DOMAIN document[2] =>
              \/ document[1] = "Cargo.toml"
              \/ document[1] = "pyproject.toml"
                     /\ (document[2].file # <<>> => document[2].project = "table")
    /\ \A document \in SomeDocuments :
          /\ document[1] = "package.json" /\ document[2] # Damaged => IsField(document[2].license)
          /\ document[1] \in {"pom.xml", "pom-parent-1.xml"} /\ document[2] # Damaged =>
                document[2].entries \in Seq([name : Values, url : Values])

VARIABLES
    files,      \* the classified files, in the order they were found
    root,       \* the manifests at the root, by name
    prose,      \* the mentions of a license in prose, in order
    incomplete, \* the reasons for which evidence could not be gathered
    declared,   \* what a downstream consumer declared, <<>> when nothing
    assessment  \* what Assess makes of all that

evidence == <<files, root, prose, incomplete, declared>>
vars == <<evidence, assessment>>

-----------------------------------------------------------------------------
(* Classified files: [excluded, err, matches], a match being               *)
(* [name, confidence], the strongest first.                                *)

\* What a name contributes: an identifier, or nothing.
IdentifierOf(name) == {Resolves[name]} \ {<<>>}

InScope(file) == ~file.excluded
Identified(file) == file.matches # <<>> /\ IdentifierOf(file.matches[1].name) # {}
Confident(file) == Identified(file) /\ file.matches[1].confidence >= Threshold
FileIdentifiers(file) ==
    UNION {IdentifierOf(file.matches[i].name) :
              i \in {j \in DOMAIN file.matches : file.matches[j].confidence >= Threshold}}

\* The component's own files, by their places.  Slip: the license of a vendored
\* dependency counts.
AllFiles(all) == DOMAIN all
InScopeFiles(all) == {i \in DOMAIN all : InScope(all[i])}
DetectedIdentifiers(all) == UNION {FileIdentifiers(all[i]) : i \in InScopeFiles(all)}

-----------------------------------------------------------------------------
(* Assess.  An input is [files, manifests, prose, incomplete, declared].   *)

ReadOf(all) == {i \in InScopeFiles(all) : ~all[i].err}

\* Nothing was read, and something stopped it from being read.  Slip: so is
\* a component that ships no text.
UnknownWhenEmpty(in) == ReadOf(in.files) = {} /\ DOMAIN in.manifests = {} /\ in.prose = <<>>
IsUnknown(in) ==
    /\ ReadOf(in.files) = {} /\ DOMAIN in.manifests = {} /\ in.prose = <<>>
    /\ in.incomplete # {} \/ InScopeFiles(in.files) # {}

ManifestCredit == 80
ProseCredit == 50
ProseChoiceCredit == 95

\* What the identified files are known by; nothing counts as no signal.
Best(all) ==
    {all[i].matches[1].confidence : i \in {j \in InScopeFiles(all) : Identified(all[j])}} \ {0}
ProjectLicense(in) ==
    IF Best(in.files) # {} THEN Max(Best(in.files))
    ELSE IF \E i \in DOMAIN in.manifests : in.manifests[i].license # <<>> THEN ManifestCredit
    ELSE IF in.prose # <<>> THEN ProseCredit ELSE 0

Resolved(all) == Cardinality({i \in InScopeFiles(all) : Confident(all[i])})
LicenseFiles(all) == Cardinality(InScopeFiles(all))

\* A manifest that is an expression and names every license composes them.
Composes(manifest, ids) ==
    LET parsed == Parse(Canonicalize(manifest.license))
    IN  parsed.ok /\ ids \subseteq Collected(parsed.tree)

SomeManifestComposes(manifests, ids) ==
    \E i \in DOMAIN manifests : Composes(manifests[i], ids)

ChoiceOfLicense(hints) == \E i \in DOMAIN hints : hints[i].choice

Relation(certainty, operator) == [certainty |-> certainty, operator |-> operator]

\* A manifest that composes the licenses, then prose that offers the choice.
RelationCertainty(in, ids) ==
    IF Cardinality(ids) < 2 THEN Relation(100, "")
    ELSE IF SomeManifestComposes(in.manifests, ids) THEN Relation(100, "")
    ELSE IF ChoiceOfLicense(in.prose) THEN Relation(ProseChoiceCredit, "OR")
    ELSE Relation(0, "")

\* Slip: what was declared is compared as it is written.
ConflictsAsWritten(value, ids) ==
    LET named == Identifiers(value)
    IN  value # <<>> /\ ids # {} /\ named # {} /\ named # ids
ConflictsWithDeclared(value, ids) ==
    LET named == Identifiers(Canonicalize(value))
    IN  value # <<>> /\ ids # {} /\ named # {} /\ named # ids

AllFlags == {"relationship-ambiguous", "unidentified-text", "declared-conflict"}

Flags(in, ids) ==
    {flag \in AllFlags :
        CASE flag = "relationship-ambiguous" -> RelationCertainty(in, ids).certainty = 0
          [] flag = "unidentified-text" -> Resolved(in.files) < LicenseFiles(in.files)
          [] OTHER -> ConflictsWithDeclared(in.declared, ids)}

Unknown(all) ==
    [unknown |-> TRUE, licenseFiles |-> LicenseFiles(all),
     identifiers |-> DetectedIdentifiers(all),
     score |-> 0, total |-> 1, relationship |-> "", flags |-> {}]

\* The score is score / total, in units of a percent of a percent.
Assess(in) ==
    LET ids == DetectedIdentifiers(in.files)
        relation == RelationCertainty(in, ids)
        counted == LicenseFiles(in.files)
    IN  IF IsUnknown(in) THEN Unknown(in.files)
        ELSE [unknown |-> FALSE, licenseFiles |-> counted, identifiers |-> ids,
              score |-> ProjectLicense(in) * relation.certainty
                            * (IF counted = 0 THEN 1 ELSE Resolved(in.files)),
              total |-> IF counted = 0 THEN 1 ELSE counted,
              relationship |-> relation.operator,
              flags |-> Flags(in, ids)]

\* The input that evidence makes.
Input(found) == [files |-> found[1], manifests |-> Manifests(found[2]), prose |-> found[3],
                 incomplete |-> found[4], declared |-> found[5]]

-----------------------------------------------------------------------------
(* Evidence is found.                                                      *)

Init == /\ files = <<>> /\ root = <<>> /\ prose = <<>>
        /\ incomplete = {} /\ declared = <<>>
        /\ assessment = Assess(Input(evidence))

Pieces == Len(files) + Cardinality(DOMAIN root) + Len(prose) + Cardinality(incomplete)

Classify(file) ==
    /\ files' = Append(files, file)
    /\ UNCHANGED <<root, prose, incomplete, declared>>
ReadDocument(name, doc) ==
    /\ name \notin DOMAIN root
    /\ root' = [n \in DOMAIN root \union {name} |-> IF n = name THEN doc ELSE root[n]]
    /\ UNCHANGED <<files, prose, incomplete, declared>>
ReadProse(hint) ==
    /\ prose' = Append(prose, hint)
    /\ UNCHANGED <<files, root, incomplete, declared>>
Lose(reason) ==
    /\ reason \notin incomplete
    /\ incomplete' = incomplete \union {reason}
    /\ UNCHANGED <<files, root, prose, declared>>
Declare(value) ==
    /\ declared = <<>>
    /\ declared' = value
    /\ UNCHANGED <<files, root, prose, incomplete>>

Find ==
    \/ \E value \in SomeDeclared : Declare(value)
    \/ /\ Pieces < MaxPieces
       /\ \/ \E file \in SomeFiles : Classify(file)
          \/ \E document \in SomeDocuments : ReadDocument(document[1], document[2])
          \/ \E hint \in SomeProse : ReadProse(hint)
          \/ \E reason \in SomeReasons : Lose(reason)

Next == Find /\ \E found \in {evidence'} : assessment' = Assess(Input(found))

Spec == Init /\ [][Next]_vars

-----------------------------------------------------------------------------
(* Properties.                                                             *)

AtMost(a, b) == a.score * b.total <= b.score * a.total
SameScore(a, b) == AtMost(a, b) /\ AtMost(b, a) /\ a.unknown = b.unknown

Own == InScopeFiles(files)
SomethingRead == ReadOf(files) # {} \/ DOMAIN Manifests(root) # {} \/ prose # <<>>
Ambiguous == "relationship-ambiguous" \in assessment.flags

\* A score is a share of all of its terms, and an unknown component has none.
TypeOK ==
    /\ assessment.total > 0
    /\ assessment.score \in 0..100 * 100 * assessment.total
    /\ assessment.relationship \in {"", "OR"}
    /\ assessment.unknown => assessment.score = 0 /\ assessment.flags = {}

\* "Unknown" (retry) and "thin" (escalate) are told apart: a score of zero
\* says what is wrong with it, in a flag or by there being nothing at all.
ZeroIsExplained ==
    assessment.score = 0 =>
        \/ assessment.unknown /\ (incomplete # {} \/ \E i \in DOMAIN files : files[i].err)
        \/ assessment.flags \intersect {"relationship-ambiguous", "unidentified-text"} # {}
        \/ ~assessment.unknown /\ Own = {} /\ prose = <<>>
               /\ \A i \in DOMAIN Manifests(root) : Manifests(root)[i].license = <<>>

\* The order in which files and mentions are met decides nothing.
OrderIsIrrelevant ==
    LET backwards == [Input(evidence) EXCEPT !.files = Reverse(@), !.prose = Reverse(@)]
    IN  Assess(backwards) = assessment

\* Alternatives are a choice, however each is spelled and whatever it holds:
\* what package.json or a POM lists is satisfied exactly when an entry is.  Of
\* several entries none is read as a choice for its slashes, none may group
\* operators in brackets, which leaves all of them as they are written, and
\* none may reach for what stands beside it.
Alternatives(name) ==
    IF name = "package.json" THEN root[name].license.entries ELSE root[name].entries
Alternative(name, i) ==
    LET entry == Alternatives(name)[i]
    IN  IF name = "package.json" THEN First(entry.type, entry.url) ELSE First(entry.name, entry.url)
ReadAs(value) == Parse(Canonicalize(value))
StandsAlone(value) ==
    value[1] # ")" /\ value[Len(value)] # "(" /\ Upper(value[Len(value)]) \notin {"AND", "OR"}
ChoiceIsAnyOf ==
    \A name \in {"package.json", "pom.xml", "pom-parent-1.xml"} \intersect DOMAIN root :
        LET values == {Alternative(name, i) : i \in DOMAIN Alternatives(name)} \ {<<>>}
            license == Declared(root, name).license
            whole == ReadAs(license)
            readable(v) ==
                IF Len(Alternatives(name)) = 1 THEN ReadAs(v).ok
                ELSE StandsAlone(v) /\ Parse(RewriteOperands(v)).ok
        IN  /\ root[name] # Damaged /\ values # {}
            /\ \A v \in values : readable(v)
            /\ Len(Alternatives(name)) = 1 \/ ~GroupedOperator(license)
            =>
                /\ whole.ok
                /\ \A accepted \in SUBSET Collected(whole.tree) :
                      Satisfies(whole.tree, accepted)
                          <=> \E v \in values : Satisfies(ReadAs(v).tree, accepted)

\* The license that is declared for an ecosystem is among the manifests that
\* the assessment weighs, unless only a wheel's metadata below the root has it.
DeclaredIsWeighed ==
    \A ecosystem \in {"cargo", "npm", "pypi", "maven"} :
        LET license == DeclaredLicense(root, ecosystem)
        IN  license # <<>> =>
                \/ \E i \in DOMAIN Manifests(root) : Manifests(root)[i].license = license
                \/ ecosystem = "pypi" /\ license = Declared(root, DistInfo).license

\* A manifest that only points at a file declares nothing: neither that
\* manifest nor an assessment of it alone earns credit.
PointerEarnsNothing ==
    LET pointers == {name \in DOMAIN root :
                        root[name] # Damaged /\ "file" \in DOMAIN root[name]
                            /\ root[name].file # <<>> /\ root[name].license = <<>>}
    IN  pointers = DOMAIN root /\ pointers # {} /\ prose = <<>> /\ Own = {}
            => ~assessment.unknown /\ assessment.score = 0

\* Downstream repeating a manifest that composes the texts is no conflict,
\* unless that manifest names a license that no text carries.
AgreementIsNoConflict ==
    \A name \in DOMAIN Manifests(root) :
        LET parsed == ReadAs(declared)
        IN  declared = Manifests(root)[name].license /\ ~assessment.unknown /\ parsed.ok
                /\ Collected(parsed.tree) = assessment.identifiers
            => "declared-conflict" \notin assessment.flags

\* A file that was classified in a step.
FoundFile(file) == files' = Append(files, file)

\* One more license text that is not identified with confidence never makes
\* the evidence look more conclusive, whatever else it holds; a component of
\* which it is all there is becomes unknown when it cannot be read.
UnidentifiedNeverHelps ==
    \A file \in SomeFiles :
        FoundFile(file) /\ InScope(file) /\ ~Confident(file) /\ ~assessment.unknown =>
            IF assessment'.unknown THEN file.err /\ ~SomethingRead
            ELSE AtMost(assessment', assessment) /\ "unidentified-text" \in assessment'.flags

\* Only what is found in the component scores: one more excluded file, a reason
\* for which evidence was lost, or what downstream declares move nothing, but
\* for a component of which nothing at all was read.
OnlyContentScores ==
    \/ incomplete' # incomplete
    \/ declared' # declared
    \/ \E file \in SomeFiles : FoundFile(file) /\ ~InScope(file)
    => IF SomethingRead \/ incomplete' = {}
       THEN SameScore(assessment', assessment)
            /\ assessment'.relationship = assessment.relationship
       ELSE assessment'.unknown

\* A mention in prose settles what nothing better does, and nothing else: it
\* moves a score only where nothing was read, where there is no text and no
\* manifest names a license, or where the texts were ambiguous and it offers
\* their choice.
ProseOnlySettles ==
    \A hint \in SomeProse :
        prose' = Append(prose, hint) =>
            \/ SameScore(assessment', assessment)
               /\ assessment'.relationship = assessment.relationship
            \/ assessment.unknown
            \/ Own = {} /\ \A i \in DOMAIN Manifests(root) : Manifests(root)[i].license = <<>>
            \/ Ambiguous /\ hint.choice /\ assessment'.relationship = "OR"

\* The manifests are heard, and say neither less nor more than they do
\* (Manifests, DeclaredLicense, conflictsWithDeclared).
ManifestsAreHeard == DeclaredIsWeighed /\ PointerEarnsNothing /\ AgreementIsNoConflict

\* A score is in its range, and zero for a reason that is told (Assess).
ScoreIsExplained == TypeOK /\ ZeroIsExplained

\* Nothing but evidence about the component itself moves a score, by what it is
\* worth and in whatever order it is found (Assess).
OnlyEvidenceMoves ==
    /\ []OrderIsIrrelevant
    /\ [][UnidentifiedNeverHelps /\ OnlyContentScores /\ ProseOnlySettles]_vars
=============================================================================
