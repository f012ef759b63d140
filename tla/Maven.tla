-------------------------------- MODULE Maven --------------------------------
(***************************************************************************)
(* upstream/maven.go: resolving a Java component, from its POM, the POMs it *)
(* inherits from and its jar, and component/manifest.go: what license the  *)
(* result declares.                                                        *)
(*                                                                         *)
(* Every request is a fetchBytes or a fetch, which ends as FetchContract.tla *)
(* says: with what the registry holds, gone, or failed for now.            *)
(***************************************************************************)
EXTENDS Naturals, Sequences, FiniteSets

CONSTANTS
    Coords,         \* group, artifact and version triples
    Components,     \* those that are resolved
    Unnameable,     \* those artifactURL makes no URL of
    Poms,           \* POM documents
    Jars,           \* what the registry may hold as the component's jar
    Unlicensed,     \* no license
    MaxPOMAncestry,
    None            \* no document, no parent, no jar

\* A POM is [parses, large, license, parent]: large is past maxManifestBytes and
\* still within MaxMetadataBytes; the parent's coordinates are those parentCoords
\* completes from the child's.  A jar is [expands, ships]: ships[d] is the document
\* at its root that has the name of a POM of depth d, or None.
Depths == 0..MaxPOMAncestry - 1

ASSUME MavenAssumption ==
    /\ Components \subseteq Coords
    /\ \A p \in Poms : /\ p.parses \in BOOLEAN /\ p.large \in BOOLEAN
                       /\ p.parent \in Coords \cup {None}
    /\ \A j \in Jars : j.expands \in BOOLEAN /\ j.ships \in [Depths -> Poms \cup {None}]
    /\ None \notin Poms \cup Jars \cup Coords
    /\ MaxPOMAncestry \in Nat \ {0}

VARIABLES
    component,  \* the component resolved
    pom,        \* pom[c]: the document the registry holds for c, or None
    jar,        \* the jar it holds for the component, or None
    pc,         \* "chain", "jar", "expand", "sum"; at the end the outcome
    coords,     \* the coordinates whose POM comes next
    chain,      \* the POMs fetched, nearest first: [at, doc]
    seen,       \* the coordinates pomChain has looked at
    pomGone,    \* the component's own POM is gone
    staged,     \* the jar is on disk
    failed,     \* a request failed for now, the one for the checksum aside
    result,     \* the POM files of the artifact, by depth, once there is one
    matched     \* Artifact.Matched

registry == <<component, pom, jar>>
vars == <<registry, pc, coords, chain, seen, pomGone, staged, failed, result, matched>>

Outcomes == {"artifact", "gone", "error"}

TypeOK ==
    /\ component \in Components
    /\ pom \in [Coords -> Poms \cup {None}]
    /\ jar \in Jars \cup {None}
    /\ pc \in {"chain", "jar", "expand", "sum"} \cup Outcomes
    /\ coords \in Coords
    /\ chain \in Seq([at : Coords, doc : Poms]) /\ Len(chain) <= MaxPOMAncestry
    /\ seen \subseteq Coords
    /\ {pomGone, staged, failed, matched} \subseteq BOOLEAN
    /\ result \in [Depths -> Poms \cup {None}]

Init ==
    /\ component \in Components
    /\ pom \in [Coords -> Poms \cup {None}]
    /\ \A c \in Unnameable : pom[c] = None
    /\ jar \in Jars \cup {None}
    /\ pc = "chain"
    /\ coords = component
    /\ chain = <<>> /\ seen = {}
    /\ pomGone = FALSE /\ staged = FALSE /\ failed = FALSE /\ matched = FALSE
    /\ result = [d \in Depths |-> None]

-----------------------------------------------------------------------------
(* pomChain                                                                *)

Goto(step) == pc' = step

\* artifactURL makes a URL of the coordinates.
Nameable == coords \notin Unnameable

\* pomChain's seen: without it two POMs naming each other as parent fill the chain.
Repeated == coords \in seen

AtBound == Len(chain) = MaxPOMAncestry

\* The loop is over, or the coordinates were looked at before.
ChainStops ==
    /\ pc = "chain"
    /\ AtBound \/ Repeated
    /\ Goto("jar")
    /\ UNCHANGED <<registry, coords, chain, seen, pomGone, staged, failed, result,
                   matched>>

Asks ==
    /\ pc = "chain"
    /\ ~AtBound /\ ~Repeated
    /\ seen' = seen \cup {coords}
    /\ UNCHANGED <<registry, staged, result, matched>>

\* No URL can be made of the coordinates the caller asks for.
ComponentUnnameable ==
    /\ Asks
    /\ ~Nameable /\ chain = <<>>
    /\ Goto("error")
    /\ UNCHANGED <<coords, chain, pomGone, failed>>

\* No URL can be made of those an ancestor names: a gap, as if it were gone.
AncestorUnnameable ==
    /\ Asks
    /\ ~Nameable /\ chain # <<>>
    /\ Goto("jar")
    /\ UNCHANGED <<coords, chain, pomGone, failed>>

DeclaresLicense(doc) == doc.license # Unlicensed
ParentCoords(doc) == doc.parent

\* Nothing further up can override a license; a document that does not parse has
\* no parent.
IsLast(doc) == ~doc.parses \/ DeclaresLicense(doc) \/ ParentCoords(doc) = None

PomFound ==
    LET doc == pom[coords] IN
    /\ Asks
    /\ Nameable /\ doc # None
    /\ chain' = Append(chain, [at |-> coords, doc |-> doc])
    /\ IF IsLast(doc)
       THEN Goto("jar") /\ UNCHANGED coords
       ELSE coords' = ParentCoords(doc) /\ UNCHANGED pc
    /\ UNCHANGED <<pomGone, failed>>

\* An ancestor that is gone ends the chain; the component's own POM may be gone
\* too, as long as there is a jar.
PomGone ==
    /\ Asks
    /\ Nameable /\ pom[coords] = None
    /\ pomGone' = (chain = <<>>)
    /\ Goto("jar")
    /\ UNCHANGED <<coords, chain, failed>>

AncestorForgiven == IF chain = <<>> THEN "error" ELSE "jar"

\* Where a POM request that failed for now leads, an ancestor's included.
FailureOfPom == "error"

PomFails ==
    /\ Asks
    /\ Nameable
    /\ failed' = TRUE
    /\ Goto(FailureOfPom)
    /\ UNCHANGED <<coords, chain, pomGone>>

-----------------------------------------------------------------------------
(* jarContent, and the artifact                                            *)

Nothing == [d \in Depths |-> None]

ShippedFirst(shipped) ==
    [d \in Depths |->
        IF shipped[d] = None /\ d < Len(chain) THEN chain[d + 1].doc
        ELSE shipped[d]]

\* The POMs are written over whatever the jar ships under their names.
Written(shipped) ==
    [d \in Depths |->
        IF d < Len(chain) THEN chain[d + 1].doc ELSE shipped[d]]

\* What a component without a jar is: an artifact all the same if it has a POM.
JarMissing == IF pomGone THEN "gone" ELSE "artifact"

JarGone ==
    /\ pc = "jar" /\ jar = None
    /\ Goto(JarMissing)
    /\ result' = IF JarMissing = "artifact" THEN Written(Nothing) ELSE result
    /\ UNCHANGED <<registry, coords, chain, seen, pomGone, staged, failed, matched>>

JarFails ==
    /\ pc = "jar"
    /\ failed' = TRUE
    /\ Goto("error")
    /\ UNCHANGED <<registry, coords, chain, seen, pomGone, staged, result, matched>>

JarFetched ==
    /\ pc = "jar" /\ jar # None
    /\ staged' = TRUE
    /\ Goto("expand")
    /\ UNCHANGED <<registry, coords, chain, seen, pomGone, failed, result, matched>>

\* The deferred Close, on every return of jarContent.
StagedAfterReturn == FALSE

\* Reading the jar for its digest or expanding it: what does not expand is an
\* error, and a read may fail.
Expand ==
    /\ pc = "expand"
    /\ \/ /\ jar.expands
          /\ Goto("sum")
          /\ UNCHANGED staged
       \/ /\ Goto("error")
          /\ staged' = StagedAfterReturn
    /\ UNCHANGED <<registry, coords, chain, seen, pomGone, failed, result, matched>>

\* The sibling checksum names this content, another, or could not be had.
Checksum ==
    /\ pc = "sum"
    /\ matched' \in BOOLEAN
    /\ staged' = StagedAfterReturn
    /\ result' = Written(jar.ships)
    /\ Goto("artifact")
    /\ UNCHANGED <<registry, coords, chain, seen, pomGone, failed>>

Next ==
    \/ ChainStops \/ ComponentUnnameable \/ AncestorUnnameable
    \/ PomFound \/ PomGone \/ PomFails
    \/ JarGone \/ JarFails \/ JarFetched \/ Expand \/ Checksum

Spec == Init /\ [][Next]_vars

-----------------------------------------------------------------------------
(* component.DeclaredLicense of the artifact                               *)

\* pomLicense.
PomLicense(doc) ==
    IF doc = None \/ ~doc.parses \/ doc.large THEN Unlicensed ELSE doc.license

\* declaredMaven: the nearest POM that declares anything wins.
DeclaredMaven ==
    LET declaring == {d \in Depths : PomLicense(result[d]) # Unlicensed} IN
    IF declaring = {} THEN Unlicensed
    ELSE PomLicense(result[CHOOSE d \in declaring : \A e \in declaring : d <= e])

-----------------------------------------------------------------------------
(* Properties                                                              *)

\* The component's ancestors as the registry has them, as far as they go.
Ancestor[d \in Nat] ==
    IF d = 0 THEN component
    ELSE LET child == Ancestor[d - 1] IN
         IF child = None \/ pom[child] = None \/ ~pom[child].parses
         THEN None ELSE pom[child].parent

Document(d) ==
    IF Ancestor[d] = None THEN None ELSE pom[Ancestor[d]]

Declaring ==
    {d \in Depths : Document(d) # None /\ Document(d).parses
                    /\ Document(d).license # Unlicensed}

\* A file in the jar by the name POMName gives an ancestor is read as if the chain
\* went there.
ShipsNoAncestor == jar # None => \A d \in Depths \ {0} : jar.ships[d] = None

\* A POM too long to be read as a manifest declares nothing, and has ended the chain
\* if it names a license.
NoneTooLarge == \A i \in DOMAIN chain : ~chain[i].doc.large

\* A resolved component declares what the nearest of its POMs declares, up to
\* the bound on ancestry: not less because the chain has a cycle, not something
\* else because the jar ships a POM of its own (pomChain, Fetch, declaredMaven).
NearestDeclares ==
    pc = "artifact" /\ Document(0) # None
    /\ ShipsNoAncestor /\ NoneTooLarge =>
        DeclaredMaven =
            IF Declaring = {} THEN Unlicensed
            ELSE Document(CHOOSE d \in Declaring : \A e \in Declaring : d <= e).license

\* A request that failed for now is never taken for a POM without a license or
\* for a component without a jar: the caller gets an error it can retry
\* (pomChain, jarContent).
FailureIsReported == failed => pc = "error"

\* Gone is said of a component only when the registry has neither its POM nor
\* its jar, and an artifact is made of one of them (Fetch).
GoneIsGone ==
    /\ pc = "gone" => pom[component] = None /\ jar = None
    /\ pc = "artifact" => pom[component] # None \/ jar # None

\* No POM is in the chain twice, however its parents refer to one another
\* (pomChain).
NoPomTwice ==
    \A i, j \in DOMAIN chain : chain[i].at = chain[j].at => i = j

\* The jar is on disk only while it is worked on (jarContent).
JarReleased == staged => pc \in {"expand", "sum"}

\* However requests fail or find nothing, far apart from one another, the
\* resolution ends as what they found says, and keeps nothing on disk (Fetch,
\* pomChain, jarContent).
EndsForCause == FailureIsReported /\ GoneIsGone /\ JarReleased
=============================================================================
