---------------------------- MODULE VendoredCopy ----------------------------
(***************************************************************************)
(* contenthash/verify.go and internal/digest: whether a vendored copy is   *)
(* the published artifact it claims to be, decided by a consumer from a    *)
(* bundle of Collect.tla and the files of an artifact that was fetched.    *)
(*                                                                         *)
(* Digests of Collect.tla are names of texts; here a text has its bytes,   *)
(* as far as line endings go, and an artifact is hashed as it streams, in  *)
(* whatever pieces the reader hands out.                                   *)
(***************************************************************************)
EXTENDS Collect

CONSTANTS
    Bytes,      \* what a file is made of, as far as line endings go
    Content,    \* Content[t]: the bytes of text t, its lines ending in LF
    Published,  \* Published[name]: the artifacts that may be fetched for name,
                \* functions from paths to bytes; one that failed has no files
    Places      \* where a reader may end a chunk, in bytes

\* The i-th byte and the one after it end a line the way Windows does.
Pair(bytes, i) == bytes[i] = "CR" /\ i < Len(bytes) /\ bytes[i + 1] = "LF"

ASSUME VendoredCopyAssumption ==
    /\ {"CR", "LF"} \subseteq Bytes
    /\ \A p \in DOMAIN Text : Text[p] \in DOMAIN Content
    /\ \A t \in DOMAIN Content :
           Content[t] \in Seq(Bytes) /\ \A i \in DOMAIN Content[t] : ~Pair(Content[t], i)
    /\ \A name \in DOMAIN Published : \A artifact \in Published[name] :
           \A q \in DOMAIN artifact : artifact[q] \in Seq(Bytes)
    /\ \A s, t \in DOMAIN Content : Content[s] = Content[t] => s = t
    /\ Places \subseteq Nat \ {0}

VARIABLE
    verdict     \* None, or the copy that was verified, against which artifact
                \* and with what result

copyVars == <<vars, verdict>>

-----------------------------------------------------------------------------
(* digest.File: CR LF is hashed as LF.                                     *)

\* Slip: a CR at the end of a chunk is written with it.
TurnAtOnce(read, bytes, i, ends) ==
    [held |-> FALSE,
     out |-> IF Pair(bytes, i) /\ i \notin ends THEN read.out ELSE Append(read.out, bytes[i])]

\* The loop of hashNormalized: a CR that is the last byte of its chunk is held back,
\* and the first byte of the next decides whether it is written.
Turn(read, bytes, i, ends) ==
    LET last == i \in ends \cup {Len(bytes)}
        out == IF read.held /\ bytes[i] # "LF" THEN Append(read.out, "CR") ELSE read.out IN
    [held |-> bytes[i] = "CR" /\ last,
     out |-> IF bytes[i] = "CR" /\ (last \/ bytes[i + 1] = "LF") THEN out
             ELSE Append(out, bytes[i])]

\* What is hashed of bytes that come in chunks with these ends.
HashNormalized(bytes, ends) ==
    LET read[i \in 0..Len(bytes)] ==
            IF i = 0 THEN [held |-> FALSE, out |-> <<>>] ELSE Turn(read[i - 1], bytes, i, ends)
        all == read[Len(bytes)]
    IN  IF all.held THEN Append(all.out, "CR") ELSE all.out

-----------------------------------------------------------------------------
(* contenthash.Files and Verify.                                           *)

\* The records of an artifact: of every license file, at whatever depth.
ArtifactFiles(artifact, ends) ==
    {Record(p, HashNormalized(artifact[p], ends)) : p \in {q \in DOMAIN artifact : Covers(q)}}

\* Every local file is published: a subset, so that pruning is no divergence.
Verify(local, published) ==
    IF published = {} /\ local # {} THEN "diverged"
    ELSE IF local \subseteq published THEN "pristine" ELSE "diverged"

\* The local side, from the bundle alone, its digests as what was hashed.
LocalFiles(purl) ==
    {Record(r.path, HashNormalized(Content[r.digest], {})) : r \in LocalLicenseFiles(purl)}

-----------------------------------------------------------------------------

CopyInit == Init /\ verdict = None

Check(copy, artifact, ends) ==
    /\ Delivered
    /\ verdict = None
    /\ verdict' = [copy |-> copy, artifact |-> artifact,
                   result |-> Verify(LocalFiles(copy.purl), ArtifactFiles(artifact, ends))]
    /\ UNCHANGED vars

CheckSome ==
    /\ bundle # None
    /\ \E copy \in {v \in bundle.copies : v.purl.name \in DOMAIN Published} :
          \E artifact \in Published[copy.purl.name], ends \in SUBSET Places :
              Check(copy, artifact, ends)

CopyNext == (Next /\ UNCHANGED verdict) \/ CheckSome

CopySpec == CopyInit /\ [][CopyNext]_copyVars

-----------------------------------------------------------------------------
(* Properties.                                                             *)

\* A text up to its line endings, looked at as a whole.
Unix(bytes) ==
    LET unix[i \in 0..Len(bytes)] ==
            IF i = 0 THEN <<>>
            ELSE IF Pair(bytes, i) THEN unix[i - 1] ELSE Append(unix[i - 1], bytes[i])
    IN  unix[Len(bytes)]

RelativeTo(root, p) == SubSeq(p, Len(root) + 1, Len(p))
PublishedAs(artifact, root, p) ==
    /\ RelativeTo(root, p) \in DOMAIN artifact
    /\ Unix(artifact[RelativeTo(root, p)]) = Content[Text[p]]

\* The license files that belong to root among these roots.
OwnTo(root, roots) == {p \in LicenseFiles : LongestRoot(p, roots) = {root}}

LostFile(p) ==
    \/ Gap("license-file", p) \in gaps
    \/ \E d \in Above(p) : Gap("unreadable-tree", d) \in gaps

\* A copy that verifies grants nothing upstream did not: each of its license
\* files as it is in the tree, edited or added ones too, is published under the
\* same path with the same text up to line endings, unless a gap says that it
\* could not be read; a link that leads nowhere is none of them (Verify,
\* hashNormalized).
PristineIsPublished ==
    verdict # None /\ verdict.result = "pristine" =>
        LET root == verdict.copy.root IN
        \A p \in OwnTo(root, Roots(bundle.copies)) :
            PublishedAs(verdict.artifact, root, p) \/ LostFile(p)

\* A module's copy that vendoring pruned from its artifact verifies, however lines
\* end in either, however the artifact streams and whatever could not be read: no
\* divergence is made up, unless go.sum stood in for modules.txt and does not list
\* a module that is nested in this one, whose files then count as this one's
\* (Verify, Relative, hashNormalized, enumerateGo).
ModuleRoots == {ModDir \o <<"vendor">> \o c.name :
                    c \in {d \in Finalize(NamedBySource) : d.ecosystem = "golang"}}
NestingUnknown(root) ==
    \E n \in Unlisted : Inside(ModDir \o <<"vendor">> \o n.name, root)
PrunedIsPristine ==
    verdict # None /\ verdict.copy.purl.ecosystem = "golang" =>
        LET root == verdict.copy.root IN
        ~NestingUnknown(root) /\ (\A p \in OwnTo(root, ModuleRoots \cup {root}) : PublishedAs(verdict.artifact, root, p))
            => verdict.result = "pristine"

\* A verdict is true both ways (Verify).
VerdictIsTrue == PristineIsPublished /\ PrunedIsPristine
=============================================================================
