------------------------------- MODULE Resolve -------------------------------
(***************************************************************************)
(* upstream/resolve.go and the resolvers of golang.go, cargo.go, npm.go and *)
(* pypi.go: one component from its coordinates to an artifact; and         *)
(* checksum.go: what a checksum database then says of it.  Java has a      *)
(* module of its own, Maven.tla.                                           *)
(*                                                                         *)
(* A request ends as FetchContract.tla says: with an artifact, gone, or    *)
(* failed for now.  The staged file has one offset, which whoever reads it *)
(* as a stream must rewind.                                                *)
(***************************************************************************)
EXTENDS Naturals, Sequences, FiniteSets

CONSTANTS
    Ecosystems,     \* those that components are of
    ByEcosystem,    \* those the Set has a resolver for
    Contents,       \* what an archive may hold
    Expandable,     \* the contents that are well-formed archives
    Algorithms,     \* the algorithms integrityOf knows
    Recorded,       \* Recorded[e]: what a lockfile may say of a component of e
    Releases,       \* what the index may list for a Python release
    Records,        \* Records[e]: what the checksum database of e may answer
    None            \* nothing there

\* A digest is [algo, of]: no two contents have the same one.  A lockfile has a
\* sequence of them, as an npm integrity string may, and <<>> for none.  A file of a
\* release is [kind, size, name, format, content, sha], its name a number in the order
\* of names, its content None when it was removed.  A line of a checksum record is
\* [about, digest]; crates.io's has one at most.
Hash(algo, content) == [algo |-> algo, of |-> content]
Schemes == {"golang", "cargo", "pypi"}
Scheme(e) == IF e = "golang" THEN "h1" ELSE "sha256"

\* The ecosystems with a checksum database that is modelled.
Databases == {"golang", "cargo"}

\* How Fetch ends, and how Lookup does.
Ended == {"artifact", "gone", "unsupported", "error"}
Answers == {"match", "mismatch", "norecord", "gone", "unsupported", "error"}

Sequence(s) == s \in Seq({s[i] : i \in DOMAIN s})

ASSUME ResolveAssumption ==
    /\ ByEcosystem \subseteq Ecosystems /\ ByEcosystem \subseteq Schemes \cup {"npm"}
    /\ Expandable \subseteq Contents /\ None \notin Contents \cup Answers
    /\ \A e \in Ecosystems : \A d \in Recorded[e] :
           /\ Sequence(d) /\ \A i \in DOMAIN d : d[i] = Hash(d[i].algo, d[i].of)
           /\ e \in Schemes /\ d # <<>> => \E c \in Contents : d = <<Hash(Scheme(e), c)>>
    /\ \A e \in Ecosystems \cap Databases : \A lines \in Records[e] : Sequence(lines)
    /\ \A r \in Releases : Sequence(r)
    /\ \A r \in Releases : \A i \in DOMAIN r :
           /\ r[i] # None /\ r[i].size \in Nat /\ r[i].name \in Nat
           /\ r[i].kind \in {"sdist", "wheel", "other"}
           /\ r[i].format \in {"tar", "zip", "other"}
           /\ r[i].content \in Contents \cup {None}
           /\ r[i].sha \in {<<>>} \cup {<<Hash("sha256", c)>> : c \in Contents}

VARIABLES
    eco, recorded,  \* the component: its ecosystem and Component.Digest
    published,      \* the archive the registry holds, or None
    release,        \* the files the Python index lists, or None
    record,         \* the lines of the checksum database, or None
    todo,           \* the steps of Fetch that are left
    file,           \* the file of the release that was chosen
    staged,         \* the content of the temporary file, or None
    offset,         \* where that file is read next: "start" or "end"
    digest, fs,     \* Artifact.Digest and Artifact.FS
    matched,        \* Artifact.Matched
    outcome,        \* "idle", "running", then how Fetch ended
    failed,         \* a request could not be made, or failed for now
    asked, lookup   \* Lookup: the digest asked about, and what came back

world == <<eco, recorded, published, release, record>>
fetchVars == <<todo, file, staged, offset, digest, fs, matched, outcome, failed>>
lookupVars == <<asked, lookup>>
vars == <<world, fetchVars, lookupVars>>

\* Fetch of each resolver, in the order of its code: npm expands first.
Steps(e) ==
    CASE e \in {"golang", "cargo"} -> <<"request", "digest", "expand">>
      [] e = "npm" -> <<"request", "expand", "digest">>
      [] e = "pypi" -> <<"index", "request", "digest", "expand">>

\* What may be left of them.
Left(e) == {SubSeq(Steps(e), k, Len(Steps(e))) : k \in 1..Len(Steps(e)) + 1}

TypeOK ==
    /\ eco \in Ecosystems /\ recorded \in Recorded[eco]
    /\ todo # <<>> => eco \in ByEcosystem /\ todo \in Left(eco)
    /\ staged \in Contents \cup {None} /\ offset \in {"start", "end"}
    /\ digest = None \/ digest.of \in Contents
    /\ fs \in Expandable \cup {None}
    /\ matched \in BOOLEAN /\ failed \in BOOLEAN
    /\ outcome \in {"idle", "running"} \cup Ended
    /\ lookup \in {None} \cup Answers

Init ==
    /\ eco \in Ecosystems /\ recorded \in Recorded[eco]
    /\ published \in Contents \cup {None}
    /\ release \in (IF eco = "pypi" THEN Releases ELSE {}) \cup {None}
    /\ record \in (IF eco \in Databases THEN Records[eco] ELSE {}) \cup {None}
    /\ todo = <<>> /\ file = None
    /\ staged = None /\ offset = "start"
    /\ digest = None /\ fs = None /\ matched = FALSE
    /\ outcome = "idle" /\ failed = FALSE
    /\ asked = <<>> /\ lookup = None

-----------------------------------------------------------------------------
(* Set.Fetch                                                               *)

Dispatch ==
    /\ outcome = "idle"
    /\ IF eco \in ByEcosystem
       THEN outcome' = "running" /\ todo' = Steps(eco)
       ELSE outcome' = "unsupported" /\ UNCHANGED todo
    /\ UNCHANGED <<world, file, staged, offset, digest, fs, matched, failed, lookupVars>>

At(step) == outcome = "running" /\ todo # <<>> /\ Head(todo) = step

\* The deferred Close, on every return of Fetch.
StagedAfterReturn(why) == None

\* Fetch returns without an artifact.
Return(why) ==
    /\ outcome' = why
    /\ staged' = StagedAfterReturn(why)
    /\ UNCHANGED <<world, todo, file, offset, digest, fs, matched, lookupVars>>

\* The index of a Python release, or the archive, cannot be had for now; names and
\* versions that no URL can be made of, and an index that does not parse, end alike.
RequestFails ==
    /\ At("index") \/ At("request")
    /\ failed' = TRUE
    /\ Return("error")

-----------------------------------------------------------------------------
(* PyPI: which file of a release                                           *)

IsWheel(f) == f.kind = "wheel"

SmallerBySize(f, g) == f.size <= g.size

SmallerThan(f, g) == f.size < g.size \/ (f.size = g.size /\ f.name < g.name)

OnlySdist(best, f) == IF best = None /\ f.kind = "sdist" THEN f ELSE best

\* One turn of the loop of preferred: the first source distribution ends it, the
\* smallest wheel so far is what it falls back to.
Better(best, f) ==
    IF best # None /\ best.kind = "sdist" THEN best
    ELSE IF f.kind = "sdist" THEN f
    ELSE IF IsWheel(f) /\ (best = None \/ SmallerThan(f, best)) THEN f
    ELSE best

Preferred(files) ==
    LET best[n \in 0..Len(files)] == IF n = 0 THEN None ELSE Better(best[n - 1], files[n])
    IN  best[Len(files)]

\* A release the index does not know, or that lists nothing to download, is gone.
Index ==
    /\ At("index")
    /\ UNCHANGED failed
    /\ IF release = None \/ Preferred(release) = None
       THEN Return("gone")
       ELSE /\ file' = Preferred(release)
            /\ todo' = Tail(todo)
            /\ UNCHANGED <<world, staged, offset, digest, fs, matched, outcome, lookupVars>>

-----------------------------------------------------------------------------
(* The archive: staged, hashed, expanded                                   *)

Located == IF eco = "pypi" THEN file.content ELSE published

Request ==
    /\ At("request")
    /\ UNCHANGED failed
    /\ IF Located = None
       THEN Return("gone")
       ELSE /\ staged' = Located
            /\ offset' = "start"
            /\ todo' = Tail(todo)
            /\ UNCHANGED <<world, file, digest, fs, matched, outcome, lookupVars>>

\* The algorithm of the first digest in the integrity string; sha512 without one.
RecordedAlgorithm == IF recorded = <<>> THEN "sha512" ELSE recorded[1].algo

Algorithm == IF eco = "npm" THEN RecordedAlgorithm ELSE Scheme(eco)

\* fetched.Reader and fetched.Digest seek to the start before they read.
Rewound == "start"

\* What is read of the staged file as a stream, from where it stands.
Streamed(from) == IF from = "start" THEN staged ELSE None

\* art.Digest, integrityOf, dirhash.HashZip; the last reads the file by its path.
Digest ==
    /\ At("digest")
    /\ UNCHANGED failed
    /\ \/ Return("error")
       \/ /\ eco = "npm" => Algorithm \in Algorithms
          /\ eco = "golang" => staged \in Expandable
          /\ digest' = Hash(Algorithm, IF eco = "golang" THEN staged ELSE Streamed(Rewound))
          /\ offset' = IF eco = "golang" THEN offset ELSE "end"
          /\ todo' = Tail(todo)
          /\ UNCHANGED <<world, file, staged, fs, matched, outcome, lookupVars>>

\* zipFS reads at offsets of its own, tarGzFS the stream; a wheel is a zip by any
\* name, and a source distribution of another format is none at all.
Format ==
    CASE eco = "golang" -> "zip"
      [] eco \in {"cargo", "npm"} -> "tar"
      [] eco = "pypi" -> IF IsWheel(file) THEN "zip" ELSE file.format

Expand ==
    /\ At("expand")
    /\ UNCHANGED failed
    /\ \/ Return("error")
       \/ /\ Format # "other"
          /\ fs' = IF Format = "zip" THEN staged ELSE Streamed(Rewound)
          /\ fs' \in Expandable
          /\ offset' = IF Format = "tar" THEN "end" ELSE offset
          /\ todo' = Tail(todo)
          /\ UNCHANGED <<world, file, staged, digest, matched, outcome, lookupVars>>

\* What the digest is compared with: the index's word for Python, else the lockfile's.
Expected == IF eco = "pypi" THEN file.sha ELSE recorded

AgreesOrUnknown == Expected = <<>> \/ Expected = <<digest>>

Agrees == Expected # <<>> /\ Expected = <<digest>>

Deliver ==
    /\ outcome = "running" /\ todo = <<>>
    /\ outcome' = "artifact"
    /\ matched' = Agrees
    /\ staged' = StagedAfterReturn("artifact")
    /\ UNCHANGED <<world, todo, file, offset, digest, fs, failed, lookupVars>>

-----------------------------------------------------------------------------
(* Checksums.Lookup, by a caller that has resolved the component           *)

AnyLine(line) == line.about # "other"

\* The line of the version's archive: not that of another module, and not the one
\* that covers go.mod alone.
AboutArchive(line) == line.about = "archive"

\* goSum returns at the first such line.
Answer(lines, d) ==
    LET found == {i \in DOMAIN lines : AboutArchive(lines[i])}
        line == lines[CHOOSE i \in found : \A j \in found : i <= j]
    IN  IF found = {} THEN "norecord"
        ELSE IF d # <<>> /\ d = <<line.digest>> THEN "match" ELSE "mismatch"

\* The caller asks about the digest of its lockfile or of the bytes it was given.
Lookup ==
    /\ outcome \in Ended /\ lookup = None
    /\ asked' \in {recorded} \cup (IF outcome = "artifact" THEN {<<digest>>} ELSE {})
    /\ lookup' \in IF eco \notin Databases THEN {"unsupported"}
                   ELSE {"error", IF record = None THEN "gone" ELSE Answer(record, asked')}
    /\ UNCHANGED <<world, fetchVars>>

Next ==
    \/ Dispatch \/ RequestFails \/ Index \/ Request \/ Digest \/ Expand \/ Deliver
    \/ Lookup

Spec == Init /\ [][Next]_vars

-----------------------------------------------------------------------------
(* Properties                                                              *)

\* Matched says that the very content the evidence was expanded from is the one the
\* lockfile or the index named, and is not said for want of a name (Fetch of each
\* resolver).
MatchedIsContent ==
    outcome = "artifact" /\ matched => Expected # <<>> /\ Expected[1].of = fs

\* Content that is the one recorded is never taken for another, whatever algorithm
\* the lockfile was written with and whatever read the staged file before
\* (integrityOf, fetched.Digest).
KnownContentMatches ==
    outcome = "artifact" /\ Len(Expected) = 1 /\ Expected[1].of = fs => matched

\* Gone, which is never retried, is only said of content that is not there, and a
\* request that failed for now is always an error (Fetch, ErrGone).
GoneIsPermanent ==
    /\ failed => outcome = "error"
    /\ outcome = "gone" =>
           IF eco # "pypi" THEN published = None
           ELSE \/ release = None
                \/ \A i \in DOMAIN release : release[i].kind = "other"
                \/ file # None /\ file.content = None

\* A source distribution is preferred; among wheels the choice does not depend on
\* the order the index lists them in (preferred, smallerThan).
ChoiceIsStable ==
    file # None =>
        LET files == {release[i] : i \in DOMAIN release} IN
        /\ file \in files
        /\ (\E f \in files : f.kind = "sdist") => file.kind = "sdist"
        /\ file.kind = "wheel" =>
               \A f \in files : IsWheel(f) =>
                   f.size > file.size \/ (f.size = file.size /\ f.name >= file.name)

\* The staged file is gone on every return of Fetch.
StagedReleased == staged # None => outcome = "running"

\* A match with the database means that the evidence handed out was expanded from
\* the archive the database recorded; a version without a record is no mismatch
\* (Lookup, goSum, cargoSum).
WitnessSawIt ==
    LET named == {record[i].digest : i \in {j \in DOMAIN record : record[j].about = "archive"}} IN
    /\ lookup = "match" /\ outcome = "artifact" /\ asked = <<digest>> =>
           Hash(Scheme(eco), fs) \in named
    /\ lookup = "mismatch" => named # {} /\ \A d \in named : asked = <<d>> => named # {d}
    /\ lookup = "norecord" => named = {}

\* An artifact matches exactly when it was expanded from the one content that was
\* recorded for it (Fetch of each resolver, fetched.Digest).
MatchIsContent == MatchedIsContent /\ KnownContentMatches

\* However requests fail or find nothing, Fetch returns what they found, and keeps
\* nothing on disk (Fetch of each resolver).
EndsForCause == TypeOK /\ GoneIsPermanent /\ StagedReleased
=============================================================================
