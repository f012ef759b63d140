# A verification project for chainguard.dev/license

The Go module under `src/` finds license texts in a source tree, names the
components the tree depends on, fetches their published artifacts, and assembles
everything into a versioned *evidence bundle* that consumers store for years.
The modules here model the parts of it where order, failure and concurrency
decide the result. TLC checks them on small instances; TLAPS proves the most
important properties for every value of the constants.

Each section below says what the code does, which module models it and how, and
what is shown. `PROJECT.json` holds the line-by-line correspondence.

## 1. The system

A collection (`evidence.Collect`) is sequential; it calls into `detect`,
`component`, `contenthash` and `assess`, which are functions over a file system
(`fs.FS`). Fetching (`upstream`) is where goroutines, clocks and servers meet: a
sweep calls resolvers concurrently, and every resolver calls `fetch` and
`fetchBytes`. The consumer joins the two: it takes the tree's vendored copies
from a bundle and compares them with the artifact that `upstream` fetched
(`contenthash.Verify`).

| Component | State it keeps | Operations | What is hard | What makes it correct |
|---|---|---|---|---|
| `upstream` fetch, validate | the memo of validating clients, connection pools, a stall timer per transfer, a temporary file per artifact with one shared offset | `fetch`, `fetchBytes`, `get`, `httpClient`, dial guard, `CheckRedirect`, `guardStall`, `Digest`, `Reader`, `Close` | concurrent first use of a client; DNS that changes its answer; silent servers; a timer racing a read; cleanup on every error path; the size limit's edge | pinned clients only connect to public addresses; one pool per client; whole artifacts only; no file left behind; every call ends |
| `evidence` | the bundle under construction | `Collect`, `LocalLicenseFiles`, `Complete`, `Encode`, `Digest` | anything may be unreadable; cancellation between steps; facts derived late from what was read early | what was lost leaves a gap; the key is a fact about content; the answer is true or absent |
| `detect` | none (a shared classifier) | `Find`, `Detect`, `ClassifyExclusion`, `Conclude`, `Notices`, `Grants` | precedence of root over subdirectory, exclusion rules that overlap, errors per file | the conclusion rests on the component's own texts |
| `component` enumeration | the components found so far | `EnumerateSource`, `EnumerateInstalled`, `Finalize`, one enumerator per ecosystem | cancelled enumerators, lockfiles standing in for one another, entries in map order, digests by name and version, units without a name | the closure or a failure, each identity once, no digest of another's content |
| `component` manifests | none | `Manifests`, `DeclaredLicense`, a reader per format | alternatives, pointers at files, inheritance, damaged documents | a choice stays a choice; what is declared is weighed |
| `contenthash` | none | `Compute`, `Relative`, `NestedRoots`, `Verify`, `LicenseRef` | components vendored inside one another; a copy against its artifact | one owner per file; collecting and comparing agree; pruning is no divergence |
| `assess` | none | `Assess` | unknown against a low score; which evidence settles a relation | unknown means unread; a score of zero says why; order decides nothing |
| `upstream` archive | the members kept so far, on either side of the prefix, and two budgets | `zipFS`, `tarGzFS`, `Expand`, `Retain` | members come in any order and the root is known late; names that become one; two budgets | the evidence of one root, no text replaced, bounded, refused only for cause |
| `upstream` maven | the chain of POMs, a staged jar | `Fetch`, `pomChain`, `jarContent` | gone against transient, cycles, the cap on ancestry, a jar's own POM | the nearest declared license or an error; gone only when nothing is there |
| `upstream` resolvers, Set, checksum | a staged archive with one offset, per request | `Set.Fetch`, `Fetch` per ecosystem, `Lookup` | hashing and expanding read one offset, in either order; lockfiles of every age; gone against failed; an index in any order | a match is about the content handed out; gone is permanent; nothing stays on disk; no record is no mismatch |
| `upstream` checkout | a directory, a git process and its helpers, the caller's hook | `CheckoutRef`, `Tree.Close` | cleanup on failure and cancellation; helpers that outlive git; a retrying hook; errors told apart by what git printed | no directory left behind, nobody works in a removed one, a whole tree or none, gone only when it is or the remote says so |
| `spdx` expressions | none | `Parse`, `String`, `Identifiers`, `Canonicalize`, `FromText` | precedence, brackets left out, rewriting text before parsing it | parsing, printing, evaluating and rewriting agree |
| `spdx` tables | generated tables | `Normalize`, `Tag`, `HeaderGrant` | | |
| `internal/digest` | none | `File`, `Bytes` | CR LF pairs across chunks | the digest ignores chunk boundaries |

## 2. Modules

| Module | Models | Kind |
|---|---|---|
| `FetchContract.tla` | what `fetch` and `fetchBytes` promise their callers | abstract specification |
| `Fetch.tla` | `upstream/fetch.go` with the checks of `validate.go`, for concurrent calls | state machine, implements `FetchContract` |
| `FetchProofs.tla` | theorems about `Fetch` | proofs |
| `MCFetch.tla` | instances of `Fetch` | model checking |
| `Detect.tla` | exclusion rules and `Conclude` | pure operators |
| `ContentHash.tla` | which license file belongs to which component | pure operators, extends `Detect` |
| `Collect.tla` | `evidence.Collect`, the enumerators it runs, `LocalLicenseFiles`, `isUnknown` | state machine, extends `ContentHash` |
| `VendoredCopy.tla` | `Verify` and `internal/digest`: a consumer checks a bundle's copies | state machine, extends `Collect` |
| `MCVendored.tla` | instance of `VendoredCopy`, and of `Collect` in it | model checking |
| `CollectProofs.tla` | theorems about `ContentHash`, `Collect` and `VendoredCopy` | proofs |
| `MCCollect.tla` | instances of `Collect` | model checking |
| `Sums.tla` | `Weight`, what the elements of a finite set weigh together | pure operator |
| `Induction.tla` | lemmas: induction and recursion on the naturals, loops, sums over finite sets | proofs |
| `Archive.tla` | `upstream/archive.go`: expanding a zip or a tar | state machine |
| `MCArchive.tla` | instances of `Archive` | model checking |
| `Maven.tla` | `upstream/maven.go`, and what `component/manifest.go` then declares | state machine |
| `MavenProofs.tla` | theorems about `Maven` | proofs |
| `MCMaven.tla` | instances of `Maven` | model checking |
| `Resolve.tla` | `upstream/resolve.go`, the Go, Cargo, npm and Python resolvers, `checksum.go` | state machine |
| `ResolveProofs.tla` | theorems about `Resolve` and `Archive` | proofs |
| `MCResolve.tla` | instances of `Resolve` | model checking |
| `Checkout.tla` | `upstream/checkout.go`, with git, its helpers and the caller's hook | state machine, implements `FetchContract` |
| `CheckoutProofs.tla` | theorems about `Checkout` | proofs |
| `MCCheckout.tla` | instance of `Checkout` | model checking |
| `Enumerate.tla` | the enumerators of `component`, line by line, and `Finalize` | state machine |
| `EnumerateProofs.tla` | theorems about `Enumerate` | proofs |
| `MCEnumerate.tla` | instance of `Enumerate` | model checking |
| `Expression.tla` | `spdx/expression.go`, `spdx/canonical.go` | recursive functions |
| `Writing.tla` | someone who writes an expression or types a text, and the grammar as a relation | state machine, extends `Expression` |
| `MCExpression.tla` | instances of `Writing` | model checking |
| `Manifest.tla` | `component/manifest.go` | pure operators |
| `Assess.tla` | `assess` | pure operators, and a machine that finds evidence; extends `Manifest` and `Expression` |
| `MCAssess.tla` | instance of `Assess` | model checking |
| `LicenseProofs.tla` | theorems about `Expression`, `Writing`, `Manifest` and `Assess` | proofs |

### Fetch

One process per call. `pc[f]` is the point the call has reached, from "validate"
through "load" and "store" (the two halves of `httpClient`, between which another
call may run), "do", "headers", "temp" and "copy" to an outcome. A call of
`fetch` is in `Staged` and writes a temporary file; the others are `fetchBytes`.
`memo` is `wrappedClients`; a wrapper is named by the call that built it, and
`conns` holds the connections of the wrapper's pool.

The environment is left free: each DNS lookup answers with any set of addresses,
the server sends a redirect, any status, a body of any length up to `MaxBody`, in
pieces, and may stop for ever; the caller may cancel at any time. The watchdog
is the Go timer as it is: expiry starts the callback in a goroutine (`firing`), a
read may arm the timer again before the callback has run, and `stop` cannot
recall it. A read that moved bytes (`Read`) and its `stall.Reset` (`Rearm`) are two steps,
between which the timer runs on and may expire; `waited` is the silence that such a read ended.
Time passes in ticks, `Stall` of them being `DefaultTimeout`.

`limit+1` is computed in an integer whose largest value is `MaxInt` and wraps,
as int64 does. An `*http.Client` whose transport is not an `*http.Transport` is
outside `Pinned`: `pinning` returns it unchanged and it dials what it likes.

The contract has no network: a call ends once, in an artifact within its limit,
"gone" or an error, and holds a file only while its artifact is open.

### Detect and ContentHash

A path is the sequence of its segments. The tables of names are constants, and a
text is a value of which only `Named[t]`, the identifiers it classifies to, is
known. `Compute` sorts and length-frames its records before hashing, so a hash
is represented by the set of its records: two hashes are equal when these are.

### Collect

`pc` walks through `Collect` in the order of the code. What may be unreadable is
the set `Breakable` of files, directories and installed units; `fault` fixes for
each of them, at the start, whether it opens, does not open, or (for a license
file or a declared one) opens and cannot be classified. Some license files are links
(`Links`), and a link may be "astray": what it names is not there, outside the tree, or no regular
file. Discovery passes over it and records nothing; declared by path, it is a file that does not
open. `Cancel` may come between any two steps.

`Detection` is one action: the code looks at the context before every file, and
a cancelled loop returns an error and no bundle, as a cancellation before it
does. The enumerators are one action each, because a cancellation between two of
them has an effect of its own: the first one that finds the context cancelled is
recorded as failed, those after it are not. `Assemble` is what follows: the union is
finalized, vendored copies are found among the license files, copies and the
subject are hashed, the gaps of failed enumerations and unreadable files are
added, the conclusion is drawn and `isUnknown` is answered.

The last section before the properties describes the tree as it is, without
faults: the properties compare the bundle with it. A link that is astray is not there
(`LicenseFiles`), because that is what the code and its tests take it for. `LeftOut` is what an
enumeration leaves out with nothing to show for it: the modules that go.sum does not list when it
stands in for `vendor/modules.txt` (`Unlisted`), and the units below an installed directory that
cannot be listed (`PassedOver`).

### VendoredCopy

A consumer, after a collection, takes a copy from the bundle and an artifact that was
fetched for its purl, and asks `Verify`. The digests of `Collect` are names of texts; here a
text has its bytes, as far as line endings go, and is hashed as `hashNormalized` does it:
`Turn` is a turn of its loop, on one byte of a chunk. A CR that ends its chunk is held back
until the next shows whether an LF follows, and is written after the last. The artifact may be cut
into chunks anywhere. `Check` records the copy, the artifact and the result. The properties compare the
result with the tree and the artifact as whole texts (`Unix`), through every fault of the collection.

### Enumerate

One enumeration of a source tree and a build's trees, uncancelled (cancellation is in
`Collect`, whose `Names` is what these enumerators find). A file is the set of the records it
is parsed into; any of the files may be unreadable, and a walk may have to pass over some
directories (`skipped`: those it cannot list, and a dist-info directory that is a link), for which
it has no error. `Visited` is what it comes to. The enumerators take lines in any order,
which is that of Go's maps, so `seen` decides which of two npm entries is kept and
`Dedupe` which of two components. A component carries its digest, the scheme, and the file it
came from.

### Checkout

`pc` is where `CheckoutRef` and `clone` are; the hook's part is "hook", the part of
`cmd.Run` that waits for git "perform". git is a process of its own that writes, succeeds,
fails or never ends; a helper of its shares its standard error, so that `cmd.Run` waits for
it too, for ever if it never ends: a kill reaches git alone. Six hooks stand for what a caller's `Runner` may be: the default one, one that tries
again, one that fails after a success, one that hides an error, one that calls nothing, and one
that does not wait. What was printed is a sequence of lines, each git's or the remote's; the remote
may print anything at any time, lines that read as git's own included; `Sanitized` cuts it. The command's environment is a sequence of
variables of which a process sees the last of each.

`CommandSees` compares it with what a checkout should see. `ImplementsContract` shows
that a checkout keeps the contract of a fetch, the directory being its file; that it ends
is not part of it, because only the caller's context watches a clone.

### Expression, Manifest and Assess

A text is the sequence of its tokens. `Expression` translates the recursive descent, the
printer, the evaluator, and `Canonicalize`, which works on the text with regular expressions
before it is parsed. The loops of `parseOr` and `parseAnd` are tables of their turns (`Joined`),
and the descent into brackets is one of how deep they are (`Nesting`): what is read of a text
inside brackets is worked out before what is read outside them. `rewriteOperands` and
`slashChoice` are tables too, over the tokens (`RewriteTurn`, `SlashTurn`): a turn has what was
written so far and where the operand that has begun starts. A tree is kept as what its
methods make of it, which for a node follows from what they make of its children: the
identifiers it collects, the sets of them that satisfy it, and the text it prints.

`Writing` is the parser's environment. Someone writes an expression, whose meaning (the sets of
accepted identifiers that satisfy it) grows with it, or types anything. The properties compare
with that meaning and with the grammar as a relation (`IsExpression`), which knows no
positions: of the passages of a text it finds those that are factors, terms and expressions.

`Manifest` reads documents into values; a document is what the format's own parser makes of
it. Nothing an assessment does depends on the order in which a directory lists its manifests,
so those that declare something are a function of their names. `Assess` computes the three terms
and the flags from what was found, in the order it was found; a score is a pair of naturals, so
that it is exact, and the parser and `Canonicalize` are those of `Expression`. After every piece
of evidence `assessment` is what `Assess` makes of what was found so far, so a property can
compare it with the one before: what a piece may move is an action property.

### Archive

One expansion. `next` walks the members in the order of the archive; for each one
the code sanitizes its name, notes whether it lies in the prefix, and passes it over
or reads it into `kept`. `total` is the budget of the members read, `spent` that of a
tar's stream, which every member draws on, kept or not. The order matters:
`prefixSeen` is set by the first member in the prefix, and what was kept from
outside until then is neither handed back (`Resolve`) nor refunded.

A path is the sequence of its segments, `path.Clean` a fold over it. A tar's headers and
end are `Header` units of the stream each. Reads that fail for a damaged archive may come
at any member.

### Maven

`registry` is what the repository holds for every coordinate, fixed and arbitrary; a
request answers with it, says that it is gone, or fails for now, as `FetchContract`
allows. `pc` goes through `pomChain`, `jarContent` and the rest of `Fetch`. `result` is
what is in the artifact under the names `POMName` gives: the files the jar ships there,
then the POMs of the chain over them. `DeclaredMaven` reads it as `declaredMaven` does.

The properties compare it with `Ancestor`, the line of parents as the registry has
it, which knows nothing of `seen` or of the order of requests.

### Resolve

One component, from `Set.Fetch` to an artifact, and then a `Lookup`. The registry,
the index's listing, the lockfile and the checksum database are arbitrary and fixed.
`todo` holds what `Fetch` of that ecosystem has left to do, in the order of its code:
Go and Cargo hash and then expand, npm expands and then hashes, Python asks the index
first. `staged` is the content of the temporary file and `offset` where it is read next;
a zip and `dirhash` read it by position or path, `tarGzFS` and the digests as a stream.

A digest is the pair of its algorithm and the content. A lockfile records a sequence of
them, because an npm integrity string may hold several. Every request may fail
for now, and so may hashing and expanding.

## 3. Runs

A property with names in brackets is the conjunction of these, each stated in the module
with a comment of its own.

| Run | Shows | Bounds, and why they are enough |
|---|---|---|
| `shared_clients` | `PublicPeers`, `OneWrapper`: no order of lookups, dials, redirects and pooled reuse connects a pinned client to a non-public address, and racing calls share a pool | 3 calls, two of them on one client and one on a client that is not pinned; 2 hosts, one refused by its URL; 2 addresses, one not public (every mixed answer occurs); 2 requests per call, so a redirect and a refused hop; no bodies |
| `transfer` | `ArtifactIntegrity` (`WholeArtifact`: whole and within the limit; `FileOwned`: every file is that of a running call or an open artifact; `DigestWhole`: a digest starts at the first byte), `ExpiresOnlyWhenSilent`, `EveryCallEnds`, `ImplementsContract` | a staged and an in-memory call with a limit of 1 each and bodies of 0 to 2 bytes: below, at and above it; 2 ticks, so a read may come before, between and after, and the timer may expire between a read and its Reset; every outcome, every use of a staged file |
| `vendored_tree` | `OwnershipAgrees` (`OneOwnerPerFile`, and `LocalCopyAgrees`: comparing reads what hashing read), `KeyIsContent`, `ClosureOrGap`, `RootLicenseSpeaks`, `VerdictIsTrue` (`PristineIsPublished`: what is called pristine has the artifact's texts; `PrunedIsPristine`: a copy that was only pruned is) | a Go tree that vendors `a` and, inside it, `a/b` and `a/r`, the last replaced by a fork that go.sum does not list; go.sum also lists a pruned module and a second version; the root's license and `a`'s are links; one cargo and one npm lockfile; one Python and one Java unit, the jar in a directory of its own; 8 places that may break, `vendor/modules.txt`, both links and that directory among them; cancellation at each step. Then 6 artifacts for `a` and 2 for `a/b`: the same text with LF or CR LF, with a file more, cut short, with a CR too many, under another path, without files; cut at any of 3 places, between a CR and its LF too |
| `conclude` | `NothingLostSilently`, `CompleteAnswerIsTrue`, `ConclusionIsKeyed`, `LaterNeedsNotice`, `UnreadIsUnknown` | a tree whose root license is a link and which has two declared texts below the root, one of them with a name that no license file has; a fixture's exotic license, a supplementary file, two source heads that grant different licenses, a README; 10 places that may break, the root and the link among them |
| `checkout` | `DirectoryIsKept` (`TreeIsWhole`, and `NobodyInRemoved`: nobody works in a removed directory), `GoneIffMissing` (`GoneIsTrue`, `MissingIsGone`), `CommandSees`, `CancelledEnds`, `ImplementsContract` | every hook, with a ref that exists and one that does not; every credential (none, one that cannot be minted, empty, a token) for a host that may have it and one that may not; an empty environment and one that sets all variables in question; a URL or ref that is refused; up to 3 lines of the remote's, "not found" among them, against a message of 2, so a permanent error is said in time, last, or too late, by git or by the remote; a helper that ends or does not |
| `enumerate` | `NoBorrowedDigest`, `NothingMissed` (`ShippedAnywhere` for npm, `InstalledOrFailure` for the trees of a build), `OncePerIdentity`, `AnchoredInOwnTree` | every subset of the 9 Go facts (two go.mod and a fixture's, go.sum with two versions and a go.mod hash, modules.txt with a replacement), of 8 Cargo facts (one version from a registry, git and the tree itself, a metadata table, a fixture's lockfile), of 8 npm facts (development and not, alias, link, two digests, both layouts, a shrinkwrap), of 9 installed units (two spellings of a name, the package's own, a shaded jar, units without a name), and of a mix; any of the files unreadable; the directory of a lockfile, the output or one dist-info directory passed over; every order |
| `assess` | `ScoreIsExplained` (`ZeroIsExplained`, and the types), `ManifestsAreHeard` (`DeclaredIsWeighed`, `PointerEarnsNothing`, `AgreementIsNoConflict`), `ChoiceIsAnyOf`, `OnlyEvidenceMoves` (`OrderIsIrrelevant`, and of a step: `UnidentifiedNeverHelps`, `OnlyContentScores`, `ProseOnlySettles`) | up to 3 pieces of evidence, of 8 files, 17 documents in every format, 2 mentions and a loss, and 3 declarations. Three are enough for two texts whose licenses a third piece relates |
| `expression` | `ReadingIsRight` (`WrittenIsMeant`, `ParsedIffGrammar`, `NothingUnnamed`, `PrintKeepsMeaning`), `RewritingIsRight` (`CanonicalIsStable`, `FlatKeepsMeaning`) | every written expression of up to 7 tokens out of 4 identifiers, one with an exception, and every typed text of up to 5 tokens: words that are looked up as they are, by their letters alone, not at all, or with a slash |
| `nested_brackets` | `RewritesKeepMeaning` is violated | as `expression`, written expressions only |
| `archive` | `OneRoot`, `OneText`, `BoundsDecide` (`HeldWithinBound`, `RefusedForCause`) | all sequences of up to 4 of 8 members: a license in the prefix, another that cleans to the same name, source only, one outside, one that leaves the root, an empty one, a second one, a symlink; both formats; sizes 0 to 3 against a bound of 4, so archives end below, at and above it, and streams at theirs; one member too many |
| `maven` | `NearestDeclares`, `EndsForCause` (`FailureIsReported`, `GoneIsGone`, `JarReleased`) | every registry of 4 nameable coordinates and one that is not, each absent or one of 10 POMs (damaged, too large, licensed, with any parent, itself included); 4 jars or none; ancestry 3, so chains end by the bound, by a cycle of 1 to 3, by a gap and by a license; every request may fail |
| `resolve` | `MatchIsContent` (`MatchedIsContent`: a match is about the content handed out; `KnownContentMatches`: the recorded content does match), `EndsForCause` (`GoneIsPermanent`, `StagedReleased`), `ChoiceIsStable`, `WitnessSawIt` | one component of each ecosystem and one without a resolver; two archives that expand and one that does not; lockfiles with no digest, one of either archive (in an algorithm `integrityOf` knows or not), and two; every listing of up to 3 of 6 files in every order: two source distributions, one of them unreadable, wheels that tie and one that was removed, another kind; checksum records of up to 3 lines, or none |

In every passing run each property is violated by a plausible slip in the code
(listed under `mutants` in `PROJECT.json`), so the bounds do reach the case each
property is about.

`CHECK_DEADLOCK FALSE` is set throughout: a collection, a call and an enumeration end.

### Fairness

`Collect`, `VendoredCopy`, `Archive`, `Maven`, `Resolve` and `Enumerate` are checked for
safety only: each is a loop that ends by construction. What `Writing` and `Assess` ask about are
functions. `Fetch` states weak fairness for what the
process itself sees to: a goroutine that can run runs on (validation, the memo,
creating the file), a lookup or dial comes back, an armed timer counts down and
expires, an expired timer's callback runs, a wait for headers ends at the
transport's `ResponseHeaderTimeout`, and a transport whose context is cancelled
fails the read in progress. Nothing is assumed of the server, which may never
answer nor send another byte, nor of the caller. `EveryCallEnds` holds because
the watchdog replaces fairness of the server.

`Checkout` states weak fairness for the caller's goroutine, its hook included (it calls and returns; how
long it waits is its own affair) and for the delivery of a kill (`exec.CommandContext` watches the
context). Nothing is assumed of a git that runs, of its helpers, nor of the remote. Once git has
ended or the caller has cancelled, `CancelledEnds` promises an end, or else that the call is held
for ever by a helper that outlived its git and never ends (`HeldByHelper`): `clone` sets no
`WaitDelay`, so that is all that the code provides.

## 4. Proofs

`tlapm` checks every proof with no assumption but the `ASSUME`s of the modules,
which the runs evaluate.

*Induction.* The library's induction theorems take an operator as a parameter, which the
provers cannot instantiate. `Induction` says the same of sets: a set of naturals that is not
empty has a least element, and one that holds 0 and with each number its successor holds
all (`Climb`). From these follow that a table whose entries are computed from the ones before is what
its definition says (`Recursion`), what a loop has after each turn (`TurnsAre`), and that
what holds of the empty set, and of a set if it holds of that set less one element, holds of
every finite set (`Shrink`). `Weight` is a fold that picks elements in an order nobody knows;
`WeightSplits` says that the order does not matter, and `WeightGrows` and
`WeightOfPartIsLess` follow.

*Fetch.* `Invariance` proves an inductive invariant `IInv`. The type invariant is
not inductive by itself: to keep it, the number of requests must be related to
the stage (a call that is about to send has made fewer than `MaxRedirects`).
`PublicPeers` needs that a connection belongs to a wrapper whose client is that
of the call that built it, and `OneWrapper` that a call's wrapper is what the
memo holds, so that `LoadOrStore` never replaces one. `FileOwned` and `DigestWhole`
need the files of calls that still run and the offset of one whose artifact is open.
From `IInv` follow
`TypeCorrect`, `PeersArePublic`, `WrapperIsShared`, `FilesAreOwned`,
`DigestsAreWhole`, `WatchdogIsPatient` (an action property: the ticks since the timer was armed
are those without a byte, counting, for a read that has not come to its Reset, those before
it), `ArtifactsAreWhole` (under the
assumption that no limit is `MaxInt`; section 6 says why it is needed)
and `ImplementsContractSafety`: under the refinement mapping every step of `Fetch` is
a step of the contract or none.

*Ownership.* `NoSharedRecord` (of `ContentHash`): for any tree of roots, no license file is a
record of two components. It rests on `InsideTransitive` and `InsideLinear` (two roots that
hold one file lie inside one another) and on `LongestOwns`.

*Collect.* `IInv` says of a bundle how it was made of what was read
(`Assembled`), and of what was read that it is the answer of `Detection`
(`Discovered`). From it follow `TypeCorrect`, `LocalFilesAreHashed`,
`FilesHaveOneOwner` (with the lemmas about `ContentHash`: it also needs that every
copy's root starts with the vendor directory, so that no file in it is the
subject's own) and `ConclusionsAreKeyed`, for whatever was declared.

What a bundle says of the tree as it is needs more of what was read: that `files` is exactly
what the walk reached and what was declared, as it opens, that lost sources and directories are
gaps, and that only links go astray (`ReadInv`), that the answer is drawn from what was read (`AnswerInv`), and that, where no
enumerator has failed, each that had its turn has added all it names (`EnumInv`). The argument
of `LossesAreGaps` is then that of the walk: a license file it did not reach lies below a
directory that does not list, the shallowest of those above it (`FirstObstacle`, by the
well-foundedness of `<`) was reached, and it is a gap. Where no gap touches the tree, the files
read are then all those that count as there (`LicenseFilesAre`). `KeysAreContent`, `RootIsNotReplaced`,
`SuffixesAreGranted` and `UnknownIsUnread` follow for every tree and every fault; `CompleteAnswersAreTrue` for a finite tree; `ClosuresAreWholeOrGapped` for
every tree, whatever its go.sum lists: what `LeftOut` names is what may be missing without a gap.

*VendoredCopy.* `ChunksDoNotMatter`: whatever the chunks, what is hashed of a file is its `Unix`
form. The argument is about one turn of the loop (`TurnIs`): after n bytes, what was written is
`Unix` of them, or, while a CR is held, of those before it (`Halfway`). So `Verify` compares texts.
That a copy that verifies holds nothing else needs that a license file of
the tree is in the bundle with its text, or lost (`ReadOrLost`). That a pruned copy verifies
needs more: the modules in a bundle are all those that the list which was read names, or none
(`ModulesInv`), so that a module nested in the copy has a copy of its own
(`NestedAreKnown`) and its files are not taken for those of the copy around it. Were modules.txt
lost and go.sum to leave that module out, they would be: `PrunedIsPristine` says nothing of exactly
those trees (`NestingUnknown`), and `VerdictsAreTrue` needs no assumption about go.sum.

*Archive.* The inductive invariant relates the member that comes next with what is kept:
the prefix was seen exactly when a member before it lies there, all that is kept is
evidence of a member before it, and all such evidence is kept that may still be
handed back. `ExpansionIsOneRoot` and `NoTextIsReplaced` follow for every archive, prefix
and bound. For `BoundsDecideBothWays` the two budgets are sums (`Budget`): `total` is what
the members that were read weigh, `spent` what the stream did until then. An expansion is then within every
bound because what it holds is a part of what was charged, and one refused is beyond one because
the sums only grow.

*Maven.* The invariant relates the chain to the registry: every POM in it was
looked at (`seen`), a chain that is not empty means that the component's own POM exists,
and a chain that is empty when the jar comes means that it is gone. From it follow
`FailureReachesTheCaller`, `GoneMeansNeither`, `JarIsReleased`, together
`ResolutionEndsForCause`, and `CyclesAreCut`: no chain has a POM twice.
`NearestPomDeclares` compares with `Ancestor`, which goes on through a cycle for ever: the
chain is the line of ancestors as far as it goes and none of those before declares a license
(`PathInv`). When the walk has stopped, no ancestor within the bound declares one that the
chain does not have (`Settled`): the line ends there, or comes back to a POM of the chain
and holds nothing else from then on (`ClosedHoldsAll`).

*Resolve.* The invariant ties what is left to do to what was read: once only "expand" or
nothing is left the digest is that of the staged content, and once only "digest" or nothing
is left the file system is. `NoFalseMatch` and `StagedIsReleased` follow. `FetchInv` says
what each step finds that the one before it has left: the file chosen before it is requested, a
staged content before it is hashed (`FlowInv`). It contains what gone and a checksum record may be said
of. From it follow `FetchEndsForCause`,
`WitnessIsOfTheEvidence` and `MatchesExactly`. `ChoiceDoesNotDependOnOrder` is about a
loop over the files of a release; its invariant is that no file seen so far is better than
the one it has (`Chosen`). `ResolveAssumption` says what lockfiles and records are: sequences of
digests, of which only npm's may hold several.

*Checkout.* The directory's state is fixed by `pc` up to what git does in it (`DirectoryInv`).
Nothing runs before the hook performs the command, and after it something does only if the hook
did not wait (`ProcessInv`); that is what lets a directory be removed. `TruthInv` says that git
succeeds, or itself reports a missing ref, only of a remote that is so: any other permanent line
among those that are kept is the remote's, and `GoneIsTrue` is inductive.
`DirectoryKept`, `GoneExactlyWhenMissing` and `CheckoutKeepsContract` (a step of `Checkout` is one
of `FetchContract` or none) hold for every request, every bound on the message and anything that a
remote may print; of the constants it is assumed that git's own words for a transient error do not
read as a permanent one. `EnvironmentIsSet` rests on `LastIsSeen`: what is appended to an environment
last is what a process sees.

*Enumerate.* Between two lines the components of an ecosystem are those of the lines that were
taken (`CargoInv`, `NpmInv`): of npm's only the identities, because which of two equal entries
is kept depends on the order. A unit that was looked at is installed or missed (`DistInv`,
`JarInv`), and those looked at are all that no walk passes over. The lemma `FinalizeTwice`, that finalizing two halves and then their union keeps the
identities that finalizing everything at once would, carries this over to the closure. Hence
`ClosureOncePerIdentity`, `ClosureAnchored`, `ClosureMissesNothing` and `DigestsAreOwn`, for
every tree in which no two lockfiles of a name come at one place of a walk and a metadata table
has one entry for a package of one source (`TreesAssumption`).

*Expression.* The parser goes by positions and the grammar by rules, so both are compared with a
third thing: the phrases that can be derived, each with how tightly it binds and the tree that
its derivation builds. `Derivable` is the least set of them that the rules close (a name, brackets,
an operator between two phrases); whatever holds of each rule's phrase when it does of its parts
holds of all (`Derivations`), which is the induction over trees that the provers lack. What the
parser reads can be derived, by induction over the depth of brackets and the turns of its loops
(`ParsedIsDerivable`). What can be derived is read, and nothing beyond it is taken: wherever the
phrase stands and no operator that binds as tightly follows, the parser ends at its end, with its
tree (`DerivableIsParsed`). So a phrase has one tree. The recognizer works a token
longer with each round; after n rounds it knows the derivable passages of up to n tokens. This
gives `ParserIsTheGrammar`, for any text at all. For `ReadingIsSafe` the invariant of `Writing`
says that a written text is a phrase whose tree means what was written (`WriteInv`); joining a
phrase to the right of an operand takes the phrase apart again (`JoinRight`), because AND and OR
are read from the left. That a printed tree is read again, as itself, is one more rule induction.

`RewritingIsSafe` is about `Canonicalize`, which cuts a text at its operators before anything is
known of brackets. `RewriteSplits`: rewriting the two sides of an operator that is cut at, and
putting the operator between them, is rewriting the whole, because the turns after the operator
know nothing of what is before it. So an operand that was rewritten is rewritten to itself, and
so is what was written of all (`CanonicalizeIsStable`, for any text at all). That a meaning is
kept is a rule induction (`RewriteKeeps`): a phrase that groups no operators and has no bracket
in a bracket, rewritten, can be derived again, binds as before, and its tree means the same up to
the names of licenses (`MeansAlike`). A bracket in such a phrase holds one license, so that it
may vanish around its identifier; the first and last tokens of a phrase show that no cut
touches a bracket (`Whole`).

`WordAssumption` says what words and tables are: what `identifierRe` matches is no operator, no
parenthesis and has no slash; words joined by slashes are no operator and no parenthesis either; a
license that is listed is such a word and is known by its own name; no operator is a name of a
license; and a name stands for a listed license. `LeafAssumption` says that what is written are
identifiers.

*Assess.* The invariant is that the assessment is that of the evidence found, and that the
evidence is some there may be (`AssessInv`). The rest is about the functions: the counts of
files of a sequence with one more (`Append`) or backwards (`Reverse`), the best match as the
greatest of a finite set, how certain a relation can be. `ScoreIsSafe` and `OnlyEvidenceScores`
follow, the latter for every piece of evidence at any point: one more unidentified text raises
the number of texts and none of the factors, and products keep that order. `ManifestsAreWeighed`
rests on what each reader hands on. `ChoicesAreAnyOf` joins `Assess` to `Expression`: after n
turns of the loop of `JoinChoice`, what is joined is, rewritten, an expression that means any of
the first n values (`Offered`), by `RewriteSplits` around the OR that a turn adds
(`TwoStandAlone`), and what is an expression when it is rewritten is read as that
(`ReadAsRewritten`). `EvidenceAssumption` says what evidence is: matches are shares of a
percent, only a crate's manifest and PEP 621's table point at a file, and the lists of
package.json and of a POM have the shapes their readers accept (`IsField`).

`TypeOK` is proved for every module with a theorem named `TypeCorrect` (`Fetch`, `Collect`,
`Maven`, `Checkout`, `Enumerate`); Maven's says that no chain is longer than `MaxPOMAncestry`, for
any registry. The others have it as a conjunct of a property that is proved: `BoundsDecide` of
`Archive`, `EndsForCause` of `Resolve` and `ScoreIsExplained` of `Assess`.

Model-checked only:

- liveness (`EveryCallEnds`, `CancelledEnds`) and the liveness half of the contract: fairness
  and ENABLED are out of the prover's reach;
- `RewritesKeepMeaning`, which is false (section 6).

So every safety property of the passing runs is proved.

## 5. What is abstracted

- Lockfile grammars, JSON, TOML and XML: a file is the records it is parsed into, and one that
  does not parse is one that cannot be read, which is what the code makes of it. In `Collect`,
  `Names[f]` is what the enumerator returns of it, as `Enumerate` has it line by line.
- `Collect`'s tree has one `go.mod` and one lockfile per ecosystem; `findShallowest` chooses
  among several in `Enumerate`. Its components are the set of their purls; digests and
  `Finalize`'s choice among several of them are in `Enumerate`, where sets stand for the
  slices that `Finalize` sorts.
- Escaping of purls and URLs. A purl is the record of its parts; names that cannot be
  escaped into a usable one are `Unusable`.
- The wording of prose: what `ChoiceOfLicense` looks for is a field of a mention.
- `cloneArgs`, and the control characters that `sanitizeStderr` removes.
- `Notices` samples at most `MaxNoticeFiles` heads of a larger tree; here there are
  never more.
- A file declared by path is opened even below a directory that cannot be
  listed: opening needs no listing.
- The tree of an expression has no sides: two trees with the same identifiers, meaning, text and
  operator are one. No method of a tree tells more.
- Notes, JSON encoding, `LicenseRef` and retained text are left out, and rationales of an
  assessment. `WithoutGrant` has no caller in the module.
- The classifier (a library over a corpus) is `Named` and `Resolves`; the SPDX tables are
  constants; the generator of these tables runs at development time.

## 6. Where the code and its comments differ

| Run | Comment | Code |
|---|---|---|
| `nested_brackets` | `canonical.go:33`: only unambiguous rewrites are made; `:49`: splitting is only safe when no parenthesis is grouping | the test for grouping misses a bracket that holds another one: `((EPL-2.0) AND MIT)` becomes `EPL-2.0 AND MIT)`, which does not parse, and `(EPL-2.0 OR (Apache-2.0)) AND MIT` becomes `EPL-2.0 OR Apache-2.0 AND MIT` |

`FlatKeepsMeaning` shows that brackets in brackets are the only case.

Seen while modelling, in the models, and without a run of their own:

- `fetch.go:311` says that one byte past the limit tells the two apart; `limit+1` wraps for
  `math.MaxInt64`, and an empty file is returned as the artifact. `ArtifactsAreWhole` assumes
  that no limit is that large.
- `assess.go:196`: a component read completely that ships no license text is not unknown.
  An unreadable lockfile is among the reasons `gapDetails` passes on (`collect.go:356`), so
  a thin component with one is unknown.
- `bundle.go:211`: a complete bundle gathered every kind of evidence. A notice that cannot
  be opened is dropped without a gap and turns or-later into only (`grant.go:114`).
- `bundle.go:36`: a license file that could not be read is told from one that is not there. A
  license link that leads nowhere or out of the tree is passed over without a gap
  (`discover.go:176`, as its tests ask), so a deeper text may answer for a root whose license is such
  a link. `NothingLostSilently`, `RootLicenseSpeaks`, `KeyIsContent` and `CompleteAnswerIsTrue` count
  it as not there.
- `bundle.go:69`: without the gap for a lockfile, one that could not be read would look like one
  with no dependencies. An unreadable `vendor/modules.txt` is passed over for `go.sum`, silently
  (`golang.go:70`). A module replaced by another or by a directory is not in go.sum under the
  version it has in modules.txt, so it goes missing without a gap. `ClosureOrGap` excepts exactly
  these (`Unlisted`); a pruned copy around one of them is then called divergent, which
  `PrunedIsPristine` excepts (`NestingUnknown`).
- `bundle.go:41`: a gap is what tells evidence that is absent from evidence that was lost. An installed
  subtree that cannot be listed, and a dist-info directory that is a link, are passed over without a
  Failure (`python.go:141`, `java.go:114`). `ClosureOrGap` and `InstalledOrFailure` except what is
  below them.
- `fetch.go:288`: the watchdog only fires on a transfer that has stopped. A read may move bytes
  at the very end of the time and the timer expire before its `Reset` (`fetch.go:335`), which then
  recalls nothing: the transfer fails. `ExpiresOnlyWhenSilent` excepts exactly that.
- `collect.go:242` says that hashing a fixture's text would make an edit of it re-key the
  subject. One with a supplementary name, `testdata/PATENTS`, is classified by its name before its
  place (`scope.go:148`), so it is hashed into the subject's key.
- `bundle.go:139`: the key a determination is stored under. It leaves out a declared file
  with an unconventional name, which the conclusion may rest on (`collect.go:224`), so that
  an edit of it leaves the stored determination in place. `ConclusionIsKeyed` excepts exactly that.
- `collect.go:292` says that Python is excluded from vendored copies; `vendoredRoots` does
  not look at the ecosystem, so a distribution named like a vendored directory gets one.
- `conclude.go:93` speaks of a root that holds a license file; a declared root path
  that does not exist counts as one.
- `pomChain` stops at a POM that declares a license, of up to `MaxMetadataBytes`
  (16 MiB); `pomLicense` reads up to `maxManifestBytes` (4 MiB), so one in between
  declares nothing. `NearestDeclares` leaves it out (`NoneTooLarge`).
- A jar may ship a `pom-parent-1.xml`, which is read as an ancestor when the chain
  has none there. `NearestDeclares` leaves it out (`ShipsNoAncestor`).
- An archive whose evidence is exactly `MaxExpandedBytes` long is accepted, and refused
  when an empty member comes after it (`archive.go:207`).
- `fetch.go:57` bounds the wait for headers; that bound is on `defaultClient`'s transport
  only, and a client the caller passes is not given one (`HeaderTimeout`).
- `ChecksumResult` says that `Recorded` is empty when the database has no record; a
  database that answers 404 makes `Lookup` return `ErrGone`.
- An npm integrity string with several digests never matches: `integrityOf` makes one and the
  comparison is of whole strings. `KnownContentMatches` asks about one digest.
- A source distribution in a format `expand` does not know is preferred over a wheel it
  does, and the component is lost.
- `grant.go:96`: heads are sampled by a stride, which is 1 for less than twice the cap: the
  tail of such a tree is never sampled, though line 61 says that the sample is spread.
- `source.go:63`: `SourceComponent` names a `DigestAlgo` beside an empty digest, which
  `component.go:93` rules out; `repositoryPath` leaves `git@host:o/r` as it is.
- A replaced Go module `a v1 => b v2` is named `a@v2`, and one replaced by a directory has
  the directory as its version (`golang.go:141`).
- A version 1 Cargo.lock's `<none>` checksum is recorded as a digest; a version 1 npm alias
  has the version `npm:real@1`; an `npm-shrinkwrap.json` wins over a `package-lock.json` wherever
  it is; a go.sum line that is too long ends the parse without a failure.
- `expression.go:138` speaks of grants that detection cannot tell apart; nothing calls
  `WithoutGrant`, so a declared GPL-2.0-or-later conflicts with a detected GPL-2.0.
- `Manifests` looks at the root only, `DeclaredLicense` also at a wheel's metadata below it:
  `DeclaredIsWeighed` leaves that one out. `ReadPyPIMetadata` ignores its scanner's error.
- `declaredExpression` joins with AND and adds no brackets (`collect.go:334`), so a declared choice
  beside another file's license reads as a choice of the whole.
- `a AND (b AND c)` prints as `a AND b AND c` and parses as `(a AND b) AND c`: equal in
  meaning, which is what `PrintKeepsMeaning` asks, and not in its sides.
- An alternative with slashes in it, joined with others by OR, is no longer read as a choice
  (`slashChoice`). One that groups operators in brackets keeps `Canonicalize` from rewriting those
  beside it: a POM that lists `(EPL-2.0 OR MIT)` and `The Apache License 2.0` declares nothing
  that parses. `ChoiceIsAnyOf` leaves both out.
- A checkout's hook that retries never succeeds: an `exec.Cmd` runs once. A missing ref that git
  reports after more than `maxStderrChars` of the remote's own output is retried; a remote whose
  output reads like "not found", such as one that refuses a credential in these words, is given up for
  gone (`checkout.go:236` searches all of what a remote controls, `:204`): `GoneIsTrue` takes its word
  as a reason. A helper that is blocked on a silent remote outlives the git that was killed and
  holds the pipe of standard error: a cancelled checkout then never returns (`checkout.go:168`, no
  `WaitDelay`; `HeldByHelper`). Removing the directory is best effort. A
  hook that returns before its command has ended lets it write into the removed directory
  (`NobodyInRemoved` leaves it out). There is no time limit on a clone but the caller's.

## 7. Plan

What is left, in this order.

1. `mavenSum`, which a Maven resolution asks as `goSum` and `cargoSum` are asked.
2. The sampling of `Notices`, against a reference definition over bounded trees.

## 8. Checking it

    tlc -config MCFetchTransfer.cfg MCFetch      # likewise every other .cfg
    tlapm FetchProofs.tla                        # likewise every other *Proofs.tla
