------------------------------- MODULE Archive -------------------------------
(***************************************************************************)
(* upstream/archive.go: expanding a published zip or gzipped tarball into  *)
(* the files of it that bear on licensing.                                 *)
(*                                                                         *)
(* Members come one at a time and are kept or passed over before it is     *)
(* known whether the archive holds the directory the caller expects.  What *)
(* they may expand to is bounded in total, whatever order they come in.    *)
(***************************************************************************)
EXTENDS Naturals, Sequences, FiniteSets, Sums

LOCAL INSTANCE SequencesExt

CONSTANTS
    Archives,           \* archives, as the sequences of their members
    Prefix,             \* the directory to remove; <<>> is the empty prefix
    EvidenceNames,      \* the file names that Retain accepts
    SizeOf,             \* SizeOf[d]: bytes of the data d
    MaxEntries,         \* maxArchiveEntries
    MaxExpanded,        \* MaxExpandedBytes
    MaxDecompressed,    \* MaxDecompressedBytes
    Header              \* bytes of a tar header, and of the end of a tar

\* A member is [regular, path, data]; a path is the sequence of its segments,
\* "." and ".." among them, and begins with "/" when it is absolute.
ASSUME ArchiveAssumption ==
    /\ \A a \in Archives : a \in Seq([regular : BOOLEAN, path : Seq(STRING),
                                      data : DOMAIN SizeOf])
    /\ \A d \in DOMAIN SizeOf : SizeOf[d] \in Nat
    /\ Prefix \in Seq(STRING)
    /\ {MaxEntries, MaxExpanded, MaxDecompressed, Header} \subseteq Nat

VARIABLES
    format,     \* "zip" or "tar"
    archive,    \* its members
    next,       \* the member that is read next
    spent,      \* bytes of the tar's stream decompressed so far
    total,      \* bytes of the members read, the total of readMember
    prefixSeen, \* members.prefixSeen
    kept,       \* members.inside and .outside: [inside, name, data]
    expansion   \* "reading", then "fs" or why it failed

expandVars == <<format, archive, next, spent, total, prefixSeen, kept, expansion>>

Failures == {"entries", "expanded", "decompressed", "clash", "unreadable"}

ArchiveTypeOK ==
    /\ format \in {"zip", "tar"}
    /\ archive \in Archives
    /\ next \in 1..Len(archive) + 1
    /\ spent \in Nat
    /\ total \in 0..MaxExpanded
    /\ prefixSeen \in BOOLEAN
    /\ \A k \in kept :
           /\ k.inside \in BOOLEAN
           /\ k.data \in DOMAIN SizeOf
           /\ k.name # <<>>
    /\ expansion \in {"reading", "fs"} \cup Failures

ExpandInit ==
    /\ format \in {"zip", "tar"}
    /\ archive \in Archives
    /\ next = 1
    /\ spent = 0 /\ total = 0
    /\ prefixSeen = FALSE
    /\ kept = {}
    /\ expansion = "reading"

-----------------------------------------------------------------------------
(* Names                                                                   *)

\* path.Clean of a path that is not absolute.
Clean(path) ==
    FoldLeft(LAMBDA out, s :
                 IF s = "." THEN out
                 ELSE IF s = ".." /\ out # <<>> /\ Last(out) # ".." THEN Front(out)
                 ELSE Append(out, s),
             <<>>, path)

\* sanitizeArchivePath: <<>> is a name that is refused.
Sanitized(path) ==
    LET name == Clean(path) IN
    IF "/" \in ToSet(path) \/ ".." \in ToSet(name) THEN <<>> ELSE name

\* memberName: the name a member is kept under and whether it is in the prefix.
MemberName(path) ==
    LET name == Sanitized(path) IN
    IF name \in {<<>>, Prefix} THEN [name |-> <<>>, inside |-> FALSE]
    ELSE IF IsPrefix(Prefix, name)
    THEN [name |-> SubSeq(name, Len(Prefix) + 1, Len(name)), inside |-> TRUE]
    ELSE [name |-> name, inside |-> FALSE]

Retain(name) == Last(name) \in EvidenceNames

-----------------------------------------------------------------------------
(* One member                                                              *)

Entry == archive[next]
EntryName == MemberName(Entry.path).name
EntryInside == MemberName(Entry.path).inside
Size == SizeOf[Entry.data]

\* Symlinks and directories are passed over, as are names that are refused.
Named == Entry.regular /\ EntryName # <<>>

NotedIfRetained == prefixSeen \/ (Named /\ EntryInside /\ Retain(EntryName))

\* members.note, before any filter.
Noted == prefixSeen \/ (Named /\ EntryInside)

\* members.skip: what is outside need not be read once the prefix was seen.
Skip(inside, seen) == ~inside /\ seen

Wanted == Named /\ Retain(EntryName) /\ ~Skip(EntryInside, Noted)

\* A tar is only known to have too many members when the next one is asked for.
TooManyEntries ==
    IF format = "zip" THEN Len(archive) > MaxEntries ELSE next - 1 > MaxEntries

\* boundedReader: this many more bytes of a tar's stream cannot be had.
Exhausted(n) == format = "tar" /\ spent + n > MaxDecompressed

Fail(why) ==
    /\ expansion' = why
    /\ UNCHANGED <<format, archive, next, spent, total, prefixSeen, kept>>

RefuseEntries ==
    /\ expansion = "reading" /\ TooManyEntries
    /\ Fail("entries")

\* The header of the next member, or the end of the archive, is out of reach.
RefuseStream ==
    /\ expansion = "reading" /\ ~TooManyEntries
    /\ Exhausted(Header)
    /\ Fail("decompressed")

\* The archive is damaged here.
Unreadable ==
    /\ expansion = "reading" /\ ~TooManyEntries
    /\ Fail("unreadable")

AtMember ==
    /\ expansion = "reading" /\ ~TooManyEntries /\ ~Exhausted(Header)
    /\ next <= Len(archive)

Advance ==
    /\ next' = next + 1
    /\ prefixSeen' = Noted
    /\ spent' = IF format = "tar" THEN spent + Header + Size ELSE spent

PassOver ==
    /\ AtMember /\ ~Wanted
    /\ Advance
    /\ UNCHANGED <<format, archive, total, kept, expansion>>

EachOnItsOwn(before, n) == n

Accumulated(before, n) == before + n

\* readMember reads up to one byte past what the archive may still expand to,
\* and nothing once that is used up.
TooLarge == total >= MaxExpanded \/ Accumulated(total, Size) > MaxExpanded
ReadOf == IF Size > MaxExpanded - total THEN MaxExpanded - total + 1 ELSE Size

RefuseMember ==
    /\ AtMember /\ Wanted
    /\ \/ /\ TooLarge
          /\ total < MaxExpanded => ~Exhausted(Header + ReadOf)
          /\ Fail("expanded")
       \/ /\ total < MaxExpanded /\ Exhausted(Header + ReadOf)
          /\ Fail("decompressed")

LastWins(name, inside, data) == FALSE

\* members.add: the same name again, with different contents.
Clashes(name, inside, data) ==
    \E k \in kept : k.name = name /\ k.inside = inside /\ k.data # data

Keep ==
    /\ AtMember /\ Wanted
    /\ ~TooLarge /\ ~Exhausted(Header + Size)
    /\ IF Clashes(EntryName, EntryInside, Entry.data)
       THEN Fail("clash")
       ELSE /\ Advance
            /\ total' = Accumulated(total, Size)
            /\ kept' = kept \cup {[inside |-> EntryInside, name |-> EntryName,
                                   data |-> Entry.data]}
            /\ UNCHANGED <<format, archive, expansion>>

Finish ==
    /\ expansion = "reading" /\ ~TooManyEntries /\ ~Exhausted(Header)
    /\ next > Len(archive)
    /\ expansion' = "fs"
    /\ UNCHANGED <<format, archive, next, spent, total, prefixSeen, kept>>

ExpandNext ==
    \/ RefuseEntries \/ RefuseStream \/ Unreadable
    \/ PassOver \/ RefuseMember \/ Keep \/ Finish

ExpandSpec == ExpandInit /\ [][ExpandNext]_expandVars

\* members.resolve: the file system that is handed back.
Resolve == {k \in kept : k.inside = prefixSeen}

-----------------------------------------------------------------------------
(* Properties                                                              *)

\* The members that are regular files of a usable name, those of them that are
\* in the prefix, and what one of them contributes.
Members == {i \in DOMAIN archive :
               archive[i].regular /\ MemberName(archive[i].path).name # <<>>}
InPrefix == {i \in Members : MemberName(archive[i].path).inside}
Evidence == {i \in Members : Retain(MemberName(archive[i].path).name)}
Contribution(i) ==
    [inside |-> i \in InPrefix, name |-> MemberName(archive[i].path).name,
     data |-> archive[i].data]

\* An expansion is the evidence of one root: the prefix when the archive holds
\* anything there, evidence or not, and the whole archive when it does not,
\* whatever order the members come in (note, skip, resolve).
OneRoot ==
    expansion = "fs" =>
        Resolve = {Contribution(i) :
                     i \in {j \in Evidence : (j \in InPrefix) <=> (InPrefix # {})}}

\* No text of the expansion replaced another one: two members that end up under
\* one name hold the same bytes (add).
OneText ==
    expansion = "fs" =>
        \A k, l \in Resolve : k.name = l.name => k.data = l.data

\* The expansion never holds more than MaxExpandedBytes, discarded members that
\* came before the prefix included (readMember).
HeldWithinBound == Weight([k \in kept |-> SizeOf[k.data]], kept) <= MaxExpanded

\* The evidence the budget is spent on: what is outside the prefix only counts
\* before the prefix was seen.
Charged == {i \in Evidence : i \in InPrefix \/ \A j \in InPrefix : i < j}
Sizes == [i \in DOMAIN archive |-> SizeOf[archive[i].data]]
Expansion == Weight(Sizes, Charged)

\* What a tar's stream decompresses to.
Frames == [i \in DOMAIN archive |-> Sizes[i] + Header]
Stream == Weight(Frames, DOMAIN archive) + Header

\* An undamaged archive is refused for a reason of its own: too many members, a
\* name with two contents, or a bound that its evidence or its stream reaches.
RefusedForCause ==
    /\ expansion = "entries" => Len(archive) > MaxEntries
    /\ expansion = "expanded" => Expansion >= MaxExpanded
    /\ expansion = "decompressed" => format = "tar" /\ Stream > MaxDecompressed
    /\ expansion = "clash" =>
           \E i, j \in Charged :
               /\ Contribution(i).name = Contribution(j).name
               /\ Contribution(i).inside = Contribution(j).inside
               /\ archive[i].data # archive[j].data

\* The bounds decide both ways: an expansion never outgrows them, and what is
\* refused for them, or for a clash, has reached them (readMember, members.add).
BoundsDecide == ArchiveTypeOK /\ HeldWithinBound /\ RefusedForCause
=============================================================================
