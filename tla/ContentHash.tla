---------------------------- MODULE ContentHash ----------------------------
(***************************************************************************)
(* contenthash: the license-content hash of a component, and which of the  *)
(* license files in a tree belong to which component.                      *)
(*                                                                         *)
(* Compute sorts its records and frames each with its length before it     *)
(* hashes them, so a hash stands for the set of its records: here it is    *)
(* that set.  A record is [path, digest].                                  *)
(***************************************************************************)
EXTENDS Detect

\* strings.HasPrefix(p, root + "/"), segment by segment.
Inside(p, root) ==
    /\ Len(root) < Len(p)
    /\ \A i \in 1..Len(root) : p[i] = root[i]

Record(p, d) == [path |-> p, digest |-> d]

Compute(records) == records

Covers(p) == IsLicenseFile(p)

\* A file whose digest nobody has is left out, not hashed as empty.
From(files) ==
    {Record(f.path, f.digest) : f \in {g \in files : g.digest # None /\ Covers(g.path)}}

NestedRoots(root, all) == {other \in all : Inside(other, root)}

OwnedByNested(p, nested) == \E n \in nested : Inside(p, n)

\* The records inside root that no component nested in it owns.
Owned(records, root, nested) ==
    {r \in records : Inside(r.path, root) /\ ~OwnedByNested(r.path, nested)}

\* Their paths are made relative; a component has no root of its own when root
\* is the tree itself.
Relative(records, root, nested) ==
    IF root = <<>> THEN {}
    ELSE {Record(SubSeq(r.path, Len(root) + 1, Len(r.path)), r.digest) :
            r \in Owned(records, root, nested)}
=============================================================================
