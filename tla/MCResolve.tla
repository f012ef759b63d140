------------------------------ MODULE MCResolve ------------------------------
(***************************************************************************)
(* Instances of Resolve.tla for TLC: two archives that expand and one that *)
(* does not, under every lockfile, index and checksum record.              *)
(***************************************************************************)
EXTENDS Resolve, TLC

CONSTANTS plain, changed, junk

Of(algo) == {<<>>} \cup {<<Hash(algo, c)>> : c \in {plain, changed}}
Lockfiles ==
    [e \in Ecosystems |->
        CASE e \in {"cargo", "golang"} -> Of(Scheme(e))
          [] e = "npm" -> Of("sha1") \cup Of("md5") \cup
                          {<<Hash("sha512", plain), Hash("sha1", plain)>>}
          [] OTHER -> {<<>>}]

File(kind, size, name, format, content, sha) ==
    [kind |-> kind, size |-> size, name |-> name, format |-> format,
     content |-> content, sha |-> sha]
Sha(c) == <<Hash("sha256", c)>>
Published ==
    { File("sdist", 2, 1, "tar", plain, Sha(plain)),
      File("sdist", 2, 2, "other", plain, Sha(plain)),
      File("wheel", 1, 3, "zip", changed, Sha(plain)),
      File("wheel", 1, 4, "zip", plain, <<>>),
      File("wheel", 3, 5, "zip", None, Sha(plain)),
      File("other", 1, 6, "zip", plain, Sha(plain)) }
UpToThree == UNION {[1..n -> Published] : n \in 0..3}

Line(about, algo, c) == [about |-> about, digest |-> Hash(algo, c)]
SomeRecords ==
    LET lines == {Line("archive", "h1", plain), Line("gomod", "h1", changed),
                  Line("other", "h1", changed)} IN
    [e \in Databases |->
        IF e = "golang" THEN UNION {[1..n -> lines] : n \in 0..3}
        ELSE {<<>>} \cup {<<Line("archive", "sha256", c)>> : c \in {plain, changed}}]
=============================================================================
