------------------------------ MODULE MCArchive ------------------------------
(***************************************************************************)
(* Instances of Archive.tla for TLC: every archive of up to four members   *)
(* from a handful that meet every rule of expansion.                       *)
(***************************************************************************)
EXTENDS Archive, TLC

File(path, data) == [regular |-> TRUE, path |-> path, data |-> data]

SomeMembers ==
    { File(<<"pkg", "LICENSE">>, "mit"),
      File(<<"pkg", "x", "..", "LICENSE">>, "gpl"),
      File(<<"pkg", "main.c">>, "code"),
      File(<<"other", "LICENSE">>, "mit"),
      File(<<"pkg", "..", "..", "LICENSE">>, "gpl"),
      File(<<"pkg", "docs", "COPYING">>, "empty"),
      File(<<"pkg", "COPYING">>, "lgpl"),
      [regular |-> FALSE, path |-> <<"pkg", "COPYING">>, data |-> "mit"] }

UpToFour == UNION {[1..n -> SomeMembers] : n \in 0..4}
TopDirectory == <<"pkg">>
SomeSizes == "mit" :> 2 @@ "gpl" :> 1 @@ "lgpl" :> 3 @@ "code" :> 3 @@ "empty" :> 0
=============================================================================
