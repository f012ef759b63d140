----------------------------- MODULE MCVendored -----------------------------
(***************************************************************************)
(* The vendored tree of MCCollect.tla, its copies verified against         *)
(* artifacts that do and do not agree with them.                           *)
(***************************************************************************)
EXTENDS VendoredCopy, MCCollect

BytesAre == {"CR", "LF", "m", "g", "n", "x"}

\* A text may hold a CR of its own.
ContentIs ==
    "mit" :> <<"m", "LF", "CR">> @@ "gpl" :> <<"g", "CR", "g">> @@ "exotic" :> <<"x">>
    @@ "empty" :> <<>> @@ "short" :> <<"n">>

Notice == <<"docs", "COPYING">>
ArtifactsOfA == {
    License :> <<"m", "CR", "LF", "CR">> @@ Notice :> <<"n">>,
    License :> <<"m", "LF", "CR">> @@ <<"a.go">> :> <<"m">>,
    License :> <<"m", "LF">>,
    License :> <<"m", "CR", "CR", "LF", "CR">>,
    Notice :> <<"m", "LF", "CR">>,
    <<>>}
ArtifactsOfAB == {
    License :> <<"g", "CR", "g">> @@ Notice :> <<"n">>,
    License :> <<"g", "g">>}
PublishedAre == <<"a">> :> ArtifactsOfA @@ <<"a", "b">> :> ArtifactsOfAB
=============================================================================
