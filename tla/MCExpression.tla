---------------------------- MODULE MCExpression ----------------------------
(***************************************************************************)
(* Instances of Writing.tla for TLC: every expression of up to seven       *)
(* tokens and every text of up to five.                                    *)
(***************************************************************************)
EXTENDS Writing, TLC

\* "EPL-2.0" and "ASL-2.0" are looked up by their words, so brackets around
\* them make no difference; "MIT" is found only as it is spelled; "ASL-2.0"
\* names Apache's license; a bare "GPL" names no license.
SomeWords == {"EPL-2.0", "MIT", "EPL-2.0/ASL-2.0", "GPL/EPL-2.0"}
SomeShaped == {"EPL-2.0", "ASL-2.0", "Apache-2.0", "MIT", "GPL", "CPE"}
SomeListed == {"EPL-2.0", "Apache-2.0", "MIT"}
SomeNames == "EPL-2.0" :> "EPL-2.0" @@ "ASL-2.0" :> "Apache-2.0" @@ "Apache-2.0" :> "Apache-2.0"
SomeSlashes == "EPL-2.0/ASL-2.0" :> <<"EPL-2.0", "/", "ASL-2.0">>
            @@ "GPL/EPL-2.0" :> <<"GPL", "/", "EPL-2.0">>
SomeLeaves == {<<"EPL-2.0">>, <<"ASL-2.0">>, <<"MIT">>, <<"GPL", "WITH", "CPE">>}
=============================================================================
