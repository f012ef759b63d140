------------------------------- MODULE MCMaven -------------------------------
(***************************************************************************)
(* Instances of Maven.tla for TLC: every registry of four POMs, with       *)
(* cycles, missing ancestors and licenses at any of them.                  *)
(***************************************************************************)
EXTENDS Maven

CONSTANTS c1, c2, c3, c4, c5, mit, apache

Pom(license, parent) ==
    [parses |-> TRUE, large |-> FALSE, license |-> license, parent |-> parent]

Damaged == [parses |-> FALSE, large |-> FALSE, license |-> Unlicensed, parent |-> None]

\* A POM that is longer than a manifest may be.
LargePom == [Pom(mit, None) EXCEPT !.large = TRUE]

SmallPoms ==
    {Damaged, LargePom, Pom(mit, None)}
    \cup {Pom(Unlicensed, c) : c \in {c1, c2, c3, c4, c5, None}}
    \cup {Pom(apache, c4)}

PlainJar == [expands |-> TRUE, ships |-> Nothing]
JarWithPom == [PlainJar EXCEPT !.ships[0] = Pom(mit, None)]
JarWithAncestor == [PlainJar EXCEPT !.ships[1] = Pom(mit, None)]
DamagedJar == [PlainJar EXCEPT !.expands = FALSE]
SomeJars == {PlainJar, JarWithPom, JarWithAncestor, DamagedJar}
=============================================================================
