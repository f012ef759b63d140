------------------------------- MODULE Writing -------------------------------
(***************************************************************************)
(* Texts for the parser of Expression.tla.  Someone either writes an       *)
(* expression, whose meaning is then known from how it was put together,   *)
(* or types any tokens at all.                                             *)
(***************************************************************************)
EXTENDS Expression

CONSTANTS
    Words,      \* what else than an operator or a parenthesis a text holds
    Leaves,     \* the identifiers that are written, exceptions included
    MaxWritten, \* bound on the tokens of a written expression
    MaxTyped    \* bound on the tokens of a typed text

ASSUME LeafAssumption ==
    \A id \in Leaves : \/ \E word \in Shaped : id = <<word>>
                      \/ \E word, exception \in Shaped : id = <<word, "WITH", exception>>

VARIABLES
    text,       \* the declared value
    made,       \* "none", "typed", or how tightly a written text binds
    meant,      \* the sets of accepted identifiers that satisfy it
    names       \* the identifiers written into it

writeVars == <<text, made, meant, names>>

-----------------------------------------------------------------------------
(* Writing and typing.                                                     *)

\* An expression means the sets of identifiers that it is enough to accept.
Accepting(id) == {accepted \in SUBSET Leaves : id \in accepted}

WriteInit == /\ text = <<>> /\ made = "none"
             /\ meant = {} /\ names = {}

Write(id) ==
    /\ made = "none"
    /\ text' = id /\ made' = "atom"
    /\ meant' = Accepting(id) /\ names' = {id}

Bracket ==
    /\ made \in {"atom", "and", "or"}
    /\ Len(text) + 2 <= MaxWritten
    /\ text' = <<"(">> \o text \o <<")">> /\ made' = "atom"
    /\ UNCHANGED <<meant, names>>

\* Another operand on either side, in brackets of its own or not.
Operand(id) == {id, <<"(">> \o id \o <<")">>}
Join(op, id) ==
    /\ made \in IF Upper(op) = "AND" THEN {"atom", "and"} ELSE {"atom", "and", "or"}
    /\ \E operand \in Operand(id) :
          /\ Len(text) + 1 + Len(operand) <= MaxWritten
          /\ text' \in {text \o <<op>> \o operand, operand \o <<op>> \o text}
    /\ made' = IF Upper(op) = "AND" THEN "and" ELSE "or"
    /\ meant' = IF Upper(op) = "AND" THEN meant \intersect Accepting(id)
                                     ELSE meant \union Accepting(id)
    /\ names' = names \union {id}

Type(tok) ==
    /\ made \in {"none", "typed"}
    /\ Len(text) < MaxTyped
    /\ text' = Append(text, tok) /\ made' = "typed"
    /\ UNCHANGED <<meant, names>>

WriteNext ==
    \/ Bracket
    \/ \E id \in Leaves : Write(id)
    \/ \E id \in Leaves, op \in {"AND", "OR", "or"} : Join(op, id)
    \/ \E tok \in Words \union Parentheses \union {"AND", "or", "WITH"} : Type(tok)

WriteSpec == WriteInit /\ [][WriteNext]_writeVars

-----------------------------------------------------------------------------
(* Reference definitions: the grammar of SPDX expressions as a relation,   *)
(* and the meaning of a tree under a renaming of its identifiers.          *)

Written == made \in {"atom", "and", "or"}

IsIdentifier(toks) ==
    \/ Len(toks) = 1 /\ toks[1] \in Shaped
    \/ Len(toks) = 3 /\ {toks[1], toks[3]} \subseteq Shaped /\ Upper(toks[2]) = "WITH"

\* The passages of a text that are factors, terms and expressions, from those
\* that are known to be; each round knows those that are a token longer.
Passages(toks) == UNION {{SubSeq(toks, i, j) : j \in DOMAIN toks} : i \in DOMAIN toks}
Bracketed(part, inside) ==
    /\ Len(part) > 2 /\ part[1] = "(" /\ part[Len(part)] = ")"
    /\ SubSeq(part, 2, Len(part) - 1) \in inside
Splits(part, op, before, after) ==
    \E i \in DOMAIN part : /\ Upper(part[i]) = op
                           /\ SubSeq(part, 1, i - 1) \in before
                           /\ SubSeq(part, i + 1, Len(part)) \in after

Known(factors, terms, expressions) ==
    [factors |-> factors, terms |-> terms, expressions |-> expressions]
Longer(passages, known) ==
    LET factors == {p \in passages : IsIdentifier(p) \/ Bracketed(p, known.expressions)}
        terms == factors \union
                     {p \in passages : Splits(p, "AND", known.terms, known.factors)}
    IN  Known(factors, terms,
              terms \union {p \in passages : Splits(p, "OR", known.expressions, known.terms)})

IsExpression(toks) ==
    LET known[n \in 0..Len(toks)] ==
            IF n = 0 THEN Known({}, {}, {}) ELSE Longer(Passages(toks), known[n - 1])
    IN  toks \in known[Len(toks)].expressions

Means(tree, Renamed(_)) ==
    {accepted \in SUBSET {Renamed(id) : id \in Leaves} :
        Satisfies(tree, {id \in Collected(tree) : Renamed(id) \in accepted})}
Same(id) == id
Canonical(id) == CanonicalOperand(id)

-----------------------------------------------------------------------------
(* Properties.                                                             *)

\* A written expression parses, is satisfied by exactly the acceptances it was
\* written to mean, and exposes exactly the identifiers written into it, in
\* whatever order and nesting it was put together.
WrittenIsMeant ==
    Written => /\ Parse(text).ok
               /\ Means(Parse(text).tree, Same) = meant
               /\ Collected(Parse(text).tree) = names

\* The parser accepts exactly the sentences of the SPDX grammar, whatever is
\* typed.
ParsedIffGrammar == Parse(text).ok <=> IsExpression(text)

\* What String prints parses again, to the same tree but for the sides its
\* operators are read from: it is satisfied alike, names the same identifiers
\* and prints the same.  The brackets that are left out were redundant.
PrintKeepsMeaning ==
    LET parsed == Parse(text)
        again == Parse(String(parsed.tree))
    IN  parsed.ok => again.ok /\ again.tree = parsed.tree

\* Every license word of a declaration, well formed or not, is among its
\* Identifiers, by itself or as a side of an exception.
Sides(word) ==
    IF word \in DOMAIN Slashed THEN ToSet(Slashed[word]) \ {"/"} ELSE {word}
NothingUnnamed ==
    \A i \in DOMAIN text :
        ~IsParenthesis(text[i]) /\ ~IsOperatorToken(text[i]) =>
            \A word \in Sides(text[i]) :
                \E id \in Identifiers(text) : \E j \in DOMAIN id : id[j] = word

\* What Canonicalize returns is canonical: a value that was stored rewritten
\* and is rewritten again does not change.
CanonicalIsStable == Canonicalize(Canonicalize(text)) = Canonicalize(text)

\* Canonicalize keeps what an expression means, up to the names of licenses,
\* unless a bracket is inside a bracket.
Nested ==
    \E i, j \in DOMAIN text :
        /\ i < j /\ text[i] = "(" /\ text[j] = "("
        /\ \A k \in i + 1..j - 1 : text[k] # ")"
KeepsMeaning ==
    LET canonical == Parse(Canonicalize(text))
    IN  /\ canonical.ok
        /\ Means(canonical.tree, Canonical) = Means(Parse(text).tree, Canonical)
FlatKeepsMeaning == Written /\ ~Nested => KeepsMeaning

\* "Only unambiguous rewrites are made", of any expression.
RewritesKeepMeaning == Written => KeepsMeaning

\* Reading an expression: what is accepted, what it means and what it names,
\* and that it is printed as it was read (Parse, Satisfies, Identifiers,
\* String).
ReadingIsRight == WrittenIsMeant /\ ParsedIffGrammar /\ NothingUnnamed /\ PrintKeepsMeaning

\* Rewriting it changes nothing of what it means (Canonicalize).
RewritingIsRight == CanonicalIsStable /\ FlatKeepsMeaning
=============================================================================
