----------------------------- MODULE Expression -----------------------------
(***************************************************************************)
(* spdx/expression.go and spdx/canonical.go: reading, printing and         *)
(* evaluating a license expression, and rewriting what a manifest declares *)
(* into one.                                                               *)
(*                                                                         *)
(* A text is the sequence of its tokens, written with one space between    *)
(* two of them except inside a parenthesis.                                *)
(***************************************************************************)
EXTENDS Naturals, SequencesExt

CONSTANTS
    Shaped,     \* the words that identifierRe matches
    Listed,     \* the words that are SPDX identifiers, spelled as listed
    Synonym,    \* Synonym[w]: the identifier of w in SPDX's names, which are
                \* looked up without regard to punctuation
    Slashed     \* Slashed[w]: the words that a word with slashes joins

Operators == {"AND", "OR", "WITH"}
Parentheses == {"(", ")"}

Upper(tok) == CASE tok = "and" -> "AND"
                [] tok = "or" -> "OR"
                [] tok = "with" -> "WITH"
                [] OTHER -> tok
IsOperatorToken(tok) == Upper(tok) \in Operators
IsParenthesis(tok) == tok \in Parentheses

\* A word is neither an operator nor a parenthesis, and identifierRe matches
\* none that has a slash.  SPDX lists identifiers, knows none by the letters of
\* another, and has no license named like an operator.
ASSUME WordAssumption ==
    /\ \A word \in Shaped : /\ ~IsOperatorToken(word) /\ ~IsParenthesis(word)
                            /\ word # "/" /\ word \notin DOMAIN Slashed
    /\ Listed \subseteq Shaped
    /\ \A word \in DOMAIN Synonym : /\ ~IsOperatorToken(word)
                                    /\ Synonym[word] \in Listed
                                    /\ word \in Listed => Synonym[word] = word
    /\ \A word \in DOMAIN Slashed : /\ ~IsOperatorToken(word) /\ ~IsParenthesis(word)
                                    /\ Slashed[word] \in Seq(STRING)

-----------------------------------------------------------------------------
(* A tree, as what its methods make of it, which for a node follows from   *)
(* what they make of its children: the identifiers it collects, the sets   *)
(* of them that satisfy it, and the text it prints.                        *)

Collected(tree) == tree.ids
Satisfies(tree, accepted) == accepted \intersect tree.ids \in tree.met
String(tree) == tree.text

\* An OR inside an AND is bracketed.
NeedsBrackets(op, child) == op = "AND" /\ child.op = "OR"
Rendered(op, child) ==
    IF NeedsBrackets(op, child) THEN <<"(">> \o String(child) \o <<")">> ELSE String(child)

Leaf(id) == [op |-> "", ids |-> {id}, met |-> {{id}}, text |-> id]
Node(op, left, right) ==
    [op |-> op,
     ids |-> left.ids \union right.ids,
     met |-> {accepted \in SUBSET (left.ids \union right.ids) :
                 IF op = "AND" THEN Satisfies(left, accepted) /\ Satisfies(right, accepted)
                 ELSE Satisfies(left, accepted) \/ Satisfies(right, accepted)},
     text |-> Rendered(op, left) \o <<op>> \o Rendered(op, right)]

-----------------------------------------------------------------------------
(* Parse.  What is read at a position: the tree and the position after it. *)

Read(pos, tree) == [ok |-> TRUE, pos |-> pos, tree |-> tree]
Malformed == [ok |-> FALSE, pos |-> 0, tree |-> Leaf(<<>>)]

PeekOperator(toks, pos, op) == pos <= Len(toks) /\ Upper(toks[pos]) = op

\* An identifier, with the exception that follows it, if any.  Slip: the
\* exception is read and forgotten.
ParseLeafAlone(toks, pos) ==
    IF IsOperatorToken(toks[pos]) \/ toks[pos] \notin Shaped THEN Malformed
    ELSE Read(IF PeekOperator(toks, pos + 1, "WITH") THEN pos + 3 ELSE pos + 1, Leaf(<<toks[pos]>>))
ParseLeaf(toks, pos) ==
    IF IsOperatorToken(toks[pos]) \/ toks[pos] \notin Shaped THEN Malformed
    ELSE IF ~PeekOperator(toks, pos + 1, "WITH") THEN Read(pos + 1, Leaf(<<toks[pos]>>))
    ELSE IF pos + 2 > Len(toks) THEN Malformed
    ELSE IF IsOperatorToken(toks[pos + 2]) \/ toks[pos + 2] \notin Shaped THEN Malformed
    ELSE Read(pos + 3, Leaf(<<toks[pos], "WITH", toks[pos + 2]>>))

\* One turn of a loop over operands: the operand that follows the operator is
\* joined to all that was read before it.
Turn(toks, op, operand, left) ==
    IF ~left.ok \/ ~PeekOperator(toks, left.pos, op) THEN left
    ELSE LET right == operand[left.pos + 1]
         IN  IF right.ok THEN Read(right.pos, Node(op, left.tree, right.tree)) ELSE Malformed

\* operand[p] is what is read at p; there are fewer operators than tokens.
Joined(toks, op, operand, pos) ==
    LET turn[n \in 0..Len(toks)] ==
            IF n = 0 THEN operand[pos] ELSE Turn(toks, op, operand, turn[n - 1])
    IN  turn[Len(toks)]

ParseAnd(toks, atom) == [pos \in 1..Len(toks) + 1 |-> Joined(toks, "AND", atom, pos)]
ParseOr(toks, atom) ==
    LET term == ParseAnd(toks, atom)
    IN  [pos \in 1..Len(toks) + 1 |-> Joined(toks, "OR", term, pos)]

ParseAtom(toks, pos, inside) ==
    IF pos > Len(toks) THEN Malformed
    ELSE IF toks[pos] # "(" THEN ParseLeaf(toks, pos)
    ELSE LET inner == inside[pos + 1]
         IN  IF inner.ok /\ inner.pos <= Len(toks) /\ toks[inner.pos] = ")"
             THEN Read(inner.pos + 1, inner.tree) ELSE Malformed

\* What is read inside brackets is worked out before what is read outside
\* them: nested[d] is what parseOr reads of expressions less than d brackets
\* deep.
Nesting(toks) ==
    LET nested[depth \in 0..Len(toks) + 1] ==
            IF depth = 0 THEN [pos \in 1..Len(toks) + 1 |-> Malformed]
            ELSE LET inside == nested[depth - 1]
                 IN  ParseOr(toks, [pos \in 1..Len(toks) + 1 |-> ParseAtom(toks, pos, inside)])
    IN  nested[Len(toks) + 1]

Parse(toks) ==
    LET all == Nesting(toks)[1]
    IN  IF all.ok /\ all.pos = Len(toks) + 1 THEN all ELSE Malformed

-----------------------------------------------------------------------------
(* Identifiers.                                                            *)

Punctuated(word) ==
    IF word \in DOMAIN Slashed THEN ToSet(Slashed[word]) \ {"/"} ELSE {word}

\* The identifiers a declaration names: those of its tree, or else every word
\* of it that is no operator.
Identifiers(toks) ==
    LET parsed == Parse(toks)
    IN  IF parsed.ok THEN Collected(parsed.tree)
        ELSE {<<w>> : w \in UNION {Punctuated(toks[i]) : i \in
                    {j \in DOMAIN toks : ~IsParenthesis(toks[j]) /\ ~IsOperatorToken(toks[j])}}}

-----------------------------------------------------------------------------
(* Canonicalize.                                                           *)

\* groupedOperator: a parenthesis pair with an operator in it and no other
\* parenthesis.  Slip: only a text that is bracketed as a whole is grouped.
GroupedWhole(toks) == Len(toks) > 2 /\ toks[1] = "(" /\ toks[Len(toks)] = ")"
GroupedOperator(toks) ==
    \E first, op, last \in DOMAIN toks :
        /\ first + 1 < op /\ op + 1 < last
        /\ toks[first] = "(" /\ toks[last] = ")" /\ Upper(toks[op]) \in {"AND", "OR"}
        /\ \A i \in first + 1..last - 1 : ~IsParenthesis(toks[i])

WithClause(toks) ==
    \E i \in 2..Len(toks) - 1 : /\ Upper(toks[i]) = "WITH"
                                /\ toks[i - 1] # "(" /\ toks[i + 1] # ")"

\* The identifier of a text, or <<>>: of the text as listed, or of its one word
\* by its letters alone.
WordsAt(toks) == {i \in DOMAIN toks : ~IsParenthesis(toks[i])}
SoleWords(toks) == {toks[i] : i \in {j \in DOMAIN toks : WordsAt(toks) = {j}}}
FromText(toks) ==
    IF Len(toks) = 1 /\ toks[1] \in Listed THEN toks
    ELSE IF SoleWords(toks) \intersect DOMAIN Synonym = {} THEN <<>>
    ELSE <<Synonym[CHOOSE word \in SoleWords(toks) : TRUE]>>

\* An operand that is not known stays as it is.
CanonicalOperand(toks) ==
    IF WithClause(toks) \/ FromText(toks) = <<>> THEN toks ELSE FromText(toks)

\* An operator between two operands, with white space on both sides of it; the
\* one before it starts at from.
InfixOperator(toks, i, from) ==
    /\ from < i /\ i < Len(toks)
    /\ Upper(toks[i]) \in {"AND", "OR"}
    /\ toks[i - 1] # "(" /\ toks[i + 1] # ")"

\* Every operand mapped, every operator in capitals: what is written of the
\* tokens so far, and where the operand that has begun starts.
Rewriting(done, from) == [done |-> done, from |-> from]
RewriteTurn(toks, i, left) ==
    IF ~InfixOperator(toks, i, left.from) THEN left
    ELSE Rewriting(left.done \o CanonicalOperand(SubSeq(toks, left.from, i - 1))
                             \o <<Upper(toks[i])>>, i + 1)
RewriteOperands(toks) ==
    LET turn[i \in 0..Len(toks)] ==
            IF i = 0 THEN Rewriting(<<>>, 1) ELSE RewriteTurn(toks, i, turn[i - 1])
        all == turn[Len(toks)]
    IN  all.done \o CanonicalOperand(SubSeq(toks, all.from, Len(toks)))

\* A choice written with slashes, when every part of it is known: its parts
\* as identifiers.
HasSlash(toks) == \E i \in DOMAIN toks : toks[i] = "/" \/ toks[i] \in DOMAIN Slashed
WithSlashes(toks) ==
    LET apart[i \in 0..Len(toks)] ==
            IF i = 0 THEN <<>>
            ELSE apart[i - 1] \o IF toks[i] \in DOMAIN Slashed THEN Slashed[toks[i]] ELSE <<toks[i]>>
    IN  apart[Len(toks)]

PartKnown(toks, from, last) == FromText(SubSeq(toks, from, last)) # <<>>
SlashTurn(toks, i, left) ==
    IF toks[i] # "/" THEN left
    ELSE [done |-> left.done \o FromText(SubSeq(toks, left.from, i - 1)) \o <<"OR">>,
          from |-> i + 1,
          known |-> left.known /\ PartKnown(toks, left.from, i - 1)]
SlashChoice(toks) ==
    LET apart == WithSlashes(toks)
        turn[i \in 0..Len(apart)] ==
            IF i = 0 THEN [done |-> <<>>, from |-> 1, known |-> TRUE]
            ELSE SlashTurn(apart, i, turn[i - 1])
        all == turn[Len(apart)]
    IN  IF /\ HasSlash(toks) /\ ~\E i \in DOMAIN toks : InfixOperator(toks, i, 1)
           /\ all.known /\ PartKnown(apart, all.from, Len(apart))
        THEN all.done \o FromText(SubSeq(apart, all.from, Len(apart)))
        ELSE toks

Canonicalize(toks) ==
    IF FromText(toks) # <<>> THEN FromText(toks)
    ELSE IF GroupedOperator(toks) THEN toks
    ELSE RewriteOperands(SlashChoice(toks))
=============================================================================
