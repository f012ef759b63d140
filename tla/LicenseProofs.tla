---------------------------- MODULE LicenseProofs ----------------------------
(***************************************************************************)
(* Theorems about reading a license expression (Expression.tla and         *)
(* Writing.tla) and about assessing evidence (Assess.tla).                 *)
(*                                                                         *)
(* What is read is compared with what can be derived: the sentences of the *)
(* grammar, each with the tree that its derivation builds.                 *)
(***************************************************************************)
EXTENDS Writing, Assess, Induction, SequenceTheorems, TLAPS

-----------------------------------------------------------------------------
(* Tokens and trees.                                                       *)

Tokens == Shaped \union Words \union Parentheses
              \union {"AND", "OR", "WITH", "and", "or", "with"} \union STRING
Texts == Seq(Tokens)
Trees == [op : {"", "AND", "OR"}, ids : SUBSET Texts, met : SUBSET SUBSET Texts, text : Texts]

\* The tokens that are no words are what they are.
LEMMA TokensAre ==
    /\ Shaped \subseteq Tokens
    /\ {"AND", "OR", "WITH", "and", "or", "with", "(", ")"} \subseteq Tokens
    /\ \A tok \in Shaped : /\ ~IsOperatorToken(tok)
                           /\ tok \notin {"AND", "OR", "WITH", "and", "or", "with", "(", ")"}
                           /\ Upper(tok) \notin {"AND", "OR", "WITH"}
    /\ Upper("(") = "(" /\ Upper(")") = ")"
    /\ Upper("AND") = "AND" /\ Upper("OR") = "OR" /\ Upper("WITH") = "WITH" /\ Upper("or") = "OR"
<1>1. /\ Upper("(") = "(" /\ Upper(")") = ")"
      /\ Upper("AND") = "AND" /\ Upper("OR") = "OR" /\ Upper("WITH") = "WITH" /\ Upper("or") = "OR"
      /\ Upper("and") = "AND" /\ Upper("with") = "WITH"
  BY DEF Upper
<1>2. /\ Shaped \subseteq Tokens
      /\ {"AND", "OR", "WITH", "and", "or", "with", "(", ")"} \subseteq Tokens
  BY DEF Tokens, Parentheses
<1>3. ASSUME NEW tok \in Shaped
      PROVE  /\ ~IsOperatorToken(tok)
             /\ tok \notin {"AND", "OR", "WITH", "and", "or", "with", "(", ")"}
             /\ Upper(tok) \notin {"AND", "OR", "WITH"}
  BY <1>1, WordAssumption DEF IsOperatorToken, IsParenthesis, Operators, Parentheses
<1>. QED  BY <1>1, <1>2, <1>3

\* Concatenation of texts.
LEMMA Concat ==
    /\ \A s, t \in Texts : /\ s \o t \in Texts
                           /\ Len(s \o t) = Len(s) + Len(t)
                           /\ \A i \in 1..Len(s) : (s \o t)[i] = s[i]
                           /\ \A i \in 1..Len(t) : (s \o t)[Len(s) + i] = t[i]
    /\ \A s, t, u \in Texts : (s \o t) \o u = s \o (t \o u)
    /\ \A s \in Texts : Len(s) \in Nat /\ \A i \in 1..Len(s) : s[i] \in Tokens
    /\ \A tok \in Tokens : <<tok>> \in Texts /\ Len(<<tok>>) = 1 /\ <<tok>>[1] = tok
<1>1. ASSUME NEW s \in Texts, NEW t \in Texts
      PROVE  /\ s \o t \in Texts
             /\ Len(s \o t) = Len(s) + Len(t)
             /\ \A i \in 1..Len(s) : (s \o t)[i] = s[i]
             /\ \A i \in 1..Len(t) : (s \o t)[Len(s) + i] = t[i]
  <2>1. /\ s \o t \in Texts
        /\ Len(s \o t) = Len(s) + Len(t)
        /\ \A i \in 1 .. Len(s) + Len(t) : (s \o t)[i] = IF i <= Len(s) THEN s[i] ELSE t[i - Len(s)]
    BY ConcatProperties DEF Texts
  <2>2. Len(s) \in Nat /\ Len(t) \in Nat
    BY DEF Texts
  <2>3. ASSUME NEW i \in 1..Len(s)  PROVE (s \o t)[i] = s[i]
    <3>1. i \in 1..Len(s) + Len(t) /\ i <= Len(s)
      BY <2>2
    <3>. QED  BY <2>1, <3>1
  <2>4. ASSUME NEW i \in 1..Len(t)  PROVE (s \o t)[Len(s) + i] = t[i]
    <3>1. Len(s) + i \in 1..Len(s) + Len(t) /\ ~(Len(s) + i <= Len(s)) /\ (Len(s) + i) - Len(s) = i
      BY <2>2
    <3>. QED  BY <2>1, <3>1
  <2>. QED  BY <2>1, <2>3, <2>4
<1>2. ASSUME NEW s \in Texts, NEW t \in Texts, NEW u \in Texts  PROVE (s \o t) \o u = s \o (t \o u)
  BY ConcatAssociative DEF Texts
<1>3. \A s \in Texts : Len(s) \in Nat /\ \A i \in 1..Len(s) : s[i] \in Tokens
  BY DEF Texts
<1>4. \A tok \in Tokens : <<tok>> \in Texts /\ Len(<<tok>>) = 1 /\ <<tok>>[1] = tok
  BY DEF Texts
<1>. QED  BY <1>1, <1>2, <1>3, <1>4

\* Texts in a row may be joined in any order.
Cat(s, t) == s \o t

LEMMA Regroup ==
    /\ \A s, t \in Texts : Cat(s, t) \in Texts
    /\ \A s, t, u \in Texts : Cat(Cat(s, t), u) = Cat(s, Cat(t, u))
BY Concat DEF Cat

\* What is printed of a child.
LEMMA RenderedIs ==
    ASSUME NEW op, NEW tree \in Trees
    PROVE  /\ Rendered(op, tree) \in Texts
           /\ ~(op = "AND" /\ tree.op = "OR") => Rendered(op, tree) = tree.text
           /\ op = "AND" /\ tree.op = "OR" => Rendered(op, tree) = <<"(">> \o tree.text \o <<")">>
<1>1. tree.text \in Texts
  BY DEF Trees
<1>2. <<"(">> \in Texts /\ <<")">> \in Texts
  BY TokensAre, Concat
<1>3. <<"(">> \o tree.text \o <<")">> \in Texts
  BY <1>1, <1>2, Concat
<1>. QED  BY <1>1, <1>3 DEF Rendered, NeedsBrackets, String

LEMMA TreesAre ==
    /\ \A id \in Texts : Leaf(id) \in Trees
    /\ \A op \in {"AND", "OR"} : \A left, right \in Trees : Node(op, left, right) \in Trees
<1>1. ASSUME NEW id \in Texts  PROVE Leaf(id) \in Trees
  BY DEF Leaf, Trees
<1>2. ASSUME NEW op \in {"AND", "OR"}, NEW left \in Trees, NEW right \in Trees
      PROVE  Node(op, left, right) \in Trees
  <2>1. Node(op, left, right).text \in Texts
    <3>1. Rendered(op, left) \in Texts /\ Rendered(op, right) \in Texts
      BY RenderedIs
    <3>2. <<op>> \in Texts
      BY TokensAre, Concat
    <3>3. Rendered(op, left) \o <<op>> \o Rendered(op, right) \in Texts
      BY <3>1, <3>2, Concat
    <3>. QED  BY <3>3 DEF Node
  <2>2. left.ids \union right.ids \in SUBSET Texts
    BY DEF Trees
  <2>3. Node(op, left, right).ids = left.ids \union right.ids
    BY DEF Node
  <2>4. Node(op, left, right).met \subseteq SUBSET (left.ids \union right.ids)
    BY DEF Node
  <2>5. Node(op, left, right).met \in SUBSET SUBSET Texts
    BY <2>2, <2>4
  <2>6. Node(op, left, right) = [op |-> op, ids |-> Node(op, left, right).ids,
            met |-> Node(op, left, right).met, text |-> Node(op, left, right).text]
    BY DEF Node
  <2>7. \A i \in SUBSET Texts, m \in SUBSET SUBSET Texts, x \in Texts :
            [op |-> op, ids |-> i, met |-> m, text |-> x] \in Trees
    BY DEF Trees
  <2>. QED  BY <2>1, <2>2, <2>3, <2>5, <2>6, <2>7
<1>. QED  BY <1>1, <1>2

\* Satisfies asks about the identifiers of a tree alone, and of a node as the code
\* evaluates it.
LEMMA SatisfiesNode ==
    ASSUME NEW op, NEW left, NEW right, NEW accepted
    PROVE  Satisfies(Node(op, left, right), accepted)
               <=> IF op = "AND" THEN Satisfies(left, accepted) /\ Satisfies(right, accepted)
                   ELSE Satisfies(left, accepted) \/ Satisfies(right, accepted)
<1> DEFINE ids == left.ids \union right.ids
           asked == accepted \intersect ids
<1>1. Node(op, left, right).ids = ids
  BY DEF Node
<1>2. Node(op, left, right).met =
          {some \in SUBSET ids : IF op = "AND" THEN Satisfies(left, some) /\ Satisfies(right, some)
                                 ELSE Satisfies(left, some) \/ Satisfies(right, some)}
  BY DEF Node
<1>3. Satisfies(left, asked) <=> Satisfies(left, accepted)
  <2>1. asked \intersect left.ids = accepted \intersect left.ids
    OBVIOUS
  <2>. QED  BY <2>1 DEF Satisfies
<1>4. Satisfies(right, asked) <=> Satisfies(right, accepted)
  <2>1. asked \intersect right.ids = accepted \intersect right.ids
    OBVIOUS
  <2>. QED  BY <2>1 DEF Satisfies
<1>5. Satisfies(Node(op, left, right), accepted) <=> asked \in Node(op, left, right).met
  BY <1>1 DEF Satisfies
<1>6. asked \in SUBSET ids
  OBVIOUS
<1>7. asked \in Node(op, left, right).met
          <=> IF op = "AND" THEN Satisfies(left, asked) /\ Satisfies(right, asked)
              ELSE Satisfies(left, asked) \/ Satisfies(right, asked)
  <2>. HIDE DEF ids, asked
  <2>. QED  BY <1>2, <1>6
<1>. HIDE DEF ids, asked
<1>. QED  BY <1>3, <1>4, <1>5, <1>7

LEMMA SatisfiesLeaf ==
    ASSUME NEW id, NEW accepted
    PROVE  Satisfies(Leaf(id), accepted) <=> id \in accepted
BY DEF Satisfies, Leaf

\* An operator joins on either side alike.
LEMMA NodeAssociates ==
    ASSUME NEW op \in {"AND", "OR"}, NEW a \in Trees, NEW b \in Trees, NEW c \in Trees
    PROVE  Node(op, Node(op, a, b), c) = Node(op, a, Node(op, b, c))
<1> DEFINE left == Node(op, Node(op, a, b), c)
           right == Node(op, a, Node(op, b, c))
           ids == a.ids \union b.ids \union c.ids
           all(some) == IF op = "AND" THEN Satisfies(a, some) /\ Satisfies(b, some) /\ Satisfies(c, some)
                        ELSE Satisfies(a, some) \/ Satisfies(b, some) \/ Satisfies(c, some)
<1>1. left.ids = ids /\ right.ids = ids /\ left.op = op /\ right.op = op
  BY DEF Node
<1>2. Node(op, a, b) \in Trees /\ Node(op, b, c) \in Trees
  BY TreesAre
<1>3. left.met = {some \in SUBSET ids : all(some)}
  <2>1. left.met = {some \in SUBSET ids : IF op = "AND" THEN Satisfies(Node(op, a, b), some) /\ Satisfies(c, some)
                                 ELSE Satisfies(Node(op, a, b), some) \/ Satisfies(c, some)}
    BY DEF Node
  <2>2. \A some : Satisfies(Node(op, a, b), some) <=> IF op = "AND" THEN Satisfies(a, some) /\ Satisfies(b, some)
                   ELSE Satisfies(a, some) \/ Satisfies(b, some)
    BY SatisfiesNode
  <2>. HIDE DEF ids, left
  <2>. QED  BY <2>1, <2>2
<1>4. right.met = {some \in SUBSET ids : all(some)}
  <2>0. a.ids \union (b.ids \union c.ids) = ids
    OBVIOUS
  <2>1. right.met = {some \in SUBSET ids : IF op = "AND" THEN Satisfies(a, some) /\ Satisfies(Node(op, b, c), some)
                                 ELSE Satisfies(a, some) \/ Satisfies(Node(op, b, c), some)}
    BY <2>0 DEF Node
  <2>2. \A some : Satisfies(Node(op, b, c), some) <=> IF op = "AND" THEN Satisfies(b, some) /\ Satisfies(c, some)
                   ELSE Satisfies(b, some) \/ Satisfies(c, some)
    BY SatisfiesNode
  <2>. HIDE DEF ids, right
  <2>. QED  BY <2>1, <2>2
<1>5. left.text = right.text
  <2> DEFINE A == Rendered(op, a)
             B == Rendered(op, b)
             C == Rendered(op, c)
  <2>1. A \in Texts /\ B \in Texts /\ C \in Texts
    BY RenderedIs
  <2>2. <<op>> \in Texts
    BY TokensAre, Concat
  <2>3. Node(op, a, b).op = op /\ Node(op, b, c).op = op
    BY DEF Node
  <2>4. Rendered(op, Node(op, a, b)) = A \o <<op>> \o B /\ Rendered(op, Node(op, b, c)) = B \o <<op>> \o C
    <3>1. Node(op, a, b).text = A \o <<op>> \o B /\ Node(op, b, c).text = B \o <<op>> \o C
      BY DEF Node
    <3>. QED  BY <1>2, <2>3, <3>1, RenderedIs
  <2>5. left.text = (A \o <<op>> \o B) \o <<op>> \o C
    BY <2>4 DEF Node
  <2>6. right.text = A \o <<op>> \o (B \o <<op>> \o C)
    BY <2>4 DEF Node
  <2>. HIDE DEF A, B, C, left, right
  <2> DEFINE o == <<op>>
  <2>. HIDE DEF o
  <2>7. o \in Texts
    BY <2>2 DEF o
  <2>8. Cat(Cat(Cat(Cat(A, o), B), o), C) = Cat(Cat(A, o), Cat(Cat(B, o), C))
    BY <2>1, <2>7, Regroup
  <2>9. ((A \o o \o B) \o o) \o C = (A \o o) \o ((B \o o) \o C)
    BY <2>8 DEF Cat
  <2>. QED  BY <2>5, <2>6, <2>9 DEF o
<1>6. left = [op |-> left.op, ids |-> left.ids, met |-> left.met, text |-> left.text]
  BY DEF Node
<1>7. right = [op |-> right.op, ids |-> right.ids, met |-> right.met, text |-> right.text]
  BY DEF Node
<1>. HIDE DEF left, right, ids, all
<1> SUFFICES left = right
  BY DEF left, right
<1>. QED  BY <1>1, <1>3, <1>4, <1>5, <1>6, <1>7

-----------------------------------------------------------------------------
(* The grammar as rules.  A phrase is a text, how tightly it binds, and    *)
(* the tree that its derivation builds.                                    *)

Ranks == {"atom", "and", "or"}
Phrase(rank, toks, tree) == [rank |-> rank, toks |-> toks, tree |-> tree]
Phrases == [rank : Ranks, toks : Texts, tree : Trees]

Names(L) ==
    /\ \A word \in Shaped : Phrase("atom", <<word>>, Leaf(<<word>>)) \in L
    /\ \A word, exception \in Shaped : \A tok \in Tokens :
           Upper(tok) = "WITH" =>
               Phrase("atom", <<word, tok, exception>>, Leaf(<<word, "WITH", exception>>)) \in L
Brackets(L) ==
    \A toks, tree : Phrase("or", toks, tree) \in L =>
                       Phrase("atom", <<"(">> \o toks \o <<")">>, tree) \in L
Loosens(L) ==
    \A toks, tree : /\ Phrase("atom", toks, tree) \in L => Phrase("and", toks, tree) \in L
                    /\ Phrase("and", toks, tree) \in L => Phrase("or", toks, tree) \in L
JoinsBy(L, op, rank, operand) ==
    \A a, t, b, u : \A tok \in Tokens :
        Upper(tok) = op /\ Phrase(rank, a, t) \in L /\ Phrase(operand, b, u) \in L =>
            Phrase(rank, a \o <<tok>> \o b, Node(op, t, u)) \in L
Joins(L) == JoinsBy(L, "AND", "and", "atom") /\ JoinsBy(L, "OR", "or", "and")

Closed(L) == Names(L) /\ Brackets(L) /\ Loosens(L) /\ Joins(L)

\* What every set that the rules close holds.
Derivable == {p \in Phrases : \A L \in SUBSET Phrases : Closed(L) => p \in L}

LEMMA PhraseIs ==
    /\ \A rank, toks, tree : /\ Phrase(rank, toks, tree).rank = rank
                             /\ Phrase(rank, toks, tree).toks = toks
                             /\ Phrase(rank, toks, tree).tree = tree
    /\ \A rank, toks, tree :
           Phrase(rank, toks, tree) \in Phrases
               <=> rank \in Ranks /\ toks \in Texts /\ tree \in Trees
    /\ \A p \in Phrases : p = Phrase(p.rank, p.toks, p.tree)
    /\ Derivable \subseteq Phrases
BY DEF Phrase, Phrases, Derivable

LEMMA NamesAreTexts ==
    /\ \A word \in Shaped : <<word>> \in Texts
    /\ \A word, exception \in Shaped : \A tok \in Tokens :
           <<word, tok, exception>> \in Texts /\ <<word, "WITH", exception>> \in Texts
<1>1. Shaped \subseteq Tokens /\ "WITH" \in Tokens
  BY TokensAre
<1>2. \A a, b, c \in Tokens : <<a, b, c>> \in Texts
  BY DEF Texts
<1>3. \A a \in Tokens : <<a>> \in Texts
  BY DEF Texts
<1>. QED  BY <1>1, <1>2, <1>3

LEMMA PhrasesAreClosed == Closed(Phrases)
<1>1. Names(Phrases)
  BY PhraseIs, NamesAreTexts, TreesAre DEF Names, Ranks
<1>2. Brackets(Phrases)
  <2>1. \A toks \in Texts : <<"(">> \o toks \o <<")">> \in Texts
    BY TokensAre, Concat
  <2>. QED  BY <2>1, PhraseIs DEF Brackets, Ranks
<1>3. Loosens(Phrases)
  BY PhraseIs DEF Loosens, Ranks
<1>4. ASSUME NEW op \in {"AND", "OR"}, NEW rank \in Ranks, NEW operand \in Ranks
      PROVE  JoinsBy(Phrases, op, rank, operand)
  <2> SUFFICES ASSUME NEW a, NEW t, NEW b, NEW u, NEW tok \in Tokens,
                      Phrase(rank, a, t) \in Phrases, Phrase(operand, b, u) \in Phrases
               PROVE  Phrase(rank, a \o <<tok>> \o b, Node(op, t, u)) \in Phrases
    BY DEF JoinsBy
  <2>1. a \in Texts /\ b \in Texts /\ t \in Trees /\ u \in Trees
    BY PhraseIs
  <2>2. Node(op, t, u) \in Trees
    BY <2>1, TreesAre
  <2>3. a \o <<tok>> \o b \in Texts
    BY <2>1, Concat
  <2>. QED  BY <2>2, <2>3, PhraseIs
<1>5. Joins(Phrases)
  BY <1>4 DEF Joins, Ranks
<1>. QED  BY <1>1, <1>2, <1>3, <1>5 DEF Closed

\* What can be derived is closed by the rules, and is all that is in a set of phrases
\* that they close.
LEMMA Derivations ==
    /\ Closed(Derivable)
    /\ \A L \in SUBSET Derivable : Closed(L) => L = Derivable
<1>1. \A p : p \in Derivable <=> p \in Phrases /\ \A L \in SUBSET Phrases : Closed(L) => p \in L
  BY DEF Derivable
<1>2. \A p : (\A L \in SUBSET Phrases : Closed(L) => p \in L) => p \in Derivable
  BY <1>1, PhrasesAreClosed
<1>3. \A L \in SUBSET Phrases : Closed(L) => Derivable \subseteq L
  BY <1>1
<1>4. Names(Derivable)
  <2>1. ASSUME NEW L \in SUBSET Phrases, Closed(L)  PROVE Names(L)
    BY <2>1 DEF Closed
  <2>. QED  BY <1>2, <2>1 DEF Names
<1>5. Brackets(Derivable)
  <2> SUFFICES ASSUME NEW toks, NEW tree, Phrase("or", toks, tree) \in Derivable,
                      NEW L \in SUBSET Phrases, Closed(L)
               PROVE  Phrase("atom", <<"(">> \o toks \o <<")">>, tree) \in L
    BY <1>2 DEF Brackets
  <2>. QED  BY <1>3 DEF Closed, Brackets
<1>6. Loosens(Derivable)
  <2>1. ASSUME NEW toks, NEW tree, Phrase("atom", toks, tree) \in Derivable,
               NEW L \in SUBSET Phrases, Closed(L)
        PROVE  Phrase("and", toks, tree) \in L
    BY <1>3, <2>1 DEF Closed, Loosens
  <2>2. ASSUME NEW toks, NEW tree, Phrase("and", toks, tree) \in Derivable,
               NEW L \in SUBSET Phrases, Closed(L)
        PROVE  Phrase("or", toks, tree) \in L
    BY <1>3, <2>2 DEF Closed, Loosens
  <2>. QED  BY <1>2, <2>1, <2>2 DEF Loosens
<1>7. Joins(Derivable)
  <2>1. ASSUME NEW op, NEW rank, NEW operand,
               \A L \in SUBSET Phrases : Closed(L) => JoinsBy(L, op, rank, operand)
        PROVE  JoinsBy(Derivable, op, rank, operand)
    <3> SUFFICES ASSUME NEW a, NEW t, NEW b, NEW u, NEW tok \in Tokens, Upper(tok) = op,
                        Phrase(rank, a, t) \in Derivable, Phrase(operand, b, u) \in Derivable,
                        NEW L \in SUBSET Phrases, Closed(L)
                 PROVE  Phrase(rank, a \o <<tok>> \o b, Node(op, t, u)) \in L
      BY <1>2 DEF JoinsBy
    <3>1. Phrase(rank, a, t) \in L /\ Phrase(operand, b, u) \in L
      BY <1>3
    <3>2. JoinsBy(L, op, rank, operand)
      BY <2>1
    <3>. QED  BY <3>1, <3>2 DEF JoinsBy
  <2>2. \A L \in SUBSET Phrases :
            Closed(L) => JoinsBy(L, "AND", "and", "atom") /\ JoinsBy(L, "OR", "or", "and")
    BY DEF Closed, Joins
  <2>. QED  BY <2>1, <2>2 DEF Joins
<1>8. \A L \in SUBSET Derivable : Closed(L) => L = Derivable
  BY <1>3, PhraseIs
<1>. QED  BY <1>4, <1>5, <1>6, <1>7, <1>8 DEF Closed

\* The rules, each by itself.
LEMMA Rules ==
    /\ \A word \in Shaped : Phrase("atom", <<word>>, Leaf(<<word>>)) \in Derivable
    /\ \A word, exception \in Shaped : \A tok \in Tokens :
           Upper(tok) = "WITH" =>
             Phrase("atom", <<word, tok, exception>>, Leaf(<<word, "WITH", exception>>)) \in Derivable
    /\ \A toks, tree :
           /\ Phrase("or", toks, tree) \in Derivable =>
                  Phrase("atom", <<"(">> \o toks \o <<")">>, tree) \in Derivable
           /\ Phrase("atom", toks, tree) \in Derivable => Phrase("and", toks, tree) \in Derivable
           /\ Phrase("and", toks, tree) \in Derivable => Phrase("or", toks, tree) \in Derivable
    /\ \A a, t, b, u : \A tok \in Tokens :
           /\ Upper(tok) = "AND" /\ Phrase("and", a, t) \in Derivable
                                 /\ Phrase("atom", b, u) \in Derivable =>
                  Phrase("and", a \o <<tok>> \o b, Node("AND", t, u)) \in Derivable
           /\ Upper(tok) = "OR" /\ Phrase("or", a, t) \in Derivable
                                /\ Phrase("and", b, u) \in Derivable =>
                  Phrase("or", a \o <<tok>> \o b, Node("OR", t, u)) \in Derivable
BY Derivations DEF Closed, Names, Brackets, Loosens, Joins, JoinsBy

\* An operator may be read from either side: a derived text joins another of its own
\* rank, into the tree of the one derivation there is.
LEMMA JoinRight ==
    ASSUME NEW a, NEW t, NEW b, NEW u, NEW tok \in Tokens
    PROVE  /\ Upper(tok) = "AND" /\ Phrase("and", a, t) \in Derivable
                                 /\ Phrase("and", b, u) \in Derivable =>
                  Phrase("and", a \o <<tok>> \o b, Node("AND", t, u)) \in Derivable
           /\ Upper(tok) = "OR" /\ Phrase("or", a, t) \in Derivable
                                /\ Phrase("or", b, u) \in Derivable =>
                  Phrase("or", a \o <<tok>> \o b, Node("OR", t, u)) \in Derivable
<1>0. <<tok>> \in Texts
  BY Concat
<1>1. ASSUME NEW op \in {"AND", "OR"}, NEW rank, Upper(tok) = op, Phrase(rank, a, t) \in Derivable,
             NEW c, NEW v, NEW d, NEW w, NEW other \in Tokens,
             Phrase(rank, c, v) \in Derivable, NEW operand, Phrase(operand, d, w) \in Derivable,
             Upper(other) = op, JoinsBy(Derivable, op, rank, operand),
             Phrase(rank, a \o <<tok>> \o c, Node(op, t, v)) \in Derivable
      PROVE  Phrase(rank, a \o <<tok>> \o (c \o <<other>> \o d), Node(op, t, Node(op, v, w))) \in Derivable
  <2>1. /\ a \in Texts /\ c \in Texts /\ d \in Texts /\ <<other>> \in Texts
        /\ t \in Trees /\ v \in Trees /\ w \in Trees
    BY <1>1, PhraseIs, Concat
  <2>2. Phrase(rank, (a \o <<tok>> \o c) \o <<other>> \o d, Node(op, Node(op, t, v), w)) \in Derivable
    BY <1>1 DEF JoinsBy
  <2>3. Node(op, Node(op, t, v), w) = Node(op, t, Node(op, v, w))
    BY <2>1, NodeAssociates
  <2>4. (a \o <<tok>> \o c) \o <<other>> \o d = a \o <<tok>> \o (c \o <<other>> \o d)
    <3> DEFINE o == <<tok>>
               p == <<other>>
    <3>. HIDE DEF o, p
    <3>1. o \in Texts /\ p \in Texts
      BY <1>0, <2>1 DEF o, p
    <3>2. Cat(Cat(Cat(Cat(a, o), c), p), d) = Cat(Cat(a, o), Cat(Cat(c, p), d))
      BY <2>1, <3>1, Regroup
    <3>3. ((a \o o \o c) \o p) \o d = (a \o o) \o ((c \o p) \o d)
      BY <3>2 DEF Cat
    <3>. QED  BY <3>3 DEF o, p
  <2>. QED  BY <2>2, <2>3, <2>4
<1>2. ASSUME Upper(tok) = "AND", Phrase("and", a, t) \in Derivable, Phrase("and", b, u) \in Derivable
      PROVE  Phrase("and", a \o <<tok>> \o b, Node("AND", t, u)) \in Derivable
  <2> DEFINE Joined1(p) == Phrase("and", a \o <<tok>> \o p.toks, Node("AND", t, p.tree)) \in Derivable
             L == {p \in Derivable : p.rank # "or" => Joined1(p)}
  <2>1. \A c, v : Phrase("and", c, v) \in L
                    <=> /\ Phrase("and", c, v) \in Derivable
                        /\ Phrase("and", a \o <<tok>> \o c, Node("AND", t, v)) \in Derivable
    BY PhraseIs
  <2>2. \A c, v : Phrase("atom", c, v) \in Derivable
                    => /\ Phrase("atom", c, v) \in L
                       /\ Phrase("and", a \o <<tok>> \o c, Node("AND", t, v)) \in Derivable
    BY <1>2, PhraseIs, Rules
  <2>3. \A c, v : Phrase("or", c, v) \in Derivable => Phrase("or", c, v) \in L
    BY PhraseIs
  <2>4. L \in SUBSET Derivable
    OBVIOUS
  <2>. HIDE DEF L, Joined1
  <2>5. Names(L)
    BY <2>2, Rules DEF Names
  <2>6. Brackets(L)
    BY <2>2, <2>4, Rules DEF Brackets
  <2>7. Loosens(L)
    BY <2>1, <2>2, <2>3, <2>4, Rules DEF Loosens
  <2>8. JoinsBy(L, "AND", "and", "atom")
    <3> SUFFICES ASSUME NEW c, NEW v, NEW d, NEW w, NEW other \in Tokens, Upper(other) = "AND",
                        Phrase("and", c, v) \in L, Phrase("atom", d, w) \in L
                 PROVE  Phrase("and", c \o <<other>> \o d, Node("AND", v, w)) \in L
      BY DEF JoinsBy
    <3>1. /\ Phrase("and", c, v) \in Derivable /\ Phrase("atom", d, w) \in Derivable
          /\ Phrase("and", a \o <<tok>> \o c, Node("AND", t, v)) \in Derivable
      BY <2>1, <2>4
    <3>2. Phrase("and", c \o <<other>> \o d, Node("AND", v, w)) \in Derivable
      BY <3>1, Rules
    <3>3. JoinsBy(Derivable, "AND", "and", "atom")
      BY Derivations DEF Closed, Joins
    <3>4. Phrase("and", a \o <<tok>> \o (c \o <<other>> \o d), Node("AND", t, Node("AND", v, w))) \in Derivable
      BY <1>1, <1>2, <3>1, <3>3
    <3>. QED  BY <2>1, <3>2, <3>4
  <2>9. JoinsBy(L, "OR", "or", "and")
    BY <2>3, <2>4, Rules DEF JoinsBy
  <2>10. L = Derivable
    BY <2>4, <2>5, <2>6, <2>7, <2>8, <2>9, Derivations DEF Closed, Joins
  <2>. QED  BY <1>2, <2>1, <2>10
<1>3. ASSUME Upper(tok) = "OR", Phrase("or", a, t) \in Derivable, Phrase("or", b, u) \in Derivable
      PROVE  Phrase("or", a \o <<tok>> \o b, Node("OR", t, u)) \in Derivable
  <2> DEFINE Joined1(p) == Phrase("or", a \o <<tok>> \o p.toks, Node("OR", t, p.tree)) \in Derivable
             L == {p \in Derivable : p.rank = "or" => Joined1(p)}
  <2>1. \A c, v : Phrase("or", c, v) \in L
                    <=> /\ Phrase("or", c, v) \in Derivable
                        /\ Phrase("or", a \o <<tok>> \o c, Node("OR", t, v)) \in Derivable
    BY PhraseIs
  <2>2. \A c, v : Phrase("and", c, v) \in Derivable
                    => /\ Phrase("and", c, v) \in L
                       /\ Phrase("or", a \o <<tok>> \o c, Node("OR", t, v)) \in Derivable
    BY <1>3, PhraseIs, Rules
  <2>3. \A c, v : Phrase("atom", c, v) \in Derivable => Phrase("atom", c, v) \in L
    BY PhraseIs
  <2>4. L \in SUBSET Derivable
    OBVIOUS
  <2>. HIDE DEF L, Joined1
  <2>5. Names(L)
    BY <2>3, Rules DEF Names
  <2>6. Brackets(L)
    BY <2>3, <2>4, Rules DEF Brackets
  <2>7. Loosens(L)
    BY <2>1, <2>2, <2>3, <2>4, Rules DEF Loosens
  <2>8. JoinsBy(L, "OR", "or", "and")
    <3> SUFFICES ASSUME NEW c, NEW v, NEW d, NEW w, NEW other \in Tokens, Upper(other) = "OR",
                        Phrase("or", c, v) \in L, Phrase("and", d, w) \in L
                 PROVE  Phrase("or", c \o <<other>> \o d, Node("OR", v, w)) \in L
      BY DEF JoinsBy
    <3>1. /\ Phrase("or", c, v) \in Derivable /\ Phrase("and", d, w) \in Derivable
          /\ Phrase("or", a \o <<tok>> \o c, Node("OR", t, v)) \in Derivable
      BY <2>1, <2>4
    <3>2. Phrase("or", c \o <<other>> \o d, Node("OR", v, w)) \in Derivable
      BY <3>1, Rules
    <3>3. JoinsBy(Derivable, "OR", "or", "and")
      BY Derivations DEF Closed, Joins
    <3>4. Phrase("or", a \o <<tok>> \o (c \o <<other>> \o d), Node("OR", t, Node("OR", v, w))) \in Derivable
      BY <1>1, <1>3, <3>1, <3>3
    <3>. QED  BY <2>1, <3>2, <3>4
  <2>9. JoinsBy(L, "AND", "and", "atom")
    BY <2>2, <2>4, Rules DEF JoinsBy
  <2>10. L = Derivable
    BY <2>4, <2>5, <2>6, <2>7, <2>8, <2>9, Derivations DEF Closed, Joins
  <2>. QED  BY <1>3, <2>1, <2>10
<1>. QED  BY <1>2, <1>3

\* What a tree prints derives that tree, as tightly bound as its operator.
Prints(tree) ==
    /\ tree.op = "" => Phrase("atom", tree.text, tree) \in Derivable
    /\ tree.op = "AND" => Phrase("and", tree.text, tree) \in Derivable
    /\ tree.op = "OR" => Phrase("or", tree.text, tree) \in Derivable

LEMMA RendersAnOperand ==
    ASSUME NEW tree \in Trees, Prints(tree)
    PROVE  /\ Phrase("and", Rendered("AND", tree), tree) \in Derivable
           /\ Phrase("or", Rendered("OR", tree), tree) \in Derivable
<1>1. tree.op \in {"", "AND", "OR"}
  BY DEF Trees
<1>2. /\ "OR" # "AND" /\ Rendered("OR", tree) = tree.text
      /\ tree.op # "OR" => Rendered("AND", tree) = tree.text
      /\ tree.op = "OR" => Rendered("AND", tree) = <<"(">> \o tree.text \o <<")">>
  BY RenderedIs
<1>3. CASE tree.op = ""
  BY <1>2, <1>3, Rules DEF Prints
<1>4. CASE tree.op = "AND"
  BY <1>2, <1>4, Rules DEF Prints
<1>5. CASE tree.op = "OR"
  BY <1>2, <1>5, Rules DEF Prints
<1>. QED  BY <1>1, <1>3, <1>4, <1>5

LEMMA PrintedIsDerivable ==
    ASSUME NEW rank, NEW toks, NEW tree, Phrase(rank, toks, tree) \in Derivable
    PROVE  Phrase("or", tree.text, tree) \in Derivable
<1> DEFINE L == {p \in Derivable : Prints(p.tree)}
<1>1. \A r, s, t : Phrase(r, s, t) \in L <=> Phrase(r, s, t) \in Derivable /\ Prints(t)
  BY PhraseIs
<1>2. L \in SUBSET Derivable
  OBVIOUS
<1>. HIDE DEF L
<1>3. Names(L)
  <2>1. ASSUME NEW id, Phrase("atom", id, Leaf(id)) \in Derivable  PROVE Prints(Leaf(id))
    <3>1. Leaf(id).op = "" /\ Leaf(id).text = id
      BY DEF Leaf
    <3>. QED  BY <2>1, <3>1 DEF Prints
  <2>2. \A word, exception \in Shaped :
            Prints(Leaf(<<word>>)) /\ Prints(Leaf(<<word, "WITH", exception>>))
    BY <2>1, Rules, TokensAre
  <2>. QED  BY <1>1, <2>2, Rules DEF Names
<1>4. Brackets(L)
  BY <1>1, Rules DEF Brackets
<1>5. Loosens(L)
  BY <1>1, Rules DEF Loosens
<1>6. ASSUME NEW op \in {"AND", "OR"}, NEW t \in Trees, NEW u \in Trees, Prints(t), Prints(u)
      PROVE  Prints(Node(op, t, u))
  <2>1. Node(op, t, u).op = op
        /\ Node(op, t, u).text = Rendered(op, t) \o <<op>> \o Rendered(op, u)
    BY DEF Node
  <2>2. CASE op = "AND"
    <3>1. Phrase("and", Rendered("AND", t), t) \in Derivable
          /\ Phrase("and", Rendered("AND", u), u) \in Derivable
      BY <1>6, RendersAnOperand
    <3>2. Phrase("and", Rendered("AND", t) \o <<"AND">> \o Rendered("AND", u), Node("AND", t, u)) \in Derivable
      BY <3>1, JoinRight, TokensAre
    <3>. QED  BY <2>1, <2>2, <3>2 DEF Prints
  <2>3. CASE op = "OR"
    <3>1. Phrase("or", Rendered("OR", t), t) \in Derivable
          /\ Phrase("or", Rendered("OR", u), u) \in Derivable
      BY <1>6, RendersAnOperand
    <3>2. Phrase("or", Rendered("OR", t) \o <<"OR">> \o Rendered("OR", u), Node("OR", t, u)) \in Derivable
      BY <3>1, JoinRight, TokensAre
    <3>. QED  BY <2>1, <2>3, <3>2 DEF Prints
  <2>. QED  BY <2>2, <2>3
<1>7. Joins(L)
  <2>1. JoinsBy(L, "AND", "and", "atom")
    <3> SUFFICES ASSUME NEW a, NEW t, NEW b, NEW u, NEW tok \in Tokens, Upper(tok) = "AND",
                        Phrase("and", a, t) \in L, Phrase("atom", b, u) \in L
                 PROVE  Phrase("and", a \o <<tok>> \o b, Node("AND", t, u)) \in L
      BY DEF JoinsBy
    <3>1. Phrase("and", a, t) \in Derivable /\ Phrase("atom", b, u) \in Derivable /\ Prints(t) /\ Prints(u)
      BY <1>1
    <3>2. t \in Trees /\ u \in Trees
      BY <3>1, PhraseIs
    <3>3. Phrase("and", a \o <<tok>> \o b, Node("AND", t, u)) \in Derivable
      BY <3>1, Rules
    <3>4. Prints(Node("AND", t, u))
      BY <1>6, <3>1, <3>2
    <3>. QED  BY <1>1, <3>3, <3>4
  <2>2. JoinsBy(L, "OR", "or", "and")
    <3> SUFFICES ASSUME NEW a, NEW t, NEW b, NEW u, NEW tok \in Tokens, Upper(tok) = "OR",
                        Phrase("or", a, t) \in L, Phrase("and", b, u) \in L
                 PROVE  Phrase("or", a \o <<tok>> \o b, Node("OR", t, u)) \in L
      BY DEF JoinsBy
    <3>1. Phrase("or", a, t) \in Derivable /\ Phrase("and", b, u) \in Derivable /\ Prints(t) /\ Prints(u)
      BY <1>1
    <3>2. t \in Trees /\ u \in Trees
      BY <3>1, PhraseIs
    <3>3. Phrase("or", a \o <<tok>> \o b, Node("OR", t, u)) \in Derivable
      BY <3>1, Rules
    <3>4. Prints(Node("OR", t, u))
      BY <1>6, <3>1, <3>2
    <3>. QED  BY <1>1, <3>3, <3>4
  <2>. QED  BY <2>1, <2>2 DEF Joins
<1>8. L = Derivable
  BY <1>2, <1>3, <1>4, <1>5, <1>7, Derivations DEF Closed
<1>9. tree \in Trees /\ Prints(tree)
  BY <1>1, <1>8, PhraseIs
<1>10. Rendered("OR", tree) = tree.text
  BY <1>9, RenderedIs
<1>. QED  BY <1>9, <1>10, RendersAnOperand

-----------------------------------------------------------------------------
(* The parser's loops and its nesting.                                     *)

Readings == [ok : BOOLEAN, pos : Nat, tree : Trees]
Positions(toks) == 1..Len(toks) + 1
Tables(toks) == [Positions(toks) -> Readings]

LEMMA ReadingsAre ==
    /\ Malformed \in Readings /\ ~Malformed.ok
    /\ \A pos, tree : Read(pos, tree).ok /\ Read(pos, tree).pos = pos /\ Read(pos, tree).tree = tree
    /\ \A pos \in Nat, tree \in Trees : Read(pos, tree) \in Readings
    /\ \A r \in Readings : r.pos \in Nat /\ r.tree \in Trees /\ (r.ok => r = Read(r.pos, r.tree))
<1>1. Leaf(<<>>) \in Trees
  <2>1. <<>> \in Texts
    BY EmptySeq DEF Texts
  <2>. QED  BY <2>1, TreesAre
<1>2. Malformed \in Readings /\ ~Malformed.ok
  BY <1>1 DEF Malformed, Readings
<1>. QED  BY <1>2 DEF Read, Readings

LEMMA TurnIs ==
    ASSUME NEW toks \in Texts, NEW op \in {"AND", "OR"}, NEW operand \in Tables(toks), NEW left \in Readings
    PROVE  /\ Turn(toks, op, operand, left) \in Readings
           /\ ~left.ok \/ ~PeekOperator(toks, left.pos, op) => Turn(toks, op, operand, left) = left
           /\ left.ok /\ PeekOperator(toks, left.pos, op) =>
                  /\ left.pos + 1 \in Positions(toks)
                  /\ ~operand[left.pos + 1].ok => Turn(toks, op, operand, left) = Malformed
                  /\ operand[left.pos + 1].ok =>
                         Turn(toks, op, operand, left)
                             = Read(operand[left.pos + 1].pos,
                                    Node(op, left.tree, operand[left.pos + 1].tree))
<1> DEFINE right == operand[left.pos + 1]
           turn == Turn(toks, op, operand, left)
           goes == left.ok /\ PeekOperator(toks, left.pos, op)
<1>1. turn = IF ~goes THEN left
             ELSE IF right.ok THEN Read(right.pos, Node(op, left.tree, right.tree)) ELSE Malformed
  BY DEF Turn
<1>2. ASSUME goes  PROVE left.pos + 1 \in Positions(toks)
  <2>1. left.pos \in Nat /\ Len(toks) \in Nat /\ left.pos <= Len(toks)
    BY <1>2, ReadingsAre, Concat DEF PeekOperator
  <2>. QED  BY <2>1 DEF Positions
<1>3. ASSUME goes  PROVE right \in Readings
  BY <1>2, <1>3 DEF Tables
<1>4. ASSUME goes, right.ok  PROVE Read(right.pos, Node(op, left.tree, right.tree)) \in Readings
  BY <1>3, <1>4, ReadingsAre, TreesAre
<1>5. turn \in Readings
  <2>. HIDE DEF right, turn, goes
  <2>. QED  BY <1>1, <1>4, ReadingsAre
<1>. QED  BY <1>1, <1>2, <1>5

\* The turns of a loop: a function that its definition describes.
Loop(toks, op, operand, pos) ==
    CHOOSE turn : turn = [n \in 0..Len(toks) |->
                             IF n = 0 THEN operand[pos] ELSE Turn(toks, op, operand, turn[n - 1])]

LEMMA LoopIs ==
    ASSUME NEW toks \in Texts, NEW op \in {"AND", "OR"}, NEW operand \in Tables(toks),
           NEW pos \in Positions(toks)
    PROVE  /\ Joined(toks, op, operand, pos) = Loop(toks, op, operand, pos)[Len(toks)]
           /\ Loop(toks, op, operand, pos)[0] = operand[pos]
           /\ \A n \in 0..Len(toks) : Loop(toks, op, operand, pos)[n] \in Readings
           /\ \A n \in 1..Len(toks) :
                 Loop(toks, op, operand, pos)[n]
                     = Turn(toks, op, operand, Loop(toks, op, operand, pos)[n - 1])
<1> DEFINE N == Len(toks)
           T(x) == Turn(toks, op, operand, x)
           step == [n \in 1..N |-> [x \in Readings |-> T(x)]]
           first == operand[pos]
           next(f) == [n \in 0..N |-> IF n = 0 THEN operand[pos] ELSE T(f[n - 1])]
           R == Turns(N, first, step)
           u == Loop(toks, op, operand, pos)
<1>1. N \in Nat /\ first \in Readings
  BY Concat DEF Tables
<1>2. \A x \in Readings : T(x) \in Readings
  BY TurnIs
<1>3. step \in [1..N -> [Readings -> Readings]]
  <2>. HIDE DEF T
  <2>. QED  BY <1>2
<1>4. R \in [0..N -> Readings] /\ R[0] = first /\ \A n \in 1..N : R[n] = step[n][R[n - 1]]
  <2>. HIDE DEF step, N, first
  <2>. QED  BY <1>1, <1>3, TurnsAre
<1>. HIDE DEF R
<1>5. \A n \in 0..N : n # 0 => n \in 1..N /\ n - 1 \in 0..N
  BY <1>1
<1>6. ASSUME NEW n \in 1..N  PROVE R[n] = T(R[n - 1])
  <2>1. R[n - 1] \in Readings
    BY <1>1, <1>4
  <2>. HIDE DEF T
  <2>. QED  BY <1>4, <2>1
<1>7. R = next(R)
  <2>. HIDE DEF T, step, N
  <2>. QED  BY <1>4, <1>5, <1>6
<1>8. u = next(u)
  <2>1. u = CHOOSE f : f = next(f)
    BY DEF Loop
  <2>. HIDE DEF next, u
  <2>. QED  BY <1>7, <2>1
<1>9. Joined(toks, op, operand, pos) = u[N]
  BY DEF Joined, Loop
<1>. HIDE DEF u
<1>10. u[0] = first /\ \A n \in 1..N : u[n] = T(u[n - 1])
  <2>1. \A n \in 1..N : n \in 0..N /\ n # 0
    BY <1>1
  <2>2. next(u)[0] = first /\ \A n \in 1..N : next(u)[n] = T(u[n - 1])
    <3>. HIDE DEF T
    <3>. QED  BY <1>1, <2>1
  <2>. HIDE DEF next, T
  <2>. QED  BY <1>8, <2>2
<1>11. \A n \in 0..N : u[n] \in Readings
  <2> DEFINE typed == {n \in Nat : n <= N => u[n] \in Readings}
  <2>1. 0 \in typed
    <3>. HIDE DEF T
    <3>. QED  BY <1>1, <1>10
  <2>2. ASSUME NEW n \in Nat, n \in typed  PROVE n + 1 \in typed
    <3> SUFFICES ASSUME n + 1 <= N  PROVE u[n + 1] \in Readings
      OBVIOUS
    <3>1. n + 1 \in 1..N /\ (n + 1) - 1 = n /\ n <= N
      BY <1>1
    <3>2. u[n + 1] = T(u[n])
      <4>. HIDE DEF T
      <4>. QED  BY <1>10, <3>1
    <3>. HIDE DEF T
    <3>. QED  BY <1>2, <2>2, <3>1, <3>2
  <2>3. Nat \subseteq typed
    <3>. HIDE DEF typed
    <3>. QED  BY <2>1, <2>2, Climb
  <2>. QED  BY <1>1, <2>3
<1>. HIDE DEF T
<1> SUFFICES /\ Joined(toks, op, operand, pos) = u[N]
             /\ u[0] = operand[pos]
             /\ \A n \in 0..N : u[n] \in Readings
             /\ \A n \in 1..N : u[n] = T(u[n - 1])
  BY DEF u, T
<1>. QED  BY <1>9, <1>10, <1>11

LEMMA TablesAre ==
    ASSUME NEW toks \in Texts, NEW atom \in Tables(toks)
    PROVE  /\ ParseAnd(toks, atom) \in Tables(toks) /\ ParseOr(toks, atom) \in Tables(toks)
           /\ \A pos \in Positions(toks) :
                  /\ ParseAnd(toks, atom)[pos] = Joined(toks, "AND", atom, pos)
                  /\ ParseOr(toks, atom)[pos] = Joined(toks, "OR", ParseAnd(toks, atom), pos)
<1>1. ASSUME NEW op \in {"AND", "OR"}, NEW operand \in Tables(toks), NEW pos \in Positions(toks)
      PROVE  Joined(toks, op, operand, pos) \in Readings
  <2>1. Len(toks) \in 0..Len(toks)
    BY Concat
  <2>. QED  BY <2>1, LoopIs
<1>2. /\ ParseAnd(toks, atom) = [pos \in Positions(toks) |-> Joined(toks, "AND", atom, pos)]
      /\ ParseOr(toks, atom) = [pos \in Positions(toks) |-> Joined(toks, "OR", ParseAnd(toks, atom), pos)]
  BY DEF ParseAnd, ParseOr, Positions
<1>3. ParseAnd(toks, atom) \in Tables(toks)
  BY <1>1, <1>2 DEF Tables
<1>4. ParseOr(toks, atom) \in Tables(toks)
  BY <1>1, <1>2, <1>3 DEF Tables
<1>. QED  BY <1>2, <1>3, <1>4

Atoms(toks, inside) == [pos \in Positions(toks) |-> ParseAtom(toks, pos, inside)]

\* What a leaf is read as.
LEMMA LeafIs ==
    ASSUME NEW toks \in Texts, NEW pos \in 1..Len(toks)
    PROVE  /\ ParseLeaf(toks, pos) \in Readings
           /\ ParseLeaf(toks, pos).ok =>
                 /\ toks[pos] \in Shaped
                 /\ \/ ParseLeaf(toks, pos) = Read(pos + 1, Leaf(<<toks[pos]>>))
                    \/ /\ pos + 2 <= Len(toks) /\ Upper(toks[pos + 1]) = "WITH"
                       /\ toks[pos + 2] \in Shaped
                       /\ ParseLeaf(toks, pos)
                              = Read(pos + 3, Leaf(<<toks[pos], "WITH", toks[pos + 2]>>))
           /\ toks[pos] \in Shaped /\ ~PeekOperator(toks, pos + 1, "WITH") =>
                 ParseLeaf(toks, pos) = Read(pos + 1, Leaf(<<toks[pos]>>))
           /\ /\ toks[pos] \in Shaped /\ pos + 2 <= Len(toks)
              /\ Upper(toks[pos + 1]) = "WITH" /\ toks[pos + 2] \in Shaped
              => ParseLeaf(toks, pos) = Read(pos + 3, Leaf(<<toks[pos], "WITH", toks[pos + 2]>>))
<1> DEFINE leaf == ParseLeaf(toks, pos)
           one == Read(pos + 1, Leaf(<<toks[pos]>>))
           two == Read(pos + 3, Leaf(<<toks[pos], "WITH", toks[pos + 2]>>))
           with == PeekOperator(toks, pos + 1, "WITH")
           named == toks[pos] \in Shaped
           excepted == pos + 2 <= Len(toks) /\ toks[pos + 2] \in Shaped
<1>1. leaf = IF ~named THEN Malformed ELSE IF ~with THEN one ELSE IF ~excepted THEN Malformed ELSE two
  BY TokensAre DEF ParseLeaf
<1>2. named => one \in Readings
  <2>1. named => Leaf(<<toks[pos]>>) \in Trees
    BY NamesAreTexts, TreesAre
  <2>2. pos + 1 \in Nat
    BY Concat
  <2>. QED  BY <2>1, <2>2, ReadingsAre
<1>3. named /\ excepted => two \in Readings
  <2>1. named /\ excepted => Leaf(<<toks[pos], "WITH", toks[pos + 2]>>) \in Trees
    BY NamesAreTexts, TreesAre, TokensAre
  <2>2. pos + 3 \in Nat
    BY Concat
  <2>. QED  BY <2>1, <2>2, ReadingsAre
<1>4. with <=> pos + 1 <= Len(toks) /\ Upper(toks[pos + 1]) = "WITH"
  BY DEF PeekOperator
<1>5. pos + 2 <= Len(toks) => pos + 1 <= Len(toks)
  BY Concat
<1> SUFFICES /\ leaf \in Readings
             /\ leaf.ok => /\ named
                           /\ leaf = one \/ (excepted /\ Upper(toks[pos + 1]) = "WITH" /\ leaf = two)
             /\ named /\ ~with => leaf = one
             /\ named /\ excepted /\ Upper(toks[pos + 1]) = "WITH" => leaf = two
  OBVIOUS
<1>6. excepted => pos + 2 <= Len(toks)
  OBVIOUS
<1>. HIDE DEF leaf, one, two, with, named, excepted
<1>7. Malformed \in Readings /\ ~Malformed.ok
  BY ReadingsAre
<1>. QED  BY <1>1, <1>2, <1>3, <1>4, <1>5, <1>6, <1>7

\* What an atom is read as.
LEMMA AtomIs ==
    ASSUME NEW toks \in Texts, NEW inside \in Tables(toks), NEW pos \in Positions(toks)
    PROVE  /\ ParseAtom(toks, pos, inside) \in Readings
           /\ pos > Len(toks) => ~ParseAtom(toks, pos, inside).ok
           /\ pos <= Len(toks) /\ toks[pos] # "(" => ParseAtom(toks, pos, inside) = ParseLeaf(toks, pos)
           /\ pos <= Len(toks) /\ toks[pos] = "(" =>
                 /\ pos + 1 \in Positions(toks)
                 /\ IF /\ inside[pos + 1].ok /\ inside[pos + 1].pos <= Len(toks)
                       /\ toks[inside[pos + 1].pos] = ")"
                    THEN ParseAtom(toks, pos, inside) = Read(inside[pos + 1].pos + 1, inside[pos + 1].tree)
                    ELSE ~ParseAtom(toks, pos, inside).ok
<1> DEFINE atom == ParseAtom(toks, pos, inside)
           inner == inside[pos + 1]
           ends == inner.ok /\ inner.pos <= Len(toks) /\ toks[inner.pos] = ")"
           read == Read(inner.pos + 1, inner.tree)
<1>1. atom = IF pos > Len(toks) THEN Malformed
             ELSE IF toks[pos] # "(" THEN ParseLeaf(toks, pos)
             ELSE IF ends THEN read ELSE Malformed
  BY DEF ParseAtom
<1>2. Len(toks) \in Nat /\ pos \in Nat /\ (pos > Len(toks) <=> ~(pos <= Len(toks)))
  <2>1. Len(toks) \in Nat
    BY Concat
  <2>. HIDE DEF atom, inner, ends, read
  <2>. QED  BY <2>1 DEF Positions
<1>3. pos <= Len(toks) => pos + 1 \in Positions(toks) /\ pos \in 1..Len(toks)
  BY <1>2 DEF Positions
<1>4. pos <= Len(toks) => inner \in Readings
  BY <1>3 DEF Tables
<1>5. pos <= Len(toks) => read \in Readings
  <2>1. inner \in Readings => inner.pos + 1 \in Nat /\ inner.tree \in Trees
    BY ReadingsAre
  <2>. QED  BY <1>4, <2>1, ReadingsAre
<1>6. pos <= Len(toks) => ParseLeaf(toks, pos) \in Readings
  BY <1>3, LeafIs
<1> SUFFICES /\ atom \in Readings
             /\ pos > Len(toks) => ~atom.ok
             /\ pos <= Len(toks) /\ toks[pos] # "(" => atom = ParseLeaf(toks, pos)
             /\ pos <= Len(toks) /\ toks[pos] = "(" =>
                   /\ pos + 1 \in Positions(toks)
                   /\ IF ends THEN atom = read ELSE ~atom.ok
  OBVIOUS
<1>. HIDE DEF atom, inner, ends, read
<1>7. Malformed \in Readings /\ ~Malformed.ok
  BY ReadingsAre
<1>. QED  BY <1>1, <1>2, <1>3, <1>5, <1>6, <1>7

LEMMA AtomsAre ==
    ASSUME NEW toks \in Texts, NEW inside \in Tables(toks)
    PROVE  /\ Atoms(toks, inside) \in Tables(toks)
           /\ \A pos \in Positions(toks) : Atoms(toks, inside)[pos] = ParseAtom(toks, pos, inside)
BY AtomIs DEF Atoms, Tables

\* What is read at every depth: a function that its definition describes.
Levels(toks) ==
    CHOOSE nested : nested = [depth \in 0..Len(toks) + 1 |->
        IF depth = 0 THEN [pos \in 1..Len(toks) + 1 |-> Malformed]
        ELSE LET inside == nested[depth - 1]
             IN  ParseOr(toks, [pos \in 1..Len(toks) + 1 |-> ParseAtom(toks, pos, inside)])]

LEMMA LevelsAre ==
    ASSUME NEW toks \in Texts
    PROVE  /\ Nesting(toks) = Levels(toks)[Len(toks) + 1]
           /\ \A depth \in 0..Len(toks) + 1 : Levels(toks)[depth] \in Tables(toks)
           /\ \A pos \in Positions(toks) : Levels(toks)[0][pos] = Malformed
           /\ \A depth \in 1..Len(toks) + 1 :
                  Levels(toks)[depth] = ParseOr(toks, Atoms(toks, Levels(toks)[depth - 1]))
<1> DEFINE N == Len(toks) + 1
           X == Tables(toks)
           T(x) == ParseOr(toks, Atoms(toks, x))
           step == [n \in 1..N |-> [x \in X |-> T(x)]]
           first == [pos \in Positions(toks) |-> Malformed]
           next(f) == [n \in 0..N |-> IF n = 0 THEN first ELSE T(f[n - 1])]
           R == Turns(N, first, step)
           u == Levels(toks)
<1>1. N \in Nat /\ first \in X
  BY Concat, ReadingsAre DEF Tables
<1>2. \A x \in X : T(x) \in X
  BY AtomsAre, TablesAre
<1>3. step \in [1..N -> [X -> X]]
  <2>. HIDE DEF T, X, N
  <2>. QED  BY <1>2
<1>4. R \in [0..N -> X] /\ R[0] = first /\ \A n \in 1..N : R[n] = step[n][R[n - 1]]
  <2>. HIDE DEF step, N, first, X
  <2>. QED  BY <1>1, <1>3, TurnsAre
<1>. HIDE DEF R
<1>5. \A n \in 0..N : n # 0 => n \in 1..N /\ n - 1 \in 0..N
  BY <1>1
<1>6. ASSUME NEW n \in 1..N  PROVE R[n] = T(R[n - 1])
  <2>0. n - 1 \in 0..N
    BY <1>1
  <2>1. R[n - 1] \in X
    <3>. HIDE DEF N, X, first, step
    <3>. QED  BY <1>4, <2>0
  <2>. HIDE DEF T, X, N, first
  <2>. QED  BY <1>4, <2>1
<1>7. R = next(R)
  <2>. HIDE DEF T, step, N, X, first
  <2>. QED  BY <1>4, <1>5, <1>6
<1>8. u = next(u)
  <2>1. u = CHOOSE f : f = next(f)
    BY DEF Levels, Atoms, Positions
  <2>. HIDE DEF next, u
  <2>. QED  BY <1>7, <2>1
<1>9. Nesting(toks) = u[N]
  BY DEF Nesting, Levels
<1>. HIDE DEF u
<1>10. u[0] = first /\ \A n \in 1..N : u[n] = T(u[n - 1])
  <2>1. \A n \in 1..N : n \in 0..N /\ n # 0
    BY <1>1
  <2>2. next(u)[0] = first /\ \A n \in 1..N : next(u)[n] = T(u[n - 1])
    <3>. HIDE DEF T, first
    <3>. QED  BY <1>1, <2>1
  <2>. HIDE DEF next, T, first
  <2>. QED  BY <1>8, <2>2
<1>11. \A n \in 0..N : u[n] \in X
  <2> DEFINE typed == {n \in Nat : n <= N => u[n] \in X}
  <2>1. 0 \in typed
    <3>. HIDE DEF T, first, X, N
    <3>. QED  BY <1>1, <1>10
  <2>2. ASSUME NEW n \in Nat, n \in typed  PROVE n + 1 \in typed
    <3> SUFFICES ASSUME n + 1 <= N  PROVE u[n + 1] \in X
      OBVIOUS
    <3>1. n + 1 \in 1..N /\ (n + 1) - 1 = n /\ n <= N
      BY <1>1
    <3>2. u[n + 1] = T(u[n])
      <4>. HIDE DEF T, N, first
      <4>. QED  BY <1>10, <3>1
    <3>. HIDE DEF T, X, N
    <3>. QED  BY <1>2, <2>2, <3>1, <3>2
  <2>3. Nat \subseteq typed
    <3>. HIDE DEF typed
    <3>. QED  BY <2>1, <2>2, Climb
  <2>. HIDE DEF X, N
  <2>. QED  BY <1>1, <2>3
<1>12. \A pos \in Positions(toks) : first[pos] = Malformed
  OBVIOUS
<1>. HIDE DEF T, first
<1> SUFFICES /\ Nesting(toks) = u[N]
             /\ \A n \in 0..N : u[n] \in X
             /\ \A pos \in Positions(toks) : u[0][pos] = Malformed
             /\ \A n \in 1..N : u[n] = T(u[n - 1])
  BY DEF u, T
<1>. QED  BY <1>9, <1>10, <1>11, <1>12

-----------------------------------------------------------------------------
(* What is read can be derived.                                            *)

\* Passages of a text, put together.
LEMMA PassagesAre ==
    ASSUME NEW toks \in Texts, NEW i \in 1..Len(toks), NEW j \in i..Len(toks)
    PROVE  /\ SubSeq(toks, i, j) \in Texts
           /\ Len(SubSeq(toks, i, j)) = j - i + 1
           /\ \A n \in 1..j - i + 1 : SubSeq(toks, i, j)[n] = toks[i + n - 1]
<1>1. Len(toks) \in Nat /\ i \in Int /\ j \in Int /\ i <= j /\ \A n \in i..j : toks[n] \in Tokens
  BY Concat
<1>. QED  BY <1>1, SubSeqProperties DEF Texts

LEMMA SameText ==
    ASSUME NEW s \in Texts, NEW t \in Texts, Len(s) = Len(t), \A i \in 1..Len(s) : s[i] = t[i]
    PROVE  s = t
BY SeqEqual DEF Texts

LEMMA TokenIs ==
    ASSUME NEW toks \in Texts, NEW i, 1 <= i, i <= Len(toks), i \in Nat
    PROVE  toks[i] \in Tokens
<1>1. i \in 1..Len(toks)
  BY Concat
<1>. QED  BY <1>1, Concat

LEMMA ShortPassages ==
    ASSUME NEW toks \in Texts, NEW i \in 1..Len(toks)
    PROVE  /\ SubSeq(toks, i, i) = <<toks[i]>>
           /\ i + 2 <= Len(toks) => SubSeq(toks, i, i + 2) = <<toks[i], toks[i + 1], toks[i + 2]>>
<1>0. Len(toks) \in Nat /\ i \in Nat /\ 1 <= i /\ i <= Len(toks)
  BY Concat
<1>1. SubSeq(toks, i, i) = <<toks[i]>>
  <2> DEFINE one == SubSeq(toks, i, i)
  <2>1. i \in i..Len(toks) /\ i - i + 1 = 1 /\ i + 1 - 1 = i
    BY <1>0
  <2>2. one \in Texts /\ Len(one) = 1 /\ \A n \in 1..1 : one[n] = toks[i + n - 1]
    BY <2>1, PassagesAre
  <2>3. one[1] = toks[i]
    BY <2>1, <2>2
  <2>4. <<toks[i]>> \in Texts /\ Len(<<toks[i]>>) = 1 /\ <<toks[i]>>[1] = toks[i]
    BY Concat
  <2>. HIDE DEF one
  <2>5. \A n \in 1..1 : n = 1
    OBVIOUS
  <2>. QED  BY <2>2, <2>3, <2>4, <2>5, SameText DEF one
<1>2. ASSUME i + 2 <= Len(toks)
      PROVE  SubSeq(toks, i, i + 2) = <<toks[i], toks[i + 1], toks[i + 2]>>
  <2> DEFINE part == SubSeq(toks, i, i + 2)
             three == <<toks[i], toks[i + 1], toks[i + 2]>>
  <2>1. /\ i + 2 \in i..Len(toks) /\ (i + 2) - i + 1 = 3
        /\ i + 1 - 1 = i /\ i + 2 - 1 = i + 1 /\ i + 3 - 1 = i + 2
    BY <1>0, <1>2
  <2>2. part \in Texts /\ Len(part) = 3 /\ \A n \in 1..3 : part[n] = toks[i + n - 1]
    BY <2>1, PassagesAre
  <2>3. part[1] = toks[i] /\ part[2] = toks[i + 1] /\ part[3] = toks[i + 2]
    BY <2>1, <2>2
  <2>4. toks[i] \in Tokens /\ toks[i + 1] \in Tokens /\ toks[i + 2] \in Tokens
    BY <1>0, <1>2, TokenIs
  <2>5. three \in Texts /\ Len(three) = 3
        /\ three[1] = toks[i] /\ three[2] = toks[i + 1] /\ three[3] = toks[i + 2]
    BY <2>4 DEF Texts
  <2>. HIDE DEF part, three
  <2>6. \A n \in 1..3 : n = 1 \/ n = 2 \/ n = 3
    OBVIOUS
  <2>7. part = three
    BY <2>2, <2>3, <2>5, <2>6, SameText
  <2>. QED  BY <2>7 DEF part, three
<1>. QED  BY <1>1, <1>2

LEMMA Seam ==
    ASSUME NEW toks \in Texts, NEW i \in 1..Len(toks), NEW j \in i + 1..Len(toks)
    PROVE  /\ \A k \in j + 1..Len(toks) :
                  SubSeq(toks, i, j - 1) \o <<toks[j]>> \o SubSeq(toks, j + 1, k) = SubSeq(toks, i, k)
           /\ i + 1 < j => <<toks[i]>> \o SubSeq(toks, i + 1, j - 1) \o <<toks[j]>> = SubSeq(toks, i, j)
<1>1. /\ Len(toks) \in Nat /\ i \in 1..Len(toks) /\ j \in i..Len(toks) /\ i \in 1..Len(toks) + 1
      /\ j \in i - 1..Len(toks)
  BY Concat
<1>2. SubSeq(toks, i, j) = SubSeq(toks, i, j - 1) \o <<toks[j]>>
  BY <1>1, SubSeqRecursiveSecond DEF Texts
<1>3. ASSUME NEW k \in j + 1..Len(toks)
      PROVE  SubSeq(toks, i, j) \o SubSeq(toks, j + 1, k) = SubSeq(toks, i, k)
  <2>1. k \in j..Len(toks)
    BY <1>1
  <2>. QED  BY <1>1, <2>1, ConcatAdjacentSubSeq DEF Texts
<1>4. ASSUME i + 1 < j
      PROVE  <<toks[i]>> \o SubSeq(toks, i + 1, j - 1) = SubSeq(toks, i, j - 1)
  <2>1. j - 1 \in i..Len(toks)
    BY <1>1, <1>4
  <2>. QED  BY <1>1, <2>1, SubSeqRecursiveFirst DEF Texts
<1>. QED  BY <1>2, <1>3, <1>4

Spans(toks, rank, pos, r) ==
    /\ r.pos \in pos + 1..Len(toks) + 1
    /\ Phrase(rank, SubSeq(toks, pos, r.pos - 1), r.tree) \in Derivable
Sound(toks, rank, table) ==
    \A pos \in Positions(toks) : table[pos].ok => Spans(toks, rank, pos, table[pos])

LEMMA LoopIsSound ==
    ASSUME NEW toks \in Texts, NEW op \in {"AND", "OR"}, NEW operand \in Tables(toks),
           NEW rank, NEW below, JoinsBy(Derivable, op, rank, below),
           \A s, t : Phrase(below, s, t) \in Derivable => Phrase(rank, s, t) \in Derivable,
           Sound(toks, below, operand), NEW pos \in Positions(toks),
           Joined(toks, op, operand, pos).ok
    PROVE  Spans(toks, rank, pos, Joined(toks, op, operand, pos))
<1> DEFINE u == Loop(toks, op, operand, pos)
           good == {n \in Nat : n <= Len(toks) /\ u[n].ok => Spans(toks, rank, pos, u[n])}
<1>1. /\ Joined(toks, op, operand, pos) = u[Len(toks)]
      /\ u[0] = operand[pos]
      /\ \A n \in 0..Len(toks) : u[n] \in Readings
      /\ \A n \in 1..Len(toks) : u[n] = Turn(toks, op, operand, u[n - 1])
  BY LoopIs
<1>2. Len(toks) \in Nat /\ pos \in Nat /\ 1 <= pos /\ pos <= Len(toks) + 1
  BY Concat DEF Positions
<1>. HIDE DEF u
<1>3. 0 \in good
  BY <1>1 DEF Sound, Spans
<1>4. ASSUME NEW n \in Nat, n \in good  PROVE n + 1 \in good
  <2> DEFINE left == u[n]
             right == operand[left.pos + 1]
  <2> SUFFICES ASSUME n + 1 <= Len(toks), u[n + 1].ok  PROVE Spans(toks, rank, pos, u[n + 1])
    OBVIOUS
  <2>1. u[n + 1] = Turn(toks, op, operand, left) /\ left \in Readings
    <3>1. n + 1 \in 1..Len(toks) /\ (n + 1) - 1 = n /\ n \in 0..Len(toks)
      BY <1>2
    <3>. QED  BY <1>1, <3>1
  <2>2. left.ok => Spans(toks, rank, pos, left)
    BY <1>2, <1>4
  <2>3. CASE ~left.ok \/ ~PeekOperator(toks, left.pos, op)
    <3>1. u[n + 1] = left
      BY <2>1, <2>3, TurnIs
    <3>. QED  BY <2>2, <3>1
  <2>4. CASE left.ok /\ PeekOperator(toks, left.pos, op)
    <3>1. /\ left.pos + 1 \in Positions(toks)
          /\ ~right.ok => u[n + 1] = Malformed
          /\ right.ok => u[n + 1] = Read(right.pos, Node(op, left.tree, right.tree))
      BY <2>1, <2>4, TurnIs
    <3>2. right.ok /\ u[n + 1].pos = right.pos /\ u[n + 1].tree = Node(op, left.tree, right.tree)
      BY <3>1, ReadingsAre
    <3>3. Spans(toks, below, left.pos + 1, right) /\ Spans(toks, rank, pos, left)
      BY <2>2, <2>4, <3>1, <3>2 DEF Sound
    <3> DEFINE j == left.pos
               k == right.pos - 1
    <3>4. j \in Nat /\ pos + 1 <= j /\ j <= Len(toks) /\ Upper(toks[j]) = op
      BY <2>1, <2>4, <3>3, ReadingsAre DEF Spans, PeekOperator
    <3>5. k \in j + 1..Len(toks) /\ right.pos \in pos + 1..Len(toks) + 1
      <4>1. right.pos \in (j + 1) + 1..Len(toks) + 1
        BY <3>3 DEF Spans
      <4>2. right.pos \in Nat
        BY <1>2, <3>4, <4>1, SMTT(20)
      <4>. HIDE DEF left, right, j
      <4>. QED  BY <1>2, <3>4, <4>1, <4>2 DEF k
    <3>6. /\ Phrase(rank, SubSeq(toks, pos, j - 1), left.tree) \in Derivable
          /\ Phrase(below, SubSeq(toks, j + 1, k), right.tree) \in Derivable
      BY <3>3 DEF Spans
    <3>. HIDE DEF left, right, j, k
    <3>7. toks[j] \in Tokens
      BY <1>2, <3>4, TokenIs
    <3>8. SubSeq(toks, pos, j - 1) \o <<toks[j]>> \o SubSeq(toks, j + 1, k) = SubSeq(toks, pos, k)
      <4>1. pos \in 1..Len(toks) /\ j \in pos + 1..Len(toks)
        BY <1>2, <3>4
      <4>. QED  BY <3>5, <4>1, Seam
    <3>9. Phrase(rank, SubSeq(toks, pos, k), Node(op, left.tree, right.tree)) \in Derivable
      BY <3>4, <3>6, <3>7, <3>8 DEF JoinsBy
    <3>10. u[n + 1].pos - 1 = k
      BY <3>2 DEF k
    <3>. QED  BY <3>2, <3>5, <3>9, <3>10 DEF Spans
  <2>. QED  BY <2>3, <2>4
<1>5. Nat \subseteq good
  <2>. HIDE DEF good
  <2>. QED  BY <1>3, <1>4, Climb
<1>. QED  BY <1>1, <1>2, <1>5

LEMMA AtomsAreSound ==
    ASSUME NEW toks \in Texts, NEW inside \in Tables(toks), Sound(toks, "or", inside)
    PROVE  Sound(toks, "atom", Atoms(toks, inside))
<1> SUFFICES ASSUME NEW pos \in Positions(toks), ParseAtom(toks, pos, inside).ok
             PROVE  Spans(toks, "atom", pos, ParseAtom(toks, pos, inside))
  BY AtomsAre DEF Sound
<1> DEFINE atom == ParseAtom(toks, pos, inside)
<1>1. Len(toks) \in Nat /\ pos \in Nat /\ 1 <= pos /\ pos <= Len(toks) + 1
  BY Concat DEF Positions
<1>2. pos <= Len(toks)
  BY <1>1, AtomIs
<1>3. pos \in 1..Len(toks)
  BY <1>1, <1>2
<1>4. CASE toks[pos] # "("
  <2>1. atom = ParseLeaf(toks, pos) /\ atom.ok
    BY <1>2, <1>4, AtomIs
  <2>2. toks[pos] \in Shaped
    BY <1>3, <2>1, LeafIs
  <2>3. CASE atom = Read(pos + 1, Leaf(<<toks[pos]>>))
    <3>1. atom.pos = pos + 1 /\ atom.tree = Leaf(<<toks[pos]>>)
      BY <2>3, ReadingsAre
    <3>2. SubSeq(toks, pos, pos) = <<toks[pos]>>
      BY <1>3, ShortPassages
    <3>3. atom.pos - 1 = pos /\ atom.pos \in pos + 1..Len(toks) + 1
      BY <1>1, <1>2, <3>1
    <3>4. Phrase("atom", <<toks[pos]>>, Leaf(<<toks[pos]>>)) \in Derivable
      BY <2>2, Rules
    <3>. HIDE DEF atom
    <3> SUFFICES Spans(toks, "atom", pos, atom)
      BY DEF atom
    <3>. QED  BY <3>1, <3>2, <3>3, <3>4 DEF Spans
  <2>4. CASE /\ pos + 2 <= Len(toks) /\ Upper(toks[pos + 1]) = "WITH" /\ toks[pos + 2] \in Shaped
             /\ atom = Read(pos + 3, Leaf(<<toks[pos], "WITH", toks[pos + 2]>>))
    <3> DEFINE three == <<toks[pos], toks[pos + 1], toks[pos + 2]>>
    <3>1. atom.pos = pos + 3 /\ atom.tree = Leaf(<<toks[pos], "WITH", toks[pos + 2]>>)
      BY <2>4, ReadingsAre
    <3>2. toks[pos + 1] \in Tokens
      BY <1>1, <2>4, TokenIs
    <3>3. SubSeq(toks, pos, pos + 2) = three
      BY <1>3, <2>4, ShortPassages
    <3>4. atom.pos - 1 = pos + 2 /\ atom.pos \in pos + 1..Len(toks) + 1
      BY <1>1, <2>4, <3>1
    <3>5. Phrase("atom", three, Leaf(<<toks[pos], "WITH", toks[pos + 2]>>)) \in Derivable
      BY <2>2, <2>4, <3>2, Rules
    <3>. HIDE DEF atom, three
    <3> SUFFICES Spans(toks, "atom", pos, atom)
      BY DEF atom
    <3>. QED  BY <3>1, <3>3, <3>4, <3>5 DEF Spans
  <2>. QED  BY <1>3, <2>1, <2>3, <2>4, LeafIs
<1>5. CASE toks[pos] = "("
  <2> DEFINE inner == inside[pos + 1]
             j == inner.pos
  <2>1. /\ pos + 1 \in Positions(toks) /\ inner.ok /\ j <= Len(toks) /\ toks[j] = ")"
        /\ atom = Read(j + 1, inner.tree)
    BY <1>2, <1>5, AtomIs
  <2>2. Spans(toks, "or", pos + 1, inner)
    BY <2>1 DEF Sound
  <2>3. j \in (pos + 1) + 1..Len(toks) + 1 /\ Phrase("or", SubSeq(toks, pos + 1, j - 1), inner.tree) \in Derivable
    BY <2>2 DEF Spans
  <2>4. atom.pos = j + 1 /\ atom.tree = inner.tree
    BY <2>1, ReadingsAre
  <2>. HIDE DEF inner, j, atom
  <2> SUFFICES Spans(toks, "atom", pos, atom)
    BY DEF atom
  <2>5. j \in pos + 1..Len(toks) /\ pos + 1 < j /\ atom.pos - 1 = j /\ atom.pos \in pos + 1..Len(toks) + 1
    BY <1>1, <2>1, <2>3, <2>4
  <2>6. <<toks[pos]>> \o SubSeq(toks, pos + 1, j - 1) \o <<toks[j]>> = SubSeq(toks, pos, j)
    BY <1>3, <2>5, Seam
  <2>7. Phrase("atom", SubSeq(toks, pos, j), inner.tree) \in Derivable
    BY <1>5, <2>1, <2>3, <2>6, Rules
  <2>. QED  BY <2>4, <2>5, <2>7 DEF Spans
<1>. QED  BY <1>4, <1>5

LEMMA LevelsAreSound ==
    ASSUME NEW toks \in Texts
    PROVE  Sound(toks, "or", Nesting(toks))
<1> DEFINE u == Levels(toks)
           N == Len(toks) + 1
           good == {n \in Nat : n <= N => Sound(toks, "or", u[n])}
<1>1. /\ Nesting(toks) = u[N]
      /\ \A depth \in 0..N : u[depth] \in Tables(toks)
      /\ \A pos \in Positions(toks) : u[0][pos] = Malformed
      /\ \A depth \in 1..N : u[depth] = ParseOr(toks, Atoms(toks, u[depth - 1]))
  BY LevelsAre
<1>2. N \in Nat
  BY Concat
<1>. HIDE DEF u, N
<1>3. 0 \in good
  BY <1>1, ReadingsAre DEF Sound
<1>4. ASSUME NEW n \in Nat, n \in good  PROVE n + 1 \in good
  <2> SUFFICES ASSUME n + 1 <= N  PROVE Sound(toks, "or", u[n + 1])
    OBVIOUS
  <2> DEFINE atom == Atoms(toks, u[n])
  <2>1. u[n + 1] = ParseOr(toks, atom) /\ u[n] \in Tables(toks)
    <3>1. n + 1 \in 1..N /\ (n + 1) - 1 = n /\ n \in 0..N
      BY <1>2
    <3>. QED  BY <1>1, <3>1
  <2>2. Sound(toks, "or", u[n])
    BY <1>2, <1>4
  <2>3. atom \in Tables(toks) /\ Sound(toks, "atom", atom)
    BY <2>1, <2>2, AtomsAre, AtomsAreSound
  <2>. HIDE DEF atom
  <2>4. /\ ParseAnd(toks, atom) \in Tables(toks)
        /\ \A pos \in Positions(toks) :
              /\ ParseAnd(toks, atom)[pos] = Joined(toks, "AND", atom, pos)
              /\ ParseOr(toks, atom)[pos] = Joined(toks, "OR", ParseAnd(toks, atom), pos)
    BY <2>3, TablesAre
  <2>5. JoinsBy(Derivable, "AND", "and", "atom") /\ JoinsBy(Derivable, "OR", "or", "and")
    BY Derivations DEF Closed, Joins
  <2>6. Sound(toks, "and", ParseAnd(toks, atom))
    <3> SUFFICES ASSUME NEW pos \in Positions(toks), Joined(toks, "AND", atom, pos).ok
                 PROVE  Spans(toks, "and", pos, Joined(toks, "AND", atom, pos))
      BY <2>4 DEF Sound
    <3>1. \A s, t : Phrase("atom", s, t) \in Derivable => Phrase("and", s, t) \in Derivable
      BY Rules
    <3>. QED  BY <2>3, <2>5, <3>1, LoopIsSound
  <2>7. Sound(toks, "or", ParseOr(toks, atom))
    <3> SUFFICES ASSUME NEW pos \in Positions(toks), Joined(toks, "OR", ParseAnd(toks, atom), pos).ok
                 PROVE  Spans(toks, "or", pos, Joined(toks, "OR", ParseAnd(toks, atom), pos))
      BY <2>4 DEF Sound
    <3>1. \A s, t : Phrase("and", s, t) \in Derivable => Phrase("or", s, t) \in Derivable
      BY Rules
    <3>. QED  BY <2>4, <2>5, <2>6, <3>1, LoopIsSound
  <2>. QED  BY <2>1, <2>7
<1>5. Nat \subseteq good
  <2>. HIDE DEF good
  <2>. QED  BY <1>3, <1>4, Climb
<1>. QED  BY <1>1, <1>2, <1>5

\* A text that parses is a sentence, and the tree that of its derivation.
LEMMA ParsedIsDerivable ==
    ASSUME NEW toks \in Texts, Parse(toks).ok
    PROVE  /\ Phrase("or", toks, Parse(toks).tree) \in Derivable
           /\ Parse(toks).tree \in Trees
<1>1. Parse(toks) = Nesting(toks)[1] /\ Parse(toks).pos = Len(toks) + 1
  BY ReadingsAre DEF Parse
<1>2. 1 \in Positions(toks) /\ Len(toks) \in Nat
  BY Concat DEF Positions
<1>3. Spans(toks, "or", 1, Parse(toks))
  BY <1>1, <1>2, LevelsAreSound DEF Sound
<1>4. Parse(toks).pos - 1 = Len(toks)
  BY <1>1, <1>2
<1>5. SubSeq(toks, 1, Len(toks)) = toks
  BY SubSeqFull DEF Texts
<1>. QED  BY <1>3, <1>4, <1>5, PhraseIs DEF Spans

-----------------------------------------------------------------------------
(* What can be derived is read.                                            *)

\* A text occurs at a position of another.
At(toks, i, s) ==
    /\ i + Len(s) <= Len(toks) + 1
    /\ \A k \in 1..Len(s) : toks[i + k - 1] = s[k]

LEMMA AtConcat ==
    ASSUME NEW toks \in Texts, NEW i \in Positions(toks), NEW a \in Texts, NEW b \in Texts,
           At(toks, i, a \o b)
    PROVE  At(toks, i, a) /\ i + Len(a) \in Positions(toks) /\ At(toks, i + Len(a), b)
<1>1. Len(toks) \in Nat /\ i \in Nat /\ 1 <= i /\ Len(a) \in Nat /\ Len(b) \in Nat
  <2>1. Len(toks) \in Nat /\ Len(a) \in Nat /\ Len(b) \in Nat
    BY Concat
  <2>. QED  BY <2>1 DEF Positions
<1>2. /\ Len(a \o b) = Len(a) + Len(b)
      /\ \A k \in 1..Len(a) : (a \o b)[k] = a[k]
      /\ \A k \in 1..Len(b) : (a \o b)[Len(a) + k] = b[k]
  BY Concat
<1>3. /\ i + (Len(a) + Len(b)) <= Len(toks) + 1
      /\ \A k \in 1..Len(a) + Len(b) : toks[i + k - 1] = (a \o b)[k]
  BY <1>2 DEF At
<1>4. At(toks, i, a)
  <2>1. i + Len(a) <= Len(toks) + 1
    BY <1>1, <1>3
  <2>2. \A k \in 1..Len(a) : k \in 1..Len(a) + Len(b)
    BY <1>1
  <2>. QED  BY <1>2, <1>3, <2>1, <2>2 DEF At
<1>5. At(toks, i + Len(a), b)
  <2>1. i + Len(a) + Len(b) <= Len(toks) + 1
    BY <1>1, <1>3
  <2>2. \A k \in 1..Len(b) :
            Len(a) + k \in 1..Len(a) + Len(b) /\ i + (Len(a) + k) - 1 = i + Len(a) + k - 1
    BY <1>1
  <2>3. ASSUME NEW k \in 1..Len(b)  PROVE toks[i + Len(a) + k - 1] = b[k]
    <3>1. toks[i + (Len(a) + k) - 1] = (a \o b)[Len(a) + k]
      BY <1>3, <2>2
    <3>. QED  BY <1>2, <2>2, <3>1
  <2>. QED  BY <2>1, <2>3 DEF At
<1>6. i + Len(a) \in Positions(toks)
  BY <1>1, <1>3 DEF Positions
<1>. QED  BY <1>4, <1>5, <1>6

LEMMA AtOne ==
    ASSUME NEW toks \in Texts, NEW i \in Positions(toks), NEW tok \in Tokens, At(toks, i, <<tok>>)
    PROVE  i \in 1..Len(toks) /\ i + 1 \in Positions(toks) /\ toks[i] = tok
<1>1. Len(toks) \in Nat /\ Len(<<tok>>) = 1 /\ <<tok>>[1] = tok
  BY Concat
<1>2. i + 1 <= Len(toks) + 1 /\ \A k \in 1..1 : toks[i + k - 1] = <<tok>>[k]
  BY <1>1 DEF At
<1>3. i \in Nat /\ 1 <= i /\ i + 1 - 1 = i
  BY <1>1 DEF Positions
<1>4. toks[i] = tok
  BY <1>1, <1>2, <1>3
<1>5. i \in 1..Len(toks) /\ i + 1 \in 1..Len(toks) + 1
  BY <1>1, <1>2, <1>3
<1>. QED  BY <1>4, <1>5 DEF Positions

\* Two texts with a token between them.
LEMMA AtJoin ==
    ASSUME NEW toks \in Texts, NEW i \in Positions(toks), NEW a \in Texts, NEW b \in Texts,
           NEW tok \in Tokens, At(toks, i, a \o <<tok>> \o b)
    PROVE  /\ At(toks, i, a)
           /\ i + Len(a) \in 1..Len(toks) /\ toks[i + Len(a)] = tok
           /\ i + Len(a) + 1 \in Positions(toks) /\ At(toks, i + Len(a) + 1, b)
           /\ Len(a \o <<tok>> \o b) = Len(a) + 1 + Len(b)
           /\ i + Len(a) + 1 + Len(b) = i + Len(a \o <<tok>> \o b)
           /\ i + Len(a) + 1 + Len(b) \in Nat
           /\ Len(a) + 1 + Len(b) <= Len(toks)
<1>1. <<tok>> \in Texts /\ Len(<<tok>>) = 1 /\ a \o <<tok>> \in Texts /\ Len(a \o <<tok>>) = Len(a) + 1
  BY Concat
<1>2. At(toks, i, a \o <<tok>>) /\ At(toks, i + (Len(a) + 1), b) /\ i + (Len(a) + 1) \in Positions(toks)
  BY <1>1, AtConcat
<1>3. At(toks, i, a) /\ i + Len(a) \in Positions(toks) /\ At(toks, i + Len(a), <<tok>>)
  BY <1>1, <1>2, AtConcat
<1>4. i + Len(a) \in 1..Len(toks) /\ toks[i + Len(a)] = tok
  BY <1>3, AtOne
<1>5. /\ Len(a) \in Nat /\ Len(b) \in Nat /\ Len(toks) \in Nat
      /\ Len(a \o <<tok>> \o b) = Len(a) + 1 + Len(b)
  BY <1>1, Concat
<1>6. i \in Nat /\ 1 <= i
  BY <1>5 DEF Positions
<1>7. i + (Len(a) + 1) = i + Len(a) + 1
  BY <1>5, <1>6
<1>8. i + Len(a) + 1 + Len(b) <= Len(toks) + 1
  BY <1>2, <1>7 DEF At
<1>9. /\ i + Len(a) + 1 + Len(b) = i + (Len(a) + 1 + Len(b)) /\ i + Len(a) + 1 + Len(b) \in Nat
      /\ Len(a) + 1 + Len(b) <= Len(toks)
  BY <1>5, <1>6, <1>8
<1>. QED  BY <1>2, <1>3, <1>4, <1>5, <1>7, <1>9

\* Once nothing is left to join, a loop stays where it is.
LEMMA LoopStays ==
    ASSUME NEW toks \in Texts, NEW op \in {"AND", "OR"}, NEW operand \in Tables(toks),
           NEW i \in Positions(toks), NEW k \in 0..Len(toks), NEW r,
           Loop(toks, op, operand, i)[k] = r, ~PeekOperator(toks, r.pos, op)
    PROVE  Joined(toks, op, operand, i) = r
<1> DEFINE u == Loop(toks, op, operand, i)
           good == {n \in Nat : k <= n /\ n <= Len(toks) => u[n] = r}
<1>1. /\ Joined(toks, op, operand, i) = u[Len(toks)]
      /\ \A n \in 0..Len(toks) : u[n] \in Readings
      /\ \A n \in 1..Len(toks) : u[n] = Turn(toks, op, operand, u[n - 1])
  BY LoopIs
<1>2. Len(toks) \in Nat /\ k \in Nat /\ k <= Len(toks)
  BY Concat
<1>. HIDE DEF u
<1>3. u[k] = r
  BY DEF u
<1>4. 0 \in good
  BY <1>2, <1>3
<1>5. ASSUME NEW n \in Nat, n \in good  PROVE n + 1 \in good
  <2> SUFFICES ASSUME k <= n + 1, n + 1 <= Len(toks)  PROVE u[n + 1] = r
    OBVIOUS
  <2>1. CASE k = n + 1
    BY <1>3, <2>1
  <2>2. CASE k # n + 1
    <3>1. k <= n /\ n <= Len(toks) /\ n + 1 \in 1..Len(toks) /\ (n + 1) - 1 = n /\ n \in 0..Len(toks)
      BY <1>2, <2>2
    <3>2. u[n] = r /\ u[n] \in Readings /\ u[n + 1] = Turn(toks, op, operand, u[n])
      BY <1>1, <1>5, <3>1
    <3>. QED  BY <3>2, TurnIs
  <2>. QED  BY <2>1, <2>2
<1>6. Nat \subseteq good
  <2>. HIDE DEF good
  <2>. QED  BY <1>4, <1>5, Climb
<1>. QED  BY <1>1, <1>2, <1>6

LEMMA LoopGoes ==
    ASSUME NEW toks \in Texts, NEW op \in {"AND", "OR"}, NEW operand \in Tables(toks),
           NEW i \in Positions(toks), NEW k \in 0..Len(toks), k < Len(toks),
           NEW j, NEW t, Loop(toks, op, operand, i)[k] = Read(j, t), PeekOperator(toks, j, op),
           NEW m, NEW w, operand[j + 1] = Read(m, w)
    PROVE  Loop(toks, op, operand, i)[k + 1] = Read(m, Node(op, t, w))
<1> DEFINE u == Loop(toks, op, operand, i)
<1>1. k + 1 \in 1..Len(toks) /\ (k + 1) - 1 = k
  <2>1. Len(toks) \in Nat
    BY Concat
  <2>. QED  BY <2>1
<1>2. u[k + 1] = Turn(toks, op, operand, u[k]) /\ u[k] \in Readings
  BY <1>1, LoopIs
<1>3. u[k].ok /\ u[k].pos = j /\ u[k].tree = t
  BY ReadingsAre
<1>4. operand[j + 1].ok /\ operand[j + 1].pos = m /\ operand[j + 1].tree = w
  BY ReadingsAre
<1>. HIDE DEF u
<1>. QED  BY <1>2, <1>3, <1>4, TurnIs DEF u

\* The tables of a depth.
AtomTable(toks, d) == Atoms(toks, Levels(toks)[d])
AndTable(toks, d) == ParseAnd(toks, AtomTable(toks, d))

LEMMA DepthIs ==
    ASSUME NEW toks \in Texts, NEW d \in 0..Len(toks)
    PROVE  /\ AtomTable(toks, d) \in Tables(toks) /\ AndTable(toks, d) \in Tables(toks)
           /\ Levels(toks)[d] \in Tables(toks)
           /\ \A i \in Positions(toks) :
                  /\ AtomTable(toks, d)[i] = ParseAtom(toks, i, Levels(toks)[d])
                  /\ AndTable(toks, d)[i] = Joined(toks, "AND", AtomTable(toks, d), i)
                  /\ Levels(toks)[d + 1][i] = Joined(toks, "OR", AndTable(toks, d), i)
<1>1. d \in 0..Len(toks) + 1 /\ d + 1 \in 1..Len(toks) + 1 /\ (d + 1) - 1 = d
  BY Concat
<1>2. Levels(toks)[d] \in Tables(toks) /\ Levels(toks)[d + 1] = ParseOr(toks, AtomTable(toks, d))
  BY <1>1, LevelsAre DEF AtomTable
<1>3. /\ AtomTable(toks, d) \in Tables(toks)
      /\ \A i \in Positions(toks) : AtomTable(toks, d)[i] = ParseAtom(toks, i, Levels(toks)[d])
  BY <1>2, AtomsAre DEF AtomTable
<1>4. /\ AndTable(toks, d) \in Tables(toks)
      /\ \A i \in Positions(toks) :
             /\ AndTable(toks, d)[i] = Joined(toks, "AND", AtomTable(toks, d), i)
             /\ ParseOr(toks, AtomTable(toks, d))[i] = Joined(toks, "OR", AndTable(toks, d), i)
  BY <1>3, TablesAre DEF AndTable
<1>. QED  BY <1>2, <1>3, <1>4

\* A phrase of a text is read where it occurs, at every depth that is enough for it,
\* unless what follows binds tighter.
Occurs(toks, d, i, s) ==
    /\ d \in 0..Len(toks) /\ i \in Positions(toks) /\ At(toks, i, s) /\ Len(s) <= d + 1
    /\ ~PeekOperator(toks, i + Len(s), "WITH")
ReadAtom(toks, s, t) ==
    \A d, i : Occurs(toks, d, i, s) => AtomTable(toks, d)[i] = Read(i + Len(s), t)
ReadAnd(toks, s, t) ==
    \A d, i : Occurs(toks, d, i, s) =>
        \E k \in 0..Len(s) : Loop(toks, "AND", AtomTable(toks, d), i)[k] = Read(i + Len(s), t)
ReadOr(toks, s, t) ==
    \A d, i : Occurs(toks, d, i, s) /\ ~PeekOperator(toks, i + Len(s), "AND") =>
        \E k \in 0..Len(s) : Loop(toks, "OR", AndTable(toks, d), i)[k] = Read(i + Len(s), t)

LEMMA OccursIs ==
    ASSUME NEW toks \in Texts, NEW d, NEW i, NEW s \in Texts, Occurs(toks, d, i, s)
    PROVE  /\ d \in 0..Len(toks) /\ i \in Positions(toks)
           /\ Len(s) \in Nat /\ 0 \in 0..Len(s) /\ \A k \in 0..Len(s) : k \in 0..Len(toks)
<1>1. Len(s) \in Nat /\ Len(toks) \in Nat
  BY Concat
<1>2. d \in 0..Len(toks) /\ i \in Positions(toks) /\ i + Len(s) <= Len(toks) + 1
  BY DEF Occurs, At
<1>3. Len(s) <= Len(toks)
  BY <1>1, <1>2 DEF Positions
<1>. QED  BY <1>1, <1>2, <1>3

\* When the loop is over.
LEMMA AndIsRead ==
    ASSUME NEW toks \in Texts, NEW d, NEW i, NEW s \in Texts, NEW t, ReadAnd(toks, s, t),
           Occurs(toks, d, i, s), ~PeekOperator(toks, i + Len(s), "AND")
    PROVE  AndTable(toks, d)[i] = Read(i + Len(s), t)
<1>1. PICK k \in 0..Len(s) : Loop(toks, "AND", AtomTable(toks, d), i)[k] = Read(i + Len(s), t)
  BY DEF ReadAnd
<1>2. d \in 0..Len(toks) /\ i \in Positions(toks) /\ k \in 0..Len(toks)
  BY OccursIs
<1>3. /\ AtomTable(toks, d) \in Tables(toks)
      /\ AndTable(toks, d)[i] = Joined(toks, "AND", AtomTable(toks, d), i)
  BY <1>2, DepthIs
<1>4. Read(i + Len(s), t).pos = i + Len(s)
  BY ReadingsAre
<1>. QED  BY <1>1, <1>2, <1>3, <1>4, LoopStays

LEMMA OrIsRead ==
    ASSUME NEW toks \in Texts, NEW d, NEW i, NEW s \in Texts, NEW t, ReadOr(toks, s, t),
           Occurs(toks, d, i, s), ~PeekOperator(toks, i + Len(s), "AND"),
           ~PeekOperator(toks, i + Len(s), "OR")
    PROVE  Levels(toks)[d + 1][i] = Read(i + Len(s), t)
<1>1. PICK k \in 0..Len(s) : Loop(toks, "OR", AndTable(toks, d), i)[k] = Read(i + Len(s), t)
  BY DEF ReadOr
<1>2. d \in 0..Len(toks) /\ i \in Positions(toks) /\ k \in 0..Len(toks)
  BY OccursIs
<1>3. /\ AndTable(toks, d) \in Tables(toks)
      /\ Levels(toks)[d + 1][i] = Joined(toks, "OR", AndTable(toks, d), i)
  BY <1>2, DepthIs
<1>4. Read(i + Len(s), t).pos = i + Len(s)
  BY ReadingsAre
<1>. QED  BY <1>1, <1>2, <1>3, <1>4, LoopStays

LEMMA WordIsRead ==
    ASSUME NEW toks \in Texts, NEW word \in Shaped
    PROVE  ReadAtom(toks, <<word>>, Leaf(<<word>>))
<1> SUFFICES ASSUME NEW d, NEW i, Occurs(toks, d, i, <<word>>)
             PROVE  AtomTable(toks, d)[i] = Read(i + Len(<<word>>), Leaf(<<word>>))
  BY DEF ReadAtom
<1>1. word \in Tokens /\ word # "(" /\ <<word>> \in Texts /\ Len(<<word>>) = 1
  BY TokensAre, Concat
<1>2. d \in 0..Len(toks) /\ i \in Positions(toks) /\ At(toks, i, <<word>>)
  BY DEF Occurs
<1>3. i \in 1..Len(toks) /\ toks[i] = word
  BY <1>1, <1>2, AtOne
<1>4. ~PeekOperator(toks, i + 1, "WITH")
  BY <1>1 DEF Occurs
<1>5. AtomTable(toks, d)[i] = ParseAtom(toks, i, Levels(toks)[d]) /\ Levels(toks)[d] \in Tables(toks)
  BY <1>2, DepthIs
<1>6. ParseAtom(toks, i, Levels(toks)[d]) = ParseLeaf(toks, i)
  BY <1>1, <1>2, <1>3, <1>5, AtomIs
<1>7. ParseLeaf(toks, i) = Read(i + 1, Leaf(<<toks[i]>>))
  BY <1>3, <1>4, LeafIs
<1>. QED  BY <1>1, <1>3, <1>5, <1>6, <1>7

LEMMA ExceptionIsRead ==
    ASSUME NEW toks \in Texts, NEW word \in Shaped, NEW tok \in Tokens, NEW exception \in Shaped,
           Upper(tok) = "WITH"
    PROVE  ReadAtom(toks, <<word, tok, exception>>, Leaf(<<word, "WITH", exception>>))
<1> DEFINE three == <<word, tok, exception>>
<1> SUFFICES ASSUME NEW d, NEW i, Occurs(toks, d, i, three)
             PROVE  AtomTable(toks, d)[i] = Read(i + Len(three), Leaf(<<word, "WITH", exception>>))
  BY DEF ReadAtom
<1>1. word # "("
  BY TokensAre
<1>2. Len(three) = 3 /\ three[1] = word /\ three[2] = tok /\ three[3] = exception
  OBVIOUS
<1>. HIDE DEF three
<1>3. d \in 0..Len(toks) /\ i \in Positions(toks) /\ At(toks, i, three)
  BY DEF Occurs
<1>4. i + 3 <= Len(toks) + 1 /\ \A k \in 1..3 : toks[i + k - 1] = three[k]
  BY <1>2, <1>3 DEF At
<1>5. Len(toks) \in Nat /\ i \in Nat /\ 1 <= i
  <2>1. Len(toks) \in Nat
    BY Concat
  <2>. QED  BY <1>3, <2>1 DEF Positions
<1>6. i + 1 - 1 = i /\ i + 2 - 1 = i + 1 /\ i + 3 - 1 = i + 2 /\ i \in 1..Len(toks) /\ i + 2 <= Len(toks)
      /\ i <= Len(toks)
  BY <1>4, <1>5
<1>7. toks[i] = word /\ toks[i + 1] = tok /\ toks[i + 2] = exception
  <2>1. toks[i + 1 - 1] = three[1] /\ toks[i + 2 - 1] = three[2] /\ toks[i + 3 - 1] = three[3]
    BY <1>4
  <2>. QED  BY <1>2, <1>6, <2>1
<1>8. AtomTable(toks, d)[i] = ParseAtom(toks, i, Levels(toks)[d]) /\ Levels(toks)[d] \in Tables(toks)
  BY <1>3, DepthIs
<1>9. ParseAtom(toks, i, Levels(toks)[d]) = ParseLeaf(toks, i)
  BY <1>1, <1>3, <1>6, <1>7, <1>8, AtomIs
<1>10. ParseLeaf(toks, i) = Read(i + 3, Leaf(<<toks[i], "WITH", toks[i + 2]>>))
  BY <1>6, <1>7, LeafIs
<1>. QED  BY <1>2, <1>7, <1>8, <1>9, <1>10

LEMMA BracketIsRead ==
    ASSUME NEW toks \in Texts, NEW s \in Texts, NEW t, ReadOr(toks, s, t)
    PROVE  ReadAtom(toks, <<"(">> \o s \o <<")">>, t)
<1> DEFINE whole == <<"(">> \o s \o <<")">>
<1> SUFFICES ASSUME NEW d, NEW i, Occurs(toks, d, i, whole)
             PROVE  AtomTable(toks, d)[i] = Read(i + Len(whole), t)
  BY DEF ReadAtom
<1>1. /\ "(" \in Tokens /\ ")" \in Tokens /\ <<"(">> \in Texts /\ <<")">> \in Texts
      /\ <<"(">> \o s \in Texts
  BY TokensAre, Concat
<1>2. /\ Len(toks) \in Nat /\ Len(s) \in Nat /\ Len(<<"(">>) = 1 /\ Len(<<")">>) = 1
      /\ Len(<<"(">> \o s) = 1 + Len(s)
  BY <1>1, Concat
<1>3. Len(whole) = Len(s) + 2
  <2>1. Len(whole) = (1 + Len(s)) + 1
    BY <1>1, <1>2, Concat
  <2>. HIDE DEF whole
  <2>. QED  BY <1>2, <2>1
<1>4. d \in 0..Len(toks) /\ i \in Positions(toks) /\ At(toks, i, whole) /\ Len(whole) <= d + 1
  BY DEF Occurs
<1>5. /\ At(toks, i, <<"(">> \o s)
      /\ i + (1 + Len(s)) \in Positions(toks) /\ At(toks, i + (1 + Len(s)), <<")">>)
  BY <1>1, <1>2, <1>4, AtConcat
<1>6. At(toks, i, <<"(">>) /\ i + 1 \in Positions(toks) /\ At(toks, i + 1, s)
  BY <1>1, <1>2, <1>4, <1>5, AtConcat
<1>. HIDE DEF whole
<1>7. i \in 1..Len(toks) /\ toks[i] = "("
  BY <1>1, <1>4, <1>6, AtOne
<1>8. i + (1 + Len(s)) \in 1..Len(toks) /\ toks[i + (1 + Len(s))] = ")"
  BY <1>1, <1>5, AtOne
<1>9. /\ i \in Nat /\ d \in Nat /\ i + (1 + Len(s)) = i + 1 + Len(s) /\ d # 0
      /\ d - 1 \in 0..Len(toks) /\ (d - 1) + 1 = d /\ Len(s) <= (d - 1) + 1
      /\ i + 1 + Len(s) + 1 = i + Len(whole) /\ i <= Len(toks) /\ i + 1 + Len(s) <= Len(toks)
  BY <1>2, <1>3, <1>4, <1>7, <1>8
<1>10. \A op \in {"AND", "OR", "WITH"} : ~PeekOperator(toks, i + 1 + Len(s), op)
  BY <1>8, <1>9, TokensAre DEF PeekOperator
<1>11. Occurs(toks, d - 1, i + 1, s)
  BY <1>6, <1>9, <1>10 DEF Occurs
<1>12. Levels(toks)[d][i + 1] = Read(i + 1 + Len(s), t)
  BY <1>9, <1>10, <1>11, OrIsRead
<1> DEFINE inner == Levels(toks)[d][i + 1]
<1>13. inner.ok /\ inner.pos = i + 1 + Len(s) /\ inner.tree = t
  BY <1>12, ReadingsAre
<1>14. AtomTable(toks, d)[i] = ParseAtom(toks, i, Levels(toks)[d]) /\ Levels(toks)[d] \in Tables(toks)
  BY <1>4, DepthIs
<1>15. toks[inner.pos] = ")" /\ inner.pos <= Len(toks)
  BY <1>8, <1>9, <1>13
<1>16. ParseAtom(toks, i, Levels(toks)[d]) = Read(inner.pos + 1, inner.tree)
  BY <1>4, <1>7, <1>9, <1>13, <1>14, <1>15, AtomIs
<1>. QED  BY <1>9, <1>13, <1>14, <1>16

LEMMA LooserIsRead ==
    ASSUME NEW toks \in Texts, NEW s \in Texts, NEW t
    PROVE  /\ ReadAtom(toks, s, t) => ReadAnd(toks, s, t)
           /\ ReadAnd(toks, s, t) => ReadOr(toks, s, t)
<1>1. ASSUME ReadAtom(toks, s, t), NEW d, NEW i, Occurs(toks, d, i, s)
      PROVE  \E k \in 0..Len(s) : Loop(toks, "AND", AtomTable(toks, d), i)[k] = Read(i + Len(s), t)
  <2>1. AtomTable(toks, d)[i] = Read(i + Len(s), t)
    BY <1>1 DEF ReadAtom
  <2>2. d \in 0..Len(toks) /\ i \in Positions(toks) /\ 0 \in 0..Len(s)
    BY <1>1, OccursIs
  <2>3. AtomTable(toks, d) \in Tables(toks)
    BY <2>2, DepthIs
  <2>4. Loop(toks, "AND", AtomTable(toks, d), i)[0] = AtomTable(toks, d)[i]
    BY <2>2, <2>3, LoopIs
  <2>. QED  BY <2>1, <2>2, <2>4
<1>2. ASSUME ReadAnd(toks, s, t), NEW d, NEW i, Occurs(toks, d, i, s),
             ~PeekOperator(toks, i + Len(s), "AND")
      PROVE  \E k \in 0..Len(s) : Loop(toks, "OR", AndTable(toks, d), i)[k] = Read(i + Len(s), t)
  <2>1. AndTable(toks, d)[i] = Read(i + Len(s), t)
    BY <1>2, AndIsRead
  <2>2. d \in 0..Len(toks) /\ i \in Positions(toks) /\ 0 \in 0..Len(s)
    BY <1>2, OccursIs
  <2>3. AndTable(toks, d) \in Tables(toks)
    BY <2>2, DepthIs
  <2>4. Loop(toks, "OR", AndTable(toks, d), i)[0] = AndTable(toks, d)[i]
    BY <2>2, <2>3, LoopIs
  <2>. QED  BY <2>1, <2>2, <2>4
<1>. QED  BY <1>1, <1>2 DEF ReadAnd, ReadOr

\* What the halves of a joined text are read in.
LEMMA HalvesOccur ==
    ASSUME NEW toks \in Texts, NEW a \in Texts, NEW b \in Texts, NEW tok \in Tokens,
           Upper(tok) # "WITH", NEW d, NEW i, Occurs(toks, d, i, a \o <<tok>> \o b)
    PROVE  /\ Occurs(toks, d, i, a) /\ Occurs(toks, d, i + Len(a) + 1, b)
           /\ i + Len(a) <= Len(toks) /\ toks[i + Len(a)] = tok
           /\ i + Len(a) + 1 + Len(b) = i + Len(a \o <<tok>> \o b)
           /\ \A k \in 0..Len(a) :
                  k \in 0..Len(toks) /\ k < Len(toks) /\ k + 1 \in 0..Len(a \o <<tok>> \o b)
<1> DEFINE whole == a \o <<tok>> \o b
<1>1. d \in 0..Len(toks) /\ i \in Positions(toks) /\ At(toks, i, whole) /\ Len(whole) <= d + 1
      /\ ~PeekOperator(toks, i + Len(whole), "WITH")
  BY DEF Occurs
<1>2. /\ At(toks, i, a)
      /\ i + Len(a) \in 1..Len(toks) /\ toks[i + Len(a)] = tok
      /\ i + Len(a) + 1 \in Positions(toks) /\ At(toks, i + Len(a) + 1, b)
      /\ Len(whole) = Len(a) + 1 + Len(b)
      /\ i + Len(a) + 1 + Len(b) = i + Len(whole)
      /\ Len(a) + 1 + Len(b) <= Len(toks)
  BY <1>1, AtJoin
<1>. HIDE DEF whole
<1>3. Len(a) \in Nat /\ Len(b) \in Nat /\ Len(toks) \in Nat
  BY Concat
<1>4. /\ Len(a) <= d + 1 /\ Len(b) <= d + 1 /\ i + Len(a) <= Len(toks)
      /\ \A k \in 0..Len(a) : k \in 0..Len(toks) /\ k < Len(toks) /\ k + 1 \in 0..Len(whole)
  BY <1>1, <1>2, <1>3, SMTT(20)
<1>5. Occurs(toks, d, i, a)
  BY <1>1, <1>2, <1>4 DEF Occurs, PeekOperator
<1>6. Occurs(toks, d, i + Len(a) + 1, b)
  BY <1>1, <1>2, <1>4 DEF Occurs
<1>. QED  BY <1>2, <1>4, <1>5, <1>6 DEF whole

LEMMA JoinIsRead ==
    ASSUME NEW toks \in Texts, NEW a \in Texts, NEW t, NEW b \in Texts, NEW u, NEW tok \in Tokens
    PROVE  /\ Upper(tok) = "AND" /\ ReadAnd(toks, a, t) /\ ReadAtom(toks, b, u) =>
                  ReadAnd(toks, a \o <<tok>> \o b, Node("AND", t, u))
           /\ Upper(tok) = "OR" /\ ReadOr(toks, a, t) /\ ReadAnd(toks, b, u) =>
                  ReadOr(toks, a \o <<tok>> \o b, Node("OR", t, u))
<1> DEFINE whole == a \o <<tok>> \o b
<1>1. ASSUME Upper(tok) = "AND", ReadAnd(toks, a, t), ReadAtom(toks, b, u),
             NEW d, NEW i, Occurs(toks, d, i, whole)
      PROVE  \E k \in 0..Len(whole) :
                 Loop(toks, "AND", AtomTable(toks, d), i)[k] = Read(i + Len(whole), Node("AND", t, u))
  <2>1. /\ Occurs(toks, d, i, a) /\ Occurs(toks, d, i + Len(a) + 1, b)
        /\ i + Len(a) <= Len(toks) /\ toks[i + Len(a)] = tok
        /\ i + Len(a) + 1 + Len(b) = i + Len(whole)
        /\ \A k \in 0..Len(a) : k \in 0..Len(toks) /\ k < Len(toks) /\ k + 1 \in 0..Len(whole)
    BY <1>1, HalvesOccur
  <2>. HIDE DEF whole
  <2>2. PICK k \in 0..Len(a) : Loop(toks, "AND", AtomTable(toks, d), i)[k] = Read(i + Len(a), t)
    BY <1>1, <2>1 DEF ReadAnd
  <2>3. AtomTable(toks, d)[i + Len(a) + 1] = Read(i + Len(whole), u)
    BY <1>1, <2>1 DEF ReadAtom
  <2>4. PeekOperator(toks, i + Len(a), "AND")
    BY <1>1, <2>1 DEF PeekOperator
  <2>5. d \in 0..Len(toks) /\ i \in Positions(toks) /\ k \in 0..Len(toks) /\ k < Len(toks)
    BY <2>1, OccursIs
  <2>6. AtomTable(toks, d) \in Tables(toks)
    BY <2>5, DepthIs
  <2>7. Loop(toks, "AND", AtomTable(toks, d), i)[k + 1] = Read(i + Len(whole), Node("AND", t, u))
    BY <2>2, <2>3, <2>4, <2>5, <2>6, LoopGoes
  <2>. QED  BY <2>1, <2>7
<1>2. ASSUME Upper(tok) = "OR", ReadOr(toks, a, t), ReadAnd(toks, b, u),
             NEW d, NEW i, Occurs(toks, d, i, whole), ~PeekOperator(toks, i + Len(whole), "AND")
      PROVE  \E k \in 0..Len(whole) :
                 Loop(toks, "OR", AndTable(toks, d), i)[k] = Read(i + Len(whole), Node("OR", t, u))
  <2>1. /\ Occurs(toks, d, i, a) /\ Occurs(toks, d, i + Len(a) + 1, b)
        /\ i + Len(a) <= Len(toks) /\ toks[i + Len(a)] = tok
        /\ i + Len(a) + 1 + Len(b) = i + Len(whole)
        /\ \A k \in 0..Len(a) : k \in 0..Len(toks) /\ k < Len(toks) /\ k + 1 \in 0..Len(whole)
    BY <1>2, HalvesOccur
  <2>. HIDE DEF whole
  <2>2. ~PeekOperator(toks, i + Len(a), "AND") /\ PeekOperator(toks, i + Len(a), "OR")
    BY <1>2, <2>1 DEF PeekOperator
  <2>3. PICK k \in 0..Len(a) : Loop(toks, "OR", AndTable(toks, d), i)[k] = Read(i + Len(a), t)
    BY <1>2, <2>1, <2>2 DEF ReadOr
  <2>4. AndTable(toks, d)[i + Len(a) + 1] = Read(i + Len(whole), u)
    BY <1>2, <2>1, AndIsRead
  <2>5. d \in 0..Len(toks) /\ i \in Positions(toks) /\ k \in 0..Len(toks) /\ k < Len(toks)
    BY <2>1, OccursIs
  <2>6. AndTable(toks, d) \in Tables(toks)
    BY <2>5, DepthIs
  <2>7. Loop(toks, "OR", AndTable(toks, d), i)[k + 1] = Read(i + Len(whole), Node("OR", t, u))
    BY <2>2, <2>3, <2>4, <2>5, <2>6, LoopGoes
  <2>. QED  BY <2>1, <2>7
<1>. QED  BY <1>1, <1>2 DEF ReadAnd, ReadOr

\* Every sentence parses, to the tree of its derivation.
LEMMA DerivableIsParsed ==
    ASSUME NEW toks, NEW tree, Phrase("or", toks, tree) \in Derivable
    PROVE  /\ toks \in Texts /\ tree \in Trees
           /\ Parse(toks).ok /\ Parse(toks).tree = tree
<1>1. toks \in Texts /\ tree \in Trees
  BY PhraseIs
<1> DEFINE Reads(p) == /\ p.rank = "atom" => ReadAtom(toks, p.toks, p.tree)
                       /\ p.rank = "and" => ReadAnd(toks, p.toks, p.tree)
                       /\ p.rank = "or" => ReadOr(toks, p.toks, p.tree)
           L == {p \in Derivable : Reads(p)}
<1>2. /\ \A s, t : Phrase("atom", s, t) \in L
                       <=> Phrase("atom", s, t) \in Derivable /\ ReadAtom(toks, s, t)
      /\ \A s, t : Phrase("and", s, t) \in L
                       <=> Phrase("and", s, t) \in Derivable /\ ReadAnd(toks, s, t)
      /\ \A s, t : Phrase("or", s, t) \in L
                       <=> Phrase("or", s, t) \in Derivable /\ ReadOr(toks, s, t)
  BY PhraseIs
<1>3. L \in SUBSET Derivable
  OBVIOUS
<1>4. \A r, s, t : Phrase(r, s, t) \in Derivable => s \in Texts
  BY PhraseIs
<1>. HIDE DEF L
<1>5. Names(L)
  BY <1>1, <1>2, Rules, WordIsRead, ExceptionIsRead DEF Names
<1>6. Brackets(L)
  BY <1>1, <1>2, <1>4, Rules, BracketIsRead DEF Brackets
<1>7. Loosens(L)
  BY <1>1, <1>2, <1>4, Rules, LooserIsRead DEF Loosens
<1>8. Joins(L)
  <2>1. JoinsBy(L, "AND", "and", "atom")
    BY <1>1, <1>2, <1>4, Rules, JoinIsRead DEF JoinsBy
  <2>2. JoinsBy(L, "OR", "or", "and")
    BY <1>1, <1>2, <1>4, Rules, JoinIsRead DEF JoinsBy
  <2>. QED  BY <2>1, <2>2 DEF Joins
<1>9. L = Derivable
  BY <1>3, <1>5, <1>6, <1>7, <1>8, Derivations DEF Closed
<1>10. ReadOr(toks, toks, tree)
  BY <1>2, <1>9
<1> DEFINE N == Len(toks)
<1>11. N \in Nat /\ 1 \in Positions(toks) /\ 1 + N = N + 1
  BY <1>1, Concat DEF Positions
<1>12. \A op : ~PeekOperator(toks, 1 + N, op)
  BY <1>11 DEF PeekOperator
<1>13. At(toks, 1, toks)
  <2>1. \A k \in 1..N : 1 + k - 1 = k
    BY <1>11
  <2>. QED  BY <1>11, <2>1 DEF At
<1>14. Occurs(toks, N, 1, toks)
  BY <1>11, <1>12, <1>13 DEF Occurs
<1>15. Levels(toks)[N + 1][1] = Read(1 + N, tree)
  BY <1>1, <1>10, <1>12, <1>14, OrIsRead
<1>16. Nesting(toks)[1] = Read(N + 1, tree)
  BY <1>1, <1>11, <1>15, LevelsAre
<1>17. /\ Read(N + 1, tree).ok /\ Read(N + 1, tree).pos = N + 1 /\ Read(N + 1, tree).tree = tree
  BY ReadingsAre
<1>18. Parse(toks) = Read(N + 1, tree)
  BY <1>16, <1>17 DEF Parse
<1>. QED  BY <1>1, <1>17, <1>18

-----------------------------------------------------------------------------
(* The sentences of the reference grammar are those that can be derived.   *)

LEMMA PhrasesHoldSomething ==
    ASSUME NEW rank, NEW toks, NEW tree, Phrase(rank, toks, tree) \in Derivable
    PROVE  1 <= Len(toks) /\ Len(toks) \in Nat
<1> DEFINE L == {p \in Derivable : 1 <= Len(p.toks)}
<1>1. \A r, s, t : Phrase(r, s, t) \in L <=> Phrase(r, s, t) \in Derivable /\ 1 <= Len(s)
  BY PhraseIs
<1>2. L \in SUBSET Derivable
  OBVIOUS
<1>. HIDE DEF L
<1>3. Names(L)
  <2>1. \A a, b, c : 1 <= Len(<<a>>) /\ 1 <= Len(<<a, b, c>>)
    OBVIOUS
  <2>. QED  BY <1>1, <2>1, Rules DEF Names
<1>4. \A a, b \in Texts : \A tok \in Tokens : 1 <= Len(a \o <<tok>> \o b)
  <2> SUFFICES ASSUME NEW a \in Texts, NEW b \in Texts, NEW tok \in Tokens
               PROVE  1 <= Len(a \o <<tok>> \o b)
    OBVIOUS
  <2>1. <<tok>> \in Texts /\ Len(<<tok>>) = 1 /\ a \o <<tok>> \in Texts /\ Len(a \o <<tok>>) = Len(a) + 1
    BY Concat
  <2>2. Len(a \o <<tok>> \o b) = Len(a) + 1 + Len(b) /\ Len(a) \in Nat /\ Len(b) \in Nat
    BY <2>1, Concat
  <2>. QED  BY <2>2
<1>5. Brackets(L)
  <2> SUFFICES ASSUME NEW s, NEW t, Phrase("or", s, t) \in L
               PROVE  Phrase("atom", <<"(">> \o s \o <<")">>, t) \in L
    BY DEF Brackets
  <2>1. Phrase("or", s, t) \in Derivable /\ s \in Texts
    BY <1>1, PhraseIs
  <2>2. "(" \in Tokens /\ ")" \in Tokens /\ <<"(">> \in Texts /\ <<")">> \in Texts
        /\ Len(<<"(">>) = 1 /\ Len(<<")">>) = 1
    BY TokensAre, Concat
  <2>3. <<"(">> \o s \in Texts /\ Len(<<"(">> \o s) = 1 + Len(s) /\ Len(s) \in Nat
    BY <2>1, <2>2, Concat
  <2>4. Len(<<"(">> \o s \o <<")">>) = 1 + Len(s) + 1
    BY <2>2, <2>3, Concat
  <2>5. 1 <= Len(<<"(">> \o s \o <<")">>)
    BY <2>3, <2>4
  <2>. QED  BY <1>1, <2>1, <2>5, Rules
<1>6. Loosens(L)
  BY <1>1, Rules DEF Loosens
<1>7. Joins(L)
  <2>1. \A r, s, t : Phrase(r, s, t) \in L => s \in Texts
    BY <1>1, PhraseIs
  <2>2. JoinsBy(L, "AND", "and", "atom")
    BY <1>1, <1>4, <2>1, Rules DEF JoinsBy
  <2>3. JoinsBy(L, "OR", "or", "and")
    BY <1>1, <1>4, <2>1, Rules DEF JoinsBy
  <2>. QED  BY <2>2, <2>3 DEF Joins
<1>8. L = Derivable
  BY <1>2, <1>3, <1>5, <1>6, <1>7, Derivations DEF Closed
<1>. QED  BY <1>1, <1>8, PhraseIs, Concat

\* A text around one of its tokens.
LEMMA Around ==
    ASSUME NEW p \in Texts, NEW i \in 1..Len(p)
    PROVE  SubSeq(p, 1, i - 1) \o <<p[i]>> \o SubSeq(p, i + 1, Len(p)) = p
<1>1. Len(p) \in Nat /\ 1 \in 1..Len(p) /\ i \in 1..Len(p) /\ 1 \in 1..Len(p) + 1 /\ i \in 1 - 1..Len(p)
      /\ Len(p) \in i..Len(p)
  <2>1. Len(p) \in Nat
    BY Concat
  <2>. QED  BY <2>1
<1>2. SubSeq(p, 1, i) = SubSeq(p, 1, i - 1) \o <<p[i]>>
  BY <1>1, SubSeqRecursiveSecond DEF Texts
<1>3. SubSeq(p, 1, i) \o SubSeq(p, i + 1, Len(p)) = SubSeq(p, 1, Len(p))
  BY <1>1, ConcatAdjacentSubSeq DEF Texts
<1>4. SubSeq(p, 1, Len(p)) = p
  BY SubSeqFull DEF Texts
<1>. QED  BY <1>2, <1>3, <1>4

\* The halves of a joined text, and the inside of a bracketed one.
LEMMA HalvesAre ==
    ASSUME NEW a \in Texts, NEW b \in Texts, NEW tok \in Tokens, 1 <= Len(a), 1 <= Len(b)
    PROVE  LET whole == a \o <<tok>> \o b
               k == Len(a) + 1
           IN  /\ k \in DOMAIN whole /\ whole[k] = tok
               /\ SubSeq(whole, 1, k - 1) = a /\ SubSeq(whole, k + 1, Len(whole)) = b
<1> DEFINE whole == a \o <<tok>> \o b
           k == Len(a) + 1
<1>0. /\ Len(a) \in Nat /\ Len(b) \in Nat
      /\ <<tok>> \in Texts /\ Len(<<tok>>) = 1 /\ <<tok>>[1] = tok
  BY Concat
<1>1. /\ Len(a) \in Nat /\ Len(b) \in Nat
      /\ <<tok>> \in Texts /\ Len(<<tok>>) = 1 /\ <<tok>>[1] = tok
      /\ a \o <<tok>> \in Texts /\ Len(a \o <<tok>>) = Len(a) + 1
      /\ \A i \in 1..Len(a) : (a \o <<tok>>)[i] = a[i]
      /\ \A i \in 1..1 : (a \o <<tok>>)[Len(a) + i] = <<tok>>[i]
  <2>1. /\ a \o <<tok>> \in Texts /\ Len(a \o <<tok>>) = Len(a) + Len(<<tok>>)
        /\ \A i \in 1..Len(a) : (a \o <<tok>>)[i] = a[i]
        /\ \A i \in 1..Len(<<tok>>) : (a \o <<tok>>)[Len(a) + i] = <<tok>>[i]
    BY <1>0, Concat
  <2>. QED  BY <1>0, <2>1
<1>2. /\ whole \in Texts /\ Len(whole) = k + Len(b)
      /\ \A i \in 1..k : whole[i] = (a \o <<tok>>)[i]
      /\ \A i \in 1..Len(b) : whole[k + i] = b[i]
  <2> DEFINE front == a \o <<tok>>
  <2>. HIDE DEF front
  <2>1. front \in Texts /\ Len(front) = k
    BY <1>1 DEF front
  <2>2. /\ front \o b \in Texts /\ Len(front \o b) = Len(front) + Len(b)
        /\ \A i \in 1..Len(front) : (front \o b)[i] = front[i]
        /\ \A i \in 1..Len(b) : (front \o b)[Len(front) + i] = b[i]
    BY <2>1, Concat
  <2>3. whole = front \o b
    BY DEF front
  <2>. HIDE DEF whole, k
  <2>. QED  BY <2>1, <2>2, <2>3 DEF front
<1>. HIDE DEF whole
<1>3. \A i \in 1..Len(a) : i \in 1..k /\ whole[i] = a[i]
  <2>1. \A i \in 1..Len(a) : i \in 1..k
    BY <1>1
  <2>. QED  BY <1>1, <1>2, <2>1
<1>4. whole[k] = tok /\ k \in 1..Len(whole)
  <2>1. k \in 1..k /\ 1 \in 1..1 /\ k \in 1..k + Len(b)
    BY <1>1
  <2>2. (a \o <<tok>>)[Len(a) + 1] = <<tok>>[1]
    BY <1>1, <2>1
  <2>. QED  BY <1>1, <1>2, <2>1, <2>2
<1>5. DOMAIN whole = 1..Len(whole)
  BY <1>2, LenProperties DEF Texts
<1>6. SubSeq(whole, 1, k - 1) = a
  <2> DEFINE part == SubSeq(whole, 1, k - 1)
  <2>1. 1 \in 1..Len(whole) /\ k - 1 \in 1..Len(whole) /\ (k - 1) - 1 + 1 = Len(a)
        /\ \A n \in 1..Len(a) : 1 + n - 1 = n
    BY <1>1, <1>2
  <2>2. part \in Texts /\ Len(part) = Len(a) /\ \A n \in 1..Len(a) : part[n] = whole[1 + n - 1]
    BY <1>2, <2>1, PassagesAre
  <2>3. \A n \in 1..Len(a) : part[n] = a[n]
    BY <1>3, <2>1, <2>2
  <2>. HIDE DEF part
  <2>4. part = a
    BY <2>2, <2>3, SameText
  <2>. QED  BY <2>4 DEF part
<1>7. SubSeq(whole, k + 1, Len(whole)) = b
  <2> DEFINE part == SubSeq(whole, k + 1, Len(whole))
  <2>1. k + 1 \in 1..Len(whole) /\ Len(whole) \in k + 1..Len(whole) /\ Len(whole) - (k + 1) + 1 = Len(b)
        /\ \A n \in 1..Len(b) : (k + 1) + n - 1 = k + n
    BY <1>1, <1>2
  <2>2. part \in Texts /\ Len(part) = Len(b) /\ \A n \in 1..Len(b) : part[n] = whole[(k + 1) + n - 1]
    BY <1>2, <2>1, PassagesAre, SMTT(20)
  <2>3. \A n \in 1..Len(b) : part[n] = b[n]
    BY <1>2, <2>1, <2>2
  <2>. HIDE DEF part
  <2>4. part = b
    BY <2>2, <2>3, SameText
  <2>. QED  BY <2>4 DEF part
<1>. QED  BY <1>4, <1>5, <1>6, <1>7 DEF whole

LEMMA InsideIs ==
    ASSUME NEW a \in Texts, 1 <= Len(a)
    PROVE  LET whole == <<"(">> \o a \o <<")">>
           IN  /\ whole \in Texts /\ Len(whole) = Len(a) + 2 /\ whole[1] = "(" /\ whole[Len(whole)] = ")"
               /\ SubSeq(whole, 2, Len(whole) - 1) = a
<1> DEFINE whole == <<"(">> \o a \o <<")">>
           open == <<"(">> \o a
<1>1. /\ Len(a) \in Nat
      /\ <<"(">> \in Texts /\ Len(<<"(">>) = 1 /\ <<"(">>[1] = "("
      /\ <<")">> \in Texts /\ Len(<<")">>) = 1 /\ <<")">>[1] = ")"
  BY TokensAre, Concat
<1>2. /\ open \in Texts /\ Len(open) = 1 + Len(a)
      /\ \A i \in 1..1 : open[i] = <<"(">>[i]
      /\ \A i \in 1..Len(a) : open[1 + i] = a[i]
  BY <1>1, Concat
<1>. HIDE DEF open
<1>3. /\ whole \in Texts /\ Len(whole) = Len(open) + 1
      /\ \A i \in 1..Len(open) : whole[i] = open[i]
      /\ \A i \in 1..1 : whole[Len(open) + i] = <<")">>[i]
  BY <1>1, <1>2, Concat DEF open
<1>. HIDE DEF whole
<1>4. Len(whole) = Len(a) + 2 /\ Len(open) + 1 = Len(a) + 2
  BY <1>1, <1>2, <1>3
<1>5. whole[1] = "("
  <2>1. 1 \in 1..Len(open) /\ 1 \in 1..1
    BY <1>1, <1>2
  <2>2. open[1] = <<"(">>[1]
    BY <1>2, <2>1
  <2>. QED  BY <1>1, <1>3, <2>1, <2>2
<1>6. whole[Len(whole)] = ")"
  <2>1. whole[Len(open) + 1] = <<")">>[1]
    BY <1>3
  <2>. QED  BY <1>1, <1>3, <2>1
<1>7. SubSeq(whole, 2, Len(whole) - 1) = a
  <2> DEFINE part == SubSeq(whole, 2, Len(whole) - 1)
  <2>1. 2 \in 1..Len(whole) /\ Len(whole) - 1 \in 2..Len(whole) /\ (Len(whole) - 1) - 2 + 1 = Len(a)
        /\ \A n \in 1..Len(a) : 2 + n - 1 = 1 + n /\ 1 + n \in 1..Len(open)
    BY <1>1, <1>2, <1>4
  <2>2. part \in Texts /\ Len(part) = Len(a) /\ \A n \in 1..Len(a) : part[n] = whole[2 + n - 1]
    BY <1>3, <2>1, PassagesAre
  <2>3. \A n \in 1..Len(a) : part[n] = a[n]
    BY <1>2, <1>3, <2>1, <2>2
  <2>. HIDE DEF part
  <2>4. part = a
    BY <2>2, <2>3, SameText
  <2>. QED  BY <2>4 DEF part
<1>. QED  BY <1>3, <1>4, <1>5, <1>6, <1>7 DEF whole

\* What is known after each round: a function that its definition describes.
KnownSets == [factors : SUBSET Texts, terms : SUBSET Texts, expressions : SUBSET Texts]
Rounds(toks) ==
    CHOOSE known : known = [n \in 0..Len(toks) |->
        IF n = 0 THEN Known({}, {}, {}) ELSE Longer(Passages(toks), known[n - 1])]

LEMMA LongerIs ==
    ASSUME NEW passages \in SUBSET Texts, NEW known \in KnownSets
    PROVE  LET longer == Longer(passages, known)
           IN  /\ longer \in KnownSets
               /\ longer.factors =
                      {p \in passages : IsIdentifier(p) \/ Bracketed(p, known.expressions)}
               /\ longer.terms =
                      longer.factors \union {p \in passages : Splits(p, "AND", known.terms, known.factors)}
               /\ longer.expressions =
                      longer.terms \union {p \in passages : Splits(p, "OR", known.expressions, known.terms)}
<1> DEFINE F == {p \in passages : IsIdentifier(p) \/ Bracketed(p, known.expressions)}
           T == F \union {p \in passages : Splits(p, "AND", known.terms, known.factors)}
           E == T \union {p \in passages : Splits(p, "OR", known.expressions, known.terms)}
<1>1. Longer(passages, known) = Known(F, T, E)
  BY DEF Longer
<1>2. F \in SUBSET Texts /\ T \in SUBSET Texts /\ E \in SUBSET Texts
  OBVIOUS
<1>. HIDE DEF F, T, E
<1>3. /\ Known(F, T, E) \in KnownSets /\ Known(F, T, E).factors = F
      /\ Known(F, T, E).terms = T /\ Known(F, T, E).expressions = E
  BY <1>2 DEF Known, KnownSets
<1>. QED  BY <1>1, <1>3 DEF F, T, E

LEMMA RoundsAre ==
    ASSUME NEW toks \in Texts
    PROVE  /\ IsExpression(toks) <=> toks \in Rounds(toks)[Len(toks)].expressions
           /\ Passages(toks) \in SUBSET Texts
           /\ Rounds(toks)[0] = Known({}, {}, {})
           /\ \A n \in 0..Len(toks) : Rounds(toks)[n] \in KnownSets
           /\ \A n \in 1..Len(toks) :
                  Rounds(toks)[n] = Longer(Passages(toks), Rounds(toks)[n - 1])
<1> DEFINE N == Len(toks)
           X == KnownSets
           T(x) == Longer(Passages(toks), x)
           step == [n \in 1..N |-> [x \in X |-> T(x)]]
           first == Known({}, {}, {})
           next(f) == [n \in 0..N |-> IF n = 0 THEN first ELSE T(f[n - 1])]
           R == Turns(N, first, step)
           u == Rounds(toks)
<1>1. N \in Nat /\ first \in X
  BY Concat DEF Known, KnownSets
<1>2. Passages(toks) \in SUBSET Texts
  <2>1. ASSUME NEW i \in DOMAIN toks, NEW j \in DOMAIN toks  PROVE SubSeq(toks, i, j) \in Texts
    <3>1. DOMAIN toks = 1..Len(toks)
      BY LenProperties DEF Texts
    <3>2. i \in Int /\ j \in Int /\ \A n \in i..j : n \in 1..Len(toks)
      BY <1>1, <3>1
    <3>3. \A n \in i..j : toks[n] \in Tokens
      BY <3>2, Concat
    <3>. QED  BY <3>2, <3>3, SubSeqProperties DEF Texts
  <2>2. \A p \in Passages(toks) : p \in Texts
    <3> SUFFICES ASSUME NEW p \in Passages(toks)  PROVE p \in Texts
      OBVIOUS
    <3>1. PICK i \in DOMAIN toks, j \in DOMAIN toks : p = SubSeq(toks, i, j)
      BY DEF Passages
    <3>. QED  BY <2>1, <3>1
  <2>. QED  BY <2>2
<1>3. \A x \in X : T(x) \in X
  BY <1>2, LongerIs
<1>4. step \in [1..N -> [X -> X]]
  <2>. HIDE DEF T, X, N
  <2>. QED  BY <1>3
<1>5. R \in [0..N -> X] /\ R[0] = first /\ \A n \in 1..N : R[n] = step[n][R[n - 1]]
  <2>. HIDE DEF step, N, first, X
  <2>. QED  BY <1>1, <1>4, TurnsAre
<1>. HIDE DEF R
<1>6. \A n \in 0..N : n # 0 => n \in 1..N /\ n - 1 \in 0..N
  BY <1>1
<1>7. ASSUME NEW n \in 1..N  PROVE R[n] = T(R[n - 1])
  <2>0. n - 1 \in 0..N
    BY <1>1
  <2>1. R[n - 1] \in X
    <3>. HIDE DEF N, X, first, step
    <3>. QED  BY <1>5, <2>0
  <2>. HIDE DEF T, X, N, first
  <2>. QED  BY <1>5, <2>1
<1>8. R = next(R)
  <2>. HIDE DEF T, step, N, X, first
  <2>. QED  BY <1>5, <1>6, <1>7
<1>9. u = next(u)
  <2>1. u = CHOOSE f : f = next(f)
    BY DEF Rounds
  <2>. HIDE DEF next, u
  <2>. QED  BY <1>8, <2>1
<1>10. IsExpression(toks) <=> toks \in u[N].expressions
  BY DEF IsExpression, Rounds
<1>. HIDE DEF u
<1>11. u[0] = first /\ \A n \in 1..N : u[n] = T(u[n - 1])
  <2>1. \A n \in 1..N : n \in 0..N /\ n # 0
    BY <1>1
  <2>2. next(u)[0] = first /\ \A n \in 1..N : next(u)[n] = T(u[n - 1])
    <3>. HIDE DEF T, first
    <3>. QED  BY <1>1, <2>1
  <2>. HIDE DEF next, T, first
  <2>. QED  BY <1>9, <2>2
<1>12. \A n \in 0..N : u[n] \in X
  <2> DEFINE typed == {n \in Nat : n <= N => u[n] \in X}
  <2>1. 0 \in typed
    <3>. HIDE DEF T, first, X, N
    <3>. QED  BY <1>1, <1>11
  <2>2. ASSUME NEW n \in Nat, n \in typed  PROVE n + 1 \in typed
    <3> SUFFICES ASSUME n + 1 <= N  PROVE u[n + 1] \in X
      OBVIOUS
    <3>1. n + 1 \in 1..N /\ (n + 1) - 1 = n /\ n <= N
      BY <1>1
    <3>2. u[n + 1] = T(u[n])
      <4>. HIDE DEF T, N, first
      <4>. QED  BY <1>11, <3>1
    <3>. HIDE DEF T, X, N
    <3>. QED  BY <1>3, <2>2, <3>1, <3>2
  <2>3. Nat \subseteq typed
    <3>. HIDE DEF typed
    <3>. QED  BY <2>1, <2>2, Climb
  <2>. HIDE DEF X, N
  <2>. QED  BY <1>1, <2>3
<1>. HIDE DEF T, first, X
<1> SUFFICES /\ IsExpression(toks) <=> toks \in u[N].expressions
             /\ Passages(toks) \in SUBSET Texts
             /\ u[0] = first
             /\ \A n \in 0..N : u[n] \in X
             /\ \A n \in 1..N : u[n] = T(u[n - 1])
  BY DEF u, T, first, X
<1>. QED  BY <1>2, <1>10, <1>11, <1>12

\* The texts that can be derived, and their rules.
Sentences(rank) == {s \in Texts : \E t : Phrase(rank, s, t) \in Derivable}

LEMMA SentencesAre ==
    /\ \A rank : Sentences(rank) \in SUBSET Texts
    /\ \A rank, s : s \in Sentences(rank) => 1 <= Len(s) /\ Len(s) \in Nat
    /\ \A word \in Shaped : <<word>> \in Sentences("atom")
    /\ \A word, exception \in Shaped : \A tok \in Tokens :
           Upper(tok) = "WITH" => <<word, tok, exception>> \in Sentences("atom")
    /\ \A s \in Sentences("or") : <<"(">> \o s \o <<")">> \in Sentences("atom")
    /\ Sentences("atom") \subseteq Sentences("and") /\ Sentences("and") \subseteq Sentences("or")
    /\ \A tok \in Tokens :
           /\ Upper(tok) = "AND" =>
                  \A a \in Sentences("and"), b \in Sentences("atom") :
                      a \o <<tok>> \o b \in Sentences("and")
           /\ Upper(tok) = "OR" =>
                  \A a \in Sentences("or"), b \in Sentences("and") :
                      a \o <<tok>> \o b \in Sentences("or")
<1>1. ASSUME NEW rank, NEW s, NEW t, Phrase(rank, s, t) \in Derivable  PROVE s \in Sentences(rank)
  BY <1>1, PhraseIs DEF Sentences
<1>2. ASSUME NEW rank, NEW s \in Sentences(rank)  PROVE \E t : Phrase(rank, s, t) \in Derivable
  BY DEF Sentences
<1>3. \A rank : Sentences(rank) \in SUBSET Texts
  BY DEF Sentences
<1>. HIDE DEF Sentences
<1>4. \A rank, s : s \in Sentences(rank) => 1 <= Len(s) /\ Len(s) \in Nat
  BY <1>2, PhrasesHoldSomething
<1>5. \A word \in Shaped : <<word>> \in Sentences("atom")
  BY <1>1, Rules
<1>6. \A word, exception \in Shaped : \A tok \in Tokens :
          Upper(tok) = "WITH" => <<word, tok, exception>> \in Sentences("atom")
  BY <1>1, Rules
<1>7. ASSUME NEW s \in Sentences("or")  PROVE <<"(">> \o s \o <<")">> \in Sentences("atom")
  <2>1. PICK t : Phrase("or", s, t) \in Derivable
    BY <1>2
  <2>. QED  BY <1>1, <2>1, Rules
<1>8. Sentences("atom") \subseteq Sentences("and") /\ Sentences("and") \subseteq Sentences("or")
  <2>1. ASSUME NEW s \in Sentences("atom")  PROVE s \in Sentences("and")
    <3>1. PICK t : Phrase("atom", s, t) \in Derivable
      BY <1>2
    <3>. QED  BY <1>1, <3>1, Rules
  <2>2. ASSUME NEW s \in Sentences("and")  PROVE s \in Sentences("or")
    <3>1. PICK t : Phrase("and", s, t) \in Derivable
      BY <1>2
    <3>. QED  BY <1>1, <3>1, Rules
  <2>. QED  BY <2>1, <2>2
<1>9. ASSUME NEW tok \in Tokens, Upper(tok) = "AND",
             NEW a \in Sentences("and"), NEW b \in Sentences("atom")
      PROVE  a \o <<tok>> \o b \in Sentences("and")
  <2>1. PICK t : Phrase("and", a, t) \in Derivable
    BY <1>2
  <2>2. PICK u : Phrase("atom", b, u) \in Derivable
    BY <1>2
  <2>3. Phrase("and", a \o <<tok>> \o b, Node("AND", t, u)) \in Derivable
    BY <1>9, <2>1, <2>2, Rules
  <2>. QED  BY <1>1, <2>3
<1>10. ASSUME NEW tok \in Tokens, Upper(tok) = "OR",
              NEW a \in Sentences("or"), NEW b \in Sentences("and")
       PROVE  a \o <<tok>> \o b \in Sentences("or")
  <2>1. PICK t : Phrase("or", a, t) \in Derivable
    BY <1>2
  <2>2. PICK u : Phrase("and", b, u) \in Derivable
    BY <1>2
  <2>3. Phrase("or", a \o <<tok>> \o b, Node("OR", t, u)) \in Derivable
    BY <1>10, <2>1, <2>2, Rules
  <2>. QED  BY <1>1, <2>3
<1>. QED  BY <1>3, <1>4, <1>5, <1>6, <1>7, <1>8, <1>9, <1>10

\* A passage that is recognized from sentences is a sentence.
LEMMA RecognizedIsASentence ==
    ASSUME NEW p \in Texts
    PROVE  /\ IsIdentifier(p) => p \in Sentences("atom")
           /\ \A inside \in SUBSET Sentences("or") : Bracketed(p, inside) => p \in Sentences("atom")
           /\ \A before \in SUBSET Sentences("and"), after \in SUBSET Sentences("atom") :
                  Splits(p, "AND", before, after) => p \in Sentences("and")
           /\ \A before \in SUBSET Sentences("or"), after \in SUBSET Sentences("and") :
                  Splits(p, "OR", before, after) => p \in Sentences("or")
<1>1. Len(p) \in Nat
  BY Concat
<1>2. SubSeq(p, 1, Len(p)) = p
  BY SubSeqFull DEF Texts
<1>3. ASSUME IsIdentifier(p)  PROVE p \in Sentences("atom")
  <2>1. CASE Len(p) = 1 /\ p[1] \in Shaped
    <3>1. 1 \in 1..Len(p)
      BY <2>1
    <3>2. p = <<p[1]>>
      BY <1>2, <2>1, <3>1, ShortPassages
    <3>. QED  BY <2>1, <3>2, SentencesAre
  <2>2. CASE Len(p) = 3 /\ {p[1], p[3]} \subseteq Shaped /\ Upper(p[2]) = "WITH"
    <3>1. 1 \in 1..Len(p) /\ 1 + 2 = 3 /\ 1 + 1 = 2 /\ 3 <= Len(p) /\ 2 <= Len(p) /\ 1 <= 2 /\ 2 \in Nat
      BY <2>2
    <3>2. p = <<p[1], p[2], p[3]>>
      BY <1>2, <2>2, <3>1, ShortPassages
    <3>3. p[2] \in Tokens
      BY <3>1, TokenIs
    <3>4. <<p[1], p[2], p[3]>> \in Sentences("atom")
      BY <2>2, <3>3, SentencesAre, SMTT(20)
    <3>. QED  BY <3>2, <3>4
  <2>. QED  BY <1>3, <2>1, <2>2 DEF IsIdentifier
<1>4. ASSUME NEW inside \in SUBSET Sentences("or"), Bracketed(p, inside)  PROVE p \in Sentences("atom")
  <2>1. Len(p) > 2 /\ p[1] = "(" /\ p[Len(p)] = ")" /\ SubSeq(p, 2, Len(p) - 1) \in Sentences("or")
    BY <1>4 DEF Bracketed
  <2>2. 1 \in 1..Len(p) /\ Len(p) \in 1 + 1..Len(p) /\ 1 + 1 = 2 /\ 1 + 1 < Len(p)
    BY <1>1, <2>1
  <2>3. <<p[1]>> \o SubSeq(p, 1 + 1, Len(p) - 1) \o <<p[Len(p)]>> = SubSeq(p, 1, Len(p))
    BY <2>2, Seam, SMTT(20)
  <2>4. <<"(">> \o SubSeq(p, 2, Len(p) - 1) \o <<")">> = p
    BY <1>2, <2>1, <2>2, <2>3
  <2>5. <<"(">> \o SubSeq(p, 2, Len(p) - 1) \o <<")">> \in Sentences("atom")
    BY <2>1, SentencesAre
  <2>. QED  BY <2>4, <2>5
<1>5. ASSUME NEW op, NEW before, NEW after, Splits(p, op, before, after)
      PROVE  \E i \in 1..Len(p) :
                 /\ p[i] \in Tokens /\ Upper(p[i]) = op
                 /\ SubSeq(p, 1, i - 1) \in before /\ SubSeq(p, i + 1, Len(p)) \in after
                 /\ p = SubSeq(p, 1, i - 1) \o <<p[i]>> \o SubSeq(p, i + 1, Len(p))
  <2>1. DOMAIN p = 1..Len(p)
    BY LenProperties DEF Texts
  <2>2. PICK i \in 1..Len(p) : /\ Upper(p[i]) = op
                               /\ SubSeq(p, 1, i - 1) \in before
                               /\ SubSeq(p, i + 1, Len(p)) \in after
    BY <1>5, <2>1 DEF Splits
  <2>3. p[i] \in Tokens
    BY Concat
  <2>4. p = SubSeq(p, 1, i - 1) \o <<p[i]>> \o SubSeq(p, i + 1, Len(p))
    BY Around
  <2>. QED  BY <2>2, <2>3, <2>4
<1>6. ASSUME NEW before \in SUBSET Sentences("and"), NEW after \in SUBSET Sentences("atom"),
             Splits(p, "AND", before, after)
      PROVE  p \in Sentences("and")
  <2>1. PICK i \in 1..Len(p) :
            /\ p[i] \in Tokens /\ Upper(p[i]) = "AND"
            /\ SubSeq(p, 1, i - 1) \in before /\ SubSeq(p, i + 1, Len(p)) \in after
            /\ p = SubSeq(p, 1, i - 1) \o <<p[i]>> \o SubSeq(p, i + 1, Len(p))
    BY <1>5, <1>6
  <2>2. SubSeq(p, 1, i - 1) \o <<p[i]>> \o SubSeq(p, i + 1, Len(p)) \in Sentences("and")
    BY <2>1, SentencesAre
  <2>. QED  BY <2>1, <2>2
<1>7. ASSUME NEW before \in SUBSET Sentences("or"), NEW after \in SUBSET Sentences("and"),
             Splits(p, "OR", before, after)
      PROVE  p \in Sentences("or")
  <2>1. PICK i \in 1..Len(p) :
            /\ p[i] \in Tokens /\ Upper(p[i]) = "OR"
            /\ SubSeq(p, 1, i - 1) \in before /\ SubSeq(p, i + 1, Len(p)) \in after
            /\ p = SubSeq(p, 1, i - 1) \o <<p[i]>> \o SubSeq(p, i + 1, Len(p))
    BY <1>5, <1>7
  <2>2. SubSeq(p, 1, i - 1) \o <<p[i]>> \o SubSeq(p, i + 1, Len(p)) \in Sentences("or")
    BY <2>1, SentencesAre
  <2>. QED  BY <2>1, <2>2
<1>. QED  BY <1>3, <1>4, <1>6, <1>7

\* Nothing but sentences is ever known.
LEMMA KnownAreSentences ==
    ASSUME NEW toks \in Texts, NEW n \in 0..Len(toks)
    PROVE  /\ Rounds(toks)[n].factors \in SUBSET Sentences("atom")
           /\ Rounds(toks)[n].terms \in SUBSET Sentences("and")
           /\ Rounds(toks)[n].expressions \in SUBSET Sentences("or")
<1> DEFINE N == Len(toks)
           R == Rounds(toks)
           Right(known) == /\ known.factors \in SUBSET Sentences("atom")
                           /\ known.terms \in SUBSET Sentences("and")
                           /\ known.expressions \in SUBSET Sentences("or")
           right == {k \in Nat : k <= N => Right(R[k])}
<1>1. N \in Nat
  BY Concat
<1>2. R[0] = Known({}, {}, {}) /\ Passages(toks) \in SUBSET Texts
  BY RoundsAre
<1>3. 0 \in right
  BY <1>2 DEF Known
<1>4. ASSUME NEW k \in Nat, k \in right  PROVE k + 1 \in right
  <2> SUFFICES ASSUME k + 1 <= N  PROVE Right(R[k + 1])
    OBVIOUS
  <2>1. k + 1 \in 1..N /\ k \in 0..N /\ (k + 1) - 1 = k /\ k <= N
    BY <1>1
  <2>2. Right(R[k])
    BY <1>4, <2>1
  <2>3. R[k] \in KnownSets /\ R[k + 1] = Longer(Passages(toks), R[k])
    <3>. HIDE DEF Right, right
    <3>. QED  BY <2>1, RoundsAre
  <2> DEFINE known == R[k]
             longer == R[k + 1]
  <2>. HIDE DEF R, right
  <2>4. /\ longer.factors =
               {p \in Passages(toks) : IsIdentifier(p) \/ Bracketed(p, known.expressions)}
        /\ longer.terms =
               longer.factors \union {p \in Passages(toks) : Splits(p, "AND", known.terms, known.factors)}
        /\ longer.expressions =
               longer.terms \union {p \in Passages(toks) : Splits(p, "OR", known.expressions, known.terms)}
    <3> DEFINE passages == Passages(toks)
    <3>1. passages \in SUBSET Texts
      BY <1>2
    <3>2. known \in KnownSets /\ longer = Longer(passages, known)
      BY <2>3
    <3>. HIDE DEF passages, known, longer
    <3>3. /\ longer.factors =
                 {p \in passages : IsIdentifier(p) \/ Bracketed(p, known.expressions)}
          /\ longer.terms =
                 longer.factors \union {p \in passages : Splits(p, "AND", known.terms, known.factors)}
          /\ longer.expressions =
                 longer.terms \union {p \in passages : Splits(p, "OR", known.expressions, known.terms)}
      BY <3>1, <3>2, LongerIs
    <3>. QED  BY <3>3, Zenon DEF passages
  <2>5. Right(known)
    BY <2>2
  <2>. HIDE DEF known, longer
  <2>6. /\ \A p \in Passages(toks) :
               /\ IsIdentifier(p) \/ Bracketed(p, known.expressions) => p \in Sentences("atom")
               /\ Splits(p, "AND", known.terms, known.factors) => p \in Sentences("and")
               /\ Splits(p, "OR", known.expressions, known.terms) => p \in Sentences("or")
    BY <1>2, <2>5, RecognizedIsASentence
  <2>7. longer.factors \in SUBSET Sentences("atom")
    BY <2>4, <2>6
  <2>8. longer.terms \in SUBSET Sentences("and")
    BY <2>4, <2>6, <2>7, SentencesAre
  <2>9. longer.expressions \in SUBSET Sentences("or")
    BY <2>4, <2>6, <2>8, SentencesAre
  <2>. QED  BY <2>7, <2>8, <2>9 DEF longer
<1>5. Nat \subseteq right
  <2>. HIDE DEF right
  <2>. QED  BY <1>3, <1>4, Climb
<1>. HIDE DEF N
<1>6. n \in Nat /\ n <= N
  BY <1>1 DEF N
<1>. QED  BY <1>5, <1>6

LEMMA ArePassages ==
    ASSUME NEW toks, NEW i \in DOMAIN toks, NEW j \in DOMAIN toks
    PROVE  SubSeq(toks, i, j) \in Passages(toks)
<1>1. SubSeq(toks, i, j) \in {SubSeq(toks, i, k) : k \in DOMAIN toks}
  OBVIOUS
<1>. QED  BY <1>1, Zenon DEF Passages

\* A passage of a passage is a passage.
LEMMA PassagesNest ==
    ASSUME NEW toks \in Texts, NEW p \in Passages(toks), NEW i \in DOMAIN p, NEW j \in DOMAIN p, i <= j
    PROVE  SubSeq(p, i, j) \in Passages(toks)
<1>1. PICK a \in DOMAIN toks, b \in DOMAIN toks : p = SubSeq(toks, a, b)
  BY DEF Passages
<1>2. Len(toks) \in Nat /\ DOMAIN toks = 1..Len(toks)
  BY Concat, LenProperties DEF Texts
<1>5. a \in Int /\ b \in Int /\ b - a + 1 \in Int
  BY <1>2
<1>3. CASE b < a
  <2>1. a \in Int /\ b \in Int /\ \A n \in a..b : toks[n] \in Tokens
    BY <1>2, <1>3
  <2>2. p \in Seq(Tokens) /\ Len(p) = 0
    BY <1>1, <1>3, <2>1, SubSeqProperties
  <2>3. DOMAIN p = 1..Len(p)
    BY <2>2, LenProperties
  <2>. QED  BY <2>2, <2>3
<1>4. CASE a <= b
  <2>1. b \in a..Len(toks)
    BY <1>2, <1>4
  <2>2. /\ p \in Texts /\ Len(p) = b - a + 1
        /\ \A n \in 1..Len(p) : p[n] = toks[a + n - 1]
    BY <1>1, <1>2, <2>1, PassagesAre
  <2>3. DOMAIN p = 1..Len(p)
    BY <2>2, LenProperties DEF Texts
  <2> DEFINE q == SubSeq(p, i, j)
             c == a + i - 1
             d == a + j - 1
             r == SubSeq(toks, c, d)
  <2>4. /\ i \in 1..Len(p) /\ j \in i..Len(p)
        /\ c \in 1..Len(toks) /\ d \in c..Len(toks) /\ d \in 1..Len(toks) /\ d - c + 1 = j - i + 1
        /\ \A n \in 1..j - i + 1 : /\ i + n - 1 \in 1..Len(p)
                                   /\ a + (i + n - 1) - 1 = c + n - 1
    <3>1. i \in Int /\ j \in Int /\ 1 <= i /\ i <= j /\ j <= b - a + 1
      BY <1>5, <2>2, <2>3
    <3>2. a \in Int /\ b \in Int /\ 1 <= a /\ b <= Len(toks)
      BY <1>2
    <3>3. j <= Len(p)
      BY <2>2, <3>1
    <3>4. /\ 1 <= c /\ c <= d /\ d <= Len(toks) /\ c \in Int /\ d \in Int
          /\ d - c + 1 = j - i + 1
      BY <1>2, <3>1, <3>2
    <3>5. ASSUME NEW n \in 1..j - i + 1
          PROVE  i + n - 1 \in 1..Len(p) /\ a + (i + n - 1) - 1 = c + n - 1
      <4>1. n \in Int /\ 1 <= n /\ n <= j - i + 1
        BY <3>1
      <4>2. i + n - 1 \in Int /\ 1 <= i + n - 1 /\ i + n - 1 <= j
        BY <3>1, <4>1
      <4>3. i + n - 1 \in 1..j
        BY <3>1, <4>2
      <4>4. \A k \in 1..j : k \in 1..Len(p)
        BY <1>5, <2>2, <3>1, <3>3
      <4>5. a + (i + n - 1) - 1 = c + n - 1
        BY <3>1, <3>2, <4>1
      <4>. QED  BY <4>3, <4>4, <4>5
    <3>6. i \in 1..Len(p) /\ j \in i..Len(p)
      BY <2>3, <3>1, <3>3
    <3>. HIDE DEF c, d
    <3>. QED  BY <1>2, <3>4, <3>5, <3>6
  <2>5. q \in Texts /\ Len(q) = j - i + 1 /\ \A n \in 1..j - i + 1 : q[n] = p[i + n - 1]
    BY <2>2, <2>4, PassagesAre
  <2>. HIDE DEF c, d, q
  <2>6. r \in Texts /\ Len(r) = d - c + 1 /\ \A n \in 1..d - c + 1 : r[n] = toks[c + n - 1]
    BY <2>4, PassagesAre
  <2>. HIDE DEF r
  <2>7. \A n \in 1..j - i + 1 : q[n] = r[n]
    <3>1. \A n \in 1..j - i + 1 : p[i + n - 1] = toks[a + (i + n - 1) - 1]
      BY <2>2, <2>4
    <3>. QED  BY <2>4, <2>5, <2>6, <3>1
  <2>8. q = r
    BY <2>4, <2>5, <2>6, <2>7, SameText
  <2>9. r \in Passages(toks)
    BY <1>2, <2>4, ArePassages DEF r
  <2>. QED  BY <2>8, <2>9 DEF q
<1>. QED  BY <1>3, <1>4, <1>5

\* What is known of a rank, and how a round finds it.
KnownOf(known, rank) ==
    IF rank = "atom" THEN known.factors ELSE IF rank = "and" THEN known.terms ELSE known.expressions

LEMMA RoundKnows ==
    ASSUME NEW toks \in Texts, NEW n \in 1..Len(toks), NEW p \in Passages(toks)
    PROVE  /\ IsIdentifier(p) => p \in KnownOf(Rounds(toks)[n], "atom")
           /\ Bracketed(p, KnownOf(Rounds(toks)[n - 1], "or")) => p \in KnownOf(Rounds(toks)[n], "atom")
           /\ Splits(p, "AND", KnownOf(Rounds(toks)[n - 1], "and"), KnownOf(Rounds(toks)[n - 1], "atom")) =>
                  p \in KnownOf(Rounds(toks)[n], "and")
           /\ Splits(p, "OR", KnownOf(Rounds(toks)[n - 1], "or"), KnownOf(Rounds(toks)[n - 1], "and")) =>
                  p \in KnownOf(Rounds(toks)[n], "or")
           /\ p \in KnownOf(Rounds(toks)[n], "atom") => p \in KnownOf(Rounds(toks)[n], "and")
           /\ p \in KnownOf(Rounds(toks)[n], "and") => p \in KnownOf(Rounds(toks)[n], "or")
<1> DEFINE known == Rounds(toks)[n - 1]
           longer == Rounds(toks)[n]
<1>1. n - 1 \in 0..Len(toks)
  <2>1. Len(toks) \in Nat
    BY Concat
  <2>. QED  BY <2>1
<1>2. known \in KnownSets /\ longer = Longer(Passages(toks), known) /\ Passages(toks) \in SUBSET Texts
  <2>1. /\ Passages(toks) \in SUBSET Texts
        /\ \A m \in 0..Len(toks) : Rounds(toks)[m] \in KnownSets
        /\ \A m \in 1..Len(toks) : Rounds(toks)[m] = Longer(Passages(toks), Rounds(toks)[m - 1])
    BY RoundsAre
  <2>. QED  BY Zenon, <1>1, <2>1
<1>. HIDE DEF known, longer
<1>3. /\ longer.factors =
             {q \in Passages(toks) : IsIdentifier(q) \/ Bracketed(q, known.expressions)}
      /\ longer.terms =
             longer.factors \union {q \in Passages(toks) : Splits(q, "AND", known.terms, known.factors)}
      /\ longer.expressions =
             longer.terms \union {q \in Passages(toks) : Splits(q, "OR", known.expressions, known.terms)}
  BY <1>2, LongerIs
<1>4. \A k : KnownOf(k, "atom") = k.factors /\ KnownOf(k, "and") = k.terms /\ KnownOf(k, "or") = k.expressions
  BY DEF KnownOf
<1> SUFFICES /\ IsIdentifier(p) => p \in longer.factors
             /\ Bracketed(p, known.expressions) => p \in longer.factors
             /\ Splits(p, "AND", known.terms, known.factors) => p \in longer.terms
             /\ Splits(p, "OR", known.expressions, known.terms) => p \in longer.expressions
             /\ p \in longer.factors => p \in longer.terms
             /\ p \in longer.terms => p \in longer.expressions
  BY <1>4 DEF known, longer
<1>. QED  BY <1>3

\* A sentence is known by the round of its length.
Due(toks, rank, s) ==
    s \in Passages(toks) =>
        \A n \in 1..Len(toks) : Len(s) <= n => s \in KnownOf(Rounds(toks)[n], rank)

LEMMA NamesAreDue ==
    ASSUME NEW toks \in Texts, NEW word \in Shaped
    PROVE  /\ Due(toks, "atom", <<word>>)
           /\ \A tok \in Tokens, exception \in Shaped :
                  Upper(tok) = "WITH" => Due(toks, "atom", <<word, tok, exception>>)
<1>1. IsIdentifier(<<word>>)
  BY DEF IsIdentifier
<1>2. ASSUME NEW tok \in Tokens, NEW exception \in Shaped, Upper(tok) = "WITH"
      PROVE  IsIdentifier(<<word, tok, exception>>)
  <2> DEFINE name == <<word, tok, exception>>
  <2>1. Len(name) = 3 /\ name[1] = word /\ name[2] = tok /\ name[3] = exception
    OBVIOUS
  <2>. HIDE DEF name
  <2>2. IsIdentifier(name)
    BY <1>2, <2>1 DEF IsIdentifier
  <2>. QED  BY <2>2 DEF name
<1>. QED  BY <1>1, <1>2, RoundKnows DEF Due

LEMMA BracketIsDue ==
    ASSUME NEW toks \in Texts, NEW s \in Texts, 1 <= Len(s), Due(toks, "or", s)
    PROVE  Due(toks, "atom", <<"(">> \o s \o <<")">>)
<1> DEFINE whole == <<"(">> \o s \o <<")">>
<1> SUFFICES ASSUME whole \in Passages(toks), NEW n \in 1..Len(toks), Len(whole) <= n
             PROVE  whole \in KnownOf(Rounds(toks)[n], "atom")
  BY DEF Due
<1>1. /\ whole \in Texts /\ Len(whole) = Len(s) + 2 /\ whole[1] = "(" /\ whole[Len(whole)] = ")"
      /\ SubSeq(whole, 2, Len(whole) - 1) = s
  BY InsideIs
<1>. HIDE DEF whole
<1>2. Len(s) \in Nat /\ Len(toks) \in Nat
  BY Concat
<1>3. DOMAIN whole = 1..Len(whole)
  BY <1>1, LenProperties DEF Texts
<1>4. 2 \in DOMAIN whole /\ Len(whole) - 1 \in DOMAIN whole /\ 2 <= Len(whole) - 1 /\ Len(whole) > 2
  BY <1>1, <1>2, <1>3
<1>5. s \in Passages(toks)
  BY <1>1, <1>4, PassagesNest
<1>6. n - 1 \in 1..Len(toks) /\ Len(s) <= n - 1
  BY <1>1, <1>2
<1>7. s \in KnownOf(Rounds(toks)[n - 1], "or")
  BY <1>5, <1>6 DEF Due
<1>8. Bracketed(whole, KnownOf(Rounds(toks)[n - 1], "or"))
  BY <1>1, <1>4, <1>7 DEF Bracketed
<1>. QED  BY <1>8, RoundKnows

LEMMA JoinIsDue ==
    ASSUME NEW toks \in Texts, NEW a \in Texts, NEW b \in Texts, NEW tok \in Tokens,
           1 <= Len(a), 1 <= Len(b)
    PROVE  /\ Upper(tok) = "AND" /\ Due(toks, "and", a) /\ Due(toks, "atom", b) =>
                  Due(toks, "and", a \o <<tok>> \o b)
           /\ Upper(tok) = "OR" /\ Due(toks, "or", a) /\ Due(toks, "and", b) =>
                  Due(toks, "or", a \o <<tok>> \o b)
<1> DEFINE whole == a \o <<tok>> \o b
           k == Len(a) + 1
<1>1. /\ k \in DOMAIN whole /\ whole[k] = tok
      /\ SubSeq(whole, 1, k - 1) = a /\ SubSeq(whole, k + 1, Len(whole)) = b
  BY HalvesAre
<1>2. Len(a) \in Nat /\ Len(b) \in Nat /\ Len(toks) \in Nat
  BY Concat
<1>3. whole \in Texts /\ Len(whole) = k + Len(b)
  <2>1. <<tok>> \in Texts /\ Len(<<tok>>) = 1
    BY Concat
  <2>2. a \o <<tok>> \in Texts /\ Len(a \o <<tok>>) = Len(a) + Len(<<tok>>)
    BY <2>1, Concat
  <2>3. (a \o <<tok>>) \o b \in Texts /\ Len((a \o <<tok>>) \o b) = Len(a \o <<tok>>) + Len(b)
    BY <2>2, Concat
  <2>. QED  BY <2>1, <2>2, <2>3
<1>. HIDE DEF whole
<1>4. DOMAIN whole = 1..Len(whole)
  BY <1>3, LenProperties DEF Texts
<1>5. /\ 1 \in DOMAIN whole /\ k - 1 \in DOMAIN whole /\ 1 <= k - 1
      /\ k + 1 \in DOMAIN whole /\ Len(whole) \in DOMAIN whole /\ k + 1 <= Len(whole)
  BY <1>2, <1>3, <1>4
<1>. HIDE DEF k
<1>6. whole \in Passages(toks) => a \in Passages(toks) /\ b \in Passages(toks)
  BY <1>1, <1>5, PassagesNest
<1>7. \A n \in 1..Len(toks) :
          Len(whole) <= n => n - 1 \in 1..Len(toks) /\ Len(a) <= n - 1 /\ Len(b) <= n - 1
  BY <1>2, <1>3 DEF k
<1>8. ASSUME NEW op, NEW before, NEW after, Upper(tok) = op, Due(toks, before, a), Due(toks, after, b),
             whole \in Passages(toks), NEW n \in 1..Len(toks), Len(whole) <= n
      PROVE  Splits(whole, op, KnownOf(Rounds(toks)[n - 1], before), KnownOf(Rounds(toks)[n - 1], after))
  <2>1. n - 1 \in 1..Len(toks) /\ Len(a) <= n - 1 /\ Len(b) <= n - 1
    BY <1>7, <1>8
  <2>2. a \in KnownOf(Rounds(toks)[n - 1], before) /\ b \in KnownOf(Rounds(toks)[n - 1], after)
    BY <1>6, <1>8, <2>1 DEF Due
  <2>. QED  BY <1>1, <1>8, <2>2 DEF Splits
<1>9. Upper(tok) = "AND" /\ Due(toks, "and", a) /\ Due(toks, "atom", b) => Due(toks, "and", whole)
  BY <1>8, RoundKnows DEF Due
<1>10. Upper(tok) = "OR" /\ Due(toks, "or", a) /\ Due(toks, "and", b) => Due(toks, "or", whole)
  BY <1>8, RoundKnows DEF Due
<1>. QED  BY <1>9, <1>10 DEF whole

LEMMA SentencesAreDue ==
    ASSUME NEW toks \in Texts, NEW rank, NEW s, NEW t, Phrase(rank, s, t) \in Derivable
    PROVE  Due(toks, rank, s)
<1> DEFINE L == {p \in Derivable : Due(toks, p.rank, p.toks)}
<1>1. \A r, a, b : Phrase(r, a, b) \in L <=> Phrase(r, a, b) \in Derivable /\ Due(toks, r, a)
  BY PhraseIs
<1>2. L \in SUBSET Derivable
  OBVIOUS
<1>. HIDE DEF L
<1>3. \A r, a, b : Phrase(r, a, b) \in L => a \in Texts /\ 1 <= Len(a)
  BY <1>1, PhraseIs, PhrasesHoldSomething
<1>4. Names(L)
  BY <1>1, NamesAreDue, Rules DEF Names
<1>5. Brackets(L)
  BY <1>1, <1>3, BracketIsDue, Rules DEF Brackets
<1>6. Loosens(L)
  <2>1. \A a : Due(toks, "atom", a) => Due(toks, "and", a)
    BY RoundKnows DEF Due
  <2>2. \A a : Due(toks, "and", a) => Due(toks, "or", a)
    BY RoundKnows DEF Due
  <2>. QED  BY <1>1, <2>1, <2>2, Rules DEF Loosens
<1>7. Joins(L)
  <2>1. JoinsBy(L, "AND", "and", "atom")
    BY <1>1, <1>3, JoinIsDue, Rules DEF JoinsBy
  <2>2. JoinsBy(L, "OR", "or", "and")
    BY <1>1, <1>3, JoinIsDue, Rules DEF JoinsBy
  <2>. QED  BY <2>1, <2>2 DEF Joins
<1>8. L = Derivable
  BY <1>2, <1>4, <1>5, <1>6, <1>7, Derivations DEF Closed
<1>. QED  BY <1>1, <1>8

\* The recognizer and the parser agree on every text.
THEOREM ParserIsTheGrammar ==
    ASSUME NEW toks \in Texts
    PROVE  Parse(toks).ok <=> IsExpression(toks)
<1>1. Len(toks) \in Nat
  BY Concat
<1>2. Parse(toks).ok <=> toks \in Sentences("or")
  <2>1. Parse(toks).ok => toks \in Sentences("or")
    BY ParsedIsDerivable DEF Sentences
  <2>2. toks \in Sentences("or") => Parse(toks).ok
    BY DerivableIsParsed DEF Sentences
  <2>. QED  BY <2>1, <2>2
<1>3. ASSUME IsExpression(toks)  PROVE toks \in Sentences("or")
  <2>1. Len(toks) \in 0..Len(toks)
    BY <1>1
  <2>. QED  BY <1>3, <2>1, RoundsAre, KnownAreSentences
<1>4. ASSUME toks \in Sentences("or")  PROVE IsExpression(toks)
  <2>1. 1 <= Len(toks)
    BY <1>4, SentencesAre
  <2>2. DOMAIN toks = 1..Len(toks)
    BY LenProperties DEF Texts
  <2>3. 1 \in DOMAIN toks /\ Len(toks) \in DOMAIN toks /\ Len(toks) \in 1..Len(toks) /\ Len(toks) <= Len(toks)
    BY <1>1, <2>1, <2>2
  <2>4. SubSeq(toks, 1, Len(toks)) = toks
    BY SubSeqFull DEF Texts
  <2>5. toks \in Passages(toks)
    BY <2>3, <2>4, ArePassages
  <2>6. PICK t : Phrase("or", toks, t) \in Derivable
    BY <1>4 DEF Sentences
  <2>7. Due(toks, "or", toks)
    BY <2>6, SentencesAreDue
  <2>8. toks \in KnownOf(Rounds(toks)[Len(toks)], "or")
    BY <2>3, <2>5, <2>7 DEF Due
  <2>9. toks \in Rounds(toks)[Len(toks)].expressions
    BY <2>8 DEF KnownOf
  <2>. QED  BY <2>9, RoundsAre
<1>. QED  BY <1>2, <1>3, <1>4

-----------------------------------------------------------------------------
(* What is written is read as it was meant (Writing.tla).                  *)

\* The acceptances that satisfy a tree; a text is derived with the tree that
\* means what its writer meant.
Meant(tree) == {accepted \in SUBSET Leaves : Satisfies(tree, accepted)}
Expresses(tree) ==
    /\ Phrase(made, text, tree) \in Derivable
    /\ tree.ids = names
    /\ meant = Meant(tree)

WriteInv ==
    /\ text \in Texts
    /\ made \in {"none", "typed"} \union Ranks
    /\ Written => \E tree : Expresses(tree)

\* An identifier is a factor, in brackets of its own or not.
LEMMA LeavesAre ==
    ASSUME NEW id \in Leaves
    PROVE  /\ id \in Texts
           /\ \A operand \in Operand(id) :
                  operand \in Texts /\ Phrase("atom", operand, Leaf(id)) \in Derivable
<1>1. id \in Texts /\ Phrase("atom", id, Leaf(id)) \in Derivable
  <2>1. CASE \E word \in Shaped : id = <<word>>
    BY <2>1, Rules, PhraseIs
  <2>2. CASE \E word, exception \in Shaped : id = <<word, "WITH", exception>>
    <3>1. "WITH" \in Tokens /\ Upper("WITH") = "WITH"
      BY TokensAre
    <3>. QED  BY <2>2, <3>1, Rules, PhraseIs
  <2>. QED  BY <2>1, <2>2, LeafAssumption
<1>2. Phrase("atom", <<"(">> \o id \o <<")">>, Leaf(id)) \in Derivable
  BY <1>1, Rules
<1>. QED  BY <1>1, <1>2, PhraseIs DEF Operand

\* A tree that is bracketed, or joined with an identifier, means what is meant.
LEMMA JoinedMeans ==
    ASSUME NEW id, NEW t
    PROVE  /\ Meant(Leaf(id)) = Accepting(id)
           /\ \A node \in {Node("AND", t, Leaf(id)), Node("AND", Leaf(id), t)} :
                 /\ Meant(node) = Meant(t) \intersect Accepting(id)
                 /\ node.ids = t.ids \union {id}
           /\ \A node \in {Node("OR", t, Leaf(id)), Node("OR", Leaf(id), t)} :
                 /\ Meant(node) = Meant(t) \union Accepting(id)
                 /\ node.ids = t.ids \union {id}
<1>1. \A accepted : Satisfies(Leaf(id), accepted) <=> id \in accepted
  BY SatisfiesLeaf
<1>2. Leaf(id).ids = {id}
  BY DEF Leaf
<1> DEFINE leaf == Leaf(id)
<1>. HIDE DEF leaf
<1>3. \A accepted :
          /\ Satisfies(Node("AND", t, leaf), accepted) <=> Satisfies(t, accepted) /\ Satisfies(leaf, accepted)
          /\ Satisfies(Node("AND", leaf, t), accepted) <=> Satisfies(leaf, accepted) /\ Satisfies(t, accepted)
          /\ Satisfies(Node("OR", t, leaf), accepted) <=> Satisfies(t, accepted) \/ Satisfies(leaf, accepted)
          /\ Satisfies(Node("OR", leaf, t), accepted) <=> Satisfies(leaf, accepted) \/ Satisfies(t, accepted)
  BY SatisfiesNode
<1>4. \A op : /\ Node(op, t, leaf).ids = t.ids \union leaf.ids
              /\ Node(op, leaf, t).ids = leaf.ids \union t.ids
  BY DEF Node
<1>5. \A accepted : Satisfies(leaf, accepted) <=> id \in accepted
  BY <1>1 DEF leaf
<1>6. leaf.ids = {id}
  BY <1>2 DEF leaf
<1>7. Meant(leaf) = Accepting(id)
  BY <1>5 DEF Accepting, Meant
<1>8. ASSUME NEW node \in {Node("AND", t, leaf), Node("AND", leaf, t)}
      PROVE  /\ Meant(node) = Meant(t) \intersect Accepting(id)
             /\ node.ids = t.ids \union {id}
  <2>1. \A accepted : Satisfies(node, accepted) <=> Satisfies(t, accepted) /\ id \in accepted
    BY <1>3, <1>5
  <2>2. node.ids = t.ids \union {id}
    BY <1>4, <1>6
  <2>. HIDE DEF leaf
  <2>. QED  BY <2>1, <2>2 DEF Accepting, Meant
<1>9. ASSUME NEW node \in {Node("OR", t, leaf), Node("OR", leaf, t)}
      PROVE  /\ Meant(node) = Meant(t) \union Accepting(id)
             /\ node.ids = t.ids \union {id}
  <2>1. \A accepted : Satisfies(node, accepted) <=> Satisfies(t, accepted) \/ id \in accepted
    BY <1>3, <1>5
  <2>2. node.ids = t.ids \union {id}
    BY <1>4, <1>6
  <2>. QED  BY <2>1, <2>2 DEF Accepting, Meant
<1>. QED  BY <1>7, <1>8, <1>9 DEF leaf

\* Nothing is written at first.
LEMMA WriteStarts == WriteInit => WriteInv
<1> SUFFICES ASSUME WriteInit  PROVE WriteInv
  OBVIOUS
<1>1. text \in Texts
  BY DEF WriteInit, Texts
<1>. QED  BY <1>1 DEF WriteInit, WriteInv, Written

\* Joining: the tree of the new text is that of the old one and the new leaf.
LEMMA JoinExpresses ==
    ASSUME WriteInv, NEW id \in Leaves, NEW op \in {"AND", "OR", "or"}, Join(op, id)
    PROVE  WriteInv'
<1>1. PICK operand \in Operand(id) :
          text' \in {text \o <<op>> \o operand, operand \o <<op>> \o text}
  BY DEF Join
<1>2. /\ made \in IF Upper(op) = "AND" THEN {"atom", "and"} ELSE {"atom", "and", "or"}
      /\ made' = IF Upper(op) = "AND" THEN "and" ELSE "or"
      /\ meant' = IF Upper(op) = "AND" THEN meant \intersect Accepting(id)
                                       ELSE meant \union Accepting(id)
      /\ names' = names \union {id}
  BY DEF Join
<1>3. PICK t : Expresses(t)
  BY <1>2 DEF WriteInv, Written
<1>4. /\ operand \in Texts /\ Phrase("atom", operand, Leaf(id)) \in Derivable
      /\ Phrase("and", operand, Leaf(id)) \in Derivable /\ Phrase("or", operand, Leaf(id)) \in Derivable
  BY LeavesAre, Rules
<1>5. op \in Tokens /\ (op = "AND" => Upper(op) = "AND") /\ (op # "AND" => Upper(op) = "OR")
  BY TokensAre
<1>6. ASSUME NEW node, Phrase(made', text', node) \in Derivable, node.ids = names',
             meant' = Meant(node)
      PROVE  WriteInv'
  <2>1. Expresses(node)'
    BY <1>6 DEF Expresses, Meant, Satisfies
  <2>2. text' \in Texts /\ made' \in Ranks
    BY <1>6, PhraseIs
  <2>. QED  BY <2>1, <2>2 DEF WriteInv
<1>7. /\ Phrase(made, text, t) \in Derivable /\ t.ids = names
      /\ meant = Meant(t)
  BY <1>3 DEF Expresses
<1>10. /\ \A node \in {Node("AND", t, Leaf(id)), Node("AND", Leaf(id), t)} :
              /\ Meant(node) = meant \intersect Accepting(id)
              /\ node.ids = t.ids \union {id}
       /\ \A node \in {Node("OR", t, Leaf(id)), Node("OR", Leaf(id), t)} :
              /\ Meant(node) = meant \union Accepting(id)
              /\ node.ids = t.ids \union {id}
  BY <1>7, JoinedMeans
<1>8. CASE op = "AND"
  <2>1. Phrase("and", text, t) \in Derivable /\ made' = "and"
    BY <1>2, <1>5, <1>7, <1>8, Rules
  <2>2. /\ Phrase("and", text \o <<op>> \o operand, Node("AND", t, Leaf(id))) \in Derivable
        /\ Phrase("and", operand \o <<op>> \o text, Node("AND", Leaf(id), t)) \in Derivable
    BY <1>4, <1>5, <1>8, <2>1, JoinRight
  <2>3. \E node \in {Node("AND", t, Leaf(id)), Node("AND", Leaf(id), t)} :
            Phrase(made', text', node) \in Derivable
    BY <1>1, <2>1, <2>2
  <2>4. PICK node \in {Node("AND", t, Leaf(id)), Node("AND", Leaf(id), t)} :
            Phrase(made', text', node) \in Derivable
    BY <2>3
  <2>5. /\ Meant(node) = meant \intersect Accepting(id)
        /\ node.ids = t.ids \union {id}
    BY <1>10
  <2>. QED  BY <1>2, <1>5, <1>6, <1>7, <1>8, <2>4, <2>5
<1>9. CASE op # "AND"
  <2>0. Upper(op) = "OR"
    BY <1>5, <1>9
  <2>1. Phrase("or", text, t) \in Derivable /\ made' = "or"
    BY <1>2, <1>7, <2>0, Rules
  <2>2. /\ Phrase("or", text \o <<op>> \o operand, Node("OR", t, Leaf(id))) \in Derivable
        /\ Phrase("or", operand \o <<op>> \o text, Node("OR", Leaf(id), t)) \in Derivable
    BY <1>4, <1>5, <2>0, <2>1, JoinRight
  <2>3. \E node \in {Node("OR", t, Leaf(id)), Node("OR", Leaf(id), t)} :
            Phrase(made', text', node) \in Derivable
    BY <1>1, <2>1, <2>2
  <2>4. PICK node \in {Node("OR", t, Leaf(id)), Node("OR", Leaf(id), t)} :
            Phrase(made', text', node) \in Derivable
    BY <2>3
  <2>5. /\ Meant(node) = meant \union Accepting(id)
        /\ node.ids = t.ids \union {id}
    BY <1>10
  <2>. QED  BY <1>2, <1>6, <1>7, <2>0, <2>4, <2>5
<1>. QED  BY <1>8, <1>9

LEMMA WriteStep == WriteInv /\ [WriteNext]_writeVars => WriteInv'
<1> SUFFICES ASSUME WriteInv, [WriteNext]_writeVars  PROVE WriteInv'
  OBVIOUS
<1>1. ASSUME NEW id \in Leaves, Write(id)  PROVE WriteInv'
  <2>1. text' = id /\ made' = "atom" /\ meant' = Accepting(id) /\ names' = {id}
    BY <1>1 DEF Write
  <2>2. id \in Texts /\ Phrase("atom", id, Leaf(id)) \in Derivable
    BY LeavesAre DEF Operand
  <2>3. Meant(Leaf(id)) = Accepting(id)
    BY SatisfiesLeaf DEF Accepting, Meant
  <2>4. Leaf(id).ids = {id}
    BY DEF Leaf
  <2>5. Expresses(Leaf(id))'
    BY <2>1, <2>2, <2>3, <2>4 DEF Expresses
  <2>. QED  BY <2>1, <2>2, <2>5 DEF WriteInv, Ranks
<1>2. ASSUME Bracket  PROVE WriteInv'
  <2>1. /\ made \in {"atom", "and", "or"} /\ text' = <<"(">> \o text \o <<")">> /\ made' = "atom"
        /\ UNCHANGED <<meant, names>>
    BY <1>2 DEF Bracket
  <2>2. PICK t : Expresses(t)
    BY <2>1 DEF WriteInv, Written
  <2>3. Phrase("or", text, t) \in Derivable
    BY <2>1, <2>2, Rules DEF Expresses
  <2>4. Phrase("atom", text', t) \in Derivable
    BY <2>1, <2>3, Rules
  <2>5. Expresses(t)'
    BY <2>1, <2>2, <2>4 DEF Expresses
  <2>6. text' \in Texts
    BY <2>4, PhraseIs
  <2>. QED  BY <2>1, <2>5, <2>6 DEF WriteInv, Ranks
<1>3. ASSUME NEW tok \in Words \union Parentheses \union {"AND", "or", "WITH"}, Type(tok)
      PROVE  WriteInv'
  <2>1. text' = Append(text, tok) /\ made' = "typed"
    BY <1>3 DEF Type
  <2>2. tok \in Tokens
    BY DEF Tokens
  <2>3. text' \in Texts
    BY <2>1, <2>2 DEF WriteInv, Texts
  <2>. QED  BY <2>1, <2>3 DEF WriteInv, Written
<1>4. CASE UNCHANGED writeVars
  <2>1. text' = text /\ made' = made /\ meant' = meant /\ names' = names
    BY <1>4 DEF writeVars
  <2>2. Written' <=> Written
    BY <2>1 DEF Written
  <2>3. \A tree : Expresses(tree) => Expresses(tree)'
    BY <2>1 DEF Expresses
  <2>. QED  BY <2>1, <2>2, <2>3 DEF WriteInv
<1>. QED  BY <1>1, <1>2, <1>3, <1>4, JoinExpresses DEF WriteNext

\* Every word of a derived text is in an identifier of its tree.
Covers(toks, tree) ==
    \A i \in 1..Len(toks) :
        ~IsParenthesis(toks[i]) /\ ~IsOperatorToken(toks[i]) =>
            /\ toks[i] \in Shaped
            /\ \E id \in tree.ids : \E j \in DOMAIN id : id[j] = toks[i]

LEMMA NamesAreCovered ==
    /\ \A word \in Shaped : Covers(<<word>>, Leaf(<<word>>))
    /\ \A word, exception \in Shaped : \A tok \in Tokens :
           Upper(tok) = "WITH" => Covers(<<word, tok, exception>>, Leaf(<<word, "WITH", exception>>))
<1>1. ASSUME NEW word \in Shaped  PROVE Covers(<<word>>, Leaf(<<word>>))
  <2>1. Len(<<word>>) = 1 /\ <<word>>[1] = word /\ DOMAIN <<word>> = 1..1 /\ 1 \in 1..1
        /\ \A i \in 1..1 : i = 1
    OBVIOUS
  <2>2. Leaf(<<word>>).ids = {<<word>>}
    BY DEF Leaf
  <2>. QED  BY <2>1, <2>2 DEF Covers
<1>2. ASSUME NEW word \in Shaped, NEW exception \in Shaped, NEW tok \in Tokens, Upper(tok) = "WITH"
      PROVE  Covers(<<word, tok, exception>>, Leaf(<<word, "WITH", exception>>))
  <2> DEFINE read == <<word, tok, exception>>
             name == <<word, "WITH", exception>>
  <2>1. /\ Len(read) = 3 /\ read[1] = word /\ read[2] = tok /\ read[3] = exception
        /\ name[1] = word /\ name[3] = exception /\ 1 \in DOMAIN name /\ 3 \in DOMAIN name
        /\ \A i \in 1..3 : i = 1 \/ i = 2 \/ i = 3
    OBVIOUS
  <2>2. Leaf(name).ids = {name}
    BY DEF Leaf
  <2>. HIDE DEF read, name
  <2>3. IsOperatorToken(tok)
    BY <1>2 DEF IsOperatorToken, Operators
  <2>4. Covers(read, Leaf(name))
    BY <2>1, <2>2, <2>3 DEF Covers
  <2>. QED  BY <2>4 DEF read, name
<1>. QED  BY <1>1, <1>2

LEMMA JoinIsCovered ==
    ASSUME NEW a \in Texts, NEW t, NEW b \in Texts, NEW u, NEW tok \in Tokens, NEW tree,
           Covers(a, t), Covers(b, u), IsParenthesis(tok) \/ IsOperatorToken(tok),
           tree.ids = t.ids \union u.ids
    PROVE  Covers(a \o <<tok>> \o b, tree)
<1> DEFINE front == a \o <<tok>>
           whole == front \o b
<1>1. Len(a) \in Nat /\ Len(b) \in Nat /\ <<tok>> \in Texts /\ Len(<<tok>>) = 1 /\ <<tok>>[1] = tok
  BY Concat
<1>2. /\ front \in Texts /\ Len(front) = Len(a) + Len(<<tok>>)
      /\ \A i \in 1..Len(a) : front[i] = a[i]
      /\ \A i \in 1..Len(<<tok>>) : front[Len(a) + i] = <<tok>>[i]
  BY <1>1, Concat
<1>. HIDE DEF front
<1>3. /\ Len(whole) = Len(front) + Len(b)
      /\ \A i \in 1..Len(front) : whole[i] = front[i]
      /\ \A i \in 1..Len(b) : whole[Len(front) + i] = b[i]
  BY <1>2, Concat, ZenonT(30)
<1>. HIDE DEF whole
<1>4. ASSUME NEW i \in 1..Len(whole)
      PROVE  \/ \E k \in 1..Len(a) : whole[i] = a[k]
             \/ whole[i] = tok
             \/ \E k \in 1..Len(b) : whole[i] = b[k]
  <2>1. Len(front) = Len(a) + 1 /\ Len(whole) = Len(a) + 1 + Len(b)
    BY <1>1, <1>2, <1>3
  <2>2. CASE i <= Len(a)
    <3>1. i \in 1..Len(a) /\ i \in 1..Len(front)
      BY <1>1, <2>1, <2>2
    <3>. QED  BY <1>2, <1>3, <3>1
  <2>3. CASE i = Len(a) + 1
    <3>1. i \in 1..Len(front) /\ 1 \in 1..Len(<<tok>>)
      BY <1>1, <2>1, <2>3
    <3>2. front[Len(a) + 1] = <<tok>>[1]
      BY <1>2, <3>1
    <3>. QED  BY <1>1, <1>3, <2>3, <3>1, <3>2
  <2>4. CASE i > Len(a) + 1
    <3> DEFINE k == i - (Len(a) + 1)
    <3>1. k \in 1..Len(b) /\ Len(front) + k = i
      BY <1>1, <2>1, <2>4
    <3>. HIDE DEF k
    <3>2. whole[i] = b[k]
      BY <1>3, <3>1
    <3>. QED  BY <3>1, <3>2
  <2>. QED  BY <1>1, <2>2, <2>3, <2>4
<1>5. Covers(whole, tree)
  BY <1>4 DEF Covers
<1>. QED  BY <1>5 DEF whole, front

LEMMA BracketIsCovered ==
    ASSUME NEW s \in Texts, NEW t, Covers(s, t)
    PROVE  Covers(<<"(">> \o s \o <<")">>, t)
<1> DEFINE open == <<"(">> \o s
           whole == open \o <<")">>
<1>1. /\ Len(s) \in Nat
      /\ <<"(">> \in Texts /\ Len(<<"(">>) = 1 /\ <<"(">>[1] = "("
      /\ <<")">> \in Texts /\ Len(<<")">>) = 1 /\ <<")">>[1] = ")"
  BY TokensAre, Concat
<1>2. /\ open \in Texts /\ Len(open) = Len(<<"(">>) + Len(s)
      /\ \A i \in 1..Len(<<"(">>) : open[i] = <<"(">>[i]
      /\ \A i \in 1..Len(s) : open[Len(<<"(">>) + i] = s[i]
  BY <1>1, Concat, ZenonT(30)
<1>. HIDE DEF open
<1>3. /\ Len(whole) = Len(open) + Len(<<")">>)
      /\ \A i \in 1..Len(open) : whole[i] = open[i]
      /\ \A i \in 1..Len(<<")">>) : whole[Len(open) + i] = <<")">>[i]
  <2> DEFINE close == <<")">>
  <2>1. close \in Texts /\ whole = open \o close
    BY <1>1
  <2>. HIDE DEF close, whole
  <2>2. /\ Len(open \o close) = Len(open) + Len(close)
        /\ \A i \in 1..Len(open) : (open \o close)[i] = open[i]
        /\ \A i \in 1..Len(close) : (open \o close)[Len(open) + i] = close[i]
    BY <1>2, <2>1, Concat
  <2>. QED  BY <2>1, <2>2 DEF close
<1>. HIDE DEF whole
<1>4. ASSUME NEW i \in 1..Len(whole)
      PROVE  \/ whole[i] \in {"(", ")"}
             \/ \E k \in 1..Len(s) : whole[i] = s[k]
  <2>1. Len(open) = 1 + Len(s) /\ Len(whole) = Len(s) + 2
    BY <1>1, <1>2, <1>3
  <2>2. CASE i = 1
    <3>1. i \in 1..Len(open) /\ i \in 1..Len(<<"(">>)
      BY <1>1, <2>1, <2>2
    <3>2. whole[i] = open[i]
      BY <1>3, <3>1
    <3>3. open[i] = <<"(">>[i]
      BY <1>2, <3>1
    <3>. QED  BY <1>1, <2>2, <3>2, <3>3
  <2>3. CASE 1 < i /\ i <= Len(s) + 1
    <3> DEFINE k == i - 1
    <3>1. k \in 1..Len(s) /\ Len(<<"(">>) + k = i /\ i \in 1..Len(open)
      BY <1>1, <2>1, <2>3
    <3>. HIDE DEF k
    <3>2. whole[i] = s[k]
      BY <1>2, <1>3, <3>1
    <3>. QED  BY <3>1, <3>2
  <2>4. CASE i = Len(s) + 2
    <3>1. 1 \in 1..Len(<<")">>) /\ Len(open) + 1 = i
      BY <1>1, <2>1, <2>4
    <3>2. whole[Len(open) + 1] = <<")">>[1]
      BY <1>3, <3>1
    <3>. QED  BY <1>1, <3>1, <3>2
  <2>. QED  BY <1>1, <2>1, <2>2, <2>3, <2>4
<1>5. Covers(whole, t)
  BY <1>4 DEF Covers, IsParenthesis, Parentheses
<1>. QED  BY <1>5 DEF whole, open

LEMMA DerivedIsCovered ==
    ASSUME NEW rank, NEW toks, NEW tree, Phrase(rank, toks, tree) \in Derivable
    PROVE  Covers(toks, tree)
<1> DEFINE L == {p \in Derivable : Covers(p.toks, p.tree)}
<1>1. \A r, a, b : Phrase(r, a, b) \in L <=> Phrase(r, a, b) \in Derivable /\ Covers(a, b)
  BY PhraseIs
<1>2. L \in SUBSET Derivable
  OBVIOUS
<1>. HIDE DEF L
<1>3. \A r, a, b : Phrase(r, a, b) \in L => a \in Texts
  BY <1>1, PhraseIs
<1>4. Names(L)
  BY <1>1, NamesAreCovered, Rules DEF Names
<1>5. Brackets(L)
  BY <1>1, <1>3, BracketIsCovered, Rules DEF Brackets
<1>6. Loosens(L)
  BY <1>1, Rules DEF Loosens
<1>7. Joins(L)
  <2>1. \A op, t, u : Node(op, t, u).ids = t.ids \union u.ids
    BY DEF Node
  <2>2. \A tok : Upper(tok) = "AND" \/ Upper(tok) = "OR" => IsOperatorToken(tok)
    BY DEF IsOperatorToken, Operators
  <2>3. JoinsBy(L, "AND", "and", "atom")
    BY <1>1, <1>3, <2>1, <2>2, JoinIsCovered, Rules DEF JoinsBy
  <2>4. JoinsBy(L, "OR", "or", "and")
    BY <1>1, <1>3, <2>1, <2>2, JoinIsCovered, Rules DEF JoinsBy
  <2>. QED  BY <2>3, <2>4 DEF Joins
<1>8. L = Derivable
  BY <1>2, <1>4, <1>5, <1>6, <1>7, Derivations DEF Closed
<1>. QED  BY <1>1, <1>8

\* Nothing is left out of what a text names, well formed or not.
LEMMA EveryWordIsNamed ==
    ASSUME NEW toks \in Texts, NEW i \in DOMAIN toks,
           ~IsParenthesis(toks[i]), ~IsOperatorToken(toks[i]), NEW word \in Sides(toks[i])
    PROVE  \E id \in Identifiers(toks) : \E j \in DOMAIN id : id[j] = word
<1>1. i \in 1..Len(toks)
  BY LenProperties DEF Texts
<1>2. CASE Parse(toks).ok
  <2>1. Phrase("or", toks, Parse(toks).tree) \in Derivable
    BY <1>2, ParsedIsDerivable
  <2>2. Covers(toks, Parse(toks).tree)
    BY <2>1, DerivedIsCovered
  <2>3. /\ toks[i] \in Shaped
        /\ \E id \in Parse(toks).tree.ids : \E j \in DOMAIN id : id[j] = toks[i]
    BY <1>1, <2>2 DEF Covers
  <2>4. word = toks[i]
    BY <2>3, WordAssumption DEF Sides
  <2>. QED  BY <1>2, <2>3, <2>4 DEF Identifiers, Collected
<1>3. CASE ~Parse(toks).ok
  <2>1. word \in Punctuated(toks[i])
    BY DEF Sides, Punctuated
  <2>2. <<word>> \in Identifiers(toks)
    BY <1>3, <2>1 DEF Identifiers
  <2>3. 1 \in DOMAIN <<word>> /\ <<word>>[1] = word
    OBVIOUS
  <2>. QED  BY <2>2, <2>3
<1>. QED  BY <1>2, <1>3

\* What the invariant says of reading the text.
LEMMA WriteInvReads == WriteInv => ReadingIsRight
<1> SUFFICES ASSUME WriteInv  PROVE ReadingIsRight
  OBVIOUS
<1>0. text \in Texts
  BY DEF WriteInv
<1>1. WrittenIsMeant
  <2> SUFFICES ASSUME Written
               PROVE  /\ Parse(text).ok
                      /\ Means(Parse(text).tree, Same) = meant
                      /\ Collected(Parse(text).tree) = names
    BY DEF WrittenIsMeant
  <2>1. PICK t : Expresses(t)
    BY DEF WriteInv
  <2>2. Phrase("or", text, t) \in Derivable
    BY <2>1, Rules DEF Expresses, Written
  <2>3. Parse(text).ok /\ Parse(text).tree = t
    BY <2>2, DerivableIsParsed
  <2>4. {Same(id) : id \in Leaves} = Leaves
    BY DEF Same
  <2>5. \A accepted : Satisfies(t, {id \in Collected(t) : Same(id) \in accepted}) <=> Satisfies(t, accepted)
    <3> TAKE accepted
    <3>1. {id \in t.ids : id \in accepted} \intersect t.ids = accepted \intersect t.ids
      OBVIOUS
    <3>. QED  BY <3>1 DEF Satisfies, Collected, Same
  <2>6. Means(t, Same) = Meant(t)
    BY <2>4, <2>5 DEF Means, Meant
  <2>. QED  BY <2>1, <2>3, <2>6 DEF Expresses, Collected
<1>2. ParsedIffGrammar
  <2>1. Parse(text).ok <=> IsExpression(text)
    BY <1>0, ParserIsTheGrammar
  <2>. QED  BY <2>1 DEF ParsedIffGrammar
<1>3. NothingUnnamed
  BY <1>0, EveryWordIsNamed DEF NothingUnnamed
<1>4. PrintKeepsMeaning
  <2> SUFFICES ASSUME Parse(text).ok
               PROVE  /\ Parse(String(Parse(text).tree)).ok
                      /\ Parse(String(Parse(text).tree)).tree = Parse(text).tree
    BY DEF PrintKeepsMeaning
  <2>1. Phrase("or", text, Parse(text).tree) \in Derivable
    BY <1>0, ParsedIsDerivable
  <2>2. Phrase("or", Parse(text).tree.text, Parse(text).tree) \in Derivable
    BY <2>1, PrintedIsDerivable
  <2>. QED  BY <2>2, DerivableIsParsed DEF String
<1>. QED  BY <1>1, <1>2, <1>3, <1>4 DEF ReadingIsRight

\* However an expression is put together, and whatever is typed, it is read as
\* it was meant, its identifiers are all named, the parser accepts it if and
\* only if the grammar does, and what is printed of it reads as the same tree.
THEOREM ReadingIsSafe == WriteSpec => []ReadingIsRight
<1>1. WriteInit => WriteInv
  BY WriteStarts
<1>2. WriteInv /\ [WriteNext]_writeVars => WriteInv'
  BY WriteStep
<1>3. WriteInv => ReadingIsRight
  BY WriteInvReads
<1>. QED  BY <1>1, <1>2, <1>3, PTL DEF WriteSpec

-----------------------------------------------------------------------------
(* Rewriting a text (Canonicalize).                                        *)

\* A passage, and the same passage of another text at another place.
LEMMA PieceIs ==
    ASSUME NEW s \in Texts, NEW i \in Nat, 1 <= i, NEW j \in Int, j <= Len(s)
    PROVE  /\ SubSeq(s, i, j) \in Texts
           /\ Len(SubSeq(s, i, j)) = IF i <= j THEN j - i + 1 ELSE 0
           /\ \A n \in 1..j - i + 1 : SubSeq(s, i, j)[n] = s[i + n - 1]
<1>1. i \in Int /\ \A n \in i..j : s[n] \in Tokens
  <2>1. Len(s) \in Nat /\ \A n \in 1..Len(s) : s[n] \in Tokens
    BY Concat
  <2>2. \A n \in i..j : n \in 1..Len(s)
    BY <2>1
  <2>. QED  BY <2>1, <2>2
<1>. QED  BY <1>1, SubSeqProperties DEF Texts

LEMMA SamePiece ==
    ASSUME NEW s \in Texts, NEW t \in Texts, NEW i \in Nat, 1 <= i, NEW j \in Int, NEW k \in Nat,
           NEW p \in Nat, p = i + k, NEW q \in Int, q = j + k,
           j <= Len(s), q <= Len(t), \A n \in i..j : s[n] = t[n + k]
    PROVE  SubSeq(s, i, j) = SubSeq(t, p, q)
<1> DEFINE a == SubSeq(s, i, j)
           b == SubSeq(t, p, q)
<1>1. /\ a \in Texts /\ Len(a) = IF i <= j THEN j - i + 1 ELSE 0
      /\ \A n \in 1..j - i + 1 : a[n] = s[i + n - 1]
  BY PieceIs
<1>2. 1 <= p /\ q - p + 1 = j - i + 1 /\ (p <= q <=> i <= j)
  OBVIOUS
<1>3. /\ b \in Texts /\ Len(b) = IF p <= q THEN q - p + 1 ELSE 0
      /\ \A n \in 1..q - p + 1 : b[n] = t[p + n - 1]
  <2>. HIDE DEF b
  <2>. QED  BY <1>2, PieceIs DEF b
<1>. HIDE DEF a, b
<1>4. Len(a) = Len(b)
  BY <1>1, <1>2, <1>3
<1>5. ASSUME NEW n \in 1..Len(a)  PROVE a[n] = b[n]
  <2>1. n \in 1..j - i + 1 /\ i + n - 1 \in i..j /\ (i + n - 1) + k = p + n - 1
    BY <1>1
  <2>2. n \in 1..q - p + 1
    BY <1>2, <2>1
  <2>. QED  BY <1>1, <1>3, <2>1, <2>2
<1>6. a = b
  BY <1>1, <1>3, <1>4, <1>5, SameText
<1>. QED  BY <1>6 DEF a, b

LEMMA SamePlace ==
    ASSUME NEW s \in Texts, NEW t \in Texts, NEW i \in Nat, 1 <= i, NEW j \in Int,
           j <= Len(s), j <= Len(t), \A n \in i..j : s[n] = t[n]
    PROVE  SubSeq(s, i, j) = SubSeq(t, i, j)
<1>1. 0 \in Nat /\ i = i + 0 /\ j = j + 0 /\ \A n \in i..j : n + 0 = n
  OBVIOUS
<1>2. \A n \in i..j : s[n] = t[n + 0]
  BY <1>1
<1> DEFINE k == 0
<1>3. k \in Nat /\ i = i + k /\ j = j + k /\ \A n \in i..j : s[n] = t[n + k]
  BY <1>1, <1>2
<1>. HIDE DEF k
<1>. QED  BY <1>3, SamePiece

\* A text whose token tok lies between a and b.
LEMMA Between ==
    ASSUME NEW a \in Texts, NEW b \in Texts, NEW tok \in Tokens
    PROVE  LET whole == a \o <<tok>> \o b
           IN  /\ whole \in Texts /\ Len(whole) = Len(a) + 1 + Len(b)
               /\ \A i \in 1..Len(a) : whole[i] = a[i]
               /\ whole[Len(a) + 1] = tok
               /\ \A i \in 1..Len(b) : whole[Len(a) + 1 + i] = b[i]
<1> DEFINE front == a \o <<tok>>
           whole == front \o b
<1>1. Len(a) \in Nat /\ Len(b) \in Nat /\ <<tok>> \in Texts /\ Len(<<tok>>) = 1 /\ <<tok>>[1] = tok
  BY Concat
<1>2. /\ front \in Texts /\ Len(front) = Len(a) + 1
      /\ \A i \in 1..Len(a) : front[i] = a[i]
      /\ front[Len(a) + 1] = tok
  <2>1. /\ front \in Texts /\ Len(front) = Len(a) + Len(<<tok>>)
        /\ \A i \in 1..Len(a) : front[i] = a[i]
        /\ \A i \in 1..Len(<<tok>>) : front[Len(a) + i] = <<tok>>[i]
    BY <1>1, Concat
  <2>2. 1 \in 1..Len(<<tok>>)
    BY <1>1
  <2>. HIDE DEF front
  <2>. QED  BY <1>1, <2>1, <2>2
<1>. HIDE DEF front
<1>3. /\ whole \in Texts /\ Len(whole) = Len(front) + Len(b)
      /\ \A i \in 1..Len(front) : whole[i] = front[i]
      /\ \A i \in 1..Len(b) : whole[Len(front) + i] = b[i]
  BY <1>2, Concat
<1>. HIDE DEF whole
<1>4. \A i \in 1..Len(a) + 1 : whole[i] = front[i]
  BY <1>2, <1>3
<1>5. Len(a) + 1 \in 1..Len(a) + 1 /\ \A i \in 1..Len(a) : i \in 1..Len(a) + 1
  BY <1>1
<1>6. \A i \in 1..Len(b) : whole[Len(a) + 1 + i] = b[i]
  BY <1>1, <1>2, <1>3
<1>7. /\ whole \in Texts /\ Len(whole) = Len(a) + 1 + Len(b)
      /\ \A i \in 1..Len(a) : whole[i] = a[i]
      /\ whole[Len(a) + 1] = tok
  BY <1>1, <1>2, <1>3, <1>4, <1>5
<1>8. whole = a \o <<tok>> \o b
  BY DEF whole, front
<1>. QED  BY <1>6, <1>7, <1>8

\* What is known of a text from its parts.
Made(whole, a, tok, b) ==
    /\ whole \in Texts /\ Len(whole) = Len(a) + 1 + Len(b)
    /\ \A i \in 1..Len(a) : whole[i] = a[i]
    /\ whole[Len(a) + 1] = tok
    /\ \A i \in 1..Len(b) : whole[Len(a) + 1 + i] = b[i]

LEMMA MadeOf ==
    ASSUME NEW a \in Texts, NEW b \in Texts, NEW tok \in Tokens
    PROVE  Made(a \o <<tok>> \o b, a, tok, b)
<1> DEFINE whole == a \o <<tok>> \o b
<1>1. /\ whole \in Texts /\ Len(whole) = Len(a) + 1 + Len(b)
      /\ \A i \in 1..Len(a) : whole[i] = a[i]
      /\ whole[Len(a) + 1] = tok
      /\ \A i \in 1..Len(b) : whole[Len(a) + 1 + i] = b[i]
  BY Between, ZenonT(30)
<1>. HIDE DEF whole
<1>2. Made(whole, a, tok, b)
  BY <1>1 DEF Made
<1>. QED  BY <1>2 DEF whole

-----------------------------------------------------------------------------
(* The identifier of a text.                                               *)

LEMMA ListedAre ==
    /\ Listed \subseteq Tokens
    /\ \A id \in Listed : /\ id \in Shaped /\ ~IsParenthesis(id) /\ ~IsOperatorToken(id)
                          /\ Upper(id) \notin {"AND", "OR", "WITH"}
<1>1. Listed \subseteq Shaped
  BY WordAssumption
<1>. QED  BY <1>1, TokensAre, WordAssumption

LEMMA OperatorsAre ==
    ASSUME NEW tok \in Tokens, Upper(tok) \in {"AND", "OR", "WITH"}
    PROVE  /\ ~IsParenthesis(tok) /\ IsOperatorToken(tok) /\ Upper(tok) \in Tokens
           /\ Upper(Upper(tok)) = Upper(tok) /\ ~IsParenthesis(Upper(tok))
           /\ tok \notin Shaped /\ tok \notin DOMAIN Synonym /\ tok # "(" /\ tok # ")"
           /\ Upper(tok) # "(" /\ Upper(tok) # ")"
<1>1. IsOperatorToken(tok)
  BY DEF IsOperatorToken, Operators
<1>2. tok # "(" /\ tok # ")" /\ ~IsParenthesis(tok)
  BY TokensAre DEF IsParenthesis, Parentheses
<1>3. Upper(tok) \in Tokens /\ Upper(Upper(tok)) = Upper(tok) /\ ~IsParenthesis(Upper(tok))
      /\ Upper(tok) # "(" /\ Upper(tok) # ")"
  <2>1. Upper(tok) = "AND" \/ Upper(tok) = "OR" \/ Upper(tok) = "WITH"
    OBVIOUS
  <2>2. ~IsParenthesis("AND") /\ ~IsParenthesis("OR") /\ ~IsParenthesis("WITH")
    BY DEF IsParenthesis, Parentheses
  <2>. QED  BY <2>1, <2>2, TokensAre
<1>. QED  BY <1>1, <1>2, <1>3, WordAssumption

\* A text that has an identifier has one word, and no operator.
LEMMA FromTextIs ==
    ASSUME NEW toks \in Texts
    PROVE  /\ FromText(toks) = <<>> \/ \E id \in Listed : FromText(toks) = <<id>>
           /\ FromText(toks) # <<>> =>
                 \A i, j \in 1..Len(toks) :
                     /\ ~IsParenthesis(toks[i]) /\ ~IsParenthesis(toks[j]) => i = j
                     /\ Upper(toks[i]) \notin {"AND", "OR", "WITH"}
<1>1. Len(toks) \in Nat /\ DOMAIN toks = 1..Len(toks) /\ toks \in Seq(Tokens)
  <2>1. toks \in Seq(Tokens)
    BY DEF Texts
  <2>. QED  BY <2>1, LenProperties
<1>2. CASE Len(toks) = 1 /\ toks[1] \in Listed
  <2>1. FromText(toks) = toks
    BY <1>2 DEF FromText
  <2>2. toks[1] \in Tokens
    BY <1>2, ListedAre
  <2>3. <<toks[1]>> \in Texts /\ Len(<<toks[1]>>) = 1 /\ <<toks[1]>>[1] = toks[1]
    BY <2>2, Concat
  <2>4. \A i \in 1..1 : i = 1
    OBVIOUS
  <2>5. toks = <<toks[1]>>
    BY <1>2, <2>3, <2>4, SameText
  <2>6. \A i \in 1..Len(toks) : i = 1
    BY <1>2
  <2>7. Upper(toks[1]) \notin {"AND", "OR", "WITH"}
    BY <1>2, ListedAre
  <2>. QED  BY <1>2, <2>1, <2>5, <2>6, <2>7
<1>3. CASE ~(Len(toks) = 1 /\ toks[1] \in Listed) /\ SoleWords(toks) \intersect DOMAIN Synonym = {}
  BY <1>3 DEF FromText
<1>4. CASE ~(Len(toks) = 1 /\ toks[1] \in Listed) /\ SoleWords(toks) \intersect DOMAIN Synonym # {}
  <2>1. PICK i \in DOMAIN toks : WordsAt(toks) = {i} /\ toks[i] \in DOMAIN Synonym
    BY <1>4 DEF SoleWords
  <2>2. SoleWords(toks) = {toks[i]}
    BY <2>1 DEF SoleWords
  <2>3. FromText(toks) = <<Synonym[toks[i]]>>
    <3>1. (CHOOSE word \in SoleWords(toks) : TRUE) = toks[i]
      BY <2>2
    <3>2. FromText(toks) = <<Synonym[CHOOSE word \in SoleWords(toks) : TRUE]>>
      BY <1>4 DEF FromText
    <3>. QED  BY <3>1, <3>2
  <2>4. Synonym[toks[i]] \in Listed /\ ~IsOperatorToken(toks[i])
    BY <2>1, WordAssumption
  <2>5. \A j \in 1..Len(toks) : ~IsParenthesis(toks[j]) => j = i
    BY <1>1, <2>1 DEF WordsAt
  <2>6. ASSUME NEW j \in 1..Len(toks)  PROVE Upper(toks[j]) \notin {"AND", "OR", "WITH"}
    <3>1. toks[j] \in Tokens
      BY Concat
    <3>2. ASSUME Upper(toks[j]) \in {"AND", "OR", "WITH"}  PROVE FALSE
      BY <2>4, <2>5, <3>1, <3>2, OperatorsAre
    <3>. QED  BY <3>2
  <2>. QED  BY <2>3, <2>4, <2>5, <2>6
<1>. QED  BY <1>2, <1>3, <1>4

\* An identifier stands for itself.
LEMMA ListedIsItself ==
    ASSUME NEW id \in Listed
    PROVE  /\ <<id>> \in Texts /\ <<id>> # <<>>
           /\ FromText(<<id>>) = <<id>> /\ CanonicalOperand(<<id>>) = <<id>>
<1>1. <<id>> \in Texts /\ Len(<<id>>) = 1 /\ <<id>>[1] = id
  BY ListedAre, Concat
<1>2. FromText(<<id>>) = <<id>>
  BY <1>1 DEF FromText
<1>3. <<id>> # <<>>
  OBVIOUS
<1>. QED  BY <1>1, <1>2, <1>3 DEF CanonicalOperand

\* An operand that is known becomes an identifier; another stays, and so does one
\* that was mapped before.
LEMMA OperandIs ==
    ASSUME NEW toks \in Texts
    PROVE  /\ FromText(toks) = <<>> => CanonicalOperand(toks) = toks
           /\ FromText(toks) # <<>> => CanonicalOperand(toks) = FromText(toks)
           /\ CanonicalOperand(toks) = toks \/ \E id \in Listed : CanonicalOperand(toks) = <<id>>
           /\ CanonicalOperand(toks) \in Texts
           /\ CanonicalOperand(CanonicalOperand(toks)) = CanonicalOperand(toks)
<1>1. FromText(toks) = <<>> => CanonicalOperand(toks) = toks
  BY DEF CanonicalOperand
<1>2. ASSUME FromText(toks) # <<>>  PROVE CanonicalOperand(toks) = FromText(toks)
  <2>1. ~WithClause(toks)
    <3>1. Len(toks) \in Nat
      BY Concat
    <3>2. \A i \in 2..Len(toks) - 1 : i \in 1..Len(toks)
      BY <3>1
    <3>3. \A i \in 1..Len(toks) : Upper(toks[i]) # "WITH"
      BY <1>2, FromTextIs
    <3>. QED  BY <3>2, <3>3 DEF WithClause
  <2>. QED  BY <1>2, <2>1 DEF CanonicalOperand
<1>3. CanonicalOperand(toks) = toks \/ \E id \in Listed : CanonicalOperand(toks) = <<id>>
  BY <1>1, <1>2, FromTextIs
<1>4. CanonicalOperand(toks) \in Texts
  BY <1>3, ListedIsItself
<1>5. CanonicalOperand(CanonicalOperand(toks)) = CanonicalOperand(toks)
  <2>1. CASE CanonicalOperand(toks) = toks
    BY <2>1
  <2>2. CASE \E id \in Listed : CanonicalOperand(toks) = <<id>>
    BY <2>2, ListedIsItself
  <2>. QED  BY <1>3, <2>1, <2>2
<1>. QED  BY <1>1, <1>2, <1>3, <1>4, <1>5

-----------------------------------------------------------------------------
(* The loop over the operators of a text.                                  *)

\* What is written after each token: a function that its definition describes.
Rewritings == [done : Texts, from : Nat]
Rewritten(toks) ==
    CHOOSE turn : turn = [i \in 0..Len(toks) |->
                             IF i = 0 THEN Rewriting(<<>>, 1) ELSE RewriteTurn(toks, i, turn[i - 1])]

LEMMA RewritingIs ==
    /\ \A done, from : Rewriting(done, from).done = done /\ Rewriting(done, from).from = from
    /\ \A done \in Texts, from \in Nat : Rewriting(done, from) \in Rewritings
    /\ \A r \in Rewritings : r.done \in Texts /\ r.from \in Nat
BY DEF Rewriting, Rewritings

LEMMA RewritingStarts ==
    /\ Rewriting(<<>>, 1) \in Rewritings
    /\ Rewriting(<<>>, 1).done = <<>> /\ Rewriting(<<>>, 1).from = 1
<1>1. <<>> \in Texts /\ 1 \in Nat
  BY EmptySeq DEF Texts
<1>. QED  BY <1>1 DEF Rewriting, Rewritings

\* A turn that begins another operand.
LEMMA RewriteTurnIs ==
    ASSUME NEW toks \in Texts, NEW i \in 1..Len(toks), NEW left \in Rewritings,
           1 <= left.from
    PROVE  /\ RewriteTurn(toks, i, left) \in Rewritings
           /\ ~InfixOperator(toks, i, left.from) => RewriteTurn(toks, i, left) = left
           /\ InfixOperator(toks, i, left.from) =>
                 RewriteTurn(toks, i, left)
                     = Rewriting(left.done \o CanonicalOperand(SubSeq(toks, left.from, i - 1))
                                           \o <<Upper(toks[i])>>, i + 1)
           /\ RewriteTurn(toks, i, left) = left \/ RewriteTurn(toks, i, left).from = i + 1
<1> DEFINE operand == CanonicalOperand(SubSeq(toks, left.from, i - 1))
<1>1. ASSUME InfixOperator(toks, i, left.from)
      PROVE  RewriteTurn(toks, i, left) = Rewriting(left.done \o operand \o <<Upper(toks[i])>>, i + 1)
  BY <1>1 DEF RewriteTurn
<1>2. ASSUME ~InfixOperator(toks, i, left.from)  PROVE RewriteTurn(toks, i, left) = left
  BY <1>2 DEF RewriteTurn
<1>3. ASSUME InfixOperator(toks, i, left.from)
      PROVE  Rewriting(left.done \o operand \o <<Upper(toks[i])>>, i + 1) \in Rewritings
  <2>1. Len(toks) \in Nat /\ toks[i] \in Tokens /\ Upper(toks[i]) \in {"AND", "OR"}
    BY <1>3, Concat DEF InfixOperator
  <2>2. <<Upper(toks[i])>> \in Texts
    BY <2>1, OperatorsAre, Concat
  <2>3. left.done \in Texts /\ left.from \in Nat /\ i - 1 \in Int /\ i - 1 <= Len(toks)
    BY <2>1, RewritingIs
  <2>4. SubSeq(toks, left.from, i - 1) \in Texts
    BY <2>3, PieceIs
  <2>5. operand \in Texts
    BY <2>4, OperandIs
  <2>. HIDE DEF operand
  <2>6. left.done \o operand \in Texts
    BY <2>3, <2>5, Concat
  <2>7. left.done \o operand \o <<Upper(toks[i])>> \in Texts
    BY <2>2, <2>6, Concat
  <2>. QED  BY <2>1, <2>7, RewritingIs
<1>4. RewriteTurn(toks, i, left) = left \/ RewriteTurn(toks, i, left).from = i + 1
  <2>. HIDE DEF operand
  <2>1. Rewriting(left.done \o operand \o <<Upper(toks[i])>>, i + 1).from = i + 1
    BY RewritingIs
  <2>. QED  BY <1>1, <1>2, <2>1
<1>. QED  BY <1>1, <1>2, <1>3, <1>4

LEMMA RewrittenIs ==
    ASSUME NEW toks \in Texts
    PROVE  /\ RewriteOperands(toks)
                  = Rewritten(toks)[Len(toks)].done
                        \o CanonicalOperand(SubSeq(toks, Rewritten(toks)[Len(toks)].from, Len(toks)))
           /\ Rewritten(toks)[0] = Rewriting(<<>>, 1)
           /\ \A n \in 0..Len(toks) :
                 /\ Rewritten(toks)[n] \in Rewritings
                 /\ 1 <= Rewritten(toks)[n].from /\ Rewritten(toks)[n].from <= n + 1
           /\ \A n \in 1..Len(toks) :
                 Rewritten(toks)[n] = RewriteTurn(toks, n, Rewritten(toks)[n - 1])
           /\ RewriteOperands(toks) \in Texts
<1> DEFINE N == Len(toks)
           Begun == {r \in Rewritings : 1 <= r.from}
           T(n, x) == RewriteTurn(toks, n, x)
           step == [n \in 1..N |-> [x \in Begun |-> T(n, x)]]
           first == Rewriting(<<>>, 1)
           next(f) == [n \in 0..N |-> IF n = 0 THEN Rewriting(<<>>, 1) ELSE T(n, f[n - 1])]
           R == Turns(N, first, step)
           u == Rewritten(toks)
<1>1. N \in Nat /\ first \in Begun /\ first.from = 1
  <2>1. N \in Nat
    BY Concat
  <2>2. first \in Rewritings /\ first.from = 1
    BY RewritingStarts
  <2>3. first \in Begun
    BY <2>2
  <2>. QED  BY <2>1, <2>2, <2>3
<1>2. \A n \in 1..N : \A x \in Begun : T(n, x) \in Begun
  <2> SUFFICES ASSUME NEW n \in 1..N, NEW x \in Begun  PROVE T(n, x) \in Begun
    OBVIOUS
  <2>1. T(n, x) \in Rewritings /\ (T(n, x) = x \/ T(n, x).from = n + 1)
    BY RewriteTurnIs
  <2>. QED  BY <1>1, <2>1
<1>3. step \in [1..N -> [Begun -> Begun]]
  <2>. HIDE DEF T, Begun
  <2>. QED  BY <1>2
<1>4. R \in [0..N -> Begun] /\ R[0] = first /\ \A n \in 1..N : R[n] = step[n][R[n - 1]]
  <2>. HIDE DEF step, N, first, Begun
  <2>. QED  BY <1>1, <1>3, TurnsAre
<1>. HIDE DEF R
<1>5. \A n \in 0..N : n # 0 => n \in 1..N /\ n - 1 \in 0..N
  BY <1>1
<1>6. ASSUME NEW n \in 1..N  PROVE R[n] = T(n, R[n - 1])
  <2>1. R[n - 1] \in Begun
    <3>. HIDE DEF Begun
    <3>. QED  BY <1>1, <1>4
  <2>. HIDE DEF T, Begun
  <2>. QED  BY <1>4, <2>1
<1>7. R = next(R)
  <2>. HIDE DEF T, step, N, Begun
  <2>. QED  BY <1>4, <1>5, <1>6
<1>8. u = next(u)
  <2>1. u = CHOOSE f : f = next(f)
    BY DEF Rewritten
  <2>. HIDE DEF next, u
  <2>. QED  BY <1>7, <2>1
<1>9. RewriteOperands(toks) = u[N].done \o CanonicalOperand(SubSeq(toks, u[N].from, N))
  BY DEF RewriteOperands, Rewritten
<1>. HIDE DEF u
<1>10. u[0] = first /\ \A n \in 1..N : u[n] = T(n, u[n - 1])
  <2>1. \A n \in 1..N : n \in 0..N /\ n # 0
    BY <1>1
  <2>2. next(u)[0] = first /\ \A n \in 1..N : next(u)[n] = T(n, u[n - 1])
    <3>. HIDE DEF T
    <3>. QED  BY <1>1, <2>1
  <2>. HIDE DEF next, T
  <2>. QED  BY <1>8, <2>2
<1>11. \A n \in 0..N : u[n] \in Begun /\ u[n].from <= n + 1
  <2> DEFINE typed == {n \in Nat : n <= N => u[n] \in Begun /\ u[n].from <= n + 1}
  <2>1. 0 \in typed
    <3>. HIDE DEF T, Begun
    <3>. QED  BY <1>1, <1>10
  <2>2. ASSUME NEW n \in Nat, n \in typed  PROVE n + 1 \in typed
    <3> SUFFICES ASSUME n + 1 <= N  PROVE u[n + 1] \in Begun /\ u[n + 1].from <= n + 1 + 1
      OBVIOUS
    <3>1. n + 1 \in 1..N /\ (n + 1) - 1 = n /\ n <= N
      BY <1>1
    <3>2. u[n + 1] = T(n + 1, u[n]) /\ u[n] \in Begun /\ u[n].from <= n + 1 /\ u[n].from \in Nat
      <4>. HIDE DEF T
      <4>. QED  BY <1>10, <2>2, <3>1, RewritingIs
    <3>3. T(n + 1, u[n]) = u[n] \/ T(n + 1, u[n]).from = n + 1 + 1
      BY <3>1, <3>2, RewriteTurnIs
    <3>. HIDE DEF T, Begun
    <3>. QED  BY <1>2, <3>1, <3>2, <3>3
  <2>3. Nat \subseteq typed
    <3>. HIDE DEF typed
    <3>. QED  BY <2>1, <2>2, Climb
  <2>. QED  BY <1>1, <2>3
<1>12. RewriteOperands(toks) \in Texts
  <2>1. N \in 0..N
    BY <1>1
  <2>2. u[N].done \in Texts /\ u[N].from \in Nat /\ 1 <= u[N].from
    BY <1>11, <2>1, RewritingIs
  <2>3. SubSeq(toks, u[N].from, N) \in Texts
    BY <1>1, <2>2, PieceIs
  <2>4. CanonicalOperand(SubSeq(toks, u[N].from, N)) \in Texts
    BY <2>3, OperandIs
  <2> DEFINE operand == CanonicalOperand(SubSeq(toks, u[N].from, N))
             done == u[N].done
  <2>. HIDE DEF operand, done
  <2>5. done \o operand \in Texts
    BY <2>2, <2>4, Concat DEF done, operand
  <2>. QED  BY <1>9, <2>5 DEF done, operand
<1> SUFFICES /\ RewriteOperands(toks) = u[N].done \o CanonicalOperand(SubSeq(toks, u[N].from, N))
             /\ u[0] = Rewriting(<<>>, 1)
             /\ \A n \in 0..N : u[n] \in Rewritings /\ 1 <= u[n].from /\ u[n].from <= n + 1
             /\ \A n \in 1..N : u[n] = T(n, u[n - 1])
             /\ RewriteOperands(toks) \in Texts
  BY DEF u, T
<1>. HIDE DEF T
<1>. QED  BY <1>9, <1>10, <1>11, <1>12

\* Until there is an operator, nothing is written.
LEMMA NothingWritten ==
    ASSUME NEW toks \in Texts, NEW m \in 0..Len(toks), \A i \in 1..m : ~InfixOperator(toks, i, 1)
    PROVE  Rewritten(toks)[m] = Rewriting(<<>>, 1)
<1> DEFINE same == {n \in Nat : n <= m => Rewritten(toks)[n] = Rewriting(<<>>, 1)}
<1>0. Len(toks) \in Nat /\ m \in Nat /\ m <= Len(toks)
  BY Concat
<1>1. 0 \in same
  BY RewrittenIs
<1>2. ASSUME NEW n \in Nat, n \in same  PROVE n + 1 \in same
  <2> SUFFICES ASSUME n + 1 <= m  PROVE Rewritten(toks)[n + 1] = Rewriting(<<>>, 1)
    OBVIOUS
  <2>1. n + 1 \in 1..Len(toks) /\ n + 1 \in 1..m /\ (n + 1) - 1 = n /\ n <= m
    BY <1>0
  <2>2. Rewritten(toks)[n + 1] = RewriteTurn(toks, n + 1, Rewriting(<<>>, 1))
    BY <1>2, <2>1, RewrittenIs, ZenonT(30)
  <2>3. Rewriting(<<>>, 1) \in Rewritings /\ Rewriting(<<>>, 1).from = 1
    BY RewritingStarts
  <2>4. ~InfixOperator(toks, n + 1, 1)
    BY <2>1
  <2> DEFINE left == Rewriting(<<>>, 1)
  <2>. HIDE DEF left
  <2>5. left \in Rewritings /\ 1 <= left.from /\ ~InfixOperator(toks, n + 1, left.from)
    BY <2>3, <2>4 DEF left
  <2>6. RewriteTurn(toks, n + 1, left) = left
    BY <2>1, <2>5, RewriteTurnIs
  <2>. QED  BY <2>2, <2>6 DEF left
<1>3. Nat \subseteq same
  <2>. HIDE DEF same
  <2>. QED  BY <1>1, <1>2, Climb
<1>. QED  BY <1>0, <1>3

\* A text without an operator is one operand.
LEMMA OneOperand ==
    ASSUME NEW toks \in Texts, \A i \in 1..Len(toks) : ~InfixOperator(toks, i, 1)
    PROVE  RewriteOperands(toks) = CanonicalOperand(toks)
<1>1. Len(toks) \in 0..Len(toks)
  BY Concat
<1>2. Rewritten(toks)[Len(toks)] = Rewriting(<<>>, 1)
  BY <1>1, NothingWritten
<1>3. Rewriting(<<>>, 1).done = <<>> /\ Rewriting(<<>>, 1).from = 1
  BY RewritingStarts
<1>4. RewriteOperands(toks) = <<>> \o CanonicalOperand(SubSeq(toks, 1, Len(toks)))
  BY <1>2, <1>3, RewrittenIs
<1>5. SubSeq(toks, 1, Len(toks)) = toks
  BY SubSeqFull DEF Texts
<1>6. CanonicalOperand(toks) \in Seq(Tokens)
  BY OperandIs DEF Texts
<1>7. \A s \in Seq(Tokens) : <<>> \o s = s
  BY ConcatEmptySeq
<1>. QED  BY <1>4, <1>5, <1>6, <1>7

-----------------------------------------------------------------------------
(* A text is rewritten around any of its operators.                        *)

\* The same tokens at another place are the same operators, and the same operands
\* between them.
LEMMA SameInfix ==
    ASSUME NEW s \in Texts, NEW t \in Texts, NEW i \in 1..Len(s), NEW k \in Nat,
           Len(s) + k <= Len(t), NEW from \in Nat, 1 <= from, i < Len(s) <=> i + k < Len(t),
           \A m \in 1..Len(s) : s[m] = t[m + k]
    PROVE  /\ InfixOperator(s, i, from) <=> InfixOperator(t, i + k, from + k)
           /\ CanonicalOperand(SubSeq(s, from, i - 1))
                  = CanonicalOperand(SubSeq(t, from + k, (i + k) - 1))
           /\ Upper(s[i]) = Upper(t[i + k])
<1>1. Len(s) \in Nat /\ Len(t) \in Nat
  BY Concat
<1>2. s[i] = t[i + k]
  OBVIOUS
<1>3. InfixOperator(s, i, from) <=> InfixOperator(t, i + k, from + k)
  <2>1. from < i <=> from + k < i + k
    OBVIOUS
  <2>2. CASE ~(from < i /\ i < Len(s))
    BY <2>1, <2>2 DEF InfixOperator
  <2>3. CASE from < i /\ i < Len(s)
    <3>1. i - 1 \in 1..Len(s) /\ i + 1 \in 1..Len(s)
          /\ (i - 1) + k = (i + k) - 1 /\ (i + 1) + k = (i + k) + 1
      BY <1>1, <2>3
    <3>2. s[i - 1] = t[(i + k) - 1] /\ s[i + 1] = t[(i + k) + 1]
      BY <3>1
    <3>. QED  BY <1>2, <2>1, <2>3, <3>2 DEF InfixOperator
  <2>. QED  BY <2>2, <2>3
<1>4. SubSeq(s, from, i - 1) = SubSeq(t, from + k, (i - 1) + k)
  <2>1. i - 1 \in Int /\ i - 1 <= Len(s) /\ (i - 1) + k <= Len(t)
    BY <1>1
  <2>2. \A m \in from..i - 1 : s[m] = t[m + k]
    <3>1. \A m \in from..i - 1 : m \in 1..Len(s)
      BY <1>1
    <3>. QED  BY <3>1
  <2>3. from + k \in Nat /\ (i - 1) + k \in Int
    OBVIOUS
  <2>. QED  BY <2>1, <2>2, <2>3, SamePiece
<1>5. (i - 1) + k = (i + k) - 1
  OBVIOUS
<1>. QED  BY <1>2, <1>3, <1>4, <1>5

\* A token that is an operator between two texts.
Joint(a, tok, b) ==
    /\ a # <<>> /\ b # <<>> /\ Upper(tok) \in {"AND", "OR"}
    /\ a[Len(a)] # "(" /\ b[1] # ")"

LEMMA JointIs ==
    ASSUME NEW a \in Texts, NEW b \in Texts, NEW tok \in Tokens, Joint(a, tok, b)
    PROVE  LET whole == a \o <<tok>> \o b
           IN  /\ Len(a) \in Nat /\ Len(b) \in Nat /\ 1 <= Len(a) /\ 1 <= Len(b)
               /\ \A from \in Nat : from <= Len(a) => InfixOperator(whole, Len(a) + 1, from)
<1> DEFINE whole == a \o <<tok>> \o b
<1>1. Len(a) \in Nat /\ Len(b) \in Nat /\ 1 <= Len(a) /\ 1 <= Len(b)
  <2>1. \A s \in Texts : s # <<>> => Len(s) \in Nat /\ 1 <= Len(s)
    BY EmptySeq DEF Texts
  <2>. QED  BY <2>1 DEF Joint
<1>2. /\ Len(whole) = Len(a) + 1 + Len(b) /\ whole[Len(a) + 1] = tok
      /\ \A i \in 1..Len(a) : whole[i] = a[i]
      /\ \A i \in 1..Len(b) : whole[Len(a) + 1 + i] = b[i]
  <2>1. Made(whole, a, tok, b)
    BY MadeOf
  <2>. HIDE DEF whole
  <2>. QED  BY <2>1 DEF Made
<1>. HIDE DEF whole
<1>3. Len(a) \in 1..Len(a) /\ 1 \in 1..Len(b) /\ (Len(a) + 1) - 1 = Len(a)
  BY <1>1
<1>4. whole[(Len(a) + 1) - 1] # "(" /\ whole[(Len(a) + 1) + 1] # ")"
  BY <1>2, <1>3 DEF Joint
<1>5. ASSUME NEW from \in Nat, from <= Len(a)  PROVE InfixOperator(whole, Len(a) + 1, from)
  <2>1. from < Len(a) + 1 /\ Len(a) + 1 < Len(whole)
    BY <1>1, <1>2, <1>5
  <2>2. Upper(tok) \in {"AND", "OR"}
    BY DEF Joint
  <2>. QED  BY <1>2, <1>4, <2>1, <2>2 DEF InfixOperator
<1>. QED  BY <1>1, <1>5 DEF whole

\* As far as the first of them goes, a joined text is rewritten as it is.
LEMMA RewrittenBefore ==
    ASSUME NEW a \in Texts, NEW b \in Texts, NEW tok \in Tokens, Joint(a, tok, b),
           ~InfixOperator(a \o <<tok>> \o b, Len(a), Rewritten(a)[Len(a) - 1].from)
    PROVE  Rewritten(a \o <<tok>> \o b)[Len(a) + 1]
               = Rewriting(RewriteOperands(a) \o <<Upper(tok)>>, Len(a) + 2)
<1> DEFINE N == Len(a)
           whole == a \o <<tok>> \o b
           A == Rewritten(a)
           W == Rewritten(whole)
<1>1. N \in Nat /\ Len(b) \in Nat /\ 1 <= N /\ 1 <= Len(b)
  BY JointIs
<1>2. /\ whole \in Texts /\ Len(whole) = N + 1 + Len(b) /\ whole[N + 1] = tok
      /\ \A i \in 1..N : whole[i] = a[i]
  <2>1. Made(whole, a, tok, b)
    BY MadeOf
  <2>. HIDE DEF whole
  <2>. QED  BY <2>1 DEF Made
<1>3. \A from \in Nat : from <= N => InfixOperator(whole, N + 1, from)
  BY JointIs
<1>4. ~InfixOperator(whole, N, A[N - 1].from)
  OBVIOUS
<1>. HIDE DEF whole
<1>5. /\ RewriteOperands(a) = A[N].done \o CanonicalOperand(SubSeq(a, A[N].from, N))
      /\ A[0] = Rewriting(<<>>, 1)
      /\ \A n \in 0..N : A[n] \in Rewritings /\ 1 <= A[n].from /\ A[n].from <= n + 1
      /\ \A n \in 1..N : A[n] = RewriteTurn(a, n, A[n - 1])
  BY RewrittenIs
<1>6. /\ W[0] = Rewriting(<<>>, 1)
      /\ \A n \in 1..Len(whole) : W[n] = RewriteTurn(whole, n, W[n - 1])
  BY <1>2, RewrittenIs
<1>. HIDE DEF A, W
<1> DEFINE same == {n \in Nat : n <= N - 1 => W[n] = A[n]}
<1>7. 0 \in same
  BY <1>5, <1>6
<1>8. ASSUME NEW n \in Nat, n \in same  PROVE n + 1 \in same
  <2> SUFFICES ASSUME n + 1 <= N - 1  PROVE W[n + 1] = A[n + 1]
    OBVIOUS
  <2> DEFINE left == A[n]
             i == n + 1
  <2>1. n + 1 \in 1..N /\ (n + 1) - 1 = n /\ n \in 0..N /\ n <= N - 1 /\ n + 1 \in 1..Len(whole)
        /\ n + 1 < N /\ n + 1 < Len(whole)
    BY <1>1, <1>2
  <2>2. W[n] = left
    BY <1>8, <2>1
  <2>3. left \in Rewritings /\ 1 <= left.from /\ left.from \in Nat
    BY <1>5, <2>1, RewritingIs
  <2>4. A[n + 1] = RewriteTurn(a, i, left) /\ W[n + 1] = RewriteTurn(whole, i, left)
    BY <1>5, <1>6, <2>1, <2>2
  <2>5. N + 0 <= Len(whole) /\ (i < N <=> i + 0 < Len(whole)) /\ (\A m \in 1..N : a[m] = whole[m + 0])
        /\ 0 \in Nat /\ i + 0 = i /\ left.from + 0 = left.from /\ i \in 1..N
    BY <1>1, <1>2, <2>1, <2>3
  <2>. HIDE DEF left, i
  <2>6. /\ InfixOperator(a, i, left.from) <=> InfixOperator(whole, i + 0, left.from + 0)
        /\ CanonicalOperand(SubSeq(a, left.from, i - 1))
               = CanonicalOperand(SubSeq(whole, left.from + 0, (i + 0) - 1))
        /\ Upper(a[i]) = Upper(whole[i + 0])
    BY <1>2, <2>3, <2>5, SameInfix DEF N
  <2>. HIDE DEF N
  <2>7. RewriteTurn(a, i, left) = RewriteTurn(whole, i, left)
    BY <2>5, <2>6 DEF RewriteTurn
  <2>. QED  BY <2>4, <2>7
<1>9. Nat \subseteq same
  <2>. HIDE DEF same
  <2>. QED  BY <1>7, <1>8, Climb
<1>10. N - 1 \in Nat /\ N - 1 <= N - 1 /\ N \in 1..N /\ N - 1 \in 0..N /\ N \in 0..N
       /\ N \in 1..Len(whole) /\ N + 1 \in 1..Len(whole) /\ (N + 1) - 1 = N
  BY <1>1, <1>2
<1>11. W[N - 1] = A[N - 1]
  BY <1>9, <1>10
<1>. HIDE DEF same
<1>12. A[N] = A[N - 1] /\ W[N] = A[N - 1]
  <2>1. A[N - 1] \in Rewritings /\ 1 <= A[N - 1].from
    BY <1>5, <1>10
  <2>2. ~InfixOperator(a, N, A[N - 1].from)
    BY <1>1 DEF InfixOperator
  <2>3. RewriteTurn(a, N, A[N - 1]) = A[N - 1]
    BY <2>2 DEF RewriteTurn
  <2>4. RewriteTurn(whole, N, A[N - 1]) = A[N - 1]
    BY <1>4 DEF RewriteTurn
  <2>. QED  BY <1>5, <1>6, <1>10, <1>11, <2>3, <2>4
<1> DEFINE left == A[N]
<1>13. left \in Rewritings /\ 1 <= left.from /\ left.from \in Nat /\ left.from <= N
  <2>1. A[N - 1].from <= (N - 1) + 1
    BY <1>5, <1>10
  <2>2. A[N - 1] \in Rewritings /\ 1 <= A[N - 1].from /\ A[N - 1].from \in Nat
    BY <1>5, <1>10, RewritingIs
  <2>3. (N - 1) + 1 = N
    BY <1>1
  <2>. QED  BY <1>12, <2>1, <2>2, <2>3
<1>14. W[N + 1] = RewriteTurn(whole, N + 1, left)
  BY <1>6, <1>10, <1>12
<1>15. InfixOperator(whole, N + 1, left.from)
  BY <1>3, <1>13
<1>16. SubSeq(whole, left.from, (N + 1) - 1) = SubSeq(a, left.from, N)
  <2> DEFINE from == left.from
  <2>1. N \in Int /\ N <= Len(a) /\ N <= Len(whole)
    BY <1>1, <1>2, <1>13
  <2>2. \A m \in from..N : a[m] = whole[m]
    <3>1. \A m \in from..N : m \in 1..N
      BY <1>1, <1>13
    <3>. QED  BY <1>2, <3>1
  <2>3. SubSeq(a, from, N) = SubSeq(whole, from, N)
    <3>1. a \in Texts /\ whole \in Texts /\ from \in Nat /\ 1 <= from
      BY <1>2, <1>13
    <3>. HIDE DEF N, left, from
    <3>. QED  BY <2>1, <2>2, <3>1, SamePlace
  <2>. QED  BY <1>10, <2>3
<1>17. (N + 1) + 1 = N + 2
  BY <1>1
<1>18. RewriteTurn(whole, N + 1, left)
           = Rewriting(left.done \o CanonicalOperand(SubSeq(whole, left.from, (N + 1) - 1))
                                 \o <<Upper(whole[N + 1])>>, (N + 1) + 1)
  <2>. HIDE DEF left, N
  <2>. QED  BY <1>15 DEF RewriteTurn
<1>19. W[N + 1] = Rewriting(RewriteOperands(a) \o <<Upper(tok)>>, N + 2)
  <2>. HIDE DEF N
  <2>. QED  BY <1>2, <1>5, <1>14, <1>16, <1>17, <1>18
<1>. QED  BY <1>19 DEF W, whole

\* Each of the two is rewritten, and the operator written in capitals.
LEMMA RewriteSplits ==
    ASSUME NEW a \in Texts, NEW b \in Texts, NEW tok \in Tokens, Joint(a, tok, b),
           ~InfixOperator(a \o <<tok>> \o b, Len(a), Rewritten(a)[Len(a) - 1].from)
    PROVE  RewriteOperands(a \o <<tok>> \o b)
               = RewriteOperands(a) \o <<Upper(tok)>> \o RewriteOperands(b)
<1> DEFINE k == Len(a) + 1
           whole == a \o <<tok>> \o b
           B == Rewritten(b)
           W == Rewritten(whole)
           pre == RewriteOperands(a) \o <<Upper(tok)>>
<1>1. Len(a) \in Nat /\ Len(b) \in Nat /\ 1 <= Len(a) /\ 1 <= Len(b)
  BY JointIs
<1>2. /\ whole \in Texts /\ Len(whole) = k + Len(b)
      /\ \A i \in 1..Len(b) : b[i] = whole[k + i]
  <2>1. Made(whole, a, tok, b)
    BY MadeOf
  <2>. HIDE DEF whole
  <2>. QED  BY <2>1 DEF Made
<1>3. W[k] = Rewriting(pre, k + 1)
  <2>1. W[Len(a) + 1] = Rewriting(RewriteOperands(a) \o <<Upper(tok)>>, Len(a) + 2)
    BY RewrittenBefore
  <2>2. Len(a) + 2 = k + 1
    BY <1>1
  <2>. QED  BY <2>1, <2>2
<1>. HIDE DEF whole
<1>4. /\ RewriteOperands(b) = B[Len(b)].done \o CanonicalOperand(SubSeq(b, B[Len(b)].from, Len(b)))
      /\ B[0] = Rewriting(<<>>, 1)
      /\ \A n \in 0..Len(b) : B[n] \in Rewritings /\ 1 <= B[n].from /\ B[n].from <= n + 1
      /\ \A n \in 1..Len(b) : B[n] = RewriteTurn(b, n, B[n - 1])
  BY RewrittenIs
<1>5. /\ \A n \in 1..Len(whole) : W[n] = RewriteTurn(whole, n, W[n - 1])
      /\ RewriteOperands(whole)
             = W[Len(whole)].done \o CanonicalOperand(SubSeq(whole, W[Len(whole)].from, Len(whole)))
  BY <1>2, RewrittenIs
<1>6. pre \in Texts
  <2>1. <<Upper(tok)>> \in Texts
    <3>1. Upper(tok) \in {"AND", "OR"}
      BY DEF Joint
    <3>. QED  BY <3>1, OperatorsAre, Concat
  <2>2. RewriteOperands(a) \in Texts
    BY RewrittenIs
  <2>. QED  BY <2>1, <2>2, Concat
<1>7. k \in Nat /\ 1 <= k
  BY <1>1
<1>. HIDE DEF B, W, pre, k
<1> DEFINE same == {n \in Nat : n <= Len(b) =>
                       W[k + n] = Rewriting(pre \o B[n].done, B[n].from + k)}
<1>8. 0 \in same
  <2>1. B[0].done = <<>> /\ B[0].from = 1
    BY <1>4, RewritingStarts
  <2>2. pre \o <<>> = pre
    BY <1>6, ConcatEmptySeq DEF Texts
  <2>3. k + 0 = k /\ 1 + k = k + 1
    BY <1>7
  <2>4. W[k + 0] = Rewriting(pre \o B[0].done, B[0].from + k)
    BY <1>3, <2>1, <2>2, <2>3
  <2>. QED  BY <2>4
<1>9. ASSUME NEW n \in Nat, n \in same  PROVE n + 1 \in same
  <2> SUFFICES ASSUME n + 1 <= Len(b)
               PROVE  W[k + (n + 1)] = Rewriting(pre \o B[n + 1].done, B[n + 1].from + k)
    OBVIOUS
  <2> DEFINE i == n + 1
             left == B[n]
             shifted == Rewriting(pre \o left.done, left.from + k)
             op == <<Upper(b[i])>>
             operand == CanonicalOperand(SubSeq(b, left.from, i - 1))
  <2>1. n + 1 \in 1..Len(b) /\ (n + 1) - 1 = n /\ n \in 0..Len(b) /\ n <= Len(b)
        /\ k + (n + 1) = i + k /\ i + k \in 1..Len(whole) /\ (i + k) - 1 = k + n
    BY <1>1, <1>2, <1>7
  <2>2. W[k + n] = shifted
    BY <1>9, <2>1
  <2>3. left \in Rewritings /\ 1 <= left.from /\ left.from \in Nat /\ left.done \in Texts
    BY <1>4, <2>1, RewritingIs
  <2>4. B[i] = RewriteTurn(b, i, left) /\ W[i + k] = RewriteTurn(whole, i + k, shifted)
    <3>1. B[n + 1] = RewriteTurn(b, n + 1, B[n])
      BY <1>4, <2>1
    <3>2. W[i + k] = RewriteTurn(whole, i + k, W[(i + k) - 1])
      BY <1>5, <2>1
    <3>. QED  BY <2>1, <2>2, <3>1, <3>2
  <2>5. Len(b) + k <= Len(whole) /\ (i < Len(b) <=> i + k < Len(whole)) /\ i \in 1..Len(b)
        /\ (\A m \in 1..Len(b) : b[m] = whole[m + k])
    <3>1. \A m \in 1..Len(b) : k + m = m + k
      BY <1>7
    <3>. QED  BY <1>1, <1>2, <1>7, <2>1, <3>1
  <2>. HIDE DEF i, left
  <2>6. /\ InfixOperator(b, i, left.from) <=> InfixOperator(whole, i + k, left.from + k)
        /\ operand = CanonicalOperand(SubSeq(whole, left.from + k, (i + k) - 1))
        /\ op = <<Upper(whole[i + k])>>
    <3>1. /\ InfixOperator(b, i, left.from) <=> InfixOperator(whole, i + k, left.from + k)
          /\ CanonicalOperand(SubSeq(b, left.from, i - 1))
                 = CanonicalOperand(SubSeq(whole, left.from + k, (i + k) - 1))
          /\ Upper(b[i]) = Upper(whole[i + k])
      <4>1. whole \in Texts
        BY <1>2
      <4>. QED  BY <1>7, <2>3, <2>5, <4>1, SameInfix
    <3>. QED  BY <3>1
  <2>7. shifted.done = pre \o left.done /\ shifted.from = left.from + k
    BY RewritingIs
  <2>8. operand \in Texts
    <3>1. i - 1 \in Int /\ i - 1 <= Len(b)
      BY <1>1, <2>5
    <3>2. SubSeq(b, left.from, i - 1) \in Texts
      BY <2>3, <3>1, PieceIs
    <3>. QED  BY <3>2, OperandIs
  <2>. HIDE DEF shifted, operand
  <2>9. CASE ~InfixOperator(b, i, left.from)
    <3>1. RewriteTurn(b, i, left) = left
      BY <2>9 DEF RewriteTurn
    <3>2. RewriteTurn(whole, i + k, shifted) = shifted
      BY <2>6, <2>7, <2>9 DEF RewriteTurn
    <3>. QED  BY <2>1, <2>4, <3>1, <3>2 DEF shifted, i, left
  <2>10. CASE InfixOperator(b, i, left.from)
    <3>1. RewriteTurn(b, i, left) = Rewriting(left.done \o operand \o op, i + 1)
      BY <2>10 DEF RewriteTurn, operand
    <3>2. RewriteTurn(whole, i + k, shifted) = Rewriting((pre \o left.done) \o operand \o op, (i + k) + 1)
      BY <2>6, <2>7, <2>10 DEF RewriteTurn
    <3>3. op \in Texts
      <4>1. Upper(b[i]) \in {"AND", "OR"}
        BY <2>10 DEF InfixOperator
      <4>2. b[i] \in Tokens
        BY <2>5, Concat
      <4>. QED  BY <4>1, <4>2, OperatorsAre, Concat
    <3>. HIDE DEF op
    <3> DEFINE d == left.done
    <3>. HIDE DEF d
    <3>4. pre \o (d \o operand \o op) = (pre \o d) \o operand \o op
      <4>1. d \in Texts
        BY <2>3 DEF d
      <4>. HIDE DEF operand, pre
      <4>2. pre \in Texts /\ operand \in Texts
        BY <1>6, <2>8
      <4>3. Cat(pre, Cat(Cat(d, operand), op)) = Cat(Cat(Cat(pre, d), operand), op)
        BY <3>3, <4>1, <4>2, Regroup
      <4>. QED  BY <4>3 DEF Cat
    <3>5. (i + k) + 1 = (i + 1) + k
      BY <1>7, <2>5
    <3>6. B[i].done = d \o operand \o op /\ B[i].from = i + 1
      <4> DEFINE whose == left.done \o operand \o op
      <4>1. B[i] = Rewriting(whose, i + 1)
        BY <2>4, <3>1
      <4>2. B[i].done = whose /\ B[i].from = i + 1
        <5>. HIDE DEF whose
        <5>. QED  BY <4>1 DEF Rewriting
      <4>. QED  BY <4>2 DEF d
    <3>7. W[i + k] = Rewriting(pre \o B[i].done, B[i].from + k)
      <4>1. W[i + k] = Rewriting((pre \o d) \o operand \o op, (i + k) + 1)
        BY <2>4, <3>2 DEF d
      <4>. QED  BY <3>4, <3>5, <3>6, <4>1
    <3>. QED  BY <2>1, <3>7 DEF i
  <2>. QED  BY <2>9, <2>10
<1>10. Nat \subseteq same
  <2>. HIDE DEF same
  <2>. QED  BY <1>8, <1>9, Climb
<1> DEFINE N == Len(b)
           all == B[N]
           operand == CanonicalOperand(SubSeq(b, all.from, N))
<1>11. N \in 0..N /\ k + N = Len(whole) /\ N + k = k + N
  BY <1>1, <1>2, <1>7
<1>12. W[k + N] = Rewriting(pre \o all.done, all.from + k)
  BY <1>10, <1>11
<1>13. all \in Rewritings /\ 1 <= all.from /\ all.from \in Nat /\ all.done \in Texts
  BY <1>4, <1>11, RewritingIs
<1>. HIDE DEF all, same
<1>14. SubSeq(b, all.from, N) = SubSeq(whole, all.from + k, N + k)
  <2>1. N \in Int /\ N <= Len(b) /\ N + k <= Len(whole)
    BY <1>1, <1>2, <1>11
  <2>2. \A m \in all.from..N : b[m] = whole[m + k]
    <3>1. \A m \in all.from..N : m \in 1..Len(b) /\ m + k = k + m
      BY <1>1, <1>7, <1>13
    <3>. QED  BY <1>2, <3>1
  <2>3. /\ b \in Texts /\ whole \in Texts /\ k \in Nat /\ all.from \in Nat /\ 1 <= all.from
        /\ all.from + k \in Nat /\ N + k \in Int
    BY <1>1, <1>2, <1>7, <1>13
  <2> DEFINE i == all.from
             p == i + k
             q == N + k
  <2>4. /\ b \in Texts /\ whole \in Texts /\ i \in Nat /\ 1 <= i /\ N \in Int /\ k \in Nat
        /\ p \in Nat /\ p = i + k /\ q \in Int /\ q = N + k
        /\ N <= Len(b) /\ q <= Len(whole) /\ \A m \in i..N : b[m] = whole[m + k]
    BY <2>1, <2>2, <2>3
  <2>. HIDE DEF N, i, p, q
  <2>5. SubSeq(b, i, N) = SubSeq(whole, p, q)
    BY <2>4, SamePiece
  <2>. QED  BY <2>5 DEF i, p, q
<1>15. operand \in Texts
  <2>1. SubSeq(b, all.from, N) \in Texts
    BY <1>1, <1>13, PieceIs
  <2>. QED  BY <2>1, OperandIs
<1>16. W[Len(whole)].done = pre \o all.done /\ W[Len(whole)].from = all.from + k
  <2> DEFINE done == pre \o all.done
             from == all.from + k
  <2>1. W[Len(whole)] = Rewriting(done, from)
    BY <1>11, <1>12
  <2>. HIDE DEF done, from
  <2>2. W[Len(whole)].done = done /\ W[Len(whole)].from = from
    BY <2>1 DEF Rewriting
  <2>. QED  BY <2>2 DEF done, from
<1>17. RewriteOperands(whole) = (pre \o all.done) \o operand
  BY <1>5, <1>11, <1>14, <1>16
<1>18. RewriteOperands(b) = all.done \o operand
  BY <1>4 DEF all
<1>. HIDE DEF operand
<1>19. (pre \o all.done) \o operand = pre \o (all.done \o operand)
  <2> DEFINE done == all.done
  <2>1. pre \in Texts /\ done \in Texts /\ operand \in Texts
    BY <1>6, <1>13, <1>15
  <2>. HIDE DEF done
  <2>2. Cat(Cat(pre, done), operand) = Cat(pre, Cat(done, operand))
    BY <2>1, Regroup
  <2>. QED  BY <2>2 DEF done, Cat
<1>. QED  BY <1>17, <1>18, <1>19 DEF pre, whole

-----------------------------------------------------------------------------
(* What was rewritten is not rewritten again.                              *)

HasInfix(toks) == \E i \in 1..Len(toks) : InfixOperator(toks, i, 1)

LEMMA NotEmpty ==
    \A s \in Texts : /\ s # <<>> <=> Len(s) # 0
                     /\ Len(s) \in Nat
                     /\ s # <<>> => 1 <= Len(s) /\ 1 \in 1..Len(s) /\ Len(s) \in 1..Len(s)
                                    /\ s[1] \in Tokens /\ s[Len(s)] \in Tokens
<1> SUFFICES ASSUME NEW s \in Texts
             PROVE  /\ s # <<>> <=> Len(s) # 0
                    /\ Len(s) \in Nat
                    /\ s # <<>> => 1 <= Len(s) /\ 1 \in 1..Len(s) /\ Len(s) \in 1..Len(s)
                                   /\ s[1] \in Tokens /\ s[Len(s)] \in Tokens
  OBVIOUS
<1>1. Len(s) \in Nat /\ \A i \in 1..Len(s) : s[i] \in Tokens
  BY Concat
<1>2. s # <<>> <=> Len(s) # 0
  BY EmptySeq DEF Texts
<1>3. Len(s) # 0 => 1 <= Len(s) /\ 1 \in 1..Len(s) /\ Len(s) \in 1..Len(s)
  BY <1>1
<1>. QED  BY <1>1, <1>2, <1>3

\* One token holds no operator between others.
LEMMA OneTokenHasNone ==
    ASSUME NEW tok \in Tokens  PROVE ~HasInfix(<<tok>>)
<1>1. Len(<<tok>>) = 1
  BY Concat
<1>. QED  BY <1>1 DEF HasInfix, InfixOperator

\* A text is one operand, or one operand, an operator and a shorter text.
LEMMA FirstOperator ==
    ASSUME NEW toks \in Texts, HasInfix(toks)
    PROVE  \E a, b \in Texts, tok \in Tokens :
              /\ toks = a \o <<tok>> \o b /\ Joint(a, tok, b) /\ Len(b) < Len(toks)
              /\ ~HasInfix(a) /\ ~InfixOperator(toks, Len(a), 1)
              /\ RewriteOperands(toks) = CanonicalOperand(a) \o <<Upper(tok)>> \o RewriteOperands(b)
<1> DEFINE at == {i \in Nat : i \in 1..Len(toks) /\ InfixOperator(toks, i, 1)}
<1>1. PICK m \in at : \A n \in at : m <= n
  <2>1. at # {} /\ at \subseteq Nat
    BY DEF HasInfix
  <2>. HIDE DEF at
  <2>. QED  BY <2>1, Least
<1> DEFINE a == SubSeq(toks, 1, m - 1)
           b == SubSeq(toks, m + 1, Len(toks))
           tok == toks[m]
<1>2. Len(toks) \in Nat /\ m \in 1..Len(toks) /\ InfixOperator(toks, m, 1)
  BY <1>1, Concat
<1>3. /\ 1 < m /\ m < Len(toks) /\ Upper(tok) \in {"AND", "OR"}
      /\ toks[m - 1] # "(" /\ toks[m + 1] # ")"
  BY <1>2 DEF InfixOperator
<1>4. \A n \in 1..m - 1 : ~InfixOperator(toks, n, 1)
  <2>1. \A n \in 1..m - 1 : n \in Nat /\ n \in 1..Len(toks) /\ ~(m <= n)
    BY <1>2
  <2>. QED  BY <1>1, <2>1
<1>5. /\ a \in Texts /\ b \in Texts /\ tok \in Tokens
      /\ toks = a \o <<tok>> \o b /\ Len(a) = m - 1 /\ Len(b) = Len(toks) - m
  <2>1. m - 1 \in Int /\ m - 1 <= Len(toks) /\ m + 1 \in Nat /\ 1 <= m + 1 /\ Len(toks) \in Int
        /\ 1 <= m - 1 /\ (m - 1) - 1 + 1 = m - 1 /\ m + 1 <= Len(toks)
        /\ Len(toks) - (m + 1) + 1 = Len(toks) - m
    BY <1>2, <1>3
  <2>2. a \in Texts /\ Len(a) = m - 1
    BY <2>1, PieceIs
  <2> DEFINE from == m + 1
  <2>3. from \in Nat /\ 1 <= from /\ from <= Len(toks) /\ Len(toks) - from + 1 = Len(toks) - m
        /\ Len(toks) <= Len(toks)
    BY <2>1
  <2>. HIDE DEF from
  <2>4. SubSeq(toks, from, Len(toks)) \in Texts /\ Len(SubSeq(toks, from, Len(toks))) = Len(toks) - m
    BY <2>1, <2>3, PieceIs
  <2>5. tok \in Tokens /\ toks = a \o <<tok>> \o b
    BY <1>2, Around, Concat
  <2>. QED  BY <2>2, <2>4, <2>5 DEF from
<1>. HIDE DEF a, b, at
<1>6. /\ \A i \in 1..Len(a) : toks[i] = a[i]
      /\ \A i \in 1..Len(b) : toks[Len(a) + 1 + i] = b[i]
  <2>. HIDE DEF tok
  <2>1. Made(toks, a, tok, b)
    BY <1>5, MadeOf
  <2>. QED  BY <2>1 DEF Made
<1>7. Joint(a, tok, b) /\ Len(b) < Len(toks) /\ Len(a) \in Nat /\ 1 <= Len(a)
  <2>1. m - 1 \in 1..Len(a) /\ 1 \in 1..Len(b) /\ Len(a) + 1 + 1 = m + 1
    BY <1>2, <1>3, <1>5
  <2>2. a[Len(a)] # "(" /\ b[1] # ")"
    BY <1>3, <1>5, <1>6, <2>1
  <2>3. a # <<>> /\ b # <<>>
    <3>1. Len(a) # 0 /\ Len(b) # 0
      BY <1>2, <1>3, <1>5
    <3>. QED  BY <1>5, <3>1, NotEmpty
  <2>4. Len(b) < Len(toks) /\ Len(a) \in Nat /\ 1 <= Len(a)
    BY <1>2, <1>3, <1>5
  <2>. QED  BY <1>3, <2>2, <2>3, <2>4 DEF Joint
<1>8. \A i \in 1..Len(a) : ~InfixOperator(a, i, 1) /\ ~InfixOperator(toks, i, 1)
  <2> SUFFICES ASSUME NEW i \in 1..Len(a)  PROVE ~InfixOperator(a, i, 1) /\ ~InfixOperator(toks, i, 1)
    OBVIOUS
  <2>1. ~InfixOperator(toks, i, 1)
    BY <1>4, <1>5
  <2>2. ASSUME InfixOperator(a, i, 1)  PROVE FALSE
    <3>1. i < Len(a) /\ 1 < i /\ Upper(a[i]) \in {"AND", "OR"} /\ a[i - 1] # "(" /\ a[i + 1] # ")"
      BY <2>2 DEF InfixOperator
    <3>2. i - 1 \in 1..Len(a) /\ i + 1 \in 1..Len(a) /\ i < Len(toks)
      BY <1>2, <1>5, <1>7, <3>1
    <3>3. toks[i] = a[i] /\ toks[i - 1] = a[i - 1] /\ toks[i + 1] = a[i + 1]
      BY <1>6, <3>2
    <3>. QED  BY <2>1, <3>1, <3>2, <3>3 DEF InfixOperator
  <2>. QED  BY <2>1, <2>2
<1>9. RewriteOperands(toks) = CanonicalOperand(a) \o <<Upper(tok)>> \o RewriteOperands(b)
  <2>1. Len(a) - 1 \in 0..Len(a) /\ \A i \in 1..Len(a) - 1 : i \in 1..Len(a)
    BY <1>7
  <2>2. Rewritten(a)[Len(a) - 1].from = 1
    <3>1. \A i \in 1..Len(a) - 1 : ~InfixOperator(a, i, 1)
      BY <1>8, <2>1
    <3>2. Rewritten(a)[Len(a) - 1] = Rewriting(<<>>, 1)
      BY <1>5, <2>1, <3>1, NothingWritten
    <3>. QED  BY <3>2, RewritingStarts
  <2>3. Len(a) \in 1..Len(a)
    BY <1>7
  <2>. HIDE DEF tok
  <2>4. ~InfixOperator(a \o <<tok>> \o b, Len(a), Rewritten(a)[Len(a) - 1].from)
    BY <1>5, <1>8, <2>2, <2>3
  <2>5. RewriteOperands(a \o <<tok>> \o b)
            = RewriteOperands(a) \o <<Upper(tok)>> \o RewriteOperands(b)
    BY <1>5, <1>7, <2>4, RewriteSplits
  <2>6. RewriteOperands(a) = CanonicalOperand(a)
    BY <1>5, <1>8, OneOperand
  <2>. QED  BY <1>5, <2>5, <2>6
<1>10. ~HasInfix(a) /\ ~InfixOperator(toks, Len(a), 1)
  BY <1>7, <1>8 DEF HasInfix
<1>. HIDE DEF tok
<1>. QED  BY <1>5, <1>7, <1>9, <1>10

\* What is written begins as a text does that nothing closes, has operators if it
\* had, and is written again as it is.
Settled(toks) ==
    LET written == RewriteOperands(toks)
    IN  /\ toks # <<>> => /\ written # <<>>
                          /\ toks[1] # ")" => written[1] # ")"
        /\ RewriteOperands(written) = written
        /\ HasInfix(toks) => HasInfix(written)

\* An operand stays one.
LEMMA OperandSettles ==
    ASSUME NEW toks \in Texts, ~HasInfix(toks)
    PROVE  /\ RewriteOperands(toks) = CanonicalOperand(toks)
           /\ CanonicalOperand(toks) \in Texts /\ ~HasInfix(CanonicalOperand(toks))
           /\ RewriteOperands(CanonicalOperand(toks)) = CanonicalOperand(toks)
           /\ toks # <<>> => /\ CanonicalOperand(toks) # <<>>
                             /\ toks[1] # ")" => CanonicalOperand(toks)[1] # ")"
                             /\ toks[Len(toks)] # "("
                                   => CanonicalOperand(toks)[Len(CanonicalOperand(toks))] # "("
           /\ CanonicalOperand(toks) = toks \/ Len(CanonicalOperand(toks)) = 1
<1> DEFINE c == CanonicalOperand(toks)
<1>1. RewriteOperands(toks) = c
  BY OneOperand DEF HasInfix
<1>2. c \in Texts /\ CanonicalOperand(c) = c
  BY OperandIs
<1>3. c = toks \/ \E id \in Listed : c = <<id>>
  BY OperandIs
<1>. HIDE DEF c
<1>4. ASSUME NEW id \in Listed, c = <<id>>
      PROVE  ~HasInfix(c) /\ c # <<>> /\ Len(c) = 1 /\ c[1] # ")" /\ c[Len(c)] # "("
  <2>1. id \in Tokens /\ id # ")" /\ id # "("
    BY ListedAre DEF IsParenthesis, Parentheses
  <2>2. Len(<<id>>) = 1 /\ <<id>>[1] = id
    BY <2>1, Concat
  <2>. QED  BY <1>4, <2>1, <2>2, OneTokenHasNone
<1>5. ~HasInfix(c)
  BY <1>3, <1>4
<1>6. RewriteOperands(c) = c
  BY <1>2, <1>5, OneOperand DEF HasInfix
<1>. QED  BY <1>1, <1>2, <1>3, <1>4, <1>5, <1>6 DEF c

LEMMA RewritingSettles ==
    ASSUME NEW toks \in Texts  PROVE Settled(toks)
<1> DEFINE good == {n \in Nat : \A s \in Texts : Len(s) <= n => Settled(s)}
<1>1. ASSUME NEW s \in Texts, ~HasInfix(s)  PROVE Settled(s)
  BY <1>1, OperandSettles DEF Settled
<1>2. 0 \in good
  <2> SUFFICES ASSUME NEW s \in Texts, Len(s) <= 0  PROVE Settled(s)
    OBVIOUS
  <2>1. ~HasInfix(s)
    BY Concat DEF HasInfix, InfixOperator
  <2>. QED  BY <1>1, <2>1
<1>3. ASSUME NEW n \in Nat, n \in good  PROVE n + 1 \in good
  <2> SUFFICES ASSUME NEW s \in Texts, Len(s) <= n + 1, HasInfix(s)  PROVE Settled(s)
    BY <1>1
  <2>1. PICK a \in Texts, b \in Texts, tok \in Tokens :
              /\ s = a \o <<tok>> \o b /\ Joint(a, tok, b) /\ Len(b) < Len(s)
              /\ ~HasInfix(a) /\ ~InfixOperator(s, Len(a), 1)
              /\ RewriteOperands(s) = CanonicalOperand(a) \o <<Upper(tok)>> \o RewriteOperands(b)
    BY FirstOperator
  <2> DEFINE c == CanonicalOperand(a)
             op == Upper(tok)
             d == RewriteOperands(b)
             w == c \o <<op>> \o d
  <2>2. /\ Settled(b) /\ b # <<>> /\ b[1] # ")" /\ a # <<>> /\ a[Len(a)] # "("
        /\ op \in {"AND", "OR"}
    <3>1. Len(s) \in Nat /\ Len(b) \in Nat
      BY Concat
    <3>2. Len(b) <= n
      BY <2>1, <3>1
    <3>. QED  BY <1>3, <2>1, <3>2 DEF Joint
  <2>3. /\ c \in Texts /\ ~HasInfix(c) /\ RewriteOperands(c) = c /\ c # <<>> /\ c[Len(c)] # "("
        /\ (a[1] # ")" => c[1] # ")") /\ (c = a \/ Len(c) = 1)
    BY <2>1, <2>2, OperandSettles
  <2>4. d \in Texts /\ d # <<>> /\ d[1] # ")" /\ RewriteOperands(d) = d
    BY <2>2, RewrittenIs DEF Settled
  <2>5. op \in Tokens /\ Upper(op) = op /\ op # ")" /\ tok # ")"
    <3>1. Upper(tok) \in {"AND", "OR", "WITH"}
      BY <2>2
    <3>. QED  BY <3>1, OperatorsAre
  <2>. HIDE DEF c, op, d
  <2>6. Joint(c, op, d)
    <3>1. Upper(op) \in {"AND", "OR"}
      BY <2>2, <2>5
    <3>. QED  BY <2>3, <2>4, <3>1 DEF Joint
  <2>7. /\ w \in Texts /\ Len(w) = Len(c) + 1 + Len(d) /\ w[Len(c) + 1] = op
        /\ \A i \in 1..Len(c) : w[i] = c[i]
    <3>1. Made(w, c, op, d)
      BY <2>3, <2>4, <2>5, MadeOf
    <3>. HIDE DEF w
    <3>. QED  BY <3>1 DEF Made
  <2>8. /\ s \in Texts /\ Len(s) = Len(a) + 1 + Len(b) /\ s[Len(a) + 1] = tok
        /\ \A i \in 1..Len(a) : s[i] = a[i]
    <3>1. Made(s, a, tok, b)
      BY <2>1, MadeOf
    <3>. QED  BY <3>1 DEF Made
  <2>9. Len(c) \in Nat /\ Len(d) \in Nat /\ 1 <= Len(c) /\ 1 <= Len(d) /\ 1 \in 1..Len(c)
        /\ Len(a) \in Nat /\ Len(b) \in Nat /\ 1 <= Len(a) /\ 1 <= Len(b) /\ 1 \in 1..Len(a)
    BY <2>2, <2>3, <2>4, NotEmpty
  <2>10. InfixOperator(w, Len(c) + 1, 1)
    BY <2>3, <2>4, <2>5, <2>6, <2>9, JointIs
  <2>11. ~InfixOperator(w, Len(c), 1)
    <3>1. CASE Len(c) = 1
      BY <3>1 DEF InfixOperator
    <3>2. CASE c = a /\ Len(c) > 1
      <4> SUFFICES ASSUME InfixOperator(w, Len(a), 1)  PROVE FALSE
        BY <3>2
      <4>1. Upper(w[Len(a)]) \in {"AND", "OR"} /\ w[Len(a) - 1] # "("
        BY DEF InfixOperator
      <4>2. Len(a) \in 1..Len(a) /\ Len(a) - 1 \in 1..Len(a) /\ Len(a) < Len(s)
        BY <2>8, <2>9, <3>2
      <4>3. w[Len(a)] = s[Len(a)] /\ w[Len(a) - 1] = s[Len(a) - 1]
        BY <2>7, <2>8, <3>2, <4>2
      <4>4. InfixOperator(s, Len(a), 1)
        <5>. HIDE DEF w
        <5>. QED  BY <2>5, <2>8, <3>2, <4>1, <4>2, <4>3 DEF InfixOperator
      <4>. QED  BY <2>1, <4>4
    <3>. QED  BY <2>3, <2>9, <3>1, <3>2
  <2>12. RewriteOperands(w) = w
    <3>1. Len(c) - 1 \in 0..Len(c) /\ \A i \in 1..Len(c) - 1 : i \in 1..Len(c)
      BY <2>9
    <3>2. \A i \in 1..Len(c) - 1 : ~InfixOperator(c, i, 1)
      BY <2>3, <3>1 DEF HasInfix
    <3>3. Rewritten(c)[Len(c) - 1] = Rewriting(<<>>, 1)
      BY <2>3, <3>1, <3>2, NothingWritten
    <3>4. Rewritten(c)[Len(c) - 1].from = 1
      BY <3>3, RewritingStarts
    <3>5. RewriteOperands(w) = RewriteOperands(c) \o <<Upper(op)>> \o RewriteOperands(d)
      BY <2>3, <2>4, <2>5, <2>6, <2>11, <3>4, RewriteSplits, ZenonT(30)
    <3>. QED  BY <2>3, <2>4, <2>5, <3>5
  <2>13. HasInfix(w)
    <3>1. Len(c) + 1 \in 1..Len(w)
      BY <2>7, <2>9
    <3>. HIDE DEF w
    <3>. QED  BY <2>10, <3>1 DEF HasInfix
  <2>14. w # <<>> /\ (s[1] # ")" => w[1] # ")")
    <3>1. Len(w) # 0
      BY <2>7, <2>9
    <3>2. w # <<>>
      <4>. HIDE DEF w
      <4>. QED  BY <2>7, <3>1, NotEmpty
    <3>3. w[1] = c[1] /\ s[1] = a[1]
      BY <2>7, <2>8, <2>9
    <3>. QED  BY <2>3, <3>2, <3>3
  <2>15. RewriteOperands(s) = w
    BY <2>1 DEF c, op, d
  <2>. HIDE DEF w
  <2>. QED  BY <2>12, <2>13, <2>14, <2>15 DEF Settled
<1>4. Nat \subseteq good
  <2>. HIDE DEF good
  <2>. QED  BY <1>2, <1>3, Climb
<1>5. Len(toks) \in Nat /\ Len(toks) <= Len(toks)
  BY Concat
<1>. QED  BY <1>4, <1>5

-----------------------------------------------------------------------------
(* A choice written with slashes.                                          *)

\* What holds at first and of each turn of a loop that it held before holds of all.
LEMMA LoopKeeps ==
    ASSUME NEW N \in Nat, NEW X, NEW f, f[0] \in X,
           \A n \in 1..N : f[n - 1] \in X => f[n] \in X
    PROVE  \A n \in 0..N : f[n] \in X
<1> DEFINE typed == {n \in Nat : n <= N => f[n] \in X}
<1>1. 0 \in typed
  OBVIOUS
<1>2. ASSUME NEW n \in Nat, n \in typed  PROVE n + 1 \in typed
  <2> SUFFICES ASSUME n + 1 <= N  PROVE f[n + 1] \in X
    OBVIOUS
  <2>1. n + 1 \in 1..N /\ (n + 1) - 1 = n /\ n <= N
    OBVIOUS
  <2>2. f[(n + 1) - 1] \in X
    BY <1>2, <2>1
  <2>. QED  BY <2>1, <2>2
<1>3. Nat \subseteq typed
  <2>. HIDE DEF typed
  <2>. QED  BY <1>1, <1>2, Climb
<1>. QED  BY <1>3

\* Every word with its slashes apart.
Apart(toks) ==
    CHOOSE apart : apart =
        [i \in 0..Len(toks) |->
            IF i = 0 THEN <<>>
            ELSE apart[i - 1] \o IF toks[i] \in DOMAIN Slashed THEN Slashed[toks[i]] ELSE <<toks[i]>>]

LEMMA ApartIs ==
    ASSUME NEW toks \in Texts  PROVE WithSlashes(toks) \in Texts
<1> DEFINE N == Len(toks)
           piece(n) == IF toks[n] \in DOMAIN Slashed THEN Slashed[toks[n]] ELSE <<toks[n]>>
           T(n, x) == x \o piece(n)
           step == [n \in 1..N |-> [x \in Texts |-> T(n, x)]]
           next(f) == [n \in 0..N |-> IF n = 0 THEN <<>> ELSE T(n, f[n - 1])]
           R == Turns(N, <<>>, step)
           u == Apart(toks)
<1>1. N \in Nat /\ <<>> \in Texts
  BY Concat, EmptySeq DEF Texts
<1>2. \A n \in 1..N : piece(n) \in Texts
  <2> SUFFICES ASSUME NEW n \in 1..N  PROVE piece(n) \in Texts
    OBVIOUS
  <2>1. toks[n] \in Tokens
    BY Concat
  <2>2. <<toks[n]>> \in Texts
    BY <2>1, Concat
  <2>3. toks[n] \in DOMAIN Slashed => Slashed[toks[n]] \in Seq(STRING)
    BY WordAssumption
  <2>4. STRING \subseteq Tokens
    BY DEF Tokens
  <2>5. Seq(STRING) \subseteq Texts
    BY <2>4, SeqMonotonic DEF Texts
  <2>. QED  BY <2>2, <2>3, <2>5
<1>3. \A n \in 1..N : \A x \in Texts : T(n, x) \in Texts
  <2>. HIDE DEF piece, N
  <2>. QED  BY <1>2, Concat
<1>4. R \in [0..N -> Texts] /\ R[0] = <<>> /\ \A n \in 1..N : R[n] = step[n][R[n - 1]]
  <2>1. step \in [1..N -> [Texts -> Texts]]
    <3>. HIDE DEF T
    <3>. QED  BY <1>3
  <2>. HIDE DEF step, N
  <2>. QED  BY <1>1, <2>1, TurnsAre
<1>. HIDE DEF R, piece
<1>5. \A n \in 0..N : n # 0 => n \in 1..N /\ n - 1 \in 0..N
  BY <1>1
<1>6. ASSUME NEW n \in 1..N  PROVE R[n] = T(n, R[n - 1])
  <2>1. R[n - 1] \in Texts
    BY <1>1, <1>4
  <2>. HIDE DEF T
  <2>. QED  BY <1>4, <2>1
<1>7. R = next(R)
  <2>. HIDE DEF T, step, N
  <2>. QED  BY <1>4, <1>5, <1>6
<1>8. u = next(u)
  <2>1. u = CHOOSE f : f = next(f)
    BY DEF Apart, piece
  <2>. HIDE DEF next, u
  <2>. QED  BY <1>7, <2>1
<1>9. WithSlashes(toks) = u[N]
  BY DEF WithSlashes, Apart
<1>. HIDE DEF u
<1>10. u[0] = <<>> /\ \A n \in 1..N : u[n] = T(n, u[n - 1])
  <2>1. \A n \in 1..N : n \in 0..N /\ n # 0
    BY <1>1
  <2>2. next(u)[0] = <<>> /\ \A n \in 1..N : next(u)[n] = T(n, u[n - 1])
    <3>. HIDE DEF T
    <3>. QED  BY <1>1, <2>1
  <2>. HIDE DEF next, T
  <2>. QED  BY <1>8, <2>2
<1>11. \A n \in 0..N : u[n] \in Texts
  <2>. HIDE DEF T, N
  <2>. QED  BY <1>1, <1>3, <1>10, LoopKeeps
<1>. QED  BY <1>1, <1>9, <1>11

\* The parts that are known, with the choices between them.
Chosen(done) ==
    /\ 2 <= Len(done) /\ done[1] # "(" /\ done[2] = "OR"
    /\ \A i \in 1..Len(done) : done[i] # ")"
Slashings ==
    {r \in [done : Texts, from : Nat, known : BOOLEAN] :
        1 <= r.from /\ (r.known => r.done = <<>> \/ Chosen(r.done))}

\* An identifier, and what is chosen next.
LEMMA ChosenGrows ==
    ASSUME NEW done \in Texts, done = <<>> \/ Chosen(done), NEW id \in Listed
    PROVE  /\ <<id>> \in Texts /\ <<"OR">> \in Texts
           /\ Chosen(done \o <<id>> \o <<"OR">>)
           /\ done \o <<id>> = <<id>> \/ HasInfix(done \o <<id>>)
<1>1. id \in Tokens /\ id # "(" /\ id # ")" /\ "OR" \in Tokens /\ Upper("OR") = "OR"
  BY ListedAre, TokensAre DEF IsParenthesis, Parentheses
<1>2. /\ <<id>> \in Texts /\ Len(<<id>>) = 1 /\ <<id>>[1] = id
      /\ <<"OR">> \in Texts /\ Len(<<"OR">>) = 1 /\ <<"OR">>[1] = "OR"
  BY <1>1, Concat
<1> DEFINE one == <<id>>
           or == <<"OR">>
           longer == done \o one
           next == longer \o or
<1>. HIDE DEF one, or
<1>3. /\ longer \in Texts /\ Len(longer) = Len(done) + 1 /\ Len(done) \in Nat
      /\ \A i \in 1..Len(done) : longer[i] = done[i]
      /\ longer[Len(done) + 1] = id
  <2>1. /\ longer \in Texts /\ Len(longer) = Len(done) + Len(one) /\ Len(done) \in Nat
        /\ \A i \in 1..Len(done) : longer[i] = done[i]
        /\ \A i \in 1..Len(one) : longer[Len(done) + i] = one[i]
    BY <1>2, Concat DEF one
  <2>2. 1 \in 1..Len(one) /\ one[1] = id /\ Len(one) = 1
    BY <1>2 DEF one
  <2>. HIDE DEF longer
  <2>. QED  BY <2>1, <2>2
<1>. HIDE DEF longer
<1>4. /\ next \in Texts /\ Len(next) = Len(done) + 2
      /\ \A i \in 1..Len(longer) : next[i] = longer[i]
      /\ next[Len(done) + 2] = "OR"
  <2>1. /\ next \in Texts /\ Len(next) = Len(longer) + Len(or)
        /\ \A i \in 1..Len(longer) : next[i] = longer[i]
        /\ \A i \in 1..Len(or) : next[Len(longer) + i] = or[i]
    BY <1>2, <1>3, Concat, ZenonT(30) DEF or
  <2>2. 1 \in 1..Len(or) /\ or[1] = "OR" /\ Len(or) = 1
    BY <1>2 DEF or
  <2>3. Len(longer) + 1 = Len(done) + 2
    BY <1>3
  <2>. HIDE DEF next
  <2>. QED  BY <1>3, <2>1, <2>2, <2>3
<1>. HIDE DEF next
<1>5. \A i \in 1..Len(longer) : longer[i] # ")"
  <2>1. \A i \in 1..Len(done) : done[i] # ")"
    <3>1. done = <<>> => Len(done) = 0
      BY NotEmpty
    <3>. QED  BY <3>1 DEF Chosen
  <2>2. \A i \in 1..Len(longer) : i \in 1..Len(done) \/ i = Len(done) + 1
    BY <1>3
  <2>. QED  BY <1>1, <1>3, <2>1, <2>2
<1>6. Chosen(next)
  <2>1. \A i \in 1..Len(next) : next[i] # ")"
    <3>1. \A i \in 1..Len(next) : i \in 1..Len(longer) \/ i = Len(done) + 2
      BY <1>3, <1>4
    <3>. QED  BY <1>4, <1>5, <3>1
  <2>2. 2 <= Len(next) /\ next[1] # "(" /\ next[2] = "OR"
    <3>1. CASE done = <<>>
      <4>1. Len(done) = 0
        BY <3>1, NotEmpty
      <4>2. 1 \in 1..Len(longer) /\ Len(done) + 1 = 1 /\ Len(done) + 2 = 2
        BY <1>3, <4>1
      <4>. QED  BY <1>1, <1>3, <1>4, <4>1, <4>2
    <3>2. CASE Chosen(done)
      <4>1. 2 <= Len(done) /\ done[1] # "(" /\ done[2] = "OR"
        BY <3>2 DEF Chosen
      <4>2. 1 \in 1..Len(done) /\ 2 \in 1..Len(done) /\ 1 \in 1..Len(longer) /\ 2 \in 1..Len(longer)
        BY <1>3, <4>1
      <4>. QED  BY <1>3, <1>4, <4>1, <4>2
    <3>. QED  BY <3>1, <3>2
  <2>. QED  BY <2>1, <2>2 DEF Chosen
<1>7. longer = <<id>> \/ HasInfix(longer)
  <2>1. CASE done = <<>>
    <3>1. <<>> \o one = one
      BY <1>2, ConcatEmptySeq DEF Texts, one
    <3>. QED  BY <2>1, <3>1 DEF longer, one
  <2>2. CASE Chosen(done)
    <3>1. 2 <= Len(done) /\ done[1] # "(" /\ done[2] = "OR"
      BY <2>2 DEF Chosen
    <3>2. 1 \in 1..Len(done) /\ 2 \in 1..Len(done) /\ 2 \in 1..Len(longer) /\ 3 \in 1..Len(longer)
          /\ 2 < Len(longer) /\ 2 - 1 = 1 /\ 2 + 1 = 3
      BY <1>3, <3>1
    <3>3. longer[1] # "(" /\ longer[2] = "OR" /\ longer[3] # ")"
      BY <1>3, <1>5, <3>1, <3>2
    <3>4. InfixOperator(longer, 2, 1)
      BY <1>1, <3>2, <3>3 DEF InfixOperator
    <3>. QED  BY <3>2, <3>4 DEF HasInfix
  <2>. QED  BY <2>1, <2>2
<1>. QED  BY <1>2, <1>6, <1>7 DEF next, longer, or, one

\* What is written after each token: a function that its definition describes.
Slashing(apart) ==
    CHOOSE turn : turn = [i \in 0..Len(apart) |->
            IF i = 0 THEN [done |-> <<>>, from |-> 1, known |-> TRUE]
            ELSE SlashTurn(apart, i, turn[i - 1])]

LEMMA SlashTurnIs ==
    ASSUME NEW apart \in Texts, NEW i \in 1..Len(apart), NEW left \in Slashings
    PROVE  SlashTurn(apart, i, left) \in Slashings
<1> DEFINE part == FromText(SubSeq(apart, left.from, i - 1))
           done == left.done \o part \o <<"OR">>
           known == left.known /\ PartKnown(apart, left.from, i - 1)
<1>1. /\ left.done \in Texts /\ left.from \in Nat /\ 1 <= left.from /\ left.known \in BOOLEAN
      /\ left.known => left.done = <<>> \/ Chosen(left.done)
  BY DEF Slashings
<1>2. Len(apart) \in Nat /\ i - 1 \in Int /\ i - 1 <= Len(apart) /\ i + 1 \in Nat /\ 1 <= i + 1
  BY Concat
<1>3. SubSeq(apart, left.from, i - 1) \in Texts
  BY <1>1, <1>2, PieceIs
<1>4. part = <<>> \/ \E id \in Listed : part = <<id>>
  BY <1>3, FromTextIs
<1>5. PartKnown(apart, left.from, i - 1) <=> part # <<>>
  BY DEF PartKnown
<1>. HIDE DEF part
<1>6. done \in Texts
  <2>1. part \in Texts
    <3>1. <<>> \in Texts
      BY EmptySeq DEF Texts
    <3>. QED  BY <1>4, <3>1, ListedIsItself
  <2>2. <<"OR">> \in Texts
    BY TokensAre, Concat
  <2>3. left.done \o part \in Texts
    BY <1>1, <2>1, Concat
  <2>. QED  BY <2>2, <2>3, Concat
<1>7. known => Chosen(done)
  <2> SUFFICES ASSUME known  PROVE Chosen(done)
    OBVIOUS
  <2>1. PICK id \in Listed : part = <<id>>
    BY <1>4, <1>5
  <2> DEFINE d == left.done
  <2>2. d \in Texts /\ (d = <<>> \/ Chosen(d))
    BY <1>1
  <2>. HIDE DEF d
  <2>3. Chosen(d \o <<id>> \o <<"OR">>)
    BY <2>2, ChosenGrows
  <2>. QED  BY <2>1, <2>3 DEF d
<1>8. known \in BOOLEAN
  OBVIOUS
<1>9. apart[i] # "/" => SlashTurn(apart, i, left) = left
  BY DEF SlashTurn
<1>10. apart[i] = "/" => SlashTurn(apart, i, left) = [done |-> done, from |-> i + 1, known |-> known]
  BY DEF SlashTurn, part
<1>. HIDE DEF done, known
<1>11. [done |-> done, from |-> i + 1, known |-> known] \in Slashings
  BY <1>2, <1>6, <1>7, <1>8 DEF Slashings
<1>. QED  BY <1>9, <1>10, <1>11

LEMMA SlashingIs ==
    ASSUME NEW apart \in Texts
    PROVE  \A n \in 0..Len(apart) : Slashing(apart)[n] \in Slashings
<1> DEFINE N == Len(apart)
           T(n, x) == SlashTurn(apart, n, x)
           first == [done |-> <<>>, from |-> 1, known |-> TRUE]
           step == [n \in 1..N |-> [x \in Slashings |-> T(n, x)]]
           next(f) == [n \in 0..N |-> IF n = 0 THEN [done |-> <<>>, from |-> 1, known |-> TRUE]
                                      ELSE T(n, f[n - 1])]
           R == Turns(N, first, step)
           u == Slashing(apart)
<1>1. N \in Nat /\ first \in Slashings
  <2>1. <<>> \in Texts
    BY EmptySeq DEF Texts
  <2>. QED  BY <2>1, Concat DEF Slashings
<1>2. \A n \in 1..N : \A x \in Slashings : T(n, x) \in Slashings
  BY SlashTurnIs
<1>3. R \in [0..N -> Slashings] /\ R[0] = first /\ \A n \in 1..N : R[n] = step[n][R[n - 1]]
  <2>1. step \in [1..N -> [Slashings -> Slashings]]
    <3>. HIDE DEF T
    <3>. QED  BY <1>2
  <2>. HIDE DEF step, N, first
  <2>. QED  BY <1>1, <2>1, TurnsAre
<1>. HIDE DEF R
<1>4. \A n \in 0..N : n # 0 => n \in 1..N /\ n - 1 \in 0..N
  BY <1>1
<1>5. ASSUME NEW n \in 1..N  PROVE R[n] = T(n, R[n - 1])
  <2>1. R[n - 1] \in Slashings
    BY <1>1, <1>3
  <2>. HIDE DEF T
  <2>. QED  BY <1>3, <2>1
<1>6. R = next(R)
  <2>. HIDE DEF T, step, N
  <2>. QED  BY <1>3, <1>4, <1>5
<1>7. u = next(u)
  <2>1. u = CHOOSE f : f = next(f)
    BY DEF Slashing
  <2>. HIDE DEF next, u
  <2>. QED  BY <1>6, <2>1
<1>. HIDE DEF u
<1>8. u[0] = first /\ \A n \in 1..N : u[n] = T(n, u[n - 1])
  <2>1. \A n \in 1..N : n \in 0..N /\ n # 0
    BY <1>1
  <2>2. next(u)[0] = first /\ \A n \in 1..N : next(u)[n] = T(n, u[n - 1])
    <3>. HIDE DEF T
    <3>. QED  BY <1>1, <2>1
  <2>. HIDE DEF next, T
  <2>. QED  BY <1>7, <2>2
<1>9. \A n \in 0..N : u[n] \in Slashings
  <2>. HIDE DEF T, N, first
  <2>. QED  BY <1>1, <1>2, <1>8, LoopKeeps
<1>. QED  BY <1>9 DEF u

\* A text of which every part is known becomes an identifier or a choice; a text
\* without a slash, or with an operator, stays as it is.
LEMMA SlashChoiceIs ==
    ASSUME NEW toks \in Texts
    PROVE  LET chosen == SlashChoice(toks)
           IN  /\ chosen \in Texts
               /\ chosen = toks \/ (\E id \in Listed : chosen = <<id>>) \/ HasInfix(chosen)
               /\ HasInfix(toks) \/ ~HasSlash(toks) => chosen = toks
<1> DEFINE apart == WithSlashes(toks)
           all == Slashing(apart)[Len(apart)]
           last == FromText(SubSeq(apart, all.from, Len(apart)))
           fires == /\ HasSlash(toks) /\ ~\E i \in DOMAIN toks : InfixOperator(toks, i, 1)
                    /\ all.known /\ PartKnown(apart, all.from, Len(apart))
<1>1. SlashChoice(toks) = IF fires THEN all.done \o last ELSE toks
  BY DEF SlashChoice, Slashing
<1>2. apart \in Texts
  BY ApartIs
<1>. HIDE DEF apart
<1>3. Len(apart) \in Nat /\ Len(apart) \in 0..Len(apart) /\ Len(apart) \in Int /\ Len(apart) <= Len(apart)
  BY <1>2, Concat
<1>4. all \in Slashings
  BY <1>2, <1>3, SlashingIs
<1>5. /\ all.done \in Texts /\ all.from \in Nat /\ 1 <= all.from
      /\ all.known => all.done = <<>> \/ Chosen(all.done)
  <2>. HIDE DEF all
  <2>. QED  BY <1>4 DEF Slashings
<1>. HIDE DEF all
<1>6. SubSeq(apart, all.from, Len(apart)) \in Texts
  BY <1>2, <1>3, <1>5, PieceIs
<1>7. last = <<>> \/ \E id \in Listed : last = <<id>>
  BY <1>6, FromTextIs
<1>8. fires => all.known /\ last # <<>>
  BY DEF PartKnown
<1>9. HasInfix(toks) \/ ~HasSlash(toks) => ~fires
  <2>1. DOMAIN toks = 1..Len(toks)
    BY LenProperties DEF Texts
  <2>. QED  BY <2>1 DEF HasInfix
<1>. HIDE DEF fires, last
<1>10. ASSUME fires
       PROVE  /\ all.done \o last \in Texts
              /\ (\E id \in Listed : all.done \o last = <<id>>) \/ HasInfix(all.done \o last)
  <2>1. PICK id \in Listed : last = <<id>>
    BY <1>7, <1>8, <1>10
  <2> DEFINE d == all.done
  <2>2. d \in Texts /\ (d = <<>> \/ Chosen(d))
    BY <1>5, <1>8, <1>10
  <2>. HIDE DEF d
  <2>3. <<id>> \in Texts /\ (d \o <<id>> = <<id>> \/ HasInfix(d \o <<id>>))
    BY <2>2, ChosenGrows
  <2>4. d \o <<id>> \in Texts
    BY <2>2, <2>3, Concat
  <2>. QED  BY <2>1, <2>3, <2>4 DEF d
<1>. QED  BY <1>1, <1>9, <1>10

\* A text with an operator has no identifier.
LEMMA InfixIsNoIdentifier ==
    ASSUME NEW toks \in Texts, HasInfix(toks)  PROVE FromText(toks) = <<>>
<1>1. PICK i \in 1..Len(toks) : InfixOperator(toks, i, 1)
  BY DEF HasInfix
<1>2. Upper(toks[i]) \in {"AND", "OR"}
  BY <1>1 DEF InfixOperator
<1>. QED  BY <1>2, FromTextIs

\* What Canonicalize returns is canonical.
LEMMA CanonicalizeIsStable ==
    ASSUME NEW toks \in Texts
    PROVE  /\ Canonicalize(toks) \in Texts
           /\ Canonicalize(Canonicalize(toks)) = Canonicalize(toks)
<1>1. ASSUME NEW id \in Listed, Canonicalize(toks) = <<id>>
      PROVE  Canonicalize(toks) \in Texts /\ Canonicalize(Canonicalize(toks)) = Canonicalize(toks)
  BY <1>1, ListedIsItself DEF Canonicalize
<1>2. CASE FromText(toks) # <<>>
  <2>1. Canonicalize(toks) = FromText(toks)
    BY <1>2 DEF Canonicalize
  <2>. QED  BY <1>1, <1>2, <2>1, FromTextIs
<1>3. CASE FromText(toks) = <<>> /\ GroupedOperator(toks)
  <2>1. Canonicalize(toks) = toks
    BY <1>3 DEF Canonicalize
  <2>. QED  BY <2>1
<1>4. CASE FromText(toks) = <<>> /\ ~GroupedOperator(toks)
  <2> DEFINE u == SlashChoice(toks)
             w == RewriteOperands(u)
  <2>1. Canonicalize(toks) = w
    BY <1>4 DEF Canonicalize
  <2>2. u \in Texts /\ (u = toks \/ (\E id \in Listed : u = <<id>>) \/ HasInfix(u))
    BY SlashChoiceIs
  <2>. HIDE DEF u
  <2>3. w \in Texts /\ Settled(u)
    BY <2>2, RewrittenIs, RewritingSettles
  <2>4. CASE HasInfix(u)
    <3>1. RewriteOperands(w) = w /\ HasInfix(w)
      BY <2>3, <2>4 DEF Settled
    <3>. HIDE DEF w
    <3>2. FromText(w) = <<>>
      BY <2>3, <3>1, InfixIsNoIdentifier
    <3>3. SlashChoice(w) = w
      BY <2>3, <3>1, SlashChoiceIs
    <3>4. Canonicalize(w) = w
      BY <3>1, <3>2, <3>3 DEF Canonicalize
    <3>. QED  BY <2>1, <2>3, <3>4
  <2>5. CASE u = toks /\ ~HasInfix(u)
    <3>1. w = CanonicalOperand(toks)
      BY <2>2, <2>5, OperandSettles
    <3>2. w = toks
      BY <1>4, <3>1, OperandIs
    <3>. QED  BY <2>1, <3>2
  <2>6. ASSUME NEW id \in Listed, u = <<id>>
        PROVE  Canonicalize(toks) \in Texts /\ Canonicalize(Canonicalize(toks)) = Canonicalize(toks)
    <3>1. id \in Tokens /\ <<id>> \in Texts /\ CanonicalOperand(<<id>>) = <<id>>
      BY ListedAre, ListedIsItself
    <3>2. ~HasInfix(<<id>>)
      BY <3>1, OneTokenHasNone
    <3>3. w = <<id>>
      BY <2>6, <3>1, <3>2, OperandSettles
    <3>. QED  BY <1>1, <2>1, <3>3
  <2>. QED  BY <2>2, <2>4, <2>5, <2>6
<1>. QED  BY <1>2, <1>3, <1>4

-----------------------------------------------------------------------------
(* A sentence keeps its meaning.                                           *)

\* A passage of a text.
Lies(s, t, k) ==
    /\ k \in Nat /\ Len(s) + k <= Len(t)
    /\ \A m \in 1..Len(s) : s[m] = t[m + k]

\* The parts of a joined text lie in it, and so does what is in brackets.
LEMMA PartsLie ==
    ASSUME NEW a \in Texts, NEW b \in Texts, NEW tok \in Tokens
    PROVE  /\ Lies(a, a \o <<tok>> \o b, 0) /\ Lies(b, a \o <<tok>> \o b, Len(a) + 1)
           /\ Lies(a, <<"(">> \o a \o <<")">>, 1)
           /\ Made(<<"(">> \o a \o <<")">>, <<"(">> \o a, ")", <<>>)
           /\ (<<"(">> \o a \o <<")">>)[1] = "(" /\ Len(<<"(">> \o a \o <<")">>) = Len(a) + 2
           /\ (<<"(">> \o a \o <<")">>)[Len(a) + 2] = ")" /\ <<"(">> \o a \o <<")">> \in Texts
<1>1. Len(a) \in Nat /\ Len(b) \in Nat
  BY Concat
<1>2. Lies(a, a \o <<tok>> \o b, 0) /\ Lies(b, a \o <<tok>> \o b, Len(a) + 1)
  <2> DEFINE whole == a \o <<tok>> \o b
  <2>1. Made(whole, a, tok, b)
    BY MadeOf
  <2>. HIDE DEF whole
  <2>2. \A m \in 1..Len(b) : Len(a) + 1 + m = m + (Len(a) + 1)
    BY <1>1
  <2>3. Lies(a, whole, 0) /\ Lies(b, whole, Len(a) + 1)
    BY <1>1, <2>1, <2>2 DEF Made, Lies
  <2>. QED  BY <2>3 DEF whole
<1> DEFINE open == <<"(">> \o a
           whole == <<"(">> \o a \o <<")">>
<1>3. "(" \in Tokens /\ ")" \in Tokens /\ <<>> \in Texts /\ Len(<<>>) = 0
  BY TokensAre, EmptySeq DEF Texts
<1>4. <<"(">> \in Texts /\ Len(<<"(">>) = 1 /\ <<"(">>[1] = "("
      /\ <<")">> \in Texts
  BY <1>3, Concat
<1>5. /\ open \in Texts /\ Len(open) = Len(a) + 1 /\ open[1] = "("
      /\ \A i \in 1..Len(a) : open[i + 1] = a[i]
  <2> DEFINE one == <<"(">>
  <2>1. one \in Texts /\ Len(one) = 1 /\ one[1] = "(" /\ 1 \in 1..1
    BY <1>4
  <2>. HIDE DEF one
  <2>2. /\ one \o a \in Texts /\ Len(one \o a) = Len(one) + Len(a)
        /\ \A i \in 1..Len(one) : (one \o a)[i] = one[i]
        /\ \A i \in 1..Len(a) : (one \o a)[Len(one) + i] = a[i]
    BY <2>1, Concat
  <2>3. \A i \in 1..Len(a) : 1 + i = i + 1
    BY <1>1
  <2>. QED  BY <1>1, <2>1, <2>2, <2>3 DEF one
<1>. HIDE DEF open
<1>6. whole = open \o <<")">> \o <<>>
  <2>1. open \o <<")">> \in Texts
    BY <1>4, <1>5, Concat
  <2>2. (open \o <<")">>) \o <<>> = open \o <<")">>
    BY <2>1, ConcatEmptySeq DEF Texts
  <2>. QED  BY <2>2 DEF open
<1>7. Made(open \o <<")">> \o <<>>, open, ")", <<>>)
  BY <1>3, <1>5, MadeOf
<1>. HIDE DEF whole
<1>8. Made(whole, open, ")", <<>>)
  BY <1>6, <1>7
<1>9. /\ whole \in Texts /\ Len(whole) = Len(a) + 2 /\ whole[Len(a) + 2] = ")"
      /\ \A i \in 1..Len(open) : whole[i] = open[i]
  <2>1. Len(open) + 1 + 0 = Len(a) + 2 /\ Len(open) + 1 = Len(a) + 2
    BY <1>1, <1>5
  <2>. QED  BY <1>3, <1>8, <2>1 DEF Made
<1>10. whole[1] = "("
  BY <1>1, <1>5, <1>9
<1>11. Lies(a, whole, 1)
  <2>1. \A m \in 1..Len(a) : m + 1 \in 1..Len(open)
    BY <1>1, <1>5
  <2>2. Len(a) + 1 <= Len(whole)
    BY <1>1, <1>9
  <2>. QED  BY <1>5, <1>9, <2>1, <2>2 DEF Lies
<1>. QED  BY <1>2, <1>8, <1>9, <1>10, <1>11 DEF whole, open

\* What is in a passage is in the text.
NestedIn(toks) ==
    \E i, j \in DOMAIN toks :
        /\ i < j /\ toks[i] = "(" /\ toks[j] = "("
        /\ \A k \in i + 1..j - 1 : toks[k] # ")"

LEMMA PassageHolds ==
    ASSUME NEW s \in Texts, NEW t \in Texts, NEW k, Lies(s, t, k)
    PROVE  /\ GroupedOperator(s) => GroupedOperator(t)
           /\ NestedIn(s) => NestedIn(t)
<1>1. /\ DOMAIN s = 1..Len(s) /\ DOMAIN t = 1..Len(t) /\ Len(s) \in Nat /\ Len(t) \in Nat
  BY LenProperties DEF Texts
<1>2. k \in Nat /\ Len(s) + k <= Len(t) /\ \A m \in 1..Len(s) : s[m] = t[m + k]
  BY DEF Lies
<1>3. \A m \in DOMAIN s : m \in 1..Len(s) /\ m + k \in DOMAIN t /\ t[m + k] = s[m]
  BY <1>1, <1>2
<1>4. ASSUME GroupedOperator(s)  PROVE GroupedOperator(t)
  <2>1. PICK first, op, last \in DOMAIN s :
            /\ first + 1 < op /\ op + 1 < last
            /\ s[first] = "(" /\ s[last] = ")" /\ Upper(s[op]) \in {"AND", "OR"}
            /\ \A i \in first + 1..last - 1 : ~IsParenthesis(s[i])
    BY <1>4 DEF GroupedOperator
  <2> DEFINE f == first + k
             o == op + k
             l == last + k
  <2>2. f \in DOMAIN t /\ o \in DOMAIN t /\ l \in DOMAIN t
        /\ t[f] = "(" /\ t[l] = ")" /\ Upper(t[o]) \in {"AND", "OR"}
    BY <1>3, <2>1
  <2>3. f + 1 < o /\ o + 1 < l
    BY <1>1, <1>2, <2>1
  <2>4. \A i \in f + 1..l - 1 : ~IsParenthesis(t[i])
    <3> SUFFICES ASSUME NEW i \in f + 1..l - 1  PROVE ~IsParenthesis(t[i])
      OBVIOUS
    <3>1. i - k \in first + 1..last - 1 /\ i - k \in DOMAIN s /\ (i - k) + k = i
      BY <1>1, <1>2
    <3>. QED  BY <1>3, <2>1, <3>1
  <2>. HIDE DEF f, o, l
  <2>. QED  BY <2>2, <2>3, <2>4 DEF GroupedOperator
<1>5. ASSUME NestedIn(s)  PROVE NestedIn(t)
  <2>1. PICK i, j \in DOMAIN s :
            /\ i < j /\ s[i] = "(" /\ s[j] = "("
            /\ \A m \in i + 1..j - 1 : s[m] # ")"
    BY <1>5 DEF NestedIn
  <2> DEFINE a == i + k
             b == j + k
  <2>2. a \in DOMAIN t /\ b \in DOMAIN t /\ t[a] = "(" /\ t[b] = "("
    BY <1>3, <2>1
  <2>3. a < b
    BY <1>1, <1>2, <2>1
  <2>4. \A m \in a + 1..b - 1 : t[m] # ")"
    <3> SUFFICES ASSUME NEW m \in a + 1..b - 1  PROVE t[m] # ")"
      OBVIOUS
    <3>1. m - k \in i + 1..j - 1 /\ m - k \in DOMAIN s /\ (m - k) + k = m
      BY <1>1, <1>2
    <3>. QED  BY <1>3, <2>1, <3>1
  <2>. HIDE DEF a, b
  <2>. QED  BY <2>2, <2>3, <2>4 DEF NestedIn
<1>. QED  BY <1>4, <1>5

\* A sentence begins and ends with an operand, and closes no bracket that it did not
\* open; one without operators is a word, in brackets or not.
Whole(toks, tree) ==
    /\ toks # <<>>
    /\ toks[1] # ")" /\ Upper(toks[1]) \notin {"AND", "OR"}
    /\ toks[Len(toks)] # "(" /\ Upper(toks[Len(toks)]) \notin {"AND", "OR"}
    /\ \A j \in 1..Len(toks) : toks[j] = ")" => \E i \in 1..Len(toks) : i < j /\ toks[i] = "("
    /\ (\A i \in 1..Len(toks) : Upper(toks[i]) \notin {"AND", "OR", "WITH"}) =>
          \E i \in 1..Len(toks) : toks[i] \in Shaped /\ tree = Leaf(<<toks[i]>>)

LEMMA ShapedIs ==
    \A word \in Shaped : /\ word \in Tokens /\ word # ")" /\ word # "("
                         /\ Upper(word) \notin {"AND", "OR", "WITH"}
BY TokensAre

LEMMA WordIsWhole ==
    ASSUME NEW word \in Shaped  PROVE Whole(<<word>>, Leaf(<<word>>))
<1>1. /\ word \in Tokens /\ word # ")" /\ word # "(" /\ Upper(word) \notin {"AND", "OR", "WITH"}
  BY ShapedIs
<1> DEFINE s == <<word>>
<1>2. s \in Texts /\ Len(s) = 1 /\ s[1] = word /\ 1 \in 1..1 /\ \A i \in 1..1 : i = 1
  BY <1>1, Concat
<1>3. s # <<>>
  OBVIOUS
<1>. HIDE DEF s
<1>4. Whole(s, Leaf(<<s[1]>>))
  BY <1>1, <1>2, <1>3 DEF Whole
<1>. QED  BY <1>2, <1>4 DEF s

LEMMA ExceptionIsWhole ==
    ASSUME NEW word \in Shaped, NEW exception \in Shaped, NEW tok \in Tokens, Upper(tok) = "WITH",
           NEW tree
    PROVE  Whole(<<word, tok, exception>>, tree)
<1>1. /\ word # ")" /\ word # "(" /\ Upper(word) \notin {"AND", "OR", "WITH"}
      /\ exception # ")" /\ exception # "(" /\ Upper(exception) \notin {"AND", "OR", "WITH"}
  BY ShapedIs
<1>2. tok # ")"
  BY OperatorsAre
<1> DEFINE s == <<word, tok, exception>>
<1>3. Len(s) = 3 /\ s[1] = word /\ s[2] = tok /\ s[3] = exception
  OBVIOUS
<1>6. /\ 2 \in 1..3 /\ \A i \in 1..3 : i = 1 \/ i = 2 \/ i = 3
  OBVIOUS
<1>4. s # <<>>
  OBVIOUS
<1>. HIDE DEF s
<1>7. \A j \in 1..3 : s[j] # ")"
  BY <1>1, <1>2, <1>3, <1>6
<1>5. Whole(s, tree)
  BY <1>1, <1>3, <1>4, <1>6, <1>7 DEF Whole
<1>. QED  BY <1>5 DEF s

LEMMA BracketIsWhole ==
    ASSUME NEW s \in Texts, NEW tree, Whole(s, tree)
    PROVE  Whole(<<"(">> \o s \o <<")">>, tree)
<1> DEFINE whole == <<"(">> \o s \o <<")">>
<1>1. /\ whole \in Texts /\ whole[1] = "(" /\ Len(whole) = Len(s) + 2 /\ whole[Len(s) + 2] = ")"
      /\ Lies(s, whole, 1)
  <2>1. "(" \in Tokens
    BY TokensAre
  <2>. QED  BY <2>1, PartsLie
<1>. HIDE DEF whole
<1>2. Len(s) \in Nat /\ \A m \in 1..Len(s) : s[m] = whole[m + 1] /\ m + 1 \in 1..Len(whole)
  <2>1. Len(s) \in Nat
    BY Concat
  <2>2. \A m \in 1..Len(s) : s[m] = whole[m + 1]
    BY <1>1 DEF Lies
  <2>3. \A m \in 1..Len(s) : m + 1 \in 1..Len(whole)
    BY <1>1, <2>1
  <2>. QED  BY <2>1, <2>2, <2>3
<1>3. Upper("(") = "(" /\ Upper(")") = ")"
  BY TokensAre
<1>4. whole # <<>> /\ 1 \in 1..Len(whole) /\ Len(s) + 2 \in 1..Len(whole)
  BY <1>1, <1>2, NotEmpty
<1>5. ASSUME NEW j \in 1..Len(whole), whole[j] = ")"
      PROVE  \E i \in 1..Len(whole) : i < j /\ whole[i] = "("
  <2>1. j # 1
    BY <1>1, <1>5
  <2>2. 1 < j
    BY <1>1, <1>2, <2>1
  <2>. QED  BY <1>1, <1>4, <2>2
<1>6. ASSUME \A i \in 1..Len(whole) : Upper(whole[i]) \notin {"AND", "OR", "WITH"}
      PROVE  \E i \in 1..Len(whole) : whole[i] \in Shaped /\ tree = Leaf(<<whole[i]>>)
  <2>1. \A i \in 1..Len(s) : Upper(s[i]) \notin {"AND", "OR", "WITH"}
    BY <1>2, <1>6
  <2>2. PICK i \in 1..Len(s) : s[i] \in Shaped /\ tree = Leaf(<<s[i]>>)
    BY <2>1 DEF Whole
  <2>. QED  BY <1>2, <2>2
<1>7. Whole(whole, tree)
  BY <1>1, <1>3, <1>4, <1>5, <1>6 DEF Whole
<1>. QED  BY <1>7 DEF whole

LEMMA JoinIsWhole ==
    ASSUME NEW a \in Texts, NEW t, NEW b \in Texts, NEW u, NEW tok \in Tokens, NEW tree,
           Whole(a, t), Whole(b, u), Upper(tok) \in {"AND", "OR"}
    PROVE  Whole(a \o <<tok>> \o b, tree)
<1> DEFINE whole == a \o <<tok>> \o b
<1>1. Made(whole, a, tok, b)
  BY MadeOf
<1>. HIDE DEF whole
<1>2. /\ whole \in Texts /\ Len(whole) = Len(a) + 1 + Len(b)
      /\ \A i \in 1..Len(a) : whole[i] = a[i]
      /\ whole[Len(a) + 1] = tok
      /\ \A i \in 1..Len(b) : whole[Len(a) + 1 + i] = b[i]
  BY <1>1 DEF Made
<1>3. /\ Len(a) \in Nat /\ Len(b) \in Nat /\ 1 <= Len(a) /\ 1 <= Len(b)
      /\ 1 \in 1..Len(a) /\ Len(b) \in 1..Len(b)
  BY NotEmpty DEF Whole
<1>4. whole # <<>>
  BY <1>2, <1>3, NotEmpty
<1>5. whole[1] = a[1] /\ whole[Len(whole)] = b[Len(b)]
  BY <1>2, <1>3
<1>6. tok # ")"
  BY OperatorsAre
<1>7. ASSUME NEW j \in 1..Len(whole), whole[j] = ")"
      PROVE  \E i \in 1..Len(whole) : i < j /\ whole[i] = "("
  <2>1. j \in 1..Len(a) \/ j = Len(a) + 1 \/ (j - (Len(a) + 1) \in 1..Len(b)
                                                /\ Len(a) + 1 + (j - (Len(a) + 1)) = j)
    BY <1>2, <1>3
  <2>2. CASE j \in 1..Len(a)
    <3>1. a[j] = ")"
      BY <1>2, <1>7, <2>2
    <3>2. PICK i \in 1..Len(a) : i < j /\ a[i] = "("
      BY <2>2, <3>1 DEF Whole
    <3>. QED  BY <1>2, <1>3, <3>2
  <2>3. CASE j = Len(a) + 1
    BY <1>2, <1>6, <1>7, <2>3
  <2>4. CASE j - (Len(a) + 1) \in 1..Len(b) /\ Len(a) + 1 + (j - (Len(a) + 1)) = j
    <3> DEFINE m == j - (Len(a) + 1)
    <3>1. m \in 1..Len(b) /\ Len(a) + 1 + m = j
      BY <2>4
    <3>. HIDE DEF m
    <3>2. b[m] = ")"
      BY <1>2, <1>7, <3>1
    <3>3. PICK i \in 1..Len(b) : i < m /\ b[i] = "("
      BY <3>1, <3>2 DEF Whole
    <3>4. Len(a) + 1 + i \in 1..Len(whole) /\ Len(a) + 1 + i < j
      BY <1>2, <1>3, <3>1, <3>3
    <3>. QED  BY <1>2, <3>3, <3>4
  <2>. QED  BY <2>1, <2>2, <2>3, <2>4
<1>8. Len(a) + 1 \in 1..Len(whole) /\ Upper(whole[Len(a) + 1]) \in {"AND", "OR", "WITH"}
  BY <1>2, <1>3
<1>9. Whole(whole, tree)
  BY <1>4, <1>5, <1>7, <1>8 DEF Whole
<1>. QED  BY <1>9 DEF whole

LEMMA DerivedIsWhole ==
    ASSUME NEW rank, NEW toks, NEW tree, Phrase(rank, toks, tree) \in Derivable
    PROVE  Whole(toks, tree)
<1> DEFINE L == {p \in Derivable : Whole(p.toks, p.tree)}
<1>1. \A r, a, b : Phrase(r, a, b) \in L <=> Phrase(r, a, b) \in Derivable /\ Whole(a, b)
  BY PhraseIs
<1>2. L \in SUBSET Derivable
  OBVIOUS
<1>. HIDE DEF L
<1>3. \A r, a, b : Phrase(r, a, b) \in L => a \in Texts
  BY <1>1, PhraseIs
<1>4. Names(L)
  BY <1>1, WordIsWhole, ExceptionIsWhole, Rules DEF Names
<1>5. Brackets(L)
  BY <1>1, <1>3, BracketIsWhole, Rules DEF Brackets
<1>6. Loosens(L)
  BY <1>1, Rules DEF Loosens
<1>7. Joins(L)
  <2>1. JoinsBy(L, "AND", "and", "atom")
    BY <1>1, <1>3, JoinIsWhole, Rules DEF JoinsBy
  <2>2. JoinsBy(L, "OR", "or", "and")
    BY <1>1, <1>3, JoinIsWhole, Rules DEF JoinsBy
  <2>. QED  BY <2>1, <2>2 DEF Joins
<1>8. L = Derivable
  BY <1>2, <1>4, <1>5, <1>6, <1>7, Derivations DEF Closed
<1>. QED  BY <1>1, <1>8

-----------------------------------------------------------------------------
(* Rewriting keeps what an expression means.                               *)

\* A tree is satisfied by identifiers as Canonicalize writes them.
Accepts(tree, accepted) == Satisfies(tree, {id \in tree.ids : CanonicalOperand(id) \in accepted})
MeansAlike(tree, other) == \A accepted : Accepts(tree, accepted) <=> Accepts(other, accepted)

LEMMA AcceptsIs ==
    /\ \A id, accepted : Accepts(Leaf(id), accepted) <=> CanonicalOperand(id) \in accepted
    /\ \A op, left, right, accepted :
           Accepts(Node(op, left, right), accepted)
               <=> IF op = "AND" THEN Accepts(left, accepted) /\ Accepts(right, accepted)
                   ELSE Accepts(left, accepted) \/ Accepts(right, accepted)
<1>1. ASSUME NEW id, NEW accepted
      PROVE  Accepts(Leaf(id), accepted) <=> CanonicalOperand(id) \in accepted
  <2>1. Leaf(id).ids = {id}
    BY DEF Leaf
  <2>2. Satisfies(Leaf(id), {i \in Leaf(id).ids : CanonicalOperand(i) \in accepted})
            <=> id \in {i \in Leaf(id).ids : CanonicalOperand(i) \in accepted}
    BY SatisfiesLeaf
  <2>. QED  BY <2>1, <2>2 DEF Accepts
<1>2. ASSUME NEW op, NEW left, NEW right, NEW accepted
      PROVE  Accepts(Node(op, left, right), accepted)
                 <=> IF op = "AND" THEN Accepts(left, accepted) /\ Accepts(right, accepted)
                     ELSE Accepts(left, accepted) \/ Accepts(right, accepted)
  <2> DEFINE ids == left.ids \union right.ids
             some == {id \in ids : CanonicalOperand(id) \in accepted}
  <2>1. Node(op, left, right).ids = ids
    BY DEF Node
  <2>2. Accepts(Node(op, left, right), accepted) <=> Satisfies(Node(op, left, right), some)
    BY <2>1 DEF Accepts
  <2>3. Satisfies(left, some) <=> Accepts(left, accepted)
    <3>1. some \intersect left.ids = {id \in left.ids : CanonicalOperand(id) \in accepted} \intersect left.ids
      OBVIOUS
    <3>. QED  BY <3>1 DEF Satisfies, Accepts
  <2>4. Satisfies(right, some) <=> Accepts(right, accepted)
    <3>1. some \intersect right.ids = {id \in right.ids : CanonicalOperand(id) \in accepted} \intersect right.ids
      OBVIOUS
    <3>. QED  BY <3>1 DEF Satisfies, Accepts
  <2>. HIDE DEF some
  <2>5. Satisfies(Node(op, left, right), some)
            <=> IF op = "AND" THEN Satisfies(left, some) /\ Satisfies(right, some)
                ELSE Satisfies(left, some) \/ Satisfies(right, some)
    BY SatisfiesNode
  <2>. QED  BY <2>2, <2>3, <2>4, <2>5
<1>. QED  BY <1>1, <1>2

\* An identifier found in a text is that of its one word.
LEMMA NameOfWord ==
    ASSUME NEW toks \in Texts, NEW i \in 1..Len(toks), toks[i] \in Shaped, FromText(toks) # <<>>
    PROVE  /\ FromText(toks) = CanonicalOperand(<<toks[i]>>)
           /\ \E id \in Listed : FromText(toks) = <<id>>
<1> DEFINE word == toks[i]
<1>1. word \in Tokens /\ ~IsParenthesis(word)
  BY ShapedIs, WordAssumption
<1>2. \E id \in Listed : FromText(toks) = <<id>>
  BY FromTextIs
<1>3. DOMAIN toks = 1..Len(toks)
  BY LenProperties DEF Texts
<1> DEFINE one == <<word>>
<1>4. one \in Texts /\ Len(one) = 1 /\ one[1] = word /\ DOMAIN one = 1..1
  <2>1. one \in Texts /\ Len(one) = 1 /\ one[1] = word
    BY <1>1, Concat
  <2>. HIDE DEF one
  <2>2. DOMAIN one = 1..Len(one)
    BY <2>1, LenProperties DEF Texts
  <2>. QED  BY <2>1, <2>2
<1>. HIDE DEF one
<1>5. word \in Listed => FromText(one) = one
  BY <1>4 DEF FromText
<1>6. FromText(one) = FromText(toks)
  <2>1. CASE Len(toks) = 1 /\ toks[1] \in Listed
    <3>1. i = 1
      BY <2>1
    <3>2. \A j \in 1..1 : j = 1
      OBVIOUS
    <3>3. toks = one
      BY <1>4, <2>1, <3>1, <3>2, SameText
    <3>. QED  BY <3>3
  <2>2. CASE ~(Len(toks) = 1 /\ toks[1] \in Listed)
    <3>1. SoleWords(toks) \intersect DOMAIN Synonym # {}
      BY <2>2 DEF FromText
    <3>2. PICK j \in DOMAIN toks : WordsAt(toks) = {j} /\ toks[j] \in DOMAIN Synonym
      BY <3>1 DEF SoleWords
    <3>3. i \in WordsAt(toks)
      BY <1>1, <1>3 DEF WordsAt
    <3>4. j = i
      BY <3>2, <3>3
    <3>5. SoleWords(toks) = {word} /\ word \in DOMAIN Synonym
      BY <3>2, <3>4 DEF SoleWords
    <3>6. FromText(toks) = <<Synonym[word]>>
      <4>1. (CHOOSE w \in SoleWords(toks) : TRUE) = word
        BY <3>5
      <4>2. FromText(toks) = <<Synonym[CHOOSE w \in SoleWords(toks) : TRUE]>>
        BY <2>2, <3>1 DEF FromText
      <4>. QED  BY <4>1, <4>2
    <3>7. CASE word \in Listed
      <4>1. Synonym[word] = word
        BY <3>5, <3>7, WordAssumption
      <4>. QED  BY <1>5, <3>6, <3>7, <4>1 DEF one
    <3>8. CASE word \notin Listed
      <4>1. \A j1 \in DOMAIN one : j1 = 1
        BY <1>4
      <4>2. WordsAt(one) = {1}
        BY <1>1, <1>4, <4>1 DEF WordsAt
      <4>3. SoleWords(one) = {word}
        BY <1>4, <4>1, <4>2 DEF SoleWords
      <4>4. (CHOOSE w \in SoleWords(one) : TRUE) = word
        BY <4>3
      <4>5. SoleWords(one) \intersect DOMAIN Synonym # {}
        BY <3>5, <4>3
      <4>6. FromText(one) = <<Synonym[CHOOSE w \in SoleWords(one) : TRUE]>>
        BY <1>4, <3>8, <4>5 DEF FromText
      <4>. QED  BY <3>6, <4>4, <4>6
    <3>. QED  BY <3>7, <3>8
  <2>. QED  BY <2>1, <2>2
<1>7. CanonicalOperand(one) = FromText(one)
  BY <1>4, <1>6, OperandIs
<1>. QED  BY <1>2, <1>6, <1>7 DEF one

\* A sentence that has an identifier means the license of that name.
LEMMA WordMeans ==
    ASSUME NEW rank, NEW toks, NEW tree, Phrase(rank, toks, tree) \in Derivable,
           FromText(toks) # <<>>
    PROVE  /\ Phrase("atom", FromText(toks), Leaf(FromText(toks))) \in Derivable
           /\ MeansAlike(tree, Leaf(FromText(toks)))
<1>1. toks \in Texts
  BY PhraseIs
<1>2. \A i \in 1..Len(toks) : Upper(toks[i]) \notin {"AND", "OR", "WITH"}
  BY <1>1, FromTextIs
<1>3. PICK i \in 1..Len(toks) : toks[i] \in Shaped /\ tree = Leaf(<<toks[i]>>)
  BY <1>2, DerivedIsWhole DEF Whole
<1>4. FromText(toks) = CanonicalOperand(<<toks[i]>>)
  BY <1>1, <1>3, NameOfWord
<1>5. PICK id \in Listed : FromText(toks) = <<id>>
  BY <1>1, <1>3, NameOfWord
<1>6. id \in Shaped /\ CanonicalOperand(<<id>>) = <<id>>
  BY ListedAre, ListedIsItself
<1>7. Phrase("atom", <<id>>, Leaf(<<id>>)) \in Derivable
  BY <1>6, Rules
<1>8. MeansAlike(tree, Leaf(<<id>>))
  BY <1>3, <1>4, <1>5, <1>6, AcceptsIs DEF MeansAlike
<1>. QED  BY <1>5, <1>7, <1>8

\* What is rewritten is derived as before, and means the same.
Kept(rank, toks, tree) ==
    \E other : /\ Phrase(rank, RewriteOperands(toks), other) \in Derivable
               /\ MeansAlike(tree, other)

LEMMA OperandMeans ==
    ASSUME NEW toks, NEW tree, Phrase("atom", toks, tree) \in Derivable, ~HasInfix(toks)
    PROVE  Kept("atom", toks, tree)
<1>1. toks \in Texts
  BY PhraseIs
<1>2. RewriteOperands(toks) = CanonicalOperand(toks)
  BY <1>1, OperandSettles
<1>3. CASE FromText(toks) = <<>>
  <2>1. RewriteOperands(toks) = toks
    BY <1>1, <1>2, <1>3, OperandIs
  <2>. QED  BY <2>1 DEF Kept, MeansAlike
<1>4. CASE FromText(toks) # <<>>
  <2>1. RewriteOperands(toks) = FromText(toks)
    BY <1>1, <1>2, <1>4, OperandIs
  <2>. QED  BY <1>4, <2>1, WordMeans DEF Kept
<1>. QED  BY <1>3, <1>4

\* A bracket that holds no operator and no bracket.
LEMMA FlatBracket ==
    ASSUME NEW s \in Texts, NEW tree, Whole(s, tree),
           ~GroupedOperator(<<"(">> \o s \o <<")">>), ~NestedIn(<<"(">> \o s \o <<")">>)
    PROVE  ~HasInfix(<<"(">> \o s \o <<")">>)
<1> DEFINE whole == <<"(">> \o s \o <<")">>
<1>1. /\ whole \in Texts /\ whole[1] = "(" /\ Len(whole) = Len(s) + 2 /\ whole[Len(s) + 2] = ")"
      /\ Lies(s, whole, 1)
  <2>1. "(" \in Tokens
    BY TokensAre
  <2>. QED  BY <2>1, PartsLie
<1>2. ~GroupedOperator(whole) /\ ~NestedIn(whole)
  OBVIOUS
<1>. HIDE DEF whole
<1>3. Len(s) \in Nat /\ DOMAIN whole = 1..Len(whole)
  BY <1>1, Concat, LenProperties DEF Texts
<1>4. \A m \in 1..Len(s) : s[m] = whole[m + 1]
  BY <1>1 DEF Lies
<1>5. \A m \in 1..Len(s) : s[m] # "("
  <2> DEFINE at == {m \in Nat : m \in 1..Len(s) /\ s[m] = "("}
  <2> SUFFICES ASSUME at # {}  PROVE FALSE
    BY <1>3
  <2>1. PICK m \in at : \A n \in at : m <= n
    <3>1. at \subseteq Nat
      OBVIOUS
    <3>. HIDE DEF at
    <3>. QED  BY <3>1, Least
  <2>2. m \in 1..Len(s) /\ s[m] = "("
    BY <2>1
  <2>3. \A n \in 1..Len(s) : n < m => s[n] # "("
    BY <1>3, <2>1
  <2>4. \A n \in 1..Len(s) : n < m => s[n] # ")"
    <3> SUFFICES ASSUME NEW n \in 1..Len(s), n < m, s[n] = ")"  PROVE FALSE
      OBVIOUS
    <3>1. PICK i \in 1..Len(s) : i < n /\ s[i] = "("
      BY DEF Whole
    <3>2. i < m
      BY <1>3, <2>2, <3>1
    <3>. QED  BY <2>3, <3>1, <3>2
  <2> DEFINE p == m + 1
  <2>5. p \in DOMAIN whole /\ 1 \in DOMAIN whole /\ 1 < p
    BY <1>1, <1>3, <2>2
  <2>6. whole[p] = "("
    BY <1>4, <2>2
  <2>7. \A k \in 1 + 1..p - 1 : whole[k] # ")"
    <3> SUFFICES ASSUME NEW k \in 1 + 1..p - 1  PROVE whole[k] # ")"
      OBVIOUS
    <3>1. k - 1 \in 1..Len(s) /\ k - 1 < m /\ (k - 1) + 1 = k
      BY <1>3, <2>2
    <3>. QED  BY <1>4, <2>4, <3>1
  <2>. HIDE DEF p
  <2>8. NestedIn(whole)
    BY <1>1, <2>5, <2>6, <2>7 DEF NestedIn
  <2>. QED  BY <1>2, <2>8
<1>6. \A m \in 1..Len(s) : ~IsParenthesis(s[m])
  BY <1>5 DEF Whole, IsParenthesis, Parentheses
<1>7. ASSUME HasInfix(whole)  PROVE FALSE
  <2>1. PICK i \in 1..Len(whole) : InfixOperator(whole, i, 1)
    BY <1>7 DEF HasInfix
  <2>2. /\ 1 < i /\ i < Len(whole) /\ Upper(whole[i]) \in {"AND", "OR"}
        /\ whole[i - 1] # "(" /\ whole[i + 1] # ")"
    BY <2>1 DEF InfixOperator
  <2>3. 1 + 1 < i
    <3>1. i # 2
      BY <1>1, <2>2
    <3>. QED  BY <1>1, <1>3, <2>2, <3>1
  <2> DEFINE last == Len(s) + 2
  <2>4. i + 1 < last
    <3>1. i + 1 # last
      BY <1>1, <2>2
    <3>. QED  BY <1>1, <1>3, <2>2, <3>1
  <2>5. 1 \in DOMAIN whole /\ last \in DOMAIN whole /\ i \in DOMAIN whole
    BY <1>1, <1>3, <2>1
  <2>6. \A k \in 1 + 1..last - 1 : ~IsParenthesis(whole[k])
    <3> SUFFICES ASSUME NEW k \in 1 + 1..last - 1  PROVE ~IsParenthesis(whole[k])
      OBVIOUS
    <3>1. k - 1 \in 1..Len(s) /\ (k - 1) + 1 = k
      BY <1>3
    <3>. QED  BY <1>4, <1>6, <3>1
  <2>7. whole[last] = ")"
    BY <1>1
  <2>. HIDE DEF last
  <2>8. GroupedOperator(whole)
    BY <1>1, <2>2, <2>3, <2>4, <2>5, <2>6, <2>7 DEF GroupedOperator
  <2>. QED  BY <1>2, <2>8
<1>. QED  BY <1>7 DEF whole

\* A join of what is kept.
LEMMA JoinKept ==
    ASSUME NEW a \in Texts, NEW b \in Texts, NEW tok \in Tokens, Joint(a, tok, b),
           Upper(a[Len(a)]) \notin {"AND", "OR"}
    PROVE  RewriteOperands(a \o <<tok>> \o b)
               = RewriteOperands(a) \o <<Upper(tok)>> \o RewriteOperands(b)
<1>1. a # <<>> /\ b # <<>> /\ Upper(a[Len(a)]) \notin {"AND", "OR"}
  BY DEF Joint
<1>2. Joint(a, tok, b)
  OBVIOUS
<1> DEFINE whole == a \o <<tok>> \o b
           from == Rewritten(a)[Len(a) - 1].from
<1>3. Made(whole, a, tok, b) /\ Len(a) \in 1..Len(a)
  BY <1>1, MadeOf, NotEmpty
<1>. HIDE DEF whole, from
<1>4. whole[Len(a)] = a[Len(a)]
  BY <1>3 DEF Made
<1>5. ~InfixOperator(whole, Len(a), from)
  BY <1>1, <1>4 DEF InfixOperator
<1>6. ~InfixOperator(a \o <<tok>> \o b, Len(a), Rewritten(a)[Len(a) - 1].from)
  BY <1>5 DEF whole, from
<1>. QED  BY <1>2, <1>6, RewriteSplits

\* Wherever no operator is grouped and no bracket in a bracket, operand for operand.
LEMMA RewriteKeeps ==
    ASSUME NEW rank, NEW toks, NEW tree, Phrase(rank, toks, tree) \in Derivable,
           ~GroupedOperator(toks), ~NestedIn(toks)
    PROVE  Kept(rank, toks, tree)
<1> DEFINE Good(r, s, t) == GroupedOperator(s) \/ NestedIn(s) \/ Kept(r, s, t)
           L == {p \in Derivable : Good(p.rank, p.toks, p.tree)}
<1>1. \A r, s, t : Phrase(r, s, t) \in L <=> Phrase(r, s, t) \in Derivable /\ Good(r, s, t)
  BY PhraseIs
<1>2. L \in SUBSET Derivable
  OBVIOUS
<1>. HIDE DEF L
<1>3. \A r, s, t : Phrase(r, s, t) \in L => s \in Texts /\ t \in Trees /\ Whole(s, t)
  BY <1>1, PhraseIs, DerivedIsWhole
<1>4. Names(L)
  <2>1. ASSUME NEW word \in Shaped  PROVE Phrase("atom", <<word>>, Leaf(<<word>>)) \in L
    <3>1. ~HasInfix(<<word>>)
      BY ShapedIs, OneTokenHasNone
    <3>2. Phrase("atom", <<word>>, Leaf(<<word>>)) \in Derivable
      BY Rules
    <3>. QED  BY <1>1, <3>1, <3>2, OperandMeans
  <2>2. ASSUME NEW word \in Shaped, NEW exception \in Shaped, NEW tok \in Tokens, Upper(tok) = "WITH"
        PROVE  Phrase("atom", <<word, tok, exception>>, Leaf(<<word, "WITH", exception>>)) \in L
    <3> DEFINE s == <<word, tok, exception>>
    <3>1. Len(s) = 3 /\ s[2] = tok
      OBVIOUS
    <3>2. Phrase("atom", s, Leaf(<<word, "WITH", exception>>)) \in Derivable
      BY <2>2, Rules
    <3>. HIDE DEF s
    <3>3. \A i \in 1..3 : i = 1 \/ i = 2 \/ i = 3
      OBVIOUS
    <3>4. ~HasInfix(s)
      <4> SUFFICES ASSUME NEW i \in 1..3, InfixOperator(s, i, 1)  PROVE FALSE
        BY <3>1 DEF HasInfix
      <4>1. 1 < i /\ i < 3 /\ Upper(s[i]) \in {"AND", "OR"}
        BY <3>1 DEF InfixOperator
      <4>2. i = 2
        BY <3>3, <4>1
      <4>. QED  BY <2>2, <3>1, <4>1, <4>2
    <3>5. Phrase("atom", s, Leaf(<<word, "WITH", exception>>)) \in L
      BY <1>1, <3>2, <3>4, OperandMeans
    <3>. QED  BY <3>5 DEF s
  <2>. QED  BY <2>1, <2>2 DEF Names
<1>5. Brackets(L)
  <2> SUFFICES ASSUME NEW s, NEW t, Phrase("or", s, t) \in L
               PROVE  Phrase("atom", <<"(">> \o s \o <<")">>, t) \in L
    BY DEF Brackets
  <2> DEFINE whole == <<"(">> \o s \o <<")">>
  <2>1. Phrase("atom", whole, t) \in Derivable
    BY <1>1, Rules
  <2>2. s \in Texts /\ Whole(s, t)
    BY <1>3
  <2>3. ~GroupedOperator(whole) /\ ~NestedIn(whole) => ~HasInfix(whole)
    BY <2>2, FlatBracket
  <2>. HIDE DEF whole
  <2>4. Good("atom", whole, t)
    BY <2>1, <2>3, OperandMeans
  <2>. QED  BY <1>1, <2>1, <2>4 DEF whole
<1>6. Loosens(L)
  BY <1>1, Rules DEF Loosens, Kept
<1>7. ASSUME NEW op \in {"AND", "OR"}, NEW r, NEW operand,
             \A a, t, b, u : \A tok \in Tokens :
                 Upper(tok) = op /\ Phrase(r, a, t) \in Derivable
                                 /\ Phrase(operand, b, u) \in Derivable =>
                     Phrase(r, a \o <<tok>> \o b, Node(op, t, u)) \in Derivable
      PROVE  JoinsBy(L, op, r, operand)
  <2> SUFFICES ASSUME NEW a, NEW t, NEW b, NEW u, NEW tok \in Tokens, Upper(tok) = op,
                      Phrase(r, a, t) \in L, Phrase(operand, b, u) \in L
               PROVE  Phrase(r, a \o <<tok>> \o b, Node(op, t, u)) \in L
    BY DEF JoinsBy
  <2> DEFINE whole == a \o <<tok>> \o b
  <2>1. /\ a \in Texts /\ b \in Texts /\ Whole(a, t) /\ Whole(b, u)
        /\ Phrase(r, a, t) \in Derivable /\ Phrase(operand, b, u) \in Derivable
        /\ Good(r, a, t) /\ Good(operand, b, u)
    BY <1>1, <1>3
  <2>2. Phrase(r, whole, Node(op, t, u)) \in Derivable
    BY <1>7, <2>1
  <2>3. whole \in Texts
    BY <2>2, PhraseIs
  <2>4. RewriteOperands(whole) = RewriteOperands(a) \o <<Upper(tok)>> \o RewriteOperands(b)
    <3>1. Joint(a, tok, b) /\ Upper(a[Len(a)]) \notin {"AND", "OR"}
      BY <1>7, <2>1 DEF Joint, Whole
    <3>. QED  BY <2>1, <3>1, JoinKept
  <2>5. Lies(a, whole, 0) /\ Lies(b, whole, Len(a) + 1)
    BY <2>1, PartsLie
  <2>. HIDE DEF whole
  <2>6. ASSUME ~GroupedOperator(whole), ~NestedIn(whole)
        PROVE  Kept(r, whole, Node(op, t, u))
    <3>1. /\ ~GroupedOperator(a) /\ ~NestedIn(a)
          /\ ~GroupedOperator(b) /\ ~NestedIn(b)
      BY <2>1, <2>3, <2>5, <2>6, PassageHolds
    <3>2. PICK v : Phrase(r, RewriteOperands(a), v) \in Derivable /\ MeansAlike(t, v)
      BY <2>1, <3>1 DEF Kept
    <3>3. PICK w : Phrase(operand, RewriteOperands(b), w) \in Derivable /\ MeansAlike(u, w)
      BY <2>1, <3>1 DEF Kept
    <3>4. Upper(tok) \in Tokens /\ Upper(Upper(tok)) = op
      BY OperatorsAre
    <3>5. Phrase(r, RewriteOperands(a) \o <<Upper(tok)>> \o RewriteOperands(b), Node(op, v, w)) \in Derivable
      BY <1>7, <3>2, <3>3, <3>4
    <3>6. MeansAlike(Node(op, t, u), Node(op, v, w))
      BY <3>2, <3>3, AcceptsIs DEF MeansAlike
    <3>. QED  BY <2>4, <3>5, <3>6 DEF Kept
  <2>. QED  BY <1>1, <2>2, <2>6 DEF whole
<1>8. Joins(L)
  <2>1. JoinsBy(L, "AND", "and", "atom")
    BY <1>7, Rules
  <2>2. JoinsBy(L, "OR", "or", "and")
    BY <1>7, Rules
  <2>. QED  BY <2>1, <2>2 DEF Joins
<1>9. L = Derivable
  BY <1>2, <1>4, <1>5, <1>6, <1>8, Derivations DEF Closed
<1>. QED  BY <1>1, <1>9

\* A sentence has no slashes.
LEMMA SentenceHasNoSlash ==
    ASSUME NEW rank, NEW toks, NEW tree, Phrase(rank, toks, tree) \in Derivable
    PROVE  ~HasSlash(toks)
<1>1. toks \in Texts
  BY PhraseIs
<1>2. DOMAIN toks = 1..Len(toks)
  BY <1>1, LenProperties DEF Texts
<1>3. Upper("/") = "/"
  BY DEF Upper
<1>4. ~IsOperatorToken("/") /\ ~IsParenthesis("/")
  BY <1>3 DEF IsOperatorToken, Operators, IsParenthesis, Parentheses
<1>5. ASSUME NEW i \in DOMAIN toks, toks[i] = "/" \/ toks[i] \in DOMAIN Slashed  PROVE FALSE
  <2>1. ~IsParenthesis(toks[i]) /\ ~IsOperatorToken(toks[i])
    BY <1>4, <1>5, WordAssumption
  <2>2. toks[i] \in Shaped
    BY <1>2, <2>1, DerivedIsCovered DEF Covers
  <2>. QED  BY <1>5, <2>2, WordAssumption
<1>. QED  BY <1>5 DEF HasSlash

\* Canonicalize keeps the meaning of a sentence whose brackets are not nested.
LEMMA CanonicalizeKeeps ==
    ASSUME NEW toks, NEW tree, Phrase("or", toks, tree) \in Derivable, ~NestedIn(toks)
    PROVE  \E other : /\ Phrase("or", Canonicalize(toks), other) \in Derivable
                      /\ MeansAlike(tree, other)
<1>1. toks \in Texts
  BY PhraseIs
<1>2. CASE FromText(toks) # <<>>
  BY <1>2, WordMeans, Rules DEF Canonicalize
<1>3. CASE FromText(toks) = <<>> /\ GroupedOperator(toks)
  BY <1>3 DEF Canonicalize, MeansAlike
<1>4. CASE FromText(toks) = <<>> /\ ~GroupedOperator(toks)
  <2>1. SlashChoice(toks) = toks
    BY <1>1, SentenceHasNoSlash, SlashChoiceIs
  <2>2. Canonicalize(toks) = RewriteOperands(toks)
    BY <1>4, <2>1 DEF Canonicalize
  <2>. QED  BY <1>4, <2>2, RewriteKeeps DEF Kept
<1>. QED  BY <1>2, <1>3, <1>4

\* What the invariant says of rewriting the text.
LEMMA WriteInvRewrites == WriteInv => RewritingIsRight
<1> SUFFICES ASSUME WriteInv  PROVE RewritingIsRight
  OBVIOUS
<1>1. text \in Texts
  BY DEF WriteInv
<1>2. CanonicalIsStable
  BY <1>1, CanonicalizeIsStable DEF CanonicalIsStable
<1>3. FlatKeepsMeaning
  <2> SUFFICES ASSUME Written, ~Nested  PROVE KeepsMeaning
    BY DEF FlatKeepsMeaning
  <2>1. PICK t : Expresses(t)
    BY DEF WriteInv
  <2>2. Phrase("or", text, t) \in Derivable
    BY <2>1, Rules DEF Expresses, Written
  <2>3. DOMAIN text = DOMAIN text /\ ~NestedIn(text)
    BY DEF Nested, NestedIn
  <2>4. PICK u : Phrase("or", Canonicalize(text), u) \in Derivable /\ MeansAlike(t, u)
    BY <2>2, <2>3, CanonicalizeKeeps
  <2>5. Parse(text).tree = t /\ Parse(Canonicalize(text)).ok /\ Parse(Canonicalize(text)).tree = u
    BY <2>2, <2>4, DerivableIsParsed
  <2>6. Means(t, Canonical) = Means(u, Canonical)
    <3>1. \A accepted :
              Satisfies(t, {id \in Collected(t) : Canonical(id) \in accepted})
                  <=> Satisfies(u, {id \in Collected(u) : Canonical(id) \in accepted})
      BY <2>4 DEF MeansAlike, Accepts, Canonical, Collected
    <3>. QED  BY <3>1 DEF Means
  <2>. QED  BY <2>5, <2>6 DEF KeepsMeaning
<1>. QED  BY <1>2, <1>3 DEF RewritingIsRight

\* A value that was rewritten and is rewritten again does not change, whatever was
\* typed; and a written expression without brackets in brackets means, rewritten, what
\* it meant, up to the names of licenses.
THEOREM RewritingIsSafe == WriteSpec => []RewritingIsRight
<1>1. WriteInit => WriteInv
  BY WriteStarts
<1>2. WriteInv /\ [WriteNext]_writeVars => WriteInv'
  BY WriteStep
<1>3. WriteInv => RewritingIsRight
  BY WriteInvRewrites
<1>. QED  BY <1>1, <1>2, <1>3, PTL DEF WriteSpec

-----------------------------------------------------------------------------
(* What an assessment is made of (Assess.tla).                             *)

LEMMA HighestIs ==
    ASSUME NEW S \in SUBSET (0..100), S # {}
    PROVE  Max(S) \in S /\ \A y \in S : y <= Max(S)
<1> DEFINE below == {100 - y : y \in S}
<1>1. below \in SUBSET Nat /\ below # {}
  OBVIOUS
<1>2. PICK m \in below : \A n \in below : m <= n
  BY <1>1, Least
<1>3. PICK x \in S : m = 100 - x
  BY <1>2
<1>4. \A y \in S : x >= y
  <2> TAKE y \in S
  <2>1. 100 - x <= 100 - y
    BY <1>2, <1>3
  <2>. QED  BY <2>1
<1>5. Max(S) \in S /\ \A y \in S : Max(S) >= y
  BY <1>4 DEF Max
<1>6. Max(S) \in 0..100
  BY <1>5
<1>. HIDE DEF below
<1>. QED  BY <1>5, <1>6

LEMMA Products ==
    ASSUME NEW p \in 0..100, NEW c \in {0, 95, 100}, NEW r \in Nat, NEW t \in Nat, r <= t
    PROVE  /\ p * c * r \in 0..100 * 100 * t
           /\ p * c * r = 0 <=> p = 0 \/ c = 0 \/ r = 0
<1>1. p * r \in Nat /\ p * r <= 100 * t
  OBVIOUS
<1>2. p * r = 0 <=> p = 0 \/ r = 0
  OBVIOUS
<1>3. p * c * r = c * (p * r)
  OBVIOUS
<1>. QED  BY <1>1, <1>2, <1>3

\* A sequence of classified files, and the places of those that count.
FilesAre(all) == all \in Seq(SomeFiles)
ConfidentOf(all) == {i \in InScopeFiles(all) : Confident(all[i])}

LEMMA CountsAre ==
    ASSUME NEW all, FilesAre(all)
    PROVE  /\ DOMAIN all = 1..Len(all) /\ Len(all) \in Nat
           /\ \A i \in DOMAIN all : all[i] \in SomeFiles
           /\ IsFiniteSet(InScopeFiles(all)) /\ IsFiniteSet(ConfidentOf(all))
           /\ LicenseFiles(all) \in Nat /\ Resolved(all) \in Nat
           /\ Resolved(all) <= LicenseFiles(all)
           /\ LicenseFiles(all) = 0 <=> InScopeFiles(all) = {}
           /\ Resolved(all) = 0 <=> ConfidentOf(all) = {}
<1>1. DOMAIN all = 1..Len(all) /\ Len(all) \in Nat /\ \A i \in DOMAIN all : all[i] \in SomeFiles
  BY DEF FilesAre
<1>2. IsFiniteSet(1..Len(all))
  BY <1>1, FS_Interval
<1>3. InScopeFiles(all) \in SUBSET (1..Len(all)) /\ ConfidentOf(all) \in SUBSET InScopeFiles(all)
  BY <1>1 DEF InScopeFiles, ConfidentOf
<1>4. IsFiniteSet(InScopeFiles(all)) /\ LicenseFiles(all) \in Nat
  BY <1>2, <1>3, PartIsFinite DEF LicenseFiles
<1>5. Resolved(all) = Cardinality(ConfidentOf(all))
  BY DEF Resolved, ConfidentOf
<1>6. IsFiniteSet(ConfidentOf(all)) /\ Resolved(all) \in Nat /\ Resolved(all) <= LicenseFiles(all)
  BY <1>3, <1>4, <1>5, PartIsFinite DEF LicenseFiles
<1>7. LicenseFiles(all) = 0 <=> InScopeFiles(all) = {}
  BY <1>4, FS_EmptySet DEF LicenseFiles
<1>8. Resolved(all) = 0 <=> ConfidentOf(all) = {}
  BY <1>5, <1>6, FS_EmptySet
<1>. QED  BY <1>1, <1>4, <1>6, <1>7, <1>8

\* A file's strongest match is one of its matches.
LEMMA FilesHaveMatches ==
    ASSUME NEW file \in SomeFiles
    PROVE  /\ file.matches \in Seq([name : DOMAIN Resolves, confidence : 0..100])
           /\ Identified(file) => file.matches[1].confidence \in 0..100
           /\ file.excluded \in BOOLEAN /\ file.err \in BOOLEAN
<1>1. file.matches \in Seq([name : DOMAIN Resolves, confidence : 0..100])
  BY EvidenceAssumption
<1>2. Identified(file) => file.matches[1] \in [name : DOMAIN Resolves, confidence : 0..100]
  <2> SUFFICES ASSUME file.matches # <<>>  PROVE file.matches[1] \in [name : DOMAIN Resolves, confidence : 0..100]
    BY DEF Identified
  <2> DEFINE m == file.matches
             R == [name : DOMAIN Resolves, confidence : 0..100]
  <2>1. m \in Seq(R) /\ m # <<>>
    BY <1>1
  <2> HIDE DEF m, R
  <2>2. m[1] \in R
    BY <2>1
  <2>. QED  BY <2>2 DEF m, R
<1>. QED  BY <1>1, <1>2, EvidenceAssumption

LEMMA BestIs ==
    ASSUME NEW all, FilesAre(all)
    PROVE  /\ Best(all) \in SUBSET (0..100)
           /\ Best(all) = {} => Resolved(all) = 0
           /\ (\A y \in Best(all) : y < Threshold) => Resolved(all) = 0
<1>1. Best(all) \in SUBSET (0..100)
  BY CountsAre, FilesHaveMatches, ZenonT(30) DEF Best, InScopeFiles
<1>2. \A i \in ConfidentOf(all) : /\ all[i].matches[1].confidence \in Best(all)
                                  /\ all[i].matches[1].confidence >= Threshold
  <2> TAKE i \in ConfidentOf(all)
  <2>1. i \in InScopeFiles(all) /\ Identified(all[i]) /\ all[i].matches[1].confidence >= Threshold
    BY DEF ConfidentOf, Confident
  <2>2. all[i].matches[1].confidence \in 0..100 /\ Threshold \in 1..100
    BY <2>1, CountsAre, FilesHaveMatches, EvidenceAssumption DEF InScopeFiles
  <2>3. all[i].matches[1].confidence # 0
    BY <2>1, <2>2
  <2>. QED  BY <2>1, <2>3 DEF Best
<1>3. Best(all) = {} => ConfidentOf(all) = {}
  BY <1>2
<1>4. (\A y \in Best(all) : y < Threshold) => ConfidentOf(all) = {}
  <2> SUFFICES ASSUME \A y \in Best(all) : y < Threshold, NEW i \in ConfidentOf(all)  PROVE FALSE
    OBVIOUS
  <2>1. PICK y \in Best(all) : y >= Threshold
    BY <1>2
  <2>2. y < Threshold /\ y \in 0..100 /\ Threshold \in 1..100
    BY <1>1, EvidenceAssumption
  <2>. QED  BY <2>1, <2>2
<1>. QED  BY <1>1, <1>3, <1>4, CountsAre

LEMMA ProjectLicenseIs ==
    ASSUME NEW in, FilesAre(in.files)
    PROVE  /\ ProjectLicense(in) \in 0..100
           /\ Best(in.files) # {} => /\ ProjectLicense(in) \in Best(in.files)
                                     /\ \A y \in Best(in.files) : y <= ProjectLicense(in)
           /\ Best(in.files) = {} =>
                 ProjectLicense(in) = IF \E i \in DOMAIN in.manifests : in.manifests[i].license # <<>> THEN 80
                                      ELSE IF in.prose # <<>> THEN 50 ELSE 0
<1>1. Best(in.files) \in SUBSET (0..100)
  BY BestIs
<1>2. CASE Best(in.files) # {}
  <2>1. ProjectLicense(in) = Max(Best(in.files))
    BY <1>2 DEF ProjectLicense
  <2>2. Max(Best(in.files)) \in Best(in.files) /\ \A y \in Best(in.files) : y <= Max(Best(in.files))
    BY <1>1, <1>2, HighestIs
  <2>. QED  BY <1>1, <1>2, <2>1, <2>2
<1>3. CASE Best(in.files) = {}
  BY <1>3 DEF ProjectLicense, ManifestCredit, ProseCredit
<1>. QED  BY <1>2, <1>3

LEMMA RelationIs ==
    ASSUME NEW in, NEW ids
    PROVE  LET relation == RelationCertainty(in, ids)
           IN  /\ relation.certainty \in {0, 95, 100} /\ relation.operator \in {"", "OR"}
               /\ relation.certainty = 0 => relation.operator = ""
<1> DEFINE Fits(relation) ==
               /\ relation.certainty \in {0, 95, 100} /\ relation.operator \in {"", "OR"}
               /\ relation.certainty = 0 => relation.operator = ""
<1>1. Fits(Relation(100, "")) /\ Fits(Relation(95, "OR")) /\ Fits(Relation(0, ""))
  BY DEF Relation
<1>2. \/ RelationCertainty(in, ids) = Relation(100, "")
      \/ RelationCertainty(in, ids) = Relation(95, "OR")
      \/ RelationCertainty(in, ids) = Relation(0, "")
  BY DEF RelationCertainty, ProseChoiceCredit
<1>3. Fits(RelationCertainty(in, ids))
  <2> HIDE DEF Fits
  <2>. QED  BY <1>1, <1>2, Zenon
<1>. QED  BY <1>3

\* The number of texts that a score is a share of.
Terms(all) == IF LicenseFiles(all) = 0 THEN 1 ELSE LicenseFiles(all)
Met(all) == IF LicenseFiles(all) = 0 THEN 1 ELSE Resolved(all)

LEMMA AssessIs ==
    ASSUME NEW in
    PROVE  LET a == Assess(in)
               ids == DetectedIdentifiers(in.files)
           IN  /\ a.unknown \in BOOLEAN
               /\ a.unknown <=> IsUnknown(in)
               /\ a.identifiers = ids
               /\ IsUnknown(in) => a.score = 0 /\ a.total = 1 /\ a.relationship = "" /\ a.flags = {}
               /\ ~IsUnknown(in) =>
                     /\ a.score = ProjectLicense(in) * RelationCertainty(in, ids).certainty * Met(in.files)
                     /\ a.total = Terms(in.files)
                     /\ a.relationship = RelationCertainty(in, ids).operator
                     /\ a.flags = Flags(in, ids)
<1> DEFINE ids == DetectedIdentifiers(in.files)
           relation == RelationCertainty(in, ids)
           known == [unknown |-> FALSE, licenseFiles |-> LicenseFiles(in.files), identifiers |-> ids,
                     score |-> ProjectLicense(in) * relation.certainty * Met(in.files),
                     total |-> Terms(in.files), relationship |-> relation.operator,
                     flags |-> Flags(in, ids)]
<1>1. CASE IsUnknown(in)
  <2>1. Assess(in) = Unknown(in.files)
    BY <1>1 DEF Assess
  <2>2. LET u == Unknown(in.files)
        IN  /\ u.unknown = TRUE /\ u.identifiers = ids
            /\ u.score = 0 /\ u.total = 1 /\ u.relationship = "" /\ u.flags = {}
    BY DEF Unknown
  <2>. QED  BY <1>1, <2>1, <2>2
<1>2. CASE ~IsUnknown(in)
  <2>1. Assess(in) = known
    BY <1>2 DEF Assess, Terms, Met
  <2>2. /\ known.unknown = FALSE /\ known.identifiers = ids
        /\ known.score = ProjectLicense(in) * relation.certainty * Met(in.files)
        /\ known.total = Terms(in.files)
        /\ known.relationship = relation.operator /\ known.flags = Flags(in, ids)
    OBVIOUS
  <2> HIDE DEF known
  <2>. QED  BY <1>2, <2>1, <2>2
<1>. QED  BY <1>1, <1>2

\* What a flag says.
LEMMA FlagsAre ==
    ASSUME NEW in, NEW ids
    PROVE  /\ "relationship-ambiguous" \in Flags(in, ids) <=> RelationCertainty(in, ids).certainty = 0
           /\ "unidentified-text" \in Flags(in, ids) <=> Resolved(in.files) < LicenseFiles(in.files)
           /\ "declared-conflict" \in Flags(in, ids) <=> ConflictsWithDeclared(in.declared, ids)
BY DEF Flags, AllFlags

LEMMA TermsAre ==
    ASSUME NEW all, FilesAre(all)
    PROVE  /\ Terms(all) \in Nat /\ Terms(all) > 0 /\ Met(all) \in Nat /\ Met(all) <= Terms(all)
           /\ Met(all) = 0 => Resolved(all) = 0 /\ LicenseFiles(all) > 0
           /\ Resolved(all) = 0 /\ LicenseFiles(all) > 0 => Met(all) = 0
           /\ LicenseFiles(all) = 0 \/ LicenseFiles(all) > 0
BY CountsAre DEF Terms, Met

LEMMA ScoresAre ==
    ASSUME NEW in, FilesAre(in.files), NEW certainty \in {0, 95, 100}
    PROVE  /\ ProjectLicense(in) * certainty * Met(in.files) \in 0..100 * 100 * Terms(in.files)
           /\ ProjectLicense(in) * certainty * Met(in.files) = 0
                 => ProjectLicense(in) = 0 \/ certainty = 0 \/ Met(in.files) = 0
<1>1. ProjectLicense(in) \in 0..100
  BY ProjectLicenseIs, Zenon
<1>2. Met(in.files) \in Nat /\ Terms(in.files) \in Nat /\ Met(in.files) <= Terms(in.files)
  BY TermsAre, ZenonT(30)
<1>3. \A p \in 0..100, r \in Nat, t \in Nat :
         r <= t => /\ p * certainty * r \in 0..100 * 100 * t
                   /\ p * certainty * r = 0 => p = 0 \/ certainty = 0 \/ r = 0
  BY Products
<1>. QED  BY <1>1, <1>2, <1>3, Zenon

-----------------------------------------------------------------------------
(* What has been found, and its assessment.                                *)

AssessInv ==
    /\ FilesAre(files)
    /\ prose \in Seq(SomeProse)
    /\ \A name \in DOMAIN root :
          \E document \in SomeDocuments : document[1] = name /\ document[2] = root[name]
    /\ assessment = Assess(Input(evidence))

LEMMA AssessInvHolds == Spec => []AssessInv
<1>1. Init => AssessInv
  BY DEF Init, AssessInv, FilesAre
<1>2. AssessInv /\ [Next]_vars => AssessInv'
  <2> SUFFICES ASSUME AssessInv, [Next]_vars  PROVE AssessInv'
    OBVIOUS
  <2>1. CASE UNCHANGED vars
    <3>1. UNCHANGED <<files, root, prose, incomplete, declared, assessment>>
      BY <2>1 DEF vars, evidence
    <3>. QED  BY <3>1 DEF AssessInv, FilesAre, evidence
  <2>2. CASE Next
    <3>1. assessment' = Assess(Input(evidence))'
      BY <2>2 DEF Next
    <3>2. ASSUME NEW value, Declare(value)  PROVE AssessInv'
      BY <3>1, <3>2 DEF AssessInv, FilesAre, Declare
    <3>3. ASSUME NEW file \in SomeFiles, Classify(file)  PROVE AssessInv'
      BY <3>1, <3>3 DEF AssessInv, FilesAre, Classify
    <3>4. ASSUME NEW document \in SomeDocuments, ReadDocument(document[1], document[2])  PROVE AssessInv'
      <4>1. \A name \in DOMAIN root' :
              \/ name = document[1] /\ root'[name] = document[2]
              \/ name \in DOMAIN root /\ root'[name] = root[name]
        BY <3>4 DEF ReadDocument
      <4>2. \A name \in DOMAIN root' :
              \E d \in SomeDocuments : d[1] = name /\ d[2] = root'[name]
        BY <4>1 DEF AssessInv
      <4>. QED  BY <3>1, <3>4, <4>2 DEF AssessInv, FilesAre, ReadDocument
    <3>5. ASSUME NEW hint \in SomeProse, ReadProse(hint)  PROVE AssessInv'
      BY <3>1, <3>5 DEF AssessInv, FilesAre, ReadProse
    <3>6. ASSUME NEW reason, Lose(reason)  PROVE AssessInv'
      BY <3>1, <3>6 DEF AssessInv, FilesAre, Lose
    <3>. QED  BY <2>2, <3>2, <3>3, <3>4, <3>5, <3>6 DEF Next, Find
  <2>. QED  BY <2>1, <2>2
<1>. QED  BY <1>1, <1>2, PTL DEF Spec

\* The input that is assessed.
LEMMA InputIs ==
    LET in == Input(evidence)
    IN  /\ in.files = files /\ in.manifests = Manifests(root) /\ in.prose = prose
        /\ in.incomplete = incomplete /\ in.declared = declared
BY DEF Input, evidence

\* A score of zero misses one of its terms.
LEMMA ZeroIs ==
    ASSUME NEW in, FilesAre(in.files), ~IsUnknown(in), Assess(in).score = 0
    PROVE  \/ RelationCertainty(in, DetectedIdentifiers(in.files)).certainty = 0
           \/ Resolved(in.files) < LicenseFiles(in.files)
           \/ /\ InScopeFiles(in.files) = {} /\ in.prose = <<>>
              /\ \A i \in DOMAIN in.manifests : in.manifests[i].license = <<>>
<1> DEFINE certainty == RelationCertainty(in, DetectedIdentifiers(in.files)).certainty
<1>1. certainty \in {0, 95, 100}
  BY RelationIs
<1>2. ProjectLicense(in) * certainty * Met(in.files) = 0
  BY AssessIs
<1>3. ProjectLicense(in) = 0 \/ certainty = 0 \/ Met(in.files) = 0
  BY <1>1, <1>2, ScoresAre
<1>4. /\ Resolved(in.files) \in Nat /\ LicenseFiles(in.files) \in Nat
      /\ LicenseFiles(in.files) = 0 <=> InScopeFiles(in.files) = {}
  BY CountsAre
<1>5. CASE Met(in.files) = 0
  BY <1>4, <1>5, TermsAre
<1>6. CASE ProjectLicense(in) = 0 /\ Best(in.files) # {}
  <2>1. Best(in.files) \in SUBSET (0..100) /\ \A y \in Best(in.files) : y <= 0
    BY <1>6, ProjectLicenseIs, BestIs
  <2>2. \A y \in Best(in.files) : y < Threshold
    <3>1. Threshold \in 1..100
      BY EvidenceAssumption
    <3>. QED  BY <2>1, <3>1
  <2>3. Resolved(in.files) = 0
    BY <2>2, BestIs
  <2>4. InScopeFiles(in.files) # {}
    BY <1>6 DEF Best
  <2>. QED  BY <1>4, <2>3, <2>4
<1>7. CASE ProjectLicense(in) = 0 /\ Best(in.files) = {}
  <2>1. Resolved(in.files) = 0
    BY <1>7, BestIs
  <2>2. in.prose = <<>> /\ \A i \in DOMAIN in.manifests : in.manifests[i].license = <<>>
    BY <1>7, ProjectLicenseIs
  <2>. QED  BY <1>4, <2>1, <2>2
<1>. QED  BY <1>3, <1>5, <1>6, <1>7

\* A score is in its range, and zero for a reason that is told (Assess): what
\* the files' counts, the relation and the strongest match can be.
THEOREM ScoreIsSafe == Spec => []ScoreIsExplained
<1> DEFINE in == Input(evidence)
<1>1. AssessInv => TypeOK
  <2> SUFFICES ASSUME AssessInv  PROVE TypeOK
    OBVIOUS
  <2>1. FilesAre(in.files) /\ assessment = Assess(in)
    BY InputIs DEF AssessInv
  <2> DEFINE relation == RelationCertainty(in, DetectedIdentifiers(in.files))
  <2> HIDE DEF in
  <2>2. CASE IsUnknown(in)
    <3>1. assessment.score = 0 /\ assessment.total = 1 /\ assessment.flags = {}
      BY <2>1, <2>2, AssessIs, Zenon
    <3>2. assessment.relationship \in {"", "OR"}
      BY <2>1, <2>2, AssessIs, Zenon
    <3>3. assessment.total > 0 /\ assessment.score \in 0..100 * 100 * assessment.total
      BY <3>1
    <3>. QED  BY <3>1, <3>2, <3>3, Zenon DEF TypeOK
  <2>3. CASE ~IsUnknown(in)
    <3>1. /\ assessment.unknown = FALSE
          /\ assessment.score = ProjectLicense(in) * relation.certainty * Met(in.files)
          /\ assessment.total = Terms(in.files)
          /\ assessment.relationship = relation.operator
      BY <2>1, <2>3, AssessIs
    <3>2. relation.certainty \in {0, 95, 100} /\ relation.operator \in {"", "OR"}
      BY RelationIs
    <3> HIDE DEF relation
    <3>3. ProjectLicense(in) * relation.certainty * Met(in.files) \in 0..100 * 100 * Terms(in.files)
      BY <2>1, <3>2, ScoresAre
    <3>4. assessment.score \in 0..100 * 100 * assessment.total /\ assessment.total > 0
      BY <2>1, <3>1, <3>3, TermsAre
    <3>. QED  BY <3>1, <3>2, <3>4 DEF TypeOK
  <2>. QED  BY <2>2, <2>3
<1>2. AssessInv => ZeroIsExplained
  <2> SUFFICES ASSUME AssessInv, assessment.score = 0  PROVE ZeroIsExplained
    BY DEF ZeroIsExplained
  <2>1. FilesAre(in.files) /\ assessment = Assess(in)
    BY InputIs DEF AssessInv
  <2>2. /\ in.files = files /\ in.manifests = Manifests(root) /\ in.prose = prose
        /\ in.incomplete = incomplete
    BY InputIs
  <2> HIDE DEF in
  <2>3. CASE IsUnknown(in)
    <3>1. assessment.unknown
      BY <2>1, <2>3, AssessIs
    <3>2. ReadOf(files) = {} /\ (incomplete # {} \/ InScopeFiles(files) # {})
      BY <2>2, <2>3 DEF IsUnknown
    <3>3. incomplete # {} \/ \E i \in DOMAIN files : files[i].err
      BY <3>2 DEF ReadOf, InScopeFiles
    <3>. QED  BY <3>1, <3>3 DEF ZeroIsExplained
  <2>4. CASE ~IsUnknown(in)
    <3>1. ~assessment.unknown /\ assessment.flags = Flags(in, DetectedIdentifiers(in.files))
      BY <2>1, <2>4, AssessIs
    <3>2. \/ RelationCertainty(in, DetectedIdentifiers(in.files)).certainty = 0
          \/ Resolved(in.files) < LicenseFiles(in.files)
          \/ /\ InScopeFiles(in.files) = {} /\ in.prose = <<>>
             /\ \A i \in DOMAIN in.manifests : in.manifests[i].license = <<>>
      BY <2>1, <2>4, ZeroIs
    <3>3. \/ "relationship-ambiguous" \in assessment.flags
          \/ "unidentified-text" \in assessment.flags
          \/ /\ Own = {} /\ prose = <<>>
             /\ \A i \in DOMAIN Manifests(root) : Manifests(root)[i].license = <<>>
      BY <2>2, <3>1, <3>2, FlagsAre DEF Own
    <3>. QED  BY <3>1, <3>3 DEF ZeroIsExplained
  <2>. QED  BY <2>3, <2>4
<1>. QED  BY <1>1, <1>2, AssessInvHolds, PTL DEF ScoreIsExplained

-----------------------------------------------------------------------------
(* The manifests.                                                          *)

\* A manifest that declares a license is among those that are weighed.
LEMMA WeighedIs ==
    ASSUME NEW documents, NEW name \in Readable, Declared(documents, name).license # <<>>
    PROVE  /\ name \in DOMAIN Manifests(documents)
           /\ Manifests(documents)[name] = Declared(documents, name)
<1>1. Nothing.license = <<>>
  BY DEF Nothing, Declares
<1>2. name \in {n \in Readable : Declared(documents, n) # Nothing}
  BY <1>1
<1>. QED  BY <1>2 DEF Manifests

LEMMA ManifestsAre ==
    ASSUME NEW documents, NEW name \in DOMAIN Manifests(documents)
    PROVE  /\ name \in Readable /\ name \in DOMAIN documents
           /\ Manifests(documents)[name] = ReadManifest(name, documents[name])
BY DEF Manifests, Declared

\* The readers of the formats that can point at a file.
LEMMA PointersAreReadBy ==
    ASSUME NEW doc, doc # Damaged
    PROVE  /\ ReadManifest("Cargo.toml", doc) = CargoManifestLicense(doc)
           /\ ReadManifest("pyproject.toml", doc) = PyprojectLicense(doc)
<1>1. ReadManifest("Cargo.toml", doc) = CargoManifestLicense(doc)
  BY DEF ReadManifest, DistInfo
<1>2. ReadManifest("pyproject.toml", doc) = PyprojectLicense(doc)
  BY DEF ReadManifest, DistInfo
<1>. QED  BY <1>1, <1>2

LEMMA FirstDeclaredIs ==
    ASSUME NEW documents, NEW places, DOMAIN places \in SUBSET Nat,
           FirstDeclared(documents, places) # <<>>
    PROVE  \E i \in DOMAIN places :
              /\ Declared(documents, places[i]).license # <<>>
              /\ FirstDeclared(documents, places) = Declared(documents, places[i]).license
<1> DEFINE stated == {i \in DOMAIN places : Declared(documents, places[i]).license # <<>>}
           first == CHOOSE i \in stated : \A j \in stated : i <= j
<1>1. stated # {}
  BY DEF FirstDeclared
<1>2. stated \in SUBSET Nat
  OBVIOUS
<1>3. first \in stated
  <2>1. \E i \in stated : \A j \in stated : i <= j
    BY <1>1, <1>2, Least
  <2> HIDE DEF stated
  <2>. QED  BY <2>1
<1>4. FirstDeclared(documents, places) = Declared(documents, places[first]).license
  BY <1>1 DEF FirstDeclared
<1>. QED  BY <1>3, <1>4

\* The manifests are heard, and say neither less nor more than they do
\* (Manifests, DeclaredLicense, conflictsWithDeclared).
THEOREM ManifestsAreWeighed == Spec => []ManifestsAreHeard
<1> DEFINE in == Input(evidence)
<1>1. DeclaredIsWeighed
  <2> DEFINE Weighs(license) == \E i \in DOMAIN Manifests(root) : Manifests(root)[i].license = license
  <2>1. \A name \in Readable : Declared(root, name).license # <<>> => Weighs(Declared(root, name).license)
    BY WeighedIs
  <2>2. "Cargo.toml" \in Readable /\ "package.json" \in Readable /\ "PKG-INFO" \in Readable
    BY DEF Readable
  <2>3. "METADATA" \in Readable /\ "pom.xml" \in Readable /\ "pom-parent-1.xml" \in Readable
    BY DEF Readable
  <2> DEFINE python == <<"PKG-INFO", "METADATA", DistInfo>>
             maven == <<"pom.xml", "pom-parent-1.xml">>
  <2> HIDE DEF Weighs
  <2>4. ASSUME FirstDeclared(root, python) # <<>>
        PROVE  \/ Weighs(FirstDeclared(root, python))
               \/ FirstDeclared(root, python) = Declared(root, DistInfo).license
    <3>1. DOMAIN python = 1..3
      OBVIOUS
    <3>2. python[1] = "PKG-INFO" /\ python[2] = "METADATA" /\ python[3] = DistInfo
      OBVIOUS
    <3> HIDE DEF python
    <3>3. PICK i \in DOMAIN python :
             /\ Declared(root, python[i]).license # <<>>
             /\ FirstDeclared(root, python) = Declared(root, python[i]).license
      BY <2>4, <3>1, FirstDeclaredIs
    <3>4. i = 1 \/ i = 2 \/ i = 3
      BY <3>1
    <3>. QED  BY <2>1, <2>2, <2>3, <3>2, <3>3, <3>4
  <2>5. ASSUME FirstDeclared(root, maven) # <<>>
        PROVE  Weighs(FirstDeclared(root, maven))
    <3>1. DOMAIN maven = 1..2
      OBVIOUS
    <3>2. maven[1] = "pom.xml" /\ maven[2] = "pom-parent-1.xml"
      OBVIOUS
    <3> HIDE DEF maven
    <3>3. PICK i \in DOMAIN maven :
             /\ Declared(root, maven[i]).license # <<>>
             /\ FirstDeclared(root, maven) = Declared(root, maven[i]).license
      BY <2>5, <3>1, FirstDeclaredIs
    <3>4. i = 1 \/ i = 2
      BY <3>1
    <3>. QED  BY <2>1, <2>3, <3>2, <3>3, <3>4
  <2>6. DeclaredLicense(root, "cargo") = Declared(root, "Cargo.toml").license
    BY DEF DeclaredLicense
  <2>7. DeclaredLicense(root, "npm") = Declared(root, "package.json").license
    BY DEF DeclaredLicense
  <2>8. DeclaredLicense(root, "pypi") = FirstDeclared(root, python)
    BY DEF DeclaredLicense
  <2>9. DeclaredLicense(root, "maven") = FirstDeclared(root, maven)
    BY DEF DeclaredLicense
  <2> HIDE DEF python, maven
  <2>10. \A ecosystem \in {"cargo", "npm", "pypi", "maven"} :
            DeclaredLicense(root, ecosystem) # <<>> =>
               \/ Weighs(DeclaredLicense(root, ecosystem))
               \/ ecosystem = "pypi" /\ DeclaredLicense(root, ecosystem) = Declared(root, DistInfo).license
    BY <2>1, <2>2, <2>4, <2>5, <2>6, <2>7, <2>8, <2>9
  <2>. QED  BY <2>10 DEF DeclaredIsWeighed, Weighs
<1>2. AssessInv => PointerEarnsNothing
  <2> DEFINE points(name) == /\ root[name] # Damaged /\ "file" \in DOMAIN root[name]
                             /\ root[name].file # <<>> /\ root[name].license = <<>>
  <2> SUFFICES ASSUME AssessInv, {name \in DOMAIN root : points(name)} = DOMAIN root,
                      {name \in DOMAIN root : points(name)} # {}, prose = <<>>, Own = {}
               PROVE  ~assessment.unknown /\ assessment.score = 0
    BY DEF PointerEarnsNothing
  <2>1. FilesAre(in.files) /\ assessment = Assess(in)
    BY InputIs DEF AssessInv
  <2>2. /\ in.files = files /\ in.manifests = Manifests(root) /\ in.prose = prose
    BY InputIs
  <2> HIDE DEF in
  <2>3. \A name \in DOMAIN root : points(name)
    OBVIOUS
  <2>4. ASSUME NEW name \in DOMAIN root
        PROVE  /\ name \in Readable
               /\ ReadManifest(name, root[name]) = Declares(<<>>, root[name].file)
    <3>1. PICK document \in SomeDocuments : document[1] = name /\ document[2] = root[name]
      BY DEF AssessInv
    <3>2. points(name)
      BY <2>3
    <3>3. name = "Cargo.toml" \/ (name = "pyproject.toml" /\ root[name].project = "table")
      BY <3>1, <3>2, EvidenceAssumption
    <3>4. CASE name = "Cargo.toml"
      <4>1. ReadManifest(name, root[name]) = CargoManifestLicense(root[name])
        BY <3>2, <3>4, PointersAreReadBy
      <4>. QED  BY <3>2, <3>4, <4>1 DEF CargoManifestLicense, Readable
    <3>5. CASE name = "pyproject.toml" /\ root[name].project = "table"
      <4>1. ReadManifest(name, root[name]) = PyprojectLicense(root[name])
        BY <3>2, <3>5, PointersAreReadBy
      <4>2. PyprojectLicense(root[name]) = Declares(<<>>, root[name].file)
        BY <3>2, <3>5 DEF PyprojectLicense
      <4>. QED  BY <3>5, <4>1, <4>2 DEF Readable
    <3>. QED  BY <3>3, <3>4, <3>5
  <2>5. \A i \in DOMAIN Manifests(root) : Manifests(root)[i].license = <<>>
    BY <2>4, ManifestsAre DEF Declares
  <2>6. DOMAIN Manifests(root) # {}
    <3>1. PICK name \in DOMAIN root : points(name)
      OBVIOUS
    <3>2. Declared(root, name) = Declares(<<>>, root[name].file)
      BY <2>4 DEF Declared
    <3>3. Declared(root, name) # Nothing
      BY <3>1, <3>2 DEF Declares, Nothing
    <3>. QED  BY <2>4, <3>3 DEF Manifests
  <2>7. ~IsUnknown(in)
    BY <2>2, <2>6 DEF IsUnknown
  <2>8. Best(in.files) = {}
    BY <2>2 DEF Best, Own
  <2>9. ProjectLicense(in) = 0
    BY <2>1, <2>2, <2>5, <2>8, ProjectLicenseIs
  <2> DEFINE certainty == RelationCertainty(in, DetectedIdentifiers(in.files)).certainty
  <2>10. certainty \in {0, 95, 100}
    BY RelationIs
  <2>11. assessment.score = ProjectLicense(in) * certainty * Met(in.files)
    BY <2>1, <2>7, AssessIs
  <2>12. Met(in.files) \in Nat
    BY <2>1, TermsAre
  <2> HIDE DEF certainty
  <2>13. assessment.score = 0
    BY <2>9, <2>10, <2>11, <2>12
  <2>. QED  BY <2>1, <2>7, <2>13, AssessIs
<1>3. AssessInv => AgreementIsNoConflict
  <2> SUFFICES ASSUME AssessInv, NEW name \in DOMAIN Manifests(root),
                      declared = Manifests(root)[name].license, ~assessment.unknown,
                      ReadAs(declared).ok, Collected(ReadAs(declared).tree) = assessment.identifiers
               PROVE  "declared-conflict" \notin assessment.flags
    BY DEF AgreementIsNoConflict
  <2>1. assessment = Assess(in) /\ in.declared = declared
    BY InputIs DEF AssessInv
  <2> DEFINE ids == DetectedIdentifiers(in.files)
  <2> HIDE DEF in
  <2>2. assessment.identifiers = ids /\ assessment.flags = Flags(in, ids)
    BY <2>1, AssessIs
  <2>3. Identifiers(Canonicalize(declared)) = ids
    BY <2>2 DEF Identifiers, ReadAs
  <2>4. ~ConflictsWithDeclared(in.declared, ids)
    BY <2>1, <2>3 DEF ConflictsWithDeclared
  <2>. QED  BY <2>2, <2>4, FlagsAre
<1>. QED  BY <1>1, <1>2, <1>3, AssessInvHolds, PTL DEF ManifestsAreHeard

-----------------------------------------------------------------------------
(* What moves a score.                                                     *)

LEMMA FamilyIsFinite ==
    ASSUME NEW I, IsFiniteSet(I), NEW f, DOMAIN f = I, \A i \in I : IsFiniteSet(f[i])
    PROVE  IsFiniteSet(UNION {f[i] : i \in I})
<1> DEFINE T == {f[i] : i \in I}
           g == [i \in I |-> f[i]]
<1>1. g \in Surjection(I, T)
  BY DEF Surjection
<1>2. \A t \in T : IsFiniteSet(t)
  OBVIOUS
<1> HIDE DEF g, T
<1>3. IsFiniteSet(T)
  BY <1>1, FS_Surjection
<1>4. IsFiniteSet(UNION T)
  BY <1>2, <1>3, FS_UNION
<1>. QED  BY <1>4 DEF T

LEMMA IdentifiersAreFinite ==
    ASSUME NEW all, FilesAre(all)
    PROVE  IsFiniteSet(DetectedIdentifiers(all))
<1>1. ASSUME NEW name  PROVE IsFiniteSet(IdentifierOf(name))
  BY FS_Singleton, FS_Difference DEF IdentifierOf
<1>2. ASSUME NEW file \in SomeFiles  PROVE IsFiniteSet(FileIdentifiers(file))
  <2> DEFINE strong == {j \in DOMAIN file.matches : file.matches[j].confidence >= Threshold}
             f == [i \in strong |-> IdentifierOf(file.matches[i].name)]
  <2>1. \E n \in Nat : strong \in SUBSET (1..n)
    <3>1. DOMAIN file.matches = 1..Len(file.matches) /\ Len(file.matches) \in Nat
      BY FilesHaveMatches
    <3>. QED  BY <3>1
  <2>2. IsFiniteSet(strong)
    <3> HIDE DEF strong
    <3>1. PICK n \in Nat : strong \in SUBSET (1..n)
      BY <2>1
    <3>2. IsFiniteSet(1..n)
      BY FS_Interval
    <3>. QED  BY <3>1, <3>2, FS_Subset
  <2>3. FileIdentifiers(file) = UNION {f[i] : i \in strong}
    BY DEF FileIdentifiers
  <2>4. DOMAIN f = strong /\ \A i \in strong : IsFiniteSet(f[i])
    BY <1>1
  <2> HIDE DEF f, strong
  <2>. QED  BY <2>2, <2>3, <2>4, FamilyIsFinite
<1> DEFINE f == [i \in InScopeFiles(all) |-> FileIdentifiers(all[i])]
<1>3. DetectedIdentifiers(all) = UNION {f[i] : i \in InScopeFiles(all)}
  BY DEF DetectedIdentifiers
<1>4. IsFiniteSet(InScopeFiles(all)) /\ \A i \in InScopeFiles(all) : all[i] \in SomeFiles
  BY CountsAre DEF InScopeFiles
<1>5. DOMAIN f = InScopeFiles(all) /\ \A i \in InScopeFiles(all) : IsFiniteSet(f[i])
  BY <1>2, <1>4
<1> HIDE DEF f
<1>. QED  BY <1>3, <1>4, <1>5, FamilyIsFinite

\* Two inputs that differ in nothing that a score is made of.
Alike(in, other) ==
    /\ DetectedIdentifiers(in.files) = DetectedIdentifiers(other.files)
    /\ Best(in.files) = Best(other.files)
    /\ LicenseFiles(in.files) = LicenseFiles(other.files)
    /\ Resolved(in.files) = Resolved(other.files)
    /\ in.manifests = other.manifests
    /\ in.prose = <<>> <=> other.prose = <<>>
    /\ ChoiceOfLicense(in.prose) <=> ChoiceOfLicense(other.prose)

LEMMA AlikeIs ==
    ASSUME NEW in, NEW other, Alike(in, other)
    PROVE  /\ ProjectLicense(in) = ProjectLicense(other)
           /\ \A ids : RelationCertainty(in, ids) = RelationCertainty(other, ids)
           /\ Met(in.files) = Met(other.files) /\ Terms(in.files) = Terms(other.files)
<1>1. ProjectLicense(in) = ProjectLicense(other)
  BY DEF Alike, ProjectLicense
<1>2. \A ids : RelationCertainty(in, ids) = RelationCertainty(other, ids)
  BY DEF Alike, RelationCertainty
<1>3. Met(in.files) = Met(other.files) /\ Terms(in.files) = Terms(other.files)
  BY DEF Alike, Met, Terms
<1>. QED  BY <1>1, <1>2, <1>3

\* The same was read of both, as far as being unknown goes.
ReadAlike(in, other) ==
    /\ ReadOf(in.files) = {} <=> ReadOf(other.files) = {}
    /\ InScopeFiles(in.files) = {} <=> InScopeFiles(other.files) = {}

SomethingReadOf(in) == ReadOf(in.files) # {} \/ DOMAIN in.manifests # {} \/ in.prose # <<>>

LEMMA UnknownIs ==
    ASSUME NEW in, NEW other, Alike(in, other), ReadAlike(in, other)
    PROVE  /\ SomethingReadOf(in) <=> SomethingReadOf(other)
           /\ SomethingReadOf(in) => ~IsUnknown(in)
           /\ ~SomethingReadOf(in) /\ in.incomplete # {} => IsUnknown(in)
           /\ (in.incomplete = {} <=> other.incomplete = {}) => (IsUnknown(in) <=> IsUnknown(other))
BY DEF Alike, ReadAlike, SomethingReadOf, IsUnknown

\* Scores are numbers that compare.
LEMMA ScoreIsNumber ==
    ASSUME NEW in, FilesAre(in.files)
    PROVE  Assess(in).score \in Nat /\ Assess(in).total \in Nat
<1>1. CASE IsUnknown(in)
  <2>1. Assess(in).score = 0 /\ Assess(in).total = 1
    BY <1>1, AssessIs, Zenon
  <2>. QED  BY <2>1
<1>2. CASE ~IsUnknown(in)
  <2> DEFINE certainty == RelationCertainty(in, DetectedIdentifiers(in.files)).certainty
  <2>1. certainty \in {0, 95, 100}
    BY RelationIs
  <2>2. /\ Assess(in).score = ProjectLicense(in) * certainty * Met(in.files)
        /\ Assess(in).total = Terms(in.files)
    BY <1>2, AssessIs, Zenon
  <2> HIDE DEF certainty
  <2>3. ProjectLicense(in) * certainty * Met(in.files) \in 0..100 * 100 * Terms(in.files)
    BY <2>1, ScoresAre
  <2>4. Terms(in.files) \in Nat
    BY TermsAre
  <2>. QED  BY <2>2, <2>3, <2>4
<1>. QED  BY <1>1, <1>2

LEMMA AlikeScoresSame ==
    ASSUME NEW in, NEW other, FilesAre(in.files), FilesAre(other.files), Alike(in, other),
           IsUnknown(in) <=> IsUnknown(other)
    PROVE  /\ SameScore(Assess(other), Assess(in))
           /\ Assess(other).relationship = Assess(in).relationship
<1>1. Assess(in).unknown = Assess(other).unknown
  BY AssessIs
<1>2. /\ Assess(in).score = Assess(other).score /\ Assess(in).total = Assess(other).total
      /\ Assess(in).relationship = Assess(other).relationship
  <2>1. CASE IsUnknown(in)
    BY <2>1, AssessIs, Zenon
  <2>2. CASE ~IsUnknown(in)
    <3> DEFINE ids == DetectedIdentifiers(in.files)
    <3>1. DetectedIdentifiers(other.files) = ids
      BY DEF Alike
    <3>2. /\ Assess(in).score = ProjectLicense(in) * RelationCertainty(in, ids).certainty * Met(in.files)
          /\ Assess(in).total = Terms(in.files)
          /\ Assess(in).relationship = RelationCertainty(in, ids).operator
      BY <2>2, AssessIs, Zenon
    <3>3. /\ Assess(other).score
               = ProjectLicense(other) * RelationCertainty(other, ids).certainty * Met(other.files)
          /\ Assess(other).total = Terms(other.files)
          /\ Assess(other).relationship = RelationCertainty(other, ids).operator
      BY <2>2, <3>1, AssessIs, Zenon
    <3>. QED  BY <3>2, <3>3, AlikeIs, Zenon
  <2>. QED  BY <2>1, <2>2
<1>3. /\ Assess(in).score \in Nat /\ Assess(in).total \in Nat
      /\ Assess(other).score \in Nat /\ Assess(other).total \in Nat
  BY ScoreIsNumber
<1>4. \A x, y \in Nat : x * y <= x * y
  OBVIOUS
<1>. QED  BY <1>1, <1>2, <1>3, <1>4, Zenon DEF SameScore, AtMost

\* One more file, and its place.
LEMMA OneMoreFile ==
    ASSUME NEW all, FilesAre(all), NEW file \in SomeFiles
    PROVE  LET more == Append(all, file)
               n == Len(all) + 1
           IN  /\ FilesAre(more) /\ n \notin DOMAIN all /\ DOMAIN more = DOMAIN all \cup {n}
               /\ more[n] = file /\ \A i \in DOMAIN all : more[i] = all[i]
<1> DEFINE more == Append(all, file)
           n == Len(all) + 1
<1>1. all \in Seq(SomeFiles)
  BY DEF FilesAre
<1>2. /\ more \in Seq(SomeFiles) /\ Len(more) = n
      /\ more[n] = file /\ \A i \in 1..Len(all) : more[i] = all[i]
  BY <1>1
<1>3. Len(all) \in Nat /\ DOMAIN all = 1..Len(all) /\ DOMAIN more = 1..n
  BY <1>1, <1>2
<1>4. n \notin DOMAIN all /\ DOMAIN more = DOMAIN all \cup {n}
  BY <1>3
<1>. QED  BY <1>2, <1>3, <1>4 DEF FilesAre

\* One more file that is excluded counts for nothing.
LEMMA ExcludedCountsNothing ==
    ASSUME NEW all, FilesAre(all), NEW file \in SomeFiles, ~InScope(file)
    PROVE  LET more == Append(all, file)
           IN  /\ InScopeFiles(more) = InScopeFiles(all)
               /\ DetectedIdentifiers(more) = DetectedIdentifiers(all)
               /\ Best(more) = Best(all)
               /\ LicenseFiles(more) = LicenseFiles(all)
               /\ Resolved(more) = Resolved(all)
               /\ ReadOf(more) = ReadOf(all)
<1> DEFINE more == Append(all, file)
           n == Len(all) + 1
<1>1. /\ n \notin DOMAIN all /\ DOMAIN more = DOMAIN all \cup {n}
      /\ more[n] = file /\ \A i \in DOMAIN all : more[i] = all[i]
  BY OneMoreFile
<1> HIDE DEF more, n
<1>2. InScopeFiles(more) = InScopeFiles(all)
  BY <1>1 DEF InScopeFiles
<1>3. \A i \in InScopeFiles(all) : more[i] = all[i]
  BY <1>1 DEF InScopeFiles
<1>4. DetectedIdentifiers(more) = DetectedIdentifiers(all)
  BY <1>2, <1>3 DEF DetectedIdentifiers
<1>5. Best(more) = Best(all)
  BY <1>2, <1>3 DEF Best
<1>6. Resolved(more) = Resolved(all)
  <2>1. {i \in InScopeFiles(more) : Confident(more[i])} = {i \in InScopeFiles(all) : Confident(all[i])}
    BY <1>2, <1>3
  <2>. QED  BY <2>1 DEF Resolved
<1>7. ReadOf(more) = ReadOf(all)
  BY <1>2, <1>3 DEF ReadOf
<1>. QED  BY <1>2, <1>4, <1>5, <1>6, <1>7 DEF LicenseFiles, more

\* One more text that is not identified with confidence is one more to be met, and
\* changes the best match only where there is no confident one.
LEMMA UnconfidentIsCounted ==
    ASSUME NEW all, FilesAre(all), NEW file \in SomeFiles, InScope(file), ~Confident(file)
    PROVE  LET more == Append(all, file)
           IN  /\ LicenseFiles(more) = LicenseFiles(all) + 1
               /\ Resolved(more) = Resolved(all)
               /\ DetectedIdentifiers(all) \subseteq DetectedIdentifiers(more)
               /\ ReadOf(all) \subseteq ReadOf(more)
               /\ ~file.err => ReadOf(more) # {}
               /\ Best(all) \subseteq Best(more)
               /\ \A y \in Best(more) : y \in Best(all) \/ y < Threshold
<1> DEFINE more == Append(all, file)
           n == Len(all) + 1
<1>1. /\ n \notin DOMAIN all /\ DOMAIN more = DOMAIN all \cup {n}
      /\ more[n] = file /\ \A i \in DOMAIN all : more[i] = all[i]
  BY OneMoreFile
<1> HIDE DEF more, n
<1>2. InScopeFiles(more) = InScopeFiles(all) \cup {n} /\ n \notin InScopeFiles(all)
  BY <1>1 DEF InScopeFiles
<1>3. \A i \in InScopeFiles(all) : more[i] = all[i]
  BY <1>1 DEF InScopeFiles
<1>4. LicenseFiles(more) = LicenseFiles(all) + 1
  <2>1. IsFiniteSet(InScopeFiles(all))
    BY CountsAre
  <2>. QED  BY <1>2, <2>1, FS_AddElement DEF LicenseFiles
<1>5. Resolved(more) = Resolved(all)
  <2>1. {i \in InScopeFiles(more) : Confident(more[i])} = {i \in InScopeFiles(all) : Confident(all[i])}
    BY <1>1, <1>2, <1>3
  <2>. QED  BY <2>1 DEF Resolved
<1>6. DetectedIdentifiers(all) \subseteq DetectedIdentifiers(more)
  BY <1>2, <1>3 DEF DetectedIdentifiers
<1>7. ReadOf(all) \subseteq ReadOf(more) /\ (~file.err => ReadOf(more) # {})
  BY <1>1, <1>2, <1>3 DEF ReadOf
<1>8. Best(all) \subseteq Best(more)
  BY <1>2, <1>3 DEF Best
<1>9. ASSUME NEW y \in Best(more)  PROVE y \in Best(all) \/ y < Threshold
  <2>1. PICK i \in InScopeFiles(more) : Identified(more[i]) /\ y = more[i].matches[1].confidence
    BY <1>9 DEF Best
  <2>2. CASE i = n
    <3>1. Identified(file) /\ y = file.matches[1].confidence /\ ~(y >= Threshold)
      BY <1>1, <2>1, <2>2 DEF Confident
    <3>2. y \in 0..100 /\ Threshold \in 1..100
      BY <3>1, FilesHaveMatches, EvidenceAssumption
    <3>. QED  BY <3>1, <3>2
  <2>3. CASE i # n
    BY <1>2, <1>3, <2>1, <2>3 DEF Best
  <2>. QED  BY <2>2, <2>3
<1>. QED  BY <1>4, <1>5, <1>6, <1>7, <1>8, <1>9 DEF more

\* More identifiers are composed by no more manifests.
LEMMA MoreIsLessCertain ==
    ASSUME NEW in, NEW other, in.manifests = other.manifests, in.prose = other.prose,
           NEW ids, NEW more, ids \subseteq more, IsFiniteSet(more)
    PROVE  RelationCertainty(other, more).certainty <= RelationCertainty(in, ids).certainty
<1>1. /\ RelationCertainty(in, ids).certainty \in {0, 95, 100}
      /\ RelationCertainty(other, more).certainty \in {0, 95, 100}
  BY RelationIs
<1>2. Cardinality(ids) \in Nat /\ Cardinality(more) \in Nat /\ Cardinality(ids) <= Cardinality(more)
  BY PartIsFinite
<1>3. SomeManifestComposes(in.manifests, more) => SomeManifestComposes(in.manifests, ids)
  BY DEF SomeManifestComposes, Composes
<1>4. Relation(100, "").certainty = 100
  BY DEF Relation
<1>5. CASE Cardinality(ids) < 2 \/ SomeManifestComposes(in.manifests, ids)
  <2>1. RelationCertainty(in, ids) = Relation(100, "")
    BY <1>5 DEF RelationCertainty
  <2>2. RelationCertainty(in, ids).certainty = 100
    BY <1>4, <2>1, Zenon
  <2>. QED  BY <1>1, <2>2
<1>6. CASE ~(Cardinality(ids) < 2) /\ ~SomeManifestComposes(in.manifests, ids)
  <2>1. ~(Cardinality(more) < 2) /\ ~SomeManifestComposes(other.manifests, more)
    BY <1>2, <1>3, <1>6
  <2>2. RelationCertainty(other, more) = RelationCertainty(in, ids)
    BY <1>6, <2>1 DEF RelationCertainty
  <2>. QED  BY <1>1, <2>2
<1>. QED  BY <1>5, <1>6

LEMMA AtMostIs ==
    ASSUME NEW p \in Nat, NEW c \in Nat, NEW d \in Nat, d <= c, NEW r \in Nat, NEW t \in Nat
    PROVE  (p * d * r) * t <= (p * c * r) * (t + 1)
<1>1. (p * r) * t \in Nat /\ p * r \in Nat
  OBVIOUS
<1>2. d * ((p * r) * t) <= c * ((p * r) * t)
  BY <1>1
<1>3. c * (p * r) \in Nat
  BY <1>1
<1>4. (p * d * r) * t = d * ((p * r) * t)
  OBVIOUS
<1>5. (p * c * r) * (t + 1) = c * ((p * r) * t) + c * (p * r)
  OBVIOUS
<1>6. c * ((p * r) * t) \in Nat /\ d * ((p * r) * t) \in Nat
  BY <1>1
<1>. QED  BY <1>2, <1>3, <1>4, <1>5, <1>6

\* The text that is not identified, added to what was known of the others.
LEMMA UnconfidentIsWorse ==
    ASSUME NEW in, NEW other, FilesAre(in.files), NEW file \in SomeFiles,
           InScope(file), ~Confident(file), other.files = Append(in.files, file),
           other.manifests = in.manifests, other.prose = in.prose,
           ~IsUnknown(in), ~IsUnknown(other)
    PROVE  /\ AtMost(Assess(other), Assess(in))
           /\ "unidentified-text" \in Assess(other).flags
<1> DEFINE L == LicenseFiles(in.files)
           R == Resolved(in.files)
           ids == DetectedIdentifiers(in.files)
           more == DetectedIdentifiers(other.files)
           p == ProjectLicense(in)
           q == ProjectLicense(other)
           c == RelationCertainty(in, ids).certainty
           d == RelationCertainty(other, more).certainty
<1>1. /\ LicenseFiles(other.files) = L + 1 /\ Resolved(other.files) = R
      /\ ids \subseteq more
      /\ Best(in.files) \subseteq Best(other.files)
      /\ \A y \in Best(other.files) : y \in Best(in.files) \/ y < Threshold
  BY UnconfidentIsCounted
<1>2. FilesAre(other.files)
  BY OneMoreFile
<1>3. L \in Nat /\ R \in Nat /\ R <= L
  BY CountsAre
<1>4. p \in 0..100 /\ q \in 0..100
  BY <1>2, ProjectLicenseIs
<1>5. c \in {0, 95, 100} /\ d \in {0, 95, 100}
  BY RelationIs
<1>6. d <= c
  BY <1>1, <1>2, IdentifiersAreFinite, MoreIsLessCertain
<1>7. Assess(other).score = q * d * R /\ Assess(other).total = L + 1
  <2>1. Met(other.files) = R /\ Terms(other.files) = L + 1
    BY <1>1, <1>3 DEF Met, Terms
  <2>. QED  BY <2>1, AssessIs, Zenon
<1>8. /\ Assess(in).score = p * c * Met(in.files) /\ Assess(in).total = Terms(in.files)
  BY AssessIs, Zenon
<1>9. "unidentified-text" \in Assess(other).flags
  <2>1. Assess(other).flags = Flags(other, more)
    BY AssessIs, Zenon
  <2>2. Resolved(other.files) < LicenseFiles(other.files)
    BY <1>1, <1>3
  <2>. QED  BY <2>1, <2>2, FlagsAre, Zenon
<1>10. Assess(in).score \in Nat /\ Assess(in).total \in Nat
  BY ScoreIsNumber
<1>11. CASE R = 0
  <2>1. Assess(other).score = 0
    <3> HIDE DEF q, d, R
    <3>. QED  BY <1>4, <1>5, <1>7, <1>11
  <2>2. 0 * Assess(in).total <= Assess(in).score * Assess(other).total
    <3>1. \A x, y, z \in Nat : 0 * z <= x * (y + 1)
      OBVIOUS
    <3> HIDE DEF L
    <3>. QED  BY <1>3, <1>7, <1>10, <3>1
  <2>. QED  BY <1>9, <2>1, <2>2, Zenon DEF AtMost
<1>12. CASE R # 0
  <2>1. Met(in.files) = R /\ Terms(in.files) = L
    BY <1>3, <1>12 DEF Met, Terms
  <2>2. p = q
    <3>1. /\ Best(in.files) \in SUBSET (0..100) /\ Best(other.files) \in SUBSET (0..100)
          /\ Threshold \in 1..100
      BY <1>2, BestIs, EvidenceAssumption
    <3>2. PICK best \in Best(in.files) : ~(best < Threshold)
      BY <1>12, BestIs
    <3>3. p \in Best(in.files) /\ \A y \in Best(in.files) : y <= p
      BY <3>2, ProjectLicenseIs
    <3>4. q \in Best(other.files) /\ \A y \in Best(other.files) : y <= q
      BY <1>1, <1>2, <3>2, ProjectLicenseIs
    <3>5. p <= q /\ best <= p
      BY <1>1, <3>2, <3>3, <3>4
    <3>6. q \in Best(in.files)
      <4> HIDE DEF p, q
      <4>. QED  BY <1>1, <1>4, <3>1, <3>2, <3>4, <3>5
    <3>7. q <= p
      BY <3>3, <3>6
    <3> HIDE DEF p, q
    <3>. QED  BY <1>4, <3>5, <3>7
  <2>3. (p * d * R) * L <= (p * c * R) * (L + 1)
    <3> HIDE DEF p, d, c, R, L
    <3>1. p \in Nat /\ c \in Nat /\ d \in Nat
      BY <1>4, <1>5
    <3>. QED  BY <1>3, <1>6, <3>1, AtMostIs
  <2>. QED  BY <1>7, <1>8, <1>9, <2>1, <2>2, <2>3, Zenon DEF AtMost
<1>. QED  BY <1>11, <1>12

\* The same evidence in the opposite order.
LEMMA BackwardsIs ==
    ASSUME NEW all, FilesAre(all)
    PROVE  LET back == Reverse(all)
           IN  /\ DetectedIdentifiers(back) = DetectedIdentifiers(all)
               /\ Best(back) = Best(all)
               /\ LicenseFiles(back) = LicenseFiles(all)
               /\ Resolved(back) = Resolved(all)
               /\ ReadOf(back) = {} <=> ReadOf(all) = {}
               /\ InScopeFiles(back) = {} <=> InScopeFiles(all) = {}
<1> DEFINE back == Reverse(all)
           n == Len(all)
           flip == [i \in DOMAIN all |-> (n - i) + 1]
<1>1. n \in Nat /\ DOMAIN all = 1..n /\ DOMAIN back = 1..n
  BY CountsAre DEF Reverse
<1>2. \A i \in DOMAIN all : /\ flip[i] \in DOMAIN all /\ flip[flip[i]] = i
                            /\ back[flip[i]] = all[i] /\ back[i] = all[flip[i]]
  <2>1. \A i \in 1..n : (n - i) + 1 \in 1..n /\ (n - ((n - i) + 1)) + 1 = i
    BY <1>1
  <2>2. \A i \in 1..n : back[i] = all[(n - i) + 1]
    BY DEF Reverse
  <2> HIDE DEF back, n
  <2>. QED  BY <1>1, <2>1, <2>2
<1>3. DOMAIN back = DOMAIN all
  BY <1>1
<1> HIDE DEF back, n, flip
<1>4. \A i \in InScopeFiles(all) : flip[i] \in InScopeFiles(back) /\ back[flip[i]] = all[i]
  BY <1>2, <1>3 DEF InScopeFiles
<1>5. \A i \in InScopeFiles(back) : flip[i] \in InScopeFiles(all) /\ all[flip[i]] = back[i]
  BY <1>2, <1>3 DEF InScopeFiles
<1>6. DetectedIdentifiers(back) = DetectedIdentifiers(all)
  BY <1>4, <1>5 DEF DetectedIdentifiers
<1>7. Best(back) = Best(all)
  BY <1>4, <1>5 DEF Best
<1>8. /\ ReadOf(back) = {} <=> ReadOf(all) = {}
      /\ InScopeFiles(back) = {} <=> InScopeFiles(all) = {}
  BY <1>4, <1>5 DEF ReadOf
<1>9. ASSUME NEW S \in SUBSET DOMAIN all, NEW T \in SUBSET DOMAIN all,
             \A i \in S : flip[i] \in T, \A i \in T : flip[i] \in S
      PROVE  Cardinality(T) = Cardinality(S)
  <2> DEFINE f == [i \in S |-> flip[i]]
  <2>1. f \in Surjection(S, T)
    BY <1>2, <1>9 DEF Surjection
  <2>2. f \in Injection(S, T)
    <3>1. \A i, j \in S : flip[i] = flip[j] => i = j
      BY <1>2
    <3>. QED  BY <1>9, <3>1 DEF Injection, IsInjective
  <2>3. IsFiniteSet(S)
    BY <1>1, FS_Interval, FS_Subset
  <2> HIDE DEF f
  <2>. QED  BY <2>1, <2>2, <2>3, FS_Surjection
<1>10. LicenseFiles(back) = LicenseFiles(all)
  <2>1. InScopeFiles(all) \in SUBSET DOMAIN all /\ InScopeFiles(back) \in SUBSET DOMAIN all
    BY <1>3 DEF InScopeFiles
  <2>. QED  BY <1>4, <1>5, <1>9, <2>1 DEF LicenseFiles
<1>11. Resolved(back) = Resolved(all)
  <2> DEFINE S == {i \in InScopeFiles(all) : Confident(all[i])}
             T == {i \in InScopeFiles(back) : Confident(back[i])}
  <2>1. S \in SUBSET DOMAIN all /\ T \in SUBSET DOMAIN all
    BY <1>3 DEF InScopeFiles
  <2>2. (\A i \in S : flip[i] \in T) /\ (\A i \in T : flip[i] \in S)
    BY <1>4, <1>5
  <2> HIDE DEF S, T
  <2>3. Cardinality(T) = Cardinality(S)
    BY <1>9, <2>1, <2>2
  <2>. QED  BY <2>3 DEF Resolved, S, T
<1>. QED  BY <1>6, <1>7, <1>8, <1>10, <1>11 DEF back

LEMMA ProseBackwards ==
    ASSUME NEW hints \in Seq(SomeProse)
    PROVE  /\ Reverse(hints) = <<>> <=> hints = <<>>
           /\ ChoiceOfLicense(Reverse(hints)) <=> ChoiceOfLicense(hints)
<1> DEFINE back == Reverse(hints)
           n == Len(hints)
<1>1. n \in Nat /\ DOMAIN hints = 1..n /\ DOMAIN back = 1..n
  BY DEF Reverse
<1>2. \A i \in 1..n : (n - i) + 1 \in 1..n /\ (n - ((n - i) + 1)) + 1 = i
  BY <1>1
<1>3. \A i \in 1..n : back[i] = hints[(n - i) + 1]
  BY DEF Reverse
<1>4. ChoiceOfLicense(back) <=> ChoiceOfLicense(hints)
  <2> HIDE DEF back, n
  <2>. QED  BY <1>1, <1>2, <1>3 DEF ChoiceOfLicense
<1>5. Reverse(hints) = <<>> <=> hints = <<>>
  <2>1. hints = <<>> <=> n = 0
    OBVIOUS
  <2>2. back \in Seq(SomeProse) /\ Len(back) = n
    <3>1. \A i \in 1..n : hints[(n - i) + 1] \in SomeProse
      BY <1>2
    <3>. QED  BY <1>1, <3>1 DEF Reverse
  <2>3. back = <<>> <=> n = 0
    <3> HIDE DEF back, n
    <3>. QED  BY <2>2
  <2>. QED  BY <2>1, <2>3
<1>. QED  BY <1>4, <1>5

\* A mention of a license, after the others.
LEMMA OneMoreMention ==
    ASSUME NEW hints \in Seq(SomeProse), NEW hint \in SomeProse
    PROVE  /\ Append(hints, hint) # <<>>
           /\ ChoiceOfLicense(Append(hints, hint)) <=> ChoiceOfLicense(hints) \/ hint.choice
<1> DEFINE more == Append(hints, hint)
           n == Len(hints) + 1
<1>1. Len(hints) \in Nat /\ DOMAIN hints = 1..Len(hints) /\ DOMAIN more = 1..n /\ more # <<>>
  OBVIOUS
<1>2. more[n] = hint /\ \A i \in DOMAIN hints : more[i] = hints[i]
  BY <1>1
<1>3. DOMAIN more = DOMAIN hints \cup {n}
  BY <1>1
<1> HIDE DEF more, n
<1>4. ChoiceOfLicense(more) <=> ChoiceOfLicense(hints) \/ hint.choice
  BY <1>2, <1>3 DEF ChoiceOfLicense
<1>. QED  BY <1>1, <1>4 DEF more

\* Every step but of the evidence that it finds.
LEMMA FindIs ==
    ASSUME AssessInv, Find
    PROVE  \/ /\ UNCHANGED <<files, root, prose>> /\ incomplete \subseteq incomplete'
           \/ \E file \in SomeFiles : /\ files' = Append(files, file)
                                      /\ UNCHANGED <<root, prose, incomplete, declared>>
           \/ UNCHANGED <<files, prose, incomplete, declared>>
           \/ \E hint \in SomeProse : /\ prose' = Append(prose, hint)
                                      /\ UNCHANGED <<files, root, incomplete, declared>>
BY DEF Find, Declare, Classify, ReadDocument, ReadProse, Lose

\* What was added to a sequence is known from the result.
LEMMA LongerIsAnother ==
    ASSUME NEW S, NEW s \in Seq(S), NEW x \in S
    PROVE  /\ Append(s, x) # s
           /\ \A y \in S : Append(s, x) = Append(s, y) => x = y
<1>1. Len(s) \in Nat /\ Len(Append(s, x)) = Len(s) + 1
  OBVIOUS
<1>2. \A y \in S : Append(s, y)[Len(s) + 1] = y
  OBVIOUS
<1>3. Append(s, x) # s
  BY <1>1
<1>4. \A y \in S : Append(s, x) = Append(s, y) => x = y
  BY <1>2
<1>. QED  BY <1>3, <1>4

LEMMA StepIs ==
    ASSUME AssessInv, AssessInv'
    PROVE  LET in == Input(evidence)
               next == Input(evidence')
           IN  /\ in.files = files /\ in.manifests = Manifests(root) /\ in.prose = prose
               /\ in.incomplete = incomplete /\ in.declared = declared
               /\ next.files = files' /\ next.manifests = Manifests(root') /\ next.prose = prose'
               /\ next.incomplete = incomplete' /\ next.declared = declared'
               /\ assessment = Assess(in) /\ assessment' = Assess(next)
               /\ FilesAre(files) /\ FilesAre(files')
<1>1. LET in == Input(evidence)
      IN  /\ in.files = files /\ in.manifests = Manifests(root) /\ in.prose = prose
          /\ in.incomplete = incomplete /\ in.declared = declared
  BY InputIs
<1>2. LET next == Input(evidence')
      IN  /\ next.files = files' /\ next.manifests = Manifests(root') /\ next.prose = prose'
          /\ next.incomplete = incomplete' /\ next.declared = declared'
  BY DEF Input, evidence
<1>3. /\ assessment = Assess(Input(evidence)) /\ assessment' = Assess(Input(evidence'))
      /\ FilesAre(files) /\ FilesAre(files')
  BY DEF AssessInv, FilesAre
<1>. QED  BY <1>1, <1>2, <1>3

\* Nothing but evidence about the component itself moves a score, by what it is
\* worth and in whatever order it is found (Assess): the counts, the best match and
\* the relation before and after each piece of it.
THEOREM OnlyEvidenceScores == Spec => OnlyEvidenceMoves
<1> DEFINE in == Input(evidence)
           next == Input(evidence')
<1>1. ASSUME AssessInv  PROVE OrderIsIrrelevant
  <2> DEFINE back == [in EXCEPT !.files = Reverse(@), !.prose = Reverse(@)]
  <2>1. /\ in.files = files /\ in.manifests = Manifests(root) /\ in.prose = prose
        /\ in.incomplete = incomplete /\ in.declared = declared
    BY InputIs
  <2>2. /\ back.files = Reverse(files) /\ back.manifests = Manifests(root)
        /\ back.prose = Reverse(prose) /\ back.incomplete = incomplete /\ back.declared = declared
    BY DEF Input, evidence
  <2>3. FilesAre(files) /\ prose \in Seq(SomeProse) /\ assessment = Assess(in)
    BY <1>1 DEF AssessInv
  <2>4. Alike(in, back) /\ ReadAlike(in, back)
    <3> HIDE DEF in, back
    <3>. QED  BY <2>1, <2>2, <2>3, BackwardsIs, ProseBackwards DEF Alike, ReadAlike
  <2> HIDE DEF in, back
  <2>5. IsUnknown(in) <=> IsUnknown(back)
    BY <2>1, <2>2, <2>4, UnknownIs
  <2>6. \A ids : Flags(in, ids) = Flags(back, ids)
    <3>1. /\ \A ids : RelationCertainty(in, ids) = RelationCertainty(back, ids)
          /\ Resolved(in.files) = Resolved(back.files)
          /\ LicenseFiles(in.files) = LicenseFiles(back.files)
          /\ in.declared = back.declared
      BY <2>1, <2>2, <2>4, AlikeIs DEF Alike
    <3>2. \A ids : Flags(in, ids) \subseteq AllFlags /\ Flags(back, ids) \subseteq AllFlags
      BY DEF Flags
    <3>3. ASSUME NEW ids, NEW flag \in AllFlags
          PROVE  flag \in Flags(in, ids) <=> flag \in Flags(back, ids)
      <4>1. CASE flag = "relationship-ambiguous"
        BY <3>1, <4>1, FlagsAre
      <4>2. CASE flag = "unidentified-text"
        BY <3>1, <4>2, FlagsAre
      <4>3. CASE flag = "declared-conflict"
        BY <3>1, <4>3, FlagsAre
      <4>. QED  BY <4>1, <4>2, <4>3 DEF AllFlags
    <3>. QED  BY <3>2, <3>3
  <2>7. /\ DetectedIdentifiers(in.files) = DetectedIdentifiers(back.files)
        /\ LicenseFiles(in.files) = LicenseFiles(back.files)
        /\ Resolved(in.files) = Resolved(back.files)
    BY <2>4 DEF Alike
  <2>8. Unknown(in.files) = Unknown(back.files)
    BY <2>7, Zenon DEF Unknown
  <2>9. Assess(back) = Assess(in)
    <3>1. /\ ProjectLicense(in) = ProjectLicense(back)
          /\ \A ids : RelationCertainty(in, ids) = RelationCertainty(back, ids)
      BY <2>4, AlikeIs
    <3>. QED  BY <2>5, <2>6, <2>7, <2>8, <3>1, Zenon DEF Assess
  <2>. QED  BY <2>3, <2>9 DEF OrderIsIrrelevant, in, back
<1>2. ASSUME AssessInv, AssessInv', Find  PROVE UnidentifiedNeverHelps
  <2> SUFFICES ASSUME NEW file \in SomeFiles, FoundFile(file), InScope(file), ~Confident(file),
                      ~assessment.unknown
               PROVE  IF assessment'.unknown THEN file.err /\ ~SomethingRead
                      ELSE AtMost(assessment', assessment) /\ "unidentified-text" \in assessment'.flags
    BY DEF UnidentifiedNeverHelps
  <2>1. files' = Append(files, file) /\ files' # files
    BY <1>2, LongerIsAnother DEF FoundFile, AssessInv, FilesAre
  <2>2. UNCHANGED <<root, prose, incomplete, declared>>
    BY <1>2, <2>1, FindIs
  <2>3. /\ in.files = files /\ in.manifests = Manifests(root) /\ in.prose = prose
        /\ in.incomplete = incomplete
        /\ next.files = files' /\ next.manifests = Manifests(root') /\ next.prose = prose'
        /\ next.incomplete = incomplete'
        /\ assessment = Assess(in) /\ assessment' = Assess(next)
        /\ FilesAre(files) /\ FilesAre(files')
    BY <1>2, StepIs
  <2> HIDE DEF in, next
  <2>4. /\ ~IsUnknown(in) /\ assessment'.unknown \in BOOLEAN
        /\ assessment'.unknown <=> IsUnknown(next)
    BY <2>3, AssessIs
  <2>5. next.files = Append(in.files, file) /\ next.manifests = in.manifests /\ next.prose = in.prose
    BY <2>1, <2>2, <2>3
  <2>6. CASE IsUnknown(next)
    <3>1. /\ ReadOf(files) \subseteq ReadOf(files') /\ (~file.err => ReadOf(files') # {})
      BY <2>1, <2>3, UnconfidentIsCounted
    <3>2. ReadOf(files') = {} /\ DOMAIN Manifests(root) = {} /\ prose = <<>>
      BY <2>2, <2>3, <2>6 DEF IsUnknown
    <3>. QED  BY <2>4, <2>6, <3>1, <3>2 DEF SomethingRead
  <2>7. CASE ~IsUnknown(next)
    BY <2>3, <2>4, <2>5, <2>7, UnconfidentIsWorse
  <2>. QED  BY <2>6, <2>7
<1>3. ASSUME AssessInv, AssessInv', Find  PROVE OnlyContentScores
  <2> SUFFICES ASSUME \/ incomplete' # incomplete
                      \/ declared' # declared
                      \/ \E file \in SomeFiles : FoundFile(file) /\ ~InScope(file)
               PROVE  IF SomethingRead \/ incomplete' = {}
                      THEN SameScore(assessment', assessment)
                           /\ assessment'.relationship = assessment.relationship
                      ELSE assessment'.unknown
    BY DEF OnlyContentScores
  <2>1. /\ in.files = files /\ in.manifests = Manifests(root) /\ in.prose = prose
        /\ in.incomplete = incomplete
        /\ next.files = files' /\ next.manifests = Manifests(root') /\ next.prose = prose'
        /\ next.incomplete = incomplete'
        /\ assessment = Assess(in) /\ assessment' = Assess(next)
        /\ FilesAre(files) /\ FilesAre(files')
    BY <1>3, StepIs
  <2> HIDE DEF in, next
  <2>2. /\ UNCHANGED <<root, prose>> /\ incomplete \subseteq incomplete'
        /\ \/ files' = files
           \/ \E file \in SomeFiles : files' = Append(files, file) /\ ~InScope(file)
    <3>1. ASSUME NEW file \in SomeFiles, FoundFile(file), ~InScope(file)
          PROVE  files' = Append(files, file) /\ UNCHANGED <<root, prose, incomplete>>
      <4>1. files' = Append(files, file) /\ files' # files
        BY <2>1, <3>1, LongerIsAnother DEF FoundFile, FilesAre
      <4>. QED  BY <1>3, <4>1, FindIs
    <3>2. CASE incomplete' # incomplete \/ declared' # declared
      BY <1>3, <3>2, FindIs
    <3>. QED  BY <3>1, <3>2
  <2>3. Alike(in, next) /\ ReadAlike(in, next)
    <3>1. CASE files' = files
      BY <2>1, <2>2, <3>1 DEF Alike, ReadAlike
    <3>2. ASSUME NEW file \in SomeFiles, files' = Append(files, file), ~InScope(file)
          PROVE  Alike(in, next) /\ ReadAlike(in, next)
      <4>1. /\ InScopeFiles(files') = InScopeFiles(files)
            /\ DetectedIdentifiers(files') = DetectedIdentifiers(files)
            /\ Best(files') = Best(files)
            /\ LicenseFiles(files') = LicenseFiles(files)
            /\ Resolved(files') = Resolved(files)
            /\ ReadOf(files') = ReadOf(files)
        BY <2>1, <3>2, ExcludedCountsNothing
      <4>. QED  BY <2>1, <2>2, <4>1, Zenon DEF Alike, ReadAlike
    <3>. QED  BY <2>2, <3>1, <3>2
  <2>4. /\ SomethingReadOf(in) <=> SomethingReadOf(next)
        /\ SomethingReadOf(in) => ~IsUnknown(in)
        /\ (in.incomplete = {} <=> next.incomplete = {}) => (IsUnknown(in) <=> IsUnknown(next))
    BY <2>3, UnknownIs
  <2>5. /\ Alike(next, in) /\ ReadAlike(next, in)
    BY <2>3 DEF Alike, ReadAlike
  <2>6. /\ SomethingReadOf(next) => ~IsUnknown(next)
        /\ ~SomethingReadOf(next) /\ next.incomplete # {} => IsUnknown(next)
    BY <2>5, UnknownIs
  <2>7. SomethingRead <=> SomethingReadOf(in)
    BY <2>1 DEF SomethingRead, SomethingReadOf
  <2>8. CASE SomethingRead \/ incomplete' = {}
    <3>1. IsUnknown(in) <=> IsUnknown(next)
      BY <2>1, <2>2, <2>4, <2>6, <2>7, <2>8
    <3>. QED  BY <2>1, <2>3, <2>8, <3>1, AlikeScoresSame
  <2>9. CASE ~(SomethingRead \/ incomplete' = {})
    <3>1. IsUnknown(next)
      BY <2>1, <2>4, <2>6, <2>7, <2>9
    <3>. QED  BY <2>1, <2>9, <3>1, AssessIs
  <2>. QED  BY <2>8, <2>9
<1>4. ASSUME AssessInv, AssessInv', Find  PROVE ProseOnlySettles
  <2> DEFINE Named == \E i \in DOMAIN Manifests(root) : Manifests(root)[i].license # <<>>
  <2> SUFFICES ASSUME NEW hint \in SomeProse, prose' = Append(prose, hint),
                      ~assessment.unknown, Own # {} \/ Named
               PROVE  \/ SameScore(assessment', assessment)
                         /\ assessment'.relationship = assessment.relationship
                      \/ Ambiguous /\ hint.choice /\ assessment'.relationship = "OR"
    BY DEF ProseOnlySettles
  <2>1. prose \in Seq(SomeProse)
    BY <1>4 DEF AssessInv
  <2>2. /\ prose' # <<>> /\ prose' # prose
        /\ ChoiceOfLicense(prose') <=> ChoiceOfLicense(prose) \/ hint.choice
    BY <2>1, OneMoreMention, LongerIsAnother
  <2>3. UNCHANGED <<files, root, incomplete, declared>>
    BY <1>4, <2>2, FindIs
  <2>4. /\ in.files = files /\ in.manifests = Manifests(root) /\ in.prose = prose
        /\ next.files = files' /\ next.manifests = Manifests(root') /\ next.prose = prose'
        /\ assessment = Assess(in) /\ assessment' = Assess(next)
        /\ FilesAre(files)
    BY <1>4, StepIs
  <2> HIDE DEF in, next
  <2>5. next.files = in.files /\ next.manifests = in.manifests /\ FilesAre(in.files)
    BY <2>3, <2>4
  <2>6. ~IsUnknown(in) /\ ~IsUnknown(next)
    <3>1. ~IsUnknown(in)
      BY <2>4, AssessIs
    <3>2. ~IsUnknown(next)
      BY <2>2, <2>4 DEF IsUnknown
    <3>. QED  BY <3>1, <3>2
  <2> DEFINE ids == DetectedIdentifiers(in.files)
             c == RelationCertainty(in, ids)
             d == RelationCertainty(next, ids)
  <2>7. /\ assessment.score = ProjectLicense(in) * c.certainty * Met(in.files)
        /\ assessment.total = Terms(in.files) /\ assessment.relationship = c.operator
        /\ assessment.flags = Flags(in, ids) /\ assessment.unknown = FALSE
    BY <2>4, <2>6, AssessIs
  <2>8. /\ assessment'.score = ProjectLicense(next) * d.certainty * Met(in.files)
        /\ assessment'.total = Terms(in.files) /\ assessment'.relationship = d.operator
        /\ assessment'.unknown = FALSE
    BY <2>4, <2>5, <2>6, AssessIs
  <2>9. c.certainty = 0 => Ambiguous
    BY <2>7, FlagsAre DEF Ambiguous
  <2>10. /\ c.certainty \in {0, 95, 100} /\ d.certainty \in {0, 95, 100}
    BY RelationIs
  <2>11. d = c \/ (c.certainty = 0 /\ hint.choice /\ d.operator = "OR")
    <3>1. CASE Cardinality(ids) < 2 \/ SomeManifestComposes(in.manifests, ids)
      BY <2>5, <3>1 DEF RelationCertainty
    <3>2. CASE ~(Cardinality(ids) < 2 \/ SomeManifestComposes(in.manifests, ids))
      <4>1. /\ c = IF ChoiceOfLicense(prose) THEN Relation(95, "OR") ELSE Relation(0, "")
            /\ d = IF ChoiceOfLicense(prose') THEN Relation(95, "OR") ELSE Relation(0, "")
        BY <2>4, <2>5, <3>2 DEF RelationCertainty, ProseChoiceCredit
      <4>2. CASE ChoiceOfLicense(prose) <=> ChoiceOfLicense(prose')
        <5>1. CASE ChoiceOfLicense(prose)
          BY <4>1, <4>2, <5>1, Zenon
        <5>2. CASE ~ChoiceOfLicense(prose)
          BY <4>1, <4>2, <5>2, Zenon
        <5>. QED  BY <5>1, <5>2
      <4>3. CASE ~(ChoiceOfLicense(prose) <=> ChoiceOfLicense(prose'))
        <5>1. ~ChoiceOfLicense(prose) /\ ChoiceOfLicense(prose') /\ hint.choice
          BY <2>2, <4>3
        <5>2. c = Relation(0, "") /\ d = Relation(95, "OR")
          BY <4>1, <5>1, Zenon
        <5>3. Relation(0, "").certainty = 0 /\ Relation(95, "OR").operator = "OR"
          BY DEF Relation
        <5>. QED  BY <5>1, <5>2, <5>3, Zenon
      <4>. QED  BY <4>2, <4>3
    <3>. QED  BY <3>1, <3>2
  <2>12. ProjectLicense(in) \in 0..100 /\ ProjectLicense(next) \in 0..100
    BY <2>5, ProjectLicenseIs
  <2>13. ProjectLicense(next) = ProjectLicense(in) \/ Met(in.files) = 0
    <3>1. CASE Best(in.files) # {}
      BY <2>5, <3>1 DEF ProjectLicense
    <3>2. CASE Best(in.files) = {} /\ Named
      BY <2>4, <2>5, <3>2 DEF ProjectLicense
    <3>3. CASE Best(in.files) = {} /\ Own # {}
      <4>1. Resolved(in.files) = 0
        BY <2>5, <3>3, BestIs
      <4>2. LicenseFiles(in.files) # 0
        BY <2>4, <2>5, <3>3, CountsAre DEF Own
      <4>. QED  BY <2>5, <4>1, <4>2 DEF Met
    <3>. QED  BY <3>1, <3>2, <3>3
  <2>14. Met(in.files) \in Nat /\ Terms(in.files) \in Nat
    BY <2>5, TermsAre
  <2>15. CASE d = c
    <3>1. assessment'.score = assessment.score
      <4>1. CASE ProjectLicense(next) = ProjectLicense(in)
        BY <2>7, <2>8, <2>15, <4>1, Zenon
      <4>2. CASE Met(in.files) = 0
        <5>1. assessment.score = ProjectLicense(in) * c.certainty * 0
          BY <2>7, <4>2, Zenon
        <5>2. assessment'.score = ProjectLicense(next) * c.certainty * 0
          BY <2>8, <2>15, <4>2, Zenon
        <5>3. \A x, y \in Nat : x * y * 0 = 0
          OBVIOUS
        <5>4. c.certainty \in Nat /\ ProjectLicense(in) \in Nat /\ ProjectLicense(next) \in Nat
          <6>1. \A x \in {0, 95, 100} : x \in Nat
            OBVIOUS
          <6>2. \A x \in 0..100 : x \in Nat
            OBVIOUS
          <6>. QED  BY <2>10, <2>12, <6>1, <6>2, ZenonT(30)
        <5>. QED  BY <5>1, <5>2, <5>3, <5>4, Zenon
      <4>. QED  BY <2>13, <4>1, <4>2
    <3>2. assessment'.total = assessment.total /\ assessment'.relationship = assessment.relationship
          /\ assessment'.unknown = assessment.unknown
      BY <2>7, <2>8, <2>15, Zenon
    <3>3. assessment.score \in Nat /\ assessment.total \in Nat
      BY <2>4, <2>5, ScoreIsNumber
    <3>4. \A x, y \in Nat : x * y <= x * y
      OBVIOUS
    <3>. QED  BY <3>1, <3>2, <3>3, <3>4, Zenon DEF SameScore, AtMost
  <2>16. CASE c.certainty = 0 /\ hint.choice /\ d.operator = "OR"
    BY <2>8, <2>9, <2>16, Zenon
  <2>. QED  BY <2>11, <2>15, <2>16
<1>5. AssessInv /\ AssessInv' /\ [Next]_vars
        => [UnidentifiedNeverHelps /\ OnlyContentScores /\ ProseOnlySettles]_vars
  BY <1>2, <1>3, <1>4 DEF Next
<1>6. AssessInv => OrderIsIrrelevant
  BY <1>1
<1>. QED  BY <1>5, <1>6, AssessInvHolds, PTL DEF Spec, OnlyEvidenceMoves

-----------------------------------------------------------------------------
(* A choice of alternatives.                                               *)

\* The turns of joining values.
Joining(op, values) ==
    CHOOSE joined : joined =
        [i \in 0..Len(values) |->
            IF i = 0 THEN <<>> ELSE JoinTurn(op, values[i], joined[i - 1])]

LEMMA JoiningIs ==
    ASSUME NEW op \in Tokens, NEW values \in Seq(Texts)
    PROVE  /\ JoinedBy(op, values) = Joining(op, values)[Len(values)]
           /\ Joining(op, values)[0] = <<>>
           /\ \A n \in 1..Len(values) :
                 Joining(op, values)[n] = JoinTurn(op, values[n], Joining(op, values)[n - 1])
           /\ \A n \in 0..Len(values) : Joining(op, values)[n] \in Texts
<1> DEFINE N == Len(values)
           T(n, x) == JoinTurn(op, values[n], x)
           step == [n \in 1..N |-> [x \in Texts |-> T(n, x)]]
           next(f) == [n \in 0..N |-> IF n = 0 THEN <<>> ELSE T(n, f[n - 1])]
           R == Turns(N, <<>>, step)
           u == Joining(op, values)
<1>1. N \in Nat /\ <<>> \in Texts
  BY LenProperties, EmptySeq DEF Texts
<1>2. \A n \in 1..N : values[n] \in Texts
  BY ElementOfSeq
<1>3. \A n \in 1..N : \A x \in Texts : T(n, x) \in Texts
  <2> SUFFICES ASSUME NEW n \in 1..N, NEW x \in Texts  PROVE JoinTurn(op, values[n], x) \in Texts
    OBVIOUS
  <2> DEFINE value == values[n]
  <2>1. value \in Texts
    BY <1>2
  <2>2. <<op>> \in Texts
    BY Concat
  <2>. HIDE DEF value
  <2>3. x \o <<op>> \o value \in Texts
    BY <2>1, <2>2, Concat
  <2>4. JoinTurn(op, value, x) \in Texts
    BY <2>1, <2>3 DEF JoinTurn
  <2>. QED  BY <2>4 DEF value
<1>4. R \in [0..N -> Texts] /\ R[0] = <<>> /\ \A n \in 1..N : R[n] = step[n][R[n - 1]]
  <2>1. step \in [1..N -> [Texts -> Texts]]
    <3>. HIDE DEF T
    <3>. QED  BY <1>3
  <2>. HIDE DEF step, N
  <2>. QED  BY <1>1, <2>1, TurnsAre
<1>. HIDE DEF R
<1>5. \A n \in 0..N : n # 0 => n \in 1..N /\ n - 1 \in 0..N
  BY <1>1
<1>6. ASSUME NEW n \in 1..N  PROVE R[n] = T(n, R[n - 1])
  <2>1. R[n - 1] \in Texts
    BY <1>1, <1>4
  <2>. HIDE DEF T
  <2>. QED  BY <1>4, <2>1
<1>7. R = next(R)
  <2>. HIDE DEF T, step, N
  <2>. QED  BY <1>4, <1>5, <1>6
<1>8. u = next(u)
  <2>1. u = CHOOSE f : f = next(f)
    BY DEF Joining
  <2>. HIDE DEF next, u
  <2>. QED  BY <1>7, <2>1
<1>9. JoinedBy(op, values) = u[N]
  BY DEF JoinedBy, Joining
<1>. HIDE DEF u
<1>10. u[0] = <<>> /\ \A n \in 1..N : u[n] = T(n, u[n - 1])
  <2>1. \A n \in 1..N : n \in 0..N /\ n # 0
    BY <1>1
  <2>2. next(u)[0] = <<>> /\ \A n \in 1..N : next(u)[n] = T(n, u[n - 1])
    <3>. HIDE DEF T
    <3>. QED  BY <1>1, <2>1
  <2>. HIDE DEF next, T
  <2>. QED  BY <1>8, <2>2
<1>11. \A n \in 0..N : u[n] \in Texts
  <2>. HIDE DEF T, N
  <2>. QED  BY <1>1, <1>3, <1>10, LoopKeeps
<1>. QED  BY <1>9, <1>10, <1>11 DEF u

\* A text that groups no operators and is a sentence when its operands are rewritten is
\* read as that.
LEMMA ReadAsRewritten ==
    ASSUME NEW toks \in Texts, Parse(RewriteOperands(toks)).ok, ~GroupedOperator(toks)
    PROVE  Canonicalize(toks) = RewriteOperands(toks)
<1>1. CASE FromText(toks) # <<>>
  <2>1. ~HasInfix(toks)
    BY <1>1, InfixIsNoIdentifier
  <2>. QED  BY <1>1, <2>1, OperandSettles, OperandIs DEF Canonicalize
<1>2. CASE FromText(toks) = <<>>
  <2>1. HasInfix(toks) \/ ~HasSlash(toks)
    <3>1. CASE ~HasInfix(toks)
      <4>1. RewriteOperands(toks) = toks
        BY <1>2, <3>1, OperandSettles, OperandIs
      <4>2. Parse(toks).ok
        BY <4>1
      <4>3. Phrase("or", toks, Parse(toks).tree) \in Derivable
        BY <4>2, ParsedIsDerivable
      <4>. QED  BY <4>3, SentenceHasNoSlash
    <3>. QED  BY <3>1
  <2>2. SlashChoice(toks) = toks
    BY <2>1, SlashChoiceIs
  <2>. QED  BY <1>2, <2>2 DEF Canonicalize
<1>. QED  BY <1>1, <1>2

\* What is offered by the first values: a text that stands alone and that means,
\* rewritten, any of those that are not blank.
AnyOf(values, n, accepted) ==
    \E i \in 1..n : values[i] # <<>> /\ Satisfies(ReadAs(values[i]).tree, accepted)
Chooses(values, n, s) ==
    \E tree : /\ Phrase("or", RewriteOperands(s), tree) \in Derivable
              /\ \A accepted : Satisfies(tree, accepted) <=> AnyOf(values, n, accepted)
Offered(values, n, s) ==
    IF \A i \in 1..n : values[i] = <<>> THEN s = <<>>
    ELSE /\ s # <<>> /\ StandsAlone(s)
         /\ GroupedOperator(s) \/ Chooses(values, n, s)
ReadsAlone(v) == StandsAlone(v) /\ Parse(RewriteOperands(v)).ok

\* A value by itself.
LEMMA ValueIsRead ==
    ASSUME NEW v \in Texts, ReadsAlone(v), ~GroupedOperator(v)
    PROVE  Phrase("or", RewriteOperands(v), ReadAs(v).tree) \in Derivable
<1>1. Parse(RewriteOperands(v)).ok
  BY DEF ReadsAlone
<1>2. Canonicalize(v) = RewriteOperands(v)
  BY <1>1, ReadAsRewritten
<1>3. Canonicalize(v) \in Texts
  BY CanonicalizeIsStable
<1>. QED  BY <1>1, <1>2, <1>3, ParsedIsDerivable DEF ReadAs

\* Two texts that stand alone, joined.
LEMMA TwoStandAlone ==
    ASSUME NEW a \in Texts, NEW b \in Texts, NEW tok \in Tokens, Upper(tok) \in {"AND", "OR"},
           a # <<>>, StandsAlone(a), b # <<>>, StandsAlone(b)
    PROVE  LET whole == a \o <<tok>> \o b
           IN  /\ whole \in Texts /\ whole # <<>> /\ StandsAlone(whole)
               /\ RewriteOperands(whole)
                      = RewriteOperands(a) \o <<Upper(tok)>> \o RewriteOperands(b)
<1> DEFINE whole == a \o <<tok>> \o b
<1>1. Made(whole, a, tok, b)
  BY MadeOf
<1>2. Joint(a, tok, b) /\ Upper(a[Len(a)]) \notin {"AND", "OR"}
  BY DEF Joint, StandsAlone
<1>3. RewriteOperands(whole) = RewriteOperands(a) \o <<Upper(tok)>> \o RewriteOperands(b)
  BY <1>2, JoinKept
<1>. HIDE DEF whole
<1>4. /\ Len(a) \in Nat /\ 1 \in 1..Len(a) /\ Len(b) \in Nat /\ Len(b) \in 1..Len(b)
  BY NotEmpty
<1>5. whole[1] = a[1]
  BY <1>1, <1>4 DEF Made
<1>6. whole[Len(whole)] = b[Len(b)] /\ whole \in Texts /\ Len(whole) # 0
  BY <1>1, <1>4 DEF Made
<1>7. whole # <<>>
  BY <1>6, LenProperties
<1>8. StandsAlone(whole)
  BY <1>5, <1>6 DEF StandsAlone
<1>. QED  BY <1>3, <1>6, <1>7, <1>8 DEF whole

\* One value more.
LEMMA OfferOne ==
    ASSUME NEW values, NEW n \in Nat, NEW s \in Texts, Offered(values, n, s),
           values[n + 1] \in Texts, values[n + 1] # <<>> => ReadsAlone(values[n + 1])
    PROVE  Offered(values, n + 1, JoinTurn("OR", values[n + 1], s))
<1> DEFINE v == values[n + 1]
           t == JoinTurn("OR", v, s)
<1>1. \A i \in 1..n + 1 : i \in 1..n \/ i = n + 1
  OBVIOUS
<1>2. n + 1 \in 1..n + 1 /\ \A i \in 1..n : i \in 1..n + 1
  OBVIOUS
<1>3. \A accepted : AnyOf(values, n + 1, accepted)
          <=> AnyOf(values, n, accepted) \/ (v # <<>> /\ Satisfies(ReadAs(v).tree, accepted))
  BY <1>1, <1>2 DEF AnyOf
<1>4. (\A i \in 1..n + 1 : values[i] = <<>>) <=> (\A i \in 1..n : values[i] = <<>>) /\ v = <<>>
  BY <1>1, <1>2
<1>5. v \in Texts /\ (v # <<>> => ReadsAlone(v) /\ StandsAlone(v))
  BY DEF ReadsAlone
<1>. HIDE DEF v
<1>6. CASE v = <<>>
  <2>1. t = s
    BY <1>6 DEF JoinTurn
  <2>2. \A accepted : AnyOf(values, n + 1, accepted) <=> AnyOf(values, n, accepted)
    BY <1>3, <1>6
  <2>3. Chooses(values, n, s) => Chooses(values, n + 1, s)
    BY <2>2 DEF Chooses
  <2>4. Offered(values, n + 1, s)
    BY <1>4, <1>6, <2>3 DEF Offered
  <2>. QED  BY <2>1, <2>4 DEF v
<1>7. CASE v # <<>> /\ \A i \in 1..n : values[i] = <<>>
  <2>1. s = <<>>
    BY <1>7 DEF Offered
  <2>2. t = v
    BY <1>7, <2>1 DEF JoinTurn
  <2>3. \A accepted : AnyOf(values, n + 1, accepted) <=> Satisfies(ReadAs(v).tree, accepted)
    <3>1. \A accepted : ~AnyOf(values, n, accepted)
      BY <1>7 DEF AnyOf
    <3>. QED  BY <1>3, <1>7, <3>1
  <2>4. ~GroupedOperator(v) => Chooses(values, n + 1, v)
    BY <1>5, <1>7, <2>3, ValueIsRead DEF Chooses
  <2>5. Offered(values, n + 1, v)
    BY <1>4, <1>5, <1>7, <2>4 DEF Offered
  <2>. QED  BY <2>2, <2>5 DEF v
<1>8. CASE v # <<>> /\ ~\A i \in 1..n : values[i] = <<>>
  <2>1. s # <<>> /\ StandsAlone(s)
    BY <1>8 DEF Offered
  <2>2. t = s \o <<"OR">> \o v
    BY <1>8, <2>1 DEF JoinTurn
  <2>3. /\ s \o <<"OR">> \o v \in Texts /\ s \o <<"OR">> \o v # <<>>
        /\ StandsAlone(s \o <<"OR">> \o v)
        /\ RewriteOperands(s \o <<"OR">> \o v)
               = RewriteOperands(s) \o <<"OR">> \o RewriteOperands(v)
    <3> DEFINE op == "OR"
               whole == s \o <<op>> \o v
    <3>1. op \in Tokens /\ Upper(op) = op /\ Upper(op) \in {"AND", "OR"}
      BY TokensAre
    <3>. HIDE DEF op
    <3>2. /\ whole \in Texts /\ whole # <<>> /\ StandsAlone(whole)
          /\ RewriteOperands(whole)
                 = RewriteOperands(s) \o <<Upper(op)>> \o RewriteOperands(v)
      BY <1>5, <1>8, <2>1, <3>1, TwoStandAlone
    <3>3. RewriteOperands(whole) = RewriteOperands(s) \o <<op>> \o RewriteOperands(v)
      BY <3>1, <3>2
    <3>. QED  BY <3>2, <3>3 DEF op
  <2>4. Lies(s, t, 0) /\ Lies(v, t, Len(s) + 1)
    <3>1. "OR" \in Tokens
      BY TokensAre
    <3>2. Lies(s, s \o <<"OR">> \o v, 0) /\ Lies(v, s \o <<"OR">> \o v, Len(s) + 1)
      BY <1>5, <3>1, PartsLie
    <3>. QED  BY <2>2, <3>2
  <2>5. /\ t \in Texts /\ t # <<>> /\ StandsAlone(t)
        /\ RewriteOperands(t) = RewriteOperands(s) \o <<"OR">> \o RewriteOperands(v)
    BY <2>2, <2>3
  <2>. HIDE DEF t
  <2>6. ASSUME ~GroupedOperator(t)  PROVE Chooses(values, n + 1, t)
    <3>1. ~GroupedOperator(s) /\ ~GroupedOperator(v)
      BY <1>5, <2>4, <2>5, <2>6, PassageHolds
    <3>2. PICK first : /\ Phrase("or", RewriteOperands(s), first) \in Derivable
                       /\ \A accepted : Satisfies(first, accepted) <=> AnyOf(values, n, accepted)
      BY <1>8, <3>1 DEF Offered, Chooses
    <3>3. Phrase("or", RewriteOperands(v), ReadAs(v).tree) \in Derivable
      BY <1>5, <1>8, <3>1, ValueIsRead
    <3>4. "OR" \in Tokens /\ Upper("OR") = "OR"
      BY TokensAre
    <3> DEFINE tree == Node("OR", first, ReadAs(v).tree)
    <3>5. Phrase("or", RewriteOperands(t), tree) \in Derivable
      BY <2>5, <3>2, <3>3, <3>4, JoinRight
    <3>6. \A accepted : Satisfies(tree, accepted)
                            <=> Satisfies(first, accepted) \/ Satisfies(ReadAs(v).tree, accepted)
      BY SatisfiesNode
    <3>. HIDE DEF tree
    <3>7. \A accepted : Satisfies(tree, accepted) <=> AnyOf(values, n + 1, accepted)
      BY <1>3, <1>8, <3>2, <3>6
    <3>. QED  BY <3>5, <3>7 DEF Chooses
  <2>7. Offered(values, n + 1, t)
    BY <1>4, <1>8, <2>5, <2>6 DEF Offered
  <2>. QED  BY <2>7 DEF t, v
<1>. QED  BY <1>6, <1>7, <1>8

\* The choice of all.
LEMMA ChoiceIsOffered ==
    ASSUME NEW values \in Seq(Texts),
           \E i \in 1..Len(values) : values[i] # <<>>,
           \A i \in 1..Len(values) : values[i] # <<>> => Len(values) = 1 \/ ReadsAlone(values[i])
    PROVE  /\ JoinChoice(values) # <<>> /\ JoinChoice(values) \in Texts
           /\ IF Len(values) = 1 THEN JoinChoice(values) = values[1]
              ELSE Offered(values, Len(values), JoinChoice(values))
<1> DEFINE J == Joining("OR", values)
           N == Len(values)
           license == JoinChoice(values)
<1>1. "OR" \in Tokens
  BY TokensAre
<1>2. /\ license = J[N] /\ J[0] = <<>>
      /\ \A n \in 1..N : J[n] = JoinTurn("OR", values[n], J[n - 1])
      /\ \A n \in 0..N : J[n] \in Texts
  <2>1. license = JoinedBy("OR", values)
    BY DEF JoinChoice
  <2>. QED  BY <1>1, <2>1, JoiningIs
<1>3. N \in Nat /\ license \in Texts /\ \A i \in 1..N : values[i] \in Texts
  <2>1. N \in Nat /\ \A i \in 1..N : values[i] \in Texts
    BY LenProperties, ElementOfSeq
  <2>. HIDE DEF J, license
  <2>2. N \in 0..N
    BY <2>1
  <2>. QED  BY <1>2, <2>1, <2>2
<1>. HIDE DEF J, license
<1>4. CASE N = 1
  <2>1. J[1] = JoinTurn("OR", values[1], J[1 - 1])
    BY <1>2, <1>4
  <2>2. license = values[1]
    BY <1>2, <1>4, <2>1 DEF JoinTurn
  <2>3. \A i \in 1..1 : i = 1
    OBVIOUS
  <2>4. values[1] # <<>>
    BY <1>4, <2>3
  <2>. QED  BY <1>3, <1>4, <2>2, <2>4 DEF license
<1>5. CASE N # 1
  <2> DEFINE good == {n \in Nat : n <= N => Offered(values, n, J[n])}
  <2>1. 0 \in good
    <3>1. Offered(values, 0, <<>>)
      BY DEF Offered
    <3>. QED  BY <1>2, <3>1
  <2>2. ASSUME NEW n \in Nat, n \in good  PROVE n + 1 \in good
    <3> SUFFICES ASSUME n + 1 <= N  PROVE Offered(values, n + 1, J[n + 1])
      OBVIOUS
    <3> DEFINE m == n + 1
    <3>1. m \in 1..N /\ m - 1 = n /\ n <= N /\ n \in 0..N
      BY <1>3
    <3>2. Offered(values, n, J[n]) /\ J[n] \in Texts
      BY <1>2, <2>2, <3>1
    <3>. HIDE DEF m
    <3>3. J[m] = JoinTurn("OR", values[m], J[n])
      BY <1>2, <3>1
    <3>4. values[m] \in Texts /\ (values[m] # <<>> => ReadsAlone(values[m]))
      BY <1>3, <1>5, <3>1
    <3>5. Offered(values, n + 1, JoinTurn("OR", values[n + 1], J[n]))
      BY <3>2, <3>4, OfferOne DEF m
    <3>. QED  BY <3>3, <3>5 DEF m
  <2>3. Nat \subseteq good
    <3>. HIDE DEF good
    <3>. QED  BY <2>1, <2>2, Climb
  <2>4. Offered(values, N, license)
    BY <1>2, <1>3, <2>3
  <2>. HIDE DEF good
  <2>5. license # <<>>
    BY <2>4 DEF Offered
  <2>. QED  BY <1>3, <1>5, <2>4, <2>5 DEF license
<1>. QED  BY <1>4, <1>5

LEMMA ChoiceIsRead ==
    ASSUME NEW values \in Seq(Texts), NEW license, license = JoinChoice(values),
           \E i \in 1..Len(values) : values[i] # <<>>,
           \A i \in 1..Len(values) : values[i] # <<>> =>
               IF Len(values) = 1 THEN ReadAs(values[i]).ok ELSE ReadsAlone(values[i]),
           Len(values) = 1 \/ ~GroupedOperator(license)
    PROVE  /\ ReadAs(license).ok
           /\ \A accepted : Satisfies(ReadAs(license).tree, accepted)
                                <=> AnyOf(values, Len(values), accepted)
<1> DEFINE N == Len(values)
<1>1. CASE N = 1
  <2>1. license = values[1]
    BY <1>1, ChoiceIsOffered
  <2>2. \A i \in 1..1 : i = 1
    OBVIOUS
  <2>3. values[1] # <<>> /\ 1 \in 1..1
    BY <1>1, <2>2
  <2>4. ReadAs(license).ok
    BY <1>1, <2>1, <2>3
  <2>5. \A accepted : Satisfies(ReadAs(license).tree, accepted) <=> AnyOf(values, 1, accepted)
    BY <2>1, <2>2, <2>3 DEF AnyOf
  <2>. QED  BY <1>1, <2>4, <2>5
<1>2. CASE N # 1
  <2>1. Offered(values, N, license)
    BY <1>2, ChoiceIsOffered
  <2>2. license \in Texts
    BY <1>2, ChoiceIsOffered
  <2>3. PICK tree : /\ Phrase("or", RewriteOperands(license), tree) \in Derivable
                    /\ \A accepted : Satisfies(tree, accepted) <=> AnyOf(values, N, accepted)
    BY <1>2, <2>1 DEF Offered, Chooses
  <2>4. Parse(RewriteOperands(license)).ok /\ Parse(RewriteOperands(license)).tree = tree
    BY <2>3, DerivableIsParsed
  <2>5. Canonicalize(license) = RewriteOperands(license)
    BY <1>2, <2>2, <2>4, ReadAsRewritten
  <2>6. ReadAs(license).ok /\ ReadAs(license).tree = tree
    BY <2>4, <2>5 DEF ReadAs
  <2>. QED  BY <2>3, <2>6
<1>. QED  BY <1>1, <1>2

-----------------------------------------------------------------------------
(* What package.json and a POM list.                                       *)

Alternate(values) == {values[i] : i \in DOMAIN values} \ {<<>>}

LEMMA OneEnd ==
    ASSUME NEW m \in Nat, NEW n \in Nat, 1..m = 1..n
    PROVE  m = n
<1>1. ASSUME m # 0  PROVE m <= n
  <2>1. m \in 1..m
    BY <1>1
  <2>2. m \in 1..n
    BY <2>1
  <2>. QED  BY <2>2
<1>2. ASSUME n # 0  PROVE n <= m
  <2>1. n \in 1..n
    BY <1>2
  <2>2. n \in 1..m
    BY <2>1
  <2>. QED  BY <2>2
<1>. QED  BY <1>1, <1>2

\* The entries of a field or of a POM, each by what it says.
LEMMA EntriesSay ==
    ASSUME NEW entries, NEW says, DOMAIN entries = 1..Len(entries), Len(entries) \in Nat,
           says \in [DOMAIN entries -> Values]
    PROVE  says \in Seq(Texts) /\ Len(says) = Len(entries) /\ DOMAIN says = 1..Len(entries)
<1>1. STRING \subseteq Tokens
  BY DEF Tokens
<1>2. Values \subseteq Texts
  BY <1>1, SeqMonotonic DEF Values, Texts
<1> DEFINE n == Len(entries)
<1>3. says \in [1..n -> Texts]
  BY <1>2
<1>4. DOMAIN says = 1..n /\ n \in Nat
  BY <1>3
<1>. HIDE DEF n
<1>5. says \in Seq(Texts)
  BY <1>3, <1>4, SeqDef
<1>6. Len(says) = n
  BY <1>4, <1>5, LenProperties, OneEnd
<1>. QED  BY <1>4, <1>5, <1>6 DEF n

\* A field of package.json that says something is the choice of its entries.
LEMMA FieldIsChoice ==
    ASSUME NEW field, IsField(field), NEW says,
           says = [i \in DOMAIN field.entries |-> First(field.entries[i].type, field.entries[i].url)],
           Alternate(says) # {}, Len(field.entries) = 1 => JoinChoice(says) = says[1]
    PROVE  JsonLicenseField(field) = JoinChoice(says)
<1> DEFINE entries == field.entries
<1>1. /\ entries \in Seq([type : Values, url : Values])
      /\ field.shape \in {"absent", "string", "strings", "object", "objects"}
      /\ field.shape = "absent" => entries = <<>>
      /\ field.shape \in {"string", "object"} => Len(entries) = 1
      /\ field.shape \in {"string", "strings"} => \A i \in DOMAIN entries : entries[i].url = <<>>
  BY DEF IsField
<1>2. DOMAIN entries = 1..Len(entries) /\ Len(entries) \in Nat
  BY <1>1, LenProperties
<1>3. says = [i \in DOMAIN entries |-> First(entries[i].type, entries[i].url)]
  OBVIOUS
<1>4. \A i \in DOMAIN entries : entries[i].url = <<>> => says[i] = entries[i].type
  BY <1>3 DEF First
<1>. HIDE DEF entries
<1>5. CASE field.shape = "absent"
  <2>1. DOMAIN says = {}
    BY <1>1, <1>2, <1>3, <1>5
  <2>. QED  BY <2>1 DEF Alternate
<1>6. CASE field.shape = "string"
  <2>1. 1 \in DOMAIN entries
    BY <1>1, <1>2, <1>6
  <2>2. says[1] = entries[1].type
    BY <1>1, <1>4, <1>6, <2>1
  <2>3. JsonLicenseField(field) = entries[1].type
    BY <1>6 DEF JsonLicenseField, entries
  <2>. QED  BY <1>1, <1>6, <2>2, <2>3 DEF entries
<1>7. CASE field.shape = "strings"
  <2>1. says = [i \in DOMAIN entries |-> entries[i].type]
    BY <1>1, <1>3, <1>4, <1>7
  <2>2. JsonLicenseField(field) = JoinChoice([i \in DOMAIN entries |-> entries[i].type])
    BY <1>7 DEF JsonLicenseField, entries
  <2>. QED  BY <2>1, <2>2
<1>8. CASE field.shape = "object"
  <2>1. 1 \in DOMAIN entries
    BY <1>1, <1>2, <1>8
  <2>2. says[1] = First(entries[1].type, entries[1].url)
    BY <1>3, <2>1
  <2>3. JsonLicenseField(field) = First(entries[1].type, entries[1].url)
    BY <1>8 DEF JsonLicenseField, entries
  <2>. QED  BY <1>1, <1>8, <2>2, <2>3 DEF entries
<1>9. CASE field.shape = "objects"
  <2>1. JsonLicenseField(field)
            = JoinChoice([i \in DOMAIN entries |-> First(entries[i].type, entries[i].url)])
    BY <1>9 DEF JsonLicenseField, entries
  <2>. QED  BY <1>3, <2>1
<1>. QED  BY <1>1, <1>5, <1>6, <1>7, <1>8, <1>9

\* The readers of the formats that list alternatives.
LEMMA ListsAreReadBy ==
    ASSUME NEW doc, doc # Damaged
    PROVE  /\ ReadManifest("package.json", doc) = JsonManifestLicense(doc)
           /\ \A name \in {"pom.xml", "pom-parent-1.xml"} : ReadManifest(name, doc) = PomLicense(doc)
<1>1. ReadManifest("package.json", doc) = JsonManifestLicense(doc)
  BY DEF ReadManifest, DistInfo
<1>2. ReadManifest("pom.xml", doc) = PomLicense(doc)
  BY DEF ReadManifest, DistInfo
<1>3. ReadManifest("pom-parent-1.xml", doc) = PomLicense(doc)
  BY DEF ReadManifest, DistInfo
<1>. QED  BY <1>1, <1>2, <1>3

\* A choice of alternatives is satisfied exactly when one of them is: for package.json
\* and the POMs, however each alternative is spelled (JoinChoice, Canonicalize).
THEOREM ChoicesAreAnyOf == Spec => []ChoiceIsAnyOf
<1>1. AssessInv => ChoiceIsAnyOf
  <2> SUFFICES ASSUME AssessInv,
                      NEW name \in {"package.json", "pom.xml", "pom-parent-1.xml"} \intersect DOMAIN root,
                      root[name] # Damaged,
                      {Alternative(name, i) : i \in DOMAIN Alternatives(name)} \ {<<>>} # {},
                      \A v \in {Alternative(name, i) : i \in DOMAIN Alternatives(name)} \ {<<>>} :
                          IF Len(Alternatives(name)) = 1 THEN ReadAs(v).ok ELSE ReadsAlone(v),
                      Len(Alternatives(name)) = 1 \/ ~GroupedOperator(Declared(root, name).license)
               PROVE  /\ ReadAs(Declared(root, name).license).ok
                      /\ \A accepted : Satisfies(ReadAs(Declared(root, name).license).tree, accepted)
                             <=> \E v \in {Alternative(name, i) : i \in DOMAIN Alternatives(name)} \ {<<>>} :
                                     Satisfies(ReadAs(v).tree, accepted)
    BY DEF ChoiceIsAnyOf, ReadsAlone
  <2> DEFINE doc == root[name]
             entries == Alternatives(name)
             says == [i \in DOMAIN entries |-> Alternative(name, i)]
             license == Declared(root, name).license
  <2>1. PICK document \in SomeDocuments : document[1] = name /\ document[2] = doc
    BY DEF AssessInv
  <2>2. doc # Damaged /\ license = ReadManifest(name, doc).license
    BY DEF Declared
  <2>3. /\ {Alternative(name, i) : i \in DOMAIN entries} \ {<<>>} = Alternate(says)
        /\ \A i \in DOMAIN entries : says[i] = Alternative(name, i)
        /\ DOMAIN says = DOMAIN entries
    BY DEF Alternate
  <2>4. /\ Alternate(says) # {}
        /\ \A v \in Alternate(says) : IF Len(entries) = 1 THEN ReadAs(v).ok ELSE ReadsAlone(v)
        /\ Len(entries) = 1 \/ ~GroupedOperator(license)
    BY <2>3
  <2>5. name = "package.json" \/ name \in {"pom.xml", "pom-parent-1.xml"}
    OBVIOUS
  <2>6. \A a, b \in Values : First(a, b) \in Values
    BY DEF First
  <2>7. ASSUME name = "package.json"
        PROVE  /\ IsField(doc.license) /\ entries = doc.license.entries
               /\ \A i \in DOMAIN entries :
                      says[i] = First(doc.license.entries[i].type, doc.license.entries[i].url)
    <3>1. IsField(doc.license)
      BY <2>1, <2>2, <2>7, EvidenceAssumption
    <3>. QED  BY <2>7, <3>1 DEF Alternatives, Alternative
  <2>8. ASSUME name \in {"pom.xml", "pom-parent-1.xml"}
        PROVE  /\ doc.entries \in Seq([name : Values, url : Values]) /\ entries = doc.entries
               /\ \A i \in DOMAIN entries :
                      says[i] = First(doc.entries[i].name, doc.entries[i].url)
    <3>1. doc.entries \in Seq([name : Values, url : Values])
      BY <2>1, <2>2, <2>8, EvidenceAssumption
    <3>2. name # "package.json"
      BY <2>8
    <3>. QED  BY <3>1, <3>2 DEF Alternatives, Alternative
  <2>. HIDE DEF entries, doc, license
  <2>9. says \in Seq(Texts) /\ Len(says) = Len(entries) /\ DOMAIN says = 1..Len(entries)
    <3>1. CASE name = "package.json"
      <4>1. entries \in Seq([type : Values, url : Values])
        BY <2>7, <3>1 DEF IsField
      <4>2. DOMAIN entries = 1..Len(entries) /\ Len(entries) \in Nat
        BY <4>1, LenProperties
      <4>3. \A i \in DOMAIN entries : entries[i] \in [type : Values, url : Values]
        BY <4>1, <4>2, ElementOfSeq
      <4>4. \A i \in DOMAIN entries : says[i] \in Values
        BY <2>6, <2>7, <3>1, <4>3
      <4>. QED  BY <2>3, <4>2, <4>4, EntriesSay
    <3>2. CASE name \in {"pom.xml", "pom-parent-1.xml"}
      <4>1. entries \in Seq([name : Values, url : Values])
        BY <2>8, <3>2
      <4>2. DOMAIN entries = 1..Len(entries) /\ Len(entries) \in Nat
        BY <4>1, LenProperties
      <4>3. \A i \in DOMAIN entries : entries[i] \in [name : Values, url : Values]
        BY <4>1, <4>2, ElementOfSeq
      <4>4. \A i \in DOMAIN entries : says[i] \in Values
        BY <2>6, <2>8, <3>2, <4>3
      <4>. QED  BY <2>3, <4>2, <4>4, EntriesSay
    <3>. QED  BY <2>5, <3>1, <3>2
  <2>10. /\ \E i \in 1..Len(says) : says[i] # <<>>
         /\ \A i \in 1..Len(says) : says[i] # <<>> =>
                IF Len(says) = 1 THEN ReadAs(says[i]).ok ELSE ReadsAlone(says[i])
         /\ Len(says) = 1 \/ ~GroupedOperator(license)
    BY <2>4, <2>9 DEF Alternate
  <2>11. JoinChoice(says) # <<>> /\ (Len(says) = 1 => JoinChoice(says) = says[1])
    BY <2>9, <2>10, ChoiceIsOffered
  <2>12. license = JoinChoice(says)
    <3>1. CASE name = "package.json"
      <4>1. says = [i \in DOMAIN doc.license.entries |->
                       First(doc.license.entries[i].type, doc.license.entries[i].url)]
        BY <2>7, <3>1
      <4>2. JsonLicenseField(doc.license) = JoinChoice(says)
        BY <2>4, <2>7, <2>9, <2>11, <3>1, <4>1, FieldIsChoice
      <4>3. ReadManifest("package.json", doc) = JsonManifestLicense(doc)
        BY <2>2, ListsAreReadBy
      <4>. QED  BY <2>2, <2>11, <3>1, <4>2, <4>3 DEF JsonManifestLicense, Declares, First
    <3>2. CASE name \in {"pom.xml", "pom-parent-1.xml"}
      <4>1. says = [i \in DOMAIN doc.entries |-> First(doc.entries[i].name, doc.entries[i].url)]
        BY <2>8, <3>2
      <4>2. ReadManifest(name, doc) = PomLicense(doc)
        BY <2>2, <3>2, ListsAreReadBy
      <4>. QED  BY <2>2, <4>1, <4>2 DEF PomLicense, Declares
    <3>. QED  BY <2>5, <3>1, <3>2
  <2>. HIDE DEF says
  <2>13. /\ ReadAs(license).ok
         /\ \A accepted : Satisfies(ReadAs(license).tree, accepted)
                              <=> AnyOf(says, Len(says), accepted)
    BY <2>9, <2>10, <2>12, ChoiceIsRead
  <2>14. \A accepted : AnyOf(says, Len(says), accepted)
             <=> \E v \in Alternate(says) : Satisfies(ReadAs(v).tree, accepted)
    BY <2>9 DEF AnyOf, Alternate
  <2>15. /\ ReadAs(license).ok
         /\ \A accepted : Satisfies(ReadAs(license).tree, accepted)
                <=> \E v \in Alternate(says) : Satisfies(ReadAs(v).tree, accepted)
    BY <2>13, <2>14
  <2>. QED  BY <2>3, <2>15 DEF license, entries
<1>. QED  BY <1>1, AssessInvHolds, PTL
=============================================================================
