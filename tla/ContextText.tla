----------------------------- MODULE ContextText -----------------------------
(***************************************************************************)
(* The text of an assembled context (src/dge/traversal/assemble.py): the   *)
(* collected nodes in document order, labelled, with the gloss of each     *)
(* defined term spliced in behind its first occurrence.  A text is a       *)
(* sequence of words, a gloss stands between "[=" and "]".  The terms are  *)
(* the rows of the bundle's terms table, those of all its documents.       *)
(* The only caller leaves gloss_from_hop at 0, which no node is below.     *)
(***************************************************************************)
EXTENDS Naturals, Sequences, FiniteSets, SequencesExt, FiniteSetsExt

CONSTANTS
  Letters,    \* word -> how long it is
  Passages,   \* nodes that a context may be assembled from
  Lexicons    \* terms tables, by the surface and the gloss of their rows

Word == DOMAIN Letters

ASSUME WordsAssumption ==
  Letters \in [Word -> Nat] /\ Word \cap {"[=", "]", "[", "[SUPERSEDED]"} = {}
ASSUME PassagesAssumption ==
  /\ \A p \in Passages :
       /\ {p.doc, p.seq} \subseteq Nat /\ p.superseded \in BOOLEAN
       /\ {p.section_path, p.body} \subseteq Seq(Word)
  /\ \A p, q \in Passages : p.doc = q.doc /\ p.seq = q.seq => p = q
ASSUME LexiconsAssumption ==
  Lexicons \subseteq Seq([surface : Seq(Word) \ {<<>>}, gloss : Seq(Word)])

-----------------------------------------------------------------------------
(* Node.for_assembly *)

ForAssembly(p) ==
  (IF p.superseded THEN <<"[SUPERSEDED]">> ELSE <<>>)
    \o (IF p.section_path = <<>> THEN <<>> ELSE <<"[">> \o p.section_path \o <<"]">>)
    \o p.body

-----------------------------------------------------------------------------
(* BundleGraph.glossary: of two rows with one surface the later one counts, *)
(* whatever documents they are of.                                          *)

Surfaces(terms) == {terms[i].surface : i \in DOMAIN terms}
RowsOf(terms, s) == {i \in DOMAIN terms : terms[i].surface = s}
GlossOf(terms, s) == terms[Max(RowsOf(terms, s))].gloss

-----------------------------------------------------------------------------
(* splice_glosses *)

LengthOf(s) == MapThenSumSet(LAMBDA i : Letters[s[i]], DOMAIN s) + Len(s) - 1

\* The set S in the order of R.
Sorted(S, R) ==
  CHOOSE s \in [1 .. Cardinality(S) -> S] :
    \A i, j \in DOMAIN s : i < j => <<s[i], s[j]>> \in R

\* The longest first, then as they came.
InTurn(terms) ==
  LET first == {p \in Surfaces(terms) \X Surfaces(terms) :
                  \/ LengthOf(p[1]) > LengthOf(p[2])
                  \/ /\ LengthOf(p[1]) = LengthOf(p[2])
                     /\ Min(RowsOf(terms, p[1])) < Min(RowsOf(terms, p[2]))}
  IN  Sorted(Surfaces(terms), first)

\* Where s ends in the text.
EndsIn(text, s) ==
  {i \in Len(s) .. Len(text) : SubSeq(text, i + 1 - Len(s), i) = s}

Bracketed(gloss) == <<"[=">> \o gloss \o <<"]">>

Splice(done, s, gloss) ==
  LET ends == EndsIn(done.text, s)
      end == Min(ends)
  IN  IF s \in done.seen \/ gloss = <<>> \/ ends = {} THEN done
      ELSE [text |-> SubSeq(done.text, 1, end) \o Bracketed(gloss)
                       \o SubSeq(done.text, end + 1, Len(done.text)),
            seen |-> done.seen \cup {s}]

SpliceGlosses(text, terms, seen) ==
  FoldLeft(LAMBDA done, s : Splice(done, s, GlossOf(terms, s)),
           [text |-> text, seen |-> seen], InTurn(terms))

-----------------------------------------------------------------------------
(* assemble *)

Ordered(nodes) ==
  Sorted(nodes, {p \in nodes \X nodes :
                   \/ p[1].doc < p[2].doc
                   \/ p[1].doc = p[2].doc /\ p[1].seq < p[2].seq})

\* Mutant: a term is glossed once per node.
PartsPerNode(nodes, terms) ==
  [i \in 1 .. Cardinality(nodes) |->
     SpliceGlosses(ForAssembly(Ordered(nodes)[i]), terms, {}).text]

Parts(nodes, terms) ==
  FoldLeft(LAMBDA done, p :
             LET body == SpliceGlosses(ForAssembly(p), terms, done.seen)
             IN  [parts |-> Append(done.parts, body.text), seen |-> body.seen],
           [parts |-> <<>>, seen |-> {}], Ordered(nodes)).parts

-----------------------------------------------------------------------------
(* What glossing should do, without splicing *)

\* The text without its glosses, those within a gloss included.
Bare(text) ==
  FoldLeft(LAMBDA done, w :
             IF w = "[=" THEN [done EXCEPT !.depth = @ + 1]
             ELSE IF done.depth = 0 THEN [done EXCEPT !.words = Append(@, w)]
             ELSE IF w = "]" THEN [done EXCEPT !.depth = @ - 1]
             ELSE done,
           [depth |-> 0, words |-> <<>>], text).words

\* Where a gloss begins.
Marked(texts) ==
  {p \in UNION {{i} \X DOMAIN texts[i] : i \in DOMAIN texts} : texts[p[1]][p[2]] = "[="}

\* No term shares a word with another term or its gloss.
AreApart(terms) ==
  \A s, t \in Surfaces(terms) :
    s # t => ToSet(s) \cap (ToSet(t) \cup ToSet(GlossOf(terms, t))) = {}

\* The terms that end for the first time at word j of text i.
FirstEndingAt(texts, terms, i, j) ==
  {s \in Surfaces(terms) :
     /\ EndsIn(texts[i], s) # {} /\ j = Min(EndsIn(texts[i], s))
     /\ \A k \in 1 .. i - 1 : EndsIn(texts[k], s) = {}}

Annotated(texts, terms) ==
  [i \in DOMAIN texts |-> FlattenSeq([j \in DOMAIN texts[i] |->
     LET here == {s \in FirstEndingAt(texts, terms, i, j) : GlossOf(terms, s) # <<>>}
     IN  IF here = {} THEN <<texts[i][j]>>
         ELSE <<texts[i][j]>> \o Bracketed(GlossOf(terms, CHOOSE s \in here : TRUE))])]

\* Whatever the terms contain of each other: without glosses the passages read on
\* unchanged in document order, there is no gloss beyond one for each term, and
\* terms that have no word in common are glossed where they first occur, each by
\* its own gloss.
Annotates(nodes, terms) ==
  LET plain == [i \in 1 .. Cardinality(nodes) |-> ForAssembly(Ordered(nodes)[i])]
      text == Parts(nodes, terms)
  IN  /\ [i \in DOMAIN text |-> Bare(text[i])] = plain
      /\ Cardinality(Marked(text)) <= Cardinality(Surfaces(terms))
      /\ AreApart(terms) => text = Annotated(plain, terms)
=============================================================================
