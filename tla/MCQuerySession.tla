--------------------------- MODULE MCQuerySession ---------------------------
(***************************************************************************)
(* Four nodes and an id that is none, with every subset of a pool of edges *)
(* in which an exception has an exception, a term is defined and a passage *)
(* is cited; and the edges an extraction may commit meanwhile: a second    *)
(* exception, a condition on the cited passage, and the two outcomes of    *)
(* reconciling an exception (weakened, confirmed).                         *)
(*                                                                         *)
(* The seeds are fused from rankings, or reranked after that; one of the   *)
(* rankings still knows a node that is gone.  Where the graph has no edge  *)
(* at first, every pair of rankings is tried, and for one of them every    *)
(* terms table of up to three of six rows: a term within another, one      *)
(* across the end of another, terms in each other's glosses, and one       *)
(* defined twice.                                                          *)
(***************************************************************************)
EXTENDS DeliveredContext

CONSTANTS rule, exc, defn, note, ghost   \* ids; ghost is in no nodes table

MCNodeId == {rule, exc, defn, note, ghost}
NoOverrides == [t \in {} |-> ClosureDefault]

E(s, t, d, c) ==
  [src |-> s, type |-> t, dst |-> d, confidence |-> c, cross_doc |-> FALSE]

Pool ==
  {E(exc, "exception_of", rule, 60), E(defn, "exception_of", exc, 100),
   E(rule, "cites", note, 100), E(note, "defines", defn, 100),
   E(rule, "exception_of", note, 40), E(exc, "supersedes", note, 100)}

MCGraphs == {[nodes |-> MCNodeId \ {ghost}, edges |-> es] : es \in SUBSET Pool}

MCIdOrder == <<defn, exc, ghost, rule>>
Ranking == {s \in SetToAllKPermutations(ToSet(MCIdOrder)) : Len(s) <= 3}
MCRankings == [dense : Ranking, sparse : Ranking]

\* A stale vector is the nearest: fused, it is a seed beside the rule; reranked, it
\* is dropped.
Near == [dense |-> <<ghost, rule, exc>>, sparse |-> <<rule>>]
Seedings(pair) ==
  {HybridSeeds(pair, 2)}
    \cup IF pair = Near THEN RerankedSeeds(pair, MCNodeId \ {ghost}, 1) ELSE {}
MCSeedLists == UNION {Seedings(pair) : pair \in MCRankings}

MCWrites ==
  {E(exc, "exception_of", rule, 30), E(rule, "exception_of", note, 90),
   E(note, "amends", rule, 90), E(note, "conditioned_on", exc, 90)}

MCLetters ==
  [purpose |-> 7, permitted |-> 9, fee |-> 3, notice |-> 6, means |-> 5, sum |-> 3]

Passage(doc, seq, superseded, path, body) ==
  [doc |-> doc, seq |-> seq, superseded |-> superseded, section_path |-> path, body |-> body]

MCPassageOf ==
  [n \in MCNodeId |->
     CASE n = rule -> Passage(1, 2, FALSE, <<"fee">>, <<"permitted", "purpose", "fee">>)
       [] n = exc -> Passage(1, 1, TRUE, <<>>, <<"purpose", "fee", "fee">>)
       [] n = note -> Passage(2, 1, FALSE, <<>>, <<"notice", "permitted", "sum">>)
       [] OTHER -> Passage(2, 2, FALSE, <<>>, <<"notice", "fee">>)]
MCPassages == {MCPassageOf[n] : n \in MCNodeId \ {ghost}}

Term(surface, gloss) == [surface |-> surface, gloss |-> gloss]

TermRows ==
  {Term(<<"purpose">>, <<"purpose", "means", "sum">>),
   Term(<<"permitted", "purpose">>, <<"purpose", "means">>),
   Term(<<"purpose", "fee">>, <<"fee">>), Term(<<"fee">>, <<"fee", "means", "sum">>),
   Term(<<"fee">>, <<"sum", "means">>), Term(<<"notice">>, <<"notice", "means", "fee">>)}

MCLexicons == {s \in SetToAllKPermutations(TermRows) : Len(s) <= 3}

-----------------------------------------------------------------------------
\* The seeds are what the rankings give.  Where every pair of rankings, or every
\* terms table, is tried, there are no edges at first.
MCInit ==
  /\ SInit
  /\ rankings \in IF graph.edges = {} THEN MCRankings ELSE {Near}
  /\ seeds \in Seedings(rankings)
  /\ glossary \in IF graph.edges = {} /\ rankings = Near THEN MCLexicons ELSE {<<>>}

MCSpec == MCInit /\ [][DNext]_dvars /\ WF_dvars(Query /\ DNext)
=============================================================================
