------------------------------ MODULE RankFusion ------------------------------
(***************************************************************************)
(* Hybrid seeding: the nodes nearest to the query by vector and those that *)
(* share its words, fused by reciprocal rank (src/dge/retrieval/hybrid.py, *)
(* src/dge/cli.py _make_hybrid_seeder), and the pass that reranks any      *)
(* seeder's candidates (src/dge/query.py rerank_seeder).  A ranking is a   *)
(* sequence of node ids, best first; what the ranking goes by is real      *)
(* arithmetic and stays outside.  The vectors may be of nodes that the     *)
(* bundle does not have: an embedding run that began before a re-ingest    *)
(* leaves such (BundleEmbed).                                              *)
(***************************************************************************)
EXTENDS Naturals, Sequences, FiniteSets, SequencesExt, FiniteSetsExt

CONSTANTS
  IdOrder,    \* the node ids in their alphabetical order
  Damping,    \* k
  Rankings    \* the pairs of a dense and a sparse ranking that are tried

ASSUME IdOrderAssumption ==
  IdOrder \in Seq(ToSet(IdOrder)) /\ IsInjective(IdOrder) /\ Damping \in Nat \ {0}

\* A ranking: ids in an order, each once.
Rankable == {s \in Seq(ToSet(IdOrder)) : IsInjective(s)}

ASSUME RankingsAssumption == Rankings \subseteq [dense : Rankable, sparse : Rankable]

Ranked(pair) == ToSet(pair.dense) \cup ToSet(pair.sparse)
RankIn(s, x) == CHOOSE i \in DOMAIN s : s[i] = x

-----------------------------------------------------------------------------
(* reciprocal_rank_fusion *)

\* Mutant: the later ranking's score replaces the earlier one's.
ScoreLast(pair, x) ==
  [num |-> 1,
   den |-> Damping + RankIn(IF x \in ToSet(pair.sparse) THEN pair.sparse ELSE pair.dense, x)]

\* The sum over the rankings that have x of 1 / (k + rank), as a fraction.
Score(pair, x) ==
  LET dense == Damping + RankIn(pair.dense, x)
      sparse == Damping + RankIn(pair.sparse, x)
  IN  IF x \notin ToSet(pair.sparse) THEN [num |-> 1, den |-> dense]
      ELSE IF x \notin ToSet(pair.dense) THEN [num |-> 1, den |-> sparse]
      ELSE [num |-> dense + sparse, den |-> dense * sparse]

Above(a, b) == a.num * b.den > b.num * a.den

\* By score, then by id.
Before(pair, x, y) ==
  \/ Above(Score(pair, x), Score(pair, y))
  \/ /\ ~Above(Score(pair, y), Score(pair, x))
     /\ RankIn(IdOrder, x) < RankIn(IdOrder, y)

Fused(pair) ==
  [i \in 1..Cardinality(Ranked(pair)) |->
     CHOOSE x \in Ranked(pair) :
       Cardinality({y \in Ranked(pair) : Before(pair, y, x)}) = i - 1]

FirstOf(s, n) == SubSeq(s, 1, IF n < Len(s) THEN n ELSE Len(s))

FuseSeeds(pair, topK) == FirstOf(Fused(pair), topK)

-----------------------------------------------------------------------------
(* The seeders.  Each ranking has been cut to three times top_k. *)

HybridSeeds(pair, topK) ==
  FuseSeeds([dense |-> FirstOf(pair.dense, 3 * topK),
             sparse |-> FirstOf(pair.sparse, 3 * topK)], topK)

\* The reranker's answer over the candidates that are nodes: any order, cut.
RerankedSeeds(pair, nodes, topK) ==
  LET found == SelectSeq(HybridSeeds(pair, 4 * topK), LAMBDA x : x \in nodes)
  IN  {FirstOf(s, topK) : s \in SetToAllKPermutations(ToSet(found))}

-----------------------------------------------------------------------------
\* x stands higher than y in ranking s, a node that is not in it lowest.
Higher(s, x, y) ==
  x \in ToSet(s) /\ (y \in ToSet(s) => RankIn(s, x) < RankIn(s, y))

\* Both rankings put x over y, or one does while the other has neither.
Agreed(pair, x, y) ==
  \A s \in {pair.dense, pair.sparse} : Higher(s, x, y) \/ {x, y} \cap ToSet(s) = {}

\* At every cut, where x is agreed to come before a seed y, x is a seed before
\* it; and there are as many seeds as nodes ranked until the list is cut, each once.
KeepsAgreement(pair) ==
  \A topK \in 1..Len(IdOrder) :
    LET list == FuseSeeds(pair, topK)
    IN  /\ IsInjective(list) /\ ToSet(list) \subseteq Ranked(pair)
        /\ Len(list) = Min({topK, Cardinality(Ranked(pair))})
        /\ \A j \in DOMAIN list : \A x \in Ranked(pair) :
             Agreed(pair, x, list[j]) => \E i \in 1 .. j - 1 : list[i] = x
=============================================================================
