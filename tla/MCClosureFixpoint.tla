-------------------------- MODULE MCClosureFixpoint --------------------------
(***************************************************************************)
(* Every subset of a pool of edges over four nodes and two ids that are    *)
(* no nodes, so that chains, cycles, diamonds, parallel edges, a dangling  *)
(* edge and edges under and at the threshold meet in every combination.    *)
(***************************************************************************)
EXTENDS ClosureFixpoint

CONSTANTS rule, exc, defn, cond, ghost, lost   \* ids; the last two no nodes

MCNodeId == {rule, exc, defn, cond, ghost, lost}

E(s, t, d, c) ==
  [src |-> s, type |-> t, dst |-> d, confidence |-> c, cross_doc |-> FALSE]

Pool ==
  {E(exc, "exception_of", rule, 100), E(rule, "exception_of", exc, 100),
   E(rule, "defines", defn, 100), E(defn, "defines", cond, 100),
   E(exc, "conditioned_on", defn, 50), E(cond, "supersedes", exc, 40),
   E(defn, "exception_of", rule, 40), E(ghost, "amends", exc, 100),
   E(cond, "exception_of", defn, 50), E(cond, "exception_of", rule, 100)}

MCSeedLists == {<<rule>>, <<exc, rule>>, <<ghost, lost, cond, rule>>}

\* Chains of definitions longer than their cap, with an unbounded way round.
ChainPool ==
  {E(rule, "defines", exc, 100), E(exc, "defines", defn, 100),
   E(defn, "defines", cond, 100), E(exc, "conditioned_on", rule, 100),
   E(cond, "exception_of", exc, 100), E(defn, "supersedes", cond, 100),
   E(cond, "defines", rule, 100), E(rule, "elaborates", cond, 100)}

MCGraphs ==
  {[nodes |-> {rule, exc, defn, cond}, edges |-> es] : es \in SUBSET Pool \cup SUBSET ChainPool}

\* A pack that walks one closure type both ways.
MCPack == [amends |-> Rule("both", 10, NoCap, TRUE)]
=============================================================================
