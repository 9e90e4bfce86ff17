-------------------------- MODULE DeliveredContext --------------------------
(***************************************************************************)
(* A query and the text of the context it delivers, assembled under the    *)
(* terms table of the bundle.                                              *)
(***************************************************************************)
EXTENDS SeededQuery, ContextText

CONSTANT PassageOf   \* node -> what is assembled of it

ASSUME PassageOfAssumption ==
  \A g \in Graphs : IsFiniteSet(g.nodes) /\ \A n \in g.nodes : PassageOf[n] \in Passages

VARIABLE glossary   \* the rows of the terms table, until the text is assembled

dvars == <<rvars, glossary>>

DInit == RInit /\ glossary \in Lexicons

DNext ==
  /\ SNext
  /\ rankings' = none
  /\ glossary' = IF phase' \in {"closure", "context", "check"} THEN glossary ELSE <<>>

DSpec == DInit /\ [][DNext]_dvars

\* assemble: glosses are inlined into the context that is delivered, on first
\* occurrence only and once per context, and change nothing else.
GlossesAnnotate ==
  phase = "check" => Annotates({PassageOf[n] : n \in included}, glossary)
=============================================================================
