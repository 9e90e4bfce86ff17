-------------------------- MODULE MCExtractionPlan --------------------------
(***************************************************************************)
(* The texts of MCStructuralEdges, and every text of five lines of two     *)
(* headings, clauses that override one, the other, both or the whole act,  *)
(* and a footnote.  A heading and two clauses fill a window, so that a     *)
(* section with three clauses is split.                                    *)
(***************************************************************************)
EXTENDS OverrideConflicts, MCStructuralEdges

Overriding == {Heading(5), Marginal, Sub(1, "over5"), Sub(1, "over6"), Sub(2, "act"), Note}
Citing == {Heading(5), Marginal, Sub(1, "foreign"), Sub(1, "over6"), Sub(2, "both"),
           L("numbered", 7, TRUE, <<"act">>)}

MCPlanTexts == MCTexts \cup [1..5 -> Overriding] \cup [1..4 -> Citing]

NonObstante(scope, target) == [marker |-> "non_obstante", scope |-> scope, target |-> target]

MCReaches ==
  [c \in MCContent |->
     CASE c = "over5" -> {NonObstante("section", 5)}
       [] c = "over6" -> {NonObstante("section", 6)}
       [] c = "foreign" -> {NonObstante("section", 5)}
       [] c = "act" -> {NonObstante("document", 0)}
       [] OTHER -> {}]

MCMaxChars == 3
MCChars == [c \in MCContent |-> IF c = "purposes" THEN 4 ELSE 1]
MCGated == {"means", "purposes", "foreign", "over5", "over6", "both", "act", "except"}
=============================================================================
