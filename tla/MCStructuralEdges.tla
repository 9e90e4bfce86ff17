-------------------------- MODULE MCStructuralEdges --------------------------
(***************************************************************************)
(* Every text of up to four lines of a pool of lines of every shape, and   *)
(* longer ones of a smaller pool, among them headings whose numbers fall,  *)
(* footnotes between provisions, wrapped lines, inline provisos and        *)
(* citations of two sub-sections, of another section and another Act.      *)
(***************************************************************************)
EXTENDS StructuralEdges

MCContent == {"plain", "means", "uses", "purposes", "foreign", "cap", "except",
              "amends", "over5", "over6", "both", "act"}

L(shape, num, done, segs) ==
  [shape |-> shape, num |-> num, bare |-> shape = "number", done |-> done,
   terminated |-> FALSE, sentence |-> FALSE, apparatus |-> FALSE,
   garbled |-> FALSE, long |-> FALSE, segs |-> segs]

Blank == L("blank", 0, FALSE, <<>>)
Heading(n) == L("keyword", n, TRUE, <<"plain">>)
Sub(n, c) == L("subsec", n, TRUE, <<c>>)
Note == [L("numbered", 1, TRUE, <<"plain">>) EXCEPT !.apparatus = TRUE]
Marginal == [L("numbered", 6, TRUE, <<"plain">>) EXCEPT !.terminated = TRUE]
Proviso == L("proviso", 0, TRUE, <<"plain">>)
Sentence == [L("text", 0, TRUE, <<"cap">>) EXCEPT !.sentence = TRUE]

Lines ==
  {Blank, Heading(5), Marginal, Note, Proviso, Sentence,
   L("numbered", 3, FALSE, <<"plain">>), L("number", 7, TRUE, <<"plain">>),
   Sub(1, "means"), Sub(2, "purposes"), L("clause", 0, FALSE, <<"uses">>),
   L("explanation", 0, TRUE, <<"plain">>), L("text", 0, TRUE, <<"amends">>),
   [L("subsec", 2, FALSE, <<"plain">>) EXCEPT !.bare = TRUE],
   [L("text", 0, FALSE, <<"foreign">>) EXCEPT !.garbled = TRUE]}

FewLines == {Heading(5), Marginal, Sub(1, "uses"), Sub(2, "purposes"), Note,
             L("subsec", 1, TRUE, <<"plain", "except">>)}

MoreLines == {Heading(5), L("chapter", 0, TRUE, <<"plain">>),
              L("letter", 0, FALSE, <<"except">>), Proviso, Note,
              L("subsec", 1, TRUE, <<"plain", "plain", "plain">>)}

MCTexts == SeqOf(Lines, 4) \cup [1..5 -> FewLines] \cup [1..5 -> MoreLines]

Cite(of, nums, section, foreign, broken) ==
  [of |-> of, nums |-> nums, section |-> section, foreign |-> foreign, broken |-> broken]

MCSays ==
  [c \in MCContent |->
     CASE c = "purposes" ->
            {[marker |-> "for_the_purposes_of_referenced",
              cites |-> <<Cite("subsection", {1, 2}, 0, FALSE, FALSE),
                          Cite("section", {6}, 0, FALSE, TRUE)>>]}
       [] c = "foreign" ->
            {[marker |-> "non_obstante", cites |-> <<Cite("section", {5}, 0, TRUE, FALSE)>>]}
       [] c = "over5" ->
            {[marker |-> "non_obstante", cites |-> <<Cite("section", {5}, 0, FALSE, FALSE)>>]}
       [] c = "over6" ->
            {[marker |-> "non_obstante", cites |-> <<Cite("section", {6}, 0, FALSE, FALSE)>>]}
       [] c = "both" ->
            {[marker |-> "non_obstante", cites |-> <<Cite("section", {5, 6}, 0, FALSE, FALSE)>>]}
       [] c = "act" ->
            {[marker |-> "non_obstante", cites |-> <<Cite("section", {5}, 0, FALSE, TRUE)>>]}
       [] c = "cap" -> {[marker |-> "liability_cap", cites |-> <<>>]}
       [] c = "except" -> {[marker |-> "except_that", cites |-> <<>>],
            [marker |-> "subject_to", cites |-> <<Cite("subsection", {1}, 6, FALSE, FALSE),
                                              Cite("section", {6}, 0, FALSE, FALSE)>>]}
       [] c = "amends" -> {[marker |-> "insertion",
            cites |-> <<Cite("section", {3}, 0, FALSE, FALSE), Cite("subsection", {2}, 0, FALSE, TRUE),
                        Cite("section", {5}, 0, FALSE, TRUE)>>]}
       [] OTHER -> {}]

MCTerm == {"term"}
MCMeans == [c \in MCContent |-> IF c = "means" THEN "term" ELSE "none"]
MCUses == [c \in MCContent |-> IF c = "uses" THEN {"term"} ELSE {}]
MCNodeId == 1..12
NoOverrides == [t \in {} |-> ClosureDefault]
=============================================================================
