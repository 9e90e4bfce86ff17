--------------------------- MODULE SectionWindows ---------------------------
(***************************************************************************)
(* Planning the extraction of an ingested document: its nodes are cut into *)
(* windows, one model call each, and the cost gate says which windows get  *)
(* their call (src/dge/l3/sections.py, src/dge/pipeline.py                 *)
(* plan_extraction).  A halted document is not planned.                    *)
(*                                                                         *)
(* A window is the sequence of its nodes, and the number of its section    *)
(* and its place among the parts of that section, which make its key.      *)
(***************************************************************************)
EXTENDS StructuralEdges

CONSTANTS
  MaxChars,   \* the window budget
  Chars,      \* content -> how many characters of raw text it takes
  Gated       \* contents in which a gate term occurs

ASSUME WindowAssumption ==
  MaxChars \in Nat \ {0} /\ Chars \in [Content -> Nat] /\ Gated \subseteq Content

VARIABLES
  at,         \* the node the loop is at
  current,    \* nodes of the open section
  windows,    \* sections, split where oversized
  admitted    \* windows the gate lets through

plan == <<at, current, windows, admitted>>
wvars == <<vars, plan>>

-----------------------------------------------------------------------------
(* _split_oversized *)

RawChars(n) ==
  MapThenSumSet(LAMBDA i : Chars[ContentOf(n, i)], DOMAIN nodes[n].segs)

TotalChars(ns) == MapThenSumSet(LAMBDA i : RawChars(ns[i]), DOMAIN ns)

\* Mutant: the node that does not fit is not put into the new chunk.
ChunksDropping(ns) ==
  FoldLeft(LAMBDA chunks, n :
             IF Last(chunks) # <<>> /\ TotalChars(Last(chunks)) + RawChars(n) > MaxChars
             THEN Append(chunks, <<>>)
             ELSE Append(Front(chunks), Append(Last(chunks), n)),
           << <<>> >>, ns)

\* A node that does not fit begins a new chunk, unless the chunk is empty.
Chunks(ns) ==
  FoldLeft(LAMBDA chunks, n :
             IF Last(chunks) # <<>> /\ TotalChars(Last(chunks)) + RawChars(n) > MaxChars
             THEN Append(chunks, <<n>>)
             ELSE Append(Front(chunks), Append(Last(chunks), n)),
           << <<>> >>, ns)

SplitOversized(ns) == IF TotalChars(ns) <= MaxChars THEN <<ns>> ELSE Chunks(ns)

-----------------------------------------------------------------------------
(* group_sections *)

NextSection == IF windows = <<>> THEN 0 ELSE Last(windows).section + 1

Closed ==   \* flush
  LET parts_ == SplitOversized(current)
  IN  IF current = <<>> THEN windows
      ELSE windows \o [i \in DOMAIN parts_ |->
             [section |-> NextSection, part |-> i, of |-> Len(parts_),
              nodes |-> parts_[i]]]

WInit == EInit /\ at = 1 /\ current = <<>> /\ windows = <<>> /\ admitted = <<>>

BeginPlan ==
  /\ pc = "ingested"
  /\ pc' = "sections"
  /\ UNCHANGED <<parse, raw, edges, plan>>

AtNode(kinds) == pc = "sections" /\ at \in DOMAIN nodes /\ nodes[at].kind \in kinds

SkipFootnote ==
  /\ AtNode({"footnote"})
  /\ at' = at + 1
  /\ UNCHANGED <<vars, current, windows, admitted>>

\* Mutant: a heading does not close the section before it.
OpenSectionInside ==
  /\ AtNode({"structural"})
  /\ current' = Append(current, at)
  /\ at' = at + 1
  /\ UNCHANGED <<vars, windows, admitted>>

OpenSection ==
  /\ AtNode({"structural"})
  /\ windows' = Closed
  /\ current' = <<at>>
  /\ at' = at + 1
  /\ UNCHANGED <<vars, admitted>>

Continue ==
  /\ AtNode({"proposition"})
  /\ current' = Append(current, at)
  /\ at' = at + 1
  /\ UNCHANGED <<vars, windows, admitted>>

EndOfNodes ==
  /\ pc = "sections" /\ at \notin DOMAIN nodes
  /\ windows' = Closed /\ current' = <<>>
  /\ pc' = "gate"
  /\ UNCHANGED <<parse, raw, edges, at, admitted>>

\* should_run_l3
ShouldRun(w) == \E i \in DOMAIN w.nodes : Contents(w.nodes[i]) \cap Gated # {}

ApplyGate ==
  /\ pc = "gate"
  /\ admitted' = SelectSeq(windows, ShouldRun)
  /\ pc' = "conflicts"
  /\ UNCHANGED <<parse, raw, edges, at, current, windows>>

Plan == BeginPlan \/ SkipFootnote \/ OpenSection \/ Continue \/ EndOfNodes \/ ApplyGate
-----------------------------------------------------------------------------
Planned == pc \in {"gate", "conflicts", "planned"}

\* Whatever is skipped, flushed or split, every node but the footnotes is in
\* exactly one window, and the windows follow the document: no provision is
\* kept from the model, or shown to it in two calls that could contradict.
WindowsTile ==
  Planned =>
    LET shown == FlattenSeq([i \in DOMAIN windows |-> windows[i].nodes])
    IN  /\ ToSet(shown) = {n \in DOMAIN nodes : nodes[n].kind # "footnote"}
        /\ \A i, j \in DOMAIN shown : i < j => shown[i] < shown[j]

\* A window does not reach across a heading, so that a quote from an unrelated
\* section cannot pass for evidence; it is within the budget unless it is one
\* node; and a section is not cut where the next node would have fitted, since
\* what stands in two windows can no longer be related.
WindowsAreSections ==
  /\ \A i \in DOMAIN windows :
       LET ns == windows[i].nodes IN
       /\ \A k \in ns[1] + 1 .. Last(ns) : nodes[k].kind # "structural"
       /\ Len(ns) > 1 => TotalChars(ns) <= MaxChars
  /\ \A i \in 2..Len(windows) :
       LET before == windows[i - 1].nodes
           first == windows[i].nodes[1]
       IN  TotalChars(before) + RawChars(first) > MaxChars
             \/ \E k \in Last(before) + 1 .. first : nodes[k].kind = "structural"
=============================================================================
