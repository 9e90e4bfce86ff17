---------------------------- MODULE DocumentParse ----------------------------
(***************************************************************************)
(* PlainTextParser.parse (src/dge/parsing.py): the physical lines of a     *)
(* document are classified and reflowed into logical units, units are      *)
(* split at inline provisos, the parts are nested into nodes under the     *)
(* headings and enumerators that are open, and the result is scored.       *)
(*                                                                         *)
(* A line is what the regexes tell of it: its shape, the number it starts  *)
(* with, and tests on its text.  Its segments are its text cut at every    *)
(* ": Provided that"; a segment's content only matters to the edges.       *)
(***************************************************************************)
EXTENDS Naturals, Sequences, FiniteSets, SequencesExt

CONSTANTS
  Texts,     \* the documents that may be parsed: sequences of lines
  Content    \* what a segment may say

\* What a line starts like; "keyword" is "Section 5.", "numbered" is "5. Title",
\* "number" is a lone "5." and "letter" is "a.".
Starts == {"chapter", "schedule", "md_heading", "keyword", "numbered", "number",
           "subsec", "clause", "letter", "proviso", "explanation",
           "illustration", "exception"}

Line ==
  [shape : Starts \cup {"text", "blank"},
   num : Nat,               \* the number it starts with, 0 for none
   bare : BOOLEAN,          \* nothing follows the enumerator
   done : BOOLEAN,          \* _LOOKS_COMPLETE_RE
   terminated : BOOLEAN,    \* _MARGINAL_TERMINATOR_RE
   sentence : BOOLEAN,      \* _SENTENCE_LIKE_RE, past the number
   apparatus : BOOLEAN,     \* _FN_VERB_RE or _FN_TAIL_RE
   garbled : BOOLEAN,       \* decoding put in a replacement character
   long : BOOLEAN,          \* the node it is in has more than _MAX_UNIT_LEN_BAD
   segs : Seq(Content)]

ASSUME TextsAssumption ==
  \A t \in Texts : t \in Seq(Line) /\ \A i \in DOMAIN t :
    /\ t[i].shape = "blank" <=> t[i].segs = <<>>
    /\ t[i].shape = "number" => t[i].bare
    /\ t[i].bare => t[i].shape \in {"number", "subsec", "clause", "letter"}

VARIABLES
  text,      \* the document
  pc,        \* "reflow", "split", "nest", "gate"; then "halted" or what follows
  next,      \* the line to read
  open,      \* the unit being accumulated
  prior,     \* the last line that was not blank
  lastSec,   \* the number of the last heading
  suspects,  \* ambiguous_headings
  units,     \* logical units so far
  parts,     \* the units after splitting
  stack,     \* the nodes that are open, outermost first
  nodes      \* nodes so far; a node's id is its place

parse == <<text, next, open, prior, lastSec, suspects, units, parts, stack, nodes>>

-----------------------------------------------------------------------------
(* _classify_line *)

Structural == {"chapter", "schedule", "md_heading", "heading", "heading_bare"}
Footnote == {"footnote", "footnote?"}
Enumerated == Structural \cup {"subsec", "clause", "clause_d", "proviso",
                               "explanation", "illustration", "exception"}
Starter == Enumerated \cup Footnote

\* The next line that is not blank, past one blank line at most.
Ahead(i) ==
  {j \in {i + 1, i + 2} \cap DOMAIN text :
     text[j].shape # "blank" /\ \A k \in i + 1 .. j - 1 : text[k].shape = "blank"}

Numbered(line) ==
  CASE line.apparatus -> "footnote"
    [] ~line.apparatus /\ line.num <= lastSec -> "footnote?"
    [] OTHER -> IF line.sentence /\ ~line.terminated THEN "subsec" ELSE "heading"

Classify(i) ==
  LET line == text[i] IN
  CASE line.shape = "keyword" -> "heading"
    [] line.shape = "numbered" -> Numbered(line)
    [] line.shape = "letter" -> "clause_d"
    [] line.shape = "number" ->
         IF \E j \in Ahead(i) : text[j].sentence /\ ~text[j].terminated
         THEN "subsec" ELSE "heading_bare"
    [] OTHER -> line.shape

-----------------------------------------------------------------------------
(* _reflow *)

NoUnit == [kind |-> "closed", first |-> 0, last |-> 0, bare |-> FALSE]

Flushed == IF open = NoUnit THEN units ELSE Append(units, open)

Init ==
  /\ text \in Texts
  /\ pc = "reflow" /\ next = 1
  /\ open = NoUnit /\ prior = 0 /\ lastSec = 0 /\ suspects = 0
  /\ units = <<>> /\ parts = <<>> /\ stack = <<>> /\ nodes = <<>>

\* A blank line ends the open unit unless it is mid-wrap: a lone enumerator, or
\* a last line that ends mid-thought.
ReadBlank ==
  /\ pc = "reflow" /\ next \in DOMAIN text
  /\ text[next].shape = "blank"
  /\ IF open.kind \in Enumerated /\ (open.bare \/ ~text[prior].done)
     THEN UNCHANGED <<units, open>>
     ELSE units' = Flushed /\ open' = NoUnit
  /\ next' = next + 1
  /\ UNCHANGED <<text, pc, prior, lastSec, suspects, parts, stack, nodes>>

\* Mutant: the unit that was open is not flushed.
ReadStarterOver ==
  /\ pc = "reflow" /\ next \in DOMAIN text
  /\ LET kind == Classify(next) IN
       /\ kind \in Starter
       /\ open' = [kind |-> kind, first |-> next, last |-> next, bare |-> text[next].bare]
       /\ lastSec' = IF kind = "heading" THEN text[next].num ELSE lastSec
       /\ suspects' = IF kind = "footnote?" THEN suspects + 1 ELSE suspects
  /\ prior' = next /\ next' = next + 1
  /\ UNCHANGED <<text, pc, units, parts, stack, nodes>>

\* A line that starts a unit.
ReadStarter ==
  /\ pc = "reflow" /\ next \in DOMAIN text
  /\ LET kind == Classify(next) IN
       /\ kind \in Starter
       /\ units' = Flushed
       /\ open' = [kind |-> kind, first |-> next, last |-> next, bare |-> text[next].bare]
       /\ lastSec' = IF kind = "heading" THEN text[next].num ELSE lastSec
       /\ suspects' = IF kind = "footnote?" THEN suspects + 1 ELSE suspects
  /\ prior' = next /\ next' = next + 1
  /\ UNCHANGED <<text, pc, parts, stack, nodes>>

\* Any other line: absorbed, or the beginning of a unit of plain text.
ReadText ==
  /\ pc = "reflow" /\ next \in DOMAIN text
  /\ text[next].shape = "text"
  /\ open' = IF open = NoUnit
             THEN [kind |-> "text", first |-> next, last |-> next, bare |-> FALSE]
             ELSE [open EXCEPT !.last = next, !.bare = FALSE]
  /\ prior' = next /\ next' = next + 1
  /\ UNCHANGED <<text, pc, lastSec, suspects, units, parts, stack, nodes>>

EndOfText ==
  /\ pc = "reflow" /\ next \notin DOMAIN text
  /\ units' = Flushed /\ open' = NoUnit
  /\ pc' = "split"
  /\ UNCHANGED <<text, next, prior, lastSec, suspects, parts, stack, nodes>>

-----------------------------------------------------------------------------
(* _split_inline_provisos *)

\* The segments of lines from..to: <<line, place in the line>>.
Segments(from, to) ==
  FlattenSeq([i \in 1 .. to + 1 - from |->
    [k \in DOMAIN text[from + i - 1].segs |-> <<from + i - 1, k>>]])

\* Where a unit is cut: at its beginning, at every inline proviso, past its end.
Cuts(segs) ==
  LET at == {1, Len(segs) + 1} \cup {i \in DOMAIN segs : segs[i][2] > 1}
  IN  CHOOSE c \in [1..Cardinality(at) -> at] :
        \A i, j \in DOMAIN c : i < j => c[i] < c[j]

\* Only what follows the last cut becomes a proviso.
Split(u) ==
  LET segs == Segments(u.first, u.last)
      cut == Cuts(segs)
      n == Len(cut) - 1
  IN  [i \in 1..n |-> [kind |-> IF i > 1 /\ i = n THEN "proviso" ELSE u.kind,
                       segs |-> SubSeq(segs, cut[i], cut[i + 1] - 1)]]

SplitUnits ==
  /\ pc = "split"
  /\ parts' = FlattenSeq([i \in DOMAIN units |-> Split(units[i])])
  /\ pc' = "nest"
  /\ UNCHANGED <<text, next, open, prior, lastSec, suspects, units, stack, nodes>>

-----------------------------------------------------------------------------
(* Nesting *)

Levels == [chapter |-> 0, schedule |-> 0, md_heading |-> 1, heading |-> 1,
           heading_bare |-> 1, subsec |-> 2, clause |-> 3, clause_d |-> 3]

Levelled(kind) == kind \in DOMAIN Levels

NodeKind(kind) ==
  CASE kind \in Structural -> "structural"
    [] kind \in Footnote -> "footnote"
    [] OTHER -> "proposition"

\* Mutant: a heading does not close one of its own level.
EnclosingEqual(kind) ==
  IF ~Levelled(kind) THEN stack
  ELSE SubSeq(stack, 1, Max({0} \cup {i \in DOMAIN stack :
                                        Levels[parts[stack[i]].kind] <= Levels[kind]}))

\* What stays open when a part of this kind comes: popped from its end is all
\* past the last of a smaller level.
Enclosing(kind) ==
  IF ~Levelled(kind) THEN stack
  ELSE SubSeq(stack, 1, Max({0} \cup {i \in DOMAIN stack :
                                        Levels[parts[stack[i]].kind] < Levels[kind]}))

\* The next part becomes a node, PART_OF the innermost that encloses it.
Nest ==
  /\ pc = "nest" /\ Len(nodes) < Len(parts)
  /\ LET n == Len(nodes) + 1
         kind == parts[n].kind
         above == Enclosing(kind)
     IN  /\ nodes' = Append(nodes,
              [kind |-> NodeKind(kind), segs |-> parts[n].segs,
               parent |-> IF above = <<>> THEN 0 ELSE Last(above)])
         /\ stack' = IF Levelled(kind) THEN Append(above, n) ELSE above
  /\ UNCHANGED <<text, pc, next, open, prior, lastSec, suspects, units, parts>>

-----------------------------------------------------------------------------
(* The score, and the gate on it (pipeline.py) *)

OverHalfText ==
  2 * Cardinality({n \in DOMAIN parts : parts[n].kind = "text"}) > Len(parts)
Ambiguous == 10 * suspects > Len(parts)
Garbled == \E i \in DOMAIN text : text[i].garbled

Oversize == \E n \in DOMAIN nodes : \E i \in DOMAIN nodes[n].segs :
  text[nodes[n].segs[i][1]].long

\* Plain text costs 0.55, replacement characters 0.3, ambiguous headings 0.2,
\* size 0.3, and below 0.5 is too little.  In floating point 1.0 - 0.3 - 0.2 is
\* below 0.5, but 1.0 - 0.2 - 0.3, for ambiguity and size, is 0.5.
Confident ==
  /\ parts # <<>>
  /\ ~OverHalfText
  /\ ~(Garbled /\ (Ambiguous \/ Oversize))

Gate ==
  /\ pc = "nest" /\ Len(nodes) = Len(parts)
  /\ pc' = IF Confident THEN "lexicon" ELSE "halted"
  /\ UNCHANGED parse

Parse == ReadBlank \/ ReadStarter \/ ReadText \/ EndOfText \/ SplitUnits \/ Nest \/ Gate
-----------------------------------------------------------------------------
Parsed == pc \notin {"reflow", "split", "nest"}

\* The nodes tile the document: every segment of every line is in exactly one
\* node, in the order of the text, whatever was absorbed, wrapped or split.
NodesTile ==
  Parsed =>
    FlattenSeq([n \in DOMAIN nodes |-> nodes[n].segs]) = Segments(1, Len(text))

\* A node is PART_OF the innermost heading or enumerator it stands under: the
\* last one before it, of a smaller level if it has a level itself.
ParentEncloses ==
  \A n \in DOMAIN nodes :
    LET kind == parts[n].kind
        above == {m \in 1 .. n - 1 :
                    /\ Levelled(parts[m].kind)
                    /\ Levelled(kind) => Levels[parts[m].kind] < Levels[kind]}
    IN  /\ above = {} => nodes[n].parent = 0
        /\ above # {} => /\ nodes[n].parent \in above
                         /\ \A m \in above : m <= nodes[n].parent

\* parsing.py: an inline proviso is split off the clause it modifies, as a
\* proposition of its own.  Stated of every inline proviso; see README.
InlineProvisosAreProvisos ==
  Parsed => \A n \in DOMAIN nodes :
    nodes[n].segs[1][2] > 1 => parts[n].kind = "proviso"
=============================================================================
