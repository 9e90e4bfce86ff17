--------------------------- MODULE StructuralEdges ---------------------------
(***************************************************************************)
(* What ingest makes of one parsed document (src/dge/pipeline.py): terms   *)
(* and their mentions (src/dge/lexicon.py), the edges of the domain pack's *)
(* structural units and markers (src/dge/edges.py, domains/legal.py), and  *)
(* one edge per relation.  The edges are those that EdgePolicy walks.      *)
(*                                                                         *)
(* A marker and the citations it governs stand in one segment, whose text  *)
(* is reduced to its citations and the clause breaks between them.         *)
(***************************************************************************)
EXTENDS DocumentParse, EdgePolicy, FiniteSetsExt

CONSTANTS
  Says,     \* content -> the markers it matches and what they cite
  Term,     \* surface forms
  NoTerm,
  Means,    \* content -> the term it defines, or NoTerm
  Uses      \* content -> the terms that occur in it

VARIABLES
  raw,      \* edges as the stages made them
  edges     \* doc_edges

vars == <<parse, pc, raw, edges>>

-----------------------------------------------------------------------------
(* LEGAL_MARKERS *)

Mark(type, confidence, hint, side) ==
  [type |-> type, confidence |-> confidence, hint |-> hint, side |-> side]

Markers ==
  [non_obstante       |-> Mark("supersedes", 100, "referenced", "after"),
   subject_to         |-> Mark("conditioned_on", 100, "referenced", "after"),
   save_as_provided   |-> Mark("exception_of", 100, "referenced", "after"),
   nothing_in_referenced_shall_apply
                      |-> Mark("exception_of", 100, "referenced", "within"),
   nothing_shall_apply |-> Mark("exception_of", 100, "preceding", "after"),
   unless             |-> Mark("conditioned_on", 60, "preceding", "after"),
   deeming            |-> Mark("defines", 100, "preceding", "after"),
   shall_not_apply_to |-> Mark("exception_of", 100, "preceding", "after"),
   for_the_purposes_of |-> Mark("defines", 60, "following", "after"),
   for_the_purposes_of_referenced
                      |-> Mark("defines", 100, "referenced", "after"),
   substitution       |-> Mark("amends", 100, "referenced", "before"),
   insertion          |-> Mark("amends", 100, "referenced", "before"),
   omission           |-> Mark("amends", 100, "referenced", "before"),
   repeal             |-> Mark("supersedes", 100, "referenced", "before"),
   overruled          |-> Mark("supersedes", 100, "referenced", "after"),
   per_incuriam       |-> Mark("supersedes", 100, "referenced", "after"),
   distinguished      |-> Mark("exception_of", 60, "referenced", "after"),
   affirmed           |-> Mark("supports", 60, "referenced", "after"),
   notwithstanding_clause |-> Mark("supersedes", 100, "preceding", "after"),
   except_that        |-> Mark("exception_of", 100, "preceding", "after"),
   provided_however   |-> Mark("exception_of", 100, "preceding", "after"),
   survival           |-> Mark("conditioned_on", 100, "preceding", "after"),
   liability_cap      |-> Mark("conditioned_on", 100, "preceding", "after")]

\* A citation: the section or sub-section numbers it lists, ranges expanded, the
\* section it names for sub-sections (0 for none), whether another instrument
\* follows it, and whether a clause break comes between the last citation of its
\* kind, or else the marker, and it.
Citation == [of : {"section", "subsection"}, nums : SUBSET (Nat \ {0}), section : Nat,
             foreign : BOOLEAN, broken : BOOLEAN]

ASSUME SaysAssumption ==
  Says \in [Content -> SUBSET [marker : DOMAIN Markers, cites : Seq(Citation)]]
ASSUME TermAssumption ==
  /\ NoTerm \notin Term
  /\ \A c \in Content : Means[c] \in Term \cup {NoTerm} /\ Uses[c] \subseteq Term

-----------------------------------------------------------------------------
(* _build_cursor *)

Provisions == {n \in DOMAIN nodes : nodes[n].kind = "proposition"}

\* The line a node starts with, if it starts a line.
Opening(n) == LET s == nodes[n].segs[1] IN
  IF s[2] = 1 THEN text[s[1]]
  ELSE [shape |-> "proviso", num |-> 0, bare |-> FALSE]

\* The last heading of a number is the one that stays registered.
SectionOf(num) ==
  LET found == {n \in DOMAIN nodes :
                  nodes[n].kind = "structural" /\ Opening(n).num = num}
  IN  IF num = 0 \/ found = {} THEN 0 ELSE Max(found)

MaxAncestorWalk == 12

\* The nearest structural ancestor, 0 if there is none within the bound.
EnclosingSection(n) ==
  LET up[i \in 0..MaxAncestorWalk] ==
        IF i = 0 THEN n ELSE IF up[i - 1] = 0 THEN 0 ELSE nodes[up[i - 1]].parent
      found == {i \in 1..MaxAncestorWalk :
                  up[i] # 0 /\ nodes[up[i]].kind = "structural"}
  IN  IF found = {} THEN 0 ELSE up[Min(found)]

\* Mutant: registered by the enumerator alone.
SubsectionOfAny(section, num) ==
  LET found == {n \in Provisions :
                  Opening(n).shape = "subsec" /\ Opening(n).num = num}
  IN  IF found = {} THEN 0 ELSE Min(found)

\* The first sub-section of a number in a section is the one registered.
SubsectionOf(section, num) ==
  LET found == {n \in Provisions :
                  /\ Opening(n).shape = "subsec" /\ Opening(n).num = num
                  /\ EnclosingSection(n) = section}
  IN  IF section = 0 \/ found = {} THEN 0 ELSE Min(found)

\* Mutant: footnotes count as siblings.
SiblingsAll(n) == {m \in DOMAIN nodes : nodes[m].parent = nodes[n].parent}

\* Footnotes are not in the sibling chain.
Siblings(n) ==
  {m \in DOMAIN nodes : nodes[m].parent = nodes[n].parent /\ nodes[m].kind # "footnote"}

Preceding(n) ==
  LET before == {m \in Siblings(n) : m < n}
  IN  IF before = {} THEN nodes[n].parent ELSE Max(before)

Following(n) ==
  LET after == {m \in Siblings(n) : m > n}
  IN  IF after = {} THEN 0 ELSE Min(after)

-----------------------------------------------------------------------------
(* link_mentions *)

ContentOf(n, i) == LET s == nodes[n].segs[i] IN text[s[1]].segs[s[2]]
Contents(n) == {ContentOf(n, i) : i \in DOMAIN nodes[n].segs}

\* extract_terms: one term per provision that defines one.
Defined(n) == {Means[c] : c \in Contents(n)} \ {NoTerm}
TermOf(n) == IF Defined(n) = {} THEN NoTerm ELSE CHOOSE t \in Defined(n) : TRUE

Made(id, src, type, dst, provenance, confidence, stage) ==
  [id |-> id, src |-> src, type |-> type, dst |-> dst, provenance |-> provenance,
   confidence |-> confidence, stage |-> stage, cross_doc |-> FALSE]

TreeEdges ==
  {Made(<<"part_of", n, nodes[n].parent>>, n, "part_of", nodes[n].parent,
        "structural", 100, 0) : n \in {m \in DOMAIN nodes : nodes[m].parent # 0}}

MentionEdges ==
  {Made(<<"mention", p[1], p[2]>>, p[1], "defines", p[2], "pattern", 80, 1) :
     p \in {q \in Provisions \X Provisions :
              /\ q[1] # q[2]
              /\ \E c \in Contents(q[1]) : TermOf(q[2]) \in Uses[c]}}

-----------------------------------------------------------------------------
(* extract_structural_edges *)

UnitType ==
  [proviso |-> "exception_of", explanation |-> "defines",
   illustration |-> "exemplifies", exception |-> "exception_of",
   subsec |-> "part_of", clause |-> "part_of"]

\* DEFINES runs from the usage to the meaning, everything else from the
\* modifier to the modified.
Oriented(n, target, type) == IF type = "defines" THEN <<target, n>> ELSE <<n, target>>

\* An enumerator alone is no unit: white space must follow it in the node.
IsUnit(n) ==
  /\ Opening(n).shape \in DOMAIN UnitType
  /\ ~(Opening(n).bare /\ Len(nodes[n].segs) = 1)

UnitEdges ==
  {LET unit == Opening(n).shape
       ends == Oriented(n, Preceding(n), UnitType[unit])
   IN  Made(<<unit, n, Preceding(n)>>, ends[1], UnitType[unit], ends[2],
            "structural", 100, 2) :
     n \in {m \in Provisions : IsUnit(m) /\ Preceding(m) # 0}}

-----------------------------------------------------------------------------
(* extract_marker_edges *)

\* Of the citations of one kind a marker governs all that its phrase spans, those
\* after it up to a clause break, or the last one before it.
OfKind(cites, kind, side) ==
  LET own == {i \in DOMAIN cites : cites[i].of = kind}
  IN  CASE side = "within" -> {cites[i] : i \in own}
        [] side = "after" -> {cites[i] : i \in {j \in own :
                                \A k \in own : k <= j => ~cites[k].broken}}
        [] side = "before" -> {cites[i] : i \in {j \in own : \A k \in own : k <= j}}

Governed(cites, side) ==
  UNION {OfKind(cites, kind, side) : kind \in {"section", "subsection"}}

TargetsOf(n, cite) ==
  LET section == IF cite.section = 0 THEN EnclosingSection(n) ELSE SectionOf(cite.section)
  IN  IF cite.foreign THEN {}
      ELSE {IF cite.of = "section" THEN SectionOf(k) ELSE SubsectionOf(section, k) :
              k \in cite.nums} \ {0, n}

Targets(n, marker, cites) ==
  CASE marker.hint = "preceding" -> {Preceding(n)} \ {0}
    [] marker.hint = "following" -> {Following(n)} \ {0}
    [] marker.hint = "referenced" ->
         UNION {TargetsOf(n, c) : c \in Governed(cites, marker.side)}

\* A marker matches where it first occurs in a node.
Matches(n) ==
  {<<m, i>> : m \in UNION {Says[c] : c \in Contents(n)}, i \in DOMAIN nodes[n].segs}

FirstMatches(n) ==
  {x \in Matches(n) :
     /\ x[1] \in Says[ContentOf(n, x[2])]
     /\ \A j \in 1 .. x[2] - 1 :
          \A m \in Says[ContentOf(n, j)] : m.marker # x[1].marker}

\* Mutant: keyed on dst, which is the marker's own node for DEFINES.
MarkerIdByDst(name, n, target, dst) == <<name, n, dst>>

\* Keyed on the target, whatever the edge's direction.
MarkerId(name, n, target, dst) == <<name, n, target>>

MarkerEdgesOf(n) ==
  UNION {LET name == x[1].marker
             marker == Markers[name]
         IN  {LET ends == Oriented(n, t, marker.type)
              IN  Made(MarkerId(name, n, t, ends[2]), ends[1], marker.type, ends[2],
                       "pattern", marker.confidence, 3) :
                t \in Targets(n, marker, x[1].cites)} :
           x \in FirstMatches(n)}

MarkerEdges == UNION {MarkerEdgesOf(n) : n \in Provisions}

-----------------------------------------------------------------------------
(* ingest_documents, one document *)

Relation(e) == <<e.src, e.dst, e.type>>

\* The most confident edge of each relation, of those the first; which of two
\* markers of one stage it is makes no difference here.
Dedupe(S) ==
  {CHOOSE e \in {x \in S : Relation(x) = r} :
     \A f \in {x \in S : Relation(x) = r} :
       f.confidence < e.confidence \/ (f.confidence = e.confidence /\ f.stage >= e.stage) :
     r \in {Relation(x) : x \in S}}

EInit == Init /\ raw = {} /\ edges = {}

Read == Parse /\ UNCHANGED <<raw, edges>>

Lexicon ==
  /\ pc = "lexicon"
  /\ raw' = TreeEdges \cup MentionEdges
  /\ pc' = "patterns"
  /\ UNCHANGED <<parse, edges>>

Patterns ==
  /\ pc = "patterns"
  /\ raw' = raw \cup UnitEdges \cup MarkerEdges
  /\ pc' = "merge"
  /\ UNCHANGED <<parse, edges>>

Merge ==
  /\ pc = "merge"
  /\ edges' = Dedupe(raw)
  /\ pc' = "ingested"
  /\ UNCHANGED <<parse, raw>>

ENext == Read \/ Lexicon \/ Patterns \/ Merge

ESpec == EInit /\ [][ENext]_vars
-----------------------------------------------------------------------------
ClosureEdges == {e \in edges : e.type \in ClosureType}

\* edges.edge_id is a primary key: write_bundle fails, with the old bundle
\* already deleted, if two relations come under one id.
EdgeIdsAreUnique == \A e, f \in edges : e.id = f.id => e = f

\* model.py: a footnote is "apparatus, not a provision - never a closure-edge
\* target", whatever it stands between.
FootnotesStayOut ==
  \A e \in ClosureEdges : \A n \in {e.src, e.dst} : nodes[n].kind # "footnote"

\* A sub-section cited without its section is one of the citing provision's own
\* section: no heading stands between the two.  "(1)" recurs in nearly every
\* section, so any other reading links to an unrelated provision.
CitationsStayHome ==
  \A n \in Provisions : \A x \in FirstMatches(n) :
    \A c \in Governed(x[1].cites, Markers[x[1].marker].side) :
      c.of = "subsection" /\ c.section = 0 /\ Parsed =>
        \A t \in TargetsOf(n, c) :
          \A k \in DOMAIN nodes :
            (t < k /\ k < n) \/ (n < k /\ k < t) => nodes[k].kind # "structural"

-----------------------------------------------------------------------------
(* Claims of the documents that the code does not keep; see README. *)

\* legal.py: a structural unit has a fixed relation to its parent.
PartOfIsTheParent ==
  \A e \in edges : e.type = "part_of" => e.dst = nodes[e.src].parent

\* edges.py: DEFINES is the one type that traversal walks forward, so that every
\* modifier is found from what it modifies.
IngestedGraph == [nodes |-> DOMAIN nodes, edges |-> edges]

ModifiersAreReached ==
  \A e \in ClosureEdges : e.provenance = "pattern" /\ e.stage = 3 =>
    LET modified == IF e.type = "defines" THEN e.src ELSE e.dst
        modifier == IF e.type = "defines" THEN e.dst ELSE e.src
    IN  \E h \in Followed(IngestedGraph, modified) : h.node = modifier
=============================================================================
