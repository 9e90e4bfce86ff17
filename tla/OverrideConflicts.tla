-------------------------- MODULE OverrideConflicts --------------------------
(***************************************************************************)
(* Competing non obstante clauses of one planned document                  *)
(* (src/dge/l3/conflict.py): every claim of priority with its reach, the   *)
(* pairs that each claim to override the other, and one finding for the    *)
(* claims over the whole act.  Findings are derived from the text; whether *)
(* they agree with the edges of ingest is a property.                      *)
(***************************************************************************)
EXTENDS SectionWindows

CONSTANT
  Reaches   \* content -> the reach read after each SUPERSEDES marker in it

Reach == [marker : DOMAIN Markers, scope : {"section", "document", "external"}, target : Nat]

ASSUME ReachesAssumption ==
  /\ Reaches \in [Content -> SUBSET Reach]
  /\ \A c \in Content : \A r \in Reaches[c] :
       /\ Markers[r.marker].type = "supersedes"
       /\ \E m \in Says[c] :
            /\ m.marker = r.marker
            /\ r.scope = "section" => m.cites[1].of = "section" /\ r.target \in m.cites[1].nums

VARIABLES
  mutual,    \* findings of MUTUAL_REFERENCE: pairs of clauses
  cluster    \* findings of DOCUMENT_SCOPE_CLUSTER: sets of clauses

cvars == <<wvars, mutual, cluster>>

-----------------------------------------------------------------------------
(* override_claims *)

\* Read off the window's heading; the tail of a split section has none.
SectionNumber(w) ==
  IF nodes[w.nodes[1]].kind = "structural" THEN Opening(w.nodes[1]).num ELSE 0

\* What is read after the marker of a match.
ReachesAfter(n, x) == {r \in Reaches[ContentOf(n, x[2])] : r.marker = x[1].marker}

ClaimsOf(n, number) ==
  UNION {{[node |-> n, section |-> number, scope |-> r.scope, target |-> r.target] :
            r \in ReachesAfter(n, x)} : x \in FirstMatches(n)}

OverrideClaims ==
  UNION {UNION {ClaimsOf(n, SectionNumber(w)) : n \in ToSet(w.nodes) \cap Provisions} :
         w \in ToSet(windows)}

-----------------------------------------------------------------------------
(* detect_override_conflicts *)

\* Mutant: an act-wide claim covers its own section, too.
CoversOwn(claim, other) ==
  /\ claim.node # other.node
  /\ \/ claim.scope = "document"
     \/ /\ claim.scope = "section"
        /\ claim.target = other.section

\* Does the claim assert priority over the provision the other one sits in?
Covers(claim, other) ==
  /\ claim.node # other.node
  /\ \/ /\ claim.scope = "document"
        /\ claim.section # other.section \/ claim.section = 0
     \/ /\ claim.scope = "section"
        /\ claim.target = other.section

ActWide(claims) == {c \in claims : c.scope = "document"}

\* Mutant: one side's claim is enough.
PairsOneSided(claims) ==
  {p \in claims \X claims : ~(p \in ActWide(claims) \X ActWide(claims)) /\ Covers(p[1], p[2])}

Pairs(claims) ==
  {p \in claims \X claims :
     /\ ~(p \in ActWide(claims) \X ActWide(claims))
     /\ Covers(p[1], p[2]) /\ Covers(p[2], p[1])}

Clusters(claims) ==
  {wide \in {ActWide(claims)} : Cardinality({c.section : c \in wide}) > 1}

CInit == WInit /\ mutual = {} /\ cluster = {}

DetectConflicts ==
  /\ pc = "conflicts"
  /\ mutual' = {{p[1].node, p[2].node} : p \in Pairs(OverrideClaims)}
  /\ cluster' = {{c.node : c \in wide} : wide \in Clusters(OverrideClaims)}
  /\ pc' = "planned"
  /\ UNCHANGED <<parse, raw, edges, plan>>

CNext ==
  \/ ENext /\ UNCHANGED <<plan, mutual, cluster>>
  \/ Plan /\ UNCHANGED <<mutual, cluster>>
  \/ DetectConflicts

CSpec == CInit /\ [][CNext]_cvars
-----------------------------------------------------------------------------
\* Whether n lies in the part of a section that carries its heading.
UnderHeading(n) ==
  \E w \in ToSet(windows) : n \in ToSet(w.nodes) /\ nodes[w.nodes[1]].kind = "structural"

NumberOver(n) == Opening(EnclosingSection(n)).num

\* n supersedes the heading of a section of this number.
Supersedes(n, num) ==
  \E e \in edges : /\ e.type = "supersedes" /\ e.src = n
                   /\ nodes[e.dst].kind = "structural" /\ Opening(e.dst).num = num

\* All that n overrides, if anything, is one section of the same act, which it
\* cites and which is the reach read after the marker.  A list of sections, a
\* section of another Act, the whole act and what goes before are something else.
OverridesOneSection(n) ==
  \A x \in FirstMatches(n) : Markers[x[1].marker].type = "supersedes" =>
    /\ Markers[x[1].marker].hint = "referenced"
    /\ Len(x[1].cites) = 1
    /\ LET c == x[1].cites[1] IN
       /\ c.of = "section" /\ ~c.foreign /\ ~c.broken
       /\ \E k \in c.nums :
            /\ c.nums = {k}
            /\ ReachesAfter(n, x)
                 = {[marker |-> x[1].marker, scope |-> "section", target |-> k]}

\* conflict.py: the conflict of two clauses that name each other's section is
\* the 2-cycle of the supersedes edges ingest wrote, found through the tree and
\* the section registry, while the finding goes by windows and their headings.
\* The two agree on every pair of such clauses in the heading's part of their
\* sections: no cycle goes unreported and none is invented.
ConflictsAreTwoCycles ==
  pc = "planned" =>
    \A n, m \in {k \in Provisions : UnderHeading(k) /\ OverridesOneSection(k)} :
      n # m =>
        ({n, m} \in mutual <=>
           Supersedes(n, NumberOver(m)) /\ Supersedes(m, NumberOver(n)))

ClaimsActWide(n) == \E c \in ActWide(OverrideClaims) : c.node = n
OnlyActWide(n) == \A c \in OverrideClaims : c.node = n => c.scope = "document"

\* Act-wide claims of two sections compete, in one finding for the act; an
\* act-wide claim competes with a clause of another section that overrides its
\* section, and, if it is all its clause claims, never with one of its own section.
ActWideClaimsCompete ==
  pc = "planned" =>
    /\ Cardinality(cluster) <= 1
    /\ \A n, m \in {k \in Provisions : UnderHeading(k)} :
         n # m /\ ClaimsActWide(n) =>
           /\ ClaimsActWide(m) /\ NumberOver(n) # NumberOver(m)
                => \E all \in cluster : {n, m} \subseteq all
           /\ OverridesOneSection(m) /\ Supersedes(m, NumberOver(n))
                => /\ NumberOver(n) # NumberOver(m) => {n, m} \in mutual
                   /\ {n, m} \in mutual /\ OnlyActWide(n) => NumberOver(n) # NumberOver(m)
=============================================================================
