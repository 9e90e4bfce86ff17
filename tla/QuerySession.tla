---------------------------- MODULE QuerySession ----------------------------
(***************************************************************************)
(* One query and the answer made from it (src/dge/query.py): run_query     *)
(* seeds, expands closure, expands context, assembles and checks its own   *)
(* seeds; the caller then has a model answer with citations, calls         *)
(* verify_answer on what was cited, and adds what is missing until the     *)
(* verdict is ok.  Meanwhile an extraction in another process may commit   *)
(* to the same bundle: BundleGraph caches nodes but reads edges with a     *)
(* SELECT of its own each time, in no transaction.  A node's edges in and  *)
(* out are two SELECTs and here one step: a commit between the two is one  *)
(* before or after both, since no edge leads from a node to itself.        *)
(*                                                                         *)
(* The closure walk is ClosureFixpoint's.  Context expansion is the        *)
(* promise of ContextPromise without its budget, so every budget is        *)
(* covered.  A transaction that writes several edges shows to this one     *)
(* reader, read by read, as those edges written one after the other.       *)
(***************************************************************************)
EXTENDS ClosureFixpoint

CONSTANTS
  Writes,       \* edges that an extraction may commit while the query runs
  MaxCommits    \* how many it commits: the bound of the model, not the code's

ASSUME WritesAssumption == Writes \subseteq Edge

VARIABLES
  phase,      \* "closure", "context", "check", "answer", "verify", "accepted"
  included,   \* ids of the assembled context
  unchecked,  \* ids whose closure neighbours the check has still to look up
  missing,    \* report.missing_node_ids so far
  sound,      \* run_query's own verdict, once there is one
  given,      \* ids of the context the answer under verification was made from
  cited,      \* ids that answer cites
  baseline,   \* the edges there all the while since the query, later the answer, began
  commits     \* writes so far

walk == <<seeds, pc, queue, current, pending, arrivals, skipped, iterations>>
session == <<phase, included, unchecked, missing, sound, given, cited, baseline>>
allvars == <<graph, walk, session, commits>>

Seeds == Elements(seeds)

\* check_soundness for one cited id: its neighbours are read by the same
\* function as the walk's, and one that is a node must be in the context.
MissingFrom(c, context) ==
  {h.node : h \in {k \in Followed(graph, c) :
                     k.node \in graph.nodes \ context}}

\* Edges of the graph that e may be a later version of.
Versions(g, e) ==
  {x \in g.edges : x.src = e.src /\ x.dst = e.dst /\ x.type = e.type}

-----------------------------------------------------------------------------
SInit ==
  /\ Init
  /\ phase = "closure"
  /\ included = {} /\ unchecked = {} /\ missing = {}
  /\ given = {} /\ cited = {}
  /\ sound = "unknown"
  /\ commits = 0
  /\ baseline = graph.edges

\* A step of closure_fixpoint, under query's default caps and threshold.
Expand == phase = "closure" /\ Next /\ UNCHANGED <<session, commits>>

\* Mutant: context expansion starts from the seeds alone.
BeginContextFromSeeds ==
  /\ phase = "closure" /\ pc # "walk"
  /\ phase' = "context"
  /\ included' = Seeds
  /\ UNCHANGED <<graph, walk, unchecked, missing, sound, given, cited, baseline,
                 commits>>

\* Context expansion starts from everything closure reached.
BeginContext ==
  /\ phase = "closure" /\ pc # "walk"
  /\ phase' = "context"
  /\ included' = Reached
  /\ UNCHANGED <<graph, walk, unchecked, missing, sound, given, cited, baseline,
                 commits>>

AddContext ==
  /\ phase = "context"
  /\ \E m \in included : \E h \in ContextHops(graph, m) :
       /\ h.node \in graph.nodes \ included
       /\ included' = included \cup {h.node}
  /\ UNCHANGED <<graph, walk, phase, unchecked, missing, sound, given, cited,
                 baseline, commits>>

\* Assembly keeps the ids that are nodes; the check of the seeds begins.
Assemble ==
  /\ phase = "context"
  /\ phase' = "check"
  /\ included' = included \cap graph.nodes
  /\ unchecked' = Seeds
  /\ missing' = {}
  /\ UNCHANGED <<graph, walk, sound, given, cited, baseline, commits>>

\* Mutant: the neighbours are compared with those missing so far, not with the
\* context.
LookUpForgetful ==
  /\ phase \in {"check", "verify"}
  /\ \E c \in unchecked :
       /\ unchecked' = unchecked \ {c}
       /\ missing' = MissingFrom(c, included)
  /\ UNCHANGED <<graph, walk, phase, included, sound, given, cited, baseline,
                 commits>>

\* One turn of check_soundness' loop.
LookUp ==
  /\ phase \in {"check", "verify"}
  /\ \E c \in unchecked :
       /\ unchecked' = unchecked \ {c}
       /\ missing' = missing \cup MissingFrom(c, included)
  /\ UNCHANGED <<graph, walk, phase, included, sound, given, cited, baseline,
                 commits>>

\* run_query returns its result with the verdict on the seeds.
ReturnResult ==
  /\ phase = "check" /\ unchecked = {}
  /\ phase' = "answer"
  /\ sound' = IF missing = {} THEN "ok" ELSE "unsound"
  /\ UNCHANGED <<graph, walk, included, unchecked, missing, given, cited,
                 baseline, commits>>

\* The model answers, citing any nodes of the context it was given.
Answer ==
  /\ phase = "answer"
  /\ included # {}
  /\ phase' = "verify"
  /\ given' = included
  /\ baseline' = graph.edges
  /\ \E C \in SUBSET included : C # {} /\ cited' = C /\ unchecked' = C
  /\ missing' = {}
  /\ UNCHANGED <<graph, walk, included, sound, commits>>

\* Mutant: the model is asked again with the context it had.
JudgeForgetful ==
  /\ phase = "verify" /\ unchecked = {}
  /\ phase' = IF missing = {} THEN "accepted" ELSE "answer"
  /\ UNCHANGED <<graph, walk, included, unchecked, missing, sound, given, cited,
                 baseline, commits>>

\* verify_answer's caller: accept, or add report.missing_node_ids and re-run.
Judge ==
  /\ phase = "verify" /\ unchecked = {}
  /\ IF missing = {}
     THEN phase' = "accepted" /\ UNCHANGED included
     ELSE phase' = "answer" /\ included' = included \cup missing
  /\ UNCHANGED <<graph, walk, unchecked, missing, sound, given, cited, baseline,
                 commits>>

\* Another process commits an edge: a new one, or a new version of one that is
\* there under the same id (INSERT OR REPLACE).
Commit ==
  /\ commits < MaxCommits
  /\ phase # "accepted"
  /\ \E e \in Writes \ graph.edges : \E old \in SUBSET Versions(graph, e) :
       /\ Cardinality(old) <= 1
       /\ graph' = [graph EXCEPT !.edges = (@ \ old) \cup {e}]
       /\ baseline' = baseline \ old
  /\ commits' = commits + 1
  /\ UNCHANGED <<walk, phase, included, unchecked, missing, sound, given, cited>>

Query == \/ Expand \/ BeginContext \/ AddContext \/ Assemble \/ LookUp
         \/ ReturnResult \/ Answer \/ Judge

SNext == Query \/ Commit

\* The query's thread runs on and its caller follows verify_answer's contract;
\* nobody owes the bundle a commit.
SSpec == SInit /\ [][SNext]_allvars /\ WF_allvars(Query)
-----------------------------------------------------------------------------
\* Closure neighbours of m over edges that have been there since the baseline.
OldNeighbours(m) ==
  {h.node : h \in {k \in Followed(graph, m) : k.edge \in baseline}} \cap graph.nodes

\* The context of run_query's result holds every closure neighbour of a seed
\* over every edge that was there from the query's beginning to its end,
\* whatever is committed in between: a late edge is missed, an old one never.
\* The neighbours are those the check asks for, without hop caps, so the walk,
\* which has them, still leaves the check of its own seeds nothing to complain of.
OldEdgesAreHonoured ==
  phase = "answer" /\ cited = {} /\ pc = "done" =>
    \A s \in Seeds : OldNeighbours(s) \subseteq included

\* The product guarantee (docs/04 4.7): the context an accepted answer was made
\* from holds every closure neighbour of every node that it cites, over every
\* edge that was there from when the answer was made to when it was accepted.
Guarantee ==
  phase = "accepted" => \A c \in cited : OldNeighbours(c) \subseteq given

\* A query that has a context is answered in the end, commits or not.
IsAccepted == (phase = "answer" /\ included # {}) ~> (phase = "accepted")

-----------------------------------------------------------------------------
(* A claim of the documents that the code does not keep; see README. *)

\* README: "The engine verifies, before returning context, that no known
\* exception or superseding version was omitted."
NoKnownExceptionOmitted ==
  phase = "answer" /\ sound = "ok" =>
    \A m \in included : \A h \in Followed(graph, m) :
      ResolvePolicy(h.edge.type).mandatory /\ h.node \in graph.nodes
        => h.node \in included
=============================================================================
