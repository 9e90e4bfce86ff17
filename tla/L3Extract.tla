------------------------------ MODULE L3Extract ------------------------------
(***************************************************************************)
(* dge extract over one document (src/dge/pipeline.py extract_bundle,      *)
(* src/dge/l3/run.py): read the document's pattern edges, call the model   *)
(* once per admitted section, validate what it claims, reconcile the       *)
(* pattern edges with it and write the outcome in one transaction.  A run  *)
(* may be repeated, fail call by call, die, or share the bundle with       *)
(* another run.                                                            *)
(*                                                                         *)
(* The model's answers are an oracle, section by section.  A relation is   *)
(* its ends and type; the bundle files it under an id that also names the  *)
(* stage that made it, and ingest has left one pattern edge per relation.  *)
(* Confidences are in ten-thousandths, the precision the code rounds to.   *)
(***************************************************************************)
EXTENDS Evidence

CONSTANTS
  Proc,        \* extract processes
  NodeId,
  Windows,     \* the sections the gate admits, in order: sets of node ids
  Ingests,     \* the edge tables ingest may have left: pattern id -> entry
  WindowText,  \* the raw text of each, node by node
  Responses,   \* what a call may answer: sequences of claims
  Steady,      \* whether a section is answered alike in every run
  MaxRuns      \* runs started: the bound of the model, not the code's

Strong == 10000                 \* STRONG_PATTERN_CONFIDENCE

\* The closed enum of the prompt.  Pattern edges have further types.
AllowedType == {"exception_of", "supersedes", "defines"}

Relation == [src : NodeId, type : STRING, dst : NodeId]
Entry == [provenance : {"pattern", "verified", "model"}, confidence : 0..Strong,
          span : Seq(Char)]
Claims == [src : NodeId, type : STRING, dst : NodeId, confidence : Int, quote : Seq(Char)]

ASSUME WindowsAssumption ==
  Windows \in Seq(SUBSET NodeId) /\ WindowText \in [DOMAIN Windows -> Seq(Char)]
ASSUME SectionsAreDisjoint ==
  \A i, j \in DOMAIN Windows : i # j => Windows[i] \cap Windows[j] = {}
ASSUME IngestsAssumption ==
  \A table \in Ingests : \A id \in DOMAIN table :
    /\ id \in [by : {"pattern"}, key : Relation]
    /\ table[id] \in Entry /\ table[id].provenance = "pattern"
ASSUME ResponsesAssumption == Responses \subseteq Seq(Claims)
ASSUME BoundAssumption == MaxRuns \in Nat /\ Steady \in BOOLEAN

VARIABLES
  bundle,     \* the edges table: id -> entry
  ingested,   \* what ingest left there
  pc,         \* per process: "idle" or "calling"
  existing,   \* the pattern edges it read, id -> entry
  section,    \* the section it calls next
  claimed,    \* relation -> entry of the model edge last accepted for it
  proposed,   \* relation -> the highest confidence accepted for it
  examined,   \* sections it holds as seen by the model
  oracle,     \* what the model would answer, section by section
  heard,      \* sections whose call has returned
  runs        \* runs started

run == <<pc, existing, section, claimed, proposed, examined, oracle, heard, runs>>
vars == <<bundle, ingested, run>>

Ends(k) == {k.src, k.dst}
Nothing == [x \in {} |-> 0]
Update(f, g) ==   \* INSERT OR REPLACE
  [x \in DOMAIN f \cup DOMAIN g |-> IF x \in DOMAIN g THEN g[x] ELSE f[x]]

-----------------------------------------------------------------------------
(* validate_candidate *)

KeyOf(c) == [src |-> c.src, type |-> c.type, dst |-> c.dst]

Check(c, i) == CheckEvidence(c.quote, WindowText[i])

\* Mutant: the ends are not looked up in the call's window.
ValidAnywhere(c, i) ==
  /\ c.type \in AllowedType
  /\ c.src # c.dst
  /\ Check(c, i).verdict # "rejected"

\* Whether claim c is accepted of window i.
Valid(c, i) ==
  /\ c.type \in AllowedType
  /\ Ends(c) \subseteq Windows[i]
  /\ c.src # c.dst
  /\ Check(c, i).verdict # "rejected"

Clamp(confidence) ==
  IF confidence < 0 THEN 0 ELSE IF confidence > Strong THEN Strong ELSE confidence

ValidClaims(answer, w) == {i \in DOMAIN answer : Valid(answer[i], w)}

\* The last valid claim of each relation is the one that stays written ...
LastClaims(answer, w) ==
  [k \in {KeyOf(answer[i]) : i \in ValidClaims(answer, w)} |->
     LET last == Max({i \in ValidClaims(answer, w) : KeyOf(answer[i]) = k})
     IN  [provenance |-> "model", confidence |-> Clamp(answer[last].confidence),
          span |-> Check(answer[last], w).span]]

\* ... and the highest is the one reconciliation goes by.
HighestClaims(answer, w) ==
  [k \in {KeyOf(answer[i]) : i \in ValidClaims(answer, w)} |->
     Max({Clamp(answer[i].confidence) :
            i \in {j \in ValidClaims(answer, w) : KeyOf(answer[j]) = k}})]

-----------------------------------------------------------------------------
(* _reconcile_pattern_edges *)

Asked(k, seen) == \E i \in seen : Ends(k) \subseteq Windows[i]

\* Mutant: STRONG edges are put to the vote as well.
MediumOrStrong(e) == e.provenance = "pattern"

Medium(e) == e.provenance = "pattern" /\ e.confidence < Strong

\* Mutant: confirmation takes the model's confidence for the edge's.
ConfirmedByModel(e, confidence) ==
  [e EXCEPT !.provenance = "verified", !.confidence = confidence]

\* The pattern's own confidence is a floor.
Confirmed(e, confidence) ==
  [e EXCEPT !.provenance = "verified", !.confidence = Max({@, confidence})]

Unconfirmed(e) == [e EXCEPT !.confidence = (@ + 1) \div 2]

Reconciled(id, e, said, seen) ==
  IF ~Medium(e) \/ ~Asked(id.key, seen) THEN e
  ELSE IF id.key \in DOMAIN said THEN Confirmed(e, said[id.key])
  ELSE Unconfirmed(e)

-----------------------------------------------------------------------------
Oracles == [DOMAIN Windows -> Responses]

Init ==
  /\ ingested \in Ingests
  /\ bundle = ingested
  /\ pc = [p \in Proc |-> "idle"]
  /\ existing = [p \in Proc |-> Nothing]
  /\ section = [p \in Proc |-> 1]
  /\ claimed = [p \in Proc |-> Nothing] /\ proposed = [p \in Proc |-> Nothing]
  /\ examined = [p \in Proc |-> {}] /\ heard = [p \in Proc |-> {}]
  /\ oracle \in [Proc -> Oracles]
  /\ runs = 0

\* The run reads the pattern edges of the document.  Verified edges are not
\* among them.
Start(p) ==
  /\ pc[p] = "idle" /\ runs < MaxRuns
  /\ pc' = [pc EXCEPT ![p] = "calling"]
  /\ existing' = [existing EXCEPT ![p] =
       [id \in {i \in DOMAIN bundle : bundle[i].provenance = "pattern"} |-> bundle[id]]]
  /\ section' = [section EXCEPT ![p] = 1]
  /\ claimed' = [claimed EXCEPT ![p] = Nothing]
  /\ proposed' = [proposed EXCEPT ![p] = Nothing]
  /\ examined' = [examined EXCEPT ![p] = {}]
  /\ heard' = [heard EXCEPT ![p] = {}]
  /\ IF Steady THEN UNCHANGED oracle
     ELSE \E o \in Oracles : oracle' = [oracle EXCEPT ![p] = o]
  /\ runs' = runs + 1
  /\ UNCHANGED <<bundle, ingested>>

\* Mutant: the section is marked as examined before its call.
FailMarked(p) ==
  /\ section' = [section EXCEPT ![p] = @ + 1]
  /\ examined' = [examined EXCEPT ![p] = @ \cup {section[p]}]
  /\ UNCHANGED <<claimed, proposed, heard>>

\* The call raises: the failure is recorded and the run goes on.
Fail(p) ==
  /\ section' = [section EXCEPT ![p] = @ + 1]
  /\ UNCHANGED <<claimed, proposed, examined, heard>>

Hear(p) ==
  LET answer == oracle[p][section[p]]
      w == section[p]
  IN
  /\ section' = [section EXCEPT ![p] = @ + 1]
  /\ examined' = [examined EXCEPT ![p] = @ \cup {section[p]}]
  /\ heard' = [heard EXCEPT ![p] = @ \cup {section[p]}]
  /\ claimed' = [claimed EXCEPT ![p] = Update(@, LastClaims(answer, w))]
  /\ proposed' = [proposed EXCEPT ![p] = Update(@, HighestClaims(answer, w))]

Call(p) ==
  /\ pc[p] = "calling" /\ section[p] \in DOMAIN Windows
  /\ Hear(p) \/ Fail(p)
  /\ UNCHANGED <<bundle, ingested, pc, existing, oracle, runs>>

PatternRelations(p) == {id.key : id \in DOMAIN existing[p]}

\* Mutant: a model edge is written even if a pattern edge says the same.
ModelWritesAll(p) ==
  [id \in {[by |-> "model", key |-> k] : k \in DOMAIN claimed[p]} |->
     claimed[p][id.key]]

ModelWrites(p) ==
  [id \in {[by |-> "model", key |-> k] : k \in DOMAIN claimed[p] \ PatternRelations(p)} |->
     claimed[p][id.key]]

\* Only reconciled edges that changed are written.
PatternWrites(p) ==
  LET after(id) == Reconciled(id, existing[p][id], proposed[p], examined[p])
  IN  [id \in {i \in DOMAIN existing[p] : after(i) # existing[p][i]} |-> after(id)]

\* All that the run found is committed in one transaction.
Write(p) ==
  /\ pc[p] = "calling" /\ section[p] \notin DOMAIN Windows
  /\ bundle' = Update(bundle, Update(ModelWrites(p), PatternWrites(p)))
  /\ pc' = [pc EXCEPT ![p] = "idle"]
  /\ UNCHANGED <<ingested, existing, section, claimed, proposed, examined, oracle,
                 heard, runs>>

\* The process dies: what it heard is lost.
Crash(p) ==
  /\ pc[p] = "calling"
  /\ pc' = [pc EXCEPT ![p] = "idle"]
  /\ UNCHANGED <<bundle, ingested, existing, section, claimed, proposed, examined,
                 oracle, heard, runs>>

Next == \E p \in Proc : Start(p) \/ Call(p) \/ Write(p) \/ Crash(p)

Spec == Init /\ [][Next]_vars

\* Every call answers and every run ends: what convergence is asked of.
CalmNext == \E p \in Proc :
  \/ Start(p) \/ Write(p)
  \/ pc[p] = "calling" /\ section[p] \in DOMAIN Windows /\ Hear(p)
     /\ UNCHANGED <<bundle, ingested, pc, existing, oracle, runs>>

CalmSpec == Init /\ [][CalmNext]_vars
-----------------------------------------------------------------------------
\* Every model edge in the bundle rests on a claim about two nodes of one
\* section, and its evidence is a passage of that very section, in the
\* section's own characters: a node or a quote from elsewhere never gets in.
Grounded ==
  \A id \in DOMAIN bundle : id.by = "model" =>
    LET span == bundle[id].span IN
    \E i \in DOMAIN Windows : \E answer \in Responses : \E j \in DOMAIN answer :
      /\ KeyOf(answer[j]) = id.key /\ SameButForSpace(span, answer[j].quote)
      /\ LongEnough(span) /\ Find(WindowText[i], span) # 0
      /\ Ends(id.key) \subseteq Windows[i] /\ id.key.src # id.key.dst
      /\ bundle[id].confidence <= Strong

\* STRONG markers are never put to the vote, whoever writes when.
StrongIsFinal ==
  \A id \in DOMAIN ingested :
    ingested[id].confidence = Strong => bundle[id] = ingested[id]

Confirms(p, i, k) ==
  \E j \in ValidClaims(oracle[p][i], i) : KeyOf(oracle[p][i][j]) = k

\* A pattern edge changes only by what the model really said, in the run that
\* writes it, of the one section that holds both its ends: confirmed if it was
\* claimed there, less confident than the run had read it if it was not, and
\* untouched if the call failed, the gate skipped the section or no section
\* holds both.  The graph is a function of the corpus, not of the network's
\* weather.
JudgedByItsSection ==
  [][ \A id \in DOMAIN bundle :
        id.by = "pattern" /\ bundle'[id] # bundle[id] =>
          \E p \in Proc :
            /\ pc[p] = "calling" /\ pc'[p] = "idle"
            /\ Medium(existing[p][id])
            /\ \E i \in heard[p] :
                 /\ Ends(id.key) \subseteq Windows[i]
                 /\ bundle'[id].provenance = "verified" <=> Confirms(p, i, id.key)
                 /\ bundle'[id].provenance = "pattern"
                      => bundle'[id].confidence < existing[p][id].confidence ]_vars

\* A confirmed edge is no less confident than the run that confirms it had read
\* it, and no less than any valid claim of that run, whatever the order of the
\* claims.  The bundle may hold more by then: see README.
ConfirmationNeverWeakens ==
  [][ \A id \in DOMAIN bundle :
        bundle'[id].provenance = "verified" /\ bundle[id].provenance = "pattern" =>
          \E p \in Proc :
            /\ pc[p] = "calling" /\ pc'[p] = "idle"
            /\ id \in DOMAIN existing[p]
            /\ bundle'[id].confidence >= existing[p][id].confidence
            /\ \A i \in heard[p] : \A j \in ValidClaims(oracle[p][i], i) :
                 KeyOf(oracle[p][i][j]) = id.key
                   => bundle'[id].confidence >= Clamp(oracle[p][i][j].confidence) ]_vars

\* The first run leaves no relation in the bundle twice, under a pattern id and
\* a model id (pipeline.py: a duplicate silently inflates the degree penalty).
\* A second run does; see README.
NoDuplicateRelation ==
  runs <= 1 => \A a, b \in DOMAIN bundle : a.key = b.key => a = b

-----------------------------------------------------------------------------
(* Claims of the documents that the code does not keep; see README. *)

\* README, pipeline.py: each stage is idempotent, re-running converges.  Though
\* every section is answered again as before and no run dies, a repetition must
\* leave the edges it finds as they are.
RerunConverges ==
  [][ runs > 1 => \A id \in DOMAIN bundle : bundle'[id] = bundle[id] ]_vars
=============================================================================
