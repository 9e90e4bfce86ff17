----------------------------- MODULE BundleEmbed -----------------------------
(***************************************************************************)
(* The bundle file between dge ingest, which deletes and rebuilds it       *)
(* (IngestBatch), and dge embed, which adds vectors to it in place,        *)
(* document by document and batch by batch, over a run long enough to be   *)
(* interrupted (src/dge/pipeline.py embed_bundle).                         *)
(*                                                                         *)
(* An embedding run reads through a connection of its own, which goes on   *)
(* reading the file it opened after that file is unlinked; it writes       *)
(* through a new connection per batch, to whatever file has the path then. *)
(* Nothing keeps two runs apart, of one embedder or of two.                *)
(***************************************************************************)
EXTENDS IngestBatch

CONSTANTS
  Model,         \* model ids of embedders
  MaxBatch,      \* model id -> max_batch; 0 for none, a contextual embedder
  Process,       \* processes that run dge embed
  EmbedderOf,    \* process -> model id of the embedder it is run with
  Deployments    \* the sets of processes that may work on one bundle

ASSUME MaxBatchAssumption == MaxBatch \in [Model -> Nat]
ASSUME ProcessAssumption ==
  EmbedderOf \in [Process -> Model] /\ Deployments \subseteq SUBSET Process

VARIABLES
  deployed,   \* the processes in use
  pc,         \* per process: "idle", "documents", "batch" or "write"
  plan,       \* documents its run has still to look at
  already,    \* nodes that carried its model's vector when the run began
  pending     \* nodes of the current document it has still to embed

embed == <<deployed, pc, plan, already, pending>>
vars == <<bundle, batch, embed, ingests, troubles>>

Carrying(m) == {n \in DOMAIN vectors : vectors[n].model = m}

Init ==
  /\ IInit
  /\ deployed \in Deployments
  /\ pc = [r \in Process |-> "idle"]
  /\ plan = [r \in Process |-> <<>>]
  /\ already = [r \in Process |-> {}]
  /\ pending = [r \in Process |-> <<>>]

-----------------------------------------------------------------------------
(* embed_bundle *)

\* Mutant: a document counts as done once one of its nodes is.
OpenByDocument(r) ==
  /\ r \in deployed /\ pc[r] = "idle" /\ file = "full"
  /\ pc' = [pc EXCEPT ![r] = "documents"]
  /\ plan' = [plan EXCEPT ![r] = docs]
  /\ already' = [already EXCEPT ![r] =
       UNION {ToSet(d.nodes) : d \in {x \in ToSet(docs) :
                                   ToSet(x.nodes) \cap Carrying(EmbedderOf[r]) # {}}}]
  /\ UNCHANGED <<deployed, bundle, batch, pending, ingests, troubles>>

\* A bundle without tables is an error and one without rows no work.
Open(r) ==
  /\ r \in deployed /\ pc[r] = "idle" /\ file = "full"
  /\ pc' = [pc EXCEPT ![r] = "documents"]
  /\ plan' = [plan EXCEPT ![r] = docs]
  /\ already' = [already EXCEPT ![r] = Carrying(EmbedderOf[r])]
  /\ UNCHANGED <<deployed, bundle, batch, pending, ingests, troubles>>

\* What of s is not in T, in its order.
Without(s, T) ==
  LET kept[k \in 0..Len(s)] ==
        IF k = 0 THEN <<>>
        ELSE IF s[k] \in T THEN kept[k - 1] ELSE Append(kept[k - 1], s[k])
  IN  kept[Len(s)]

\* Mutant: what already has a vector is embedded again.
AdvanceAnew(r) ==
  /\ pc[r] = "documents" /\ plan[r] # <<>>
  /\ pending' = [pending EXCEPT ![r] = Head(plan[r]).nodes]
  /\ pc' = [pc EXCEPT ![r] = IF pending'[r] = <<>> THEN "documents" ELSE "batch"]
  /\ plan' = [plan EXCEPT ![r] = Tail(@)]
  /\ UNCHANGED <<deployed, bundle, batch, already, ingests, troubles>>

\* The next document that is not to be reviewed, and those of its nodes that
\* have no vector of the model.
Advance(r) ==
  /\ pc[r] = "documents" /\ plan[r] # <<>>
  /\ LET doc == Head(plan[r])
         left == IF doc.review = "pending" THEN <<>>
                 ELSE Without(doc.nodes, already[r])
     IN  /\ pending' = [pending EXCEPT ![r] = left]
         /\ pc' = [pc EXCEPT ![r] = IF left = <<>> THEN "documents" ELSE "batch"]
  /\ plan' = [plan EXCEPT ![r] = Tail(@)]
  /\ UNCHANGED <<deployed, bundle, batch, already, ingests, troubles>>

Finish(r) ==
  /\ pc[r] = "documents" /\ plan[r] = <<>>
  /\ pc' = [pc EXCEPT ![r] = "idle"]
  /\ UNCHANGED <<deployed, bundle, batch, plan, already, pending, ingests, troubles>>

\* Mutant: every document is split, a contextual embedder's too.
ChunkTwo(r) == IF Len(pending[r]) < 2 THEN Len(pending[r]) ELSE 2

\* How many nodes go into the next call.
Chunk(r) ==
  LET most == MaxBatch[EmbedderOf[r]]
  IN  IF most = 0 \/ most > Len(pending[r]) THEN Len(pending[r]) ELSE most

Called(r) == ToSet(SubSeq(pending[r], 1, Chunk(r)))

\* One call for the next nodes.
Embed(r) ==
  /\ pc[r] = "batch"
  /\ pc' = [pc EXCEPT ![r] = "write"]
  /\ UNCHANGED <<deployed, bundle, batch, plan, already, pending, ingests, troubles>>

\* The call raises or returns a wrong number of vectors: on to the next document.
EmbedFails(r) ==
  /\ pc[r] = "batch" /\ troubles < MaxTroubles
  /\ pc' = [pc EXCEPT ![r] = "documents"]
  /\ troubles' = troubles + 1
  /\ UNCHANGED <<deployed, bundle, batch, plan, already, pending, ingests>>

WriteBatch(r) ==
  /\ pc[r] = "write" /\ file \in {"schema", "full"}
  /\ vectors' = [n \in DOMAIN vectors \cup Called(r) |->
       IF n \in Called(r) THEN [model |-> EmbedderOf[r], with |-> Called(r)] ELSE vectors[n]]
  /\ LET left == SubSeq(pending[r], Chunk(r) + 1, Len(pending[r]))
     IN  /\ pending' = [pending EXCEPT ![r] = left]
         /\ pc' = [pc EXCEPT ![r] = IF left = <<>> THEN "documents" ELSE "batch"]
  /\ UNCHANGED <<deployed, file, docs, manifest, batch, plan, already, ingests, troubles>>

\* connect() makes the missing file, the INSERT finds no table and the run dies.
WriteNowhere(r) ==
  /\ pc[r] = "write" /\ file \in {"absent", "blank"}
  /\ file' = "blank"
  /\ pc' = [pc EXCEPT ![r] = "idle"]
  /\ UNCHANGED <<deployed, docs, manifest, vectors, batch, plan, already, pending,
                 ingests, troubles>>

Killed(r) ==
  /\ pc[r] # "idle" /\ troubles < MaxTroubles
  /\ pc' = [pc EXCEPT ![r] = "idle"]
  /\ troubles' = troubles + 1
  /\ UNCHANGED <<deployed, bundle, batch, plan, already, pending, ingests>>

Run(r) == Open(r) \/ Advance(r) \/ Finish(r) \/ Embed(r) \/ EmbedFails(r)
          \/ WriteBatch(r) \/ WriteNowhere(r) \/ Killed(r)

Next == (IngestNext /\ UNCHANGED embed) \/ \E r \in Process : Run(r)

Spec == Init /\ [][Next]_vars

\* Ingest ends once begun, and the operator repeats an embedding run until it
\* has nothing to do, as embed_bundle's "a re-run after an interruption" has it.
Fairness ==
  /\ WF_vars(Proceed /\ UNCHANGED embed)
  /\ \A r \in Process : WF_vars(Run(r))
-----------------------------------------------------------------------------
\* No other process in use runs this one's embedder.
Alone(r) == \A q \in deployed : EmbedderOf[q] = EmbedderOf[r] => q = r

\* A repeated run costs only the missing work: no call is paid for a node that
\* carries the model's vector in the bundle by then, whatever was ingested,
\* interrupted and started over meanwhile.  Two runs of one embedder that
\* overlap do pay for the same nodes, as neither looks again after it began.
PaidOnce ==
  \A r \in Process : Alone(r) /\ pc[r] \in {"batch", "write"} =>
    ToSet(pending[r]) \cap Carrying(EmbedderOf[r]) = {}

\* embed_bundle: re-running start to finish produces identical output for
\* identical input.  A contextual embedder's vector depends on the texts of its
\* call, so every vector of such a model must come of its whole document,
\* however often runs are cut short and however many overlap.  It holds while
\* one embedder is in use.
SameAsFromScratch ==
  \A n \in DOMAIN vectors : MaxBatch[vectors[n].model] = 0 =>
    \E d \in Doc : vectors[n].with = ToSet(Cut[d])

\* However runs fail and die, repetition gives every node of the bundle a
\* vector: no document is left out for good.
AllEmbedded ==
  <>[](file = "full" =>
         \A i \in DOMAIN docs : ToSet(docs[i].nodes) \subseteq DOMAIN vectors)
=============================================================================
