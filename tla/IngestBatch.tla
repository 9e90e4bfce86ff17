------------------------------ MODULE IngestBatch ------------------------------
(***************************************************************************)
(* dge ingest over a list of files: each is read, recognised by its        *)
(* content, parsed and either halted for review or taken in; then the      *)
(* bundle file is deleted and built anew in three steps                    *)
(* (src/dge/pipeline.py ingest_documents, src/dge/bundle.py write_bundle). *)
(* What parsing, lexicon and edges make of one document is the subject of  *)
(* DocumentParse and StructuralEdges; here it is the nodes they cut.       *)
(***************************************************************************)
EXTENDS Naturals, Sequences, FiniteSets, SequencesExt

CONSTANTS
  Node,
  Cut,          \* content, by its doc_id -> the node ids that parsing cuts it into
  Confident,    \* the contents whose parse score reaches the threshold
  Unreadable,   \* a file that is gone by the time it is read
  Batches,      \* the lists of files that ingest may be given, by their content
  MaxIngests,   \* ingests: a bound of the model, not the code's
  MaxTroubles   \* failed calls and killed runs: likewise

Doc == DOMAIN Cut
ASSUME CutAssumption ==
  /\ Cut \in [Doc -> Seq(Node)] /\ Confident \subseteq Doc /\ Unreadable \notin Doc
  /\ \A d \in Doc : IsInjective(Cut[d])
  /\ \A d, e \in Doc : d # e => ToSet(Cut[d]) \cap ToSet(Cut[e]) = {}
ASSUME BatchesAssumption == Batches \subseteq Seq(Doc \cup {Unreadable})
ASSUME BoundsAssumption == MaxIngests \in Nat /\ MaxTroubles \in Nat

VARIABLES
  file,       \* what the path holds: "absent", "blank", "schema" or "full"
  docs,       \* its documents with their review_state and nodes
  manifest,   \* source_files of its manifest
  vectors,    \* its node_vectors: node id -> model and the nodes of its call
  ingest,     \* the ingest process: "idle", "reading", "unlinked" or "created"
  corpus,     \* the files it was given
  toRead,     \* those it has still to read
  taken,      \* the documents it has collected
  ingests, troubles

bundle == <<file, docs, manifest, vectors>>
batch == <<ingest, corpus, toRead, taken>>

NoVectors == [n \in {} |-> {}]
IdsOf(rows) == {rows[i].id : i \in DOMAIN rows}

-----------------------------------------------------------------------------
IInit ==
  /\ file = "absent" /\ docs = <<>> /\ manifest = <<>> /\ vectors = NoVectors
  /\ ingest = "idle" /\ corpus = <<>> /\ toRead = <<>> /\ taken = <<>>
  /\ ingests = 0 /\ troubles = 0

(* ingest_documents: the loop over the paths *)

Begin ==
  /\ ingest = "idle" /\ ingests < MaxIngests
  /\ ingest' = "reading"
  /\ corpus' \in Batches
  /\ toRead' = corpus' /\ taken' = <<>>
  /\ ingests' = ingests + 1
  /\ UNCHANGED <<bundle, troubles>>

\* The next document, if it is neither gone nor among those already taken.
NextIsNew ==
  /\ ingest = "reading" /\ toRead # <<>>
  /\ Head(toRead) \in Doc \ IdsOf(taken)

Collect(review, nodes) ==
  /\ taken' = Append(taken, [id |-> Head(toRead), review |-> review, nodes |-> nodes])
  /\ toRead' = Tail(toRead)
  /\ UNCHANGED <<bundle, ingest, corpus, ingests, troubles>>

\* Mutant: the same content under another name is taken once more.
SkipNone ==
  /\ ingest = "reading" /\ toRead # <<>> /\ Head(toRead) \in IdsOf(taken)
  /\ Collect("none", Cut[Head(toRead)])

Skip ==
  /\ ingest = "reading" /\ toRead # <<>> /\ Head(toRead) \in IdsOf(taken)
  /\ toRead' = Tail(toRead)
  /\ UNCHANGED <<bundle, ingest, corpus, taken, ingests, troubles>>

\* Below PARSE_CONFIDENCE_THRESHOLD: a document row, but nothing downstream.
Halt ==
  /\ NextIsNew /\ Head(toRead) \notin Confident
  /\ Collect("pending", <<>>)

Accept ==
  /\ NextIsNew /\ Head(toRead) \in Confident
  /\ Collect("none", Cut[Head(toRead)])

\* Mutant: a file that cannot be read is passed over.
ReadFailsOn ==
  /\ ingest = "reading" /\ toRead # <<>> /\ Head(toRead) = Unreadable
  /\ toRead' = Tail(toRead)
  /\ UNCHANGED <<bundle, ingest, corpus, taken, ingests, troubles>>

\* read_bytes raises, and ingest with it.
ReadFails ==
  /\ ingest = "reading" /\ toRead # <<>> /\ Head(toRead) = Unreadable
  /\ ingest' = "idle"
  /\ UNCHANGED <<bundle, corpus, toRead, taken, ingests, troubles>>

(* write_bundle *)

Unlink ==
  /\ ingest = "reading" /\ toRead = <<>>
  /\ ingest' = "unlinked"
  /\ file' = "absent" /\ docs' = <<>> /\ manifest' = <<>> /\ vectors' = NoVectors
  /\ UNCHANGED <<corpus, toRead, taken, ingests, troubles>>

CreateSchema ==
  /\ ingest = "unlinked"
  /\ ingest' = "created"
  /\ file' = "schema"
  /\ UNCHANGED <<docs, manifest, vectors, corpus, toRead, taken, ingests, troubles>>

\* doc_id and node_id are keys of their tables.
KeysAreFree ==
  \A i, j \in DOMAIN taken : i # j => taken[i].id # taken[j].id

\* All rows in one transaction.  If a key is there already it is not committed,
\* and the old bundle is gone.
WriteRows ==
  /\ ingest = "created"
  /\ ingest' = "idle"
  /\ file' = IF KeysAreFree THEN "full" ELSE file
  /\ docs' = IF KeysAreFree THEN taken ELSE docs
  /\ manifest' = IF KeysAreFree THEN corpus ELSE manifest
  /\ UNCHANGED <<vectors, corpus, toRead, taken, ingests, troubles>>

IngestDies ==
  /\ ingest # "idle" /\ troubles < MaxTroubles
  /\ ingest' = "idle"
  /\ troubles' = troubles + 1
  /\ UNCHANGED <<bundle, corpus, toRead, taken, ingests>>

Proceed == Skip \/ Halt \/ Accept \/ ReadFails \/ Unlink \/ CreateSchema \/ WriteRows

IngestNext == Begin \/ Proceed \/ IngestDies
-----------------------------------------------------------------------------
\* ingest_documents: a bundle holds each distinct content of the files its
\* manifest names once, with all its nodes if it parsed well and with none if it
\* was halted for review; and an ingest that is not killed and finds its files
\* leaves such a bundle of exactly these files, whatever the names they repeat
\* content under: its own rows are never what the keys refuse.
BundleIsBatch ==
  /\ file = "full" =>
       /\ IdsOf(docs) = ToSet(manifest)
       /\ \A i \in DOMAIN docs :
            /\ \A j \in DOMAIN docs \ {i} : docs[j].id # docs[i].id
            /\ docs[i].nodes = IF docs[i].id \in Confident THEN Cut[docs[i].id] ELSE <<>>
            /\ docs[i].review = "pending" <=> docs[i].id \notin Confident
  /\ ingest = "idle" /\ ingests > 0 /\ troubles = 0 /\ Unreadable \notin ToSet(corpus) =>
       file = "full" /\ manifest = corpus

\* The bundle there is goes only when every file of its successor has been read
\* and parsed: an ingest that fails on its input costs nothing.
OldBundleKept ==
  [][file = "full" /\ file' # "full" => IdsOf(taken) = ToSet(corpus)]_<<bundle, batch>>
=============================================================================
