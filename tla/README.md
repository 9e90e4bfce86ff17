# A TLA+ model of dge, the document graph engine

dge ingests legal documents into a bundle (one SQLite file holding nodes, typed
edges, terms and vectors) and answers queries by graph traversal. Its product
claim is that a rule is never delivered without the exceptions, supersessions,
conditions and definitions the graph holds to it. This directory models the code
that the claim rests on, from the physical lines of a document to the verdict on
an answer, checks the models with TLC on small instances and proves with TLAPS,
for every instance, the safety of each component: both walks, the query around
them, extraction, ingest and embedding, the LLM adapter, and parsing, edges and
windows of a document.

`PROJECT.json` lists the components, the runs with their properties, for each
property a mutated definition that breaks it, the source lines that every
definition stands for, the hazards of the code, and the theorems.

## 1. Inventory

| part (under `src/src/dge`) | state it keeps | operations | talks to |
|---|---|---|---|
| L0 parser, `parsing.py` | open unit, last heading number, nesting stack | classify lines, reflow, split inline provisos, nest, score | ingest |
| lexicon, `lexicon.py` | none | find definitions, link mentions | ingest |
| deterministic edges, `edges.py`, `domains/legal.py` | section and sub-section registries, sibling links | unit edges, marker edges, citation resolution | ingest |
| ingest, `pipeline.py:91-205` | documents, nodes, edges of the batch | read, skip doubles, parse, gate, edges, merge; rewrite the bundle | bundle |
| sections and gate, `l3/sections.py` | open section, windows | group under headings, split the oversized, admit by gate terms | extraction, conflicts |
| override conflicts, `l3/conflict.py` | none | read claims and their reach, pair them, cluster act-wide ones | extraction plan, query |
| evidence check, `l3/evidence.py` | none | find a quote in its window, exactly or rewrapped, and slice it out | extraction |
| bundle, `bundle.py` | the SQLite file | write_bundle (unlink and rebuild), write_node_vectors, write_model_edges (one transaction each), index reads | all |
| embedding, `pipeline.py:218-310` | nodes with a vector of the model | per document: skip what is done, call, write | bundle, embedder |
| model extraction, `l3/run.py`, `pipeline.py:358-450` | a snapshot of pattern edges, what was claimed, what was examined | one call per admitted section, validate, reconcile, write | bundle, adapter |
| LLM adapter, `adapters/extract_llm.py` | structured-output latch, next slot | pace, request, fall back | provider |
| closure walk, `traversal/expand.py:145-205` | FIFO queue, arrivals, skipped edges | expand to the fixed point | bundle |
| context expansion, `traversal/expand.py:225-327` | heap, included, tokens, keys seen | best-first expansion | bundle |
| soundness check, `traversal/soundness.py` | missing ids | look the closure neighbours of cited ids up again | bundle |
| hybrid seeding, `retrieval/hybrid.py`, `cli.py:75-114` | none | rank by vector and by words, fuse, rerank, cut | bundle, query |
| assembly, `traversal/assemble.py` | terms glossed so far | order, label, splice glosses | query |
| query, `query.py` | one session | seed, closure, context, assemble, check; verify an answer | all of traversal |

Not in the table, and not modelled: the normalizer, lexical index, the wording of
prompts, adapters without state, most of the CLI, evaluation scripts, and the tables of
`sql/schema.sql` that no code uses (`jobs`, `layer_versions`,
`consolidated_cache`, `eval_traces`). Section 8 gives the reasons.

How parts interact: every arrow goes through the bundle file. `dge ingest`
replaces it; `dge embed` and `dge extract` change it in place over runs of
minutes, holding what they read at the start; `dge query` reads it with one
SELECT per index lookup and no transaction. Nothing locks one command out while
another runs. Within a process the code is sequential.

What is hard here, and the property that watches over it:

- closure must reach a fixed point over cyclic, capped, dangling edges in any
  index order (`FixedPoint`, `ShortestArrivals`, `Completes`), and say what it
  left out (`NothingDroppedSilently`);
- context must pay for closure first, stay best first while the heap goes stale,
  and stop only for cause (`BudgetIsOfTheWhole`, `BestFirst`, `StopsForCause`);
- a query starts from seeds that may be stale and reads several versions of the
  graph while another process commits (`FusionKeepsAgreement`,
  `OldEdgesAreHonoured`, `Guarantee`, `IsAccepted`);
- glosses are spliced into a text that already holds glosses (`GlossesAnnotate`);
- extraction writes back a judgement made on a snapshot, with sections that
  failed in between (`JudgedByItsSection`, `StrongIsFinal`), on quotes that are cut
  out of a window by an index map (`Grounded`, `EvidenceIsExact`);
- its windows are cut by headings and by a budget at once (`WindowsTile`,
  `WindowsAreSections`);
- who overrides whom is read twice, off windows and off the tree
  (`ConflictsAreTwoCycles`, `ActWideClaimsCompete`);
- ingest deletes the bundle it replaces, after reading a list that may hold doubles,
  scans and files that have gone (`BundleIsBatch`, `OldBundleKept`);
- embedding is interrupted and resumed, and the file may be replaced under it
  (`PaidOnce`, `SameAsFromScratch`, `AllEmbedded`);
- a busy provider looks like one that refuses (`OnlyRefusalDowngrades`);
- text comes in drafting dialects where a blank line may or may not end a unit
  and "(1)" recurs in every section (`NodesTile`, `ParentEncloses`,
  `CitationsStayHome`).

## 2. Modules

```
EdgePolicy ── ClosureFixpoint ── QuerySession ── SeededQuery ── DeliveredContext
     │                               RankFusion ──┘  ContextText ──┘
     ├──────── ContextFrontier         ClosurePromise, ContextPromise: what the walks promise
     └─ DocumentParse ── StructuralEdges ── SectionWindows ── OverrideConflicts
Evidence ── L3Extract ── ProbedExtract (LlmAdapter: its transport)    IngestBatch ── BundleEmbed
```

Each line reads "is extended by", from left to right. Proofs are kept apart: `XProofs`
extends X, for `ClosureFixpoint`, `ContextFrontier`, `LlmAdapter` and `BundleEmbed` (with
`IngestBatch`); `QuerySessionProofs` extends `DeliveredContext`, `L3ExtractProofs` extends
`ProbedExtract` and `DocumentProofs` extends `OverrideConflicts`, hence the whole of a
query, of extraction and of a document's modules. `DataLemmas` has what they share about
maxima, sums, lists, folds and flattened sequences.

`EdgePolicy` has the edge types, the policy table of `traversal/policy.py` with a
pack's overrides, and the two neighbour functions. A graph is a set of nodes and
a set of edges; parallel edges are told apart by type and confidence.
Confidence is in hundredths.

`ClosureFixpoint` is one call of `closure_fixpoint`. `Pop` takes an id off the
queue and reads its two indexes; `Look` is one turn of the inner loop, with one
disjunct per branch of the code (`SkipCapped`, `PassKnown`, `SkipDangling`,
`Arrive`); incoming hops are looked at before outgoing ones, in any order within
each, since no index promises an order. `Truncate` is the iteration cap.
`ClosurePromise` is the abstract specification: collect neighbours, then return a set
that no unbounded closure edge leaves. A caller does not see that the cap cut a walk
short (`ClosureResult` is the same), so the abstract status is "returned" either way, and
the promise is about what a caller can count: a result of no more ids than the cap is
closed. `KeepsPromise` is the refinement.

`ContextFrontier` is one call of `context_frontier`. Scores are products of
integers in place of the code's floats; entries of one `push_neighbors` call share a
tick, as Python's order of a set is no order. `ContextPromise` is its abstract
specification: add over context edges, within the budget, until it stops.

`QuerySession` composes the closure walk with context expansion (any admissible
additions, so every budget is covered), assembly, the self check, an answering
model and the retry loop that `verify_answer` asks of its caller, while `Commit`
adds or replaces edges between any two reads. The answering model and the loop
around it are external. A committed transaction of several edges is seen by this
reader, read by read, as single commits.

`L3Extract` is `dge extract` over one document. `Start` reads the pattern edges;
`Call` hears or fails one section; `Write` reconciles and writes in one step, as the
code's transaction does; `Crash` may come at any time. A relation is filed under an
id that also names the stage that made it, which is where duplicates come from. The
model's answers are chosen once per behaviour when `Steady`, so that runs can be
compared. Confidence has four decimals, what the code rounds to; halving is exact
for the halvings a run of three can make.

`LlmAdapter` is the adapter under one extraction run: pacing, the schema request,
the one-way latch, the fallback. Time is a natural number; LiteLLM's own retries
are part of a call.

`Evidence` is `check_evidence` over sequences of characters: collapsing with the
index map, the exact and the rewrapped search, the case-insensitive diagnosis. Its
reference, `MeetsReference`, looks for a slice of the window that says the same but
for white space, without collapsing anything. `L3Extract` calls it on every claim;
`ProbedExtract` puts spans and windows of its own to it besides, one in each initial
state where there is no edge and nothing is answered (`probe`).

`IngestBatch` is `ingest_documents` and `write_bundle`. The list is read file by file
(`Skip` a double, `Halt` below the threshold, `Accept`, `ReadFails`); then the old
file goes and a new one is made in three steps (`Unlink`, `CreateSchema`,
`WriteRows`), each of which may be the last (`IngestDies`). A file is its content,
which is what the code identifies it by; what parsing makes of it is given as `Cut`
and `Confident`. Node ids begin with the document's id, so those of two contents
are distinct (`CutAssumption`).

`BundleEmbed` adds `embed_bundle` (read, call, write batch) to the same file, by any number
of processes, each run with the embedder that `EmbedderOf` gives it; nothing keeps two of them apart.
A vector is modelled by its model and the nodes of the call it came from, which is what
a contextual embedder's vector depends on.

`DocumentParse` is `PlainTextParser.parse`. A line is reduced to what the regexes
tell of it: its shape, number and text tests. Segments are a line's text cut at
inline provisos. The actions are the iterations of `_reflow` and of the nesting
loop. `Confident` is the confidence score with its floating-point edge: 1.0-0.3-0.2 falls below 0.5,
1.0-0.2-0.3 does not.

`StructuralEdges` continues it to the edges table of one document: lexicon,
patterns, merge. It keeps the marker table of the legal pack (type, confidence,
target hint, side), the two registries, the sibling chain without footnotes, the
clause-break scan per citation kind, and `_dedupe_edges`. Abstractions: a marker
and the citations it governs are in one segment; a node defines one term; which of
two equally confident edges of one stage is kept is open, since no property depends
on it.

`SectionWindows` continues with `plan_extraction`: `group_sections` node by node
(`SkipFootnote`, `OpenSection`, `Continue`, `EndOfNodes`), `_split_oversized` and
`apply_gate`. The characters of a content and whether a gate term occurs in it are
constants. `WindowsTile` is what `L3Extract` assumes of its windows
(`SectionsAreDisjoint`); it plans one document, as both callers do, so the branch of
`group_sections` for a change of document is not taken.

`OverrideConflicts` ends it with `detect_override_conflicts`: claims with their
reach, mutual pairs, one cluster of act-wide claims. What the reach regexes read after
a marker is a constant (`Reaches`), tied by an assumption to what the citation
regexes of `StructuralEdges` read there: a reach has its marker, and if it is a section,
one that is cited first after it. `OverridesOneSection` says of a clause that its
reach (`ReachesAfter`) and its citation are one section of this act; `OnlyActWide`, that
it claims nothing but the whole act.

`RankFusion` is reciprocal-rank fusion in exact fractions, the hybrid seeder and the
reranking one; what a ranking goes by stays outside. `ContextText` is `assemble` word
by word: order, labels, glossary, splicing. Both are operators without state.
`SeededQuery` gives the session its seeds, those that the variable `rankings` fuses or
reranks to; `DeliveredContext` assembles what is delivered under the terms table in
`glossary`. In `MCQuerySession` every pair of rankings is tried where the graph has no
edges at first, and for one of them every terms table; commits then make contexts of
several nodes.

## 3. Runs

All properties of a run are checked together, under one configuration.

| run | states | what varies | properties |
|---|---|---|---|
| `closure` | 33 710 | every subset of a ten-edge and an eight-edge pool, three seed lists | the walk: 4 invariants, refinement, termination |
| `context` | 46 634 | every subset of a twelve-edge pool, three bases | budget, causes of stopping, best first, refinement, termination |
| `query` | 734 309 | every subset of a six-edge pool, fused and reranked seeds, two commits at any point; all pairs of rankings of up to three of four ids; all terms tables of up to three of six rows | guarantee under concurrent commits, retry loop, fusion, glosses |
| `extract` | 991 883 | three edge tables, three answers per section, three runs of two processes, failures, crashes; all short quotes and windows | evidence, judging, interleaving |
| `embed` | 1 217 947 | three lists of files, a batching embedder or one or two overlapping processes of a contextual one, three ingests, three troubles (one for the pair) | batch, old bundle, resume, billing, equality with a fresh run, liveness |
| `adapter` | 72 161 | three sections, every outcome, three latencies, two gaps | latch, bill, pace, failures |
| `ingest_document` | 1 804 238 | all texts of up to four lines of fifteen, of up to five lines of four smaller pools | tiling, nesting, edge ids, footnotes, citation scope, windows, conflicts |

What each shows, beyond its list:

- `closure`: cycles, diamonds, chains longer than the two-hop cap of `defines`, a
  dangling end, edges at and under the threshold, a pack that walks a type both
  ways, and closures larger than the iteration cap (4 here, 10000 in the code)
  all occur. `ShortestArrivals` with `Justified` says that the hop count is the
  least one: an order-dependent count would let the cap drop definitions by luck.
- `context`: `BestFirst` compares what is taken with every admissible neighbour of
  every included node, not with the heap, so a lost push shows. `StopsForCause`
  asks of each way to stop that its cause is there: no admissible neighbour left, a
  best one that does not fit, a window of arrivals without a new key. It uses the hop
  count at which a node came in; that is not always the shortest, since a better
  score may bring a node in by a longer way.
- `query`: `Guarantee` is the claim of docs/04 section 4.7 in the form that holds with
  concurrent commits: edges that were there throughout are honoured. With a commit
  between the walk's read of a seed and the check's, the verdict is "unsound" although
  the walk did nothing wrong (`query.py:18-19` says a failure means a traversal bug).
  One of the seeds is a node that is gone and has left its vector: fused it is a seed
  without a node, reranked it is dropped. `GlossesAnnotate` asks the full reference
  only of terms that share no word; section 6 says what happens to the others.
- `extract`: `NoDuplicateRelation` is claimed of the first run only; section 6 says
  why. Nothing claims that two overlapping runs keep each other's results: a
  VERIFIED edge may be overwritten by the older snapshot of the other run.
- `embed`: one embedder per bundle (`Deployments`), the contextual one in one process
  or in two that overlap; with two embedders `SameAsFromScratch` fails, see section 6.
  `PaidOnce` is claimed of a process that is alone with its embedder; two that
  overlap pay twice for the same nodes (section 6), and still leave whole documents and, in the
  end, no node without a vector. `OldBundleKept` allows the old bundle to go
  once every file was read: a kill during the rewrite still costs it.
- `ingest_document`: among the texts are wrapped lines, lone enumerators, falling
  heading numbers, footnotes between provisions, halted documents, inline provisos,
  and citations before and after their markers, of two sub-sections, another
  section, another Act and past a clause break; two sections that override each
  other, themselves or the whole act; and sections that outgrow a window.
  `ConflictsAreTwoCycles` speaks of clauses that override one section, read alike as
  reach and as citation, and stand under their heading; `ActWideClaimsCompete` denies a
  conflict within a section to clauses that claim nothing but the act. Section 6 has the
  others.

The other five runs each check one claim of the repository that the code does not keep
(section 5).

### Bounds, and why they are enough

Four nodes hold every shape the closure code tells apart (seed, capped neighbour,
way round, dangling end); its branches look at one hop at a time, and the proofs
drop the bound altogether. Two commits are what a lost or a late edge takes: one
between two reads, one more to interfere with the repair. Three extract runs allow
two to overlap and one to follow. `MaxIngests` = 3 allows a re-ingest in every state of an
embedding run and one after it; three troubles let each of ingest, call and run fail;
two overlapping processes meet one between them (`PairTroubles`), so that one goes on where the other has died.
Quotes of up to three and windows of up to four characters (two spaces of the kinds
Python strips and does not, a letter in both cases) put a run of white space at
every place relative to a match; the shortest admissible quote is two characters
instead of twelve. A window holds three units of text, so that a section of a heading and three
clauses is cut. Rankings of three of four ids hold every pattern of agreement,
disagreement and absence of a pair; a third id between them is what a score can trip over. Three sections
allow before, at and after the latch. Five lines hold a heading, two sub-sections, a
footnote and a proviso, which is the deepest interaction of the resolution rules;
the ancestor bound of 12 cannot be reached, as nesting has four levels.

### Fairness

`closure`, `context` and `query` assume weak fairness of the thread's own steps: the code
runs in one thread that waits for nobody. `query` assumes none for commits.
`embed` assumes that an ingest once begun goes on (`Proceed`) or dies, and that the operator repeats a
run (`embed_bundle` is documented to be re-run after an interruption); failures
are finite, by `MaxTroubles`. `extract`, `adapter` and `ingest_document` claim safety only.

## 4. Proofs

Each theorem is about every value of the constants that satisfies the named
assumptions (`ASSUME`) of the modules it extends; TLC evaluates those assumptions in every run.

| module | shows, for every instance | invariant it rests on |
|---|---|---|
| `ClosureFixpointProofs` | `FixedPoint`, `NothingDroppedSilently`, `Justified`, `ShortestArrivals`, least closed set, `KeepsPromise` | `IInv` |
| `ContextFrontierProofs` | `BudgetIsOfTheWhole`, `BestFirst`, `StopsForCause`, `KeepsPromise` | `CInv`, `Ordered` |
| `QuerySessionProofs` | `OldEdgesAreHonoured`, `Guarantee`, `FusionKeepsAgreement`, `GlossesAnnotate` | `SInv`, `Honoured`, `Verified`, `DInv` |
| `L3ExtractProofs` | `JudgedByItsSection`, `StrongIsFinal`, `ConfirmationNeverWeakens`, `NoDuplicateRelation`, `Grounded`, `EvidenceIsExact` | `LInv`, `Untouched`, `FirstRun` |
| `BundleEmbedProofs` | `BundleIsBatch`, `OldBundleKept`, `PaidOnce`, `SameAsFromScratch` | `IngestInv`, `EInv`, its `SInv` |
| `LlmAdapterProofs` | `OnlyRefusalDowngrades`, `BillBounded`, `SectionsArePaced`, `FailuresAreRecorded` | `Bill`, `Slots` |
| `DocumentProofs` | `NodesTile`, `ParentEncloses`, `CitationsStayHome`, `EdgeIdsAreUnique`, `FootnotesStayOut`, `WindowsTile`, `WindowsAreSections`, `ConflictsAreTwoCycles`, `ActWideClaimsCompete`; no dangling edge, no relation twice, no node in two windows | `ParseInv`, `EdgesInv`, `GraphInv`, `WindowInv`, `OverridesInv`, `FindingsInv` |

**The closure walk.** None of its properties is inductive as it stands. `IInv` has `TypeOK`;
`Frontier` (queued ids are reached ids, hops in hand are hops of the id in hand);
`BreadthFirst` (hop counts rise along the queue and exceed that of the id in hand by
one at most, without which an id might be reached first by a long way, and
`ShortestArrivals` would not survive `Arrive`); `Handled` (each hop of an id that has left the
queue is in hand, impossible, or has brought its node in no later than one hop after);
`Logged` (or is on the skipped list); and `Justified`. When the queue is empty and nothing is
in hand, `Handled` and `Logged` are the properties. The lemma `CapMonotone` (a hop within
the cap stays so if the walk comes sooner) joins breadth first to caps. `CollectsTheLeast`
quantifies over sets too large for TLC: the walk collects nothing the graph does not
force. For `KeepsPromise` a cut walk must have outgrown the cap: `Counted` says that the ids
collected are as many as the iterations spent and the ids queued, so with an id left over
and the iterations used up there are more ids than the cap.

**Context expansion.** The heap may hold stale entries, and the code never takes one
out early; so the invariant ties it to the graph from both sides: every entry
leads from an included node (`HeapLeads`), and every admissible neighbour of an included
node has an entry with its score (`HeapHolds`). The best entry is therefore the best
neighbour (`FirstIsBest`), which gives `BestFirst`, and an empty heap or an entry that does not
fit is a cause (`Explained`). `Counted` is the budget. Saturation looks back over arrivals, so
`Ordered` says there is an order of arrival that explains the counts in `fresh`.

**The query.** `Commit` undoes `Handled` for edges that come or go. What survives is
`OldHandled`, the same of the edges of the baseline alone, and `Since` (these are still there).
`SeedsAreCovered` has a hypothesis, `FirstHopIsFree`: no closure type is capped at zero
hops. The check of the seeds applies no caps, so without it the two differ at the first
hop. `TableFirstHop` proves it of the shipped table; a pack may break it.
`AcceptedIsComplete` needs none: it rests on what `verify_answer` has looked up so far (`Verified`).

**The seeds.** `AgreementIsKept` is about any two rankings. That two rankings agree on two
ids must survive the sum of fractions, the tie-break by id and the cut. `AgreedIsBefore` has the
sum, case by case of which ranking holds which id; `BeforeIsOrder`, that score and id together
order the ids, since fractions compared crosswise are transitive (`FractionOrder`). In an order the
number of those before an id is its place (`PlacesAreNumbers`, `FusedIs`), so whoever comes
before a seed has a smaller place and is within the same cut.

**The delivered text.** Splicing rewrites a text that already holds glosses, so neither "the words are
unchanged" nor "once" can be read off one splice. The proof follows the two folds of the code,
over the terms in a passage and over the passages. `Bare` is a counter of depth: a gloss is a
balanced run, which leaves counter and words as they were at whatever depth it stands
(`InsertedBare`, `SplicesBare`). The openings of glosses are covered by the terms seen, of which a splice
adds one (`CoversText`, `OneGlossEach`). That terms without a common word are glossed where they first
occur takes the stronger `SplicesWeave`: after the terms so far the text is the plain one woven with
their glosses (`Woven`), so that a term of other words stands in it where it stood in the plain
one, moved by what is woven in before (`PlaceOf`, `WovenEnds`). `DInv` says that what is delivered
are nodes of the graph and that the terms are those of one table.

**Extraction.** `LInv` says what one run holds: each edge it read is an edge of the table,
what it claims and proposes is what the sections it heard said (`Holds`), and every entry of the
table has an origin (`Filed`). It holds for any number of overlapping runs, as none
of it depends on what the bundle holds by the time of the write; that independence is the design of
`run_l3`, and the reason why one answer decides is that sections are disjoint, an
assumption here, proved of what planning makes as `WindowsAreDisjoint` in `DocumentProofs`; that
an ingested table has one entry for a relation, which is its form here, is part of `GraphIsWhole`
there. `EdgesAreGrounded` has no hypothesis: what it needs of `check_evidence` is the lemma
`CheckKeepsItsWord`, a consequence of the next paragraph.
The attempt to prove `ConfirmationNeverWeakens` as it first stood, against the confidence
the bundle holds when the run writes, failed for a good reason: see section 6.

**Evidence.** `EvidenceMeetsReference` is about every span and window. `IndexMap` and `Visible` list
increasing positions (`IndexMapLists`, `VisibleLists`), and two texts are equal but for white space exactly if
they collapse to the same (`SameIffCollapsed`). A slice between two positions of the map collapses to
the slice of the collapsed text, and to a slice of it in any case (`SliceCollapses`); so what is found
is quoted (`FoundIsQuoted`) and what is quoted is found (`QuotedIsFound`). Casefolding goes through
collapsing because it neither makes white space nor takes it away (`FoldCollapses`).

**Ingest and embedding.** `IngestInv` relates the list, what was taken and what is left to read.
`WorkLeft` (in `EInv`) says that a run's list of documents and the set it read as done
account for every vector of its model, though an ingest may have emptied the bundle meanwhile.
`SameAsFromScratch` needs that the documents are embedded whole or not at all
(`ByDocument`) and that one embedder is in use (`OneEmbedder`), by however many processes; the run
has the same restriction (`Deployments`), and with two embedders the property fails (section 6).
`WorkIsPaidOnce` rests on the half of `WorkLeft` that holds of a run which is `Alone` with its embedder:
then a vector of its model that it did not see when it began is of a node it has dealt with itself.

**The adapter.** `Bill` counts requests by section and phase, `Slots` bounds the next slot
from below by the first request of each section.

**A document.** `TreeInv` has the stack as an increasing list of nodes such that
every node with a level is in it or was closed by a later one of no greater level;
`Innermost` then finds the parent. `Tiling` follows the segments through reflow,
splitting and nesting as equations on flattened sequences. `CitationsStay` needs that the
walk up the tree ends, within the bound of 12, at the last heading before the node
(`EnclosingIs`). `EdgesInv` has raw edges told apart by their ids, stage by stage. `WindowInv` has
the windows so far, the open section and the node the loop is at; `Chunked` is the
splitter's loop, a fold, by an invariant over prefixes.

**What a document hands over.** `GraphInv` follows each raw edge to its two ends: a target is a node
other than the source, whether it comes from a registry, the siblings or the tree. `OverridesInv`
says which `supersedes` edges the markers of a clause draw, and keeps them through
deduplication, which drops no pair of ends; `FindingsInv` says what the detector has found. The number that
the detector reads off a window is that of the heading which the tree finds, as a window stays
within its section (`WindowOf`, `HeadingOf`); a clause that overrides one section has one claim
(`PlainClaim`) and supersedes the heading that the registry has for it (`PlainSupersedes`), so both
sides of `ConflictsAreTwoCycles` say the same of two numbers.

**Data.** `DataLemmas` has the facts about maxima, sums over finite sets, lists, folds, flattened
sequences and prefixes. The induction theorems of the library take an operator, which the
provers here cannot instantiate, so induction is first order: the set of lengths (or of
subsets) for which a fact holds is closed under one more, hence is everything
(`SetInduction`, `LeastNat`).

Changes that proofs asked of the models: assumptions on constants that were tacit are
named (finite graphs and key sets; typed answers, texts, citations, reaches, passages and terms tables;
rankings without repetition; ingested tables under pattern ids; no node twice in a
document; no word that is a bracket); `Enclosing`, `Cuts`, `Without` and `OfKind` avoid recursion and
filters; a sorted set is the list that is in order (`Sorted`), the openings of glosses are a set with
a cardinality (`Marked`); `WindowsTile` says the same as before without a filter of a sequence. Seeds,
text and the probes of the evidence check have modules of their own (`SeededQuery`,
`DeliveredContext`, `ProbedExtract`), where they once were in the MC modules.

Only model-checked: the temporal properties `Completes`, `Stops`, `IsAccepted` and `AllEmbedded`,
since liveness under fairness and `ENABLED` are out of this prover's reach. Every invariant,
action property and refinement that a passing run checks is stated by a theorem.

## 5. Claims that the code does not keep

| run | the repository says | the code does |
|---|---|---|
| `query_omission` | README.md:27-29: no known exception or superseding version was omitted | the self check looks at the seeds only; passages that context adds come without their exceptions |
| `extract_converges` | README.md:42: each stage is idempotent | an unconfirmed MEDIUM edge is halved by every run (0.8, 0.4, 0.2) |
| `parse_provisos` | parsing.py:98-99: an inline proviso is split off as a proposition | of two inline provisos the first gets the kind of the clause or heading it was cut from |
| `part_of_siblings` | legal.py:94: a fixed relation to its parent | sub-section (2) gets `part_of` (1) |
| `modifiers_reached` | edges.py:40-42: only DEFINES is walked forward; legal.py:474: caps are mandatory | `conditioned_on` is written modifier to modified and walked forward, so the cap is not found from the obligation |

All but the first were also reproduced by running the code.

## 6. Further divergences

Met while modelling; no run checks them.

- The second `dge extract` writes a `model:` edge beside the VERIFIED edge of the same
  relation, as it takes only PATTERN edges for existing (`pipeline.py:393`;
  `bundle.py:508-511` says it converges).
- Confirming an edge that an earlier run halved leaves it below the pattern's own
  confidence (`run.py:219`; `run.py:216-218` calls that a floor).
- Confirming may also lower what the bundle holds by then. Of four overlapping runs
  one reads an edge that two others have halved to 0.2, a slow one writes its own
  halving of 0.8 over that, 0.4, and the first confirms at 0.3 (`run.py:219`;
  `run.py:216-218`). What holds, and is proved, is a floor at what the confirming run
  had read and at each claim that confirms.
- A MEDIUM `unless` edge is `conditioned_on`, a type the model may not claim, and is halved
  for not being confirmed (`run.py:204`; `run.py:46-47`).
- A walk that passes the iteration cap returns a result that looks complete, and lists nothing for the ids still queued
  (`expand.py:177`; `expand.py:57-61`).
- The walk applies hop caps, the check does not (`soundness.py:95`; `soundness.py:17-18`
  says they can never disagree).
- After an interrupted run of another embedder, a contextual embedder is called with
  the nodes that are missing, not with the document (`pipeline.py:262`; `pipeline.py:241-242`).
- Two overlapping runs of one embedder pay for the same nodes: each asks once, when it begins,
  which nodes have a vector (`pipeline.py:253`; `pipeline.py:239-240`
  says a re-run costs only the missing work).
- An embedding run that began before a re-ingest writes vectors of nodes the new
  bundle does not have (`bundle.py:487`; `sql/schema.sql:95` declares a reference,
  which no connection enforces).
- The fallback request is sent at once, within the interval (`extract_llm.py:171`;
  `cli.py:347-348`), and once latched later requests carry neither response format nor schema
  (`extract_llm.py:141`; `extract_llm.py:22-24`).
- `write_bundle` deletes the old bundle before the new one is committed
  (`bundle.py:73`).
- A footnote that holds an inline proviso yields a proposition with an `exception_of`
  edge (`parsing.py:345`; `parsing.py:131-137`).
- "Chapter 3." registers as section 3, so a citation of section 3 may resolve to the
  chapter (`edges.py:56`, `edges.py:165`).
- The tail of a split section has no heading in its window and so no number: a mutual
  override from there is not reported, and act-wide claims in the two parts of one
  section count as two sections (`conflict.py:162-168`; `conflict.py:230-232`).
- "Notwithstanding anything to the contrary contained in section 9" matches two markers,
  `non_obstante` and the contract marker `notwithstanding_clause`, whose hint is `preceding`:
  the clause supersedes section 9 and also the provision before it, which it does not
  mention (`legal.py:255`, `legal.py:451`). Reproduced with the code.
- A clause that overrides the whole act and one that names its section are reported
  with confidence 1.0 (`conflict.py:265`; `conflict.py:87-88` reserves that for
  provisions that each name the other's section).
- "section 12 of the X Act" counts as section 12 of this act for conflicts
  (`conflict.py:114`), not for edges; "sections 9 and 12" and "sub-section (1) of
  section 9" have a reach for edges and may have none here.
- A quote that spans two nodes is joined by a line feed that the document need not have
  there (`sections.py:69`; `sections.py:64-67` says it is a slice of a real document).
- Gate terms are plain substrings with single spaces, markers allow any white space: a
  phrase wrapped over a line end has an edge but no model call (`legal.py:153`;
  `legal.py:149-151`).
- `edge_count` of the manifest is that of ingest and stays so after `dge extract` has added edges
  (`bundle.py:199`).
- `dge extract --plan` finds conflicts in windows of the default size, whatever
  `max_chars` it plans with (`pipeline.py:354`; `pipeline.py:347`).
- A term within a longer term takes its gloss into the longer one, between that and
  its own gloss, and has none where it stands alone: "Permitted Purpose [= p] [= pp]
  and any other Purpose" (`assemble.py:58`; `assemble.py:46`). A gloss with a
  backslash is read as a regex template. Glosses are not counted in the token
  budget, and go by the surface form over all documents, so a definition for the
  purposes of one section is spliced into every other (`bundle.py:349`;
  `lexicon.py:12-15`). Reproduced with the code.
- The normalizer takes the integer part of a leading decimal for an enumerator: "3.5 per cent"
  is delivered as "5 per cent" (`normalize.py:31`; `normalize.py:12-14`). Reproduced
  with the code.
- `link_mentions` does not look at the scope of a term (`lexicon.py:78-108`; `lexicon.py:12-15`).

## 7. Plan

Done in this order, the most important first: `EdgePolicy`, `ClosureFixpoint` with
its promise and proofs, `ContextFrontier` with its promise, `QuerySession`
(composes the two), `L3Extract`, `LlmAdapter`, `BundleEmbed`, `DocumentParse`,
`StructuralEdges` (composes the parser with the policy); then `SectionWindows` and
`OverrideConflicts` (continue it to the extraction plan), `Evidence` (under
`L3Extract`), `IngestBatch` (under `BundleEmbed`), `RankFusion` and `ContextText`
(around `QuerySession`).

Proved in this order: the closure walk and its refinement, then the adapter, the query,
context expansion and its refinement, extraction, ingest with embedding, and the document
from lines to windows; then the evidence check, fusion, conflicts, the handover to
extraction and the delivered text.

Next theorems: type correctness of `IngestBatch` and `L3Extract` in full; `L3Extract`
over an instance of the planned windows, so that what it assumes of them and what planning
makes meet in one module.

## 8. Abstractions, and what is not modelled

- `context_frontier`, `closure_fixpoint` and `run_l3` are one call each; several
  queries share no state but the bundle.
- `Start` of `L3Extract` reads all the edges at once, the code with one SELECT per node; an
  overlapping write is seen there whole or not at all.
- A node's edges are read by two SELECTs, those into it and then those out of it
  (`expand.py:137-139`), a commit may fall between them, and `Pop` and `LookUp` make one step of both. Nothing
  is lost: a commit of an edge into the node is missed by the first read and may as well come after both,
  one of an edge out of it is seen by the second and may as well come before both, and one of neither is
  not seen. Commits that pass each other so are of different relations, since all versions
  of a relation have the same ends and lie on the same side. An edge from a node to itself would
  lie on both; ingest makes none (`GraphIsWhole`) and extraction takes none (`run.py:150`).
- `Score` of `ContextFrontier` keeps scores integers: decay and degree are rounded to hundredths, and stay the same
  from the fourth hop and the ninth edge on. No property speaks of a score itself, only of the order,
  and the proofs use of a score only that it is an integer.
- `Evidence` takes every character that `str.strip` removes to be in `WHITESPACE` (`Stripped` within
  `Space`). The control characters for which that is not so would shorten a quote that has them at its
  ends before its length is tested and before it is looked for as it stands.
- Regular expressions are replaced by what they match. Whether a pattern matches
  the drafting of real Acts is a question of data, which the repository's corpus
  measurements answer.
- The normalizer is textual and stateless; the lexical index and the similarity of
  vectors are real arithmetic, taken as `Relevance` and as rankings; the prompts and the
  response schema are text but for the closed enum of types; embedding, reranking and text
  adapters pass one request on; of the CLI the check of the file list and the hybrid
  seeder are modelled, the rest parses arguments and prints; the scripts measure and
  download (`fetch_corpus.py` writes a file in place and takes one that exists for
  complete). The unused tables have no code.
- Fusion scores are exact fractions where the code adds floats: sums of the same two
  terms are equal in both, and no other two sums of ranks in reach are.
- Similarities, token estimates and the counts of the manifest are left out, as no
  property depends on them. Casefolding maps one character to one, unlike "ß".
