----------------------------- MODULE LlmAdapter -----------------------------
(***************************************************************************)
(* The model extractor's transport (src/dge/adapters/extract_llm.py) over  *)
(* one extraction run: pacing, the request in strict schema form, and the  *)
(* one-way latch to JSON mode for a provider that refuses schemas.  The    *)
(* provider is external: it answers, fails for the moment (429, 5xx, dead  *)
(* socket) or refuses (any other error).  LiteLLM's own retries inside one *)
(* completion() are part of that call.                                     *)
(***************************************************************************)
EXTENDS Naturals, Sequences, SequencesExt

CONSTANTS
  Sections,    \* sections the run extracts
  Interval,    \* min_interval_s; 0 for no pacing
  Latencies,   \* how long a request may take
  Gaps         \* how long the caller may take between extract() calls

ASSUME AdapterAssumption ==
  /\ Sections \in Nat /\ Interval \in Nat
  /\ Latencies \subseteq Nat /\ Gaps \subseteq Nat

VARIABLES
  structured,   \* _structured_output
  nextCallAt,   \* _next_call_at
  clock,        \* time.monotonic
  pc,           \* "idle", "request", "fallback", then "over"
  section,      \* sections begun
  failed,       \* sections whose call raised
  log           \* requests sent: when, for which section, in what form, outcome

vars == <<structured, nextCallAt, clock, pc, section, failed, log>>

Outcome == {"answer", "transient", "refusal"}

Init ==
  /\ structured = TRUE /\ nextCallAt = 0 /\ clock = 0
  /\ pc = "idle" /\ section = 0 /\ failed = {} /\ log = <<>>

\* Mutant: the next slot is counted from before the sleep.
PacedFromBefore(now) ==
  /\ clock' = IF Interval > 0 /\ nextCallAt > now THEN nextCallAt ELSE now
  /\ nextCallAt' = IF Interval > 0 THEN now + Interval ELSE nextCallAt

\* _pace: sleep off what is left of the interval, then book the next slot.
Paced(now) ==
  /\ clock' = IF Interval > 0 /\ nextCallAt > now THEN nextCallAt ELSE now
  /\ nextCallAt' = IF Interval > 0 THEN clock' + Interval ELSE nextCallAt

Begin ==
  /\ pc = "idle" /\ section < Sections
  /\ \E gap \in Gaps : Paced(clock + gap)
  /\ section' = section + 1
  /\ pc' = "request"
  /\ UNCHANGED <<structured, failed, log>>

\* A request goes out in a form and comes back, some time later, with an outcome.
Sent(form, outcome) ==
  /\ log' = Append(log, [at |-> clock, section |-> section, form |-> form,
                         outcome |-> outcome])
  /\ \E t \in Latencies : clock' = clock + t

\* Once latched, a request carries no response format and no schema at all.
FirstForm == IF structured THEN "json_schema" ELSE "bare"

Answered ==
  /\ pc = "request"
  /\ Sent(FirstForm, "answer")
  /\ pc' = "idle"
  /\ UNCHANGED <<structured, nextCallAt, section, failed>>

\* An answer that is empty or does not parse is an error of the section too.
Unusable ==
  /\ pc \in {"request", "fallback"}
  /\ Sent(IF pc = "request" THEN FirstForm ELSE "json_object", "answer")
  /\ pc' = "idle"
  /\ failed' = failed \cup {section}
  /\ UNCHANGED <<structured, nextCallAt, section>>

\* The error is the section's, unless it may mean that schemas are refused.
Raised ==
  /\ pc = "request"
  /\ \E outcome \in {"transient", "refusal"} :
       /\ outcome = "transient" \/ ~structured
       /\ Sent(FirstForm, outcome)
  /\ pc' = "idle"
  /\ failed' = failed \cup {section}
  /\ UNCHANGED <<structured, nextCallAt, section>>

\* Mutant: any error trips the latch.
LatchOnAny ==
  /\ pc = "request" /\ structured
  /\ \E outcome \in {"transient", "refusal"} : Sent("json_schema", outcome)
  /\ structured' = FALSE
  /\ pc' = "fallback"
  /\ UNCHANGED <<nextCallAt, section, failed>>

\* Mutant: the fallback does not latch, so every section pays for it.
LatchNever ==
  /\ pc = "request" /\ structured
  /\ Sent("json_schema", "refusal")
  /\ pc' = "fallback"
  /\ UNCHANGED <<structured, nextCallAt, section, failed>>

Latch ==
  /\ pc = "request" /\ structured
  /\ Sent("json_schema", "refusal")
  /\ structured' = FALSE
  /\ pc' = "fallback"
  /\ UNCHANGED <<nextCallAt, section, failed>>

\* Mutant: an error of the fallback is swallowed.
FallBackQuietly ==
  /\ pc = "fallback"
  /\ \E outcome \in Outcome : Sent("json_object", outcome)
  /\ pc' = "idle"
  /\ UNCHANGED <<structured, nextCallAt, section, failed>>

\* At once, in JSON mode, with the schema in the prompt.
FallBack ==
  /\ pc = "fallback"
  /\ \E outcome \in Outcome :
       /\ Sent("json_object", outcome)
       /\ failed' = IF outcome = "answer" THEN failed ELSE failed \cup {section}
  /\ pc' = "idle"
  /\ UNCHANGED <<structured, nextCallAt, section>>

Over ==
  /\ pc = "idle" /\ section = Sections
  /\ pc' = "over"
  /\ UNCHANGED <<structured, nextCallAt, clock, section, failed, log>>

Next == Begin \/ Answered \/ Unusable \/ Raised \/ Latch \/ FallBack \/ Over

Spec == Init /\ [][Next]_vars
-----------------------------------------------------------------------------
\* A busy provider never downgrades the run: it leaves the schema form only
\* after it refused a request in that form.
OnlyRefusalDowngrades ==
  ~structured =>
    \E i \in DOMAIN log : log[i].form = "json_schema" /\ log[i].outcome = "refusal"

\* The latch keeps the bill at one request per section and one more for the run.
BillBounded == Len(log) <= section + 1

First(i) == i = 1 \/ log[i - 1].section # log[i].section

\* The calls of successive sections begin at least the interval apart.
SectionsArePaced ==
  \A i, j \in DOMAIN log :
    i < j /\ First(i) /\ First(j) => log[j].at >= log[i].at + Interval

\* No section's failure is lost: a section none of whose requests was answered
\* is on the failed list once its call is over.
FailuresAreRecorded ==
  \A s \in 1..section :
    \/ s = section /\ pc \in {"request", "fallback"}
    \/ s \in failed
    \/ \E i \in DOMAIN log : log[i].section = s /\ log[i].outcome = "answer"
=============================================================================
