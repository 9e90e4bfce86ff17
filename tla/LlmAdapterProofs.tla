--------------------------- MODULE LlmAdapterProofs ---------------------------
(***************************************************************************)
(* Proofs about the extractor's transport for any number of sections, any  *)
(* interval, and any latencies and gaps.                                   *)
(***************************************************************************)
EXTENDS LlmAdapter, TLAPS

Form == {"json_schema", "bare", "json_object"}

Request == [at : Nat, section : Nat, form : Form, outcome : Outcome]

TypeOK ==
  /\ structured \in BOOLEAN
  /\ nextCallAt \in Nat /\ clock \in Nat
  /\ pc \in {"idle", "request", "fallback", "over"}
  /\ section \in Nat
  /\ log \in Seq(Request)

\* What appending a request does to the log.
LEMMA AppendAdds ==
  ASSUME log \in Seq(Request), NEW r \in Request, log' = Append(log, r)
  PROVE  /\ log' \in Seq(Request) /\ Len(log') = Len(log) + 1
         /\ Len(log) \in Nat /\ DOMAIN log = 1..Len(log)
         /\ \A i \in DOMAIN log : i \in DOMAIN log' /\ log'[i] = log[i]
         /\ \A i \in DOMAIN log' : i \in DOMAIN log \/ i = Len(log) + 1
         /\ Len(log) + 1 \in DOMAIN log' /\ log'[Len(log) + 1] = r
OBVIOUS

\* Every step that is not a call's beginning or the run's end sends one request,
\* of the section begun last, at the time of the clock, which only advances.
LEMMA Sends ==
  ASSUME TypeOK, Answered \/ Unusable \/ Raised \/ Latch \/ FallBack
  PROVE  \E r \in Request :
           /\ log' = Append(log, r)
           /\ r.at = clock /\ r.section = section
           /\ Latch => r.form = "json_schema" /\ r.outcome = "refusal"
           /\ pc' = "fallback" \/ section \in failed' \/ r.outcome = "answer"
           /\ clock' \in Nat /\ clock' >= clock
           /\ section' = section /\ nextCallAt' = nextCallAt
           /\ failed \subseteq failed'
           /\ pc \in {"request", "fallback"} /\ pc' \in {"idle", "fallback"}
           /\ pc' = "fallback" => Latch
<1> DEFINE r(form, outcome) == [at |-> clock, section |-> section, form |-> form,
                                outcome |-> outcome]
<1>1. \A form \in Form, outcome \in Outcome : r(form, outcome) \in Request
  BY DEF TypeOK, Request
<1>2. FirstForm \in Form
  BY DEF FirstForm, Form
<1>3. ASSUME NEW t \in Latencies, clock' = clock + t
      PROVE  clock' \in Nat /\ clock' >= clock
  BY <1>3, AdapterAssumption DEF TypeOK
<1>4. CASE Answered
  <2>1. r(FirstForm, "answer") \in Request
    BY <1>1, <1>2 DEF Outcome
  <2> QED BY <1>3, <1>4, <2>1 DEF Answered, Sent, Latch
<1>5. CASE Unusable
  <2>1. PICK form \in Form : Sent(form, "answer")
    BY <1>2, <1>5 DEF Unusable, Form
  <2>2. r(form, "answer") \in Request
    BY <1>1 DEF Outcome
  <2> QED BY <1>3, <1>5, <2>1, <2>2 DEF Unusable, Sent, Latch
<1>6. CASE Raised
  <2>1. PICK outcome \in {"transient", "refusal"} : Sent(FirstForm, outcome)
    BY <1>6 DEF Raised, Sent
  <2>2. r(FirstForm, outcome) \in Request
    BY <1>1, <1>2 DEF Outcome
  <2> QED BY <1>3, <1>6, <2>1, <2>2 DEF Raised, Sent, Latch
<1>7. CASE Latch
  <2>1. r("json_schema", "refusal") \in Request
    BY <1>1 DEF Outcome, Form
  <2> QED BY <1>3, <1>7, <2>1 DEF Latch, Sent
<1>8. CASE FallBack
  <2>1. PICK outcome \in Outcome :
          /\ Sent("json_object", outcome)
          /\ failed' = IF outcome = "answer" THEN failed ELSE failed \cup {section}
    BY <1>8 DEF FallBack, Sent
  <2>2. r("json_object", outcome) \in Request
    BY <1>1 DEF Form
  <2> QED BY <1>3, <1>8, <2>1, <2>2 DEF FallBack, Sent, Latch
<1> QED BY <1>4, <1>5, <1>6, <1>7, <1>8

\* Types are kept.
LEMMA TypeCorrect == Spec => []TypeOK
<1>1. Init => TypeOK
  BY DEF Init, TypeOK
<1>2. TypeOK /\ [Next]_vars => TypeOK'
  <2> SUFFICES ASSUME TypeOK, [Next]_vars PROVE TypeOK'
    OBVIOUS
  <2>1. CASE Begin
    BY <2>1, AdapterAssumption DEF Begin, Paced, TypeOK
  <2>2. CASE Over \/ UNCHANGED vars
    BY <2>2 DEF Over, vars, TypeOK
  <2>3. CASE Answered \/ Unusable \/ Raised \/ Latch \/ FallBack
    <3>1. log' \in Seq(Request) /\ clock' \in Nat
      BY <2>3, Sends, AppendAdds DEF TypeOK
    <3>2. structured' \in BOOLEAN
      BY <2>3 DEF Answered, Unusable, Raised, Latch, FallBack, TypeOK
    <3>3. QED BY <2>3, <3>1, <3>2, Sends DEF TypeOK
  <2>4. QED BY <2>1, <2>2, <2>3 DEF Next
<1>3. QED BY <1>1, <1>2, PTL DEF Spec

-----------------------------------------------------------------------------
(* The latch *)

\* A busy provider never downgrades the run (extract_llm.py): whatever the
\* provider answers and however long it takes, schemas are given up only after
\* it has refused one.
THEOREM RefusalsDowngrade == Spec => []OnlyRefusalDowngrades
<1>1. Init => OnlyRefusalDowngrades
  BY DEF Init, OnlyRefusalDowngrades
<1>2. TypeOK /\ OnlyRefusalDowngrades /\ [Next]_vars => OnlyRefusalDowngrades'
  <2> SUFFICES ASSUME TypeOK, OnlyRefusalDowngrades, [Next]_vars
               PROVE  OnlyRefusalDowngrades'
    OBVIOUS
  <2>1. CASE Begin \/ Over \/ UNCHANGED vars
    BY <2>1 DEF Begin, Over, vars, OnlyRefusalDowngrades
  <2>2. CASE Answered \/ Unusable \/ Raised \/ Latch \/ FallBack
    <3>1. PICK r \in Request :
            /\ log' = Append(log, r)
            /\ Latch => r.form = "json_schema" /\ r.outcome = "refusal"
      BY <2>2, Sends
    <3>2. /\ \A i \in DOMAIN log : i \in DOMAIN log' /\ log'[i] = log[i]
          /\ Len(log) + 1 \in DOMAIN log' /\ log'[Len(log) + 1] = r
      BY <3>1, AppendAdds DEF TypeOK
    <3>3. CASE Latch
      BY <3>1, <3>2, <3>3 DEF OnlyRefusalDowngrades
    <3>4. CASE ~Latch
      <4>1. structured' = structured
        BY <2>2, <3>4 DEF Answered, Unusable, Raised, FallBack
      <4>2. QED BY <3>2, <4>1 DEF OnlyRefusalDowngrades
    <3>5. QED BY <3>3, <3>4
  <2>3. QED BY <2>1, <2>2 DEF Next
<1>3. QED BY <1>1, <1>2, TypeCorrect, PTL DEF Spec

\* What the log may hold: one request per section that is over, and one more
\* once schemas were given up.
Bill ==
  /\ pc \in {"idle", "over"} => Len(log) <= section + (IF structured THEN 0 ELSE 1)
  /\ pc = "request" => Len(log) + 1 <= section + (IF structured THEN 0 ELSE 1)
  /\ pc = "fallback" => ~structured /\ Len(log) <= section

\* The bill of a run, for any provider: one request per section and one more.
THEOREM BillIsBounded == Spec => []BillBounded
<1>1. Init => Bill
  BY DEF Init, Bill
<1>2. TypeOK /\ Bill /\ [Next]_vars => Bill'
  <2> SUFFICES ASSUME TypeOK, Bill, [Next]_vars PROVE Bill'
    OBVIOUS
  <2>1. Len(log) \in Nat /\ section \in Nat /\ structured \in BOOLEAN
    BY DEF TypeOK
  <2>2. CASE Begin
    BY <2>1, <2>2 DEF Begin, Bill
  <2>3. CASE Over \/ UNCHANGED vars
    BY <2>1, <2>3 DEF Over, vars, Bill
  <2>4. CASE Answered \/ Unusable \/ Raised \/ Latch \/ FallBack
    <3>1. Len(log') = Len(log) + 1
      BY <2>4, Sends, AppendAdds DEF TypeOK
    <3>2. CASE Answered \/ Unusable \/ Raised
      BY <2>1, <3>1, <3>2 DEF Answered, Unusable, Raised, Bill
    <3>3. CASE Latch
      BY <2>1, <3>1, <3>3 DEF Latch, Bill
    <3>4. CASE FallBack
      BY <2>1, <3>1, <3>4 DEF FallBack, Bill
    <3>5. QED BY <2>4, <3>2, <3>3, <3>4
  <2>5. QED BY <2>2, <2>3, <2>4 DEF Next
<1>3. TypeOK /\ Bill => BillBounded
  BY DEF TypeOK, Bill, BillBounded
<1>4. QED BY <1>1, <1>2, <1>3, TypeCorrect, PTL DEF Spec

-----------------------------------------------------------------------------
(* Failures *)

\* No section's failure is lost, whichever request it failed in.
THEOREM FailuresRecorded == Spec => []FailuresAreRecorded
<1>1. Init => FailuresAreRecorded
  BY DEF Init, FailuresAreRecorded
<1>2. TypeOK /\ FailuresAreRecorded /\ [Next]_vars => FailuresAreRecorded'
  <2> SUFFICES ASSUME TypeOK, FailuresAreRecorded, [Next]_vars
               PROVE  FailuresAreRecorded'
    OBVIOUS
  <2>1. CASE Begin \/ Over \/ UNCHANGED vars
    BY <2>1 DEF Begin, Over, vars, FailuresAreRecorded, TypeOK
  <2>2. CASE Answered \/ Unusable \/ Raised \/ Latch \/ FallBack
    <3>1. PICK r \in Request :
            /\ log' = Append(log, r) /\ r.section = section
            /\ pc' = "fallback" \/ section \in failed' \/ r.outcome = "answer"
            /\ section' = section /\ failed \subseteq failed'
      BY <2>2, Sends
    <3>2. /\ \A i \in DOMAIN log : i \in DOMAIN log' /\ log'[i] = log[i]
          /\ Len(log) + 1 \in DOMAIN log' /\ log'[Len(log) + 1] = r
      BY <3>1, AppendAdds DEF TypeOK
    <3>3. QED BY <3>1, <3>2 DEF FailuresAreRecorded
  <2>3. QED BY <2>1, <2>2 DEF Next
<1>3. QED BY <1>1, <1>2, TypeCorrect, PTL DEF Spec

-----------------------------------------------------------------------------
(* Pace *)

\* Between calls the next slot is an interval past every call that began; in a
\* call that has sent nothing yet, the clock is.
Slots ==
  /\ \A i \in DOMAIN log : log[i].at <= clock /\ log[i].section <= section
  /\ pc = "request" =>
       /\ Interval > 0 => nextCallAt = clock + Interval
       /\ \A i \in DOMAIN log :
            /\ log[i].section < section
            /\ First(i) => clock >= log[i].at + Interval
  /\ pc # "request" /\ Interval > 0 =>
       \A i \in DOMAIN log : First(i) => nextCallAt >= log[i].at + Interval
  /\ pc = "fallback" => Len(log) > 0 /\ log[Len(log)].section = section
  /\ SectionsArePaced

\* What was a call's first request remains so; a new one is if it is of another
\* section than the one before it.
LEMMA FirstKept ==
  ASSUME log \in Seq(Request), NEW r \in Request, log' = Append(log, r)
  PROVE  /\ \A i \in DOMAIN log : First(i)' <=> First(i)
         /\ \A n : n = Len(log) + 1 =>
              (First(n)' <=> Len(log) = 0 \/ log[Len(log)].section # r.section)
<1>1. /\ \A i \in DOMAIN log : i = 1 \/ i - 1 \in DOMAIN log
      /\ Len(log) = 0 \/ Len(log) \in DOMAIN log
      /\ Len(log) \in Nat
  OBVIOUS
<1>2. \A i \in DOMAIN log : log'[i] = log[i]
  BY AppendAdds
<1>3. log'[Len(log) + 1] = r
  BY AppendAdds
<1>4. \A i \in DOMAIN log : First(i)' <=> First(i)
  BY <1>1, <1>2 DEF First
<1>5. ASSUME NEW n, n = Len(log) + 1
      PROVE  First(n)' <=> Len(log) = 0 \/ log[Len(log)].section # r.section
  <2>1. First(n)' <=> n = 1 \/ log'[n - 1].section # r.section
    BY <1>3, <1>5 DEF First
  <2>2. Len(log) = 0 \/ log'[n - 1] = log[Len(log)]
    BY <1>1, <1>2, <1>5
  <2> QED BY <1>1, <1>5, <2>1, <2>2
<1> QED BY <1>4, <1>5

\* Pacing holds between the calls of successive sections, whatever requests and
\* callers take.  Within a call it does not: the fallback goes out at once.
THEOREM CallsArePaced == Spec => []SectionsArePaced
<1>1. Init => Slots
  BY DEF Init, Slots, SectionsArePaced
<1>2. TypeOK /\ Slots /\ [Next]_vars => Slots'
  <2> SUFFICES ASSUME TypeOK, Slots, [Next]_vars PROVE Slots'
    OBVIOUS
  <2> USE AdapterAssumption
  <2>1. /\ \A i \in DOMAIN log : log[i].at \in Nat /\ log[i].section \in Nat
        /\ clock \in Nat /\ nextCallAt \in Nat /\ section \in Nat /\ Interval \in Nat
    <3>1. \A i \in DOMAIN log : log[i] \in Request
      BY DEF TypeOK
    <3>2. QED BY <3>1 DEF TypeOK, Request
  <2>2. CASE Over \/ UNCHANGED vars
    BY <2>2 DEF Over, vars, Slots, SectionsArePaced, First
  <2>3. CASE Begin
    <3>1. PICK gap \in Gaps : Paced(clock + gap)
      BY <2>3 DEF Begin
    <3>2. /\ clock' \in Nat /\ clock' >= clock
          /\ Interval > 0 => clock' >= nextCallAt /\ nextCallAt' = clock' + Interval
      BY <2>1, <3>1 DEF Paced
    <3>3. \A i : First(i)' <=> First(i)
      BY <2>3 DEF Begin, First
    <3>4. log' = log /\ section' = section + 1 /\ pc = "idle" /\ pc' = "request"
      BY <2>3 DEF Begin
    <3>5. \A i \in DOMAIN log : First(i) => clock' >= log[i].at + Interval
      BY <2>1, <3>2, <3>4 DEF Slots
    <3>6. QED BY <2>1, <3>2, <3>3, <3>4, <3>5 DEF Slots, SectionsArePaced
  <2>4. CASE Answered \/ Unusable \/ Raised \/ Latch \/ FallBack
    <3>0. PICK n \in Nat : n = Len(log) + 1
      BY DEF TypeOK
    <3>1. PICK r \in Request :
            /\ log' = Append(log, r) /\ r.at = clock /\ r.section = section
            /\ clock' \in Nat /\ clock' >= clock
            /\ section' = section /\ nextCallAt' = nextCallAt
            /\ pc \in {"request", "fallback"} /\ pc' \in {"idle", "fallback"}
      BY <2>4, Sends
    <3>2. /\ \A i \in DOMAIN log : i \in DOMAIN log' /\ log'[i] = log[i]
          /\ \A i \in DOMAIN log' : i \in DOMAIN log \/ i = n
          /\ Len(log') = n /\ n \in DOMAIN log' /\ log'[n] = r
          /\ Len(log) \in Nat /\ DOMAIN log = 1..Len(log)
      BY <3>0, <3>1, AppendAdds DEF TypeOK
    <3>3. /\ \A i \in DOMAIN log : First(i)' <=> First(i)
          /\ First(n)' <=> Len(log) = 0 \/ log[Len(log)].section # r.section
      BY <3>0, <3>1, FirstKept DEF TypeOK
    <3>4. First(n)' => pc = "request"
      BY <3>1, <3>3 DEF Slots
    <3>5. \A i \in DOMAIN log' : log'[i].at <= clock' /\ log'[i].section <= section'
      BY <2>1, <3>1, <3>2 DEF Slots
    <3>6. ASSUME Interval > 0, NEW i \in DOMAIN log', First(i)'
          PROVE  nextCallAt' >= log'[i].at + Interval
      <4>1. CASE i = n
        <5>1. nextCallAt = clock + Interval
          BY <3>4, <3>6, <4>1 DEF First, Slots
        <5>2. QED BY <2>1, <3>1, <3>2, <4>1, <5>1
      <4>2. CASE i \in DOMAIN log /\ pc = "fallback"
        BY <3>1, <3>2, <3>3, <3>6, <4>2 DEF Slots
      <4>3. CASE i \in DOMAIN log /\ pc = "request"
        <5>1. clock >= log[i].at + Interval /\ nextCallAt = clock + Interval
          BY <3>3, <3>6, <4>3 DEF Slots
        <5>2. QED BY <2>1, <3>1, <3>2, <4>3, <5>1
      <4>4. QED BY <3>1, <3>2, <4>1, <4>2, <4>3
    <3>7. SectionsArePaced'
      <4> SUFFICES ASSUME NEW i \in DOMAIN log', NEW j \in DOMAIN log', i < j,
                          First(i)', First(j)'
                   PROVE  log'[j].at >= log'[i].at + Interval
        BY DEF SectionsArePaced
      <4>1. i \in DOMAIN log
        BY <3>0, <3>2
      <4>2. CASE j \in DOMAIN log
        BY <3>2, <3>3, <4>1, <4>2 DEF Slots, SectionsArePaced
      <4>3. CASE j = n
        <5>1. clock >= log[i].at + Interval
          <6>1. First(i) /\ pc = "request"
            BY <3>3, <3>4, <4>1, <4>3 DEF First
          <6>2. QED BY <4>1, <6>1 DEF Slots
        <5>2. QED BY <3>1, <3>2, <4>1, <4>3, <5>1
      <4>4. QED BY <3>2, <4>2, <4>3
    <3>8. pc' = "fallback" => Len(log') > 0 /\ log'[Len(log')].section = section'
      BY <3>0, <3>1, <3>2
    <3>9. QED BY <3>1, <3>5, <3>6, <3>7, <3>8 DEF Slots
  <2>5. QED BY <2>2, <2>3, <2>4 DEF Next
<1>3. Slots => SectionsArePaced
  BY DEF Slots
<1>4. QED BY <1>1, <1>2, <1>3, TypeCorrect, PTL DEF Spec
=============================================================================
