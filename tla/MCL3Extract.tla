----------------------------- MODULE MCL3Extract -----------------------------
(***************************************************************************)
(* Two admitted sections of two nodes.  Ingest has left a MEDIUM edge in   *)
(* each section, one across them and a STRONG edge, or some of these.      *)
(* The model may answer nothing, a valid claim, or all at once: the same   *)
(* claim twice, a claim across sections, one without evidence, one beside  *)
(* a STRONG edge with a confidence above 1.  Quotes are exact, wrapped     *)
(* otherwise, too short, of another case or of the other section.          *)
(*                                                                         *)
(* Where there is no edge and nothing is answered, the evidence check is   *)
(* put to spans and windows besides: a probe in each initial state.        *)
(***************************************************************************)
EXTENDS ProbedExtract

CONSTANTS rule, exc, defn, term, p1, p2

MCNodeId == {rule, exc, defn, term}
MCWindows == <<{rule, exc}, {defn, term}>>

Rel(s, t, d) == [src |-> s, type |-> t, dst |-> d]
Pattern(k) == [by |-> "pattern", key |-> k]
Found(confidence) ==
  [provenance |-> "pattern", confidence |-> confidence, span |-> <<"a">>]

Table ==
  {<<Pattern(Rel(exc, "exception_of", rule)), Found(6000)>>,
   <<Pattern(Rel(rule, "defines", defn)), Found(6000)>>,
   <<Pattern(Rel(exc, "supersedes", rule)), Found(Strong)>>,
   <<Pattern(Rel(defn, "conditioned_on", term)), Found(6000)>>}

Rows(T) == [id \in {t[1] : t \in T} |-> (CHOOSE t \in T : t[1] = id)[2]]
MCIngests == {Rows({}), Rows(Table), Rows({t \in Table : t[2] = Found(6000)})}

MCChar == {"a", "b", "A", " ", "nl", "zw"}
MCSpace == {" ", "nl", "zw"}
MCStripped == {" ", "nl"}
MCFolded == [c \in MCChar |-> IF c = "A" THEN "a" ELSE c]

\* The first node of each section, a line feed, the second.
MCWindowText == << <<"a", "b", " ", "a", "nl", "b", "a">>,
                   <<"b", "nl", "b", "b", "nl", "a", "a">> >>

Exact == <<"a", "b", " ", "a">>
Rewrapped == <<" ", "b", " ", "b", "b", "zw", "a">>
Shouted == <<"A", "b", " ", "a">>
Short == <<"a">>

Claim(s, t, d, c, q) ==
  [src |-> s, type |-> t, dst |-> d, confidence |-> c, quote |-> q]

MCResponses ==
  {<<>>,
   <<Claim(exc, "exception_of", rule, 4000, Exact)>>,
   <<Claim(exc, "exception_of", rule, 9000, Exact),
     Claim(exc, "exception_of", rule, 2000, <<"b", " ", "a", " ", "b">>),
     Claim(rule, "defines", defn, 9000, Exact), Claim(rule, "supersedes", exc, 9000, Shouted),
     Claim(defn, "supersedes", term, 9000, Exact), Claim(term, "exception_of", defn, 9000, Short),
     Claim(exc, "supersedes", rule, 15000, Exact), Claim(term, "defines", defn, 7000, Rewrapped),
     Claim(defn, "conditioned_on", term, 9000, Rewrapped)>>}

MCProbes ==
  [span : SeqOf(MCChar \ {"b"}, 3) \cup [1..3 -> {"a", "b", "zw"}], window : SeqOf(MCChar \ {"nl"}, 4)]

=============================================================================
