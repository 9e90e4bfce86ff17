---------------------------- MODULE ProbedExtract ----------------------------
(***************************************************************************)
(* Extraction, and beside it the evidence check put to texts of its own:   *)
(* one span and one window in each initial state in which there is no edge *)
(* and nothing is answered.                                                *)
(***************************************************************************)
EXTENDS L3Extract

CONSTANT Probes   \* the spans and windows that are tried

ASSUME ProbesAssumption == Probes \subseteq [span : Seq(Char), window : Seq(Char)]

VARIABLE probe   \* a span and a window, until the first step

noProbe == [span |-> <<>>, window |-> <<>>]
pvars == <<vars, probe>>

Silent == ingested = Nothing /\ \A p \in Proc, i \in DOMAIN Windows : oracle[p][i] = <<>>

PInit == Init /\ probe \in IF Silent THEN Probes ELSE {noProbe}

PSpec == PInit /\ [][Next /\ probe' = noProbe]_pvars

PCalmSpec == PInit /\ [][CalmNext /\ probe' = noProbe]_pvars

\* Of every span and window tried, the check accepts what is quoted but for
\* white space and nothing else, and finds where it stands (evidence.py).
EvidenceIsExact == MeetsReference(probe.span, probe.window)
=============================================================================
