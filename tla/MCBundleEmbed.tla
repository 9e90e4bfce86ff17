---------------------------- MODULE MCBundleEmbed ----------------------------
(***************************************************************************)
(* Documents of three nodes and of one, an edited version of the second, a *)
(* scan that parses badly, and embedders of two kinds: one process for the *)
(* batching one, one or two for the contextual one.                        *)
(***************************************************************************)
EXTENDS BundleEmbed

CONSTANTS n1, n2, n3, m1, e1, s1, contextual, local,
  c1, c2, l1

MCNode == {n1, n2, n3, m1, e1, s1}
MCCut == [act |-> <<n1, n2, n3>>, notice |-> <<m1>>, edited |-> <<e1>>, scan |-> <<s1>>]
MCConfident == {"act", "notice", "edited"}
MCBatches == {<<"act", "scan", "notice", "act">>, <<"act", "edited">>,
              <<"notice", "gone", "act">>}
MCModel == {contextual, local}
MCProcess == {c1, c2, l1}
MCEmbedderOf == [r \in MCProcess |-> IF r = l1 THEN local ELSE contextual]
MCDeployments == {{c1}, {c1, c2}, {l1}}
MCMaxBatch == [m \in Model |-> IF m = contextual THEN 0 ELSE 2]

\* Two processes meet one trouble between them.
PairTroubles == 1
Bounded == deployed = {c1, c2} => troubles' <= PairTroubles

MCSpec == Init /\ [][Next /\ Bounded]_vars /\ Fairness
=============================================================================
