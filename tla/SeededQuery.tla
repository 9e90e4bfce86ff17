----------------------------- MODULE SeededQuery -----------------------------
(***************************************************************************)
(* A query and, until closure begins, the two rankings that were fused for *)
(* its seeds.                                                              *)
(***************************************************************************)
EXTENDS QuerySession, RankFusion

VARIABLE rankings   \* what the seeder has fused, until closure begins

none == [dense |-> <<>>, sparse |-> <<>>]
rvars == <<allvars, rankings>>

RInit == SInit /\ rankings \in Rankings

RSpec == RInit /\ [][SNext /\ rankings' = none]_rvars

\* Fusion keeps to what the rankings agree on (hybrid.py), however it is cut.
FusionKeepsAgreement == KeepsAgreement(rankings)
=============================================================================
