----------------------------- MODULE MCPipeline -----------------------------
(***************************************************************************)
(* Two markets and two alpha agents, one of which cannot do without the    *)
(* macro datum.                                                            *)
(***************************************************************************)
EXTENDS Pipeline, TLC

MCAgents == {"trend", "macro"}
MCAlpha == {"trend", "macro"}
MCWeight == [a \in MCAgents |-> IF a = "macro" THEN 2 ELSE 1]
MCRequires == [a \in MCAgents |-> IF a = "macro" THEN {"rates"} ELSE {}]
MCLifetime == [a \in MCAgents |-> 1]
MCTargets == {0, 4}
MCOffers == [fed |-> {"rates"}]
MCOrder == <<"fed">>
=============================================================================
