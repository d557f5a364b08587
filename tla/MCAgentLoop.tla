----------------------------- MODULE MCAgentLoop -----------------------------
(* AgentLoop on one or two workers that take the same CFDI.                *)
EXTENDS AgentLoop

CONSTANTS w1, w2, c1

OneWorker  == {w1}
TwoWorkers == {w1, w2}
OneCFDI    == {c1}
OwnFolio   == [f \in CFDIs |-> f]

Good    == [readable |-> TRUE, valid |-> TRUE, policy |-> "hold", erp |-> "driver"]
MCKinds == {Good,
            [Good EXCEPT !.policy = "auto_register"],
            [Good EXCEPT !.erp = "csv"],
            [Good EXCEPT !.valid = FALSE],
            [Good EXCEPT !.readable = FALSE]}
=============================================================================
