-------------------------- MODULE MCInvoicePipeline --------------------------
(* InvoicePipeline on two CFDIs.  The kinds are one that passes every gate *)
(* and one for each reason not to.                                         *)
EXTENDS InvoicePipeline

CONSTANTS w1, w2, c1, c2

TwoWorkers == {w1, w2}
OneWorker  == {w1}
MCCFDIs    == {c1, c2}

Clean == [valid |-> TRUE, cancelled |-> FALSE, doubtful |-> FALSE,
          payment |-> FALSE, large |-> FALSE]

MCKinds == {Clean,
            [Clean EXCEPT !.valid = FALSE],
            [Clean EXCEPT !.cancelled = TRUE],
            [Clean EXCEPT !.doubtful = TRUE],
            [Clean EXCEPT !.payment = TRUE],
            [Clean EXCEPT !.large = TRUE]}
=============================================================================
