--------------------------- MODULE MCInvoiceBatch ---------------------------
(* A batch over two CFDIs, next to one worker that submits one of them.    *)
EXTENDS InvoiceBatch

CONSTANTS w1, b, c1, c2

MCWorkers == {w1, b}
TwoCFDIs  == {c1, c2}

Clean   == [valid |-> TRUE, cancelled |-> FALSE, doubtful |-> FALSE,
            payment |-> FALSE, large |-> FALSE]
MCKinds == {Clean, [Clean EXCEPT !.large = TRUE]}
=============================================================================
