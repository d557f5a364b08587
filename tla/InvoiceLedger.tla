---------------------------- MODULE InvoiceLedger ----------------------------
(***************************************************************************)
(* What the invoice pipeline promises about one tenant's CFDIs.  A CFDI is *)
(* worked on in attempts; the order of the tool calls in an attempt, what  *)
(* the connector looks up and the points of failure are left out.          *)
(*                                                                         *)
(*   - An attempt makes at most one poliza, and only for a CFDI that       *)
(*     passed every gate.                                                  *)
(*   - While the ERP remembers what it was given, a CFDI gets a second     *)
(*     poliza only if two attempts at it overlapped; an ERP that does not  *)
(*     remember may give it one poliza per attempt.                        *)
(*   - An attempt logs and books its CFDI after it is through with the ERP,*)
(*     and a CFDI that passed every gate is booked only once the call to   *)
(*     the ERP is in the audit log.                                        *)
(*   - What was posted, logged or booked stays so.                         *)
(*                                                                         *)
(* It does not promise that what is posted is booked: a failure in between *)
(* leaves a poliza without its invoice (see InvoicePipeline!PersistFirst). *)
(***************************************************************************)
EXTENDS Naturals

CONSTANTS CFDIs,      \* the documents
          Kinds,      \* what the pipeline can find out about a document
          Attempts,   \* those that may be under way at the same time
          None,       \* what no attempt is at work on
          Remembers   \* TRUE: the ERP knows the folios it was given before

VARIABLES
    doc,        \* the kind of each document, fixed
    at,         \* the CFDI each attempt is at work on
    due,        \* attempts that may still make a poliza
    posts,      \* polizas of each CFDI in the ERP
    logged,     \* CFDIs with a register_erp row in the audit log
    booked,     \* CFDIs with a row in the invoices table
    overlapped  \* CFDIs two attempts had before the same ERP at once

vars == <<doc, at, due, posts, logged, booked, overlapped>>

\* Every gate of the pipeline passed: valid, not cancelled at the SAT,
\* classified with enough confidence, no payment, below the amount threshold.
Eligible(kind) ==
    kind.valid /\ ~kind.cancelled /\ ~kind.doubtful /\ ~kind.payment /\ ~kind.large

Init ==
    /\ doc \in [CFDIs -> Kinds]
    /\ at = [a \in Attempts |-> None]
    /\ due = {}
    /\ posts = [f \in CFDIs |-> 0]
    /\ logged = {}
    /\ booked = {}
    /\ overlapped = {}

Begin(a, f) ==
    /\ at[a] = None
    /\ at' = [at EXCEPT ![a] = f]
    /\ due' = due \cup {a}
    /\ overlapped' = IF Remembers /\ (\E b \in Attempts : at[b] = f)
                       THEN overlapped \cup {f} ELSE overlapped
    /\ UNCHANGED <<doc, posts, logged, booked>>

MayPost(f) == posts[f] = 0 \/ ~Remembers \/ f \in overlapped

Post(a, f) ==
    /\ a \in due /\ at[a] = f
    /\ Eligible(doc[f])
    /\ MayPost(f)
    /\ due' = due \ {a}
    /\ posts' = [posts EXCEPT ![f] = @ + 1]
    /\ UNCHANGED <<doc, at, logged, booked, overlapped>>

\* A gate, the ERP, or the poliza it has already.
Refuse(a) ==
    /\ a \in due
    /\ due' = due \ {a}
    /\ UNCHANGED <<doc, at, posts, logged, booked, overlapped>>

\* The call is logged with the ERP's answer; the answer may be that it failed.
Log(a, f) ==
    /\ at[a] = f /\ a \notin due
    /\ Eligible(doc[f])
    /\ logged' = logged \cup {f}
    /\ UNCHANGED <<doc, at, due, posts, booked, overlapped>>

Book(a, f) ==
    /\ at[a] = f /\ a \notin due
    /\ Eligible(doc[f]) => f \in logged
    /\ booked' = booked \cup {f}
    /\ UNCHANGED <<doc, at, due, posts, logged, overlapped>>

\* The attempt returns or fails.
End(a) ==
    /\ at[a] # None
    /\ at' = [at EXCEPT ![a] = None]
    /\ due' = due \ {a}
    /\ UNCHANGED <<doc, posts, logged, booked, overlapped>>

Next ==
    \E a \in Attempts :
        \/ \E f \in CFDIs : Begin(a, f) \/ Post(a, f) \/ Log(a, f) \/ Book(a, f)
        \/ Refuse(a)
        \/ End(a)

Spec == Init /\ [][Next]_vars
=============================================================================
