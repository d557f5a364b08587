------------------------- MODULE MCNotificationQueue -------------------------
(* NotificationQueue with two workers and three messages, which the heap   *)
(* orders m1, m2, m3.                                                      *)
EXTENDS NotificationQueue

CONSTANTS w1, w2, m1, m2, m3

MCWorkers  == {w1, w2}
MCMessages == {m1, m2, m3}
MCRank     == [m \in MCMessages |-> CASE m = m1 -> 1 [] m = m2 -> 2 [] m = m3 -> 3]
MCDelays   == {0, 2}
=============================================================================
