----------------------- MODULE MCCollectionsReminders -----------------------
(* Two requests at a time on a queue of two reminders.                     *)
EXTENDS CollectionsReminders, TLC

Symmetry == Permutations(Workers) \cup Permutations(Keys)
=============================================================================
