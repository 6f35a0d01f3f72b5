----------------------------- MODULE MCEditPages -----------------------------
(* The pages that edit a file, for TLC, and the one whose lines have clients. *)
EXTENDS EditPages, TLC

AllPages == DOMAIN PlanOf
Exports  == {"sharing"}

Alike == Permutations(Names) \cup Permutations(Clients)

\* Nothing reads the record of a save that is over and whose writer has ended.
Alive == <<page, file, shown, generation, busy, note, phase, running, refreshes, edits, hasty, due,
           {<<s, saves[s]>> : s \in InFlight \cup running}>>
=============================================================================
