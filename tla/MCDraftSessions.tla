--------------------------- MODULE MCDraftSessions ---------------------------
(* DraftSessions for TLC. *)
EXTENDS DraftSessions, TLC

\* Handlers and sessions are interchangeable.
Symmetry == Permutations(Procs) \cup Permutations(Sessions)

==============================================================================
