---------------------------- MODULE MCRequestRaces ----------------------------
(* RequestRaces for TLC. *)
EXTENDS RequestRaces, TLC

\* Handlers, people, lines and batches are interchangeable.
Symmetry ==
  Permutations(Procs) \cup Permutations(Users) \cup
  Permutations(Lines) \cup Permutations(Batches)

================================================================================
