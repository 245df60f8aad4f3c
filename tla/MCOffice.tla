------------------------------ MODULE MCOffice ------------------------------
(***************************************************************************)
(* The parts of Office on small instances: three persons, two requests at  *)
(* once, two structures of which the requests of accounts tell one.        *)
(***************************************************************************)
EXTENDS Office, TLC

CONSTANTS x, y

Asks(isActive, structureId, warehouse) ==
  [isActive |-> isActive, structureId |-> structureId, warehouse |-> warehouse]

MCRequest ==
  {Asks(TRUE, None, None), Asks(FALSE, None, None), Asks(None, x, None),
   Asks(None, None, TRUE), Asks(None, None, FALSE), Asks(None, y, TRUE)}

Symmetry ==
  Permutations(Person) \cup Permutations(Handler) \cup Permutations(Device)

=============================================================================
