------------------------------- MODULE SignOff -------------------------------
(***************************************************************************)
(* What the approval of a purchase request promises, without documents,    *)
(* statuses or handlers: a panel of people signs, a decision is taken only *)
(* over a fully signed panel, and the panel and its signatures stand still *)
(* while the decision does.  Reworking the request starts a new round, in  *)
(* which a full agreement of someone who stays on the panel is kept and    *)
(* nobody is made to agree who has not said so.                            *)
(***************************************************************************)
CONSTANT Users

VARIABLES phase,     \* "review", "approved", "refused", or "gone"
          panel,     \* the people who have to agree
          signed,    \* those of them who agree, fully or in part
          full,      \* those of them who agree fully
          onRecord   \* the people whose last recorded word is an agreement

vars == <<phase, panel, signed, full, onRecord>>

TypeOK ==
  /\ phase \in {"review", "approved", "refused", "gone"}
  /\ panel \subseteq Users
  /\ signed \subseteq panel
  /\ full \subseteq signed
  /\ onRecord \subseteq Users

Init ==
  /\ phase = "review"
  /\ panel \in (SUBSET Users) \ {{}}
  /\ signed = {}
  /\ full = {}
  /\ onRecord = {}

\* Someone on the panel who has not agreed yet says yes, fully or in part.
Agree(u) ==
  /\ phase = "review"
  /\ u \in panel \ signed
  /\ signed' = signed \cup {u}
  /\ full' \in {full, full \cup {u}}
  /\ onRecord' = onRecord \cup {u}
  /\ UNCHANGED <<phase, panel>>

\* ... or no.
Refuse(u) ==
  /\ phase = "review"
  /\ u \in panel \ signed
  /\ onRecord' = onRecord \ {u}
  /\ UNCHANGED <<phase, panel, signed, full>>

\* The decision needs every signature.
Decide(outcome) ==
  /\ phase = "review"
  /\ panel # {}
  /\ panel \subseteq signed
  /\ phase' = outcome
  /\ UNCHANGED <<panel, signed, full, onRecord>>

\* A new round over a new panel.
Rework(newPanel, newSigned, newFull) ==
  /\ phase # "gone"
  /\ newPanel # {}
  /\ full \cap newPanel \subseteq newFull
  /\ newFull \subseteq newSigned
  /\ newSigned \subseteq newPanel \cap onRecord
  /\ phase' = "review"
  /\ panel' = newPanel
  /\ signed' = newSigned
  /\ full' = newFull
  /\ UNCHANGED onRecord

Withdraw ==
  /\ phase = "review"
  /\ phase' = "gone"
  /\ UNCHANGED <<panel, signed, full, onRecord>>

Next ==
  \/ \E u \in Users : Agree(u) \/ Refuse(u)
  \/ \E outcome \in {"approved", "refused"} : Decide(outcome)
  \/ \E newPanel, newSigned, newFull \in SUBSET Users :
       Rework(newPanel, newSigned, newFull)
  \/ Withdraw

Spec == Init /\ [][Next]_vars

==============================================================================
