----------------------------- MODULE Commissions -----------------------------
(***************************************************************************)
(* One commission and the administrators who create and change it at once  *)
(* (commissions/commissions.service.ts).  A purchase request copies the    *)
(* members and the boss when it is made, and its approval counts on the    *)
(* boss being no member.                                                   *)
(***************************************************************************)
EXTENDS Integers, FiniteSets

CONSTANTS
  Writer,       \* requests under way at once
  Person,
  Nobody        \* no commission, no boss, or nothing asked for

VARIABLES
  commission,    \* the stored commission, or Nobody before it is created
  writers,       \* writer -> what it does, with the copy it loaded
  concurrent     \* history: two updates were under way at once

vars == <<commission, writers, concurrent>>

\* A commission of the time before bosses has none.
Commission ==
  [members : SUBSET Person, boss : Person \cup {Nobody}, isActive : BOOLEAN]

\* Assumed where the constants get their values (Office).
NobodyAssumption == Nobody \notin Person /\ Nobody \notin Commission

\* "current" is FALSE once somebody else stored another list of members: the
\* version of the document has moved on.
Writing ==
  [op : {"idle"}]
    \cup [op : {"update"}, members : (SUBSET Person) \cup {Nobody},
          boss : Person \cup {Nobody}, copy : Commission, current : BOOLEAN]

TypeOK ==
  /\ commission \in Commission \cup {Nobody}
  /\ writers \in [Writer -> Writing]
  /\ concurrent \in BOOLEAN

Init ==
  /\ \/ commission = Nobody
     \/ \E m \in (SUBSET Person) \ {{}} :
          commission = [members |-> m, boss |-> Nobody, isActive |-> TRUE]
  /\ writers = [w \in Writer |-> [op |-> "idle"]]
  /\ concurrent = FALSE

\* create: the boss is no member, everybody is active and the name is free, or
\* nothing is created.
Create(members, boss) ==
  /\ commission = Nobody
  /\ boss \notin members
  /\ commission' = [members |-> members, boss |-> boss, isActive |-> TRUE]
  /\ UNCHANGED <<writers, concurrent>>

Deactivate ==
  /\ commission # Nobody
  /\ commission.isActive
  /\ commission' = [commission EXCEPT !.isActive = FALSE]
  /\ UNCHANGED <<writers, concurrent>>

Reactivate ==
  /\ commission # Nobody
  /\ ~commission.isActive
  /\ commission' = [commission EXCEPT !.isActive = TRUE]
  /\ UNCHANGED <<writers, concurrent>>

NextMembers(members, copy) == IF members = Nobody THEN copy.members ELSE members
NextBoss(boss, copy) == IF boss = Nobody THEN copy.boss ELSE boss

\* Bug form: only a boss who is asked for is compared.
BossNotInMembersIfAsked(members, boss, copy) ==
  boss # Nobody => boss \notin NextMembers(members, copy)

\* assertBossNotInMembers, on what the commission would become.
BossNotInMembers(members, boss, copy) ==
  NextBoss(boss, copy) # Nobody =>
    NextBoss(boss, copy) \notin NextMembers(members, copy)

\* update loads the commission and compares the boss with the members ...
LoadUpdate(w, members, boss) ==
  /\ writers[w].op = "idle"
  /\ commission # Nobody
  /\ BossNotInMembers(members, boss, commission)
  /\ writers' = [writers EXCEPT ![w] =
       [op |-> "update", members |-> members, boss |-> boss,
        copy |-> commission, current |-> TRUE]]
  /\ concurrent' = (concurrent \/ \E v \in Writer : writers[v].op # "idle")
  /\ UNCHANGED <<commission>>

\* ... then reads the accounts and saves what it changed.  The save of a new
\* list of members insists on the version that was loaded and moves it on; the
\* boss is a plain field.
SaveUpdate(w) ==
  /\ writers[w].op = "update"
  /\ LET u == writers[w]
         newMembers == u.members # Nobody /\ u.members # u.copy.members
         newBoss == u.boss # Nobody /\ u.boss # u.copy.boss
     IN  /\ newMembers => u.current
         /\ commission' =
              [commission EXCEPT
                 !.members = IF newMembers THEN u.members ELSE @,
                 !.boss = IF newBoss THEN u.boss ELSE @]
         /\ writers' =
              [v \in Writer |->
                 IF v = w THEN [op |-> "idle"]
                 ELSE IF newMembers /\ writers[v].op = "update"
                   THEN [writers[v] EXCEPT !.current = FALSE]
                   ELSE writers[v]]
  /\ UNCHANGED concurrent

\* An inactive account (buildMemberSnapshots), a name already taken or a version
\* that has moved on ends the update.
RefuseUpdate(w) ==
  /\ writers[w].op = "update"
  /\ writers' = [writers EXCEPT ![w] = [op |-> "idle"]]
  /\ UNCHANGED <<commission, concurrent>>

Next ==
  \/ \E m \in (SUBSET Person) \ {{}}, b \in Person : Create(m, b)
  \/ Deactivate
  \/ Reactivate
  \/ \E w \in Writer :
       \/ \E m \in ((SUBSET Person) \ {{}}) \cup {Nobody}, b \in Person \cup {Nobody} :
            LoadUpdate(w, m, b)
       \/ SaveUpdate(w)
       \/ RefuseUpdate(w)

Spec == Init /\ [][Next]_vars

-----------------------------------------------------------------------------
\* The boss of a commission is none of its members, as the approval of a request
\* assumes, unless two updates were under way at once: one that names the boss
\* and one that names the members are each checked against what they loaded.
BossIsNoMember ==
  commission # Nobody /\ ~concurrent => commission.boss \notin commission.members

=============================================================================
