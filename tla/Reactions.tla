------------------------------ MODULE Reactions ------------------------------
(***************************************************************************)
(* The reactions to one message of the chat (toggleReaction in             *)
(* chat/chat.service.ts): a user takes back the emoji he gave, or gives    *)
(* one in place of whatever he gave before.  The handler loads the         *)
(* message, makes a new list from its copy and saves the list whole; the   *)
(* save of a list insists on the version that was loaded.                  *)
(***************************************************************************)
EXTENDS Integers

CONSTANTS
  Member,
  Emoji,
  Absent         \* no request under way

\* Assumed where the constants get their values (Office).
AbsentAssumption == Absent \notin Emoji

VARIABLES
  reactions,     \* the stored list: set of [userId, emoji]
  togglers       \* member -> his request under way, with its copy

vars == <<reactions, togglers>>

Reaction == [userId : Member, emoji : Emoji]

\* "current" is FALSE once somebody else stored the list.
Toggle == [emoji : Emoji, copy : SUBSET Reaction, current : BOOLEAN]

TypeOK ==
  /\ reactions \subseteq Reaction
  /\ \A u \in Member : togglers[u] = Absent \/ togglers[u] \in Toggle

Init ==
  /\ reactions = {}
  /\ togglers = [u \in Member |-> Absent]

LoadToggle(u, emoji) ==
  /\ togglers[u] = Absent
  /\ togglers' = [togglers EXCEPT ![u] =
       [emoji |-> emoji, copy |-> reactions, current |-> TRUE]]
  /\ UNCHANGED reactions

\* Taking back the same emoji, or replacing the reaction one had.
NextReactions(copy, u, emoji) ==
  LET mine == [userId |-> u, emoji |-> emoji]
  IN  IF mine \in copy
        THEN copy \ {mine}
        ELSE {r \in copy : r.userId # u} \cup {mine}

\* Bug form: the list is written whatever the version.
MayStoreAlways(toggle) == TRUE

MayStore(toggle) == toggle.current

\* The save moves the version on for whoever loaded the list before.
SaveToggle(u) ==
  /\ togglers[u] # Absent
  /\ MayStore(togglers[u])
  /\ reactions' = NextReactions(togglers[u].copy, u, togglers[u].emoji)
  /\ togglers' =
       [v \in Member |->
          IF v = u \/ togglers[v] = Absent
            THEN Absent ELSE [togglers[v] EXCEPT !.current = FALSE]]

\* The version has moved on: the request fails.
RefuseToggle(u) ==
  /\ togglers[u] # Absent
  /\ ~MayStore(togglers[u])
  /\ togglers' = [togglers EXCEPT ![u] = Absent]
  /\ UNCHANGED reactions

Next ==
  \E u \in Member :
    \/ \E emoji \in Emoji : LoadToggle(u, emoji)
    \/ SaveToggle(u)
    \/ RefuseToggle(u)

Spec == Init /\ [][Next]_vars

-----------------------------------------------------------------------------
Given(u, list) == {r \in list : r.userId = u}

\* What a step may do to the reactions of a user.
KeepsReactions ==
  \A u \in Member :
    /\ Given(u, reactions') # Given(u, reactions) =>
         togglers[u] # Absent /\ togglers'[u] = Absent
    /\ \A r, s \in Given(u, reactions') : r = s

\* A reaction is changed by nobody but its author, who has at most one on a
\* message, however many toggle at once: no toggle writes back a list that was
\* read before somebody else's was stored.
ReactionsAreKept == [][KeepsReactions]_vars

=============================================================================
