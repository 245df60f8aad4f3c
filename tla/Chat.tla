-------------------------------- MODULE Chat --------------------------------
(***************************************************************************)
(* The chat (chat/chat.service.ts): a room for everybody, a room for each  *)
(* pair of users, and a support room for each user who asks, which every   *)
(* support operator reads.  Messages, read marks and reactions are stored  *)
(* apart, and the summary that shows what is unread works out who reads    *)
(* which room by other queries than the list of messages.                  *)
(*                                                                         *)
(* createdAt and lastReadAt are places in the sequence of messages.        *)
(***************************************************************************)
EXTENDS Integers, FiniteSets, Sequences

CONSTANTS
  Member,       \* the users
  MaxMessages,  \* bound
  MaxChanges    \* bound: read marks, and changes of accounts

\* Assumed where the constants get their values (Office).
ChatBoundsAssumption == MaxMessages \in Nat /\ MaxChanges \in Nat

VARIABLES
  activeMembers, \* accounts that are active
  operators,     \* accounts with the role or the permissions of an operator
  messages,      \* the messages in the order they were created
  lastReadAt,    \* <<member, room key>> -> messages there were when he read it,
                 \* for those he has a read state of
  changes        \* read marks and changes of accounts so far

vars == <<activeMembers, operators, messages, lastReadAt, changes>>

\* buildDirectConversationKey: the pair, whoever writes.  Writing to oneself is
\* a conversation too.
DirectKey(a, b) == {a, b}

Rooms ==
  [roomType : {"GLOBAL"}]
    \cup [roomType : {"DIRECT"}, key : {DirectKey(a, b) : a, b \in Member}]
    \cup [roomType : {"SUPPORT"}, supportRequesterId : Member]

Global == [roomType |-> "GLOBAL"]
Direct(key) == [roomType |-> "DIRECT", key |-> key]
Support(u) == [roomType |-> "SUPPORT", supportRequesterId |-> u]

Message == [room : Rooms, senderId : Member]

\* readStateKey names the peer of a conversation, not its key.
ReadKeys ==
  [roomType : {"GLOBAL"}]
    \cup [roomType : {"DIRECT"}, directPeerUserId : Member]
    \cup [roomType : {"SUPPORT"}, supportRequesterId : Member]

DirectPeer(peer) == [roomType |-> "DIRECT", directPeerUserId |-> peer]

TypeOK ==
  /\ activeMembers \subseteq Member
  /\ operators \subseteq Member
  /\ messages \in UNION {[1 .. n -> Message] : n \in 0 .. MaxMessages}
  /\ DOMAIN lastReadAt \subseteq Member \X ReadKeys
  /\ \A k \in DOMAIN lastReadAt : lastReadAt[k] \in 0 .. MaxMessages
  /\ changes \in 0 .. MaxChanges

Init ==
  /\ activeMembers = Member
  /\ operators \in SUBSET Member
  /\ messages = << >>
  /\ lastReadAt = << >>
  /\ changes = 0

Change == changes < MaxChanges /\ changes' = changes + 1

\* isSupportOperator, or the role of a super admin.
IsOperator(u) == u \in operators /\ u \in activeMembers

-----------------------------------------------------------------------------
(* Messages *)

\* listMessages: the rooms u may ask for.
CanList(u, room) ==
  \/ room.roomType = "GLOBAL"
  \/ room.roomType = "DIRECT" /\ u \in room.key
  \/ room.roomType = "SUPPORT" /\ (IsOperator(u) \/ room.supportRequesterId = u)

\* The rooms sendMessage writes to.  An operator who names nobody writes in his
\* own support room; anybody else always does.
SendRooms(u) ==
  {Global}
    \cup {Direct(DirectKey(u, peer)) : peer \in Member}
    \cup {Support(r) : r \in IF IsOperator(u) THEN Member ELSE {u}}

\* sendMessage, whose answer may quote a message of the same room
\* (messageBelongsToRoom).
SendMessage(u, room) ==
  /\ u \in activeMembers
  /\ Len(messages) < MaxMessages
  /\ messages' = Append(messages, [room |-> room, senderId |-> u])
  /\ UNCHANGED <<activeMembers, operators, lastReadAt, changes>>

\* The read mark of a room: an operator names whose support room he read, and
\* anybody else reads his own.
MarkKeys(u) ==
  {Global}
    \cup {DirectPeer(peer) : peer \in Member}
    \cup {Support(r) : r \in IF IsOperator(u) THEN Member ELSE {u}}

\* markAsRead: everything written until now is read.
MarkAsRead(u, key) ==
  /\ u \in activeMembers
  /\ lastReadAt' = [k \in DOMAIN lastReadAt \cup {<<u, key>>} |->
                      IF k = <<u, key>> THEN Len(messages) ELSE lastReadAt[k]]
  /\ Change
  /\ UNCHANGED <<activeMembers, operators, messages>>

\* Administrators change accounts.
SetActive(u) ==
  /\ activeMembers' = IF u \in activeMembers
                        THEN activeMembers \ {u} ELSE activeMembers \cup {u}
  /\ Change
  /\ UNCHANGED <<operators, messages, lastReadAt>>

SetOperator(u) ==
  /\ operators' = IF u \in operators
                    THEN operators \ {u} ELSE operators \cup {u}
  /\ Change
  /\ UNCHANGED <<activeMembers, messages, lastReadAt>>

Next ==
  \E u \in Member :
    \/ \E room \in SendRooms(u) : SendMessage(u, room)
    \/ \E key \in MarkKeys(u) : MarkAsRead(u, key)
    \/ SetActive(u)
    \/ SetOperator(u)

Spec == Init /\ [][Next]_vars

-----------------------------------------------------------------------------
(* The summary *)

\* countUnreadInRoom: what others wrote in a room since lastRead.
Unread(u, room, lastRead) ==
  {m \in 1 .. Len(messages) :
     /\ messages[m].room = room
     /\ messages[m].senderId # u
     /\ m > lastRead}

LastRead(u, key) ==
  IF <<u, key>> \in DOMAIN lastReadAt THEN lastReadAt[<<u, key>>] ELSE 0

GlobalUnread(u) == Unread(u, Global, LastRead(u, Global))

\* Bug form: an operator is shown the support rooms of others only.
SupportThreadsOfOthers(u) ==
  IF IsOperator(u)
    THEN {messages[m].room.supportRequesterId :
            m \in {n \in 1 .. Len(messages) :
                     /\ messages[n].room.roomType = "SUPPORT"
                     /\ messages[n].room.supportRequesterId # u}}
    ELSE {u}

\* An operator is shown the support rooms that have messages, anybody else his
\* own.  (The last 500 messages of support, which the bound never reaches.)
SupportThreads(u) ==
  IF IsOperator(u)
    THEN {messages[m].room.supportRequesterId :
            m \in {n \in 1 .. Len(messages) :
                     messages[n].room.roomType = "SUPPORT"}}
    ELSE {u}

SupportUnread(u) ==
  UNION {Unread(u, Support(r), LastRead(u, Support(r))) :
           r \in SupportThreads(u)}

\* findActiveLookup: conversations with accounts no longer active, and with
\* oneself, are not looked for.
DirectPeers(u) == activeMembers \ {u}

DirectUnread(u) ==
  UNION {Unread(u, Direct(DirectKey(u, peer)), LastRead(u, DirectPeer(peer))) :
           peer \in DirectPeers(u)}

\* getSummary
TotalUnread(u) ==
  Cardinality(GlobalUnread(u)) + Cardinality(SupportUnread(u))
    + Cardinality(DirectUnread(u))

-----------------------------------------------------------------------------
(* Properties *)

\* The read mark that belongs to a room, for the one who reads it.
ReadMark(u, room) ==
  IF room.roomType = "DIRECT"
    THEN LastRead(u, DirectPeer(CHOOSE p \in room.key : room.key = DirectKey(u, p)))
    ELSE LastRead(u, room)

\* The unread messages of an active user are those of others in the rooms the
\* list of messages would show him, after his mark there, also when he has just
\* become an operator or is one no longer; only conversations with an account
\* that was deactivated are left out.
UnreadIsShown ==
  \A u \in activeMembers :
    TotalUnread(u) = Cardinality(
      {m \in 1 .. Len(messages) :
         /\ messages[m].senderId \in Member \ {u}
         /\ CanList(u, messages[m].room)
         /\ m > ReadMark(u, messages[m].room)
         /\ messages[m].room.roomType = "DIRECT" =>
              messages[m].senderId \in activeMembers})

=============================================================================
