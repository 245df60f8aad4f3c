------------------------------ MODULE Presence ------------------------------
(***************************************************************************)
(* Who is online: the sockets of one user, as the realtime gateway counts  *)
(* them in memory (realtime/realtime.gateway.ts), the devices the          *)
(* database knows (auth/user-devices.service.ts) and the events of a       *)
(* session (auth/user-session-events.service.ts).                          *)
(*                                                                         *)
(* The maps of the gateway are keyed by the user and users never meet in   *)
(* them, so one user is enough.  handleConnection and handleDisconnect are *)
(* asynchronous: a step below is what runs between two awaits, and a       *)
(* socket may close at any of them.  A socket that comes back is a new     *)
(* socket.                                                                 *)
(***************************************************************************)
EXTENDS Integers

CONSTANTS
  MaxSockets,   \* bound: sockets the user opens
  Device,
  NoDevice,     \* the client sent no device id
  MaxRestarts   \* bound: restarts of the server

MaxSocketsAssumption == MaxSockets \in Nat
MaxRestartsAssumption == MaxRestarts \in Nat
NoDeviceAssumption == NoDevice \notin Device

VARIABLES
  live,          \* sockets whose transport is open
  entering,      \* socket -> where its handleConnection stands
  leaving,       \* socket -> where its handleDisconnect stands
  deviceOf,      \* socket -> device id of its handshake
  connectionCounts,
  deviceConnectionCounts,
  sessions,      \* devices stored by registerDevice
  restarts

Socket == 1 .. MaxSockets

vars == <<live, entering, leaving, deviceOf, connectionCounts,
          deviceConnectionCounts, sessions, restarts>>

\* "verify" stands for the awaits before the socket is counted, "register" and
\* "daily" for those after it; "lost": the process that ran the handler died.
EnteringPhases ==
  {"new", "verify", "join", "register", "daily", "done", "refused", "lost"}
Counted == {"register", "daily", "done"}

\* "early": handleDisconnect found no client.data.userId and did nothing;
\* "writing": it waits for the writes of the last online time.
LeavingPhases ==
  {"no", "early", "writing", "done"}

TypeOK ==
  /\ live \subseteq Socket
  /\ entering \in [Socket -> EnteringPhases]
  /\ leaving \in [Socket -> LeavingPhases]
  /\ deviceOf \in [Socket -> Device \cup {NoDevice}]
  /\ connectionCounts \in 0 .. MaxSockets
  /\ deviceConnectionCounts \in [Device -> 0 .. MaxSockets]
  /\ sessions \subseteq Device
  /\ restarts \in 0 .. MaxRestarts

Init ==
  /\ live = {}
  /\ entering = [s \in Socket |-> "new"]
  /\ leaving = [s \in Socket |-> "no"]
  /\ deviceOf = [s \in Socket |-> NoDevice]
  /\ connectionCounts = 0
  /\ deviceConnectionCounts = [d \in Device |-> 0]
  /\ sessions = {}
  /\ restarts = 0

isUserOnline == connectionCounts > 0

getOnlineDeviceIds == {d \in Device : deviceConnectionCounts[d] > 0}

Enter(s, phase) == entering' = [entering EXCEPT ![s] = phase]
Leave(s, phase) == leaving' = [leaving EXCEPT ![s] = phase]

-----------------------------------------------------------------------------
(* handleConnection *)

\* A client connects and its token is verified.  Sockets are numbered as they
\* come.
Connect(s, d) ==
  /\ entering[s] = "new"
  /\ \A t \in 1 .. (s - 1) : entering[t] # "new"
  /\ live' = live \cup {s}
  /\ deviceOf' = [deviceOf EXCEPT ![s] = d]
  /\ Enter(s, "verify")
  /\ UNCHANGED <<leaving, connectionCounts, deviceConnectionCounts,
                 sessions, restarts>>

AddDevice(d, counts) ==
  IF d = NoDevice THEN counts ELSE [counts EXCEPT ![d] = @ + 1]

\* The token is verified, the account read and the rooms joined.  Without a
\* valid token or an active account the socket is cut; cutting it runs
\* handleDisconnect, which knows no user yet.  (An account deactivated later
\* keeps its open sockets.)
Refuse(s) ==
  /\ entering[s] = "verify"
  /\ Enter(s, "refused")
  /\ live' = live \ {s}
  /\ Leave(s, "early")
  /\ UNCHANGED <<deviceOf, connectionCounts, deviceConnectionCounts, sessions,
                 restarts>>

\* Otherwise client.data is filled and the socket counted, in one step, whether
\* its transport is still open or not.
Count(s) ==
  /\ entering[s] = "verify"
  /\ connectionCounts' = connectionCounts + 1
  /\ deviceConnectionCounts' = AddDevice(deviceOf[s], deviceConnectionCounts)
  /\ Enter(s, IF deviceOf[s] = NoDevice THEN "daily" ELSE "register")
  /\ UNCHANGED <<live, leaving, deviceOf, sessions, restarts>>

\* registerDevice: an upsert of the device, whose failure is only logged.
RegisterDevice(s) ==
  /\ entering[s] = "register"
  /\ sessions' \in {sessions, sessions \cup {deviceOf[s]}}
  /\ Enter(s, "daily")
  /\ UNCHANGED <<live, leaving, deviceOf, connectionCounts,
                 deviceConnectionCounts, restarts>>

\* recordDailyOnlineEvent: the ONLINE event, unless there is one of today; a
\* failure is only logged.
RecordDaily(s) ==
  /\ entering[s] = "daily"
  /\ Enter(s, "done")
  /\ UNCHANGED <<live, leaving, deviceOf, connectionCounts,
                 deviceConnectionCounts, sessions, restarts>>

-----------------------------------------------------------------------------
(* handleDisconnect *)

RemoveDevice(d, counts) ==
  IF d = NoDevice
    THEN counts
    ELSE [counts EXCEPT ![d] = IF @ - 1 <= 0 THEN 0 ELSE @ - 1]

\* The transport of s closes and handleDisconnect runs up to its first await.
\* The user is forgotten only by the last of his sockets, which has two writes
\* to wait for before it comes to its device.
Disconnect(s) ==
  /\ s \in live
  /\ live' = live \ {s}
  /\ IF entering[s] \notin Counted
       THEN /\ Leave(s, "early")
            /\ UNCHANGED <<connectionCounts, deviceConnectionCounts>>
       ELSE /\ connectionCounts' =
                 IF connectionCounts - 1 <= 0 THEN 0 ELSE connectionCounts - 1
            /\ IF connectionCounts - 1 <= 0
                 THEN /\ Leave(s, "writing")
                      /\ UNCHANGED deviceConnectionCounts
                 ELSE /\ Leave(s, "done")
                      /\ deviceConnectionCounts' =
                           RemoveDevice(deviceOf[s], deviceConnectionCounts)
  /\ UNCHANGED <<entering, deviceOf, sessions, restarts>>

\* Bug form: the device is deleted although another socket came back meanwhile.
ForgetDeviceWhole(s) ==
  /\ leaving[s] = "writing"
  /\ deviceConnectionCounts' =
       [d \in Device |-> IF d = deviceOf[s] THEN 0 ELSE deviceConnectionCounts[d]]
  /\ Leave(s, "done")
  /\ UNCHANGED <<live, entering, deviceOf, connectionCounts, sessions, restarts>>

\* Bug form: a failed write ends the handler.
ForgetDeviceIfWritten(s) ==
  /\ leaving[s] = "writing"
  /\ deviceConnectionCounts' \in
       {RemoveDevice(deviceOf[s], deviceConnectionCounts), deviceConnectionCounts}
  /\ Leave(s, "done")
  /\ UNCHANGED <<live, entering, deviceOf, connectionCounts, sessions, restarts>>

\* updateLastOnline and the OFFLINE event; one that fails is logged and ends
\* the other too, and the handler goes on to the device, which it forgets by the
\* count it has now, not by the one before the awaits.
ForgetDevice(s) ==
  /\ leaving[s] = "writing"
  /\ deviceConnectionCounts' = RemoveDevice(deviceOf[s], deviceConnectionCounts)
  /\ Leave(s, "done")
  /\ UNCHANGED <<live, entering, deviceOf, connectionCounts, sessions,
                 restarts>>

-----------------------------------------------------------------------------
(* Requests and the process *)

\* Any request that returns a profile registers the device it came from.
EnrichProfile(d) ==
  /\ d \notin sessions
  /\ sessions' = sessions \cup {d}
  /\ UNCHANGED <<live, entering, leaving, deviceOf, connectionCounts,
                 deviceConnectionCounts, restarts>>

\* The process dies with its sockets, its counts and its pending handlers.
Restart ==
  /\ restarts < MaxRestarts
  /\ restarts' = restarts + 1
  /\ live' = {}
  /\ entering' = [s \in Socket |->
                    IF entering[s] = "new" THEN "new" ELSE "lost"]
  /\ leaving' = [s \in Socket |-> "no"]
  /\ connectionCounts' = 0
  /\ deviceConnectionCounts' = [d \in Device |-> 0]
  /\ UNCHANGED <<deviceOf, sessions>>

\* What the server does by itself once a socket has connected or closed.
Advance(s) ==
  \/ Refuse(s)
  \/ Count(s)
  \/ RegisterDevice(s)
  \/ RecordDaily(s)
  \/ ForgetDevice(s)

Next ==
  \/ \E s \in Socket :
       \/ \E d \in Device \cup {NoDevice} : Connect(s, d)
       \/ Advance(s)
       \/ Disconnect(s)
  \/ \E d \in Device : EnrichProfile(d)
  \/ Restart

\* A handler that has started is run to its end: the event loop resumes it when
\* the database answers or fails.  No client is obliged to come or to leave.
Fairness == \A s \in Socket : WF_vars(Advance(s))

Spec == Init /\ [][Next]_vars /\ Fairness

-----------------------------------------------------------------------------
(* What a profile shows *)

\* listDevices for a request from device d: the stored devices that are online,
\* and d itself.  A user online by sockets without a device id is shown online
\* on the device he asks from.
listDevices(d) ==
  LET online(x) ==
        \/ x \in getOnlineDeviceIds
        \/ x = d /\ getOnlineDeviceIds = {} /\ isUserOnline
      listed == {x \in sessions \cup {d} : online(x) \/ x = d}
  IN  {[deviceId |-> x, isOnline |-> online(x)] : x \in listed}

-----------------------------------------------------------------------------
(* Properties *)

\* A socket the gateway counted is open, or its handleDisconnect is under way,
\* or it closed before it was counted: then nothing takes it back (a ghost).
Ghost(s) == entering[s] \in Counted /\ leaving[s] = "early"
Connected(s) == s \in live /\ entering[s] \in Counted

\* Presence tells the truth: a connected socket shows its user online and its
\* device online in every profile that lists it, and a user shown online has a
\* connected socket or a ghost; a device shown online, one of these or a socket
\* that is leaving.
PresenceIsTrue ==
  /\ \A s \in Socket : Connected(s) =>
       /\ isUserOnline
       /\ deviceOf[s] \in sessions =>
            \A d \in Device :
              [deviceId |-> deviceOf[s], isOnline |-> TRUE] \in listDevices(d)
  /\ isUserOnline => \E s \in Socket : Connected(s) \/ Ghost(s)
  /\ \A d \in getOnlineDeviceIds : \E s \in Socket :
       /\ deviceOf[s] = d
       /\ Connected(s) \/ Ghost(s)
            \/ leaving[s] = "writing"

\* Whoever leaves goes offline: a device without a socket of its own, open or
\* ghost, is in the end shown offline or connects again, also when the writes
\* of its last online time fail.
Away(d) == \A s \in Socket : deviceOf[s] = d => s \notin live /\ ~Ghost(s)

LeaverGoesOffline ==
  \A d \in Device : Away(d) ~> (d \notin getOnlineDeviceIds \/ ~Away(d))

=============================================================================
