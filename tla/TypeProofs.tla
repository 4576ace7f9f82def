----------------------------- MODULE TypeProofs -----------------------------
(***************************************************************************)
(* TypeOK is an invariant of ChatServer, for every set of connections,     *)
(* names, rooms and hosts, every capacity and every set of inputs.         *)
(*                                                                         *)
(* TypeOK alone is not inductive: a handler that joins must hold a room,   *)
(* and a command that marks or closes its target must have one.  Frame     *)
(* adds what the program counters say about the locals.                    *)
(***************************************************************************)
EXTENDS ChatServer, QueueFacts

(* A connection without a name yet is in no room.                          *)
Newcomers ==
  \A c \in Conns : pc[c] \in {"off", "tracked", "name"} =>
                     username[c] = None /\ roomOf[c] = NoRoom

(* A handler on its way to a room holds the name of a real one. *)
Destined ==
  \A c \in Conns :
    pc[c] \in {"check", "enqueue", "ask", "wait", "join", "swRecord", "swMove"}
      => want[c] \in Rooms

(* A command that acts on somebody has a target and a host. *)
Aimed ==
  \A p \in Moderators :
    /\ pc[p] \in {"mMark", "mRemove", "mRecord", "mClose"}
         => mod[p].target \in Conns
    /\ pc[p] \in {"mMark", "mRemove", "mRecord", "mClose", "mBlock",
                  "mCollect", "mNext", "mQueue", "mDrop"}
         => mod[p].host \in Hosts

Frame == TypeOK /\ Newcomers /\ Destined /\ Aimed

(* Storing a queue in queue keeps the type of queue. *)
LEMMA SetQueueTyped ==
  ASSUME TypeOK, NEW k \in RoomKeys, NEW q \in Seq(Conns),
         queue' = [queue EXCEPT ![k] = q]
  PROVE  queue' \in [RoomKeys -> Seq(Conns)]
BY Zenon DEF TypeOK

(* JoinQueue appends a connection. *)
LEMMA EnqueueTyped ==
  ASSUME TypeOK, NEW c \in Conns, NEW r \in RoomKeys, Enqueue(c, r)
  PROVE  queue' \in [RoomKeys -> Seq(Conns)]
<1>1. queue[r] \in Seq(Conns)
  BY DEF TypeOK
<1>2. Append(queue[r], c) \in Seq(Conns)
  BY <1>1
<1>3. queue' = [queue EXCEPT ![r] = Append(queue[r], c)]
  BY Zenon DEF Enqueue
<1> QED BY <1>2, <1>3, SetQueueTyped

(* removeFromRoomQueue cuts one entry out. *)
LEMMA RemoveTyped ==
  ASSUME TypeOK, NEW c \in Conns, NEW k \in RoomKeys, RemoveFromRoomQueue(k, c)
  PROVE  queue' \in [RoomKeys -> Seq(Conns)]
<1>1. queue[k] \in Seq(Conns)
  BY DEF TypeOK
<1>2. CASE UNCHANGED queue
  BY <1>2 DEF TypeOK
<1>3. ASSUME NEW i \in DOMAIN queue[k],
             queue' = [queue EXCEPT ![k] =
                         SubSeq(@, 1, i - 1) \o SubSeq(@, i + 1, Len(@))]
      PROVE  queue' \in [RoomKeys -> Seq(Conns)]
  <2>1. /\ SubSeq(queue[k], 1, i - 1) \in Seq(Conns)
        /\ SubSeq(queue[k], i + 1, Len(queue[k])) \in Seq(Conns)
    BY <1>1
  <2> DEFINE q == SubSeq(queue[k], 1, i - 1)
                    \o SubSeq(queue[k], i + 1, Len(queue[k]))
  <2>2. q \in Seq(Conns)
    BY <2>1
  <2>3. queue' = [queue EXCEPT ![k] = q]
    BY <1>3, Zenon
  <2> HIDE DEF q
  <2> QED BY <2>2, <2>3, SetQueueTyped
<1> QED BY <1>2, <1>3, Zenon DEF RemoveFromRoomQueue

(* admitFromRoomQueue cuts a prefix off and admits its last entry. *)
LEMMA AdmitTyped ==
  ASSUME TypeOK, NEW k \in RoomKeys, AdmitFromRoomQueue(k)
  PROVE  queue' \in [RoomKeys -> Seq(Conns)] /\ admit' \subseteq Conns
<1>1. queue[k] \in Seq(Conns) /\ admit \subseteq Conns
  BY DEF TypeOK
<1>2. CASE queue' = [queue EXCEPT ![k] = <<>>] /\ UNCHANGED admit
  <2>1. <<>> \in Seq(Conns)
    OBVIOUS
  <2> QED BY <2>1, <1>1, <1>2, SetQueueTyped
<1>3. ASSUME NEW i \in DOMAIN queue[k],
             queue' = [queue EXCEPT ![k] = SubSeq(@, i + 1, Len(@))],
             admit' = admit \cup {queue[k][i]}
      PROVE  queue' \in [RoomKeys -> Seq(Conns)] /\ admit' \subseteq Conns
  <2> DEFINE q == SubSeq(queue[k], i + 1, Len(queue[k]))
  <2>1. q \in Seq(Conns) /\ queue[k][i] \in Conns
    BY <1>1
  <2>2. queue' = [queue EXCEPT ![k] = q]
    BY <1>3, Zenon
  <2> HIDE DEF q
  <2> QED BY <1>1, <1>3, <2>1, <2>2, SetQueueTyped
<1> QED BY <1>2, <1>3, Zenon DEF AdmitFromRoomQueue

(* Storing a command in mod keeps the type of mod. *)
LEMMA SetCommandTyped ==
  ASSUME TypeOK, NEW p \in Moderators, NEW m \in Command,
         mod' = [mod EXCEPT ![p] = m]
  PROVE  mod' \in [Moderators -> Command]
BY Zenon DEF TypeOK

(* The record that says nothing is in progress is a command. *)
LEMMA NoCommandTyped == NoCommand \in Command
<1> DEFINE o == [k \in RoomKeys |-> 0]
<1>1. o \in [RoomKeys -> Nat] /\ NoRoom \in RoomKeys
  BY DEF RoomKeys
<1> HIDE DEF o
<1>2. [kind |-> "none", target |-> None, name |-> None, host |-> None,
       room |-> NoRoom, rest |-> {}, owed |-> o] \in Command
  BY <1>1 DEF Command
<1> QED BY <1>2 DEF NoCommand, o

(* A slot is owed, or one that is owed is paid. *)
LEMMA OweTyped ==
  ASSUME NEW owed \in [RoomKeys -> Nat], NEW k \in RoomKeys
  PROVE  /\ Owe(owed, k) \in [RoomKeys -> Nat]
         /\ owed[k] > 0 => Pay(owed, k) \in [RoomKeys -> Nat]
BY DEF Owe, Pay

(* Removing a host from all queues leaves queues. *)
LEMMA ByIPTyped ==
  ASSUME TypeOK, NEW h, RemoveFromAllRoomQueuesByIP(h)
  PROVE  queue' \in [RoomKeys -> Seq(Conns)]
<1>1. \A k \in RoomKeys : KeepOthers(queue[k], h) \in Seq(Conns)
  BY KeepOthersType DEF TypeOK
<1> QED BY <1>1 DEF RemoveFromAllRoomQueuesByIP

(* Only connections wait. *)
LEMMA WaitingTyped == ASSUME TypeOK PROVE Waiting \subseteq Conns
<1>1. ASSUME NEW k \in RoomKeys, NEW i \in DOMAIN queue[k]
      PROVE  queue[k][i] \in Conns
  <2>1. queue[k] \in Seq(Conns)
    BY DEF TypeOK
  <2> QED BY <2>1
<1>2. ASSUME NEW k \in RoomKeys
      PROVE  {queue[k][i] : i \in DOMAIN queue[k]} \subseteq Conns
  BY <1>1
<1> QED BY <1>2 DEF Waiting

(* One step of a handler that has not reached its session. *)
LEMMA OnboardingFrame ==
  ASSUME Frame, NEW c \in Conns, OnboardingStep(c) \/ OnboardingInput(c)
  PROVE  Frame'
<1> USE RegistryAssumption DEF Frame, TypeOK, Newcomers, Destined, Aimed,
      Goto, Actors, Moderators, ConnPC, InSession, RoomKeys
<1>1. ASSUME TrackClient(c) PROVE Frame'
  BY <1>1 DEF TrackClient, indexes, lobby, identity, link, blocks, locals
<1>2. ASSUME RejectConnection(c) PROVE Frame'
  BY <1>2 DEF RejectConnection, indexes, lobby, identity, link, process,
     locals
<1>3. ASSUME AcceptConnection(c) PROVE Frame'
  BY <1>3 DEF AcceptConnection, indexes, lobby, identity, link, process,
     locals
<1>4. ASSUME NEW n \in Names, RegisterName(c, n) PROVE Frame'
  BY <1>4 DEF RegisterName, lobby, link, blocks, process, locals,
     RegisterClient
<1>5. ASSUME NameReadError(c) PROVE Frame'
  BY <1>5 DEF NameReadError, indexes, lobby, identity, link, blocks,
     process, locals, ReadFails
<1>6. ASSUME NEW r \in Rooms, ChooseRoom(c, r) PROVE Frame'
  BY <1>6 DEF ChooseRoom, indexes, lobby, identity, link, blocks, process
<1>7. ASSUME RoomReadError(c) PROVE Frame'
  BY <1>7 DEF RoomReadError, indexes, lobby, identity, link, blocks,
     process, locals, ReadFails
<1>8. ASSUME CheckRoomCapacity(c) PROVE Frame'
  BY <1>8 DEF CheckRoomCapacity, indexes, lobby, identity, link, blocks,
     process, locals
<1>9. ASSUME JoinQueue(c) PROVE Frame'
  <2>1. queue' \in [RoomKeys -> Seq(Conns)]
    BY <1>9, EnqueueTyped DEF JoinQueue
  <2>2. rooms' \subseteq RoomKeys
    BY <1>9 DEF JoinQueue, Enqueue
  <2> QED
    BY <1>9, <2>1, <2>2 DEF JoinQueue, identity, link, blocks, process,
                            locals
<1>10. ASSUME AnswerYes(c) PROVE Frame'
  BY <1>10 DEF AnswerYes, indexes, lobby, identity, link, blocks, process,
     locals
<1>11. ASSUME Decline(c) PROVE Frame'
  <2>1. queue' \in [RoomKeys -> Seq(Conns)]
    BY <1>11, RemoveTyped DEF Decline
  <2> QED
    BY <1>11, <2>1 DEF Decline, indexes, identity, link, blocks, process,
       locals, ReadFails
<1>12. ASSUME Admitted(c) PROVE Frame'
  BY <1>12 DEF Admitted, indexes, lobby, identity, link, blocks, process,
     locals
<1>13. ASSUME StopWaiting(c) PROVE Frame'
  <2>1. queue' \in [RoomKeys -> Seq(Conns)]
    BY <1>13, RemoveTyped DEF StopWaiting
  <2> QED
    BY <1>13, <2>1 DEF StopWaiting, indexes, identity, link, blocks, process,
       locals, ReadFails
<1>14. ASSUME Abort(c) PROVE Frame'
  BY <1>14 DEF Abort, lobby, identity, link, blocks, process, locals,
     RemoveClient
<1>15. ASSUME JoinFirstRoom(c) PROVE Frame'
  BY <1>15 DEF JoinFirstRoom, lobby, link, blocks, process, locals,
     JoinRoom
<1>16. ASSUME RecordJoin(c) PROVE Frame'
  BY <1>16 DEF RecordJoin, lobby, identity, link, blocks, process, Forget,
     RecordRoomEvent
<1>17. ASSUME Finish(c) PROVE Frame'
  BY <1>17 DEF Finish, indexes, lobby, identity, blocks, Close, Forget
<1> QED
  BY <1>1, <1>2, <1>3, <1>4, <1>5, <1>6, <1>7, <1>8, <1>9, <1>10, <1>11,
     <1>12, <1>13, <1>14, <1>15, <1>16, <1>17 DEF OnboardingStep,
     OnboardingInput

(* One step of a handler in its session, or of its heartbeat. *)
LEMMA SessionFrame ==
  ASSUME Frame, NEW c \in Conns, SessionStep(c) \/ SessionInput(c)
  PROVE  Frame'
<1> USE RegistryAssumption DEF Frame, TypeOK, Newcomers, Destined, Aimed,
      Goto, Actors, Moderators, ConnPC, InSession, RoomKeys
<1>1. ASSUME HeartbeatDrop(c) PROVE Frame'
  BY <1>1 DEF HeartbeatDrop, indexes, lobby, identity, blocks, process,
     locals, Close, SetDisconnectReason
<1>2. ASSUME ReadLine(c) PROVE Frame'
  BY <1>2 DEF ReadLine, indexes, lobby, identity, link, blocks, process,
     locals
<1>3. ASSUME ReadError(c) PROVE Frame'
  BY <1>3 DEF ReadError, indexes, lobby, identity, blocks, process, locals,
     ReadFails, SetDisconnectReason
<1>4. ASSUME NoEffect(c) PROVE Frame'
  BY <1>4 DEF NoEffect, indexes, lobby, identity, link, blocks, process,
     locals
<1>5. ASSUME Quit(c) PROVE Frame'
  BY <1>5 DEF Quit, indexes, lobby, identity, link, blocks, process, locals
<1>6. ASSUME Chat(c) PROVE Frame'
  BY <1>6 DEF Chat, lobby, identity, link, blocks, process, locals,
     RecordRoomEvent
<1>7. ASSUME NEW n \in Names, Rename(c, n) PROVE Frame'
  BY <1>7 DEF Rename, lobby, link, blocks, process, locals, RenameClient
<1>8. ASSUME RecordRename(c) PROVE Frame'
  BY <1>8 DEF RecordRename, lobby, identity, link, blocks, process, locals,
     RecordRoomEvent
<1>9. ASSUME NEW r \in Rooms, Switch(c, r) PROVE Frame'
  BY <1>9 DEF Switch, indexes, lobby, identity, link, blocks, process
<1>10. ASSUME NEW r \in Rooms, Create(c, r) PROVE Frame'
  BY <1>10 DEF Create, indexes, lobby, identity, link, blocks, process
<1>11. ASSUME SwitchRecord(c) PROVE Frame'
  BY <1>11 DEF SwitchRecord, lobby, identity, link, blocks, process,
     locals, RecordRoomEvent
<1>12. ASSUME SwitchMove(c) PROVE Frame'
  BY <1>12 DEF SwitchMove, lobby, link, blocks, process, JoinRoom
<1>13. ASSUME Cleanup(c) PROVE Frame'
  BY <1>13 DEF Cleanup, indexes, lobby, identity, link, blocks, process
<1>14. ASSUME CleanupRemove(c) PROVE Frame'
  BY <1>14 DEF CleanupRemove, lobby, identity, link, blocks, process,
     locals, RemoveClient
<1>15. ASSUME CleanupRecord(c) PROVE Frame'
  BY <1>15 DEF CleanupRecord, lobby, identity, link, blocks, process,
     locals, RecordRoomEvent
<1>16. ASSUME AdmitCheck(c, "swCheck", "swAdmit", "swDelete") PROVE Frame'
  BY <1>16 DEF AdmitCheck, indexes, lobby, identity, link, blocks, process,
     locals
<1>17. ASSUME AdmitCheck(c, "clCheck", "clAdmit", "clDelete") PROVE Frame'
  BY <1>17 DEF AdmitCheck, indexes, lobby, identity, link, blocks, process,
     locals
<1>18. ASSUME AdmitNext(c, "swAdmit", "swDelete") PROVE Frame'
  <2>1. queue' \in [RoomKeys -> Seq(Conns)] /\ admit' \subseteq Conns
    BY <1>18, AdmitTyped DEF AdmitNext
  <2> QED
    BY <1>18, <2>1 DEF AdmitNext, indexes, identity, link, blocks, process,
                locals
<1>19. ASSUME AdmitNext(c, "clAdmit", "clDelete") PROVE Frame'
  <2>1. queue' \in [RoomKeys -> Seq(Conns)] /\ admit' \subseteq Conns
    BY <1>19, AdmitTyped DEF AdmitNext
  <2> QED
    BY <1>19, <2>1 DEF AdmitNext, indexes, identity, link, blocks, process,
                locals
<1>20. ASSUME DeleteRoom(c, "swDelete", "joined") PROVE Frame'
  BY <1>20 DEF DeleteRoom, lobby, identity, link, blocks, process, locals,
     DeleteRoomIfEmpty
<1>21. ASSUME DeleteRoom(c, "clDelete", "closing") PROVE Frame'
  BY <1>21 DEF DeleteRoom, lobby, identity, link, blocks, process, locals,
     DeleteRoomIfEmpty
<1> QED
  BY <1>1, <1>2, <1>3, <1>4, <1>5, <1>6, <1>7, <1>8, <1>9, <1>10, <1>11,
     <1>12, <1>13, <1>14, <1>15, <1>16, <1>17, <1>18, <1>19, <1>20, <1>21
     DEF SessionStep, SessionInput, LineStep, SwitchStep, CleanupStep

(* One step of a moderation command. *)
LEMMA ModerationFrame ==
  ASSUME Frame, NEW p \in Moderators, ModerationStep(p) \/ ModerationInput(p)
  PROVE  Frame'
<1> USE RegistryAssumption DEF Frame, TypeOK, Newcomers, Destined, Aimed,
      Goto, Actors, Moderators, ConnPC, InSession, RoomKeys
<1>1. ASSUME NEW n \in Names, NEW kind \in {"kick", "ban"}, LookUp(p, kind, n)
      PROVE  Frame'
  <2> DEFINE m == [NoCommand EXCEPT !.kind = kind, !.target = clients[n],
                     !.name = n, !.host = HostOf[clients[n]]]
  <2>1. clients[n] \in Conns /\ HostOf[clients[n]] \in Hosts
    BY <1>1 DEF LookUp
  <2>2. m \in Command /\ m.target \in Conns /\ m.host \in Hosts
    BY <2>1, NoCommandTyped DEF Command
  <2>3. mod' = [mod EXCEPT ![p] = m]
    BY <1>1 DEF LookUp
  <2> HIDE DEF m
  <2>4. mod' \in [Moderators -> Command]
    BY <2>2, <2>3, SetCommandTyped
  <2> QED
    BY <1>1, <2>2, <2>3, <2>4 DEF LookUp, Ready, Step, indexes, lobby,
                                  identity, link, blocks, process
<1>2. ASSUME NotInYourRoom(p) PROVE Frame'
  <2>1. mod' = [mod EXCEPT ![p] = NoCommand]
    BY <1>2 DEF NotInYourRoom, EndCommand
  <2>2. mod' \in [Moderators -> Command]
    BY <2>1, NoCommandTyped, SetCommandTyped
  <2> QED
    BY <1>2, <2>1, <2>2 DEF NotInYourRoom, EndCommand, indexes, lobby,
                            identity, link, blocks, process
<1>3. ASSUME Mark(p) PROVE Frame'
  <2> DEFINE t == mod[p].target
             m == [mod[p] EXCEPT !.room = roomOf[t],
                                 !.owed = Owe(mod[p].owed, roomOf[t])]
  <2>1. mod[p] \in Command /\ t \in Conns /\ roomOf[t] \in RoomKeys
        /\ mod[p].host \in Hosts
    BY <1>3 DEF Mark
  <2>2. mod[p].owed \in [RoomKeys -> Nat]
    BY <2>1 DEF Command
  <2>3. Owe(mod[p].owed, roomOf[t]) \in [RoomKeys -> Nat]
    BY <2>1, <2>2, OweTyped
  <2>4. m \in Command /\ m.target = t /\ m.host = mod[p].host
    BY <2>1, <2>3 DEF Command
  <2>5. mod' = [mod EXCEPT ![p] = m]
    BY <1>3 DEF Mark
  <2> HIDE DEF m
  <2>6. mod' \in [Moderators -> Command]
    BY <2>4, <2>5, SetCommandTyped
  <2> QED
    BY <1>3, <2>1, <2>4, <2>5, <2>6
       DEF Mark, ForceDisconnectReason, indexes, lobby, identity, blocks,
           process
<1>4. ASSUME RemoveTarget(p) PROVE Frame'
  BY <1>4 DEF RemoveTarget, RemoveClient, lobby, identity, link, blocks,
              process, locals
<1>5. ASSUME RecordModeration(p) PROVE Frame'
  <2>1. mod[p].room \in RoomKeys
    BY DEF Command
  <2>2. rooms' \subseteq RoomKeys
    BY <1>5, <2>1 DEF RecordModeration, RecordRoomEvent
  <2> QED
    BY <1>5, <2>2 DEF RecordModeration, lobby, identity, link, blocks,
                      process, locals
<1>6. ASSUME CloseTarget(p) PROVE Frame'
  BY <1>6 DEF CloseTarget, Close, indexes, lobby, identity, blocks, process,
              locals
<1>7. ASSUME BlockHost(p) PROVE Frame'
  <2>1. mod[p].host \in Hosts
    BY <1>7 DEF BlockHost
  <2>2. kickedIPs' \subseteq Hosts /\ bannedIPs' \subseteq Hosts
    BY <1>7, <2>1 DEF BlockHost
  <2>3. ASSUME NEW to \in {"mCheck", "mCollect"}, Step(p, to), UNCHANGED mod
        PROVE  Frame'
    <3>1. pc[p] = "mBlock" /\ UNCHANGED <<indexes, lobby, identity, link,
                                         process, want>>
      BY <1>7 DEF BlockHost
    <3> QED
      BY <2>1, <2>2, <2>3, <3>1 DEF Step, indexes, lobby, identity, link,
                                    process
  <2>4. CASE EndCommand(p)
    <3>1. mod' = [mod EXCEPT ![p] = NoCommand]
      BY <2>4 DEF EndCommand
    <3>2. mod' \in [Moderators -> Command]
      BY <3>1, NoCommandTyped, SetCommandTyped
    <3> QED
      BY <1>7, <2>2, <2>4, <3>1, <3>2
         DEF BlockHost, EndCommand, indexes, lobby, identity, link, process
  <2> QED BY <1>7, <2>3, <2>4 DEF BlockHost
<1>8. ASSUME CollectByIP(p) PROVE Frame'
  <2> DEFINE R == {c \in Conns : /\ \E n \in Names : clients[n] = c
                                 /\ HostOf[c] = mod[p].host
                                 /\ p # Operator => username[c] # username[p]}
             m == [mod[p] EXCEPT !.rest = R]
  <2>1. mod[p] \in Command /\ mod[p].host \in Hosts
    BY <1>8 DEF CollectByIP
  <2>2. m \in Command /\ m.host = mod[p].host
    <3>1. R \subseteq Conns
      OBVIOUS
    <3> HIDE DEF R
    <3> QED BY <2>1, <3>1 DEF Command
  <2>3. mod' = [mod EXCEPT ![p] = m]
    BY <1>8, Zenon DEF CollectByIP
  <2> HIDE DEF m
  <2>4. mod' \in [Moderators -> Command]
    BY <2>2, <2>3, SetCommandTyped
  <2> QED
    BY <1>8, <2>1, <2>2, <2>3, <2>4
       DEF CollectByIP, indexes, lobby, identity, link, blocks, process
<1>9. ASSUME NEW c \in Conns, MarkCollateral(p, c) PROVE Frame'
  <2> DEFINE m == [mod[p] EXCEPT
               !.kind = "collateral", !.target = c, !.name = username[c],
               !.room = roomOf[c], !.rest = @ \ {c},
               !.owed = Owe(mod[p].owed, roomOf[c])]
  <2>1. mod[p] \in Command /\ mod[p].host \in Hosts /\ roomOf[c] \in RoomKeys
        /\ username[c] \in Names \cup {None}
    BY <1>9 DEF MarkCollateral
  <2>2. mod[p].owed \in [RoomKeys -> Nat]
    BY <2>1 DEF Command
  <2>3. Owe(mod[p].owed, roomOf[c]) \in [RoomKeys -> Nat]
    BY <2>1, <2>2, OweTyped
  <2>4. m \in Command /\ m.target = c /\ m.host = mod[p].host
    BY <2>1, <2>3 DEF Command
  <2>5. mod' = [mod EXCEPT ![p] = m]
    BY <1>9 DEF MarkCollateral
  <2> HIDE DEF m
  <2>6. mod' \in [Moderators -> Command]
    BY <2>4, <2>5, SetCommandTyped
  <2> QED
    BY <1>9, <2>1, <2>4, <2>5, <2>6
       DEF MarkCollateral, ForceDisconnectReason, indexes, lobby, identity,
           blocks, process
<1>10. ASSUME NoMoreCollateral(p) PROVE Frame'
  <2> DEFINE m == [mod[p] EXCEPT !.kind = "ban", !.room = NoRoom]
  <2>1. mod[p] \in Command /\ mod[p].host \in Hosts
    BY <1>10 DEF NoMoreCollateral
  <2>2. m \in Command /\ m.host = mod[p].host
    BY <2>1 DEF Command
  <2>3. mod' = [mod EXCEPT ![p] = m]
    BY <1>10, Zenon DEF NoMoreCollateral
  <2> HIDE DEF m
  <2>4. mod' \in [Moderators -> Command]
    BY <2>2, <2>3, SetCommandTyped
  <2> QED
    BY <1>10, <2>1, <2>2, <2>3, <2>4
       DEF NoMoreCollateral, indexes, lobby, identity, link, blocks, process
<1>11. ASSUME NEW h \in Hosts, NEW kind \in {"queuekick", "queueban"},
              LookUpQueued(p, kind, h)
       PROVE  Frame'
  <2> DEFINE m == [NoCommand EXCEPT !.kind = kind, !.host = h]
  <2>1. m \in Command /\ m.host = h
    BY NoCommandTyped DEF Command
  <2>2. mod' = [mod EXCEPT ![p] = m]
    BY <1>11 DEF LookUpQueued
  <2> HIDE DEF m
  <2>3. mod' \in [Moderators -> Command]
    BY <2>1, <2>2, SetCommandTyped
  <2> QED
    BY <1>11, <2>1, <2>2, <2>3
       DEF LookUpQueued, Ready, Step, indexes, lobby, identity, link, blocks,
           process
<1>12. ASSUME RemoveQueued(p) PROVE Frame'
  <2>1. queue' \in [RoomKeys -> Seq(Conns)]
    BY <1>12, ByIPTyped DEF RemoveQueued
  <2>2. mod[p] \in Command /\ mod[p].host \in Hosts
    BY <1>12 DEF RemoveQueued
  <2> DEFINE R == {c \in Waiting : HostOf[c] = mod[p].host}
             m == [mod[p] EXCEPT !.rest = R]
  <2>3. R \subseteq Conns
    BY WaitingTyped
  <2>4. m \in Command /\ m.host = mod[p].host
    BY <2>2, <2>3 DEF Command
  <2>5. CASE Step(p, "mDrop") /\ mod' = [mod EXCEPT ![p].rest = R]
    <3>1. mod' = [mod EXCEPT ![p] = m]
      BY <2>5, Zenon
    <3> HIDE DEF m, R
    <3>2. mod' \in [Moderators -> Command]
      BY <2>4, <3>1, SetCommandTyped
    <3> QED
      BY <1>12, <2>1, <2>2, <2>4, <2>5, <3>1, <3>2
         DEF RemoveQueued, Step, indexes, identity, link, blocks, process
  <2>6. CASE EndCommand(p)
    <3>1. mod' = [mod EXCEPT ![p] = NoCommand]
      BY <2>6 DEF EndCommand
    <3>2. mod' \in [Moderators -> Command]
      BY <3>1, NoCommandTyped, SetCommandTyped
    <3> QED
      BY <1>12, <2>1, <2>6, <3>1, <3>2
         DEF RemoveQueued, EndCommand, indexes, identity, link, blocks,
             process
  <2> QED BY <1>12, <2>5, <2>6, Zenon DEF RemoveQueued
<1>13. ASSUME DropQueued(p) PROVE Frame'
  <2> DEFINE m == [mod[p] EXCEPT !.rest = {}]
  <2>1. mod[p] \in Command /\ mod[p].host \in Hosts
    BY <1>13 DEF DropQueued
  <2>2. m \in Command /\ m.host = mod[p].host
    BY <2>1 DEF Command
  <2>3. mod' = [mod EXCEPT ![p] = m]
    BY <1>13, Zenon DEF DropQueued
  <2> HIDE DEF m
  <2>4. mod' \in [Moderators -> Command]
    BY <2>2, <2>3, SetCommandTyped
  <2> QED
    BY <1>13, <2>1, <2>2, <2>3, <2>4
       DEF DropQueued, Close, indexes, lobby, identity, blocks, process
<1>14. ASSUME NEW k \in RoomKeys, AdmitOwed(p, k) PROVE Frame'
  <2> DEFINE m == [mod[p] EXCEPT !.room = k, !.owed = Pay(mod[p].owed, k)]
  <2>1. mod[p] \in Command
    OBVIOUS
  <2>2. mod[p].owed \in [RoomKeys -> Nat] /\ mod[p].owed[k] > 0
    BY <1>14, <2>1 DEF AdmitOwed, Debts, Command
  <2>3. Pay(mod[p].owed, k) \in [RoomKeys -> Nat]
    BY <2>2, OweTyped
  <2>4. m \in Command
    BY <2>1, <2>3 DEF Command
  <2>5. mod' = [mod EXCEPT ![p] = m]
    BY <1>14 DEF AdmitOwed
  <2> HIDE DEF m
  <2>6. mod' \in [Moderators -> Command]
    BY <2>4, <2>5, SetCommandTyped
  <2> QED
    BY <1>14, <2>5, <2>6
       DEF AdmitOwed, Step, indexes, lobby, identity, link, blocks, process
<1>15. ASSUME AdmitForSlot(p) PROVE Frame'
  <2>1. mod[p].room \in RoomKeys
    BY DEF Command
  <2>2. queue' \in [RoomKeys -> Seq(Conns)] /\ admit' \subseteq Conns
    BY <1>15, <2>1, AdmitTyped DEF AdmitForSlot
  <2> QED
    BY <1>15, <2>2 DEF AdmitForSlot, indexes, identity, link, blocks,
                       process, locals
<1>16. ASSUME NothingOwed(p) PROVE Frame'
  <2>1. mod' = [mod EXCEPT ![p] = NoCommand]
    BY <1>16 DEF NothingOwed, EndCommand
  <2>2. mod' \in [Moderators -> Command]
    BY <2>1, NoCommandTyped, SetCommandTyped
  <2> QED
    BY <1>16, <2>1, <2>2 DEF NothingOwed, EndCommand, indexes, lobby,
                             identity, link, blocks, process
<1>17. ASSUME NEW n \in Names, Annotate(p, n) PROVE Frame'
  <2> DEFINE m == [NoCommand EXCEPT !.kind = "note",
                                    !.room = roomOf[clients[n]]]
  <2>1. roomOf[clients[n]] \in RoomKeys
    BY <1>17 DEF Annotate
  <2>2. m \in Command
    BY <2>1, NoCommandTyped DEF Command
  <2>3. mod' = [mod EXCEPT ![p] = m]
    BY <1>17 DEF Annotate
  <2> HIDE DEF m
  <2>4. mod' \in [Moderators -> Command]
    BY <2>2, <2>3, SetCommandTyped
  <2> QED
    BY <1>17, <2>3, <2>4 DEF Annotate, Ready, Step, indexes, lobby, identity,
                             link, blocks, process
<1>18. ASSUME RecordNote(p) PROVE Frame'
  <2>1. mod[p].room \in RoomKeys
    BY DEF Command
  <2>2. mod' = [mod EXCEPT ![p] = NoCommand]
    BY <1>18 DEF RecordNote, EndCommand
  <2>3. mod' \in [Moderators -> Command]
    BY <2>2, NoCommandTyped, SetCommandTyped
  <2> QED
    BY <1>18, <2>1, <2>2, <2>3
       DEF RecordNote, EndCommand, RecordRoomEvent, lobby, identity, link,
           blocks, process
<1>19. ASSUME Announce(p) PROVE Frame'
  <2> DEFINE o == [k \in RoomKeys |-> IF k \in rooms THEN 1 ELSE 0]
             m == [NoCommand EXCEPT !.kind = "announce", !.owed = o]
  <2>1. o \in [RoomKeys -> Nat]
    OBVIOUS
  <2> HIDE DEF o
  <2>2. m \in Command
    BY <2>1, NoCommandTyped DEF Command
  <2>3. mod' = [mod EXCEPT ![p] = m]
    BY <1>19 DEF Announce, o
  <2> HIDE DEF m
  <2>4. mod' \in [Moderators -> Command]
    BY <2>2, <2>3, SetCommandTyped
  <2> QED
    BY <1>19, <2>3, <2>4 DEF Announce, Ready, Step, indexes, lobby, identity,
                             link, blocks, process
<1>20. ASSUME NEW k \in RoomKeys, RecordAnnouncement(p, k) PROVE Frame'
  <2>1. rooms' \subseteq RoomKeys
    BY <1>20 DEF RecordAnnouncement, RecordRoomEvent
  <2>2. CASE EndCommand(p)
    <3>1. mod' = [mod EXCEPT ![p] = NoCommand]
      BY <2>2 DEF EndCommand
    <3>2. mod' \in [Moderators -> Command]
      BY <3>1, NoCommandTyped, SetCommandTyped
    <3> QED
      BY <1>20, <2>1, <2>2, <3>1, <3>2
         DEF RecordAnnouncement, EndCommand, lobby, identity, link, blocks,
             process
  <2>3. CASE UNCHANGED pc /\ mod' = [mod EXCEPT ![p].owed = Pay(@, k)]
    <3> DEFINE m == [mod[p] EXCEPT !.owed = Pay(mod[p].owed, k)]
    <3>1. mod[p] \in Command
      OBVIOUS
    <3>2. mod[p].owed \in [RoomKeys -> Nat] /\ mod[p].owed[k] > 0
      BY <1>20, <3>1 DEF RecordAnnouncement, Debts, Command
    <3>3. Pay(mod[p].owed, k) \in [RoomKeys -> Nat]
      BY <3>2, OweTyped
    <3>4. m \in Command
      BY <3>1, <3>3 DEF Command
    <3>5. mod' = [mod EXCEPT ![p] = m]
      BY <2>3, Zenon
    <3> HIDE DEF m
    <3>6. mod' \in [Moderators -> Command]
      BY <3>4, <3>5, SetCommandTyped
    <3> QED
      BY <1>20, <2>1, <2>3, <3>5, <3>6
         DEF RecordAnnouncement, lobby, identity, link, blocks, process
  <2> QED BY <1>20, <2>2, <2>3, Zenon DEF RecordAnnouncement
<1> QED
  BY <1>1, <1>2, <1>3, <1>4, <1>5, <1>6, <1>7, <1>8, <1>9, <1>10, <1>11,
     <1>12, <1>13, <1>14, <1>15, <1>16, <1>17, <1>18, <1>19, <1>20
     DEF ModerationStep, ModerationInput

(* One step of Shutdown, or a step that changes nothing. *)
LEMMA ShutdownFrame ==
  ASSUME Frame, BeginShutdown \/ ForceClose \/ UNCHANGED vars
  PROVE  Frame'
<1> USE DEF Frame, TypeOK, Newcomers, Destined, Aimed
<1>1. ASSUME BeginShutdown PROVE Frame'
  BY <1>1 DEF BeginShutdown, indexes, lobby, identity, link, blocks, locals
<1>2. ASSUME ForceClose PROVE Frame'
  BY <1>2 DEF ForceClose, Close, indexes, lobby, identity, blocks, locals
<1>3. ASSUME UNCHANGED vars PROVE Frame'
  BY <1>3 DEF vars
<1> QED BY <1>1, <1>2, <1>3

(* Where everything starts. *)
LEMMA InitFrame ==
  ASSUME RegistryInit PROVE Frame
<1>1. NoCommand \in Command
  BY RegistryAssumption, NoCommandTyped
<1>2. <<>> \in Seq(Conns)
  OBVIOUS
<1> QED
  BY <1>1, <1>2, RegistryAssumption
     DEF RegistryInit, RegistryAssumption, Frame, TypeOK, Newcomers, Destined,
         Aimed, Actors, Moderators, RoomKeys, ConnPC

(* Every step of the server keeps the frame. *)
LEMMA NextFrame ==
  ASSUME Frame, [Next]_vars PROVE Frame'
BY OnboardingFrame, SessionFrame, ModerationFrame, ShutdownFrame
   DEF Next, Idle

(* TypeOK is an invariant: no handler ever stores a connection, name or    *)
(* room of the wrong kind, and no command is left without a target.        *)
THEOREM TypeCorrect == Spec => []TypeOK
<1>1. RegistryInit => Frame
  BY InitFrame
<1>2. Frame /\ [Next]_vars => Frame'
  BY NextFrame
<1>3. Frame => TypeOK
  BY DEF Frame
<1> QED BY <1>1, <1>2, <1>3, PTL DEF Spec

=============================================================================
