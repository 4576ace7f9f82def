----------------------------- MODULE IndexProofs -----------------------------
(***************************************************************************)
(* The maps of the server and the fields of its clients agree, whatever    *)
(* users, moderators and Shutdown do at the same time.                     *)
(*                                                                         *)
(* One lemma for each critical section that touches the maps; then every   *)
(* action is one of these sections or leaves the maps alone.  The three    *)
(* invariants need each other: a rename writes no room map when the room   *)
(* does not exist, which is right only because nobody can be in it.        *)
(*                                                                         *)
(* The later sections are about servers on which some inputs do not occur. *)
(* Each names them in a constant condition (Peaceful, Staying,             *)
(* Unannounced): with them the property fails, as the code stands.         *)
(***************************************************************************)
EXTENDS TypeProofs

Index == RegistryConsistent /\ MembershipConsistent /\ RoomsExist

(* The variables the index invariants speak of. *)
indexed == <<clients, members, rooms, queue, username, roomOf>>

(* A step that touches none of them. *)
LEMMA UnchangedIndex ==
  ASSUME Index, UNCHANGED indexed
  PROVE  Index'
BY DEF Index, indexed, RegistryConsistent, MembershipConsistent, RoomsExist,
       Occupants

(* Writing an event can only add a room. *)
LEMMA RecordIndex ==
  ASSUME Index, NEW k, RecordRoomEvent(k),
         UNCHANGED <<clients, members, queue, username, roomOf>>
  PROVE  Index'
BY DEF Index, RecordRoomEvent, RegistryConsistent, MembershipConsistent,
       RoomsExist, Occupants

(* Only an empty room is deleted, and never the default one. *)
LEMMA DeleteIndex ==
  ASSUME Index, NEW k \in RoomKeys, DeleteRoomIfEmpty(k),
         UNCHANGED <<clients, members, queue, username, roomOf>>
  PROVE  Index'
BY DEF Index, DeleteRoomIfEmpty, RegistryConsistent, MembershipConsistent,
       RoomsExist, Occupants

(* Who queues makes the room exist. *)
LEMMA EnqueueIndex ==
  ASSUME Frame, Index, NEW c \in Conns, NEW r \in Rooms, Enqueue(c, r),
         UNCHANGED <<clients, members, username, roomOf>>
  PROVE  Index'
<1>1. \A k \in RoomKeys : k # r => queue'[k] = queue[k]
  BY DEF Enqueue, Frame, TypeOK
<1>2. r # NoRoom /\ rooms' = rooms \cup {r}
  BY RegistryAssumption DEF Enqueue
<1> QED
  BY <1>1, <1>2 DEF Index, RegistryConsistent, MembershipConsistent,
                    RoomsExist, Occupants

(* A queue that only loses entries. *)
Shrinks == \A k \in RoomKeys : queue[k] = <<>> => queue'[k] = <<>>

(* Shortening a queue. *)
LEMMA ShrinkIndex ==
  ASSUME Index, Shrinks, UNCHANGED <<clients, members, rooms, username, roomOf>>
  PROVE  Index'
BY DEF Index, Shrinks, RegistryConsistent, MembershipConsistent, RoomsExist,
       Occupants

(* removeFromRoomQueue only takes out. *)
LEMMA RemoveShrinks ==
  ASSUME Frame, NEW c, NEW k \in RoomKeys, RemoveFromRoomQueue(k, c)
  PROVE  Shrinks
<1>1. queue[k] = <<>> => DOMAIN queue[k] = {}
  OBVIOUS
<1>2. CASE UNCHANGED queue
  BY <1>2 DEF Shrinks
<1>3. CASE DOMAIN queue[k] # {} /\ \E q : queue' = [queue EXCEPT ![k] = q]
  BY <1>1, <1>3 DEF Shrinks, Frame, TypeOK
<1>4. (DOMAIN queue[k] # {} /\ \E q : queue' = [queue EXCEPT ![k] = q])
        \/ UNCHANGED queue
  BY Zenon DEF RemoveFromRoomQueue
<1> QED BY <1>2, <1>3, <1>4

(* admitFromRoomQueue only takes out. *)
LEMMA AdmitShrinks ==
  ASSUME Frame, NEW k \in RoomKeys, AdmitFromRoomQueue(k)
  PROVE  Shrinks
<1>1. queue[k] = <<>> => DOMAIN queue[k] = {}
  OBVIOUS
<1>2. CASE queue' = [queue EXCEPT ![k] = <<>>]
  BY <1>2 DEF Shrinks, Frame, TypeOK
<1>3. CASE DOMAIN queue[k] # {} /\ \E q : queue' = [queue EXCEPT ![k] = q]
  BY <1>1, <1>3 DEF Shrinks, Frame, TypeOK
<1>4. (DOMAIN queue[k] # {} /\ \E q : queue' = [queue EXCEPT ![k] = q])
        \/ queue' = [queue EXCEPT ![k] = <<>>]
  BY Zenon DEF AdmitFromRoomQueue
<1> QED BY <1>2, <1>3, <1>4

(* RemoveFromAllRoomQueuesByIP only takes out. *)
LEMMA ByIPShrinks ==
  ASSUME Frame, NEW h, RemoveFromAllRoomQueuesByIP(h)
  PROVE  Shrinks
BY KeepOthersType DEF RemoveFromAllRoomQueuesByIP, Shrinks, Frame, TypeOK

(* What a room lists under a name is a connection, or nothing. *)
LEMMA MemberTyped ==
  ASSUME Frame, NEW k \in RoomKeys, NEW n \in Names
  PROVE  members[k][n] \in Conns \cup {None}
<1>1. members[k] \in [Names -> Conns \cup {None}]
  BY DEF Frame, TypeOK
<1> QED BY <1>1

(* A new name: the client was listed nowhere before. *)
LEMMA RegisterIndex ==
  ASSUME Frame, Index, NEW c \in Conns, NEW n \in Names, username[c] = None,
         RegisterClient(c, n), UNCHANGED <<members, rooms, queue, roomOf>>
  PROVE  Index'
<1>1. username' = [username EXCEPT ![c] = n] /\ None \notin Names
  BY RegistryAssumption DEF RegisterClient, RegistryAssumption
<1>2. \A j \in Names : clients'[j] = IF j = n THEN c ELSE clients[j]
  BY DEF RegisterClient, Frame, TypeOK
<1>3. \A d \in Conns : d # c => username'[d] = username[d]
  BY <1>1 DEF Frame, TypeOK
<1>4. username'[c] = n
  BY <1>1 DEF Frame, TypeOK
<1>5. RegistryConsistent'
  <2>1. ASSUME NEW j \in Names, clients'[j] # None
        PROVE  username'[clients'[j]] = j
    <3>1. CASE j = n
      BY <3>1, <1>2, <1>4
    <3>2. CASE j # n
      <4>1. clients'[j] = clients[j] /\ clients[j] \in Conns
        BY <2>1, <3>2, <1>2 DEF Frame, TypeOK
      <4>2. username[clients[j]] = j
        BY <2>1, <4>1 DEF Index, RegistryConsistent
      <4> QED BY <4>1, <4>2, <1>1, <1>3
    <3> QED BY <3>1, <3>2
  <2> QED BY <2>1 DEF RegistryConsistent
<1>6. MembershipConsistent'
  <2>1. ASSUME NEW k \in RoomKeys, NEW j \in Names, members[k][j] # None
        PROVE  username'[members[k][j]] = j /\ roomOf[members[k][j]] = k
    <3>1. members[k][j] \in Conns
      BY <2>1, MemberTyped
    <3>2. username[members[k][j]] = j /\ roomOf[members[k][j]] = k
      BY <2>1 DEF Index, MembershipConsistent
    <3> QED BY <3>1, <3>2, <1>1, <1>3
  <2> QED BY <2>1 DEF MembershipConsistent
<1>7. RoomsExist'
  BY DEF Index, RoomsExist, Occupants
<1> QED BY <1>5, <1>6, <1>7 DEF Index

(* RemoveClient clears one name, whoever holds it, in both maps. *)
LEMMA RemoveIndex ==
  ASSUME Frame, Index, NEW n \in Names \cup {None}, RemoveClient(n),
         UNCHANGED <<rooms, queue, username, roomOf>>
  PROVE  Index'
<1>1. \A j \in Names : clients'[j] # None => clients'[j] = clients[j]
  BY DEF Frame, TypeOK, RemoveClient
<1>2. \A k \in RoomKeys, j \in Names :
        members'[k][j] # None => members'[k][j] = members[k][j]
  BY DEF Frame, TypeOK, RemoveClient
<1>3. RegistryConsistent'
  BY <1>1 DEF Index, RegistryConsistent
<1>4. MembershipConsistent'
  BY <1>2 DEF Index, MembershipConsistent
<1>5. RoomsExist'
  BY <1>2 DEF Index, RoomsExist, Occupants
<1> QED BY <1>3, <1>4, <1>5 DEF Index

(* Both maps and the field change in one critical section.  A client in a
   room that does not exist is in no room's map, so none is left behind. *)
LEMMA RenameIndex ==
  ASSUME Frame, Index, NEW c \in Conns, NEW new \in Names, RenameClient(c, new),
         UNCHANGED <<rooms, queue, roomOf>>
  PROVE  Index'
<1> DEFINE old == username[c]
           k == roomOf[c]
<1>1. username' = [username EXCEPT ![c] = new]
  BY DEF RenameClient
<1>2. \A j \in Names : clients'[j] = IF j = new THEN c
                                     ELSE IF j = old THEN None ELSE clients[j]
  BY DEF RenameClient, Frame, TypeOK
<1>3. \A l \in RoomKeys, j \in Names :
        members'[l][j] = IF l = k /\ k \in rooms \ {NoRoom}
                           THEN IF j = new THEN c
                                ELSE IF j = old THEN None ELSE members[l][j]
                           ELSE members[l][j]
  <2>1. CASE k \in rooms \ {NoRoom}
    <3>1. members' = [members EXCEPT ![k][old] = None, ![k][new] = c]
      BY <2>1 DEF RenameClient
    <3> QED BY <2>1, <3>1 DEF Frame, TypeOK
  <2>2. CASE k \notin rooms \ {NoRoom}
    BY <2>2 DEF RenameClient
  <2> QED BY <2>1, <2>2
<1>4. RegistryConsistent'
  <2>1. ASSUME NEW j \in Names, clients'[j] # None
        PROVE  username'[clients'[j]] = j
    <3>1. clients[j] # None => clients[j] \in Conns /\ username[clients[j]] = j
      BY DEF Index, RegistryConsistent, Frame, TypeOK
    <3>2. \A d \in Conns : username'[d] = IF d = c THEN new ELSE username[d]
      BY <1>1 DEF Frame, TypeOK
    <3>3. CASE j = new
      BY <1>2, <3>2, <3>3
    <3>4. CASE j # new
      <4>1. j # old /\ clients'[j] = clients[j]
        BY <1>2, <2>1, <3>4
      <4> QED BY <2>1, <3>1, <3>2, <4>1
    <3> QED BY <3>3, <3>4
  <2> QED BY <2>1 DEF RegistryConsistent
<1>5. MembershipConsistent'
  <2>1. ASSUME NEW l \in RoomKeys, NEW j \in Names, members'[l][j] # None
        PROVE  username'[members'[l][j]] = j /\ roomOf[members'[l][j]] = l
    <3>1. CASE l = k /\ k \in rooms \ {NoRoom} /\ j = new
      <4>1. members'[l][j] = c
        BY <3>1, <1>3
      <4>2. username'[c] = new
        BY <1>1 DEF Frame, TypeOK
      <4> QED BY <3>1, <4>1, <4>2
    <3>2. CASE ~ (l = k /\ k \in rooms \ {NoRoom} /\ j = new)
      <4>1. /\ members'[l][j] = members[l][j]
            /\ (l = k /\ k \in rooms \ {NoRoom}) => j # old
        BY <2>1, <3>2, <1>3
      <4>2. members[l][j] \in Conns /\ members[l][j] # None
        BY <2>1, <4>1, MemberTyped
      <4>3. username[members[l][j]] = j /\ roomOf[members[l][j]] = l
            /\ l \in rooms \ {NoRoom}
        BY <4>2 DEF Index, MembershipConsistent, RoomsExist, Occupants
      <4>4. members[l][j] # c
        BY <4>1, <4>3
      <4> QED BY <4>1, <4>2, <4>3, <4>4, <1>1 DEF Frame, TypeOK
    <3> QED BY <3>1, <3>2
  <2> QED BY <2>1 DEF MembershipConsistent
<1>6. RoomsExist'
  BY <1>3 DEF Index, RoomsExist, Occupants
<1> QED BY <1>4, <1>5, <1>6 DEF Index

(* The old room's entry is cleared as the new one is made. *)
LEMMA JoinIndex ==
  ASSUME Frame, Index, NEW c \in Conns, NEW r \in Rooms, JoinRoom(c, r),
         UNCHANGED <<clients, queue, username>>
  PROVE  Index'
<1> DEFINE k == roomOf[c]
           n == username[c]
<1>1. roomOf' = [roomOf EXCEPT ![c] = r] /\ rooms' = rooms \cup {r}
      /\ r # NoRoom /\ r \in RoomKeys
  BY RegistryAssumption DEF JoinRoom, RoomKeys
<1>2. \A l \in RoomKeys, j \in Names :
        members'[l][j] = IF j = n /\ l = r THEN c
                         ELSE IF j = n /\ l = k THEN None ELSE members[l][j]
  BY DEF JoinRoom, Frame, TypeOK
<1>3. RegistryConsistent'
  BY DEF Index, RegistryConsistent
<1>4. MembershipConsistent'
  <2>1. ASSUME NEW l \in RoomKeys, NEW j \in Names, members'[l][j] # None
        PROVE  username[members'[l][j]] = j /\ roomOf'[members'[l][j]] = l
    <3>1. CASE j = n /\ l = r
      <4>1. members'[l][j] = c
        BY <3>1, <1>2
      <4>2. roomOf'[c] = r
        BY <1>1 DEF Frame, TypeOK
      <4> QED BY <3>1, <4>1, <4>2
    <3>2. CASE ~ (j = n /\ l = r)
      <4>1. members'[l][j] = members[l][j] /\ ~ (j = n /\ l = k)
        BY <2>1, <3>2, <1>2
      <4>2. members[l][j] \in Conns /\ members[l][j] # None
        BY <2>1, <4>1, MemberTyped
      <4>3. username[members[l][j]] = j /\ roomOf[members[l][j]] = l
        BY <4>2 DEF Index, MembershipConsistent
      <4>4. members[l][j] # c
        BY <4>1, <4>3
      <4> QED BY <4>1, <4>2, <4>3, <4>4, <1>1 DEF Frame, TypeOK
    <3> QED BY <3>1, <3>2
  <2> QED BY <2>1 DEF MembershipConsistent
<1>5. RoomsExist'
  BY <1>1, <1>2 DEF Index, RoomsExist, Occupants
<1> QED BY <1>3, <1>4, <1>5 DEF Index
(* One step of a handler that has not reached its session. *)
LEMMA OnboardingIndex ==
  ASSUME Frame, Index, NEW c \in Conns, OnboardingStep(c) \/ OnboardingInput(c)
  PROVE  Index'
<1> DEFINE Elsewhere ==
      \/ RejectConnection(c) \/ AcceptConnection(c) \/ CheckRoomCapacity(c)
      \/ Admitted(c) \/ Finish(c) \/ TrackClient(c) \/ NameReadError(c)
      \/ \E r \in Rooms : ChooseRoom(c, r)
      \/ RoomReadError(c) \/ AnswerYes(c)
<1>1. CASE Elsewhere
  <2>1. UNCHANGED indexed
    BY <1>1 DEF RejectConnection, AcceptConnection, CheckRoomCapacity,
         Admitted, Finish, TrackClient, NameReadError, ChooseRoom,
         RoomReadError, AnswerYes, indexes, lobby, identity, indexed
  <2> QED BY <2>1, UnchangedIndex
<1>2. ASSUME NEW n \in Names, RegisterName(c, n) PROVE Index'
  <2>1. username[c] = None
    BY <1>2 DEF RegisterName, Goto, Frame, Newcomers
  <2> QED
    BY <1>2, <2>1, RegisterIndex DEF RegisterName, lobby
<1>3. ASSUME JoinQueue(c) PROVE Index'
  <2>1. want[c] \in Rooms
    BY <1>3 DEF JoinQueue, Goto, Frame, Destined
  <2> QED BY <1>3, <2>1, EnqueueIndex DEF JoinQueue, identity
<1>4. ASSUME Decline(c) \/ StopWaiting(c) PROVE Index'
  <2>1. want[c] \in RoomKeys
    BY DEF Frame, TypeOK
  <2>2. Shrinks /\ UNCHANGED <<clients, members, rooms, username, roomOf>>
    BY <1>4, <2>1, RemoveShrinks DEF Decline, StopWaiting, indexes, identity
  <2> QED BY <2>2, ShrinkIndex
<1>5. ASSUME Abort(c) PROVE Index'
  <2>1. username[c] \in Names \cup {None}
    BY DEF Frame, TypeOK
  <2> QED BY <1>5, <2>1, RemoveIndex DEF Abort, lobby, identity
<1>6. ASSUME JoinFirstRoom(c) PROVE Index'
  <2>1. want[c] \in Rooms
    BY <1>6 DEF JoinFirstRoom, Goto, Frame, Destined
  <2> QED BY <1>6, <2>1, JoinIndex DEF JoinFirstRoom, lobby
<1>7. ASSUME RecordJoin(c) PROVE Index'
  BY <1>7, RecordIndex DEF RecordJoin, lobby, identity
<1> QED
  BY <1>1, <1>2, <1>3, <1>4, <1>5, <1>6, <1>7
     DEF OnboardingStep, OnboardingInput

(* One step of a handler in its session, or of its heartbeat. *)
LEMMA SessionIndex ==
  ASSUME Frame, Index, NEW c \in Conns, SessionStep(c) \/ SessionInput(c)
  PROVE  Index'
<1>1. want[c] \in RoomKeys /\ username[c] \in Names \cup {None}
  BY DEF Frame, TypeOK
<1> DEFINE Elsewhere ==
      \/ HeartbeatDrop(c) \/ ReadLine(c) \/ ReadError(c) \/ NoEffect(c)
      \/ Quit(c) \/ Cleanup(c)
      \/ \E r \in Rooms : Switch(c, r) \/ Create(c, r)
      \/ \E here, admission, deletion :
           AdmitCheck(c, here, admission, deletion)
<1>2. CASE Elsewhere
  <2>1. UNCHANGED indexed
    BY <1>2 DEF HeartbeatDrop, ReadLine, ReadError, NoEffect, Quit, Cleanup,
         Switch, Create, AdmitCheck, indexes, lobby, identity, indexed
  <2> QED BY <2>1, UnchangedIndex
<1>3. ASSUME Chat(c) \/ RecordRename(c) \/ SwitchRecord(c) \/ CleanupRecord(c)
      PROVE  Index'
  <2>1. /\ UNCHANGED <<clients, members, queue, username, roomOf>>
        /\ \E k : RecordRoomEvent(k)
    BY <1>3 DEF Chat, RecordRename, SwitchRecord, CleanupRecord, lobby,
                identity
  <2> QED BY <2>1, RecordIndex
<1>4. ASSUME NEW n \in Names, Rename(c, n) PROVE Index'
  BY <1>4, RenameIndex DEF Rename, lobby
<1>5. ASSUME SwitchMove(c) PROVE Index'
  <2>1. want[c] \in Rooms
    BY <1>5 DEF SwitchMove, Goto, Frame, Destined
  <2> QED BY <1>5, <2>1, JoinIndex DEF SwitchMove, lobby
<1>6. ASSUME NEW here, NEW deletion, AdmitNext(c, here, deletion)
      PROVE  Index'
  <2>1. Shrinks /\ UNCHANGED <<clients, members, rooms, username, roomOf>>
    BY <1>1, <1>6, AdmitShrinks DEF AdmitNext, indexes, identity
  <2> QED BY <2>1, ShrinkIndex
<1>7. ASSUME NEW here, NEW next, DeleteRoom(c, here, next)
      PROVE  Index'
  BY <1>1, <1>7, DeleteIndex DEF DeleteRoom, lobby, identity
<1>8. ASSUME CleanupRemove(c) PROVE Index'
  BY <1>1, <1>8, RemoveIndex DEF CleanupRemove, lobby, identity
<1> QED
  BY <1>2, <1>3, <1>4, <1>5, <1>6, <1>7, <1>8
     DEF SessionStep, SessionInput, LineStep, SwitchStep, CleanupStep

(* One step of a moderation command. *)
LEMMA ModerationIndex ==
  ASSUME Frame, Index, NEW p \in Moderators,
         ModerationStep(p) \/ ModerationInput(p)
  PROVE  Index'
<1>1. /\ mod[p].room \in RoomKeys /\ mod[p].name \in Names \cup {None}
  BY DEF Frame, TypeOK, Command
<1> DEFINE Elsewhere ==
      \/ \E n \in Names, kind \in {"kick", "ban"} : LookUp(p, kind, n)
      \/ NotInYourRoom(p) \/ Mark(p) \/ CloseTarget(p) \/ BlockHost(p)
      \/ CollectByIP(p) \/ \E c \in Conns : MarkCollateral(p, c)
      \/ NoMoreCollateral(p) \/ DropQueued(p) \/ NothingOwed(p) \/ Announce(p)
      \/ \E h \in Hosts, kind \in {"queuekick", "queueban"} :
           LookUpQueued(p, kind, h)
      \/ \E k \in RoomKeys : AdmitOwed(p, k)
      \/ \E n \in Names : Annotate(p, n)
<1>2. CASE Elsewhere
  <2>1. UNCHANGED indexed
    BY <1>2 DEF LookUp, NotInYourRoom, Mark, CloseTarget, BlockHost,
         CollectByIP, MarkCollateral, NoMoreCollateral, DropQueued,
         NothingOwed, Announce, LookUpQueued, AdmitOwed, Annotate, indexes,
         lobby, identity, indexed
  <2> QED BY <2>1, UnchangedIndex
<1>3. ASSUME RemoveTarget(p) PROVE Index'
  BY <1>1, <1>3, RemoveIndex DEF RemoveTarget, lobby, identity
<1>4. ASSUME RecordModeration(p) \/ RecordNote(p)
             \/ \E k \in RoomKeys : RecordAnnouncement(p, k)
      PROVE  Index'
  <2>1. /\ UNCHANGED <<clients, members, queue, username, roomOf>>
        /\ \E k : RecordRoomEvent(k)
    BY <1>4 DEF RecordModeration, RecordNote, RecordAnnouncement, lobby,
                identity
  <2> QED BY <2>1, RecordIndex
<1>5. ASSUME RemoveQueued(p) PROVE Index'
  <2>1. Shrinks /\ UNCHANGED <<clients, members, rooms, username, roomOf>>
    BY <1>5, ByIPShrinks DEF RemoveQueued, indexes, identity
  <2> QED BY <2>1, ShrinkIndex
<1>6. ASSUME AdmitForSlot(p) PROVE Index'
  <2>1. Shrinks /\ UNCHANGED <<clients, members, rooms, username, roomOf>>
    BY <1>1, <1>6, AdmitShrinks DEF AdmitForSlot, indexes, identity
  <2> QED BY <2>1, ShrinkIndex
<1> QED
  BY <1>2, <1>3, <1>4, <1>5, <1>6 DEF ModerationStep, ModerationInput

(* Every step of the server keeps the index invariants. *)
LEMMA IndexNext ==
  ASSUME Frame, Index, [Next]_vars
  PROVE  Index'
<1>1. CASE BeginShutdown \/ ForceClose \/ UNCHANGED vars
  <2>1. UNCHANGED indexed
    BY <1>1 DEF BeginShutdown, ForceClose, vars, indexes, lobby, identity,
                indexed
  <2> QED BY <2>1, UnchangedIndex
<1> QED
  BY <1>1, OnboardingIndex, SessionIndex, ModerationIndex DEF Next, Idle

(* At the start nobody is listed and only the default room exists. *)
LEMMA IndexInit ==
  ASSUME RegistryInit PROVE Index
BY RegistryAssumption
   DEF RegistryInit, RegistryAssumption, Index, RegistryConsistent,
       MembershipConsistent, RoomsExist, Occupants, RoomKeys

(* The inductive invariant: the index invariants need each other, and the  *)
(* frame.                                                                  *)
LEMMA IndexInvariant == Spec => [](Frame /\ Index)
<1>1. RegistryInit => Frame /\ Index
  BY InitFrame, IndexInit
<1>2. Frame /\ Index /\ [Next]_vars => (Frame /\ Index)'
  BY NextFrame, IndexNext
<1> QED BY <1>1, <1>2, PTL DEF Spec

(* Server.clients and Client.Username agree: a client found under a name   *)
(* by /whisper, /kick or /ban carries that name.                           *)
THEOREM NamesAgree == Spec => []RegistryConsistent
<1>1. Frame /\ Index => RegistryConsistent
  BY DEF Index
<1> QED BY <1>1, IndexInvariant, PTL

(* Room.clients, Client.Username and Client.Room agree: a client is in one *)
(* room at most, once, under its own name.                                 *)
THEOREM RoomsAgree == Spec => []MembershipConsistent
<1>1. Frame /\ Index => MembershipConsistent
  BY DEF Index
<1> QED BY <1>1, IndexInvariant, PTL

(* deleteRoomIfEmpty drops neither the default room nor a room somebody is *)
(* in or waits for.                                                        *)
THEOREM NoLostRoom == Spec => []RoomsExist
<1>1. Frame /\ Index => RoomsExist
  BY DEF Index
<1> QED BY <1>1, IndexInvariant, PTL

-----------------------------------------------------------------------------
(* Where nobody is kicked or banned by name. *)

Peaceful == Inputs \cap {"kick", "ban"} = {}

(* The steps of a command that throws somebody out, and its kinds. *)
Throwing == {"mMark", "mRemove", "mRecord", "mClose", "mCollect", "mNext"}
Thrower == {"kick", "ban", "collateral"}

(* No command that throws somebody out is under way, and nobody was thrown
   out. *)
Calm ==
  /\ \A p \in Moderators : pc[p] \notin Throwing /\ mod[p].kind \notin Thrower
  /\ \A c \in Conns : reason[c] \notin Moderated

(* IndexesExact with its witnesses: the entry is the one under the client's
   own name, in its own room. *)
Listed ==
  \A c \in Conns :
    /\ Registered(c) => username[c] \in Names /\ clients[username[c]] = c
    /\ ~ Registered(c) => \A n \in Names : clients[n] # c
    /\ Seated(c) => members[roomOf[c]][username[c]] = c
    /\ ~ Seated(c) => \A k \in RoomKeys, n \in Names : members[k][n] # c

(* Nobody gets or gives up a name or a room. *)
SameStage ==
  \A c \in Conns : Registered(c)' = Registered(c) /\ Seated(c)' = Seated(c)

RegisteredAt ==
  InSession \cup
    {"room", "check", "enqueue", "ask", "wait", "join", "joined", "abort",
     "cleanup", "clRemove"}
SeatedAt == InSession \cup {"joined", "cleanup", "clRemove"}

(* From one program counter to another of the same stage. *)
LEMMA StageKept ==
  ASSUME Frame, NEW a \in Actors, NEW to,
         pc' = pc \/ pc' = [pc EXCEPT ![a] = to],
         a \in Conns => /\ (pc[a] \in RegisteredAt) = (to \in RegisteredAt)
                        /\ (pc[a] \in SeatedAt) = (to \in SeatedAt)
  PROVE  SameStage
<1>1. \A c \in Conns :
        /\ Registered(c) = (pc[c] \in RegisteredAt)
        /\ Seated(c) = (pc[c] \in SeatedAt)
        /\ Registered(c)' = (pc'[c] \in RegisteredAt)
        /\ Seated(c)' = (pc'[c] \in SeatedAt)
  BY DEF Registered, Seated, RegisteredAt, SeatedAt
<1>2. \A c \in Conns : pc'[c] = pc[c] \/ (c = a /\ pc'[c] = to)
  BY DEF Frame, TypeOK, Actors
<1> QED BY <1>1, <1>2 DEF SameStage

(* A step that leaves the maps, the fields and the stages alone. *)
LEMMA UnchangedListed ==
  ASSUME Listed, SameStage, UNCHANGED <<clients, members, username, roomOf>>
  PROVE  Listed'
BY DEF Listed, SameStage

(* Two connections that hold a name hold different ones. *)
LEMMA NamesDiffer ==
  ASSUME Listed, NEW c \in Conns, NEW d \in Conns, c # d,
         Registered(c), Registered(d)
  PROVE  username[c] # username[d]
BY DEF Listed

(* Who is in a room has a name and the room exists. *)
LEMMA SeatedRoom ==
  ASSUME Frame, Index, Listed, NEW c \in Conns, Seated(c)
  PROVE  Registered(c) /\ roomOf[c] \in rooms \ {NoRoom}
<1>1. Registered(c)
  BY DEF Registered, Seated
<1>2. username[c] \in Names /\ members[roomOf[c]][username[c]] # None
  BY <1>1, RegistryAssumption DEF Listed, RegistryAssumption
<1>3. roomOf[c] \in RoomKeys
  BY DEF Frame, TypeOK
<1> QED BY <1>1, <1>2, <1>3 DEF Index, RoomsExist, Occupants

(* A name is registered. *)
LEMMA RegisterListed ==
  ASSUME Frame, Index, Listed, NEW c \in Conns, NEW n \in Names,
         RegisterName(c, n)
  PROVE  Listed'
<1>1. /\ clients[n] = None /\ UNCHANGED <<members, roomOf>>
      /\ username' = [username EXCEPT ![c] = n]
      /\ pc[c] = "name" /\ pc' = [pc EXCEPT ![c] = "room"]
  BY DEF RegisterName, RegisterClient, Goto
<1>2. \A j \in Names : clients'[j] = IF j = n THEN c ELSE clients[j]
  BY DEF RegisterName, RegisterClient, Frame, TypeOK
<1>3. ~ Registered(c) /\ ~ Seated(c) /\ Registered(c)' /\ ~ Seated(c)'
  BY <1>1 DEF Registered, Seated, InSession, Frame, TypeOK, Actors
<1>4. \A d \in Conns \ {c} : /\ Registered(d)' = Registered(d)
                             /\ Seated(d)' = Seated(d)
                             /\ username'[d] = username[d]
  BY <1>1 DEF Registered, Seated, Frame, TypeOK, Actors
<1>5. username'[c] = n
  BY <1>1 DEF Frame, TypeOK
<1>6. ASSUME NEW d \in Conns \ {c}, Registered(d)
      PROVE  clients'[username[d]] = d
  <2>1. username[d] \in Names /\ clients[username[d]] = d /\ d # None
    BY <1>6, RegistryAssumption DEF Listed, RegistryAssumption
  <2> QED BY <1>1, <1>2, <2>1
<1>7. ASSUME NEW d \in Conns \ {c}
      PROVE  /\ Registered(d)' => /\ username'[d] \in Names
                                  /\ clients'[username'[d]] = d
             /\ ~ Registered(d)' => \A j \in Names : clients'[j] # d
             /\ Seated(d)' => members'[roomOf'[d]][username'[d]] = d
             /\ ~ Seated(d)' =>
                  \A k \in RoomKeys, j \in Names : members'[k][j] # d
  BY <1>1, <1>2, <1>4, <1>6 DEF Listed
<1>8. /\ username'[c] \in Names /\ clients'[username'[c]] = c
      /\ \A k \in RoomKeys, j \in Names : members'[k][j] # c
  BY <1>1, <1>2, <1>3, <1>5 DEF Listed
<1> QED BY <1>3, <1>7, <1>8 DEF Listed

(* A handler takes its client out of the maps: nobody else's entry is hit,
   and nothing of its own stays. *)
LEMMA RemoveListed ==
  ASSUME Frame, Index, Listed, NEW c \in Conns, Registered(c),
         RemoveClient(username[c]), UNCHANGED <<username, roomOf>>,
         pc' = [pc EXCEPT ![c] = "clRecord"]
           \/ pc' = [pc EXCEPT ![c] = "closing"]
  PROVE  Listed'
<1> DEFINE n == username[c]
<1>1. n \in Names /\ clients[n] = c /\ c # None
  BY RegistryAssumption DEF Listed, RegistryAssumption
<1>2. \A j \in Names : clients'[j] = IF j = n THEN None ELSE clients[j]
  BY DEF RemoveClient, Frame, TypeOK
<1>3. \A k \in RoomKeys, j \in Names :
        members'[k][j] = IF k = roomOf[c] /\ k \in rooms \ {NoRoom} /\ j = n
                           THEN None ELSE members[k][j]
  BY <1>1 DEF RemoveClient, Frame, TypeOK
<1>4. ~ Registered(c)' /\ ~ Seated(c)'
  BY DEF Registered, Seated, InSession, Frame, TypeOK, Actors
<1>5. \A d \in Conns \ {c} : /\ Registered(d)' = Registered(d)
                             /\ Seated(d)' = Seated(d)
  BY DEF Registered, Seated, Frame, TypeOK, Actors
<1>6. ASSUME NEW d \in Conns \ {c}
      PROVE  /\ Registered(d)' => /\ username'[d] \in Names
                                  /\ clients'[username'[d]] = d
             /\ ~ Registered(d)' => \A j \in Names : clients'[j] # d
             /\ Seated(d)' => members'[roomOf'[d]][username'[d]] = d
             /\ ~ Seated(d)' =>
                  \A k \in RoomKeys, j \in Names : members'[k][j] # d
  <2>1. CASE Registered(d)
    <3>1. username[d] # n /\ username[d] \in Names
          /\ clients[username[d]] = d
      BY <2>1, NamesDiffer DEF Listed
    <3>2. Seated(d) => members'[roomOf[d]][username[d]] = d
      <4>1. roomOf[d] \in RoomKeys
        BY DEF Frame, TypeOK
      <4> QED BY <3>1, <4>1, <1>3 DEF Listed
    <3>3. ~ Seated(d) => \A k \in RoomKeys, j \in Names : members'[k][j] # d
      BY <1>3, RegistryAssumption DEF Listed, RegistryAssumption
    <3> QED BY <2>1, <3>1, <3>2, <3>3, <1>2, <1>5
  <2>2. CASE ~ Registered(d)
    <3>1. ~ Seated(d)
      BY <2>2 DEF Registered, Seated
    <3>2. d # None
      BY RegistryAssumption DEF RegistryAssumption
    <3> QED BY <2>2, <3>1, <3>2, <1>2, <1>3, <1>5 DEF Listed
  <2> QED BY <2>1, <2>2
<1>7. \A j \in Names : clients'[j] # c
  BY <1>1, <1>2 DEF Index, RegistryConsistent
<1>8. ASSUME NEW k \in RoomKeys, NEW j \in Names, members'[k][j] = c
      PROVE  FALSE
  <2>1. members[k][j] = c
    BY <1>1, <1>3, <1>8
  <2>2. k = roomOf[c] /\ j = n
    BY <2>1, <1>1 DEF Index, MembershipConsistent
  <2>3. k \in rooms \ {NoRoom}
    BY <2>1, <1>1 DEF Index, RoomsExist, Occupants
  <2> QED BY <2>2, <2>3, <1>1, <1>3, <1>8
<1> QED BY <1>4, <1>6, <1>7, <1>8 DEF Listed

(* A handler moves its client into a room, its first or another one. *)
LEMMA JoinListed ==
  ASSUME Frame, Index, Listed, NEW c \in Conns, NEW r \in Rooms,
         Registered(c), JoinRoom(c, r), UNCHANGED <<clients, username>>,
         pc' = [pc EXCEPT ![c] = "joined"]
           \/ pc' = [pc EXCEPT ![c] = "swCheck"]
  PROVE  Listed'
<1> DEFINE n == username[c]
<1>1. n \in Names /\ clients[n] = c /\ c # None
  BY RegistryAssumption DEF Listed, RegistryAssumption
<1>2. /\ roomOf' = [roomOf EXCEPT ![c] = r] /\ r \in RoomKeys
  BY DEF JoinRoom, RoomKeys
<1>3. \A k \in RoomKeys, j \in Names :
        members'[k][j] = IF j = n /\ k = r THEN c
                         ELSE IF j = n /\ k = roomOf[c] THEN None
                         ELSE members[k][j]
  BY DEF JoinRoom, Frame, TypeOK
<1>4. Registered(c)' /\ Seated(c)'
  BY DEF Registered, Seated, InSession, Frame, TypeOK, Actors
<1>5. \A d \in Conns \ {c} : /\ Registered(d)' = Registered(d)
                             /\ Seated(d)' = Seated(d)
                             /\ roomOf'[d] = roomOf[d]
  BY <1>2 DEF Registered, Seated, Frame, TypeOK, Actors
<1>6. ASSUME NEW d \in Conns \ {c}
      PROVE  /\ Seated(d) => members'[roomOf[d]][username[d]] = d
             /\ ~ Seated(d) =>
                  \A k \in RoomKeys, j \in Names : members'[k][j] # d
  <2>1. d # None
    BY RegistryAssumption DEF RegistryAssumption
  <2>2. ASSUME Seated(d) PROVE members'[roomOf[d]][username[d]] = d
    <3>1. Registered(d) /\ roomOf[d] \in RoomKeys
      BY <2>2, SeatedRoom DEF Frame, TypeOK
    <3>2. username[d] # n /\ username[d] \in Names
          /\ members[roomOf[d]][username[d]] = d
      BY <2>2, <3>1, NamesDiffer DEF Listed
    <3> QED BY <3>1, <3>2, <1>3
  <2>3. ASSUME ~ Seated(d), NEW k \in RoomKeys, NEW j \in Names
        PROVE  members'[k][j] # d
    BY <2>1, <2>3, <1>3 DEF Listed
  <2> QED BY <2>2, <2>3
<1>7. members'[roomOf'[c]][username'[c]] = c
  BY <1>1, <1>2, <1>3 DEF Frame, TypeOK
<1> QED BY <1>1, <1>4, <1>5, <1>6, <1>7 DEF Listed

(* A rename in a session: the old entries go, the new ones are made. *)
LEMMA RenameListed ==
  ASSUME Frame, Index, Listed, NEW c \in Conns, NEW new \in Names,
         Seated(c), RenameClient(c, new), UNCHANGED roomOf,
         pc' = [pc EXCEPT ![c] = "renamed"]
  PROVE  Listed'
<1> DEFINE old == username[c]
           k == roomOf[c]
<1>1. /\ Registered(c) /\ k \in rooms \ {NoRoom} /\ k \in RoomKeys
      /\ old \in Names /\ clients[old] = c /\ c # None /\ clients[new] = None
  <2>1. Registered(c) /\ k \in rooms \ {NoRoom}
    BY SeatedRoom
  <2>2. k \in RoomKeys /\ c # None /\ clients[new] = None
    BY <2>1, RegistryAssumption DEF RegistryAssumption, RenameClient, Frame, TypeOK
  <2>3. old \in Names /\ clients[old] = c
    BY <2>1 DEF Listed
  <2> QED BY <2>1, <2>2, <2>3
<1>2. username' = [username EXCEPT ![c] = new]
  BY DEF RenameClient
<1>3. \A j \in Names : clients'[j] = IF j = new THEN c
                                     ELSE IF j = old THEN None ELSE clients[j]
  BY DEF RenameClient, Frame, TypeOK
<1>4. \A l \in RoomKeys, j \in Names :
        members'[l][j] = IF l = k
                           THEN IF j = new THEN c
                                ELSE IF j = old THEN None ELSE members[l][j]
                           ELSE members[l][j]
  BY <1>1 DEF RenameClient, Frame, TypeOK
<1>5. Registered(c)' /\ Seated(c)'
  BY DEF Registered, Seated, InSession, Frame, TypeOK, Actors
<1>6. \A d \in Conns \ {c} : /\ Registered(d)' = Registered(d)
                             /\ Seated(d)' = Seated(d)
                             /\ username'[d] = username[d]
  BY <1>2 DEF Registered, Seated, Frame, TypeOK, Actors
<1>7. username'[c] = new
  BY <1>2 DEF Frame, TypeOK
<1>8. ASSUME NEW d \in Conns \ {c}
      PROVE  /\ Registered(d) => /\ username[d] \in Names
                                 /\ clients'[username[d]] = d
             /\ ~ Registered(d) => \A j \in Names : clients'[j] # d
             /\ Seated(d) => members'[roomOf[d]][username[d]] = d
             /\ ~ Seated(d) =>
                  \A l \in RoomKeys, j \in Names : members'[l][j] # d
  <2>1. d # None /\ roomOf[d] \in RoomKeys
    BY RegistryAssumption DEF RegistryAssumption, Frame, TypeOK
  <2>2. CASE Registered(d)
    <3>1. username[d] # old /\ username[d] \in Names
          /\ clients[username[d]] = d
      BY <2>2, <1>1, NamesDiffer DEF Listed
    <3>2. username[d] # new
      BY <3>1, <2>1, <1>1
    <3>3. Seated(d) => members'[roomOf[d]][username[d]] = d
      BY <3>1, <3>2, <2>1, <1>4 DEF Listed
    <3>4. ~ Seated(d) =>
            \A l \in RoomKeys, j \in Names : members'[l][j] # d
      BY <2>1, <1>4 DEF Listed
    <3> QED BY <2>2, <3>1, <3>2, <3>3, <3>4, <1>3
  <2>3. CASE ~ Registered(d)
    <3>1. ~ Seated(d)
      BY <2>3 DEF Registered, Seated
    <3> QED BY <2>1, <2>3, <3>1, <1>3, <1>4 DEF Listed
  <2> QED BY <2>2, <2>3
<1>9. clients'[username'[c]] = c /\ members'[roomOf'[c]][username'[c]] = c
  BY <1>1, <1>3, <1>4, <1>7
<1> QED BY <1>5, <1>6, <1>7, <1>8, <1>9 DEF Listed

(* The steps of a handler start no command and use no moderation reason. *)
LEMMA HandlerCalm ==
  ASSUME Frame, Calm, NEW c \in Conns,
         \/ OnboardingStep(c) \/ OnboardingInput(c)
         \/ SessionStep(c) \/ SessionInput(c)
  PROVE  Calm'
<1>1. \/ reason' = reason
      \/ reason' = [reason EXCEPT ![c] = IF @ = "" THEN "drop" ELSE @]
  BY DEF OnboardingStep, OnboardingInput, SessionStep, SessionInput, LineStep,
       SwitchStep, CleanupStep, RejectConnection, AcceptConnection,
       CheckRoomCapacity, JoinQueue, Admitted, Abort, JoinFirstRoom,
       RecordJoin, Finish, TrackClient, RegisterName, NameReadError,
       ChooseRoom, RoomReadError, AnswerYes, Decline, StopWaiting,
       NoEffect, Quit, Chat, Rename, Switch, Create, RecordRename,
       SwitchRecord, SwitchMove, AdmitCheck, AdmitNext, DeleteRoom, Cleanup,
       CleanupRemove, CleanupRecord, ReadLine, ReadError, HeartbeatDrop,
       SetDisconnectReason, link
<1>2. mod' = mod
  BY DEF OnboardingStep, OnboardingInput, SessionStep, SessionInput, LineStep,
       SwitchStep, CleanupStep, RejectConnection, AcceptConnection,
       CheckRoomCapacity, JoinQueue, Admitted, Abort, JoinFirstRoom,
       RecordJoin, Finish, TrackClient, RegisterName, NameReadError,
       ChooseRoom, RoomReadError, AnswerYes, Decline, StopWaiting,
       NoEffect, Quit, Chat, Rename, Switch, Create, RecordRename,
       SwitchRecord, SwitchMove, AdmitCheck, AdmitNext, DeleteRoom, Cleanup,
       CleanupRemove, CleanupRecord, ReadLine, ReadError, HeartbeatDrop,
       locals
<1>3. \E to : /\ pc' = pc \/ pc' = [pc EXCEPT ![c] = to]
              /\ to \notin Throwing
  BY DEF OnboardingStep, OnboardingInput, SessionStep, SessionInput, LineStep,
       SwitchStep, CleanupStep, RejectConnection, AcceptConnection,
       CheckRoomCapacity, JoinQueue, Admitted, Abort, JoinFirstRoom,
       RecordJoin, Finish, TrackClient, RegisterName, NameReadError,
       ChooseRoom, RoomReadError, AnswerYes, Decline, StopWaiting,
       NoEffect, Quit, Chat, Rename, Switch, Create, RecordRename,
       SwitchRecord, SwitchMove, AdmitCheck, AdmitNext, DeleteRoom, Cleanup,
       CleanupRemove, CleanupRecord, ReadLine, ReadError, HeartbeatDrop,
       Goto, Throwing
<1>4. \A d \in Conns : reason'[d] \notin Moderated
  BY <1>1 DEF Calm, Moderated, Frame, TypeOK
<1> QED
  BY <1>2, <1>3, <1>4, RegistryAssumption
     DEF RegistryAssumption, Calm, Frame, TypeOK, Actors, Moderators

(* A command that goes on to something else than throwing somebody out. *)
LEMMA CommandCalm ==
  ASSUME Frame, Calm, NEW p \in Moderators, NEW to, to \notin Throwing,
         NEW m, m.kind \notin Thrower,
         pc' = pc \/ pc' = [pc EXCEPT ![p] = to],
         mod' = mod \/ mod' = [mod EXCEPT ![p] = m], UNCHANGED reason
  PROVE  Calm'
<1>1. p \in Actors /\ Moderators \subseteq Actors
  BY RegistryAssumption DEF RegistryAssumption, Actors, Moderators
<1>2. \A q \in Moderators : pc'[q] = pc[q] \/ pc'[q] = to
  BY <1>1 DEF Frame, TypeOK
<1>3. \A q \in Moderators : mod'[q] = mod[q] \/ mod'[q] = m
  BY DEF Frame, TypeOK
<1> QED BY <1>2, <1>3 DEF Calm

(* Nor does a moderator where the inputs have no kick and no ban. *)
LEMMA ModerationCalm ==
  ASSUME Peaceful, Frame, Calm, NEW p \in Moderators,
         ModerationStep(p) \/ ModerationInput(p)
  PROVE  Calm' /\ UNCHANGED <<clients, members, username, roomOf>>
<1>1. /\ pc[p] \notin Throwing /\ mod[p].kind \notin Thrower
      /\ mod[p] \in Command
  BY DEF Calm, Frame, TypeOK
<1>2. NoCommand.kind = "none"
  BY DEF NoCommand
<1>3. ~ \/ NotInYourRoom(p) \/ Mark(p) \/ RemoveTarget(p)
        \/ RecordModeration(p) \/ CloseTarget(p) \/ CollectByIP(p)
        \/ (\E c \in Conns : MarkCollateral(p, c)) \/ NoMoreCollateral(p)
        \/ \E n \in Names : LookUp(p, "kick", n) \/ LookUp(p, "ban", n)
  BY <1>1 DEF NotInYourRoom, Mark, RemoveTarget, RecordModeration,
       CloseTarget, CollectByIP, MarkCollateral, NoMoreCollateral, LookUp,
       Peaceful, Throwing, Goto
<1>4. ASSUME NEW to, to \notin Throwing, NEW m, m.kind \notin Thrower,
             pc' = pc \/ pc' = [pc EXCEPT ![p] = to],
             mod' = mod \/ mod' = [mod EXCEPT ![p] = m],
             UNCHANGED <<reason, clients, members, username, roomOf>>
      PROVE  Calm' /\ UNCHANGED <<clients, members, username, roomOf>>
  BY <1>4, CommandCalm
<1>5. ASSUME EndCommand(p),
             UNCHANGED <<reason, clients, members, username, roomOf>>
      PROVE  Calm' /\ UNCHANGED <<clients, members, username, roomOf>>
  <2>1. NoCommand.kind \notin Thrower
    BY <1>2 DEF Thrower
  <2>2. (IF p = Operator THEN "op" ELSE "active") \notin Throwing
    BY DEF Throwing
  <2> QED BY <1>4, <1>5, <2>1, <2>2, Zenon DEF EndCommand
<1>6. \A rest : [mod[p] EXCEPT !.rest = rest].kind \notin Thrower
  BY <1>1 DEF Command
<1>7. CASE BlockHost(p)
  <2>1. mod[p].kind \in {"queuekick", "queueban"} /\ EndCommand(p)
    BY <1>1, <1>7 DEF BlockHost, Thrower
  <2> QED BY <1>5, <1>7, <2>1 DEF BlockHost, indexes, identity, link
<1>8. CASE RemoveQueued(p)
  <2>1. UNCHANGED <<reason, clients, members, username, roomOf>>
    BY <1>8 DEF RemoveQueued, indexes, identity, link
  <2>2. \/ EndCommand(p)
        \/ \E rest : /\ pc' = [pc EXCEPT ![p] = "mDrop"]
                     /\ mod' = [mod EXCEPT ![p] =
                                  [mod[p] EXCEPT !.rest = rest]]
    BY <1>8, Zenon DEF RemoveQueued, Step
  <2> QED BY <1>4, <1>5, <1>6, <2>1, <2>2 DEF Throwing
<1>9. CASE DropQueued(p)
  <2>1. UNCHANGED <<reason, clients, members, username, roomOf>>
    BY <1>9 DEF DropQueued, indexes, identity
  <2> DEFINE to == IF mod[p].kind = "ban" THEN "mCheck" ELSE "mBlock"
             m == [mod[p] EXCEPT !.rest = {}]
  <2>2. mod' = [mod EXCEPT ![p] = m] /\ pc' = [pc EXCEPT ![p] = to]
    BY <1>9, Zenon DEF DropQueued, Goto
  <2>3. to \notin Throwing /\ m.kind \notin Thrower
    BY <1>6 DEF Throwing
  <2> HIDE DEF to, m
  <2> QED BY <1>4, <2>1, <2>2, <2>3
<1>10. ASSUME NEW k \in RoomKeys, AdmitOwed(p, k)
       PROVE  Calm' /\ UNCHANGED <<clients, members, username, roomOf>>
  <2>1. UNCHANGED <<reason, clients, members, username, roomOf>>
    BY <1>10 DEF AdmitOwed, indexes, identity, link
  <2> DEFINE m == [mod[p] EXCEPT !.room = k, !.owed = Pay(mod[p].owed, k)]
             to == IF phase = "up" THEN "mAdmit" ELSE "mCheck"
  <2>2. to \notin Throwing /\ m.kind \notin Thrower
    BY <1>1 DEF Command, Throwing
  <2>3. mod' = [mod EXCEPT ![p] = m] /\ pc' = [pc EXCEPT ![p] = to]
    BY <1>10, Zenon DEF AdmitOwed, Step
  <2> HIDE DEF to, m
  <2> QED BY <1>4, <2>1, <2>2, <2>3
<1>11. ASSUME NEW k \in RoomKeys, RecordAnnouncement(p, k)
       PROVE  Calm' /\ UNCHANGED <<clients, members, username, roomOf>>
  <2>1. UNCHANGED <<reason, clients, members, username, roomOf>>
    BY <1>11 DEF RecordAnnouncement, identity, link
  <2> DEFINE m == [mod[p] EXCEPT !.owed = Pay(mod[p].owed, k)]
  <2>2. m.kind \notin Thrower
    BY <1>1 DEF Command
  <2>3. EndCommand(p) \/ (mod' = [mod EXCEPT ![p] = m] /\ pc' = pc)
    BY <1>11, Zenon DEF RecordAnnouncement
  <2>4. "mCheck" \notin Throwing
    BY DEF Throwing
  <2> HIDE DEF m
  <2> QED BY <1>4, <1>5, <2>1, <2>2, <2>3, <2>4
<1>12. CASE AdmitForSlot(p) \/ NothingOwed(p) \/ RecordNote(p)
  <2>1. UNCHANGED <<reason, clients, members, username, roomOf>>
    BY <1>12 DEF AdmitForSlot, NothingOwed, RecordNote, indexes, identity,
                 link
  <2>2. \/ EndCommand(p)
        \/ mod' = mod /\ pc' = [pc EXCEPT ![p] = "mCheck"]
    BY <1>12 DEF AdmitForSlot, NothingOwed, RecordNote, Goto, locals
  <2> QED BY <1>1, <1>4, <1>5, <2>1, <2>2 DEF Throwing
<1>13. ASSUME \/ \E n \in Names : Annotate(p, n)
              \/ \E h \in Hosts : \/ LookUpQueued(p, "queuekick", h)
                                  \/ LookUpQueued(p, "queueban", h)
              \/ Announce(p)
       PROVE  Calm' /\ UNCHANGED <<clients, members, username, roomOf>>
  <2>1. UNCHANGED <<reason, clients, members, username, roomOf>>
    BY <1>13 DEF Annotate, LookUpQueued, Announce, indexes, identity, link
  <2> DEFINE Onwards ==
        \E to, m : /\ to \notin Throwing /\ pc' = [pc EXCEPT ![p] = to]
                   /\ m.kind \notin Thrower
                   /\ mod' = [mod EXCEPT ![p] = m]
  <2>2. Onwards
    <3>1. CASE Announce(p)
      <4> DEFINE m == [NoCommand EXCEPT !.kind = "announce", !.owed =
                         [k \in RoomKeys |-> IF k \in rooms THEN 1 ELSE 0]]
      <4>1. mod' = [mod EXCEPT ![p] = m] /\ pc' = [pc EXCEPT ![p] = "mAnnounce"]
        BY <3>1, Zenon DEF Announce, Step
      <4>2. m.kind = "announce"
        BY DEF NoCommand
      <4> QED BY <4>1, <4>2 DEF Throwing, Thrower
    <3>2. ASSUME NEW n \in Names, Annotate(p, n)
          PROVE  Onwards
      <4> DEFINE m == [NoCommand EXCEPT !.kind = "note",
                                        !.room = roomOf[clients[n]]]
      <4>1. mod' = [mod EXCEPT ![p] = m] /\ pc' = [pc EXCEPT ![p] = "mNote"]
        BY <3>2, Zenon DEF Annotate, Step
      <4>2. m.kind = "note"
        BY DEF NoCommand
      <4> QED BY <4>1, <4>2 DEF Throwing, Thrower
    <3>3. ASSUME NEW h \in Hosts, NEW kind \in {"queuekick", "queueban"},
                 LookUpQueued(p, kind, h)
          PROVE  Onwards
      <4> DEFINE m == [NoCommand EXCEPT !.kind = kind, !.host = h]
      <4>1. mod' = [mod EXCEPT ![p] = m] /\ pc' = [pc EXCEPT ![p] = "mQueue"]
        BY <3>3, Zenon DEF LookUpQueued, Step
      <4>2. m.kind = kind
        BY DEF NoCommand
      <4> QED BY <4>1, <4>2 DEF Throwing, Thrower
    <3> QED BY <1>13, <3>1, <3>2, <3>3
  <2> QED BY <1>4, <2>1, <2>2
<1> QED
  BY <1>3, <1>7, <1>8, <1>9, <1>10, <1>11, <1>12, <1>13
     DEF ModerationStep, ModerationInput

(* One step of a handler that has not reached its session. *)
LEMMA OnboardingListed ==
  ASSUME Frame, Index, Listed, NEW c \in Conns,
         OnboardingStep(c) \/ OnboardingInput(c)
  PROVE  Listed'
<1> USE DEF Goto
<1>1. ASSUME NEW n \in Names, RegisterName(c, n) PROVE Listed'
  BY <1>1, RegisterListed
<1>2. ASSUME Abort(c) PROVE Listed'
  <2>1. Registered(c)
    BY <1>2 DEF Abort, Registered
  <2> QED BY <1>2, <2>1, RemoveListed DEF Abort, identity
<1>3. ASSUME JoinFirstRoom(c) PROVE Listed'
  <2>1. Registered(c) /\ want[c] \in Rooms
    BY <1>3 DEF JoinFirstRoom, Registered, Frame, Destined
  <2> QED BY <1>3, <2>1, JoinListed DEF JoinFirstRoom
<1> DEFINE Elsewhere ==
      \/ RejectConnection(c) \/ AcceptConnection(c) \/ CheckRoomCapacity(c)
      \/ JoinQueue(c) \/ Admitted(c) \/ RecordJoin(c) \/ Finish(c)
      \/ TrackClient(c) \/ NameReadError(c)
      \/ (\E r \in Rooms : ChooseRoom(c, r))
      \/ RoomReadError(c) \/ AnswerYes(c) \/ Decline(c) \/ StopWaiting(c)
<1>4. CASE Elsewhere
  <2>1. UNCHANGED <<clients, members, username, roomOf>>
    BY <1>4 DEF RejectConnection, AcceptConnection, CheckRoomCapacity,
         JoinQueue, Admitted, RecordJoin, Finish, TrackClient, NameReadError,
         ChooseRoom, RoomReadError, AnswerYes, Decline, StopWaiting, indexes,
         identity
  <2>2. \E to : /\ pc' = [pc EXCEPT ![c] = to]
                /\ (pc[c] \in RegisteredAt) = (to \in RegisteredAt)
                /\ (pc[c] \in SeatedAt) = (to \in SeatedAt)
    BY <1>4 DEF RejectConnection, AcceptConnection, CheckRoomCapacity,
         JoinQueue, Admitted, RecordJoin, Finish, TrackClient, NameReadError,
         ChooseRoom, RoomReadError, AnswerYes, Decline, StopWaiting,
         RegisteredAt, SeatedAt, InSession
  <2>3. SameStage
    BY <2>2, StageKept DEF Actors
  <2> QED BY <2>1, <2>3, UnchangedListed
<1> QED
  BY <1>1, <1>2, <1>3, <1>4 DEF OnboardingStep, OnboardingInput

(* One step of a handler in its session, or of its heartbeat. *)
LEMMA SessionListed ==
  ASSUME Frame, Index, Calm, Listed, NEW c \in Conns,
         SessionStep(c) \/ SessionInput(c)
  PROVE  Listed'
<1> USE DEF Goto
<1>1. ASSUME NEW n \in Names, Rename(c, n) PROVE Listed'
  <2>1. Seated(c)
    BY <1>1 DEF Rename, Seated, InSession
  <2> QED BY <1>1, <2>1, RenameListed DEF Rename
<1>2. ASSUME SwitchMove(c) PROVE Listed'
  <2>1. Registered(c) /\ want[c] \in Rooms
    BY <1>2 DEF SwitchMove, Registered, InSession, Frame, Destined
  <2> QED BY <1>2, <2>1, JoinListed DEF SwitchMove
<1>3. ASSUME CleanupRemove(c) PROVE Listed'
  <2>1. Registered(c)
    BY <1>3 DEF CleanupRemove, Registered
  <2> QED BY <1>3, <2>1, RemoveListed DEF CleanupRemove, identity
<1> DEFINE Elsewhere ==
      \/ HeartbeatDrop(c) \/ ReadLine(c) \/ ReadError(c) \/ NoEffect(c)
      \/ Quit(c) \/ Chat(c) \/ RecordRename(c) \/ SwitchRecord(c)
      \/ (\E r \in Rooms : Switch(c, r) \/ Create(c, r))
      \/ AdmitCheck(c, "swCheck", "swAdmit", "swDelete")
      \/ AdmitNext(c, "swAdmit", "swDelete")
      \/ DeleteRoom(c, "swDelete", "joined")
      \/ Cleanup(c) \/ CleanupRecord(c)
      \/ AdmitCheck(c, "clCheck", "clAdmit", "clDelete")
      \/ AdmitNext(c, "clAdmit", "clDelete")
      \/ DeleteRoom(c, "clDelete", "closing")
<1>4. CASE Elsewhere
  <2>1. UNCHANGED <<clients, members, username, roomOf>>
    BY <1>4 DEF HeartbeatDrop, ReadLine, ReadError, NoEffect, Quit, Chat,
         RecordRename, SwitchRecord, Switch, Create, AdmitCheck, AdmitNext,
         DeleteRoom, Cleanup, CleanupRecord, indexes, identity
  <2>2. reason[c] \notin Moderated
    BY DEF Calm
  <2>3. \E to : /\ pc' = pc \/ pc' = [pc EXCEPT ![c] = to]
                /\ (pc[c] \in RegisteredAt) = (to \in RegisteredAt)
                /\ (pc[c] \in SeatedAt) = (to \in SeatedAt)
    BY <1>4, <2>2 DEF HeartbeatDrop, ReadLine, ReadError, NoEffect, Quit,
         Chat, RecordRename, SwitchRecord, Switch, Create, AdmitCheck,
         AdmitNext, DeleteRoom, Cleanup, CleanupRecord, RegisteredAt,
         SeatedAt, InSession
  <2>4. SameStage
    BY <2>3, StageKept DEF Actors
  <2> QED BY <2>1, <2>4, UnchangedListed
<1> QED
  BY <1>1, <1>2, <1>3, <1>4
     DEF SessionStep, SessionInput, LineStep, SwitchStep, CleanupStep

(* Where a handler is when it takes a step of a command. *)
Moderating ==
  {"cmd", "mMark", "mRemove", "mRecord", "mClose", "mBlock", "mCollect",
   "mNext", "mQueue", "mDrop", "mCheck", "mAdmit", "mNote", "mAnnounce"}

(* While he moderates an admin's handler stays in its session. *)
LEMMA ModeratorStays ==
  ASSUME Frame, NEW p \in Moderators,
         ModerationStep(p) \/ ModerationInput(p)
  PROVE  \A c \in Conns :
           \/ pc'[c] = pc[c]
           \/ pc[c] \in Moderating \cap InSession /\ pc'[c] \in InSession
<1>1. p = Operator \/ pc[p] \in Moderating \cap InSession
  BY DEF ModerationStep, ModerationInput, NotInYourRoom, Mark, RemoveTarget,
       RecordModeration, CloseTarget, BlockHost, CollectByIP, MarkCollateral,
       NoMoreCollateral, RemoveQueued, DropQueued, AdmitOwed,
       RecordAnnouncement, AdmitForSlot, NothingOwed, RecordNote, LookUp,
       Annotate, LookUpQueued, Announce, Ready, Goto, InSession, Moderating
<1>2. \E to : /\ pc' = pc \/ pc' = [pc EXCEPT ![p] = to]
              /\ p = Operator \/ to \in InSession
  BY <1>1 DEF ModerationStep, ModerationInput, NotInYourRoom, Mark,
       RemoveTarget, RecordModeration, CloseTarget, BlockHost, CollectByIP,
       MarkCollateral, NoMoreCollateral, RemoveQueued, DropQueued, AdmitOwed,
       RecordAnnouncement, AdmitForSlot, NothingOwed, RecordNote, LookUp,
       Annotate, LookUpQueued, Announce, Step, EndCommand, Goto, InSession
<1>3. p \in Actors /\ Operator \notin Conns
  BY RegistryAssumption DEF RegistryAssumption, Moderators, Actors
<1>4. ASSUME NEW c \in Conns, pc'[c] # pc[c]
      PROVE  c = p /\ pc'[c] \in InSession
  <2>1. PICK to : /\ pc' = pc \/ pc' = [pc EXCEPT ![p] = to]
                  /\ p = Operator \/ to \in InSession
    BY <1>2
  <2>2. c = p /\ pc'[c] = to
    BY <1>3, <1>4, <2>1 DEF Frame, TypeOK, Actors
  <2> QED BY <1>3, <2>1, <2>2
<1> QED BY <1>1, <1>3, <1>4

(* One step of a command changes no stage. *)
LEMMA ModerationListed ==
  ASSUME Peaceful, Frame, Calm, Listed, NEW p \in Moderators,
         ModerationStep(p) \/ ModerationInput(p)
  PROVE  Listed'
<1>1. UNCHANGED <<clients, members, username, roomOf>>
  BY ModerationCalm
<1>2. SameStage
  BY ModeratorStays DEF SameStage, Registered, Seated
<1> QED BY <1>1, <1>2, UnchangedListed

(* Every step keeps the invariant. *)
LEMMA ListedNext ==
  ASSUME Peaceful, Frame, Index, Calm, Listed, [Next]_vars
  PROVE  Calm' /\ Listed'
<1>1. CASE BeginShutdown \/ ForceClose \/ UNCHANGED vars
  <2>1. UNCHANGED <<clients, members, username, roomOf, pc, mod, reason>>
    BY <1>1 DEF BeginShutdown, ForceClose, vars, indexes, identity, link,
                locals
  <2>2. SameStage /\ Calm'
    BY <2>1 DEF SameStage, Registered, Seated, Calm
  <2> QED BY <2>1, <2>2, UnchangedListed
<1> QED
  BY <1>1, HandlerCalm, ModerationCalm, OnboardingListed, SessionListed,
     ModerationListed DEF Next, Idle

(* Nobody has a name at the start. *)
LEMMA ListedInit ==
  ASSUME RegistryInit
  PROVE  Calm /\ Listed
<1>1. \A c \in Conns : pc[c] = "off" /\ c # None
  BY RegistryAssumption DEF RegistryInit, RegistryAssumption, Actors
<1>2. \A p \in Moderators : pc[p] \in {"off", "op"} /\ mod[p].kind = "none"
  BY RegistryAssumption
     DEF RegistryInit, RegistryAssumption, Actors, Moderators, NoCommand
<1>3. Calm
  BY <1>2 DEF RegistryInit, Calm, Throwing, Thrower, Moderated
<1>4. \A c \in Conns : ~ Registered(c) /\ ~ Seated(c)
  BY <1>1 DEF Registered, Seated, InSession
<1>5. \A c \in Conns : /\ \A n \in Names : clients[n] # c
                       /\ \A k \in RoomKeys, n \in Names : members[k][n] # c
  BY <1>1 DEF RegistryInit
<1> QED BY <1>3, <1>4, <1>5 DEF Listed

(* The inductive invariant behind the next theorems. *)
LEMMA ListedInvariant ==
  ASSUME Peaceful
  PROVE  Spec => [](Frame /\ Index /\ Calm /\ Listed)
<1>1. RegistryInit => Frame /\ Index /\ Calm /\ Listed
  BY InitFrame, IndexInit, ListedInit
<1>2. Frame /\ Index /\ Calm /\ Listed /\ [Next]_vars
        => (Frame /\ Index /\ Calm /\ Listed)'
  BY NextFrame, IndexNext, ListedNext
<1> QED BY <1>1, <1>2, PTL DEF Spec

(* Where nobody is kicked or banned by name, the maps list exactly who     *)
(* holds a name and exactly who is in a room: nobody stays listed after    *)
(* leaving and nobody in a session is missing, whatever commands, hang-ups *)
(* and bans of queued users interleave.  With kicks it fails (run Ghost).  *)
THEOREM ListedExactly ==
  ASSUME Peaceful
  PROVE  Spec => []IndexesExact
<1>1. ASSUME Frame, Index, Listed PROVE IndexesExact
  <2>1. ASSUME NEW c \in Conns
        PROVE  Registered(c) <=> \E n \in Names : clients[n] = c
    BY <1>1 DEF Listed
  <2>2. ASSUME NEW c \in Conns
        PROVE  Seated(c) <=> \E k \in RoomKeys, n \in Names : members[k][n] = c
    <3>1. CASE Seated(c)
      <4>1. roomOf[c] \in RoomKeys /\ username[c] \in Names
        BY <1>1, <3>1, SeatedRoom DEF Listed, Frame, TypeOK
      <4> QED BY <1>1, <3>1, <4>1 DEF Listed
    <3>2. CASE ~ Seated(c)
      BY <1>1, <3>2 DEF Listed
    <3> QED BY <3>1, <3>2
  <2> QED BY <2>1, <2>2 DEF IndexesExact
<1> QED BY <1>1, ListedInvariant, PTL

-----------------------------------------------------------------------------
(* Where nobody moves to another room either. *)

Staying == Inputs \cap {"switch", "create"} = {}

(* The steps of a switch, and the admissions a moderator owes. *)
MovingOrPaying ==
  {"swRecord", "swMove", "swCheck", "swAdmit", "swDelete", "mCheck", "mAdmit"}

(* Nobody is at one of them, and who has left a room still names it. *)
Settled ==
  /\ \A a \in Actors : pc[a] \notin MovingOrPaying
  /\ \A c \in Conns :
       pc[c] \in SeatedAt \cup {"clRecord", "clCheck", "clAdmit"}
         => roomOf[c] # NoRoom

(* Who has been in a room, and whose departure from it has been answered. *)
Entered == {c \in Conns : roomOf[c] # NoRoom}
Answered == {"clDelete", "closing", "done"}
Gone == {c \in Entered : pc[c] \in Answered}

(* Every admission so far is paid for by a departure of its own. *)
Counted ==
  /\ IsFiniteSet(Entered) /\ IsFiniteSet(admit)
  /\ Cardinality(admit) <= Cardinality(Gone)

(* Only those who entered can have gone. *)
LEMMA GoneFinite ==
  ASSUME Counted
  PROVE  IsFiniteSet(Gone) /\ Cardinality(Gone) \in Nat
         /\ Cardinality(admit) \in Nat
BY FS_Subset, FS_CardinalityType DEF Counted, Gone

(* Without an admission nothing is to be paid. *)
LEMMA NoneAdmitted ==
  ASSUME Counted, UNCHANGED admit, IsFiniteSet(Entered'), Gone \subseteq Gone'
  PROVE  Counted'
<1>1. IsFiniteSet(Gone') /\ Cardinality(Gone) <= Cardinality(Gone')
  <2>1. IsFiniteSet(Gone')
    BY FS_Subset DEF Gone
  <2> QED BY <2>1, FS_Subset
<1>2. Cardinality(Gone') \in Nat
  BY <1>1, FS_CardinalityType
<1> QED BY <1>1, <1>2, GoneFinite DEF Counted

(* A departure that admits one. *)
LEMMA OneAdmitted ==
  ASSUME Counted, NEW c \in Entered, NEW x, admit' \subseteq admit \cup {x},
         Entered' = Entered, c \notin Gone, Gone' = Gone \cup {c}
  PROVE  Counted'
<1>1. IsFiniteSet(admit \cup {x})
      /\ Cardinality(admit \cup {x}) <= Cardinality(admit) + 1
  <2>1. IsFiniteSet(admit) /\ Cardinality(admit) \in Nat
    BY GoneFinite DEF Counted
  <2>2. /\ IsFiniteSet(admit \cup {x})
        /\ Cardinality(admit \cup {x}) =
             IF x \in admit THEN Cardinality(admit) ELSE Cardinality(admit) + 1
    BY <2>1, FS_AddElement
  <2> QED BY <2>1, <2>2
<1>2. IsFiniteSet(admit') /\ Cardinality(admit') <= Cardinality(admit \cup {x})
  <2>1. admit' \in SUBSET (admit \cup {x})
    OBVIOUS
  <2> QED BY <1>1, <2>1, FS_Subset
<1>3. Cardinality(Gone') = Cardinality(Gone) + 1
  BY GoneFinite, FS_AddElement
<1>4. Cardinality(admit') \in Nat /\ Cardinality(admit \cup {x}) \in Nat
  BY <1>1, <1>2, FS_CardinalityType
<1> QED BY <1>1, <1>2, <1>3, <1>4, GoneFinite DEF Counted

(* A handler's move that leaves its room as it is. *)
LEMMA MoveCounted ==
  ASSUME Frame, Counted, NEW a \in Actors, NEW to,
         pc' = pc \/ pc' = [pc EXCEPT ![a] = to],
         pc[a] \in Answered => to \in Answered,
         UNCHANGED <<roomOf, admit>>
  PROVE  Counted'
<1>1. \A c \in Conns : pc'[c] = pc[c] \/ (c = a /\ pc'[c] = to)
  BY DEF Frame, TypeOK, Actors
<1>2. Entered' = Entered /\ Gone \subseteq Gone'
  BY <1>1 DEF Entered, Gone
<1> QED BY <1>2, NoneAdmitted DEF Counted

(* A client moves into a room: one more has entered. *)
LEMMA JoinCounted ==
  ASSUME Frame, Counted, NEW c \in Conns, NEW r \in Rooms, NEW to,
         roomOf' = [roomOf EXCEPT ![c] = r],
         pc[c] \notin Answered, pc' = [pc EXCEPT ![c] = to], UNCHANGED admit
  PROVE  Counted'
<1>1. \A d \in Conns : /\ d # c => pc'[d] = pc[d] /\ roomOf'[d] = roomOf[d]
                       /\ roomOf'[c] = r
  BY DEF Frame, TypeOK, Actors
<1>2. Entered' = Entered \cup {c}
  BY <1>1, RegistryAssumption DEF Entered, RegistryAssumption
<1>3. Gone \subseteq Gone'
  BY <1>1 DEF Gone, Entered
<1> QED BY <1>2, <1>3, NoneAdmitted, FS_AddElement DEF Counted

(* admitFromRoomQueue admits at most one. *)
LEMMA AdmitsOne ==
  ASSUME NEW k, AdmitFromRoomQueue(k)
  PROVE  \E x : admit' \subseteq admit \cup {x}
<1>1. CASE UNCHANGED admit
  BY <1>1
<1>2. ASSUME NEW i, admit' = admit \cup {queue[k][i]}
      PROVE  \E x : admit' \subseteq admit \cup {x}
  BY <1>2
<1> QED BY <1>1, <1>2, Zenon DEF AdmitFromRoomQueue

(* One step of a handler that has not reached its session. *)
LEMMA OnboardingCounted ==
  ASSUME Frame, Settled, Counted, NEW c \in Conns,
         OnboardingStep(c) \/ OnboardingInput(c)
  PROVE  Settled' /\ Counted'
<1> DEFINE Elsewhere ==
      \/ RejectConnection(c) \/ AcceptConnection(c) \/ CheckRoomCapacity(c)
      \/ JoinQueue(c) \/ Admitted(c) \/ Abort(c) \/ RecordJoin(c)
      \/ Finish(c) \/ TrackClient(c)
      \/ (\E n \in Names : RegisterName(c, n)) \/ NameReadError(c)
      \/ (\E r \in Rooms : ChooseRoom(c, r))
      \/ RoomReadError(c) \/ AnswerYes(c) \/ Decline(c) \/ StopWaiting(c)
<1>1. CASE Elsewhere
  <2>1. UNCHANGED <<roomOf, admit>>
    BY <1>1 DEF RejectConnection, AcceptConnection, CheckRoomCapacity,
         JoinQueue, Enqueue, Admitted, Abort, RecordJoin, Finish, TrackClient,
         RegisterName, NameReadError, ChooseRoom, RoomReadError, AnswerYes,
         Decline, StopWaiting, lobby, identity
  <2>2. PICK to :
          /\ pc' = [pc EXCEPT ![c] = to]
          /\ pc[c] \in Answered => to \in Answered
          /\ to \notin MovingOrPaying
          /\ to \in SeatedAt \cup {"clRecord", "clCheck", "clAdmit"}
               => pc[c] \in SeatedAt
    BY <1>1 DEF RejectConnection, AcceptConnection, CheckRoomCapacity,
         JoinQueue, Admitted, Abort, RecordJoin, Finish, TrackClient,
         RegisterName, NameReadError, ChooseRoom, RoomReadError, AnswerYes,
         Decline, StopWaiting, Goto, Answered, MovingOrPaying, SeatedAt,
         InSession
  <2>3. Counted'
    BY <2>1, <2>2, MoveCounted DEF Actors
  <2>4. Settled'
    BY <2>1, <2>2 DEF Settled, Frame, TypeOK, Actors
  <2> QED BY <2>3, <2>4
<1>2. CASE JoinFirstRoom(c)
  <2>1. /\ want[c] \in Rooms /\ pc[c] = "join" /\ UNCHANGED admit
        /\ roomOf' = [roomOf EXCEPT ![c] = want[c]]
        /\ pc' = [pc EXCEPT ![c] = "joined"]
    BY <1>2 DEF JoinFirstRoom, JoinRoom, Goto, Frame, Destined, lobby
  <2>2. Counted'
    BY <2>1, JoinCounted DEF Answered
  <2>3. Settled'
    BY <2>1, RegistryAssumption
       DEF RegistryAssumption, Settled, MovingOrPaying, Frame, TypeOK, Actors
  <2> QED BY <2>2, <2>3
<1> QED BY <1>1, <1>2 DEF OnboardingStep, OnboardingInput

(* One step of a handler in its session, or of its heartbeat. *)
LEMMA SessionCounted ==
  ASSUME Staying, Frame, Settled, Calm, Counted, NEW c \in Conns,
         SessionStep(c) \/ SessionInput(c)
  PROVE  Settled' /\ Counted'
<1> DEFINE Elsewhere ==
      \/ HeartbeatDrop(c) \/ ReadLine(c) \/ ReadError(c) \/ NoEffect(c)
      \/ Quit(c) \/ Chat(c) \/ (\E n \in Names : Rename(c, n))
      \/ RecordRename(c) \/ Cleanup(c) \/ CleanupRemove(c)
      \/ CleanupRecord(c) \/ AdmitCheck(c, "clCheck", "clAdmit", "clDelete")
      \/ DeleteRoom(c, "clDelete", "closing")
<1>1. /\ pc[c] \notin MovingOrPaying /\ reason[c] \notin Moderated
      /\ c \in Actors
  BY DEF Settled, Calm, Actors
<1>2. CASE Elsewhere
  <2>1. UNCHANGED <<roomOf, admit>>
    BY <1>2 DEF HeartbeatDrop, ReadLine, ReadError, NoEffect, Quit, Chat,
         Rename, RecordRename, Cleanup, CleanupRemove, CleanupRecord,
         AdmitCheck, DeleteRoom, lobby, identity
  <2>2. PICK to :
          /\ pc' = pc \/ pc' = [pc EXCEPT ![c] = to]
          /\ pc[c] \in Answered => to \in Answered
          /\ to \notin MovingOrPaying
          /\ to \in SeatedAt \cup {"clRecord", "clCheck", "clAdmit"}
               => pc[c] \in SeatedAt \cup {"clRecord", "clCheck", "clAdmit"}
    BY <1>2 DEF HeartbeatDrop, ReadLine, ReadError, NoEffect, Quit, Chat,
         Rename, RecordRename, Cleanup, CleanupRemove, CleanupRecord,
         AdmitCheck, DeleteRoom, Goto, Answered, MovingOrPaying, SeatedAt,
         InSession
  <2>3. Counted'
    BY <1>1, <2>1, <2>2, MoveCounted
  <2>4. Settled'
    BY <2>1, <2>2 DEF Settled, Frame, TypeOK, Actors
  <2> QED BY <2>3, <2>4
<1>3. CASE AdmitNext(c, "clAdmit", "clDelete")
  <2>1. /\ pc[c] = "clAdmit" /\ pc' = [pc EXCEPT ![c] = "clDelete"]
        /\ roomOf' = roomOf /\ AdmitFromRoomQueue(want[c])
    BY <1>3 DEF AdmitNext, Goto, identity
  <2>2. \A d \in Conns : pc'[d] = IF d = c THEN "clDelete" ELSE pc[d]
    BY <2>1 DEF Frame, TypeOK, Actors
  <2>3. c \in Entered /\ c \notin Gone /\ Entered' = Entered
    BY <2>1 DEF Settled, Entered, Gone, Answered
  <2>4. Gone' = Gone \cup {c}
    BY <2>1, <2>2, <2>3 DEF Gone, Answered
  <2>5. Counted'
    BY <2>1, <2>3, <2>4, AdmitsOne, OneAdmitted
  <2>6. Settled'
    BY <2>1, <2>2 DEF Settled, MovingOrPaying, SeatedAt, InSession, Frame,
                      TypeOK, Actors
  <2> QED BY <2>5, <2>6
<1>4. ~ \/ \E r \in Rooms : Switch(c, r) \/ Create(c, r)
        \/ SwitchRecord(c) \/ SwitchMove(c)
        \/ AdmitCheck(c, "swCheck", "swAdmit", "swDelete")
        \/ AdmitNext(c, "swAdmit", "swDelete")
        \/ DeleteRoom(c, "swDelete", "joined")
  BY <1>1 DEF Staying, Switch, Create, SwitchRecord, SwitchMove, AdmitCheck,
              AdmitNext, DeleteRoom, Goto, MovingOrPaying
<1> QED
  BY <1>2, <1>3, <1>4
     DEF SessionStep, SessionInput, LineStep, SwitchStep, CleanupStep

(* One step of a command: without a kick or a ban no slot is owed. *)
LEMMA ModerationCounted ==
  ASSUME Peaceful, Frame, Settled, Calm, Counted, NEW p \in Moderators,
         ModerationStep(p) \/ ModerationInput(p)
  PROVE  Settled' /\ Counted'
<1>1. roomOf' = roomOf
  BY ModerationCalm
<1>2. /\ p \in Actors /\ pc[p] \notin MovingOrPaying
      /\ pc[p] \notin Throwing /\ mod[p].kind \notin Thrower
  BY RegistryAssumption
     DEF RegistryAssumption, Settled, Calm, Moderators, Actors
<1>3. UNCHANGED admit
  BY <1>2 DEF ModerationStep, ModerationInput, NotInYourRoom, Mark,
       RemoveTarget, RecordModeration, CloseTarget, BlockHost, CollectByIP,
       MarkCollateral, NoMoreCollateral, RemoveQueued, DropQueued, AdmitOwed,
       RecordAnnouncement, AdmitForSlot, NothingOwed, RecordNote, LookUp,
       Annotate, LookUpQueued, Announce, Goto, MovingOrPaying, lobby
<1> DEFINE Apart == \A a \in Actors : pc'[a] \notin MovingOrPaying
<1>4. ASSUME NEW to, to \notin MovingOrPaying,
             pc' = pc \/ pc' = [pc EXCEPT ![p] = to]
      PROVE  Apart
  BY <1>2, <1>4 DEF Settled, Frame, TypeOK
<1> HIDE DEF Apart
<1>5. EndCommand(p) => Apart
  <2>1. (IF p = Operator THEN "op" ELSE "active") \notin MovingOrPaying
    BY DEF MovingOrPaying
  <2> QED BY <1>4, <2>1, Zenon DEF EndCommand
<1>6. Apart
  <2>1. \A to \in {"mMark", "mNote", "mQueue", "mAnnounce", "mDrop", "mBlock"} :
          to \notin MovingOrPaying
    BY DEF MovingOrPaying
  <2>2. CASE BlockHost(p) \/ NothingOwed(p) \/ RecordNote(p) \/ NotInYourRoom(p)
    BY <1>2, <1>5, <2>2 DEF BlockHost, NothingOwed, RecordNote,
         NotInYourRoom, MovingOrPaying, Throwing, Thrower
  <2>3. CASE RemoveQueued(p)
    <3>1. EndCommand(p) \/ Step(p, "mDrop")
      BY <2>3, Zenon DEF RemoveQueued
    <3> QED BY <1>4, <1>5, <2>1, <3>1 DEF Step
  <2>4. CASE DropQueued(p)
    <3>1. pc' = [pc EXCEPT ![p] = "mBlock"]
      BY <1>2, <2>4 DEF DropQueued, Goto, Thrower
    <3> QED BY <1>4, <2>1, <3>1
  <2>5. CASE \E k \in RoomKeys : RecordAnnouncement(p, k)
    <3>1. EndCommand(p) \/ UNCHANGED pc
      BY <2>5, Zenon DEF RecordAnnouncement
    <3> QED BY <1>4, <1>5, <2>1, <3>1
  <2>6. CASE ModerationInput(p)
    <3>1. \E to \in {"mMark", "mNote", "mQueue", "mAnnounce"} : Step(p, to)
      BY <2>6 DEF ModerationInput, LookUp, Annotate, LookUpQueued, Announce
    <3> QED BY <1>4, <2>1, <3>1 DEF Step
  <2>7. ~ \/ Mark(p) \/ RemoveTarget(p) \/ RecordModeration(p)
          \/ CloseTarget(p) \/ CollectByIP(p)
          \/ (\E c \in Conns : MarkCollateral(p, c)) \/ NoMoreCollateral(p)
          \/ (\E k \in RoomKeys : AdmitOwed(p, k)) \/ AdmitForSlot(p)
    BY <1>2 DEF Mark, RemoveTarget, RecordModeration, CloseTarget,
         CollectByIP, MarkCollateral, NoMoreCollateral, AdmitOwed,
         AdmitForSlot, Goto, MovingOrPaying, Throwing
  <2> QED
    BY <2>2, <2>3, <2>4, <2>5, <2>6, <2>7 DEF ModerationStep
<1>7. ASSUME NEW c \in Conns, c \in Gone PROVE c \in Gone'
  BY <1>1, <1>7, ModeratorStays DEF Gone, Entered, Answered, InSession
<1>8. Counted'
  BY <1>1, <1>3, <1>7, NoneAdmitted DEF Gone, Entered, Counted
<1>9. Settled'
  BY <1>1, <1>6, ModeratorStays DEF Settled, SeatedAt, Apart
<1> QED BY <1>8, <1>9

(* Every step keeps the balance. *)
LEMMA CountedNext ==
  ASSUME Peaceful, Staying, Frame, Calm, Settled, Counted, [Next]_vars
  PROVE  Settled' /\ Counted'
<1>1. CASE BeginShutdown \/ ForceClose \/ UNCHANGED vars
  <2>1. UNCHANGED <<roomOf, pc, admit>>
    BY <1>1 DEF BeginShutdown, ForceClose, vars, identity, lobby
  <2> QED BY <2>1 DEF Settled, Counted, Entered, Gone
<1> QED
  BY <1>1, OnboardingCounted, SessionCounted, ModerationCounted
     DEF Next, Idle

(* Nobody has entered at the start. *)
LEMMA CountedInit ==
  ASSUME RegistryInit
  PROVE  Settled /\ Counted
<1>1. Entered = {} /\ admit = {} /\ Gone = {}
  BY DEF RegistryInit, Entered, Gone
<1>2. Settled
  BY RegistryAssumption DEF RegistryInit, RegistryAssumption, Settled, Actors,
       MovingOrPaying, SeatedAt, InSession
<1> QED BY <1>1, <1>2, FS_EmptySet DEF Counted

(* Where nobody is kicked or banned by name and nobody moves on to another *)
(* room, the departures from rooms pay for the admissions: at most one     *)
(* waiting user is let in for each, however hang-ups, refusals, bans of    *)
(* queued users and Shutdown interleave with the handlers that leave.      *)
THEOREM OneForOne ==
  ASSUME Peaceful, Staying
  PROVE  Spec => []OneAdmissionPerDeparture
<1> DEFINE Inv == Frame /\ Index /\ Calm /\ Listed
           Balance == Settled /\ Counted
<1>1. RegistryInit => Balance
  BY CountedInit
<1>2. Inv /\ Balance /\ [Next]_vars => Balance'
  BY CountedNext
<1>3. Inv /\ Balance => OneAdmissionPerDeparture
  <2> SUFFICES ASSUME Inv, Balance PROVE OneAdmissionPerDeparture
    OBVIOUS
  <2> DEFINE D == {c \in Conns : Departed(c)}
  <2>1. Gone \subseteq D
    BY DEF Listed, Gone, Entered, Answered, Departed, Seated, InSession
  <2>2. IsFiniteSet(D)
    BY FS_Subset DEF Counted, Departed, Entered
  <2>3. Cardinality(Gone) <= Cardinality(D) /\ Cardinality(D) \in Nat
    BY <2>1, <2>2, FS_Subset, FS_CardinalityType
  <2> QED BY <2>3, GoneFinite DEF OneAdmissionPerDeparture, Counted
<1>4. Spec => []Inv
  BY ListedInvariant
<1> QED BY <1>1, <1>2, <1>3, <1>4, PTL DEF Spec

-----------------------------------------------------------------------------
(* Where nobody is kicked or banned by name and no event is recorded for   *)
(* somebody else's room, as long as nobody has to queue.                   *)

Unannounced == Inputs \cap {"note", "announce"} = {}

NobodyQueues == \A k \in RoomKeys : queue[k] = <<>>

(* A handler on its way out of a room, until it has tried to delete it. *)
Leaving ==
  {"swCheck", "swAdmit", "swDelete", "clRecord", "clCheck", "clAdmit",
   "clDelete"}

(* Every room has somebody in it, or somebody who will look whether it is
   empty. *)
Tended(k) ==
  Occupants(k) # {} \/ \E c \in Conns : pc[c] \in Leaving /\ want[c] = k
AllTended == \A k \in rooms \ (Recovered \cup {DefaultRoom}) : Tended(k)

(* A cleanup has noted the room it takes the client from; no command that
   records for others is under way. *)
Noted ==
  /\ \A c \in Conns : pc[c] = "clRemove" => want[c] = roomOf[c]
  /\ \A p \in Moderators : pc[p] \notin {"mNote", "mAnnounce"}

(* Nobody stops tending a room. *)
StillTending ==
  \A c \in Conns : pc[c] \in Leaving =>
                     pc'[c] \in Leaving /\ want'[c] = want[c]

(* A step that empties no room and ends nobody's leave. *)
LEMMA TendedKept ==
  ASSUME AllTended, UNCHANGED members, StillTending, rooms' \subseteq rooms
  PROVE  AllTended'
<1>1. ASSUME NEW k, Tended(k) PROVE Tended(k)'
  BY <1>1 DEF Tended, Occupants, StillTending
<1> QED BY <1>1 DEF AllTended

(* Who is in a room occupies it. *)
LEMMA SeatedOccupies ==
  ASSUME Frame, Index, Listed, NEW c \in Conns, Seated(c)
  PROVE  roomOf[c] \in rooms /\ Occupants(roomOf[c]) # {}
<1>1. username[c] \in Names /\ members[roomOf[c]][username[c]] = c
      /\ roomOf[c] \in rooms /\ c # None
  BY SeatedRoom, RegistryAssumption DEF Listed, RegistryAssumption
<1> QED BY <1>1 DEF Occupants

(* Whoever records an event for his own room adds none. *)
LEMMA OwnRecord ==
  ASSUME Frame, Index, Listed, NEW c \in Conns, Seated(c),
         RecordRoomEvent(roomOf[c])
  PROVE  rooms' = rooms
BY SeatedOccupies DEF RecordRoomEvent

(* A move into a room: the new one is occupied; if the old one is empty now
   the handler that left it is on its way to delete it. *)
LEMMA JoinTended ==
  ASSUME Frame, Index, Listed, AllTended, NEW c \in Conns, NEW r \in Rooms,
         Registered(c), JoinRoom(c, r),
         pc[c] \notin Leaving, NEW to, pc' = [pc EXCEPT ![c] = to],
         \A d \in Conns \ {c} : want'[d] = want[d],
         Seated(c) => to \in Leaving /\ want'[c] = roomOf[c]
  PROVE  AllTended'
<1> DEFINE n == username[c]
<1>1. /\ n \in Names /\ clients[n] = c /\ c # None
      /\ r \in RoomKeys /\ rooms' = rooms \cup {r}
  BY RegistryAssumption DEF Listed, RegistryAssumption, JoinRoom, RoomKeys
<1>2. \A k \in RoomKeys, j \in Names :
        members'[k][j] = IF j = n /\ k = r THEN c
                         ELSE IF j = n /\ k = roomOf[c] THEN None
                         ELSE members[k][j]
  BY DEF JoinRoom, Frame, TypeOK
<1>3. \A d \in Conns : /\ d # c => pc'[d] = pc[d] /\ want'[d] = want[d]
                       /\ pc'[c] = to
  BY DEF Frame, TypeOK, Actors
<1>4. n \in Occupants(r)'
  BY <1>1, <1>2 DEF Occupants
<1>5. ASSUME NEW k \in rooms \ (Recovered \cup {DefaultRoom}), k # r
      PROVE  Tended(k)'
  <2>1. k \in RoomKeys
    BY DEF Frame, TypeOK
  <2>2. CASE \E d \in Conns : pc[d] \in Leaving /\ want[d] = k
    BY <2>2, <1>3 DEF Tended
  <2>3. ASSUME NEW j \in Occupants(k) PROVE Tended(k)'
    <3>1. j \in Names /\ members[k][j] # None /\ members[k][j] \in Conns
      BY <2>1, <2>3, MemberTyped DEF Occupants
    <3>2. CASE members'[k][j] # None
      BY <3>1, <3>2 DEF Tended, Occupants
    <3>3. CASE members'[k][j] = None
      <4>1. j = n /\ k = roomOf[c]
        BY <2>1, <3>1, <3>3, <1>1, <1>2
      <4>2. Registered(members[k][j]) /\ username[members[k][j]] = n
            /\ Seated(members[k][j])
        BY <2>1, <3>1, <4>1
           DEF Listed, Index, MembershipConsistent, Registered, Seated
      <4>3. members[k][j] = c
        BY <3>1, <4>2, NamesDiffer
      <4>4. to \in Leaving /\ want'[c] = k
        BY <4>1, <4>2, <4>3
      <4> QED BY <4>4, <1>3 DEF Tended
    <3> QED BY <3>2, <3>3
  <2> QED BY <2>2, <2>3 DEF AllTended, Tended
<1> QED BY <1>1, <1>4, <1>5 DEF AllTended, Tended

(* A handler takes its client out: its room has that handler to delete it. *)
LEMMA RemoveTended ==
  ASSUME Frame, Index, Listed, AllTended, NEW c \in Conns, Registered(c),
         RemoveClient(username[c]), UNCHANGED <<rooms, want>>,
         pc[c] \notin Leaving, NEW to, pc' = [pc EXCEPT ![c] = to],
         Seated(c) => to \in Leaving /\ want[c] = roomOf[c]
  PROVE  AllTended'
<1> DEFINE n == username[c]
<1>1. n \in Names /\ clients[n] = c /\ c # None
  BY RegistryAssumption DEF Listed, RegistryAssumption
<1>2. \A k \in RoomKeys, j \in Names :
        members'[k][j] = members[k][j]
          \/ (k = roomOf[c] /\ j = n /\ members'[k][j] = None)
  BY <1>1 DEF RemoveClient, Frame, TypeOK
<1>3. \A d \in Conns : /\ d # c => pc'[d] = pc[d]
                       /\ pc'[c] = to
  BY DEF Frame, TypeOK, Actors
<1>4. ASSUME NEW k \in rooms \ (Recovered \cup {DefaultRoom})
      PROVE  Tended(k)'
  <2>1. k \in RoomKeys
    BY DEF Frame, TypeOK
  <2>2. CASE \E d \in Conns : pc[d] \in Leaving /\ want[d] = k
    BY <2>2, <1>3 DEF Tended
  <2>3. ASSUME NEW j \in Occupants(k) PROVE Tended(k)'
    <3>1. j \in Names /\ members[k][j] # None /\ members[k][j] \in Conns
      BY <2>1, <2>3, MemberTyped DEF Occupants
    <3>2. CASE members'[k][j] # None
      BY <3>1, <3>2 DEF Tended, Occupants
    <3>3. CASE members'[k][j] = None
      <4>1. j = n /\ k = roomOf[c]
        BY <2>1, <3>1, <3>3, <1>2
      <4>2. Registered(members[k][j]) /\ username[members[k][j]] = n
            /\ Seated(members[k][j])
        BY <2>1, <3>1, <4>1
           DEF Listed, Index, MembershipConsistent, Registered, Seated
      <4>3. members[k][j] = c
        BY <3>1, <4>2, NamesDiffer
      <4> QED BY <4>1, <4>2, <4>3, <1>3 DEF Tended
    <3> QED BY <3>2, <3>3
  <2> QED BY <2>2, <2>3 DEF AllTended, Tended
<1> QED BY <1>4 DEF AllTended

(* A rename leaves its client in the room. *)
LEMMA RenameTended ==
  ASSUME Frame, Index, Listed, AllTended, NEW c \in Conns, NEW new \in Names,
         Seated(c), RenameClient(c, new), UNCHANGED <<rooms, roomOf>>,
         StillTending
  PROVE  AllTended'
<1> DEFINE k == roomOf[c]
<1>1. k \in rooms \ {NoRoom} /\ k \in RoomKeys /\ c # None
  BY SeatedRoom, RegistryAssumption DEF RegistryAssumption, Frame, TypeOK
<1>2. \A l \in RoomKeys, j \in Names :
        /\ l # k => members'[l][j] = members[l][j]
        /\ members'[k][new] = c
  BY <1>1 DEF RenameClient, Frame, TypeOK
<1>3. Occupants(k)' # {}
  BY <1>1, <1>2 DEF Occupants
<1>4. ASSUME NEW l \in RoomKeys, l # k, Tended(l) PROVE Tended(l)'
  <2>1. Occupants(l)' = Occupants(l)
    BY <1>2, <1>4 DEF Occupants
  <2> QED BY <1>4, <2>1 DEF Tended, StillTending
<1> QED BY <1>3, <1>4 DEF AllTended, Tended, Frame, TypeOK

(* A room that is left behind empty is deleted. *)
LEMMA DeleteTended ==
  ASSUME Frame, AllTended, NobodyQueues, NEW c \in Conns,
         DeleteRoomIfEmpty(want[c]), UNCHANGED <<members, want>>,
         NEW to, pc' = [pc EXCEPT ![c] = to]
  PROVE  AllTended'
<1>1. rooms' \subseteq rooms
  BY DEF DeleteRoomIfEmpty
<1>2. \A d \in Conns : d # c => pc'[d] = pc[d]
  BY DEF Frame, TypeOK, Actors
<1>3. ASSUME NEW k \in rooms' \ (Recovered \cup {DefaultRoom})
      PROVE  Tended(k)'
  <2>1. CASE k = want[c]
    <3>1. Occupants(k) # {}
      BY <2>1, <1>3 DEF DeleteRoomIfEmpty, NobodyQueues, Frame, TypeOK
    <3> QED BY <3>1 DEF Tended, Occupants
  <2>2. CASE k # want[c]
    BY <2>2, <1>1, <1>2 DEF AllTended, Tended, Occupants
  <2> QED BY <2>1, <2>2
<1> QED BY <1>3 DEF AllTended

(* From one program counter to the next on the way out, or elsewhere. *)
LEMMA TendingKept ==
  ASSUME Frame, NEW c \in Conns, NEW to,
         pc' = pc \/ pc' = [pc EXCEPT ![c] = to],
         pc[c] \in Leaving => to \in Leaving /\ want'[c] = want[c],
         \A d \in Conns \ {c} : want'[d] = want[d],
         pc' = pc => want' = want
  PROVE  StillTending
<1>1. \A d \in Conns : pc'[d] = pc[d] \/ (d = c /\ pc'[d] = to)
  BY DEF Frame, TypeOK, Actors
<1> QED BY <1>1 DEF StillTending, Leaving

(* One step of a handler that has not reached its session. *)
LEMMA OnboardingTended ==
  ASSUME Frame, Index, Listed, Noted, AllTended, NobodyQueues, NobodyQueues',
         NEW c \in Conns, OnboardingStep(c) \/ OnboardingInput(c)
  PROVE  Noted' /\ AllTended'
<1>1. mod' = mod /\ c \in Actors
  BY DEF OnboardingStep, OnboardingInput, RejectConnection, AcceptConnection,
       CheckRoomCapacity, JoinQueue, Admitted, Abort, JoinFirstRoom,
       RecordJoin, Finish, TrackClient, RegisterName, NameReadError,
       ChooseRoom, RoomReadError, AnswerYes, Decline, StopWaiting, locals,
       Actors
<1>2. PICK to : /\ pc' = [pc EXCEPT ![c] = to]
                /\ to \notin {"clRemove", "mNote", "mAnnounce"}
  BY DEF OnboardingStep, OnboardingInput, RejectConnection, AcceptConnection,
       CheckRoomCapacity, JoinQueue, Admitted, Abort, JoinFirstRoom,
       RecordJoin, Finish, TrackClient, RegisterName, NameReadError,
       ChooseRoom, RoomReadError, AnswerYes, Decline, StopWaiting, Goto
<1>3. pc[c] \notin Leaving \cup {"clRemove"}
  BY DEF OnboardingStep, OnboardingInput, RejectConnection, AcceptConnection,
       CheckRoomCapacity, JoinQueue, Admitted, Abort, JoinFirstRoom,
       RecordJoin, Finish, TrackClient, RegisterName, NameReadError,
       ChooseRoom, RoomReadError, AnswerYes, Decline, StopWaiting, Goto,
       Leaving
<1>4. \A d \in Conns \ {c} : want'[d] = want[d] /\ roomOf'[d] = roomOf[d]
  BY DEF OnboardingStep, OnboardingInput, RejectConnection, AcceptConnection,
       CheckRoomCapacity, JoinQueue, Admitted, Abort, JoinFirstRoom, JoinRoom,
       RecordJoin, Finish, TrackClient, RegisterName, NameReadError,
       ChooseRoom, RoomReadError, AnswerYes, Decline, StopWaiting, Forget,
       locals, identity, Frame, TypeOK
<1>5. Noted'
  <2>1. \A a \in Actors : pc'[a] = IF a = c THEN to ELSE pc[a]
    BY <1>1, <1>2 DEF Frame, TypeOK
  <2>2. Moderators \subseteq Actors
    BY RegistryAssumption DEF RegistryAssumption, Moderators, Actors
  <2> QED BY <1>2, <1>4, <2>1, <2>2 DEF Noted, Actors
<1>6. StillTending
  <2>1. \A d \in Conns : d # c => pc'[d] = pc[d]
    BY <1>2 DEF Frame, TypeOK, Actors
  <2> QED BY <1>3, <1>4, <2>1 DEF StillTending
<1>7. CASE JoinFirstRoom(c)
  <2>1. /\ want[c] \in Rooms /\ Registered(c) /\ ~ Seated(c)
    BY <1>7 DEF JoinFirstRoom, Goto, Frame, Destined, Registered, Seated,
                InSession
  <2> QED
    BY <1>2, <1>3, <1>4, <1>5, <1>7, <2>1, JoinTended DEF JoinFirstRoom
<1>8. CASE Abort(c)
  <2>1. Registered(c) /\ ~ Seated(c)
    BY <1>8 DEF Abort, Goto, Registered, Seated, InSession
  <2> QED BY <1>2, <1>3, <1>5, <1>8, <2>1, RemoveTended DEF Abort, locals
<1>9. CASE RecordJoin(c)
  <2>1. Seated(c)
    BY <1>9 DEF RecordJoin, Goto, Seated
  <2>2. rooms' = rooms
    BY <1>9, <2>1, OwnRecord DEF RecordJoin
  <2> QED BY <1>5, <1>6, <1>9, <2>2, TendedKept DEF RecordJoin
<1>10. ~ JoinQueue(c)
  <2>1. ASSUME NEW r \in RoomKeys, Enqueue(c, r) PROVE FALSE
    <3>1. queue'[r] = Append(queue[r], c) /\ queue[r] \in Seq(Conns)
      BY <2>1 DEF Enqueue, Frame, TypeOK
    <3>2. Len(queue'[r]) = Len(queue[r]) + 1 /\ Len(queue[r]) \in Nat
      BY <3>1
    <3>3. queue'[r] = <<>>
      BY DEF NobodyQueues
    <3> QED BY <3>2, <3>3
  <2> QED BY <2>1 DEF JoinQueue, Frame, TypeOK
<1>11. CASE \/ RejectConnection(c) \/ AcceptConnection(c)
            \/ CheckRoomCapacity(c) \/ Admitted(c) \/ Finish(c)
            \/ TrackClient(c) \/ (\E n \in Names : RegisterName(c, n))
            \/ NameReadError(c) \/ (\E r \in Rooms : ChooseRoom(c, r))
            \/ RoomReadError(c) \/ AnswerYes(c) \/ Decline(c)
            \/ StopWaiting(c)
  <2>1. UNCHANGED <<members, rooms>>
    BY <1>11 DEF RejectConnection, AcceptConnection, CheckRoomCapacity,
         Admitted, Finish, TrackClient, RegisterName, NameReadError,
         ChooseRoom, RoomReadError, AnswerYes, Decline, StopWaiting, indexes
  <2> QED BY <1>5, <1>6, <2>1, TendedKept
<1> QED
  BY <1>5, <1>7, <1>8, <1>9, <1>10, <1>11
     DEF OnboardingStep, OnboardingInput

(* One step of a handler in its session, or of its heartbeat. *)
LEMMA SessionTended ==
  ASSUME Frame, Index, Calm, Listed, Noted, AllTended, NobodyQueues,
         NEW c \in Conns, SessionStep(c) \/ SessionInput(c)
  PROVE  Noted' /\ AllTended'
<1>1. /\ reason[c] \notin Moderated /\ c \in Actors
      /\ Moderators \subseteq Actors
  BY RegistryAssumption
     DEF RegistryAssumption, Calm, Actors, Moderators
<1> DEFINE Elsewhere ==
      \/ HeartbeatDrop(c) \/ ReadLine(c) \/ ReadError(c) \/ NoEffect(c)
      \/ Quit(c)
      \/ AdmitCheck(c, "swCheck", "swAdmit", "swDelete")
      \/ AdmitNext(c, "swAdmit", "swDelete")
      \/ AdmitCheck(c, "clCheck", "clAdmit", "clDelete")
      \/ AdmitNext(c, "clAdmit", "clDelete")
<1>2. CASE Elsewhere
  <2>1. UNCHANGED <<members, rooms, roomOf, want, mod>>
    BY <1>2 DEF HeartbeatDrop, ReadLine, ReadError, NoEffect, Quit,
         AdmitCheck, AdmitNext, indexes, identity, locals
  <2>2. PICK to : /\ pc' = pc \/ pc' = [pc EXCEPT ![c] = to]
                  /\ to \notin {"clRemove", "mNote", "mAnnounce"}
                  /\ pc[c] \in Leaving => to \in Leaving
    BY <1>2 DEF HeartbeatDrop, ReadLine, ReadError, NoEffect, Quit,
         AdmitCheck, AdmitNext, Goto, Leaving, InSession
  <2>3. StillTending
    BY <2>1, <2>2, TendingKept
  <2>4. AllTended'
    BY <2>1, <2>3, TendedKept
  <2>5. Noted'
    BY <1>1, <2>1, <2>2 DEF Noted, Frame, TypeOK, Actors
  <2> QED BY <2>4, <2>5
<1>3. CASE Chat(c) \/ RecordRename(c) \/ SwitchRecord(c)
  <2>1. /\ UNCHANGED <<members, roomOf, want, mod>>
        /\ RecordRoomEvent(roomOf[c]) /\ Seated(c)
    BY <1>3 DEF Chat, RecordRename, SwitchRecord, identity, locals, Goto,
                Seated, InSession
  <2>2. PICK to : /\ pc' = [pc EXCEPT ![c] = to]
                  /\ to \notin {"clRemove", "mNote", "mAnnounce"}
                  /\ pc[c] \notin Leaving
    BY <1>3 DEF Chat, RecordRename, SwitchRecord, Goto, Leaving
  <2>3. StillTending
    BY <2>1, <2>2, TendingKept
  <2>4. AllTended'
    BY <2>1, <2>3, OwnRecord, TendedKept
  <2>5. Noted'
    BY <1>1, <2>1, <2>2 DEF Noted, Frame, TypeOK, Actors
  <2> QED BY <2>4, <2>5
<1>4. ASSUME NEW n \in Names, Rename(c, n) PROVE Noted' /\ AllTended'
  <2>1. /\ UNCHANGED <<rooms, roomOf, want, mod>> /\ RenameClient(c, n)
        /\ pc[c] = "cmd" /\ pc' = [pc EXCEPT ![c] = "renamed"]
    BY <1>4 DEF Rename, locals, Goto
  <2>2. StillTending
    BY <2>1, TendingKept DEF Leaving
  <2>3. AllTended'
    BY <2>1, <2>2, RenameTended DEF Seated, InSession
  <2>4. Noted'
    BY <1>1, <2>1 DEF Noted, Frame, TypeOK, Actors
  <2> QED BY <2>3, <2>4
<1>5. ASSUME NEW r \in Rooms, Switch(c, r) \/ Create(c, r)
      PROVE  Noted' /\ AllTended'
  <2>1. /\ UNCHANGED <<members, rooms, roomOf, mod>>
        /\ want' = [want EXCEPT ![c] = r]
        /\ pc[c] = "cmd" /\ pc' = [pc EXCEPT ![c] = "swRecord"]
    BY <1>5 DEF Switch, Create, indexes, identity, Goto
  <2>2. \A d \in Conns \ {c} : want'[d] = want[d] /\ pc'[d] = pc[d]
    BY <2>1 DEF Frame, TypeOK, Actors
  <2>3. StillTending
    BY <2>1, <2>2 DEF StillTending, Leaving
  <2>4. AllTended'
    BY <2>1, <2>3, TendedKept
  <2>5. Noted'
    BY <1>1, <2>1, <2>2 DEF Noted, Frame, TypeOK, Actors
  <2> QED BY <2>4, <2>5
<1>6. CASE SwitchMove(c)
  <2>1. /\ want[c] \in Rooms /\ Registered(c) /\ JoinRoom(c, want[c])
        /\ pc[c] = "swMove" /\ pc' = [pc EXCEPT ![c] = "swCheck"]
        /\ want' = [want EXCEPT ![c] = roomOf[c]] /\ mod' = mod
    BY <1>6 DEF SwitchMove, Goto, Frame, Destined, Registered, InSession
  <2>2. /\ \A d \in Conns \ {c} : /\ want'[d] = want[d] /\ pc'[d] = pc[d]
                                 /\ roomOf'[d] = roomOf[d]
        /\ want'[c] = roomOf[c]
    BY <2>1 DEF Frame, TypeOK, Actors, JoinRoom
  <2>3. AllTended'
    BY <2>1, <2>2, JoinTended DEF Leaving
  <2>4. Noted'
    BY <1>1, <2>1, <2>2 DEF Noted, Frame, TypeOK, Actors
  <2> QED BY <2>3, <2>4
<1>7. CASE Cleanup(c)
  <2>1. /\ UNCHANGED <<members, rooms, roomOf, mod>>
        /\ want' = [want EXCEPT ![c] = roomOf[c]]
        /\ pc[c] = "cleanup" /\ pc' = [pc EXCEPT ![c] = "clRemove"]
    BY <1>1, <1>7 DEF Cleanup, indexes, identity, Goto
  <2>2. /\ \A d \in Conns \ {c} : want'[d] = want[d] /\ pc'[d] = pc[d]
        /\ want'[c] = roomOf[c]
    BY <2>1 DEF Frame, TypeOK, Actors
  <2>3. StillTending
    BY <2>1, <2>2 DEF StillTending, Leaving
  <2>4. AllTended'
    BY <2>1, <2>3, TendedKept
  <2>5. Noted'
    BY <1>1, <2>1, <2>2 DEF Noted, Frame, TypeOK, Actors
  <2> QED BY <2>4, <2>5
<1>8. CASE CleanupRemove(c)
  <2>1. /\ UNCHANGED <<rooms, roomOf, want, mod>> /\ Registered(c)
        /\ RemoveClient(username[c]) /\ want[c] = roomOf[c]
        /\ pc[c] = "clRemove" /\ pc' = [pc EXCEPT ![c] = "clRecord"]
    BY <1>8 DEF CleanupRemove, identity, locals, Goto, Noted, Registered
  <2>2. AllTended'
    BY <2>1, RemoveTended DEF Leaving
  <2>3. Noted'
    BY <1>1, <2>1 DEF Noted, Frame, TypeOK, Actors
  <2> QED BY <2>2, <2>3
<1>9. CASE CleanupRecord(c)
  <2>1. /\ UNCHANGED <<members, roomOf, want, mod>>
        /\ rooms' = rooms \cup {want[c]}
        /\ pc[c] = "clRecord" /\ pc' = [pc EXCEPT ![c] = "clCheck"]
    BY <1>9 DEF CleanupRecord, RecordRoomEvent, identity, locals, Goto
  <2>2. StillTending
    BY <2>1, TendingKept DEF Leaving
  <2>3. pc'[c] \in Leaving
    BY <2>1 DEF Frame, TypeOK, Actors, Leaving
  <2>4. Tended(want[c])'
    BY <2>1, <2>3 DEF Tended
  <2>5. ASSUME NEW k \in rooms \ (Recovered \cup {DefaultRoom})
        PROVE  Tended(k)'
    BY <2>1, <2>2 DEF AllTended, Tended, Occupants, StillTending
  <2>6. AllTended'
    BY <2>1, <2>3, <2>5 DEF AllTended, Tended
  <2>7. Noted'
    BY <1>1, <2>1 DEF Noted, Frame, TypeOK, Actors
  <2> QED BY <2>6, <2>7
<1>10. ASSUME NEW here, NEW next, next \in {"joined", "closing"},
              DeleteRoom(c, here, next)
       PROVE  Noted' /\ AllTended'
  <2>1. /\ UNCHANGED <<members, roomOf, want, mod>>
        /\ DeleteRoomIfEmpty(want[c]) /\ pc' = [pc EXCEPT ![c] = next]
    BY <1>10 DEF DeleteRoom, identity, locals, Goto
  <2>2. AllTended'
    BY <2>1, DeleteTended
  <2>3. Noted'
    BY <1>1, <1>10, <2>1 DEF Noted, Frame, TypeOK, Actors
  <2> QED BY <2>2, <2>3
<1> QED
  BY <1>2, <1>3, <1>4, <1>5, <1>6, <1>7, <1>8, <1>9, <1>10
     DEF SessionStep, SessionInput, LineStep, SwitchStep, CleanupStep

(* One step of a command records nothing for anybody. *)
LEMMA ModerationTended ==
  ASSUME Peaceful, Unannounced, Frame, Calm, Noted, AllTended,
         NEW p \in Moderators, ModerationStep(p) \/ ModerationInput(p)
  PROVE  Noted' /\ AllTended'
<1>1. /\ pc[p] \notin Throwing \cup {"mNote", "mAnnounce"}
      /\ p \in Actors /\ Moderators \subseteq Actors
  BY RegistryAssumption
     DEF RegistryAssumption, Calm, Noted, Actors, Moderators
<1>2. ~ \/ RemoveTarget(p) \/ RecordModeration(p) \/ RecordNote(p)
        \/ (\E k \in RoomKeys : RecordAnnouncement(p, k))
        \/ (\E n \in Names : Annotate(p, n)) \/ Announce(p)
  BY <1>1 DEF RemoveTarget, RecordModeration, RecordNote, RecordAnnouncement,
       Annotate, Announce, Unannounced, Goto, Throwing
<1>3. UNCHANGED <<members, rooms, roomOf, want>>
  BY <1>2 DEF ModerationStep, ModerationInput, NotInYourRoom, Mark,
       CloseTarget, BlockHost, CollectByIP, MarkCollateral, NoMoreCollateral,
       RemoveQueued, DropQueued, AdmitOwed, AdmitForSlot, NothingOwed, LookUp,
       LookUpQueued, indexes, identity, locals
<1>4. StillTending
  BY <1>3, ModeratorStays DEF StillTending, Leaving, Moderating
<1>5. AllTended'
  BY <1>3, <1>4, TendedKept
<1>6. \A q \in Moderators : pc'[q] \notin {"mNote", "mAnnounce"}
  <2>1. ASSUME NEW to, to \notin {"mNote", "mAnnounce"},
               pc' = pc \/ pc' = [pc EXCEPT ![p] = to]
        PROVE  \A q \in Moderators : pc'[q] \notin {"mNote", "mAnnounce"}
    BY <1>1, <2>1 DEF Noted, Frame, TypeOK
  <2>2. EndCommand(p) => \E to \in {"op", "active"} :
                           pc' = [pc EXCEPT ![p] = to]
    BY DEF EndCommand
  <2>3. \E to \in {"op", "active", "mMark", "mQueue", "mDrop", "mBlock",
                   "mCheck", "mAdmit", "mRemove", "mRecord", "mClose",
                   "mCollect", "mNext"} :
          pc' = pc \/ pc' = [pc EXCEPT ![p] = to]
    BY <1>2, <2>2
       DEF ModerationStep, ModerationInput, NotInYourRoom, Mark, CloseTarget,
           BlockHost, CollectByIP, MarkCollateral, NoMoreCollateral,
           RemoveQueued, DropQueued, AdmitOwed, AdmitForSlot, NothingOwed,
           LookUp, LookUpQueued, Step, Goto
  <2> QED BY <2>1, <2>3
<1>7. Noted'
  BY <1>3, <1>6, ModeratorStays DEF Noted, InSession
<1> QED BY <1>5, <1>7

(* Every step keeps the rooms tended, as long as nobody queues. *)
LEMMA TendedNext ==
  ASSUME Peaceful, Unannounced, Frame, Index, Calm, Listed, Noted, AllTended,
         NobodyQueues, NobodyQueues', [Next]_vars
  PROVE  Noted' /\ AllTended'
<1>1. CASE BeginShutdown \/ ForceClose \/ UNCHANGED vars
  <2>1. UNCHANGED <<members, rooms, roomOf, pc, want>>
    BY <1>1 DEF BeginShutdown, ForceClose, vars, indexes, identity, locals
  <2>2. StillTending
    BY <2>1 DEF StillTending
  <2> QED BY <2>1, <2>2, TendedKept DEF Noted
<1> QED
  BY <1>1, OnboardingTended, SessionTended, ModerationTended DEF Next, Idle

(* At the start there are the recovered rooms and the default one. *)
LEMMA TendedInit ==
  ASSUME RegistryInit
  PROVE  Noted /\ AllTended
<1>1. \A c \in Conns : pc[c] = "off"
  BY RegistryAssumption DEF RegistryInit, RegistryAssumption, Actors
<1>2. \A p \in Moderators : pc[p] \in {"off", "op"}
  BY RegistryAssumption
     DEF RegistryInit, RegistryAssumption, Actors, Moderators
<1> QED BY <1>1, <1>2 DEF RegistryInit, Noted, AllTended

(* When every goroutine waits for its user nobody is on the way out. *)
LEMMA QuietTended ==
  ASSUME AllTended
  PROVE  NoAbandonedRoom
BY DEF AllTended, Tended, Leaving, NoAbandonedRoom, Quiet

(* As long as no room has a queue, and nobody is kicked, banned by name or *)
(* written about in a room not his own, no room other than the default one *)
(* and those of the log outlives its last user: the handler that leaves it *)
(* empty is the one that deletes it, whoever joins or switches meanwhile.  *)
THEOREM NoRoomOutlivesItsUsers ==
  ASSUME Peaceful, Unannounced
  PROVE  Spec /\ []NobodyQueues => []NoAbandonedRoom
<1> DEFINE Inv == Frame /\ Index /\ Calm /\ Listed
           Care == Noted /\ AllTended
<1>1. RegistryInit => Care
  BY TendedInit
<1>2. Inv /\ Care /\ NobodyQueues /\ NobodyQueues' /\ [Next]_vars => Care'
  BY TendedNext
<1>3. Care => NoAbandonedRoom
  BY QuietTended
<1>4. Spec => []Inv
  BY ListedInvariant
<1> QED BY <1>1, <1>2, <1>3, <1>4, PTL DEF Spec

-----------------------------------------------------------------------------
(* No room ever has a queue when it can hold everybody. *)

Roomy == IsFiniteSet(Conns) /\ Cardinality(Conns) <= Cap

Unqueued ==
  NobodyQueues /\ \A c \in Conns : pc[c] \notin {"enqueue", "ask", "wait"}

(* Whoever asks for a room is in none: it has a free slot. *)
LEMMA AlwaysASlot ==
  ASSUME Roomy, Frame, Index, Listed, NEW c \in Conns, ~ Seated(c),
         NEW r \in RoomKeys
  PROVE  HasCapacity(r)
<1> DEFINE O == Occupants(r)
           T == Conns \ {c}
           f == [n \in O |-> members[r][n]]
<1>1. /\ IsFiniteSet(T) /\ Cardinality(T) < Cap
  <2>1. Cardinality(T) = Cardinality(Conns) - 1 /\ IsFiniteSet(T)
    BY FS_RemoveElement DEF Roomy
  <2>2. Cardinality(Conns) \in Nat
    BY FS_CardinalityType DEF Roomy
  <2> QED BY <2>1, <2>2, RegistryAssumption DEF Roomy, RegistryAssumption
<1>2. f \in Injection(O, T)
  <2>1. \A n \in O : members[r][n] \in T /\ username[members[r][n]] = n
    BY MemberTyped DEF Occupants, Listed, Index, MembershipConsistent
  <2>2. f \in [O -> T]
    BY <2>1
  <2>3. \A n, m \in O : f[n] = f[m] => n = m
    BY <2>1
  <2> QED BY <2>2, <2>3 DEF Injection, IsInjective
<1>3. Cardinality(O) <= Cardinality(T) /\ IsFiniteSet(O)
  <2> HIDE DEF O, T, f
  <2> QED BY <1>1, <1>2, FS_Injection
<1>4. Cardinality(O) \in Nat /\ Cardinality(T) \in Nat /\ Cap \in Nat
  BY <1>1, <1>3, FS_CardinalityType, RegistryAssumption
     DEF RegistryAssumption
<1> QED BY <1>1, <1>3, <1>4 DEF HasCapacity

(* One step of a handler that has not reached its session. *)
LEMMA OnboardingUnqueued ==
  ASSUME Roomy, Frame, Index, Listed, Unqueued, NEW c \in Conns,
         OnboardingStep(c) \/ OnboardingInput(c)
  PROVE  Unqueued'
<1>1. CASE CheckRoomCapacity(c)
  <2>1. HasCapacity(want[c])
    BY <1>1, AlwaysASlot DEF CheckRoomCapacity, Goto, Seated, InSession,
                             Frame, TypeOK
  <2> QED
    BY <1>1, <2>1 DEF CheckRoomCapacity, Goto, Unqueued, NobodyQueues, lobby,
                      Frame, TypeOK, Actors
<1>2. ~ \/ JoinQueue(c) \/ AnswerYes(c) \/ Admitted(c) \/ Decline(c)
        \/ StopWaiting(c)
  BY DEF JoinQueue, AnswerYes, Admitted, Decline, StopWaiting, Goto, Unqueued
<1>3. CASE \/ RejectConnection(c) \/ AcceptConnection(c) \/ Abort(c)
           \/ JoinFirstRoom(c) \/ RecordJoin(c) \/ Finish(c) \/ TrackClient(c)
           \/ (\E n \in Names : RegisterName(c, n)) \/ NameReadError(c)
           \/ (\E r \in Rooms : ChooseRoom(c, r)) \/ RoomReadError(c)
  BY <1>3 DEF RejectConnection, AcceptConnection, Abort, JoinFirstRoom,
       RecordJoin, Finish, TrackClient, RegisterName, NameReadError,
       ChooseRoom, RoomReadError, Goto, Unqueued, NobodyQueues, lobby, Frame,
       TypeOK, Actors
<1> QED BY <1>1, <1>2, <1>3 DEF OnboardingStep, OnboardingInput

(* One step of a handler in its session. *)
LEMMA SessionUnqueued ==
  ASSUME Frame, Unqueued, NEW c \in Conns, SessionStep(c) \/ SessionInput(c)
  PROVE  Unqueued'
<1>1. NobodyQueues'
  <2>1. CASE \E here, next : AdmitNext(c, here, next)
    BY <2>1, AdmitShrinks
       DEF AdmitNext, Shrinks, Unqueued, NobodyQueues, Frame, TypeOK
  <2>2. CASE UNCHANGED queue
    BY <2>2 DEF Unqueued, NobodyQueues
  <2>3. UNCHANGED queue \/ \E here, next : AdmitNext(c, here, next)
    BY DEF SessionStep, SessionInput, LineStep, SwitchStep, CleanupStep,
         NoEffect, Quit, Chat, Rename, Switch, Create, RecordRename,
         SwitchRecord, SwitchMove, AdmitCheck, DeleteRoom, Cleanup,
         CleanupRemove, CleanupRecord, ReadLine, ReadError, HeartbeatDrop,
         lobby
  <2> QED BY <2>1, <2>2, <2>3
<1>2. PICK to : /\ pc' = pc \/ pc' = [pc EXCEPT ![c] = to]
                /\ to \notin {"enqueue", "ask", "wait"}
  BY DEF SessionStep, SessionInput, LineStep, SwitchStep, CleanupStep,
       NoEffect, Quit, Chat, Rename, Switch, Create, RecordRename,
       SwitchRecord, SwitchMove, AdmitCheck, AdmitNext, DeleteRoom, Cleanup,
       CleanupRemove, CleanupRecord, ReadLine, ReadError, HeartbeatDrop, Goto
<1> QED BY <1>1, <1>2 DEF Unqueued, Frame, TypeOK, Actors

(* One step of a command only takes out of queues. *)
LEMMA ModerationUnqueued ==
  ASSUME Frame, Unqueued, NEW p \in Moderators,
         ModerationStep(p) \/ ModerationInput(p)
  PROVE  Unqueued'
<1>1. NobodyQueues'
  <2>1. CASE AdmitForSlot(p)
    BY <2>1, AdmitShrinks
       DEF AdmitForSlot, Shrinks, Unqueued, NobodyQueues, Frame, TypeOK,
           Command
  <2>2. CASE RemoveQueued(p)
    BY <2>2, ByIPShrinks DEF RemoveQueued, Shrinks, Unqueued, NobodyQueues
  <2>3. CASE UNCHANGED queue
    BY <2>3 DEF Unqueued, NobodyQueues
  <2>4. AdmitForSlot(p) \/ RemoveQueued(p) \/ UNCHANGED queue
    BY DEF ModerationStep, ModerationInput, NotInYourRoom, Mark, RemoveTarget,
         RecordModeration, CloseTarget, BlockHost, CollectByIP,
         MarkCollateral, NoMoreCollateral, DropQueued, AdmitOwed,
         RecordAnnouncement, NothingOwed, RecordNote, LookUp, Annotate,
         LookUpQueued, Announce, lobby
  <2> QED BY <2>1, <2>2, <2>3, <2>4
<1> QED BY <1>1, ModeratorStays DEF Unqueued, InSession

(* Where a room can hold everybody there is never a queue. *)
LEMMA NobodyEverQueues ==
  ASSUME Peaceful, Roomy
  PROVE  Spec => []NobodyQueues
<1> DEFINE Inv == Frame /\ Index /\ Calm /\ Listed
<1>1. RegistryInit => Unqueued
  <2> SUFFICES ASSUME RegistryInit PROVE Unqueued
    OBVIOUS
  <2>1. NobodyQueues
    BY DEF RegistryInit, NobodyQueues
  <2>2. \A c \in Conns : pc[c] = "off"
    BY RegistryAssumption DEF RegistryInit, RegistryAssumption, Actors
  <2> QED BY <2>1, <2>2 DEF Unqueued
<1>2. Inv /\ Unqueued /\ [Next]_vars => Unqueued'
  <2> SUFFICES ASSUME Inv, Unqueued, [Next]_vars PROVE Unqueued'
    OBVIOUS
  <2>1. CASE BeginShutdown \/ ForceClose \/ UNCHANGED vars
    BY <2>1 DEF BeginShutdown, ForceClose, vars, lobby, Unqueued, NobodyQueues
  <2> QED
    BY <2>1, OnboardingUnqueued, SessionUnqueued, ModerationUnqueued
       DEF Next, Idle
<1>3. Unqueued => NobodyQueues
  BY DEF Unqueued
<1>4. Spec => []Inv
  BY ListedInvariant
<1> QED BY <1>1, <1>2, <1>3, <1>4, PTL DEF Spec

(* The same without a condition on the behaviour: with no more connections *)
(* than a room has slots there is never a queue, so no room outlives its   *)
(* last user.                                                              *)
THEOREM RoomyServerDropsItsRooms ==
  ASSUME Peaceful, Unannounced, Roomy
  PROVE  Spec => []NoAbandonedRoom
BY NobodyEverQueues, NoRoomOutlivesItsUsers, PTL
=============================================================================
