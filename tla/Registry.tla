------------------------------ MODULE Registry ------------------------------
(***************************************************************************)
(* The shared state of the Server struct and its critical sections.        *)
(*                                                                         *)
(* Every operator of this module that has a primed variable is the body of *)
(* one s.mu critical section of room.go, clients.go or moderation.go (or,  *)
(* for the disconnect reason and Close, of one client.mu section).  The    *)
(* handlers of the other modules are sequences of these sections: what two *)
(* goroutines can do to each other happens between them, never inside.     *)
(*                                                                         *)
(* A connection is used once: a user who reconnects is another element of  *)
(* Conns with the same host.                                               *)
(***************************************************************************)
EXTENDS Integers, Sequences, FiniteSets

CONSTANTS
  Conns,        \* TCP connections, each with its handler goroutine
  Operator,     \* the operator terminal, an actor that is no connection
  Names,        \* user names that pass validateName and are not reserved
  Rooms,        \* room names that pass validateRoomName
  DefaultRoom,  \* Server.DefaultRoom
  Recovered,    \* rooms that RecoverHistory found in the log of the day
  NoRoom,       \* the empty string: Client.Room before JoinRoom
  None,         \* no user name, no connection, no host
  Hosts,        \* IP hosts
  HostOf,       \* the host of every connection
  Cap,          \* MaxActiveClients
  Admins,       \* the connections whose client has the admin flag
  Inputs        \* the kinds of input the users and the network may produce

ASSUME RegistryAssumption ==
  /\ Operator \notin Conns
  /\ None \notin Names \cup Conns \cup Hosts
  /\ DefaultRoom \in Rooms
  /\ Recovered \subseteq Rooms
  /\ NoRoom \notin Rooms
  /\ HostOf \in [Conns -> Hosts]
  /\ Cap \in Nat \ {0}
  /\ Admins \subseteq Conns

RoomKeys == Rooms \cup {NoRoom}
Actors == Conns \cup {Operator}
Moderators == Admins \cup {Operator}

VARIABLES
  clients,    \* Server.clients: user name -> connection
  members,    \* Room.clients of every room: user name -> connection
  rooms,      \* the keys of Server.rooms
  queue,      \* Room.queue of every room, as the sequence of its connections
  admit,      \* the connections whose QueueEntry.admit channel is closed
  username,   \* Client.Username
  roomOf,     \* Client.Room
  closed,     \* Client.done is closed
  reason,     \* Client.disconnectReason
  kickedIPs,  \* hosts with a kick cooldown
  bannedIPs,  \* banned hosts
  allClients, \* Server.allClients
  phase,      \* how far Shutdown has come
  pc,         \* where every goroutine is
  want,       \* the room a handler holds in a local variable
  mod         \* the locals of a moderation command in progress

indexes == <<clients, members, rooms>>
lobby == <<queue, admit>>
identity == <<username, roomOf>>
link == <<closed, reason>>
blocks == <<kickedIPs, bannedIPs>>
process == <<allClients, phase>>
locals == <<want, mod>>

vars == <<clients, members, rooms, queue, admit, username, roomOf, closed,
          reason, kickedIPs, bannedIPs, allClients, phase, pc, want, mod>>

Moderated == {"kicked", "banned"}
Occupants(k) == {n \in Names : members[k][n] # None}

-----------------------------------------------------------------------------
(* Locals of a moderation command. *)

NoCommand ==
  [kind |-> "none", target |-> None, name |-> None, host |-> None,
   room |-> NoRoom, rest |-> {}, owed |-> [k \in RoomKeys |-> 0]]

RegistryInit ==
  /\ clients = [n \in Names |-> None]
  /\ members = [k \in RoomKeys |-> [n \in Names |-> None]]
  /\ rooms = Recovered \cup {DefaultRoom}
  /\ queue = [k \in RoomKeys |-> <<>>]
  /\ admit = {}
  /\ username = [c \in Conns |-> None]
  /\ roomOf = [c \in Conns |-> NoRoom]
  /\ closed = [c \in Conns |-> FALSE]
  /\ reason = [c \in Conns |-> ""]
  /\ kickedIPs = {}
  /\ bannedIPs = {}
  /\ allClients = {}
  /\ phase = "up"
  /\ pc = [a \in Actors |-> IF a = Operator THEN "op" ELSE "off"]
  /\ want = [c \in Conns |-> DefaultRoom]
  /\ mod = [p \in Moderators |-> NoCommand]

-----------------------------------------------------------------------------
(* Names and rooms: clients.go, room.go. *)

RegisterClient(c, n) ==
  /\ clients[n] = None
  /\ clients' = [clients EXCEPT ![n] = c]
  /\ username' = [username EXCEPT ![c] = n]

(* The entry is found by name, whoever holds that name by now. *)
RemoveClient(n) ==
  LET c == clients[n] IN
  /\ clients' = [clients EXCEPT ![n] = None]
  /\ members' = IF c # None /\ roomOf[c] \in rooms \ {NoRoom}
                  THEN [members EXCEPT ![roomOf[c]][n] = None]
                  ELSE members

(* Variant for the mutation runs: the old key is not deleted. *)
RenameClientKeepingOld(c, new) ==
  /\ clients[new] = None
  /\ clients' = [clients EXCEPT ![new] = c]
  /\ username' = [username EXCEPT ![c] = new]
  /\ UNCHANGED members

(* Variant for the mutation runs: the room's map is forgotten. *)
RenameClientGlobally(c, new) ==
  /\ clients[new] = None
  /\ clients' = [clients EXCEPT ![username[c]] = None, ![new] = c]
  /\ username' = [username EXCEPT ![c] = new]
  /\ UNCHANGED members

RenameClient(c, new) ==
  LET old == username[c]
      k   == roomOf[c] IN
  /\ clients[new] = None
  /\ clients' = [clients EXCEPT ![old] = None, ![new] = c]
  /\ username' = [username EXCEPT ![c] = new]
  /\ members' = IF k \in rooms \ {NoRoom}
                  THEN [members EXCEPT ![k][old] = None, ![k][new] = c]
                  ELSE members

(* Variant for the mutation runs: the old membership stays. *)
JoinRoomKeepingOld(c, r) ==
  /\ members' = [members EXCEPT ![r][username[c]] = c]
  /\ rooms' = rooms \cup {r}
  /\ roomOf' = [roomOf EXCEPT ![c] = r]

JoinRoom(c, r) ==
  /\ members' = [members EXCEPT ![roomOf[c]][username[c]] = None,
                                ![r][username[c]] = c]
  /\ rooms' = rooms \cup {r}
  /\ roomOf' = [roomOf EXCEPT ![c] = r]

HasCapacity(r) == r \in rooms => Cardinality(Occupants(r)) < Cap

(* recordRoomEvent reaches getOrCreateRoom: writing history makes the room. *)
RecordRoomEvent(k) == rooms' = rooms \cup {k}

(* Variant for the mutation runs: the queue is not looked at. *)
DeleteRoomIfNoClients(k) ==
  rooms' = IF k # DefaultRoom /\ Occupants(k) = {} THEN rooms \ {k} ELSE rooms

(* Variant for the mutation runs: the default room is not excepted. *)
DeleteAnyRoomIfEmpty(k) ==
  rooms' = IF Occupants(k) = {} /\ queue[k] = <<>> THEN rooms \ {k} ELSE rooms

DeleteRoomIfEmpty(k) ==
  rooms' = IF k # DefaultRoom /\ Occupants(k) = {} /\ queue[k] = <<>>
             THEN rooms \ {k} ELSE rooms

-----------------------------------------------------------------------------
(* The waiting queue of a room: room.go. *)

(* Variant for the mutation runs: the newcomer is put in front. *)
EnqueueInFront(c, r) ==
  /\ queue' = [queue EXCEPT ![r] = <<c>> \o @]
  /\ rooms' = rooms \cup {r}

Enqueue(c, r) ==
  /\ queue' = [queue EXCEPT ![r] = Append(@, c)]
  /\ rooms' = rooms \cup {r}

(* Variant for the mutation runs: everybody is admitted. *)
AdmitWholeQueue(k) ==
  /\ queue' = [queue EXCEPT ![k] = <<>>]
  /\ admit' = admit \cup {queue[k][i] : i \in DOMAIN queue[k]}

(* Variant for the mutation runs: the last entry is taken. *)
AdmitLastOfQueue(k) ==
  LET n == Len(queue[k]) IN
  /\ queue' = [queue EXCEPT ![k] = IF n = 0 THEN @ ELSE SubSeq(@, 1, n - 1)]
  /\ admit' = admit \cup (IF n = 0 THEN {} ELSE {queue[k][n]})

(* Variant for the mutation runs: the admitted entry stays in the queue. *)
AdmitWithoutPop(k) ==
  /\ UNCHANGED queue
  /\ admit' = admit \cup {queue[k][i] : i \in DOMAIN queue[k] \cap {1}}

(* Variant for the mutation runs: IsClosed is not asked. *)
AdmitHeadOfQueue(k) ==
  /\ queue' = [queue EXCEPT ![k] = SubSeq(@, 2, Len(@))]
  /\ admit' = admit \cup {queue[k][i] : i \in DOMAIN queue[k] \cap {1}}

(* Pop entries until one whose connection is still open; admit that one.   *)
(* The queue of a room that does not exist is empty.                       *)
AdmitFromRoomQueue(k) ==
  LET live == {i \in DOMAIN queue[k] : ~ closed[queue[k][i]]} IN
  \/ /\ live = {}
     /\ queue' = [queue EXCEPT ![k] = <<>>]
     /\ UNCHANGED admit
  \/ \E i \in live :
       /\ \A j \in live : i <= j
       /\ queue' = [queue EXCEPT ![k] = SubSeq(@, i + 1, Len(@))]
       /\ admit' = admit \cup {queue[k][i]}

RemoveFromRoomQueue(k, c) ==
  \/ /\ \A i \in DOMAIN queue[k] : queue[k][i] # c
     /\ UNCHANGED queue
  \/ \E i \in DOMAIN queue[k] :
       /\ queue[k][i] = c
       /\ \A j \in 1..(i - 1) : queue[k][j] # c
       /\ queue' = [queue EXCEPT ![k] =
                      SubSeq(@, 1, i - 1) \o SubSeq(@, i + 1, Len(@))]

(* Variant for the mutation runs: the comparison is the wrong way round. *)
KeepOnlyHost(q, h) ==
  LET kept[i \in 0..Len(q)] ==
        IF i = 0 THEN <<>>
        ELSE IF HostOf[q[i]] # h THEN kept[i - 1]
        ELSE Append(kept[i - 1], q[i])
  IN kept[Len(q)]

(* The entries of q whose connection is not from host h, in their order. *)
KeepOthers(q, h) ==
  LET kept[i \in 0..Len(q)] ==
        IF i = 0 THEN <<>>
        ELSE IF HostOf[q[i]] = h THEN kept[i - 1]
        ELSE Append(kept[i - 1], q[i])
  IN kept[Len(q)]

Waiting == UNION {{queue[k][i] : i \in DOMAIN queue[k]} : k \in RoomKeys}

RemoveFromAllRoomQueuesByIP(h) ==
  queue' = [k \in RoomKeys |-> KeepOthers(queue[k], h)]

-----------------------------------------------------------------------------
(* One connection: client.go. *)

(* Variant for the mutation runs: cleanup's default is stored. *)
SetVoluntaryReason(c, why) ==
  reason' = [reason EXCEPT ![c] = IF @ = "" THEN "voluntary" ELSE why]

(* Variant for the mutation runs: the first reason is not kept. *)
OverwriteDisconnectReason(c, why) == reason' = [reason EXCEPT ![c] = why]

SetDisconnectReason(c, why) ==
  reason' = [reason EXCEPT ![c] = IF @ = "" THEN why ELSE @]

ForceDisconnectReason(c, why) == reason' = [reason EXCEPT ![c] = why]

Close(C) == closed' = [c \in Conns |-> closed[c] \/ c \in C]

(* A read on connection c fails: the server closed it, or the peer is gone. *)
ReadFails(c) == closed[c] \/ "hangup" \in Inputs

=============================================================================
