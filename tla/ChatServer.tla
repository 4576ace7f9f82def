----------------------------- MODULE ChatServer -----------------------------
(***************************************************************************)
(* The whole server: the handler of every connection, the operator, and    *)
(* Shutdown, over the shared state of Registry.                            *)
(***************************************************************************)
EXTENDS Moderation

-----------------------------------------------------------------------------
(* Shutdown of server.go: close(quit); then, when nobody is left or the    *)
(* timeout has passed, close whoever is still tracked.                     *)

BeginShutdown ==
  /\ phase = "up"
  /\ "shutdown" \in Inputs
  /\ phase' = "quit"
  /\ UNCHANGED <<indexes, lobby, identity, link, blocks, allClients, pc,
                 locals>>

ForceClose ==
  /\ phase = "quit"
  /\ phase' = "forced"
  /\ Close(allClients)
  /\ UNCHANGED <<indexes, lobby, identity, reason, blocks, allClients, pc,
                 locals>>

-----------------------------------------------------------------------------
Idle == (\A c \in Conns : pc[c] = "done") /\ UNCHANGED vars

Next ==
  \/ \E c \in Conns : \/ OnboardingStep(c) \/ OnboardingInput(c)
                      \/ SessionStep(c) \/ SessionInput(c)
  \/ \E p \in Moderators : ModerationStep(p) \/ ModerationInput(p)
  \/ BeginShutdown
  \/ ForceClose
  \/ Idle

Spec == RegistryInit /\ [][Next]_vars

(* The Go scheduler runs every goroutine that can run; a read on a closed  *)
(* connection fails at once.  Nothing is assumed of users or the network.  *)
ClosedRead(c) ==
  closed[c] /\ (NameReadError(c) \/ RoomReadError(c) \/ Decline(c)
                  \/ StopWaiting(c) \/ ReadError(c))

Fairness ==
  /\ \A c \in Conns : /\ WF_vars(OnboardingStep(c))
                      /\ WF_vars(SessionStep(c))
                      /\ WF_vars(ClosedRead(c))
  /\ \A p \in Moderators : WF_vars(ModerationStep(p))
  /\ WF_vars(ForceClose)

FairSpec == Spec /\ Fairness

-----------------------------------------------------------------------------
(* Types. *)

ConnPC ==
  InSession \cup
  {"off", "tracked", "name", "room", "check", "enqueue", "ask", "wait",
   "join", "joined", "abort", "closing", "cleanup", "clRemove", "clRecord",
   "clCheck", "clAdmit", "clDelete", "done"}

Command ==
  [kind : {"none", "kick", "ban", "collateral", "queuekick", "queueban",
           "note", "announce"},
   target : Conns \cup {None}, name : Names \cup {None},
   host : Hosts \cup {None}, room : RoomKeys, rest : SUBSET Conns,
   owed : [RoomKeys -> Nat]]

(* Every variable has the type of the field or local it stands for. *)
TypeOK ==
  /\ clients \in [Names -> Conns \cup {None}]
  /\ members \in [RoomKeys -> [Names -> Conns \cup {None}]]
  /\ rooms \subseteq RoomKeys
  /\ queue \in [RoomKeys -> Seq(Conns)]
  /\ admit \subseteq Conns
  /\ username \in [Conns -> Names \cup {None}]
  /\ roomOf \in [Conns -> RoomKeys]
  /\ closed \in [Conns -> BOOLEAN]
  /\ reason \in [Conns -> {"", "drop", "kicked", "banned"}]
  /\ kickedIPs \subseteq Hosts
  /\ bannedIPs \subseteq Hosts
  /\ allClients \subseteq Conns
  /\ phase \in {"up", "quit", "forced"}
  /\ pc \in [Actors -> ConnPC \cup {"op"}]
  /\ want \in [Conns -> RoomKeys]
  /\ mod \in [Moderators -> Command]

-----------------------------------------------------------------------------
(* Safety under every interleaving, moderation included. *)

(* A client found under a name in Server.clients carries that name, so     *)
(* /whisper, /kick and /ban reach the user they name: RegisterClient,      *)
(* RenameClient and RemoveClient keep map and field together.              *)
RegistryConsistent ==
  \A n \in Names : clients[n] # None => username[clients[n]] = n

(* A client found in a room under a name carries that name and has that    *)
(* room, so it is in one room at most and once: JoinRoom, RenameClient and *)
(* RemoveClient keep Room.clients, Username and Room together whatever     *)
(* commands and moderators interleave.                                     *)
MembershipConsistent ==
  \A k \in RoomKeys, n \in Names :
    members[k][n] # None =>
      username[members[k][n]] = n /\ roomOf[members[k][n]] = k

(* A queue entry belongs to a handler that still waits for it in that      *)
(* room, occurs once, and was not admitted: admitFromRoomQueue never       *)
(* closes an admit channel twice (a panic that would end the server) and   *)
(* never spends a slot on a handler that has left.                         *)
QueueSound ==
  \A k \in RoomKeys : \A i \in DOMAIN queue[k] :
    LET c == queue[k][i] IN
    /\ pc[c] \in {"ask", "wait"} /\ want[c] = k
    /\ c \notin admit
    /\ \A j \in DOMAIN queue[k] : queue[k][j] = c => i = j

(* deleteRoomIfEmpty never drops a room somebody is in or waits for, nor   *)
(* the default room; the room key "" has neither members nor a queue.      *)
RoomsExist ==
  /\ DefaultRoom \in rooms
  /\ \A k \in RoomKeys :
       k \notin rooms \ {NoRoom} => Occupants(k) = {} /\ queue[k] = <<>>

(* An admission goes to the first entry whose connection is open: whoever  *)
(* stood before it in the queue had already been closed.                   *)
AdmissionIsFIFO ==
  [][\A c \in admit' \ admit :
       \E k \in RoomKeys : \E i \in DOMAIN queue[k] :
         /\ queue[k][i] = c /\ ~ closed[c]
         /\ \A j \in 1..(i - 1) : closed[queue[k][j]]]_vars

(* A step in which nobody loses his place without one of these reasons. *)
InPlace ==
  \A k \in RoomKeys : \A i \in DOMAIN queue[k] :
    LET c == queue[k][i] IN
    \/ \E j \in DOMAIN queue'[k] : j <= i /\ queue'[k][j] = c
    \/ c \in admit' \/ closed[c] \/ pc'[c] = "abort"
    \/ \E p \in Moderators : /\ c \in mod'[p].rest
                             /\ HostOf[c] = mod'[p].host

(* Who waits keeps his place: he leaves a queue only by being admitted, by *)
(* giving up, with a closed connection, or with the host an operator or a  *)
(* ban throws out, and nobody is ever put in front of him.                 *)
PlacesKept == [][InPlace]_vars

(* A moderation reason is never lost: SetDisconnectReason of a dropped or  *)
(* heartbeat-failed connection does not overwrite it, or the cleanup would *)
(* announce a departure that was already announced.                        *)
ModerationSticks ==
  [][\A c \in Conns : reason[c] \in Moderated => reason'[c] \in Moderated]_vars

-----------------------------------------------------------------------------
(* The queues as waiting lines: who has an entry and is still connected    *)
(* waits, behind those with an earlier entry who are; an admission serves. *)

WaitingAt ==
  [k \in RoomKeys |->
    {c \in Conns : ~ closed[c] /\ \E i \in DOMAIN queue[k] : queue[k][i] = c}]

WaitingBefore ==
  [c \in Conns |->
    {d \in Conns : ~ closed[c] /\ ~ closed[d] /\
       \E k \in RoomKeys : \E i, j \in DOMAIN queue[k] :
         i < j /\ queue[k][i] = d /\ queue[k][j] = c}]

Line == INSTANCE WaitingLine
          WITH Customers <- Conns, Places <- RoomKeys,
               line <- WaitingAt, ahead <- WaitingBefore, served <- admit

(* The queues of all rooms implement first come, first served: whatever    *)
(* handlers, moderators, hang-ups and Shutdown do, each step is an arrival *)
(* behind all others of the room, the admission of somebody nobody is      *)
(* ahead of, departures that change no other turn, or nothing.             *)
FirstComeFirstServed == Line!Spec

-----------------------------------------------------------------------------
(* Safety where nobody is kicked or banned. *)

Registered(c) ==
  pc[c] \in InSession \cup
    {"room", "check", "enqueue", "ask", "wait", "join", "joined", "abort",
     "cleanup", "clRemove"}
Seated(c) == pc[c] \in InSession \cup {"joined", "cleanup", "clRemove"}

(* The maps list exactly the connections that hold a name, and exactly     *)
(* those that are in a room: nobody stays listed after leaving, nobody in  *)
(* a session is missing.                                                   *)
IndexesExact ==
  \A c \in Conns :
    /\ Registered(c) <=> \E n \in Names : clients[n] = c
    /\ Seated(c) <=> \E k \in RoomKeys, n \in Names : members[k][n] = c

(* Nobody is in the middle of anything: every goroutine waits for a user.  *)
Quiet ==
  /\ phase = "up"
  /\ pc[Operator] = "op"
  /\ \A c \in Conns :
       /\ pc[c] \in {"off", "name", "room", "ask", "wait", "active", "done"}
       /\ closed[c] => pc[c] = "done"
       /\ pc[c] = "wait" => c \notin admit

(* c left its room on its own or was thrown out of it. *)
Departed(c) ==
  /\ roomOf[c] # NoRoom
  /\ \/ reason[c] \in Moderated
     \/ \A k \in RoomKeys, n \in Names : members[k][n] # c

(* One departure admits at most one waiting user. *)
OneAdmissionPerDeparture ==
  Cardinality(admit) <= Cardinality({c \in Conns : Departed(c)})

(* A room other than the default one does not outlive its last user, unless *)
(* it was there from the start.                                            *)
NoAbandonedRoom ==
  Quiet => \A k \in rooms \ (Recovered \cup {DefaultRoom}) :
             Occupants(k) # {} \/ queue[k] # <<>>

(* Nobody waits for a room that has a free slot. *)
NoStrandedWaiter ==
  Quiet => \A r \in Rooms : queue[r] # <<>> => ~ HasCapacity(r)

(* A user whose connection has ended is listed nowhere. *)
NoGhost ==
  Quiet => \A c \in Conns : pc[c] = "done" =>
             \A n \in Names : clients[n] # c
                              /\ \A k \in RoomKeys : members[k][n] # c

-----------------------------------------------------------------------------
(* Liveness. *)

(* A closed connection's handler runs to its end. *)
ClosedEnds == \A c \in Conns : closed[c] ~> pc[c] = "done"

(* Once Shutdown has begun every connection that was accepted ends, the    *)
(* ones tracked after the forced close included.                           *)
ShutdownEnds ==
  \A c \in Conns : phase # "up" /\ pc[c] # "off" ~> pc[c] = "done"

(* A waiting user whose turn has come gets into the room, or is gone. *)
AdmittedArrives ==
  \A c \in Conns :
    c \in admit /\ pc[c] = "wait" ~> pc[c] \in {"active", "done"}

(* A kicked or banned user's connection ends. *)
ModeratedEnds ==
  \A c \in Conns : reason[c] \in Moderated ~> pc[c] = "done"

=============================================================================
