----------------------------- MODULE Onboarding -----------------------------
(***************************************************************************)
(* A connection from its accept to its first room: handler.go up to        *)
(* prepareClientSession.  The goroutine of connection c is at pc[c]:       *)
(*                                                                         *)
(*   off -> tracked -> name -> room -> check -> join -> joined -> active   *)
(*                                       |       ^                         *)
(*                                    enqueue -> ask -> wait               *)
(*                                                                         *)
(* and a failure on the way leads to abort (the name is already            *)
(* registered) or directly to closing.                                     *)
(***************************************************************************)
EXTENDS Registry

Goto(a, from, to) == pc[a] = from /\ pc' = [pc EXCEPT ![a] = to]

(* The local room variable is not used any more. *)
Forget(c) == want' = [want EXCEPT ![c] = DefaultRoom]

(* Accept may have returned long before the goroutine gets here, so the    *)
(* listener having been closed meanwhile does not prevent this step.       *)
TrackClient(c) ==
  /\ Goto(c, "off", "tracked")
  /\ allClients' = allClients \cup {c}
  /\ UNCHANGED <<indexes, lobby, identity, link, blocks, phase, locals>>

(* rejectConnection.  Time is not modelled: whenever a cooldown is looked  *)
(* at it may have expired, and then it is deleted.                         *)
RejectConnection(c) ==
  /\ Goto(c, "tracked", "closing")
  /\ \/ /\ HostOf[c] \in bannedIPs \cup kickedIPs
        /\ UNCHANGED kickedIPs
     \/ /\ HostOf[c] \notin bannedIPs
        /\ phase # "up"
        /\ kickedIPs' = kickedIPs \ {HostOf[c]}
  /\ UNCHANGED <<indexes, lobby, identity, link, bannedIPs, process, locals>>

(* Variant for the mutation runs: a shutdown is not looked for. *)
AcceptDuringShutdown(c) ==
  /\ Goto(c, "tracked", "name")
  /\ HostOf[c] \notin bannedIPs
  /\ kickedIPs' = kickedIPs \ {HostOf[c]}
  /\ UNCHANGED <<indexes, lobby, identity, link, bannedIPs, process, locals>>

AcceptConnection(c) ==
  /\ Goto(c, "tracked", "name")
  /\ HostOf[c] \notin bannedIPs
  /\ phase = "up"
  /\ kickedIPs' = kickedIPs \ {HostOf[c]}
  /\ UNCHANGED <<indexes, lobby, identity, link, bannedIPs, process, locals>>

(* registerClientName: a name that is taken only prompts again. *)
RegisterName(c, n) ==
  /\ Goto(c, "name", "room")
  /\ RegisterClient(c, n)
  /\ UNCHANGED <<members, rooms, lobby, roomOf, link, blocks, process, locals>>

NameReadError(c) ==
  /\ Goto(c, "name", "closing")
  /\ ReadFails(c)
  /\ UNCHANGED <<indexes, lobby, identity, link, blocks, process, locals>>

(* readRoomChoice, and the shutdown test that opens checkOrQueueRoom. *)
ChooseRoom(c, r) ==
  /\ Goto(c, "room", IF phase = "up" THEN "check" ELSE "abort")
  /\ want' = [want EXCEPT ![c] = r]
  /\ UNCHANGED <<indexes, lobby, identity, link, blocks, process, mod>>

RoomReadError(c) ==
  /\ Goto(c, "room", "abort")
  /\ ReadFails(c)
  /\ UNCHANGED <<indexes, lobby, identity, link, blocks, process, locals>>

(* checkRoomCapacity is a critical section of its own: what it returns may *)
(* be stale by the time the handler joins or queues.                       *)
CheckRoomCapacity(c) ==
  /\ Goto(c, "check", IF HasCapacity(want[c]) THEN "join" ELSE "enqueue")
  /\ UNCHANGED <<indexes, lobby, identity, link, blocks, process, locals>>

JoinQueue(c) ==
  /\ Goto(c, "enqueue", "ask")
  /\ Enqueue(c, want[c])
  /\ UNCHANGED <<clients, members, admit, identity, link, blocks, process,
                 locals>>

AnswerYes(c) ==
  /\ Goto(c, "ask", "wait")
  /\ UNCHANGED <<indexes, lobby, identity, link, blocks, process, locals>>

(* Variant for the mutation runs: the entry stays in the queue. *)
DeclineKeepingEntry(c) ==
  /\ Goto(c, "ask", "abort")
  /\ ReadFails(c) \/ "decline" \in Inputs
  /\ UNCHANGED <<indexes, lobby, identity, link, blocks, process, locals>>

(* The answer is no, or the answer cannot be read. *)
Decline(c) ==
  /\ Goto(c, "ask", "abort")
  /\ ReadFails(c) \/ "decline" \in Inputs
  /\ RemoveFromRoomQueue(want[c], c)
  /\ UNCHANGED <<indexes, admit, identity, link, blocks, process, locals>>

(* Variant for the mutation runs: no read deadline interrupts the    *)
(* monitor, so the handler waits for it until its read fails.              *)
AdmittedWithoutDeadline(c) ==
  /\ Goto(c, "wait", "join")
  /\ c \in admit /\ closed[c]
  /\ UNCHANGED <<indexes, lobby, identity, link, blocks, process, locals>>

(* The three cases of the select in waitForRoomAdmission; when several are *)
(* ready the runtime picks any.                                            *)
Admitted(c) ==
  /\ Goto(c, "wait", "join")
  /\ c \in admit
  /\ UNCHANGED <<indexes, lobby, identity, link, blocks, process, locals>>

(* Variant for the mutation runs: the entry stays in the queue. *)
StopWaitingKeepingEntry(c) ==
  /\ Goto(c, "wait", "abort")
  /\ ReadFails(c) \/ phase # "up"
  /\ UNCHANGED <<indexes, lobby, identity, link, blocks, process, locals>>

StopWaiting(c) ==
  /\ Goto(c, "wait", "abort")
  /\ ReadFails(c) \/ phase # "up"
  /\ RemoveFromRoomQueue(want[c], c)
  /\ UNCHANGED <<indexes, admit, identity, link, blocks, process, locals>>

(* Variant for the mutation runs: the name stays registered. *)
AbortKeepingName(c) ==
  /\ Goto(c, "abort", "closing")
  /\ UNCHANGED <<indexes, lobby, identity, link, blocks, process, locals>>

Abort(c) ==
  /\ Goto(c, "abort", "closing")
  /\ RemoveClient(username[c])
  /\ UNCHANGED <<rooms, lobby, identity, link, blocks, process, locals>>

JoinFirstRoom(c) ==
  /\ Goto(c, "join", "joined")
  /\ JoinRoom(c, want[c])
  /\ UNCHANGED <<clients, lobby, username, link, blocks, process, locals>>

(* The join event of prepareClientSession, and of a switch. *)
RecordJoin(c) ==
  /\ Goto(c, "joined", "active")
  /\ RecordRoomEvent(roomOf[c])
  /\ Forget(c)
  /\ UNCHANGED <<clients, members, lobby, identity, link, blocks, process,
                 mod>>

(* Close, then the deferred UntrackClient. *)
Finish(c) ==
  /\ Goto(c, "closing", "done")
  /\ Close({c})
  /\ allClients' = allClients \ {c}
  /\ Forget(c)
  /\ UNCHANGED <<indexes, lobby, identity, reason, blocks, phase, mod>>

(* The steps a handler takes on its own. *)
OnboardingStep(c) ==
  \/ RejectConnection(c) \/ AcceptConnection(c)
  \/ CheckRoomCapacity(c) \/ JoinQueue(c) \/ Admitted(c)
  \/ Abort(c) \/ JoinFirstRoom(c) \/ RecordJoin(c) \/ Finish(c)

(* The steps that need something from the user or the network. *)
OnboardingInput(c) ==
  \/ TrackClient(c)
  \/ \E n \in Names : RegisterName(c, n)
  \/ NameReadError(c)
  \/ \E r \in Rooms : ChooseRoom(c, r)
  \/ RoomReadError(c)
  \/ AnswerYes(c) \/ Decline(c) \/ StopWaiting(c)

=============================================================================
