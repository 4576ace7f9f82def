------------------------------- MODULE Session -------------------------------
(***************************************************************************)
(* A connection in its session: serveClientSession with the commands a     *)
(* user has, cleanupConnection, and the heartbeat goroutine.  Reading a    *)
(* line takes the handler from active to cmd; from there the line is       *)
(* processed to its end even when the connection is closed meanwhile.      *)
(*                                                                         *)
(* A switch and a cleanup both leave a room: they admit from its queue and *)
(* delete it if it is empty, each with its own program counters.  The room *)
(* they leave is in want[c].                                               *)
(***************************************************************************)
EXTENDS Onboarding

(* startHeartbeat runs from the end of prepareClientSession on. *)
InSession == {"active", "cmd", "renamed", "swRecord", "swMove", "swCheck",
              "swAdmit", "swDelete", "mMark", "mRemove", "mRecord", "mClose",
              "mBlock", "mCollect", "mNext", "mQueue", "mDrop", "mCheck",
              "mAdmit", "mNote", "mAnnounce"}

(* The probe failed or timed out: the two calls that follow are one step.  *)
HeartbeatDrop(c) ==
  /\ pc[c] \in InSession
  /\ ~ closed[c]
  /\ "heartbeat" \in Inputs
  /\ SetDisconnectReason(c, "drop")
  /\ Close({c})
  /\ UNCHANGED <<indexes, lobby, identity, blocks, process, pc, locals>>

ReadLine(c) ==
  /\ Goto(c, "active", "cmd")
  /\ ~ closed[c]
  /\ UNCHANGED <<indexes, lobby, identity, link, blocks, process, locals>>

(* Variant for the mutation runs: a failed read is tried again. *)
RetryRead(c) ==
  /\ Goto(c, "active", "active")
  /\ ReadFails(c)
  /\ SetDisconnectReason(c, "drop")
  /\ UNCHANGED <<indexes, lobby, identity, closed, blocks, process, locals>>

ReadError(c) ==
  /\ Goto(c, "active", "cleanup")
  /\ ReadFails(c)
  /\ SetDisconnectReason(c, "drop")
  /\ UNCHANGED <<indexes, lobby, identity, closed, blocks, process, locals>>

-----------------------------------------------------------------------------
(* What a line can do. *)

(* A refused line, an empty one, or a command that only reads. *)
NoEffect(c) ==
  /\ Goto(c, "cmd", "active")
  /\ UNCHANGED <<indexes, lobby, identity, link, blocks, process, locals>>

Quit(c) ==
  /\ Goto(c, "cmd", "cleanup")
  /\ "quit" \in Inputs
  /\ UNCHANGED <<indexes, lobby, identity, link, blocks, process, locals>>

Chat(c) ==
  /\ Goto(c, "cmd", "active")
  /\ "chat" \in Inputs
  /\ RecordRoomEvent(roomOf[c])
  /\ UNCHANGED <<clients, members, lobby, identity, link, blocks, process,
                 locals>>

Rename(c, n) ==
  /\ Goto(c, "cmd", "renamed")
  /\ "name" \in Inputs
  /\ n # username[c]
  /\ RenameClient(c, n)
  /\ UNCHANGED <<rooms, lobby, roomOf, link, blocks, process, locals>>

RecordRename(c) ==
  /\ Goto(c, "renamed", "active")
  /\ RecordRoomEvent(roomOf[c])
  /\ UNCHANGED <<clients, members, lobby, identity, link, blocks, process,
                 locals>>

Switch(c, r) ==
  /\ Goto(c, "cmd", "swRecord")
  /\ "switch" \in Inputs
  /\ r # roomOf[c]
  /\ HasCapacity(r)
  /\ want' = [want EXCEPT ![c] = r]
  /\ UNCHANGED <<indexes, lobby, identity, link, blocks, process, mod>>

Create(c, r) ==
  /\ Goto(c, "cmd", "swRecord")
  /\ "create" \in Inputs
  /\ r \notin rooms
  /\ want' = [want EXCEPT ![c] = r]
  /\ UNCHANGED <<indexes, lobby, identity, link, blocks, process, mod>>

(* switchClientRoom, section by section. *)
SwitchRecord(c) ==
  /\ Goto(c, "swRecord", "swMove")
  /\ RecordRoomEvent(roomOf[c])
  /\ UNCHANGED <<clients, members, lobby, identity, link, blocks, process,
                 locals>>

SwitchMove(c) ==
  /\ Goto(c, "swMove", "swCheck")
  /\ JoinRoom(c, want[c])
  /\ want' = [want EXCEPT ![c] = roomOf[c]]
  /\ UNCHANGED <<clients, lobby, username, link, blocks, process, mod>>

-----------------------------------------------------------------------------
(* Leaving room want[c]: admitFromRoomQueue, then deleteRoomIfEmpty. *)

AdmitCheck(c, here, admission, deletion) ==
  /\ Goto(c, here, IF phase = "up" THEN admission ELSE deletion)
  /\ UNCHANGED <<indexes, lobby, identity, link, blocks, process, locals>>

AdmitNext(c, here, deletion) ==
  /\ Goto(c, here, deletion)
  /\ AdmitFromRoomQueue(want[c])
  /\ UNCHANGED <<indexes, identity, link, blocks, process, locals>>

(* Variant for the mutation runs: the new room is looked at. *)
DeleteCurrentRoom(c, here, next) ==
  /\ Goto(c, here, next)
  /\ DeleteRoomIfEmpty(roomOf[c])
  /\ UNCHANGED <<clients, members, lobby, identity, link, blocks, process,
                 locals>>

DeleteRoom(c, here, next) ==
  /\ Goto(c, here, next)
  /\ DeleteRoomIfEmpty(want[c])
  /\ UNCHANGED <<clients, members, lobby, identity, link, blocks, process,
                 locals>>

-----------------------------------------------------------------------------
(* cleanupConnection. *)

(* A moderated client is not removed here: the moderator does it. *)
Cleanup(c) ==
  /\ Goto(c, "cleanup", IF reason[c] \in Moderated THEN "clCheck"
                                                   ELSE "clRemove")
  /\ want' = [want EXCEPT ![c] = roomOf[c]]
  /\ UNCHANGED <<indexes, lobby, identity, link, blocks, process, mod>>

CleanupRemove(c) ==
  /\ Goto(c, "clRemove", "clRecord")
  /\ RemoveClient(username[c])
  /\ UNCHANGED <<rooms, lobby, identity, link, blocks, process, locals>>

CleanupRecord(c) ==
  /\ Goto(c, "clRecord", "clCheck")
  /\ RecordRoomEvent(want[c])
  /\ UNCHANGED <<clients, members, lobby, identity, link, blocks, process,
                 locals>>

-----------------------------------------------------------------------------
(* The end of a line's processing: what the handler does on its own. *)
SwitchStep(c) ==
  \/ SwitchRecord(c)
  \/ SwitchMove(c)
  \/ AdmitCheck(c, "swCheck", "swAdmit", "swDelete")
  \/ AdmitNext(c, "swAdmit", "swDelete")
  \/ DeleteRoom(c, "swDelete", "joined")

CleanupStep(c) ==
  \/ Cleanup(c)
  \/ CleanupRemove(c)
  \/ CleanupRecord(c)
  \/ AdmitCheck(c, "clCheck", "clAdmit", "clDelete")
  \/ AdmitNext(c, "clAdmit", "clDelete")
  \/ DeleteRoom(c, "clDelete", "closing")

(* Every line is handled: NoEffect, Quit or the first step of a command. *)
LineStep(c) ==
  \/ NoEffect(c) \/ Quit(c) \/ Chat(c)
  \/ \E n \in Names : Rename(c, n)
  \/ \E r \in Rooms : Switch(c, r) \/ Create(c, r)

SessionStep(c) ==
  LineStep(c) \/ RecordRename(c) \/ SwitchStep(c) \/ CleanupStep(c)

SessionInput(c) == ReadLine(c) \/ ReadError(c) \/ HeartbeatDrop(c)

=============================================================================
