----------------------------- MODULE Moderation -----------------------------
(***************************************************************************)
(* The commands of administrators and of the operator terminal that act on *)
(* other users: kick and ban by name, the operator's kick and ban of       *)
(* queued users by IP, the commands that only record an event about a user *)
(* (mute, unmute, promote, demote) and announce.                           *)
(*                                                                         *)
(* The moderator p is the handler of an admin connection, or the operator. *)
(* Its locals are in mod[p]; a command ends back at active or op.          *)
(***************************************************************************)
EXTENDS Session

(* An admin's handler has read a line; the operator's reader has read one  *)
(* and found the server not shutting down.                                 *)
Ready(p) == IF p = Operator THEN pc[p] = "op" /\ phase = "up"
                            ELSE pc[p] = "cmd"

Step(p, to) == pc' = [pc EXCEPT ![p] = to]
EndCommand(p) ==
  /\ pc' = [pc EXCEPT ![p] = IF p = Operator THEN "op" ELSE "active"]
  /\ mod' = [mod EXCEPT ![p] = NoCommand]

-----------------------------------------------------------------------------
(* Kick and ban. *)

(* Slots owed to the queues, by room; announcements to write, by room. *)
Owe(owed, k) == [owed EXCEPT ![k] = @ + 1]
Pay(owed, k) == [owed EXCEPT ![k] = @ - 1]

(* GetClient.  A name that is not found only prints a message. *)
LookUp(p, kind, n) ==
  /\ Ready(p)
  /\ kind \in Inputs
  /\ clients[n] # None
  /\ Step(p, "mMark")
  /\ mod' = [mod EXCEPT ![p] =
       [NoCommand EXCEPT !.kind = kind, !.target = clients[n], !.name = n,
                         !.host = HostOf[clients[n]]]]
  /\ UNCHANGED <<indexes, lobby, identity, link, blocks, process, want>>

(* An admin kicks in his own room only; a ban reaches everywhere. *)
NotInYourRoom(p) ==
  /\ pc[p] = "mMark"
  /\ mod[p].kind = "kick" /\ p # Operator
  /\ roomOf[mod[p].target] # roomOf[p]
  /\ EndCommand(p)
  /\ UNCHANGED <<indexes, lobby, identity, link, blocks, process, want>>

(* target.Room is read and ForceDisconnectReason called: one slot is owed  *)
(* to the queue of that room.                                              *)
Mark(p) ==
  LET m == mod[p]
      r == roomOf[m.target] IN
  /\ Goto(p, "mMark", "mRemove")
  /\ m.kind = "kick" /\ p # Operator => r = roomOf[p]
  /\ ForceDisconnectReason(m.target, IF m.kind = "kick" THEN "kicked"
                                                        ELSE "banned")
  /\ mod' = [mod EXCEPT ![p] = [m EXCEPT !.room = r,
                                          !.owed = Owe(m.owed, r)]]
  /\ UNCHANGED <<indexes, lobby, identity, closed, blocks, process, want>>

RemoveTarget(p) ==
  /\ Goto(p, "mRemove", "mRecord")
  /\ RemoveClient(mod[p].name)
  /\ UNCHANGED <<rooms, lobby, identity, link, blocks, process, locals>>

RecordModeration(p) ==
  /\ Goto(p, "mRecord", "mClose")
  /\ RecordRoomEvent(mod[p].room)
  /\ UNCHANGED <<clients, members, lobby, identity, link, blocks, process,
                 locals>>

(* Variant for the mutation runs: the connection stays open. *)
KeepTargetOpen(p) ==
  /\ Goto(p, "mClose", IF mod[p].kind = "collateral" THEN "mNext"
                                                     ELSE "mBlock")
  /\ UNCHANGED <<indexes, lobby, identity, link, blocks, process, locals>>

CloseTarget(p) ==
  /\ Goto(p, "mClose", IF mod[p].kind = "collateral" THEN "mNext"
                                                     ELSE "mBlock")
  /\ Close({mod[p].target})
  /\ UNCHANGED <<indexes, lobby, identity, reason, blocks, process, locals>>

(* AddKickCooldown or AddBanIP.  It ends the operator's commands by IP. *)
BlockHost(p) ==
  LET m == mod[p] IN
  /\ pc[p] = "mBlock"
  /\ \/ /\ m.kind \in {"kick", "queuekick"}
        /\ kickedIPs' = kickedIPs \cup {m.host}
        /\ UNCHANGED bannedIPs
     \/ /\ m.kind \in {"ban", "queueban"}
        /\ bannedIPs' = bannedIPs \cup {m.host}
        /\ UNCHANGED kickedIPs
  /\ \/ m.kind \in {"queuekick", "queueban"} /\ EndCommand(p)
     \/ m.kind = "kick" /\ Step(p, "mCheck") /\ UNCHANGED mod
     \/ m.kind = "ban" /\ Step(p, "mCollect") /\ UNCHANGED mod
  /\ UNCHANGED <<indexes, lobby, identity, link, process, want>>

(* GetClientsByIP: the other registered clients of the host, as they are   *)
(* now.  An admin excludes himself, by his name.                           *)
CollectByIP(p) ==
  /\ Goto(p, "mCollect", "mNext")
  /\ mod' = [mod EXCEPT ![p].rest =
       {c \in Conns : /\ \E n \in Names : clients[n] = c
                      /\ HostOf[c] = mod[p].host
                      /\ p # Operator => username[c] # username[p]}]
  /\ UNCHANGED <<indexes, lobby, identity, link, blocks, process, want>>

(* The next of them is forced out; its name and room are read as they are. *)
MarkCollateral(p, c) ==
  LET m == mod[p] IN
  /\ Goto(p, "mNext", "mRemove")
  /\ c \in m.rest
  /\ ForceDisconnectReason(c, "banned")
  /\ mod' = [mod EXCEPT ![p] =
       [m EXCEPT !.kind = "collateral", !.target = c, !.name = username[c],
                 !.room = roomOf[c], !.rest = @ \ {c},
                 !.owed = Owe(m.owed, roomOf[c])]]
  /\ UNCHANGED <<indexes, lobby, identity, closed, blocks, process, want>>

NoMoreCollateral(p) ==
  /\ Goto(p, "mNext", "mQueue")
  /\ mod[p].rest = {}
  /\ mod' = [mod EXCEPT ![p] = [@ EXCEPT !.kind = "ban", !.room = NoRoom]]
  /\ UNCHANGED <<indexes, lobby, identity, link, blocks, process, want>>

-----------------------------------------------------------------------------
(* Queued users by IP: the end of a ban, and the operator's kick or ban of *)
(* an argument that is no user's name.                                     *)

LookUpQueued(p, kind, h) ==
  /\ p = Operator /\ Ready(p)
  /\ kind \in Inputs
  /\ Step(p, "mQueue")
  /\ mod' = [mod EXCEPT ![p] = [NoCommand EXCEPT !.kind = kind, !.host = h]]
  /\ UNCHANGED <<indexes, lobby, identity, link, blocks, process, want>>

RemoveQueued(p) ==
  LET removed == {c \in Waiting : HostOf[c] = mod[p].host} IN
  /\ pc[p] = "mQueue"
  /\ RemoveFromAllRoomQueuesByIP(mod[p].host)
  /\ IF mod[p].kind = "ban" \/ removed # {}
       THEN Step(p, "mDrop") /\ mod' = [mod EXCEPT ![p].rest = removed]
       ELSE EndCommand(p)
  /\ UNCHANGED <<indexes, admit, identity, link, blocks, process, want>>

DropQueued(p) ==
  /\ Goto(p, "mDrop", IF mod[p].kind = "ban" THEN "mCheck" ELSE "mBlock")
  /\ Close(mod[p].rest)
  /\ mod' = [mod EXCEPT ![p].rest = {}]
  /\ UNCHANGED <<indexes, lobby, identity, reason, blocks, process, want>>

-----------------------------------------------------------------------------
(* admitFromRoomQueue for every slot owed: all of one room, then the next  *)
(* room, in the order the map yields them.                                 *)

Debts(p) ==
  LET m == mod[p]
      open == {k \in RoomKeys : m.owed[k] > 0} IN
  IF m.room \in open THEN {m.room} ELSE open

AdmitOwed(p, k) ==
  LET m == mod[p] IN
  /\ pc[p] = "mCheck"
  /\ k \in Debts(p)
  /\ mod' = [mod EXCEPT ![p] = [m EXCEPT !.room = k,
                                          !.owed = Pay(m.owed, k)]]
  /\ Step(p, IF phase = "up" THEN "mAdmit" ELSE "mCheck")
  /\ UNCHANGED <<indexes, lobby, identity, link, blocks, process, want>>

AdmitForSlot(p) ==
  /\ Goto(p, "mAdmit", "mCheck")
  /\ AdmitFromRoomQueue(mod[p].room)
  /\ UNCHANGED <<indexes, identity, link, blocks, process, locals>>

NothingOwed(p) ==
  /\ pc[p] = "mCheck"
  /\ Debts(p) = {}
  /\ EndCommand(p)
  /\ UNCHANGED <<indexes, lobby, identity, link, blocks, process, want>>

-----------------------------------------------------------------------------
(* Commands that only write history. *)

(* mute, unmute, promote, demote: the event goes to the target's room. *)
Annotate(p, n) ==
  /\ Ready(p)
  /\ "note" \in Inputs
  /\ clients[n] # None
  /\ Step(p, "mNote")
  /\ mod' = [mod EXCEPT ![p] = [NoCommand EXCEPT !.kind = "note",
                                  !.room = roomOf[clients[n]]]]
  /\ UNCHANGED <<indexes, lobby, identity, link, blocks, process, want>>

RecordNote(p) ==
  /\ pc[p] = "mNote"
  /\ RecordRoomEvent(mod[p].room)
  /\ EndCommand(p)
  /\ UNCHANGED <<clients, members, lobby, identity, link, blocks, process,
                 want>>

(* announce takes the room names once, then records in one after another. *)
Announce(p) ==
  /\ Ready(p)
  /\ "announce" \in Inputs
  /\ Step(p, "mAnnounce")
  /\ mod' = [mod EXCEPT ![p] = [NoCommand EXCEPT !.kind = "announce",
       !.owed = [k \in RoomKeys |-> IF k \in rooms THEN 1 ELSE 0]]]
  /\ UNCHANGED <<indexes, lobby, identity, link, blocks, process, want>>

RecordAnnouncement(p, k) ==
  /\ pc[p] = "mAnnounce"
  /\ k \in Debts(p)
  /\ RecordRoomEvent(k)
  /\ IF \A j \in RoomKeys \ {k} : mod[p].owed[j] = 0
       THEN EndCommand(p)
       ELSE UNCHANGED pc /\ mod' = [mod EXCEPT ![p].owed = Pay(@, k)]
  /\ UNCHANGED <<clients, members, lobby, identity, link, blocks, process,
                 want>>

-----------------------------------------------------------------------------
ModerationStep(p) ==
  \/ NotInYourRoom(p) \/ Mark(p) \/ RemoveTarget(p) \/ RecordModeration(p)
  \/ CloseTarget(p) \/ BlockHost(p) \/ CollectByIP(p)
  \/ \E c \in Conns : MarkCollateral(p, c)
  \/ NoMoreCollateral(p) \/ RemoveQueued(p) \/ DropQueued(p)
  \/ \E k \in RoomKeys : AdmitOwed(p, k) \/ RecordAnnouncement(p, k)
  \/ AdmitForSlot(p) \/ NothingOwed(p) \/ RecordNote(p)

ModerationInput(p) ==
  \/ \E n \in Names : LookUp(p, "kick", n) \/ LookUp(p, "ban", n)
                      \/ Annotate(p, n)
  \/ \E h \in Hosts : LookUpQueued(p, "queuekick", h)
                      \/ LookUpQueued(p, "queueban", h)
  \/ Announce(p)

=============================================================================
