------------------------------- MODULE History -------------------------------
(***************************************************************************)
(* What was said in a room, three times over: in Room.history, which a     *)
(* newcomer is shown; in the log file of the day, which a restart reads    *)
(* back; and on the screens of those in the room.                          *)
(*                                                                         *)
(* Recording an event is four steps of its author's goroutine: the stamp,  *)
(* AddRoomHistory, Logger.Log, the broadcast.  Between them others record, *)
(* join, move and leave, midnight passes and clears the histories, rooms   *)
(* are deleted, the logger is closed, and the process may end.             *)
(*                                                                         *)
(* An event is its message with who recorded it and the number of its      *)
(* composition, which the program does not have: they tell equal messages  *)
(* apart.  Queues and capacity are left to ChatServer; a queue may keep an *)
(* empty room alive here.                                                  *)
(***************************************************************************)
EXTENDS LogLine, FiniteSets

CONSTANTS
  Users,       \* connections
  Operator,    \* who mutes and announces: the operator terminal
  NameOf,      \* the user name every actor begins with, a text
  NewNames,    \* the names users change to
  Rooms,       \* room names
  DefaultRoom, \* Server.DefaultRoom
  NoRoom,      \* the empty string: Client.Room before JoinRoom
  TextOf,      \* the text of a room name
  Sorted,      \* the room names in their order
  Lines,       \* the lines users say and the operator announces
  LastDay,     \* bound on the days that pass
  MaxEvents,   \* bound on the number of events
  MaxStarts,   \* bound on the number of starts of the server
  Inputs       \* what may happen in a run

ASSUME HistoryAssumption ==
  /\ Operator \notin Users
  /\ DefaultRoom \in Rooms /\ IsFiniteSet(Rooms)
  /\ NoRoom \notin Rooms
  /\ LastDay \in Nat \ {0} /\ MaxEvents \in Nat /\ MaxStarts \in Nat

RoomKeys == Rooms \cup {NoRoom}
Actors == Users \cup {Operator}
Days == 1..LastDay

VARIABLES
  phase,    \* down, up, bye (farewell logged), closed (the logger)
  today,    \* the day
  reset,    \* the day on which ClearHistory ran last, or the server started
  rooms,    \* the keys of Server.rooms
  history,  \* Room.history of every room; a room that is gone has none
  log,      \* the log file of every day: lines, and the events they are of
  curDate,  \* Logger.curDate: the day whose file is open, 0 for none
  name,     \* Client.Username
  roomOf,   \* Client.Room of the registered clients
  muted,    \* the clients with the muted flag
  pc,       \* where every goroutine is
  event,    \* the event a goroutine records
  other,    \* the room a switch goes to, then the room it left
  todo,     \* the rooms an announcement has still to be recorded in
  screen,   \* the events a user has been shown
  added,    \* every event recorded since the server started
  count,    \* events so far
  starts    \* starts so far

process == <<phase, starts>>
clock == <<today, reset>>
memory == <<rooms, history>>
disk == <<log, curDate>>
client == <<name, roomOf, muted>>
work == <<event, other, todo>>
ghosts == <<screen, added, count>>
vars == <<phase, starts, today, reset, rooms, history, log, curDate, name,
          roomOf, muted, pc, event, other, todo, screen, added, count>>

NoEvent == [id |-> 0, by |-> Operator, in |-> NoRoom, msg |-> Corrupt]

Init ==
  /\ phase = "down" /\ starts = 0
  /\ today = 1 /\ reset = 1
  /\ rooms = {}
  /\ history = [k \in RoomKeys |-> <<>>]
  /\ name = NameOf
  /\ log = [d \in Days |-> <<>>]
  /\ curDate = 0
  /\ roomOf = [u \in Users |-> NoRoom]
  /\ muted = {}
  /\ pc = [a \in Actors |-> IF a = Operator THEN "op" ELSE "out"]
  /\ event = [a \in Actors |-> NoEvent]
  /\ other = [u \in Users |-> NoRoom]
  /\ todo = {}
  /\ screen = [u \in Users |-> {}]
  /\ added = {} /\ count = 0

-----------------------------------------------------------------------------
(* The log. *)

(* Variant for the mutation runs: an open file is used whatever its day. *)
EnsureAnyFile(day) == curDate' = IF curDate = 0 THEN day ELSE curDate

(* Logger.ensureFile: the file of the message's day is open for appending. *)
EnsureFile(day) == curDate' = day

(* Logger.Log, under its own mutex. *)
WriteLog(e) ==
  IF phase = "closed" THEN UNCHANGED disk
  ELSE /\ EnsureFile(e.msg.day)
       /\ log' = [log EXCEPT ![curDate'] =
                    Append(@, [line |-> FormatLogLine(e.msg), of |-> e])]

ServerEvent(text) ==
  [NoEvent EXCEPT !.msg =
     Message("SERVER", today, Empty, <<text>>, Empty, Empty)]

(* The message RecoverHistory makes of a line. *)
Parsed(entry) == ParseLogLine(entry.line)

(* The room it goes into: old logs, and events recorded in no room, have   *)
(* no tag.                                                                 *)
RecoveredRoom(m) ==
  IF m.room = Empty THEN DefaultRoom
  ELSE CHOOSE r \in Rooms : TextOf[r] = m.room

Kept(m) == m # Corrupt /\ m.type # "SERVER"

(* The event that a line of room r brings back. *)
Recovered(entry, r) ==
  [entry.of EXCEPT !.msg = [Parsed(entry) EXCEPT !.room = TextOf[r]]]

IsOf(entry, r) == Kept(Parsed(entry)) /\ RecoveredRoom(Parsed(entry)) = r

(* RecoverHistory of one room, line by line. *)
RecoverHistory(file, r) ==
  LET found[i \in 0..Len(file)] ==
        IF i = 0 THEN <<>>
        ELSE IF IsOf(file[i], r)
               THEN Append(found[i - 1], Recovered(file[i], r))
               ELSE found[i - 1]
  IN found[Len(file)]

-----------------------------------------------------------------------------
(* The life of the process. *)

(* Start, before acceptLoop: nobody else runs yet. *)
Start ==
  /\ phase = "down" /\ starts < MaxStarts
  /\ phase' = "up" /\ starts' = starts + 1
  /\ reset' = today
  /\ WriteLog(ServerEvent("started"))
  /\ history' = [k \in RoomKeys |->
       IF k = NoRoom THEN <<>> ELSE RecoverHistory(log'[today], k)]
  /\ rooms' = {DefaultRoom} \cup {k \in Rooms : history'[k] # <<>>}
  /\ UNCHANGED <<today, client, pc, work, ghosts>>

(* The process ends, by itself after Shutdown or at any moment: all that   *)
(* is left are the files.                                                  *)
End ==
  /\ phase # "down"
  /\ phase = "closed" \/ ("crash" \in Inputs /\ starts < MaxStarts)
  /\ phase' = "down"
  /\ curDate' = 0
  /\ rooms' = {} /\ history' = [k \in RoomKeys |-> <<>>]
  /\ name' = NameOf /\ roomOf' = [u \in Users |-> NoRoom] /\ muted' = {}
  /\ pc' = [a \in Actors |-> IF a = Operator THEN "op" ELSE "out"]
  /\ event' = [a \in Actors |-> NoEvent]
  /\ other' = [u \in Users |-> NoRoom]
  /\ todo' = {} /\ added' = {}
  /\ screen' = [u \in Users |-> {}]
  /\ UNCHANGED <<starts, clock, log, count>>

(* Shutdown: after the grace period and the forced close the farewell is   *)
(* logged and the logger closed, whoever still records.  What comes before *)
(* only stops new connections.                                             *)
Farewell ==
  /\ phase = "up" /\ "shutdown" \in Inputs /\ starts < MaxStarts
  /\ phase' = "bye"
  /\ WriteLog(ServerEvent("farewell"))
  /\ UNCHANGED <<starts, clock, memory, client, pc, work, ghosts>>

CloseLogger ==
  /\ phase = "bye"
  /\ phase' = "closed"
  /\ curDate' = 0
  /\ UNCHANGED <<starts, clock, memory, log, client, pc, work, ghosts>>

Midnight ==
  /\ today + 1 \in Days /\ phase \in {"up", "down"}
  /\ today' = today + 1
  /\ UNCHANGED <<process, reset, memory, disk, client, pc, work, ghosts>>

(* Variant for the mutation runs: only the default room is cleared. *)
ClearDefaultHistory ==
  /\ phase = "up" /\ reset # today
  /\ reset' = today
  /\ history' = [history EXCEPT ![DefaultRoom] = <<>>]
  /\ UNCHANGED <<process, today, rooms, disk, client, pc, work, ghosts>>

(* startMidnightWatcher's timer, which may be late. *)
ClearHistory ==
  /\ phase = "up" /\ reset # today
  /\ reset' = today
  /\ history' = [k \in RoomKeys |-> <<>>]
  /\ UNCHANGED <<process, today, rooms, disk, client, pc, work, ghosts>>

-----------------------------------------------------------------------------
(* Recording an event: recordRoomEvent and the broadcast after it. *)

(* The message is stamped; recordRoomEvent is called for room k. *)
Compose(a, k, type, sender, content, extra) ==
  /\ phase # "down" /\ count < MaxEvents
  /\ count' = count + 1
  /\ pc' = [pc EXCEPT ![a] = "add"]
  /\ event' = [event EXCEPT ![a] =
       [id |-> count + 1, by |-> a, in |-> k,
        msg |-> Message(type, today, sender, content, extra, TextOf[k])]]
  /\ UNCHANGED <<process, clock, memory, disk, added>>

AddRoomHistory(a) ==
  LET e == event[a] IN
  /\ pc[a] = "add"
  /\ pc' = [pc EXCEPT ![a] = "log"]
  /\ rooms' = rooms \cup {e.in}
  /\ history' = [history EXCEPT ![e.in] = Append(@, e)]
  /\ added' = added \cup {e}
  /\ UNCHANGED <<process, clock, disk, client, work, screen, count>>

Log(a) ==
  /\ pc[a] = "log"
  /\ pc' = [pc EXCEPT ![a] = IF event[a].msg.type = "ANNOUNCE" THEN "next"
                                                              ELSE "cast"]
  /\ WriteLog(event[a])
  /\ UNCHANGED <<process, clock, memory, client, work, ghosts>>

(* In Room.clients. *)
Here(k) == {u \in Users : roomOf[u] = k}

(* In Server.clients: from the registration to RemoveClient. *)
Registered == {u \in Users : pc[u] = "choose" \/ roomOf[u] # NoRoom}

(* Variant for the mutation runs: who is still being shown the history is  *)
(* left out.                                                               *)
ActiveAudience(a) ==
  IF a = Operator THEN Registered
  ELSE IF event[a].msg.type = "NAMECHANGE" THEN Here(event[a].in)
  ELSE {u \in Here(event[a].in) \ {a} : pc[u] = "active"}

(* BroadcastAllRooms reaches every registered client, BroadcastRoom those  *)
(* whom the room lists but, except for a change of name, the sender.       *)
Audience(a) ==
  IF a = Operator THEN Registered
  ELSE IF event[a].msg.type = "NAMECHANGE" THEN Here(event[a].in)
  ELSE Here(event[a].in) \ {a}

(* Where the goroutine goes on. *)
AfterCast(a) ==
  IF a = Operator THEN "op"
  ELSE IF event[a].msg.type # "LEAVE" THEN "active"
  ELSE IF event[a].msg.extra = <<"switched">> THEN "move" ELSE "delete"

Broadcast(a) ==
  /\ pc[a] = "cast"
  /\ pc' = [pc EXCEPT ![a] = AfterCast(a)]
  /\ screen' = [u \in Users |->
       IF u \in Audience(a) THEN screen[u] \cup {event[a].id} ELSE screen[u]]
  /\ event' = [event EXCEPT ![a] = NoEvent]
  /\ UNCHANGED <<process, clock, memory, disk, client, other, todo,
                 added, count>>

-----------------------------------------------------------------------------
(* A user: registration, the first room, lines, a switch, the end. *)

Register(u) ==
  /\ phase = "up" /\ count < MaxEvents
  /\ pc[u] = "out"
  /\ pc' = [pc EXCEPT ![u] = "choose"]
  /\ UNCHANGED <<process, clock, memory, disk, client, work, ghosts>>

JoinFirstRoom(u, r) ==
  /\ pc[u] = "choose" /\ phase = "up"
  /\ pc' = [pc EXCEPT ![u] = "replay"]
  /\ roomOf' = [roomOf EXCEPT ![u] = r]
  /\ rooms' = rooms \cup {r}
  /\ UNCHANGED <<process, clock, history, disk, name, muted, work, ghosts>>

(* GetRoomHistory is shown, then the join event stamped: the end of        *)
(* prepareClientSession and of switchClientRoom.                           *)
Replay(u) ==
  LET r == roomOf[u] IN
  /\ pc[u] = "replay"
  /\ screen' = [screen EXCEPT ![u] =
                  @ \cup {history[r][i].id : i \in DOMAIN history[r]}]
  /\ Compose(u, r, "JOIN", name[u], Empty, Empty)
  /\ UNCHANGED <<client, other, todo>>

(* A line can be read: the forced close ends that before the farewell. *)
Reads(u) == pc[u] = "active" /\ phase = "up"

(* handleChatMessage up to recordRoomEvent. *)
Chat(u, line) ==
  /\ Reads(u) /\ "chat" \in Inputs
  /\ u \notin muted
  /\ Compose(u, roomOf[u], "CHAT", name[u], line, Empty)
  /\ UNCHANGED <<client, other, todo, screen>>

Rename(u, n) ==
  /\ Reads(u) /\ "rename" \in Inputs
  /\ \A a \in Actors : name[a] # n
  /\ name' = [name EXCEPT ![u] = n]
  /\ Compose(u, roomOf[u], "NAMECHANGE", n, Empty, name[u])
  /\ UNCHANGED <<roomOf, muted, other, todo, screen>>

Switch(u, r) ==
  /\ Reads(u) /\ "switch" \in Inputs
  /\ r # roomOf[u]
  /\ other' = [other EXCEPT ![u] = r]
  /\ Compose(u, roomOf[u], "LEAVE", name[u], Empty, <<"switched">>)
  /\ UNCHANGED <<client, todo, screen>>

Move(u) ==
  /\ pc[u] = "move"
  /\ pc' = [pc EXCEPT ![u] = "delete"]
  /\ roomOf' = [roomOf EXCEPT ![u] = other[u]]
  /\ rooms' = rooms \cup {other[u]}
  /\ other' = [other EXCEPT ![u] = roomOf[u]]
  /\ UNCHANGED <<process, clock, history, disk, name, muted, event, todo,
                 ghosts>>

(* cleanupConnection: RemoveClient, then the event. *)
Leave(u) ==
  /\ pc[u] = "active" /\ "leave" \in Inputs
  /\ roomOf' = [roomOf EXCEPT ![u] = NoRoom]
  /\ other' = [other EXCEPT ![u] = roomOf[u]]
  /\ Compose(u, roomOf[u], "LEAVE", name[u], Empty, <<"drop">>)
  /\ UNCHANGED <<name, muted, todo, screen>>

(* Variant for the mutation runs: the history stays for the next room of   *)
(* that name.                                                              *)
DeleteRoomKeepingHistory(u) ==
  /\ pc[u] = "delete"
  /\ other[u] # DefaultRoom
  /\ \A v \in Users : roomOf[v] # other[u]
  /\ rooms' = rooms \ {other[u]}
  /\ other' = [other EXCEPT ![u] = NoRoom]
  /\ pc' = [pc EXCEPT ![u] = IF roomOf[u] = NoRoom THEN "out" ELSE "replay"]
  /\ UNCHANGED <<process, clock, history, disk, client, event, todo, ghosts>>

(* deleteRoomIfEmpty of the room left: its history goes with it.  Whoever  *)
(* queues for it keeps it.  Who has left may come back with a new          *)
(* connection.                                                             *)
DeleteRoom(u) ==
  /\ pc[u] = "delete"
  /\ \/ UNCHANGED memory
     \/ /\ other[u] # DefaultRoom
        /\ \A v \in Users : roomOf[v] # other[u]
        /\ rooms' = rooms \ {other[u]}
        /\ history' = [history EXCEPT ![other[u]] = <<>>]
  /\ other' = [other EXCEPT ![u] = NoRoom]
  /\ \/ /\ roomOf[u] # NoRoom
        /\ pc' = [pc EXCEPT ![u] = "replay"]
        /\ UNCHANGED <<name, muted, screen>>
     \/ /\ roomOf[u] = NoRoom
        /\ pc' = [pc EXCEPT ![u] = "out"]
        /\ name' = [name EXCEPT ![u] = NameOf[u]]
        /\ muted' = muted \ {u}
        /\ screen' = [screen EXCEPT ![u] = {}]
  /\ UNCHANGED <<process, clock, disk, roomOf, event, todo, added, count>>

-----------------------------------------------------------------------------
(* The operator. *)

(* mute and unmute: the flag, then the event in the target's room, which   *)
(* is no room before he has joined one.                                    *)
SetMuted(u, on) ==
  /\ pc[Operator] = "op" /\ phase = "up" /\ "mute" \in Inputs
  /\ u \in Registered
  /\ on # (u \in muted)
  /\ muted' = IF on THEN muted \cup {u} ELSE muted \ {u}
  /\ Compose(Operator, roomOf[u], "MOD", name[u],
             IF on THEN <<"muted">> ELSE <<"unmuted">>, name[Operator])
  /\ UNCHANGED <<name, roomOf, other, todo, screen>>

Position(k) == CHOOSE i \in DOMAIN Sorted : Sorted[i] = k

(* GetRoomNames, once; the event is stamped anew for every room. *)
Announce(line) ==
  /\ pc[Operator] = "op" /\ phase = "up" /\ "announce" \in Inputs
  /\ count + Cardinality(rooms) <= MaxEvents
  /\ count' = count + Cardinality(rooms)
  /\ pc' = [pc EXCEPT ![Operator] = "next"]
  /\ todo' = rooms
  /\ event' = [event EXCEPT ![Operator] =
       [id |-> count + 1, by |-> Operator, in |-> NoRoom,
        msg |-> Message("ANNOUNCE", today, Empty, line, name[Operator],
                        Empty)]]
  /\ UNCHANGED <<process, clock, memory, disk, client, other, screen, added>>

(* The announcement as it is recorded in room k. *)
Stamped(e, k) ==
  [e EXCEPT !.in = k,
            !.msg = [e.msg EXCEPT !.day = today, !.room = TextOf[k]]]

NextRoom(k) ==
  /\ pc[Operator] = "next"
  /\ k \in todo /\ \A l \in todo : Position(k) <= Position(l)
  /\ todo' = todo \ {k}
  /\ pc' = [pc EXCEPT ![Operator] = "add"]
  /\ event' = [event EXCEPT ![Operator] = Stamped(event[Operator], k)]
  /\ UNCHANGED <<process, clock, memory, disk, client, other, ghosts>>

NoMoreRooms ==
  /\ pc[Operator] = "next" /\ todo = {}
  /\ pc' = [pc EXCEPT ![Operator] = "cast"]
  /\ UNCHANGED <<process, clock, memory, disk, client, work, ghosts>>

-----------------------------------------------------------------------------
UserStep(u) ==
  \/ Register(u)
  \/ \E r \in Rooms : JoinFirstRoom(u, r) \/ Switch(u, r)
  \/ \E line \in Lines : Chat(u, line)
  \/ \E n \in NewNames : Rename(u, n)
  \/ Replay(u) \/ Move(u) \/ Leave(u) \/ DeleteRoom(u)

OperatorStep ==
  \/ \E u \in Users, on \in BOOLEAN : SetMuted(u, on)
  \/ \E line \in Lines : Announce(line)
  \/ \E k \in RoomKeys : NextRoom(k)
  \/ NoMoreRooms

Next ==
  \/ Start \/ End \/ Farewell \/ CloseLogger
  \/ Midnight \/ ClearHistory
  \/ \E a \in Actors : AddRoomHistory(a) \/ Log(a) \/ Broadcast(a)
  \/ \E u \in Users : UserStep(u)
  \/ OperatorStep

Spec == Init /\ [][Next]_vars

-----------------------------------------------------------------------------
(* Types. *)

(* Every variable has the type of what it stands for; a room that is not   *)
(* there has neither history nor occupants.                                *)
TypeOK ==
  /\ phase \in {"down", "up", "bye", "closed"}
  /\ today \in Days /\ reset \in Days /\ curDate \in Days \cup {0}
  /\ rooms \subseteq RoomKeys
  /\ \A k \in RoomKeys \ rooms : history[k] = <<>> /\ \A u \in Users :
       roomOf[u] = k => k = NoRoom
  /\ DOMAIN log = Days
  /\ roomOf \in [Users -> RoomKeys] /\ other \in [Users -> RoomKeys]
  /\ muted \subseteq Users /\ todo \subseteq RoomKeys
  /\ pc \in [Actors -> {"op", "next", "out", "choose", "replay", "add", "log",
                        "cast", "active", "move", "delete"}]
  /\ \A a \in Actors :
       event[a].id \in 0..MaxEvents /\ event[a].in \in RoomKeys
  /\ screen \in [Users -> SUBSET (1..MaxEvents)]
  /\ count \in 0..MaxEvents /\ starts \in 0..MaxStarts

-----------------------------------------------------------------------------
(* Properties. *)

(* The author is done with recording e, with its line too; with showing it *)
(* too.                                                                    *)
Settled(e) == \A a \in Actors : pc[a] = "log" => event[a] # e
Shown(e) == \A a \in Actors : event[a].id # e.id

(* While the logger is open, an event in a room's history is in the log    *)
(* file of its own day once its author has gone on: ensureFile follows the *)
(* dates of the messages, whatever order they come in around midnight.     *)
NothingUnlogged ==
  phase \in {"up", "bye"} =>
    \A e \in added : Settled(e) =>
      \E i \in DOMAIN log[e.msg.day] : log[e.msg.day][i].of = e

(* Who sits in a room has been shown everything others recorded there,     *)
(* whether before his arrival, after it, or in between: JoinRoom comes     *)
(* before GetRoomHistory, and AddRoomHistory before the broadcast.         *)
NothingMissed ==
  \A u \in Users : pc[u] = "active" =>
    \A i \in DOMAIN history[roomOf[u]] :
      LET e == history[roomOf[u]][i] IN
      e.by # u /\ Shown(e) => e.id \in screen[u]

(* What a client sees of an event, up to blanks at its end. *)
Looks(e) == TrimRight(Display(e.msg))

(* What a room remembers of the day a restart would bring back: everything *)
(* that is written looks the same, in the same room, and the events of one *)
(* author keep their order.                                                *)
RestartKeepsHistory ==
  phase \in {"up", "bye"} =>
    \A r \in Rooms :
      LET now  == history[r]
          back == RecoverHistory(log[today], r)
          kept == {i \in DOMAIN now :
                     now[i].msg.day = today /\ Settled(now[i])}
      IN \A i, j \in kept : i <= j /\ now[i].by = now[j].by =>
           \E k, l \in DOMAIN back :
             /\ Looks(back[k]) = Looks(now[i])
             /\ Looks(back[l]) = Looks(now[j])
             /\ k <= l /\ (i < j => k < l)

(* After the reset at midnight at most one event of yesterday of each      *)
(* author gets into the histories: the one that was stamped already.       *)
StaleIsBounded ==
  phase = "up" /\ reset = today =>
    \A a \in Actors :
      Cardinality({p \in RoomKeys \X (1..MaxEvents) :
        /\ p[2] \in DOMAIN history[p[1]]
        /\ history[p[1]][p[2]].by = a
        /\ history[p[1]][p[2]].msg.day # today}) <= 1

=============================================================================
