# TCPChat: a verification project

The program (`src/`) is a chat server over raw TCP: users connect with netcat,
take a name, choose a room, wait in the room's queue when it is full, chat,
rename themselves, move between rooms, and are kicked or banned by
administrators or by the operator at the server's terminal. What is said is kept
in memory, shown to newcomers and written to a log that a restart reads back; the
list of administrators is kept in a file. These modules model the server's shared
state and every goroutine that changes it, its two kinds of files over crashes
and restarts, and the byte-level life of one connection; TLC checks them on small
instances and TLAPS proves most of their invariants for instances of every size.

## 1. Inventory

| Component | State | Operations | Interacts with |
| --- | --- | --- | --- |
| Connection onboarding (`handler.go`) | the handler's position, its room variable | track, reject, register, choose a room, check capacity, queue, answer, wait, join, give up | registry, queues, shutdown (`quit`), moderation (`Close`) |
| Room registry and queues (`room.go`, `clients.go`) | `clients`, `rooms`, `Room.clients`, `Room.queue`, `QueueEntry.admit` | RegisterClient, RenameClient, RemoveClient, JoinRoom, getOrCreateRoom, deleteRoomIfEmpty, admitFromRoomQueue, removeFromRoomQueue, RemoveFromAllRoomQueuesByIP | every handler, under `s.mu` |
| Session and cleanup (`handler.go`, `commands.go`) | `Client.Username`, `Client.Room`, the disconnect reason | chat, /name, /switch, /create, /quit, read error, cleanupConnection, heartbeat | registry, queues, histories |
| Moderation (`commands.go`, `operator.go`, `moderation.go`) | `kickedIPs`, `bannedIPs`, muted and admin flags | kick, ban (with collateral by IP and queued users), mute, unmute, promote, demote, announce | other users' handlers: reason, removal, `Close` |
| Life cycle (`server.go`) | `quit`, `allClients` | start, accept, Shutdown, midnight watcher | all connections, histories, log |
| Admin persistence (`admins.go`) | `admins`, `admins.json` and its temporary file | load, save, add, remove, rename | promote, demote, /name, onboarding |
| History and recovery (`history.go`, `room.go`) | `Room.history` | record, replay, clear at midnight, recover at start | log, joins |
| Logger (`logger/`) | the day's file, `closed` | Log, Close | every recorded event |
| Client I/O (`client/`) | message channel, prompt and input buffer, `done` | enqueue, writeLoop, ReadLine, ReadLineInteractive, ResetScanner, Close | everything that sends |
| Messages (`models/`) | none | format and parse log lines, display | history, log |
| Command table (`cmd/`) | none | parse commands, privilege table | handlers |
| Program entry (`main.go`) | none | arguments, signals | life cycle |

**Concurrency.** One goroutine per connection runs its handler and another its
write loop; a heartbeat goroutine per session, a monitor goroutine per waiting
user, the operator's reader, Shutdown and the midnight watcher run beside them.
The shared state is protected by `s.mu`, taken and released many times in the
course of one operation; most of what is hard in this program is what happens
between two of these critical sections. `Client.Room` and `Client.Username` are
read without any lock; `SaveAdmins` writes its file without one.

**What makes each component correct.**

- *Registry*: a name is held by one connection; what a map lists under a name
  carries that name and is in that room; who left is listed nowhere; rooms exist
  exactly as long as somebody needs them.
- *Queues*: first come, first served among those still connected; a departure
  admits one; no `admit` channel is closed twice (that panics); nobody loses a
  place or waits for a free one; an admitted user arrives.
- *Cleanup and moderation*: a moderation reason survives the drop it causes; a
  moderated user ends, once, and leaves nothing behind.
- *Shutdown*: every accepted connection ends.
- *Admin persistence*: the file is a whole list at every moment, the current one
  when nothing is under way; who has the rights is on the list.
- *History*: nobody in a room misses what is recorded there; what is recorded is
  in the log of its day; a restart brings today back and nothing else.
- *Client I/O*: a slow peer stalls nobody; what is redrawn is what was typed; the
  handler gets the lines that were meant; a connection takes its goroutines along
  when it ends.

The hazards are listed in `PROJECT.json`, each with the properties that would
catch it.

## 2. Modules

```
Registry <- Onboarding <- Session <- Moderation <- ChatServer <- MCChatServer
   ^                                                |    ^
   |                              WaitingLine <-----+    |
   +------------- QueueFacts <---------------------- TypeProofs <- IndexProofs
                                                         ^
                                                         +-- QueueProofs <- LineProofs

Admins  <- MCAdmins            LogLine <- History <- MCHistory            ClientIO
   ^                                         ^                               ^
   +------ AdminsProofs                      +----- HistoryProofs            +-- ClientIOProofs
```

| Module | Models |
| --- | --- |
| `Registry` | the variables, and each critical section of `s.mu` (or of one client's mutex) as an operator |
| `Onboarding` | `handleConnection` up to the first room |
| `Session` | the session: lines and commands, heartbeat, `cleanupConnection` |
| `Moderation` | commands of administrators and of the operator |
| `ChatServer` | Shutdown, the whole next-state relation, fairness, and the properties of the server |
| `WaitingLine` | abstract: first come, first served, without queues or connections |
| `Admins` | the list of administrators, the admin flags, `admins.json`, restart |
| `LogLine` | a message, its display, its line in the log, the parser of that line |
| `History` | recording of events, histories, log files, midnight, shutdown, crash, recovery |
| `ClientIO` | one connection: peer, handler, write loop, other senders |
| `MCChatServer`, `MCAdmins`, `MCHistory` | values and symmetry for TLC |
| `QueueFacts` | lemmas about the recursive function `KeepOthers` and about parts of queues |
| `TypeProofs`, `IndexProofs`, `QueueProofs`, `LineProofs` | the server's proofs: types; maps and fields; queues and reasons; the refinement |
| `AdminsProofs`, `ClientIOProofs`, `HistoryProofs` | the proofs of the other three |

The four groups share no variables: each takes from the others what it needs as
a nondeterministic choice. `ChatServer` has queues and capacity and no
messages; `History` has messages, and lets anybody join any room at any time;
`Admins` lets a kick remove any name; `ClientIO` lets others send and close whenever
they like.

### Correspondence: the server

- **State.** `clients`, `members` (the `clients` map of every room), `rooms` (the
  keys), `queue`, `admit` (the connections whose entry's channel is closed),
  `username`, `roomOf`, `closed` (`done`), `reason`, `kickedIPs`, `bannedIPs`,
  `allClients` and `phase` (`quit` open, closed, forced close done) are the fields
  of `Server`, `Room` and `Client`. A map is a total function with `None` for a
  missing key; room `NoRoom` is the empty string. `pc` is where a goroutine is;
  `want[c]` is the handler's local room variable (the room it is going to; after
  the move, and in cleanup, the room it left); `mod[p]` holds the locals of a
  moderation command (`rest`: the collateral or removed clients still to be
  handled; `owed`: `roomsOpened`, or the rooms an announcement has to be written
  to).
- **Steps.** One action is one critical section, with the local code around it.
  So `JoinFirstRoom` is `s.mu.Lock(); s.JoinRoom(...); s.mu.Unlock()`, and
  `CheckRoomCapacity` before it is another step: everything may happen between.
  Two steps of the code are one action where no other goroutine can tell:
  reading an answer and removing the entry it declines; `target.Room` and the
  forced reason of a kick; the name and room of a collateral client; the
  heartbeat's reason and `Close`; `Close` and `UntrackClient` at the end; the
  closing of all queued users an operator removed; the operator's shutdown test
  and lookup; the address test and the shutdown test of `rejectConnection`.
- **Rooms at start.** `RecoverHistory` creates the rooms named in the day's log:
  the constant `Recovered`.
- **Data left out.** Message texts, broadcasts, prompts and logging; a name or
  room that does not validate, or a command that prints a message, is `NoEffect`
  or no step at all. Time: a cooldown may have expired whenever it is looked at,
  the shutdown timeout at any moment. A read without lock sees the old or the new
  value of a string, never a torn one. Who is an administrator is the constant
  `Admins` here.
- **Connections are used once**: a returning user is another member of `Conns`
  with the same host.

### Correspondence: the waiting line

`ChatServer` instantiates `WaitingLine` with `WaitingAt` (the connected users that
have an entry in a room's queue), `WaitingBefore` (the connected users with an
earlier entry in the same queue) and `admit`. A user whose connection has been
closed has left the line, though his entry is still in the queue: the program
skips such entries when it admits.

### Correspondence: administrators

- `admins` is the set under `s.mu`, `file` and `tmp` what is found under the two
  file names. A save is four steps: `Copy` (under the lock), `Open` (creates or
  truncates the temporary file), `Write`, `Move` (rename); each of the last three
  may fail (`Failing`), after which a warning is printed and the save is over.
  `fd[p]` says under which name the file save `p` has open is found by now: a
  rename takes an open file with it, so a save may write into `admins.json`
  itself.
- What a longer older text leaves behind a shorter one does not count: `LoadAdmins`
  decodes the first JSON value and reads no further.
- `Register`, `IsKnownAdmin`, `Restore` are the arrival; `RenameClient`,
  `IsAdmin`, `RenameAdmin` then a save are `/name`; `LookUp`, `SetAdmin`,
  `ChangeList` then a save are the operator's promote and demote (nobody else
  can). `Restart` may happen between any two steps and reads the file again.
- `lone`, `spoilt` and `crossed` are history variables. `spoilt`: saves overlapped
  or failed, and no save has run alone since. `crossed`: an arrival, rename,
  promotion or demotion met another one about the same name half-way, or a client
  that had been kicked gave itself a new name.

### Correspondence: histories and the log

- Recording is four steps of the author's goroutine: the stamp (`Compose`),
  `AddRoomHistory`, `Log`, `Broadcast`; an announcement goes through the first
  three once for every room that was there when it began, and is shown at the end.
- `history[k]` is `Room.history`; `log[d]` the file of day `d`, each line with the
  event it was written from (a ghost); `curDate` the day whose file the logger has
  open; `screen[u]` the events user `u` has been shown, whether by the replay or
  by a broadcast. Each event carries a number and its author, which the program
  has not: they tell equal messages apart.
- `End` loses everything but the files; `Start` runs `RecoverHistory` over today's
  file, line by line through `ParseLogLine`. `Farewell` and `CloseLogger` are two
  critical sections of Shutdown: a late event may follow the farewell or be cut
  off.
- `LogLine` represents a text by its tokens. Only those the parser looks for mean
  anything ("@", "[", "]:", the blank, the keywords); user names may contain
  brackets and colons. A time stamp is its day. The blanks at the end of a chat
  line are lost in the log (`TrimSpace`, message.go:151), so displays are compared
  without them.
- What is recorded in room "" is recovered into the default room; a room that was
  deleted comes back with a restart.

### Correspondence: one connection

- `net` are the bytes typed and not read, `scan` those the scanner holds,
  `msgChan` the channel, `loop` and `msg` the write loop, `inputBuf` and `prompt`
  its copy of the line being typed. `pc` goes through the entry (lines from the
  scanner), the wait for a room (`Monitor`, `ResetScanner`), `SetEchoMode`, and
  then the round of prompt, reading byte by byte and an answer of at most one
  message.
- `Take` and the write after it are two steps; `Conn.Write` need not return before
  the connection is closed. Before the session an error ends the loop, in the
  session errors are not looked at. The test of `done` in `enqueue` and the send
  are one step.
- `heard` and `got` are the bytes read in the session and the lines returned;
  `lossy` says that since the last prompt a write was dropped or the line outgrew
  `maxInteractiveBuf`.
- Bytes typed ahead that the scanner holds are lost when the session begins and at
  `ResetScanner`, as in the program. The NUL that the heartbeat writes to the
  connection is not modelled.

## 3. What TLC checks

The `Inputs` constant says what the users and the network may produce in a run:
it keeps a run to the actors its question is about. Everything a handler does
once it has its input is always in the model. `Cap` stands for
`MaxActiveClients`; 1 or 2 makes rooms full with two or three users.

| Run | Instance | Shows |
| --- | --- | --- |
| `Lobby` | 3 users of 2 hosts, 1 room, Cap 1; hang-ups, declines, quits, and the operator kicks and bans queued hosts | `TypeOK`, `IndexesExact`, `QueueSound`, `OneAdmissionPerDeparture`, `PlacesKept`, `FirstComeFirstServed` |
| `Rooms` | 3 users, 2 rooms, Cap 3; switch, create, rename, chat, heartbeat | `IndexesExact`, `NoAbandonedRoom` |
| `Commands` | 2 users, one an administrator, and the operator; 1 room, Cap 1; kick, note, announce, rename | `RegistryConsistent`, `MembershipConsistent`, `RoomsExist`, `QueueSound`, `AdmissionIsFIFO`, `ModerationSticks` |
| `Shutdown` | 2 users, 1 room, Cap 1; shutdown at any time; fairness | `ShutdownEnds`, `AdmittedArrives` |
| `ModerationEnds` | 2 users of one host; kicks and bans; fairness | `ModeratedEnds`, `ClosedEnds` |
| `Admins` | 2 users, 2 names, the operator; failing writes, crash and restart anywhere | `TypeOK`, `FileIntact`, `FileCurrent`, `RightsAgree` |
| `History` | 1 user and the operator, 2 rooms, 2 days, 3 events, 2 starts; every kind of event, crash and shutdown | `TypeOK`, `NothingUnlogged`, `RestartKeepsHistory`, `StaleIsBounded` |
| `Newcomers` | 2 users, 2 rooms, 5 events; chat, switch, leave | `NothingMissed` |
| `ClientIO` | one connection; channel of 2, input buffer of 1, 4 bytes, 1 message of others; fairness | `TypeOK`, `InputTracked`, `LinesAsTyped`, `SlowPeerHarmless`, `ConnectionEnds` |
| `Ghost`, `StrandedWaiter`, `TornAdmins` | see below | a violation |

Runs of `ChatServer` without "hangup" switch the deadlock check off: there users may
stay silent, or wait in a queue, for ever, as they may in the program. So do
`History` and `Newcomers`, which stop when their events are used up, and `ClientIO`,
which stops when the connection has ended or the peer has nothing more to type.
Where everybody has gone `ChatServer` stutters (`Idle`).

**Why the bounds are enough.** Three connections give a room's occupant, the first
in its queue and one behind or in front of him, which is what admission, order and
double admission need; two rooms give a source and a target of a switch, and a
room that can die. Races between a moderator and his target need one other user at
most. Two users and the operator give two saves that overlap and a third actor
that renames or arrives; a file is read by name only, so two names are one that
changes and one that does not. Histories: an author and the operator on either
side of midnight, with one event before a crash and two after it, are the smallest
case in which order, room, day and restart all matter; the user's name contains
"]:", the token the parser takes for the end of a name. `Newcomers` gives one
author, one newcomer and a room to leave for. Midnight does not pass during a
shutdown, and the last life neither shuts down nor crashes, as there is nobody
left to see it. After the forced close no further line is read. An announcement
uses up one of `MaxEvents` for every room. `ClientIO`: a channel of two is full
after two writes, as the program's 4096 is; a buffer of one is outgrown by the
second letter; four bytes give a line with a mistake, a backspace and its CR LF;
more than one kind of letter would add nothing, as all are treated alike. What
size might matter for is proved for every size.

**Fairness.** Weak fairness of every handler's own steps, of a moderation command
in progress and of the forced close: the Go scheduler runs what can run, mutexes
are handed on, and Shutdown's wait is bounded. A read on a closed connection
returns at once (`ClosedRead`). In `ClientIO` the handler runs, the write loop takes
what is there and sees `done`, and a write returns once the connection is closed or
the peer has gone, or if it writes nothing. Nothing is assumed of users: no run
relies on a line being typed, on a connection being dropped or on a peer that reads.

### Where code and documentation disagree

Three runs find a behaviour that the repository's own words exclude (each finding
in `PROJECT.json` quotes them):

- `Ghost`: a client kicked on its way into a room is listed there again after the
  moderator removed it, and stays listed after its connection has ended.
- `StrandedWaiter`: a user who finds a room full, and queues just after the last
  occupant's admission found the queue empty, waits for a free room.
- `TornAdmins`: of two saves that overlap one truncates the temporary file just
  before the other renames it; if the process ends then, `admins.json` is empty or
  cut off (admins.go:44 promises that crashes leave no partial file).

More of the kind came up while modelling. They have no run of their own: the
states they lead to are in the models, and the properties are stated so as to leave
room for them.

- Two users that both saw the last free place both join (handler.go:277, and
  commands.go:229 for /switch): a room exceeds `MaxActiveClients`, "the maximum
  number of clients that can be actively chatting per room" (server.go:173).
- One kick admits two waiting users, once by the moderator and once by the target's
  own cleanup, where handler_test.go:7116 expects "exactly one queued client".
- An event about a user who has not chosen a room creates a room with an empty name,
  which `validateRoomName` (handler.go:391) would refuse.
- The parser ends a name at the first "]:" (message.go:282), so an announcement by
  an administrator with "]:" in his name reads differently after a restart,
  although `ParseLogLine` is to reconstruct what `FormatLogLine` wrote
  (message.go:149). A chat line survives: its display has the same shape as its
  log line.
- The comments on `wmEcho`, `wmBackspace` and `wmNewline` (client.go:21-23) say
  that the character, the erasure and the line end are written; `writeLoop` writes
  nothing for them.
- After a line has outgrown `maxInteractiveBuf`, a backspace takes a character off
  the copy that is still in the line: the redrawn input is wrong until the next
  prompt.

`IndexesExact`, `OneAdmissionPerDeparture` and `NoAbandonedRoom` hold where nobody
is kicked out of a room or (the last) queues: the passing runs show that these
races, and no other interleaving, break them. A room whose queue empties after its
last occupant left is never deleted (`removeFromRoomQueue` does not look), so
`NoAbandonedRoom` is checked in the instance where rooms never fill. `RightsAgree`
says that a flag implies an entry on the list, for a client found under its name,
unless two commands about that name met half-way: commands.go:359, handler.go:132
and operator.go:406 and 437 are such meetings, after which flag and list do
disagree. The converse does not hold: a demotion may find nobody to demote.

## 4. What is proved

### The server

For all constants that satisfy `RegistryAssumption` (some rooms with a default
one among them, a positive capacity, hosts for all connections, distinct values
for nothing and for the operator):

- `TypeCorrect`: `Spec => []TypeOK`. `TypeOK` alone is not inductive: joining
  stores the handler's local room and closing needs a target. `Frame` adds
  `Newcomers` (no name, no room before registration), `Destined` (a handler on its
  way to a room holds a real one) and `Aimed` (a command that acts on somebody has
  a target and a host). One lemma per group of actions, one step per action.
- `NamesAgree`, `RoomsAgree`, `NoLostRoom`: `RegistryConsistent`,
  `MembershipConsistent` and `RoomsExist` are invariants, moderation included.
  They are inductive only together, and over `Frame`: renaming in a room that does
  not exist writes no room map, which is right only because such a room has no
  members (`RoomsExist`); a newcomer's registration cannot leave an old entry
  behind because nothing lists him (`Newcomers` with consistency). One lemma per
  critical section, then every action is one of them or leaves the maps alone.
- `QueuesAreSound`: `QueueSound` is inductive over `Frame` together with
  `Unadmitted`, that nobody who has yet to queue has been admitted: without it the
  append of `checkOrQueueRoom` might put a connection into a queue whose channel is
  closed already. Each section that changes a queue leaves a part of it in which
  nobody occurs twice (`Thins`); every other step is one of an actor who does not
  wait (`Acts`).
- `AdmissionsInOrder`, `PlacesAreKept`, `ModerationReasonStays`: the action
  properties `AdmissionIsFIFO`, `PlacesKept` and `ModerationSticks`, from `Frame`
  and the few sections that admit, change a queue or set a reason.
- `ServerServesInLine`: the specification implements `WaitingLine`. Initial states
  map to initial states; over `Frame` and the soundness of the queues every action
  is one of three things in the waiting line. `ArriveStep`: the new entry is
  behind all others, and its owner waits nowhere else. `ServeStep`: what was
  skipped in front of the admitted entry had been closed, so nobody was ahead.
  `Departures`: whatever closes connections or takes entries out leaves the rest
  in its order (`QueuesShrink`, from `Ordered`), and as nobody has two entries
  (`OnePlace`) who is ahead of whom does not change.
- `ListedExactly`, `OneForOne`, `NoRoomOutlivesItsUsers`,
  `RoomyServerDropsItsRooms`: what leaving costs. Each has its hypotheses as
  conditions on the constant `Inputs`, because without them the property is false
  of the code:
  - `Peaceful`, nobody is kicked or banned by name. A client kicked on its
    way into a room stays listed there (run `Ghost`), and a moderator and the kicked
    handler's own cleanup both admit a waiting user. Kicks and bans of queued
    users, hang-ups, refusals and Shutdown remain. Then `IndexesExact` follows
    from `Listed` (whoever has a name and has not left is in the maps, a handler
    past its removal is not) and `Calm` (no command that throws somebody out is
    under way, and nobody was thrown out).
  - `OneForOne` adds `Staying`, nobody switches or creates a room: a move frees a
    slot too, and the property counts departures only.
    `Counted` says that there are no more admissions than departures whose handler
    has been past the queue: who is still on the way there has yet to admit.
    `Settled` says that such a handler still names the room it left.
  - `NoRoomOutlivesItsUsers` adds `Unannounced` (an event recorded for somebody
    else's room recreates the room) and `[]NobodyQueues` (an entry whose owner has
    hung up keeps a room that nobody deletes later). `Tended` says that an empty
    room has a handler on its way out that will look at it. `RoomyServerDropsItsRooms`
    discharges the second condition for a server with no more connections than a
    room has slots: whoever asks for a room is in none, so it has a free one.
- `QueueFacts` proves what `KeepOthers`, a recursive function, returns (exactly
  the entries of other hosts, none further back than it was, in their order), by
  taking the least index at which the claim fails (`LeastElement`, from the
  well-foundedness of finite sets under inclusion).

### Administrators

For any users, names and failing calls (`AdminsAssumption`):

- `AdminsTyped`: the types, with the target of an order under way.
- `FileStaysIntact`, `FileStaysCurrent`: from `DiskInv`, which adds `Alone` (a
  save that has been alone since its copy finds the temporary file as it left it),
  `Undisturbed` (without overlap and failure whoever writes is alone) and
  `Current` (if no change waits to be copied, a lone save's copy, or else the
  file, is the list).
- `RightsStayListed`: from `RightsInv`. `Listed` is the property for names nobody
  is changing; `Locals` and `Targeted` say what a rename, an arrival or an order
  under way knows about its client; `Disjoint` that two of them are about
  different names, unless they crossed; `StillListed` that a name about to be
  given up, or to bring its rights back, is still on the list; `Fresh` that
  arrivals have no flag yet. The step lemmas follow the commands, each from its
  first step to its last.

### Histories and the log

For any users, rooms, lines, days, events and starts (`HistoryAssumption`; the rooms
are finitely many); only the last theorem assumes anything more:

- `NobodyMissesAnything` and `EverythingIsLogged`: from `HistoryInv`. `Types` has
  the few types that are needed; `Working`, `Apart` and `Recorded` that an event
  under way bears its author's name, that no two actors record the same one, and
  that what has been recorded may still be its author's work; `Down` that nothing
  is under way before a start; `Placed` that whoever is not on his way in or out
  is in a room; `Logged` is the second property with the actor who is about to
  write as the exception. `Seen` is the first, from the replay on and whether its
  author has finished or not: an event of the room that a user has not been shown
  was recorded there in this life and is under way with its author, whose
  broadcast looks at the room's clients later.
- `HistoryTypes` and `AtMostOneStale`: from `MemoryInv` over `HistoryInv`. `Bounded`
  has the bounds, `Housed` that a deleted room has left nothing and nobody behind,
  `Dated` and `Remembered` that what is in a file or a history is of a day, and of an
  event, that has been. `Late` is the property: with the histories reset today, no
  author has two events of yesterday in them (`NoSecondStale`), and one who is about
  to record another has none (`NoStaleToCome`), which alone makes it inductive: the
  stamp is taken before the lock of the history, and midnight may fall between.
  `Passes` and `Begins` say what all steps but a few do to the histories.
- `NothingIsLostByRestarting`: from `RestartInv`, under `ValidTexts`: names are not
  empty and have no blanks (`validateName` and `validateRoomName`, handler.go:360
  and 391), two rooms have different names, and the operator's, "Server", has no
  bracket and colon. Nothing is assumed of what users say, and a user's name may
  well contain a bracket and a colon: only an announcement is read wrongly then, and
  in the model it is the terminal that announces (section 3 has the case of an
  administrator).
  The first part is about texts (`ReadsBack`): what `FormatLogLine` writes of a
  message, with whatever line and name, `ParseLogLine` reads as one of the same kind,
  day and room that looks the same; a line about the server itself comes back into
  no room (`ServerLineIsSkipped`). It rests on lemmas about finding the first token
  of a kind and cutting blanks off. The second part is the order: an event is in one
  history, once (`NotYet`, `Own`), it is its author's last there until its line is
  written (`LastOne`), and an announcement is in no room it has yet to reach
  (`Todo`). So a line that is written comes after those of its author's earlier
  events, and what it brings back is appended (`RecoverGrows`, `LineComesBack`).
- That `RecoverHistory`, a recursive function over the lines, yields a sequence at
  all (`RecoverIsSeq`), and grows with the file (`RecoverAppend`), is shown by a least
  line at which it would not (`Least`): the recursive function is stated as the
  existence of its values up to a line.

### One connection

For any letters, channel size, buffer size and bounds (`ClientIOAssumption`):

- `ClientTyped`: the types, with the bounds of channel and input buffer.
- `ServerTracksInput`: `InputTracked` from `IOInv`, which adds `Phases` (echo mode
  is on exactly in the session) and `Tracks`: unless lossy or closed, what is
  taken and in the channel leads the write loop's copy to the handler's line and
  prompt. `Leads` states the recursion of `After` as the existence of a function,
  `FollowsUnique` that there is one only; `LeadsOn` appends a message, `LeadsFrom`
  takes the first one.

- `ServerReadsWhatIsTyped`: `LinesAsTyped` from `LineInv`. `Skips` says that the flag
  means that the last byte was a CR; `Answered` that one line has been returned for
  each Enter, spelled by what stays of the bytes before it; `Typing` that the line
  being typed is spelled by what stays so far, and of each of its characters how
  many backspaces would take it away (`Open`): one more than there are characters
  behind it. The last is what a backspace needs, as the property says with counts
  of bytes what the code does by shortening a buffer. `TheOrder` shows that numbers
  can be put in order in one way only, `StayBeforeNext` how what stays changes with
  a byte.

**Only model-checked**: the liveness properties (the prover has no fairness or
`ENABLED`). Every invariant and every action property of the passing runs is a
theorem; the runs of `IndexesExact`, `OneAdmissionPerDeparture` and `NoAbandonedRoom`
meet the hypotheses of theirs.

## 5. Not modelled

- *Messages*, partly: prompts, whispers and the banner are wording that nothing
  depends on; the time of day in a stamp is never looked at again.
- *Command table*, partly: who may use which command is in `Registry`; splitting a
  line into a command and its arguments, and the help text, is string handling
  without state.
- *Program entry*: `main` parses its argument and turns signals into Shutdown.
- *Logger*: errors of the file system, which are printed and lose the line; lines of
  more than 1 MB, which stop recovery (history.go:69).
- Terminal control sequences, TCP keep-alive, the idle time that starts a heartbeat.

What would add most next: the four groups composed at the points where each
leaves the other open (rights in `ChatServer`, closing in `ClientIO`); weaker
conditions for `OneForOne` (users who switch, counted with the slots they take) and
for `NoRoomOutlivesItsUsers` (queues whose entries are all alive).
