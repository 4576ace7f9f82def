---------------------------- MODULE HistoryProofs ----------------------------
(***************************************************************************)
(* For any number of users, rooms, days, events and starts of the server:  *)
(* nobody in a room misses what is recorded there, nothing that is         *)
(* recorded stays out of the log, a room's new history holds at most one   *)
(* event of yesterday per author, and a restart brings a room's history of *)
(* the day back.  First the two that need the events only, then what texts *)
(* and log lines read back as, then what a room remembers, and last what a *)
(* restart brings back.                                                    *)
(***************************************************************************)
EXTENDS History, FiniteSetTheorems, SequenceTheorems, WellFoundedInduction,
        TLAPS

-----------------------------------------------------------------------------
(* Sequences of whatever it is. *)

IsSeq(s) == \E S : s \in Seq(S)

LEMMA AppendIsSeq ==
  ASSUME NEW s, IsSeq(s), NEW e
  PROVE  /\ IsSeq(Append(s, e))
         /\ Len(s) \in Nat /\ DOMAIN s = 1..Len(s)
         /\ DOMAIN Append(s, e) = 1..(Len(s) + 1)
         /\ \A i \in 1..Len(s) : Append(s, e)[i] = s[i]
         /\ Append(s, e)[Len(s) + 1] = e
<1>1. PICK S : s \in Seq(S)
  BY DEF IsSeq
<1> DEFINE T == S \cup {e}
<1>2. s \in Seq(T) /\ e \in T
  <2>1. S \subseteq T
    OBVIOUS
  <2> QED BY <1>1, <2>1, SeqMonotonic
<1> HIDE DEF T
<1>3. Append(s, e) \in Seq(T) /\ Len(Append(s, e)) = Len(s) + 1
  BY <1>2
<1> QED BY <1>2, <1>3 DEF IsSeq

LEMMA EmptyIsSeq == IsSeq(<<>>) /\ DOMAIN <<>> = {}
<1>1. <<>> \in Seq({0}) /\ DOMAIN <<>> = 1..0
  OBVIOUS
<1> QED BY <1>1 DEF IsSeq

(* A set of numbers has a least one: of the intervals 0..i one is minimal  *)
(* under inclusion.                                                        *)
LEMMA Least ==
  ASSUME NEW B \in SUBSET Nat, B # {}
  PROVE  \E i \in B : \A j \in B : i <= j
<1> DEFINE R == StrictSubsetOrdering(Nat)
           F == {0..i : i \in B}
<1>1. IsWellFoundedOn(R, FiniteSubsetsOf(Nat))
  BY FS_StrictSubsetOrderingWellFounded
<1>2. F \subseteq FiniteSubsetsOf(Nat)
  <2>1. ASSUME NEW i \in B
        PROVE  0..i \in FiniteSubsetsOf(Nat)
    <3>1. IsFiniteSet(0..i) /\ 0..i \subseteq Nat
      BY FS_Interval
    <3> QED BY <3>1 DEF FiniteSubsetsOf
  <2> QED BY <2>1
<1>3. PICK x \in F : \A y \in F : ~ (<<y, x>> \in R)
  <2>1. F # {}
    OBVIOUS
  <2> HIDE DEF R, F
  <2> QED BY <1>1, <1>2, <2>1, WFMin
<1>4. PICK i \in B : x = 0..i
  OBVIOUS
<1>5. ASSUME NEW j \in B, ~ (i <= j)
      PROVE  FALSE
  <2>1. 0..j \subseteq 0..i /\ 0..j # 0..i /\ 0..i \subseteq Nat
    BY <1>5
  <2>2. <<0..j, 0..i>> \in R
    BY <2>1 DEF StrictSubsetOrdering
  <2> QED BY <1>3, <1>4, <2>2
<1> QED BY <1>5

-----------------------------------------------------------------------------
(* Recovery. *)

(* One line more. *)
Line(found, file, r, i) ==
  IF i = 0 THEN <<>>
  ELSE IF IsOf(file[i], r) THEN Append(found[i - 1], Recovered(file[i], r))
                           ELSE found[i - 1]

(* found is what n lines of a file bring back, line by line. *)
Builds(found, file, r, n) == found = [i \in 0..n |-> Line(found, file, r, i)]

LEMMA BuildsSeqs ==
  ASSUME NEW file, NEW r, NEW n \in Nat, NEW found, Builds(found, file, r, n)
  PROVE  \A i \in 0..n : IsSeq(found[i])
<1> DEFINE Bad == {i \in 0..n : ~ IsSeq(found[i])}
<1>1. SUFFICES ASSUME Bad # {} PROVE FALSE
  OBVIOUS
<1>2. PICK i \in Bad : \A j \in Bad : i <= j
  <2>1. Bad \in SUBSET Nat
    OBVIOUS
  <2> HIDE DEF Bad
  <2> QED BY <1>1, <2>1, Least
<1>3. found[i] = Line(found, file, r, i)
  BY Zenon DEF Builds
<1>4. CASE i = 0
  BY <1>3, <1>4, EmptyIsSeq DEF Line
<1>5. CASE i # 0
  <2>1. i - 1 \in 0..n /\ ~ (i <= i - 1)
    BY <1>5
  <2>2. IsSeq(found[i - 1])
    BY <1>2, <2>1
  <2> QED BY <1>3, <1>5, <2>2, AppendIsSeq DEF Line
<1> QED BY <1>4, <1>5

LEMMA BuildsExists ==
  ASSUME NEW file, NEW r, NEW n \in Nat
  PROVE  \E found : Builds(found, file, r, n)
<1> DEFINE Bad == {i \in Nat : ~ \E found : Builds(found, file, r, i)}
<1>1. SUFFICES ASSUME Bad # {} PROVE FALSE
  OBVIOUS
<1>2. PICK i \in Bad : \A j \in Bad : i <= j
  <2> HIDE DEF Bad
  <2>1. Bad \in SUBSET Nat
    BY DEF Bad
  <2> QED BY <1>1, <2>1, Least
<1>3. CASE i = 0
  <2> DEFINE g == [j \in 0..0 |-> <<>>]
  <2>1. \A j \in 0..0 : Line(g, file, r, j) = <<>>
    BY DEF Line
  <2>2. g = [j \in 0..0 |-> Line(g, file, r, j)]
    BY <2>1
  <2>3. Builds(g, file, r, i)
    BY <1>3, <2>2 DEF Builds
  <2> QED BY <2>3
<1>4. CASE i # 0
  <2>1. i - 1 \in Nat /\ i \in Nat /\ ~ (i <= i - 1)
    BY <1>4
  <2>2. PICK f : Builds(f, file, r, i - 1)
    BY <1>2, <2>1
  <2> DEFINE g == [j \in 0..i |-> IF j = i THEN Line(f, file, r, i) ELSE f[j]]
  <2>3. ASSUME NEW j \in 0..i
        PROVE  g[j] = Line(g, file, r, j)
    <3>1. CASE j = 0
      <4>1. 0 \in 0..(i - 1) /\ 0 # i
        BY <2>1
      <4>2. f[0] = Line(f, file, r, 0)
        BY <2>2, <4>1, Zenon DEF Builds
      <4>3. g[0] = f[0]
        BY <3>1, <4>1
      <4> HIDE DEF g
      <4> QED BY <3>1, <4>2, <4>3 DEF Line
    <3>2. CASE j # 0
      <4>1. j - 1 \in 0..i /\ j - 1 # i
        BY <2>1, <3>2
      <4>2. g[j - 1] = f[j - 1]
        BY <4>1
      <4>3. g[j] = Line(f, file, r, j)
        <5>1. CASE j = i
          BY <5>1
        <5>2. CASE j # i
          <6>1. j \in 0..(i - 1)
            BY <2>1, <5>2
          <6>2. f[j] = Line(f, file, r, j)
            BY <2>2, <6>1, Zenon DEF Builds
          <6> QED BY <5>2, <6>2
        <5> QED BY <5>1, <5>2
      <4> HIDE DEF g
      <4> QED BY <3>2, <4>2, <4>3 DEF Line
    <3> QED BY <3>1, <3>2
  <2>4. g = [j \in 0..i |-> g[j]]
    OBVIOUS
  <2> HIDE DEF g
  <2>5. Builds(g, file, r, i)
    BY <2>3, <2>4 DEF Builds
  <2> QED BY <2>5
<1> QED BY <1>3, <1>4

LEMMA RecoverIsSeq ==
  ASSUME NEW file, IsSeq(file), NEW r
  PROVE  IsSeq(RecoverHistory(file, r))
<1> DEFINE n == Len(file)
           g == CHOOSE f : Builds(f, file, r, n)
<1>1. n \in Nat
  BY AppendIsSeq
<1>2. Builds(g, file, r, n)
  <2> HIDE DEF n
  <2> QED BY <1>1, BuildsExists
<1>3. RecoverHistory(file, r) = g[n]
  BY DEF RecoverHistory, Builds, Line
<1> HIDE DEF g, n
<1> QED BY <1>1, <1>2, <1>3, BuildsSeqs

-----------------------------------------------------------------------------
(* The invariant.                                                          *)

Busy == {"add", "log", "cast", "next"}
Recording == {"add", "log", "cast"}

Types ==
  /\ phase \in {"down", "up", "bye", "closed"}
  /\ today \in Days /\ count \in Nat
  /\ IsFiniteSet(rooms) /\ (phase # "down" => DefaultRoom \in rooms)
  /\ DOMAIN history = RoomKeys /\ \A k \in RoomKeys : IsSeq(history[k])
  /\ DOMAIN log = Days /\ \A d \in Days : IsSeq(log[d])
  /\ roomOf \in [Users -> RoomKeys] /\ other \in [Users -> RoomKeys]
  /\ DOMAIN pc = Actors /\ DOMAIN event = Actors /\ DOMAIN screen = Users
  /\ pc[Operator] \in Busy \cup {"op"}
  /\ \A u \in Users : pc[u] \in Recording \cup
       {"out", "choose", "replay", "active", "move", "delete"}

IsEvent(e) ==
  /\ {"id", "by", "in", "msg"} \subseteq DOMAIN e
  /\ {"day", "room"} \subseteq DOMAIN e.msg /\ e.msg.day \in Days

(* Who records an event records it in his name, and who does not has none. *)
Working ==
  \A a \in Actors :
    /\ pc[a] \in Busy =>
         /\ IsEvent(event[a])
         /\ event[a].id \in 1..count /\ event[a].by = a
         /\ event[a].in \in RoomKeys
         /\ a \in Users => event[a].msg.type # "ANNOUNCE"
    /\ pc[a] \notin Busy => event[a].id = 0

(* No two record events of one composition. *)
Apart ==
  \A a, b \in Actors : a # b /\ event[a].id = event[b].id => event[a].id = 0

(* An event that has been recorded may be still its author's work. *)
Recorded ==
  \A e \in added :
    /\ e.id \in 1..count /\ e.msg.day \in Days
    /\ \A a \in Actors :
         event[a].id = e.id => e.by = a /\ (a \in Users => e.in = event[a].in)

(* The process does nothing before it starts. *)
Down ==
  phase = "down" => /\ added = {}
                    /\ \A a \in Actors : pc[a] \in {"op", "out"}

(* A user is in a room, unless he is on his way in or out. *)
Leaves(u, how) == event[u].msg.type = "LEAVE" /\ event[u].msg.extra = <<how>>

Placed ==
  \A u \in Users :
    /\ pc[u] \in {"replay", "active", "move"} => roomOf[u] \in Rooms
    /\ pc[u] \in Recording => roomOf[u] \in Rooms \/ Leaves(u, "drop")
    /\ pc[u] = "move" => other[u] \in Rooms
    /\ pc[u] \in Recording /\ Leaves(u, "switched") => other[u] \in Rooms

(* The author of e, an event in room k, still works on it. *)
UnderWay(e, k) ==
  e \in added /\ e.in = k /\ \E a \in Actors : event[a].id = e.id

(* From the replay on a user has seen what others have recorded and shown. *)
Settling == Recording \cup {"active", "move"}

SeenBy(u) ==
  pc[u] \in Settling /\ roomOf[u] \in Rooms =>
    \A i \in DOMAIN history[roomOf[u]] :
      LET e == history[roomOf[u]][i] IN
      e.by # u => e.id \in screen[u] \/ UnderWay(e, roomOf[u])

Seen == \A u \in Users : SeenBy(u)

InLog(e) == \E i \in DOMAIN log[e.msg.day] : log[e.msg.day][i].of = e

Logged ==
  phase \in {"up", "bye"} =>
    \A e \in added :
      InLog(e) \/ \E a \in Actors : pc[a] = "log" /\ event[a] = e

HistoryInv ==
  Types /\ Working /\ Apart /\ Recorded /\ Down /\ Placed /\ Seen /\ Logged

-----------------------------------------------------------------------------
(* The log. *)

LEMMA WriteLogKeeps ==
  ASSUME Types, NEW e, e.msg.day \in Days, WriteLog(e)
  PROVE  /\ DOMAIN log' = Days /\ \A d \in Days : IsSeq(log'[d])
         /\ \A f : f.msg.day \in Days /\ InLog(f) =>
              \E i \in DOMAIN log'[f.msg.day] : log'[f.msg.day][i].of = f
         /\ phase # "closed" =>
              \E i \in DOMAIN log'[e.msg.day] : log'[e.msg.day][i].of = e
<1>1. CASE phase = "closed"
  BY <1>1 DEF WriteLog, disk, Types, InLog
<1>2. CASE phase # "closed"
  <2> DEFINE d == e.msg.day
             x == [line |-> FormatLogLine(e.msg), of |-> e]
             n == Len(log[d])
  <2>1. /\ log' = [log EXCEPT ![d] = Append(log[d], x)]
        /\ DOMAIN log = Days /\ d \in Days /\ IsSeq(log[d])
        /\ \A c \in Days : IsSeq(log[c])
    BY <1>2 DEF WriteLog, EnsureFile, Types
  <2>2. x.of = e
    OBVIOUS
  <2> HIDE DEF d, x, n
  <2>3. /\ DOMAIN log' = Days /\ log'[d] = Append(log[d], x)
        /\ \A c \in Days : c # d => log'[c] = log[c]
    BY <2>1
  <2>4. /\ IsSeq(log'[d]) /\ n \in Nat
        /\ DOMAIN log[d] = 1..n /\ DOMAIN log'[d] = 1..(n + 1)
        /\ \A i \in 1..n : log'[d][i] = log[d][i]
        /\ log'[d][n + 1] = x
    BY <2>1, <2>3, AppendIsSeq DEF n
  <2>5. ASSUME NEW f, f.msg.day \in Days, InLog(f)
        PROVE  \E i \in DOMAIN log'[f.msg.day] : log'[f.msg.day][i].of = f
    <3>1. PICK i \in DOMAIN log[f.msg.day] : log[f.msg.day][i].of = f
      BY <2>5 DEF InLog
    <3>2. CASE f.msg.day = d
      <4>1. i \in 1..n /\ i \in 1..(n + 1)
        BY <2>4, <3>1, <3>2
      <4> QED BY <2>4, <3>1, <3>2, <4>1
    <3>3. CASE f.msg.day # d
      BY <2>3, <2>5, <3>1, <3>3
    <3> QED BY <3>2, <3>3
  <2>6. \E i \in DOMAIN log'[d] : log'[d][i].of = e
    <3>1. n + 1 \in DOMAIN log'[d]
      BY <2>4
    <3> QED BY <2>2, <2>4, <3>1
  <2> QED BY <2>1, <2>3, <2>4, <2>5, <2>6 DEF d
<1> QED BY <1>1, <1>2

LEMMA ServerEventDay ==
  ASSUME NEW text PROVE ServerEvent(text).msg.day = today
BY DEF ServerEvent, NoEvent, Message

-----------------------------------------------------------------------------
(* The start and the end of the process, and the clock. *)

LEMMA InitHistory ==
  ASSUME Init PROVE HistoryInv
<1> USE HistoryAssumption DEF HistoryAssumption, Init
<1>1. Types
  <2>1. IsFiniteSet({})
    BY FS_EmptySet
  <2>2. \A k \in RoomKeys : IsSeq(history[k])
    BY EmptyIsSeq
  <2>3. \A d \in Days : IsSeq(log[d])
    BY EmptyIsSeq
  <2> QED BY <2>1, <2>2, <2>3 DEF Types, Days, Actors, RoomKeys, Busy, Recording
<1>2. Working /\ Apart /\ Down
  BY DEF Working, Apart, Down, Busy, Actors, NoEvent
<1>3. Recorded /\ Logged
  BY DEF Recorded, Logged
<1>4. Placed /\ Seen
  BY DEF Placed, Seen, SeenBy, Settling, Recording, Actors
<1> QED BY <1>1, <1>2, <1>3, <1>4 DEF HistoryInv

(* No goroutine moves and nothing is recorded. *)
LEMMA StillWorking ==
  ASSUME HistoryInv,
         UNCHANGED <<pc, event, added, count, roomOf, other, screen>>
  PROVE  Working' /\ Apart' /\ Recorded' /\ Placed'
<1>1. Working'
  BY DEF HistoryInv, Working
<1>2. Apart' /\ Recorded'
  BY DEF HistoryInv, Apart, Recorded
<1>3. Placed'
  BY DEF HistoryInv, Placed, Leaves
<1> QED BY <1>1, <1>2, <1>3

LEMMA StartKeeps ==
  ASSUME HistoryInv, Start PROVE HistoryInv'
<1> USE DEF HistoryInv
<1>1. /\ phase = "down" /\ phase' = "up"
      /\ UNCHANGED <<pc, event, added, count, roomOf, other, screen, today>>
      /\ added = {} /\ \A a \in Actors : pc[a] \in {"op", "out"}
      /\ WriteLog(ServerEvent("started"))
      /\ history' = [k \in RoomKeys |->
           IF k = NoRoom THEN <<>> ELSE RecoverHistory(log'[today], k)]
      /\ rooms' = {DefaultRoom} \cup {k \in Rooms : history'[k] # <<>>}
  BY DEF Start, Down, client, work, ghosts
<1>2. Types'
  <2>1. DOMAIN log' = Days /\ \A d \in Days : IsSeq(log'[d])
    BY <1>1, WriteLogKeeps, ServerEventDay DEF Types
  <2>2. \A k \in RoomKeys : IsSeq(history'[k])
    BY <1>1, <2>1, RecoverIsSeq, EmptyIsSeq DEF Types
  <2>3. IsFiniteSet(rooms')
    <3>1. /\ IsFiniteSet({k \in Rooms : history'[k] # <<>>})
          /\ IsFiniteSet({DefaultRoom})
      BY HistoryAssumption, FS_Subset, FS_Singleton DEF HistoryAssumption
    <3> HIDE DEF HistoryInv
    <3> QED BY <1>1, <3>1, FS_Union
  <2> QED BY <1>1, <2>1, <2>2, <2>3 DEF Types
<1>3. Working' /\ Apart' /\ Recorded' /\ Placed'
  BY <1>1, StillWorking
<1>4. Down' /\ Logged'
  BY <1>1 DEF Down, Logged
<1>5. Seen'
  BY <1>1 DEF Seen, SeenBy, Settling, Recording, Actors
<1> QED BY <1>2, <1>3, <1>4, <1>5

LEMMA EndKeeps ==
  ASSUME HistoryInv, End PROVE HistoryInv'
<1> USE HistoryAssumption DEF HistoryAssumption, HistoryInv
<1>1. /\ phase' = "down" /\ rooms' = {} /\ added' = {}
      /\ history' = [k \in RoomKeys |-> <<>>]
      /\ roomOf' = [u \in Users |-> NoRoom]
      /\ pc' = [a \in Actors |-> IF a = Operator THEN "op" ELSE "out"]
      /\ event' = [a \in Actors |-> NoEvent]
      /\ other' = [u \in Users |-> NoRoom]
      /\ screen' = [u \in Users |-> {}]
      /\ UNCHANGED <<today, log, count>>
  BY DEF End, clock
<1>2. Types'
  <2>1. IsFiniteSet({})
    BY FS_EmptySet
  <2>2. \A k \in RoomKeys : IsSeq(history'[k])
    BY <1>1, EmptyIsSeq
  <2> QED BY <1>1, <2>1, <2>2 DEF Types, Days, Actors, RoomKeys, Busy, Recording
<1>3. Working' /\ Apart' /\ Down'
  BY <1>1 DEF Working, Apart, Down, Busy, Actors, NoEvent
<1>4. Recorded' /\ Logged'
  BY <1>1 DEF Recorded, Logged
<1>5. Placed' /\ Seen'
  BY <1>1 DEF Placed, Seen, SeenBy, Settling, Recording, Actors
<1> QED BY <1>2, <1>3, <1>4, <1>5

LEMMA FarewellKeeps ==
  ASSUME HistoryInv, Farewell PROVE HistoryInv'
<1> USE DEF HistoryInv
<1>1. /\ phase = "up" /\ phase' = "bye" /\ WriteLog(ServerEvent("farewell"))
      /\ UNCHANGED <<pc, event, added, count, roomOf, other, screen, today,
                     history, rooms>>
  BY DEF Farewell, clock, memory, client, work, ghosts
<1>2. /\ DOMAIN log' = Days /\ \A d \in Days : IsSeq(log'[d])
      /\ \A f : f.msg.day \in Days /\ InLog(f) =>
           \E i \in DOMAIN log'[f.msg.day] : log'[f.msg.day][i].of = f
  BY <1>1, WriteLogKeeps, ServerEventDay DEF Types
<1>3. Types'
  BY <1>1, <1>2 DEF Types
<1>4. Working' /\ Apart' /\ Recorded' /\ Placed'
  BY <1>1, StillWorking
<1>5. Down' /\ Seen'
  BY <1>1 DEF Down, Seen, SeenBy, UnderWay
<1>6. Logged'
  BY <1>1, <1>2 DEF Logged, InLog, Recorded
<1> QED BY <1>3, <1>4, <1>5, <1>6

LEMMA ClockKeeps ==
  ASSUME HistoryInv, CloseLogger \/ Midnight \/ UNCHANGED vars
  PROVE  HistoryInv'
<1> USE DEF HistoryInv
<1>1. /\ UNCHANGED <<pc, event, added, count, roomOf, other, screen, history,
                     rooms, log>>
      /\ today' \in Days
      /\ phase' = phase \/ (phase = "bye" /\ phase' = "closed")
  BY DEF Types, CloseLogger, Midnight, vars, process, clock, memory, disk,
         client, work, ghosts
<1>2. Types'
  BY <1>1 DEF Types
<1>3. Working' /\ Apart' /\ Recorded' /\ Placed'
  BY <1>1, StillWorking
<1>4. Down' /\ Seen'
  BY <1>1 DEF Down, Seen, SeenBy, UnderWay
<1>5. Logged'
  BY <1>1 DEF Logged, InLog
<1> QED BY <1>2, <1>3, <1>4, <1>5

LEMMA ClearKeeps ==
  ASSUME HistoryInv, ClearHistory PROVE HistoryInv'
<1> USE DEF HistoryInv
<1>1. /\ UNCHANGED <<pc, event, added, count, roomOf, other, screen, rooms,
                     log, today, phase>>
      /\ history' = [k \in RoomKeys |-> <<>>]
  BY DEF ClearHistory, process, disk, client, work, ghosts
<1>2. Types'
  BY <1>1, EmptyIsSeq DEF Types
<1>3. Working' /\ Apart' /\ Recorded' /\ Placed'
  BY <1>1, StillWorking
<1>4. Down' /\ Logged'
  BY <1>1 DEF Down, Logged, InLog
<1>5. Seen'
  <2>1. \A r \in Rooms : DOMAIN history'[r] = {}
    BY <1>1, EmptyIsSeq DEF RoomKeys
  <2> QED BY <1>1, <2>1 DEF Seen, SeenBy
<1> QED BY <1>2, <1>3, <1>4, <1>5

-----------------------------------------------------------------------------
(* An event is composed. *)

LEMMA NewEventKeeps ==
  ASSUME HistoryInv, phase # "down", UNCHANGED <<phase, log, added>>,
         NEW a \in Actors, pc[a] \notin Busy,
         NEW p \in {"add", "next"}, pc' = [pc EXCEPT ![a] = p],
         NEW new, event' = [event EXCEPT ![a] = new], IsEvent(new),
         new.id = count + 1, new.by = a, new.in \in RoomKeys,
         a \in Users => new.msg.type # "ANNOUNCE",
         count' \in Nat, count' > count
  PROVE  /\ Working' /\ Apart' /\ Recorded' /\ Down' /\ Logged'
         /\ \A e, r : UnderWay(e, r) => UnderWay(e, r)'
<1> USE DEF HistoryInv
<1>1. count \in Nat /\ DOMAIN pc = Actors /\ DOMAIN event = Actors
  BY DEF Types
<1>2. /\ event'[a] = new /\ pc'[a] = p
      /\ \A b \in Actors \ {a} : event'[b] = event[b] /\ pc'[b] = pc[b]
  BY <1>1
<1>3. event[a].id = 0
  BY DEF Working
<1>4. \A b \in Actors : event[b].id \in 0..count
  BY <1>1 DEF Working
<1>5. Working'
  BY <1>1, <1>2 DEF Working, Busy
<1>6. Apart'
  BY <1>1, <1>2, <1>4 DEF Apart
<1>7. Recorded'
  BY <1>1, <1>2 DEF Recorded
<1>8. Down'
  BY DEF Down
<1>9. Logged'
  <2>1. pc[a] # "log"
    BY DEF Busy
  <2>2. phase' \in {"up", "bye"} => \A e \in added' :
          InLog(e)' \/ \E b \in Actors : pc'[b] = "log" /\ event'[b] = e
    BY <1>2, <2>1 DEF Logged, InLog
  <2> QED BY <2>2 DEF Logged
<1>10. ASSUME NEW e, NEW r, UnderWay(e, r)
       PROVE  UnderWay(e, r)'
  <2>1. PICK b \in Actors : event[b].id = e.id
    BY <1>10 DEF UnderWay
  <2>2. e.id # 0
    BY <1>1, <1>10 DEF Recorded, UnderWay
  <2>3. b # a
    BY <1>3, <2>1, <2>2
  <2> QED BY <1>2, <1>10, <2>1, <2>3 DEF UnderWay
<1> QED BY <1>5, <1>6, <1>7, <1>8, <1>9, <1>10

LEMMA ComposeKeeps ==
  ASSUME HistoryInv, NEW a \in Actors, pc[a] \notin Busy,
         NEW k \in RoomKeys, NEW type, a \in Users => type # "ANNOUNCE",
         NEW sender, NEW content, NEW extra,
         Compose(a, k, type, sender, content, extra)
  PROVE  /\ Working' /\ Apart' /\ Recorded' /\ Down' /\ Logged'
         /\ pc' = [pc EXCEPT ![a] = "add"]
         /\ \A b \in Actors \ {a} : event'[b] = event[b]
         /\ event'[a].msg.type = type /\ event'[a].msg.extra = extra
         /\ \A e, r : UnderWay(e, r) => UnderWay(e, r)'
<1> DEFINE new == [id |-> count + 1, by |-> a, in |-> k,
                   msg |-> Message(type, today, sender, content, extra,
                                   TextOf[k])]
<1>1. /\ phase # "down" /\ count' = count + 1 /\ count \in Nat
      /\ pc' = [pc EXCEPT ![a] = "add"] /\ event' = [event EXCEPT ![a] = new]
      /\ DOMAIN event = Actors
      /\ UNCHANGED <<phase, log, added>> /\ today \in Days
  BY DEF HistoryInv, Compose, Types, process, clock, memory, disk
<1>2. /\ new.id = count + 1 /\ new.by = a /\ new.in = k
      /\ new.msg.type = type /\ new.msg.extra = extra
  BY DEF Message
<1>3. IsEvent(new)
  BY <1>1 DEF IsEvent, Message
<1> HIDE DEF new
<1>4. /\ event'[a] = new
      /\ \A b \in Actors \ {a} : event'[b] = event[b]
  BY <1>1
<1>5. count' \in Nat /\ count' > count
  BY <1>1
<1>6. /\ Working' /\ Apart' /\ Recorded' /\ Down' /\ Logged'
      /\ \A e, r : UnderWay(e, r) => UnderWay(e, r)'
  BY <1>1, <1>2, <1>3, <1>5, NewEventKeeps
<1> QED BY <1>1, <1>2, <1>4, <1>6

(* Who was in his room before and is still there has seen as much. *)
LEMMA StillSeen ==
  ASSUME HistoryInv, UNCHANGED history,
         NEW u \in Users,
         pc[u] \in Settling, roomOf'[u] = roomOf[u], screen'[u] = screen[u],
         \A e, r : UnderWay(e, r) => UnderWay(e, r)'
  PROVE  SeenBy(u)'
<1> DEFINE k == roomOf[u]
<1>1. ASSUME k \in Rooms, NEW i \in DOMAIN history[k], NEW e,
             e = history[k][i], e.by # u
      PROVE  e.id \in screen'[u] \/ UnderWay(e, k)'
  <2>1. e.id \in screen[u] \/ UnderWay(e, k)
    BY <1>1 DEF HistoryInv, Seen, SeenBy
  <2> QED BY <2>1
<1> QED BY <1>1 DEF SeenBy, UnderWay

(* Those who do not move have seen as much. *)
LEMMA OthersSeen ==
  ASSUME HistoryInv, UNCHANGED history, NEW a \in Actors,
         \A v \in Users \ {a} : /\ pc'[v] = pc[v] /\ roomOf'[v] = roomOf[v]
                                /\ screen'[v] = screen[v],
         \A e, r : UnderWay(e, r) => UnderWay(e, r)'
  PROVE  \A v \in Users \ {a} : SeenBy(v)'
<1>1. ASSUME NEW v \in Users \ {a} PROVE SeenBy(v)'
  <2>1. CASE pc[v] \in Settling
    BY <2>1, StillSeen
  <2>2. CASE pc[v] \notin Settling
    BY <2>2 DEF SeenBy
  <2> QED BY <2>1, <2>2
<1> QED BY <1>1

(* Where the others are. *)
LEMMA OthersPlaced ==
  ASSUME HistoryInv, NEW a \in Actors,
         \A v \in Users \ {a} : /\ pc'[v] = pc[v] /\ roomOf'[v] = roomOf[v]
                                /\ other'[v] = other[v] /\ event'[v] = event[v],
         a \in Users =>
           /\ pc'[a] \in {"replay", "active", "move"} => roomOf'[a] \in Rooms
           /\ pc'[a] \in Recording => roomOf'[a] \in Rooms \/ Leaves(a, "drop")'
           /\ pc'[a] = "move" => other'[a] \in Rooms
           /\ pc'[a] \in Recording /\ Leaves(a, "switched")'
                => other'[a] \in Rooms
  PROVE  Placed'
<1>1. ASSUME NEW v \in Users \ {a}
      PROVE  /\ pc'[v] \in {"replay", "active", "move"} => roomOf'[v] \in Rooms
             /\ pc'[v] \in Recording => roomOf'[v] \in Rooms \/ Leaves(v, "drop")'
             /\ pc'[v] = "move" => other'[v] \in Rooms
             /\ pc'[v] \in Recording /\ Leaves(v, "switched")'
                  => other'[v] \in Rooms
  BY DEF HistoryInv, Placed, Leaves
<1> QED BY <1>1 DEF Placed

(* A user says something, changes his name or sets out for another room. *)
LEMMA TalkKeeps ==
  ASSUME HistoryInv, NEW u \in Users,
         \/ \E line \in Lines : Chat(u, line)
         \/ \E n \in NewNames : Rename(u, n)
         \/ \E r \in Rooms : Switch(u, r)
  PROVE  HistoryInv'
<1> USE DEF HistoryInv
<1>1. u \in Actors /\ u # Operator /\ pc[u] = "active" /\ pc[u] \notin Busy
  BY HistoryAssumption DEF HistoryAssumption, Actors, Busy, Chat, Rename, Switch,
                           Reads
<1>2. roomOf[u] \in Rooms /\ roomOf[u] \in RoomKeys
  BY <1>1 DEF Placed, RoomKeys
<1>3. PICK type, sender, content, extra :
        /\ Compose(u, roomOf[u], type, sender, content, extra)
        /\ type # "ANNOUNCE"
        /\ type = "LEAVE" => other'[u] \in Rooms
  <2>1. ASSUME NEW line \in Lines, Chat(u, line)
        PROVE  Compose(u, roomOf[u], "CHAT", name[u], line, Empty)
    BY <2>1 DEF Chat
  <2>2. ASSUME NEW n \in NewNames, Rename(u, n)
        PROVE  Compose(u, roomOf[u], "NAMECHANGE", n, Empty, name[u])
    BY <2>2 DEF Rename
  <2>3. ASSUME NEW r \in Rooms, Switch(u, r)
        PROVE  /\ Compose(u, roomOf[u], "LEAVE", name[u], Empty, <<"switched">>)
               /\ other'[u] \in Rooms
    BY <2>3 DEF Switch, Types
  <2>4. "CHAT" # "ANNOUNCE" /\ "NAMECHANGE" # "ANNOUNCE" /\ "LEAVE" # "ANNOUNCE"
        /\ "CHAT" # "LEAVE" /\ "NAMECHANGE" # "LEAVE"
    OBVIOUS
  <2> QED BY <2>1, <2>2, <2>3, <2>4, Zenon
<1>4. /\ UNCHANGED <<roomOf, screen, history, rooms, log, today, phase>>
      /\ other' \in [Users -> RoomKeys]
      /\ \A v \in Users \ {u} : other'[v] = other[v]
      /\ count' \in Nat /\ DOMAIN event' = Actors
  <2>1. /\ UNCHANGED <<history, rooms, log, today, phase>>
        /\ count' \in Nat /\ DOMAIN event' = Actors
    BY <1>3 DEF Compose, process, clock, memory, disk, Types
  <2>2. UNCHANGED <<roomOf, screen>>
    BY DEF Chat, Rename, Switch, client
  <2>3. other' = other \/ \E r \in Rooms : other' = [other EXCEPT ![u] = r]
    BY DEF Chat, Rename, Switch
  <2>4. /\ other' \in [Users -> RoomKeys]
        /\ \A v \in Users \ {u} : other'[v] = other[v]
    BY <2>3 DEF Types, RoomKeys
  <2> QED BY <2>1, <2>2, <2>4
<1>5. /\ Working' /\ Apart' /\ Recorded' /\ Down' /\ Logged'
      /\ pc' = [pc EXCEPT ![u] = "add"]
      /\ \A b \in Actors \ {u} : event'[b] = event[b]
      /\ event'[u].msg.type = type /\ event'[u].msg.extra = extra
      /\ \A e, r : UnderWay(e, r) => UnderWay(e, r)'
  BY <1>1, <1>2, <1>3, ComposeKeeps
<1>6. /\ pc'[u] = "add" /\ DOMAIN pc' = Actors
      /\ \A b \in Actors \ {u} : pc'[b] = pc[b]
  BY <1>1, <1>5 DEF Types
<1>7. Types'
  BY <1>1, <1>4, <1>6 DEF Types, Actors, Recording
<1>8. Placed'
  <2>1. \A v \in Users \ {u} : v \in Actors \ {u}
    BY DEF Actors
  <2>2. Leaves(u, "switched")' => other'[u] \in Rooms
    BY <1>3, <1>5 DEF Leaves
  <2>3. pc'[u] \notin {"replay", "active", "move"}
    BY <1>6
  <2> HIDE DEF HistoryInv
  <2> QED BY <1>1, <1>2, <1>4, <1>5, <1>6, <2>1, <2>2, <2>3, OthersPlaced
<1>9. Seen'
  <2>1. \A v \in Users \ {u} : v \in Actors \ {u}
    BY DEF Actors
  <2>2. \A v \in Users \ {u} : SeenBy(v)'
    BY <1>1, <1>4, <1>5, <1>6, <2>1, OthersSeen
  <2>3. SeenBy(u)'
    BY <1>1, <1>4, <1>5, StillSeen DEF Settling
  <2> QED BY <2>2, <2>3 DEF Seen
<1> QED BY <1>5, <1>7, <1>8, <1>9

LEMMA LeaveKeeps ==
  ASSUME HistoryInv, NEW u \in Users, Leave(u) PROVE HistoryInv'
<1> USE DEF HistoryInv
<1>1. /\ u \in Actors /\ u # Operator /\ pc[u] = "active" /\ pc[u] \notin Busy
      /\ NoRoom \notin Rooms
  BY HistoryAssumption DEF HistoryAssumption, Actors, Busy, Leave
<1>2. roomOf[u] \in Rooms /\ roomOf[u] \in RoomKeys
  BY <1>1 DEF Placed, RoomKeys
<1>3. /\ Compose(u, roomOf[u], "LEAVE", name[u], Empty, <<"drop">>)
      /\ roomOf' = [roomOf EXCEPT ![u] = NoRoom]
      /\ other' = [other EXCEPT ![u] = roomOf[u]]
      /\ UNCHANGED <<screen, history, rooms, log, today, phase>>
      /\ count' \in Nat /\ DOMAIN event' = Actors
  BY DEF Leave, Compose, process, clock, memory, disk, Types
<1>4. /\ roomOf'[u] = NoRoom /\ roomOf' \in [Users -> RoomKeys]
      /\ other' \in [Users -> RoomKeys]
      /\ \A v \in Users \ {u} : roomOf'[v] = roomOf[v] /\ other'[v] = other[v]
  BY <1>2, <1>3 DEF Types, RoomKeys
<1>5. /\ Working' /\ Apart' /\ Recorded' /\ Down' /\ Logged'
      /\ pc' = [pc EXCEPT ![u] = "add"]
      /\ \A b \in Actors \ {u} : event'[b] = event[b]
      /\ event'[u].msg.type = "LEAVE" /\ event'[u].msg.extra = <<"drop">>
      /\ \A e, r : UnderWay(e, r) => UnderWay(e, r)'
  BY <1>1, <1>2, <1>3, ComposeKeeps
<1>6. /\ pc'[u] = "add" /\ DOMAIN pc' = Actors
      /\ \A b \in Actors \ {u} : pc'[b] = pc[b]
  BY <1>1, <1>5 DEF Types
<1>7. Types'
  BY <1>1, <1>3, <1>4, <1>6 DEF Types, Actors, Recording
<1>8. \A v \in Users \ {u} : v \in Actors \ {u}
  BY DEF Actors
<1>9. Placed'
  <2>1. Leaves(u, "drop")' /\ ~ Leaves(u, "switched")'
    BY <1>5 DEF Leaves
  <2>2. pc'[u] \notin {"replay", "active", "move"}
    BY <1>6
  <2> HIDE DEF HistoryInv
  <2> QED BY <1>1, <1>4, <1>5, <1>6, <1>8, <2>1, <2>2, OthersPlaced
<1>10. Seen'
  <2>1. \A v \in Users \ {u} : SeenBy(v)'
    BY <1>1, <1>3, <1>4, <1>5, <1>6, <1>8, OthersSeen
  <2>2. SeenBy(u)'
    BY <1>1, <1>4 DEF SeenBy
  <2> QED BY <2>1, <2>2 DEF Seen
<1> QED BY <1>5, <1>7, <1>9, <1>10

LEMMA ReplayKeeps ==
  ASSUME HistoryInv, NEW u \in Users, Replay(u) PROVE HistoryInv'
<1> USE DEF HistoryInv
<1>1. u \in Actors /\ u # Operator /\ pc[u] = "replay" /\ pc[u] \notin Busy
  BY HistoryAssumption DEF HistoryAssumption, Actors, Busy, Replay
<1>2. roomOf[u] \in Rooms /\ roomOf[u] \in RoomKeys
  BY <1>1 DEF Placed, RoomKeys
<1> DEFINE r == roomOf[u]
           shown == {history[r][i].id : i \in DOMAIN history[r]}
<1>3. /\ Compose(u, r, "JOIN", name[u], Empty, Empty)
      /\ screen' = [screen EXCEPT ![u] = @ \cup shown]
      /\ UNCHANGED <<roomOf, other, history, rooms, log, today, phase>>
      /\ count' \in Nat /\ DOMAIN event' = Actors
  BY DEF Replay, Compose, process, clock, memory, disk, Types, client
<1>4. /\ DOMAIN screen' = Users
      /\ \A i \in DOMAIN history[r] : history[r][i].id \in screen'[u]
      /\ \A v \in Users \ {u} : screen'[v] = screen[v]
  <2>1. DOMAIN screen = Users
    BY DEF Types
  <2>2. screen'[u] = screen[u] \cup shown
    BY <1>3, <2>1
  <2> QED BY <1>3, <2>1, <2>2
<1> HIDE DEF shown
<1>5. /\ Working' /\ Apart' /\ Recorded' /\ Down' /\ Logged'
      /\ pc' = [pc EXCEPT ![u] = "add"]
      /\ \A b \in Actors \ {u} : event'[b] = event[b]
      /\ event'[u].msg.type = "JOIN"
      /\ \A e, k : UnderWay(e, k) => UnderWay(e, k)'
  <2>1. "JOIN" # "ANNOUNCE"
    OBVIOUS
  <2> HIDE DEF HistoryInv
  <2>2. r \in RoomKeys
    BY <1>2
  <2> HIDE DEF r
  <2>3. /\ Working' /\ Apart' /\ Recorded' /\ Down' /\ Logged'
        /\ pc' = [pc EXCEPT ![u] = "add"]
        /\ \A b \in Actors \ {u} : event'[b] = event[b]
        /\ event'[u].msg.type = "JOIN" /\ event'[u].msg.extra = Empty
        /\ \A e, l : UnderWay(e, l) => UnderWay(e, l)'
    BY <1>1, <1>3, <2>1, <2>2, ComposeKeeps
  <2> QED BY <2>3
<1>6. /\ pc'[u] = "add" /\ DOMAIN pc' = Actors
      /\ \A b \in Actors \ {u} : pc'[b] = pc[b]
  BY <1>1, <1>5 DEF Types
<1>7. Types'
  BY <1>1, <1>3, <1>4, <1>6 DEF Types, Actors, Recording
<1>8. \A v \in Users \ {u} : v \in Actors \ {u}
  BY DEF Actors
<1>9. Placed'
  <2>1. ~ Leaves(u, "switched")'
    BY <1>5 DEF Leaves
  <2>2. pc'[u] \notin {"replay", "active", "move"}
    BY <1>6
  <2> HIDE DEF HistoryInv
  <2> QED BY <1>1, <1>2, <1>3, <1>5, <1>6, <1>8, <2>1, <2>2, OthersPlaced
<1>10. Seen'
  <2>1. \A v \in Users \ {u} : SeenBy(v)'
    BY <1>1, <1>3, <1>4, <1>5, <1>6, <1>8, OthersSeen
  <2>2. SeenBy(u)'
    BY <1>3, <1>4 DEF SeenBy
  <2> QED BY <2>1, <2>2 DEF Seen
<1> QED BY <1>5, <1>7, <1>9, <1>10

LEMMA MuteKeeps ==
  ASSUME HistoryInv, NEW w \in Users, NEW on \in BOOLEAN, SetMuted(w, on)
  PROVE  HistoryInv'
<1> USE DEF HistoryInv
<1>1. /\ Operator \in Actors /\ Operator \notin Users /\ pc[Operator] \notin Busy
      /\ roomOf[w] \in RoomKeys
  BY HistoryAssumption DEF HistoryAssumption, Actors, Busy, SetMuted, Types
<1>2. PICK content, extra :
        Compose(Operator, roomOf[w], "MOD", name[w], content, extra)
  BY DEF SetMuted
<1>3. /\ UNCHANGED <<roomOf, other, screen, history, rooms, log, today, phase>>
      /\ count' \in Nat /\ DOMAIN event' = Actors
  BY <1>2 DEF SetMuted, Compose, process, clock, memory, disk, Types
<1>4. /\ Working' /\ Apart' /\ Recorded' /\ Down' /\ Logged'
      /\ pc' = [pc EXCEPT ![Operator] = "add"]
      /\ \A b \in Actors \ {Operator} : event'[b] = event[b]
      /\ \A e, r : UnderWay(e, r) => UnderWay(e, r)'
  BY <1>1, <1>2, ComposeKeeps
<1>5. /\ pc'[Operator] = "add" /\ DOMAIN pc' = Actors
      /\ \A b \in Actors \ {Operator} : pc'[b] = pc[b]
  BY <1>1, <1>4 DEF Types
<1>6. \A v \in Users : v \in Actors \ {Operator}
  BY <1>1 DEF Actors
<1>7. Types'
  BY <1>3, <1>5, <1>6 DEF Types, Busy
<1>8. Placed'
  BY <1>1, <1>3, <1>4, <1>5, <1>6, OthersPlaced
<1>9. Seen'
  <2>1. \A v \in Users \ {Operator} : SeenBy(v)'
    BY <1>1, <1>3, <1>4, <1>5, <1>6, OthersSeen
  <2> QED BY <1>1, <2>1 DEF Seen
<1> QED BY <1>4, <1>7, <1>8, <1>9

(* The operator announces: one composition for all rooms. *)
LEMMA AnnounceKeeps ==
  ASSUME HistoryInv, NEW line \in Lines, Announce(line) PROVE HistoryInv'
<1> USE DEF HistoryInv
<1> DEFINE new == [id |-> count + 1, by |-> Operator, in |-> NoRoom,
                   msg |-> Message("ANNOUNCE", today, Empty, line,
                                   name[Operator], Empty)]
<1>1. /\ Operator \in Actors /\ Operator \notin Users /\ pc[Operator] \notin Busy
      /\ \A u \in Users : u \in Actors \ {Operator}
  BY HistoryAssumption DEF HistoryAssumption, Actors, Busy, Announce
<1>2. /\ phase = "up" /\ count' = count + Cardinality(rooms)
      /\ pc' = [pc EXCEPT ![Operator] = "next"]
      /\ event' = [event EXCEPT ![Operator] = new]
      /\ DOMAIN event = Actors /\ DOMAIN pc = Actors
      /\ today \in Days /\ count \in Nat
      /\ UNCHANGED <<roomOf, other, screen, history, rooms, log, today, phase,
                     added>>
  BY DEF Announce, process, clock, memory, disk, client, Types
<1>3. count' \in Nat /\ count' > count
  <2>1. IsFiniteSet(rooms) /\ rooms # {}
    BY <1>2 DEF Types
  <2>2. Cardinality(rooms) \in Nat /\ Cardinality(rooms) # 0
    BY <2>1, FS_CardinalityType, FS_EmptySet
  <2> QED BY <1>2, <2>2
<1>4. /\ new.id = count + 1 /\ new.by = Operator /\ new.in \in RoomKeys
      /\ IsEvent(new)
  BY <1>2 DEF IsEvent, Message, RoomKeys
<1> HIDE DEF new
<1>5. /\ DOMAIN event' = Actors /\ DOMAIN pc' = Actors /\ pc'[Operator] = "next"
      /\ \A b \in Actors \ {Operator} : event'[b] = event[b] /\ pc'[b] = pc[b]
  BY <1>1, <1>2
<1>6. /\ Working' /\ Apart' /\ Recorded' /\ Down' /\ Logged'
      /\ \A e, r : UnderWay(e, r) => UnderWay(e, r)'
  BY <1>1, <1>2, <1>3, <1>4, NewEventKeeps
<1>7. Types'
  BY <1>1, <1>2, <1>3, <1>5 DEF Types, Busy
<1>8. Placed'
  BY <1>1, <1>2, <1>5, OthersPlaced
<1>9. Seen'
  <2>1. \A v \in Users \ {Operator} : SeenBy(v)'
    BY <1>1, <1>2, <1>5, <1>6, OthersSeen
  <2> QED BY <1>1, <2>1 DEF Seen
<1> QED BY <1>6, <1>7, <1>8, <1>9

-----------------------------------------------------------------------------
(* An event is recorded. *)

(* The announcement comes to the next room. *)
LEMMA NextEvent ==
  ASSUME NEW e, IsEvent(e), NEW k, today \in Days
  PROVE  LET f == Stamped(e, k) IN
         IsEvent(f) /\ f.id = e.id /\ f.by = e.by /\ f.in = k
<1> DEFINE f == Stamped(e, k)
           m == [e.msg EXCEPT !.day = today, !.room = TextOf[k]]
<1>1. /\ {"day", "room"} \subseteq DOMAIN m /\ m.day = today
  BY DEF IsEvent
<1>2. f = [e EXCEPT !.in = k, !.msg = m]
  BY DEF Stamped
<1> HIDE DEF m, f
<1>3. /\ {"id", "by", "in", "msg"} \subseteq DOMAIN f
      /\ f.id = e.id /\ f.by = e.by /\ f.in = k /\ f.msg = m
  BY <1>2 DEF IsEvent
<1> QED BY <1>1, <1>3 DEF IsEvent, f

LEMMA NextRoomKeeps ==
  ASSUME HistoryInv, (\E k \in RoomKeys : NextRoom(k)) \/ NoMoreRooms
  PROVE  HistoryInv'
<1> USE DEF HistoryInv
<1>1. /\ Operator \in Actors /\ Operator \notin Users /\ pc[Operator] = "next"
      /\ \A u \in Users : u \in Actors \ {Operator}
      /\ phase # "down"
  BY HistoryAssumption DEF HistoryAssumption, Actors, NextRoom, NoMoreRooms, Down
<1>2. /\ IsEvent(event[Operator]) /\ event[Operator].id \in 1..count
      /\ event[Operator].by = Operator /\ event[Operator].in \in RoomKeys
  BY <1>1 DEF Working, Busy
<1>3. /\ DOMAIN event = Actors /\ DOMAIN pc = Actors /\ today \in Days
      /\ UNCHANGED <<roomOf, other, screen, history, rooms, log, today, phase,
                     added, count>>
      /\ pc' = [pc EXCEPT ![Operator] = "add"]
           \/ pc' = [pc EXCEPT ![Operator] = "cast"]
  BY DEF NextRoom, NoMoreRooms, process, clock, memory, disk, client, ghosts,
         work, Types
<1>4. /\ IsEvent(event'[Operator]) /\ event'[Operator].id = event[Operator].id
      /\ event'[Operator].by = Operator /\ event'[Operator].in \in RoomKeys
      /\ DOMAIN event' = Actors
      /\ \A b \in Actors \ {Operator} : event'[b] = event[b]
  <2>1. CASE NoMoreRooms
    BY <1>2, <1>3, <2>1 DEF NoMoreRooms, work
  <2>2. CASE \E k \in RoomKeys : NextRoom(k)
    <3>1. PICK k \in RoomKeys : NextRoom(k)
      BY <2>2
    <3> DEFINE f == Stamped(event[Operator], k)
    <3>2. event' = [event EXCEPT ![Operator] = f]
      BY <3>1 DEF NextRoom
    <3>3. /\ IsEvent(f) /\ f.id = event[Operator].id
          /\ f.by = event[Operator].by /\ f.in = k
      BY <1>2, <1>3, NextEvent
    <3> HIDE DEF f
    <3> QED BY <1>1, <1>2, <1>3, <3>2, <3>3
  <2> QED BY <2>1, <2>2
<1>5. /\ pc'[Operator] \in {"add", "cast"} /\ DOMAIN pc' = Actors
      /\ \A b \in Actors \ {Operator} : pc'[b] = pc[b]
  BY <1>1, <1>3
<1>6. Types'
  BY <1>1, <1>3, <1>4, <1>5 DEF Types, Busy
<1>7. Working'
  BY <1>1, <1>2, <1>3, <1>4, <1>5 DEF Working, Busy
<1>8. Apart'
  BY <1>4 DEF Apart
<1>9. Recorded'
  BY <1>1, <1>2, <1>3, <1>4 DEF Recorded
<1>10. Down' /\ Logged'
  <2>1. Down'
    BY <1>1, <1>3 DEF Down
  <2>2. phase' \in {"up", "bye"} => \A e \in added' :
          InLog(e)' \/ \E b \in Actors : pc'[b] = "log" /\ event'[b] = e
    BY <1>1, <1>3, <1>4, <1>5 DEF Logged, InLog
  <2> QED BY <2>1, <2>2 DEF Logged
<1>11. Placed'
  BY <1>1, <1>3, <1>4, <1>5, OthersPlaced
<1>12. Seen'
  <2>1. ASSUME NEW e, NEW r, UnderWay(e, r) PROVE UnderWay(e, r)'
    BY <1>1, <1>3, <1>4, <2>1 DEF UnderWay
  <2>2. \A v \in Users \ {Operator} : SeenBy(v)'
    BY <1>1, <1>3, <1>5, <2>1, OthersSeen
  <2> QED BY <1>1, <2>2 DEF Seen
<1> QED BY <1>6, <1>7, <1>8, <1>9, <1>10, <1>11, <1>12

LEMMA AddKeeps ==
  ASSUME HistoryInv, NEW a \in Actors, AddRoomHistory(a)
  PROVE  HistoryInv'
<1> USE DEF HistoryInv
<1> DEFINE e == event[a]
           k == e.in
           n == Len(history[k])
<1>1. /\ pc[a] = "add" /\ pc' = [pc EXCEPT ![a] = "log"]
      /\ rooms' = rooms \cup {k}
      /\ history' = [history EXCEPT ![k] = Append(history[k], e)]
      /\ added' = added \cup {e}
      /\ UNCHANGED <<phase, today, log, roomOf, other, event, screen, count>>
  BY DEF AddRoomHistory, process, clock, disk, client, work
<1>2. /\ IsEvent(e) /\ e.id \in 1..count /\ e.by = a /\ k \in RoomKeys
      /\ e.msg.day \in Days /\ phase # "down" /\ count \in Nat
      /\ DOMAIN pc = Actors /\ DOMAIN history = RoomKeys
      /\ IsSeq(history[k]) /\ event[a] = e /\ e.in = k
  BY <1>1 DEF Working, Busy, Types, Down, IsEvent
<1> HIDE DEF e, k, n
<1>3. /\ pc'[a] = "log" /\ DOMAIN pc' = Actors
      /\ \A b \in Actors \ {a} : pc'[b] = pc[b]
  BY <1>1, <1>2
<1>4. /\ DOMAIN history' = RoomKeys /\ history'[k] = Append(history[k], e)
      /\ \A l \in RoomKeys : l # k => history'[l] = history[l]
  BY <1>1, <1>2
<1>5. /\ IsSeq(history'[k]) /\ n \in Nat
      /\ DOMAIN history[k] = 1..n /\ DOMAIN history'[k] = 1..(n + 1)
      /\ \A i \in 1..n : history'[k][i] = history[k][i]
      /\ history'[k][n + 1] = e
  BY <1>2, <1>4, AppendIsSeq DEF n
<1>6. Types'
  <2>1. IsFiniteSet(rooms')
    BY <1>1, FS_AddElement DEF Types
  <2>2. \A l \in RoomKeys : IsSeq(history'[l])
    BY <1>4, <1>5 DEF Types
  <2>3. /\ pc'[Operator] \in Busy \cup {"op"}
        /\ \A u \in Users : pc'[u] \in Recording \cup
             {"out", "choose", "replay", "active", "move", "delete"}
    BY <1>3 DEF Types, Actors, Busy, Recording
  <2> QED BY <1>1, <1>3, <1>4, <2>1, <2>2, <2>3 DEF Types
<1>7. Working'
  BY <1>1, <1>3 DEF Working, Busy
<1>8. Apart'
  BY <1>1 DEF Apart
<1>9. Recorded'
  <2>1. ASSUME NEW b \in Actors, event[b].id = e.id PROVE b = a
    BY <1>2, <2>1 DEF Apart
  <2> QED BY <1>1, <1>2, <2>1 DEF Recorded
<1>10. Down'
  BY <1>1, <1>2 DEF Down
<1>11. Logged'
  <2>1. phase' \in {"up", "bye"} => \A f \in added' :
          InLog(f)' \/ \E b \in Actors : pc'[b] = "log" /\ event'[b] = f
    BY <1>1, <1>2, <1>3 DEF Logged, InLog
  <2> QED BY <2>1 DEF Logged
<1>12. Placed'
  <2>1. ASSUME NEW u \in Users
        PROVE  /\ pc[u] \in Recording <=> pc'[u] \in Recording
               /\ pc'[u] \in {"replay", "active", "move"} => pc'[u] = pc[u]
    BY <1>1, <1>3 DEF Recording, Actors
  <2> QED BY <1>1, <2>1 DEF Placed, Leaves
<1>13. Seen'
  <2>1. ASSUME NEW u \in Users, pc'[u] \in Settling, NEW r \in Rooms,
               r = roomOf[u], NEW i \in DOMAIN history'[r], NEW f,
               f = history'[r][i], f.by # u
        PROVE  f.id \in screen[u] \/ UnderWay(f, r)'
    <3>1. pc[u] \in Settling /\ r \in RoomKeys
      BY <1>1, <1>3, <2>1 DEF Settling, Recording, Actors, RoomKeys
    <3>2. CASE i \in DOMAIN history[r] /\ f = history[r][i]
      <4>1. f.id \in screen[u] \/ UnderWay(f, r)
        BY <2>1, <3>1, <3>2 DEF Seen, SeenBy
      <4> QED BY <1>1, <4>1 DEF UnderWay
    <3>3. CASE r = k /\ f = e
      BY <1>1, <1>2, <3>3 DEF UnderWay
    <3>4. CASE r # k
      BY <1>4, <2>1, <3>1, <3>2, <3>4
    <3>5. CASE r = k
      <4>1. i \in 1..(n + 1) /\ f = history'[k][i]
        BY <1>5, <2>1, <3>5
      <4>2. i \in 1..n \/ i = n + 1
        BY <1>5, <4>1
      <4> QED BY <1>5, <3>2, <3>3, <3>5, <4>1, <4>2
    <3> QED BY <3>4, <3>5
  <2> HIDE DEF e, n
  <2>2. roomOf' = roomOf /\ screen' = screen
    BY <1>1
  <2> QED BY <2>1, <2>2, SMTT(30) DEF Seen, SeenBy
<1> QED BY <1>6, <1>7, <1>8, <1>9, <1>10, <1>11, <1>12, <1>13

LEMMA LogKeeps ==
  ASSUME HistoryInv, NEW a \in Actors, Log(a)
  PROVE  HistoryInv'
<1> USE DEF HistoryInv
<1> DEFINE e == event[a]
           p == IF e.msg.type = "ANNOUNCE" THEN "next" ELSE "cast"
<1>1. /\ pc[a] = "log" /\ pc' = [pc EXCEPT ![a] = p] /\ WriteLog(e)
      /\ UNCHANGED <<phase, today, rooms, history, roomOf, other, event, screen,
                     added, count>>
  BY DEF Log, process, clock, memory, client, work, ghosts
<1>2. /\ e.msg.day \in Days /\ event[a] = e
      /\ DOMAIN pc = Actors /\ p \in {"next", "cast"}
      /\ a \in Users => p = "cast"
  BY <1>1 DEF Working, Busy, Types, IsEvent
<1> HIDE DEF e, p
<1>3. /\ pc'[a] = p /\ DOMAIN pc' = Actors
      /\ \A b \in Actors \ {a} : pc'[b] = pc[b]
  BY <1>1, <1>2
<1>4. /\ DOMAIN log' = Days /\ \A d \in Days : IsSeq(log'[d])
      /\ \A f : f.msg.day \in Days /\ InLog(f) =>
           \E i \in DOMAIN log'[f.msg.day] : log'[f.msg.day][i].of = f
      /\ phase # "closed" =>
           \E i \in DOMAIN log'[e.msg.day] : log'[e.msg.day][i].of = e
  BY <1>1, <1>2, WriteLogKeeps
<1>5. Types'
  <2>1. /\ pc'[Operator] \in Busy \cup {"op"}
        /\ \A u \in Users : pc'[u] \in Recording \cup
             {"out", "choose", "replay", "active", "move", "delete"}
    BY <1>2, <1>3 DEF Types, Actors, Busy, Recording
  <2> QED BY <1>1, <1>3, <1>4, <2>1 DEF Types
<1>6. Working'
  BY <1>1, <1>2, <1>3 DEF Working, Busy
<1>7. Apart' /\ Recorded'
  BY <1>1 DEF Apart, Recorded
<1>8. Down'
  BY <1>1 DEF Down
<1>9. Logged'
  <2>1. ASSUME phase \in {"up", "bye"}, NEW f \in added
        PROVE  InLog(f)' \/ \E b \in Actors : pc'[b] = "log" /\ event'[b] = f
    <3>1. f.msg.day \in Days
      BY DEF Recorded
    <3>2. CASE InLog(f)
      BY <1>4, <3>1, <3>2 DEF InLog
    <3>3. CASE f = e
      BY <1>4, <2>1, <3>3 DEF InLog
    <3>4. CASE ~ InLog(f) /\ f # e
      <4>1. PICK b \in Actors : pc[b] = "log" /\ event[b] = f
        BY <2>1, <3>4 DEF Logged
      <4>2. b # a
        BY <1>2, <3>4, <4>1
      <4> QED BY <1>1, <1>3, <4>1, <4>2
    <3> QED BY <3>2, <3>3, <3>4
  <2> QED BY <1>1, <2>1 DEF Logged
<1>10. \A u \in Users :
         /\ pc[u] \in Recording <=> pc'[u] \in Recording
         /\ pc'[u] \in {"replay", "active", "move"} => pc'[u] = pc[u]
         /\ pc[u] \in Settling <=> pc'[u] \in Settling
  BY <1>1, <1>2, <1>3 DEF Recording, Actors, Settling
<1>11. Placed'
  BY <1>1, <1>10 DEF Placed, Leaves
<1>12. Seen'
  BY <1>1, <1>10 DEF Seen, SeenBy, UnderWay
<1> QED BY <1>5, <1>6, <1>7, <1>8, <1>9, <1>11, <1>12

(* What is broadcast has been shown to all who are in the room. *)
LEMMA BroadcastKeeps ==
  ASSUME HistoryInv, NEW a \in Actors, Broadcast(a)
  PROVE  HistoryInv'
<1> USE DEF HistoryInv
<1> DEFINE e == event[a]
<1>1. /\ pc[a] = "cast" /\ pc' = [pc EXCEPT ![a] = AfterCast(a)]
      /\ event' = [event EXCEPT ![a] = NoEvent]
      /\ screen' = [u \in Users |->
           IF u \in Audience(a) THEN screen[u] \cup {event[a].id} ELSE screen[u]]
      /\ UNCHANGED <<phase, today, log, rooms, history, roomOf, other, added,
                     count>>
  BY DEF Broadcast, process, clock, memory, disk, client
<1>2. /\ DOMAIN pc = Actors /\ DOMAIN event = Actors
      /\ Operator \notin Users /\ Users \subseteq Actors
      /\ Actors \subseteq Users \cup {Operator}
      /\ phase # "down"
  BY <1>1, HistoryAssumption DEF HistoryAssumption, Actors, Types, Down
<1>3. /\ pc'[a] = AfterCast(a) /\ DOMAIN pc' = Actors
      /\ event'[a] = NoEvent /\ DOMAIN event' = Actors
      /\ \A b \in Actors \ {a} : pc'[b] = pc[b] /\ event'[b] = event[b]
      /\ NoEvent.id = 0
  BY <1>1, <1>2 DEF NoEvent
<1>4. /\ a = Operator => AfterCast(a) = "op"
      /\ a \in Users => \/ AfterCast(a) = "active" /\ e.msg.type # "LEAVE"
                        \/ AfterCast(a) = "move" /\ Leaves(a, "switched")
                        \/ AfterCast(a) = "delete"
  <2>1. CASE a = Operator
    BY <1>2, <2>1 DEF AfterCast
  <2>2. CASE a # Operator /\ e.msg.type # "LEAVE"
    BY <2>2 DEF AfterCast
  <2>3. CASE a # Operator /\ e.msg.type = "LEAVE"
    BY <2>3 DEF AfterCast, Leaves
  <2> QED BY <1>2, <2>1, <2>2, <2>3
<1>5. \A u \in Users : screen[u] \subseteq screen'[u]
  BY <1>1
<1>6. Types'
  <2>1. /\ pc'[Operator] \in Busy \cup {"op"}
        /\ \A u \in Users : pc'[u] \in Recording \cup
             {"out", "choose", "replay", "active", "move", "delete"}
    BY <1>2, <1>3, <1>4 DEF Types, Actors, Busy, Recording
  <2> QED BY <1>1, <1>3, <2>1 DEF Types
<1>7. Working'
  <2>1. pc'[a] \notin Busy
    BY <1>2, <1>3, <1>4 DEF Busy
  <2> QED BY <1>1, <1>3, <2>1 DEF Working
<1>8. Apart'
  BY <1>3 DEF Apart
<1>9. Recorded'
  BY <1>1, <1>3 DEF Recorded
<1>10. Down'
  BY <1>1, <1>2 DEF Down
<1>11. Logged'
  <2>1. phase' \in {"up", "bye"} => \A f \in added' :
          InLog(f)' \/ \E b \in Actors : pc'[b] = "log" /\ event'[b] = f
    BY <1>1, <1>3 DEF Logged, InLog
  <2> QED BY <2>1 DEF Logged
<1>12. Placed'
  <2>1. ASSUME a \in Users
        PROVE  /\ pc'[a] \notin Recording
               /\ pc'[a] \in {"replay", "active", "move"} => roomOf[a] \in Rooms
               /\ pc'[a] = "move" => other[a] \in Rooms
    <3>1. /\ roomOf[a] \in Rooms \/ Leaves(a, "drop")
          /\ Leaves(a, "switched") => other[a] \in Rooms
      BY <1>1, <2>1 DEF Placed, Recording
    <3>2. ~ (Leaves(a, "drop") /\ Leaves(a, "switched"))
      BY DEF Leaves
    <3>3. Leaves(a, "drop") => e.msg.type = "LEAVE"
      BY DEF Leaves
    <3> HIDE DEF e
    <3> QED BY <1>3, <1>4, <2>1, <3>1, <3>2, <3>3 DEF Recording
  <2>2. \A v \in Users \ {a} : v \in Actors \ {a}
    BY <1>2
  <2> HIDE DEF HistoryInv
  <2> QED BY <1>1, <1>3, <2>1, <2>2, OthersPlaced
<1>13. Seen'
  <2>1. ASSUME NEW u \in Users, pc'[u] \in Settling, NEW r \in Rooms,
               r = roomOf[u], NEW i \in DOMAIN history[r], NEW f,
               f = history[r][i], f.by # u
        PROVE  f.id \in screen'[u] \/ UnderWay(f, r)'
    <3>1. pc[u] \in Settling
      BY <1>1, <1>2, <1>3, <2>1 DEF Settling, Recording
    <3>2. f.id \in screen[u] \/ UnderWay(f, r)
      BY <2>1, <3>1 DEF Seen, SeenBy
    <3>3. CASE UnderWay(f, r) /\ event[a].id # f.id
      BY <1>1, <1>3, <3>3 DEF UnderWay
    <3>4. CASE UnderWay(f, r) /\ event[a].id = f.id
      <4>1. f.by = a /\ (a \in Users => event[a].in = r)
        BY <3>4 DEF Recorded, UnderWay
      <4>2. u # a /\ u \in Here(r) /\ u \in Registered
        <5>1. r # NoRoom
          BY HistoryAssumption DEF HistoryAssumption
        <5> QED BY <2>1, <4>1, <5>1 DEF Here, Registered
      <4>3. u \in Audience(a)
        <5>1. CASE a = Operator
          BY <4>2, <5>1 DEF Audience
        <5>2. CASE a # Operator
          <6>1. a \in Users /\ event[a].in = r
            BY <1>2, <4>1, <5>2
          <6> QED BY <4>2, <5>2, <6>1 DEF Audience
        <5> QED BY <5>1, <5>2
      <4> QED BY <1>1, <3>4, <4>3
    <3> QED BY <1>5, <3>2, <3>3, <3>4
  <2> HIDE DEF HistoryInv, e
  <2>2. UNCHANGED <<roomOf, history>>
    BY <1>1
  <2>3. ASSUME NEW u \in Users PROVE SeenBy(u)'
    BY <2>1, <2>2 DEF SeenBy, UnderWay
  <2> QED BY <2>3 DEF Seen
<1> QED BY <1>6, <1>7, <1>8, <1>9, <1>10, <1>11, <1>12, <1>13

-----------------------------------------------------------------------------
(* A user comes, moves or goes. *)

(* Between events a goroutine changes what others work on in nothing. *)
LEMMA WalkKeeps ==
  ASSUME HistoryInv, NEW u \in Users,
         pc[u] \in {"out", "choose", "move", "delete"},
         NEW p \in {"choose", "replay", "delete", "out"},
         pc' = [pc EXCEPT ![u] = p],
         UNCHANGED <<event, added, count, phase, log>>, phase # "down"
  PROVE  /\ Working' /\ Apart' /\ Recorded' /\ Down' /\ Logged'
         /\ pc'[u] = p /\ DOMAIN pc' = Actors
         /\ \A b \in Actors \ {u} : pc'[b] = pc[b]
         /\ u \in Actors /\ u # Operator
         /\ \A v \in Users \ {u} : v \in Actors \ {u}
         /\ \A e, r : UnderWay(e, r) => UnderWay(e, r)'
<1> USE DEF HistoryInv
<1>1. /\ u \in Actors /\ u # Operator /\ DOMAIN pc = Actors
      /\ \A v \in Users \ {u} : v \in Actors \ {u}
  BY HistoryAssumption DEF HistoryAssumption, Actors, Types
<1>2. /\ pc'[u] = p /\ DOMAIN pc' = Actors
      /\ \A b \in Actors \ {u} : pc'[b] = pc[b]
  BY <1>1
<1>3. Working'
  BY <1>1, <1>2 DEF Working, Busy
<1>4. Apart' /\ Recorded' /\ Down'
  BY DEF Apart, Recorded, Down
<1>5. Logged'
  <2>1. phase' \in {"up", "bye"} => \A e \in added' :
          InLog(e)' \/ \E b \in Actors : pc'[b] = "log" /\ event'[b] = e
    BY <1>1, <1>2 DEF Logged, InLog
  <2> QED BY <2>1 DEF Logged
<1>6. ASSUME NEW e, NEW r, UnderWay(e, r) PROVE UnderWay(e, r)'
  BY <1>6 DEF UnderWay
<1> QED BY <1>1, <1>2, <1>3, <1>4, <1>5, <1>6

LEMMA ArriveKeeps ==
  ASSUME HistoryInv, NEW u \in Users,
         Register(u) \/ (\E r \in Rooms : JoinFirstRoom(u, r)) \/ Move(u)
  PROVE  HistoryInv'
<1> USE DEF HistoryInv
<1>1. PICK p \in {"choose", "replay", "delete"} :
        /\ pc[u] \in {"out", "choose", "move"} /\ pc' = [pc EXCEPT ![u] = p]
        /\ p = "replay" => roomOf'[u] \in Rooms
        /\ roomOf' \in [Users -> RoomKeys] /\ other' \in [Users -> RoomKeys]
        /\ \A v \in Users \ {u} : roomOf'[v] = roomOf[v] /\ other'[v] = other[v]
        /\ rooms' = rooms \/ \E k \in RoomKeys : rooms' = rooms \cup {k}
  <2>1. CASE Register(u)
    BY <2>1 DEF Register, memory, client, work, Types
  <2>2. CASE \E r \in Rooms : JoinFirstRoom(u, r)
    BY <2>2 DEF JoinFirstRoom, work, Types, RoomKeys
  <2>3. CASE Move(u)
    <3>1. roomOf[u] \in RoomKeys /\ other[u] \in RoomKeys
      BY DEF Types
    <3> QED BY <2>3, <3>1 DEF Move, Types
  <2> QED BY <2>1, <2>2, <2>3
<1>2. /\ UNCHANGED <<event, added, count, phase, log, today, history, screen>>
      /\ phase # "down"
  <2>1. phase # "down"
    BY HistoryAssumption
       DEF Register, JoinFirstRoom, Move, Down, Actors
  <2> QED BY <2>1 DEF Register, JoinFirstRoom, Move, process, clock, memory, disk,
                      work, ghosts
<1>3. /\ Working' /\ Apart' /\ Recorded' /\ Down' /\ Logged'
      /\ pc'[u] = p /\ DOMAIN pc' = Actors
      /\ \A b \in Actors \ {u} : pc'[b] = pc[b]
      /\ u \in Actors /\ u # Operator
      /\ \A v \in Users \ {u} : v \in Actors \ {u}
      /\ \A e, r : UnderWay(e, r) => UnderWay(e, r)'
  <2> HIDE DEF HistoryInv
  <2> QED BY <1>1, <1>2, WalkKeeps
<1>4. Types'
  <2>1. IsFiniteSet(rooms') /\ (phase' # "down" => DefaultRoom \in rooms')
    BY <1>1, <1>2, FS_AddElement DEF Types
  <2>2. /\ pc'[Operator] \in Busy \cup {"op"}
        /\ \A v \in Users : pc'[v] \in Recording \cup
             {"out", "choose", "replay", "active", "move", "delete"}
    BY <1>1, <1>3 DEF Types, Actors
  <2> QED BY <1>1, <1>2, <1>3, <2>1, <2>2 DEF Types
<1>5. Placed'
  <2>1. /\ pc'[u] \notin Recording \cup {"active", "move"}
        /\ pc'[u] = "replay" => roomOf'[u] \in Rooms
    BY <1>1, <1>3 DEF Recording
  <2> HIDE DEF HistoryInv
  <2> QED BY <1>1, <1>2, <1>3, <2>1, OthersPlaced
<1>6. Seen'
  <2>1. \A v \in Users \ {u} : SeenBy(v)'
    BY <1>1, <1>2, <1>3, OthersSeen
  <2>2. SeenBy(u)'
    BY <1>1, <1>3 DEF SeenBy, Settling, Recording
  <2> QED BY <2>1, <2>2 DEF Seen
<1> QED BY <1>3, <1>4, <1>5, <1>6

LEMMA DeleteKeeps ==
  ASSUME HistoryInv, NEW u \in Users, DeleteRoom(u)
  PROVE  HistoryInv'
<1> USE DEF HistoryInv
<1>1. PICK p \in {"replay", "out"} :
        /\ pc[u] = "delete" /\ pc' = [pc EXCEPT ![u] = p]
        /\ p = "replay" => roomOf[u] \in Rooms
  BY DEF DeleteRoom, Types, RoomKeys
<1>2. /\ UNCHANGED <<event, added, count, phase, log, today, roomOf>>
      /\ other' = [other EXCEPT ![u] = NoRoom]
      /\ phase # "down"
  <2>1. phase # "down"
    BY DEF DeleteRoom, Down, Actors
  <2> QED BY <2>1 DEF DeleteRoom, process, clock, disk
<1>3. /\ other' \in [Users -> RoomKeys] /\ DOMAIN screen' = Users
      /\ \A v \in Users \ {u} : other'[v] = other[v] /\ screen'[v] = screen[v]
  <2>1. screen' = screen \/ screen' = [screen EXCEPT ![u] = {}]
    BY DEF DeleteRoom
  <2> QED BY <1>2, <2>1 DEF Types, RoomKeys
<1>4. /\ Working' /\ Apart' /\ Recorded' /\ Down' /\ Logged'
      /\ pc'[u] = p /\ DOMAIN pc' = Actors
      /\ \A b \in Actors \ {u} : pc'[b] = pc[b]
      /\ u \in Actors /\ u # Operator
      /\ \A v \in Users \ {u} : v \in Actors \ {u}
      /\ \A e, r : UnderWay(e, r) => UnderWay(e, r)'
  <2> HIDE DEF HistoryInv
  <2> QED BY <1>1, <1>2, WalkKeeps
<1>5. \/ UNCHANGED <<rooms, history>>
      \/ /\ other[u] # DefaultRoom /\ rooms' = rooms \ {other[u]}
         /\ history' = [history EXCEPT ![other[u]] = <<>>]
  BY DEF DeleteRoom, memory
<1>6. /\ DOMAIN history' = RoomKeys
      /\ \A k \in RoomKeys : history'[k] = history[k] \/ history'[k] = <<>>
  BY <1>5 DEF Types
<1>7. Types'
  <2>1. IsFiniteSet(rooms') /\ (phase' # "down" => DefaultRoom \in rooms')
    <3>1. IsFiniteSet(rooms) /\ IsFiniteSet(rooms \ {other[u]})
      BY FS_RemoveElement DEF Types
    <3> QED BY <1>2, <1>5, <3>1 DEF Types
  <2>2. /\ pc'[Operator] \in Busy \cup {"op"}
        /\ \A v \in Users : pc'[v] \in Recording \cup
             {"out", "choose", "replay", "active", "move", "delete"}
    BY <1>1, <1>4 DEF Types, Actors
  <2>3. \A k \in RoomKeys : IsSeq(history'[k])
    BY <1>6, EmptyIsSeq DEF Types
  <2> QED BY <1>2, <1>3, <1>4, <1>6, <2>1, <2>2, <2>3 DEF Types
<1>8. Placed'
  <2>1. /\ pc'[u] \notin Recording \cup {"active", "move"}
        /\ pc'[u] = "replay" => roomOf'[u] \in Rooms
    BY <1>1, <1>2, <1>4 DEF Recording
  <2> HIDE DEF HistoryInv
  <2> QED BY <1>2, <1>3, <1>4, <2>1, OthersPlaced
<1>9. Seen'
  <2>1. SeenBy(u)'
    BY <1>1, <1>4 DEF SeenBy, Settling, Recording
  <2>2. ASSUME NEW v \in Users \ {u}, pc[v] \in Settling, NEW r \in Rooms,
               r = roomOf[v], NEW i \in DOMAIN history'[r], NEW f,
               f = history'[r][i], f.by # v
        PROVE  f.id \in screen[v] \/ UnderWay(f, r)'
    <3>1. history'[r] = history[r]
      BY <1>6, <2>2, EmptyIsSeq DEF RoomKeys
    <3>2. f.id \in screen[v] \/ UnderWay(f, r)
      BY <2>2, <3>1 DEF Seen, SeenBy
    <3> QED BY <1>4, <3>2
  <2>3. ASSUME NEW v \in Users \ {u} PROVE SeenBy(v)'
    BY <1>2, <1>3, <1>4, <2>2 DEF SeenBy, UnderWay
  <2> QED BY <2>1, <2>3 DEF Seen
<1> QED BY <1>4, <1>7, <1>8, <1>9

-----------------------------------------------------------------------------
LEMMA NextKeeps ==
  ASSUME HistoryInv, [Next]_vars PROVE HistoryInv'
<1>1. ASSUME NEW u \in Users, UserStep(u) PROVE HistoryInv'
  BY <1>1, ArriveKeeps, TalkKeeps, ReplayKeeps, LeaveKeeps, DeleteKeeps
     DEF UserStep
<1>2. CASE OperatorStep
  BY <1>2, MuteKeeps, AnnounceKeeps, NextRoomKeeps DEF OperatorStep
<1>3. ASSUME NEW a \in Actors, AddRoomHistory(a) \/ Log(a) \/ Broadcast(a)
      PROVE  HistoryInv'
  BY <1>3, AddKeeps, LogKeeps, BroadcastKeeps
<1>4. CASE \/ Start \/ End \/ Farewell \/ CloseLogger \/ Midnight \/ ClearHistory
           \/ UNCHANGED vars
  BY <1>4, StartKeeps, EndKeeps, FarewellKeeps, ClockKeeps, ClearKeeps
<1> QED BY <1>1, <1>2, <1>3, <1>4 DEF Next

LEMMA HistoryInvHolds == Spec => []HistoryInv
<1>1. Init => HistoryInv
  BY InitHistory
<1>2. HistoryInv /\ [Next]_vars => HistoryInv'
  BY NextKeeps
<1> QED BY <1>1, <1>2, PTL DEF Spec

(* Whoever sits in a room has been shown everything others recorded there, *)
(* however many join, move, leave, speak, are announced to and moderated   *)
(* at once, around midnight and after any number of restarts.              *)
THEOREM NobodyMissesAnything == Spec => []NothingMissed
<1>1. HistoryInv => NothingMissed
  <2>1. ASSUME HistoryInv, NEW u \in Users, pc[u] = "active",
               NEW i \in DOMAIN history[roomOf[u]], NEW e,
               e = history[roomOf[u]][i], e.by # u, Shown(e)
        PROVE  e.id \in screen[u]
    <3>1. pc[u] \in Settling /\ roomOf[u] \in Rooms
      BY <2>1 DEF HistoryInv, Placed, Settling
    <3>2. e.id \in screen[u] \/ UnderWay(e, roomOf[u])
      BY <2>1, <3>1 DEF HistoryInv, Seen, SeenBy
    <3> QED BY <2>1, <3>2 DEF UnderWay, Shown
  <2> QED BY <2>1 DEF NothingMissed
<1> QED BY <1>1, HistoryInvHolds, PTL

(* Whatever the interleaving of those who record, midnight and the end of  *)
(* the process: an event that is in a room's history has its line in the   *)
(* log of its own day before its author goes on.                           *)
THEOREM EverythingIsLogged == Spec => []NothingUnlogged
<1>1. HistoryInv => NothingUnlogged
  <2>1. ASSUME HistoryInv, phase \in {"up", "bye"}, NEW e \in added, Settled(e)
        PROVE  InLog(e)
    BY <2>1 DEF HistoryInv, Logged, Settled
  <2> QED BY <2>1 DEF NothingUnlogged, InLog
<1> QED BY <1>1, HistoryInvHolds, PTL

-----------------------------------------------------------------------------
(* Texts: finding a token and trimming blanks.                             *)

Free(s, c) == \A i \in DOMAIN s : s[i] # c

(* A text ends in a token that is no blank. *)
Ends(s) == s # <<>> /\ s[Len(s)] # Blank

LEMMA Concat ==
  ASSUME NEW S, NEW s \in Seq(S), NEW t \in Seq(S)
  PROVE  /\ s \o t \in Seq(S)
         /\ Len(s) \in Nat /\ Len(t) \in Nat
         /\ Len(s \o t) = Len(s) + Len(t)
         /\ DOMAIN s = 1..Len(s) /\ DOMAIN t = 1..Len(t)
         /\ DOMAIN (s \o t) = 1..(Len(s) + Len(t))
         /\ \A i \in 1..Len(s) : (s \o t)[i] = s[i]
         /\ \A i \in 1..Len(t) : (s \o t)[Len(s) + i] = t[i]
<1> DEFINE m == Len(s)
           n == Len(t)
           w == s \o t
<1>1. /\ m \in Nat /\ n \in Nat /\ DOMAIN s = 1..m /\ DOMAIN t = 1..n
  OBVIOUS
<1>2. /\ w \in Seq(S) /\ Len(w) = m + n
      /\ \A i \in 1..(m + n) : w[i] = IF i <= m THEN s[i] ELSE t[i - m]
  BY ConcatProperties
<1>3. DOMAIN w = 1..(m + n)
  <2> HIDE DEF m, n, w
  <2> QED BY <1>2, LenProperties
<1> HIDE DEF m, n, w
<1>4. ASSUME NEW i \in 1..m PROVE w[i] = s[i]
  BY <1>1, <1>2
<1>5. ASSUME NEW i \in 1..n PROVE w[m + i] = t[i]
  <2>1. m + i \in 1..(m + n) /\ ~ (m + i <= m) /\ (m + i) - m = i
    BY <1>1
  <2> QED BY <1>2, <2>1
<1> QED BY <1>1, <1>2, <1>3, <1>4, <1>5 DEF m, n, w

LEMMA Single ==
  ASSUME NEW S, NEW c \in S
  PROVE  /\ <<c>> \in Seq(S) /\ Len(<<c>>) = 1 /\ <<c>>[1] = c
         /\ DOMAIN <<c>> = {1} /\ <<c>> # <<>>
OBVIOUS

(* The first token, and what comes after the first. *)
LEMMA Front ==
  ASSUME NEW S, NEW c \in S, NEW t \in Seq(S)
  PROVE  LET w == <<c>> \o t IN
         /\ w \in Seq(S) /\ w # <<>> /\ w[1] = c
         /\ Len(t) \in Nat /\ Len(w) = Len(t) + 1
         /\ \A i \in 1..Len(t) : w[i + 1] = t[i]
         /\ Tail(w) = t
<1> DEFINE w == <<c>> \o t
           n == Len(t)
<1>1. <<c>> \in Seq(S) /\ Len(<<c>>) = 1 /\ <<c>>[1] = c
  BY Single
<1>2. /\ w \in Seq(S) /\ n \in Nat /\ Len(w) = 1 + n
      /\ \A i \in 1..1 : w[i] = <<c>>[i]
      /\ \A i \in 1..n : w[1 + i] = t[i]
  BY <1>1, Concat
<1> HIDE DEF w, n
<1>3. w # <<>> /\ w[1] = c /\ Len(w) = n + 1
  BY <1>1, <1>2
<1>4. \A i \in 1..n : w[i + 1] = t[i]
  BY <1>2
<1>5. /\ Tail(w) \in Seq(S) /\ Len(Tail(w)) = n
      /\ \A i \in 1..n : Tail(w)[i] = w[i + 1]
  BY <1>2, <1>3, HeadTailProperties
<1>6. Tail(w) = t
  <2>1. \A i \in 1..n : Tail(w)[i] = t[i]
    BY <1>4, <1>5
  <2> QED BY <1>5, <2>1, SeqEqual DEF n
<1> QED BY <1>2, <1>3, <1>4, <1>6 DEF w, n

(* A token is found where it comes first. *)
LEMMA IndexFirst ==
  ASSUME NEW S, NEW c \in S, NEW s \in Seq(S), NEW t \in Seq(S), Free(s, c)
  PROVE  LET w == s \o (<<c>> \o t) IN
         /\ Index(w, c) = Len(s) + 1 /\ Index(w, c) > 0
         /\ Before(w, Index(w, c)) = s /\ After(w, Index(w, c)) = t
<1> DEFINE v == <<c>> \o t
           w == s \o v
           m == Len(s)
           n == Len(t)
           found == {i \in DOMAIN w : w[i] = c}
           first == CHOOSE i \in found : \A j \in found : i <= j
<1>1. /\ v \in Seq(S) /\ v[1] = c /\ n \in Nat /\ Len(v) = n + 1
      /\ \A i \in 1..n : v[i + 1] = t[i]
  BY Front
<1> HIDE DEF v
<1>2. /\ w \in Seq(S) /\ m \in Nat /\ DOMAIN s = 1..m
      /\ Len(w) = m + (n + 1) /\ DOMAIN w = 1..(m + (n + 1))
      /\ \A i \in 1..m : w[i] = s[i]
      /\ \A i \in 1..(n + 1) : w[m + i] = v[i]
  <2> HIDE DEF w, m, n
  <2>1. v \in Seq(S) /\ Len(v) = n + 1
    BY <1>1
  <2>2. /\ s \o v \in Seq(S) /\ Len(s) \in Nat /\ DOMAIN s = 1..Len(s)
        /\ Len(s \o v) = Len(s) + Len(v)
        /\ DOMAIN (s \o v) = 1..(Len(s) + Len(v))
        /\ \A i \in 1..Len(s) : (s \o v)[i] = s[i]
        /\ \A i \in 1..Len(v) : (s \o v)[Len(s) + i] = v[i]
    <3>1. \A i \in 1..Len(s) : (s \o v)[i] = s[i]
      BY <2>1, Concat
    <3>2. \A i \in 1..Len(v) : (s \o v)[Len(s) + i] = v[i]
      BY <2>1, Concat
    <3>3. s \o v \in Seq(S)
      BY <2>1, Concat
    <3>4. Len(s) \in Nat /\ DOMAIN s = 1..Len(s)
      BY <2>1, Concat
    <3>5. Len(s \o v) = Len(s) + Len(v)
      BY <2>1, Concat
    <3>6. DOMAIN (s \o v) = 1..(Len(s) + Len(v))
      BY <3>3, <3>5, LenProperties
    <3> QED BY <3>1, <3>2, <3>3, <3>4, <3>5, <3>6
  <2>3. w = s \o v /\ m = Len(s)
    BY DEF w, m
  <2> QED BY <2>1, <2>2, <2>3, Zenon
<1> HIDE DEF w, m, n
<1>3. /\ m + 1 \in 1..(m + (n + 1)) /\ w[m + 1] = c
      /\ \A i \in 1..m : w[i] # c
  <2>1. 1 \in 1..(n + 1) /\ m + 1 \in 1..(m + (n + 1))
    BY <1>1, <1>2
  <2>2. w[m + 1] = v[1]
    BY <1>2, <2>1
  <2>3. \A i \in 1..m : w[i] # c
    BY <1>2 DEF Free
  <2> QED BY <1>1, <2>1, <2>2, <2>3
<1>4. m + 1 \in found /\ \A j \in found : m + 1 <= j
  <2>1. m + 1 \in found
    BY <1>2, <1>3
  <2>2. ASSUME NEW j \in found PROVE m + 1 <= j
    <3>1. j \in 1..(m + (n + 1)) /\ j \notin 1..m
      BY <1>2, <1>3
    <3> QED BY <1>2, <3>1
  <2> QED BY <2>1, <2>2
<1>5. first = m + 1
  <2>1. \A i \in found : i \in Int
    BY <1>2
  <2> HIDE DEF found
  <2>2. first \in found /\ \A j \in found : first <= j
    BY <1>4
  <2>3. first <= m + 1 /\ m + 1 <= first /\ first \in Int
    BY <1>4, <2>1, <2>2
  <2> HIDE DEF first
  <2> QED BY <1>2, <2>3
<1>6. Index(w, c) = m + 1
  <2>1. Index(w, c) = IF found = {} THEN 0 ELSE first
    BY DEF Index
  <2> HIDE DEF found, first
  <2> QED BY <1>4, <1>5, <2>1
<1>7. SubSeq(w, 1, m) = s
  <2>1. \A i \in 1..m : w[i] \in S
    BY <1>2, ElementOfSeq DEF m
  <2>2. /\ SubSeq(w, 1, m) \in Seq(S)
        /\ Len(SubSeq(w, 1, m)) = m
        /\ \A i \in 1..m : SubSeq(w, 1, m)[i] = w[i]
    <3>1. /\ SubSeq(w, 1, m) \in Seq(S)
          /\ Len(SubSeq(w, 1, m)) = IF 1 <= m THEN m - 1 + 1 ELSE 0
          /\ \A i \in 1..(m - 1 + 1) : SubSeq(w, 1, m)[i] = w[1 + i - 1]
      BY <1>2, <2>1, SubSeqProperties
    <3>2. m - 1 + 1 = m /\ \A i \in 1..m : 1 + i - 1 = i
      BY <1>2
    <3> HIDE DEF m
    <3> QED BY <1>2, <3>1, <3>2
  <2>3. \A i \in 1..m : SubSeq(w, 1, m)[i] = s[i]
    BY <1>2, <2>2
  <2> QED BY <2>2, <2>3, SeqEqual DEF m
<1>8. SubSeq(w, m + 2, m + (n + 1)) = t
  <2> DEFINE u == SubSeq(w, m + 2, m + (n + 1))
  <2>1. \A i \in (m + 2)..(m + (n + 1)) : w[i] \in S
    <3>1. \A i \in 1..Len(w) : w[i] \in S
      BY <1>2, ElementOfSeq
    <3> QED BY <1>1, <1>2, <3>1
  <2> DEFINE lo == m + 2
             hi == m + (n + 1)
  <2>2. /\ lo \in Int /\ hi \in Int /\ \A i \in lo..hi : w[i] \in S
        /\ hi - lo + 1 = n /\ (lo <= hi \/ n = 0)
        /\ \A i \in 1..n : i + 1 \in 1..(n + 1) /\ lo + i - 1 = m + (i + 1)
    BY <1>1, <1>2, <2>1
  <2>3. u = SubSeq(w, lo, hi)
    OBVIOUS
  <2> HIDE DEF lo, hi, u
  <2>4. /\ u \in Seq(S)
        /\ Len(u) = IF lo <= hi THEN hi - lo + 1 ELSE 0
        /\ \A i \in 1..(hi - lo + 1) : u[i] = w[lo + i - 1]
    BY <2>2, <2>3, SubSeqProperties
  <2>5. Len(u) = n /\ \A i \in 1..n : u[i] = t[i]
    <3>1. Len(u) = n
      BY <2>2, <2>4
    <3>2. ASSUME NEW i \in 1..n PROVE u[i] = t[i]
      <4>1. u[i] = w[m + (i + 1)]
        BY <2>2, <2>4
      <4>2. i + 1 \in 1..(n + 1)
        BY <2>2
      <4> QED BY <1>1, <1>2, <4>1, <4>2
    <3> QED BY <3>1, <3>2
  <2>6. Len(t) = n
    BY DEF n
  <2> QED BY <2>4, <2>5, <2>6, SeqEqual DEF u, lo, hi
<1>9. m + 1 - 1 = m /\ m + 1 + 1 = m + 2 /\ m + 1 > 0
  BY <1>2
<1>10. Before(w, m + 1) = s /\ After(w, m + 1) = t
  BY <1>2, <1>7, <1>8, <1>9 DEF Before, After
<1> QED BY <1>6, <1>9, <1>10 DEF w, v, m

(* TrimRight cuts blanks off the end, all of them and nothing else. *)
LEMMA TrimCuts ==
  ASSUME NEW S, NEW s \in Seq(S)
  PROVE  /\ TrimRight(s) \in Seq(S)
         /\ TrimRight(s) = <<>> \/ Ends(TrimRight(s))
         /\ \E n \in 0..Len(s) :
              /\ TrimRight(s) = SubSeq(s, 1, n)
              /\ n = 0 \/ s[n] # Blank
              /\ \A i \in (n + 1)..Len(s) : s[i] = Blank
<1> DEFINE words == {i \in DOMAIN s : s[i] # Blank}
           last == CHOOSE i \in words : \A j \in words : j <= i
           m == Len(s)
<1>1. m \in Nat /\ DOMAIN s = 1..m /\ \A i \in 1..m : s[i] \in S
  OBVIOUS
<1>2. TrimRight(s) = IF words = {} THEN <<>> ELSE SubSeq(s, 1, last)
  BY DEF TrimRight, Empty
<1> HIDE DEF last, m
<1>3. CASE words = {}
  <2>1. SubSeq(s, 1, 0) = <<>> /\ <<>> \in Seq(S)
    BY SubSeqEmpty
  <2>2. 0 \in 0..m /\ \A i \in (0 + 1)..m : s[i] = Blank
    BY <1>1, <1>3
  <2> QED BY <1>2, <1>3, <2>1, <2>2 DEF m
<1>4. CASE words # {}
  <2>1. words \subseteq 1..m
    BY <1>1
  <2>2. last \in words /\ \A j \in words : j <= last
    <3> DEFINE Top == {m - i : i \in words}
    <3>1. Top \in SUBSET Nat /\ Top # {}
      BY <1>1, <1>4, <2>1
    <3>2. PICK x \in Top : \A y \in Top : x <= y
      <4> HIDE DEF Top
      <4> QED BY <3>1, Least
    <3>3. PICK k \in words : x = m - k
      BY <3>2
    <3>4. ASSUME NEW j \in words PROVE j <= k
      <4>1. m - j \in Top
        OBVIOUS
      <4>2. m - k <= m - j /\ j \in Int /\ k \in Int /\ m \in Int
        BY <1>1, <2>1, <3>2, <3>3, <4>1
      <4> QED BY <4>2
    <3> HIDE DEF words
    <3> QED BY <3>4 DEF last
  <2>3. last \in 1..m /\ s[last] # Blank
    BY <2>1, <2>2
  <2>4. \A i \in (last + 1)..m : s[i] = Blank
    BY <1>1, <2>2, <2>3
  <2> HIDE DEF words
  <2> DEFINE t == SubSeq(s, 1, last)
  <2>5. /\ t \in Seq(S) /\ Len(t) = last
        /\ \A i \in 1..last : t[i] = s[i]
    <3>1. \A i \in 1..last : s[i] \in S
      BY <1>1, <2>3
    <3>2. /\ t \in Seq(S)
          /\ Len(t) = IF 1 <= last THEN last - 1 + 1 ELSE 0
          /\ \A i \in 1..(last - 1 + 1) : t[i] = s[1 + i - 1]
      <4>1. 1 \in Int /\ last \in Int
        BY <2>3
      <4> QED BY <3>1, <4>1, SubSeqProperties
    <3> HIDE DEF t
    <3> QED BY <1>1, <2>3, <3>2
  <2>6. Ends(t)
    <3>1. last \in 1..last /\ last # 0
      BY <1>1, <2>3
    <3>2. t # <<>>
      <4> HIDE DEF t
      <4> QED BY <2>5, <3>1
    <3> HIDE DEF t
    <3> QED BY <2>3, <2>5, <3>1, <3>2 DEF Ends
  <2>7. TrimRight(s) = t
    BY <1>2, <1>4
  <2>8. last \in 0..m
    BY <1>1, <2>3
  <2> QED BY <2>3, <2>4, <2>5, <2>6, <2>7, <2>8 DEF m
<1> QED BY <1>3, <1>4

LEMMA EndsConcat ==
  ASSUME NEW S, NEW s \in Seq(S), NEW t \in Seq(S), Ends(t)
  PROVE  s \o t \in Seq(S) /\ Ends(s \o t)
<1> DEFINE w == s \o t
           m == Len(s)
           n == Len(t)
<1>1. w \in Seq(S)
  BY Concat
<1>2. Len(w) = m + n
  BY Concat
<1>3. \A i \in 1..n : w[m + i] = t[i]
  BY Concat
<1>4. m \in Nat /\ n \in Nat
  OBVIOUS
<1>5. n # 0 /\ t[n] # Blank
  BY EmptySeq DEF Ends
<1> HIDE DEF w, m, n
<1>6. n \in 1..n /\ m + n # 0
  BY <1>4, <1>5
<1>7. w[m + n] # Blank
  BY <1>3, <1>5, <1>6
<1>8. w # <<>>
  BY <1>1, <1>2, <1>6, EmptySeq
<1> QED BY <1>1, <1>2, <1>7, <1>8 DEF Ends, w

(* What is left is what comes before the blanks at the end. *)
LEMMA TrimIs ==
  ASSUME NEW S, NEW t \in Seq(S), NEW b \in Seq(S),
         t = <<>> \/ Ends(t), \A i \in 1..Len(b) : b[i] = Blank
  PROVE  TrimRight(t \o b) = t
<1> DEFINE s == t \o b
           m == Len(t)
           l == Len(b)
<1>1. s \in Seq(S)
  BY Concat
<1>2. Len(s) = m + l
  BY Concat
<1>3. \A i \in 1..m : s[i] = t[i]
  BY Concat
<1>4. \A i \in 1..l : s[m + i] = b[i]
  BY Concat
<1>5. m \in Nat /\ l \in Nat
  OBVIOUS
<1>6. m # 0 => t[m] # Blank
  BY EmptySeq DEF Ends
<1>7. m = 0 => t = <<>>
  BY EmptySeq
<1>8. m # 0 => SubSeq(s, 1, m) = t
  <2>1. ASSUME m # 0 PROVE 1 \in 1..m /\ m \in 1..m
    BY <1>5, <2>1
  <2>2. ASSUME m # 0 PROVE SubSeq(s, 1, m) = SubSeq(t, 1, m)
    BY <2>1, <2>2, SubSeqOfConcat1
  <2> QED BY <2>2, SubSeqFull
<1>9. \A i \in 1..l : s[m + i] = Blank
  BY <1>4
<1> HIDE DEF s, m, l
<1>10. PICK n \in 0..(m + l) :
         /\ TrimRight(s) = SubSeq(s, 1, n)
         /\ n = 0 \/ s[n] # Blank
         /\ \A i \in (n + 1)..(m + l) : s[i] = Blank
  BY <1>1, <1>2, TrimCuts
<1>11. ~ (n > m)
  <2>1. SUFFICES ASSUME n > m PROVE FALSE
    OBVIOUS
  <2>2. n - m \in 1..l /\ m + (n - m) = n /\ n # 0
    BY <1>5, <2>1
  <2>3. s[n] = Blank
    BY <1>9, <2>2
  <2> QED BY <1>10, <2>2, <2>3
<1>12. ~ (n < m)
  <2>1. SUFFICES ASSUME n < m PROVE FALSE
    OBVIOUS
  <2>2. m \in (n + 1)..(m + l) /\ m # 0 /\ m \in 1..m
    BY <1>5, <2>1
  <2>3. s[m] = Blank /\ s[m] = t[m]
    BY <1>3, <1>10, <2>2
  <2> QED BY <1>6, <2>2, <2>3
<1>13. n = m
  BY <1>5, <1>11, <1>12
<1>14. TrimRight(s) = t
  <2>1. CASE m = 0
    <3>1. SubSeq(s, 1, 0) = <<>>
      BY SubSeqEmpty
    <3> QED BY <1>7, <1>10, <1>13, <2>1, <3>1
  <2>2. CASE m # 0
    BY <1>8, <1>10, <1>13, <2>2
  <2> QED BY <2>1, <2>2
<1> QED BY <1>14 DEF s

LEMMA TrimWhole ==
  ASSUME NEW S, NEW t \in Seq(S), t = <<>> \/ Ends(t)
  PROVE  TrimRight(t) = t
<1>1. <<>> \in Seq(S) /\ \A i \in 1..Len(<<>>) : <<>>[i] = Blank
  BY EmptySeq
<1>2. TrimRight(t \o <<>>) = t
  BY <1>1, TrimIs
<1> QED BY <1>2, ConcatEmptySeq

LEMMA TrimTwice ==
  ASSUME NEW S, NEW s \in Seq(S)
  PROVE  TrimRight(TrimRight(s)) = TrimRight(s)
<1>1. TrimRight(s) \in Seq(S) /\ (TrimRight(s) = <<>> \/ Ends(TrimRight(s)))
  BY TrimCuts
<1> QED BY <1>1, TrimWhole

(* Blanks are cut off what follows a text that has none at its end. *)
LEMMA TrimBehind ==
  ASSUME NEW S, NEW u \in Seq(S), Ends(u), NEW v \in Seq(S)
  PROVE  TrimRight(u \o v) = u \o TrimRight(v)
<1> DEFINE t == TrimRight(v)
           m == Len(v)
<1>1. t \in Seq(S) /\ (t = <<>> \/ Ends(t)) /\ m \in Nat
  BY TrimCuts
<1>2. PICK n \in 0..m :
        /\ t = SubSeq(v, 1, n)
        /\ \A i \in (n + 1)..m : v[i] = Blank
  BY TrimCuts
<1> DEFINE b == SubSeq(v, n + 1, m)
<1> HIDE DEF t
<1>3. b \in Seq(S) /\ \A i \in 1..Len(b) : b[i] = Blank
  <2>1. \A i \in 1..m : v[i] \in S
    BY ElementOfSeq
  <2> DEFINE lo == n + 1
  <2>2. lo \in Int /\ m \in Int /\ \A i \in lo..m : v[i] \in S
    BY <1>1, <2>1
  <2> HIDE DEF m, lo
  <2>3. /\ SubSeq(v, lo, m) \in Seq(S)
        /\ Len(SubSeq(v, lo, m)) = IF lo <= m THEN m - lo + 1 ELSE 0
        /\ \A i \in 1..(m - lo + 1) : SubSeq(v, lo, m)[i] = v[lo + i - 1]
    BY <2>2, SubSeqProperties
  <2>4. b = SubSeq(v, lo, m)
    BY DEF lo
  <2> HIDE DEF b
  <2>5. ASSUME NEW i \in 1..Len(b) PROVE b[i] = Blank
    <3>1. i \in 1..(m - lo + 1) /\ lo + i - 1 \in lo..m
      BY <2>2, <2>3, <2>4, <2>5
    <3> QED BY <1>2, <2>3, <2>4, <3>1 DEF lo
  <2> QED BY <2>3, <2>4, <2>5
<1>4. v = t \o b
  <2>1. 1 \in 1..(Len(v) + 1) /\ n \in (1 - 1)..Len(v) /\ Len(v) \in n..Len(v)
    BY <1>1
  <2>2. SubSeq(v, 1, n) \o SubSeq(v, n + 1, Len(v)) = SubSeq(v, 1, Len(v))
    BY <2>1, ConcatAdjacentSubSeq
  <2> QED BY <1>2, <2>2, SubSeqFull
<1> HIDE DEF b
<1>5. u \o v = (u \o t) \o b
  <2>1. u \in Seq(S) /\ t \in Seq(S) /\ b \in Seq(S)
    BY <1>1, <1>3
  <2> HIDE DEF t
  <2>2. (u \o t) \o b = u \o (t \o b)
    BY <2>1, ConcatAssociative, SMTT(30)
  <2> QED BY <1>4, <2>2
<1>6. u \o t \in Seq(S) /\ Ends(u \o t)
  <2>1. CASE t = <<>>
    BY <2>1, ConcatEmptySeq
  <2>2. CASE Ends(t)
    BY <1>1, <2>2, EndsConcat
  <2> QED BY <1>1, <2>1, <2>2
<1>7. TrimRight((u \o t) \o b) = u \o t
  BY <1>3, <1>6, TrimIs
<1> QED BY <1>5, <1>7 DEF t

-----------------------------------------------------------------------------
(* A line is read as it was written.                                       *)

(* Names and rooms: something, and no blank in it. *)
Words(S) == {s \in Seq(S) : s # <<>> /\ Free(s, Blank)}

LEMMA WordEnds ==
  ASSUME NEW S, NEW s \in Words(S)
  PROVE  s \in Seq(S) /\ Ends(s) /\ Free(s, Blank)
<1>1. s \in Seq(S) /\ s # <<>> /\ Free(s, Blank)
  BY DEF Words
<1>2. Len(s) \in DOMAIN s
  BY <1>1, EmptySeq
<1> QED BY <1>1, <1>2 DEF Free, Ends

LEMMA FreeConcat ==
  ASSUME NEW S, NEW s \in Seq(S), NEW t \in Seq(S), NEW c, Free(s, c), Free(t, c)
  PROVE  Free(s \o t, c)
<1> DEFINE w == s \o t
           m == Len(s)
           n == Len(t)
<1>1. /\ m \in Nat /\ n \in Nat /\ DOMAIN s = 1..m /\ DOMAIN t = 1..n
  OBVIOUS
<1>2. /\ w \in Seq(S) /\ Len(w) = m + n
      /\ \A i \in 1..(m + n) : w[i] = IF i <= m THEN s[i] ELSE t[i - m]
  BY ConcatProperties
<1>3. DOMAIN w = 1..(m + n)
  <2> HIDE DEF m, n, w
  <2> QED BY <1>2, LenProperties
<1> HIDE DEF w, m, n
<1>4. ASSUME NEW i \in 1..(m + n) PROVE w[i] # c
  <2>1. CASE i <= m
    <3>1. i \in DOMAIN s /\ w[i] = s[i]
      BY <1>1, <1>2, <2>1
    <3> QED BY <3>1 DEF Free
  <2>2. CASE ~ (i <= m)
    <3>1. i - m \in DOMAIN t /\ w[i] = t[i - m]
      BY <1>1, <1>2, <2>2
    <3> QED BY <3>1 DEF Free
  <2> QED BY <2>1, <2>2
<1> QED BY <1>3, <1>4 DEF Free, w

(* The keyword and what follows it. *)
LEMMA Keyword ==
  ASSUME NEW S, Blank \in S, NEW type \in S, type # Blank, NEW p \in Seq(S)
  PROVE  LET rest == <<type>> \o (<<Blank>> \o p) IN
         /\ rest \in Seq(S) /\ rest # Empty /\ rest[1] = type
         /\ Index(rest, Blank) # 0 /\ After(rest, Index(rest, Blank)) = p
<1> DEFINE q == <<Blank>> \o p
           rest == <<type>> \o q
<1>1. q \in Seq(S)
  BY Front
<1>2. <<type>> \in Seq(S) /\ Free(<<type>>, Blank)
  BY Single DEF Free
<1>3. Index(rest, Blank) > 0 /\ After(rest, Index(rest, Blank)) = p
  <2> DEFINE w == <<type>>
  <2>1. w \in Seq(S) /\ Free(w, Blank)
    BY <1>2
  <2> HIDE DEF w
  <2>2. /\ Index(w \o (<<Blank>> \o p), Blank) > 0
        /\ After(w \o (<<Blank>> \o p), Index(w \o (<<Blank>> \o p), Blank)) = p
    BY <2>1, IndexFirst
  <2> QED BY <2>2 DEF w
<1> HIDE DEF q
<1>4. rest \in Seq(S) /\ rest # <<>> /\ rest[1] = type
  BY <1>1, Front
<1>5. Index(rest, Blank) # 0
  <2> HIDE DEF rest
  <2> QED BY <1>3
<1> QED BY <1>3, <1>4, <1>5 DEF q, Empty

(* Concatenation is associative, said of three texts at a time. *)
Assoc(s, t, u) == (s \o t) \o u = s \o (t \o u)

LEMMA Associates ==
  ASSUME NEW S, NEW s \in Seq(S), NEW t \in Seq(S), NEW u \in Seq(S)
  PROVE  Assoc(s, t, u)
BY ConcatAssociative DEF Assoc

(* The line that is written, and what the parser makes of it. *)
LineText(room, type, p) ==
  (<<"@">> \o room \o <<Blank>>) \o <<type, Blank>> \o p

ReadAs(room, type, day, p, q) ==
  ParseLogLine([day |-> day, text |-> LineText(room, type, p)])
    = ParsePayload(type, q, day, room)

(* The line of an event in a room comes to the parser of its payload. *)
LEMMA Framed ==
  ASSUME NEW S, {"@", Blank} \subseteq S, NEW room \in Words(S),
         NEW type \in S, type # Blank,
         NEW u \in Seq(S), Ends(u), NEW v \in Seq(S), NEW day
  PROVE  ReadAs(room, type, day, u \o v, u \o TrimRight(v))
<1> DEFINE A == <<"@">> \o room
           B == <<Blank>>
           C == <<type>>
           H == (A \o B) \o <<type, Blank>>
           t == TrimRight(v)
           p == u \o t
           rest == C \o (B \o p)
           x == A \o (B \o rest)
           line == [day |-> day, text |-> H \o (u \o v)]
<1>1. room \in Seq(S) /\ Free(room, Blank)
  BY WordEnds
<1>2. A \in Seq(S) /\ A # <<>> /\ A[1] = "@" /\ Tail(A) = room
  BY <1>1, Front
<1>3. B \in Seq(S) /\ C \in Seq(S)
  BY Single
<1>4. Free(A, Blank)
  <2>1. <<"@">> \in Seq(S) /\ Free(<<"@">>, Blank)
    BY Single DEF Free, Blank
  <2> QED BY <1>1, <2>1, FreeConcat
<1>5. <<type, Blank>> = C \o B /\ C \o B \in Seq(S)
  <2>1. /\ <<type, Blank>> \in Seq(S) /\ Len(<<type, Blank>>) = 2
        /\ <<type, Blank>>[1] = type /\ <<type, Blank>>[2] = Blank
    OBVIOUS
  <2>2. /\ C \o B \in Seq(S) /\ Len(C \o B) = 2
        /\ (C \o B)[1] = type /\ (C \o B)[2] = Blank
    <3>1. /\ C \o B \in Seq(S) /\ C \o B # <<>> /\ (C \o B)[1] = type
          /\ Len(B) \in Nat /\ Len(C \o B) = Len(B) + 1
          /\ \A i \in 1..Len(B) : (C \o B)[i + 1] = B[i]
      BY <1>3, Front
    <3>2. Len(B) = 1 /\ B[1] = Blank
      BY Single
    <3> HIDE DEF B, C
    <3>3. (C \o B)[1 + 1] = B[1]
      BY <3>1, <3>2
    <3> QED BY <3>1, <3>2, <3>3
  <2> DEFINE y == <<type, Blank>>
             z == C \o B
  <2>3. \A i \in 1..2 : y[i] = z[i]
    BY <2>1, <2>2
  <2> HIDE DEF y, z
  <2>4. y = z
    BY <2>1, <2>2, <2>3, SeqEqual DEF y, z
  <2> QED BY <2>2, <2>4 DEF y, z
<1>6. t \in Seq(S)
  BY TrimCuts
<1> HIDE DEF A, B, C, t
<1>7. p \in Seq(S)
  BY <1>6, Concat
<1> HIDE DEF p
<1>8. /\ rest \in Seq(S) /\ rest # Empty /\ rest[1] = type
      /\ Index(rest, Blank) # 0 /\ After(rest, Index(rest, Blank)) = p
  BY <1>7, Keyword DEF B, C
<1>9. A \o B \in Seq(S) /\ B \o p \in Seq(S)
  BY <1>3, <1>2, <1>7, Concat
<1>10. H \in Seq(S) /\ H = (A \o B) \o (C \o B)
  <2>1. (A \o B) \o (C \o B) \in Seq(S)
    BY <1>5, <1>9, Concat
  <2> QED BY <1>5, <2>1
<1>11. /\ A \in Seq(S) /\ B \in Seq(S) /\ C \in Seq(S) /\ p \in Seq(S)
       /\ A \o B \in Seq(S) /\ C \o B \in Seq(S) /\ t \in Seq(S)
  BY <1>2, <1>3, <1>5, <1>6, <1>7, <1>9
<1>12. H \in Seq(S) /\ rest \in Seq(S)
  BY <1>8, <1>10
<1>20. H \o p = x
  <2> HIDE DEF H
  <2>2. Assoc(A \o B, C \o B, p) /\ Assoc(C, B, p)
    BY <1>11, Associates
  <2> HIDE DEF rest
  <2>3. Assoc(A, B, rest)
    BY <1>11, <1>12, Associates
  <2> QED BY <1>10, <2>2, <2>3 DEF Assoc, rest
<1>21. TrimRight(line.text) = x
  <2>1. line.text = H \o (u \o v)
    OBVIOUS
  <2>2. H \o (u \o v) = (H \o u) \o v /\ H \o (u \o t) = (H \o u) \o t
    <3> HIDE DEF H
    <3>1. Assoc(H, u, v) /\ Assoc(H, u, t)
      BY <1>11, <1>12, Associates
    <3> QED BY <3>1 DEF Assoc
  <2> HIDE DEF H, line
  <2>3. H \o u \in Seq(S) /\ Ends(H \o u)
    BY <1>10, EndsConcat
  <2>4. TrimRight((H \o u) \o v) = (H \o u) \o t
    BY <2>3, TrimBehind DEF t
  <2> QED BY <1>20, <2>1, <2>2, <2>4 DEF p
<1> HIDE DEF rest
<1>13. /\ Index(x, Blank) > 0 /\ Before(x, Index(x, Blank)) = A
       /\ After(x, Index(x, Blank)) = rest
  BY <1>2, <1>4, <1>8, IndexFirst DEF B
<1>14. x # Empty /\ x[1] = "@"
  <2>1. B \o rest \in Seq(S)
    BY <1>3, <1>8, Concat
  <2>2. \A i \in 1..Len(A) : x[i] = A[i]
    BY <1>2, <2>1, Concat
  <2>3. x \in Seq(S) /\ Len(x) = Len(A) + Len(B \o rest)
    BY <1>2, <2>1, Concat
  <2>4. Len(A) \in Nat \ {0} /\ Len(B \o rest) \in Nat
    BY <1>2, <2>1, EmptySeq
  <2> HIDE DEF x
  <2>5. 1 \in 1..Len(A) /\ Len(x) # 0
    BY <2>3, <2>4
  <2>6. x # <<>>
    BY <2>3, <2>5, EmptySeq
  <2> QED BY <1>2, <2>2, <2>5, <2>6 DEF Empty
<1>15. line.day = day
  OBVIOUS
<1> HIDE DEF x, line
<1>16. Index(x, Blank) # 0
  BY <1>13
<1>17. TagRoom(x) = room /\ TagEnd(x) = Index(x, Blank) + 1
  BY <1>2, <1>13, <1>14 DEF TagRoom, TagEnd
<1>18. SubSeq(x, TagEnd(x), Len(x)) = rest
  BY <1>13, <1>17 DEF After
<1>19. ParseLogLine(line) = ParsePayload(type, p, day, room)
  BY <1>8, <1>21, <1>14, <1>15, <1>16, <1>17, <1>18 DEF ParseLogLine
<1> QED BY <1>19 DEF line, H, A, B, p, t, ReadAs, LineText

LEMMA FramedWhole ==
  ASSUME NEW S, {"@", Blank} \subseteq S, NEW room \in Words(S),
         NEW type \in S, type # Blank, NEW p \in Seq(S), Ends(p), NEW day
  PROVE  ReadAs(room, type, day, p, p)
<1> DEFINE none == <<>>
<1>1. none \in Seq(S) /\ p \o none = p /\ TrimRight(none) = none
  <2>1. none \in Seq(S) /\ p \o none = p
    BY ConcatEmptySeq
  <2> QED BY <2>1, TrimWhole
<1> HIDE DEF none
<1>2. ReadAs(room, type, day, p \o none, p \o TrimRight(none))
  BY <1>1, Framed
<1> QED BY <1>1, <1>2

(* A text is what comes before the first such token, the token and what    *)
(* comes after it.                                                         *)
Splits(S, w, c) ==
  LET i == Index(w, c) IN
  /\ i \in 1..Len(w) /\ w[i] = c
  /\ Before(w, i) \in Seq(S) /\ After(w, i) \in Seq(S)
  /\ w = Before(w, i) \o (<<c>> \o After(w, i))

LEMMA IndexSplits ==
  ASSUME NEW S, NEW w \in Seq(S), NEW c \in S, NEW k \in 1..Len(w), w[k] = c
  PROVE  Splits(S, w, c)
<1> DEFINE found == {i \in DOMAIN w : w[i] = c}
           i == CHOOSE i \in found : \A j \in found : i <= j
           l == Len(w)
<1>1. /\ l \in Nat /\ DOMAIN w = 1..l /\ \A j \in 1..l : w[j] \in S
  OBVIOUS
<1> HIDE DEF l
<1>2. \E j \in found : \A h \in found : j <= h
  <2>1. found \in SUBSET Nat /\ found # {}
    BY <1>1 DEF l
  <2> HIDE DEF found
  <2> QED BY <2>1, Least
<1>3. i \in found
  <2> HIDE DEF found
  <2> QED BY <1>2
<1>4. Index(w, c) = i
  <2>1. Index(w, c) = IF found = {} THEN 0 ELSE i
    BY DEF Index
  <2> HIDE DEF i, found
  <2> QED BY <1>3, <2>1
<1>5. i \in 1..l /\ w[i] = c
  <2> HIDE DEF i
  <2> QED BY <1>1, <1>3
<1> HIDE DEF i
<1>6. w = SubSeq(w, 1, i - 1) \o SubSeq(w, i, l)
  <2>1. /\ 1 \in 1..(Len(w) + 1) /\ i - 1 \in (1 - 1)..Len(w)
        /\ Len(w) \in (i - 1)..Len(w) /\ (i - 1) + 1 = i
    BY <1>1, <1>5 DEF l
  <2>2. SubSeq(w, 1, i - 1) \o SubSeq(w, (i - 1) + 1, Len(w))
          = SubSeq(w, 1, Len(w))
    BY <2>1, ConcatAdjacentSubSeq
  <2> QED BY <2>1, <2>2, SubSeqFull DEF l
<1>7. SubSeq(w, i, l) = <<c>> \o SubSeq(w, i + 1, l)
  <2>1. i \in 1..Len(w) /\ l \in i..Len(w)
    BY <1>1, <1>5 DEF l
  <2> QED BY <1>5, <2>1, SubSeqRecursiveFirst
<1>8. SubSeq(w, 1, i - 1) \in Seq(S)
  <2> DEFINE hi == i - 1
  <2>1. 1 \in Int /\ hi \in Int /\ \A j \in 1..hi : w[j] \in S
    BY <1>1, <1>5
  <2> HIDE DEF hi
  <2>2. SubSeq(w, 1, hi) \in Seq(S)
    BY <2>1, SubSeqProperties
  <2> QED BY <2>2 DEF hi
<1>9. SubSeq(w, i + 1, l) \in Seq(S)
  <2> DEFINE lo == i + 1
  <2>1. lo \in Int /\ l \in Int /\ \A j \in lo..l : w[j] \in S
    BY <1>1, <1>5
  <2> HIDE DEF lo
  <2>2. SubSeq(w, lo, l) \in Seq(S)
    BY <2>1, SubSeqProperties
  <2> QED BY <2>2 DEF lo
<1> QED BY <1>4, <1>5, <1>6, <1>7, <1>8, <1>9
     DEF Before, After, l, Splits

LEMMA HeadAndTail ==
  ASSUME NEW S, NEW s \in Seq(S), s # <<>>
  PROVE  s = <<s[1]>> \o Tail(s) /\ Tail(s) \in Seq(S)
<1>1. 1 \in 1..Len(s) /\ Len(s) \in 1..Len(s)
  BY EmptySeq
<1>2. SubSeq(s, 1, Len(s)) = <<s[1]>> \o SubSeq(s, 1 + 1, Len(s))
  BY <1>1, SubSeqRecursiveFirst
<1>3. Tail(s) = SubSeq(s, 2, Len(s)) /\ Tail(s) \in Seq(S)
  BY TailIsSubSeq, HeadTailProperties
<1>4. SubSeq(s, 1, Len(s)) = s
  BY SubSeqFull
<1> QED BY <1>2, <1>3, <1>4

-----------------------------------------------------------------------------
(* The payload of a line. *)

(* "[name]: text" is put together again, whatever is in the name. *)
LEMMA BracketsKeep ==
  ASSUME NEW S, {"[", "]:"} \subseteq S, NEW s \in Seq(S), NEW t \in Seq(S)
  PROVE  LET p == <<"[">> \o s \o <<"]:">> \o t IN
         /\ Bracketed(p)
         /\ <<"[">> \o BracketName(p) \o <<"]:">> \o BracketText(p) = p
<1> DEFINE A == <<"[">> \o s
           B == <<"]:">>
           q == B \o t
           p == (A \o B) \o t
           i == Index(p, "]:")
           h == Before(p, i)
           r == After(p, i)
           m == Len(s)
           n == Len(t)
<1>1. B \in Seq(S) /\ B # <<>> /\ <<"[">> \in Seq(S)
  BY Single
<1>2. /\ A \in Seq(S) /\ A[1] = "[" /\ m \in Nat /\ Len(A) = m + 1
  BY Front
<1>3. /\ q \in Seq(S) /\ q[1] = "]:" /\ n \in Nat /\ Len(q) = n + 1
  BY Front
<1> HIDE DEF A, B, q, m, n
<1>4. p = A \o q
  <2>1. Assoc(A, B, t)
    BY <1>1, <1>2, Associates
  <2> QED BY <2>1 DEF Assoc, q
<1>5. p \in Seq(S) /\ Len(p) = (m + 1) + (n + 1) /\ p[1] = "[" /\ p[m + 2] = "]:"
  <2> DEFINE w == A \o q
  <2>1. w \in Seq(S) /\ Len(w) = Len(A) + Len(q)
    BY <1>2, <1>3, ConcatProperties
  <2>2. \A j \in 1..(Len(A) + Len(q)) :
          w[j] = IF j <= Len(A) THEN A[j] ELSE q[j - Len(A)]
    BY <1>2, <1>3, ConcatProperties
  <2>3. /\ 1 \in 1..(Len(A) + Len(q)) /\ m + 2 \in 1..(Len(A) + Len(q))
        /\ 1 <= Len(A) /\ ~ (m + 2 <= Len(A)) /\ m + 2 - Len(A) = 1
    BY <1>2, <1>3
  <2>4. p = w
    BY <1>4
  <2> HIDE DEF w, p
  <2>5. w[1] = A[1] /\ w[m + 2] = q[1]
    <3>1. w[1] = IF 1 <= Len(A) THEN A[1] ELSE q[1 - Len(A)]
      BY <2>2, <2>3
    <3> DEFINE k == m + 2
    <3>2. k \in 1..(Len(A) + Len(q)) /\ ~ (k <= Len(A)) /\ k - Len(A) = 1
      BY <1>2, <1>3, <2>3 DEF k
    <3> HIDE DEF k
    <3>3. w[k] = q[1]
      <4>1. w[k] = q[k - Len(A)]
        BY <2>2, <3>2
      <4> QED BY <3>2, <4>1
    <3> QED BY <2>3, <3>1, <3>3 DEF k
  <2>6. w \in Seq(S) /\ Len(w) = (m + 1) + (n + 1)
    BY <1>2, <1>3, <2>1
  <2> QED BY <1>2, <1>3, <2>4, <2>5, <2>6
<1> HIDE DEF p
<1>6. m + 2 \in 1..Len(p) /\ Len(p) >= 2
  BY <1>2, <1>3, <1>5
<1>7. /\ i \in 1..Len(p) /\ p[i] = "]:" /\ h \in Seq(S) /\ r \in Seq(S)
      /\ p = h \o (B \o r)
  <2> DEFINE k == m + 2
  <2>1. k \in 1..Len(p) /\ p[k] = "]:" /\ p \in Seq(S)
    BY <1>5, <1>6
  <2> HIDE DEF k
  <2>2. Splits(S, p, "]:")
    BY <2>1, IndexSplits
  <2> QED BY <2>2 DEF Splits, B
<1> HIDE DEF i
<1>8. i # 1 /\ i > 0
  BY <1>5, <1>6, <1>7
<1>9. Bracketed(p)
  BY <1>5, <1>6, <1>8 DEF Bracketed, i
<1>10. h # <<>> /\ h[1] = "["
  <2> DEFINE k == i - 1
  <2>1. k \in 1..Len(p) /\ 1 \in Int /\ k \in Int
    BY <1>5, <1>6, <1>7, <1>8
  <2>2. \A j \in 1..k : p[j] \in S
    <3>1. \A j \in 1..Len(p) : p[j] \in S
      BY <1>5, ElementOfSeq
    <3> QED BY <1>5, <2>1, <3>1
  <2>3. h = SubSeq(p, 1, k)
    BY DEF Before
  <2> HIDE DEF k, h
  <2>4. /\ Len(h) = IF 1 <= k THEN k - 1 + 1 ELSE 0
        /\ \A j \in 1..(k - 1 + 1) : h[j] = p[1 + j - 1]
    BY <2>1, <2>2, <2>3, SubSeqProperties
  <2>5. 1 \in 1..(k - 1 + 1) /\ 1 + 1 - 1 = 1 /\ Len(h) # 0
    BY <1>5, <2>1, <2>4
  <2>6. h[1] = p[1]
    BY <2>4, <2>5
  <2>7. h # <<>>
    BY <1>7, <2>5, EmptySeq
  <2> QED BY <1>5, <2>6, <2>7
<1> HIDE DEF h, r
<1>11. h = <<"[">> \o Tail(h)
  BY <1>7, <1>10, HeadAndTail
<1>12. (h \o B) \o r = h \o (B \o r)
  <2>1. Assoc(h, B, r)
    BY <1>1, <1>7, Associates
  <2> QED BY <2>1 DEF Assoc
<1>13. BracketName(p) = Tail(h) /\ BracketText(p) = r
  BY DEF BracketName, BracketText, h, r, i
<1>14. (<<"[">> \o BracketName(p) \o <<"]:">>) \o BracketText(p) = p
  <2>1. (<<"[">> \o Tail(h)) \o B = h \o B
    BY <1>11
  <2> QED BY <1>7, <1>12, <1>13, <2>1 DEF B
<1> QED BY <1>9, <1>14 DEF p, A, B

(* The tokens that mean something. *)
Marks == MessageTypes \cup
  {"@", "[", "]:", Blank, "announcement", "muted", "unmuted", "switched", "drop"}

(* A message of each kind as the server makes it: names are not empty and  *)
(* have no blanks (validateName), what is said is anything; announcements  *)
(* are by one whose name does not end at a bracket and a colon.            *)
Written(m, S) ==
  \/ m.type = "CHAT" /\ m.sender \in Seq(S) /\ m.content \in Seq(S)
  \/ m.type = "JOIN" /\ m.sender \in Words(S)
  \/ /\ m.type = "LEAVE" /\ m.sender \in Words(S)
     /\ m.extra \in {<<"switched">>, <<"drop">>}
  \/ m.type = "NAMECHANGE" /\ m.sender \in Words(S) /\ m.extra \in Words(S)
  \/ /\ m.type = "ANNOUNCE" /\ m.content \in Seq(S)
     /\ m.extra \in Words(S) /\ Free(m.extra, "]:")
  \/ /\ m.type = "MOD" /\ m.content \in {<<"muted">>, <<"unmuted">>}
     /\ m.sender \in Words(S) /\ m.extra \in Words(S)

(* What is read of the line of a message that went to a room looks the     *)
(* same there.                                                             *)
SameLook(x, m) ==
  /\ \E sender, content, extra :
       x = Message(m.type, m.day, sender, content, extra, m.room)
  /\ TrimRight(Display(x)) = TrimRight(Display(m))

LEMMA LineOf ==
  ASSUME NEW S, NEW m, m.room \in Words(S), m.type # "SERVER"
  PROVE  FormatLogLine(m)
           = [day |-> m.day, text |-> LineText(m.room, m.type, Payload(m))]
<1>1. m.room # Empty
  BY DEF Words, Empty
<1>2. RoomTag(m) = <<"@">> \o m.room \o <<Blank>>
  BY <1>1 DEF RoomTag
<1> QED BY <1>2 DEF FormatLogLine, LineText

(* A word, a blank and something. *)
LEMMA WordFirst ==
  ASSUME NEW S, Blank \in S, NEW s \in Words(S), NEW t \in Seq(S)
  PROVE  LET p == s \o <<Blank>> \o t IN
         /\ p = s \o (<<Blank>> \o t)
         /\ Index(p, Blank) # 0
         /\ Before(p, Index(p, Blank)) = s /\ After(p, Index(p, Blank)) = t
<1> DEFINE B == <<Blank>>
           p == s \o (B \o t)
<1>1. s \in Seq(S) /\ Free(s, Blank) /\ B \in Seq(S)
  BY WordEnds, Single
<1>2. Assoc(s, B, t)
  BY <1>1, Associates
<1>3. /\ Index(p, Blank) > 0
      /\ Before(p, Index(p, Blank)) = s /\ After(p, Index(p, Blank)) = t
  BY <1>1, IndexFirst
<1>4. Index(p, Blank) # 0
  <2> HIDE DEF p
  <2> QED BY <1>3
<1> QED BY <1>2, <1>3, <1>4 DEF Assoc

LEMMA ReadsChat ==
  ASSUME NEW S, Marks \subseteq S, NEW m, m.room \in Words(S), m.type = "CHAT",
         m.sender \in Seq(S), m.content \in Seq(S)
  PROVE  SameLook(ParseLogLine(FormatLogLine(m)), m)
<1> DEFINE A == <<"[">> \o m.sender
           B == <<"]:">>
           u == A \o B
           t == TrimRight(m.content)
           p == u \o t
<1>0. /\ {"@", Blank} \subseteq S /\ "CHAT" \in S /\ "CHAT" # Blank /\ Blank \in S
      /\ {"[", "]:"} \subseteq S /\ "[" \in S /\ "]:" \in S /\ "]:" # Blank
  BY DEF Marks, MessageTypes, Blank
<1>1. A \in Seq(S) /\ B \in Seq(S) /\ Ends(B)
  BY <1>0, Front, Single DEF Ends
<1> HIDE DEF A, B
<1>2. u \in Seq(S) /\ Ends(u)
  BY <1>1, EndsConcat
<1>3. t \in Seq(S)
  BY TrimCuts
<1>4. Payload(m) = u \o m.content /\ Display(m) = u \o m.content
  BY DEF Payload, Display, A, B
<1> HIDE DEF u
<1>5. ReadAs(m.room, "CHAT", m.day, u \o m.content, p)
  BY <1>0, <1>2, Framed
<1>6. p = TrimRight(u \o m.content)
  BY <1>2, TrimBehind
<1>7. u \o m.content \in Seq(S)
  BY <1>2, Concat
<1>8. TrimRight(p) = p
  <2> DEFINE w == u \o m.content
  <2> HIDE DEF w
  <2>1. TrimRight(TrimRight(w)) = TrimRight(w)
    BY <1>7, TrimTwice DEF w
  <2> HIDE DEF p
  <2> QED BY <1>6, <2>1 DEF w
<1>9. /\ Bracketed(p)
      /\ <<"[">> \o BracketName(p) \o <<"]:">> \o BracketText(p) = p
  <2> DEFINE q == <<"[">> \o m.sender \o <<"]:">> \o t
  <2>1. /\ Bracketed(q)
        /\ <<"[">> \o BracketName(q) \o <<"]:">> \o BracketText(q) = q
    BY <1>0, <1>3, BracketsKeep
  <2>2. q = p
    BY DEF u, A, B
  <2> HIDE DEF q, p
  <2> QED BY <2>1, <2>2
<1> DEFINE x == ParseLogLine(FormatLogLine(m))
<1>10. x = ParsePayload("CHAT", p, m.day, m.room)
  BY <1>4, <1>5, LineOf DEF ReadAs
<1> HIDE DEF p
<1>11. x = Message("CHAT", m.day, BracketName(p), BracketText(p), Empty, m.room)
  BY <1>9, <1>10 DEF ParsePayload, ParseChat
<1> HIDE DEF x
<1>12. Display(x) = p
  <2>1. /\ x.type = "CHAT" /\ x.sender = BracketName(p)
        /\ x.content = BracketText(p)
    BY <1>11 DEF Message
  <2> QED BY <1>9, <2>1 DEF Display
<1> QED BY <1>4, <1>6, <1>8, <1>11, <1>12 DEF SameLook, x

LEMMA ReadsAnnouncement ==
  ASSUME NEW S, Marks \subseteq S, NEW m, m.room \in Words(S),
         m.type = "ANNOUNCE", m.content \in Seq(S), m.extra \in Words(S),
         Free(m.extra, "]:")
  PROVE  SameLook(ParseLogLine(FormatLogLine(m)), m)
<1> DEFINE A == <<"[">> \o m.extra
           B == <<"]:">>
           u == A \o B
           t == TrimRight(m.content)
           p == u \o t
           N == <<"announcement">>
<1>0. /\ {"@", Blank} \subseteq S /\ "ANNOUNCE" \in S /\ "ANNOUNCE" # Blank
      /\ {"[", "]:"} \subseteq S /\ "[" \in S /\ "]:" \in S /\ "]:" # Blank
      /\ "announcement" \in S /\ "announcement" # Blank
  BY DEF Marks, MessageTypes, Blank
<1>1. /\ m.extra \in Seq(S) /\ A \in Seq(S) /\ Tail(A) = m.extra
      /\ B \in Seq(S) /\ Ends(B) /\ N \in Seq(S) /\ Ends(N)
  <2>1. m.extra \in Seq(S)
    BY WordEnds
  <2> QED BY <1>0, <2>1, Front, Single DEF Ends
<1>2. Free(A, "]:")
  <2>1. <<"[">> \in Seq(S) /\ Free(<<"[">>, "]:")
    BY <1>0, Single DEF Free
  <2> QED BY <1>1, <2>1, FreeConcat
<1>3. t \in Seq(S) /\ TrimRight(t) = t
  BY TrimCuts, TrimTwice
<1>4. Payload(m) = u \o m.content /\ Display(m) = N \o m.content
  BY DEF Payload, Display
<1> HIDE DEF A, N
<1>5. p = A \o (B \o t)
  <2> HIDE DEF B, t
  <2>1. Assoc(A, B, t)
    BY <1>1, <1>3, Associates
  <2> QED BY <2>1 DEF Assoc
<1>6. /\ Index(p, "]:") > 0 /\ Before(p, Index(p, "]:")) = A
      /\ After(p, Index(p, "]:")) = t
  <2> DEFINE q == A \o (<<"]:">> \o t)
  <2> HIDE DEF t
  <2>1. /\ Index(q, "]:") > 0 /\ Before(q, Index(q, "]:")) = A
        /\ After(q, Index(q, "]:")) = t
    BY <1>0, <1>1, <1>2, <1>3, IndexFirst
  <2> QED BY <1>5, <2>1
<1> HIDE DEF B, t
<1>7. u \in Seq(S) /\ Ends(u)
  BY <1>1, EndsConcat
<1> HIDE DEF u
<1>8. ReadAs(m.room, "ANNOUNCE", m.day, u \o m.content, p)
  BY <1>0, <1>7, Framed DEF t
<1>9. Bracketed(p)
  <2> DEFINE q == <<"[">> \o m.extra \o <<"]:">> \o t
  <2>1. Bracketed(q)
    BY <1>0, <1>1, <1>3, BracketsKeep
  <2> QED BY <2>1 DEF u, A, B
<1> DEFINE x == ParseLogLine(FormatLogLine(m))
<1>10. x = ParsePayload("ANNOUNCE", p, m.day, m.room)
  BY <1>4, <1>8, LineOf DEF ReadAs
<1> HIDE DEF p
<1>11. x = Message("ANNOUNCE", m.day, Empty, t, m.extra, m.room)
  BY <1>1, <1>6, <1>9, <1>10
     DEF ParsePayload, ParseAnnouncement, BracketName, BracketText
<1> HIDE DEF x
<1>12. Display(x) = N \o t
  <2>1. x.type = "ANNOUNCE" /\ x.content = t
    BY <1>11 DEF Message
  <2> QED BY <2>1 DEF Display, N
<1>13. TrimRight(N \o t) = N \o t /\ TrimRight(N \o m.content) = N \o t
  <2>1. TrimRight(N \o t) = N \o TrimRight(t)
    BY <1>1, <1>3, TrimBehind
  <2>2. TrimRight(N \o m.content) = N \o TrimRight(m.content)
    BY <1>1, TrimBehind
  <2> QED BY <1>3, <2>1, <2>2 DEF t
<1> QED BY <1>4, <1>11, <1>12, <1>13 DEF SameLook, x

LEMMA ReadsJoin ==
  ASSUME NEW S, Marks \subseteq S, NEW m, m.room \in Words(S), m.type = "JOIN",
         m.sender \in Words(S)
  PROVE  SameLook(ParseLogLine(FormatLogLine(m)), m)
<1> DEFINE x == ParseLogLine(FormatLogLine(m))
           s == m.sender
<1>1. /\ {"@", Blank} \subseteq S /\ "JOIN" \in S /\ "JOIN" # Blank
  BY DEF Marks, MessageTypes, Blank
<1>2. s \in Seq(S) /\ Ends(s)
  BY WordEnds
<1>3. Payload(m) = s /\ Display(m) = s \o <<"joined">>
  BY DEF Payload, Display
<1> HIDE DEF s
<1>4. ReadAs(m.room, "JOIN", m.day, s, s)
  BY <1>1, <1>2, FramedWhole
<1>5. x = ParsePayload("JOIN", s, m.day, m.room)
  BY <1>3, <1>4, LineOf DEF ReadAs
<1>6. x = Message("JOIN", m.day, s, Empty, Empty, m.room)
  BY <1>5 DEF ParsePayload, ParseJoin
<1> HIDE DEF x
<1>7. Display(x) = s \o <<"joined">>
  <2>1. x.type = "JOIN" /\ x.sender = s
    BY <1>6 DEF Message
  <2> QED BY <2>1 DEF Display
<1> QED BY <1>3, <1>6, <1>7 DEF SameLook, x

LEMMA ReadsLeave ==
  ASSUME NEW S, Marks \subseteq S, NEW m, m.room \in Words(S), m.type = "LEAVE",
         m.sender \in Words(S), m.extra \in {<<"switched">>, <<"drop">>}
  PROVE  SameLook(ParseLogLine(FormatLogLine(m)), m)
<1> DEFINE x == ParseLogLine(FormatLogLine(m))
           s == m.sender
           t == m.extra
           p == s \o <<Blank>> \o t
<1>1. /\ {"@", Blank} \subseteq S /\ "LEAVE" \in S /\ "LEAVE" # Blank
      /\ "switched" \in S /\ "drop" \in S /\ Blank \in S
      /\ "switched" # Blank /\ "drop" # Blank
  BY DEF Marks, MessageTypes, Blank
<1>2. t \in Seq(S) /\ Ends(t) /\ t # Empty
  <2>1. ASSUME NEW c \in S, c # Blank
        PROVE  <<c>> \in Seq(S) /\ Ends(<<c>>) /\ <<c>> # Empty
    <3>1. /\ <<c>> \in Seq(S) /\ Len(<<c>>) = 1 /\ <<c>>[1] = c
          /\ <<c>> # <<>>
      BY Single
    <3> QED BY <2>1, <3>1 DEF Ends, Empty
  <2>2. t = <<"switched">> \/ t = <<"drop">>
    OBVIOUS
  <2> HIDE DEF t
  <2> QED BY <1>1, <2>1, <2>2
<1>3. Payload(m) = p /\ Display(m) = s \o <<"left">>
  BY <1>2 DEF Payload, Display
<1>4. s \in Words(S) /\ s \in Seq(S)
  BY WordEnds
<1> HIDE DEF s, t
<1>5. /\ p = s \o (<<Blank>> \o t)
      /\ Index(p, Blank) # 0
      /\ Before(p, Index(p, Blank)) = s /\ After(p, Index(p, Blank)) = t
  BY <1>1, <1>2, <1>4, WordFirst
<1>6. p \in Seq(S) /\ Ends(p)
  <2>1. s \o <<Blank>> \in Seq(S)
    BY <1>1, <1>4, Single, Concat
  <2> QED BY <1>2, <2>1, EndsConcat
<1> HIDE DEF p
<1>7. ReadAs(m.room, "LEAVE", m.day, p, p)
  BY <1>1, <1>6, FramedWhole
<1>8. x = ParsePayload("LEAVE", p, m.day, m.room)
  BY <1>3, <1>7, LineOf DEF ReadAs
<1>9. x = Message("LEAVE", m.day, s, Empty, t, m.room)
  BY <1>5, <1>8 DEF ParsePayload, ParseLeave
<1> HIDE DEF x
<1>10. Display(x) = s \o <<"left">>
  <2>1. x.type = "LEAVE" /\ x.sender = s
    BY <1>9 DEF Message
  <2> QED BY <2>1 DEF Display
<1> QED BY <1>3, <1>9, <1>10 DEF SameLook, x

LEMMA ReadsNameChange ==
  ASSUME NEW S, Marks \subseteq S, NEW m, m.room \in Words(S),
         m.type = "NAMECHANGE", m.sender \in Words(S), m.extra \in Words(S)
  PROVE  SameLook(ParseLogLine(FormatLogLine(m)), m)
<1> DEFINE x == ParseLogLine(FormatLogLine(m))
           s == m.extra
           t == m.sender
           p == s \o <<Blank>> \o t
<1>1. /\ {"@", Blank} \subseteq S /\ "NAMECHANGE" \in S /\ "NAMECHANGE" # Blank
      /\ Blank \in S
  BY DEF Marks, MessageTypes, Blank
<1>2. /\ s \in Words(S) /\ s \in Seq(S) /\ t \in Seq(S) /\ Ends(t)
  BY WordEnds
<1>3. Payload(m) = p /\ Display(m) = s \o <<"renamed">> \o t
  BY DEF Payload, Display
<1> HIDE DEF s, t
<1>5. /\ p = s \o (<<Blank>> \o t)
      /\ Index(p, Blank) # 0
      /\ Before(p, Index(p, Blank)) = s /\ After(p, Index(p, Blank)) = t
  BY <1>1, <1>2, WordFirst
<1>6. p \in Seq(S) /\ Ends(p)
  <2>1. s \o <<Blank>> \in Seq(S)
    BY <1>1, <1>2, Single, Concat
  <2> QED BY <1>2, <2>1, EndsConcat
<1> HIDE DEF p
<1>7. ReadAs(m.room, "NAMECHANGE", m.day, p, p)
  BY <1>1, <1>6, FramedWhole
<1>8. x = ParsePayload("NAMECHANGE", p, m.day, m.room)
  BY <1>3, <1>7, LineOf DEF ReadAs
<1>9. x = Message("NAMECHANGE", m.day, t, Empty, s, m.room)
  BY <1>5, <1>8 DEF ParsePayload, ParseNameChange
<1> HIDE DEF x
<1>10. Display(x) = s \o <<"renamed">> \o t
  <2>1. x.type = "NAMECHANGE" /\ x.sender = t /\ x.extra = s
    BY <1>9 DEF Message
  <2> QED BY <2>1 DEF Display
<1> QED BY <1>3, <1>9, <1>10 DEF SameLook, x

LEMMA WordOfOne ==
  ASSUME NEW S, NEW w \in S, w # Blank PROVE <<w>> \in Words(S)
BY Single DEF Words, Free

LEMMA ReadsModeration ==
  ASSUME NEW S, Marks \subseteq S, NEW m, m.room \in Words(S), m.type = "MOD",
         m.content \in {<<"muted">>, <<"unmuted">>},
         m.sender \in Words(S), m.extra \in Words(S)
  PROVE  SameLook(ParseLogLine(FormatLogLine(m)), m)
<1> DEFINE x == ParseLogLine(FormatLogLine(m))
           c == m.content
           s == m.sender
           t == m.extra
           B == <<Blank>>
           q == s \o B \o t
           p == ((c \o B) \o s) \o B \o t
           look == s \o <<"was">> \o c \o <<"by">> \o t
<1>1. /\ {"@", Blank} \subseteq S /\ "MOD" \in S /\ "MOD" # Blank
      /\ "muted" \in S /\ "unmuted" \in S /\ Blank \in S
      /\ "muted" # Blank /\ "unmuted" # Blank
  BY DEF Marks, MessageTypes, Blank
<1>2. c \in Words(S)
  <2>1. <<"muted">> \in Words(S) /\ <<"unmuted">> \in Words(S)
    BY <1>1, WordOfOne
  <2> QED BY <2>1
<1>3. /\ s \in Words(S) /\ s \in Seq(S) /\ t \in Seq(S) /\ Ends(t)
      /\ c \in Seq(S) /\ B \in Seq(S)
  BY <1>1, <1>2, WordEnds, Single
<1>4. Payload(m) = p /\ Display(m) = look
  BY DEF Payload, Display
<1> HIDE DEF c, s, t
<1>5. /\ q = s \o (B \o t) /\ Index(q, Blank) # 0
      /\ Before(q, Index(q, Blank)) = s /\ After(q, Index(q, Blank)) = t
  BY <1>1, <1>3, WordFirst
<1>6. /\ s \o B \in Seq(S) /\ c \o B \in Seq(S)
  BY <1>3, Concat
<1>7. q \in Seq(S) /\ Ends(q)
  <2> HIDE DEF B
  <2> QED BY <1>3, <1>6, EndsConcat
<1>8. p = c \o B \o q
  <2>1. c \o B \o s \in Seq(S) /\ B \o t \in Seq(S)
    BY <1>3, <1>6, Concat
  <2> HIDE DEF B
  <2>2. Assoc((c \o B) \o s, B, t) /\ Assoc(c \o B, s, B \o t)
    BY <1>3, <1>6, <2>1, Associates
  <2> HIDE DEF q
  <2> QED BY <1>5, <2>2 DEF Assoc
<1> HIDE DEF p, q
<1>9. /\ Index(p, Blank) # 0
      /\ Before(p, Index(p, Blank)) = c /\ After(p, Index(p, Blank)) = q
  <2> DEFINE r == c \o <<Blank>> \o q
  <2>1. /\ Index(r, Blank) # 0
        /\ Before(r, Index(r, Blank)) = c /\ After(r, Index(r, Blank)) = q
    BY <1>1, <1>2, <1>7, WordFirst
  <2> QED BY <1>8, <2>1
<1>10. p \in Seq(S) /\ Ends(p)
  <2> HIDE DEF B
  <2> QED BY <1>6, <1>7, <1>8, EndsConcat
<1>11. ReadAs(m.room, "MOD", m.day, p, p)
  BY <1>1, <1>10, FramedWhole
<1>12. x = ParsePayload("MOD", p, m.day, m.room)
  BY <1>4, <1>11, LineOf DEF ReadAs
<1>13. x = Message("MOD", m.day, s, c, t, m.room)
  BY <1>5, <1>9, <1>12 DEF ParsePayload, ParseModeration
<1> HIDE DEF x
<1>14. Display(x) = look
  <2>1. x.type = "MOD" /\ x.sender = s /\ x.content = c /\ x.extra = t
    BY <1>13 DEF Message
  <2> QED BY <2>1 DEF Display
<1> QED BY <1>4, <1>13, <1>14 DEF SameLook, x

(* What was written is read as a message of the same kind, day and room    *)
(* that looks the same.                                                    *)
LEMMA ReadsBack ==
  ASSUME NEW S, Marks \subseteq S, NEW m, m.room \in Words(S), Written(m, S)
  PROVE  SameLook(ParseLogLine(FormatLogLine(m)), m) /\ m.type # "SERVER"
<1>1. m.type # "SERVER"
  BY DEF Written
<1>2. SameLook(ParseLogLine(FormatLogLine(m)), m)
  BY ReadsChat, ReadsJoin, ReadsLeave, ReadsNameChange, ReadsAnnouncement,
     ReadsModeration DEF Written
<1> QED BY <1>1, <1>2

(* What the server says of itself is not brought back. *)
LEMMA ServerLineIsSkipped ==
  ASSUME NEW word, word # Blank, NEW e
  PROVE  ~ Kept(Parsed([line |-> FormatLogLine(ServerEvent(word).msg), of |-> e]))
<1> DEFINE m == ServerEvent(word).msg
           S == {"SERVER", Blank, word}
           B == <<Blank>>
           C == <<"SERVER">>
           p == <<word>>
           s == C \o (B \o p)
           x == [line |-> FormatLogLine(m), of |-> e]
           d == x.line.day
           room == TagRoom(s)
<1>1. m.type = "SERVER" /\ m.content = p /\ m.day = today
  BY DEF ServerEvent, NoEvent, Message
<1> HIDE DEF m
<1>2. RoomTag(m) = Empty /\ Payload(m) = p
  BY <1>1 DEF RoomTag, Payload
<1>3. /\ "SERVER" \in S /\ Blank \in S /\ "SERVER" # Blank /\ word \in S
      /\ B \in Seq(S) /\ C \in Seq(S) /\ p \in Seq(S) /\ Ends(p)
  BY Single DEF Blank, Ends
<1>4. /\ s \in Seq(S) /\ s # Empty /\ s[1] = "SERVER"
      /\ Index(s, Blank) # 0 /\ After(s, Index(s, Blank)) = p
  <2> HIDE DEF S, p
  <2> QED BY <1>3, Keyword
<1>5. FormatLogLine(m).text = s
  <2> DEFINE h == <<"SERVER", Blank>>
  <2>1. FormatLogLine(m).text = (Empty \o h) \o p
    BY <1>1, <1>2 DEF FormatLogLine
  <2>2. h = C \o B /\ h \in Seq(S)
    BY <1>3
  <2>3. Empty \o h = h
    <3> HIDE DEF h, S
    <3> QED BY <2>2, ConcatEmptySeq DEF Empty
  <2> HIDE DEF S, B, C, p, h
  <2>4. Assoc(C, B, p)
    BY <1>3, Associates
  <2> QED BY <2>1, <2>2, <2>3, <2>4 DEF Assoc
<1>6. TrimRight(s) = s
  <2> HIDE DEF S, p
  <2>1. C \o B \in Seq(S) /\ B \o p \in Seq(S)
    BY <1>3, Concat
  <2> HIDE DEF B, C
  <2>2. Ends(B \o p) /\ B \o p \in Seq(S)
    BY <1>3, EndsConcat
  <2>3. s \in Seq(S) /\ Ends(s)
    BY <1>3, <2>2, EndsConcat
  <2> HIDE DEF s
  <2> QED BY <2>3, TrimWhole
<1> HIDE DEF S, B, C, p
<1>7. SubSeq(s, 1, Len(s)) = s /\ TagEnd(s) = 1 /\ s[1] # "@"
  <2> HIDE DEF s
  <2>1. SubSeq(s, 1, Len(s)) = s
    BY <1>4, SubSeqFull
  <2>2. s[1] # "@"
    BY <1>4
  <2> QED BY <2>1, <2>2 DEF TagEnd
<1>8. x.line.text = s
  BY <1>5
<1> HIDE DEF x, d, room, s
<1>9. Parsed(x) = ParsePayload("SERVER", p, d, room)
  BY <1>4, <1>6, <1>7, <1>8 DEF Parsed, ParseLogLine, d, room
<1>10. Parsed(x) = Message("SERVER", d, Empty, p, Empty, Empty)
  BY <1>9 DEF ParsePayload
<1>11. Parsed(x).type = "SERVER"
  BY <1>10 DEF Message
<1> QED BY <1>11 DEF Kept, x, m

-----------------------------------------------------------------------------
(* What a room remembers.                                                  *)

(* The second invariant, for what the histories and the log hold: numbers  *)
(* stay within their bounds; ...                                           *)
Bounded ==
  /\ curDate \in Days \cup {0} /\ reset \in Days /\ reset <= today
  /\ rooms \subseteq RoomKeys /\ todo \subseteq RoomKeys
  /\ muted \subseteq Users
  /\ count \in 0..MaxEvents /\ starts \in 0..MaxStarts
  /\ phase = "down" => \A u \in Users : roomOf[u] = NoRoom
  /\ \A a \in Actors : event[a].in \in RoomKeys
  /\ \A u \in Users : screen[u] \subseteq 1..count

(* a room that is gone has left nothing and nobody behind; ...             *)
Housed ==
  \A k \in RoomKeys \ rooms :
    history[k] = <<>> /\ \A u \in Users : roomOf[u] = k => k = NoRoom

(* a line in the file of a day is of that day, and what is read back from  *)
(* it has been recorded by somebody; ...                                   *)
IsLineOf(x, d) ==
  /\ x.line.day = d
  /\ {"id", "by", "in", "msg"} \subseteq DOMAIN x.of
  /\ Kept(Parsed(x)) => x.of.id \in 1..count

Dated == \A d \in Days : \A i \in DOMAIN log[d] : IsLineOf(log[d][i], d)

Remembered ==
  \A k \in RoomKeys : \A i \in DOMAIN history[k] : history[k][i].id \in 1..count

(* and once the histories have been reset today, whoever has brought an    *)
(* event of yesterday into them has no other one, neither there nor to     *)
(* come.                                                                   *)
Stale(k, i, a) == history[k][i].by = a /\ history[k][i].msg.day # today

NoSecondStale ==
  \A a \in Actors : \A k, l \in RoomKeys :
    \A i \in DOMAIN history[k], j \in DOMAIN history[l] :
      Stale(k, i, a) /\ Stale(l, j, a) => k = l /\ i = j

NoStaleToCome ==
  \A a \in Actors : pc[a] = "add" /\ event[a].msg.day # today =>
    \A k \in RoomKeys : \A i \in DOMAIN history[k] : ~ Stale(k, i, a)

Late == phase = "up" /\ reset = today => NoSecondStale /\ NoStaleToCome

MemoryInv == Bounded /\ Housed /\ Dated /\ Remembered /\ Late

-----------------------------------------------------------------------------
(* What a line brings back. *)

(* What RecoverHistory makes comes from lines of the room. *)
LEMMA RecoveredFrom ==
  ASSUME NEW file, IsSeq(file), NEW r
  PROVE  \A i \in DOMAIN RecoverHistory(file, r) :
           \E j \in DOMAIN file :
             /\ IsOf(file[j], r)
             /\ RecoverHistory(file, r)[i] = Recovered(file[j], r)
<1> DEFINE n == Len(file)
           g == CHOOSE f : Builds(f, file, r, n)
           Comes(s) == \A i \in DOMAIN s : \E j \in DOMAIN file :
                         IsOf(file[j], r) /\ s[i] = Recovered(file[j], r)
           Bad == {i \in 0..n : ~ Comes(g[i])}
<1>1. n \in Nat /\ DOMAIN file = 1..n
  BY AppendIsSeq
<1>2. Builds(g, file, r, n)
  <2> HIDE DEF n
  <2> QED BY <1>1, BuildsExists
<1>3. RecoverHistory(file, r) = g[n]
  BY DEF RecoverHistory, Builds, Line
<1> HIDE DEF g, n
<1>4. \A i \in 0..n : IsSeq(g[i])
  BY <1>1, <1>2, BuildsSeqs
<1>5. ASSUME Bad # {}
      PROVE  FALSE
  <2>1. PICK i \in Bad : \A j \in Bad : i <= j
    <3>1. Bad \in SUBSET Nat
      BY <1>1
    <3> HIDE DEF Bad
    <3> QED BY <1>5, <3>1, Least
  <2>2. g[i] = Line(g, file, r, i)
    BY <1>2, Zenon DEF Builds
  <2>3. i # 0 /\ i - 1 \in 0..n /\ Comes(g[i - 1])
    <3>1. i # 0
      BY <2>1, <2>2, EmptyIsSeq DEF Line
    <3>2. i - 1 \in 0..n /\ ~ (i <= i - 1)
      BY <1>1, <3>1
    <3> QED BY <2>1, <3>1, <3>2
  <2>4. i \in DOMAIN file
    BY <1>1, <2>3
  <2>5. Comes(g[i])
    <3>1. CASE IsOf(file[i], r)
      <4> DEFINE s == g[i - 1]
                 x == Recovered(file[i], r)
      <4>1. g[i] = Append(s, x) /\ IsSeq(s)
        BY <1>4, <2>2, <2>3, <3>1 DEF Line
      <4> HIDE DEF s, x
      <4>2. /\ DOMAIN s = 1..Len(s) /\ Len(s) \in Nat
            /\ DOMAIN g[i] = 1..(Len(s) + 1)
            /\ \A j \in 1..Len(s) : g[i][j] = s[j]
            /\ g[i][Len(s) + 1] = x
        BY <4>1, AppendIsSeq
      <4>3. ASSUME NEW j \in DOMAIN g[i]
            PROVE  \E l \in DOMAIN file :
                     IsOf(file[l], r) /\ g[i][j] = Recovered(file[l], r)
        <5>1. CASE j = Len(s) + 1
          BY <2>4, <3>1, <4>2, <5>1 DEF x
        <5>2. CASE j \in 1..Len(s)
          BY <2>3, <4>2, <5>2 DEF s
        <5> QED BY <4>2, <5>1, <5>2
      <4> QED BY <4>3
    <3>2. CASE ~ IsOf(file[i], r)
      BY <2>2, <2>3, <3>2 DEF Line
    <3> QED BY <3>1, <3>2
  <2> QED BY <2>5
<1>6. n \in 0..n
  BY <1>1
<1> QED BY <1>3, <1>5, <1>6

(* What the parser keeps is a message of the line's day. *)
LEMMA ParsedDay ==
  ASSUME NEW x, Parsed(x) # Corrupt
  PROVE  \E type, sender, content, extra, room :
           Parsed(x) = Message(type, x.line.day, sender, content, extra, room)
<1> DEFINE d == x.line.day
           Is(m) == \E type, sender, content, extra, room :
                      m = Message(type, d, sender, content, extra, room)
<1> HIDE DEF d
<1>1. ASSUME NEW keyword, NEW p, NEW room
      PROVE  LET m == ParsePayload(keyword, p, d, room) IN
             m = Corrupt \/ Is(m)
  <2>1. ParseChat(p, d, room) = Corrupt \/ Is(ParseChat(p, d, room))
    BY DEF ParseChat
  <2>2. Is(ParseJoin(p, d, room))
    BY DEF ParseJoin
  <2>3. Is(ParseLeave(p, d, room))
    BY DEF ParseLeave
  <2>4. ParseNameChange(p, d, room) = Corrupt \/ Is(ParseNameChange(p, d, room))
    BY DEF ParseNameChange
  <2>5. ParseAnnouncement(p, d, room) = Corrupt
          \/ Is(ParseAnnouncement(p, d, room))
    BY DEF ParseAnnouncement
  <2>6. ParseModeration(p, d, room) = Corrupt \/ Is(ParseModeration(p, d, room))
    BY DEF ParseModeration
  <2>7. Is(Message("SERVER", d, Empty, p, Empty, Empty))
    OBVIOUS
  <2> HIDE DEF Is
  <2> QED BY <2>1, <2>2, <2>3, <2>4, <2>5, <2>6, <2>7 DEF ParsePayload
<1>2. Is(Parsed(x))
  <2> HIDE DEF Is
  <2> QED BY <1>1 DEF Parsed, ParseLogLine, d
<1> QED BY <1>2 DEF d

LEMMA RecoveredKeeps ==
  ASSUME NEW x, NEW r, NEW d, IsLineOf(x, d), IsOf(x, r)
  PROVE  LET e == Recovered(x, r) IN e.id \in 1..count /\ e.msg.day = d
<1>1. PICK type, sender, content, extra, room :
        Parsed(x) = Message(type, d, sender, content, extra, room)
  BY ParsedDay DEF IsOf, Kept, IsLineOf
<1> DEFINE m == [Parsed(x) EXCEPT !.room = TextOf[r]]
<1>2. m.day = d
  BY <1>1 DEF Message
<1> HIDE DEF m
<1>3. Recovered(x, r) = [x.of EXCEPT !.msg = m]
  BY DEF Recovered, m
<1>4. x.of.id \in 1..count /\ {"id", "by", "in", "msg"} \subseteq DOMAIN x.of
  BY DEF IsLineOf, IsOf
<1> QED BY <1>2, <1>3, <1>4

-----------------------------------------------------------------------------
(* What one step does to one part of the state.                            *)

(* The event that an actor begins with. *)
IsNew(e, a) ==
  /\ e.id = count + 1 /\ e.by = a /\ e.msg.day = today /\ e.in \in RoomKeys

(* An actor stays where he is, leaves his event alone; or he is through    *)
(* with it; or he begins a new one; or he goes on with his own.            *)
LEMMA ComposeMoves ==
  ASSUME HistoryInv, NEW a \in Actors, NEW k \in RoomKeys, NEW type,
         NEW sender, NEW content, NEW extra,
         Compose(a, k, type, sender, content, extra)
  PROVE  /\ pc' = [pc EXCEPT ![a] = "add"] /\ pc'[a] = "add"
         /\ IsNew(event'[a], a)
         /\ event'[a].in = k
         /\ event'[a].msg = Message(type, today, sender, content, extra, TextOf[k])
         /\ \A b \in Actors \ {a} : pc'[b] = pc[b] /\ event'[b] = event[b]
         /\ DOMAIN event' = Actors
         /\ count' = count + 1 /\ count' \in 0..MaxEvents
         /\ phase # "down" /\ UNCHANGED <<phase, starts, today, reset, rooms,
                                         history, log, curDate, added>>
<1> DEFINE new == [id |-> count + 1, by |-> a, in |-> k,
                   msg |-> Message(type, today, sender, content, extra,
                                   TextOf[k])]
<1>1. /\ phase # "down" /\ count' = count + 1 /\ count \in Nat /\ count < MaxEvents
      /\ pc' = [pc EXCEPT ![a] = "add"] /\ event' = [event EXCEPT ![a] = new]
      /\ DOMAIN event = Actors /\ DOMAIN pc = Actors
      /\ UNCHANGED <<phase, starts, today, reset, rooms, history, log, curDate,
                     added>>
  BY DEF HistoryInv, Compose, Types, process, clock, memory, disk
<1>2. /\ new.id = count + 1 /\ new.by = a /\ new.in = k
      /\ new.msg = Message(type, today, sender, content, extra, TextOf[k])
      /\ new.msg.day = today
  BY DEF Message
<1> HIDE DEF new
<1>3. /\ event'[a] = new /\ pc'[a] = "add"
      /\ \A b \in Actors \ {a} : pc'[b] = pc[b] /\ event'[b] = event[b]
      /\ DOMAIN event' = Actors
  BY <1>1
<1>4. IsNew(event'[a], a)
  BY <1>2, <1>3 DEF IsNew
<1>5. count' \in 0..MaxEvents
  BY <1>1, HistoryAssumption DEF HistoryAssumption
<1> QED BY <1>1, <1>2, <1>3, <1>4, <1>5

(* The operator begins an announcement. *)
LEMMA AnnounceMoves ==
  ASSUME HistoryInv, NEW line \in Lines, Announce(line)
  PROVE  /\ pc[Operator] = "op" /\ pc' = [pc EXCEPT ![Operator] = "next"]
         /\ pc'[Operator] = "next"
         /\ IsNew(event'[Operator], Operator)
         /\ event'[Operator].msg = Message("ANNOUNCE", today, Empty, line,
                                           name[Operator], Empty)
         /\ \A b \in Actors \ {Operator} : pc'[b] = pc[b] /\ event'[b] = event[b]
         /\ DOMAIN event' = Actors
         /\ todo' = rooms
         /\ count' \in 0..MaxEvents /\ count + 1 <= count'
         /\ phase # "down" /\ UNCHANGED <<phase, starts, today, reset, rooms,
              history, log, curDate, name, roomOf, muted, other, screen, added>>
<1> DEFINE new == [id |-> count + 1, by |-> Operator, in |-> NoRoom,
                   msg |-> Message("ANNOUNCE", today, Empty, line,
                                   name[Operator], Empty)]
<1>1. /\ phase = "up" /\ count' = count + Cardinality(rooms)
      /\ count + Cardinality(rooms) <= MaxEvents /\ count \in Nat
      /\ pc[Operator] = "op"
      /\ pc' = [pc EXCEPT ![Operator] = "next"]
      /\ event' = [event EXCEPT ![Operator] = new]
      /\ DOMAIN event = Actors /\ DOMAIN pc = Actors /\ Operator \in Actors
      /\ IsFiniteSet(rooms) /\ DefaultRoom \in rooms /\ todo' = rooms
      /\ UNCHANGED <<phase, starts, today, reset, rooms, history, log, curDate,
                     name, roomOf, muted, other, screen, added>>
  BY DEF HistoryInv, Announce, Types, process, clock, memory, disk, client, Actors
<1>2. /\ new.id = count + 1 /\ new.by = Operator /\ new.in = NoRoom
      /\ new.msg = Message("ANNOUNCE", today, Empty, line, name[Operator], Empty)
      /\ new.msg.day = today
  BY DEF Message
<1> HIDE DEF new
<1>3. /\ event'[Operator] = new /\ pc'[Operator] = "next"
      /\ \A b \in Actors \ {Operator} : pc'[b] = pc[b] /\ event'[b] = event[b]
      /\ DOMAIN event' = Actors
  BY <1>1
<1>4. IsNew(event'[Operator], Operator)
  BY <1>2, <1>3 DEF IsNew, RoomKeys
<1>5. Cardinality(rooms) \in Nat /\ Cardinality(rooms) # 0
  BY <1>1, FS_CardinalityType, FS_EmptySet
<1>6. count' \in 0..MaxEvents /\ count + 1 <= count'
  BY <1>1, <1>5, HistoryAssumption DEF HistoryAssumption
<1> QED BY <1>1, <1>2, <1>3, <1>4, <1>6

(* Who records an event does nothing else before he has shown it. *)
LEMMA UserMoves ==
  ASSUME HistoryInv, NEW u \in Users, UserStep(u)
  PROVE  /\ pc[u] \notin Busy
         /\ u \in Actors
         /\ UNCHANGED <<phase, starts, today, reset, log, curDate, todo, added>>
         /\ \/ /\ pc'[u] \notin Busy
               /\ UNCHANGED <<event, count>>
            \/ \E k \in RoomKeys : \E type, sender, content, extra :
                 Compose(u, k, type, sender, content, extra)
         /\ \A b \in Actors \ {u} : pc'[b] = pc[b] /\ event'[b] = event[b]
<1>1. u \in Actors /\ DOMAIN pc = Actors /\ roomOf[u] \in RoomKeys
  BY DEF Actors, HistoryInv, Types
<1>2. CASE \/ \E r \in Rooms : Switch(u, r)
           \/ \E line \in Lines : Chat(u, line)
           \/ \E n \in NewNames : Rename(u, n)
           \/ Replay(u) \/ Leave(u)
  <2>1. /\ pc[u] \in {"active", "replay"}
        /\ \E type, sender, content, extra :
             Compose(u, roomOf[u], type, sender, content, extra)
        /\ todo' = todo
    BY <1>2 DEF Switch, Chat, Rename, Replay, Leave, Reads
  <2>2. PICK type, sender, content, extra :
          Compose(u, roomOf[u], type, sender, content, extra)
    BY <2>1
  <2>3. /\ UNCHANGED <<phase, starts, today, reset, log, curDate, added>>
        /\ \A b \in Actors \ {u} : pc'[b] = pc[b] /\ event'[b] = event[b]
    BY <1>1, <2>2, ComposeMoves
  <2> QED BY <1>1, <2>1, <2>2, <2>3 DEF Busy
<1>3. CASE Register(u) \/ \E r \in Rooms : JoinFirstRoom(u, r)
  BY <1>1, <1>3 DEF Register, JoinFirstRoom, Busy, process, clock, disk, work,
                    ghosts
<1>4. CASE Move(u) \/ DeleteRoom(u)
  BY <1>1, <1>4 DEF Move, DeleteRoom, Busy, process, clock, disk, ghosts
<1> QED BY <1>2, <1>3, <1>4 DEF UserStep

(* Nothing is recorded: histories may be lost with their rooms, who has    *)
(* shown his event is through with it, and nobody has a new one.           *)
Passes ==
  /\ UNCHANGED <<phase, today, reset, log, count, todo>>
  /\ DOMAIN history' = RoomKeys
  /\ \A k \in RoomKeys : history'[k] = history[k] \/ history'[k] = <<>>
  /\ \A a \in Actors :
       \/ pc'[a] = pc[a] /\ event'[a] = event[a]
       \/ /\ pc[a] \notin {"add", "log"} /\ pc'[a] \notin {"add", "log", "next"}
          /\ pc'[a] \in Busy => pc[a] \in Busy /\ event'[a] = event[a]
          /\ a = Operator /\ pc[a] = "next" => todo = {}

(* An actor begins to record an event. *)
Begins(a) ==
  /\ UNCHANGED <<phase, today, reset, log, history>>
  /\ IsNew(event'[a], a) /\ pc[a] \notin Busy
  /\ \/ pc'[a] = "add" /\ todo' = todo
        /\ event'[a].msg.room = TextOf[event'[a].in]
     \/ a = Operator /\ pc'[a] = "next" /\ todo' = rooms
        /\ event'[a].msg.type = "ANNOUNCE"
  /\ \A b \in Actors \ {a} : pc'[b] = pc[b] /\ event'[b] = event[b]
  /\ count' \in 0..MaxEvents /\ count + 1 <= count'

LEMMA AnnounceBegins ==
  ASSUME HistoryInv, NEW line \in Lines, Announce(line)
  PROVE  Begins(Operator)
<1>1. /\ pc[Operator] = "op" /\ pc'[Operator] = "next" /\ todo' = rooms
      /\ IsNew(event'[Operator], Operator)
      /\ event'[Operator].msg = Message("ANNOUNCE", today, Empty, line,
                                        name[Operator], Empty)
      /\ \A b \in Actors \ {Operator} : pc'[b] = pc[b] /\ event'[b] = event[b]
      /\ count' \in 0..MaxEvents /\ count + 1 <= count'
      /\ UNCHANGED <<phase, today, reset, log, history>>
  BY AnnounceMoves
<1>2. event'[Operator].msg.type = "ANNOUNCE"
  BY <1>1 DEF Message
<1>3. pc[Operator] \notin Busy
  BY <1>1 DEF Busy
<1> QED BY <1>1, <1>2, <1>3 DEF Begins

LEMMA UserSteps ==
  ASSUME HistoryInv, NEW u \in Users, UserStep(u)
  PROVE  Passes \/ Begins(u)
<1>1. /\ pc[u] \notin Busy /\ u \in Actors /\ u # Operator
      /\ UNCHANGED <<phase, starts, today, reset, log, curDate, todo, added>>
      /\ \A b \in Actors \ {u} : pc'[b] = pc[b] /\ event'[b] = event[b]
  BY UserMoves, HistoryAssumption DEF HistoryAssumption
<1>2. CASE \E k \in RoomKeys : \E type, sender, content, extra :
             Compose(u, k, type, sender, content, extra)
  <2>0. PICK k \in RoomKeys : \E type, sender, content, extra :
               Compose(u, k, type, sender, content, extra)
    BY <1>2
  <2>1. PICK type, sender, content, extra :
          Compose(u, k, type, sender, content, extra)
    BY <2>0
  <2>2. /\ pc'[u] = "add" /\ IsNew(event'[u], u) /\ event'[u].in = k
        /\ event'[u].msg = Message(type, today, sender, content, extra, TextOf[k])
        /\ count' = count + 1 /\ count' \in 0..MaxEvents
        /\ UNCHANGED history
    BY <1>1, <2>1, ComposeMoves
  <2>3. event'[u].msg.room = TextOf[event'[u].in]
    BY <2>2 DEF Message
  <2>4. count + 1 <= count'
    BY <2>2
  <2> QED BY <1>1, <2>2, <2>3, <2>4 DEF Begins
<1>3. CASE pc'[u] \notin Busy /\ UNCHANGED <<event, count>>
  <2>1. \/ history' = history
        \/ history' = [history EXCEPT ![other[u]] = <<>>]
    BY DEF UserStep, Register, JoinFirstRoom, Switch, Chat, Rename, Replay, Leave,
           Move, DeleteRoom, Compose, memory
  <2>2. /\ DOMAIN history' = RoomKeys
        /\ \A k \in RoomKeys : history'[k] = history[k] \/ history'[k] = <<>>
    BY <2>1 DEF HistoryInv, Types
  <2>3. \A a \in Actors :
       \/ pc'[a] = pc[a] /\ event'[a] = event[a]
       \/ /\ pc[a] \notin {"add", "log"} /\ pc'[a] \notin {"add", "log", "next"}
          /\ pc'[a] \in Busy => pc[a] \in Busy /\ event'[a] = event[a]
          /\ a = Operator /\ pc[a] = "next" => todo = {}
    BY <1>1, <1>3 DEF Busy
  <2> QED BY <1>1, <1>3, <2>2, <2>3 DEF Passes
<1> QED BY <1>2, <1>3, UserMoves

LEMMA OperatorSteps ==
  ASSUME HistoryInv, OperatorStep
  PROVE  Passes \/ Begins(Operator) \/ \E k \in RoomKeys : NextRoom(k)
<1>1. Operator \in Actors /\ DOMAIN pc = Actors /\ DOMAIN history = RoomKeys
  BY DEF Actors, HistoryInv, Types
<1>2. ASSUME NEW u \in Users, NEW on \in BOOLEAN, SetMuted(u, on)
      PROVE  Begins(Operator)
  <2> DEFINE content == IF on THEN <<"muted">> ELSE <<"unmuted">>
  <2>1. /\ Compose(Operator, roomOf[u], "MOD", name[u], content, name[Operator])
        /\ pc[Operator] = "op" /\ todo' = todo
    BY <1>2 DEF SetMuted
  <2> HIDE DEF content
  <2>2. roomOf[u] \in RoomKeys
    BY DEF HistoryInv, Types
  <2>3. /\ pc'[Operator] = "add" /\ IsNew(event'[Operator], Operator)
        /\ event'[Operator].in = roomOf[u]
        /\ event'[Operator].msg = Message("MOD", today, name[u], content,
                                          name[Operator], TextOf[roomOf[u]])
        /\ \A b \in Actors \ {Operator} : pc'[b] = pc[b] /\ event'[b] = event[b]
        /\ count' = count + 1 /\ count' \in 0..MaxEvents
        /\ UNCHANGED <<phase, today, reset, log, history>>
    BY <1>1, <2>1, <2>2, ComposeMoves
  <2>4. event'[Operator].msg.room = TextOf[event'[Operator].in]
    BY <2>3 DEF Message
  <2>5. count + 1 <= count'
    BY <2>3
  <2> QED BY <2>1, <2>3, <2>4, <2>5 DEF Begins, Busy
<1>3. ASSUME NEW line \in Lines, Announce(line)
      PROVE  Begins(Operator)
  BY <1>3, AnnounceBegins
<1>4. CASE NoMoreRooms
  BY <1>1, <1>4 DEF NoMoreRooms, Passes, Busy, process, clock, memory, disk, work,
                    ghosts
<1> QED BY <1>2, <1>3, <1>4 DEF OperatorStep

LEMMA Steps ==
  ASSUME HistoryInv, [Next]_vars
  PROVE  \/ Start \/ End \/ Farewell \/ CloseLogger \/ Midnight \/ ClearHistory
         \/ Passes
         \/ \E a \in Actors : Begins(a) \/ AddRoomHistory(a) \/ Log(a)
         \/ \E k \in RoomKeys : NextRoom(k)
<1>1. DOMAIN pc = Actors /\ DOMAIN event = Actors /\ DOMAIN history = RoomKeys
  BY DEF HistoryInv, Types
<1>2. CASE UNCHANGED vars
  BY <1>1, <1>2 DEF vars, Passes
<1>3. ASSUME NEW a \in Actors, Broadcast(a)
      PROVE  Passes
  <2>1. AfterCast(a) \notin Busy
    BY DEF AfterCast, Busy
  <2>2. /\ pc[a] = "cast" /\ pc' = [pc EXCEPT ![a] = AfterCast(a)]
        /\ event' = [event EXCEPT ![a] = NoEvent]
        /\ UNCHANGED <<phase, today, reset, log, count, todo, history>>
    BY <1>3 DEF Broadcast, process, clock, disk, memory
  <2> QED BY <1>1, <2>1, <2>2 DEF Passes, Busy
<1>4. ASSUME NEW u \in Users, UserStep(u)
      PROVE  Passes \/ \E a \in Actors : Begins(a)
  BY <1>4, UserSteps DEF Actors
<1>5. CASE OperatorStep
  BY <1>5, OperatorSteps DEF Actors
<1> QED BY <1>2, <1>3, <1>4, <1>5 DEF Next

(* Numbers and rooms. *)
LEMMA WriteLogOpens ==
  ASSUME Bounded, NEW e, e.msg.day \in Days, WriteLog(e)
  PROVE  curDate' \in Days \cup {0}
BY DEF WriteLog, EnsureFile, disk, Bounded

LEMMA HousesKept ==
  ASSUME Housed, UNCHANGED <<history, roomOf>>, rooms \subseteq rooms'
  PROVE  Housed'
BY DEF Housed

LEMMA ProcessBounded ==
  ASSUME HistoryInv, Bounded, Housed,
         \/ Start \/ End \/ Farewell \/ CloseLogger \/ Midnight \/ ClearHistory
         \/ UNCHANGED vars
  PROVE  Bounded' /\ Housed'
<1> USE DEF HistoryInv
<1>1. /\ count \in 0..MaxEvents /\ starts \in 0..MaxStarts /\ today \in Days
      /\ reset \in Days /\ reset <= today /\ curDate \in Days \cup {0}
      /\ DefaultRoom \in Rooms /\ NoRoom \notin Rooms
      /\ MaxStarts \in Nat /\ LastDay \in Nat
  BY HistoryAssumption DEF HistoryAssumption, Bounded, Types
<1>2. CASE Start
  <2>1. /\ phase = "down" /\ starts < MaxStarts /\ phase' = "up"
        /\ starts' = starts + 1 /\ reset' = today /\ today' = today
        /\ WriteLog(ServerEvent("started"))
        /\ history' = [k \in RoomKeys |->
             IF k = NoRoom THEN <<>> ELSE RecoverHistory(log'[today], k)]
        /\ rooms' = {DefaultRoom} \cup {k \in Rooms : history'[k] # <<>>}
        /\ UNCHANGED <<roomOf, muted, event, todo, screen, count>>
    BY <1>2 DEF Start, client, work, ghosts
  <2>2. curDate' \in Days \cup {0}
    BY <1>1, <2>1, WriteLogOpens, ServerEventDay
  <2>3. rooms' \subseteq RoomKeys
    BY <1>1, <2>1 DEF RoomKeys
  <2>4. starts' \in 0..MaxStarts
    BY <1>1, <2>1
  <2>5. Bounded'
    <3>1. reset' \in Days /\ reset' <= today'
      BY <1>1, <2>1 DEF Days
    <3>2. UNCHANGED <<muted, event, todo, screen, count>> /\ phase' = "up"
      BY <2>1
    <3> QED BY <2>2, <2>3, <2>4, <3>1, <3>2 DEF Bounded
  <2>6. ASSUME NEW k \in RoomKeys \ rooms'
        PROVE  history'[k] = <<>> /\ \A u \in Users : roomOf'[u] = k => k = NoRoom
    <3>1. history'[NoRoom] = <<>>
      BY <2>1 DEF RoomKeys
    <3>2. k = NoRoom \/ history'[k] = <<>>
      BY <2>1, <2>6 DEF RoomKeys
    <3>3. \A u \in Users : roomOf'[u] = NoRoom
      BY <2>1 DEF Bounded
    <3> QED BY <3>1, <3>2, <3>3
  <2>7. Housed'
    BY <2>6 DEF Housed
  <2> QED BY <2>5, <2>7
<1>3. CASE End
  <2>1. /\ curDate' = 0 /\ rooms' = {} /\ history' = [k \in RoomKeys |-> <<>>]
        /\ roomOf' = [u \in Users |-> NoRoom] /\ muted' = {}
        /\ event' = [a \in Actors |-> NoEvent] /\ todo' = {}
        /\ screen' = [u \in Users |-> {}]
        /\ UNCHANGED <<starts, today, reset, count>>
    BY <1>3 DEF End, clock
  <2>2. Bounded'
    BY <1>1, <2>1 DEF Bounded, NoEvent, RoomKeys
  <2>3. Housed'
    BY <2>1 DEF Housed
  <2> QED BY <2>2, <2>3
<1>4. CASE Farewell \/ CloseLogger
  <2>1. /\ phase' # "down"
        /\ UNCHANGED <<starts, today, reset, rooms, history, roomOf, muted, todo,
                       event, screen, count>>
        /\ WriteLog(ServerEvent("farewell")) \/ curDate' = 0
    BY <1>4 DEF Farewell, CloseLogger, clock, memory, client, work, ghosts
  <2>2. curDate' \in Days \cup {0}
    BY <1>1, <2>1, WriteLogOpens, ServerEventDay
  <2>3. Bounded' /\ Housed'
    BY <2>1, <2>2, HousesKept DEF Bounded
  <2> QED BY <2>3
<1>5. CASE Midnight \/ ClearHistory \/ UNCHANGED vars
  <2>1. /\ UNCHANGED <<phase, starts, rooms, curDate, roomOf, muted, todo, event,
                       screen, count>>
        /\ reset' \in Days /\ reset' <= today'
    BY <1>1, <1>5 DEF Midnight, ClearHistory, vars, process, memory, disk, client,
                      work, ghosts, Days
  <2>2. history' = history \/ history' = [k \in RoomKeys |-> <<>>]
    BY <1>5 DEF Midnight, ClearHistory, vars, memory
  <2>3. Bounded'
    BY <2>1 DEF Bounded
  <2>4. Housed'
    BY <2>1, <2>2 DEF Housed
  <2> QED BY <2>3, <2>4
<1> QED BY <1>2, <1>3, <1>4, <1>5

LEMMA RecordBounded ==
  ASSUME HistoryInv, Bounded, Housed, NEW a \in Actors,
         AddRoomHistory(a) \/ Log(a) \/ Broadcast(a)
  PROVE  Bounded' /\ Housed'
<1> USE DEF HistoryInv
<1>1. /\ count \in Nat /\ DOMAIN history = RoomKeys /\ DOMAIN event = Actors
      /\ event[a].in \in RoomKeys /\ pc[a] \in Busy
  BY DEF Bounded, Types, AddRoomHistory, Log, Broadcast, Busy
<1>2. event[a].msg.day \in Days /\ event[a].id \in 1..count
  BY <1>1 DEF Working, IsEvent
<1>3. CASE AddRoomHistory(a)
  <2>1. /\ rooms' = rooms \cup {event[a].in}
        /\ history' = [history EXCEPT ![event[a].in] = Append(@, event[a])]
        /\ UNCHANGED <<phase, starts, today, reset, curDate, roomOf, muted, event,
                       todo, screen, count>>
    BY <1>3 DEF AddRoomHistory, process, clock, disk, client, work
  <2>2. Bounded'
    BY <1>1, <2>1 DEF Bounded
  <2>3. \A k \in RoomKeys \ rooms' : history'[k] = history[k]
    BY <1>1, <2>1
  <2>4. Housed'
    BY <2>1, <2>3 DEF Housed
  <2> QED BY <2>2, <2>4
<1>4. CASE Log(a)
  <2>1. /\ WriteLog(event[a])
        /\ UNCHANGED <<phase, starts, today, reset, rooms, history, roomOf, muted,
                       event, todo, screen, count>>
    BY <1>4 DEF Log, process, clock, memory, client, work, ghosts
  <2>2. curDate' \in Days \cup {0}
    BY <1>2, <2>1, WriteLogOpens
  <2> QED BY <2>1, <2>2, HousesKept DEF Bounded
<1>5. CASE Broadcast(a)
  <2>1. /\ screen' = [u \in Users |-> IF u \in Audience(a)
                        THEN screen[u] \cup {event[a].id} ELSE screen[u]]
        /\ event' = [event EXCEPT ![a] = NoEvent]
        /\ UNCHANGED <<phase, starts, today, reset, rooms, history, curDate,
                       roomOf, muted, todo, count>>
    BY <1>5 DEF Broadcast, process, clock, memory, disk, client
  <2>2. \A b \in Actors : event'[b].in \in RoomKeys
    BY <1>1, <2>1 DEF Bounded, NoEvent, RoomKeys
  <2>3. \A u \in Users : screen'[u] \subseteq 1..count'
    BY <1>2, <2>1 DEF Bounded
  <2> QED BY <2>1, <2>2, <2>3, HousesKept DEF Bounded
<1> QED BY <1>3, <1>4, <1>5

LEMMA UserBounded ==
  ASSUME HistoryInv, Bounded, Housed, Remembered, NEW u \in Users, UserStep(u)
  PROVE  Bounded' /\ Housed'
<1> USE DEF HistoryInv
<1>1. /\ count \in Nat /\ DOMAIN history = RoomKeys /\ DOMAIN event = Actors
      /\ DOMAIN screen = Users /\ roomOf \in [Users -> RoomKeys]
      /\ other \in [Users -> RoomKeys] /\ u \in Actors /\ u # Operator
      /\ Rooms \subseteq RoomKeys /\ roomOf[u] \in RoomKeys
  BY HistoryAssumption DEF HistoryAssumption, Types, Actors, RoomKeys
<1>2. /\ pc[u] \notin Busy
      /\ UNCHANGED <<phase, starts, today, reset, curDate, todo>>
      /\ \A b \in Actors \ {u} : event'[b] = event[b]
  BY UserMoves
<1>3. phase # "down"
  <2>1. phase = "down" => pc[u] \in {"op", "out"}
    BY <1>1 DEF Down
  <2>2. \A k, type, sender, content, extra :
          Compose(u, k, type, sender, content, extra) => phase # "down"
    BY DEF Compose
  <2> QED BY <2>1, <2>2 DEF UserStep, Register, JoinFirstRoom, Switch, Chat,
                            Rename, Replay, Move, Leave, DeleteRoom, Reads
<1>4. /\ \A b \in Actors : event'[b].in \in RoomKeys
      /\ count' \in 0..MaxEvents /\ count <= count'
  <2>1. CASE event' = event /\ count' = count
    BY <2>1 DEF Bounded
  <2>2. ASSUME NEW k \in RoomKeys, NEW type, NEW sender, NEW content, NEW extra,
               Compose(u, k, type, sender, content, extra)
        PROVE  /\ \A b \in Actors : event'[b].in \in RoomKeys
               /\ count' \in 0..MaxEvents /\ count <= count'
    <3>1. /\ IsNew(event'[u], u) /\ count' = count + 1 /\ count' \in 0..MaxEvents
      BY <1>1, <2>2, ComposeMoves
    <3> QED BY <1>1, <1>2, <3>1 DEF Bounded, IsNew
  <2> QED BY <2>1, <2>2, UserMoves
<1>5. \A v \in Users : screen'[v] \subseteq 1..count'
  <2>1. 1..count \subseteq 1..count'
    BY <1>1, <1>4
  <2>2. CASE Replay(u)
    <3>1. screen' = [screen EXCEPT ![u] = @ \cup
             {history[roomOf[u]][i].id : i \in DOMAIN history[roomOf[u]]}]
      BY <2>2 DEF Replay
    <3>2. {history[roomOf[u]][i].id : i \in DOMAIN history[roomOf[u]]}
            \subseteq 1..count
      BY <1>1 DEF Remembered
    <3> QED BY <1>1, <2>1, <3>1, <3>2 DEF Bounded
  <2>3. CASE ~ Replay(u)
    <3>1. screen' = screen \/ screen' = [screen EXCEPT ![u] = {}]
      BY <2>3 DEF UserStep, Register, JoinFirstRoom, Switch, Chat, Rename, Move,
                  Leave, DeleteRoom, client, ghosts
    <3> QED BY <1>1, <2>1, <3>1 DEF Bounded
  <2> QED BY <2>2, <2>3
<1>6. muted' \subseteq Users
  <2>1. muted' = muted \/ muted' = muted \ {u}
    BY DEF UserStep, Register, JoinFirstRoom, Switch, Chat, Rename, Replay, Move,
           Leave, DeleteRoom, client
  <2> QED BY <2>1 DEF Bounded
<1>7. rooms' \subseteq RoomKeys /\ Housed'
  <2>1. CASE \/ \E r \in Rooms : Switch(u, r)
             \/ \E line \in Lines : Chat(u, line)
             \/ \E n \in NewNames : Rename(u, n)
             \/ Replay(u) \/ Register(u)
    <3>1. UNCHANGED <<rooms, history, roomOf>>
      BY <2>1 DEF Switch, Chat, Rename, Replay, Register, Compose, memory, client
    <3> QED BY <3>1, HousesKept DEF Bounded
  <2>2. CASE Leave(u)
    <3>1. /\ UNCHANGED <<rooms, history>>
          /\ roomOf' = [roomOf EXCEPT ![u] = NoRoom]
      BY <2>2 DEF Leave, Compose, memory
    <3> QED BY <1>1, <3>1 DEF Bounded, Housed
  <2>3. CASE Move(u) \/ \E r \in Rooms : JoinFirstRoom(u, r)
    <3>1. PICK r \in RoomKeys :
            /\ roomOf' = [roomOf EXCEPT ![u] = r] /\ rooms' = rooms \cup {r}
            /\ UNCHANGED history
      BY <1>1, <2>3 DEF Move, JoinFirstRoom
    <3> QED BY <1>1, <3>1 DEF Bounded, Housed
  <2>4. CASE DeleteRoom(u)
    <3>1. /\ UNCHANGED roomOf /\ other[u] \in RoomKeys
          /\ \/ UNCHANGED <<rooms, history>>
             \/ /\ \A v \in Users : roomOf[v] # other[u]
                /\ rooms' = rooms \ {other[u]}
                /\ history' = [history EXCEPT ![other[u]] = <<>>]
      BY <1>1, <2>4 DEF DeleteRoom, memory
    <3> QED BY <1>1, <3>1 DEF Bounded, Housed
  <2> QED BY <2>1, <2>2, <2>3, <2>4 DEF UserStep
<1>8. starts' \in 0..MaxStarts /\ todo' \subseteq RoomKeys /\ reset' \in Days
      /\ reset' <= today' /\ curDate' \in Days \cup {0}
  BY <1>2 DEF Bounded
<1> QED BY <1>2, <1>3, <1>4, <1>5, <1>6, <1>7, <1>8 DEF Bounded

LEMMA OperatorBounded ==
  ASSUME HistoryInv, Bounded, Housed, OperatorStep
  PROVE  Bounded' /\ Housed'
<1> USE DEF HistoryInv
<1>1. /\ count \in Nat /\ DOMAIN event = Actors /\ Operator \in Actors
      /\ roomOf \in [Users -> RoomKeys]
  BY DEF Types, Actors
<1>2. UNCHANGED <<phase, starts, today, reset, curDate, rooms, history, roomOf,
                  screen>>
  BY DEF OperatorStep, SetMuted, Announce, NextRoom, NoMoreRooms, Compose, process,
         clock, disk, memory, client, work, ghosts
<1>3. /\ \A b \in Actors : event'[b].in \in RoomKeys
      /\ count' \in 0..MaxEvents /\ count <= count'
      /\ todo' \subseteq RoomKeys
  <2>1. CASE \E k \in RoomKeys : NextRoom(k)
    <3>1. PICK k \in RoomKeys :
            /\ event' = [event EXCEPT ![Operator] = Stamped(event[Operator], k)]
            /\ count' = count /\ todo' = todo \ {k}
      BY <2>1 DEF NextRoom, ghosts
    <3>2. Stamped(event[Operator], k).in = k \/ "in" \notin DOMAIN event[Operator]
      BY DEF Stamped
    <3>3. "in" \in DOMAIN event[Operator]
      BY <1>1, <2>1 DEF NextRoom, Working, IsEvent, Busy
    <3> QED BY <1>1, <3>1, <3>2, <3>3 DEF Bounded
  <2>2. CASE NoMoreRooms
    BY <1>1, <2>2 DEF NoMoreRooms, Bounded, work, ghosts
  <2>3. CASE Begins(Operator)
    <3>1. todo' = todo \/ todo' = rooms
      BY <2>3 DEF Begins
    <3> QED BY <1>1, <2>3, <3>1 DEF Begins, IsNew, Bounded
  <2>4. CASE Passes /\ ~ NoMoreRooms
    <3>1. ASSUME NEW line \in Lines, Announce(line)
          PROVE  Begins(Operator)
      BY <3>1, AnnounceBegins
    <3>2. ASSUME NEW u \in Users, NEW on \in BOOLEAN, SetMuted(u, on)
          PROVE  count' # count
      BY <1>1, <3>2 DEF SetMuted, Compose
    <3>3. count' = count
      BY <2>4 DEF Passes
    <3> QED BY <2>1, <2>3, <2>4, <3>1, <3>2, <3>3 DEF OperatorStep
  <2> QED BY <2>1, <2>2, <2>3, <2>4, OperatorSteps
<1>4. muted' \subseteq Users
  <2>1. ASSUME NEW u \in Users, NEW on \in BOOLEAN, SetMuted(u, on)
        PROVE  muted' \subseteq Users
    BY <2>1 DEF SetMuted, Bounded
  <2>2. CASE ~ \E u \in Users, on \in BOOLEAN : SetMuted(u, on)
    BY <2>2 DEF OperatorStep, Announce, NextRoom, NoMoreRooms, client, Bounded
  <2> QED BY <2>1, <2>2
<1>5. Bounded'
  <2>1. 1..count \subseteq 1..count'
    BY <1>1, <1>3
  <2> QED BY <1>2, <1>3, <1>4, <2>1 DEF Bounded
<1>6. Housed'
  BY <1>2, HousesKept
<1> QED BY <1>5, <1>6

LEMMA BoundedKeeps ==
  ASSUME HistoryInv, Bounded, Housed, Remembered, [Next]_vars
  PROVE  Bounded' /\ Housed'
BY ProcessBounded, RecordBounded, UserBounded, OperatorBounded DEF Next

(* The line of an event. *)
Lined(e) == [line |-> FormatLogLine(e.msg), of |-> e]

LEMMA WriteLogLines ==
  ASSUME Types, NEW e, e.msg.day \in Days, WriteLog(e)
  PROVE  /\ DOMAIN log' = Days /\ \A d \in Days : IsSeq(log'[d])
         /\ \A d \in Days : \/ log'[d] = log[d]
                            \/ /\ phase # "closed" /\ d = e.msg.day
                               /\ log'[d] = Append(log[d], Lined(e))
         /\ \A d \in Days : \A i \in DOMAIN log'[d] :
              \/ i \in DOMAIN log[d] /\ log'[d][i] = log[d][i]
              \/ d = e.msg.day /\ log'[d][i] = Lined(e)
<1>1. /\ DOMAIN log' = Days /\ \A d \in Days : IsSeq(log'[d])
  BY WriteLogKeeps
<1>2. \A d \in Days : \/ log'[d] = log[d]
                      \/ /\ phase # "closed" /\ d = e.msg.day
                         /\ log'[d] = Append(log[d], Lined(e))
  BY DEF WriteLog, EnsureFile, Types, disk, Lined
<1>3. ASSUME NEW d \in Days, NEW i \in DOMAIN log'[d]
      PROVE  \/ i \in DOMAIN log[d] /\ log'[d][i] = log[d][i]
             \/ d = e.msg.day /\ log'[d][i] = Lined(e)
  <2>1. CASE log'[d] = log[d]
    BY <1>3, <2>1
  <2>2. CASE d = e.msg.day /\ log'[d] = Append(log[d], Lined(e))
    <3> DEFINE n == Len(log[d])
    <3>1. /\ DOMAIN log[d] = 1..n /\ n \in Nat
          /\ DOMAIN log'[d] = 1..(n + 1)
          /\ \A j \in 1..n : log'[d][j] = log[d][j]
          /\ log'[d][n + 1] = Lined(e)
      BY <2>2, AppendIsSeq DEF Types
    <3> HIDE DEF n
    <3>2. i \in 1..n \/ i = n + 1
      BY <1>3, <3>1
    <3> QED BY <2>2, <3>1, <3>2
  <2> QED BY <1>2, <2>1, <2>2
<1> QED BY <1>1, <1>2, <1>3

(* What the log holds. *)
LEMMA LinedIsLine ==
  ASSUME NEW e, IsEvent(e), Kept(Parsed(Lined(e))) => e.id \in 1..count
  PROVE  IsLineOf(Lined(e), e.msg.day)
<1>1. Lined(e).of = e /\ Lined(e).line.day = e.msg.day
  BY DEF Lined, FormatLogLine
<1> QED BY <1>1 DEF IsLineOf, IsEvent

LEMMA ServerEventIsEvent ==
  ASSUME NEW word, today \in Days
  PROVE  IsEvent(ServerEvent(word))
<1> DEFINE m == Message("SERVER", today, Empty, <<word>>, Empty, Empty)
<1>1. m.day = today /\ {"day", "room"} \subseteq DOMAIN m
  BY DEF Message
<1> HIDE DEF m
<1>2. ServerEvent(word) = [id |-> 0, by |-> Operator, in |-> NoRoom, msg |-> m]
  BY DEF ServerEvent, NoEvent, m
<1> QED BY <1>1, <1>2 DEF IsEvent

LEMMA WriteLogDated ==
  ASSUME Types, Dated, count' \in Nat, count <= count', NEW e, WriteLog(e),
         IsEvent(e), Kept(Parsed(Lined(e))) => e.id \in 1..count
  PROVE  Dated'
<1>1. count \in Nat /\ e.msg.day \in Days
  BY DEF Types, IsEvent
<1>3. IsLineOf(Lined(e), e.msg.day)
  BY LinedIsLine
<1>4. \A d \in Days : \A i \in DOMAIN log'[d] :
        \/ i \in DOMAIN log[d] /\ log'[d][i] = log[d][i]
        \/ d = e.msg.day /\ log'[d][i] = Lined(e)
  BY <1>1, WriteLogLines
<1>2. ASSUME NEW d \in Days, NEW i \in DOMAIN log'[d]
      PROVE  IsLineOf(log[d][i], d)'
  <2>1. \/ i \in DOMAIN log[d] /\ log'[d][i] = log[d][i]
        \/ d = e.msg.day /\ log'[d][i] = Lined(e)
    BY <1>4
  <2>2. IsLineOf(log'[d][i], d)
    BY <1>3, <2>1 DEF Dated
  <2> QED BY <1>1, <2>2 DEF IsLineOf
<1> QED BY <1>2 DEF Dated

LEMMA ServerLineDated ==
  ASSUME Types, Dated, UNCHANGED count, NEW word, word # Blank,
         WriteLog(ServerEvent(word))
  PROVE  Dated'
<1>1. ~ Kept(Parsed(Lined(ServerEvent(word))))
  BY ServerLineIsSkipped DEF Lined
<1>2. IsEvent(ServerEvent(word))
  BY ServerEventIsEvent DEF Types
<1>3. count' \in Nat /\ count <= count'
  BY DEF Types
<1> QED BY <1>1, <1>2, <1>3, WriteLogDated

LEMMA DatedKeeps ==
  ASSUME HistoryInv, Dated, [Next]_vars
  PROVE  Dated'
<1> USE DEF HistoryInv
<1>1. count \in Nat /\ "started" # Blank /\ "farewell" # Blank
  BY DEF Types, Blank
<1>2. ASSUME log' = log, count' \in Nat, count <= count'
      PROVE  Dated'
  BY <1>1, <1>2 DEF Dated, IsLineOf
<1>3. CASE Start
  <2>1. WriteLog(ServerEvent("started")) /\ UNCHANGED count
    BY <1>3 DEF Start, ghosts
  <2> QED BY <1>1, <2>1, ServerLineDated
<1>4. CASE Farewell
  <2>1. WriteLog(ServerEvent("farewell")) /\ UNCHANGED count
    BY <1>4 DEF Farewell, ghosts
  <2> QED BY <1>1, <2>1, ServerLineDated
<1>5. ASSUME NEW a \in Actors, Log(a)
      PROVE  Dated'
  <2>1. WriteLog(event[a]) /\ UNCHANGED count /\ pc[a] \in Busy
    BY <1>5 DEF Log, ghosts, Busy
  <2>2. IsEvent(event[a]) /\ event[a].id \in 1..count
    BY <2>1 DEF Working
  <2>3. count' \in Nat /\ count <= count'
    BY <1>1, <2>1
  <2> QED BY <2>1, <2>2, <2>3, WriteLogDated
<1>6. CASE \/ End \/ CloseLogger \/ Midnight \/ ClearHistory \/ Passes
           \/ (\E a \in Actors : AddRoomHistory(a))
           \/ (\E k \in RoomKeys : NextRoom(k))
  <2>1. UNCHANGED <<log, count>>
    BY <1>6 DEF End, CloseLogger, Midnight, ClearHistory, Passes, AddRoomHistory,
                NextRoom, disk, ghosts
  <2> QED BY <1>1, <1>2, <2>1
<1>7. ASSUME NEW a \in Actors, Begins(a)
      PROVE  Dated'
  <2>1. log' = log /\ count' \in Nat /\ count <= count'
    BY <1>1, <1>7, HistoryAssumption DEF HistoryAssumption, Begins
  <2> QED BY <1>2, <2>1
<1> QED BY <1>3, <1>4, <1>5, <1>6, <1>7, Steps

-----------------------------------------------------------------------------
(* What the histories hold. *)

(* After a start: what is read back, of the day. *)
LEMMA StartMoves ==
  ASSUME HistoryInv, Dated, Start
  PROVE  /\ \A k \in RoomKeys : \A i \in DOMAIN history'[k] :
              history'[k][i].id \in 1..count /\ history'[k][i].msg.day = today
         /\ \A a \in Actors : pc'[a] = pc[a] /\ pc[a] \notin Busy
         /\ UNCHANGED <<today, count>>
<1> USE DEF HistoryInv
<1>1. /\ WriteLog(ServerEvent("started")) /\ phase = "down"
      /\ history' = [k \in RoomKeys |->
             IF k = NoRoom THEN <<>> ELSE RecoverHistory(log'[today], k)]
      /\ UNCHANGED <<today, pc, count>>
      /\ today \in Days
  BY DEF Start, work, ghosts, Types
<1>2. Dated' /\ IsSeq(log'[today])
  <2>1. "started" # Blank
    BY DEF Blank
  <2>2. Dated'
    BY <1>1, <2>1, ServerLineDated
  <2>3. IsSeq(log'[today])
    BY <1>1, WriteLogKeeps, ServerEventDay
  <2> QED BY <2>2, <2>3
<1>3. ASSUME NEW k \in RoomKeys, NEW i \in DOMAIN history'[k]
      PROVE  history'[k][i].id \in 1..count /\ history'[k][i].msg.day = today
  <2>1. CASE k = NoRoom
    <3>1. history'[k] = <<>>
      BY <1>1, <2>1
    <3> QED BY <1>3, <3>1, EmptyIsSeq
  <2>2. CASE k # NoRoom
    <3>1. history'[k] = RecoverHistory(log'[today], k)
      BY <1>1, <2>2
    <3> DEFINE file == log'[today]
    <3>4. IsSeq(file)
      BY <1>2
    <3>5. Dated'
      BY <1>2
    <3>6. \A j \in DOMAIN file : IsLineOf(file[j], today)
      <4>1. \A j \in DOMAIN log'[today'] : IsLineOf(log[today][j], today)'
        BY <1>1, <3>5 DEF Dated
      <4> QED BY <1>1, <4>1 DEF IsLineOf
    <3> HIDE DEF file
    <3>2. PICK j \in DOMAIN file : /\ IsOf(file[j], k)
                                   /\ history'[k][i] = Recovered(file[j], k)
      <4>1. history'[k] = RecoverHistory(file, k)
        BY <3>1 DEF file
      <4> QED BY <1>3, <3>4, <4>1, RecoveredFrom
    <3>3. IsLineOf(file[j], today)
      BY <3>2, <3>6
    <3> QED BY <3>2, <3>3, RecoveredKeeps
  <2> QED BY <2>1, <2>2
<1>4. \A a \in Actors : pc'[a] = pc[a] /\ pc[a] \notin Busy
  BY <1>1 DEF Down, Busy
<1> QED BY <1>1, <1>3, <1>4

(* One entry more. *)
LEMMA AddMoves ==
  ASSUME HistoryInv, NEW a \in Actors, AddRoomHistory(a)
  PROVE  LET r == event[a].in
             n == Len(history[r]) IN
         /\ pc[a] = "add" /\ pc'[a] = "log" /\ r \in RoomKeys
         /\ \A b \in Actors \ {a} : pc'[b] = pc[b]
         /\ UNCHANGED <<event, phase, today, reset, count, log, todo>>
         /\ DOMAIN history' = RoomKeys
         /\ \A k \in RoomKeys \ {r} : history'[k] = history[k]
         /\ n \in Nat /\ DOMAIN history[r] = 1..n /\ DOMAIN history'[r] = 1..(n + 1)
         /\ \A i \in 1..n : history'[r][i] = history[r][i]
         /\ history'[r][n + 1] = event[a]
<1> USE DEF HistoryInv
<1> DEFINE e == event[a]
           r == e.in
           n == Len(history[r])
<1>1. /\ pc[a] = "add" /\ pc' = [pc EXCEPT ![a] = "log"]
      /\ history' = [history EXCEPT ![r] = Append(history[r], e)]
      /\ UNCHANGED <<event, phase, today, reset, count, log, todo>>
      /\ DOMAIN pc = Actors /\ DOMAIN history = RoomKeys
  BY DEF AddRoomHistory, process, clock, disk, work, Types
<1>2. r \in RoomKeys
  BY <1>1 DEF Working, Busy
<1> HIDE DEF e, r
<1>3. /\ IsSeq(history[r]) /\ history'[r] = Append(history[r], e)
      /\ DOMAIN history' = RoomKeys
      /\ \A k \in RoomKeys \ {r} : history'[k] = history[k]
      /\ pc'[a] = "log" /\ \A b \in Actors \ {a} : pc'[b] = pc[b]
  BY <1>1, <1>2 DEF Types
<1>4. /\ n \in Nat /\ DOMAIN history[r] = 1..n /\ DOMAIN history'[r] = 1..(n + 1)
      /\ \A i \in 1..n : history'[r][i] = history[r][i]
      /\ history'[r][n + 1] = e
  BY <1>3, AppendIsSeq
<1> QED BY <1>1, <1>2, <1>3, <1>4 DEF e, r

(* An entry is an old one, or the event that is added. *)
LEMMA AddEntries ==
  ASSUME HistoryInv, NEW a \in Actors, AddRoomHistory(a)
  PROVE  LET r == event[a].in
             n == Len(history[r]) IN
         \A k \in RoomKeys : \A i \in DOMAIN history'[k] :
           \/ i \in DOMAIN history[k] /\ history'[k][i] = history[k][i]
           \/ k = r /\ i = n + 1 /\ history'[k][i] = event[a]
<1> DEFINE r == event[a].in
           n == Len(history[r])
<1>1. /\ \A k \in RoomKeys \ {r} : history'[k] = history[k]
      /\ n \in Nat /\ DOMAIN history[r] = 1..n /\ DOMAIN history'[r] = 1..(n + 1)
      /\ \A i \in 1..n : history'[r][i] = history[r][i]
      /\ history'[r][n + 1] = event[a]
  BY AddMoves
<1> HIDE DEF n
<1>2. \A i \in 1..(n + 1) : i \in 1..n \/ i = n + 1
  BY <1>1
<1> HIDE DEF r
<1> QED BY <1>1, <1>2 DEF r, n

LEMMA RememberedKeeps ==
  ASSUME HistoryInv, Dated, Remembered, [Next]_vars
  PROVE  Remembered'
<1>1. count \in Nat
  BY DEF HistoryInv, Types
<1>2. ASSUME \A k \in RoomKeys : history'[k] = history[k] \/ history'[k] = <<>>,
             count' \in Nat, count <= count'
      PROVE  Remembered'
  <2>1. ASSUME NEW k \in RoomKeys, NEW i \in DOMAIN history'[k]
        PROVE  history'[k][i].id \in 1..count'
    <3>1. history'[k] = history[k]
      BY <1>2, <2>1, EmptyIsSeq
    <3> QED BY <1>1, <1>2, <2>1, <3>1 DEF Remembered
  <2> QED BY <2>1 DEF Remembered
<1>3. CASE Start
  BY <1>3, StartMoves DEF Remembered
<1>4. ASSUME NEW a \in Actors, AddRoomHistory(a)
      PROVE  Remembered'
  <2>1. event[a].id \in 1..count /\ UNCHANGED count
    BY <1>4, AddMoves DEF HistoryInv, Working, Busy
  <2>2. \A k \in RoomKeys : \A i \in DOMAIN history'[k] :
          history'[k][i].id \in 1..count
    BY <1>4, <2>1, AddEntries DEF Remembered
  <2> QED BY <2>1, <2>2 DEF Remembered
<1>5. CASE \/ End \/ Farewell \/ CloseLogger \/ Midnight \/ ClearHistory \/ Passes
           \/ (\E a \in Actors : Begins(a) \/ Log(a))
           \/ (\E k \in RoomKeys : NextRoom(k))
  <2>1. /\ \A k \in RoomKeys : history'[k] = history[k] \/ history'[k] = <<>>
        /\ count' = count \/ \E a \in Actors : Begins(a)
    BY <1>5 DEF End, Farewell, CloseLogger, Midnight, ClearHistory, Passes, Begins,
                Log, NextRoom, memory, ghosts
  <2>2. count' \in Nat /\ count <= count'
    BY <1>1, <2>1, HistoryAssumption DEF HistoryAssumption, Begins
  <2> QED BY <1>2, <2>1, <2>2
<1> QED BY <1>3, <1>4, <1>5, Steps

(* What is written of an announcement is of the day it is written on. *)
LEMMA NextRoomMoves ==
  ASSUME HistoryInv, NEW k \in RoomKeys, NextRoom(k)
  PROVE  /\ pc[Operator] = "next" /\ pc'[Operator] = "add"
         /\ \A b \in Actors \ {Operator} : pc'[b] = pc[b] /\ event'[b] = event[b]
         /\ UNCHANGED <<phase, today, reset, history, log, count>>
         /\ k \in todo /\ todo' = todo \ {k}
         /\ event'[Operator].in = k
         /\ event'[Operator].msg
              = [event[Operator].msg EXCEPT !.day = today, !.room = TextOf[k]]
         /\ event'[Operator].msg.day = today
         /\ event'[Operator].msg.room = TextOf[k]
         /\ event'[Operator].id = event[Operator].id
         /\ event'[Operator].by = event[Operator].by
<1> USE DEF HistoryInv
<1> DEFINE e == event[Operator]
           m == [e.msg EXCEPT !.day = today, !.room = TextOf[k]]
<1>1. /\ pc[Operator] = "next" /\ pc' = [pc EXCEPT ![Operator] = "add"]
      /\ k \in todo /\ todo' = todo \ {k}
      /\ event' = [event EXCEPT ![Operator] = Stamped(e, k)]
      /\ UNCHANGED <<phase, today, reset, history, log, count>>
      /\ DOMAIN pc = Actors /\ DOMAIN event = Actors /\ Operator \in Actors
  BY DEF NextRoom, process, clock, memory, disk, ghosts, Types, Actors
<1>2. {"id", "by", "in", "msg"} \subseteq DOMAIN e
      /\ {"day", "room"} \subseteq DOMAIN e.msg
  BY <1>1 DEF Working, IsEvent, Busy
<1>3. m.day = today /\ m.room = TextOf[k]
  <2> HIDE DEF e
  <2> QED BY <1>2
<1> HIDE DEF m
<1>4. Stamped(e, k) = [e EXCEPT !.in = k, !.msg = m]
  BY DEF Stamped, m
<1> HIDE DEF e
<1>5. /\ Stamped(e, k).in = k /\ Stamped(e, k).msg = m
      /\ Stamped(e, k).id = e.id /\ Stamped(e, k).by = e.by
  BY <1>2, <1>4
<1>6. event'[Operator] = Stamped(e, k)
  BY <1>1
<1> QED BY <1>1, <1>3, <1>5, <1>6 DEF e, m

LEMMA LateKeeps ==
  ASSUME HistoryInv, Bounded, Dated, Late, [Next]_vars
  PROVE  Late'
<1>1. /\ today \in Days /\ reset <= today /\ reset \in Days
      /\ \A d \in Days : d \in Int
  BY DEF HistoryInv, Types, Bounded, Days
<1>2. CASE Start
  <2>1. \A a \in Actors : \A k \in RoomKeys : \A i \in DOMAIN history'[k] :
          ~ Stale(k, i, a)'
    BY <1>2, StartMoves DEF Stale
  <2> QED BY <2>1 DEF Late, NoSecondStale, NoStaleToCome
<1>3. CASE End \/ Farewell \/ CloseLogger
  BY <1>3 DEF End, Farewell, CloseLogger, Late
<1>4. CASE Midnight
  <2>1. reset' = reset /\ today' = today + 1
    BY <1>4 DEF Midnight
  <2>2. reset' # today'
    BY <1>1, <2>1
  <2> QED BY <2>2 DEF Late
<1>5. CASE ClearHistory
  <2>1. \A k \in RoomKeys : DOMAIN history'[k] = {}
    BY <1>5, EmptyIsSeq DEF ClearHistory
  <2> QED BY <2>1 DEF Late, NoSecondStale, NoStaleToCome
<1>6. ASSUME UNCHANGED <<phase, today, reset>>,
             \A k \in RoomKeys : history'[k] = history[k] \/ history'[k] = <<>>,
             \A a \in Actors : pc'[a] = "add" =>
               \/ pc[a] = "add" /\ event'[a] = event[a]
               \/ event'[a].msg.day = today
      PROVE  Late'
  <2>1. \A k \in RoomKeys : \A i \in DOMAIN history'[k] :
          i \in DOMAIN history[k] /\ history'[k][i] = history[k][i]
    BY <1>6, EmptyIsSeq
  <2>2. ASSUME NoSecondStale PROVE NoSecondStale'
    BY <1>6, <2>1, <2>2 DEF NoSecondStale, Stale
  <2>3. ASSUME NoStaleToCome PROVE NoStaleToCome'
    BY <1>6, <2>1, <2>3 DEF NoStaleToCome, Stale
  <2> QED BY <1>6, <2>2, <2>3 DEF Late
<1>7. CASE Passes
  BY <1>6, <1>7 DEF Passes
<1>8. ASSUME NEW a \in Actors, Begins(a)
      PROVE  Late'
  <2>1. event'[a].msg.day = today
    BY <1>8 DEF Begins, IsNew
  <2>2. \A b \in Actors : pc'[b] = "add" =>
               \/ pc[b] = "add" /\ event'[b] = event[b]
               \/ event'[b].msg.day = today
    BY <1>8, <2>1 DEF Begins
  <2>3. UNCHANGED <<phase, today, reset, history>>
    BY <1>8 DEF Begins
  <2> QED BY <1>6, <2>2, <2>3
<1>9. ASSUME NEW a \in Actors, Log(a)
      PROVE  Late'
  <2> DEFINE p == IF event[a].msg.type = "ANNOUNCE" THEN "next" ELSE "cast"
  <2>1. /\ UNCHANGED <<phase, today, reset, history, event>>
        /\ pc' = [pc EXCEPT ![a] = p] /\ DOMAIN pc = Actors
    BY <1>9 DEF Log, process, clock, memory, work, HistoryInv, Types
  <2>2. p # "add"
    OBVIOUS
  <2> HIDE DEF p
  <2>3. \A b \in Actors : pc'[b] = "add" => pc[b] = "add"
    BY <2>1, <2>2
  <2> QED BY <1>6, <2>1, <2>3
<1>10. ASSUME NEW k \in RoomKeys, NextRoom(k)
       PROVE  Late'
  <2>1. \A b \in Actors : pc'[b] = "add" =>
               \/ pc[b] = "add" /\ event'[b] = event[b]
               \/ event'[b].msg.day = today
    BY <1>10, NextRoomMoves
  <2>2. UNCHANGED <<phase, today, reset, history>>
    BY <1>10, NextRoomMoves
  <2> QED BY <1>6, <2>1, <2>2
<1>11. ASSUME NEW a \in Actors, AddRoomHistory(a)
       PROVE  Late'
  <2> DEFINE r == event[a].in
             n == Len(history[r])
  <2>1. /\ pc[a] = "add" /\ pc'[a] = "log"
        /\ \A b \in Actors \ {a} : pc'[b] = pc[b]
        /\ UNCHANGED <<event, phase, today, reset>>
    BY <1>11, AddMoves
  <2>2. \A k \in RoomKeys : \A i \in DOMAIN history'[k] :
          \/ i \in DOMAIN history[k] /\ history'[k][i] = history[k][i]
          \/ k = r /\ i = n + 1 /\ history'[k][i] = event[a]
    BY <1>11, AddEntries
  <2>3. event[a].by = a
    BY <2>1 DEF HistoryInv, Working, Busy
  <2> HIDE DEF r, n
  <2>4. ASSUME phase = "up", reset = today
        PROVE  NoSecondStale' /\ NoStaleToCome'
    <3>1. NoSecondStale /\ NoStaleToCome
      BY <2>4 DEF Late
    <3>2. ASSUME NEW b \in Actors, NEW k \in RoomKeys, NEW l \in RoomKeys,
                 NEW i \in DOMAIN history'[k], NEW j \in DOMAIN history'[l],
                 Stale(k, i, b)', Stale(l, j, b)'
          PROVE  k = l /\ i = j
      <4>1. CASE /\ i \in DOMAIN history[k] /\ history'[k][i] = history[k][i]
                 /\ j \in DOMAIN history[l] /\ history'[l][j] = history[l][j]
        BY <2>1, <3>1, <3>2, <4>1 DEF NoSecondStale, Stale
      <4>2. CASE k = r /\ i = n + 1 /\ l = r /\ j = n + 1
        BY <4>2
      <4>3. CASE /\ i \in DOMAIN history[k] /\ history'[k][i] = history[k][i]
                 /\ history'[l][j] = event[a]
        <5>1. b = a /\ event[a].msg.day # today /\ Stale(k, i, a)
          BY <2>1, <2>3, <3>2, <4>3 DEF Stale
        <5> QED BY <2>1, <3>1, <4>3, <5>1 DEF NoStaleToCome
      <4>4. CASE /\ j \in DOMAIN history[l] /\ history'[l][j] = history[l][j]
                 /\ history'[k][i] = event[a]
        <5>1. b = a /\ event[a].msg.day # today /\ Stale(l, j, a)
          BY <2>1, <2>3, <3>2, <4>4 DEF Stale
        <5> QED BY <2>1, <3>1, <4>4, <5>1 DEF NoStaleToCome
      <4> QED BY <2>2, <3>2, <4>1, <4>2, <4>3, <4>4
    <3>3. ASSUME NEW b \in Actors, pc'[b] = "add", event'[b].msg.day # today',
                 NEW k \in RoomKeys, NEW i \in DOMAIN history'[k]
          PROVE  ~ Stale(k, i, b)'
      <4>1. b # a /\ pc[b] = "add" /\ event[b].msg.day # today
        BY <2>1, <3>3
      <4>2. CASE i \in DOMAIN history[k] /\ history'[k][i] = history[k][i]
        BY <2>1, <3>1, <4>1, <4>2 DEF NoStaleToCome, Stale
      <4>3. CASE history'[k][i] = event[a]
        BY <2>3, <4>1, <4>3 DEF Stale
      <4> QED BY <2>2, <4>2, <4>3
    <3>4. NoSecondStale'
      BY <3>2 DEF NoSecondStale
    <3>5. NoStaleToCome'
      BY <3>3 DEF NoStaleToCome
    <3> QED BY <3>4, <3>5
  <2> QED BY <2>1, <2>4 DEF Late
<1> QED BY <1>2, <1>3, <1>4, <1>5, <1>7, <1>8, <1>9, <1>10, <1>11, Steps

LEMMA InitMemory ==
  ASSUME Init PROVE MemoryInv
<1> USE HistoryAssumption DEF HistoryAssumption, Init
<1>1. \A a \in Actors : event[a].in \in RoomKeys
  BY DEF NoEvent, RoomKeys
<1>2. Bounded
  BY <1>1 DEF Bounded, Days
<1>3. /\ \A k \in RoomKeys : history[k] = <<>> /\ DOMAIN history[k] = {}
      /\ \A d \in Days : DOMAIN log[d] = {}
  BY EmptyIsSeq
<1>4. Housed /\ Dated /\ Remembered /\ Late
  BY <1>3 DEF Housed, Dated, Remembered, Late
<1> QED BY <1>2, <1>4 DEF MemoryInv

LEMMA MemoryInvHolds == Spec => []MemoryInv
<1>1. Init => MemoryInv
  BY InitMemory
<1>2. HistoryInv /\ MemoryInv /\ [Next]_vars => MemoryInv'
  BY BoundedKeeps, DatedKeeps, RememberedKeeps, LateKeeps DEF MemoryInv
<1> QED BY <1>1, <1>2, HistoryInvHolds, PTL DEF Spec

(* What is a function stays one. *)
Mapped ==
  pc = [a \in DOMAIN pc |-> pc[a]] /\ screen = [u \in DOMAIN screen |-> screen[u]]

LEMMA StaysMapped ==
  ASSUME NEW f, f = [x \in DOMAIN f |-> f[x]], NEW g,
         g = f \/ (\E x, y : g = [f EXCEPT ![x] = y])
  PROVE  g = [x \in DOMAIN g |-> g[x]]
OBVIOUS

LEMMA MappedHolds == Spec => []Mapped
<1>1. Init => Mapped
  BY DEF Init, Mapped
<1>2. ASSUME Mapped, [Next]_vars
      PROVE  Mapped'
  <2>1. CASE End
    BY <2>1 DEF End, Mapped
  <2>2. ASSUME \E a, y : pc' = pc \/ pc' = [pc EXCEPT ![a] = y],
               \E u, y : screen' = screen \/ screen' = [screen EXCEPT ![u] = y]
        PROVE  Mapped'
    <3>1. pc' = [a \in DOMAIN pc' |-> pc'[a]]
      BY <1>2, <2>2, StaysMapped DEF Mapped
    <3>2. screen' = [u \in DOMAIN screen' |-> screen'[u]]
      BY <1>2, <2>2, StaysMapped DEF Mapped
    <3> QED BY <3>1, <3>2 DEF Mapped
  <2>3. CASE \/ Start \/ Farewell \/ CloseLogger \/ Midnight \/ ClearHistory
             \/ UNCHANGED vars
    BY <2>2, <2>3 DEF Start, Farewell, CloseLogger, Midnight, ClearHistory, client,
                      ghosts, vars
  <2>4. ASSUME NEW a \in Actors, AddRoomHistory(a) \/ Log(a)
        PROVE  Mapped'
    BY <2>2, <2>4, Zenon DEF AddRoomHistory, Log, ghosts
  <2>5. ASSUME NEW a \in Actors, Broadcast(a)
        PROVE  Mapped'
    <3>1. pc' = [pc EXCEPT ![a] = AfterCast(a)]
      BY <2>5 DEF Broadcast
    <3>2. pc' = [b \in DOMAIN pc' |-> pc'[b]]
      BY <1>2, <3>1, StaysMapped DEF Mapped
    <3>3. screen' = [u \in Users |-> IF u \in Audience(a)
                       THEN screen[u] \cup {event[a].id} ELSE screen[u]]
      BY <2>5 DEF Broadcast
    <3>4. screen' = [u \in DOMAIN screen' |-> screen'[u]]
      BY <3>3
    <3> QED BY <3>2, <3>4 DEF Mapped
  <2>6. ASSUME NEW u \in Users, UserStep(u)
        PROVE  Mapped'
    <3>1. pc' = pc \/ \E y : pc' = [pc EXCEPT ![u] = y]
      BY <2>6, Zenon DEF UserStep, Register, JoinFirstRoom, Switch, Chat, Rename,
                  Replay, Move, Leave, DeleteRoom, Compose
    <3>2. CASE Replay(u)
      BY <2>2, <3>1, <3>2, Zenon DEF Replay
    <3>3. CASE DeleteRoom(u)
      BY <2>2, <3>1, <3>3, Zenon DEF DeleteRoom
    <3>4. CASE ~ Replay(u) /\ ~ DeleteRoom(u)
      <4>1. screen' = screen
        BY <2>6, <3>4 DEF UserStep, Register, JoinFirstRoom, Switch, Chat, Rename,
                          Move, Leave, ghosts
      <4> QED BY <2>2, <3>1, <4>1
    <3> QED BY <3>2, <3>3, <3>4
  <2>7. CASE OperatorStep
    <3>1. \E y : pc' = [pc EXCEPT ![Operator] = y]
      BY <2>7, Zenon DEF OperatorStep, SetMuted, Announce, NextRoom, NoMoreRooms,
                         Compose
    <3>2. screen' = screen
      BY <2>7 DEF OperatorStep, SetMuted, Announce, NextRoom, NoMoreRooms, ghosts
    <3> QED BY <2>2, <3>1, <3>2
  <2> QED BY <1>2, <2>1, <2>3, <2>4, <2>5, <2>6, <2>7 DEF Next
<1> QED BY <1>1, <1>2, PTL DEF Spec

(* Every variable keeps its type, numbers their bounds, and a room that is *)
(* gone has neither history nor occupants.                                 *)
THEOREM HistoryTypes == Spec => []TypeOK
<1>1. HistoryInv /\ MemoryInv /\ Mapped => TypeOK
  <2> SUFFICES ASSUME HistoryInv, MemoryInv, Mapped PROVE TypeOK
    OBVIOUS
  <2> USE DEF HistoryInv, MemoryInv
  <2>2. /\ phase \in {"down", "up", "bye", "closed"}
        /\ today \in Days /\ reset \in Days /\ curDate \in Days \cup {0}
        /\ rooms \subseteq RoomKeys /\ DOMAIN log = Days
        /\ roomOf \in [Users -> RoomKeys] /\ other \in [Users -> RoomKeys]
        /\ muted \subseteq Users /\ todo \subseteq RoomKeys
        /\ count \in 0..MaxEvents /\ starts \in 0..MaxStarts
    BY DEF Types, Bounded
  <2>3. \A k \in RoomKeys \ rooms : history[k] = <<>> /\ \A u \in Users :
          roomOf[u] = k => k = NoRoom
    BY DEF Housed
  <2>4. pc \in [Actors -> {"op", "next", "out", "choose", "replay", "add", "log",
                           "cast", "active", "move", "delete"}]
    BY DEF Types, Busy, Recording, Actors, Mapped
  <2>5. 1..count \subseteq 1..MaxEvents /\ 1..MaxEvents \subseteq 0..MaxEvents
        /\ 0 \in 0..MaxEvents
    BY <2>2, HistoryAssumption DEF HistoryAssumption
  <2>6. \A a \in Actors :
          event[a].id \in 0..MaxEvents /\ event[a].in \in RoomKeys
    BY <2>5 DEF Working, Bounded
  <2>7. screen \in [Users -> SUBSET (1..MaxEvents)]
    BY <2>5 DEF Types, Bounded, Mapped
  <2> QED BY <2>2, <2>3, <2>4, <2>6, <2>7 DEF TypeOK
<1> QED BY <1>1, HistoryInvHolds, MemoryInvHolds, MappedHolds, PTL

(* Once the histories have been reset at midnight, at most one event of    *)
(* yesterday of each author is in them, whoever was recording when the     *)
(* timer ran: his next one is stamped after midnight.                      *)
THEOREM AtMostOneStale == Spec => []StaleIsBounded
<1>1. MemoryInv => StaleIsBounded
  <2>1. ASSUME MemoryInv, phase = "up", reset = today, NEW a \in Actors
        PROVE  Cardinality({p \in RoomKeys \X (1..MaxEvents) :
                 /\ p[2] \in DOMAIN history[p[1]]
                 /\ history[p[1]][p[2]].by = a
                 /\ history[p[1]][p[2]].msg.day # today}) <= 1
    <3> DEFINE T == {p \in RoomKeys \X (1..MaxEvents) :
                 /\ p[2] \in DOMAIN history[p[1]]
                 /\ history[p[1]][p[2]].by = a
                 /\ history[p[1]][p[2]].msg.day # today}
    <3>1. ASSUME NEW p \in T, NEW q \in T
          PROVE  p = q
      <4>1. /\ p[1] \in RoomKeys /\ p[2] \in DOMAIN history[p[1]]
            /\ q[1] \in RoomKeys /\ q[2] \in DOMAIN history[q[1]]
            /\ Stale(p[1], p[2], a) /\ Stale(q[1], q[2], a)
            /\ p = <<p[1], p[2]>> /\ q = <<q[1], q[2]>>
        BY DEF Stale
      <4>2. p[1] = q[1] /\ p[2] = q[2]
        BY <2>1, <4>1 DEF MemoryInv, Late, NoSecondStale
      <4> QED BY <4>1, <4>2
    <3> HIDE DEF T
    <3>2. T = {} \/ \E p \in T : T = {p}
      BY <3>1
    <3>3. Cardinality(T) = 0 \/ Cardinality(T) = 1
      BY <3>2, FS_EmptySet, FS_Singleton
    <3>4. Cardinality(T) <= 1
      BY <3>3
    <3> QED BY <3>4 DEF T
  <2> QED BY <2>1 DEF StaleIsBounded
<1> QED BY <1>1, MemoryInvHolds, PTL

-----------------------------------------------------------------------------
(* What a restart brings back.                                             *)

(* The texts are over some set of tokens.  Names of users and rooms are    *)
(* not empty and have no blanks (validateName and validateRoomName), two   *)
(* rooms have different names, and the operator's name, which is           *)
(* "Server", does not hold a bracket and a colon.                          *)
ValidTexts(S) ==
  /\ Marks \subseteq S
  /\ NameOf \in [Actors -> Words(S)] /\ Free(NameOf[Operator], "]:")
  /\ NewNames \subseteq Words(S)
  /\ Lines \subseteq Seq(S)
  /\ \A r \in Rooms : TextOf[r] \in Words(S)
  /\ \A q, r \in Rooms : TextOf[q] = TextOf[r] => q = r

(* The third invariant: names are names; ...                               *)
Named(S) == name \in [Actors -> Words(S)] /\ Free(name[Operator], "]:")

(* what is recorded is a message the log can hold, of the room it is for,  *)
(* and of no later day; ...                                                *)
Fields == {"type", "day", "sender", "content", "extra", "room"}

Tells(m, S) == Fields \subseteq DOMAIN m /\ Written(m, S)

Telling(S) ==
  \A a \in Actors :
    /\ pc[a] \in Busy => Tells(event[a].msg, S) /\ event[a].msg.day <= today
    /\ pc[a] \in {"add", "log"} => event[a].msg.room = TextOf[event[a].in]

Elder ==
  \A k \in RoomKeys : \A i \in DOMAIN history[k] :
    history[k][i].msg.day \in Days /\ history[k][i].msg.day <= today

(* only an announcement has rooms to come, and in those it is not yet; ... *)
NoneOf(id, k) == \A i \in DOMAIN history[k] : history[k][i].id # id

Todo ==
  LET o == Operator IN
  /\ pc[o] \notin {"next", "add", "log"} => todo = {}
  /\ event[o].msg.type # "ANNOUNCE" => todo = {}
  /\ pc[o] = "add" => event[o].in \notin todo
  /\ \A k \in todo : NoneOf(event[o].id, k)

(* an event is in a history once, of its own room, and is the last there   *)
(* of its author until its line is written; ...                            *)
NotYet == \A a \in Actors : pc[a] = "add" => NoneOf(event[a].id, event[a].in)

Own ==
  \A a \in Actors : pc[a] \in Busy =>
    \A k \in RoomKeys : \A i \in DOMAIN history[k] :
      history[k][i].id = event[a].id => history[k][i].in = k

LastOne ==
  \A a \in Actors : pc[a] = "log" =>
    \A k \in RoomKeys : \A i, j \in DOMAIN history[k] :
      history[k][i] = event[a] /\ i < j => history[k][j].by # a

(* and the property itself, room by room.                                  *)
Lasts(r, i) ==
  /\ i \in DOMAIN history[r]
  /\ history[r][i].msg.day = today /\ Settled(history[r][i])

InOrder(now, back, i, j) ==
  \E k, l \in DOMAIN back :
    /\ Looks(back[k]) = Looks(now[i])
    /\ Looks(back[l]) = Looks(now[j])
    /\ k <= l /\ (i < j => k < l)

RoomKept(r) ==
  \A i, j \in DOMAIN history[r] :
    Lasts(r, i) /\ Lasts(r, j) /\ i <= j /\ history[r][i].by = history[r][j].by =>
      InOrder(history[r], RecoverHistory(log[today], r), i, j)

AllKept == phase \in {"up", "bye"} => \A r \in Rooms : RoomKept(r)

RestartInv(S) ==
  Named(S) /\ Telling(S) /\ Elder /\ Todo /\ NotYet /\ Own /\ LastOne /\ AllKept

-----------------------------------------------------------------------------
(* A line more is an event more, or none. *)
Agree(f, g, a, b) == \A i \in a..b : f[i] = g[i]

LEMMA BuildsAgree ==
  ASSUME NEW file, NEW more, NEW r, NEW m \in Nat, NEW n \in Nat, m <= n,
         NEW f, Builds(f, file, r, m), NEW g, Builds(g, more, r, n),
         Agree(file, more, 1, m)
  PROVE  Agree(f, g, 0, m)
<1> USE DEF Agree
<1> DEFINE Bad == {i \in 0..m : f[i] # g[i]}
<1>1. SUFFICES ASSUME Bad # {} PROVE FALSE
  OBVIOUS
<1>2. PICK i \in Bad : \A j \in Bad : i <= j
  <2>1. Bad \in SUBSET Nat
    OBVIOUS
  <2> HIDE DEF Bad
  <2> QED BY <1>1, <2>1, Least
<1>3. i \in 0..m /\ i \in 0..n
  OBVIOUS
<1>4. f[i] = Line(f, file, r, i) /\ g[i] = Line(g, more, r, i)
  <2>1. f[i] = Line(f, file, r, i)
    BY <1>3, Zenon DEF Builds
  <2>2. g[i] = Line(g, more, r, i)
    BY <1>3, Zenon DEF Builds
  <2> QED BY <2>1, <2>2
<1>5. CASE i = 0
  BY <1>4, <1>5 DEF Line
<1>6. CASE i # 0
  <2>1. i - 1 \in 0..m /\ ~ (i <= i - 1) /\ i \in 1..m
    BY <1>3, <1>6
  <2>2. f[i - 1] = g[i - 1] /\ file[i] = more[i]
    BY <1>2, <2>1
  <2> QED BY <1>4, <1>6, <2>2 DEF Line
<1> QED BY <1>5, <1>6

LEMMA RecoverAppend ==
  ASSUME NEW file, IsSeq(file), NEW r, NEW x
  PROVE  RecoverHistory(Append(file, x), r)
           = IF IsOf(x, r) THEN Append(RecoverHistory(file, r), Recovered(x, r))
                           ELSE RecoverHistory(file, r)
<1> DEFINE n == Len(file)
           more == Append(file, x)
           f == CHOOSE h : Builds(h, file, r, n)
           g == CHOOSE h : Builds(h, more, r, n + 1)
<1>1. /\ n \in Nat /\ more[n + 1] = x
      /\ \A i \in 1..n : file[i] = more[i]
  BY AppendIsSeq
<1>2. Len(more) = n + 1
  <2>1. DOMAIN more = 1..(n + 1) /\ IsSeq(more)
    BY AppendIsSeq
  <2>2. Len(more) \in Nat /\ DOMAIN more = 1..Len(more)
    BY <2>1, AppendIsSeq
  <2> HIDE DEF more, n
  <2>3. 1..(n + 1) = 1..Len(more)
    BY <2>1, <2>2
  <2> QED BY <1>1, <2>2, <2>3
<1>3. Builds(f, file, r, n)
  <2> HIDE DEF n
  <2> QED BY <1>1, BuildsExists
<1>4. Builds(g, more, r, n + 1)
  <2>1. n + 1 \in Nat
    BY <1>1
  <2> HIDE DEF n, more
  <2> QED BY <2>1, BuildsExists
<1>5. RecoverHistory(file, r) = f[n]
  BY DEF RecoverHistory, Builds, Line
<1>6. RecoverHistory(more, r) = g[n + 1]
  <2> DEFINE G(m) == (CHOOSE h : Builds(h, more, r, m))[m]
  <2>1. RecoverHistory(more, r) = G(Len(more))
    BY DEF RecoverHistory, Builds, Line
  <2>2. G(n + 1) = g[n + 1]
    OBVIOUS
  <2> HIDE DEF more, n, g, G
  <2>3. G(Len(more)) = G(n + 1)
    BY <1>2
  <2> QED BY <2>1, <2>2, <2>3
<1> HIDE DEF f, g, n, more
<1>7. \A i \in 0..n : f[i] = g[i]
  <2> DEFINE k == n + 1
  <2>1. k \in Nat /\ n <= k /\ Builds(g, more, r, k)
    BY <1>1, <1>4
  <2>2. Agree(file, more, 1, n)
    BY <1>1 DEF Agree
  <2> HIDE DEF k
  <2>3. Agree(f, g, 0, n)
    BY <1>1, <1>3, <2>1, <2>2, BuildsAgree
  <2> QED BY <2>3 DEF Agree
<1>8. g[n + 1] = Line(g, more, r, n + 1)
  <2>1. n + 1 \in 0..(n + 1)
    BY <1>1
  <2> QED BY <1>4, <2>1, Zenon DEF Builds
<1>9. n + 1 # 0 /\ (n + 1) - 1 = n /\ n \in 0..n
  BY <1>1
<1>10. Line(g, more, r, n + 1) = IF IsOf(x, r) THEN Append(g[n], Recovered(x, r))
                                               ELSE g[n]
  BY <1>1, <1>9 DEF Line
<1> QED BY <1>5, <1>6, <1>7, <1>8, <1>9, <1>10 DEF more

(* What is brought back already stays as it is. *)
LEMMA RecoverGrows ==
  ASSUME NEW file, IsSeq(file), NEW r, NEW x
  PROVE  LET back == RecoverHistory(file, r)
             new  == RecoverHistory(Append(file, x), r) IN
         /\ \A k \in DOMAIN back : k \in DOMAIN new /\ new[k] = back[k]
         /\ IsSeq(back) /\ DOMAIN back = 1..Len(back) /\ Len(back) \in Nat
         /\ ~ IsOf(x, r) => new = back
         /\ IsOf(x, r) => /\ Len(back) + 1 \in DOMAIN new
                          /\ new[Len(back) + 1] = Recovered(x, r)
<1> DEFINE back == RecoverHistory(file, r)
           new == RecoverHistory(Append(file, x), r)
           y == Recovered(x, r)
           n == Len(back)
<1>1. IsSeq(back)
  BY RecoverIsSeq
<1>2. new = IF IsOf(x, r) THEN Append(back, y) ELSE back
  BY RecoverAppend
<1> HIDE DEF back, new, y
<1>3. n \in Nat /\ DOMAIN back = 1..n
  BY <1>1, AppendIsSeq
<1>4. CASE IsOf(x, r)
  <2>1. new = Append(back, y)
    BY <1>2, <1>4
  <2>2. /\ DOMAIN new = 1..(n + 1) /\ \A i \in 1..n : new[i] = back[i]
        /\ new[n + 1] = y
    BY <1>1, <2>1, AppendIsSeq
  <2> HIDE DEF n
  <2>3. n + 1 \in 1..(n + 1) /\ \A i \in 1..n : i \in 1..(n + 1)
    BY <1>3
  <2> QED BY <1>1, <1>3, <1>4, <2>2, <2>3 DEF back, new, y, n
<1>5. CASE ~ IsOf(x, r)
  BY <1>1, <1>2, <1>3, <1>5 DEF back, new, y
<1> QED BY <1>4, <1>5

(* The line of an event in a room is read back into that room and looks    *)
(* the same.                                                               *)
LEMMA LineComesBack ==
  ASSUME NEW S, ValidTexts(S), NEW e, IsEvent(e), NEW r \in Rooms,
         Written(e.msg, S), e.msg.room = TextOf[r]
  PROVE  IsOf(Lined(e), r) /\ Looks(Recovered(Lined(e), r)) = Looks(e)
<1> DEFINE m == e.msg
           p == ParseLogLine(FormatLogLine(m))
<1>1. /\ Marks \subseteq S /\ m.room \in Words(S)
  BY DEF ValidTexts
<1>2. SameLook(p, m) /\ m.type # "SERVER"
  <2> HIDE DEF m
  <2> QED BY <1>1, ReadsBack DEF m
<1>3. Parsed(Lined(e)) = p /\ Lined(e).of = e
  BY DEF Parsed, Lined
<1>4. PICK sender, content, extra :
        p = Message(m.type, m.day, sender, content, extra, m.room)
  BY <1>2 DEF SameLook
<1>5. m.type # "corrupt"
  BY DEF Written
<1> HIDE DEF p, m
<1>6. /\ p.type = m.type /\ p.room = m.room /\ [p EXCEPT !.room = m.room] = p
  BY <1>4 DEF Message
<1>7. Kept(p)
  BY <1>2, <1>5, <1>6 DEF Kept, Corrupt
<1>8. RecoveredRoom(p) = r
  <2>1. m.room = TextOf[r] /\ m.room # Empty
    BY <1>1 DEF m, Words, Empty
  <2>2. \A q \in Rooms : TextOf[q] = m.room <=> q = r
    BY <2>1 DEF ValidTexts
  <2>3. (CHOOSE q \in Rooms : TextOf[q] = m.room) = r
    BY <2>2
  <2> QED BY <1>6, <2>1, <2>3 DEF RecoveredRoom
<1>9. Recovered(Lined(e), r) = [e EXCEPT !.msg = p]
  <2>1. TextOf[r] = m.room
    BY DEF m
  <2> QED BY <1>3, <1>6, <2>1 DEF Recovered
<1>10. Recovered(Lined(e), r).msg = p
  BY <1>9 DEF IsEvent
<1>11. Looks(Recovered(Lined(e), r)) = TrimRight(Display(p))
  BY <1>10 DEF Looks
<1>12. Looks(e) = TrimRight(Display(m))
  BY DEF Looks, m
<1> QED BY <1>2, <1>3, <1>7, <1>8, <1>11, <1>12 DEF IsOf, SameLook

-----------------------------------------------------------------------------
(* Names and messages. *)

LEMMA NamedKeeps ==
  ASSUME NEW S, ValidTexts(S), HistoryInv, Named(S), [Next]_vars
  PROVE  Named(S)'
<1>1. /\ NameOf \in [Actors -> Words(S)] /\ Free(NameOf[Operator], "]:")
      /\ NewNames \subseteq Words(S)
      /\ name \in [Actors -> Words(S)] /\ Free(name[Operator], "]:")
      /\ \A u \in Users : u \in Actors /\ u # Operator
  BY HistoryAssumption DEF HistoryAssumption, Actors, ValidTexts, Named
<1>2. CASE name' = name \/ name' = NameOf
  BY <1>1, <1>2 DEF Named
<1>3. ASSUME NEW u \in Users, NEW n \in Words(S), name' = [name EXCEPT ![u] = n]
      PROVE  Named(S)'
  <2>1. name' \in [Actors -> Words(S)] /\ name'[Operator] = name[Operator]
    BY <1>1, <1>3
  <2> QED BY <1>1, <2>1 DEF Named
<1>4. ASSUME NEW u \in Users, UserStep(u)
      PROVE  Named(S)'
  <2>1. \/ name' = name
        \/ \E n \in NewNames : name' = [name EXCEPT ![u] = n]
        \/ name' = [name EXCEPT ![u] = NameOf[u]]
    BY <1>4 DEF UserStep, Register, JoinFirstRoom, Switch, Chat, Rename, Replay,
                Move, Leave, DeleteRoom, client
  <2>2. NameOf[u] \in Words(S)
    BY <1>1
  <2> QED BY <1>1, <1>2, <1>3, <2>1, <2>2
<1>5. CASE ~ \E u \in Users : UserStep(u)
  <2>1. name' = name \/ name' = NameOf
    BY <1>5 DEF Next, Start, End, Farewell, CloseLogger, Midnight, ClearHistory,
                AddRoomHistory, Log, Broadcast, OperatorStep, SetMuted, Announce,
                NextRoom, NoMoreRooms, client, vars
  <2> QED BY <1>2, <2>1
<1> QED BY <1>4, <1>5

(* Any message of these parts is one the log can hold. *)
CanHold(type, sender, content, extra, S) ==
  \A m : m.type = type /\ m.sender = sender /\ m.content = content
         /\ m.extra = extra => Written(m, S)

LEMMA ComposeTells ==
  ASSUME NEW S, HistoryInv, NEW a \in Actors, NEW k \in RoomKeys, NEW type,
         NEW sender, NEW content, NEW extra,
         CanHold(type, sender, content, extra, S),
         Compose(a, k, type, sender, content, extra)
  PROVE  Tells(event'[a].msg, S) /\ \A b \in Actors \ {a} : pc'[b] = pc[b]
<1> DEFINE m == event'[a].msg
<1>1. /\ m = Message(type, today, sender, content, extra, TextOf[k])
      /\ \A b \in Actors \ {a} : pc'[b] = pc[b]
  BY ComposeMoves
<1> HIDE DEF m
<1>2. /\ m.type = type /\ m.sender = sender /\ m.content = content
      /\ m.extra = extra /\ Fields \subseteq DOMAIN m
  BY <1>1 DEF Message, Fields
<1>3. Written(m, S)
  BY <1>2 DEF CanHold
<1> QED BY <1>1, <1>2, <1>3 DEF Tells, m

LEMMA UserTells ==
  ASSUME NEW S, ValidTexts(S), HistoryInv, Named(S), NEW u \in Users, UserStep(u),
         count' # count
  PROVE  /\ u \in Actors /\ Tells(event'[u].msg, S)
         /\ \A b \in Actors \ {u} : pc'[b] = pc[b]
<1>1. /\ u \in Actors /\ roomOf[u] \in RoomKeys /\ name[u] \in Words(S)
      /\ NewNames \subseteq Words(S) /\ Lines \subseteq Seq(S)
      /\ \A s \in Words(S) : s \in Seq(S)
  BY DEF HistoryInv, Types, Actors, ValidTexts, Named, Words
<1>2. ASSUME NEW line \in Lines, Chat(u, line)
      PROVE  /\ Tells(event'[u].msg, S)
             /\ \A b \in Actors \ {u} : pc'[b] = pc[b]
  <2>1. Compose(u, roomOf[u], "CHAT", name[u], line, Empty)
    BY <1>2 DEF Chat
  <2>2. CanHold("CHAT", name[u], line, Empty, S)
    BY <1>1 DEF CanHold, Written
  <2> QED BY <1>1, <2>1, <2>2, ComposeTells
<1>3. ASSUME NEW n \in NewNames, Rename(u, n)
      PROVE  /\ Tells(event'[u].msg, S)
             /\ \A b \in Actors \ {u} : pc'[b] = pc[b]
  <2>1. Compose(u, roomOf[u], "NAMECHANGE", n, Empty, name[u])
    BY <1>3 DEF Rename
  <2>2. CanHold("NAMECHANGE", n, Empty, name[u], S)
    BY <1>1 DEF CanHold, Written
  <2> QED BY <1>1, <2>1, <2>2, ComposeTells
<1>4. ASSUME NEW how, how \in {<<"switched">>, <<"drop">>},
             Compose(u, roomOf[u], "LEAVE", name[u], Empty, how)
      PROVE  /\ Tells(event'[u].msg, S)
             /\ \A b \in Actors \ {u} : pc'[b] = pc[b]
  <2>1. CanHold("LEAVE", name[u], Empty, how, S)
    BY <1>1, <1>4 DEF CanHold, Written
  <2> QED BY <1>1, <1>4, <2>1, ComposeTells
<1>5. CASE \E r \in Rooms : Switch(u, r)
  <2>1. Compose(u, roomOf[u], "LEAVE", name[u], Empty, <<"switched">>)
    BY <1>5 DEF Switch
  <2> QED BY <1>1, <1>4, <2>1
<1>6. CASE Leave(u)
  <2>1. Compose(u, roomOf[u], "LEAVE", name[u], Empty, <<"drop">>)
    BY <1>6 DEF Leave
  <2> QED BY <1>1, <1>4, <2>1
<1>7. CASE Replay(u)
  <2>1. Compose(u, roomOf[u], "JOIN", name[u], Empty, Empty)
    BY <1>7 DEF Replay
  <2>2. CanHold("JOIN", name[u], Empty, Empty, S)
    BY <1>1 DEF CanHold, Written
  <2> QED BY <1>1, <2>1, <2>2, ComposeTells
<1>8. ~ Register(u) /\ ~ Move(u) /\ ~ DeleteRoom(u)
      /\ ~ \E r \in Rooms : JoinFirstRoom(u, r)
  BY DEF Register, Move, DeleteRoom, JoinFirstRoom, ghosts
<1> QED BY <1>1, <1>2, <1>3, <1>5, <1>6, <1>7, <1>8 DEF UserStep

LEMMA OperatorTells ==
  ASSUME NEW S, ValidTexts(S), HistoryInv, Named(S), OperatorStep, count' # count
  PROVE  /\ Tells(event'[Operator].msg, S)
         /\ \A b \in Actors \ {Operator} : pc'[b] = pc[b]
<1>1. /\ Operator \in Actors /\ name \in [Actors -> Words(S)]
      /\ Free(name[Operator], "]:") /\ Lines \subseteq Seq(S)
      /\ \A u \in Users : u \in Actors /\ roomOf[u] \in RoomKeys
  BY DEF HistoryInv, Types, Actors, ValidTexts, Named
<1>2. ASSUME NEW u \in Users, NEW on \in BOOLEAN, SetMuted(u, on)
      PROVE  /\ Tells(event'[Operator].msg, S)
             /\ \A b \in Actors \ {Operator} : pc'[b] = pc[b]
  <2> DEFINE content == IF on THEN <<"muted">> ELSE <<"unmuted">>
  <2>1. Compose(Operator, roomOf[u], "MOD", name[u], content, name[Operator])
    BY <1>2 DEF SetMuted
  <2>2. content \in {<<"muted">>, <<"unmuted">>}
    OBVIOUS
  <2> HIDE DEF content
  <2>3. CanHold("MOD", name[u], content, name[Operator], S)
    BY <1>1, <2>2 DEF CanHold, Written
  <2>4. roomOf[u] \in RoomKeys
    BY <1>1
  <2> QED BY <1>1, <2>1, <2>3, <2>4, ComposeTells
<1>3. ASSUME NEW line \in Lines, Announce(line)
      PROVE  /\ Tells(event'[Operator].msg, S)
             /\ \A b \in Actors \ {Operator} : pc'[b] = pc[b]
  <2> DEFINE m == event'[Operator].msg
  <2>1. /\ m = Message("ANNOUNCE", today, Empty, line, name[Operator], Empty)
        /\ \A b \in Actors \ {Operator} : pc'[b] = pc[b]
    BY <1>3, AnnounceMoves
  <2> HIDE DEF m
  <2>2. /\ m.type = "ANNOUNCE" /\ m.content = line /\ m.extra = name[Operator]
        /\ Fields \subseteq DOMAIN m
    BY <2>1 DEF Message, Fields
  <2>3. Written(m, S)
    BY <1>1, <2>2 DEF Written
  <2> QED BY <2>1, <2>2, <2>3 DEF Tells, m
<1>4. ~ NoMoreRooms /\ ~ \E k \in RoomKeys : NextRoom(k)
  BY DEF NoMoreRooms, NextRoom, ghosts
<1> QED BY <1>2, <1>3, <1>4 DEF OperatorStep

(* Whoever begins to record has a message the log can hold. *)
LEMMA BeginsTells ==
  ASSUME NEW S, ValidTexts(S), HistoryInv, Named(S), [Next]_vars,
         NEW a \in Actors, Begins(a)
  PROVE  Tells(event'[a].msg, S)
<1>1. /\ count' # count /\ pc'[a] # pc[a]
  BY DEF Begins, HistoryInv, Types, Busy
<1>2. CASE OperatorStep
  <2>1. /\ Tells(event'[Operator].msg, S)
        /\ \A b \in Actors \ {Operator} : pc'[b] = pc[b]
    BY <1>1, <1>2, OperatorTells
  <2> QED BY <1>1, <2>1
<1>3. ASSUME NEW u \in Users, UserStep(u)
      PROVE  Tells(event'[a].msg, S)
  <2>1. /\ u \in Actors /\ Tells(event'[u].msg, S)
        /\ \A b \in Actors \ {u} : pc'[b] = pc[b]
    BY <1>1, <1>3, UserTells
  <2> QED BY <1>1, <2>1
<1>4. \/ OperatorStep \/ \E u \in Users : UserStep(u)
  BY <1>1 DEF Next, Start, End, Farewell, CloseLogger, Midnight, ClearHistory,
              AddRoomHistory, Log, Broadcast, ghosts, vars
<1> QED BY <1>2, <1>3, <1>4

(* Neither the clock nor the end of the process changes what is recorded.  *)
LEMMA EndMoves ==
  ASSUME End
  PROVE  /\ \A a \in Actors : pc'[a] \notin Busy /\ pc'[a] # "log"
         /\ \A k \in RoomKeys : history'[k] = <<>> /\ DOMAIN history'[k] = {}
         /\ todo' = {} /\ phase' = "down"
<1>1. /\ pc' = [a \in Actors |-> IF a = Operator THEN "op" ELSE "out"]
      /\ history' = [k \in RoomKeys |-> <<>>]
      /\ todo' = {} /\ phase' = "down"
  BY DEF End
<1>2. \A a \in Actors : pc'[a] \notin Busy /\ pc'[a] # "log"
  BY <1>1 DEF Busy
<1>3. \A k \in RoomKeys : history'[k] = <<>> /\ DOMAIN history'[k] = {}
  BY <1>1, EmptyIsSeq
<1> QED BY <1>1, <1>2, <1>3

LEMMA ClockMoves ==
  ASSUME HistoryInv, Farewell \/ CloseLogger \/ Midnight \/ ClearHistory
  PROVE  /\ UNCHANGED <<pc, event, todo, count>>
         /\ \A k \in RoomKeys : history'[k] = history[k] \/ history'[k] = <<>>
         /\ today \in Days /\ today' \in Days /\ today <= today'
<1>1. /\ UNCHANGED <<pc, event, todo, count>>
      /\ history' = history \/ history' = [k \in RoomKeys |-> <<>>]
      /\ today \in Days
      /\ today' = today \/ (today' = today + 1 /\ today' \in Days)
  BY DEF Farewell, CloseLogger, Midnight, ClearHistory, memory, work, ghosts,
         clock, HistoryInv, Types
<1>2. today' \in Days /\ today <= today'
  BY <1>1 DEF Days
<1> QED BY <1>1, <1>2

LEMMA LogMoves ==
  ASSUME HistoryInv, NEW a \in Actors, Log(a)
  PROVE  /\ pc[a] = "log"
         /\ pc'[a] = IF event[a].msg.type = "ANNOUNCE" THEN "next" ELSE "cast"
         /\ \A b \in Actors \ {a} : pc'[b] = pc[b]
         /\ WriteLog(event[a])
         /\ UNCHANGED <<phase, today, reset, history, event, todo, count>>
<1> DEFINE p == IF event[a].msg.type = "ANNOUNCE" THEN "next" ELSE "cast"
<1>1. /\ pc[a] = "log" /\ pc' = [pc EXCEPT ![a] = p] /\ DOMAIN pc = Actors
      /\ WriteLog(event[a])
      /\ UNCHANGED <<phase, today, reset, history, event, todo, count>>
  BY DEF Log, process, clock, memory, work, ghosts, HistoryInv, Types
<1> HIDE DEF p
<1>2. pc'[a] = p /\ \A b \in Actors \ {a} : pc'[b] = pc[b]
  BY <1>1
<1> QED BY <1>1, <1>2 DEF p

LEMMA TellingKeeps ==
  ASSUME NEW S, ValidTexts(S), HistoryInv, Dated, Named(S), Telling(S), [Next]_vars
  PROVE  Telling(S)'
<1> DEFINE Fine(a) ==
      /\ pc'[a] \in Busy => Tells(event'[a].msg, S) /\ event'[a].msg.day <= today'
      /\ pc'[a] \in {"add", "log"} => event'[a].msg.room = TextOf[event'[a].in]
<1>1. /\ today \in Days /\ \A d \in Days : d \in Int
      /\ \A a \in Actors : pc[a] \in Busy => event[a].msg.day \in Days
  BY DEF HistoryInv, Types, Days, Working, IsEvent
<1>2. ASSUME NEW a \in Actors, event'[a] = event[a], today' \in Days,
             today <= today', pc'[a] = pc[a] \/ (pc[a] \in Busy /\ pc'[a] = "cast")
               \/ (pc[a] = "add" /\ pc'[a] = "log")
               \/ (pc[a] = "log" /\ pc'[a] = "next")
      PROVE  Fine(a)
  BY <1>1, <1>2 DEF Telling, Busy
<1>3. ASSUME NEW a \in Actors, pc'[a] \notin Busy
      PROVE  Fine(a)
  BY <1>3 DEF Busy
<1>4. SUFFICES \A a \in Actors : Fine(a)
  BY DEF Telling
<1> HIDE DEF Fine
<1>5. CASE Start
  BY <1>3, <1>5, StartMoves
<1>6. CASE End
  BY <1>3, <1>6, EndMoves
<1>7. CASE Farewell \/ CloseLogger \/ Midnight \/ ClearHistory
  BY <1>2, <1>7, ClockMoves
<1>8. CASE Passes
  <2>1. today' = today /\ today <= today
    BY <1>1, <1>8 DEF Passes
  <2>2. ASSUME NEW a \in Actors
        PROVE  Fine(a)
    <3>1. \/ pc'[a] = pc[a] /\ event'[a] = event[a]
          \/ pc'[a] \notin Busy
          \/ pc[a] \in Busy /\ pc'[a] = "cast" /\ event'[a] = event[a]
      BY <1>8 DEF Passes, Busy
    <3> QED BY <1>1, <1>2, <1>3, <2>1, <3>1
  <2> QED BY <2>2
<1>9. ASSUME NEW a \in Actors, Begins(a)
      PROVE  \A b \in Actors : Fine(b)
  <2>1. /\ Tells(event'[a].msg, S) /\ event'[a].msg.day = today
        /\ pc'[a] = "add" => event'[a].msg.room = TextOf[event'[a].in]
        /\ pc'[a] \in {"add", "next"} /\ today' = today /\ today <= today
    BY <1>1, <1>9, BeginsTells DEF Begins, IsNew
  <2>2. Fine(a)
    BY <2>1 DEF Fine, Busy
  <2>3. ASSUME NEW b \in Actors \ {a}
        PROVE  Fine(b)
    <3>1. pc'[b] = pc[b] /\ event'[b] = event[b]
      BY <1>9 DEF Begins
    <3> QED BY <1>1, <1>2, <2>1, <3>1
  <2> QED BY <2>2, <2>3
<1>10. ASSUME NEW a \in Actors, AddRoomHistory(a)
       PROVE  \A b \in Actors : Fine(b)
  <2>1. /\ pc[a] = "add" /\ pc'[a] = "log"
        /\ \A b \in Actors \ {a} : pc'[b] = pc[b]
        /\ UNCHANGED <<event, today>> /\ today <= today
    BY <1>1, <1>10, AddMoves
  <2> QED BY <1>1, <1>2, <2>1
<1>11. ASSUME NEW a \in Actors, Log(a)
       PROVE  \A b \in Actors : Fine(b)
  <2>1. /\ pc[a] = "log" /\ pc'[a] \in {"next", "cast"}
        /\ \A b \in Actors \ {a} : pc'[b] = pc[b]
        /\ UNCHANGED <<event, today>> /\ today <= today
    BY <1>1, <1>11, LogMoves
  <2>2. "log" \in Busy
    BY DEF Busy
  <2> QED BY <1>1, <1>2, <2>1, <2>2
<1>12. ASSUME NEW k \in RoomKeys, NextRoom(k)
       PROVE  \A b \in Actors : Fine(b)
  <2> DEFINE m == event[Operator].msg
             n == event'[Operator].msg
  <2>1. /\ pc[Operator] = "next" /\ pc'[Operator] = "add" /\ Operator \in Actors
        /\ \A b \in Actors \ {Operator} : pc'[b] = pc[b] /\ event'[b] = event[b]
        /\ today' = today
        /\ event'[Operator].in = k
        /\ n = [m EXCEPT !.day = today, !.room = TextOf[k]]
        /\ n.day = today /\ n.room = TextOf[k]
    <3>1. Operator \in Actors
      BY DEF Actors
    <3> QED BY <1>12, <3>1, NextRoomMoves
  <2>2. Tells(m, S)
    BY <2>1 DEF Telling, Busy
  <2> HIDE DEF m, n
  <2>3. /\ n.type = m.type /\ n.sender = m.sender /\ n.content = m.content
        /\ n.extra = m.extra /\ DOMAIN n = DOMAIN m
    BY <2>1, <2>2 DEF Tells, Fields
  <2>4. Tells(n, S)
    BY <2>2, <2>3 DEF Tells, Written
  <2>7. today <= today
    BY <1>1
  <2>5. Fine(Operator)
    BY <2>1, <2>4, <2>7 DEF Fine, n
  <2>6. \A b \in Actors \ {Operator} : Fine(b)
    BY <1>1, <1>2, <2>1, <2>7
  <2> QED BY <2>5, <2>6
<1> QED BY <1>5, <1>6, <1>7, <1>8, <1>9, <1>10, <1>11, <1>12, Steps

-----------------------------------------------------------------------------
(* Where an event is. *)

(* Every other step leaves the histories as they are, or empties some.     *)
LEMMA HistoryShrinks ==
  ASSUME HistoryInv,
         \/ End \/ Farewell \/ CloseLogger \/ Midnight \/ ClearHistory \/ Passes
         \/ (\E a \in Actors : Begins(a) \/ Log(a))
         \/ (\E k \in RoomKeys : NextRoom(k))
  PROVE  \A k \in RoomKeys : \A i \in DOMAIN history'[k] :
           i \in DOMAIN history[k] /\ history'[k][i] = history[k][i]
<1>1. \A k \in RoomKeys : history'[k] = history[k] \/ history'[k] = <<>>
  BY EndMoves DEF Farewell, CloseLogger, Midnight, ClearHistory, Passes, Begins,
                  Log, NextRoom, memory
<1> QED BY <1>1, EmptyIsSeq

LEMMA ElderKeeps ==
  ASSUME NEW S, HistoryInv, Dated, Telling(S), Elder, [Next]_vars
  PROVE  Elder'
<1>1. today \in Days /\ \A d \in Days : d \in Int
  BY DEF HistoryInv, Types, Days
<1>2. ASSUME today' \in Days, today <= today',
             \A k \in RoomKeys : \A i \in DOMAIN history'[k] :
               \/ i \in DOMAIN history[k] /\ history'[k][i] = history[k][i]
               \/ history'[k][i].msg.day \in Days /\ history'[k][i].msg.day <= today
      PROVE  Elder'
  BY <1>1, <1>2 DEF Elder
<1>3. CASE Start
  <2>1. /\ \A k \in RoomKeys : \A i \in DOMAIN history'[k] :
             history'[k][i].msg.day = today
        /\ today' = today
    BY <1>3, StartMoves
  <2> QED BY <1>1, <2>1 DEF Elder
<1>4. ASSUME NEW a \in Actors, AddRoomHistory(a)
      PROVE  Elder'
  <2>1. /\ pc[a] = "add" /\ today' = today /\ today <= today
        /\ \A k \in RoomKeys : \A i \in DOMAIN history'[k] :
             \/ i \in DOMAIN history[k] /\ history'[k][i] = history[k][i]
             \/ history'[k][i] = event[a]
    BY <1>1, <1>4, AddMoves, AddEntries
  <2>2. event[a].msg.day \in Days /\ event[a].msg.day <= today
    BY <2>1 DEF Telling, HistoryInv, Working, IsEvent, Busy
  <2> QED BY <1>1, <1>2, <2>1, <2>2
<1>5. CASE \/ End \/ Farewell \/ CloseLogger \/ Midnight \/ ClearHistory \/ Passes
           \/ (\E a \in Actors : Begins(a) \/ Log(a))
           \/ (\E k \in RoomKeys : NextRoom(k))
  <2>1. \A k \in RoomKeys : \A i \in DOMAIN history'[k] :
          i \in DOMAIN history[k] /\ history'[k][i] = history[k][i]
    BY <1>5, HistoryShrinks
  <2>2. today' = today \/ (today' = today + 1 /\ today' \in Days)
    BY <1>5 DEF End, Farewell, CloseLogger, Midnight, ClearHistory, Passes, Begins,
                Log, NextRoom, clock
  <2>3. today' \in Days /\ today <= today'
    BY <1>1, <2>2
  <2> QED BY <1>2, <2>1, <2>3
<1> QED BY <1>3, <1>4, <1>5, Steps

(* Two who record have different events, and a new event is nowhere. *)
LEMMA BusyApart ==
  ASSUME HistoryInv, NEW a \in Actors, NEW b \in Actors, a # b,
         pc[a] \in Busy, pc[b] \in Busy
  PROVE  event[a].id # event[b].id
<1>1. event[a].id \in 1..count /\ count \in Nat
  BY DEF HistoryInv, Working, Types
<1>2. event[a].id # 0
  BY <1>1
<1> QED BY <1>2 DEF HistoryInv, Apart

LEMMA NewIsNowhere ==
  ASSUME HistoryInv, Remembered, NEW a \in Actors, Begins(a)
  PROVE  \A k \in RoomKeys : NoneOf(event[a].id, k)'
<1>1. count \in Nat /\ event'[a].id = count + 1 /\ history' = history
  BY DEF HistoryInv, Types, Begins, IsNew
<1>2. \A k \in RoomKeys : \A i \in DOMAIN history[k] : history[k][i].id \in 1..count
  BY DEF Remembered
<1>3. \A n \in 1..count : n # count + 1
  BY <1>1
<1> QED BY <1>1, <1>2, <1>3 DEF NoneOf

LEMMA NowhereStays ==
  ASSUME NEW id, NEW k \in RoomKeys, NoneOf(id, k),
         \A i \in DOMAIN history'[k] :
           i \in DOMAIN history[k] /\ history'[k][i] = history[k][i]
  PROVE  \A i \in DOMAIN history'[k] : history'[k][i].id # id
BY DEF NoneOf

LEMMA TodoKeeps ==
  ASSUME NEW S, HistoryInv, Bounded, Dated, Remembered, Telling(S), Todo,
         [Next]_vars
  PROVE  Todo'
<1> DEFINE o == Operator
<1>1. Operator \in Actors /\ todo \subseteq RoomKeys /\ rooms \subseteq RoomKeys
  BY DEF Actors, Bounded
<1>2. ASSUME todo = {}, todo' = {}
      PROVE  Todo'
  BY <1>2 DEF Todo
<1>3. ASSUME pc'[o] = pc[o], event'[o] = event[o], todo' = todo,
             \A k \in todo : NoneOf(event[o].id, k)'
      PROVE  Todo'
  BY <1>3 DEF Todo, NoneOf
<1>4. CASE Start
  <2>1. pc'[o] \notin Busy /\ pc[o] \notin Busy
    BY <1>1, <1>4, StartMoves
  <2>2. todo' = todo
    BY <1>4 DEF Start, work
  <2>3. todo = {}
    BY <2>1 DEF Todo, Busy
  <2> QED BY <1>2, <2>2, <2>3
<1>5. CASE End
  <2>1. todo' = {} /\ pc'[o] \notin {"next", "add", "log"}
    BY <1>1, <1>5, EndMoves DEF Busy
  <2> QED BY <2>1 DEF Todo
<1>6. CASE \/ Farewell \/ CloseLogger \/ Midnight \/ ClearHistory
  <2>1. UNCHANGED <<pc, event, todo>>
    BY <1>6, ClockMoves
  <2>2. \A k \in RoomKeys : \A i \in DOMAIN history'[k] :
          i \in DOMAIN history[k] /\ history'[k][i] = history[k][i]
    BY <1>6, HistoryShrinks
  <2>3. \A k \in todo : NoneOf(event[o].id, k)'
    BY <1>1, <2>1, <2>2 DEF Todo, NoneOf
  <2> QED BY <1>3, <2>1, <2>3
<1>7. CASE Passes
  <2>1. \A k \in RoomKeys : \A i \in DOMAIN history'[k] :
          i \in DOMAIN history[k] /\ history'[k][i] = history[k][i]
    BY <1>7, HistoryShrinks
  <2>2. todo' = todo
    BY <1>7 DEF Passes
  <2>3. CASE pc'[o] = pc[o] /\ event'[o] = event[o]
    <3>1. \A k \in todo : NoneOf(event[o].id, k)'
      BY <1>1, <2>1, <2>3 DEF Todo, NoneOf
    <3> QED BY <1>3, <2>2, <2>3, <3>1
  <2>4. CASE ~ (pc'[o] = pc[o] /\ event'[o] = event[o])
    <3>1. pc[o] \notin {"add", "log"} /\ (pc[o] = "next" => todo = {})
      BY <1>1, <1>7, <2>4 DEF Passes
    <3>2. todo = {}
      BY <3>1 DEF Todo
    <3> QED BY <1>2, <2>2, <3>2
  <2> QED BY <2>3, <2>4
<1>8. ASSUME NEW a \in Actors, Begins(a)
      PROVE  Todo'
  <2>1. history' = history
    BY <1>8 DEF Begins
  <2>2. CASE a = o
    <3>1. todo = {}
      BY <1>8, <2>2 DEF Begins, Todo, Busy
    <3>2. CASE todo' = todo
      BY <1>2, <3>1, <3>2
    <3>3. CASE todo' = rooms /\ pc'[o] = "next" /\ event'[o].msg.type = "ANNOUNCE"
      <4>1. \A k \in todo' : NoneOf(event[o].id, k)'
        BY <1>1, <1>8, <2>2, <3>3, NewIsNowhere
      <4> QED BY <3>3, <4>1 DEF Todo
    <3> QED BY <1>8, <2>2, <3>2, <3>3 DEF Begins
  <2>3. CASE a # o
    <3>1. pc'[o] = pc[o] /\ event'[o] = event[o] /\ todo' = todo
      BY <1>1, <1>8, <2>3 DEF Begins
    <3>2. \A k \in todo : NoneOf(event[o].id, k)'
      BY <2>1, <3>1 DEF Todo, NoneOf
    <3> QED BY <1>3, <3>1, <3>2
  <2> QED BY <2>2, <2>3
<1>9. ASSUME NEW a \in Actors, AddRoomHistory(a)
      PROVE  Todo'
  <2> DEFINE r == event[a].in
  <2>1. /\ pc[a] = "add" /\ pc'[a] = "log"
        /\ \A b \in Actors \ {a} : pc'[b] = pc[b]
        /\ UNCHANGED <<event, todo>>
        /\ \A k \in RoomKeys \ {r} : history'[k] = history[k]
    BY <1>9, AddMoves
  <2>2. \A k \in RoomKeys : \A i \in DOMAIN history'[k] :
          \/ i \in DOMAIN history[k] /\ history'[k][i] = history[k][i]
          \/ history'[k][i] = event[a]
    BY <1>9, AddEntries
  <2>3. CASE a = o
    <3>1. r \notin todo
      BY <2>1, <2>3 DEF Todo
    <3>2. \A k \in todo : NoneOf(event[o].id, k)'
      BY <1>1, <2>1, <3>1 DEF Todo, NoneOf
    <3>3. pc'[o] = "log" /\ (event[o].msg.type # "ANNOUNCE" => todo = {})
      BY <2>1, <2>3 DEF Todo
    <3> QED BY <2>1, <3>2, <3>3 DEF Todo
  <2>4. CASE a # o
    <3>1. CASE todo = {}
      BY <1>2, <2>1, <3>1
    <3>2. CASE todo # {}
      <4>1. pc[o] \in Busy /\ pc[a] \in Busy
        BY <2>1, <3>2 DEF Todo, Busy
      <4>2. event[a].id # event[o].id
        BY <1>1, <2>4, <4>1, BusyApart
      <4>3. \A k \in todo : NoneOf(event[o].id, k)'
        BY <1>1, <2>1, <2>2, <4>2 DEF Todo, NoneOf
      <4> QED BY <1>1, <1>3, <2>1, <2>4, <4>3
    <3> QED BY <3>1, <3>2
  <2> QED BY <2>3, <2>4
<1>10. ASSUME NEW a \in Actors, Log(a)
       PROVE  Todo'
  <2>1. /\ pc[a] = "log"
        /\ pc'[a] = IF event[a].msg.type = "ANNOUNCE" THEN "next" ELSE "cast"
        /\ \A b \in Actors \ {a} : pc'[b] = pc[b]
        /\ UNCHANGED <<history, event, todo>>
    BY <1>10, LogMoves
  <2>2. \A k \in todo : NoneOf(event[o].id, k)'
    BY <2>1 DEF Todo, NoneOf
  <2>3. CASE a = o
    <3>1. CASE todo = {}
      BY <1>2, <2>1, <3>1
    <3>2. CASE todo # {}
      <4>1. event[o].msg.type = "ANNOUNCE" /\ pc'[o] = "next"
        BY <2>1, <2>3, <3>2 DEF Todo
      <4> QED BY <2>1, <2>2, <4>1 DEF Todo
    <3> QED BY <3>1, <3>2
  <2>4. CASE a # o
    BY <1>1, <1>3, <2>1, <2>2, <2>4
  <2> QED BY <2>3, <2>4
<1>11. ASSUME NEW k \in RoomKeys, NextRoom(k)
       PROVE  Todo'
  <2>1. /\ pc[o] = "next" /\ pc'[o] = "add"
        /\ k \in todo /\ todo' = todo \ {k} /\ history' = history
        /\ event'[o].in = k
        /\ event'[o].msg
              = [event[o].msg EXCEPT !.day = today, !.room = TextOf[k]]
        /\ event'[o].id = event[o].id
    BY <1>11, NextRoomMoves
  <2>2. event[o].msg.type = "ANNOUNCE"
    BY <2>1 DEF Todo
  <2>3. event'[o].msg.type # "ANNOUNCE" => todo' = {}
    <3> DEFINE m == event[o].msg
               n == event'[o].msg
    <3>1. n = [m EXCEPT !.day = today, !.room = TextOf[k]] /\ m.type = "ANNOUNCE"
      BY <2>1, <2>2
    <3>2. Tells(m, S)
      BY <1>1, <2>1 DEF Telling, Busy
    <3> HIDE DEF m, n
    <3>3. n.type = "ANNOUNCE"
      BY <3>1, <3>2 DEF Tells, Fields
    <3> QED BY <3>3 DEF n
  <2>4. \A l \in todo' : NoneOf(event[o].id, l)'
    BY <2>1 DEF Todo, NoneOf
  <2> QED BY <2>1, <2>3, <2>4 DEF Todo
<1> QED BY <1>4, <1>5, <1>6, <1>7, <1>8, <1>9, <1>10, <1>11, Steps

LEMMA NotYetKeeps ==
  ASSUME HistoryInv, Dated, Remembered, Todo, NotYet, [Next]_vars
  PROVE  NotYet'
<1> DEFINE Fine(a) == pc'[a] = "add" => NoneOf(event[a].id, event[a].in)'
<1>1. SUFFICES \A a \in Actors : Fine(a)
  BY DEF NotYet
<1>2. \A a \in Actors : event[a].in \in RoomKeys \/ pc[a] # "add"
  BY DEF HistoryInv, Working, Busy
<1>3. ASSUME NEW a \in Actors, pc'[a] # "add"
      PROVE  Fine(a)
  BY <1>3
<1>4. ASSUME NEW a \in Actors, pc[a] = "add", event'[a] = event[a],
             \A k \in RoomKeys : \A i \in DOMAIN history'[k] :
               \/ i \in DOMAIN history[k] /\ history'[k][i] = history[k][i]
               \/ history'[k][i].id # event[a].id
      PROVE  Fine(a)
  BY <1>2, <1>4 DEF NotYet, NoneOf
<1> HIDE DEF Fine
<1>5. CASE Start
  <2>1. \A a \in Actors : pc'[a] # "add"
    BY <1>5, StartMoves DEF Busy
  <2> QED BY <1>3, <2>1
<1>6. CASE \/ End \/ Farewell \/ CloseLogger \/ Midnight \/ ClearHistory \/ Passes
           \/ \E a \in Actors : Log(a)
  <2>1. \A k \in RoomKeys : \A i \in DOMAIN history'[k] :
          i \in DOMAIN history[k] /\ history'[k][i] = history[k][i]
    BY <1>6, HistoryShrinks
  <2>2. ASSUME NEW b \in Actors
        PROVE  pc'[b] # "add" \/ (pc[b] = "add" /\ event'[b] = event[b])
    <3>1. CASE End
      BY <3>1, EndMoves DEF Busy
    <3>2. CASE Farewell \/ CloseLogger \/ Midnight \/ ClearHistory
      BY <3>2, ClockMoves
    <3>3. CASE Passes
      BY <3>3 DEF Passes
    <3>4. ASSUME NEW a \in Actors, Log(a)
          PROVE  pc'[b] # "add" \/ (pc[b] = "add" /\ event'[b] = event[b])
      <4>1. /\ pc'[a] \in {"next", "cast"}
            /\ \A c \in Actors \ {a} : pc'[c] = pc[c]
            /\ event' = event
        BY <3>4, LogMoves
      <4> QED BY <4>1
    <3> QED BY <1>6, <3>1, <3>2, <3>3, <3>4
  <2> QED BY <1>3, <1>4, <2>1, <2>2
<1>7. ASSUME NEW a \in Actors, Begins(a)
      PROVE  \A b \in Actors : Fine(b)
  <2>1. /\ history' = history /\ event'[a].in \in RoomKeys
        /\ \A b \in Actors \ {a} : pc'[b] = pc[b] /\ event'[b] = event[b]
    BY <1>7 DEF Begins, IsNew
  <2>2. \A k \in RoomKeys : NoneOf(event[a].id, k)'
    BY <1>7, NewIsNowhere
  <2>3. Fine(a)
    BY <2>1, <2>2 DEF Fine, NoneOf
  <2>4. \A b \in Actors \ {a} : Fine(b)
    BY <1>3, <1>4, <2>1
  <2> QED BY <2>3, <2>4
<1>8. ASSUME NEW a \in Actors, AddRoomHistory(a)
      PROVE  \A b \in Actors : Fine(b)
  <2>1. /\ pc[a] = "add" /\ pc'[a] = "log"
        /\ \A b \in Actors \ {a} : pc'[b] = pc[b]
        /\ event' = event
    BY <1>8, AddMoves
  <2>2. \A k \in RoomKeys : \A i \in DOMAIN history'[k] :
          \/ i \in DOMAIN history[k] /\ history'[k][i] = history[k][i]
          \/ history'[k][i] = event[a]
    BY <1>8, AddEntries
  <2>3. ASSUME NEW b \in Actors \ {a}, pc[b] = "add"
        PROVE  event[b].id # event[a].id
    BY <2>1, <2>3, BusyApart DEF Busy
  <2>4. \A b \in Actors \ {a} : pc[b] = "add" => Fine(b)
    BY <1>4, <2>1, <2>2, <2>3
  <2> QED BY <1>3, <2>1, <2>4
<1>9. ASSUME NEW k \in RoomKeys, NextRoom(k)
      PROVE  \A b \in Actors : Fine(b)
  <2>1. /\ \A b \in Actors \ {Operator} : pc'[b] = pc[b] /\ event'[b] = event[b]
        /\ k \in todo /\ history' = history /\ event'[Operator].in = k
        /\ event'[Operator].id = event[Operator].id
    BY <1>9, NextRoomMoves
  <2>2. NoneOf(event[Operator].id, k)
    BY <2>1 DEF Todo
  <2>3. Fine(Operator)
    BY <2>1, <2>2 DEF Fine, NoneOf
  <2>4. \A b \in Actors \ {Operator} : Fine(b)
    BY <1>3, <1>4, <2>1
  <2> QED BY <2>3, <2>4
<1> QED BY <1>5, <1>6, <1>7, <1>8, <1>9, Steps

LEMMA OwnKeeps ==
  ASSUME HistoryInv, Dated, Remembered, Own, [Next]_vars
  PROVE  Own'
<1> DEFINE Fine(a) == pc'[a] \in Busy =>
             \A k \in RoomKeys : \A i \in DOMAIN history'[k] :
               history'[k][i].id = event'[a].id => history'[k][i].in = k
<1>1. SUFFICES \A a \in Actors : Fine(a)
  BY DEF Own
<1>2. ASSUME NEW a \in Actors, pc'[a] \notin Busy
      PROVE  Fine(a)
  BY <1>2
<1>3. ASSUME NEW a \in Actors, pc[a] \in Busy, event'[a].id = event[a].id,
             \A k \in RoomKeys : \A i \in DOMAIN history'[k] :
               \/ i \in DOMAIN history[k] /\ history'[k][i] = history[k][i]
               \/ history'[k][i].in = k
      PROVE  Fine(a)
  BY <1>3 DEF Own
<1> HIDE DEF Fine
<1>4. CASE Start
  BY <1>2, <1>4, StartMoves
<1>5. CASE \/ End \/ Farewell \/ CloseLogger \/ Midnight \/ ClearHistory \/ Passes
           \/ (\E a \in Actors : Log(a)) \/ (\E k \in RoomKeys : NextRoom(k))
  <2>1. \A k \in RoomKeys : \A i \in DOMAIN history'[k] :
          i \in DOMAIN history[k] /\ history'[k][i] = history[k][i]
    BY <1>5, HistoryShrinks
  <2>2. ASSUME NEW b \in Actors
        PROVE  pc'[b] \notin Busy \/ (pc[b] \in Busy /\ event'[b].id = event[b].id)
    <3>1. CASE End
      BY <3>1, EndMoves
    <3>2. CASE Farewell \/ CloseLogger \/ Midnight \/ ClearHistory
      BY <3>2, ClockMoves
    <3>3. CASE Passes
      BY <3>3 DEF Passes
    <3>4. ASSUME NEW a \in Actors, Log(a)
          PROVE  pc'[b] \notin Busy \/ (pc[b] \in Busy /\ event'[b].id = event[b].id)
      <4>1. /\ pc[a] \in Busy
            /\ \A c \in Actors \ {a} : pc'[c] = pc[c]
            /\ event' = event
        BY <3>4, LogMoves DEF Busy
      <4> QED BY <4>1
    <3>5. ASSUME NEW k \in RoomKeys, NextRoom(k)
          PROVE  pc'[b] \notin Busy \/ (pc[b] \in Busy /\ event'[b].id = event[b].id)
      <4>1. /\ pc[Operator] \in Busy
            /\ \A c \in Actors \ {Operator} : pc'[c] = pc[c] /\ event'[c] = event[c]
            /\ event'[Operator].id = event[Operator].id
        BY <3>5, NextRoomMoves DEF Busy
      <4> QED BY <4>1
    <3> QED BY <1>5, <3>1, <3>2, <3>3, <3>4, <3>5
  <2> QED BY <1>2, <1>3, <2>1, <2>2
<1>6. ASSUME NEW a \in Actors, Begins(a)
      PROVE  \A b \in Actors : Fine(b)
  <2>1. /\ history' = history
        /\ \A b \in Actors \ {a} : pc'[b] = pc[b] /\ event'[b] = event[b]
    BY <1>6 DEF Begins
  <2>2. \A k \in RoomKeys : NoneOf(event[a].id, k)'
    BY <1>6, NewIsNowhere
  <2>3. Fine(a)
    BY <2>2 DEF Fine, NoneOf
  <2>4. \A b \in Actors \ {a} : Fine(b)
    BY <1>2, <1>3, <2>1
  <2> QED BY <2>3, <2>4
<1>7. ASSUME NEW a \in Actors, AddRoomHistory(a)
      PROVE  \A b \in Actors : Fine(b)
  <2>1. /\ pc[a] \in Busy /\ \A b \in Actors \ {a} : pc'[b] = pc[b]
        /\ event' = event
    BY <1>7, AddMoves DEF Busy
  <2>2. \A k \in RoomKeys : \A i \in DOMAIN history'[k] :
          \/ i \in DOMAIN history[k] /\ history'[k][i] = history[k][i]
          \/ history'[k][i].in = k
    BY <1>7, AddEntries
  <2> QED BY <1>2, <1>3, <2>1, <2>2
<1> QED BY <1>4, <1>5, <1>6, <1>7, Steps

LEMMA LastOneKeeps ==
  ASSUME HistoryInv, Dated, NotYet, Own, LastOne, [Next]_vars
  PROVE  LastOne'
<1> DEFINE Fine(a) == pc'[a] = "log" =>
             \A k \in RoomKeys : \A i, j \in DOMAIN history'[k] :
               history'[k][i] = event'[a] /\ i < j => history'[k][j].by # a
<1>1. SUFFICES \A a \in Actors : Fine(a)
  BY DEF LastOne
<1>2. ASSUME NEW a \in Actors, pc'[a] # "log"
      PROVE  Fine(a)
  BY <1>2
<1>3. ASSUME NEW a \in Actors, pc[a] = "log", event'[a] = event[a],
             \A k \in RoomKeys : \A i \in DOMAIN history'[k] :
               i \in DOMAIN history[k] /\ history'[k][i] = history[k][i]
      PROVE  Fine(a)
  BY <1>3 DEF LastOne
<1> HIDE DEF Fine
<1>4. CASE Start
  <2>1. \A a \in Actors : pc'[a] # "log"
    BY <1>4, StartMoves DEF Busy
  <2> QED BY <1>2, <2>1
<1>5. CASE \/ End \/ Farewell \/ CloseLogger \/ Midnight \/ ClearHistory \/ Passes
           \/ (\E a \in Actors : Begins(a) \/ Log(a))
           \/ (\E k \in RoomKeys : NextRoom(k))
  <2>1. \A k \in RoomKeys : \A i \in DOMAIN history'[k] :
          i \in DOMAIN history[k] /\ history'[k][i] = history[k][i]
    BY <1>5, HistoryShrinks
  <2>2. ASSUME NEW b \in Actors
        PROVE  pc'[b] # "log" \/ (pc[b] = "log" /\ event'[b] = event[b])
    <3>1. CASE End
      BY <3>1, EndMoves
    <3>2. CASE Farewell \/ CloseLogger \/ Midnight \/ ClearHistory
      BY <3>2, ClockMoves
    <3>3. CASE Passes
      BY <3>3 DEF Passes
    <3>4. ASSUME NEW a \in Actors, Log(a)
          PROVE  pc'[b] # "log" \/ (pc[b] = "log" /\ event'[b] = event[b])
      BY <3>4, LogMoves
    <3>5. ASSUME NEW k \in RoomKeys, NextRoom(k)
          PROVE  pc'[b] # "log" \/ (pc[b] = "log" /\ event'[b] = event[b])
      BY <3>5, NextRoomMoves
    <3>6. ASSUME NEW a \in Actors, Begins(a)
          PROVE  pc'[b] # "log" \/ (pc[b] = "log" /\ event'[b] = event[b])
      BY <3>6 DEF Begins
    <3> QED BY <1>5, <3>1, <3>2, <3>3, <3>4, <3>5, <3>6
  <2> QED BY <1>2, <1>3, <2>1, <2>2
<1>6. ASSUME NEW a \in Actors, AddRoomHistory(a)
      PROVE  \A b \in Actors : Fine(b)
  <2> DEFINE r == event[a].in
             n == Len(history[r])
  <2>1. /\ pc[a] = "add" /\ pc'[a] = "log"
        /\ \A b \in Actors \ {a} : pc'[b] = pc[b]
        /\ event' = event /\ n \in Nat /\ DOMAIN history[r] = 1..n
        /\ DOMAIN history'[r] = 1..(n + 1)
    BY <1>6, AddMoves
  <2>2. \A k \in RoomKeys : \A i \in DOMAIN history'[k] :
          \/ i \in DOMAIN history[k] /\ history'[k][i] = history[k][i]
          \/ k = r /\ i = n + 1 /\ history'[k][i] = event[a]
    BY <1>6, AddEntries
  <2>3. /\ event[a].by = a /\ pc[a] \in Busy
        /\ \A i \in 1..n : i < n + 1 /\ ~ (n + 1 < i)
    BY <2>1 DEF HistoryInv, Working, Busy
  <2>4. NoneOf(event[a].id, r)
    BY <2>1 DEF NotYet
  <2> HIDE DEF n
  <2>5. ASSUME NEW k \in RoomKeys, NEW i \in DOMAIN history'[k],
               NEW j \in DOMAIN history'[k], history'[k][i] = event[a], i < j
        PROVE  FALSE
    <3>1. CASE i \in DOMAIN history[k] /\ history'[k][i] = history[k][i]
      <4>1. history[k][i].in = k
        BY <2>3, <2>5, <3>1 DEF Own
      <4>2. k = r
        BY <2>5, <3>1, <4>1
      <4> QED BY <2>4, <2>5, <3>1, <4>2 DEF NoneOf
    <3>2. CASE k = r /\ i = n + 1
      <4>1. j \in 1..(n + 1)
        BY <2>1, <2>5, <3>2
      <4> QED BY <2>1, <2>5, <3>2, <4>1
    <3> QED BY <2>2, <2>5, <3>1, <3>2
  <2>6. Fine(a)
    BY <2>1, <2>5 DEF Fine
  <2>7. ASSUME NEW b \in Actors \ {a}, pc[b] = "log",
               NEW k \in RoomKeys, NEW i \in DOMAIN history'[k],
               NEW j \in DOMAIN history'[k], history'[k][i] = event[b], i < j
        PROVE  history'[k][j].by # b
    <3>1. event[b].id # event[a].id
      BY <2>3, <2>7, BusyApart DEF Busy
    <3>2. i \in DOMAIN history[k] /\ history[k][i] = event[b]
      BY <2>2, <2>7, <3>1
    <3>3. CASE j \in DOMAIN history[k] /\ history'[k][j] = history[k][j]
      BY <2>7, <3>2, <3>3 DEF LastOne
    <3>4. CASE history'[k][j] = event[a]
      BY <2>3, <2>7, <3>4
    <3> QED BY <2>2, <2>7, <3>3, <3>4
  <2>8. \A b \in Actors \ {a} : Fine(b)
    BY <2>1, <2>7 DEF Fine
  <2> QED BY <2>6, <2>8
<1> QED BY <1>4, <1>5, <1>6, Steps

-----------------------------------------------------------------------------
(* What lasts is brought back, step by step. *)

(* Nothing new lasts, and what is brought back stays. *)
LEMMA StillInOrder ==
  ASSUME NEW now, NEW new, NEW back, NEW more, NEW i, NEW j,
         InOrder(now, back, i, j), new[i] = now[i], new[j] = now[j],
         \A k \in DOMAIN back : k \in DOMAIN more /\ more[k] = back[k]
  PROVE  InOrder(new, more, i, j)
<1>1. PICK k \in DOMAIN back, l \in DOMAIN back :
        /\ Looks(back[k]) = Looks(now[i])
        /\ Looks(back[l]) = Looks(now[j])
        /\ k <= l /\ (i < j => k < l)
  BY DEF InOrder
<1>2. /\ k \in DOMAIN more /\ l \in DOMAIN more
      /\ Looks(more[k]) = Looks(new[i]) /\ Looks(more[l]) = Looks(new[j])
  BY <1>1
<1> QED BY <1>1, <1>2 DEF InOrder

LEMMA RoomKeptStays ==
  ASSUME NEW r, RoomKept(r),
         \A i \in DOMAIN history'[r] : Lasts(r, i)' =>
           Lasts(r, i) /\ history'[r][i] = history[r][i],
         LET back == RecoverHistory(log[today], r)
             more == RecoverHistory(log'[today'], r) IN
         \A k \in DOMAIN back : k \in DOMAIN more /\ more[k] = back[k]
  PROVE  RoomKept(r)'
<1> DEFINE now == history[r]
           new == history'[r]
           back == RecoverHistory(log[today], r)
           more == RecoverHistory(log'[today'], r)
<1>1. ASSUME NEW i \in DOMAIN new, NEW j \in DOMAIN new, Lasts(r, i)', Lasts(r, j)',
             i <= j, new[i].by = new[j].by
      PROVE  InOrder(new, more, i, j)
  <2>1. /\ Lasts(r, i) /\ Lasts(r, j) /\ new[i] = now[i] /\ new[j] = now[j]
    BY <1>1
  <2>2. i \in DOMAIN now /\ j \in DOMAIN now
    BY <2>1 DEF Lasts
  <2>3. InOrder(now, back, i, j)
    BY <1>1, <2>1, <2>2 DEF RoomKept
  <2>4. \A k \in DOMAIN back : k \in DOMAIN more /\ more[k] = back[k]
    OBVIOUS
  <2> HIDE DEF now, new, back, more
  <2> QED BY <2>1, <2>3, <2>4, StillInOrder
<1> QED BY <1>1 DEF RoomKept

LEMMA QuietKept ==
  ASSUME HistoryInv, AllKept,
         phase' \in {"up", "bye"} => phase \in {"up", "bye"},
         UNCHANGED today, log'[today] = log[today],
         \A k \in RoomKeys : \A i \in DOMAIN history'[k] :
           i \in DOMAIN history[k] /\ history'[k][i] = history[k][i],
         \A a \in Actors : pc[a] = "log" => pc'[a] = "log" /\ event'[a] = event[a]
  PROVE  AllKept'
<1>1. ASSUME NEW r \in Rooms, RoomKept(r)
      PROVE  RoomKept(r)'
  <2>1. ASSUME NEW i \in DOMAIN history'[r], Lasts(r, i)'
        PROVE  Lasts(r, i) /\ history'[r][i] = history[r][i]
    <3>1. r \in RoomKeys
      BY DEF RoomKeys
    <3>2. i \in DOMAIN history[r] /\ history'[r][i] = history[r][i]
      BY <3>1
    <3>3. /\ history'[r][i].msg.day = today
          /\ \A a \in Actors : pc'[a] = "log" => event'[a] # history'[r][i]
      BY <2>1 DEF Lasts, Settled
    <3>5. \A a \in Actors : pc[a] = "log" => event[a] # history[r][i]
      BY <3>2, <3>3
    <3> QED BY <3>2, <3>3, <3>5 DEF Lasts, Settled
  <2> DEFINE back == RecoverHistory(log[today], r)
             more == RecoverHistory(log'[today'], r)
  <2>2. \A k \in DOMAIN back : k \in DOMAIN more /\ more[k] = back[k]
    <3>1. log'[today'] = log[today]
      OBVIOUS
    <3> QED BY <3>1
  <2> QED BY <1>1, <2>1, <2>2, RoomKeptStays
<1> QED BY <1>1 DEF AllKept

LEMMA StartKept ==
  ASSUME Start PROVE AllKept'
<1>1. /\ today' = today /\ NoRoom \notin Rooms
      /\ history' = [k \in RoomKeys |->
             IF k = NoRoom THEN <<>> ELSE RecoverHistory(log'[today], k)]
  BY HistoryAssumption DEF HistoryAssumption, Start
<1>2. ASSUME NEW r \in Rooms PROVE RoomKept(r)'
  <2> DEFINE now == history'[r]
  <2>1. RecoverHistory(log'[today'], r) = now
    BY <1>1 DEF RoomKeys
  <2> HIDE DEF now
  <2>2. ASSUME NEW i \in DOMAIN now, NEW j \in DOMAIN now, i <= j
        PROVE  InOrder(now, now, i, j)
    BY <2>2 DEF InOrder
  <2> QED BY <2>1, <2>2 DEF RoomKept, now
<1> QED BY <1>2 DEF AllKept

LEMMA FarewellKept ==
  ASSUME HistoryInv, AllKept, Farewell PROVE AllKept'
<1> DEFINE e == ServerEvent("farewell")
           file == log[today]
           new == log'[today]
<1>1. /\ phase = "up" /\ WriteLog(e) /\ today \in Days /\ e.msg.day = today
      /\ UNCHANGED <<today, history, pc, event>>
  BY ServerEventDay DEF Farewell, clock, memory, work, HistoryInv, Types
<1>2. ~ Kept(Parsed(Lined(e)))
  <2>1. "farewell" # Blank
    BY DEF Blank
  <2> QED BY <2>1, ServerLineIsSkipped DEF Lined
<1>3. new = file \/ new = Append(file, Lined(e))
  <2> HIDE DEF e
  <2> QED BY <1>1, WriteLogLines DEF HistoryInv
<1>4. IsSeq(file)
  BY <1>1 DEF HistoryInv, Types
<1>5. ASSUME NEW r \in Rooms, RoomKept(r)
      PROVE  RoomKept(r)'
  <2> HIDE DEF file, new, e
  <2>1. ~ IsOf(Lined(e), r)
    BY <1>2 DEF IsOf
  <2> DEFINE x == Lined(e)
  <2>2. RecoverHistory(new, r) = RecoverHistory(file, r)
    <3> HIDE DEF x
    <3>1. ~ IsOf(x, r)
      BY <2>1 DEF x
    <3>2. RecoverHistory(Append(file, x), r) = RecoverHistory(file, r)
      BY <1>4, <3>1, RecoverGrows, SMTT(30)
    <3>3. new = file \/ new = Append(file, x)
      BY <1>3 DEF x
    <3> QED BY <3>2, <3>3
  <2>3. RecoverHistory(log'[today'], r) = RecoverHistory(log[today], r)
    BY <1>1, <2>2 DEF file, new
  <2>4. \A i \in DOMAIN history'[r] : Lasts(r, i)' =>
           Lasts(r, i) /\ history'[r][i] = history[r][i]
    BY <1>1 DEF Lasts, Settled
  <2>5. LET back == RecoverHistory(log[today], r)
            more == RecoverHistory(log'[today'], r) IN
        \A k \in DOMAIN back : k \in DOMAIN more /\ more[k] = back[k]
    BY <2>3
  <2> QED BY <1>5, <2>4, <2>5, RoomKeptStays
<1> QED BY <1>1, <1>5 DEF AllKept

LEMMA ClockKept ==
  ASSUME HistoryInv, Elder, AllKept,
         End \/ CloseLogger \/ Midnight \/ ClearHistory
  PROVE  AllKept'
<1>1. CASE End \/ CloseLogger
  BY <1>1 DEF End, CloseLogger, AllKept
<1>2. CASE Midnight
  <2>1. today' = today + 1 /\ UNCHANGED history /\ today \in Days
        /\ \A d \in Days : d \in Int
    BY <1>2 DEF Midnight, memory, HistoryInv, Types, Days
  <2>2. ASSUME NEW r \in Rooms, NEW i \in DOMAIN history'[r]
        PROVE  ~ Lasts(r, i)'
    <3>1. /\ history[r][i].msg.day \in Days /\ history[r][i].msg.day <= today
      BY <2>1, <2>2 DEF Elder, RoomKeys
    <3>2. history[r][i].msg.day # today'
      BY <2>1, <3>1
    <3> QED BY <2>1, <3>2 DEF Lasts
  <2> QED BY <2>2 DEF AllKept, RoomKept
<1>3. CASE ClearHistory
  <2>1. \A r \in Rooms : DOMAIN history'[r] = {}
    BY <1>3, EmptyIsSeq DEF ClearHistory, RoomKeys
  <2> QED BY <2>1 DEF AllKept, RoomKept
<1> QED BY <1>1, <1>2, <1>3

LEMMA AddKept ==
  ASSUME HistoryInv, AllKept, NEW a \in Actors, AddRoomHistory(a)
  PROVE  AllKept'
<1>1. /\ pc[a] = "add" /\ pc'[a] = "log"
      /\ \A b \in Actors \ {a} : pc'[b] = pc[b]
      /\ UNCHANGED <<event, phase, today, log>>
  BY AddMoves
<1>2. \A k \in RoomKeys : \A i \in DOMAIN history'[k] :
         \/ i \in DOMAIN history[k] /\ history'[k][i] = history[k][i]
         \/ history'[k][i] = event[a]
  BY AddEntries
<1>3. ASSUME NEW r \in Rooms, RoomKept(r)
      PROVE  RoomKept(r)'
  <2>1. ASSUME NEW i \in DOMAIN history'[r], Lasts(r, i)'
        PROVE  Lasts(r, i) /\ history'[r][i] = history[r][i]
    <3>1. history'[r][i] # event[a]
      BY <1>1, <2>1 DEF Lasts, Settled
    <3>2. i \in DOMAIN history[r] /\ history'[r][i] = history[r][i]
      BY <1>2, <3>1 DEF RoomKeys
    <3>3. Settled(history[r][i])
      BY <1>1, <2>1, <3>2 DEF Lasts, Settled
    <3> QED BY <1>1, <2>1, <3>2, <3>3 DEF Lasts
  <2>2. RecoverHistory(log'[today'], r) = RecoverHistory(log[today], r)
    BY <1>1
  <2> QED BY <1>3, <2>1, <2>2, RoomKeptStays
<1> QED BY <1>1, <1>3 DEF AllKept

(* The line of an event that lasts from now on is written. *)
LEMMA LogKept ==
  ASSUME NEW S, ValidTexts(S), HistoryInv, Telling(S), Own, LastOne, AllKept,
         NEW a \in Actors, Log(a)
  PROVE  AllKept'
<1> DEFINE e == event[a]
           file == log[today]
           new == log'[today]
<1>1. /\ pc[a] = "log" /\ pc[a] \in Busy /\ pc'[a] # "log"
      /\ \A b \in Actors \ {a} : pc'[b] = pc[b]
      /\ WriteLog(e)
      /\ UNCHANGED <<phase, today, history, event>>
  BY LogMoves DEF Busy
<1>2. /\ IsEvent(e) /\ e.by = a /\ Written(e.msg, S) /\ e.msg.room = TextOf[e.in]
      /\ e.msg.day \in Days
  BY <1>1 DEF HistoryInv, Working, Telling, Tells, IsEvent
<1>3. today \in Days /\ IsSeq(file)
  BY DEF HistoryInv, Types
<1>4. ASSUME NEW r \in Rooms, NEW i \in DOMAIN history[r], history[r][i] = e
      PROVE  /\ e.in = r /\ IsOf(Lined(e), r)
             /\ Looks(Recovered(Lined(e), r)) = Looks(e)
             /\ \A j \in DOMAIN history[r] : i < j => history[r][j].by # a
  <2>1. r \in RoomKeys
    BY DEF RoomKeys
  <2>2. history[r][i].in = r
    BY <1>1, <1>4, <2>1 DEF Own
  <2>3. e.in = r /\ e.msg.room = TextOf[r]
    BY <1>2, <1>4, <2>2
  <2>4. \A j \in DOMAIN history[r] : i < j => history[r][j].by # a
    BY <1>1, <1>4, <2>1 DEF LastOne
  <2> HIDE DEF e
  <2>5. IsOf(Lined(e), r) /\ Looks(Recovered(Lined(e), r)) = Looks(e)
    BY <1>2, <2>3, LineComesBack
  <2> QED BY <2>3, <2>4, <2>5
<1>5. /\ new = file \/ new = Append(file, Lined(e))
      /\ phase # "closed" /\ e.msg.day = today => new = Append(file, Lined(e))
  <2>1. new = file \/ new = Append(file, Lined(e))
    <3> HIDE DEF e
    <3> QED BY <1>1, <1>2, <1>3, WriteLogLines DEF HistoryInv
  <2>2. phase # "closed" /\ e.msg.day = today => new = Append(file, Lined(e))
    BY <1>1, <1>3 DEF WriteLog, EnsureFile, Lined, HistoryInv, Types
  <2> QED BY <2>1, <2>2
<1>6. ASSUME NEW r \in Rooms, RoomKept(r), phase \in {"up", "bye"}
      PROVE  RoomKept(r)'
  <2> DEFINE now == history[r]
             back == RecoverHistory(file, r)
             more == RecoverHistory(new, r)
             m == Len(back)
             x == Lined(e)
  <2>1. /\ \A k \in DOMAIN back : k \in DOMAIN more /\ more[k] = back[k]
        /\ DOMAIN back = 1..m /\ m \in Nat
        /\ new = Append(file, x) /\ IsOf(x, r) =>
             m + 1 \in DOMAIN more /\ more[m + 1] = Recovered(x, r)
    <3> HIDE DEF file, new, e, x
    <3>1. x = Lined(e)
      BY DEF x
    <3>2. CASE new = Append(file, x)
      BY <1>3, <3>2, RecoverGrows
    <3>3. CASE new = file /\ new # Append(file, x)
      <4>1. IsSeq(back)
        BY <1>3, RecoverIsSeq
      <4> HIDE DEF back
      <4>2. DOMAIN back = 1..m /\ m \in Nat
        BY <4>1, AppendIsSeq
      <4> QED BY <3>3, <4>2 DEF back
    <3> QED BY <1>5, <3>1, <3>2, <3>3
  <2>2. ASSUME NEW i \in DOMAIN now, Lasts(r, i)'
        PROVE  Lasts(r, i) \/ (now[i] = e /\ e.msg.day = today)
    BY <1>1, <2>2 DEF Lasts, Settled
  <2>3. \A i \in DOMAIN now : now[i] = e /\ e.msg.day = today =>
          /\ m + 1 \in DOMAIN more /\ Looks(more[m + 1]) = Looks(now[i])
          /\ \A j \in DOMAIN now : i < j => now[j].by # a
    BY <1>4, <1>5, <1>6, <2>1
  <2>4. ASSUME NEW i \in DOMAIN now, NEW j \in DOMAIN now, Lasts(r, i)',
               Lasts(r, j)', i <= j, now[i].by = now[j].by
        PROVE  InOrder(now, more, i, j)
    <3>1. CASE Lasts(r, i) /\ Lasts(r, j)
      <4>1. InOrder(now, back, i, j)
        BY <1>6, <2>4, <3>1 DEF RoomKept
      <4> HIDE DEF now, back, more
      <4> QED BY <2>1, <4>1, StillInOrder
    <3>2. CASE now[i] = e /\ e.msg.day = today
      <4>1. ~ (i < j)
        BY <1>2, <2>3, <2>4, <3>2
      <4>2. i \in Nat /\ j \in Nat
        <5>1. IsSeq(now)
          BY DEF HistoryInv, Types, RoomKeys
        <5> HIDE DEF now
        <5>2. DOMAIN now = 1..Len(now) /\ Len(now) \in Nat
          BY <5>1, AppendIsSeq
        <5> QED BY <5>2
      <4>3. i = j
        BY <2>4, <4>1, <4>2
      <4>4. m + 1 \in DOMAIN more /\ Looks(more[m + 1]) = Looks(now[i])
        BY <2>3, <3>2
      <4>5. m + 1 <= m + 1
        BY <2>1
      <4> HIDE DEF now, back, more, m
      <4> QED BY <4>1, <4>3, <4>4, <4>5 DEF InOrder
    <3>3. CASE Lasts(r, i) /\ now[j] = e /\ e.msg.day = today
      <4>1. InOrder(now, back, i, i)
        <5>1. i <= i
          <6>1. IsSeq(now)
            BY DEF HistoryInv, Types, RoomKeys
          <6> HIDE DEF now
          <6>2. DOMAIN now = 1..Len(now) /\ Len(now) \in Nat
            BY <6>1, AppendIsSeq
          <6> QED BY <6>2
        <5> QED BY <1>6, <3>3, <5>1 DEF RoomKept
      <4>2. PICK k \in DOMAIN back : Looks(back[k]) = Looks(now[i])
        BY <4>1 DEF InOrder
      <4>3. k \in DOMAIN more /\ Looks(more[k]) = Looks(now[i])
        BY <2>1, <4>2
      <4>4. m + 1 \in DOMAIN more /\ Looks(more[m + 1]) = Looks(now[j])
        BY <2>3, <3>3
      <4>5. k <= m + 1 /\ k < m + 1
        BY <2>1, <4>2
      <4> HIDE DEF now, back, more, m
      <4> QED BY <4>3, <4>4, <4>5 DEF InOrder
    <3> QED BY <2>2, <2>4, <3>1, <3>2, <3>3
  <2> HIDE DEF e
  <2>5. history' = history /\ log'[today'] = new
    BY <1>1
  <2> QED BY <2>4, <2>5 DEF RoomKept
<1> QED BY <1>1, <1>6 DEF AllKept

LEMMA KeptKeeps ==
  ASSUME NEW S, ValidTexts(S), HistoryInv, Telling(S), Elder, Own, LastOne,
         AllKept, [Next]_vars
  PROVE  AllKept'
<1>1. CASE Start \/ Farewell
  BY <1>1, StartKept, FarewellKept
<1>2. CASE End \/ CloseLogger \/ Midnight \/ ClearHistory
  BY <1>2, ClockKept
<1>3. ASSUME NEW a \in Actors, AddRoomHistory(a) \/ Log(a)
      PROVE  AllKept'
  BY <1>3, AddKept, LogKept
<1>4. CASE Passes
  <2>1. /\ UNCHANGED <<phase, today, log>>
        /\ \A a \in Actors : pc[a] = "log" => pc'[a] = "log" /\ event'[a] = event[a]
    BY <1>4 DEF Passes
  <2>2. \A k \in RoomKeys : \A i \in DOMAIN history'[k] :
           i \in DOMAIN history[k] /\ history'[k][i] = history[k][i]
    BY <1>4, HistoryShrinks
  <2> QED BY <2>1, <2>2, QuietKept
<1>5. ASSUME NEW a \in Actors, Begins(a)
      PROVE  AllKept'
  <2>1. /\ UNCHANGED <<phase, today, log, history>>
        /\ \A b \in Actors : pc[b] = "log" => pc'[b] = "log" /\ event'[b] = event[b]
    BY <1>5 DEF Begins, Busy
  <2> QED BY <2>1, QuietKept
<1>6. ASSUME NEW k \in RoomKeys, NextRoom(k)
      PROVE  AllKept'
  <2>1. /\ UNCHANGED <<phase, today, log, history>>
        /\ \A b \in Actors : pc[b] = "log" => pc'[b] = "log" /\ event'[b] = event[b]
    BY <1>6, NextRoomMoves
  <2> QED BY <2>1, QuietKept
<1> QED BY <1>1, <1>2, <1>3, <1>4, <1>5, <1>6, Steps

-----------------------------------------------------------------------------
LEMMA InitRestart ==
  ASSUME NEW S, ValidTexts(S), Init PROVE RestartInv(S)
<1>1. /\ name = NameOf /\ phase = "down" /\ todo = {}
      /\ \A a \in Actors : pc[a] \notin Busy
      /\ \A k \in RoomKeys : history[k] = <<>> /\ DOMAIN history[k] = {}
      /\ Operator \in Actors
  BY EmptyIsSeq DEF Init, Busy, Actors
<1>2. Named(S) /\ Telling(S) /\ Elder
  BY <1>1 DEF ValidTexts, Named, Telling, Elder, Busy
<1>3. Todo /\ NotYet /\ Own /\ LastOne /\ AllKept
  BY <1>1 DEF Todo, NotYet, Own, LastOne, AllKept, Busy
<1> QED BY <1>2, <1>3 DEF RestartInv

LEMMA RestartInvHolds ==
  ASSUME NEW S, ValidTexts(S) PROVE Spec => []RestartInv(S)
<1>1. Init => RestartInv(S)
  BY InitRestart
<1>2. HistoryInv /\ MemoryInv /\ RestartInv(S) /\ [Next]_vars => RestartInv(S)'
  BY NamedKeeps, TellingKeeps, ElderKeeps, TodoKeeps, NotYetKeeps, OwnKeeps,
     LastOneKeeps, KeptKeeps DEF RestartInv, MemoryInv
<1> QED BY <1>1, <1>2, HistoryInvHolds, MemoryInvHolds, PTL DEF Spec

(* At any moment but between the closing of the logger and the end, a      *)
(* restart would show every room what it remembers of the day: all that    *)
(* is written comes back into the same room, looks the same and keeps the  *)
(* order of each author; however records interleave, midnight passes,      *)
(* rooms come and go, and whatever users say and call themselves.          *)
THEOREM NothingIsLostByRestarting ==
  ASSUME NEW S, ValidTexts(S)
  PROVE  Spec => []RestartKeepsHistory
<1>1. RestartInv(S) => RestartKeepsHistory
  BY DEF RestartInv, AllKept, RoomKept, Lasts, InOrder, RestartKeepsHistory
<1> QED BY <1>1, RestartInvHolds, PTL
=============================================================================
