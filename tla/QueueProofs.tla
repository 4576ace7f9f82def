----------------------------- MODULE QueueProofs -----------------------------
(***************************************************************************)
(* The waiting queues: who is in one waits for it and was not admitted,    *)
(* admissions are in order, nobody loses his place, and a moderation       *)
(* reason stays, whatever users, moderators and Shutdown do meanwhile.     *)
(***************************************************************************)
EXTENDS TypeProofs, SequenceTheorems

Waits == {"ask", "wait"}

(* Handlers that have not been in a queue yet. *)
Early == {"off", "tracked", "name", "room", "check", "enqueue"}

(* Who has not queued has not been admitted: with this the append of       *)
(* checkOrQueueRoom puts nobody into a queue whose channel is closed.      *)
Unadmitted == \A c \in Conns : pc[c] \in Early => c \notin admit

Sound == QueueSound /\ Unadmitted

(* Every entry of r is one of q, and r repeats nobody unless q does. *)
Thins(q, r) ==
  /\ \A j \in DOMAIN r : \E i \in DOMAIN q : r[j] = q[i]
  /\ Distinct(q) => Distinct(r)

-----------------------------------------------------------------------------
(* What is left of a queue. *)

(* A queue's entries are connections. *)
LEMMA EntryTyped ==
  ASSUME TypeOK, NEW k \in RoomKeys, NEW i \in DOMAIN queue[k]
  PROVE  queue[k][i] \in Conns
<1>1. queue[k] \in Seq(Conns)
  BY DEF TypeOK
<1> QED BY <1>1

(* admitFromRoomQueue cuts a prefix off. *)
LEMMA SuffixThins ==
  ASSUME NEW q \in Seq(Conns), NEW i \in DOMAIN q, NEW r,
         r = SubSeq(q, i + 1, Len(q))
  PROVE  /\ Thins(q, r) /\ Len(r) = Len(q) - i
         /\ DOMAIN r = 1..(Len(q) - i)
         /\ \A j \in DOMAIN r : j + i \in DOMAIN q /\ r[j] = q[j + i]
<1>1. i \in 1..Len(q) /\ Len(q) \in Nat /\ DOMAIN q = 1..Len(q)
  OBVIOUS
<1>2. \A j \in (i + 1)..Len(q) : q[j] \in Conns
  BY <1>1
<1>3. /\ r \in Seq(Conns)
      /\ Len(r) = IF i + 1 <= Len(q) THEN Len(q) - (i + 1) + 1 ELSE 0
      /\ \A j \in 1..(Len(q) - (i + 1) + 1) : r[j] = q[i + 1 + j - 1]
  <2>1. i + 1 \in Int /\ Len(q) \in Int
    BY <1>1
  <2> QED BY <1>2, <2>1, SubSeqProperties
<1>4. Len(r) = Len(q) - i /\ DOMAIN r = 1..(Len(q) - i)
  <2>1. Len(r) = Len(q) - i
    BY <1>1, <1>3
  <2> QED BY <1>3, <2>1
<1>5. ASSUME NEW j \in DOMAIN r
      PROVE  j + i \in DOMAIN q /\ r[j] = q[j + i]
  <2>1. j \in 1..(Len(q) - (i + 1) + 1) /\ i + 1 + j - 1 = j + i
    BY <1>1, <1>4
  <2>2. r[j] = q[j + i]
    BY <1>3, <2>1
  <2> QED BY <1>1, <1>4, <2>2
<1>6. Distinct(q) => Distinct(r)
  <2>1. ASSUME Distinct(q), NEW j \in DOMAIN r, NEW l \in DOMAIN r, r[j] = r[l]
        PROVE  j = l
    <3>1. j + i \in DOMAIN q /\ l + i \in DOMAIN q /\ q[j + i] = q[l + i]
      BY <2>1, <1>5
    <3>2. j + i = l + i
      BY <2>1, <3>1 DEF Distinct
    <3> QED BY <3>2, <1>1, <1>4
  <2> QED BY <2>1 DEF Distinct
<1> QED BY <1>4, <1>5, <1>6 DEF Thins

(* removeFromRoomQueue cuts one entry out. *)
LEMMA CutThins ==
  ASSUME NEW q \in Seq(Conns), NEW i \in DOMAIN q, NEW r,
         r = SubSeq(q, 1, i - 1) \o SubSeq(q, i + 1, Len(q))
  PROVE  /\ Thins(q, r)
         /\ DOMAIN r = 1..(Len(q) - 1)
         /\ \A j \in DOMAIN r : r[j] = IF j < i THEN q[j] ELSE q[j + 1]
<1> DEFINE s == SubSeq(q, 1, i - 1)
           t == SubSeq(q, i + 1, Len(q))
<1>1. i \in 1..Len(q) /\ Len(q) \in Nat /\ DOMAIN q = 1..Len(q)
  OBVIOUS
<1>2. s \in Seq(Conns) /\ Len(s) = i - 1 /\ \A j \in 1..(i - 1) : s[j] = q[j]
  <2>1. 1 \in Int /\ i - 1 \in Int /\ \A j \in 1..(i - 1) : q[j] \in Conns
    BY <1>1
  <2>2. /\ s \in Seq(Conns) /\ Len(s) = IF 1 <= i - 1 THEN i - 1 - 1 + 1 ELSE 0
        /\ \A j \in 1..(i - 1 - 1 + 1) : s[j] = q[1 + j - 1]
    BY <2>1, SubSeqProperties
  <2> HIDE DEF s
  <2> QED BY <2>2, <1>1
<1>3. t \in Seq(Conns) /\ Len(t) = Len(q) - i
      /\ \A j \in 1..(Len(q) - i) : t[j] = q[j + i]
  <2>1. /\ DOMAIN t = 1..(Len(q) - i) /\ Len(t) = Len(q) - i
        /\ \A j \in DOMAIN t : t[j] = q[j + i]
    BY SuffixThins
  <2>2. t \in Seq(Conns)
    BY <1>1
  <2> HIDE DEF t
  <2> QED BY <2>1, <2>2, <1>1
<1> HIDE DEF s, t
<1>4. /\ r \in Seq(Conns) /\ Len(r) = Len(q) - 1
      /\ \A j \in 1..(Len(q) - 1) :
           r[j] = IF j <= i - 1 THEN s[j] ELSE t[j - (i - 1)]
  <2>1. r = s \o t
    BY DEF s, t
  <2>2. s \in Seq(Conns) /\ t \in Seq(Conns)
    BY <1>2, <1>3
  <2>3. /\ s \o t \in Seq(Conns) /\ Len(s \o t) = Len(s) + Len(t)
        /\ \A j \in 1..(Len(s) + Len(t)) :
             (s \o t)[j] = IF j <= Len(s) THEN s[j] ELSE t[j - Len(s)]
    BY <2>2, ConcatProperties, Zenon
  <2>4. Len(s) = i - 1 /\ Len(s) + Len(t) = Len(q) - 1
    BY <1>1, <1>2, <1>3
  <2> QED BY <2>1, <2>3, <2>4, Zenon
<1>5. DOMAIN r = 1..(Len(q) - 1)
  BY <1>4
<1>6. ASSUME NEW j \in DOMAIN r
      PROVE  /\ r[j] = IF j < i THEN q[j] ELSE q[j + 1]
             /\ j \in DOMAIN q /\ j + 1 \in DOMAIN q
  <2>1. j \in 1..(Len(q) - 1)
    BY <1>5
  <2>2. j \in DOMAIN q /\ j + 1 \in DOMAIN q
    BY <1>1, <2>1
  <2>3. CASE j < i
    <3>1. j <= i - 1 /\ j \in 1..(i - 1)
      BY <1>1, <2>1, <2>3
    <3> QED BY <3>1, <1>2, <1>4, <2>1, <2>2, <2>3
  <2>4. CASE ~ (j < i)
    <3>1. /\ ~ (j <= i - 1) /\ j - (i - 1) \in 1..(Len(q) - i)
          /\ j - (i - 1) + i = j + 1
      <4>1. i \in Int /\ j \in Int /\ Len(q) \in Int /\ j <= Len(q) - 1
        BY <1>1, <2>1
      <4>2. ~ (j <= i - 1) /\ j - (i - 1) + i = j + 1
        BY <4>1, <2>4
      <4>3. 1 <= j - (i - 1) /\ j - (i - 1) <= Len(q) - i
        BY <4>1, <2>4
      <4>4. j - (i - 1) \in Int
        BY <4>1
      <4> QED BY <4>1, <4>2, <4>3, <4>4
    <3>2. r[j] = t[j - (i - 1)]
      BY <3>1, <1>4, <2>1, Zenon
    <3>3. t[j - (i - 1)] = q[j - (i - 1) + i]
      BY <3>1, <1>3, Zenon
    <3> QED BY <3>1, <3>2, <3>3, <2>2, <2>4, Zenon
  <2> QED BY <2>3, <2>4
<1>7. \A j \in DOMAIN r : \E l \in DOMAIN q : r[j] = q[l]
  BY <1>6
<1>8. Distinct(q) => Distinct(r)
  <2>1. ASSUME Distinct(q), NEW j \in DOMAIN r, NEW l \in DOMAIN r, r[j] = r[l]
        PROVE  j = l
    <3> DEFINE at(x) == IF x < i THEN x ELSE x + 1
    <3>1. at(j) \in DOMAIN q /\ at(l) \in DOMAIN q /\ q[at(j)] = q[at(l)]
      BY <2>1, <1>6
    <3>2. at(j) = at(l)
      <4> HIDE DEF at
      <4> QED BY <2>1, <3>1 DEF Distinct
    <3> QED BY <3>2, <1>1, <1>5
  <2> QED BY <2>1 DEF Distinct
<1> QED BY <1>5, <1>6, <1>7, <1>8 DEF Thins

-----------------------------------------------------------------------------
(* The critical sections and what they leave of Sound. *)

(* A step after which the queues are what is left of them, whoever is      *)
(* still in one waits as before, and nobody in one is admitted.            *)
LEMMA LeftSound ==
  ASSUME TypeOK, Sound,
         \A k \in RoomKeys : Thins(queue[k], queue'[k]),
         \A k \in RoomKeys : \A i \in DOMAIN queue'[k] :
           LET c == queue'[k][i] IN
           c \notin admit' /\ want'[c] = want[c]
           /\ (pc[c] \in Waits => pc'[c] \in Waits),
         \A c \in Conns : pc'[c] \in Early => pc[c] \in Early /\
                                             (c \in admit' => c \in admit)
  PROVE  Sound'
<1>1. QueueSound'
  <2>1. ASSUME NEW k \in RoomKeys, NEW i \in DOMAIN queue'[k]
        PROVE  LET c == queue'[k][i] IN
               /\ pc'[c] \in {"ask", "wait"} /\ want'[c] = k
               /\ c \notin admit'
               /\ \A j \in DOMAIN queue'[k] : queue'[k][j] = c => i = j
    <3> DEFINE c == queue'[k][i]
    <3>1. PICK l \in DOMAIN queue[k] : c = queue[k][l]
      BY DEF Thins
    <3>2. pc[c] \in Waits /\ want[c] = k
      BY <3>1 DEF Sound, QueueSound, Waits
    <3>3. Distinct(queue[k])
      BY DEF Sound, QueueSound, Distinct
    <3>4. Distinct(queue'[k])
      BY <3>3 DEF Thins
    <3> QED BY <3>2, <3>4 DEF Distinct, Waits
  <2> QED BY <2>1 DEF QueueSound
<1>2. Unadmitted'
  BY DEF Sound, Unadmitted
<1> QED BY <1>1, <1>2 DEF Sound

(* A step of an actor that does not wait in a queue itself: the handlers   *)
(* of the others stay where they are.                                      *)
Acts(a) ==
  /\ pc[a] \notin Waits
  /\ a \in Conns => (pc'[a] \in Early => pc[a] \in Early)
  /\ \A c \in Conns : c # a => pc'[c] = pc[c] /\ want'[c] = want[c]

(* Nobody who waits is disturbed by such a step. *)
LEMMA ActsSound ==
  ASSUME TypeOK, Sound, NEW a, Acts(a),
         \A k \in RoomKeys : Thins(queue[k], queue'[k]),
         \A k \in RoomKeys : \A i \in DOMAIN queue'[k] :
           queue'[k][i] \notin admit',
         \A c \in Conns : pc[c] \in Early => (c \in admit' => c \in admit)
  PROVE  Sound'
<1>1. ASSUME NEW k \in RoomKeys, NEW i \in DOMAIN queue'[k]
      PROVE  LET c == queue'[k][i] IN
             c \notin admit' /\ want'[c] = want[c]
             /\ (pc[c] \in Waits => pc'[c] \in Waits)
  <2> DEFINE c == queue'[k][i]
  <2>1. PICK l \in DOMAIN queue[k] : c = queue[k][l]
    BY DEF Thins
  <2>2. c \in Conns /\ pc[c] \in Waits
    BY <2>1, EntryTyped DEF Sound, QueueSound, Waits
  <2>3. c # a
    BY <2>2 DEF Acts
  <2> QED BY <2>2, <2>3 DEF Acts
<1>2. ASSUME NEW c \in Conns, pc'[c] \in Early
      PROVE  pc[c] \in Early /\ (c \in admit' => c \in admit)
  BY <1>2 DEF Acts
<1> QED BY <1>1, <1>2, LeftSound

(* A queue that did not change. *)
LEMMA SameThins == ASSUME NEW q PROVE Thins(q, q)
BY DEF Thins

(* A step that touches no queue. *)
LEMMA QuietSound ==
  ASSUME TypeOK, Sound, NEW a, Acts(a), UNCHANGED lobby
  PROVE  Sound'
<1>1. queue' = queue /\ admit' = admit
  BY DEF lobby
<1>2. \A k \in RoomKeys : Thins(queue[k], queue'[k])
  BY <1>1, SameThins
<1>3. ASSUME NEW k \in RoomKeys, NEW i \in DOMAIN queue'[k]
      PROVE  queue'[k][i] \notin admit'
  BY <1>1 DEF Sound, QueueSound
<1> QED BY <1>1, <1>2, <1>3, ActsSound

(* admitFromRoomQueue: what was before the admitted entry is gone, what is *)
(* behind it is somebody else.                                             *)
LEMMA AdmitSound ==
  ASSUME TypeOK, Sound, NEW a, Acts(a), NEW k \in RoomKeys,
         AdmitFromRoomQueue(k)
  PROVE  Sound'
<1>1. queue[k] \in Seq(Conns) /\ queue \in [RoomKeys -> Seq(Conns)]
  BY DEF TypeOK
<1>2. CASE queue' = [queue EXCEPT ![k] = <<>>] /\ UNCHANGED admit
  <2>1. \A l \in RoomKeys : queue'[l] = IF l = k THEN <<>> ELSE queue[l]
    BY <1>1, <1>2
  <2>2. Thins(queue[k], <<>>)
    BY DEF Thins, Distinct
  <2>3. \A l \in RoomKeys : Thins(queue[l], queue'[l])
    BY <2>1, <2>2, SameThins
  <2>4. ASSUME NEW l \in RoomKeys, NEW i \in DOMAIN queue'[l]
        PROVE  queue'[l][i] \notin admit'
    <3>1. l # k
      BY <2>1
    <3> QED BY <3>1, <2>1, <1>2 DEF Sound, QueueSound
  <2> QED BY <1>2, <2>3, <2>4, ActsSound
<1>3. ASSUME NEW i \in DOMAIN queue[k],
             queue' = [queue EXCEPT ![k] = SubSeq(@, i + 1, Len(@))],
             admit' = admit \cup {queue[k][i]}
      PROVE  Sound'
  <2> DEFINE r == SubSeq(queue[k], i + 1, Len(queue[k]))
             d == queue[k][i]
  <2>1. /\ Thins(queue[k], r)
        /\ \A j \in DOMAIN r : /\ j \in 1..(Len(queue[k]) - i)
                               /\ j + i \in DOMAIN queue[k]
                               /\ r[j] = queue[k][j + i]
    <3>1. /\ Thins(queue[k], r) /\ DOMAIN r = 1..(Len(queue[k]) - i)
          /\ \A j \in DOMAIN r : /\ j + i \in DOMAIN queue[k]
                                 /\ r[j] = queue[k][j + i]
      BY <1>1, SuffixThins
    <3> HIDE DEF r
    <3> QED BY <3>1
  <2>2. queue' = [queue EXCEPT ![k] = r]
    BY <1>3, Zenon
  <2> HIDE DEF r
  <2>3. \A l \in RoomKeys : queue'[l] = IF l = k THEN r ELSE queue[l]
    BY <1>1, <2>2
  <2>4. \A l \in RoomKeys : Thins(queue[l], queue'[l])
    BY <2>1, <2>3, SameThins
  <2>5. /\ pc[d] \in Waits /\ want[d] = k
        /\ \A j \in DOMAIN queue[k] : queue[k][j] = d => i = j
    BY <1>3 DEF Sound, QueueSound, Waits
  <2>6. ASSUME NEW l \in RoomKeys, NEW j \in DOMAIN queue'[l]
        PROVE  queue'[l][j] \notin admit'
    <3>1. CASE l = k
      <4>1. queue'[l][j] = queue[k][j + i] /\ j + i \in DOMAIN queue[k]
            /\ j \in 1..(Len(queue[k]) - i)
        BY <3>1, <2>1, <2>3
      <4>2. j + i # i
        BY <4>1, <1>1
      <4>3. queue[k][j + i] # d
        BY <4>1, <4>2, <2>5
      <4>4. queue[k][j + i] \notin admit
        BY <4>1 DEF Sound, QueueSound
      <4> QED BY <4>1, <4>3, <4>4, <1>3
    <3>2. CASE l # k
      <4>1. queue'[l] = queue[l]
        BY <3>2, <2>3
      <4>2. queue[l][j] \notin admit /\ want[queue[l][j]] = l
        BY <4>1 DEF Sound, QueueSound
      <4> QED BY <4>1, <4>2, <3>2, <2>5, <1>3
    <3> QED BY <3>1, <3>2
  <2>7. \A c \in Conns : pc[c] \in Early => (c \in admit' => c \in admit)
    BY <1>3, <2>5 DEF Waits, Early
  <2> QED BY <2>4, <2>6, <2>7, ActsSound
<1> QED BY <1>2, <1>3, Zenon DEF AdmitFromRoomQueue

(* RemoveFromAllRoomQueuesByIP admits nobody and repeats nobody. *)
LEMMA ByIPSound ==
  ASSUME TypeOK, Sound, NEW a, Acts(a), NEW h,
         RemoveFromAllRoomQueuesByIP(h), UNCHANGED admit
  PROVE  Sound'
<1>1. ASSUME NEW k \in RoomKeys
      PROVE  Thins(queue[k], queue'[k])
  <2>1. queue[k] \in Seq(Conns) /\ queue'[k] = KeepOthers(queue[k], h)
    BY DEF TypeOK, RemoveFromAllRoomQueuesByIP
  <2>2. Remains(queue'[k], queue[k], h, Len(queue[k]))
    BY <2>1, KeepOthersRemains
  <2>3. DOMAIN queue[k] = 1..Len(queue[k])
    BY <2>1
  <2> QED BY <2>2, <2>3 DEF Remains, Thins
<1>2. ASSUME NEW k \in RoomKeys, NEW i \in DOMAIN queue'[k]
      PROVE  queue'[k][i] \notin admit'
  <2>1. PICK j \in DOMAIN queue[k] : queue'[k][i] = queue[k][j]
    BY <1>1 DEF Thins
  <2> QED BY <2>1 DEF Sound, QueueSound
<1> QED BY <1>1, <1>2, ActsSound

(* removeFromRoomQueue by the handler that gives up: its entry was the     *)
(* only one, so none is left that nobody waits for.                        *)
LEMMA LeaveSound ==
  ASSUME TypeOK, Sound, NEW c \in Conns, pc[c] \in Waits,
         pc' = [pc EXCEPT ![c] = "abort"], RemoveFromRoomQueue(want[c], c),
         UNCHANGED <<admit, want>>
  PROVE  Sound'
<1> DEFINE k == want[c]
           Gone == \A i \in DOMAIN queue'[k] : queue'[k][i] # c
<1>1. /\ k \in RoomKeys /\ queue[k] \in Seq(Conns)
      /\ queue \in [RoomKeys -> Seq(Conns)]
  BY DEF TypeOK
<1>2. /\ \A l \in RoomKeys : Thins(queue[l], queue'[l])
      /\ Gone
  <2>1. CASE (\A i \in DOMAIN queue[k] : queue[k][i] # c) /\ UNCHANGED queue
    BY <2>1, SameThins
  <2>2. ASSUME NEW i \in DOMAIN queue[k], queue[k][i] = c,
               queue' = [queue EXCEPT ![k] =
                           SubSeq(@, 1, i - 1) \o SubSeq(@, i + 1, Len(@))]
        PROVE  (\A l \in RoomKeys : Thins(queue[l], queue'[l])) /\ Gone
    <3> DEFINE q == queue[k]
               r == SubSeq(q, 1, i - 1) \o SubSeq(q, i + 1, Len(q))
    <3>1. /\ Thins(q, r) /\ DOMAIN r = 1..(Len(q) - 1)
          /\ \A j \in DOMAIN r : r[j] = IF j < i THEN q[j] ELSE q[j + 1]
      <4>1. q \in Seq(Conns) /\ i \in DOMAIN q
        BY <1>1
      <4> HIDE DEF q
      <4> QED BY <4>1, CutThins
    <3>2. queue' = [queue EXCEPT ![k] = r]
      BY <2>2, Zenon
    <3> HIDE DEF r
    <3>3. \A l \in RoomKeys : queue'[l] = IF l = k THEN r ELSE queue[l]
      BY <1>1, <3>2
    <3>4. \A l \in RoomKeys : Thins(queue[l], queue'[l])
      BY <3>1, <3>3, SameThins
    <3>5. ASSUME NEW j \in DOMAIN r, r[j] = c PROVE FALSE
      <4>1. /\ i \in 1..Len(q) /\ Len(q) \in Nat /\ DOMAIN q = 1..Len(q)
            /\ j \in 1..(Len(q) - 1)
        BY <1>1, <3>1
      <4>2. PICK l \in DOMAIN q : l # i /\ q[l] = c
        <5>1. CASE j < i
          BY <5>1, <4>1, <3>1, <3>5
        <5>2. CASE ~ (j < i)
          <6>1. q[j + 1] = c
            BY <5>2, <3>1, <3>5
          <6>2. j + 1 \in DOMAIN q /\ j + 1 # i
            BY <5>2, <4>1
          <6> QED BY <6>1, <6>2
        <5> QED BY <5>1, <5>2
      <4> QED BY <4>2, <2>2, <1>1 DEF Sound, QueueSound
    <3> QED BY <3>3, <3>4, <3>5, <1>1
  <2> HIDE DEF Gone
  <2> QED BY <2>1, <2>2, Zenon DEF RemoveFromRoomQueue
<1>3. ASSUME NEW l \in RoomKeys, NEW i \in DOMAIN queue'[l]
      PROVE  LET d == queue'[l][i] IN
             d \notin admit' /\ want'[d] = want[d]
             /\ (pc[d] \in Waits => pc'[d] \in Waits)
  <2> DEFINE d == queue'[l][i]
  <2>1. PICK j \in DOMAIN queue[l] : d = queue[l][j]
    BY <1>2 DEF Thins
  <2>2. d \in Conns /\ d \notin admit /\ want[d] = l
    BY <2>1, EntryTyped DEF Sound, QueueSound
  <2>3. d # c
    BY <2>2, <1>2
  <2>4. pc'[d] = pc[d]
    BY <2>2, <2>3 DEF TypeOK, Actors
  <2> QED BY <2>2, <2>4
<1>4. ASSUME NEW d \in Conns, pc'[d] \in Early
      PROVE  pc[d] \in Early /\ (d \in admit' => d \in admit)
  BY <1>4 DEF TypeOK, Actors, Early
<1> QED BY <1>2, <1>3, <1>4, LeftSound

(* checkOrQueueRoom's append: the newcomer was in no queue and has not     *)
(* been admitted.                                                          *)
LEMMA JoinQueueSound ==
  ASSUME Frame, Sound, NEW c \in Conns, JoinQueue(c)
  PROVE  Sound'
<1> DEFINE k == want[c]
<1>1. /\ pc[c] = "enqueue" /\ pc' = [pc EXCEPT ![c] = "ask"]
      /\ UNCHANGED <<admit, want>> /\ k \in RoomKeys
      /\ queue' = [queue EXCEPT ![k] = Append(queue[k], c)]
      /\ queue[k] \in Seq(Conns) /\ TypeOK
  BY DEF JoinQueue, Goto, Enqueue, locals, Frame, TypeOK
<1>2. \A d \in Conns : pc'[d] = IF d = c THEN "ask" ELSE pc[d]
  BY <1>1 DEF TypeOK, Actors
<1>3. \A l \in RoomKeys : l # k => queue'[l] = queue[l]
  BY <1>1 DEF TypeOK
<1>4. /\ queue'[k] = Append(queue[k], c)
      /\ DOMAIN queue'[k] = 1..(Len(queue[k]) + 1)
      /\ DOMAIN queue[k] = 1..Len(queue[k]) /\ Len(queue[k]) \in Nat
      /\ queue'[k][Len(queue[k]) + 1] = c
      /\ \A i \in DOMAIN queue[k] : queue'[k][i] = queue[k][i]
  <2>1. queue'[k] = Append(queue[k], c)
    BY <1>1 DEF TypeOK
  <2> QED BY <1>1, <2>1
<1>5. \A l \in RoomKeys : \A i \in DOMAIN queue[l] :
        /\ queue[l][i] \in Conns /\ queue[l][i] # c
        /\ pc[queue[l][i]] \in Waits /\ want[queue[l][i]] = l
        /\ queue[l][i] \notin admit
  BY <1>1, EntryTyped DEF Sound, QueueSound, Waits
<1>6. c \notin admit
  BY <1>1 DEF Sound, Unadmitted, Early
<1>7. ASSUME NEW l \in RoomKeys, NEW i \in DOMAIN queue'[l]
      PROVE  LET d == queue'[l][i] IN
             /\ pc'[d] \in {"ask", "wait"} /\ want'[d] = l
             /\ d \notin admit'
             /\ \A j \in DOMAIN queue'[l] : queue'[l][j] = d => i = j
  <2>1. CASE l # k
    BY <2>1, <1>1, <1>2, <1>3, <1>5 DEF Waits, Sound, QueueSound
  <2>2. CASE l = k /\ i \in DOMAIN queue[k]
    <3>1. queue'[l][i] = queue[k][i]
      BY <2>2, <1>4
    <3>2. \A j \in DOMAIN queue'[l] : queue'[l][j] = queue[k][i] => i = j
      BY <2>2, <1>4, <1>5 DEF Sound, QueueSound
    <3> QED BY <3>1, <3>2, <2>2, <1>1, <1>2, <1>5 DEF Waits
  <2>3. CASE l = k /\ i = Len(queue[k]) + 1
    <3>1. queue'[l][i] = c
      BY <2>3, <1>4
    <3>2. \A j \in DOMAIN queue'[l] : queue'[l][j] = c => i = j
      BY <2>3, <1>4, <1>5
    <3> QED BY <3>1, <3>2, <2>3, <1>1, <1>2, <1>6
  <2> QED BY <2>1, <2>2, <2>3, <1>4
<1>8. Unadmitted'
  BY <1>1, <1>2 DEF Sound, Unadmitted, Early
<1> QED BY <1>7, <1>8 DEF Sound, QueueSound

-----------------------------------------------------------------------------
(* The actions. *)

(* A step of actor a from a place where it does not wait. *)
LEMMA GotoActs ==
  ASSUME TypeOK, NEW a \in Actors, NEW from, NEW to, Goto(a, from, to),
         from \notin Waits, to \in Early => from \in Early,
         \A c \in Conns : c # a => want'[c] = want[c]
  PROVE  Acts(a)
BY DEF TypeOK, Goto, Acts, Actors

(* One step of a handler that has not reached its session. *)
LEMMA OnboardingSound ==
  ASSUME Frame, Sound, NEW c \in Conns, OnboardingStep(c) \/ OnboardingInput(c)
  PROVE  Sound'
<1>1. TypeOK /\ c \in Actors
  BY DEF Frame, Actors
<1> DEFINE Elsewhere ==
      \/ RejectConnection(c) \/ AcceptConnection(c) \/ CheckRoomCapacity(c)
      \/ Finish(c) \/ TrackClient(c) \/ NameReadError(c) \/ RoomReadError(c)
      \/ \E r \in Rooms : ChooseRoom(c, r)
      \/ \E n \in Names : RegisterName(c, n)
      \/ Abort(c) \/ JoinFirstRoom(c) \/ RecordJoin(c)
<1>2. CASE Elsewhere
  <2>1. UNCHANGED lobby /\ \A d \in Conns : d # c => want'[d] = want[d]
    BY <1>1, <1>2
       DEF TypeOK, RejectConnection, AcceptConnection, CheckRoomCapacity,
           Finish, TrackClient, NameReadError, RoomReadError, ChooseRoom,
           RegisterName, Abort, JoinFirstRoom, RecordJoin, Forget, lobby,
           locals
  <2>2. \E from, to : /\ Goto(c, from, to) /\ from \notin Waits
                      /\ to \in Early => from \in Early
    BY <1>2
       DEF RejectConnection, AcceptConnection, CheckRoomCapacity, Finish,
           TrackClient, NameReadError, RoomReadError, ChooseRoom,
           RegisterName, Abort, JoinFirstRoom, RecordJoin, Waits, Early
  <2>3. Acts(c)
    BY <1>1, <2>1, <2>2, GotoActs
  <2> QED BY <1>1, <2>1, <2>3, QuietSound
<1>3. CASE JoinQueue(c)
  BY <1>3, JoinQueueSound
<1>4. CASE Decline(c) \/ StopWaiting(c)
  <2>1. /\ pc[c] \in Waits /\ pc' = [pc EXCEPT ![c] = "abort"]
        /\ RemoveFromRoomQueue(want[c], c) /\ UNCHANGED <<admit, want>>
    BY <1>4 DEF Decline, StopWaiting, Goto, Waits, locals
  <2> QED BY <1>1, <2>1, LeaveSound
<1>5. CASE AnswerYes(c) \/ Admitted(c)
  <2>1. /\ queue' = queue /\ admit' = admit /\ want' = want
        /\ \A d \in Conns : d # c => pc'[d] = pc[d]
        /\ pc'[c] \in Waits \/ (c \in admit /\ pc'[c] = "join")
    <3>1. CASE AnswerYes(c)
      BY <1>1, <3>1 DEF AnswerYes, Goto, TypeOK, Actors, Waits, lobby, locals
    <3>2. CASE Admitted(c)
      BY <1>1, <3>2 DEF Admitted, Goto, TypeOK, Actors, lobby, locals
    <3> QED BY <1>5, <3>1, <3>2
  <2>2. \A k \in RoomKeys : Thins(queue[k], queue'[k])
    BY <2>1, SameThins
  <2>3. ASSUME NEW k \in RoomKeys, NEW i \in DOMAIN queue'[k]
        PROVE  LET d == queue'[k][i] IN
               d \notin admit' /\ want'[d] = want[d]
               /\ (pc[d] \in Waits => pc'[d] \in Waits)
    <3>1. queue[k][i] \in Conns /\ queue[k][i] \notin admit
      BY <1>1, <2>1, EntryTyped DEF Sound, QueueSound
    <3> QED BY <2>1, <3>1
  <2>4. ASSUME NEW d \in Conns, pc'[d] \in Early
        PROVE  pc[d] \in Early /\ (d \in admit' => d \in admit)
    BY <2>1, <2>4 DEF Waits, Early
  <2> QED BY <1>1, <2>2, <2>3, <2>4, LeftSound
<1> QED
  BY <1>2, <1>3, <1>4, <1>5 DEF OnboardingStep, OnboardingInput

(* One step of a handler in its session, or of its heartbeat. *)
LEMMA SessionSound ==
  ASSUME Frame, Sound, NEW c \in Conns, SessionStep(c) \/ SessionInput(c)
  PROVE  Sound'
<1>1. TypeOK /\ c \in Actors /\ want[c] \in RoomKeys
  BY DEF Frame, TypeOK, Actors
<1> DEFINE Elsewhere ==
      \/ ReadLine(c) \/ ReadError(c) \/ NoEffect(c) \/ Quit(c) \/ Chat(c)
      \/ \E n \in Names : Rename(c, n)
      \/ \E r \in Rooms : Switch(c, r) \/ Create(c, r)
      \/ RecordRename(c) \/ SwitchRecord(c) \/ SwitchMove(c)
      \/ AdmitCheck(c, "swCheck", "swAdmit", "swDelete")
      \/ AdmitCheck(c, "clCheck", "clAdmit", "clDelete")
      \/ DeleteRoom(c, "swDelete", "joined")
      \/ DeleteRoom(c, "clDelete", "closing")
      \/ Cleanup(c) \/ CleanupRemove(c) \/ CleanupRecord(c)
<1>2. CASE Elsewhere
  <2>1. UNCHANGED lobby /\ \A d \in Conns : d # c => want'[d] = want[d]
    BY <1>1, <1>2
       DEF TypeOK, ReadLine, ReadError, NoEffect, Quit, Chat, Rename, Switch,
           Create, RecordRename, SwitchRecord, SwitchMove, AdmitCheck,
           DeleteRoom, Cleanup, CleanupRemove, CleanupRecord, lobby, locals
  <2>2. \E from, to : /\ Goto(c, from, to) /\ from \notin Waits
                      /\ to \in Early => from \in Early
    BY <1>2
       DEF ReadLine, ReadError, NoEffect, Quit, Chat, Rename, Switch, Create,
           RecordRename, SwitchRecord, SwitchMove, AdmitCheck, DeleteRoom,
           Cleanup, CleanupRemove, CleanupRecord, Waits, Early
  <2>3. Acts(c)
    BY <1>1, <2>1, <2>2, GotoActs
  <2> QED BY <1>1, <2>1, <2>3, QuietSound
<1>3. CASE HeartbeatDrop(c)
  <2>1. Acts(c) /\ UNCHANGED lobby
    BY <1>3 DEF HeartbeatDrop, Acts, InSession, Waits, Early, lobby, locals
  <2> QED BY <1>1, <2>1, QuietSound
<1>4. CASE AdmitNext(c, "swAdmit", "swDelete")
           \/ AdmitNext(c, "clAdmit", "clDelete")
  <2>1. Acts(c)
    <3>1. \E from, to : /\ Goto(c, from, to) /\ from \notin Waits
                        /\ to \in Early => from \in Early
      BY <1>4 DEF AdmitNext, Waits, Early
    <3>2. want' = want
      BY <1>4 DEF AdmitNext, locals
    <3> QED BY <1>1, <3>1, <3>2, GotoActs
  <2>2. AdmitFromRoomQueue(want[c])
    BY <1>4 DEF AdmitNext
  <2> QED BY <1>1, <2>1, <2>2, AdmitSound
<1> QED
  BY <1>2, <1>3, <1>4
     DEF SessionStep, SessionInput, LineStep, SwitchStep, CleanupStep

(* One step of a moderation command. *)
LEMMA ModerationSound ==
  ASSUME Frame, Sound, NEW p \in Moderators,
         ModerationStep(p) \/ ModerationInput(p)
  PROVE  Sound'
<1>1. TypeOK /\ p \in Actors /\ mod[p].room \in RoomKeys
  BY RegistryAssumption
     DEF Frame, TypeOK, Actors, Moderators, Command, RegistryAssumption
<1>2. Acts(p)
  <2>1. pc[p] \notin Waits \cup Early
    BY DEF ModerationStep, ModerationInput, LookUp, NotInYourRoom, Mark,
       RemoveTarget, RecordModeration, CloseTarget, BlockHost, CollectByIP,
       MarkCollateral, NoMoreCollateral, LookUpQueued, RemoveQueued,
       DropQueued, AdmitOwed, AdmitForSlot, NothingOwed, Annotate,
       RecordNote, Announce, RecordAnnouncement, Ready, Goto, Waits, Early
  <2>2. pc' = [pc EXCEPT ![p] = pc'[p]] /\ pc'[p] \notin Early
    <3> USE <1>1, <2>1 DEF TypeOK
    <3>1. CASE \/ \E n \in Names, kind \in {"kick", "ban"} : LookUp(p, kind, n)
               \/ \E h \in Hosts, kind \in {"queuekick", "queueban"} :
                    LookUpQueued(p, kind, h)
               \/ \E n \in Names : Annotate(p, n)
               \/ Announce(p)
      BY <3>1 DEF LookUp, LookUpQueued, Annotate, Announce, Step, Early
    <3>2. CASE \/ Mark(p) \/ RemoveTarget(p) \/ RecordModeration(p)
               \/ CloseTarget(p) \/ CollectByIP(p) \/ NoMoreCollateral(p)
               \/ DropQueued(p) \/ AdmitForSlot(p)
               \/ \E c \in Conns : MarkCollateral(p, c)
      BY <3>2 DEF Mark, RemoveTarget, RecordModeration, CloseTarget,
                  CollectByIP, NoMoreCollateral, DropQueued, AdmitForSlot,
                  MarkCollateral, Goto, Early
    <3>3. CASE \/ NotInYourRoom(p) \/ BlockHost(p) \/ RemoveQueued(p)
               \/ NothingOwed(p) \/ RecordNote(p)
      BY <3>3 DEF NotInYourRoom, BlockHost, RemoveQueued, NothingOwed,
                  RecordNote, Step, EndCommand, Early
    <3>4. CASE \E k \in RoomKeys : AdmitOwed(p, k) \/ RecordAnnouncement(p, k)
      BY <3>4 DEF AdmitOwed, RecordAnnouncement, Step, EndCommand, Early
    <3> QED
      BY <3>1, <3>2, <3>3, <3>4 DEF ModerationStep, ModerationInput
  <2>3. want' = want
    BY DEF ModerationStep, ModerationInput, LookUp, NotInYourRoom, Mark,
       RemoveTarget, RecordModeration, CloseTarget, BlockHost, CollectByIP,
       MarkCollateral, NoMoreCollateral, LookUpQueued, RemoveQueued,
       DropQueued, AdmitOwed, AdmitForSlot, NothingOwed, Annotate,
       RecordNote, Announce, RecordAnnouncement, locals
  <2> QED BY <1>1, <2>1, <2>2, <2>3 DEF Acts, TypeOK, Actors
<1>3. CASE RemoveQueued(p)
  BY <1>1, <1>2, <1>3, ByIPSound DEF RemoveQueued
<1>4. CASE AdmitForSlot(p)
  BY <1>1, <1>2, <1>4, AdmitSound DEF AdmitForSlot
<1>5. CASE ~ RemoveQueued(p) /\ ~ AdmitForSlot(p)
  <2>1. UNCHANGED lobby
    BY <1>5
       DEF ModerationStep, ModerationInput, LookUp, NotInYourRoom, Mark,
           RemoveTarget, RecordModeration, CloseTarget, BlockHost,
           CollectByIP, MarkCollateral, NoMoreCollateral, LookUpQueued,
           DropQueued, AdmitOwed, NothingOwed, Annotate, RecordNote,
           Announce, RecordAnnouncement, lobby
  <2> QED BY <1>1, <1>2, <2>1, QuietSound
<1> QED BY <1>3, <1>4, <1>5

(* Every step of the server leaves the queues sound. *)
LEMMA SoundNext ==
  ASSUME Frame, Sound, [Next]_vars
  PROVE  Sound'
<1>1. CASE BeginShutdown \/ ForceClose \/ UNCHANGED vars
  <2>1. UNCHANGED <<queue, admit, pc, want>>
    BY <1>1 DEF BeginShutdown, ForceClose, vars, lobby, locals
  <2> QED BY <2>1 DEF Sound, QueueSound, Unadmitted
<1> QED
  BY <1>1, OnboardingSound, SessionSound, ModerationSound DEF Next, Idle

(* At the start nobody waits. *)
LEMMA SoundInit ==
  ASSUME RegistryInit PROVE Sound
<1>1. \A k \in RoomKeys : queue[k] = <<>>
  BY DEF RegistryInit
<1>2. admit = {}
  BY DEF RegistryInit
<1> QED BY <1>1, <1>2 DEF Sound, QueueSound, Unadmitted

(* The inductive invariant of the queues. *)
LEMMA SoundInvariant == Spec => [](Frame /\ Sound)
<1>1. RegistryInit => Frame /\ Sound
  BY InitFrame, SoundInit
<1>2. Frame /\ Sound /\ [Next]_vars => (Frame /\ Sound)'
  BY NextFrame, SoundNext
<1> QED BY <1>1, <1>2, PTL DEF Spec

(* A queue entry belongs to a handler that waits for it, once, and was not *)
(* admitted: no admit channel is closed twice.                             *)
THEOREM QueuesAreSound == Spec => []QueueSound
<1>1. Frame /\ Sound => QueueSound
  BY DEF Sound
<1> QED BY <1>1, SoundInvariant, PTL

-----------------------------------------------------------------------------
(* Steps of the queues and of the disconnect reason. *)

(* The frame is an invariant of every behaviour. *)
LEMMA FrameInvariant == Spec => []Frame
<1>1. RegistryInit => Frame
  BY InitFrame
<1>2. Frame /\ [Next]_vars => Frame'
  BY NextFrame
<1> QED BY <1>1, <1>2, PTL DEF Spec

(* Who is admitted in a step was the first in his queue who is connected. *)
InOrder ==
  \A c \in admit' \ admit :
    \E k \in RoomKeys : \E i \in DOMAIN queue[k] :
      /\ queue[k][i] = c /\ ~ closed[c]
      /\ \A j \in 1..(i - 1) : closed[queue[k][j]]

(* Only admitFromRoomQueue admits. *)
LEMMA OnlyAdmission ==
  ASSUME TypeOK, [Next]_vars
  PROVE  UNCHANGED admit \/ \E k \in RoomKeys : AdmitFromRoomQueue(k)
<1>1. CASE BeginShutdown \/ ForceClose \/ UNCHANGED vars
  BY <1>1 DEF BeginShutdown, ForceClose, vars, lobby
<1>2. ASSUME NEW c \in Conns, OnboardingStep(c) \/ OnboardingInput(c)
      PROVE  UNCHANGED admit
  BY <1>2
     DEF OnboardingStep, OnboardingInput, TrackClient, RejectConnection,
         AcceptConnection, RegisterName, NameReadError, ChooseRoom,
         RoomReadError, CheckRoomCapacity, JoinQueue, AnswerYes, Decline,
         Admitted, StopWaiting, Abort, JoinFirstRoom, RecordJoin, Finish,
         lobby
<1>3. ASSUME NEW c \in Conns, SessionStep(c) \/ SessionInput(c)
      PROVE  UNCHANGED admit \/ AdmitFromRoomQueue(want[c])
  BY <1>3
     DEF SessionStep, SessionInput, LineStep, SwitchStep, CleanupStep,
         ReadLine, ReadError, HeartbeatDrop, NoEffect, Quit, Chat, Rename,
         Switch, Create, RecordRename, SwitchRecord, SwitchMove, AdmitCheck,
         AdmitNext, DeleteRoom, Cleanup, CleanupRemove, CleanupRecord, lobby
<1>4. ASSUME NEW p \in Moderators, ModerationStep(p) \/ ModerationInput(p)
      PROVE  UNCHANGED admit \/ AdmitFromRoomQueue(mod[p].room)
  BY <1>4
     DEF ModerationStep, ModerationInput, LookUp, NotInYourRoom, Mark,
         RemoveTarget, RecordModeration, CloseTarget, BlockHost, CollectByIP,
         MarkCollateral, NoMoreCollateral, LookUpQueued, RemoveQueued,
         DropQueued, AdmitOwed, AdmitForSlot, NothingOwed, Annotate,
         RecordNote, Announce, RecordAnnouncement, lobby
<1>5. /\ \A c \in Conns : want[c] \in RoomKeys
      /\ \A p \in Moderators : mod[p].room \in RoomKeys
  BY DEF TypeOK, Command
<1> QED BY <1>1, <1>2, <1>3, <1>4, <1>5 DEF Next, Idle

(* Every admission is in order. *)
LEMMA NextInOrder ==
  ASSUME TypeOK, [Next]_vars
  PROVE  InOrder
<1>1. CASE UNCHANGED admit
  BY <1>1 DEF InOrder
<1>2. ASSUME NEW k \in RoomKeys, AdmitFromRoomQueue(k)
      PROVE  InOrder
  <2> DEFINE live == {i \in DOMAIN queue[k] : ~ closed[queue[k][i]]}
  <2>1. UNCHANGED admit
        \/ \E i \in live : /\ \A j \in live : i <= j
                           /\ admit' = admit \cup {queue[k][i]}
    BY <1>2, Zenon DEF AdmitFromRoomQueue
  <2>2. ASSUME NEW i \in live, \A j \in live : i <= j,
               admit' = admit \cup {queue[k][i]}
        PROVE  InOrder
    <3>1. queue[k] \in Seq(Conns)
      BY DEF TypeOK
    <3>2. i \in DOMAIN queue[k] /\ ~ closed[queue[k][i]]
      OBVIOUS
    <3>3. ASSUME NEW j \in 1..(i - 1) PROVE closed[queue[k][j]]
      <4>1. j \in DOMAIN queue[k] /\ ~ (i <= j)
        BY <3>1, <3>2
      <4> QED BY <4>1, <2>2
    <3> QED BY <2>2, <3>2, <3>3 DEF InOrder
  <2> QED BY <1>1, <2>1, <2>2
<1> QED BY <1>1, <1>2, OnlyAdmission

(* admitFromRoomQueue admits the first entry whose connection is open. *)
THEOREM AdmissionsInOrder == Spec => AdmissionIsFIFO
<1>1. Frame /\ [Next]_vars => [InOrder]_vars
  BY NextInOrder DEF Frame
<1> QED BY <1>1, FrameInvariant, PTL DEF Spec, AdmissionIsFIFO, InOrder

(* A moderation reason is not replaced by another kind of reason. *)
Sticks == \A c \in Conns : reason[c] \in Moderated => reason'[c] \in Moderated

(* The reason is set once, or forced by a moderator. *)
LEMMA NextSticks ==
  ASSUME Frame, [Next]_vars
  PROVE  Sticks
<1>1. CASE UNCHANGED reason
  BY <1>1 DEF Sticks
<1>2. ASSUME NEW c \in Conns, NEW why, SetDisconnectReason(c, why)
      PROVE  Sticks
  BY <1>2 DEF SetDisconnectReason, Sticks, Frame, TypeOK, Moderated
<1>3. ASSUME NEW c \in Conns, NEW why \in Moderated,
             ForceDisconnectReason(c, why)
      PROVE  Sticks
  BY <1>3 DEF ForceDisconnectReason, Sticks, Frame, TypeOK
<1>4. CASE BeginShutdown \/ ForceClose \/ UNCHANGED vars
  BY <1>1, <1>4 DEF BeginShutdown, ForceClose, vars, link
<1>5. ASSUME NEW c \in Conns, OnboardingStep(c) \/ OnboardingInput(c)
      PROVE  UNCHANGED reason
  BY <1>5
     DEF OnboardingStep, OnboardingInput, TrackClient, RejectConnection,
         AcceptConnection, RegisterName, NameReadError, ChooseRoom,
         RoomReadError, CheckRoomCapacity, JoinQueue, AnswerYes, Decline,
         Admitted, StopWaiting, Abort, JoinFirstRoom, RecordJoin, Finish,
         link
<1>6. ASSUME NEW c \in Conns, SessionStep(c) \/ SessionInput(c)
      PROVE  UNCHANGED reason \/ SetDisconnectReason(c, "drop")
  BY <1>6
     DEF SessionStep, SessionInput, LineStep, SwitchStep, CleanupStep,
         ReadLine, ReadError, HeartbeatDrop, NoEffect, Quit, Chat, Rename,
         Switch, Create, RecordRename, SwitchRecord, SwitchMove, AdmitCheck,
         AdmitNext, DeleteRoom, Cleanup, CleanupRemove, CleanupRecord, link
<1>7. ASSUME NEW p \in Moderators, ModerationStep(p) \/ ModerationInput(p)
      PROVE  Sticks
  <2>1. CASE Mark(p)
    <3>1. mod[p].target \in Conns
      BY <1>7, <2>1 DEF Mark, Goto, Frame, Aimed
    <3>2. \E why \in Moderated : ForceDisconnectReason(mod[p].target, why)
      BY <2>1 DEF Mark, Moderated
    <3> QED BY <3>1, <3>2, <1>3
  <2>2. ASSUME NEW c \in Conns, MarkCollateral(p, c) PROVE Sticks
    BY <2>2, <1>3 DEF MarkCollateral, Moderated
  <2>3. CASE ~ Mark(p) /\ \A c \in Conns : ~ MarkCollateral(p, c)
    BY <1>1, <1>7, <2>3
       DEF ModerationStep, ModerationInput, LookUp, NotInYourRoom,
           RemoveTarget, RecordModeration, CloseTarget, BlockHost,
           CollectByIP, NoMoreCollateral, LookUpQueued, RemoveQueued,
           DropQueued, AdmitOwed, AdmitForSlot, NothingOwed, Annotate,
           RecordNote, Announce, RecordAnnouncement, link
  <2> QED BY <2>1, <2>2, <2>3
<1> QED
  BY <1>1, <1>2, <1>4, <1>5, <1>6, <1>7 DEF Next, Idle

(* A moderation reason is never lost, so a cleanup never announces a       *)
(* departure the moderator has announced.                                  *)
THEOREM ModerationReasonStays == Spec => ModerationSticks
<1>1. Frame /\ [Next]_vars => [Sticks]_vars
  BY NextSticks
<1> QED BY <1>1, FrameInvariant, PTL DEF Spec, ModerationSticks, Sticks

-----------------------------------------------------------------------------
(* Places in the queues. *)

(* A queue that is as it was. *)
LEMMA SamePlace ==
  ASSUME TypeOK, NEW k \in RoomKeys, queue'[k] = queue[k],
         NEW i \in DOMAIN queue[k]
  PROVE  \E j \in DOMAIN queue'[k] : j <= i /\ queue'[k][j] = queue[k][i]
<1>1. queue[k] \in Seq(Conns)
  BY DEF TypeOK
<1>2. i <= i
  BY <1>1
<1> QED BY <1>2

(* Behind the last. *)
LEMMA EnqueuePlace ==
  ASSUME TypeOK, NEW c \in Conns, NEW r \in RoomKeys, Enqueue(c, r)
  PROVE  InPlace
<1>1. queue[r] \in Seq(Conns) /\ queue \in [RoomKeys -> Seq(Conns)]
  BY DEF TypeOK
<1>2. \A k \in RoomKeys : queue'[k] = IF k = r THEN Append(queue[r], c)
                                               ELSE queue[k]
  BY <1>1 DEF Enqueue
<1>3. ASSUME NEW k \in RoomKeys, NEW i \in DOMAIN queue[k]
      PROVE  \E j \in DOMAIN queue'[k] : j <= i /\ queue'[k][j] = queue[k][i]
  <2>1. CASE k = r
    <3>1. i \in DOMAIN Append(queue[r], c)
          /\ Append(queue[r], c)[i] = queue[r][i] /\ i <= i
      BY <1>1, <2>1
    <3> QED BY <3>1, <2>1, <1>2
  <2>2. CASE k # r
    BY <2>2, <1>2, SamePlace
  <2> QED BY <2>1, <2>2
<1> QED BY <1>3 DEF InPlace

(* One who gives up; those behind him come forward. *)
LEMMA RemovePlace ==
  ASSUME TypeOK, NEW c \in Conns, NEW r \in RoomKeys,
         RemoveFromRoomQueue(r, c), pc'[c] = "abort"
  PROVE  InPlace
<1>1. queue[r] \in Seq(Conns) /\ queue \in [RoomKeys -> Seq(Conns)]
  BY DEF TypeOK
<1>2. CASE UNCHANGED queue
  BY <1>2, SamePlace DEF InPlace
<1>3. ASSUME NEW l \in DOMAIN queue[r], queue[r][l] = c,
             queue' = [queue EXCEPT ![r] =
                         SubSeq(@, 1, l - 1) \o SubSeq(@, l + 1, Len(@))]
      PROVE  InPlace
  <2> DEFINE q == queue[r]
             s == SubSeq(q, 1, l - 1) \o SubSeq(q, l + 1, Len(q))
  <2>1. /\ DOMAIN s = 1..(Len(q) - 1)
        /\ \A j \in DOMAIN s : s[j] = IF j < l THEN q[j] ELSE q[j + 1]
    <3>1. q \in Seq(Conns) /\ l \in DOMAIN q
      BY <1>1
    <3> HIDE DEF q
    <3> QED BY <3>1, CutThins
  <2>2. queue' = [queue EXCEPT ![r] = s]
    BY <1>3, Zenon
  <2> HIDE DEF s
  <2>3. \A k \in RoomKeys : queue'[k] = IF k = r THEN s ELSE queue[k]
    BY <1>1, <2>2
  <2>4. ASSUME NEW k \in RoomKeys, NEW i \in DOMAIN queue[k]
        PROVE  \/ \E j \in DOMAIN queue'[k] : j <= i /\ queue'[k][j] = queue[k][i]
               \/ queue[k][i] = c
    <3>1. CASE k # r
      BY <3>1, <2>3, SamePlace
    <3>2. CASE k = r /\ i # l
      <4>1. /\ i \in 1..Len(q) /\ l \in 1..Len(q) /\ Len(q) \in Nat
        BY <1>1, <3>2
      <4>2. CASE i < l
        <5>1. i \in 1..(Len(q) - 1) /\ i <= i
          BY <4>1, <4>2
        <5>2. i \in DOMAIN s /\ s[i] = q[i]
          BY <5>1, <4>2, <2>1
        <5> QED BY <5>1, <5>2, <3>2, <2>3
      <4>3. CASE ~ (i < l)
        <5>1. i - 1 \in 1..(Len(q) - 1) /\ i - 1 <= i /\ ~ (i - 1 < l)
              /\ (i - 1) + 1 = i
          BY <4>1, <4>3, <3>2
        <5>2. i - 1 \in DOMAIN s /\ s[i - 1] = q[i]
          BY <5>1, <2>1
        <5> QED BY <5>1, <5>2, <3>2, <2>3
      <4> QED BY <4>2, <4>3
    <3> QED BY <3>1, <3>2, <1>3
  <2> QED BY <2>4 DEF InPlace
<1> QED BY <1>2, <1>3, Zenon DEF RemoveFromRoomQueue

(* Those before the admitted one have gone, those behind come forward. *)
LEMMA AdmitPlace ==
  ASSUME TypeOK, NEW r \in RoomKeys, AdmitFromRoomQueue(r)
  PROVE  InPlace
<1> DEFINE live == {i \in DOMAIN queue[r] : ~ closed[queue[r][i]]}
<1>1. queue[r] \in Seq(Conns) /\ queue \in [RoomKeys -> Seq(Conns)]
  BY DEF TypeOK
<1>2. CASE live = {} /\ queue' = [queue EXCEPT ![r] = <<>>]
  <2>1. \A k \in RoomKeys : k # r => queue'[k] = queue[k]
    BY <1>1, <1>2
  <2>2. \A i \in DOMAIN queue[r] : closed[queue[r][i]]
    BY <1>2
  <2> QED BY <2>1, <2>2, SamePlace DEF InPlace
<1>3. ASSUME NEW l \in live, \A j \in live : l <= j,
             queue' = [queue EXCEPT ![r] = SubSeq(@, l + 1, Len(@))],
             admit' = admit \cup {queue[r][l]}
      PROVE  InPlace
  <2> DEFINE s == SubSeq(queue[r], l + 1, Len(queue[r]))
  <2>1. l \in DOMAIN queue[r]
    OBVIOUS
  <2>2. /\ DOMAIN s = 1..(Len(queue[r]) - l)
        /\ \A j \in DOMAIN s : s[j] = queue[r][j + l]
    BY <1>1, <2>1, SuffixThins
  <2>3. queue' = [queue EXCEPT ![r] = s]
    BY <1>3, Zenon
  <2> HIDE DEF s
  <2>4. \A k \in RoomKeys : queue'[k] = IF k = r THEN s ELSE queue[k]
    BY <1>1, <2>3
  <2>5. ASSUME NEW i \in DOMAIN queue[r]
        PROVE  \/ \E j \in DOMAIN s : j <= i /\ s[j] = queue[r][i]
               \/ queue[r][i] \in admit' \/ closed[queue[r][i]]
    <3>1. /\ i \in 1..Len(queue[r]) /\ l \in 1..Len(queue[r])
          /\ Len(queue[r]) \in Nat
      BY <1>1, <2>1
    <3>2. CASE i < l
      <4>1. ~ (l <= i)
        BY <3>1, <3>2
      <4> QED BY <4>1, <1>3
    <3>3. CASE i = l
      BY <3>3, <1>3
    <3>4. CASE l < i
      <4>1. /\ i - l \in 1..(Len(queue[r]) - l) /\ i - l <= i
            /\ (i - l) + l = i
        <5>1. i - l \in Int /\ 1 <= i - l /\ i - l <= Len(queue[r]) - l
          BY <3>1, <3>4
        <5> QED BY <5>1, <3>1
      <4>2. s[i - l] = queue[r][i]
        BY <4>1, <2>2
      <4> QED BY <4>1, <4>2, <2>2
    <3> QED BY <3>1, <3>2, <3>3, <3>4
  <2> QED BY <2>4, <2>5, SamePlace DEF InPlace
<1> QED BY <1>2, <1>3, Zenon DEF AdmitFromRoomQueue

(* A host is thrown out of all queues; the others stay or come forward,    *)
(* and the command knows all of the host's.                                *)
LEMMA ByIPPlace ==
  ASSUME Frame, NEW p \in Moderators, RemoveQueued(p)
  PROVE  InPlace
<1> DEFINE h == mod[p].host
           removed == {c \in Waiting : HostOf[c] = h}
<1>1. ASSUME NEW k \in RoomKeys, NEW i \in DOMAIN queue[k],
             HostOf[queue[k][i]] # h
      PROVE  \E j \in DOMAIN queue'[k] : j <= i /\ queue'[k][j] = queue[k][i]
  <2>1. /\ queue[k] \in Seq(Conns) /\ queue'[k] = KeepOthers(queue[k], h)
    BY DEF Frame, TypeOK, RemoveQueued, RemoveFromAllRoomQueuesByIP
  <2>2. Remains(queue'[k], queue[k], h, Len(queue[k]))
    BY <2>1, KeepOthersRemains
  <2>3. i \in 1..Len(queue[k])
    BY <2>1
  <2> QED BY <1>1, <2>2, <2>3 DEF Remains
<1>2. ASSUME NEW k \in RoomKeys, NEW i \in DOMAIN queue[k],
             HostOf[queue[k][i]] = h
      PROVE  queue[k][i] \in mod'[p].rest /\ mod'[p].host = h
  <2>1. queue[k][i] \in removed
    BY <1>2 DEF Waiting
  <2>2. mod' = [mod EXCEPT ![p].rest = removed]
    BY <2>1, Zenon DEF RemoveQueued
  <2>3. mod[p] \in Command /\ mod \in [Moderators -> Command]
    BY DEF Frame, TypeOK
  <2>4. mod'[p] = [mod[p] EXCEPT !.rest = removed]
    <3> HIDE DEF removed
    <3> QED BY <2>2, <2>3
  <2> HIDE DEF removed
  <2> QED BY <2>1, <2>3, <2>4 DEF Command
<1> QED BY <1>1, <1>2 DEF InPlace

(* Every step of the server. *)
LEMMA NextInPlace ==
  ASSUME Frame, [Next]_vars
  PROVE  InPlace
<1>1. TypeOK
  BY DEF Frame
<1>2. CASE UNCHANGED queue
  BY <1>1, <1>2, SamePlace DEF InPlace
<1>3. CASE BeginShutdown \/ ForceClose \/ UNCHANGED vars
  BY <1>2, <1>3 DEF BeginShutdown, ForceClose, vars, lobby
<1>4. ASSUME NEW c \in Conns, OnboardingStep(c) \/ OnboardingInput(c)
      PROVE  InPlace
  <2>1. /\ c \in Actors /\ want[c] \in RoomKeys
        /\ pc \in [Actors -> ConnPC \cup {"op"}]
    BY <1>1 DEF TypeOK, Actors
  <2>2. CASE JoinQueue(c)
    BY <2>1, <2>2, <1>1, EnqueuePlace DEF JoinQueue
  <2>3. CASE Decline(c) \/ StopWaiting(c)
    <3>1. RemoveFromRoomQueue(want[c], c) /\ pc'[c] = "abort"
      BY <2>1, <2>3 DEF Decline, StopWaiting, Goto
    <3> QED BY <3>1, <2>1, <1>1, RemovePlace
  <2>4. CASE ~ JoinQueue(c) /\ ~ Decline(c) /\ ~ StopWaiting(c)
    BY <1>2, <1>4, <2>4
       DEF OnboardingStep, OnboardingInput, TrackClient, RejectConnection,
           AcceptConnection, RegisterName, NameReadError, ChooseRoom,
           RoomReadError, CheckRoomCapacity, AnswerYes, Admitted, Abort,
           JoinFirstRoom, RecordJoin, Finish, lobby
  <2> QED BY <2>2, <2>3, <2>4
<1>5. ASSUME NEW c \in Conns, SessionStep(c) \/ SessionInput(c)
      PROVE  InPlace
  <2>1. UNCHANGED queue \/ AdmitFromRoomQueue(want[c])
    BY <1>5
       DEF SessionStep, SessionInput, LineStep, SwitchStep, CleanupStep,
           ReadLine, ReadError, HeartbeatDrop, NoEffect, Quit, Chat, Rename,
           Switch, Create, RecordRename, SwitchRecord, SwitchMove,
           AdmitCheck, AdmitNext, DeleteRoom, Cleanup, CleanupRemove,
           CleanupRecord, lobby
  <2>2. want[c] \in RoomKeys
    BY <1>1 DEF TypeOK
  <2> QED BY <2>1, <2>2, <1>1, <1>2, AdmitPlace
<1>6. ASSUME NEW p \in Moderators, ModerationStep(p) \/ ModerationInput(p)
      PROVE  InPlace
  <2>1. UNCHANGED queue \/ AdmitFromRoomQueue(mod[p].room) \/ RemoveQueued(p)
    BY <1>6
       DEF ModerationStep, ModerationInput, LookUp, NotInYourRoom, Mark,
           RemoveTarget, RecordModeration, CloseTarget, BlockHost,
           CollectByIP, MarkCollateral, NoMoreCollateral, LookUpQueued,
           DropQueued, AdmitOwed, AdmitForSlot, NothingOwed, Annotate,
           RecordNote, Announce, RecordAnnouncement, lobby
  <2>2. mod[p].room \in RoomKeys
    BY <1>1 DEF TypeOK, Command
  <2> QED BY <2>1, <2>2, <1>1, <1>2, AdmitPlace, ByIPPlace
<1> QED BY <1>3, <1>4, <1>5, <1>6 DEF Next, Idle

(* Who waits keeps his place, or has a reason to lose it: admitted, given  *)
(* up, disconnected, or thrown out with his host.                          *)
THEOREM PlacesAreKept == Spec => PlacesKept
<1>1. Frame /\ [Next]_vars => [InPlace]_vars
  BY NextInPlace
<1> QED BY <1>1, FrameInvariant, PTL DEF Spec, PlacesKept

=============================================================================
