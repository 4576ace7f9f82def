----------------------------- MODULE LineProofs -----------------------------
(***************************************************************************)
(* The queues of the server implement WaitingLine: every step of a         *)
(* handler, a moderator or Shutdown is a step of the waiting lines, or     *)
(* changes none of them.                                                   *)
(***************************************************************************)
EXTENDS QueueProofs

(* Connections that are closed stay closed. *)
StayClosed == \A c \in Conns : closed[c] => closed'[c]

(* What is left of every queue stands in the order it had. *)
QueuesShrink == \A k \in RoomKeys : Ordered(queue[k], queue'[k])

(* Who is connected and has an entry. *)
InLine ==
  {c \in Conns : ~ closed[c] /\
     \E k \in RoomKeys : \E i \in DOMAIN queue[k] : queue[k][i] = c}

-----------------------------------------------------------------------------
(* What is left of a queue is ordered. *)

LEMMA SameOrdered == ASSUME NEW q PROVE Ordered(q, q)
BY DEF Ordered

(* admitFromRoomQueue cuts a prefix off. *)
LEMMA SuffixOrdered ==
  ASSUME NEW q \in Seq(Conns), NEW i \in DOMAIN q
  PROVE  Ordered(q, SubSeq(q, i + 1, Len(q)))
<1> DEFINE r == SubSeq(q, i + 1, Len(q))
<1>1. /\ DOMAIN r = 1..(Len(q) - i)
      /\ \A j \in DOMAIN r : j + i \in DOMAIN q /\ r[j] = q[j + i]
  BY SuffixThins
<1> HIDE DEF r
<1>2. \A j \in DOMAIN r : \E l \in DOMAIN q : r[j] = q[l]
  BY <1>1
<1>3. ASSUME NEW j \in DOMAIN r, NEW l \in DOMAIN r, j < l
      PROVE  \E m, n \in DOMAIN q : m < n /\ r[j] = q[m] /\ r[l] = q[n]
  <2>1. j + i < l + i
    BY <1>1, <1>3
  <2> QED BY <1>1, <2>1
<1> QED BY <1>2, <1>3 DEF Ordered, r

(* removeFromRoomQueue cuts one entry out. *)
LEMMA CutOrdered ==
  ASSUME NEW q \in Seq(Conns), NEW i \in DOMAIN q
  PROVE  Ordered(q, SubSeq(q, 1, i - 1) \o SubSeq(q, i + 1, Len(q)))
<1> DEFINE r == SubSeq(q, 1, i - 1) \o SubSeq(q, i + 1, Len(q))
           at(j) == IF j < i THEN j ELSE j + 1
<1>1. /\ DOMAIN r = 1..(Len(q) - 1)
      /\ \A j \in DOMAIN r : r[j] = IF j < i THEN q[j] ELSE q[j + 1]
  BY CutThins
<1>2. DOMAIN q = 1..Len(q) /\ Len(q) \in Nat /\ i \in 1..Len(q)
  OBVIOUS
<1> HIDE DEF r
<1>3. ASSUME NEW j \in DOMAIN r
      PROVE  at(j) \in DOMAIN q /\ r[j] = q[at(j)]
  <2>1. j \in 1..(Len(q) - 1) /\ j \in DOMAIN q /\ j + 1 \in DOMAIN q
    BY <1>1, <1>2
  <2> QED BY <1>1, <2>1
<1>4. ASSUME NEW j \in DOMAIN r, NEW l \in DOMAIN r, j < l
      PROVE  at(j) < at(l)
  BY <1>1, <1>2, <1>4
<1> HIDE DEF at
<1>5. \A j \in DOMAIN r : \E l \in DOMAIN q : r[j] = q[l]
  BY <1>3
<1>6. \A j, l \in DOMAIN r : j < l =>
        \E m, n \in DOMAIN q : m < n /\ r[j] = q[m] /\ r[l] = q[n]
  BY <1>3, <1>4
<1> QED BY <1>5, <1>6 DEF Ordered, r

-----------------------------------------------------------------------------
(* Who is in line, and before whom. *)

(* A connection is in one queue only, and in one place of it. *)
LEMMA OnePlace ==
  ASSUME QueueSound, NEW k \in RoomKeys, NEW l \in RoomKeys,
         NEW i \in DOMAIN queue[k], NEW j \in DOMAIN queue[l],
         queue[k][i] = queue[l][j]
  PROVE  k = l /\ i = j
BY DEF QueueSound

(* Departures: whoever is not in line any more has left it, and nobody     *)
(* else's turn changed.                                                    *)
LEMMA Departures ==
  ASSUME TypeOK, TypeOK', QueueSound, StayClosed, QueuesShrink
  PROVE  LET G == InLine \ InLine' IN Line!Depart(G)
<1> DEFINE G == InLine \ InLine'
<1>1. ASSUME NEW k \in RoomKeys, NEW i \in DOMAIN queue'[k]
      PROVE  /\ \E j \in DOMAIN queue[k] : queue[k][j] = queue'[k][i]
             /\ queue'[k][i] \in Conns
  <2>1. PICK j \in DOMAIN queue[k] : queue[k][j] = queue'[k][i]
    BY DEF QueuesShrink, Ordered
  <2> QED BY <2>1, EntryTyped
<1>2. ASSUME NEW c \in Conns, c \in InLine'
      PROVE  c \in InLine
  BY <1>1, <1>2 DEF InLine, StayClosed
<1>3. ASSUME NEW k \in RoomKeys, NEW c \in Conns
      PROVE  c \in WaitingAt'[k] <=> c \in WaitingAt[k] \ G
  <2>1. ASSUME c \in WaitingAt'[k] PROVE c \in WaitingAt[k] \ G
    <3>1. ~ closed'[c] /\ \E i \in DOMAIN queue'[k] : queue'[k][i] = c
      BY <2>1 DEF WaitingAt
    <3>2. c \in InLine'
      BY <3>1 DEF InLine
    <3> QED BY <3>1, <3>2, <1>1 DEF WaitingAt, StayClosed
  <2>2. ASSUME c \in WaitingAt[k] \ G PROVE c \in WaitingAt'[k]
    <3>1. PICK i \in DOMAIN queue[k] : queue[k][i] = c /\ ~ closed[c]
      BY <2>2 DEF WaitingAt
    <3>2. c \in InLine'
      BY <2>2, <3>1 DEF InLine
    <3>3. PICK l \in RoomKeys : /\ ~ closed'[c]
                                /\ \E j \in DOMAIN queue'[l] : queue'[l][j] = c
      BY <3>2 DEF InLine
    <3>4. l = k
      BY <3>1, <3>3, <1>1, OnePlace
    <3> QED BY <3>3, <3>4 DEF WaitingAt
  <2> QED BY <2>1, <2>2
<1>4. ASSUME NEW c \in Conns, NEW d \in Conns
      PROVE  d \in WaitingBefore'[c]
               <=> c \notin G /\ d \in WaitingBefore[c] \ G
  <2>1. ASSUME d \in WaitingBefore'[c]
        PROVE  c \notin G /\ d \in WaitingBefore[c] \ G
    <3>1. PICK k \in RoomKeys :
                 /\ ~ closed'[c] /\ ~ closed'[d]
                 /\ \E i, j \in DOMAIN queue'[k] :
                      i < j /\ queue'[k][i] = d /\ queue'[k][j] = c
      BY <2>1 DEF WaitingBefore
    <3>2. c \in InLine' /\ d \in InLine'
      BY <3>1 DEF InLine
    <3>3. \E m, n \in DOMAIN queue[k] :
            m < n /\ queue[k][m] = d /\ queue[k][n] = c
      BY <3>1 DEF QueuesShrink, Ordered
    <3>4. ~ closed[c] /\ ~ closed[d]
      BY <3>1 DEF StayClosed
    <3> QED BY <3>2, <3>3, <3>4 DEF WaitingBefore
  <2>2. ASSUME c \notin G, d \in WaitingBefore[c] \ G
        PROVE  d \in WaitingBefore'[c]
    <3> PICK k \in RoomKeys :
               /\ ~ closed[c] /\ ~ closed[d]
               /\ \E m, n \in DOMAIN queue[k] :
                    m < n /\ queue[k][m] = d /\ queue[k][n] = c
      BY <2>2 DEF WaitingBefore
    <3>1. PICK m \in DOMAIN queue[k], n \in DOMAIN queue[k] :
                 m < n /\ queue[k][m] = d /\ queue[k][n] = c
      OBVIOUS
    <3>2. c \in InLine' /\ d \in InLine'
      BY <2>2, <3>1 DEF InLine
    <3>3. PICK i \in DOMAIN queue'[k] : queue'[k][i] = d
      BY <3>1, <3>2, <1>1, OnePlace DEF InLine
    <3>4. PICK j \in DOMAIN queue'[k] : queue'[k][j] = c
      BY <3>1, <3>2, <1>1, OnePlace DEF InLine
    <3>5. i \in Nat /\ j \in Nat /\ m \in Nat /\ n \in Nat
      <4>1. queue[k] \in Seq(Conns) /\ queue'[k] \in Seq(Conns)
        BY DEF TypeOK
      <4> QED BY <4>1
    <3>6. m # n
      BY <3>1, <3>5
    <3>7. d # c
      BY <3>1, <3>6, OnePlace
    <3>8. i # j
      BY <3>3, <3>4, <3>7
    <3>9. ~ (j < i)
      <4>1. ASSUME j < i PROVE FALSE
        <5>1. PICK x \in DOMAIN queue[k], y \in DOMAIN queue[k] :
                     x < y /\ queue[k][x] = c /\ queue[k][y] = d
          BY <4>1, <3>3, <3>4 DEF QueuesShrink, Ordered
        <5>2. x = n /\ y = m
          BY <5>1, <3>1, OnePlace
        <5> QED BY <5>1, <5>2, <3>1, <3>5
      <4> QED BY <4>1
    <3>10. i < j
      BY <3>5, <3>8, <3>9
    <3>11. ~ closed'[c] /\ ~ closed'[d]
      BY <3>2 DEF InLine
    <3> QED BY <3>3, <3>4, <3>10, <3>11 DEF WaitingBefore
  <2> QED BY <2>1, <2>2
<1>5. WaitingAt' = [k \in RoomKeys |-> WaitingAt[k] \ G]
  <2>1. \A k \in RoomKeys : WaitingAt'[k] = WaitingAt[k] \ G
    <3>1. \A k \in RoomKeys : /\ WaitingAt[k] \subseteq Conns
                              /\ WaitingAt'[k] \subseteq Conns
      BY DEF WaitingAt
    <3> HIDE DEF G
    <3> QED BY <1>3, <3>1
  <2>2. WaitingAt' = [k \in RoomKeys |-> WaitingAt'[k]]
    BY DEF WaitingAt
  <2> HIDE DEF G
  <2> QED BY <2>1, <2>2
<1>6. WaitingBefore' =
        [c \in Conns |-> IF c \in G THEN {} ELSE WaitingBefore[c] \ G]
  <2>1. \A c \in Conns :
          WaitingBefore'[c] = IF c \in G THEN {} ELSE WaitingBefore[c] \ G
    <3>1. \A c \in Conns : /\ WaitingBefore[c] \subseteq Conns
                           /\ WaitingBefore'[c] \subseteq Conns
      BY DEF WaitingBefore
    <3> HIDE DEF G
    <3> QED BY <1>4, <3>1
  <2>2. WaitingBefore' = [c \in Conns |-> WaitingBefore'[c]]
    BY DEF WaitingBefore
  <2> HIDE DEF G
  <2> QED BY <2>1, <2>2
<1> HIDE DEF G
<1>7. Line!Depart(G)
  BY <1>5, <1>6 DEF Line!Depart
<1> QED BY <1>7 DEF G

(* If nobody is admitted, departures are all that happened. *)
LEMMA LeaveStep ==
  ASSUME TypeOK, TypeOK', QueueSound, StayClosed, QueuesShrink,
         UNCHANGED admit
  PROVE  Line!Next
<1> DEFINE G == InLine \ InLine'
<1>1. Line!Depart(G)
  BY Departures
<1>2. G \in SUBSET Conns /\ \A c \in G : \E k \in RoomKeys : c \in WaitingAt[k]
  BY DEF InLine, WaitingAt
<1> HIDE DEF G
<1>3. Line!Leave(G)
  BY <1>1, <1>2 DEF Line!Leave
<1> QED BY <1>2, <1>3 DEF Line!Next

(* admitFromRoomQueue: those before the admitted one were closed, so he is *)
(* the only one who leaves the line, and nobody is ahead of him.           *)
LEMMA ServeStep ==
  ASSUME TypeOK, TypeOK', QueueSound, NEW k \in RoomKeys,
         AdmitFromRoomQueue(k), UNCHANGED closed
  PROVE  Line!Next
<1> DEFINE live == {i \in DOMAIN queue[k] : ~ closed[queue[k][i]]}
<1>1. queue[k] \in Seq(Conns) /\ queue \in [RoomKeys -> Seq(Conns)]
  BY DEF TypeOK
<1>2. StayClosed
  BY DEF StayClosed
<1>3. CASE queue' = [queue EXCEPT ![k] = <<>>] /\ UNCHANGED admit
  <2>1. \A l \in RoomKeys : queue'[l] = IF l = k THEN <<>> ELSE queue[l]
    BY <1>1, <1>3
  <2>2. Ordered(queue[k], <<>>)
    BY DEF Ordered
  <2>3. QueuesShrink
    BY <2>1, <2>2, SameOrdered DEF QueuesShrink
  <2> QED BY <1>2, <1>3, <2>3, LeaveStep
<1>4. ASSUME NEW i \in live, \A j \in live : i <= j,
             queue' = [queue EXCEPT ![k] = SubSeq(@, i + 1, Len(@))],
             admit' = admit \cup {queue[k][i]}
      PROVE  Line!Next
  <2> DEFINE r == SubSeq(queue[k], i + 1, Len(queue[k]))
             d == queue[k][i]
             G == InLine \ InLine'
  <2>1. i \in DOMAIN queue[k] /\ ~ closed[d] /\ d \in Conns /\ i \in Nat
        /\ DOMAIN queue[k] \subseteq Nat
    BY <1>1, EntryTyped
  <2>2. /\ Ordered(queue[k], r)
        /\ DOMAIN r = 1..(Len(queue[k]) - i)
        /\ \A j \in DOMAIN r : /\ j + i \in DOMAIN queue[k]
                               /\ r[j] = queue[k][j + i]
    BY <1>1, <2>1, SuffixOrdered, SuffixThins
  <2>3. \A l \in RoomKeys : queue'[l] = IF l = k THEN r ELSE queue[l]
    <3>1. queue' = [queue EXCEPT ![k] = r]
      BY <1>4, Zenon
    <3> HIDE DEF r
    <3> QED BY <1>1, <3>1
  <2>4. QueuesShrink
    BY <2>2, <2>3, SameOrdered DEF QueuesShrink
  <2> HIDE DEF r
  <2>5. \A j \in DOMAIN queue[k] : j < i => closed[queue[k][j]]
    <3>1. ASSUME NEW j \in DOMAIN queue[k], j < i, ~ closed[queue[k][j]]
          PROVE  FALSE
      BY <3>1, <1>4, <2>1
    <3> QED BY <3>1
  <2>6. d \in InLine
    BY <2>1 DEF InLine
  <2>7. d \notin InLine'
    <3>1. ASSUME NEW l \in RoomKeys, NEW j \in DOMAIN queue'[l],
                 queue'[l][j] = d
          PROVE  FALSE
      <4>1. CASE l = k
        <5>1. /\ j + i \in DOMAIN queue[k] /\ queue[k][j + i] = d
              /\ j \in Nat /\ j >= 1
          BY <4>1, <3>1, <2>2, <2>3
        <5>2. j + i = i
          BY <5>1, <2>1, OnePlace
        <5> QED BY <5>1, <5>2, <2>1
      <4>2. CASE l # k
        BY <4>2, <3>1, <2>1, <2>3, OnePlace
      <4> QED BY <4>1, <4>2
    <3> QED BY <3>1 DEF InLine
  <2>8. ASSUME NEW c \in Conns, c \in InLine, c # d
        PROVE  c \in InLine'
    <3>1. PICK l \in RoomKeys : \E j \in DOMAIN queue[l] : queue[l][j] = c
      BY <2>8 DEF InLine
    <3>2. PICK j \in DOMAIN queue[l] : queue[l][j] = c
      BY <3>1
    <3>3. ~ closed'[c]
      BY <2>8 DEF InLine
    <3>4. CASE l # k
      BY <3>2, <3>3, <3>4, <2>3 DEF InLine
    <3>5. CASE l = k
      <4>1. j # i /\ ~ (j < i)
        BY <3>2, <3>5, <2>5, <2>8 DEF InLine
      <4>2. /\ j \in 1..Len(queue[k]) /\ i \in 1..Len(queue[k])
            /\ Len(queue[k]) \in Nat
        BY <3>5, <1>1, <2>1
      <4>3. j - i \in 1..(Len(queue[k]) - i) /\ (j - i) + i = j
        <5>1. j - i \in Int /\ 1 <= j - i /\ j - i <= Len(queue[k]) - i
          BY <4>1, <4>2
        <5> QED BY <5>1, <4>2
      <4>4. j - i \in DOMAIN queue'[k] /\ queue'[k][j - i] = c
        BY <4>3, <3>2, <3>5, <2>2, <2>3
      <4> QED BY <4>4, <3>3 DEF InLine
    <3> QED BY <3>4, <3>5
  <2>9. G = {d}
    <3>1. InLine \subseteq Conns
      BY DEF InLine
    <3> HIDE DEF d
    <3> QED BY <3>1, <2>6, <2>7, <2>8
  <2>10. Line!Depart({d})
    <3>1. Line!Depart(G)
      BY <1>2, <2>4, Departures
    <3> HIDE DEF G
    <3> QED BY <3>1, <2>9
  <2>11. d \in WaitingAt[k]
    BY <2>1 DEF WaitingAt
  <2>12. WaitingBefore[d] = {}
    <3>1. ASSUME NEW c \in WaitingBefore[d] PROVE FALSE
      <4>1. PICK l \in RoomKeys :
                   /\ ~ closed[c]
                   /\ \E m, n \in DOMAIN queue[l] :
                        m < n /\ queue[l][m] = c /\ queue[l][n] = d
        BY <3>1, <2>1 DEF WaitingBefore
      <4>2. PICK m \in DOMAIN queue[l], n \in DOMAIN queue[l] :
                   m < n /\ queue[l][m] = c /\ queue[l][n] = d
        BY <4>1
      <4>3. l = k /\ n = i
        BY <4>2, <2>1, OnePlace
      <4> QED BY <4>1, <4>2, <4>3, <2>5
    <3> QED BY <3>1
  <2> HIDE DEF d
  <2>13. admit' = admit \cup {d}
    BY <1>4 DEF d
  <2>14. Line!Serve(d, k)
    BY <2>10, <2>11, <2>12, <2>13 DEF Line!Serve
  <2> QED BY <2>1, <2>14 DEF Line!Next
<1> QED BY <1>3, <1>4, Zenon DEF AdmitFromRoomQueue

(* checkOrQueueRoom's append: the newcomer stands behind all others, and   *)
(* does not stand there at all if his connection is closed already.        *)
LEMMA ArriveStep ==
  ASSUME Frame, Frame', Sound, NEW c \in Conns, JoinQueue(c)
  PROVE  Line!Next \/ UNCHANGED Line!lineVars
<1> DEFINE k == want[c]
           n == Len(queue[k])
<1>1. /\ TypeOK /\ QueueSound /\ k \in RoomKeys /\ pc[c] = "enqueue"
      /\ queue[k] \in Seq(Conns) /\ UNCHANGED <<admit, closed>>
      /\ queue' = [queue EXCEPT ![k] = Append(queue[k], c)]
  BY DEF Frame, Sound, TypeOK, JoinQueue, Goto, Enqueue, link
<1>2. \A l \in RoomKeys :
        queue'[l] = IF l = k THEN Append(queue[k], c) ELSE queue[l]
  BY <1>1 DEF TypeOK
<1>3. /\ n \in Nat /\ DOMAIN queue[k] = 1..n /\ DOMAIN queue'[k] = 1..(n + 1)
      /\ queue'[k][n + 1] = c /\ \A i \in 1..n : queue'[k][i] = queue[k][i]
  <2>1. queue'[k] = Append(queue[k], c)
    BY <1>1, <1>2
  <2> HIDE DEF k
  <2> QED BY <1>1, <2>1
<1>4. \A l \in RoomKeys : \A i \in DOMAIN queue[l] :
        queue[l][i] \in Conns /\ queue[l][i] # c
  BY <1>1, EntryTyped DEF QueueSound
<1>5. c \notin admit
  BY <1>1 DEF Sound, Unadmitted, Early
<1> HIDE DEF n, k
<1>6. \A l \in RoomKeys :
        WaitingAt'[l] = IF l = k /\ ~ closed[c] THEN WaitingAt[l] \cup {c}
                                                ELSE WaitingAt[l]
  <2> SUFFICES ASSUME NEW l \in RoomKeys, NEW d
               PROVE  d \in WaitingAt'[l] <=>
                        d \in WaitingAt[l] \/ (l = k /\ d = c /\ ~ closed[c])
    OBVIOUS
  <2>1. CASE l # k
    BY <2>1, <1>1, <1>2 DEF WaitingAt
  <2>2. CASE l = k
    <3>1. (\E i \in DOMAIN queue'[k] : queue'[k][i] = d)
            <=> d = c \/ \E i \in DOMAIN queue[k] : queue[k][i] = d
      <4>1. \A i \in 1..(n + 1) : i \in 1..n \/ i = n + 1
        BY <1>3
      <4>2. n + 1 \in 1..(n + 1) /\ 1..n \subseteq 1..(n + 1)
        BY <1>3
      <4> QED BY <4>1, <4>2, <1>3
    <3> QED BY <3>1, <2>2, <1>1 DEF WaitingAt
  <2> QED BY <2>1, <2>2
<1>7. \A e \in Conns :
        WaitingBefore'[e] = IF e = c /\ ~ closed[c] THEN WaitingAt[k]
                                                    ELSE WaitingBefore[e]
  <2>1. ASSUME NEW e \in Conns, NEW d \in Conns, NEW l \in RoomKeys
        PROVE  (\E i, j \in DOMAIN queue'[l] :
                  i < j /\ queue'[l][i] = d /\ queue'[l][j] = e)
               <=> \/ \E i, j \in DOMAIN queue[l] :
                        i < j /\ queue[l][i] = d /\ queue[l][j] = e
                   \/ /\ l = k /\ e = c
                      /\ \E i \in DOMAIN queue[k] : queue[k][i] = d
    <3>1. CASE l # k
      BY <3>1, <1>2
    <3>2. CASE l = k
      <4>1. ASSUME NEW i \in DOMAIN queue'[k], NEW j \in DOMAIN queue'[k],
                   i < j, queue'[k][i] = d, queue'[k][j] = e
            PROVE  /\ i \in DOMAIN queue[k] /\ queue[k][i] = d
                   /\ \/ j \in DOMAIN queue[k] /\ queue[k][j] = e
                      \/ e = c
        <5>1. i \in 1..n /\ (j \in 1..n \/ j = n + 1)
          BY <4>1, <1>3
        <5> QED BY <5>1, <4>1, <1>3
      <4>2. ASSUME NEW i \in DOMAIN queue[k], NEW j \in DOMAIN queue[k],
                   i < j, queue[k][i] = d, queue[k][j] = e
            PROVE  /\ i \in DOMAIN queue'[k] /\ queue'[k][i] = d
                   /\ j \in DOMAIN queue'[k] /\ queue'[k][j] = e
        <5>1. i \in 1..n /\ j \in 1..n /\ 1..n \subseteq 1..(n + 1)
          BY <1>3
        <5> QED BY <5>1, <4>2, <1>3
      <4>3. ASSUME e = c, NEW i \in DOMAIN queue[k], queue[k][i] = d
            PROVE  /\ i \in DOMAIN queue'[k] /\ queue'[k][i] = d
                   /\ n + 1 \in DOMAIN queue'[k] /\ queue'[k][n + 1] = e
                   /\ i < n + 1
        BY <4>3, <1>3
      <4> QED BY <3>2, <4>1, <4>2, <4>3
    <3> QED BY <3>1, <3>2
  <2>2. ASSUME NEW e \in Conns, NEW d \in Conns
        PROVE  d \in WaitingBefore'[e] <=>
                 \/ d \in WaitingBefore[e]
                 \/ e = c /\ ~ closed[c] /\ d \in WaitingAt[k]
    <3> DEFINE B(l) == \E i, j \in DOMAIN queue[l] :
                         i < j /\ queue[l][i] = d /\ queue[l][j] = e
               C(l) == \E i, j \in DOMAIN queue'[l] :
                         i < j /\ queue'[l][i] = d /\ queue'[l][j] = e
               E == \E i \in DOMAIN queue[k] : queue[k][i] = d
    <3>1. d \in WaitingBefore'[e] <=>
            ~ closed[e] /\ ~ closed[d] /\ \E l \in RoomKeys : C(l)
      BY <1>1 DEF WaitingBefore
    <3>2. d \in WaitingBefore[e] <=>
            ~ closed[e] /\ ~ closed[d] /\ \E l \in RoomKeys : B(l)
      BY DEF WaitingBefore
    <3>3. d \in WaitingAt[k] <=> ~ closed[d] /\ E
      BY <1>1 DEF WaitingAt
    <3>4. \A l \in RoomKeys : C(l) <=> B(l) \/ (l = k /\ e = c /\ E)
      BY <2>1
    <3> HIDE DEF B, C, E
    <3> QED BY <3>1, <3>2, <3>3, <3>4, <1>1
  <2>3. c \in Conns /\ WaitingBefore[c] = {}
    BY <1>4 DEF WaitingBefore
  <2>4. /\ \A e \in Conns : WaitingBefore'[e] \subseteq Conns
        /\ \A e \in Conns : WaitingBefore[e] \subseteq Conns
        /\ WaitingAt[k] \subseteq Conns
    BY <1>1 DEF WaitingBefore, WaitingAt
  <2> QED BY <2>2, <2>3, <2>4
<1>8. /\ WaitingAt = [l \in RoomKeys |-> WaitingAt[l]]
      /\ WaitingAt' = [l \in RoomKeys |-> WaitingAt'[l]]
      /\ WaitingBefore = [e \in Conns |-> WaitingBefore[e]]
      /\ WaitingBefore' = [e \in Conns |-> WaitingBefore'[e]]
  BY DEF WaitingAt, WaitingBefore
<1>9. \A l \in RoomKeys : c \notin WaitingAt[l]
  BY <1>4 DEF WaitingAt
<1>10. CASE closed[c]
  <2>1. \A l \in RoomKeys : WaitingAt'[l] = WaitingAt[l]
    BY <1>6, <1>10
  <2>2. \A e \in Conns : WaitingBefore'[e] = WaitingBefore[e]
    BY <1>7, <1>10
  <2>3. WaitingAt' = WaitingAt
    BY <2>1, <1>8
  <2>4. WaitingBefore' = WaitingBefore
    BY <2>2, <1>8
  <2> QED BY <2>3, <2>4, <1>1 DEF Line!lineVars
<1>11. CASE ~ closed[c]
  <2>1. \A l \in RoomKeys :
          WaitingAt'[l] = IF l = k THEN WaitingAt[l] \cup {c} ELSE WaitingAt[l]
    BY <1>6, <1>11
  <2>2. \A e \in Conns :
          WaitingBefore'[e] = IF e = c THEN WaitingAt[k] ELSE WaitingBefore[e]
    BY <1>7, <1>11
  <2>3. WaitingAt' = [WaitingAt EXCEPT ![k] = @ \cup {c}]
    BY <2>1, <1>1, <1>8
  <2>4. WaitingBefore' = [WaitingBefore EXCEPT ![c] = WaitingAt[k]]
    BY <2>2, <1>8
  <2>5. Line!Arrive(c, k)
    BY <2>3, <2>4, <1>1, <1>5, <1>9 DEF Line!Arrive
  <2> QED BY <2>5, <1>1 DEF Line!Next
<1> QED BY <1>10, <1>11

-----------------------------------------------------------------------------
(* Every step of the server. *)

(* removeFromRoomQueue and RemoveFromAllRoomQueuesByIP leave the others in *)
(* their order.                                                            *)
LEMMA RemoveShrinks ==
  ASSUME TypeOK, NEW k \in RoomKeys, NEW c, RemoveFromRoomQueue(k, c)
  PROVE  QueuesShrink
<1>1. queue[k] \in Seq(Conns) /\ queue \in [RoomKeys -> Seq(Conns)]
  BY DEF TypeOK
<1>2. CASE UNCHANGED queue
  BY <1>2, SameOrdered DEF QueuesShrink
<1>3. ASSUME NEW i \in DOMAIN queue[k],
             queue' = [queue EXCEPT ![k] =
                         SubSeq(@, 1, i - 1) \o SubSeq(@, i + 1, Len(@))]
      PROVE  QueuesShrink
  <2> DEFINE q == queue[k]
             r == SubSeq(q, 1, i - 1) \o SubSeq(q, i + 1, Len(q))
  <2>1. Ordered(q, r)
    <3>1. q \in Seq(Conns) /\ i \in DOMAIN q
      BY <1>1
    <3> HIDE DEF q
    <3> QED BY <3>1, CutOrdered
  <2>2. queue' = [queue EXCEPT ![k] = r]
    BY <1>3, Zenon
  <2> HIDE DEF r
  <2>3. \A l \in RoomKeys : queue'[l] = IF l = k THEN r ELSE queue[l]
    BY <1>1, <2>2
  <2> QED BY <2>1, <2>3, SameOrdered DEF QueuesShrink
<1> QED BY <1>2, <1>3, Zenon DEF RemoveFromRoomQueue

LEMMA ByIPShrinks ==
  ASSUME TypeOK, NEW h, RemoveFromAllRoomQueuesByIP(h)
  PROVE  QueuesShrink
<1>1. \A k \in RoomKeys : queue[k] \in Seq(Conns)
                          /\ queue'[k] = KeepOthers(queue[k], h)
  BY DEF TypeOK, RemoveFromAllRoomQueuesByIP
<1> QED BY <1>1, KeepOthersOrdered DEF QueuesShrink

(* A step that admits nobody and puts nobody into a queue. *)
LEMMA QuietStep ==
  ASSUME Frame, Frame', Sound, UNCHANGED admit, StayClosed,
         UNCHANGED queue \/ QueuesShrink
  PROVE  Line!Next
<1>1. QueuesShrink
  BY SameOrdered DEF QueuesShrink
<1> QED BY <1>1, LeaveStep DEF Frame, Sound

(* Close closes, and nothing opens again. *)
LEMMA CloseStays ==
  ASSUME TypeOK, UNCHANGED closed \/ \E C : Close(C)
  PROVE  StayClosed
BY DEF TypeOK, StayClosed, Close

LEMMA OnboardingLine ==
  ASSUME Frame, Frame', Sound, NEW c \in Conns,
         OnboardingStep(c) \/ OnboardingInput(c)
  PROVE  Line!Next \/ UNCHANGED Line!lineVars
<1>1. TypeOK /\ want[c] \in RoomKeys
  BY DEF Frame, TypeOK
<1>2. CASE JoinQueue(c)
  BY <1>2, ArriveStep
<1>3. CASE Decline(c) \/ StopWaiting(c)
  <2>1. RemoveFromRoomQueue(want[c], c) /\ UNCHANGED <<admit, closed>>
    BY <1>3 DEF Decline, StopWaiting, link
  <2>2. QueuesShrink
    BY <1>1, <2>1, RemoveShrinks
  <2>3. StayClosed
    BY <1>1, <2>1, CloseStays
  <2> QED BY <2>1, <2>2, <2>3, QuietStep
<1>4. CASE ~ JoinQueue(c) /\ ~ Decline(c) /\ ~ StopWaiting(c)
  <2>1. UNCHANGED lobby /\ (UNCHANGED closed \/ Close({c}))
    BY <1>4
       DEF OnboardingStep, OnboardingInput, TrackClient, RejectConnection,
           AcceptConnection, RegisterName, NameReadError, ChooseRoom,
           RoomReadError, CheckRoomCapacity, AnswerYes, Admitted, Abort,
           JoinFirstRoom, RecordJoin, Finish, link
  <2>2. UNCHANGED queue /\ UNCHANGED admit
    BY <2>1 DEF lobby
  <2>3. StayClosed
    BY <1>1, <2>1, CloseStays
  <2> QED BY <2>2, <2>3, QuietStep
<1> QED BY <1>2, <1>3, <1>4

LEMMA SessionLine ==
  ASSUME Frame, Frame', Sound, NEW c \in Conns,
         SessionStep(c) \/ SessionInput(c)
  PROVE  Line!Next
<1>1. TypeOK /\ TypeOK' /\ QueueSound /\ want[c] \in RoomKeys
  BY DEF Frame, TypeOK, Sound
<1>2. CASE AdmitNext(c, "swAdmit", "swDelete")
           \/ AdmitNext(c, "clAdmit", "clDelete")
  <2>1. AdmitFromRoomQueue(want[c]) /\ UNCHANGED closed
    BY <1>2 DEF AdmitNext, link
  <2> QED BY <1>1, <2>1, ServeStep
<1>3. CASE ~ AdmitNext(c, "swAdmit", "swDelete")
           /\ ~ AdmitNext(c, "clAdmit", "clDelete")
  <2>1. UNCHANGED lobby /\ (UNCHANGED closed \/ Close({c}))
    BY <1>3
       DEF SessionStep, SessionInput, LineStep, SwitchStep, CleanupStep,
           ReadLine, ReadError, HeartbeatDrop, NoEffect, Quit, Chat, Rename,
           Switch, Create, RecordRename, SwitchRecord, SwitchMove,
           AdmitCheck, DeleteRoom, Cleanup, CleanupRemove, CleanupRecord,
           link
  <2>2. UNCHANGED queue /\ UNCHANGED admit
    BY <2>1 DEF lobby
  <2>3. StayClosed
    BY <1>1, <2>1, CloseStays
  <2> QED BY <2>2, <2>3, QuietStep
<1> QED BY <1>2, <1>3

LEMMA ModerationLine ==
  ASSUME Frame, Frame', Sound, NEW p \in Moderators,
         ModerationStep(p) \/ ModerationInput(p)
  PROVE  Line!Next
<1>1. TypeOK /\ TypeOK' /\ QueueSound /\ mod[p].room \in RoomKeys
  BY DEF Frame, TypeOK, Sound, Command
<1>2. CASE AdmitForSlot(p)
  <2>1. AdmitFromRoomQueue(mod[p].room) /\ UNCHANGED closed
    BY <1>2 DEF AdmitForSlot, link
  <2> QED BY <1>1, <2>1, ServeStep
<1>3. CASE RemoveQueued(p)
  <2>1. /\ RemoveFromAllRoomQueuesByIP(mod[p].host)
        /\ UNCHANGED admit /\ UNCHANGED closed
    BY <1>3 DEF RemoveQueued, link
  <2>2. QueuesShrink
    BY <1>1, <2>1, ByIPShrinks
  <2>3. StayClosed
    BY <1>1, <2>1, CloseStays
  <2> QED BY <2>1, <2>2, <2>3, QuietStep
<1>4. CASE CloseTarget(p) \/ DropQueued(p)
  <2>1. UNCHANGED lobby /\ \E C : Close(C)
    BY <1>4 DEF CloseTarget, DropQueued
  <2>2. UNCHANGED queue /\ UNCHANGED admit
    BY <2>1 DEF lobby
  <2>3. StayClosed
    BY <1>1, <2>1, CloseStays
  <2> QED BY <2>2, <2>3, QuietStep
<1>5. CASE /\ ~ AdmitForSlot(p) /\ ~ RemoveQueued(p)
           /\ ~ CloseTarget(p) /\ ~ DropQueued(p)
  <2>1. UNCHANGED lobby /\ UNCHANGED closed
    BY <1>5
       DEF ModerationStep, ModerationInput, LookUp, NotInYourRoom, Mark,
           RemoveTarget, RecordModeration, BlockHost, CollectByIP,
           MarkCollateral, NoMoreCollateral, LookUpQueued, AdmitOwed,
           NothingOwed, Annotate, RecordNote, Announce, RecordAnnouncement,
           link
  <2>2. UNCHANGED queue /\ UNCHANGED admit
    BY <2>1 DEF lobby
  <2>3. StayClosed
    BY <1>1, <2>1, CloseStays
  <2> QED BY <2>2, <2>3, QuietStep
<1> QED BY <1>2, <1>3, <1>4, <1>5

LEMMA ShutdownLine ==
  ASSUME Frame, Frame', Sound, BeginShutdown \/ ForceClose \/ UNCHANGED vars
  PROVE  Line!Next
<1>1. TypeOK
  BY DEF Frame
<1>2. /\ UNCHANGED queue /\ UNCHANGED admit
      /\ UNCHANGED closed \/ \E C : Close(C)
  BY DEF BeginShutdown, ForceClose, vars, lobby, link
<1>3. StayClosed
  BY <1>1, <1>2, CloseStays
<1> QED BY <1>2, <1>3, QuietStep

LEMMA NextLine ==
  ASSUME Frame, Frame', Sound, [Next]_vars
  PROVE  [Line!Next]_(Line!lineVars)
BY OnboardingLine, SessionLine, ModerationLine, ShutdownLine DEF Next, Idle

(* At the start every line is empty. *)
LEMMA InitLine ==
  ASSUME RegistryInit PROVE Line!Init
<1>1. admit = {} /\ \A k \in RoomKeys : queue[k] = <<>>
  BY DEF RegistryInit
<1>2. WaitingAt = [k \in RoomKeys |-> {}]
  <2>1. \A k \in RoomKeys : WaitingAt[k] = {}
    BY <1>1 DEF WaitingAt
  <2>2. WaitingAt = [k \in RoomKeys |-> WaitingAt[k]]
    BY DEF WaitingAt
  <2> HIDE DEF WaitingAt
  <2> QED BY <2>1, <2>2
<1>3. WaitingBefore = [c \in Conns |-> {}]
  <2>1. \A c \in Conns : WaitingBefore[c] = {}
    BY <1>1 DEF WaitingBefore
  <2>2. WaitingBefore = [c \in Conns |-> WaitingBefore[c]]
    BY DEF WaitingBefore
  <2> QED BY <2>1, <2>2
<1> QED BY <1>1, <1>2, <1>3 DEF Line!Init

(* The server implements first come, first served: whatever handlers,      *)
(* moderators, hang-ups and Shutdown do to the queues is an arrival behind *)
(* all others of the room, the admission of somebody nobody is ahead of,   *)
(* departures that change nobody else's turn, or nothing.                  *)
THEOREM ServerServesInLine == Spec => FirstComeFirstServed
<1>1. RegistryInit => Line!Init
  BY InitLine
<1>2. Frame /\ Frame' /\ Sound /\ [Next]_vars => [Line!Next]_(Line!lineVars)
  BY NextLine
<1> QED
  BY <1>1, <1>2, SoundInvariant, PTL DEF Spec, FirstComeFirstServed, Line!Spec

=============================================================================
