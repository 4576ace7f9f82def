----------------------------- MODULE QueueFacts -----------------------------
(***************************************************************************)
(* Facts about the queue operators of Registry, for the proofs about the   *)
(* server.  KeepOthers is recursive; what it returns is proved by taking   *)
(* the least index at which a claim fails.                                 *)
(***************************************************************************)
EXTENDS Registry, FiniteSetTheorems, WellFoundedInduction, TLAPS

(* A set of naturals that is not empty has a least element: of the         *)
(* intervals 0..n for n in the set one is minimal under inclusion.         *)
LEMMA LeastElement ==
  ASSUME NEW T \in SUBSET Nat, T # {}
  PROVE  \E n \in T : \A m \in T : n <= m
<1> DEFINE R == StrictSubsetOrdering(Nat)
           F == {0..n : n \in T}
<1>1. IsWellFoundedOn(R, FiniteSubsetsOf(Nat))
  BY FS_StrictSubsetOrderingWellFounded
<1>2. F \subseteq FiniteSubsetsOf(Nat)
  <2>1. ASSUME NEW n \in T
        PROVE  0..n \in FiniteSubsetsOf(Nat)
    <3>1. IsFiniteSet(0..n) /\ 0..n \subseteq Nat
      BY FS_Interval
    <3> QED BY <3>1 DEF FiniteSubsetsOf
  <2> QED BY <2>1
<1>3. F # {}
  OBVIOUS
<1>4. PICK x \in F : \A y \in F : ~ (<<y, x>> \in R)
  <2> HIDE DEF R, F
  <2> QED BY <1>1, <1>2, <1>3, WFMin
<1>5. PICK n \in T : x = 0..n
  OBVIOUS
<1>6. ASSUME NEW m \in T, ~ (n <= m)
      PROVE  FALSE
  <2>1. 0..m \subseteq 0..n /\ 0..m # 0..n /\ 0..n \subseteq Nat
    BY <1>6
  <2>2. 0..m \in F /\ <<0..m, 0..n>> \in R
    BY <2>1 DEF StrictSubsetOrdering
  <2> QED BY <2>2, <1>4, <1>5
<1> QED BY <1>6

-----------------------------------------------------------------------------
(* f is the recursive function of KeepOthers, up to index n. *)
Keeps(f, q, h, n) ==
  f = [i \in 0..n |-> IF i = 0 THEN <<>>
                      ELSE IF HostOf[q[i]] = h THEN f[i - 1]
                      ELSE Append(f[i - 1], q[i])]

(* The recursion defines a function on every interval. *)
LEMMA KeptExists ==
  ASSUME NEW q \in Seq(Conns), NEW h
  PROVE  \A n \in Nat : \E f : Keeps(f, q, h, n)
<1> DEFINE Bad == {n \in Nat : ~ \E f : Keeps(f, q, h, n)}
<1>1. SUFFICES ASSUME Bad # {} PROVE FALSE
  OBVIOUS
<1>2. PICK n \in Bad : \A m \in Bad : n <= m
  BY <1>1, LeastElement
<1>3. n # 0
  <2>1. Keeps([i \in {0} |-> <<>>], q, h, 0)
    BY DEF Keeps
  <2> QED BY <2>1, <1>2
<1>4. n \in Nat /\ n - 1 \in Nat /\ n - 1 \notin Bad
  BY <1>2, <1>3
<1>5. PICK f : Keeps(f, q, h, n - 1)
  BY <1>4
<1> DEFINE g == [i \in 0..n |-> IF i = n
                   THEN IF HostOf[q[n]] = h THEN f[n - 1]
                                            ELSE Append(f[n - 1], q[n])
                   ELSE f[i]]
<1>6. ASSUME NEW i \in 0..n
      PROVE  g[i] = IF i = 0 THEN <<>>
                    ELSE IF HostOf[q[i]] = h THEN g[i - 1]
                    ELSE Append(g[i - 1], q[i])
  <2>1. CASE i = n
    BY <2>1, <1>3, <1>4
  <2>2. CASE i = 0
    BY <2>2, <1>3, <1>4, <1>5 DEF Keeps
  <2>3. CASE i # n /\ i # 0
    <3>1. /\ i \in 0..(n - 1) /\ i - 1 \in 0..(n - 1)
          /\ i \in 0..n /\ i - 1 \in 0..n /\ i - 1 # n
      BY <2>3, <1>4
    <3>2. g[i] = f[i] /\ g[i - 1] = f[i - 1]
      BY <3>1, <2>3
    <3> HIDE DEF g
    <3> QED BY <3>1, <3>2, <2>3, <1>5 DEF Keeps
  <2> QED BY <2>1, <2>2, <2>3
<1>7. Keeps(g, q, h, n)
  <2> DEFINE G(i) == IF i = 0 THEN <<>>
                     ELSE IF HostOf[q[i]] = h THEN g[i - 1]
                     ELSE Append(g[i - 1], q[i])
  <2>1. g = [i \in 0..n |-> g[i]]
    OBVIOUS
  <2>2. \A i \in 0..n : g[i] = G(i)
    BY <1>6
  <2> HIDE DEF g
  <2>3. g = [i \in 0..n |-> G(i)]
    BY <2>1, <2>2
  <2> QED BY <2>3 DEF Keeps
<1> QED BY <1>7, <1>4, <1>2

(* What the recursion computes, entry by entry. *)
LEMMA KeepOthersRecursion ==
  ASSUME NEW q \in Seq(Conns), NEW h
  PROVE  \E kept : /\ KeepOthers(q, h) = kept[Len(q)]
                   /\ kept[0] = <<>>
                   /\ \A i \in 1..Len(q) :
                        kept[i] = IF HostOf[q[i]] = h THEN kept[i - 1]
                                  ELSE Append(kept[i - 1], q[i])
<1> DEFINE kept == CHOOSE f : Keeps(f, q, h, Len(q))
<1>1. Keeps(kept, q, h, Len(q))
  BY KeptExists
<1>2. KeepOthers(q, h) = kept[Len(q)]
  BY DEF KeepOthers, Keeps
<1> HIDE DEF kept
<1>3. kept[0] = <<>>
  BY <1>1 DEF Keeps
<1>4. ASSUME NEW i \in 1..Len(q)
      PROVE  kept[i] = IF HostOf[q[i]] = h THEN kept[i - 1]
                                           ELSE Append(kept[i - 1], q[i])
  <2>1. i \in 0..Len(q) /\ i # 0
    OBVIOUS
  <2>2. kept = [j \in 0..Len(q) |-> IF j = 0 THEN <<>>
                      ELSE IF HostOf[q[j]] = h THEN kept[j - 1]
                      ELSE Append(kept[j - 1], q[j])]
    BY <1>1 DEF Keeps
  <2>3. kept[i] = IF i = 0 THEN <<>>
                      ELSE IF HostOf[q[i]] = h THEN kept[i - 1]
                      ELSE Append(kept[i - 1], q[i])
    BY <2>1, <2>2, Zenon
  <2> QED BY <2>1, <2>3
<1> QED BY <1>2, <1>3, <1>4

(* No entry occurs twice. *)
Distinct(q) == \A i, j \in DOMAIN q : q[i] = q[j] => i = j

(* Every entry of r is one of q, and two entries of r stand as in q. *)
Ordered(q, r) ==
  /\ \A j \in DOMAIN r : \E l \in DOMAIN q : r[j] = q[l]
  /\ \A i, j \in DOMAIN r : i < j =>
       \E k, l \in DOMAIN q : k < l /\ r[i] = q[k] /\ r[j] = q[l]

(* s is what is left of the first n entries of q without those of host h:  *)
(* every entry of s is one of them, every one of another host is in s, no  *)
(* further back than it was, in the same order, and what occurs once in q  *)
(* occurs once in s.                                                       *)
Remains(s, q, h, n) ==
  /\ s \in Seq(Conns) /\ Len(s) <= n
  /\ \A j \in DOMAIN s : \E i \in 1..n : s[j] = q[i] /\ HostOf[q[i]] # h
  /\ \A i \in 1..n : HostOf[q[i]] # h =>
                       \E j \in DOMAIN s : j <= i /\ s[j] = q[i]
  /\ \A i, j \in DOMAIN s : i < j =>
       \E k, l \in 1..n : k < l /\ s[i] = q[k] /\ s[j] = q[l]
  /\ Distinct(q) => Distinct(s)

(* One more entry of q. *)
LEMMA RemainsNext ==
  ASSUME NEW q \in Seq(Conns), NEW h, NEW n \in 1..Len(q), NEW s,
         Remains(s, q, h, n - 1)
  PROVE  Remains(IF HostOf[q[n]] = h THEN s ELSE Append(s, q[n]), q, h, n)
<1>1. /\ s \in Seq(Conns) /\ Len(s) <= n - 1 /\ Len(s) \in Nat
      /\ n \in Nat /\ n \in DOMAIN q /\ q[n] \in Conns
      /\ DOMAIN s = 1..Len(s) /\ 1..(n - 1) \subseteq DOMAIN q
  BY DEF Remains
<1>2. CASE HostOf[q[n]] = h
  <2>1. 1..(n - 1) \subseteq 1..n /\ n - 1 <= n
    BY <1>1
  <2>2. \A i, j \in DOMAIN s : i < j =>
          \E k, l \in 1..n : k < l /\ s[i] = q[k] /\ s[j] = q[l]
    BY <2>1 DEF Remains
  <2>3. /\ s \in Seq(Conns) /\ Len(s) <= n
        /\ \A j \in DOMAIN s : \E i \in 1..n : s[j] = q[i] /\ HostOf[q[i]] # h
        /\ Distinct(q) => Distinct(s)
    BY <1>1, <2>1 DEF Remains
  <2>4. ASSUME NEW i \in 1..n, HostOf[q[i]] # h
        PROVE  \E j \in DOMAIN s : j <= i /\ s[j] = q[i]
    <3>1. i \in 1..(n - 1)
      BY <2>4, <1>1, <1>2
    <3> QED BY <3>1, <2>4 DEF Remains
  <2>5. Remains(s, q, h, n)
    BY <2>2, <2>3, <2>4 DEF Remains
  <2> QED BY <2>5, <1>2
<1>3. CASE HostOf[q[n]] # h
  <2> DEFINE t == Append(s, q[n])
  <2>1. /\ t \in Seq(Conns) /\ Len(t) = Len(s) + 1
        /\ DOMAIN t = 1..(Len(s) + 1)
        /\ t[Len(s) + 1] = q[n]
        /\ \A j \in DOMAIN s : j \in DOMAIN t /\ t[j] = s[j]
    BY <1>1
  <2> HIDE DEF t
  <2>2. Len(t) <= n
    BY <1>1, <2>1
  <2>3. ASSUME NEW j \in DOMAIN t
        PROVE  \E i \in 1..n : t[j] = q[i] /\ HostOf[q[i]] # h
    <3>1. CASE j \in DOMAIN s
      <4>1. PICK i \in 1..(n - 1) : s[j] = q[i] /\ HostOf[q[i]] # h
        BY <3>1 DEF Remains
      <4> QED BY <4>1, <3>1, <2>1, <1>1
    <3>2. CASE j = Len(s) + 1
      BY <3>2, <2>1, <1>1, <1>3
    <3> QED BY <3>1, <3>2, <2>1, <1>1
  <2>4. ASSUME NEW i \in 1..n, HostOf[q[i]] # h
        PROVE  \E j \in DOMAIN t : j <= i /\ t[j] = q[i]
    <3>1. CASE i = n
      BY <3>1, <2>1, <1>1
    <3>2. CASE i # n
      <4>1. i \in 1..(n - 1)
        BY <3>2, <1>1
      <4>2. PICK j \in DOMAIN s : j <= i /\ s[j] = q[i]
        BY <4>1, <2>4 DEF Remains
      <4> QED BY <4>2, <2>1
    <3> QED BY <3>1, <3>2
  <2>5. ASSUME Distinct(q) PROVE Distinct(t)
    <3>1. \A j \in DOMAIN s : s[j] # q[n]
      <4>1. ASSUME NEW j \in DOMAIN s, s[j] = q[n] PROVE FALSE
        <5>1. PICK i \in 1..(n - 1) : s[j] = q[i]
          BY DEF Remains
        <5>2. i \in DOMAIN q /\ i # n
          BY <1>1
        <5> QED BY <5>1, <5>2, <4>1, <2>5, <1>1 DEF Distinct
      <4> QED BY <4>1
    <3>2. Distinct(s)
      BY <2>5 DEF Remains
    <3>3. \A j \in DOMAIN t : j \in DOMAIN s \/ (j = Len(s) + 1 /\ t[j] = q[n])
      BY <2>1, <1>1
    <3>4. ASSUME NEW i \in DOMAIN t, NEW j \in DOMAIN t, t[i] = t[j]
          PROVE  i = j
      <4>1. CASE i \in DOMAIN s /\ j \in DOMAIN s
        <5>1. s[i] = s[j]
          BY <4>1, <3>4, <2>1, Zenon
        <5> QED BY <4>1, <5>1, <3>2, Zenon DEF Distinct
      <4>2. CASE ~ (i \in DOMAIN s /\ j \in DOMAIN s)
        BY <4>2, <3>1, <3>3, <3>4, <2>1, Zenon
      <4> QED BY <4>1, <4>2
    <3> QED BY <3>4, Zenon DEF Distinct
  <2>6. ASSUME NEW i \in DOMAIN t, NEW j \in DOMAIN t, i < j
        PROVE  \E k, l \in 1..n : k < l /\ t[i] = q[k] /\ t[j] = q[l]
    <3>1. i \in DOMAIN s /\ t[i] = s[i]
      BY <1>1, <2>1, <2>6
    <3>2. CASE j \in DOMAIN s
      <4>1. PICK k \in 1..(n - 1), l \in 1..(n - 1) :
                   k < l /\ s[i] = q[k] /\ s[j] = q[l]
        BY <3>1, <3>2, <2>6 DEF Remains
      <4>2. k \in 1..n /\ l \in 1..n /\ t[j] = s[j]
        BY <4>1, <3>2, <2>1, <1>1
      <4> QED BY <4>1, <4>2, <3>1
    <3>3. CASE j = Len(s) + 1
      <4>1. PICK k \in 1..(n - 1) : s[i] = q[k]
        BY <3>1 DEF Remains
      <4>2. k \in 1..n /\ n \in 1..n /\ k < n /\ t[j] = q[n]
        BY <4>1, <3>3, <2>1, <1>1
      <4> QED BY <4>1, <4>2, <3>1
    <3>4. j \in DOMAIN s \/ j = Len(s) + 1
      BY <2>1, <1>1
    <3> QED BY <3>2, <3>3, <3>4
  <2>7. Remains(t, q, h, n)
    BY <2>1, <2>2, <2>3, <2>4, <2>5, <2>6 DEF Remains
  <2> QED BY <2>7, <1>3 DEF t
<1> QED BY <1>2, <1>3

(* RemoveFromAllRoomQueuesByIP keeps exactly the others, in their places   *)
(* or further in front.                                                    *)
LEMMA KeepOthersRemains ==
  ASSUME NEW q \in Seq(Conns), NEW h
  PROVE  Remains(KeepOthers(q, h), q, h, Len(q))
<1>1. PICK kept : /\ KeepOthers(q, h) = kept[Len(q)]
                  /\ kept[0] = <<>>
                  /\ \A i \in 1..Len(q) :
                       kept[i] = IF HostOf[q[i]] = h THEN kept[i - 1]
                                 ELSE Append(kept[i - 1], q[i])
  BY KeepOthersRecursion
<1> DEFINE Bad == {n \in Nat : n <= Len(q) /\ ~ Remains(kept[n], q, h, n)}
<1>2. Bad = {}
  <2>1. SUFFICES ASSUME Bad # {} PROVE FALSE
    OBVIOUS
  <2>2. PICK n \in Bad : \A m \in Bad : n <= m
    BY <2>1, LeastElement
  <2>3. Len(q) \in Nat /\ n \in Nat /\ n <= Len(q)
        /\ ~ Remains(kept[n], q, h, n)
    BY <2>2
  <2>4. Remains(<<>>, q, h, 0)
    BY DEF Remains, Distinct
  <2>5. n # 0
    BY <1>1, <2>3, <2>4
  <2>6. n \in 1..Len(q) /\ n - 1 \in Nat /\ n - 1 <= Len(q) /\ ~ (n <= n - 1)
    BY <2>3, <2>5
  <2>7. Remains(kept[n - 1], q, h, n - 1)
    <3>1. n - 1 \notin Bad
      <4> HIDE DEF Bad
      <4> QED BY <2>2, <2>6
    <3> QED BY <3>1, <2>6
  <2>8. kept[n] = IF HostOf[q[n]] = h THEN kept[n - 1]
                                      ELSE Append(kept[n - 1], q[n])
    BY <1>1, <2>6
  <2>9. Remains(kept[n], q, h, n)
    BY <2>6, <2>7, <2>8, RemainsNext
  <2> QED BY <2>3, <2>9
<1>3. Len(q) \in Nat /\ Len(q) <= Len(q)
  OBVIOUS
<1> QED BY <1>1, <1>2, <1>3

(* ... and in their order. *)
LEMMA KeepOthersOrdered ==
  ASSUME NEW q \in Seq(Conns), NEW h
  PROVE  Ordered(q, KeepOthers(q, h))
<1> DEFINE s == KeepOthers(q, h)
<1>1. Remains(s, q, h, Len(q)) /\ DOMAIN q = 1..Len(q)
  BY KeepOthersRemains
<1> HIDE DEF s
<1>2. \A j \in DOMAIN s : \E l \in DOMAIN q : s[j] = q[l]
  BY <1>1 DEF Remains
<1>3. ASSUME NEW i \in DOMAIN s, NEW j \in DOMAIN s, i < j
      PROVE  \E k, l \in DOMAIN q : k < l /\ s[i] = q[k] /\ s[j] = q[l]
  <2>1. PICK k \in 1..Len(q), l \in 1..Len(q) :
               k < l /\ s[i] = q[k] /\ s[j] = q[l]
    BY <1>1, <1>3, Zenon DEF Remains
  <2> QED BY <2>1, <1>1
<1> QED BY <1>2, <1>3 DEF Ordered, s

(* Removing the entries of a host leaves a queue; of an empty one nothing. *)
LEMMA KeepOthersType ==
  ASSUME NEW q \in Seq(Conns), NEW h
  PROVE  /\ KeepOthers(q, h) \in Seq(Conns)
         /\ q = <<>> => KeepOthers(q, h) = <<>>
<1>1. KeepOthers(q, h) \in Seq(Conns) /\ Len(KeepOthers(q, h)) <= Len(q)
  BY KeepOthersRemains DEF Remains
<1>2. ASSUME q = <<>> PROVE KeepOthers(q, h) = <<>>
  <2>1. Len(KeepOthers(q, h)) = 0
    BY <1>1, <1>2
  <2> QED BY <1>1, <2>1
<1> QED BY <1>1, <1>2

=============================================================================
