--------------------------- MODULE ClientIOProofs ---------------------------
(***************************************************************************)
(* What writeLoop redraws under the line being typed agrees with what the  *)
(* handler has read, for every size of the channel and of the buffer; and  *)
(* what the handler has read are the lines that were meant.                *)
(***************************************************************************)
EXTENDS ClientIO, FiniteSetTheorems, SequenceTheorems, WellFoundedInduction,
        TLAPS

-----------------------------------------------------------------------------
(* The recursion of After. *)

(* f is what the write loop's copy goes through, from t on, with p. *)
Follows(f, t, p) ==
  f = [i \in 0..Len(p) |-> IF i = 0 THEN t ELSE Tracked(p[i], f[i - 1])]

(* p leads the write loop's copy from t to d. *)
Leads(t, p, d) == \E f : Follows(f, t, p) /\ f[Len(p)] = d

(* Entry by entry. *)
LEMMA FollowsStep ==
  ASSUME NEW p \in Seq(WriteMsgs), NEW t, NEW f, Follows(f, t, p)
  PROVE  /\ f[0] = t
         /\ \A i \in 1..Len(p) : f[i] = Tracked(p[i], f[i - 1])
         /\ DOMAIN f = 0..Len(p) /\ Len(p) \in Nat
<1> DEFINE G(i) == IF i = 0 THEN t ELSE Tracked(p[i], f[i - 1])
<1>1. f = [i \in 0..Len(p) |-> G(i)] /\ Len(p) \in Nat
  BY DEF Follows
<1> HIDE DEF G
<1>2. \A i \in 0..Len(p) : f[i] = G(i)
  BY <1>1, Zenon
<1>3. DOMAIN f = 0..Len(p)
  BY <1>1, Zenon
<1>4. 0 \in 0..Len(p) /\ \A i \in 1..Len(p) : i \in 0..Len(p) /\ i # 0
  BY <1>1
<1>5. G(0) = t /\ \A i \in 1..Len(p) : G(i) = Tracked(p[i], f[i - 1])
  BY <1>4, Zenon DEF G
<1> QED BY <1>1, <1>2, <1>3, <1>4, <1>5, Zenon

(* There is one at most: of the intervals 0..i such that two functions     *)
(* differ at i one is minimal under inclusion.                             *)
LEMMA FollowsUnique ==
  ASSUME NEW p \in Seq(WriteMsgs), NEW t, NEW f, NEW g,
         Follows(f, t, p), Follows(g, t, p)
  PROVE  f[Len(p)] = g[Len(p)]
<1> DEFINE n == Len(p)
           R == StrictSubsetOrdering(Nat)
           Bad == {i \in 0..n : f[i] # g[i]}
           F == {0..i : i \in Bad}
<1>1. n \in Nat
  OBVIOUS
<1>2. f[0] = g[0] /\ \A i \in 1..n : /\ f[i] = Tracked(p[i], f[i - 1])
                                     /\ g[i] = Tracked(p[i], g[i - 1])
  BY FollowsStep
<1> HIDE DEF n
<1>3. Bad = {}
  <2>1. SUFFICES ASSUME Bad # {} PROVE FALSE
    OBVIOUS
  <2>2. IsWellFoundedOn(R, FiniteSubsetsOf(Nat))
    BY FS_StrictSubsetOrderingWellFounded
  <2>3. F \subseteq FiniteSubsetsOf(Nat)
    <3>1. ASSUME NEW i \in Bad
          PROVE  0..i \in FiniteSubsetsOf(Nat)
      <4>1. IsFiniteSet(0..i) /\ 0..i \subseteq Nat
        BY <1>1, FS_Interval
      <4> QED BY <4>1 DEF FiniteSubsetsOf
    <3> QED BY <3>1
  <2>4. PICK x \in F : \A y \in F : ~ (<<y, x>> \in R)
    <3>1. F # {}
      BY <2>1
    <3> HIDE DEF R, F
    <3> QED BY <2>2, <2>3, <3>1, WFMin
  <2>5. PICK i \in Bad : x = 0..i
    OBVIOUS
  <2>6. i \in 1..n /\ i - 1 \in 0..n
    BY <1>1, <1>2, <2>5
  <2>7. f[i - 1] # g[i - 1]
    BY <1>2, <2>5, <2>6
  <2>8. 0..(i - 1) \in F
    BY <2>6, <2>7
  <2>9. <<0..(i - 1), 0..i>> \in R
    <3>1. 0..(i - 1) \subseteq 0..i /\ 0..(i - 1) # 0..i /\ 0..i \subseteq Nat
      BY <1>1, <2>6
    <3> QED BY <3>1 DEF StrictSubsetOrdering
  <2> QED BY <2>4, <2>5, <2>8, <2>9
<1>4. n \in 0..n
  BY <1>1
<1> QED BY <1>3, <1>4 DEF n

(* After computes where p leads. *)
LEMMA LeadsAfter ==
  ASSUME NEW p \in Seq(WriteMsgs), NEW t, NEW d, Leads(t, p, d)
  PROVE  After(t, p) = d
<1>1. PICK f : Follows(f, t, p) /\ f[Len(p)] = d
  BY DEF Leads
<1> DEFINE g == CHOOSE h : Follows(h, t, p)
<1>2. Follows(g, t, p)
  BY <1>1
<1>3. After(t, p) = g[Len(p)]
  BY DEF After, Follows
<1> HIDE DEF g
<1> QED BY <1>1, <1>2, <1>3, FollowsUnique

(* Nothing under way. *)
LEMMA LeadsHere ==
  ASSUME NEW t PROVE Leads(t, <<>>, t)
<1>1. Len(<<>>) = 0
  OBVIOUS
<1>2. Follows([i \in 0..0 |-> t], t, <<>>)
  BY <1>1 DEF Follows
<1> QED BY <1>1, <1>2 DEF Leads

(* A message more at the end. *)
LEMMA LeadsOn ==
  ASSUME NEW p \in Seq(WriteMsgs), NEW m \in WriteMsgs, NEW t, NEW d,
         Leads(t, p, d)
  PROVE  Leads(t, Append(p, m), Tracked(m, d))
<1>1. PICK f : Follows(f, t, p) /\ f[Len(p)] = d
  BY DEF Leads
<1> DEFINE n == Len(p)
           q == Append(p, m)
           g == [i \in 0..(n + 1) |-> IF i = n + 1 THEN Tracked(m, d) ELSE f[i]]
<1>2. /\ n \in Nat /\ Len(q) = n + 1 /\ q[n + 1] = m
      /\ \A i \in 1..n : q[i] = p[i]
  OBVIOUS
<1>3. f[0] = t /\ f[n] = d /\ \A i \in 1..n : f[i] = Tracked(p[i], f[i - 1])
  BY <1>1, FollowsStep
<1> HIDE DEF n, q
<1>4. ASSUME NEW i \in 0..(n + 1)
      PROVE  g[i] = IF i = 0 THEN t ELSE Tracked(q[i], g[i - 1])
  <2>1. CASE i = 0
    BY <2>1, <1>2, <1>3
  <2>2. CASE i = n + 1
    <3>1. i # 0 /\ i - 1 = n /\ n \in 0..(n + 1) /\ n # n + 1
      BY <2>2, <1>2
    <3> QED BY <2>2, <3>1, <1>2, <1>3
  <2>3. CASE i # 0 /\ i # n + 1
    <3>1. /\ i \in 1..n /\ i - 1 \in 0..(n + 1) /\ i - 1 # n + 1
      BY <2>3, <1>2
    <3>2. g[i] = f[i] /\ g[i - 1] = f[i - 1]
      BY <2>3, <3>1
    <3> HIDE DEF g
    <3> QED BY <2>3, <3>1, <3>2, <1>2, <1>3
  <2> QED BY <2>1, <2>2, <2>3
<1>5. g[n + 1] = Tracked(m, d)
  BY <1>2
<1>6. Follows(g, t, q)
  <2> DEFINE G(i) == IF i = 0 THEN t ELSE Tracked(q[i], g[i - 1])
  <2>1. g = [i \in 0..(n + 1) |-> g[i]]
    OBVIOUS
  <2>2. \A i \in 0..(n + 1) : g[i] = G(i)
    BY <1>4
  <2> HIDE DEF g
  <2>3. g = [i \in 0..(n + 1) |-> G(i)]
    BY <2>1, <2>2
  <2> QED BY <2>3, <1>2 DEF Follows
<1> HIDE DEF g
<1> QED BY <1>2, <1>5, <1>6 DEF Leads, q

(* The first message has been tracked. *)
LEMMA LeadsFrom ==
  ASSUME NEW p \in Seq(WriteMsgs), NEW m \in WriteMsgs, NEW t, NEW d,
         Leads(t, <<m>> \o p, d)
  PROVE  Leads(Tracked(m, t), p, d)
<1> DEFINE n == Len(p)
           q == <<m>> \o p
<1>1. PICK f : Follows(f, t, q) /\ f[Len(q)] = d
  BY DEF Leads
<1>2. /\ q \in Seq(WriteMsgs) /\ n \in Nat /\ Len(q) = n + 1 /\ q[1] = m
      /\ \A i \in 1..n : q[i + 1] = p[i]
  <2>1. <<m>> \in Seq(WriteMsgs) /\ Len(<<m>>) = 1 /\ <<m>>[1] = m
    OBVIOUS
  <2>2. /\ q \in Seq(WriteMsgs) /\ Len(q) = 1 + Len(p)
        /\ \A i \in 1..(1 + Len(p)) :
             q[i] = IF i <= 1 THEN <<m>>[i] ELSE p[i - 1]
    BY <2>1, ConcatProperties
  <2> HIDE DEF q
  <2> QED BY <2>1, <2>2
<1>3. /\ f[0] = t /\ f[n + 1] = d
      /\ \A i \in 1..(n + 1) : f[i] = Tracked(q[i], f[i - 1])
  <2> HIDE DEF q
  <2> QED BY <1>1, <1>2, FollowsStep
<1> HIDE DEF n, q
<1> DEFINE g == [i \in 0..n |-> f[i + 1]]
<1>4. ASSUME NEW i \in 0..n
      PROVE  g[i] = IF i = 0 THEN Tracked(m, t) ELSE Tracked(p[i], g[i - 1])
  <2>1. CASE i = 0
    <3>1. 1 \in 1..(n + 1) /\ 1 - 1 = 0 /\ 0 + 1 = 1
      BY <1>2
    <3>2. f[1] = Tracked(m, t)
      BY <3>1, <1>2, <1>3
    <3> QED BY <2>1, <3>1, <3>2
  <2>2. CASE i # 0
    <3>1. /\ i + 1 \in 1..(n + 1) /\ i \in 1..n /\ i - 1 \in 0..n
          /\ (i - 1) + 1 = i /\ (i + 1) - 1 = i
      BY <2>2, <1>2
    <3>2. g[i] = f[i + 1] /\ g[i - 1] = f[i]
      BY <3>1
    <3>3. f[i + 1] = Tracked(q[i + 1], f[i])
      BY <3>1, <1>3
    <3> HIDE DEF g
    <3> QED BY <2>2, <3>1, <3>2, <3>3, <1>2
  <2> QED BY <2>1, <2>2
<1>5. g[n] = d
  BY <1>2, <1>3
<1>6. Follows(g, Tracked(m, t), p)
  <2> DEFINE G(i) == IF i = 0 THEN Tracked(m, t) ELSE Tracked(p[i], g[i - 1])
  <2>1. g = [i \in 0..n |-> g[i]]
    OBVIOUS
  <2>2. \A i \in 0..n : g[i] = G(i)
    BY <1>4
  <2> HIDE DEF g
  <2>3. g = [i \in 0..n |-> G(i)]
    BY <2>1, <2>2
  <2> QED BY <2>3 DEF Follows, n
<1> HIDE DEF g
<1> QED BY <1>5, <1>6 DEF Leads, n

-----------------------------------------------------------------------------
(* One message. *)

Fresh == [buf |-> <<>>, prompt |-> FALSE]

LEMMA TrackedCases ==
  ASSUME NEW b, NEW p
  PROVE  LET t == [buf |-> b, prompt |-> p] IN
         /\ Tracked(Write("wmMessage"), t) = t
         /\ Tracked(Write("wmPrompt"), t) = [buf |-> <<>>, prompt |-> TRUE]
         /\ Tracked(Write("wmNewline"), t) = Fresh
         /\ \A x \in Letters :
              Tracked([msgType |-> "wmEcho", data |-> x], t) =
                [buf |-> IF Len(b) < MaxInteractiveBuf THEN Append(b, x) ELSE b,
                 prompt |-> p]
         /\ Tracked(Write("wmBackspace"), t) =
              [buf |-> IF b = <<>> THEN b ELSE SubSeq(b, 1, Len(b) - 1),
               prompt |-> p]
BY DEF Tracked, Write, Fresh

LEMMA TrackedMessage ==
  ASSUME NEW t, NEW m, m.msgType = "wmMessage" PROVE Tracked(m, t) = t
BY DEF Tracked

(* A copy again. *)
LEMMA TrackedRecord ==
  ASSUME NEW b, NEW p, NEW m \in WriteMsgs
  PROVE  LET t == Tracked(m, [buf |-> b, prompt |-> p]) IN
         t = [buf |-> t.buf, prompt |-> t.prompt]
<1> DEFINE Rec(t) == t = [buf |-> t.buf, prompt |-> t.prompt]
           c == [buf |-> b, prompt |-> p]
<1>1. \A x, y : Rec([buf |-> x, prompt |-> y])
  OBVIOUS
<1> HIDE DEF Rec
<1>2. /\ Rec(Tracked(Write("wmMessage"), c)) /\ Rec(Tracked(Write("wmPrompt"), c))
      /\ Rec(Tracked(Write("wmNewline"), c))
      /\ Rec(Tracked(Write("wmBackspace"), c))
  <2>1. /\ Tracked(Write("wmMessage"), c) = [buf |-> b, prompt |-> p]
        /\ Tracked(Write("wmPrompt"), c) = [buf |-> <<>>, prompt |-> TRUE]
        /\ Tracked(Write("wmNewline"), c) = [buf |-> <<>>, prompt |-> FALSE]
        /\ Tracked(Write("wmBackspace"), c) =
             [buf |-> IF b = <<>> THEN b ELSE SubSeq(b, 1, Len(b) - 1),
              prompt |-> p]
    BY TrackedCases DEF Fresh
  <2> HIDE DEF c
  <2> QED BY <1>1, <2>1, Zenon
<1>3. ASSUME NEW x \in Letters
      PROVE  Rec(Tracked([msgType |-> "wmEcho", data |-> x], c))
  <2>1. Tracked([msgType |-> "wmEcho", data |-> x], c) =
          [buf |-> IF Len(b) < MaxInteractiveBuf THEN Append(b, x) ELSE b,
           prompt |-> p]
    BY TrackedCases
  <2> HIDE DEF c
  <2> QED BY <1>1, <2>1, Zenon
<1>4. Rec(Tracked(m, c))
  BY <1>2, <1>3 DEF WriteMsgs, Write
<1> QED BY <1>4 DEF Rec

(* All but the last letter. *)
LEMMA Shortened ==
  ASSUME NEW s \in Seq(Letters), s # <<>>
  PROVE  /\ SubSeq(s, 1, Len(s) - 1) \in Seq(Letters)
         /\ Len(SubSeq(s, 1, Len(s) - 1)) = Len(s) - 1
<1> DEFINE n == Len(s)
           r == SubSeq(s, 1, n - 1)
<1>1. /\ n \in Nat \ {0} /\ \A i \in 1..n : s[i] \in Letters
  OBVIOUS
<1>2. r = [i \in 1..(n - 1) |-> s[i]]
  BY <1>1
<1> HIDE DEF n, r
<1>3. n - 1 \in Nat /\ \A i \in 1..(n - 1) : s[i] \in Letters
  BY <1>1
<1>4. r \in Seq(Letters) /\ Len(r) = n - 1
  BY <1>2, <1>3
<1> QED BY <1>4 DEF n, r

(* The write loop's copy stays within its bound. *)
LEMMA TrackedTyped ==
  ASSUME NEW b \in Seq(Letters), Len(b) <= MaxInteractiveBuf,
         NEW p \in BOOLEAN, NEW m \in WriteMsgs
  PROVE  LET t == Tracked(m, [buf |-> b, prompt |-> p]) IN
         /\ t.buf \in Seq(Letters) /\ Len(t.buf) <= MaxInteractiveBuf
         /\ t.prompt \in BOOLEAN
<1> DEFINE t == [buf |-> b, prompt |-> p]
           Fits(r) == /\ r.buf \in Seq(Letters) /\ Len(r.buf) <= MaxInteractiveBuf
                      /\ r.prompt \in BOOLEAN
<1>1. MaxInteractiveBuf \in Nat /\ Len(b) \in Nat
  BY ClientIOAssumption DEF ClientIOAssumption
<1>2. <<>> \in Seq(Letters) /\ Len(<<>>) = 0
  OBVIOUS
<1>3. \A c \in Seq(Letters), q \in BOOLEAN :
        Len(c) <= MaxInteractiveBuf => Fits([buf |-> c, prompt |-> q])
  OBVIOUS
<1> HIDE DEF Fits
<1>4. Fits(Tracked(Write("wmMessage"), t))
  <2>1. Tracked(Write("wmMessage"), t) = t
    BY TrackedCases
  <2>2. Fits(t)
    BY <1>3
  <2> QED BY <2>1, <2>2
<1>5. Fits(Tracked(Write("wmPrompt"), t)) /\ Fits(Tracked(Write("wmNewline"), t))
  <2>1. /\ Tracked(Write("wmPrompt"), t) = [buf |-> <<>>, prompt |-> TRUE]
        /\ Tracked(Write("wmNewline"), t) = [buf |-> <<>>, prompt |-> FALSE]
    BY TrackedCases DEF Fresh
  <2>2. /\ Fits([buf |-> <<>>, prompt |-> TRUE])
        /\ Fits([buf |-> <<>>, prompt |-> FALSE])
    BY <1>1, <1>2 DEF Fits
  <2> QED BY <2>1, <2>2
<1>6. ASSUME NEW x \in Letters
      PROVE  Fits(Tracked([msgType |-> "wmEcho", data |-> x], t))
  <2> DEFINE c == IF Len(b) < MaxInteractiveBuf THEN Append(b, x) ELSE b
  <2>1. c \in Seq(Letters) /\ Len(c) <= MaxInteractiveBuf
    BY <1>1
  <2>2. Tracked([msgType |-> "wmEcho", data |-> x], t) = [buf |-> c, prompt |-> p]
    BY TrackedCases
  <2> HIDE DEF c
  <2> QED BY <1>3, <2>1, <2>2
<1>7. Fits(Tracked(Write("wmBackspace"), t))
  <2> DEFINE c == IF b = <<>> THEN b ELSE SubSeq(b, 1, Len(b) - 1)
  <2>1. c \in Seq(Letters) /\ Len(c) <= MaxInteractiveBuf
    BY <1>1, Shortened
  <2>2. Tracked(Write("wmBackspace"), t) = [buf |-> c, prompt |-> p]
    BY TrackedCases
  <2> HIDE DEF c
  <2> QED BY <1>3, <2>1, <2>2
<1>8. Fits(Tracked(m, t))
  BY <1>4, <1>5, <1>6, <1>7 DEF WriteMsgs, Write
<1> QED BY <1>8 DEF Fits

(* What enqueue leaves in the channel. *)
LEMMA EnqueueTyped ==
  ASSUME TypeOK, NEW m \in WriteMsgs, Enqueue(m)
  PROVE  msgChan' \in Seq(WriteMsgs) /\ Len(msgChan') <= MsgChanSize
BY ClientIOAssumption DEF TypeOK, Enqueue, ClientIOAssumption

(* No message is the absent one. *)
LEMMA NoMsgSent == NoMsg \notin WriteMsgs
<1>1. NoMsg.msgType = "none"
  BY DEF NoMsg
<1>2. ASSUME NEW m \in WriteMsgs PROVE m.msgType # "none"
  <2>1. CASE \E t \in {"wmMessage", "wmPrompt", "wmBackspace", "wmNewline"} :
               m = [msgType |-> t, data |-> ""]
    <3>1. PICK t \in {"wmMessage", "wmPrompt", "wmBackspace", "wmNewline"} :
                 m = [msgType |-> t, data |-> ""]
      BY <2>1
    <3>2. m.msgType = t /\ t # "none"
      BY <3>1
    <3> QED BY <3>2
  <2>2. CASE \E x \in Letters : m = [msgType |-> "wmEcho", data |-> x]
    BY <2>2
  <2> QED BY <2>1, <2>2 DEF WriteMsgs
<1> QED BY <1>1, <1>2

(* The messages that are sent. *)
LEMMA Sent ==
  /\ \A t \in {"wmMessage", "wmPrompt", "wmBackspace", "wmNewline"} :
       Write(t) \in WriteMsgs
  /\ \A x \in Letters : [msgType |-> "wmEcho", data |-> x] \in WriteMsgs
BY DEF Write, WriteMsgs

-----------------------------------------------------------------------------
(* Types. *)

LEMMA InitTyped ==
  ASSUME Init PROVE TypeOK
<1>1. <<>> \in Seq(Bytes) /\ <<>> \in Seq(Letters) /\ <<>> \in Seq(Seq(Letters))
      /\ <<>> \in Seq(WriteMsgs) /\ Len(<<>>) = 0
  OBVIOUS
<1>2. 0 \in 0..MaxBytes /\ 0 \in 0..MaxSends
      /\ 0 <= MsgChanSize /\ 0 <= MaxInteractiveBuf
  BY ClientIOAssumption DEF ClientIOAssumption
<1> QED BY <1>1, <1>2 DEF Init, TypeOK

LEMMA PeerTyped ==
  ASSUME TypeOK, (\E b \in Bytes : Type(b)) \/ HangUp \/ Send \/ Close
  PROVE  TypeOK'
<1> USE DEF TypeOK, reader, writer, ghosts, peer
<1>1. ASSUME NEW b \in Bytes, Type(b) PROVE TypeOK'
  BY <1>1, ClientIOAssumption DEF Type, ClientIOAssumption
<1>2. CASE HangUp
  BY <1>2 DEF HangUp
<1>3. CASE Send
  BY <1>3, Sent, EnqueueTyped, ClientIOAssumption DEF Send, ClientIOAssumption
<1>4. CASE Close
  BY <1>4 DEF Close
<1> QED BY <1>1, <1>2, <1>3, <1>4

LEMMA ScanLineTyped ==
  ASSUME TypeOK, ScanLine PROVE scan' \in Seq(Bytes)
<1>1. ASSUME NEW i \in DOMAIN scan, scan' = SubSeq(scan, i + 1, Len(scan))
      PROVE  scan' \in Seq(Bytes)
  <2>1. scan \in Seq(Bytes) /\ DOMAIN scan = 1..Len(scan) /\ Len(scan) \in Nat
    BY DEF TypeOK
  <2>2. i + 1 \in 1..(Len(scan) + 1)
    BY <2>1
  <2>3. /\ scan \in Seq(Bytes) /\ Len(scan) \in Int /\ i + 1 \in Int
        /\ \A j \in (i + 1)..Len(scan) : scan[j] \in Bytes
    BY <2>1, <2>2
  <2> QED BY <1>1, <2>1, <2>2, <2>3, SubSeqProperties
<1>2. <<>> \in Seq(Bytes)
  OBVIOUS
<1> QED BY <1>1, <1>2 DEF ScanLine, LineEnds

LEMMA ScanTyped ==
  ASSUME TypeOK, Scan \/ ResetScanner PROVE TypeOK'
<1> USE DEF TypeOK, writer, ghosts, peer
<1>1. CASE ScanRead
  BY <1>1 DEF ScanRead
<1>2. CASE AskAgain
  BY <1>2, ScanLineTyped, Sent, EnqueueTyped DEF AskAgain
<1>3. ASSUME NEW n \in {"wait", "greet"}, Accept(n) PROVE TypeOK'
  BY <1>3, ScanLineTyped DEF Accept
<1>4. CASE Monitor
  BY <1>4, ScanLineTyped DEF Monitor
<1>5. CASE ResetScanner
  BY <1>5 DEF ResetScanner
<1> QED BY <1>1, <1>2, <1>3, <1>4, <1>5 DEF Scan

LEMMA ReadTyped ==
  ASSUME TypeOK, NEW b, Read(b)
  PROVE  /\ b \in Bytes /\ net' \in Seq(Bytes) /\ heard' \in Seq(Bytes)
         /\ UNCHANGED <<peer, scan, echoMode, done, writer, sends>>
<1>1. Head(net) \in Bytes /\ Tail(net) \in Seq(Bytes)
  BY HeadTailProperties DEF TypeOK, Read
<1> QED BY <1>1 DEF TypeOK, Read

LEMMA ReadLineTyped ==
  ASSUME TypeOK, ReadLineInteractive PROVE TypeOK'
<1> USE DEF TypeOK, writer, peer
<1>1. ASSUME NEW b \in Bytes, Ignore(b) PROVE TypeOK'
  <2>1. /\ net' \in Seq(Bytes) /\ heard' \in Seq(Bytes)
        /\ UNCHANGED <<peer, scan, echoMode, done, writer, sends>>
    BY <1>1, ReadTyped DEF Ignore
  <2> QED BY <1>1, <2>1 DEF Ignore
<1>2. ASSUME NEW b \in Bytes, Echo(b) PROVE TypeOK'
  <2>1. Read(b) /\ b \in Letters /\ pc' = pc /\ got' = got /\ skipLF' = FALSE
        /\ line' = Append(line, b) /\ lossy' \in BOOLEAN
        /\ Enqueue([msgType |-> "wmEcho", data |-> b])
    BY <1>2 DEF Echo, Dropped
  <2>2. msgChan' \in Seq(WriteMsgs) /\ Len(msgChan') <= MsgChanSize
    BY <2>1, Sent, EnqueueTyped
  <2>3. line' \in Seq(Letters)
    BY <2>1
  <2> QED BY <2>1, <2>2, <2>3, ReadTyped
<1>3. CASE Backspace
  <2>1. Read("BS") /\ pc' = pc /\ got' = got /\ skipLF' = FALSE
        /\ line # <<>> /\ line' = SubSeq(line, 1, Len(line) - 1)
        /\ lossy' \in BOOLEAN /\ Enqueue(Write("wmBackspace"))
    BY <1>3 DEF Backspace, Dropped
  <2>2. msgChan' \in Seq(WriteMsgs) /\ Len(msgChan') <= MsgChanSize
    BY <2>1, Sent, EnqueueTyped
  <2>3. line' \in Seq(Letters)
    BY <2>1, Shortened
  <2> QED BY <2>1, <2>2, <2>3, ReadTyped
<1>4. ASSUME NEW b \in Bytes, Newline(b) PROVE TypeOK'
  <2>1. Read(b) /\ pc' = "answer" /\ got' = Append(got, line)
        /\ skipLF' \in BOOLEAN /\ line' = <<>>
        /\ lossy' \in BOOLEAN /\ Enqueue(Write("wmNewline"))
    BY <1>4 DEF Newline, Dropped
  <2>2. msgChan' \in Seq(WriteMsgs) /\ Len(msgChan') <= MsgChanSize
    BY <2>1, Sent, EnqueueTyped
  <2>3. got' \in Seq(Seq(Letters)) /\ line' \in Seq(Letters)
    BY <2>1
  <2> QED BY <2>1, <2>2, <2>3, ReadTyped
<1> QED BY <1>1, <1>2, <1>3, <1>4 DEF ReadLineInteractive

LEMMA HandlerTyped ==
  ASSUME TypeOK, SetEchoMode \/ SendPrompt \/ Answer \/ ReadError \/ Quit
  PROVE  TypeOK'
<1> USE DEF TypeOK, reader, writer, ghosts, peer
<1>1. CASE SetEchoMode
  BY <1>1 DEF SetEchoMode
<1>2. CASE SendPrompt
  BY <1>2, Sent, EnqueueTyped DEF SendPrompt, Dropped
<1>3. CASE Answer
  BY <1>3, Sent, EnqueueTyped DEF Answer
<1>4. CASE ReadError \/ Quit
  BY <1>4 DEF ReadError, Quit, EndHandler
<1> QED BY <1>1, <1>2, <1>3, <1>4

LEMMA WriteLoopTyped ==
  ASSUME TypeOK, WriteLoop PROVE TypeOK'
<1> USE DEF TypeOK, reader, ghosts, peer
<1>1. CASE Take
  <2>1. /\ Head(msgChan) \in WriteMsgs /\ Tail(msgChan) \in Seq(WriteMsgs)
        /\ Len(Tail(msgChan)) = Len(msgChan) - 1 /\ Len(msgChan) \in Nat
    BY <1>1, HeadTailProperties DEF Take
  <2>2. Len(Tail(msgChan)) <= MsgChanSize
    BY <2>1, ClientIOAssumption DEF ClientIOAssumption
  <2>3. Head(msgChan) # NoMsg
    BY <2>1, NoMsgSent
  <2> QED BY <1>1, <2>1, <2>2, <2>3 DEF Take
<1>2. CASE WriteRaw
  BY <1>2 DEF WriteRaw, Written
<1>3. CASE WriteTracked
  <2>1. msg \in WriteMsgs
    BY <1>3 DEF WriteTracked, Written
  <2>2. LET t == Tracked(msg, Copy) IN
        /\ t.buf \in Seq(Letters) /\ Len(t.buf) <= MaxInteractiveBuf
        /\ t.prompt \in BOOLEAN
    BY <2>1, TrackedTyped DEF Copy
  <2>3. /\ inputBuf' \in Seq(Letters) /\ Len(inputBuf') <= MaxInteractiveBuf
        /\ prompt' \in BOOLEAN
    BY <1>3, <2>2 DEF WriteTracked, Track
  <2>4. /\ loop' = "select" /\ msg' = NoMsg
        /\ UNCHANGED <<net, typed, gone, scan, line, skipLF, pc, echoMode,
                       msgChan, done, sends, heard, got, lossy>>
    BY <1>3 DEF WriteTracked, Written
  <2> QED BY <2>3, <2>4
<1>4. CASE Stop
  BY <1>4 DEF Stop
<1> QED BY <1>1, <1>2, <1>3, <1>4 DEF WriteLoop

LEMMA NextTyped ==
  ASSUME TypeOK, [Next]_vars PROVE TypeOK'
<1>1. CASE UNCHANGED vars
  BY <1>1 DEF vars, TypeOK
<1> QED
  BY <1>1, PeerTyped, ScanTyped, ReadLineTyped, HandlerTyped, WriteLoopTyped
     DEF Next, Handler

(* Every variable keeps its type: the channel never holds more than        *)
(* msgChanSize messages and the write loop's copy of the line never more   *)
(* than maxInteractiveBuf letters, whatever is typed and sent.             *)
THEOREM ClientTyped == Spec => []TypeOK
BY InitTyped, NextTyped, PTL DEF Spec

-----------------------------------------------------------------------------
(* The invariant.                                                          *)

(* The session has begun, or there are messages only under way. *)
Phases ==
  /\ ~ echoMode =>
       /\ pc \in {"onboard", "wait", "greet", "end"}
       /\ \A i \in DOMAIN msgChan : msgChan[i].msgType = "wmMessage"
       /\ loop = "write" => msg.msgType = "wmMessage"
  /\ echoMode => pc \in {"prompt", "read", "answer", "end"}
  /\ pc \notin {"read", "end"} => line = <<>>
  /\ pc = "end" => done

(* The copy d agrees with the line being typed. *)
Agrees(d) ==
  /\ ~ echoMode => d = Fresh
  /\ echoMode /\ ~ done /\ ~ lossy =>
       d = [buf |-> line, prompt |-> (pc = "read")]

Tracks == \E d : Leads(Copy, Pending, d) /\ Agrees(d)

IOInv == TypeOK /\ Phases /\ Tracks

-----------------------------------------------------------------------------
(* What is under way. *)

LEMMA PendingTyped ==
  ASSUME TypeOK
  PROVE  /\ Pending \in Seq(WriteMsgs)
         /\ loop = "write" => Pending = <<msg>> \o msgChan /\ msg \in WriteMsgs
         /\ loop # "write" => Pending = msgChan
<1>1. msgChan \in Seq(WriteMsgs) /\ (loop = "write" => msg \in WriteMsgs)
  BY NoMsgSent DEF TypeOK
<1>2. <<>> \o msgChan = msgChan
  BY <1>1, ConcatEmptySeq
<1>3. CASE loop = "write"
  BY <1>1, <1>3 DEF Pending
<1>4. CASE loop # "write"
  BY <1>1, <1>2, <1>4 DEF Pending
<1> QED BY <1>1, <1>3, <1>4

(* A message that is sent is the last under way, or dropped. *)
LEMMA EnqueuePending ==
  ASSUME TypeOK, NEW m \in WriteMsgs, Enqueue(m), UNCHANGED <<loop, msg>>
  PROVE  \/ Dropped /\ Pending' = Pending
         \/ ~ Dropped /\ Pending' = Append(Pending, m)
<1>1. msgChan \in Seq(WriteMsgs)
  BY DEF TypeOK
<1>2. CASE done \/ Len(msgChan) >= MsgChanSize
  BY <1>2 DEF Enqueue, Dropped, Pending
<1>3. CASE ~ (done \/ Len(msgChan) >= MsgChanSize)
  <2>1. msgChan' = Append(msgChan, m)
    BY <1>3 DEF Enqueue
  <2>2. Len(msgChan') # Len(msgChan)
    BY <1>1, <2>1
  <2>3. ASSUME NEW s \in Seq(WriteMsgs)
        PROVE  s \o Append(msgChan, m) = Append(s \o msgChan, m)
    BY <1>1, AppendIsConcat, ConcatAssociative, ConcatProperties
  <2>4. (IF loop = "write" THEN <<msg>> ELSE <<>>) \in Seq(WriteMsgs)
    BY NoMsgSent DEF TypeOK
  <2>5. Pending' = Append(Pending, m)
    BY <2>1, <2>3, <2>4 DEF Pending
  <2> QED BY <2>2, <2>5 DEF Dropped
<1> QED BY <1>2, <1>3

LEMMA EnqueueLeads ==
  ASSUME TypeOK, NEW m \in WriteMsgs, Enqueue(m), UNCHANGED writer,
         NEW d, Leads(Copy, Pending, d)
  PROVE  \/ Dropped /\ Leads(Copy', Pending', d)
         \/ ~ Dropped /\ Leads(Copy', Pending', Tracked(m, d))
<1>1. Copy' = Copy /\ UNCHANGED <<loop, msg>>
  BY DEF Copy, writer
<1>2. Pending \in Seq(WriteMsgs)
  BY PendingTyped
<1>3. Leads(Copy, Append(Pending, m), Tracked(m, d))
  BY <1>2, LeadsOn
<1>4. \/ Dropped /\ Pending' = Pending
      \/ ~ Dropped /\ Pending' = Append(Pending, m)
  BY <1>1, EnqueuePending
<1> QED BY <1>1, <1>3, <1>4, Zenon

(* What is under way stays so while nobody sends and nothing is taken. *)
LEMMA StillUnderWay ==
  ASSUME UNCHANGED <<msgChan, writer>>
  PROVE  Pending' = Pending /\ Copy' = Copy
BY DEF Pending, Copy, writer

(* The copy once all is seen when an answer is sent. *)
LEMMA MessageLeads ==
  ASSUME TypeOK, Enqueue(Write("wmMessage")), UNCHANGED writer,
         NEW d, Leads(Copy, Pending, d)
  PROVE  Leads(Copy', Pending', d)
<1>1. Tracked(Write("wmMessage"), d) = d
  BY TrackedMessage DEF Write
<1> QED BY <1>1, Sent, EnqueueLeads

LEMMA MessageQuiet ==
  ASSUME TypeOK, Phases, ~ echoMode, Enqueue(Write("wmMessage"))
  PROVE  \A i \in DOMAIN msgChan' : msgChan'[i].msgType = "wmMessage"
<1>1. msgChan \in Seq(WriteMsgs) /\ Write("wmMessage").msgType = "wmMessage"
  BY DEF TypeOK, Write
<1>2. \A i \in DOMAIN msgChan : msgChan[i].msgType = "wmMessage"
  BY DEF Phases
<1>3. CASE msgChan' = msgChan
  BY <1>2, <1>3
<1>4. CASE msgChan' = Append(msgChan, Write("wmMessage"))
  <2> DEFINE w == Write("wmMessage")
  <2>1. /\ DOMAIN msgChan' = 1..(Len(msgChan) + 1) /\ Len(msgChan) \in Nat
        /\ msgChan'[Len(msgChan) + 1] = w
        /\ \A i \in 1..Len(msgChan) : msgChan'[i] = msgChan[i]
        /\ DOMAIN msgChan = 1..Len(msgChan)
    <3>1. w \in WriteMsgs /\ msgChan' = Append(msgChan, w)
      BY <1>4, Sent
    <3> HIDE DEF w
    <3>2. /\ Append(msgChan, w) \in Seq(WriteMsgs) /\ Len(msgChan) \in Nat
          /\ Len(Append(msgChan, w)) = Len(msgChan) + 1
          /\ \A i \in 1..Len(msgChan) : Append(msgChan, w)[i] = msgChan[i]
          /\ Append(msgChan, w)[Len(msgChan) + 1] = w
      BY <1>1, <3>1, AppendProperties
    <3>3. /\ DOMAIN msgChan = 1..Len(msgChan)
          /\ DOMAIN Append(msgChan, w) = 1..Len(Append(msgChan, w))
      BY <1>1, <3>2, LenProperties
    <3> QED BY <3>1, <3>2, <3>3
  <2> HIDE DEF w
  <2>2. ASSUME NEW i \in 1..(Len(msgChan) + 1)
        PROVE  i = Len(msgChan) + 1 \/ i \in 1..Len(msgChan)
    BY <2>1
  <2> QED BY <1>1, <1>2, <2>1, <2>2 DEF w
<1> QED BY <1>3, <1>4 DEF Enqueue

-----------------------------------------------------------------------------
(* The steps. *)

LEMMA InitTracks ==
  ASSUME Init PROVE Phases /\ Tracks
<1>1. Pending = <<>> /\ Copy = Fresh
  <2>1. <<>> \in Seq(WriteMsgs)
    OBVIOUS
  <2>2. <<>> \o <<>> = <<>>
    BY <2>1, ConcatEmptySeq
  <2> QED BY <2>2 DEF Init, Pending, Copy, Fresh
<1>2. Phases
  BY DEF Init, Phases
<1>3. Agrees(Fresh)
  BY DEF Init, Agrees
<1>4. Leads(Fresh, <<>>, Fresh)
  BY LeadsHere
<1> QED BY <1>1, <1>2, <1>3, <1>4 DEF Tracks

(* Steps that neither send nor take. *)
LEMMA OthersTrack ==
  ASSUME IOInv,
         \/ (\E b \in Bytes : Type(b) \/ Ignore(b)) \/ HangUp \/ Close
         \/ ScanRead \/ (\E n \in {"wait", "greet"} : Accept(n)) \/ Monitor
         \/ ResetScanner \/ SetEchoMode \/ ReadError \/ Quit
         \/ UNCHANGED vars
  PROVE  Phases' /\ Tracks'
<1>1. UNCHANGED <<msgChan, writer>>
  BY DEF Type, Ignore, Read, HangUp, Close, ScanRead, Accept, Monitor,
         ResetScanner, SetEchoMode, ReadError, Quit, EndHandler, vars, writer
<1>2. PICK d : Leads(Copy, Pending, d) /\ Agrees(d)
  BY DEF IOInv, Tracks
<1>3. Leads(Copy', Pending', d)
  BY <1>1, <1>2, StillUnderWay
<1>4. Phases' /\ Agrees(d)'
  <2>1. CASE \E b \in Bytes : Type(b) \/ Ignore(b)
    BY <2>1, <1>2 DEF IOInv, Phases, Agrees, Type, Ignore, Read, reader, writer
  <2>2. CASE HangUp \/ Close
    BY <2>2, <1>2 DEF IOInv, Phases, Agrees, HangUp, Close, reader, writer
  <2>3. CASE ScanRead \/ Monitor \/ ResetScanner
    BY <2>3, <1>2 DEF IOInv, Phases, Agrees, ScanRead, Monitor, ResetScanner,
                      writer
  <2>4. CASE \E n \in {"wait", "greet"} : Accept(n)
    BY <2>4, <1>2 DEF IOInv, Phases, Agrees, Accept, writer
  <2>5. CASE SetEchoMode
    BY <2>5, <1>2 DEF IOInv, Phases, Agrees, SetEchoMode, reader, writer, Fresh
  <2>6. CASE ReadError \/ Quit
    BY <2>6, <1>2 DEF IOInv, Phases, Agrees, ReadError, Quit, EndHandler,
                      reader, writer
  <2>7. CASE UNCHANGED vars
    BY <2>7, <1>2 DEF IOInv, Phases, Agrees, vars
  <2> QED BY <2>1, <2>2, <2>3, <2>4, <2>5, <2>6, <2>7
<1> QED BY <1>3, <1>4 DEF Tracks

(* A message, which is neither typed nor a prompt. *)
LEMMA MessagesTrack ==
  ASSUME IOInv, Send \/ AskAgain \/ Answer
  PROVE  Phases' /\ Tracks'
<1>1. PICK d : Leads(Copy, Pending, d) /\ Agrees(d)
  BY DEF IOInv, Tracks
<1>2. Enqueue(Write("wmMessage")) \/ UNCHANGED msgChan
  BY DEF Send, AskAgain, Answer
<1>3. UNCHANGED <<writer, echoMode, done, line, lossy>>
  BY DEF Send, AskAgain, Answer, reader
<1>4. Leads(Copy', Pending', d)
  BY <1>1, <1>2, <1>3, MessageLeads, StillUnderWay DEF IOInv
<1>5. Phases'
  <2>1. ~ echoMode =>
          \A i \in DOMAIN msgChan' : msgChan'[i].msgType = "wmMessage"
    BY <1>2, MessageQuiet DEF IOInv, Phases
  <2>2. /\ pc' = pc \/ (pc = "answer" /\ pc' = "prompt")
        /\ pc = "answer" => echoMode
    BY DEF IOInv, Phases, Send, AskAgain, Answer
  <2> QED BY <1>3, <2>1, <2>2 DEF IOInv, Phases, writer
<1>6. Agrees(d)'
  <2>1. (pc' = "read") = (pc = "read")
    BY DEF Send, AskAgain, Answer
  <2> QED BY <1>1, <1>3, <2>1 DEF Agrees
<1> QED BY <1>4, <1>5, <1>6 DEF Tracks

LEMMA PromptTracks ==
  ASSUME IOInv, SendPrompt
  PROVE  Phases' /\ Tracks'
<1>1. PICK d : Leads(Copy, Pending, d) /\ Agrees(d)
  BY DEF IOInv, Tracks
<1>2. /\ Enqueue(Write("wmPrompt")) /\ lossy' = Dropped
      /\ pc = "prompt" /\ pc' = "read"
      /\ UNCHANGED <<echoMode, done, line, loop, msg, writer>>
  BY DEF SendPrompt, reader, writer
<1>3. echoMode /\ line = <<>>
  BY <1>2 DEF IOInv, Phases
<1>4. \/ Dropped /\ Leads(Copy', Pending', d)
      \/ ~ Dropped /\ Leads(Copy', Pending', Tracked(Write("wmPrompt"), d))
  BY <1>1, <1>2, Sent, EnqueueLeads DEF IOInv
<1>5. Tracked(Write("wmPrompt"), d) = [buf |-> <<>>, prompt |-> TRUE]
  BY DEF Tracked, Write
<1>6. Phases'
  BY <1>2, <1>3 DEF IOInv, Phases
<1>7. CASE Dropped
  <2>1. Agrees(d)'
    BY <1>2, <1>3, <1>7 DEF Agrees
  <2> QED BY <1>4, <1>6, <1>7, <2>1 DEF Tracks
<1>8. CASE ~ Dropped
  <2>1. Agrees([buf |-> <<>>, prompt |-> TRUE])'
    BY <1>2, <1>3 DEF Agrees
  <2> QED BY <1>4, <1>5, <1>6, <1>8, <2>1 DEF Tracks
<1> QED BY <1>7, <1>8

(* A character, a backspace, an Enter. *)
LEMMA InputTracks ==
  ASSUME IOInv, Backspace \/ \E b \in Bytes : Echo(b) \/ Newline(b)
  PROVE  Phases' /\ Tracks'
<1>1. PICK d : Leads(Copy, Pending, d) /\ Agrees(d)
  BY DEF IOInv, Tracks
<1>2. /\ pc = "read" /\ echoMode
      /\ UNCHANGED <<echoMode, done, loop, msg, writer>>
  BY DEF IOInv, Phases, Backspace, Echo, Newline, Read, writer
<1>3. ~ done /\ ~ lossy => d = [buf |-> line, prompt |-> TRUE]
  BY <1>1, <1>2 DEF Agrees
<1>4. Phases'
  BY <1>2 DEF IOInv, Phases, Backspace, Echo, Newline
<1>5. ASSUME NEW m \in WriteMsgs, Enqueue(m),
             lossy' \in BOOLEAN, ~ lossy' => ~ lossy /\ ~ Dropped,
             ~ done /\ ~ lossy' =>
               Tracked(m, d) = [buf |-> line', prompt |-> (pc' = "read")]
      PROVE  Tracks'
  <2>1. \/ Dropped /\ Leads(Copy', Pending', d)
        \/ ~ Dropped /\ Leads(Copy', Pending', Tracked(m, d))
    BY <1>1, <1>2, <1>5, EnqueueLeads DEF IOInv
  <2>2. CASE Dropped
    <3>1. Agrees(d)'
      BY <1>2, <1>5, <2>2 DEF Agrees
    <3> QED BY <2>1, <2>2, <3>1 DEF Tracks
  <2>3. CASE ~ Dropped
    <3>1. Agrees(Tracked(m, d))'
      BY <1>2, <1>5, <2>3 DEF Agrees
    <3> QED BY <2>1, <2>3, <3>1 DEF Tracks
  <2> QED BY <2>2, <2>3
<1>6. CASE Backspace
  <2>1. /\ Enqueue(Write("wmBackspace")) /\ lossy' = (lossy \/ Dropped)
        /\ line # <<>> /\ line' = SubSeq(line, 1, Len(line) - 1) /\ pc' = pc
    BY <1>6 DEF Backspace
  <2>2. lossy' \in BOOLEAN /\ (~ lossy' => ~ lossy /\ ~ Dropped)
    BY <2>1, Zenon
  <2>3. ASSUME ~ done, ~ lossy'
        PROVE  Tracked(Write("wmBackspace"), d) =
                 [buf |-> line', prompt |-> (pc' = "read")]
    <3>1. d = [buf |-> line, prompt |-> TRUE]
      BY <1>3, <2>2, <2>3
    <3>2. (pc' = "read") = TRUE
      BY <1>2, <2>1
    <3>3. Tracked(Write("wmBackspace"), [buf |-> line, prompt |-> TRUE]) =
            [buf |-> IF line = <<>> THEN line ELSE SubSeq(line, 1, Len(line) - 1),
             prompt |-> TRUE]
      BY TrackedCases
    <3> QED BY <2>1, <3>1, <3>2, <3>3
  <2>4. Write("wmBackspace") \in WriteMsgs
    BY Sent
  <2> DEFINE m == Write("wmBackspace")
  <2>5. /\ m \in WriteMsgs /\ Enqueue(m)
        /\ ~ done /\ ~ lossy' =>
             Tracked(m, d) = [buf |-> line', prompt |-> (pc' = "read")]
    BY <2>1, <2>3, <2>4
  <2> HIDE DEF m
  <2> QED BY <1>4, <1>5, <2>2, <2>5
<1>7. ASSUME NEW b \in Bytes, Echo(b) PROVE Tracks'
  <2> DEFINE m == [msgType |-> "wmEcho", data |-> b]
  <2>1. /\ Enqueue(m) /\ line' = Append(line, b) /\ pc' = pc /\ b \in Letters
        /\ lossy' = (lossy \/ Dropped \/ Len(line') > MaxInteractiveBuf)
    BY <1>7 DEF Echo
  <2>2. line \in Seq(Letters) /\ MaxInteractiveBuf \in Nat
    BY ClientIOAssumption DEF IOInv, TypeOK, ClientIOAssumption
  <2>3. /\ lossy' \in BOOLEAN
        /\ ~ lossy' => /\ ~ lossy /\ ~ Dropped
                       /\ ~ (Len(line') > MaxInteractiveBuf)
    BY <2>1, Zenon
  <2>4. Len(line') = Len(line) + 1 /\ Len(line) \in Nat
    BY <2>1, <2>2
  <2>5. ASSUME ~ done, ~ lossy'
        PROVE  Tracked(m, d) = [buf |-> line', prompt |-> (pc' = "read")]
    <3>1. d = [buf |-> line, prompt |-> TRUE]
      BY <1>3, <2>3, <2>5
    <3>2. (pc' = "read") = TRUE
      BY <1>2, <2>1
    <3>3. Tracked(m, [buf |-> line, prompt |-> TRUE]) =
            [buf |-> IF Len(line) < MaxInteractiveBuf THEN Append(line, b)
                                                      ELSE line,
             prompt |-> TRUE]
      BY <2>1, TrackedCases
    <3>4. Len(line) < MaxInteractiveBuf
      BY <2>2, <2>3, <2>4, <2>5
    <3> HIDE DEF m
    <3> QED BY <2>1, <3>1, <3>2, <3>3, <3>4
  <2>6. m \in WriteMsgs
    BY <2>1, Sent
  <2> HIDE DEF m
  <2> QED BY <1>5, <2>1, <2>3, <2>5, <2>6
<1>8. ASSUME NEW b \in Bytes, Newline(b) PROVE Tracks'
  <2>1. /\ Enqueue(Write("wmNewline")) /\ lossy' = (lossy \/ Dropped)
        /\ line' = <<>> /\ pc' = "answer"
    BY <1>8 DEF Newline
  <2>2. Tracked(Write("wmNewline"), d) = [buf |-> line', prompt |-> (pc' = "read")]
    BY <2>1 DEF Tracked, Write
  <2>3. Write("wmNewline") \in WriteMsgs
    BY Sent
  <2>4. lossy' \in BOOLEAN /\ (~ lossy' => ~ lossy /\ ~ Dropped)
    BY <2>1, Zenon
  <2> QED BY <1>5, <2>1, <2>2, <2>3, <2>4
<1> QED BY <1>4, <1>6, <1>7, <1>8

(* The write loop. *)
LEMMA TakeTracks ==
  ASSUME IOInv, Take
  PROVE  Phases' /\ Tracks'
<1>1. /\ loop = "select" /\ msgChan # <<>> /\ msgChan \in Seq(WriteMsgs)
      /\ msg' = Head(msgChan) /\ msgChan' = Tail(msgChan) /\ loop' = "write"
      /\ UNCHANGED <<echoMode, done, pc, line, lossy, inputBuf, prompt>>
  BY DEF IOInv, TypeOK, Take, reader
<1>2. PICK d : Leads(Copy, Pending, d) /\ Agrees(d)
  BY DEF IOInv, Tracks
<1>3. /\ Head(msgChan) = msgChan[1]
      /\ 1 \in DOMAIN msgChan
      /\ \A i \in DOMAIN Tail(msgChan) :
           i + 1 \in DOMAIN msgChan /\ Tail(msgChan)[i] = msgChan[i + 1]
  BY <1>1
<1>4. <<Head(msgChan)>> \o Tail(msgChan) = msgChan
  BY <1>1
<1>5. Pending' = Pending /\ Copy' = Copy
  <2>1. Pending = msgChan
    BY <1>1, PendingTyped DEF IOInv
  <2>2. Pending' = <<Head(msgChan)>> \o Tail(msgChan)
    BY <1>1 DEF Pending
  <2> QED BY <1>1, <1>4, <2>1, <2>2 DEF Copy
<1>6. Phases'
  BY <1>1, <1>3 DEF IOInv, Phases
<1>7. Agrees(d)'
  BY <1>1, <1>2 DEF Agrees
<1> QED BY <1>2, <1>5, <1>6, <1>7 DEF Tracks

LEMMA WriteTracks ==
  ASSUME IOInv, WriteRaw \/ WriteTracked
  PROVE  Phases' /\ Tracks'
<1>1. /\ loop = "write" /\ loop' \in {"select", "ended"}
      /\ UNCHANGED <<echoMode, done, pc, line, lossy, msgChan>>
  BY DEF WriteRaw, WriteTracked, Written, reader
<1>2. PICK d : Leads(Copy, Pending, d) /\ Agrees(d)
  BY DEF IOInv, Tracks
<1>3. /\ Pending = <<msg>> \o msgChan /\ msg \in WriteMsgs
      /\ msgChan \in Seq(WriteMsgs)
  BY <1>1, PendingTyped DEF IOInv, TypeOK
<1>4. Leads(Tracked(msg, Copy), msgChan, d)
  BY <1>2, <1>3, LeadsFrom
<1>5. Pending' = msgChan
  <2>1. <<>> \o msgChan = msgChan
    BY <1>3, ConcatEmptySeq
  <2> QED BY <1>1, <2>1 DEF Pending
<1>6. Copy' = Tracked(msg, Copy)
  <2>1. CASE WriteRaw
    <3>1. ~ echoMode /\ Copy' = Copy
      BY <2>1 DEF WriteRaw, Copy
    <3>2. msg.msgType = "wmMessage"
      BY <1>1, <3>1 DEF IOInv, Phases
    <3> QED BY <3>1, <3>2, TrackedMessage
  <2>2. CASE WriteTracked
    <3> DEFINE t == Tracked(msg, Copy)
    <3>1. inputBuf' = t.buf /\ prompt' = t.prompt
      BY <2>2 DEF WriteTracked, Track
    <3>2. t = [buf |-> t.buf, prompt |-> t.prompt]
      BY <1>3, TrackedRecord DEF Copy
    <3> HIDE DEF t
    <3>3. Copy' = [buf |-> inputBuf', prompt |-> prompt']
      BY DEF Copy
    <3> QED BY <3>1, <3>2, <3>3 DEF t
  <2> QED BY <2>1, <2>2
<1>7. Phases'
  BY <1>1 DEF IOInv, Phases
<1>8. Agrees(d)'
  BY <1>1, <1>2 DEF Agrees
<1> QED BY <1>4, <1>5, <1>6, <1>7, <1>8 DEF Tracks

LEMMA StopTracks ==
  ASSUME IOInv, Stop
  PROVE  Phases' /\ Tracks'
<1>1. /\ loop = "select" /\ loop' = "ended"
      /\ UNCHANGED <<echoMode, done, pc, line, lossy, msgChan, msg, inputBuf,
                     prompt>>
  BY DEF Stop, reader
<1>2. Pending' = Pending /\ Copy' = Copy
  BY <1>1 DEF Pending, Copy
<1> QED BY <1>1, <1>2 DEF IOInv, Phases, Tracks, Agrees

LEMMA NextTracks ==
  ASSUME IOInv, [Next]_vars PROVE IOInv'
<1>1. TypeOK'
  BY NextTyped DEF IOInv
<1>2. Phases' /\ Tracks'
  BY OthersTrack, MessagesTrack, PromptTracks, InputTracks, TakeTracks,
     WriteTracks, StopTracks
     DEF Next, Handler, Scan, ReadLineInteractive, WriteLoop
<1> QED BY <1>1, <1>2 DEF IOInv

(* Whatever the sizes of the channel and of the line buffer and however    *)
(* much is typed and sent, what writeWithContinuity redraws under a        *)
(* message is the line being typed, as soon as what is under way has       *)
(* arrived, unless a write was dropped or the line grew too long since     *)
(* the last prompt.                                                        *)
THEOREM ServerTracksInput == Spec => []InputTracked
<1>1. Init => IOInv
  BY InitTyped, InitTracks DEF IOInv
<1>2. IOInv /\ [Next]_vars => IOInv'
  BY NextTracks
<1>3. IOInv => InputTracked
  <2>1. ASSUME IOInv PROVE InputTracked
    <3>1. PICK d : Leads(Copy, Pending, d) /\ Agrees(d)
      BY <2>1 DEF IOInv, Tracks
    <3>2. After(Copy, Pending) = d
      BY <2>1, <3>1, PendingTyped, LeadsAfter DEF IOInv
    <3> QED BY <3>1, <3>2 DEF InputTracked, Eventual, Agrees
  <2> QED BY <2>1
<1> QED BY <1>1, <1>2, <1>3, PTL DEF Spec

-----------------------------------------------------------------------------
(* Numbers in their order.                                                 *)

(* A set of numbers has a least one: of the intervals 0..i one is minimal  *)
(* under inclusion.                                                        *)
LEMMA LeastNumber ==
  ASSUME NEW B \in SUBSET Nat, B # {}
  PROVE  \E i \in B : \A j \in B : i <= j
<1> DEFINE R == StrictSubsetOrdering(Nat)
           F == {0..i : i \in B}
<1>1. IsWellFoundedOn(R, FiniteSubsetsOf(Nat))
  BY FS_StrictSubsetOrderingWellFounded
<1>2. F \subseteq FiniteSubsetsOf(Nat)
  <2>1. ASSUME NEW i \in B PROVE 0..i \in FiniteSubsetsOf(Nat)
    <3>1. IsFiniteSet(0..i) /\ 0..i \subseteq Nat
      BY FS_Interval
    <3> QED BY <3>1 DEF FiniteSubsetsOf
  <2> QED BY <2>1
<1>3. PICK x \in F : \A y \in F : ~ (<<y, x>> \in R)
  <2>1. F # {}
    OBVIOUS
  <2> HIDE DEF R, F
  <2> QED BY <1>1, <1>2, <2>1, WFMin
<1>4. PICK i \in B : x = 0..i
  OBVIOUS
<1>5. ASSUME NEW j \in B, j < i PROVE FALSE
  <2>1. 0..j \subseteq 0..i /\ i \in 0..i /\ i \notin 0..j /\ 0..i \subseteq Nat
    BY <1>5
  <2>2. <<0..j, 0..i>> \in R
    BY <2>1 DEF StrictSubsetOrdering
  <2> QED BY <1>3, <1>4, <2>2
<1> QED BY <1>5

(* o goes through S in order. *)
Enumerates(o, m, S) ==
  /\ m \in Nat /\ o \in [1..m -> S]
  /\ \A i, j \in 1..m : i < j => o[i] < o[j]
  /\ \A x \in S : \E i \in 1..m : o[i] = x

(* There is one way. *)
LEMMA OneOrder ==
  ASSUME NEW S \in SUBSET Nat, NEW m, NEW o, NEW c,
         Enumerates(o, m, S), Enumerates(c, m, S)
  PROVE  o = c
<1> DEFINE Bad == {i \in 1..m : o[i] # c[i]}
<1>1. CASE Bad # {}
  <2>1. Bad \subseteq Nat
    OBVIOUS
  <2>2. PICK i \in Bad : \A j \in Bad : i <= j
    <3> HIDE DEF Bad
    <3> QED BY <1>1, <2>1, LeastNumber
  <2>3. /\ i \in 1..m /\ o[i] # c[i] /\ m \in Nat
        /\ \A j \in 1..m : j < i => o[j] = c[j]
    BY <2>2 DEF Enumerates
  <2>4. o[i] \in Nat /\ c[i] \in Nat /\ o[i] \in S /\ c[i] \in S
    BY <2>3 DEF Enumerates
  <2>5. PICK j \in 1..m : o[j] = c[i]
    BY <2>4 DEF Enumerates
  <2>6. PICK k \in 1..m : c[k] = o[i]
    BY <2>4 DEF Enumerates
  <2>7. j > i
    <3>1. CASE j < i
      <4>1. c[j] < c[i] /\ o[j] = c[j]
        BY <3>1, <2>3 DEF Enumerates
      <4> QED BY <4>1, <2>4, <2>5
    <3>2. j # i
      BY <2>3, <2>5
    <3> QED BY <3>1, <3>2, <2>3
  <2>8. k > i
    <3>1. CASE k < i
      <4>1. o[k] < o[i] /\ o[k] = c[k]
        BY <3>1, <2>3 DEF Enumerates
      <4> QED BY <4>1, <2>4, <2>6
    <3>2. k # i
      BY <2>3, <2>6
    <3> QED BY <3>1, <3>2, <2>3
  <2>9. o[i] < o[j] /\ c[i] < c[k]
    BY <2>3, <2>7, <2>8 DEF Enumerates
  <2> QED BY <2>4, <2>5, <2>6, <2>9
<1>2. CASE Bad = {}
  <2>1. o \in [1..m -> S] /\ c \in [1..m -> S] /\ \A i \in 1..m : o[i] = c[i]
    BY <1>2 DEF Enumerates
  <2>2. o = [i \in 1..m |-> o[i]] /\ c = [i \in 1..m |-> c[i]]
    BY <2>1
  <2> QED BY <2>1, <2>2, Zenon
<1> QED BY <1>1, <1>2

(* It goes through as many as there are. *)
LEMMA AsMany ==
  ASSUME NEW S \in SUBSET Nat, NEW m, NEW o, Enumerates(o, m, S)
  PROVE  IsFiniteSet(S) /\ Cardinality(S) = m
<1>1. m \in Nat /\ o \in [1..m -> S]
  BY DEF Enumerates
<1>2. ASSUME NEW i \in 1..m, NEW j \in 1..m, o[i] = o[j] PROVE i = j
  <2>0. o[i] \in S /\ o[j] \in S
    BY <1>1
  <2>1. o[i] \in Nat /\ o[j] \in Nat
    BY <2>0
  <2>2. (i < j => o[i] < o[j]) /\ (j < i => o[j] < o[i])
    BY DEF Enumerates
  <2>3. ~ (i < j) /\ ~ (j < i)
    BY <1>2, <2>1, <2>2
  <2> QED BY <1>1, <2>3
<1>3. o \in Bijection(1..m, S)
  BY <1>1, <1>2 DEF Enumerates, Bijection, Injection, Surjection, IsInjective
<1>4. IsFiniteSet(1..m) /\ Cardinality(1..m) = m
  BY <1>1, FS_Interval
<1>5. ExistsBijection(1..m, S)
  BY <1>3 DEF ExistsBijection
<1> QED BY <1>4, <1>5, FS_Bijection

(* So the order that InOrder chooses is the one there is. *)
LEMMA TheOrder ==
  ASSUME NEW S \in SUBSET Nat, NEW m, NEW o, Enumerates(o, m, S)
  PROVE  InOrder(S) = o
<1> DEFINE c == CHOOSE c \in [1..m -> S] : \A i, j \in 1..m : i < j => c[i] < c[j]
<1>1. IsFiniteSet(S) /\ Cardinality(S) = m /\ m \in Nat
  BY AsMany DEF Enumerates
<1>2. InOrder(S) = c
  BY <1>1 DEF InOrder
<1>3. c \in [1..m -> S] /\ \A i, j \in 1..m : i < j => c[i] < c[j]
  <2>1. o \in [1..m -> S] /\ \A i, j \in 1..m : i < j => o[i] < o[j]
    BY DEF Enumerates
  <2> QED BY <2>1
<1> HIDE DEF c
<1>4. ASSUME NEW i \in 1..m, NEW j \in 1..m, c[i] = c[j] PROVE i = j
  <2>0. c[i] \in S /\ c[j] \in S
    BY <1>3
  <2>1. c[i] \in Nat /\ c[j] \in Nat
    BY <2>0
  <2>2. (i < j => c[i] < c[j]) /\ (j < i => c[j] < c[i])
    BY <1>3
  <2>3. ~ (i < j) /\ ~ (j < i)
    BY <1>4, <2>1, <2>2
  <2> QED BY <1>1, <2>3
<1>5. c \in Injection(1..m, S)
  BY <1>3, <1>4 DEF Injection, IsInjective
<1>6. Cardinality(1..m) = m
  BY <1>1, FS_Interval
<1>7. c \in Surjection(1..m, S)
  BY <1>1, <1>5, <1>6, FS_Injection
<1>8. Enumerates(c, m, S)
  BY <1>1, <1>3, <1>7 DEF Enumerates, Surjection
<1> QED BY <1>2, <1>8, OneOrder

(* One more that is greater than all. *)
Longer(o, m, x) == [k \in 1..(m + 1) |-> IF k = m + 1 THEN x ELSE o[k]]

LEMMA EnumeratesMore ==
  ASSUME NEW m, NEW o, NEW n \in Nat, NEW S \in SUBSET (1..n), Enumerates(o, m, S)
  PROVE  LET p == Longer(o, m, n + 1) IN
         /\ DOMAIN p = 1..(m + 1) /\ p[m + 1] = n + 1 /\ m + 1 \in 1..(m + 1)
         /\ \A k \in 1..m : p[k] = o[k]
         /\ 1..(m + 1) = (1..m) \cup {m + 1}
         /\ Enumerates(p, m + 1, S \cup {n + 1})
<1> DEFINE p == Longer(o, m, n + 1)
           T == S \cup {n + 1}
<1>1. /\ m \in Nat /\ (\A k \in 1..m : o[k] \in S)
      /\ \A i \in S : \E k \in 1..m : o[k] = i
  BY DEF Enumerates
<1>2. /\ DOMAIN p = 1..(m + 1) /\ p[m + 1] = n + 1 /\ m + 1 \in 1..(m + 1)
      /\ \A k \in 1..m : p[k] = o[k]
      /\ p = [k \in 1..(m + 1) |-> p[k]]
  BY <1>1 DEF Longer
<1>3. 1..(m + 1) = (1..m) \cup {m + 1}
  BY <1>1
<1> HIDE DEF p
<1>4. \A k \in 1..(m + 1) : p[k] \in T
  BY <1>1, <1>2, <1>3
<1>5. p \in [1..(m + 1) -> T]
  BY <1>2, <1>4
<1>6. ASSUME NEW i \in 1..(m + 1), NEW j \in 1..(m + 1), i < j
      PROVE  p[i] < p[j]
  <2>1. i \in 1..m /\ p[i] = o[i] /\ o[i] \in 1..n
    <3>1. i \in 1..m
      BY <1>1, <1>6
    <3>2. p[i] = o[i] /\ o[i] \in S
      BY <1>1, <1>2, <3>1
    <3> QED BY <3>1, <3>2
  <2>2. CASE j \in 1..m
    <3>1. o[i] < o[j] /\ p[j] = o[j]
      BY <1>2, <1>6, <2>1, <2>2 DEF Enumerates
    <3> QED BY <2>1, <3>1
  <2>3. CASE j = m + 1
    BY <1>2, <2>1, <2>3
  <2> QED BY <1>3, <2>2, <2>3
<1>7. ASSUME NEW x \in T PROVE \E i \in 1..(m + 1) : p[i] = x
  <2>1. CASE x \in S
    BY <1>1, <1>2, <1>3, <2>1
  <2>2. CASE x = n + 1
    BY <1>2, <2>2
  <2> QED BY <2>1, <2>2
<1>8. Enumerates(p, m + 1, T)
  BY <1>1, <1>5, <1>6, <1>7 DEF Enumerates
<1> QED BY <1>2, <1>3, <1>8 DEF p

-----------------------------------------------------------------------------
(* One byte more.                                                          *)

LEMMA OneMore ==
  ASSUME NEW s \in Seq(Bytes), NEW b \in Bytes
  PROVE  /\ Len(s) \in Nat /\ DOMAIN s = 1..Len(s)
         /\ Append(s, b) \in Seq(Bytes)
         /\ Len(Append(s, b)) = Len(s) + 1
         /\ DOMAIN Append(s, b) = 1..(Len(s) + 1)
         /\ \A i \in 1..Len(s) : Append(s, b)[i] = s[i]
         /\ Append(s, b)[Len(s) + 1] = b
OBVIOUS

(* Counting up to a position. *)
LEMMA CountNat ==
  ASSUME NEW s, NEW kind, NEW i \in Nat, NEW j \in Nat
  PROVE  /\ IsFiniteSet({l \in (i + 1)..j : s[l] \in kind})
         /\ Count(s, kind, i, j) \in Nat
         /\ j <= i => Count(s, kind, i, j) = 0
<1> DEFINE A == {l \in (i + 1)..j : s[l] \in kind}
<1>1. IsFiniteSet((i + 1)..j) /\ A \subseteq (i + 1)..j
  BY FS_Interval
<1> HIDE DEF A
<1>2. IsFiniteSet(A)
  BY <1>1, FS_Subset
<1>3. Cardinality(A) \in Nat
  BY <1>2, FS_CardinalityType
<1>4. ASSUME j <= i PROVE A = {}
  <2>1. (i + 1)..j = {}
    BY <1>4
  <2> QED BY <1>1, <2>1
<1>5. j <= i => Cardinality(A) = 0
  BY <1>4, FS_EmptySet
<1>6. Count(s, kind, i, j) = Cardinality(A)
  BY DEF Count, A
<1>7. IsFiniteSet({l \in (i + 1)..j : s[l] \in kind})
  BY <1>2 DEF A
<1> QED BY <1>3, <1>5, <1>6, <1>7

(* Only the bytes up to there count. *)
LEMMA CountSame ==
  ASSUME NEW s, NEW h, NEW n \in Nat, \A l \in 1..n : h[l] = s[l],
         NEW kind, NEW i \in Nat, NEW j \in Nat, j <= n
  PROVE  Count(h, kind, i, j) = Count(s, kind, i, j)
<1>1. \A l \in (i + 1)..j : h[l] = s[l]
  OBVIOUS
<1>2. {l \in (i + 1)..j : h[l] \in kind} = {l \in (i + 1)..j : s[l] \in kind}
  BY <1>1
<1> QED BY <1>2 DEF Count

(* The next one counts if it is of the kind. *)
LEMMA CountNext ==
  ASSUME NEW h, NEW kind, NEW i \in Nat, NEW n \in Nat, i <= n
  PROVE  Count(h, kind, i, n + 1) =
           IF h[n + 1] \in kind THEN Count(h, kind, i, n) + 1
                                ELSE Count(h, kind, i, n)
<1> DEFINE A == {l \in (i + 1)..n : h[l] \in kind}
           B == {l \in (i + 1)..(n + 1) : h[l] \in kind}
<1>1. n + 1 \notin A /\ IsFiniteSet(A)
  <2>1. n + 1 \notin A
    OBVIOUS
  <2>2. IsFiniteSet(A)
    BY CountNat, Zenon
  <2> QED BY <2>1, <2>2
<1>2. (i + 1)..(n + 1) = ((i + 1)..n) \cup {n + 1}
  OBVIOUS
<1>3. /\ h[n + 1] \in kind => B = A \cup {n + 1}
      /\ h[n + 1] \notin kind => B = A
  BY <1>2, Zenon
<1>4. Count(h, kind, i, n + 1) = Cardinality(B) /\ Count(h, kind, i, n) = Cardinality(A)
  BY DEF Count
<1> HIDE DEF A, B
<1>5. Cardinality(A \cup {n + 1}) = Cardinality(A) + 1
  BY <1>1, FS_AddElement
<1> QED BY <1>3, <1>4, <1>5

(* What is an Enter next. *)
NextEnters(s, b) ==
  b = "CR" \/ (b = "LF" /\ ~ (s # <<>> /\ s[Len(s)] = "CR"))

LEMMA EntersNext ==
  ASSUME NEW s \in Seq(Bytes), NEW b \in Bytes
  PROVE  /\ Enters(s) \subseteq 1..Len(s)
         /\ Enters(Append(s, b)) =
              IF NextEnters(s, b) THEN Enters(s) \cup {Len(s) + 1} ELSE Enters(s)
<1> DEFINE n == Len(s)
           h == Append(s, b)
           E(t, i) == t[i] = "CR" \/ (t[i] = "LF" /\ ~ (i > 1 /\ t[i - 1] = "CR"))
<1>1. /\ n \in Nat /\ DOMAIN s = 1..n /\ DOMAIN h = 1..(n + 1)
      /\ (\A i \in 1..n : h[i] = s[i]) /\ h[n + 1] = b
      /\ s # <<>> <=> n + 1 > 1
  <2>1. s # <<>> <=> n + 1 > 1
    OBVIOUS
  <2> QED BY <2>1, OneMore
<1>2. /\ Enters(s) = {i \in 1..n : E(s, i)}
      /\ Enters(h) = {i \in 1..(n + 1) : E(h, i)}
  BY <1>1 DEF Enters
<1>3. (s # <<>> /\ s[n] = "CR") <=> (n + 1 > 1 /\ h[(n + 1) - 1] = "CR")
  <2>1. (n + 1) - 1 = n /\ (n + 1 > 1 => n \in 1..n)
    BY <1>1
  <2> HIDE DEF h, n
  <2> QED BY <1>1, <2>1
<1>4. NextEnters(s, b) <=> E(h, n + 1)
  BY <1>1, <1>3 DEF NextEnters
<1>5. ASSUME NEW i \in 1..n PROVE E(h, i) <=> E(s, i)
  <2>1. h[i] = s[i] /\ (i > 1 => h[i - 1] = s[i - 1])
    BY <1>1
  <2> HIDE DEF h, n
  <2> QED BY <2>1
<1> HIDE DEF h, n, E
<1>6. 1..(n + 1) = (1..n) \cup {n + 1}
  BY <1>1
<1>7. Enters(h) = IF NextEnters(s, b) THEN Enters(s) \cup {n + 1} ELSE Enters(s)
  <2>1. CASE NextEnters(s, b)
    BY <1>2, <1>4, <1>5, <1>6, <2>1, Zenon
  <2>2. CASE ~ NextEnters(s, b)
    BY <1>2, <1>4, <1>5, <1>6, <2>2, Zenon
  <2> QED BY <2>1, <2>2
<1>8. Enters(s) \subseteq 1..n
  BY <1>2
<1> QED BY <1>7, <1>8 DEF h, n

(* The Enter before a position. *)
Latest(S) == IF S = {} THEN 0 ELSE CHOOSE e \in S : \A f \in S : f <= e

LEMMA LastIsLatest ==
  ASSUME NEW s, NEW i
  PROVE  LastEnter(s, i) = Latest({e \in Enters(s) : e < i})
BY DEF LastEnter, Latest

LEMMA LastEnterBefore ==
  ASSUME NEW s \in Seq(Bytes), NEW e \in 1..(Len(s) + 1)
  PROVE  LastEnter(s, e) \in 0..(e - 1)
<1> DEFINE before == {x \in Enters(s) : x < e}
           after == {e - x : x \in before}
<1>1. Enters(s) \subseteq 1..Len(s) /\ Len(s) \in Nat
  <2>1. Enters(s) \subseteq DOMAIN s
    BY DEF Enters
  <2> QED BY <2>1
<1>2. LastEnter(s, e) = Latest(before)
  BY LastIsLatest
<1>3. \A x \in before : x \in 1..(e - 1)
  BY <1>1
<1>4. CASE before # {}
  <2>1. after \subseteq Nat /\ after # {}
    BY <1>3, <1>4
  <2>2. PICK a \in after : \A c \in after : a <= c
    <3> HIDE DEF after
    <3> QED BY <2>1, LeastNumber
  <2>3. PICK x \in before : a = e - x
    OBVIOUS
  <2>4. ASSUME NEW f \in before PROVE f <= x
    <3>1. e - x <= e - f
      BY <2>2, <2>3
    <3>2. f \in Int /\ x \in Int /\ e \in Int
      BY <1>1
    <3> QED BY <3>1, <3>2
  <2> HIDE DEF before
  <2>5. Latest(before) \in before
    BY <1>4, <2>4 DEF Latest
  <2> QED BY <1>2, <1>3, <2>5
<1>5. CASE before = {}
  <2> HIDE DEF before
  <2> QED BY <1>2, <1>5 DEF Latest
<1> QED BY <1>4, <1>5

LEMMA LastEnterNext ==
  ASSUME NEW s \in Seq(Bytes), NEW b \in Bytes
  PROVE  /\ \A e \in 1..(Len(s) + 1) : LastEnter(Append(s, b), e) = LastEnter(s, e)
         /\ LastEnter(Append(s, b), Len(s) + 2) =
              IF NextEnters(s, b) THEN Len(s) + 1 ELSE LastEnter(s, Len(s) + 1)
<1> DEFINE n == Len(s)
           h == Append(s, b)
<1>1. /\ n \in Nat /\ Enters(s) \subseteq 1..n
      /\ Enters(h) = IF NextEnters(s, b) THEN Enters(s) \cup {n + 1} ELSE Enters(s)
  BY OneMore, EntersNext
<1> HIDE DEF h, n
<1>2. ASSUME NEW e \in 1..(n + 1) PROVE LastEnter(h, e) = LastEnter(s, e)
  <2>1. {x \in Enters(h) : x < e} = {x \in Enters(s) : x < e}
    BY <1>1
  <2> QED BY <2>1, LastIsLatest
<1>3. CASE NextEnters(s, b)
  <2> DEFINE before == {x \in Enters(h) : x < n + 2}
  <2>1. n + 1 \in before /\ \A f \in before : f <= n + 1 /\ f \in Int
    BY <1>1, <1>3
  <2>2. LastEnter(h, n + 2) = Latest(before)
    BY LastIsLatest
  <2> HIDE DEF before
  <2>3. Latest(before) \in before /\ \A f \in before : f <= Latest(before)
    BY <2>1 DEF Latest
  <2>6. LastEnter(h, n + 2) = n + 1
    BY <1>1, <2>1, <2>2, <2>3
  <2> QED BY <1>2, <1>3, <2>6 DEF h, n
<1>4. CASE ~ NextEnters(s, b)
  <2>1. {x \in Enters(h) : x < n + 2} = {x \in Enters(s) : x < n + 1}
    BY <1>1, <1>4
  <2>2. LastEnter(h, n + 2) = LastEnter(s, n + 1)
    BY <2>1, LastIsLatest
  <2> QED BY <1>2, <1>4, <2>2 DEF h, n
<1> QED BY <1>3, <1>4

-----------------------------------------------------------------------------
(* What stays when a byte is read. *)

(* A later byte does not change what stayed before it. *)
LEMMA StaysSame ==
  ASSUME NEW s, NEW h, NEW n \in Nat, \A l \in 1..n : h[l] = s[l],
         NEW i \in 1..n, NEW m \in Nat, m <= n
  PROVE  Stays(h, i, m) <=> Stays(s, i, m)
<1>1. h[i] = s[i]
  OBVIOUS
<1>2. ASSUME NEW j \in (i + 1)..m, NEW kind
      PROVE  Count(h, kind, i, j) = Count(s, kind, i, j)
  <2>1. i \in Nat /\ j \in Nat /\ j <= n
    OBVIOUS
  <2> QED BY <2>1, CountSame
<1> QED BY <1>1, <1>2 DEF Stays

(* A byte takes a character away if there are more backspaces than         *)
(* characters after that one now.                                          *)
LEMMA StaysNext ==
  ASSUME NEW h, NEW n \in Nat, NEW i \in 1..n
  PROVE  Stays(h, i, n + 1) <=>
           /\ Stays(h, i, n)
           /\ Count(h, {"BS"}, i, n + 1) <= Count(h, Letters, i, n + 1)
<1> DEFINE Holds(j) == Count(h, {"BS"}, i, j) <= Count(h, Letters, i, j)
<1>1. /\ Stays(h, i, n + 1) <=>
           h[i] \in Letters /\ \A j \in (i + 1)..(n + 1) : Holds(j)
      /\ Stays(h, i, n) <=> h[i] \in Letters /\ \A j \in (i + 1)..n : Holds(j)
  BY DEF Stays
<1> HIDE DEF Holds
<1>2. (i + 1)..(n + 1) = ((i + 1)..n) \cup {n + 1}
  OBVIOUS
<1>3. Stays(h, i, n + 1) <=> Stays(h, i, n) /\ Holds(n + 1)
  BY <1>1, <1>2, Zenon
<1> QED BY <1>3 DEF Holds

(* What is read stays at first. *)
LEMMA StaysFirst ==
  ASSUME NEW h, NEW n \in Nat
  PROVE  Stays(h, n, n) <=> h[n] \in Letters
<1>1. (n + 1)..n = {}
  OBVIOUS
<1> QED BY <1>1 DEF Stays

LEMMA StayBeforeSame ==
  ASSUME NEW s \in Seq(Bytes), NEW b \in Bytes, NEW e \in 1..(Len(s) + 1)
  PROVE  /\ StayBefore(Append(s, b), e) = StayBefore(s, e)
         /\ StayBefore(s, e) \subseteq 1..(e - 1)
<1> DEFINE h == Append(s, b)
           n == Len(s)
           a == LastEnter(s, e)
<1>1. n \in Nat /\ \A l \in 1..n : h[l] = s[l]
  BY OneMore
<1>2. LastEnter(h, e) = a /\ a \in 0..(e - 1)
  BY LastEnterNext, LastEnterBefore
<1> HIDE DEF h, n, a
<1>3. e \in 1..(n + 1) /\ e - 1 \in Nat /\ e - 1 <= n
  BY <1>1 DEF n
<1>4. (a + 1)..(e - 1) \subseteq 1..n /\ (a + 1)..(e - 1) \subseteq 1..(e - 1)
  BY <1>1, <1>2, <1>3
<1>5. \A i \in 1..n : Stays(h, i, e - 1) <=> Stays(s, i, e - 1)
  BY <1>1, <1>3, StaysSame
<1>6. /\ StayBefore(h, e) = {i \in (a + 1)..(e - 1) : Stays(h, i, e - 1)}
      /\ StayBefore(s, e) = {i \in (a + 1)..(e - 1) : Stays(s, i, e - 1)}
  BY <1>2 DEF StayBefore, a
<1>7. StayBefore(h, e) = StayBefore(s, e)
  BY <1>4, <1>5, <1>6, Zenon
<1>8. StayBefore(s, e) \subseteq 1..(e - 1)
  BY <1>4, <1>6
<1> QED BY <1>7, <1>8 DEF h

LEMMA StayBeforeNext ==
  ASSUME NEW s \in Seq(Bytes), NEW b \in Bytes
  PROVE  LET n == Len(s)
             h == Append(s, b)
             kept == {i \in StayBefore(s, n + 1) :
                        Count(h, {"BS"}, i, n + 1) <= Count(h, Letters, i, n + 1)}
         IN  /\ NextEnters(s, b) => StayBefore(h, n + 2) = {}
             /\ ~ NextEnters(s, b) /\ b \in Letters =>
                  StayBefore(h, n + 2) = kept \cup {n + 1}
             /\ ~ NextEnters(s, b) /\ b \notin Letters =>
                  StayBefore(h, n + 2) = kept
<1> DEFINE h == Append(s, b)
           n == Len(s)
           a == LastEnter(s, n + 1)
           Holds(i) == Count(h, {"BS"}, i, n + 1) <= Count(h, Letters, i, n + 1)
           kept == {i \in StayBefore(s, n + 1) : Holds(i)}
           c == LastEnter(h, n + 2)
<1>1. n \in Nat /\ (\A l \in 1..n : h[l] = s[l]) /\ h[n + 1] = b
  BY OneMore
<1>2. /\ c = IF NextEnters(s, b) THEN n + 1 ELSE a
      /\ a \in 0..n
  <2>1. n + 1 \in 1..(n + 1) /\ (n + 1) - 1 = n
    BY <1>1
  <2> QED BY <2>1, LastEnterNext, LastEnterBefore
<1>3. /\ StayBefore(h, n + 2) = {i \in (c + 1)..((n + 2) - 1) : Stays(h, i, (n + 2) - 1)}
      /\ StayBefore(s, n + 1) = {i \in (a + 1)..((n + 1) - 1) : Stays(s, i, (n + 1) - 1)}
  BY DEF StayBefore
<1>4. ASSUME NEW i \in 1..n
      PROVE  Stays(h, i, n + 1) <=> Stays(s, i, n) /\ Holds(i)
  <2> HIDE DEF h, n
  <2>1. Stays(h, i, n) <=> Stays(s, i, n)
    BY <1>1, StaysSame
  <2> QED BY <1>1, <2>1, StaysNext
<1>5. Stays(h, n + 1, n + 1) <=> b \in Letters
  <2> HIDE DEF h, n
  <2>1. n + 1 \in Nat
    BY <1>1
  <2> QED BY <1>1, <2>1, StaysFirst
<1> HIDE DEF h, n, a, c, Holds
<1>6. (n + 2) - 1 = n + 1 /\ (n + 1) - 1 = n
  BY <1>1
<1>7. /\ StayBefore(h, n + 2) = {i \in (c + 1)..(n + 1) : Stays(h, i, n + 1)}
      /\ StayBefore(s, n + 1) = {i \in (a + 1)..n : Stays(s, i, n)}
  BY <1>3, <1>6
<1>8. CASE NextEnters(s, b)
  <2>1. (c + 1)..(n + 1) = {}
    BY <1>1, <1>2, <1>8
  <2>2. StayBefore(h, n + 2) = {}
    BY <1>7, <2>1
  <2> QED BY <1>8, <2>2 DEF h, n
<1>9. CASE ~ NextEnters(s, b)
  <2>1. /\ (c + 1)..(n + 1) = ((a + 1)..n) \cup {n + 1}
        /\ (a + 1)..n \subseteq 1..n
    BY <1>1, <1>2, <1>9
  <2>2. CASE b \in Letters
    <3>1. StayBefore(h, n + 2) = kept \cup {n + 1}
      BY <1>4, <1>5, <1>7, <2>1, <2>2, Zenon
    <3> QED BY <1>9, <2>2, <3>1 DEF h, n, Holds
  <2>3. CASE b \notin Letters
    <3>1. StayBefore(h, n + 2) = kept
      BY <1>4, <1>5, <1>7, <2>1, <2>3, Zenon
    <3> QED BY <1>9, <2>3, <3>1 DEF h, n, Holds
  <2> QED BY <2>2, <2>3
<1> QED BY <1>8, <1>9

-----------------------------------------------------------------------------
(* Texts. *)

(* t is what s spells before position e. *)
Spells(s, e, t) ==
  \E m, o : /\ Enumerates(o, m, StayBefore(s, e))
            /\ t = [k \in 1..m |-> s[o[k]]]

LEMMA SpellsText ==
  ASSUME NEW s \in Seq(Bytes), NEW e \in 1..(Len(s) + 1), NEW t, Spells(s, e, t)
  PROVE  TextBefore(s, e) = t
<1>1. PICK m, o : /\ Enumerates(o, m, StayBefore(s, e))
                  /\ t = [k \in 1..m |-> s[o[k]]]
  BY DEF Spells
<1>2. <<>> \in Seq(Bytes) /\ StayBefore(s, e) \in SUBSET Nat
  <2>1. "NUL" \in Bytes
    BY DEF Bytes
  <2>2. StayBefore(s, e) \subseteq 1..(e - 1)
    BY <2>1, StayBeforeSame
  <2> QED BY <2>2
<1>3. InOrder(StayBefore(s, e)) = o
  BY <1>1, <1>2, TheOrder
<1>4. DOMAIN o = 1..m
  BY <1>1 DEF Enumerates
<1> QED BY <1>1, <1>3, <1>4 DEF TextBefore

LEMMA SpellsSame ==
  ASSUME NEW s \in Seq(Bytes), NEW b \in Bytes, NEW e \in 1..(Len(s) + 1),
         NEW t, Spells(s, e, t)
  PROVE  Spells(Append(s, b), e, t)
<1> DEFINE h == Append(s, b)
<1>1. PICK m, o : /\ Enumerates(o, m, StayBefore(s, e))
                  /\ t = [k \in 1..m |-> s[o[k]]]
  BY DEF Spells
<1>2. StayBefore(h, e) = StayBefore(s, e) /\ StayBefore(s, e) \subseteq 1..(e - 1)
  BY StayBeforeSame
<1>3. Len(s) \in Nat /\ \A l \in 1..Len(s) : h[l] = s[l]
  BY OneMore
<1> HIDE DEF h
<1>4. ASSUME NEW k \in 1..m PROVE h[o[k]] = s[o[k]]
  <2>1. o[k] \in 1..(e - 1)
    BY <1>1, <1>2 DEF Enumerates
  <2>2. o[k] \in 1..Len(s)
    BY <1>3, <2>1
  <2> QED BY <1>3, <2>2
<1>5. t = [k \in 1..m |-> h[o[k]]]
  BY <1>1, <1>4
<1>6. Spells(h, e, t)
  <2>1. Enumerates(o, m, StayBefore(h, e))
    BY <1>1, <1>2
  <2> QED BY <1>5, <2>1, Zenon DEF Spells
<1> QED BY <1>6 DEF h

(* How many more characters than backspaces there are after position i. *)
Open(s, i, d) ==
  /\ d \in Nat
  /\ Count(s, Letters, i, Len(s)) = Count(s, {"BS"}, i, Len(s)) + d

(* The line t is spelled, character by character, by the bytes at o; and   *)
(* of each it can be said how many backspaces will take it away.           *)
Typing(s, m, o, t) ==
  /\ Enumerates(o, m, StayBefore(s, Len(s) + 1))
  /\ t = [k \in 1..m |-> s[o[k]]]
  /\ \A k \in 1..m : Open(s, o[k], m - k)

LEMMA TypingSpells ==
  ASSUME NEW s, NEW m, NEW o, NEW t, Typing(s, m, o, t)
  PROVE  Spells(s, Len(s) + 1, t)
BY DEF Typing, Spells

LEMMA TypingRange ==
  ASSUME NEW s \in Seq(Bytes), NEW m, NEW o, NEW t, Typing(s, m, o, t)
  PROVE  /\ m \in Nat /\ \A k \in 1..m : o[k] \in 1..Len(s)
         /\ Len(t) = m
<1>1. "NUL" \in Bytes /\ Len(s) \in Nat /\ Len(s) + 1 \in 1..(Len(s) + 1)
      /\ (Len(s) + 1) - 1 = Len(s)
  BY DEF Bytes
<1>2. StayBefore(s, Len(s) + 1) \subseteq 1..Len(s)
  BY <1>1, StayBeforeSame
<1>3. m \in Nat /\ o \in [1..m -> StayBefore(s, Len(s) + 1)]
      /\ t = [k \in 1..m |-> s[o[k]]]
  BY DEF Typing, Enumerates
<1>4. Len(t) = m
  BY <1>3
<1> QED BY <1>2, <1>3, <1>4

(* How that changes with a byte. *)
LEMMA OpenNext ==
  ASSUME NEW s \in Seq(Bytes), NEW b \in Bytes, NEW i \in 1..Len(s),
         NEW d, Open(s, i, d)
  PROVE  LET h == Append(s, b)
             n == Len(s)
         IN  /\ b \in Letters => Open(h, i, d + 1)
             /\ b \in {"CR", "LF", "NUL"} => Open(h, i, d)
             /\ b = "BS" /\ d > 0 => Open(h, i, d - 1)
             /\ Count(h, {"BS"}, i, n + 1) <= Count(h, Letters, i, n + 1)
                  <=> ~ (b = "BS" /\ d = 0)
<1> DEFINE h == Append(s, b)
           n == Len(s)
           L == Count(s, Letters, i, n)
           B == Count(s, {"BS"}, i, n)
<1>1. /\ n \in Nat /\ Len(h) = n + 1 /\ h[n + 1] = b
      /\ \A l \in 1..n : h[l] = s[l]
  BY OneMore
<1>2. d \in Nat /\ L = B + d
  BY DEF Open
<1> HIDE DEF h, n
<1>3. i \in Nat /\ i <= n
  BY <1>1 DEF n
<1>4. B \in Nat /\ L \in Nat
  BY <1>1, <1>3, CountNat
<1>5. Count(h, Letters, i, n) = L /\ Count(h, {"BS"}, i, n) = B
  BY <1>1, <1>3, CountSame
<1>6. /\ Count(h, Letters, i, n + 1) = IF b \in Letters THEN L + 1 ELSE L
      /\ Count(h, {"BS"}, i, n + 1) = IF b = "BS" THEN B + 1 ELSE B
  <2> DEFINE K == {"BS"}
  <2> HIDE DEF L, B, K
  <2>1. Count(h, Letters, i, n + 1) = IF h[n + 1] \in Letters
           THEN Count(h, Letters, i, n) + 1 ELSE Count(h, Letters, i, n)
    BY <1>1, <1>3, CountNext, SMTT(30)
  <2>2. Count(h, K, i, n + 1) = IF h[n + 1] \in K
           THEN Count(h, K, i, n) + 1 ELSE Count(h, K, i, n)
    BY <1>1, <1>3, CountNext, SMTT(30)
  <2>3. Count(h, K, i, n) = B /\ (b \in K <=> b = "BS")
    BY <1>5 DEF K
  <2>4. Count(h, K, i, n + 1) = IF b = "BS" THEN B + 1 ELSE B
    BY <1>1, <2>2, <2>3
  <2> QED BY <1>1, <1>5, <2>1, <2>4 DEF K
<1>7. b = "BS" => b \notin Letters
  BY ClientIOAssumption DEF ClientIOAssumption
<1>8. b \in {"CR", "LF", "NUL"} => b \notin Letters /\ b # "BS"
  BY ClientIOAssumption DEF ClientIOAssumption
<1> HIDE DEF L, B
<1>9. ASSUME NEW x, NEW y, NEW z \in Nat,
             Count(h, Letters, i, n + 1) = x, Count(h, {"BS"}, i, n + 1) = y,
             x = y + z
      PROVE  Open(h, i, z)
  BY <1>1, <1>9 DEF Open
<1>10. b \in Letters => Open(h, i, d + 1)
  BY <1>2, <1>4, <1>6, <1>7, <1>9
<1>11. b \in {"CR", "LF", "NUL"} => Open(h, i, d)
  BY <1>2, <1>4, <1>6, <1>8, <1>9
<1>12. b = "BS" /\ d > 0 => Open(h, i, d - 1)
  BY <1>2, <1>4, <1>6, <1>7, <1>9
<1>13. Count(h, {"BS"}, i, n + 1) <= Count(h, Letters, i, n + 1)
         <=> ~ (b = "BS" /\ d = 0)
  BY <1>2, <1>4, <1>6, <1>7
<1> QED BY <1>10, <1>11, <1>12, <1>13 DEF h, n

(* A character is appended. *)
LEMMA TypingLetter ==
  ASSUME NEW s \in Seq(Bytes), NEW b \in Letters, NEW m, NEW o,
         NEW t \in Seq(Letters), Typing(s, m, o, t)
  PROVE  \E p : Typing(Append(s, b), m + 1, p, Append(t, b))
<1> DEFINE h == Append(s, b)
           n == Len(s)
           p == Longer(o, m, n + 1)
           S == StayBefore(s, n + 1)
           T == StayBefore(h, n + 2)
<1>1. b \in Bytes /\ b # "BS" /\ ~ NextEnters(s, b)
  BY ClientIOAssumption DEF Bytes, NextEnters, ClientIOAssumption
<1>2. /\ n \in Nat /\ Len(h) = n + 1 /\ h[n + 1] = b
      /\ \A l \in 1..n : h[l] = s[l]
  BY <1>1, OneMore
<1>3. /\ m \in Nat /\ (\A k \in 1..m : o[k] \in 1..n)
      /\ Len(t) = m
  BY TypingRange
<1>4. /\ Enumerates(o, m, S) /\ t = [k \in 1..m |-> s[o[k]]]
      /\ \A k \in 1..m : Open(s, o[k], m - k)
  BY DEF Typing
<1>5. T = {i \in S : Count(h, {"BS"}, i, n + 1) <= Count(h, Letters, i, n + 1)}
            \cup {n + 1}
  BY <1>1, StayBeforeNext
<1>6. ASSUME NEW k \in 1..m
      PROVE  /\ Open(h, o[k], (m - k) + 1)
             /\ Count(h, {"BS"}, o[k], n + 1) <= Count(h, Letters, o[k], n + 1)
  BY <1>1, <1>3, <1>4, OpenNext
<1>7. S \subseteq 1..n
  <2>1. n + 1 \in 1..(n + 1) /\ (n + 1) - 1 = n
    BY <1>2
  <2> QED BY <1>1, <2>1, StayBeforeSame
<1> HIDE DEF h, n, S, T, p
<1>8. /\ DOMAIN p = 1..(m + 1) /\ p[m + 1] = n + 1 /\ m + 1 \in 1..(m + 1)
      /\ \A k \in 1..m : p[k] = o[k]
      /\ 1..(m + 1) = (1..m) \cup {m + 1}
      /\ Enumerates(p, m + 1, S \cup {n + 1})
  BY <1>2, <1>4, <1>7, EnumeratesMore DEF p
<1>9. \A i \in S : \E k \in 1..m : o[k] = i
  BY <1>4 DEF Enumerates
<1>10. T = S \cup {n + 1}
  BY <1>5, <1>6, <1>9
<1>11. Enumerates(p, m + 1, T)
  BY <1>8, <1>10
<1>12. Append(t, b) = [k \in 1..(m + 1) |-> h[p[k]]]
  <2> DEFINE v == Append(t, b)
  <2>1. /\ v \in Seq(Letters) /\ Len(v) = m + 1 /\ v[m + 1] = b
        /\ \A k \in 1..m : v[k] = t[k]
    BY <1>3
  <2>2. \A k \in 1..m : t[k] = h[p[k]]
    BY <1>2, <1>3, <1>4, <1>8
  <2> HIDE DEF v
  <2>3. \A k \in 1..(m + 1) : v[k] = h[p[k]]
    BY <1>2, <1>8, <2>1, <2>2
  <2>4. v = [k \in 1..(m + 1) |-> v[k]]
    BY <2>1
  <2>5. v = [k \in 1..(m + 1) |-> h[p[k]]]
    BY <2>3, <2>4
  <2> QED BY <2>5 DEF v
<1>13. ASSUME NEW k \in 1..(m + 1) PROVE Open(h, p[k], (m + 1) - k)
  <2>1. CASE k \in 1..m
    <3>1. (m + 1) - k = (m - k) + 1
      BY <1>3, <2>1
    <3> QED BY <1>6, <1>8, <2>1, <3>1
  <2>2. CASE k = m + 1
    <3>1. (m + 1) - k = 0 /\ n + 1 \in Nat /\ n + 1 <= n + 1
      BY <1>2, <1>3, <2>2
    <3>2. /\ Count(h, Letters, n + 1, n + 1) = 0
          /\ Count(h, {"BS"}, n + 1, n + 1) = 0
      BY <3>1, CountNat
    <3>3. Open(h, n + 1, 0)
      BY <1>2, <3>2 DEF Open
    <3> QED BY <1>8, <2>2, <3>1, <3>3
  <2> QED BY <1>8, <2>1, <2>2
<1>14. T = StayBefore(h, Len(h) + 1)
  <2>1. Len(h) + 1 = n + 2
    BY <1>2
  <2> QED BY <2>1 DEF T
<1>15. Typing(h, m + 1, p, Append(t, b))
  BY <1>11, <1>12, <1>13, <1>14 DEF Typing
<1> QED BY <1>15 DEF h

(* A backspace takes the last one away. *)
LEMMA TypingBackspace ==
  ASSUME NEW s \in Seq(Bytes), NEW m, NEW o, NEW t \in Seq(Letters), t # <<>>,
         Typing(s, m, o, t)
  PROVE  \E p : Typing(Append(s, "BS"), m - 1, p, SubSeq(t, 1, Len(t) - 1))
<1> DEFINE b == "BS"
           h == Append(s, b)
           n == Len(s)
           p == [k \in 1..(m - 1) |-> o[k]]
           u == SubSeq(t, 1, Len(t) - 1)
           S == StayBefore(s, n + 1)
           T == StayBefore(h, n + 2)
<1>1. b \in Bytes /\ b \notin Letters /\ ~ NextEnters(s, b)
  BY ClientIOAssumption DEF Bytes, NextEnters, ClientIOAssumption
<1>2. /\ n \in Nat /\ Len(h) = n + 1
      /\ \A l \in 1..n : h[l] = s[l]
  BY <1>1, OneMore
<1>3. /\ m \in Nat /\ (\A k \in 1..m : o[k] \in 1..n)
      /\ Len(t) = m /\ m # 0
  BY TypingRange
<1>4. /\ Enumerates(o, m, S) /\ t = [k \in 1..m |-> s[o[k]]]
      /\ \A k \in 1..m : Open(s, o[k], m - k)
  BY DEF Typing
<1>5. T = {i \in S : Count(h, {"BS"}, i, n + 1) <= Count(h, Letters, i, n + 1)}
  BY <1>1, StayBeforeNext
<1>6. ASSUME NEW k \in 1..m
      PROVE  /\ m - k > 0 => Open(h, o[k], (m - k) - 1)
             /\ Count(h, {"BS"}, o[k], n + 1) <= Count(h, Letters, o[k], n + 1)
                  <=> m - k # 0
  BY <1>1, <1>3, <1>4, OpenNext
<1>7. u = [k \in 1..(m - 1) |-> t[k]]
  BY <1>3
<1> HIDE DEF b, h, n, S, T, u
<1>8. \A k \in 1..m : o[k] \in S
  BY <1>4 DEF Enumerates
<1>9. \A i \in S : \E k \in 1..m : o[k] = i
  BY <1>4 DEF Enumerates
<1>10. 1..(m - 1) \subseteq 1..m /\ \A k \in 1..m : m - k # 0 <=> k \in 1..(m - 1)
  BY <1>3
<1>11. \A k \in 1..m : o[k] \in T <=> k \in 1..(m - 1)
  BY <1>5, <1>6, <1>8, <1>10
<1>12. /\ DOMAIN p = 1..(m - 1) /\ \A k \in 1..(m - 1) : p[k] = o[k]
       /\ p = [k \in 1..(m - 1) |-> p[k]]
  OBVIOUS
<1> HIDE DEF p
<1>13. Enumerates(p, m - 1, T)
  <2>1. \A k \in 1..(m - 1) : p[k] \in T
    BY <1>10, <1>11, <1>12
  <2>2. p \in [1..(m - 1) -> T]
    BY <1>12, <2>1
  <2>3. ASSUME NEW i \in 1..(m - 1), NEW j \in 1..(m - 1), i < j
        PROVE  p[i] < p[j]
    BY <1>4, <1>10, <1>12, <2>3 DEF Enumerates
  <2>4. ASSUME NEW x \in T PROVE \E i \in 1..(m - 1) : p[i] = x
    <3>1. x \in S
      BY <1>5
    <3>2. PICK k \in 1..m : o[k] = x
      BY <1>9, <3>1
    <3>3. k \in 1..(m - 1)
      BY <1>11, <3>2
    <3> QED BY <1>12, <3>2, <3>3
  <2>5. m - 1 \in Nat
    BY <1>3
  <2> QED BY <2>2, <2>3, <2>4, <2>5 DEF Enumerates
<1>14. u = [k \in 1..(m - 1) |-> h[p[k]]]
  <2>1. ASSUME NEW k \in 1..(m - 1) PROVE t[k] = h[p[k]]
    <3>1. k \in 1..m /\ p[k] = o[k] /\ o[k] \in 1..n
      BY <1>3, <1>10, <1>12
    <3> QED BY <1>2, <1>4, <3>1
  <2> QED BY <1>7, <2>1
<1>15. ASSUME NEW k \in 1..(m - 1) PROVE Open(h, p[k], (m - 1) - k)
  <2>1. k \in 1..m /\ m - k > 0 /\ (m - k) - 1 = (m - 1) - k
    BY <1>3
  <2> QED BY <1>6, <1>12, <2>1
<1>16. T = StayBefore(h, Len(h) + 1)
  <2>1. Len(h) + 1 = n + 2
    BY <1>2
  <2> QED BY <2>1 DEF T
<1>17. Typing(h, m - 1, p, u)
  BY <1>13, <1>14, <1>15, <1>16 DEF Typing
<1> QED BY <1>17 DEF h, u, b

(* A byte that is ignored. *)
LEMMA TypingIgnored ==
  ASSUME NEW s \in Seq(Bytes), NEW b \in Bytes, b \notin Letters,
         ~ NextEnters(s, b), NEW m, NEW o, NEW t \in Seq(Letters),
         Typing(s, m, o, t), b = "BS" => t = <<>>
  PROVE  Typing(Append(s, b), m, o, t)
<1> DEFINE h == Append(s, b)
           n == Len(s)
           S == StayBefore(s, n + 1)
           T == StayBefore(h, n + 2)
<1>1. /\ n \in Nat /\ Len(h) = n + 1
      /\ \A l \in 1..n : h[l] = s[l]
  BY OneMore
<1>2. /\ m \in Nat /\ (\A k \in 1..m : o[k] \in 1..n)
      /\ Len(t) = m
  BY TypingRange
<1>3. /\ Enumerates(o, m, S) /\ t = [k \in 1..m |-> s[o[k]]]
      /\ \A k \in 1..m : Open(s, o[k], m - k)
  BY DEF Typing
<1>4. T = {i \in S : Count(h, {"BS"}, i, n + 1) <= Count(h, Letters, i, n + 1)}
  BY StayBeforeNext
<1>5. ASSUME NEW k \in 1..m
      PROVE  /\ Open(h, o[k], m - k)
             /\ Count(h, {"BS"}, o[k], n + 1) <= Count(h, Letters, o[k], n + 1)
  <2>1. b # "BS"
    BY <1>2
  <2>2. b \in {"CR", "LF", "NUL"}
    BY <2>1 DEF Bytes
  <2> QED BY <1>2, <1>3, <2>1, <2>2, OpenNext
<1> HIDE DEF h, n, S, T
<1>6. \A i \in S : \E k \in 1..m : o[k] = i
  BY <1>3 DEF Enumerates
<1>7. T = S
  BY <1>4, <1>5, <1>6
<1>8. t = [k \in 1..m |-> h[o[k]]]
  <2>1. \A k \in 1..m : h[o[k]] = s[o[k]]
    BY <1>1, <1>2
  <2> QED BY <1>3, <2>1
<1>9. T = StayBefore(h, Len(h) + 1)
  <2>1. Len(h) + 1 = n + 2
    BY <1>1
  <2> QED BY <2>1 DEF T
<1>10. Typing(h, m, o, t)
  BY <1>3, <1>5, <1>7, <1>8, <1>9 DEF Typing
<1> QED BY <1>10 DEF h

(* Nothing stays of what is before an Enter. *)
LEMMA TypingEnter ==
  ASSUME NEW s, StayBefore(s, Len(s) + 1) = {}
  PROVE  Typing(s, 0, <<>>, <<>>)
<1>1. 1..0 = {} /\ 0 \in Nat
  OBVIOUS
<1>2. <<>> = [k \in 1..0 |-> s[<<>>[k]]]
  OBVIOUS
<1>3. <<>> \in [1..0 -> {}]
  OBVIOUS
<1>4. Enumerates(<<>>, 0, {})
  BY <1>1, <1>3 DEF Enumerates
<1> QED BY <1>1, <1>2, <1>4 DEF Typing

(* The lines that have been answered. *)
Answered(s, g) ==
  \E m, o : /\ Enumerates(o, m, Enters(s)) /\ Len(g) = m
            /\ \A k \in 1..m : Spells(s, o[k], g[k])

LEMMA AnsweredSame ==
  ASSUME NEW s \in Seq(Bytes), NEW b \in Bytes, ~ NextEnters(s, b),
         NEW g, Answered(s, g)
  PROVE  Answered(Append(s, b), g)
<1> DEFINE h == Append(s, b)
<1>1. PICK m, o : /\ Enumerates(o, m, Enters(s)) /\ Len(g) = m
                  /\ \A k \in 1..m : Spells(s, o[k], g[k])
  BY DEF Answered
<1>2. Enters(h) = Enters(s) /\ Enters(s) \subseteq 1..Len(s) /\ Len(s) \in Nat
  BY EntersNext, OneMore
<1>3. \A k \in 1..m : Spells(h, o[k], g[k])
  <2>1. \A k \in 1..m : o[k] \in 1..(Len(s) + 1)
    BY <1>1, <1>2 DEF Enumerates
  <2> QED BY <1>1, <2>1, SpellsSame
<1> HIDE DEF h
<1>4. Enumerates(o, m, Enters(h))
  BY <1>1, <1>2
<1>5. Answered(h, g)
  BY <1>1, <1>3, <1>4, Zenon DEF Answered
<1> QED BY <1>5 DEF h

LEMMA AnsweredNext ==
  ASSUME NEW s \in Seq(Bytes), NEW b \in Bytes, NextEnters(s, b),
         NEW g \in Seq(Seq(Letters)), Answered(s, g),
         NEW t \in Seq(Letters), Spells(s, Len(s) + 1, t)
  PROVE  Answered(Append(s, b), Append(g, t))
<1> DEFINE h == Append(s, b)
           n == Len(s)
           v == Append(g, t)
<1>1. PICK m, o : /\ Enumerates(o, m, Enters(s)) /\ Len(g) = m
                  /\ \A k \in 1..m : Spells(s, o[k], g[k])
  BY DEF Answered
<1>2. /\ n \in Nat /\ Enters(s) \in SUBSET (1..n)
      /\ Enters(h) = Enters(s) \cup {n + 1}
  BY EntersNext, OneMore
<1> DEFINE p == Longer(o, m, n + 1)
<1>3. /\ p[m + 1] = n + 1 /\ \A k \in 1..m : p[k] = o[k]
      /\ 1..(m + 1) = (1..m) \cup {m + 1}
      /\ Enumerates(p, m + 1, Enters(h))
  <2> DEFINE S == Enters(s)
  <2>1. n \in Nat /\ S \in SUBSET (1..n) /\ Enumerates(o, m, S)
    BY <1>1, <1>2
  <2> HIDE DEF h, n, S, p
  <2>2. /\ DOMAIN p = 1..(m + 1) /\ p[m + 1] = n + 1 /\ m + 1 \in 1..(m + 1)
        /\ \A k \in 1..m : p[k] = o[k]
        /\ 1..(m + 1) = (1..m) \cup {m + 1}
        /\ Enumerates(p, m + 1, S \cup {n + 1})
    BY <2>1, EnumeratesMore DEF p
  <2> QED BY <1>2, <2>2 DEF S
<1> HIDE DEF p
<1>4. \A k \in 1..m : Spells(h, p[k], g[k])
  <2>1. \A k \in 1..m : o[k] \in 1..(n + 1)
    BY <1>1, <1>2 DEF Enumerates
  <2> QED BY <1>1, <1>3, <2>1, SpellsSame
<1>5. Spells(h, p[m + 1], t)
  <2>1. n + 1 \in 1..(n + 1)
    BY <1>2
  <2> QED BY <1>3, <2>1, SpellsSame
<1>6. Len(v) = m + 1 /\ v[m + 1] = t /\ \A k \in 1..m : v[k] = g[k]
  BY <1>1
<1> HIDE DEF h, n, v
<1>7. \A k \in 1..(m + 1) : Spells(h, p[k], v[k])
  BY <1>3, <1>4, <1>5, <1>6
<1>8. Answered(h, v)
  BY <1>3, <1>6, <1>7, Zenon DEF Answered
<1> QED BY <1>8 DEF h, v

-----------------------------------------------------------------------------
(* The invariant of reading: skipLF says whether a CR was the last to be   *)
(* read, one line has been returned for each Enter, and the line being     *)
(* typed is what stays of the bytes since.                                 *)
Skips == skipLF <=> heard # <<>> /\ heard[Len(heard)] = "CR"

LineInv ==
  /\ TypeOK /\ Skips
  /\ Answered(heard, got)
  /\ \E m, o : Typing(heard, m, o, line)

LEMMA SkipsNext ==
  ASSUME NEW s \in Seq(Bytes), NEW b \in Bytes, NEW skips \in BOOLEAN,
         skips <=> s # <<>> /\ s[Len(s)] = "CR"
  PROVE  /\ (Append(s, b) # <<>> /\ Append(s, b)[Len(Append(s, b))] = "CR")
              <=> b = "CR"
         /\ NextEnters(s, b) <=> b = "CR" \/ (b = "LF" /\ ~ skips)
<1>1. /\ Append(s, b)[Len(Append(s, b))] = b /\ Append(s, b) # <<>>
  BY OneMore
<1>2. NextEnters(s, b) <=> b = "CR" \/ (b = "LF" /\ ~ skips)
  BY DEF NextEnters
<1> QED BY <1>1, <1>2

LEMMA InitLine ==
  ASSUME Init PROVE LineInv
<1>1. heard = <<>> /\ got = <<>> /\ line = <<>> /\ skipLF = FALSE
  BY DEF Init
<1>2. /\ Len(<<>>) = 0 /\ DOMAIN <<>> = {} /\ 1..0 = {} /\ 0 \in Nat
      /\ <<>> \in [1..0 -> {}] /\ 0 + 1 \in 1..(0 + 1) /\ (0 + 1) - 1 = 0
      /\ <<>> \in Seq(Bytes) /\ "NUL" \in Bytes
  BY DEF Bytes
<1>3. Enters(<<>>) = {}
  BY <1>2 DEF Enters
<1>4. Enumerates(<<>>, 0, {})
  BY <1>2 DEF Enumerates
<1>5. Answered(<<>>, <<>>)
  BY <1>2, <1>3, <1>4 DEF Answered
<1>6. StayBefore(<<>>, Len(<<>>) + 1) = {}
  <2>1. StayBefore(<<>>, 0 + 1) \subseteq 1..0
    BY <1>2, StayBeforeSame
  <2> QED BY <1>2, <2>1
<1>7. Typing(<<>>, 0, <<>>, <<>>)
  BY <1>6, TypingEnter
<1>8. Skips
  BY <1>1 DEF Skips
<1> QED BY <1>1, <1>5, <1>7, <1>8, InitTyped DEF LineInv

(* A byte that is ignored, a character, a backspace, an Enter. *)
LEMMA ReadingKeeps ==
  ASSUME LineInv, NEW b, Read(b)
  PROVE  /\ b \in Bytes /\ heard' = Append(heard, b)
         /\ heard \in Seq(Bytes) /\ line \in Seq(Letters)
         /\ got \in Seq(Seq(Letters))
         /\ Skips' <=> (skipLF' <=> b = "CR")
         /\ NextEnters(heard, b) <=> b = "CR" \/ (b = "LF" /\ ~ skipLF)
<1>1. /\ b \in Bytes /\ heard' = Append(heard, b)
      /\ heard \in Seq(Bytes) /\ skipLF \in BOOLEAN
      /\ line \in Seq(Letters) /\ got \in Seq(Seq(Letters))
  BY ReadTyped DEF LineInv, TypeOK, Read
<1>2. /\ (heard' # <<>> /\ heard'[Len(heard')] = "CR") <=> b = "CR"
      /\ NextEnters(heard, b) <=> b = "CR" \/ (b = "LF" /\ ~ skipLF)
  BY <1>1, SkipsNext DEF LineInv, Skips
<1> QED BY <1>1, <1>2 DEF Skips

LEMMA IgnoreKeeps ==
  ASSUME LineInv, NEW b, Ignore(b)
  PROVE  /\ Skips' /\ Answered(heard', got')
         /\ \E m, o : Typing(heard', m, o, line')
<1>1. /\ Read(b) /\ skipLF' = FALSE /\ line' = line /\ got' = got
      /\ b = "NUL" \/ (b = "LF" /\ skipLF) \/ (b = "BS" /\ line = <<>>)
  BY DEF Ignore
<1>2. b \notin Letters /\ ~ NextEnters(heard, b) /\ (b = "BS" => line = <<>>)
  BY <1>1, ReadingKeeps, ClientIOAssumption DEF ClientIOAssumption
<1>3. PICK m, o : Typing(heard, m, o, line)
  BY DEF LineInv
<1>4. Typing(heard', m, o, line')
  BY <1>1, <1>2, <1>3, ReadingKeeps, TypingIgnored
<1>5. Answered(heard', got')
  BY <1>1, <1>2, ReadingKeeps, AnsweredSame DEF LineInv
<1>6. Skips'
  BY <1>1, <1>2, ReadingKeeps DEF NextEnters
<1> QED BY <1>4, <1>5, <1>6

LEMMA EchoKeeps ==
  ASSUME LineInv, NEW b, Echo(b)
  PROVE  /\ Skips' /\ Answered(heard', got')
         /\ \E m, o : Typing(heard', m, o, line')
<1>1. /\ Read(b) /\ b \in Letters /\ skipLF' = FALSE
      /\ line' = Append(line, b) /\ got' = got
  BY DEF Echo
<1>2. ~ NextEnters(heard, b) /\ b # "CR"
  BY <1>1, ClientIOAssumption DEF ClientIOAssumption, NextEnters
<1>3. PICK m, o : Typing(heard, m, o, line)
  BY DEF LineInv
<1>4. \E p : Typing(heard', m + 1, p, line')
  BY <1>1, <1>3, ReadingKeeps, TypingLetter
<1>5. Answered(heard', got')
  BY <1>1, <1>2, ReadingKeeps, AnsweredSame DEF LineInv
<1>6. Skips'
  BY <1>1, <1>2, ReadingKeeps
<1> QED BY <1>4, <1>5, <1>6

LEMMA BackspaceKeeps ==
  ASSUME LineInv, Backspace
  PROVE  /\ Skips' /\ Answered(heard', got')
         /\ \E m, o : Typing(heard', m, o, line')
<1>1. /\ Read("BS") /\ line # <<>> /\ skipLF' = FALSE
      /\ line' = SubSeq(line, 1, Len(line) - 1) /\ got' = got
  BY DEF Backspace
<1>2. ~ NextEnters(heard, "BS")
  BY DEF NextEnters
<1>3. PICK m, o : Typing(heard, m, o, line)
  BY DEF LineInv
<1>4. \E p : Typing(heard', m - 1, p, line')
  BY <1>1, <1>3, ReadingKeeps, TypingBackspace
<1>5. Answered(heard', got')
  BY <1>1, <1>2, ReadingKeeps, AnsweredSame DEF LineInv
<1>6. Skips'
  BY <1>1, ReadingKeeps
<1> QED BY <1>4, <1>5, <1>6

LEMMA NewlineKeeps ==
  ASSUME LineInv, NEW b, Newline(b)
  PROVE  /\ Skips' /\ Answered(heard', got')
         /\ \E m, o : Typing(heard', m, o, line')
<1>1. /\ Read(b) /\ skipLF' = (b = "CR") /\ line' = <<>>
      /\ got' = Append(got, line)
      /\ b = "CR" \/ (b = "LF" /\ ~ skipLF)
  BY DEF Newline
<1>2. /\ b \in Bytes /\ heard' = Append(heard, b)
      /\ heard \in Seq(Bytes) /\ line \in Seq(Letters)
      /\ got \in Seq(Seq(Letters)) /\ NextEnters(heard, b)
  BY <1>1, ReadingKeeps
<1>3. Spells(heard, Len(heard) + 1, line)
  BY TypingSpells DEF LineInv
<1>4. Answered(heard', got')
  BY <1>1, <1>2, <1>3, AnsweredNext DEF LineInv
<1>5. StayBefore(heard', Len(heard') + 1) = {}
  <2>1. StayBefore(heard', Len(heard) + 2) = {}
    BY <1>2, StayBeforeNext
  <2>2. Len(heard') + 1 = Len(heard) + 2
    BY <1>2, OneMore
  <2> QED BY <2>1, <2>2
<1>6. Typing(heard', 0, <<>>, line')
  BY <1>1, <1>5, TypingEnter
<1>7. Skips'
  BY <1>1, ReadingKeeps
<1> QED BY <1>4, <1>6, <1>7

LEMMA NextKeepsLine ==
  ASSUME LineInv, [Next]_vars PROVE LineInv'
<1>1. TypeOK'
  BY NextTyped DEF LineInv
<1>2. CASE ReadLineInteractive
  <2>1. /\ Skips' /\ Answered(heard', got')
        /\ \E m, o : Typing(heard', m, o, line')
    BY <1>2, IgnoreKeeps, EchoKeeps, BackspaceKeeps, NewlineKeeps
       DEF ReadLineInteractive
  <2> QED BY <1>1, <2>1 DEF LineInv
<1>3. CASE ~ ReadLineInteractive
  <2>1. UNCHANGED <<heard, got, line, skipLF>>
    BY <1>3 DEF Next, Handler, Scan, WriteLoop, Type, HangUp, Send, Close,
       ScanRead, AskAgain, Accept, Monitor, ResetScanner, SetEchoMode,
       SendPrompt, Answer, ReadError, Quit, EndHandler, Take, WriteRaw,
       WriteTracked, Written, Stop, vars, reader, ghosts
  <2> QED BY <1>1, <2>1 DEF LineInv, Skips
<1> QED BY <1>2, <1>3

(* Whatever is typed, in whatever chunks it arrives, and however terminals *)
(* end lines: ReadLineInteractive has returned one line for each Enter,    *)
(* the one the user meant, and holds of the next what he has not taken     *)
(* back.                                                                   *)
THEOREM ServerReadsWhatIsTyped == Spec => []LinesAsTyped
<1>1. Init => LineInv
  BY InitLine
<1>2. LineInv /\ [Next]_vars => LineInv'
  BY NextKeepsLine
<1>3. LineInv => LinesAsTyped
  <2>1. ASSUME LineInv PROVE LinesAsTyped
    <3>1. /\ heard \in Seq(Bytes) /\ got \in Seq(Seq(Letters))
          /\ Len(heard) \in Nat /\ Len(heard) + 1 \in 1..(Len(heard) + 1)
      BY <2>1 DEF LineInv, TypeOK
    <3>2. line = TextBefore(heard, Len(heard) + 1)
      <4>1. Spells(heard, Len(heard) + 1, line)
        BY <2>1, TypingSpells DEF LineInv
      <4> QED BY <3>1, <4>1, SpellsText
    <3>3. PICK m, o : /\ Enumerates(o, m, Enters(heard)) /\ Len(got) = m
                      /\ \A k \in 1..m : Spells(heard, o[k], got[k])
      BY <2>1 DEF LineInv, Answered
    <3>4. Enters(heard) \subseteq 1..Len(heard)
      <4>1. "NUL" \in Bytes
        BY DEF Bytes
      <4> QED BY <3>1, <4>1, EntersNext
    <3>5. InOrder(Enters(heard)) = o
      <4>1. Enters(heard) \in SUBSET Nat
        BY <3>4
      <4> QED BY <3>3, <4>1, TheOrder
    <3>6. DOMAIN o = 1..m /\ m \in Nat
      BY <3>3 DEF Enumerates
    <3>7. \A k \in 1..m : got[k] = TextBefore(heard, o[k])
      <4>1. \A k \in 1..m : o[k] \in 1..(Len(heard) + 1)
        BY <3>1, <3>3, <3>4 DEF Enumerates
      <4> QED BY <3>1, <3>3, <4>1, SpellsText
    <3>8. got = [k \in 1..m |-> TextBefore(heard, o[k])]
      <4>1. got = [k \in 1..m |-> got[k]]
        BY <3>1, <3>3
      <4> QED BY <3>7, <4>1
    <3> QED BY <3>2, <3>5, <3>6, <3>8 DEF LinesAsTyped
  <2> QED BY <2>1
<1> QED BY <1>1, <1>2, <1>3, PTL DEF Spec

=============================================================================
