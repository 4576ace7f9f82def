---------------------------- MODULE AdminsProofs ----------------------------
(***************************************************************************)
(* Proofs about the list of administrators and its file, for any number of *)
(* connections and names, and whichever calls of the file system fail.     *)
(***************************************************************************)
EXTENDS Admins, TLAPS

(* The history variable lone is what its name says, and a save that has    *)
(* been alone finds the files as it left them.                             *)
Alone ==
  lone # None =>
    /\ pc[lone] \in Writing
    /\ \A q \in Savers : pc[q] \in Writing => q = lone
    /\ pc[lone] = "write" => fd[lone] = "tmp"
    /\ pc[lone] = "move" => tmp = List(snap[lone])

(* Without overlap and failure whoever writes is alone. *)
Undisturbed == ~ spoilt => \A p \in Savers : pc[p] \in Writing => p = lone

Unsaved == \E p \in Savers : pc[p] = "copy"

(* What a save that is alone writes is the list, if nobody has changed it  *)
(* and not copied it yet.                                                  *)
Current ==
  ~ Unsaved => /\ lone # None => snap[lone] = admins
               /\ lone = None /\ ~ spoilt => Load(file) = admins

DiskInv == TypeOK /\ Alone /\ Undisturbed /\ Current /\ FileIntact

-----------------------------------------------------------------------------
(* Types. *)

LEMMA NoneIsNobody ==
  /\ None \notin Users /\ None \notin Names /\ None # Operator
  /\ Operator \notin Users
BY AdminsAssumption

(* TypeOK holds initially. *)
LEMMA TypeInit == Init => TypeOK
<1> SUFFICES ASSUME Init PROVE TypeOK
  OBVIOUS
<1> USE NoneIsNobody DEF Savers, PC, Writing
<1>1. file \in Content /\ tmp \in Content
  BY DEF Init, Content, List, Absent
<1>2. admins \in SUBSET Names
  BY <1>1 DEF Init, Load, Content
<1>3. order \in [grant : BOOLEAN, name : Names \cup {None},
                target : Users \cup {None}]
  BY DEF Init, Started, NoOrder
<1> QED BY <1>1, <1>2, <1>3 DEF Init, Started, TypeOK

(* The steps of arrival, departure and /name keep TypeOK. *)
LEMMA TypeSession ==
  ASSUME TypeOK, NEW u \in Users, Session(u)
  PROVE  TypeOK'
<1> USE NoneIsNobody DEF Savers, PC, Writing
<1>1. CASE \E n \in Names : Register(u, n)
  BY <1>1 DEF TypeOK, Register, Goto, Cross, disk, locals, history
<1>2. CASE \E n \in Names : RenameClient(u, n)
  BY <1>2 DEF TypeOK, RenameClient, Goto, Cross, disk, locals, history
<1>3. CASE IsKnownAdmin(u)
  BY <1>3 DEF TypeOK, IsKnownAdmin, Goto, people, disk, locals, history
<1>4. CASE Restore(u)
  BY <1>4 DEF TypeOK, Restore, Goto, disk, locals, history
<1>5. CASE Leave(u)
  BY <1>5 DEF TypeOK, Leave, Goto, disk, locals, history
<1>6. CASE IsAdmin(u)
  BY <1>6 DEF TypeOK, IsAdmin, Goto, people, disk, history
<1>7. CASE RenameAdmin(u)
  BY <1>7 DEF TypeOK, RenameAdmin, Goto, people, disk, history
<1> QED BY <1>1, <1>2, <1>3, <1>4, <1>5, <1>6, <1>7 DEF Session

(* The operator's steps keep TypeOK. *)
LEMMA TypeOperate ==
  ASSUME TypeOK, Operate
  PROVE  TypeOK'
<1> USE NoneIsNobody DEF Savers, PC, Writing
<1>1. CASE \E grant \in BOOLEAN, n \in Names : LookUp(grant, n)
  BY <1>1 DEF TypeOK, LookUp, Goto, Cross, people, disk, history
<1>2. CASE NothingToDo
  BY <1>2 DEF TypeOK, NothingToDo, Goto, people, disk, history, NoOrder
<1>3. CASE SetAdmin
  BY <1>3 DEF TypeOK, SetAdmin, Goto, disk, locals, history
<1>4. CASE ChangeList
  BY <1>4 DEF TypeOK, ChangeList, Goto, people, disk, history, NoOrder
<1> QED BY <1>1, <1>2, <1>3, <1>4 DEF Operate

(* The steps of SaveAdmins keep TypeOK. *)
LEMMA TypeSave ==
  ASSUME TypeOK, NEW p \in Savers, Save(p)
  PROVE  TypeOK'
<1> USE NoneIsNobody DEF Savers, PC, Writing, Back
<1>1. CASE Copy(p)
  BY <1>1 DEF TypeOK, Copy, Goto, people, disk, locals, Busy
<1>2. CASE Open(p)
  BY <1>2 DEF TypeOK, Open, Goto, people, locals, history, Partial, Content
<1>3. CASE Write(p)
  BY <1>3 DEF TypeOK, Write, Goto, people, locals, history, List, Content
<1>4. CASE Move(p)
  BY <1>4 DEF TypeOK, Move, Goto, people, locals, Absent, Content
<1>5. CASE SaveFails(p)
  <2>1. pc[p] \in Writing
    BY <1>5, AdminsAssumption DEF SaveFails
  <2>2. tmp' \in Content /\ file' \in Content
    BY <1>5 DEF TypeOK, SaveFails, Partial, Content
  <2> QED BY <1>5, <2>1, <2>2 DEF TypeOK, SaveFails, people, locals
<1> QED BY <1>1, <1>2, <1>3, <1>4, <1>5 DEF Save

(* A kick keeps TypeOK, and so does a restart. *)
LEMMA TypeOther ==
  ASSUME TypeOK, (\E n \in Names : Kick(n)) \/ Restart
  PROVE  TypeOK'
<1> USE NoneIsNobody DEF Savers, PC, Writing
<1>1. CASE \E n \in Names : Kick(n)
  BY <1>1 DEF TypeOK, Kick, disk, locals, history
<1>2. CASE Restart
  BY <1>2 DEF TypeOK, Restart, Load, NoOrder, Content
<1> QED BY <1>1, <1>2

LEMMA TypeStep == TypeOK /\ [Next]_vars => TypeOK'
<1> SUFFICES ASSUME TypeOK, [Next]_vars PROVE TypeOK'
  OBVIOUS
<1>1. CASE UNCHANGED vars
  BY <1>1 DEF TypeOK, vars
<1> QED
  BY <1>1, TypeSession, TypeOperate, TypeSave, TypeOther DEF Next

(* Every variable keeps its type; a handler that has a name still has one, *)
(* and an order in progress has a target.                                  *)
THEOREM AdminsTyped == Spec => []TypeOK
BY TypeInit, TypeStep, PTL DEF Spec

-----------------------------------------------------------------------------
(* The file. *)

LEMMA DiskInit == Init => DiskInv
<1> SUFFICES ASSUME Init PROVE DiskInv
  OBVIOUS
<1>1. TypeOK
  BY TypeInit
<1>2. \A p \in Savers : pc[p] \notin Writing
  BY NoneIsNobody DEF Init, Started, Savers, Writing
<1>3. lone = None /\ ~ spoilt /\ Load(file) = admins
  BY DEF Init, Started
<1>4. FileIntact
  BY DEF FileIntact, Init, Absent, List
<1> QED BY <1>1, <1>2, <1>3, <1>4 DEF DiskInv, Alone, Undisturbed, Current

(* A step that is no part of a save does not touch the files, and if it    *)
(* changes the list it leaves a save to be done.                           *)
Aside ==
  /\ \A p \in Savers : pc'[p] \in Writing <=> pc[p] \in Writing
  /\ \A p \in Savers : pc[p] \in Writing => pc'[p] = pc[p]
  /\ Unsaved => Unsaved'
  /\ admins' = admins \/ Unsaved'
  /\ UNCHANGED <<file, tmp, fd, snap, lone, spoilt>>

LEMMA AsideKeeps ==
  ASSUME DiskInv, Aside, TypeOK'
  PROVE  DiskInv'
<1>1. Alone'
  <2> SUFFICES ASSUME lone # None PROVE Alone'
    BY DEF Aside, Alone
  <2>1. lone \in Savers /\ pc'[lone] = pc[lone]
    BY DEF DiskInv, TypeOK, Alone, Aside
  <2> QED BY <2>1 DEF DiskInv, Alone, Aside, List
<1>2. Undisturbed'
  BY DEF DiskInv, Undisturbed, Aside
<1>3. Current'
  BY DEF DiskInv, Current, Aside, Load
<1>4. FileIntact'
  BY DEF DiskInv, FileIntact, Aside
<1> QED BY <1>1, <1>2, <1>3, <1>4 DEF DiskInv

LEMMA SessionAside ==
  ASSUME TypeOK, NEW u \in Users, Session(u)
  PROVE  Aside
<1> USE NoneIsNobody DEF Savers, PC, Writing, Unsaved
<1>1. CASE \E n \in Names : Register(u, n)
  BY <1>1 DEF TypeOK, Aside, Register, Goto, disk, history
<1>2. CASE \E n \in Names : RenameClient(u, n)
  BY <1>2 DEF TypeOK, Aside, RenameClient, Goto, disk, history
<1>3. CASE IsKnownAdmin(u)
  BY <1>3 DEF TypeOK, Aside, IsKnownAdmin, Goto, disk, history
<1>4. CASE Restore(u)
  BY <1>4 DEF TypeOK, Aside, Restore, Goto, disk, history
<1>5. CASE Leave(u)
  BY <1>5 DEF TypeOK, Aside, Leave, Goto, disk, history
<1>6. CASE IsAdmin(u)
  BY <1>6 DEF TypeOK, Aside, IsAdmin, Goto, disk, history
<1>7. CASE RenameAdmin(u)
  BY <1>7 DEF TypeOK, Aside, RenameAdmin, Goto, disk, history
<1> QED BY <1>1, <1>2, <1>3, <1>4, <1>5, <1>6, <1>7 DEF Session

LEMMA OperateAside ==
  ASSUME TypeOK, Operate
  PROVE  Aside
<1> USE NoneIsNobody DEF Savers, PC, Writing, Unsaved
<1>1. CASE \E grant \in BOOLEAN, n \in Names : LookUp(grant, n)
  BY <1>1 DEF TypeOK, Aside, LookUp, Goto, disk, history
<1>2. CASE NothingToDo
  BY <1>2 DEF TypeOK, Aside, NothingToDo, Goto, disk, history
<1>3. CASE SetAdmin
  BY <1>3 DEF TypeOK, Aside, SetAdmin, Goto, disk, history
<1>4. CASE ChangeList
  BY <1>4 DEF TypeOK, Aside, ChangeList, Goto, disk, history
<1> QED BY <1>1, <1>2, <1>3, <1>4 DEF Operate

LEMMA KickAside ==
  ASSUME NEW n \in Names, Kick(n)
  PROVE  Aside
BY DEF Kick, Aside, Unsaved, disk, history

(* A save that begins is alone, or spoils what is under way. *)
LEMMA CopyKeeps ==
  ASSUME DiskInv, NEW p \in Savers, Copy(p), TypeOK'
  PROVE  DiskInv'
<1> USE DEF Writing
<1>1. /\ pc[p] = "copy" /\ pc'[p] = "open"
      /\ \A q \in Savers \ {p} : pc'[q] = pc[q]
  BY DEF Copy, Goto, DiskInv, TypeOK
<1>2. /\ UNCHANGED <<admins, file, tmp, fd>>
      /\ snap'[p] = admins
  BY DEF Copy, DiskInv, TypeOK, disk
<1>3. CASE Busy(p)
  <2>1. lone' = None /\ spoilt'
    BY <1>3 DEF Copy
  <2> QED BY <2>1 DEF DiskInv, Alone, Undisturbed, Current, FileIntact
<1>4. CASE ~ Busy(p)
  <2>1. lone' = p /\ spoilt' = spoilt
    BY <1>4 DEF Copy, DiskInv, TypeOK
  <2>2. \A q \in Savers : pc'[q] \in Writing => q = p
    BY <1>1, <1>4 DEF Busy
  <2>3. p # None
    BY NoneIsNobody DEF Savers
  <2> QED
    BY <1>1, <1>2, <2>1, <2>2, <2>3
       DEF DiskInv, Alone, Undisturbed, Current, FileIntact
<1> QED BY <1>3, <1>4

LEMMA OpenKeeps ==
  ASSUME DiskInv, NEW p \in Savers, Open(p), TypeOK'
  PROVE  DiskInv'
<1> USE DEF Writing
<1>1. /\ pc[p] = "open" /\ pc'[p] = "write" /\ fd'[p] = "tmp"
      /\ \A q \in Savers \ {p} : pc'[q] = pc[q]
  BY DEF Open, Goto, DiskInv, TypeOK
<1>2. UNCHANGED <<admins, file, snap, lone, spoilt>>
  BY DEF Open, history
<1>3. Unsaved' <=> Unsaved
  BY <1>1 DEF Unsaved
<1>4. lone # None => lone = p
  BY <1>1 DEF DiskInv, Alone
<1>5. Alone'
  BY <1>1, <1>2, <1>4 DEF DiskInv, Alone
<1>6. Undisturbed'
  BY <1>1, <1>2 DEF DiskInv, Undisturbed
<1> QED
  BY <1>2, <1>3, <1>5, <1>6 DEF DiskInv, Current, FileIntact, Load

LEMMA WriteKeeps ==
  ASSUME DiskInv, NEW p \in Savers, Write(p), TypeOK'
  PROVE  DiskInv'
<1> USE DEF Writing
<1>1. /\ pc[p] = "write" /\ pc'[p] = "move"
      /\ \A q \in Savers \ {p} : pc'[q] = pc[q]
  BY DEF Write, Goto, DiskInv, TypeOK
<1>2. UNCHANGED <<admins, snap, lone, spoilt>>
  BY DEF Write, history
<1>3. Unsaved' <=> Unsaved
  BY <1>1 DEF Unsaved
<1>4. lone # None => lone = p /\ tmp' = List(snap[p]) /\ UNCHANGED file
  BY <1>1 DEF DiskInv, Alone, Write
<1>5. Alone'
  BY <1>1, <1>2, <1>4 DEF DiskInv, Alone
<1>6. Undisturbed'
  BY <1>1, <1>2 DEF DiskInv, Undisturbed
<1>7. ~ spoilt => lone # None
  BY <1>1, NoneIsNobody DEF DiskInv, Undisturbed, Savers
<1> QED
  BY <1>2, <1>3, <1>4, <1>5, <1>6, <1>7
     DEF DiskInv, Current, FileIntact, Load, List

LEMMA MoveKeeps ==
  ASSUME DiskInv, NEW p \in Savers, Move(p), TypeOK'
  PROVE  DiskInv'
<1> USE DEF Writing
<1>1. /\ pc[p] = "move" /\ pc'[p] \in {"op", "in"}
      /\ \A q \in Savers \ {p} : pc'[q] = pc[q]
  BY DEF Move, Goto, Back, DiskInv, TypeOK
<1>2. /\ UNCHANGED admins
      /\ file' = tmp
      /\ lone' = IF lone = p THEN None ELSE lone
      /\ spoilt' = (spoilt /\ lone # p)
  BY DEF Move
<1>3. Unsaved' <=> Unsaved
  BY <1>1 DEF Unsaved
<1>4. CASE lone = p
  <2>1. p # None
    BY NoneIsNobody DEF Savers
  <2>2. /\ \A q \in Savers : pc'[q] \notin Writing
        /\ tmp = List(snap[p])
        /\ ~ Unsaved => snap[p] = admins
    BY <1>1, <1>4, <2>1 DEF DiskInv, Alone, Current
  <2>3. lone' = None /\ ~ spoilt'
    BY <1>2, <1>4
  <2>4. FileIntact'
    BY <1>2, <2>2 DEF FileIntact, List
  <2>5. Current'
    BY <1>2, <1>3, <2>2, <2>3 DEF Current, Load, List
  <2> QED BY <2>2, <2>3, <2>4, <2>5 DEF DiskInv, Alone, Undisturbed
<1>5. CASE lone # p
  <2>1. lone = None /\ spoilt
    BY <1>1, <1>5 DEF DiskInv, Alone, Undisturbed
  <2>2. lone' = None /\ spoilt'
    BY <1>2, <1>5, <2>1
  <2> QED BY <2>2 DEF DiskInv, Alone, Undisturbed, Current, FileIntact
<1> QED BY <1>4, <1>5

LEMMA FailureKeeps ==
  ASSUME DiskInv, NEW p \in Savers, SaveFails(p), TypeOK'
  PROVE  DiskInv'
<1>1. pc[p] \in Writing
  BY AdminsAssumption DEF SaveFails, Writing
<1>2. lone = None \/ lone = p
  BY <1>1 DEF DiskInv, Alone
<1>3. lone' = None /\ spoilt'
  BY <1>2 DEF SaveFails
<1> QED BY <1>3 DEF DiskInv, Alone, Undisturbed, Current, FileIntact

LEMMA RestartKeeps ==
  ASSUME DiskInv, Restart, TypeOK'
  PROVE  DiskInv'
<1>1. \A p \in Savers : pc'[p] \notin Writing
  BY DEF Restart, Writing, Savers
<1>2. lone' = None /\ UNCHANGED <<file, spoilt>> /\ admins' = Load(file)
  BY DEF Restart
<1>3. Current'
  BY <1>2 DEF Current, Load
<1> QED
  BY <1>1, <1>2, <1>3 DEF DiskInv, Alone, Undisturbed, FileIntact

LEMMA DiskStep == DiskInv /\ [Next]_vars => DiskInv'
<1> SUFFICES ASSUME DiskInv, [Next]_vars PROVE DiskInv'
  OBVIOUS
<1>1. TypeOK /\ TypeOK'
  BY TypeStep DEF DiskInv
<1>2. CASE UNCHANGED vars
  <2>1. Aside
    BY <1>2 DEF vars, Aside, Unsaved
  <2> QED BY <1>1, <2>1, AsideKeeps
<1>3. CASE \E u \in Users : Session(u)
  BY <1>1, <1>3, SessionAside, AsideKeeps
<1>4. CASE \E n \in Names : Kick(n)
  BY <1>1, <1>4, KickAside, AsideKeeps
<1>5. CASE Operate
  BY <1>1, <1>5, OperateAside, AsideKeeps
<1>6. CASE \E p \in Savers : Save(p)
  BY <1>1, <1>6, CopyKeeps, OpenKeeps, WriteKeeps, MoveKeeps, FailureKeeps
     DEF Save
<1>7. CASE Restart
  BY <1>1, <1>7, RestartKeeps
<1> QED BY <1>2, <1>3, <1>4, <1>5, <1>6, <1>7 DEF Next

(* A crash never finds a partial admins.json unless saves overlapped or    *)
(* failed and none was alone since.                                        *)
THEOREM FileStaysIntact == Spec => []FileIntact
<1>1. DiskInv => FileIntact
  BY DEF DiskInv
<1> QED BY <1>1, DiskInit, DiskStep, PTL DEF Spec

(* With every change saved, and the last save undisturbed, the file has    *)
(* the list.                                                               *)
THEOREM FileStaysCurrent == Spec => []FileCurrent
<1>1. DiskInv => FileCurrent
  <2> SUFFICES ASSUME DiskInv, ~ spoilt,
                      \A p \in Savers : pc[p] \notin Writing \cup {"copy"}
               PROVE  Load(file) = admins
    BY DEF FileCurrent
  <2>1. lone = None
    BY DEF DiskInv, Alone, TypeOK
  <2> QED BY <2>1 DEF DiskInv, Current, Unsaved
<1> QED BY <1>1, DiskInit, DiskStep, PTL DEF Spec

-----------------------------------------------------------------------------
(* Flag and list. *)

(* The names an arrival or a rename in progress is about. *)
About(u) == IF old[u] # None THEN {old[u], username[u]}
            ELSE {n \in {username[u]} : pc[u] \in {"restore", "grant"}}

(* Who is found under a name carries it and has not left. *)
Listed ==
  \A n \in Names : clients[n] # None =>
    username[clients[n]] = n /\ pc[clients[n]] \notin {"off", "gone"}

(* Locals hold something exactly while their command is under way. *)
Locals ==
  /\ \A u \in Users : old[u] # None <=> pc[u] \in {"renamed", "relist"}
  /\ order.name # None <=> pc[Operator] \in {"flag", "list"}

(* Nobody arrives with rights. *)
Fresh == \A u \in Users : pc[u] \in {"off", "restore", "grant"} => ~ admin[u]

(* No two commands in progress are about the same name, and under the      *)
(* names they are about nobody else is found.                              *)
Disjoint ==
  /\ \A u \in Users : order.name \notin About(u)
  /\ \A u, v \in Users : u # v => About(u) \cap About(v) = {}
  /\ \A u \in Users : \A n \in About(u) : clients[n] \in {u, None}
  /\ \A u \in Users : old[u] # None => clients[old[u]] = None

(* The operator's target is settled, keeps its name, and if it is found    *)
(* and has the flag already, its name is listed already.                   *)
Targeted ==
  pc[Operator] \in {"flag", "list"} =>
    /\ clients[order.name] \in {order.target, None}
    /\ pc[order.target] \notin {"off", "restore", "grant"}
    /\ pc[order.target] # "gone" => username[order.target] = order.name
    /\ pc[Operator] = "list" => admin[order.target] = order.grant
    /\ pc[Operator] = "flag" /\ clients[order.name] # None
         /\ admin[order.target] => order.name \in admins

(* What a handler is about to act on is still on the list. *)
StillListed ==
  \A u \in Users :
    /\ pc[u] = "grant" => username[u] \in admins
    /\ pc[u] = "relist" \/ (pc[u] = "renamed" /\ admin[u]) => old[u] \in admins

RightsInv ==
  /\ Listed /\ Locals
  /\ ~ crossed => Fresh /\ Disjoint /\ Targeted /\ StillListed
  /\ RightsAgree

LEMMA RightsInit == Init => RightsInv
<1> SUFFICES ASSUME Init PROVE RightsInv
  OBVIOUS
<1>1. /\ \A n \in Names : clients[n] = None
      /\ \A u \in Users : /\ old[u] = None /\ pc[u] = "off" /\ ~ admin[u]
                          /\ About(u) = {}
      /\ order.name = None /\ pc[Operator] = "op"
  BY NoneIsNobody DEF Init, Started, NoOrder, About, Savers
<1> QED
  BY <1>1 DEF RightsInv, Listed, Locals, Fresh, Disjoint, Targeted,
              StillListed, RightsAgree

(* A step that goes from one place where nothing is pending to another. *)
Settled == {"in", "op", "copy"} \cup Writing
Neutral ==
  /\ \A p \in Savers : pc'[p] = pc[p] \/ (pc[p] \in Settled /\ pc'[p] \in Settled)
  /\ UNCHANGED <<clients, username, admin, admins, old, order, crossed>>

LEMMA NeutralKeeps ==
  ASSUME RightsInv, TypeOK, Neutral
  PROVE  RightsInv'
<1> USE DEF Settled, Writing
<1>1. \A p \in Savers : \A S \in SUBSET {"off", "gone", "restore", "grant",
        "renamed", "relist", "flag", "list"} : pc'[p] \in S <=> pc[p] \in S
  BY DEF Neutral
<1>2. \A p \in Savers : \A x \in {"off", "gone", "restore", "grant",
        "renamed", "relist", "flag", "list"} : pc'[p] = x <=> pc[p] = x
  BY DEF Neutral
<1>3. \A u \in Users : About(u)' = About(u)
  BY <1>1 DEF About, Neutral, Savers
<1>4. \A n : Pending(n)' <=> Pending(n)
  BY <1>1 DEF Pending, Neutral, Savers
<1>5. Listed'
  BY <1>1 DEF RightsInv, Listed, Neutral, Savers, TypeOK
<1>6. Locals'
  BY <1>1 DEF RightsInv, Locals, Neutral, Savers
<1>7. ASSUME ~ crossed PROVE Fresh' /\ Disjoint' /\ Targeted' /\ StillListed'
  <2>1. Fresh'
    BY <1>1, <1>7 DEF RightsInv, Fresh, Neutral, Savers
  <2>2. Disjoint'
    BY <1>3, <1>7 DEF RightsInv, Disjoint, Neutral
  <2>3. Targeted'
    BY <1>1, <1>2, <1>7 DEF RightsInv, Targeted, Neutral, Savers, TypeOK
  <2>4. StillListed'
    BY <1>2, <1>7 DEF RightsInv, StillListed, Neutral, Savers
  <2> QED BY <2>1, <2>2, <2>3, <2>4
<1>8. RightsAgree'
  BY <1>4 DEF RightsInv, RightsAgree, Neutral
<1> QED BY <1>5, <1>6, <1>7, <1>8 DEF RightsInv, Neutral

LEMMA PendingAbout ==
  ASSUME Locals, NEW n
  PROVE  Pending(n) <=> order.name = n \/ \E u \in Users : n \in About(u)
BY DEF Pending, About, Locals

LEMMA AboutNames ==
  ASSUME Locals, TypeOK, NEW u \in Users
  PROVE  About(u) \in SUBSET Names
BY DEF About, Locals, TypeOK

LEMMA RegisterKeeps ==
  ASSUME RightsInv, TypeOK, TypeOK', NEW u \in Users, NEW n \in Names,
         Register(u, n)
  PROVE  RightsInv'
<1> USE NoneIsNobody DEF Savers
<1>1. /\ pc[u] = "off" /\ pc'[u] = "restore" /\ username'[u] = n
      /\ clients[n] = None /\ clients'[n] = u
      /\ \A p \in Savers \ {u} : pc'[p] = pc[p]
      /\ \A v \in Users \ {u} : username'[v] = username[v]
      /\ \A m \in Names \ {n} : clients'[m] = clients[m]
  BY DEF Register, Goto, TypeOK
<1>2. /\ UNCHANGED <<admin, admins, old, order>>
      /\ crossed' = (crossed \/ Pending(n))
  BY DEF Register, Cross, locals
<1>3. pc'[Operator] = pc[Operator]
  BY <1>1
<1>4. Locals'
  BY <1>1, <1>2, <1>3 DEF RightsInv, Locals
<1>5. old[u] = None
  BY <1>1 DEF RightsInv, Locals
<1>6. /\ About(u) = {} /\ About(u)' = {n}
      /\ \A v \in Users \ {u} : About(v)' = About(v)
  BY <1>1, <1>2, <1>5 DEF About
<1>7. Listed'
  BY <1>1 DEF RightsInv, Listed, TypeOK
<1>8. ASSUME ~ crossed'
      PROVE  Fresh' /\ Disjoint' /\ Targeted' /\ StillListed' /\ RightsAgree'
  <2>1. ~ crossed /\ order.name # n /\ \A v \in Users : n \notin About(v)
    BY <1>2, <1>8, PendingAbout DEF RightsInv
  <2>2. Fresh'
    BY <1>1, <1>2, <2>1 DEF RightsInv, Fresh
  <2>3. \A v \in Users : old[v] # n
    BY <2>1 DEF About
  <2>4. Disjoint'
    <3>1. Disjoint
      BY <2>1 DEF RightsInv
    <3>2. \A v \in Users : order'.name \notin About(v)'
      BY <1>2, <1>6, <2>1, <3>1 DEF Disjoint
    <3>3. \A v, w \in Users : v # w => About(v)' \cap About(w)' = {}
      BY <1>6, <2>1, <3>1 DEF Disjoint
    <3>4. \A v \in Users : \A m \in About(v)' : clients'[m] \in {v, None}
      <4> SUFFICES ASSUME NEW v \in Users, NEW m \in About(v)'
                   PROVE  clients'[m] \in {v, None}
        OBVIOUS
      <4>1. CASE v = u
        BY <1>1, <1>6, <4>1
      <4>2. CASE v # u
        <5>1. m \in About(v) /\ m # n /\ m \in Names
          BY <1>6, <2>1, <4>2, AboutNames DEF RightsInv
        <5>2. clients[m] \in {v, None}
          BY <3>1, <5>1 DEF Disjoint
        <5> QED BY <1>1, <5>1, <5>2 DEF Register
      <4> QED BY <4>1, <4>2
    <3>5. \A v \in Users : old'[v] # None => clients'[old'[v]] = None
      BY <1>1, <1>2, <2>3, <3>1 DEF Disjoint, TypeOK
    <3> QED BY <3>2, <3>3, <3>4, <3>5 DEF Disjoint
  <2>5. Targeted'
    BY <1>1, <1>2, <1>3, <2>1 DEF RightsInv, Targeted, TypeOK
  <2>6. StillListed'
    BY <1>1, <1>2, <2>1 DEF RightsInv, StillListed
  <2>7. \A m \in Names : Pending(m) => Pending(m)'
    BY <1>1, <1>2, <1>5 DEF Pending
  <2>9. Pending(n)'
    BY <1>1 DEF Pending
  <2>8. RightsAgree'
    BY <1>1, <1>2, <2>1, <2>7, <2>9 DEF RightsInv, RightsAgree
  <2> QED BY <2>2, <2>4, <2>5, <2>6, <2>8
<1> QED BY <1>4, <1>7, <1>8 DEF RightsInv, RightsAgree

(* The flag is looked up in the list, and then set: nobody removes the     *)
(* name in between.                                                        *)
LEMMA RestoreKeeps ==
  ASSUME RightsInv, TypeOK, TypeOK', NEW u \in Users,
         IsKnownAdmin(u) \/ Restore(u)
  PROVE  RightsInv'
<1> USE NoneIsNobody DEF Savers
<1>1. /\ pc[u] \in {"restore", "grant"}
      /\ \/ pc'[u] = "in"
         \/ pc[u] = "restore" /\ pc'[u] = "grant" /\ username[u] \in admins
      /\ \A p \in Savers \ {u} : pc'[p] = pc[p]
      /\ UNCHANGED <<clients, username, admins, old, order, crossed>>
  BY DEF IsKnownAdmin, Restore, Goto, TypeOK, people, locals
<1>2. /\ \A v \in Users \ {u} : admin'[v] = admin[v]
      /\ admin'[u] = admin[u] \/ (pc[u] = "grant" /\ pc'[u] = "in")
  BY DEF IsKnownAdmin, Restore, Goto, TypeOK, people
<1>3. pc'[Operator] = pc[Operator] /\ old[u] = None
  BY <1>1 DEF RightsInv, Locals
<1>4. Locals' /\ Listed'
  BY <1>1, <1>3 DEF RightsInv, Locals, Listed, TypeOK
<1>5. /\ About(u) = {username[u]} /\ About(u)' \in {{}, {username[u]}}
      /\ \A v \in Users \ {u} : About(v)' = About(v)
  BY <1>1, <1>3 DEF About
<1>6. ASSUME ~ crossed
      PROVE  Fresh' /\ Disjoint' /\ Targeted' /\ StillListed' /\ RightsAgree'
  <2>1. Fresh'
    BY <1>1, <1>2, <1>6 DEF RightsInv, Fresh
  <2>2. Disjoint'
    BY <1>1, <1>5, <1>6 DEF RightsInv, Disjoint
  <2>3. pc[Operator] \in {"flag", "list"} => order.target # u
    BY <1>1, <1>6 DEF RightsInv, Targeted
  <2>4. Targeted'
    BY <1>1, <1>2, <1>3, <1>6, <2>3 DEF RightsInv, Targeted, TypeOK
  <2>5. StillListed'
    BY <1>1, <1>2, <1>6 DEF RightsInv, StillListed
  <2>6. \A m \in Names : Pending(m) => Pending(m)' \/ m = username[u]
    BY <1>1, <1>4, <1>5, PendingAbout DEF RightsInv, Pending, About
  <2>7. admin'[u] => username[u] \in admins
    <3>1. ~ admin[u]
      BY <1>1, <1>6 DEF RightsInv, Fresh
    <3> QED BY <3>1, <1>2, <1>6 DEF RightsInv, StillListed
  <2>8. RightsAgree'
    <3> SUFFICES ASSUME NEW m \in Names, clients[m] # None,
                        admin'[clients[m]], ~ Pending(m)'
                 PROVE  m \in admins
      BY <1>1 DEF RightsAgree
    <3>1. clients[m] \in Users /\ username[clients[m]] = m
      BY DEF RightsInv, Listed, TypeOK
    <3>2. CASE clients[m] = u
      BY <2>7, <3>1, <3>2
    <3>3. CASE clients[m] # u
      <4>1. admin[clients[m]]
        BY <1>2, <3>1, <3>3
      <4>2. CASE ~ Pending(m)
        BY <1>6, <4>1, <4>2 DEF RightsInv, RightsAgree
      <4>3. CASE Pending(m)
        <5>1. m \in About(u)
          BY <1>5, <2>6, <4>3
        <5> QED BY <3>3, <5>1, <1>6 DEF RightsInv, Disjoint
      <4> QED BY <4>2, <4>3
    <3> QED BY <3>2, <3>3
  <2> QED BY <2>1, <2>2, <2>4, <2>5, <2>8
<1> QED BY <1>1, <1>4, <1>6 DEF RightsInv, RightsAgree

(* Who leaves, or is kicked, is found no more; nothing else changes. *)
LEMMA DepartureKeeps ==
  ASSUME RightsInv, TypeOK, TypeOK',
         (\E u \in Users : Leave(u)) \/ (\E n \in Names : Kick(n))
  PROVE  RightsInv'
<1> USE NoneIsNobody DEF Savers
<1>1. /\ \A n \in Names : clients'[n] \in {clients[n], None}
      /\ UNCHANGED <<admin, admins, old, order, crossed>>
      /\ pc'[Operator] = pc[Operator]
  BY DEF Leave, Kick, Goto, TypeOK, locals
<1>2. \A u \in Users : \/ pc'[u] = pc[u] /\ username'[u] = username[u]
                       \/ /\ pc[u] = "in" /\ pc'[u] = "gone"
                          /\ \A n \in Names : clients'[n] # u
  BY DEF Leave, Kick, Goto, TypeOK
<1>3. Locals'
  BY <1>1, <1>2 DEF RightsInv, Locals
<1>4. \A u \in Users : About(u)' = About(u)
  <2> TAKE u \in Users
  <2>1. CASE pc'[u] = pc[u] /\ username'[u] = username[u]
    BY <1>1, <2>1 DEF About
  <2>2. CASE pc[u] = "in" /\ pc'[u] = "gone"
    BY <1>1, <2>2 DEF RightsInv, Locals, About
  <2> QED BY <1>2, <2>1, <2>2
<1>5. Listed'
  <2> SUFFICES ASSUME NEW n \in Names, clients'[n] # None
               PROVE  /\ username'[clients'[n]] = n
                      /\ pc'[clients'[n]] \notin {"off", "gone"}
    BY DEF Listed
  <2>1. clients'[n] = clients[n] /\ clients[n] \in Users
    BY <1>1 DEF TypeOK
  <2> QED BY <1>2, <2>1 DEF RightsInv, Listed
<1>6. ASSUME ~ crossed
      PROVE  Fresh' /\ Disjoint' /\ Targeted' /\ StillListed' /\ RightsAgree'
  <2>1. Fresh'
    BY <1>1, <1>2, <1>6 DEF RightsInv, Fresh
  <2>2. \A u \in Users : About(u) \in SUBSET Names
    BY AboutNames DEF RightsInv
  <2>3. \A u \in Users : old[u] # None => old[u] \in Names
    BY DEF TypeOK
  <2>4. Disjoint'
    BY <1>1, <1>4, <1>6, <2>2, <2>3 DEF RightsInv, Disjoint
  <2>5. Targeted'
    BY <1>1, <1>2, <1>6 DEF RightsInv, Targeted, TypeOK
  <2>6. StillListed'
    BY <1>1, <1>2, <1>6 DEF RightsInv, StillListed
  <2>7. \A n \in Names : Pending(n) => Pending(n)'
    <3>1. \A n \in Names : Pending(n) =>
            order'.name = n \/ \E u \in Users : n \in About(u)'
      BY <1>1, <1>4, PendingAbout DEF RightsInv
    <3> QED BY <3>1 DEF Pending, About
  <2>8. RightsAgree'
    BY <1>1, <1>6, <2>7 DEF RightsInv, RightsAgree, TypeOK
  <2> QED BY <2>1, <2>4, <2>5, <2>6, <2>8
<1> QED BY <1>1, <1>3, <1>5, <1>6 DEF RightsInv, RightsAgree

LEMMA RenameClientKeeps ==
  ASSUME RightsInv, TypeOK, TypeOK', NEW u \in Users, NEW new \in Names,
         RenameClient(u, new)
  PROVE  RightsInv'
<1> USE NoneIsNobody DEF Savers
<1> DEFINE name == username[u]
<1>1. /\ pc[u] = "in" /\ pc'[u] = "renamed" /\ username'[u] = new
      /\ old'[u] = name /\ name \in Names /\ name # new
      /\ clients[new] = None /\ clients'[new] = u /\ clients'[name] = None
      /\ \A p \in Savers \ {u} : pc'[p] = pc[p]
      /\ \A v \in Users \ {u} : username'[v] = username[v] /\ old'[v] = old[v]
      /\ \A m \in Names \ {name, new} : clients'[m] = clients[m]
  BY DEF RenameClient, Goto, TypeOK
<1>2. /\ UNCHANGED <<admin, admins, order>>
      /\ crossed' = (crossed \/ (Pending(name) \/ Pending(new)
                                   \/ clients[name] # u))
  BY DEF RenameClient, Cross
<1>3. pc'[Operator] = pc[Operator] /\ old[u] = None
  BY <1>1 DEF RightsInv, Locals
<1>4. Locals'
  BY <1>1, <1>2, <1>3 DEF RightsInv, Locals
<1>5. /\ About(u)' = {name, new} /\ About(u) = {}
      /\ \A v \in Users \ {u} : About(v)' = About(v)
  BY <1>1, <1>3 DEF About
<1>6. \A m \in Names : clients[m] = u => m = name
  BY DEF RightsInv, Listed, TypeOK
<1>7. Listed'
  <2> SUFFICES ASSUME NEW m \in Names, clients'[m] # None
               PROVE  /\ username'[clients'[m]] = m
                      /\ pc'[clients'[m]] \notin {"off", "gone"}
    BY DEF Listed
  <2>1. CASE m = new
    BY <1>1, <2>1
  <2>2. CASE m # new
    <3>1. clients'[m] = clients[m] /\ clients[m] \in Users \ {u}
      BY <1>1, <1>6, <2>2 DEF TypeOK
    <3> QED BY <1>1, <3>1 DEF RightsInv, Listed
  <2> QED BY <2>1, <2>2
<1>8. ASSUME ~ crossed'
      PROVE  Fresh' /\ Disjoint' /\ Targeted' /\ StillListed' /\ RightsAgree'
  <2>1. /\ ~ crossed /\ clients[name] = u
        /\ ~ Pending(name) /\ ~ Pending(new)
    BY <1>2, <1>8
  <2>2. /\ order.name \notin {name, new}
        /\ \A v \in Users : About(v) \cap {name, new} = {}
    BY <2>1, PendingAbout DEF RightsInv
  <2>3. Fresh'
    BY <1>1, <1>2, <2>1 DEF RightsInv, Fresh
  <2>4. Disjoint'
    <3>1. Disjoint
      BY <2>1 DEF RightsInv
    <3>2. \A v \in Users : order'.name \notin About(v)'
      BY <1>2, <1>5, <2>2, <3>1 DEF Disjoint
    <3>3. \A v, w \in Users : v # w => About(v)' \cap About(w)' = {}
      BY <1>5, <2>2, <3>1 DEF Disjoint
    <3>4. \A v \in Users : \A m \in About(v)' : clients'[m] \in {v, None}
      <4> SUFFICES ASSUME NEW v \in Users, NEW m \in About(v)'
                   PROVE  clients'[m] \in {v, None}
        OBVIOUS
      <4>1. CASE v = u
        BY <1>1, <1>5, <4>1
      <4>2. CASE v # u
        <5>1. m \in About(v) /\ m \notin {name, new} /\ m \in Names
          BY <1>5, <2>2, <4>2, AboutNames DEF RightsInv
        <5>2. clients[m] \in {v, None}
          BY <3>1, <5>1 DEF Disjoint
        <5> QED BY <1>1, <5>1, <5>2
      <4> QED BY <4>1, <4>2
    <3>5. \A v \in Users : old'[v] # None => clients'[old'[v]] = None
      <4> SUFFICES ASSUME NEW v \in Users \ {u}, old[v] # None
                   PROVE  clients'[old[v]] = None
        BY <1>1
      <4>1. old[v] \in Names \ {name, new}
        BY <2>2 DEF About, TypeOK
      <4> QED BY <1>1, <3>1, <4>1 DEF Disjoint
    <3> QED BY <3>2, <3>3, <3>4, <3>5 DEF Disjoint
  <2>5. Targeted'
    <3> SUFFICES ASSUME pc[Operator] \in {"flag", "list"}
                 PROVE  Targeted'
      BY <1>3 DEF Targeted
    <3>1. order.target # u /\ order.target \in Users
      BY <1>1, <2>1, <2>2 DEF RightsInv, Targeted, TypeOK
    <3>2. order.name \in Names
      BY DEF TypeOK
    <3> QED BY <1>1, <1>2, <1>3, <2>1, <2>2, <3>1, <3>2 DEF RightsInv, Targeted
  <2>6. StillListed'
    <3>1. admin[u] => name \in admins
      BY <1>1, <2>1 DEF RightsInv, RightsAgree
    <3> QED BY <1>1, <1>2, <2>1, <3>1 DEF RightsInv, StillListed
  <2>7. /\ \A m \in Names : Pending(m) => Pending(m)'
        /\ Pending(new)'
    BY <1>1, <1>2, <1>3 DEF Pending
  <2>8. RightsAgree'
    BY <1>1, <1>2, <2>1, <2>7 DEF RightsInv, RightsAgree
  <2> QED BY <2>3, <2>4, <2>5, <2>6, <2>8
<1> QED BY <1>4, <1>7, <1>8 DEF RightsInv, RightsAgree

(* The rename is over, with the list changed or not. *)
LEMMA RenameEnds ==
  ASSUME RightsInv, TypeOK, TypeOK', NEW u \in Users,
         IsAdmin(u) \/ RenameAdmin(u)
  PROVE  RightsInv'
<1> USE NoneIsNobody DEF Savers
<1>1. /\ UNCHANGED <<clients, username, admin, order, crossed>>
      /\ \A p \in Savers \ {u} : pc'[p] = pc[p]
      /\ \A v \in Users \ {u} : old'[v] = old[v]
      /\ pc'[Operator] = pc[Operator]
  BY DEF IsAdmin, RenameAdmin, Goto, TypeOK, people
<1>2. \/ /\ pc[u] = "renamed" /\ pc'[u] = "relist" /\ admin[u]
         /\ UNCHANGED <<old, admins>>
      \/ /\ pc[u] = "renamed" /\ pc'[u] = "in" /\ ~ admin[u]
         /\ old'[u] = None /\ UNCHANGED admins
      \/ /\ pc[u] = "relist" /\ pc'[u] = "copy" /\ old'[u] = None
         /\ admins' = IF old[u] \in admins
                        THEN (admins \ {old[u]}) \cup {username[u]} ELSE admins
  BY DEF IsAdmin, RenameAdmin, Goto, TypeOK
<1>3. old[u] # None /\ old[u] \in Names
  BY <1>2 DEF RightsInv, Locals, TypeOK
<1>4. Locals'
  BY <1>1, <1>2, <1>3 DEF RightsInv, Locals
<1>5. Listed'
  BY <1>1, <1>2 DEF RightsInv, Listed, TypeOK
<1>6. /\ About(u) = {old[u], username[u]}
      /\ About(u)' \in {{}, About(u)}
      /\ \A v \in Users \ {u} : About(v)' = About(v)
  BY <1>1, <1>2, <1>3 DEF About
<1>7. ASSUME ~ crossed
      PROVE  Fresh' /\ Disjoint' /\ Targeted' /\ StillListed' /\ RightsAgree'
  <2>1. Disjoint /\ Fresh /\ Targeted /\ StillListed
    BY <1>7 DEF RightsInv
  <2>2. Fresh'
    BY <1>1, <1>2, <2>1 DEF Fresh
  <2>3. \A v \in Users : About(v)' \in SUBSET About(v)
    BY <1>6
  <2>4. \A v \in Users : old'[v] # None => old'[v] = old[v]
    BY <1>1, <1>2
  <2>5. Disjoint'
    BY <1>1, <2>1, <2>3, <2>4 DEF Disjoint
  <2>7. \A n \in Names : n \in admins /\ n \notin admins' => n = old[u]
    BY <1>2
  <2>6. Targeted'
    <3>1. order.name # old[u]
      BY <1>6, <2>1 DEF Disjoint
    <3>2. pc[Operator] = "flag" => order.name \in Names
      BY DEF TypeOK
    <3> QED BY <1>1, <1>2, <2>1, <2>7, <3>1, <3>2 DEF Targeted, TypeOK
  <2>8. StillListed'
    <3> SUFFICES ASSUME NEW v \in Users
                 PROVE  /\ pc'[v] = "grant" => username[v] \in admins'
                        /\ pc'[v] = "relist" \/ (pc'[v] = "renamed" /\ admin[v])
                             => old'[v] \in admins'
      BY <1>1 DEF StillListed
    <3>1. CASE v = u
      BY <1>2, <2>1, <3>1 DEF StillListed
    <3>2. CASE v # u
      <4>1. old[u] \notin About(v)
        BY <1>3, <1>6, <2>1, <3>2 DEF Disjoint
      <4>2. pc[v] = "grant" => username[v] # old[u] /\ username[v] \in Names
        BY <4>1 DEF About, RightsInv, Locals, TypeOK
      <4>3. old[v] # None => old[v] # old[u] /\ old[v] \in Names
        BY <4>1 DEF About, TypeOK
      <4> QED
        BY <1>1, <2>1, <2>7, <3>2, <4>2, <4>3
           DEF StillListed, RightsInv, Locals
    <3> QED BY <3>1, <3>2
  <2>9. RightsAgree'
    <3> SUFFICES ASSUME NEW n \in Names, clients[n] # None,
                        admin[clients[n]], ~ Pending(n)'
                 PROVE  n \in admins'
      BY <1>1 DEF RightsAgree
    <3>1. n # old[u]
      BY <1>3, <2>1 DEF Disjoint
    <3>2. CASE ~ Pending(n)
      BY <1>7, <2>7, <3>1, <3>2 DEF RightsInv, RightsAgree
    <3>3. CASE Pending(n)
      <4>1. n \in About(u) /\ n \notin About(u)'
        <5>1. order'.name # n /\ \A v \in Users : n \notin About(v)'
          BY <1>4 DEF Pending, About, Locals
        <5> QED BY <1>1, <1>6, <3>3, <5>1, PendingAbout DEF RightsInv
      <4>2. n = username[u]
        BY <1>6, <3>1, <4>1
      <4>3. clients[n] = u /\ admin[u]
        BY <2>1, <4>1 DEF Disjoint
      <4>4. pc[u] = "relist" /\ admins' = (admins \ {old[u]}) \cup {username[u]}
        <5>1. pc'[u] # "relist"
          BY <1>4, <1>6, <4>1 DEF Locals, About
        <5>2. pc[u] = "relist"
          BY <1>2, <4>3, <5>1
        <5>3. old[u] \in admins
          BY <2>1, <5>2 DEF StillListed
        <5> QED BY <1>2, <5>2, <5>3
      <4> QED BY <4>2, <4>4
    <3> QED BY <3>2, <3>3
  <2> QED BY <2>2, <2>5, <2>6, <2>8, <2>9
<1> QED BY <1>1, <1>4, <1>5, <1>7 DEF RightsInv, RightsAgree

LEMMA LookUpKeeps ==
  ASSUME RightsInv, TypeOK, TypeOK', NEW grant \in BOOLEAN, NEW n \in Names,
         LookUp(grant, n)
  PROVE  RightsInv'
<1> USE NoneIsNobody DEF Savers
<1>1. /\ pc[Operator] = "op" /\ pc'[Operator] = "flag"
      /\ \A u \in Users : pc'[u] = pc[u]
      /\ order'.name = n /\ order'.target = clients[n] /\ clients[n] \in Users
      /\ UNCHANGED <<clients, username, admin, admins, old>>
      /\ crossed' = (crossed \/ Pending(n))
  BY DEF LookUp, Cross, Goto, TypeOK, people
<1>2. Locals' /\ order.name = None
  BY <1>1 DEF RightsInv, Locals
<1>3. Listed'
  BY <1>1 DEF RightsInv, Listed, TypeOK
<1>4. \A u \in Users : About(u)' = About(u)
  BY <1>1 DEF About
<1>5. ASSUME ~ crossed'
      PROVE  Fresh' /\ Disjoint' /\ Targeted' /\ StillListed' /\ RightsAgree'
  <2>1. ~ crossed /\ ~ Pending(n)
    BY <1>1, <1>5
  <2>2. \A u \in Users : n \notin About(u)
    BY <2>1, PendingAbout DEF RightsInv
  <2>3. Fresh' /\ Disjoint' /\ StillListed'
    BY <1>1, <1>4, <2>1, <2>2
       DEF RightsInv, Fresh, Disjoint, StillListed
  <2>4. username[clients[n]] = n /\ pc[clients[n]] \notin {"off", "gone"}
    BY <1>1 DEF RightsInv, Listed
  <2>5. pc[clients[n]] \notin {"restore", "grant"}
    BY <1>1, <2>1, <2>4 DEF Pending
  <2>6. Targeted'
    BY <1>1, <2>1, <2>4, <2>5 DEF Targeted, RightsInv, RightsAgree
  <2>7. \A m \in Names : Pending(m) => Pending(m)'
    BY <1>1, <1>2 DEF Pending
  <2>8. RightsAgree'
    BY <1>1, <2>1, <2>7 DEF RightsInv, RightsAgree
  <2> QED BY <2>3, <2>6, <2>8
<1> QED BY <1>2, <1>3, <1>5 DEF RightsInv, RightsAgree

LEMMA SetAdminKeeps ==
  ASSUME RightsInv, TypeOK, TypeOK', SetAdmin
  PROVE  RightsInv'
<1> USE NoneIsNobody DEF Savers
<1> DEFINE t == order.target
<1>1. /\ pc[Operator] = "flag" /\ pc'[Operator] = "list"
      /\ \A u \in Users : pc'[u] = pc[u]
      /\ t \in Users /\ admin'[t] = order.grant
      /\ \A u \in Users \ {t} : admin'[u] = admin[u]
      /\ UNCHANGED <<clients, username, admins, old, order, crossed>>
      /\ order.name \in Names
  BY DEF SetAdmin, Goto, TypeOK, locals
<1>2. Locals' /\ Listed'
  BY <1>1 DEF RightsInv, Locals, Listed, TypeOK
<1>3. \A u \in Users : About(u)' = About(u)
  BY <1>1 DEF About
<1>4. ASSUME ~ crossed
      PROVE  Fresh' /\ Disjoint' /\ Targeted' /\ StillListed' /\ RightsAgree'
  <2>1. Disjoint /\ Fresh /\ Targeted /\ StillListed
    BY <1>4 DEF RightsInv
  <2>2. /\ pc[t] \notin {"off", "restore", "grant"}
        /\ pc[t] # "gone" => username[t] = order.name
    BY <1>1, <2>1 DEF Targeted
  <2>3. Fresh' /\ Disjoint' /\ Targeted'
    BY <1>1, <1>3, <2>1, <2>2 DEF Fresh, Disjoint, Targeted
  <2>4. pc[t] # "renamed"
    <3> SUFFICES ASSUME pc[t] = "renamed" PROVE FALSE
      OBVIOUS
    <3>1. order.name \in About(t)
      BY <1>1, <2>2 DEF RightsInv, Locals, About
    <3> QED BY <1>1, <2>1, <3>1 DEF Disjoint
  <2>5. StillListed'
    BY <1>1, <2>1, <2>4 DEF StillListed
  <2>6. \A n \in Names : Pending(n)' <=> Pending(n)
    BY <1>1 DEF Pending
  <2>7. RightsAgree'
    <3> SUFFICES ASSUME NEW n \in Names, clients[n] # None,
                        admin'[clients[n]], ~ Pending(n)
                 PROVE  n \in admins
      BY <1>1, <2>6 DEF RightsAgree
    <3>1. clients[n] # t
      <4> SUFFICES ASSUME clients[n] = t PROVE FALSE
        OBVIOUS
      <4>1. username[t] = n /\ pc[t] # "gone"
        BY <1>1 DEF RightsInv, Listed
      <4> QED BY <2>2, <4>1 DEF Pending
    <3> QED BY <1>1, <1>4, <3>1 DEF RightsInv, RightsAgree, TypeOK
  <2> QED BY <2>3, <2>5, <2>7
<1> QED BY <1>1, <1>2, <1>4 DEF RightsInv, RightsAgree

(* The order is done, or there was nothing to do. *)
LEMMA OrderEnds ==
  ASSUME RightsInv, TypeOK, TypeOK', NothingToDo \/ ChangeList
  PROVE  RightsInv'
<1> USE NoneIsNobody DEF Savers
<1>1. /\ pc'[Operator] \in {"op", "copy"}
      /\ \A u \in Users : pc'[u] = pc[u]
      /\ order'.name = None /\ order.name \in Names /\ order.target \in Users
      /\ UNCHANGED <<clients, username, admin, old, crossed>>
  BY DEF NothingToDo, ChangeList, Goto, TypeOK, people, NoOrder
<1>2. \/ /\ pc[Operator] = "flag" /\ UNCHANGED admins
         /\ admin[order.target] = order.grant
      \/ /\ pc[Operator] = "list"
         /\ admins' = IF order.grant THEN admins \cup {order.name}
                                     ELSE admins \ {order.name}
  BY DEF NothingToDo, ChangeList, Goto
<1>3. Locals' /\ Listed'
  BY <1>1 DEF RightsInv, Locals, Listed, TypeOK
<1>4. \A u \in Users : About(u)' = About(u)
  BY <1>1 DEF About
<1>5. ASSUME ~ crossed
      PROVE  Fresh' /\ Disjoint' /\ Targeted' /\ StillListed' /\ RightsAgree'
  <2>1. Disjoint /\ Fresh /\ Targeted /\ StillListed
    BY <1>5 DEF RightsInv
  <2>2. \A u \in Users : About(u) \in SUBSET Names
    BY AboutNames DEF RightsInv
  <2>3. Fresh' /\ Disjoint' /\ Targeted'
    BY <1>1, <1>4, <2>1, <2>2 DEF Fresh, Disjoint, Targeted
  <2>4. \A m \in Names \ {order.name} : m \in admins => m \in admins'
    BY <1>2
  <2>5. StillListed'
    <3> SUFFICES ASSUME NEW u \in Users
                 PROVE  /\ pc[u] = "grant" => username[u] \in admins'
                        /\ pc[u] = "relist" \/ (pc[u] = "renamed" /\ admin[u])
                             => old[u] \in admins'
      BY <1>1 DEF StillListed
    <3>1. order.name \notin About(u) /\ About(u) \in SUBSET Names
      BY <2>1, <2>2 DEF Disjoint
    <3>2. pc[u] = "grant" => username[u] \in About(u)
      BY DEF RightsInv, Locals, About
    <3>3. pc[u] \in {"relist", "renamed"} => old[u] \in About(u)
      BY DEF RightsInv, Locals, About
    <3> QED BY <2>1, <2>4, <3>1, <3>2, <3>3 DEF StillListed
  <2>6. \A m \in Names : Pending(m) => Pending(m)' \/ m = order.name
    BY <1>1 DEF Pending
  <2>7. RightsAgree'
    <3> SUFFICES ASSUME NEW n \in Names, clients[n] # None,
                        admin[clients[n]], ~ Pending(n)'
                 PROVE  n \in admins'
      BY <1>1 DEF RightsAgree
    <3>1. CASE n = order.name
      <4>1. clients[n] = order.target
        BY <1>2, <2>1, <3>1 DEF Targeted
      <4>2. CASE pc[Operator] = "list"
        <5>1. admin[order.target] = order.grant
          BY <2>1, <4>2 DEF Targeted
        <5> QED BY <1>2, <3>1, <4>1, <4>2, <5>1
      <4>3. CASE pc[Operator] = "flag"
        <5> QED BY <1>2, <2>1, <3>1, <4>1, <4>3 DEF Targeted
      <4> QED BY <1>2, <4>2, <4>3
    <3>2. CASE n # order.name
      BY <1>5, <2>4, <2>6, <3>2 DEF RightsInv, RightsAgree
    <3> QED BY <3>1, <3>2
  <2> QED BY <2>3, <2>5, <2>7
<1> QED BY <1>1, <1>3, <1>5 DEF RightsInv, RightsAgree

LEMMA RestartRights ==
  ASSUME Restart
  PROVE  RightsInv'
<1>1. /\ \A n \in Names : clients'[n] = None
      /\ \A u \in Users : /\ old'[u] = None /\ pc'[u] = "off" /\ ~ admin'[u]
                          /\ About(u)' = {}
      /\ order'.name = None /\ pc'[Operator] = "op"
  BY NoneIsNobody DEF Restart, NoOrder, About, Savers
<1> QED
  BY <1>1 DEF RightsInv, Listed, Locals, Fresh, Disjoint, Targeted,
              StillListed, RightsAgree

LEMMA SaveNeutral ==
  ASSUME TypeOK, NEW p \in Savers, Save(p)
  PROVE  Neutral
<1> USE AdminsAssumption DEF Neutral, Settled, Writing, Back, TypeOK
<1>1. CASE Copy(p)
  BY <1>1 DEF Copy, Goto, people, locals
<1>2. CASE Open(p)
  BY <1>2 DEF Open, Goto, people, locals
<1>3. CASE Write(p)
  BY <1>3 DEF Write, Goto, people, locals
<1>4. CASE Move(p)
  BY <1>4 DEF Move, Goto, people, locals
<1>5. CASE SaveFails(p)
  BY <1>5 DEF SaveFails, people, locals
<1> QED BY <1>1, <1>2, <1>3, <1>4, <1>5 DEF Save

LEMMA RightsStep == TypeOK /\ RightsInv /\ [Next]_vars => RightsInv'
<1> SUFFICES ASSUME TypeOK, RightsInv, [Next]_vars PROVE RightsInv'
  OBVIOUS
<1>1. TypeOK'
  BY TypeStep
<1>2. CASE UNCHANGED vars
  <2>1. Neutral
    BY <1>2 DEF vars, Neutral
  <2> QED BY <2>1, NeutralKeeps
<1>3. CASE \E u \in Users : Session(u)
  BY <1>1, <1>3, RegisterKeeps, RestoreKeeps, DepartureKeeps,
     RenameClientKeeps, RenameEnds DEF Session
<1>4. CASE \E n \in Names : Kick(n)
  BY <1>1, <1>4, DepartureKeeps
<1>5. CASE Operate
  BY <1>1, <1>5, LookUpKeeps, SetAdminKeeps, OrderEnds DEF Operate
<1>6. CASE \E p \in Savers : Save(p)
  BY <1>6, SaveNeutral, NeutralKeeps
<1>7. CASE Restart
  BY <1>7, RestartRights
<1> QED BY <1>2, <1>3, <1>4, <1>5, <1>6, <1>7 DEF Next

(* Unless commands about the same name met, who is found with the flag is  *)
(* on the list, whatever renames, promotions, demotions, kicks, arrivals   *)
(* and restarts there were.                                                *)
THEOREM RightsStayListed == Spec => []RightsAgree
<1>1. RightsInv => RightsAgree
  BY DEF RightsInv
<1> QED
  BY <1>1, TypeInit, TypeStep, RightsInit, RightsStep, PTL DEF Spec

=============================================================================
