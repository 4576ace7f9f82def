------------------------------- MODULE Admins -------------------------------
(***************************************************************************)
(* The list of administrators and its file: admins.go, with the code that  *)
(* calls it (restoreKnownAdmin, /name, the operator's promote and demote). *)
(*                                                                         *)
(* SaveAdmins copies the list under the lock and writes the copy without   *)
(* it: open the temporary file, write it, rename it.  All saves share one  *)
(* temporary file.  A file descriptor stays with the file it was opened    *)
(* on, under whatever name that file has by now.                           *)
(*                                                                         *)
(* A connection is used once in a life of the process.  Rooms and queues   *)
(* are Registry's matter; of the index of names this module has what       *)
(* decides who is found under a name.                                      *)
(***************************************************************************)
EXTENDS Naturals

CONSTANTS
  Users,     \* connections
  Operator,  \* the operator terminal: the only one to promote and demote
  Names,     \* valid user names
  None,      \* no user, no name
  Failing    \* the steps of a save that may fail for a reason of the system

ASSUME AdminsAssumption ==
  /\ Operator \notin Users
  /\ None \notin Users \cup Names \cup {Operator}
  /\ Failing \subseteq {"open", "write", "move"}
Savers == Users \cup {Operator}

(* What is found under the name of a file. *)
Content == [kind : {"list", "absent", "partial"}, names : SUBSET Names]
List(N) == [kind |-> "list", names |-> N]
Absent == [kind |-> "absent", names |-> {}]
\* Empty, or cut off.
Partial == [kind |-> "partial", names |-> {}]

VARIABLES
  clients,   \* Server.clients: user name -> connection
  username,  \* Client.Username
  admin,     \* Client.admin
  admins,    \* Server.admins
  file,      \* what admins.json holds
  tmp,       \* what .admins.json.tmp holds
  pc,        \* where every handler, and the operator's reader, is
  old,       \* oldName of a /name in progress
  order,     \* the operator's promote or demote in progress
  snap,      \* the copy of the list a save writes
  fd,        \* the file a save has open: under which name it is found now
  lone,      \* history: the save that has been the only one since its copy
  spoilt,    \* history: saves overlapped or failed, and none was alone since
  crossed    \* history: a name was taken or looked up in the middle of an
             \* arrival, rename, promotion or demotion about that name, or
             \* a client that had been kicked gave itself a new one

people == <<clients, username, admin>>
disk == <<file, tmp, fd>>
locals == <<old, order>>
history == <<lone, spoilt>>

vars == <<clients, username, admin, admins, file, tmp, pc, old, order,
          snap, fd, lone, spoilt, crossed>>

NoOrder == [grant |-> FALSE, name |-> None, target |-> None]

(* LoadAdmins: a missing or corrupt file means no saved admins. *)
Load(content) == IF content.kind = "list" THEN content.names ELSE {}

Started ==
  /\ clients = [n \in Names |-> None]
  /\ username = [u \in Users |-> None]
  /\ admin = [u \in Users |-> FALSE]
  /\ pc = [p \in Savers |-> IF p = Operator THEN "op" ELSE "off"]
  /\ old = [u \in Users |-> None]
  /\ order = NoOrder
  /\ snap = [p \in Savers |-> {}]
  /\ fd = [p \in Savers |-> "none"]
  /\ lone = None
  /\ crossed = FALSE

Init ==
  /\ file \in {Absent} \cup {List(N) : N \in SUBSET Names}
  /\ tmp = Absent
  /\ admins = Load(file)
  /\ spoilt = FALSE
  /\ Started

Goto(p, from, to) ==
  /\ pc[p] = from
  /\ pc' = [pc EXCEPT ![p] = to]

(* An arrival, rename, promotion or demotion about name n is in progress. *)
Pending(n) ==
  \/ order.name = n
  \/ \E u \in Users : \/ old[u] # None /\ n \in {old[u], username[u]}
                      \/ pc[u] \in {"restore", "grant"} /\ n = username[u]

Cross(met) == crossed' = (crossed \/ met)

-----------------------------------------------------------------------------
(* Arrival: RegisterClient, then restoreKnownAdmin. *)

(* Variant for the mutation runs: the client does not learn its name. *)
RegisterUnnamed(u, n) ==
  /\ Goto(u, "off", "restore")
  /\ clients[n] = None
  /\ clients' = [clients EXCEPT ![n] = u]
  /\ Cross(Pending(n))
  /\ UNCHANGED <<username, admin, admins, disk, locals, snap, history>>

Register(u, n) ==
  /\ Goto(u, "off", "restore")
  /\ clients[n] = None
  /\ clients' = [clients EXCEPT ![n] = u]
  /\ username' = [username EXCEPT ![u] = n]
  /\ Cross(Pending(n))
  /\ UNCHANGED <<admin, admins, disk, locals, snap, history>>

IsKnownAdmin(u) ==
  /\ Goto(u, "restore", IF username[u] \in admins THEN "grant" ELSE "in")
  /\ UNCHANGED <<people, admins, disk, locals, snap, history, crossed>>

Restore(u) ==
  /\ Goto(u, "grant", "in")
  /\ admin' = [admin EXCEPT ![u] = TRUE]
  /\ UNCHANGED <<clients, username, admins, disk, locals, snap, history,
                 crossed>>

(* The session ends; its name is free, and nobody reads it in u any more.  *)
Leave(u) ==
  /\ Goto(u, "in", "gone")
  /\ clients' = [n \in Names |-> IF clients[n] = u THEN None ELSE clients[n]]
  /\ username' = [username EXCEPT ![u] = None]
  /\ UNCHANGED <<admin, admins, disk, locals, snap, history,
                 crossed>>

(* RemoveClient of a kick or a ban: the target may be anywhere, but who     *)
(* kicks is the operator, or an administrator, and does nothing else.      *)
Kick(n) ==
  /\ pc[Operator] = "op" \/ \E u \in Users : admin[u] /\ pc[u] = "in"
  /\ clients[n] # None
  /\ clients' = [clients EXCEPT ![n] = None]
  /\ UNCHANGED <<username, admin, admins, disk, pc, locals, snap, history,
                 crossed>>

-----------------------------------------------------------------------------
(* /name: RenameClient, IsAdmin, RenameAdmin. *)

RenameClient(u, new) ==
  /\ Goto(u, "in", "renamed")
  /\ clients[new] = None
  /\ new # username[u]
  /\ clients' = [clients EXCEPT ![username[u]] = None, ![new] = u]
  /\ username' = [username EXCEPT ![u] = new]
  /\ old' = [old EXCEPT ![u] = username[u]]
  /\ Cross(Pending(username[u]) \/ Pending(new) \/ clients[username[u]] # u)
  /\ UNCHANGED <<admin, admins, disk, order, snap, history>>

IsAdmin(u) ==
  /\ Goto(u, "renamed", IF admin[u] THEN "relist" ELSE "in")
  /\ old' = [old EXCEPT ![u] = IF admin[u] THEN @ ELSE None]
  /\ UNCHANGED <<people, admins, disk, order, snap, history, crossed>>

(* Variant for the mutation runs: the list keeps the old name. *)
RenameAdminForgotten(u) ==
  /\ Goto(u, "relist", "copy")
  /\ old' = [old EXCEPT ![u] = None]
  /\ UNCHANGED <<people, admins, disk, order, snap, history, crossed>>

RenameAdmin(u) ==
  /\ Goto(u, "relist", "copy")
  /\ admins' = IF old[u] \in admins
                 THEN (admins \ {old[u]}) \cup {username[u]} ELSE admins
  /\ old' = [old EXCEPT ![u] = None]
  /\ UNCHANGED <<people, disk, order, snap, history, crossed>>

-----------------------------------------------------------------------------
(* The operator's promote (grant) and demote. *)

LookUp(grant, n) ==
  /\ Goto(Operator, "op", "flag")
  /\ clients[n] # None
  /\ order' = [grant |-> grant, name |-> n, target |-> clients[n]]
  /\ Cross(Pending(n))
  /\ UNCHANGED <<people, admins, disk, old, snap, history>>

(* "is already an admin", "is not an admin". *)
NothingToDo ==
  /\ Goto(Operator, "flag", "op")
  /\ admin[order.target] = order.grant
  /\ order' = NoOrder
  /\ UNCHANGED <<people, admins, disk, old, snap, history, crossed>>

SetAdmin ==
  /\ Goto(Operator, "flag", "list")
  /\ admin[order.target] # order.grant
  /\ admin' = [admin EXCEPT ![order.target] = order.grant]
  /\ UNCHANGED <<clients, username, admins, disk, locals, snap, history,
                 crossed>>

(* AddAdmin or RemoveAdmin. *)
ChangeList ==
  /\ Goto(Operator, "list", "copy")
  /\ admins' = IF order.grant THEN admins \cup {order.name}
                              ELSE admins \ {order.name}
  /\ order' = NoOrder
  /\ UNCHANGED <<people, disk, old, snap, history, crossed>>

-----------------------------------------------------------------------------
(* SaveAdmins. *)

Writing == {"open", "write", "move"}
Back(p) == IF p = Operator THEN "op" ELSE "in"
Busy(p) == \E q \in Savers \ {p} : pc[q] \in Writing

Copy(p) ==
  /\ Goto(p, "copy", "open")
  /\ snap' = [snap EXCEPT ![p] = admins]
  /\ lone' = IF Busy(p) THEN None ELSE p
  /\ spoilt' = (spoilt \/ Busy(p))
  /\ UNCHANGED <<people, admins, disk, locals, crossed>>

(* Variant for the mutation runs: the list itself is opened for writing. *)
OpenInPlace(p) ==
  /\ Goto(p, "open", "write")
  /\ file' = Partial
  /\ fd' = [fd EXCEPT ![p] = "file"]
  /\ UNCHANGED <<people, admins, tmp, locals, snap, history, crossed>>

(* os.WriteFile opens with O_TRUNC: whoever has the file open finds it cut. *)
Open(p) ==
  /\ Goto(p, "open", "write")
  /\ tmp' = Partial
  /\ fd' = [fd EXCEPT ![p] = "tmp"]
  /\ UNCHANGED <<people, admins, file, locals, snap, history, crossed>>

(* The copy is written from the start of the file p has open.  What a      *)
(* longer text leaves behind it is not read: Decode takes the first value. *)
Write(p) ==
  /\ Goto(p, "write", "move")
  /\ tmp' = IF fd[p] = "tmp" THEN List(snap[p]) ELSE tmp
  /\ file' = IF fd[p] = "file" THEN List(snap[p]) ELSE file
  /\ fd' = [fd EXCEPT ![p] = "none"]
  /\ UNCHANGED <<people, admins, locals, snap, history, crossed>>

(* Variant for the mutation runs: the temporary file is never renamed. *)
MoveForgotten(p) ==
  /\ Goto(p, "move", Back(p))
  /\ tmp.kind # "absent"
  /\ snap' = [snap EXCEPT ![p] = {}]
  /\ lone' = IF lone = p THEN None ELSE lone
  /\ spoilt' = (spoilt /\ lone # p)
  /\ UNCHANGED <<people, admins, disk, locals, crossed>>

(* os.Rename: open files move with their names, and what was admins.json   *)
(* is found nowhere any more.                                              *)
Move(p) ==
  /\ Goto(p, "move", Back(p))
  /\ tmp.kind # "absent"
  /\ file' = tmp
  /\ tmp' = Absent
  /\ fd' = [q \in Savers |-> CASE fd[q] = "tmp" -> "file"
                               [] fd[q] = "file" -> "lost"
                               [] OTHER -> fd[q]]
  /\ snap' = [snap EXCEPT ![p] = {}]
  /\ lone' = IF lone = p THEN None ELSE lone
  /\ spoilt' = (spoilt /\ lone # p)
  /\ UNCHANGED <<people, admins, locals, crossed>>

(* There is nothing to rename, or a call of the file system fails: a       *)
(* warning is printed and the save is over.  A failed write may have       *)
(* written some of it.                                                     *)
SaveFails(p) ==
  /\ pc[p] \in Failing \/ (pc[p] = "move" /\ tmp.kind = "absent")
  /\ pc' = [pc EXCEPT ![p] = Back(p)]
  /\ \E cut \in {n \in {"tmp", "file", "none"} : n = "none" \/ n = fd[p]} :
       /\ tmp' = IF cut = "tmp" THEN Partial ELSE tmp
       /\ file' = IF cut = "file" THEN Partial ELSE file
  /\ fd' = [fd EXCEPT ![p] = "none"]
  /\ snap' = [snap EXCEPT ![p] = {}]
  /\ lone' = IF lone = p THEN None ELSE lone
  /\ spoilt' = TRUE
  /\ UNCHANGED <<people, admins, locals, crossed>>

-----------------------------------------------------------------------------
(* The process is killed, or exits while handlers still run; its files are *)
(* left as they are, and Start reads the list again.                       *)
Restart ==
  /\ admins' = Load(file)
  /\ clients' = [n \in Names |-> None]
  /\ username' = [u \in Users |-> None]
  /\ admin' = [u \in Users |-> FALSE]
  /\ pc' = [p \in Savers |-> IF p = Operator THEN "op" ELSE "off"]
  /\ old' = [u \in Users |-> None]
  /\ order' = NoOrder
  /\ snap' = [p \in Savers |-> {}]
  /\ fd' = [p \in Savers |-> "none"]
  /\ lone' = None
  /\ crossed' = FALSE
  /\ UNCHANGED <<file, tmp, spoilt>>

-----------------------------------------------------------------------------
Save(p) == Copy(p) \/ Open(p) \/ Write(p) \/ Move(p) \/ SaveFails(p)

Session(u) ==
  \/ \E n \in Names : Register(u, n) \/ RenameClient(u, n)
  \/ IsKnownAdmin(u) \/ Restore(u) \/ Leave(u) \/ IsAdmin(u) \/ RenameAdmin(u)

Operate ==
  \/ \E grant \in BOOLEAN, n \in Names : LookUp(grant, n)
  \/ NothingToDo \/ SetAdmin \/ ChangeList

Next ==
  \/ \E u \in Users : Session(u)
  \/ \E n \in Names : Kick(n)
  \/ Operate
  \/ \E p \in Savers : Save(p)
  \/ Restart

Spec == Init /\ [][Next]_vars

-----------------------------------------------------------------------------
PC == {"off", "restore", "grant", "in", "renamed", "relist", "copy", "gone",
       "op", "flag", "list"} \cup Writing

(* Every variable has the type of the field, file or local it stands for,  *)
(* and a local holds something while its command is under way.             *)
TypeOK ==
  /\ clients \in [Names -> Users \cup {None}]
  /\ username \in [Users -> Names \cup {None}]
  /\ admin \in [Users -> BOOLEAN]
  /\ admins \in SUBSET Names
  /\ file \in Content /\ tmp \in Content
  /\ pc \in [Savers -> PC]
  /\ old \in [Users -> Names \cup {None}]
  /\ order \in [grant : BOOLEAN, name : Names \cup {None},
                target : Users \cup {None}]
  /\ snap \in [Savers -> SUBSET Names]
  /\ fd \in [Savers -> {"none", "tmp", "file", "lost"}]
  /\ lone \in Savers \cup {None}
  /\ spoilt \in BOOLEAN /\ crossed \in BOOLEAN
  /\ \A u \in Users : pc[u] \notin {"off", "gone"} => username[u] # None
  /\ pc[Operator] \in {"flag", "list"} =>
       order.name # None /\ order.target # None

(* Whatever moment the process dies at, admins.json is no partial file,    *)
(* unless saves overlapped or failed: SaveAdmins writes a temporary file   *)
(* and renames it.  The next save that runs alone repairs what they did.   *)
FileIntact == ~ spoilt => file.kind # "partial"

(* When every change of the list has been saved, and the last save was not *)
(* disturbed, a restart would find exactly the list the server has.        *)
FileCurrent ==
  ~ spoilt /\ (\A p \in Savers : pc[p] \notin Writing \cup {"copy"})
    => Load(file) = admins

(* Who is found under a name and has the admin flag is on the list under   *)
(* that name, so he keeps his rights when he returns and a demotion        *)
(* reaches them: promote, demote, /name and arrival change flag and list   *)
(* one after the other, and the two agree whenever none of these is under  *)
(* way for that name, if none of them met another half-way.                *)
RightsAgree ==
  ~ crossed => \A n \in Names :
    clients[n] # None /\ admin[clients[n]] /\ ~ Pending(n) => n \in admins

(* admins.json is never a partial file. *)
NoPartialFile == file.kind # "partial"

=============================================================================
