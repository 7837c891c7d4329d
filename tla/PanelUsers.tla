------------------------------ MODULE PanelUsers ------------------------------
(***************************************************************************)
(* The users of the panel and their sessions (auth_api.py).  A call on an  *)
(* empty table makes the factory root.  A session is a signed token with   *)
(* the name and the role its user had at the login, and is good for an     *)
(* hour: it is never looked up, so a change of role or a deletion does not *)
(* reach it.  Two workers serve the calls, and a deletion reads before it  *)
(* writes.                                                                 *)
(*                                                                         *)
(* Abstracted: a password is the factory one or another.                   *)
(***************************************************************************)
EXTENDS Naturals, FiniteSets

CONSTANTS
  Users,      \* user ids, never used again
  Names,      \* user names; "root" and "admin" are among them
  Servers,    \* the uvicorn workers
  MaxSessions \* bound: logins

NoUser == 0

ASSUME UserAssumption ==
  Users \subseteq Nat \ {NoUser} /\ 1 \in Users /\ {"root", "admin"} \subseteq Names
ASSUME SessionAssumption == MaxSessions \in Nat

VARIABLES
  users,    \* the table: of each id [name, role, factory], or Nobody
  sessions, \* the tokens that are good: [name, role]
  logins,   \* bound: how many there were
  deleting, \* of each worker: the id it has checked and will delete
  legacy    \* history: there is an account named admin

panelVars == <<users, sessions, logins, deleting, legacy>>

Roles  == {"admin", "operator"}
Nobody == [name |-> "nobody", role |-> "none", factory |-> FALSE]
Gone   == [name |-> "gone", role |-> "none", factory |-> FALSE]   \* AUTOINCREMENT

Rows       == {u \in Users : users[u] \notin {Nobody, Gone}}
Admins     == {u \in Rows : users[u].role = "admin"}
Fresh      == {u \in Users : \A v \in Users : v >= u => users[v] = Nobody}
FreeNames  == Names \ {users[u].name : u \in Rows}
ByAdmin(s) == s \in sessions /\ s.role = "admin"     \* require_admin
-----------------------------------------------------------------------------
(* _ensure_users_table, with which every call begins, even one refused.    *)
Root == [name |-> "root", role |-> "admin", factory |-> TRUE]
EnsureUsers ==
  /\ Rows = {} /\ Fresh # {}
  /\ users' = [users EXCEPT ![CHOOSE u \in Fresh : \A v \in Fresh : u <= v] = Root]
  /\ UNCHANGED <<sessions, logins, deleting, legacy>>

(* login; a session ends when its hour is over or its browser leaves it.   *)
Login ==
  /\ logins < MaxSessions /\ logins' = logins + 1
  /\ \E u \in Rows :
       sessions' = sessions \cup {[name |-> users[u].name, role |-> users[u].role]}
  /\ UNCHANGED <<users, deleting, legacy>>
SessionEnds ==
  /\ \E s \in sessions : sessions' = sessions \ {s}
  /\ UNCHANGED <<users, logins, deleting, legacy>>

(* create_user: a name that is taken is refused.  Another worker may have  *)
(* emptied the table since the call found it was not.                      *)
CreateUser ==
  /\ \E s \in sessions : ByAdmin(s)
  /\ \E u \in Fresh, name \in FreeNames, role \in Roles :
       /\ \A v \in Fresh : u <= v
       /\ users' = [users EXCEPT ![u] = [name |-> name, role |-> role, factory |-> FALSE]]
       /\ legacy' = (legacy \/ name = "admin")
  /\ UNCHANGED <<sessions, logins, deleting>>

(* change_user_password: an administrator that of any, a user their own.   *)
ChangePassword ==
  /\ \E s \in sessions, u \in Rows :
       /\ users[u].name # "admin" /\ (ByAdmin(s) \/ users[u].name = s.name)
       /\ users' = [users EXCEPT ![u].factory = FALSE]
  /\ UNCHANGED <<sessions, logins, deleting, legacy>>

(* change_user_role: nobody takes away their own.                          *)
ChangeRole ==
  /\ \E s \in sessions, u \in Rows, role \in Roles :
       /\ ByAdmin(s) /\ (users[u].name = s.name => role = "admin")
       /\ users' = [users EXCEPT ![u].role = role]
  /\ UNCHANGED <<sessions, logins, deleting, legacy>>

(* delete_user: not the account of the support, nor their own, nor the     *)
(* last administrator; what is read is deleted a moment later.             *)
Deletable(s, u) ==
  /\ ByAdmin(s) /\ users[u].name \notin {"admin", s.name}
  /\ users[u].role = "admin" => Cardinality(Admins) > 1
DeleteChecks(w) ==
  /\ deleting[w] = NoUser
  /\ \E s \in sessions, u \in Rows : Deletable(s, u) /\ deleting' = [deleting EXCEPT ![w] = u]
  /\ UNCHANGED <<users, sessions, logins, legacy>>
DeleteUser(w) ==
  /\ deleting[w] # NoUser
  /\ users' = [users EXCEPT ![deleting[w]] = Gone] /\ deleting' = [deleting EXCEPT ![w] = NoUser]
  /\ UNCHANGED <<sessions, logins, legacy>>
-----------------------------------------------------------------------------
Support == [name |-> "admin", role |-> "admin", factory |-> FALSE]
PanelInit ==
  /\ legacy \in BOOLEAN
  /\ users = [u \in Users |-> IF u = 1 /\ legacy THEN Support ELSE Nobody]
  /\ sessions = {} /\ logins = 0 /\ deleting = [w \in Servers |-> NoUser]

PanelNext ==
  \/ EnsureUsers \/ Login \/ SessionEnds \/ CreateUser \/ ChangePassword \/ ChangeRole
  \/ \E w \in Servers : DeleteChecks(w) \/ DeleteUser(w)

PanelSpec == PanelInit /\ [][PanelNext]_panelVars
-----------------------------------------------------------------------------
(* A name is that of one user; and the account named admin stays for ever  *)
(* ("Este usuario no puede eliminarse desde el panel", auth_api.py:364),   *)
(* whoever else deletes, demotes and creates at the same time.             *)
PanelTypeOK ==
  /\ users \in [Users -> {Nobody, Gone} \cup [name : Names, role : Roles, factory : BOOLEAN]]
  /\ sessions \subseteq [name : Names, role : Roles] /\ logins \in 0..MaxSessions
  /\ deleting \in [Servers -> {NoUser} \cup Users] /\ legacy \in BOOLEAN
  /\ \A u, v \in Rows : users[u].name = users[v].name => u = v
  /\ legacy => \E u \in Rows : users[u].name = "admin"

=============================================================================
