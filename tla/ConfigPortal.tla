---------------------------- MODULE ConfigPortal ----------------------------
(***************************************************************************)
(* User accounts and sessions of firmware/hub/config_portal.c, with the    *)
(* events each operation logs.  A caller holds a copy of its session, and  *)
(* that copy is all that config_portal_validate_session() looks at.        *)
(*                                                                         *)
(* The slots of g_users are abstracted to the role of every active user    *)
(* and the high-water mark g_user_count.  A call that is refused without   *)
(* an event changes nothing and is left out.                               *)
(***************************************************************************)
EXTENDS AuditLog, FiniteSets

CONSTANTS
  Users,        \* user names
  MaxUsers,     \* CONFIG_PORTAL_MAX_USERS
  MaxSessions,  \* CONFIG_PORTAL_MAX_SESSIONS
  IdleTimeout,  \* CONFIG_PORTAL_IDLE_TIMEOUT_MS
  MaxTime       \* bound: the portal's clock

ASSUME PortalAssumption ==
  /\ MaxUsers \in Nat /\ MaxSessions \in Nat
  /\ IdleTimeout \in Nat /\ MaxTime \in Nat

VARIABLES
  accounts,  \* g_users and g_user_count
  stored,    \* the accounts in storage
  sessions,  \* the callers' copies of their sessions
  logins,    \* the slots of g_sessions in use; none is freed before a restart
  now        \* current_ms of the calls

vars == << accounts, stored, sessions, logins, now, auditVars >>

Roles == {"TECHNICIAN", "ADMIN"}
NoUser == "NONE"
Accounts == [role : [Users -> Roles \union {NoUser}], slots : Nat]
Session == [id : Nat, user : Users, role : Roles, at : Nat, active : BOOLEAN]

(* Accounts, sessions and the log have their types: the user slots stay    *)
(* within CONFIG_PORTAL_MAX_USERS, the session slots within their limit.   *)
TypeOK ==
  /\ accounts \in Accounts /\ accounts.slots <= MaxUsers
  /\ stored \in Accounts /\ stored.slots <= MaxUsers
  /\ sessions \subseteq Session /\ logins \in 0 .. MaxSessions
  /\ now \in 0 .. MaxTime
  /\ AuditTypeOK

NoAccounts == [role |-> [u \in Users |-> NoUser], slots |-> 0]

Init ==
  /\ accounts = NoAccounts /\ stored = NoAccounts
  /\ sessions = {} /\ logins = 0 /\ now = 0
  /\ AuditInit

Active(a) == {u \in Users : a.role[u] # NoUser}
Admins(a) == {u \in Users : a.role[u] = "ADMIN"}

(* persist_users() does not look at the result of save(). *)
Persist(a) == accounts' = a /\ stored' \in {a, stored}

(* config_portal_validate_session() *)
ValidSession(s) == s.active /\ now - s.at <= IdleTimeout
AdminSession(s) == s.role = "ADMIN" /\ ValidSession(s)

-----------------------------------------------------------------------------
(* The new account takes a freed slot before a new one. *)
WithUser(u, r) ==
  [role  |-> [accounts.role EXCEPT ![u] = r],
   slots |-> IF Cardinality(Active(accounts)) < accounts.slots
             THEN accounts.slots ELSE accounts.slots + 1]

(* Mutant of HasRoom: the slots ever allocated are not counted. *)
HasRoomAlways == TRUE

HasRoom == Cardinality(Active(accounts)) < accounts.slots \/ accounts.slots < MaxUsers

(* config_portal_add_user(): without a session only on the first boot. *)
AddUser(u, r) ==
  /\ accounts.slots = 0 \/ \E s \in sessions : AdminSession(s)
  /\ u \notin Active(accounts) /\ HasRoom
  /\ Persist(WithUser(u, r))
  /\ LogEvent
  /\ UNCHANGED << sessions, logins, now >>

(* config_portal_add_user() without a session, after the first boot. *)
AddUserWithoutSession ==
  /\ accounts.slots > 0 /\ LogFailure
  /\ UNCHANGED << accounts, stored, sessions, logins, now >>

(* The account operations refuse a session that is not an admin's, valid   *)
(* or not.                                                                 *)
NotAdmin ==
  /\ \E s \in sessions : s.role # "ADMIN"
  /\ LogEvent
  /\ UNCHANGED << accounts, stored, sessions, logins, now >>

(* Mutant of IsLastAdmin: the comparison is off by one. *)
IsLastAdminOffByOne(u) == u \in Admins(accounts) /\ Cardinality(Admins(accounts)) < 1

(* count_active_admins() <= 1, and u is one. *)
IsLastAdmin(u) == u \in Admins(accounts) /\ Cardinality(Admins(accounts)) <= 1

(* config_portal_remove_user() *)
RemoveUser(u) ==
  /\ \E s \in sessions : AdminSession(s)
  /\ u \in Active(accounts) /\ ~IsLastAdmin(u)
  /\ Persist([accounts EXCEPT !.role[u] = NoUser])
  /\ LogEvent
  /\ UNCHANGED << sessions, logins, now >>

(* config_portal_change_role() *)
ChangeRole(u, r) ==
  /\ \E s \in sessions : AdminSession(s)
  /\ u \in Active(accounts) /\ (IsLastAdmin(u) => r = "ADMIN")
  /\ Persist([accounts EXCEPT !.role[u] = r])
  /\ LogEvent
  /\ UNCHANGED << sessions, logins, now >>

(* Both refuse to take the last admin away. *)
LastAdminRefused(u) ==
  /\ \E s \in sessions : AdminSession(s)
  /\ IsLastAdmin(u)
  /\ LogEvent
  /\ UNCHANGED << accounts, stored, sessions, logins, now >>

(* config_portal_authenticate() with the right credential and a free slot. *)
Authenticate(u) ==
  /\ u \in Active(accounts) /\ logins < MaxSessions
  /\ sessions' = sessions \union
       {[id |-> logins + 1, user |-> u, role |-> accounts.role[u],
         at |-> now, active |-> TRUE]}
  /\ logins' = logins + 1
  /\ LogTwice
  /\ UNCHANGED << accounts, stored, now >>

(* It fails: no such user, a wrong credential, or no free slot. *)
AuthenticationFails ==
  /\ LogFailure
  /\ UNCHANGED << accounts, stored, sessions, logins, now >>

(* config_portal_write() and config_portal_reject_safety_locked() *)
WriteRequest ==
  /\ \E s \in sessions : ValidSession(s)
  /\ LogEvent
  /\ UNCHANGED << accounts, stored, sessions, logins, now >>

(* config_portal_logout() clears the caller's copy. *)
Logout(s) ==
  /\ s.active
  /\ sessions' = (sessions \ {s}) \union {[s EXCEPT !.active = FALSE]}
  /\ LogEvent
  /\ UNCHANGED << accounts, stored, logins, now >>

(* The device starts again: config_portal_init(), audit_log_init(). *)
Restart ==
  /\ accounts' = stored /\ sessions' = {} /\ logins' = 0 /\ now' = 0
  /\ AuditRestart
  /\ UNCHANGED stored

(* The start-up code sets the key of the audit log. *)
ProvideKey == SetChainKey /\ UNCHANGED << accounts, stored, sessions, logins, now >>

Tick ==
  /\ now < MaxTime /\ now' = now + 1
  /\ UNCHANGED << accounts, stored, sessions, logins, auditVars >>

Next ==
  \/ \E u \in Users, r \in Roles : AddUser(u, r) \/ ChangeRole(u, r)
  \/ \E u \in Users : RemoveUser(u) \/ LastAdminRefused(u) \/ Authenticate(u)
  \/ AddUserWithoutSession \/ NotAdmin \/ AuthenticationFails \/ WriteRequest
  \/ \E s \in sessions : Logout(s)
  \/ Restart \/ ProvideKey \/ Tick

Spec == Init /\ [][Next]_vars

-----------------------------------------------------------------------------
(* "cannot demote the sole remaining ROLE_ADMIN": whatever sessions of     *)
(* removed or demoted admins are still around, and whatever save() lost, a *)
(* portal with an admin never becomes one with users and no admin, which   *)
(* nobody could manage again.                                              *)
AdminRemains ==
  [][Admins(accounts) # {} => Admins(accounts') # {} \/ accounts'.slots = 0]_vars
=============================================================================
