------------------------- MODULE ConfigPortalProofs -------------------------
(***************************************************************************)
(* For any number of users, sessions and events, and with a save() that    *)
(* may fail at any time: the portal never loses its last admin, and the    *)
(* audit log holds the newest events for every size of its ring and of its *)
(* index.                                                                  *)
(***************************************************************************)
EXTENDS ConfigPortal, FiniteSetTheorems, TLAPS

AccountTypes ==
  accounts \in Accounts /\ stored \in Accounts /\ sessions \subseteq Session

(* A session keeps the role of its login, so it can outlive that role; but *)
(* while one with an admin's rights is around some account has them too.   *)
AdminSessionHasAdmin ==
  (\E s \in sessions : s.role = "ADMIN") => Admins(accounts) # {}

(* What a restart would load: no accounts at all, or some admin as well. *)
StorageFollows ==
  Admins(accounts) # {} => stored.slots = 0 \/ Admins(stored) # {}

(* Before the first account there is none in storage either. *)
FirstBoot == accounts.slots = 0 => stored.slots = 0

PortalInv == AccountTypes /\ AdminSessionHasAdmin /\ StorageFollows /\ FirstBoot

LEMMA InitPortal == Init => PortalInv
BY DEF Init, NoAccounts, PortalInv, AccountTypes, Accounts, AdminSessionHasAdmin,
  StorageFollows, FirstBoot, Admins, Roles, NoUser

(* When u is not the last admin and there is an admin, one other than u    *)
(* remains.                                                                *)
LEMMA OtherAdmin ==
  ASSUME NEW u \in Users, ~IsLastAdmin(u), Admins(accounts) # {}
  PROVE  \E v \in Users : v # u /\ v \in Admins(accounts)
<1>1. CASE u \notin Admins(accounts) BY <1>1 DEF Admins
<1>2. CASE u \in Admins(accounts)
  <2>1. Admins(accounts) # {u}
    <3>1. Cardinality({u}) = 1 BY FS_Singleton
    <3> QED BY <3>1, <1>2 DEF IsLastAdmin
  <2> QED BY <2>1, <1>2 DEF Admins
<1> QED BY <1>1, <1>2

(* The new table a replaces the accounts and, if save() succeeds, what is  *)
(* stored.  When it keeps an admin, the invariant and the property hold.   *)
LEMMA PersistStep ==
  ASSUME PortalInv, NEW a \in Accounts, Persist(a), sessions' = sessions,
         Admins(accounts) # {} => Admins(a) # {},
         a.slots = 0 => accounts.slots = 0,
         accounts.slots = 0 \/ Admins(accounts) # {}
  PROVE  PortalInv' /\ (Admins(accounts) # {} => Admins(accounts') # {})
<1>1. accounts' = a /\ (stored' = a \/ stored' = stored) BY DEF Persist
<1>2. AccountTypes' BY <1>1 DEF PortalInv, AccountTypes
<1>3. AdminSessionHasAdmin' BY <1>1 DEF PortalInv, AdminSessionHasAdmin, Admins
<1>4. FirstBoot' BY <1>1 DEF PortalInv, FirstBoot
<1>5. StorageFollows'
  <2>1. CASE stored' = a BY <1>1, <2>1 DEF StorageFollows, Admins
  <2>2. CASE stored' = stored
    BY <1>1, <2>2 DEF PortalInv, StorageFollows, FirstBoot, Admins
  <2> QED BY <1>1, <2>1, <2>2
<1> QED BY <1>1, <1>2, <1>3, <1>4, <1>5 DEF PortalInv, Admins

LEMMA AddUserStep ==
  ASSUME PortalInv, NEW u \in Users, NEW r \in Roles, AddUser(u, r)
  PROVE  PortalInv' /\ (Admins(accounts) # {} => Admins(accounts') # {})
<1> DEFINE a == WithUser(u, r)
<1>0. /\ accounts.role \in [Users -> Roles \union {NoUser}]
      /\ accounts.slots \in Nat
  BY DEF PortalInv, AccountTypes, Accounts
<1>1. a.role = [accounts.role EXCEPT ![u] = r] BY DEF WithUser
<1>2. a.slots = accounts.slots \/ a.slots = accounts.slots + 1 BY DEF WithUser
<1>3. a \in Accounts
  <2>1. a.role \in [Users -> Roles \union {NoUser}] BY <1>0, <1>1
  <2>2. a.slots \in Nat BY <1>0, <1>2
  <2>3. a = [role |-> a.role, slots |-> a.slots] BY DEF WithUser
  <2> QED BY <2>1, <2>2, <2>3 DEF Accounts
<1>4. Admins(accounts) # {} => Admins(a) # {}
  BY <1>0, <1>1 DEF AddUser, Active, Admins, NoUser
<1>5. a.slots = 0 => accounts.slots = 0 BY <1>0, <1>2
<1>6. accounts.slots = 0 \/ Admins(accounts) # {}
  BY DEF AddUser, AdminSession, PortalInv, AdminSessionHasAdmin
<1>7. Persist(a) /\ sessions' = sessions BY DEF AddUser
<1> HIDE DEF a
<1> QED BY <1>3, <1>4, <1>5, <1>6, <1>7, PersistStep

(* remove_user() and change_role() both leave every other account alone. *)
LEMMA SetRoleStep ==
  ASSUME PortalInv, NEW u \in Users, NEW r \in Roles \union {NoUser},
         \E s \in sessions : AdminSession(s), IsLastAdmin(u) => r = "ADMIN",
         Persist([accounts EXCEPT !.role[u] = r]), sessions' = sessions
  PROVE  PortalInv' /\ (Admins(accounts) # {} => Admins(accounts') # {})
<1> DEFINE a == [accounts EXCEPT !.role[u] = r]
<1>0. /\ accounts.role \in [Users -> Roles \union {NoUser}]
      /\ accounts.slots \in Nat /\ accounts \in Accounts
  BY DEF PortalInv, AccountTypes, Accounts
<1>1. a.role = [accounts.role EXCEPT ![u] = r] /\ a.slots = accounts.slots
  BY <1>0 DEF Accounts
<1>2. a \in Accounts BY <1>0 DEF Accounts
<1>3. Admins(accounts) # {}
  BY DEF AdminSession, PortalInv, AdminSessionHasAdmin
<1>4. Admins(a) # {}
  <2>1. CASE IsLastAdmin(u) BY <2>1, <1>0, <1>1 DEF Admins
  <2>2. CASE ~IsLastAdmin(u)
    <3>1. PICK v \in Users : v # u /\ v \in Admins(accounts) BY <2>2, <1>3, OtherAdmin
    <3> QED BY <3>1, <1>0, <1>1 DEF Admins
  <2> QED BY <2>1, <2>2
<1>5. Persist(a) OBVIOUS
<1> HIDE DEF a
<1> QED BY <1>1, <1>2, <1>3, <1>4, <1>5, PersistStep

LEMMA AuthenticateStep ==
  ASSUME PortalInv, NEW u \in Users, Authenticate(u), logins \in Nat, now \in Nat
  PROVE  PortalInv'
<1> DEFINE s0 == [id |-> logins + 1, user |-> u, role |-> accounts.role[u],
                  at |-> now, active |-> TRUE]
<1>1. sessions' = sessions \union {s0} /\ accounts' = accounts /\ stored' = stored
  BY DEF Authenticate
<1>2. s0.role = accounts.role[u] /\ accounts.role[u] \in Roles
  BY DEF Authenticate, Active, PortalInv, AccountTypes, Accounts
<1>3. s0 \in Session BY <1>2 DEF Session
<1>4. AccountTypes' BY <1>1, <1>3 DEF PortalInv, AccountTypes
<1>5. AdminSessionHasAdmin'
  <2> SUFFICES ASSUME NEW s \in sessions', s.role = "ADMIN" PROVE Admins(accounts) # {}
    BY <1>1 DEF AdminSessionHasAdmin, Admins
  <2>1. CASE s \in sessions BY <2>1 DEF PortalInv, AdminSessionHasAdmin
  <2>2. CASE s = s0 BY <2>2, <1>2 DEF Admins
  <2> QED BY <1>1, <2>1, <2>2
<1> QED BY <1>1, <1>4, <1>5 DEF PortalInv, StorageFollows, FirstBoot, Admins

LEMMA LogoutStep ==
  ASSUME PortalInv, NEW s \in sessions, Logout(s)
  PROVE  PortalInv'
<1> DEFINE s0 == [s EXCEPT !.active = FALSE]
<1>1. /\ sessions' = (sessions \ {s}) \union {s0}
      /\ accounts' = accounts /\ stored' = stored
  BY DEF Logout
<1>2. s \in Session BY DEF PortalInv, AccountTypes
<1>3. s0 \in Session /\ s0.role = s.role BY <1>2 DEF Session
<1>4. AccountTypes' BY <1>1, <1>3 DEF PortalInv, AccountTypes
<1>5. AdminSessionHasAdmin'
  BY <1>1, <1>3 DEF PortalInv, AdminSessionHasAdmin, Admins
<1> QED BY <1>1, <1>4, <1>5 DEF PortalInv, StorageFollows, FirstBoot, Admins

(* Restart loads what StorageFollows speaks of. *)
LEMMA RestartStep ==
  ASSUME PortalInv, Restart
  PROVE  PortalInv' /\ (Admins(accounts) # {} => Admins(accounts') # {} \/ accounts'.slots = 0)
<1>1. accounts' = stored /\ stored' = stored /\ sessions' = {} BY DEF Restart
<1> QED BY <1>1 DEF PortalInv, AccountTypes, AdminSessionHasAdmin, StorageFollows,
          FirstBoot, Admins

(* Counters of the portal, needed for the type of a new session. *)
Counters == logins \in Nat /\ now \in Nat

LEMMA CountersStep == Counters /\ [Next]_vars => Counters'
<1> SUFFICES ASSUME Counters, [Next]_vars PROVE Counters'
  OBVIOUS
<1>1. ASSUME UNCHANGED << logins, now >> PROVE Counters' BY <1>1 DEF Counters
<1>2. CASE \E u \in Users : Authenticate(u)
  <2>1. logins' = logins + 1 /\ now' = now BY <1>2 DEF Authenticate
  <2> QED BY <2>1 DEF Counters
<1>3. CASE Tick
  <2>1. logins' = logins /\ now' = now + 1 BY <1>3 DEF Tick
  <2> QED BY <2>1 DEF Counters
<1>4. CASE Restart
  <2>1. logins' = 0 /\ now' = 0 BY <1>4 DEF Restart
  <2> QED BY <2>1 DEF Counters
<1>5. CASE \E u \in Users, r \in Roles : AddUser(u, r) \/ ChangeRole(u, r)
  BY <1>1, <1>5 DEF AddUser, ChangeRole
<1>6. CASE \E u \in Users : RemoveUser(u) \/ LastAdminRefused(u)
  BY <1>1, <1>6 DEF RemoveUser, LastAdminRefused
<1>7. CASE \E s \in sessions : Logout(s) BY <1>1, <1>7 DEF Logout
<1>8. CASE \/ AddUserWithoutSession \/ NotAdmin \/ AuthenticationFails
           \/ WriteRequest \/ ProvideKey \/ UNCHANGED vars
  BY <1>1, <1>8 DEF AddUserWithoutSession, NotAdmin, AuthenticationFails,
    WriteRequest, ProvideKey, vars
<1> QED BY <1>2, <1>3, <1>4, <1>5, <1>6, <1>7, <1>8 DEF Next

AdminStep == Admins(accounts) # {} => Admins(accounts') # {} \/ accounts'.slots = 0

LEMMA NextPortal ==
  PortalInv /\ Counters /\ [Next]_vars => PortalInv' /\ [AdminStep]_vars
<1> SUFFICES ASSUME PortalInv, Counters, [Next]_vars PROVE PortalInv' /\ AdminStep
  OBVIOUS
<1>0. ASSUME UNCHANGED << accounts, stored, sessions >> PROVE PortalInv' /\ AdminStep
  BY <1>0 DEF PortalInv, AccountTypes, AdminSessionHasAdmin, StorageFollows,
    FirstBoot, Admins, AdminStep
<1>1. ASSUME NEW u \in Users, NEW r \in Roles, AddUser(u, r)
      PROVE  PortalInv' /\ AdminStep
  BY <1>1, AddUserStep DEF AdminStep
<1>2. ASSUME NEW u \in Users, NEW r \in Roles, ChangeRole(u, r)
      PROVE  PortalInv' /\ AdminStep
  <2>1. /\ \E s \in sessions : AdminSession(s)
        /\ IsLastAdmin(u) => r = "ADMIN"
        /\ Persist([accounts EXCEPT !.role[u] = r]) /\ sessions' = sessions
    BY <1>2 DEF ChangeRole
  <2> QED BY <2>1, SetRoleStep DEF AdminStep
<1>3. ASSUME NEW u \in Users, RemoveUser(u) PROVE PortalInv' /\ AdminStep
  <2>1. /\ \E s \in sessions : AdminSession(s)
        /\ ~IsLastAdmin(u)
        /\ Persist([accounts EXCEPT !.role[u] = NoUser]) /\ sessions' = sessions
    BY <1>3 DEF RemoveUser
  <2> QED BY <2>1, SetRoleStep DEF AdminStep
<1>4. ASSUME NEW u \in Users, Authenticate(u) PROVE PortalInv' /\ AdminStep
  <2>1. PortalInv' BY <1>4, AuthenticateStep DEF Counters
  <2> QED BY <1>4, <2>1 DEF AdminStep, Admins, Authenticate
<1>5. ASSUME NEW s \in sessions, Logout(s) PROVE PortalInv' /\ AdminStep
  <2>1. PortalInv' BY <1>5, LogoutStep
  <2> QED BY <1>5, <2>1 DEF AdminStep, Admins, Logout
<1>6. CASE Restart BY <1>6, RestartStep DEF AdminStep
<1>7. CASE \/ \E u \in Users : LastAdminRefused(u)
           \/ AddUserWithoutSession \/ NotAdmin \/ AuthenticationFails \/ WriteRequest
           \/ ProvideKey \/ Tick
  BY <1>0, <1>7 DEF LastAdminRefused, AddUserWithoutSession, NotAdmin,
    AuthenticationFails, WriteRequest, ProvideKey, Tick
<1>8. CASE UNCHANGED vars BY <1>0, <1>8 DEF vars
<1> QED BY <1>1, <1>2, <1>3, <1>4, <1>5, <1>6, <1>7, <1>8 DEF Next

(* config_portal_remove_user() and config_portal_change_role() keep the    *)
(* last admin for any number of users, however sessions and restarts       *)
(* interleave and whatever save() loses.                                   *)
THEOREM LastAdminStays == Spec => AdminRemains
<1>1. Init => Counters BY DEF Init, Counters
<1>2. Spec => [](PortalInv /\ Counters)
  BY <1>1, InitPortal, NextPortal, CountersStep, PTL DEF Spec
<1>3. [AdminStep]_vars =>
        [Admins(accounts) # {} => Admins(accounts') # {} \/ accounts'.slots = 0]_vars
  BY DEF AdminStep
<1> QED BY <1>2, <1>3, NextPortal, PTL DEF Spec, AdminRemains

-----------------------------------------------------------------------------
(***************************************************************************)
(* The audit log.  Everything audit_log_add() does is Logged, so the proof *)
(* speaks of a log a and of Logged(a, n, failure), and the portal's        *)
(* actions only add zero, one or two events, and save any of those logs.   *)
(***************************************************************************)

LEMMA ModBelow ==
  ASSUME NEW n \in Nat \ {0}, NEW x \in 0 .. n - 1
  PROVE  x % n = x
OBVIOUS

LEMMA ModRange ==
  ASSUME NEW n \in Nat \ {0}, NEW x \in Nat
  PROVE  x % n \in 0 .. n - 1
OBVIOUS

LEMMA ModUnique ==
  ASSUME NEW n \in Nat \ {0}, NEW q \in Int, NEW r \in 0 .. n - 1
  PROVE  (n * q + r) % n = r
<1> DEFINE x == n * q + r
           k == x \div n
           m == x % n
<1>1. x \in Int /\ k \in Int /\ m \in 0 .. n - 1 /\ x = n * k + m
  OBVIOUS
<1> HIDE DEF k, m
<1>2. n * (q - k) = m - r
  BY <1>1
<1>3. ~(q - k >= 1)
  <2> SUFFICES ASSUME q - k >= 1 PROVE n * (q - k) >= n
    BY <1>1, <1>2
  <2> QED
    BY <1>1
<1>4. ~(q - k <= -1)
  <2> SUFFICES ASSUME q - k <= -1 PROVE n * (q - k) <= -n
    BY <1>1, <1>2
  <2> QED
    BY <1>1
<1>5. q = k
  BY <1>1, <1>3, <1>4
<1> QED
  BY <1>1, <1>5 DEF m

LEMMA ModShift ==
  ASSUME NEW n \in Nat \ {0}, NEW x \in Nat
  PROVE  (x + n) % n = x % n
<1> DEFINE q == x \div n
           r == x % n
<1>1. q \in Int /\ r \in 0 .. n - 1 /\ x = n * q + r
  OBVIOUS
<1> HIDE DEF q, r
<1>2. q + 1 \in Int /\ x + n = n * (q + 1) + r
  BY <1>1
<1>3. (n * (q + 1) + r) % n = r
  BY <1>1, <1>2, ModUnique
<1> QED
  BY <1>2, <1>3 DEF r

LEMMA ModDiffers ==
  ASSUME NEW n \in Nat \ {0}, NEW x \in Nat, NEW d \in 1 .. n - 1
  PROVE  (x + d) % n # x % n
<1> DEFINE q == x \div n
           r == x % n
<1>1. q \in Int /\ r \in 0 .. n - 1 /\ x = n * q + r
  OBVIOUS
<1> HIDE DEF q, r
<1>2. CASE r + d < n
  <2>1. r + d \in 0 .. n - 1 /\ x + d = n * q + (r + d)
    BY <1>1, <1>2
  <2>2. (n * q + (r + d)) % n = r + d
    BY <1>1, <2>1, ModUnique
  <2> QED
    BY <1>1, <2>1, <2>2 DEF r
<1>3. CASE r + d >= n
  <2>1. r + d - n \in 0 .. n - 1 /\ q + 1 \in Int /\ x + d = n * (q + 1) + (r + d - n)
    BY <1>1, <1>3
  <2>2. (n * (q + 1) + (r + d - n)) % n = r + d - n
    BY <1>1, <2>1, ModUnique
  <2> QED
    BY <1>1, <2>1, <2>2 DEF r
<1> QED
  BY <1>1, <1>2, <1>3

LogEntry == [event : 0 .. MaxEvents, hmac : Seq(1 .. MaxEvents)]

(* The number of events recorded. *)
Total(a) == Len(a.recorded)

(* Until the write index wraps it is the number of events, and event k is  *)
(* in slot k - 1, modulo the capacity, until it is overwritten.            *)
Placed(a) ==
  Total(a) < IndexMod =>
    /\ a.index = Total(a)
    /\ \A k \in 1 .. Total(a) :
         k > Total(a) - LogCapacity =>
           a.entries[(k - 1) % LogCapacity].event = a.recorded[k]

(* The chain over the slots themselves, before the ring first wraps. *)
Chained(a) ==
  a.chained /\ Total(a) <= LogCapacity =>
    \A i \in 0 .. Total(a) - 1 :
      a.entries[i].hmac =
        Append(IF i = 0 THEN << >> ELSE a.entries[i - 1].hmac, a.entries[i].event)

LogInv(a) == a \in AuditRecord /\ a.failures <= Total(a) /\ Placed(a) /\ Chained(a)

LEMMA RecordFields ==
  ASSUME NEW a \in AuditRecord
  PROVE  /\ a.entries \in [LogSlots -> LogEntry] /\ a.index \in 0 .. IndexMod - 1
         /\ a.failures \in 0 .. MaxEvents /\ a.keyed \in BOOLEAN /\ a.chained \in BOOLEAN
         /\ a.recorded \in Seq(1 .. MaxEvents) /\ Total(a) \in Nat
<1>1. /\ a.entries \in [LogSlots -> LogEntry] /\ a.index \in 0 .. IndexMod - 1
      /\ a.failures \in 0 .. MaxEvents /\ a.keyed \in BOOLEAN /\ a.chained \in BOOLEAN
      /\ a.recorded \in Seq(1 .. MaxEvents)
  BY DEF AuditRecord, LogEntry
<1>2. Total(a) \in Nat
  BY <1>1 DEF Total
<1> QED
  BY <1>1, <1>2

NewSlot(a) == a.index % LogCapacity
NewHmac(a, n) == IF a.keyed THEN Append(PreviousHmac(a), n) ELSE << >>

(* What audit_log_add() leaves in each field. *)
IsLogged(b, a, n, f) ==
  /\ NewSlot(a) \in LogSlots
  /\ b.entries = [a.entries EXCEPT ![NewSlot(a)] = [event |-> n, hmac |-> NewHmac(a, n)]]
  /\ b.index = (a.index + 1) % IndexMod
  /\ b.failures = (IF f THEN a.failures + 1 ELSE a.failures)
  /\ b.recorded = Append(a.recorded, n) /\ Total(b) = Total(a) + 1
  /\ b.chained = (a.chained /\ a.keyed)
  /\ b \in AuditRecord

LEMMA LoggedFields ==
  ASSUME NEW a \in AuditRecord, NEW n \in 1 .. MaxEvents, NEW f \in BOOLEAN,
         Total(a) + 1 <= MaxEvents, a.failures <= Total(a)
  PROVE  IsLogged(Logged(a, n, f), a, n, f)
<1> DEFINE s == a.index % LogCapacity
           h == IF a.keyed THEN Append(PreviousHmac(a), n) ELSE << >>
           e == [event |-> n, hmac |-> h]
           b == Logged(a, n, f)
<1> USE AuditAssumption
<1>1. /\ a.entries \in [LogSlots -> LogEntry] /\ a.index \in 0 .. IndexMod - 1
      /\ a.failures \in 0 .. MaxEvents /\ a.keyed \in BOOLEAN /\ a.chained \in BOOLEAN
      /\ a.recorded \in Seq(1 .. MaxEvents) /\ Total(a) \in Nat
  BY RecordFields
<1>2. s \in LogSlots
  <2>1. a.index \in Nat
    BY <1>1
  <2> QED
    BY <2>1, ModRange DEF LogSlots
<1>3. PreviousHmac(a) \in Seq(1 .. MaxEvents)
  <2>1. CASE a.index > 0
    <3>1. a.index - 1 \in Nat
      BY <1>1, <2>1
    <3>2. (a.index - 1) % LogCapacity \in LogSlots
      BY <3>1, ModRange DEF LogSlots
    <3> QED
      BY <1>1, <2>1, <3>2 DEF PreviousHmac, LogEntry
  <2>2. CASE ~(a.index > 0)
    <3>1. PreviousHmac(a) = << >>
      BY <2>2 DEF PreviousHmac
    <3> QED
      BY <3>1
  <2> QED
    BY <2>1, <2>2
<1>4. h \in Seq(1 .. MaxEvents)
  <2> HIDE DEF s
  <2>2. Append(PreviousHmac(a), n) \in Seq(1 .. MaxEvents)
    BY <1>3
  <2>3. << >> \in Seq(1 .. MaxEvents)
    OBVIOUS
  <2> QED
    BY <2>2, <2>3, Zenon
<1>5. e \in LogEntry
  <2> HIDE DEF h
  <2> QED
    BY <1>1, <1>4 DEF LogEntry
<1>6. /\ b.entries = [a.entries EXCEPT ![s] = e]
      /\ b.index = (a.index + 1) % IndexMod
      /\ b.failures = (IF f THEN a.failures + 1 ELSE a.failures)
      /\ b.recorded = Append(a.recorded, n)
      /\ b.chained = (a.chained /\ a.keyed)
  BY DEF Logged, AuditRecord
<1>7. b \in AuditRecord
  <2> HIDE DEF e, s
  <2>1. [a.entries EXCEPT ![s] = e] \in [LogSlots -> LogEntry]
    BY <1>1, <1>2, <1>5
  <2>2. (a.index + 1) % IndexMod \in 0 .. IndexMod - 1
    <3>1. a.index + 1 \in Nat /\ IndexMod \in Nat \ {0}
      BY <1>1
    <3> QED
      BY <3>1, ModRange
  <2>3. /\ (IF f THEN a.failures + 1 ELSE a.failures) \in 0 .. MaxEvents
        /\ Append(a.recorded, n) \in Seq(1 .. MaxEvents)
    BY <1>1
  <2> QED
    BY <1>1, <2>1, <2>2, <2>3 DEF Logged, AuditRecord, LogEntry, s, e
<1>8. Total(b) = Total(a) + 1
  <2> HIDE DEF b
  <2> QED
    BY <1>1, <1>6 DEF Total
<1> HIDE DEF b
<1>9. IsLogged(b, a, n, f)
  BY <1>2, <1>6, <1>7, <1>8, Zenon DEF IsLogged, NewSlot, NewHmac
<1> QED
  BY <1>9 DEF b

(* The newest event goes into the slot of the oldest one: the LogCapacity  *)
(* newest events are in different slots.                                   *)
LEMMA PlacedStep ==
  ASSUME NEW a, NEW n \in 1 .. MaxEvents, NEW f \in BOOLEAN, LogInv(a),
         Total(a) + 1 <= MaxEvents
  PROVE  Placed(Logged(a, n, f))
<1> DEFINE b == Logged(a, n, f)
           s == NewSlot(a)
           h == NewHmac(a, n)
<1> USE AuditAssumption
<1>1. /\ a.entries \in [LogSlots -> LogEntry] /\ Total(a) \in Nat
      /\ a.recorded \in Seq(1 .. MaxEvents)
      /\ a \in AuditRecord /\ a.failures <= Total(a)
  BY RecordFields DEF LogInv
<1>2. /\ s \in LogSlots
      /\ b.entries = [a.entries EXCEPT ![s] = [event |-> n, hmac |-> h]]
      /\ b.index = (a.index + 1) % IndexMod /\ Total(b) = Total(a) + 1
      /\ b.recorded = Append(a.recorded, n)
  <2>1. IsLogged(b, a, n, f)
    BY <1>1, LoggedFields, Zenon
  <2> QED
    BY <2>1, Zenon DEF IsLogged
<1> HIDE DEF b, h
<1> SUFFICES ASSUME Total(b) < IndexMod
             PROVE  /\ b.index = Total(b)
                    /\ \A k \in 1 .. Total(b) : k > Total(b) - LogCapacity =>
                         b.entries[(k - 1) % LogCapacity].event = b.recorded[k]
  BY DEF Placed, b
<1>3. /\ a.index = Total(a)
      /\ \A k \in 1 .. Total(a) :
           k > Total(a) - LogCapacity =>
             a.entries[(k - 1) % LogCapacity].event = a.recorded[k]
  <2>1. Total(a) < IndexMod
    BY <1>1, <1>2
  <2> QED
    BY <2>1, Zenon DEF LogInv, Placed
<1>4. b.index = Total(b)
  <2>1. a.index + 1 \in 0 .. IndexMod - 1
    BY <1>1, <1>2, <1>3
  <2>2. (a.index + 1) % IndexMod = a.index + 1
    BY <2>1, ModBelow
  <2> QED
    BY <1>2, <1>3, <2>2
<1>5. ASSUME NEW k \in 1 .. Total(b), k > Total(b) - LogCapacity
      PROVE  b.entries[(k - 1) % LogCapacity].event = b.recorded[k]
  <2>1. CASE k = Total(b)
    <3>1. k - 1 = a.index
      BY <1>1, <1>2, <1>3, <2>1
    <3>2. b.entries[s].event = n /\ b.recorded[k] = n
      BY <1>1, <1>2, <2>1 DEF Total
    <3> QED
      BY <1>2, <2>1, <3>1, <3>2 DEF NewSlot
  <2>2. CASE k # Total(b)
    <3> DEFINE d == Total(a) - (k - 1)
    <3>1. k \in 1 .. Total(a) /\ k > Total(a) - LogCapacity
      BY <1>1, <1>2, <1>5, <2>2
    <3>2. k - 1 \in Nat /\ d \in 1 .. LogCapacity - 1 /\ (k - 1) + d = a.index
      BY <1>1, <1>2, <1>3, <1>5, <3>1
    <3>3. (k - 1) % LogCapacity \in LogSlots
      BY <3>2, ModRange DEF LogSlots
    <3>4. (k - 1) % LogCapacity # s
      <4> HIDE DEF d
      <4>1. ((k - 1) + d) % LogCapacity # (k - 1) % LogCapacity
        BY <3>2, ModDiffers
      <4> QED
        BY <3>2, <4>1 DEF NewSlot
    <3>5. b.entries[(k - 1) % LogCapacity] = a.entries[(k - 1) % LogCapacity]
      <4> HIDE DEF s
      <4> QED
        BY <1>1, <1>2, <3>3, <3>4
    <3>6. b.recorded[k] = a.recorded[k]
      BY <1>1, <1>2, <3>1 DEF Total
    <3> QED
      BY <1>3, <3>1, <3>5, <3>6
  <2> QED
    BY <2>1, <2>2
<1> QED
  BY <1>4, <1>5

(* While nothing is overwritten, the previous HMAC is that of the slot     *)
(* before, and the slots behind are left alone.                            *)
LEMMA ChainedStep ==
  ASSUME NEW a, NEW n \in 1 .. MaxEvents, NEW f \in BOOLEAN, LogInv(a),
         Total(a) + 1 <= MaxEvents
  PROVE  Chained(Logged(a, n, f))
<1> DEFINE b == Logged(a, n, f)
           s == NewSlot(a)
           h == NewHmac(a, n)
<1> USE AuditAssumption
<1>1. /\ a.entries \in [LogSlots -> LogEntry] /\ Total(a) \in Nat
      /\ a.recorded \in Seq(1 .. MaxEvents)
      /\ a \in AuditRecord /\ a.failures <= Total(a)
  BY RecordFields DEF LogInv
<1>2. /\ b.entries = [a.entries EXCEPT ![s] = [event |-> n, hmac |-> h]]
      /\ Total(b) = Total(a) + 1 /\ b.chained = (a.chained /\ a.keyed)
  <2>1. IsLogged(b, a, n, f)
    BY <1>1, LoggedFields, Zenon
  <2> QED
    BY <2>1, Zenon DEF IsLogged
<1> HIDE DEF b
<1> SUFFICES ASSUME b.chained, Total(b) <= LogCapacity
             PROVE  \A i \in 0 .. Total(b) - 1 :
                      b.entries[i].hmac =
                        Append(IF i = 0 THEN << >> ELSE b.entries[i - 1].hmac,
                               b.entries[i].event)
  BY DEF Chained, b
<1>3. a.chained /\ a.keyed /\ Total(a) < LogCapacity /\ Total(a) < IndexMod
  <2>1. a.chained /\ a.keyed
    BY <1>2, Zenon
  <2>2. Total(b) = Total(a) + 1
    BY <1>2
  <2>3. Total(a) < LogCapacity /\ Total(a) < IndexMod
    BY <1>1, <2>2
  <2> QED
    BY <2>1, <2>3
<1>4. a.index = Total(a)
  BY <1>3 DEF LogInv, Placed
<1>5. s = Total(a)
  BY <1>1, <1>3, <1>4, ModBelow DEF NewSlot
<1>6. h = Append(IF Total(a) = 0 THEN << >> ELSE a.entries[Total(a) - 1].hmac, n)
  <2>1. CASE Total(a) = 0
    BY <1>3, <1>4, <2>1 DEF PreviousHmac, NewHmac
  <2>2. CASE Total(a) # 0
    <3>1. Total(a) - 1 \in 0 .. LogCapacity - 1
      BY <1>1, <1>3, <2>2
    <3>2. (Total(a) - 1) % LogCapacity = Total(a) - 1
      BY <3>1, ModBelow
    <3>3. PreviousHmac(a) = a.entries[Total(a) - 1].hmac
      BY <1>1, <1>4, <2>2, <3>2, SMTT(30) DEF PreviousHmac
    <3> QED
      BY <1>3, <2>2, <3>3 DEF NewHmac
  <2> QED
    BY <2>1, <2>2
<1> HIDE DEF s, h
<1>7. Total(a) \in LogSlots /\ b.entries[Total(a)] = [event |-> n, hmac |-> h]
  BY <1>1, <1>2, <1>3, <1>5 DEF LogSlots
<1>8. \A i \in 0 .. Total(a) - 1 : b.entries[i] = a.entries[i]
  BY <1>1, <1>2, <1>3, <1>5 DEF LogSlots
<1>9. \A i \in 0 .. Total(a) - 1 :
        a.entries[i].hmac =
          Append(IF i = 0 THEN << >> ELSE a.entries[i - 1].hmac, a.entries[i].event)
  <2>1. Total(a) <= LogCapacity
    BY <1>1, <1>3
  <2> QED
    BY <1>3, <2>1, Zenon DEF LogInv, Chained
<1> TAKE i \in 0 .. Total(b) - 1
<1>10. CASE i = Total(a)
  <2>1. b.entries[i].hmac = h /\ b.entries[i].event = n
    BY <1>7, <1>10
  <2>2. CASE i = 0
    BY <1>6, <1>10, <2>1, <2>2
  <2>3. CASE i # 0
    <3>1. b.entries[i - 1] = a.entries[i - 1]
      BY <1>1, <1>8, <1>10, <2>3
    <3> QED
      BY <1>6, <1>10, <2>1, <2>3, <3>1
  <2> QED
    BY <2>2, <2>3
<1>11. CASE i # Total(a)
  <2>1. i \in 0 .. Total(a) - 1 /\ (i # 0 => i - 1 \in 0 .. Total(a) - 1)
    BY <1>1, <1>2, <1>11
  <2>2. b.entries[i] = a.entries[i] /\ (i # 0 => b.entries[i - 1] = a.entries[i - 1])
    BY <1>8, <2>1
  <2> QED
    BY <1>9, <2>1, <2>2
<1> QED
  BY <1>10, <1>11

LEMMA LoggedStep ==
  ASSUME NEW a, NEW n \in 1 .. MaxEvents, NEW f \in BOOLEAN, LogInv(a),
         Total(a) + 1 <= MaxEvents
  PROVE  LogInv(Logged(a, n, f)) /\ Total(Logged(a, n, f)) = Total(a) + 1
<1>1. /\ a \in AuditRecord /\ a.failures <= Total(a)
      /\ a.failures \in Nat /\ Total(a) \in Nat
  BY RecordFields DEF LogInv
<1>2. /\ Logged(a, n, f) \in AuditRecord
      /\ Logged(a, n, f).failures = (IF f THEN a.failures + 1 ELSE a.failures)
      /\ Total(Logged(a, n, f)) = Total(a) + 1
  <2>1. IsLogged(Logged(a, n, f), a, n, f)
    BY <1>1, LoggedFields, Zenon
  <2> QED
    BY <2>1, Zenon DEF IsLogged
<1>3. Logged(a, n, f).failures <= Total(Logged(a, n, f))
  BY <1>1, <1>2
<1> QED
  BY <1>2, <1>3, PlacedStep, ChainedStep, Zenon DEF LogInv

LEMMA KeyStep ==
  ASSUME NEW a, NEW k \in BOOLEAN, LogInv(a)
  PROVE  LogInv([a EXCEPT !.keyed = k]) /\ Total([a EXCEPT !.keyed = k]) = Total(a)
<1> DEFINE b == [a EXCEPT !.keyed = k]
<1>1. /\ b \in AuditRecord /\ b.entries = a.entries /\ b.index = a.index
      /\ b.failures = a.failures /\ b.recorded = a.recorded /\ b.chained = a.chained
  BY DEF LogInv, AuditRecord
<1> HIDE DEF b
<1>2. Total(b) = Total(a)
  BY <1>1 DEF Total
<1>3. LogInv(b)
  BY <1>1, <1>2 DEF LogInv, Placed, Chained
<1> QED
  BY <1>2, <1>3 DEF b

(* Both the log in RAM and the one a restart would load are logs of this   *)
(* kind, of no more events than there were: a save() that fails only       *)
(* leaves an older log behind.                                             *)
AuditInv ==
  /\ LogInv(audit) /\ LogInv(saved) /\ events \in 0 .. MaxEvents
  /\ Total(audit) <= events /\ Total(saved) <= events

LEMMA InitLog == AuditInit => AuditInv
<1> SUFFICES ASSUME AuditInit PROVE AuditInv
  OBVIOUS
<1> USE AuditAssumption
<1>1. NoEntry \in LogEntry
  BY DEF NoEntry, LogEntry
<1>2. audit \in AuditRecord
  <2>1. /\ [i \in LogSlots |-> NoEntry] \in [LogSlots -> LogEntry]
        /\ 0 \in 0 .. IndexMod - 1 /\ 0 \in 0 .. MaxEvents /\ << >> \in Seq(1 .. MaxEvents)
    BY <1>1
  <2> QED
    BY <2>1 DEF AuditInit, AuditRecord, LogEntry
<1>3. Total(audit) = 0 /\ audit.index = 0 /\ audit.failures = 0
  BY DEF AuditInit, Total
<1>4. LogInv(audit)
  BY <1>2, <1>3 DEF LogInv, Placed, Chained
<1>5. saved = audit /\ events = 0
  BY DEF AuditInit
<1> QED
  BY <1>3, <1>4, <1>5 DEF AuditInv

(* An event more in the log, and any of the logs saved since. *)
LEMMA LogOneStep ==
  ASSUME AuditInv, NEW f \in BOOLEAN, LogOne(f)
  PROVE  AuditInv'
<1> DEFINE b == Logged(audit, events + 1, f)
<1>1. /\ LogInv(audit) /\ Total(audit) \in Nat /\ Total(saved) \in Nat /\ events \in Nat
      /\ Total(audit) <= events /\ Total(saved) <= events /\ MaxEvents \in Nat
  BY RecordFields, AuditAssumption DEF AuditInv, LogInv
<1>2. /\ events + 1 <= MaxEvents /\ audit' = b /\ events' = events + 1
      /\ saved' = saved \/ saved' = Stored(b)
  BY DEF LogOne, CanLog
<1>3. events + 1 \in 1 .. MaxEvents /\ Total(audit) + 1 <= MaxEvents
  BY <1>1, <1>2
<1>4. LogInv(b) /\ Total(b) = Total(audit) + 1
  BY <1>1, <1>3, LoggedStep, Zenon
<1> HIDE DEF b
<1>5. LogInv(Stored(b)) /\ Total(Stored(b)) = Total(b)
  BY <1>4, KeyStep, Zenon DEF Stored
<1>6. LogInv(saved') /\ Total(saved') <= events + 1
  <2>1. CASE saved' = saved
    BY <1>1, <2>1 DEF AuditInv
  <2>2. CASE saved' = Stored(b)
    BY <1>1, <1>4, <1>5, <2>2
  <2> QED
    BY <1>2, <2>1, <2>2
<1>7. LogInv(audit') /\ Total(audit') <= events'
  BY <1>1, <1>2, <1>4
<1>8. events' \in 0 .. MaxEvents /\ Total(saved') <= events'
  BY <1>1, <1>2, <1>6
<1> QED
  BY <1>6, <1>7, <1>8 DEF AuditInv, LogInv, Placed, Chained, Total

LEMMA LogTwiceStep ==
  ASSUME AuditInv, LogTwice
  PROVE  AuditInv'
<1> DEFINE a == Logged(audit, events + 1, FALSE)
           b == Logged(a, events + 2, FALSE)
<1>1. /\ LogInv(audit) /\ Total(audit) \in Nat /\ Total(saved) \in Nat /\ events \in Nat
      /\ Total(audit) <= events /\ Total(saved) <= events /\ MaxEvents \in Nat
  BY RecordFields, AuditAssumption DEF AuditInv, LogInv
<1>2. /\ events + 2 <= MaxEvents /\ audit' = b /\ events' = events + 2
      /\ saved' = saved \/ saved' = Stored(a) \/ saved' = Stored(b)
  BY DEF LogTwice, CanLog
<1>3. /\ events + 1 \in 1 .. MaxEvents /\ events + 2 \in 1 .. MaxEvents
      /\ Total(audit) + 1 <= MaxEvents
  BY <1>1, <1>2
<1>4. LogInv(a) /\ Total(a) = Total(audit) + 1
  BY <1>1, <1>3, LoggedStep, Zenon
<1> HIDE DEF a
<1>5. Total(a) + 1 <= MaxEvents
  BY <1>1, <1>2, <1>4
<1>6. LogInv(b) /\ Total(b) = Total(a) + 1
  BY <1>3, <1>4, <1>5, LoggedStep, Zenon
<1> HIDE DEF b
<1>7. LogInv(Stored(a)) /\ Total(Stored(a)) = Total(a)
  BY <1>4, KeyStep, Zenon DEF Stored
<1>8. LogInv(Stored(b)) /\ Total(Stored(b)) = Total(b)
  BY <1>6, KeyStep, Zenon DEF Stored
<1>9. LogInv(saved') /\ Total(saved') <= events + 2
  <2>1. CASE saved' = saved
    BY <1>1, <2>1 DEF AuditInv
  <2>2. CASE saved' = Stored(a)
    BY <1>1, <1>4, <1>7, <2>2
  <2>3. CASE saved' = Stored(b)
    BY <1>1, <1>4, <1>6, <1>8, <2>3
  <2> QED
    BY <1>2, <2>1, <2>2, <2>3
<1>10. LogInv(audit') /\ Total(audit') <= events'
  BY <1>1, <1>2, <1>4, <1>6
<1>11. events' \in 0 .. MaxEvents /\ Total(saved') <= events'
  BY <1>1, <1>2, <1>9
<1> QED
  BY <1>9, <1>10, <1>11 DEF AuditInv, LogInv, Placed, Chained, Total

LEMMA NextLog == AuditInv /\ [Next]_vars => AuditInv'
<1> SUFFICES ASSUME AuditInv, [Next]_vars PROVE AuditInv'
  OBVIOUS
<1>1. ASSUME LogEvent \/ LogFailure PROVE AuditInv'
  BY <1>1, LogOneStep DEF LogEvent, LogFailure
<1>2. CASE UNCHANGED auditVars
  BY <1>2 DEF auditVars, AuditInv, LogInv, Placed, Chained, Total
<1>3. CASE \E u \in Users, r \in Roles : AddUser(u, r) \/ ChangeRole(u, r)
  BY <1>1, <1>3 DEF AddUser, ChangeRole
<1>4. CASE \E u \in Users : RemoveUser(u) \/ LastAdminRefused(u)
  BY <1>1, <1>4 DEF RemoveUser, LastAdminRefused
<1>5. CASE \E u \in Users : Authenticate(u)
  BY <1>5, LogTwiceStep DEF Authenticate
<1>6. CASE AddUserWithoutSession \/ NotAdmin \/ AuthenticationFails \/ WriteRequest
  BY <1>1, <1>6 DEF AddUserWithoutSession, NotAdmin, AuthenticationFails, WriteRequest
<1>7. CASE \E s \in sessions : Logout(s)
  BY <1>1, <1>7 DEF Logout
<1>8. CASE Restart
  <2>1. audit' = saved /\ saved' = saved /\ events' = events
    BY <1>8 DEF Restart, AuditRestart
  <2> QED
    BY <2>1 DEF AuditInv, LogInv, Placed, Chained, Total
<1>9. CASE ProvideKey
  <2> DEFINE b == [audit EXCEPT !.keyed = TRUE]
  <2>1. audit' = b /\ saved' = saved /\ events' = events
    BY <1>9 DEF ProvideKey, SetChainKey
  <2>2. LogInv(b) /\ Total(b) = Total(audit)
    BY KeyStep, Zenon DEF AuditInv
  <2> HIDE DEF b
  <2> QED
    BY <2>1, <2>2 DEF AuditInv, LogInv, Placed, Chained, Total
<1>10. CASE Tick \/ UNCHANGED vars
  BY <1>2, <1>10 DEF Tick, vars
<1> QED
  BY <1>3, <1>4, <1>5, <1>6, <1>7, <1>8, <1>9, <1>10 DEF Next

(* What audit_log_get_count() and audit_log_get_entries() make of a log    *)
(* whose index has not wrapped.                                            *)
LEMMA ReadBack ==
  ASSUME LogInv(audit), Total(audit) < IndexMod
  PROVE  /\ Count \in Nat
         /\ Count = IF Total(audit) < LogCapacity THEN Total(audit) ELSE LogCapacity
         /\ \A i \in 0 .. Count - 1 :
              Entry(i) = audit.entries[(Total(audit) - Count + i) % LogCapacity]
<1> USE AuditAssumption
<1>1. audit.index = Total(audit) /\ Total(audit) \in Nat
  BY RecordFields DEF LogInv, Placed
<1>2. /\ Count \in Nat
      /\ Count = IF Total(audit) < LogCapacity THEN Total(audit) ELSE LogCapacity
  BY <1>1 DEF Count
<1>3. ASSUME NEW i \in 0 .. Count - 1
      PROVE  Entry(i) = audit.entries[(Total(audit) - Count + i) % LogCapacity]
  <2>1. CASE Total(audit) < LogCapacity
    <3>1. Total(audit) - Count + i = 0 + i
      BY <1>1, <1>2, <2>1
    <3>2. ~(audit.index >= LogCapacity)
      BY <1>1, <2>1
    <3> QED
      BY <3>1, <3>2 DEF Entry
  <2>2. CASE Total(audit) >= LogCapacity
    <3> DEFINE x == Total(audit) - Count + i
    <3>1. x \in Nat /\ audit.index + i = x + LogCapacity
      BY <1>1, <1>2, <2>2
    <3>2. (x + LogCapacity) % LogCapacity = x % LogCapacity
      <4> HIDE DEF x
      <4> QED
        BY <3>1, ModShift
    <3>3. Entry(i) = audit.entries[(audit.index + i) % LogCapacity]
      BY <1>1, <2>2 DEF Entry
    <3> QED
      BY <3>1, <3>2, <3>3
  <2> QED
    BY <1>1, <2>1, <2>2
<1> QED
  BY <1>2, <1>3

LEMMA LogReadsNewest == LogInv(audit) => LogHoldsNewest
<1> SUFFICES ASSUME LogInv(audit), Total(audit) < IndexMod
             PROVE  /\ Count = IF Total(audit) < LogCapacity THEN Total(audit) ELSE LogCapacity
                    /\ \A i \in 0 .. Count - 1 :
                         Entry(i).event = audit.recorded[Total(audit) - Count + 1 + i]
  BY DEF LogHoldsNewest, Total
<1> USE AuditAssumption
<1>1. Total(audit) \in Nat
  BY RecordFields DEF LogInv
<1>2. ASSUME NEW i \in 0 .. Count - 1
      PROVE  Entry(i).event = audit.recorded[Total(audit) - Count + 1 + i]
  <2> DEFINE k == Total(audit) - Count + 1 + i
  <2>1. /\ k \in 1 .. Total(audit) /\ k > Total(audit) - LogCapacity
        /\ k - 1 = Total(audit) - Count + i
    BY <1>1, ReadBack
  <2>2. Entry(i) = audit.entries[(Total(audit) - Count + i) % LogCapacity]
    BY ReadBack
  <2> HIDE DEF k
  <2>3. audit.entries[(k - 1) % LogCapacity].event = audit.recorded[k]
    BY <2>1 DEF LogInv, Placed
  <2> QED
    BY <2>1, <2>2, <2>3 DEF k
<1> QED
  BY <1>2, ReadBack

LEMMA LogVerifies == LogInv(audit) => VerifiesUntilFull
<1> SUFFICES ASSUME LogInv(audit), audit.chained, Total(audit) <= LogCapacity
             PROVE  VerifyChain
  BY DEF VerifiesUntilFull, Total
<1> USE AuditAssumption
<1>1. Total(audit) \in Nat /\ Total(audit) < IndexMod
  BY RecordFields DEF LogInv
<1>2. Count = Total(audit)
  BY <1>1, ReadBack
<1>3. ASSUME NEW i \in 0 .. Count - 1 PROVE Entry(i) = audit.entries[i]
  <2>1. Entry(i) = audit.entries[(Total(audit) - Count + i) % LogCapacity]
    BY <1>1, ReadBack
  <2>2. Total(audit) - Count + i = i /\ i \in 0 .. LogCapacity - 1
    BY <1>1, <1>2
  <2>3. i % LogCapacity = i
    BY <2>2, ModBelow
  <2> QED
    BY <2>1, <2>2, <2>3
<1>4. \A i \in 0 .. Total(audit) - 1 :
        audit.entries[i].hmac =
          Append(IF i = 0 THEN << >> ELSE audit.entries[i - 1].hmac, audit.entries[i].event)
  BY DEF LogInv, Chained
<1> SUFFICES ASSUME NEW i \in 0 .. Count - 1
             PROVE  Entry(i).hmac =
                      Append(IF i = 0 THEN << >> ELSE Entry(i - 1).hmac, Entry(i).event)
  BY DEF VerifyChain
<1>5. CASE i = 0
  BY <1>1, <1>2, <1>3, <1>4, <1>5
<1>6. CASE i # 0
  <2>1. i - 1 \in 0 .. Count - 1
    BY <1>1, <1>2, <1>6
  <2>2. Entry(i) = audit.entries[i] /\ Entry(i - 1) = audit.entries[i - 1]
    BY <1>3, <2>1
  <2> QED
    BY <1>2, <1>4, <1>6, <2>2
<1> QED
  BY <1>5, <1>6

(* audit_log_get_entries() returns the newest events recorded, in order,   *)
(* for every capacity of the ring and every width of the index above it,   *)
(* until the index wraps: save() may fail at any time and the device may   *)
(* restart from whatever the last successful one stored.                   *)
THEOREM AuditLogHoldsNewest == Spec => []LogHoldsNewest
<1>1. Init => AuditInv
  BY InitLog DEF Init
<1>2. AuditInv => LogHoldsNewest
  BY LogReadsNewest DEF AuditInv
<1> QED
  BY <1>1, <1>2, NextLog, PTL DEF Spec

(* audit_log_verify_chain() accepts every unaltered log that was keyed     *)
(* before its first entry and has overwritten none, whatever restarts and  *)
(* failing saves there were.                                               *)
THEOREM AuditChainVerifies == Spec => []VerifiesUntilFull
<1>1. Init => AuditInv
  BY InitLog DEF Init
<1>2. AuditInv => VerifiesUntilFull
  BY LogVerifies DEF AuditInv
<1> QED
  BY <1>1, <1>2, NextLog, PTL DEF Spec

-----------------------------------------------------------------------------
(* The limits of the portal's tables. *)
Limits ==
  /\ accounts.slots <= MaxUsers /\ stored.slots <= MaxUsers
  /\ logins <= MaxSessions /\ now <= MaxTime

(* HasRoom is what keeps g_user_count within the table: a new slot is      *)
(* taken only when no freed one is left.                                   *)
LEMMA WithUserLimit ==
  ASSUME NEW u \in Users, NEW r \in Roles, HasRoom, accounts.slots \in Nat,
         accounts.slots <= MaxUsers
  PROVE  WithUser(u, r).slots <= MaxUsers
<1>1. CASE Cardinality(Active(accounts)) < accounts.slots
  BY <1>1 DEF WithUser
<1>2. CASE ~(Cardinality(Active(accounts)) < accounts.slots)
  <2>1. accounts.slots < MaxUsers
    BY <1>2 DEF HasRoom
  <2>2. WithUser(u, r).slots = accounts.slots + 1
    BY <1>2 DEF WithUser
  <2> QED
    BY <2>1, <2>2, PortalAssumption
<1> QED
  BY <1>1, <1>2

LEMMA NextLimits == PortalInv /\ Counters /\ Limits /\ [Next]_vars => Limits'
<1> SUFFICES ASSUME PortalInv, Counters, Limits, [Next]_vars PROVE Limits'
  OBVIOUS
<1> USE PortalAssumption
<1>0. accounts \in Accounts /\ accounts.slots \in Nat /\ accounts.slots <= MaxUsers
  BY DEF PortalInv, AccountTypes, Accounts, Limits
<1>1. ASSUME NEW a, a.slots <= MaxUsers, Persist(a), UNCHANGED << logins, now >>
      PROVE  Limits'
  BY <1>1 DEF Persist, Limits
<1>2. ASSUME UNCHANGED << accounts, stored, logins, now >> PROVE Limits'
  BY <1>2 DEF Limits
<1>3. ASSUME NEW u \in Users, NEW r \in Roles, AddUser(u, r) PROVE Limits'
  <2>1. WithUser(u, r).slots <= MaxUsers
    BY <1>0, <1>3, WithUserLimit DEF AddUser
  <2> QED
    BY <1>1, <1>3, <2>1 DEF AddUser
<1>4. ASSUME NEW u \in Users, NEW r \in Roles, ChangeRole(u, r) PROVE Limits'
  <2>1. [accounts EXCEPT !.role[u] = r].slots <= MaxUsers
    BY <1>0 DEF Accounts
  <2> QED
    BY <1>1, <1>4, <2>1 DEF ChangeRole
<1>5. ASSUME NEW u \in Users, RemoveUser(u) PROVE Limits'
  <2>1. [accounts EXCEPT !.role[u] = NoUser].slots <= MaxUsers
    BY <1>0 DEF Accounts
  <2> QED
    BY <1>1, <1>5, <2>1 DEF RemoveUser
<1>6. ASSUME NEW u \in Users, Authenticate(u) PROVE Limits'
  <2>1. logins < MaxSessions /\ logins' = logins + 1
    BY <1>6 DEF Authenticate
  <2>2. logins' <= MaxSessions
    BY <2>1 DEF Counters
  <2> QED
    BY <1>6, <2>2 DEF Authenticate, Limits
<1>7. CASE Restart
  <2>1. logins' <= MaxSessions /\ now' <= MaxTime
    BY <1>7 DEF Restart
  <2> QED
    BY <1>7, <2>1 DEF Restart, Limits
<1>8. CASE Tick
  <2>1. now' <= MaxTime
    BY <1>8 DEF Tick, Counters
  <2> QED
    BY <1>8, <2>1 DEF Tick, Limits
<1>9. CASE \/ \E u \in Users : LastAdminRefused(u)
           \/ AddUserWithoutSession \/ NotAdmin \/ AuthenticationFails \/ WriteRequest
           \/ ProvideKey \/ UNCHANGED vars \/ \E s \in sessions : Logout(s)
  BY <1>2, <1>9 DEF LastAdminRefused, AddUserWithoutSession, NotAdmin,
    AuthenticationFails, WriteRequest, ProvideKey, vars, Logout
<1> QED
  BY <1>3, <1>4, <1>5, <1>6, <1>7, <1>8, <1>9 DEF Next

(* The portal's state has its types for any constants: the user table      *)
(* never grows beyond CONFIG_PORTAL_MAX_USERS and the session table not    *)
(* beyond CONFIG_PORTAL_MAX_SESSIONS, and the log's record is well formed. *)
THEOREM PortalTypeCorrect == Spec => []TypeOK
<1> DEFINE All == PortalInv /\ Counters /\ Limits /\ AuditInv
<1>1. Init => All
  <2> SUFFICES ASSUME Init PROVE All
    OBVIOUS
  <2>1. accounts.slots = 0 /\ stored.slots = 0 /\ logins = 0 /\ now = 0
    BY DEF Init, NoAccounts
  <2>2. Limits /\ Counters
    BY <2>1, PortalAssumption DEF Limits, Counters
  <2> QED
    BY <2>2, InitPortal, InitLog DEF Init
<1>2. All /\ [Next]_vars => All'
  BY NextPortal, CountersStep, NextLimits, NextLog
<1>3. All => TypeOK
  <2> SUFFICES ASSUME All PROVE TypeOK
    OBVIOUS
  <2>1. logins \in 0 .. MaxSessions /\ now \in 0 .. MaxTime
    BY PortalAssumption DEF Limits, Counters
  <2>2. AuditTypeOK
    BY DEF AuditInv, LogInv, AuditTypeOK
  <2> QED
    BY <2>1, <2>2 DEF TypeOK, PortalInv, AccountTypes, Limits
<1> QED
  BY <1>1, <1>2, <1>3, PTL DEF Spec
=============================================================================
