------------------------------ MODULE Sessions ------------------------------
(***************************************************************************)
(* ms-auth: logins, refresh-token families, the administration of users,   *)
(* roles and service accounts, and the login rate limiter.                 *)
(*                                                                         *)
(* A handler runs in a slot (a request in progress).  Every SQL statement  *)
(* of ms-auth commits on its own, except the two of SetRoles, so a request *)
(* is a sequence of atomic steps, one for each statement that reads or     *)
(* writes what the properties tell apart, and "pc" names the next one.     *)
(* Tokens are rows numbered by creation; a family is named after the row   *)
(* that started it.  Passwords, hashes, JWT contents and the audit log are *)
(* left out; a password is right or wrong by a choice of the environment.  *)
(*                                                                         *)
(* Fields marked "history" are not in the code: they record what a         *)
(* property needs to know of the past and no guard reads them.             *)
(***************************************************************************)
EXTENDS Integers, Sequences, FiniteSets

CONSTANTS Users,        \* people with an account, or who may be given one
          Slots,        \* requests that may be in progress at a time
          None,         \* no value
          MaxStrikes,   \* maxFailures of the limiter
          Workloads,    \* bound: sets of operations, one of which a behaviour draws from
          MaxRequests,  \* bound: requests of a behaviour
          MaxTokens,    \* bound: refresh tokens ever created
          MaxAccounts,  \* bound: service accounts ever created
          MaxFaults,    \* bound: failed statements and restarts
          MaxWindows    \* bound: limiter windows that pass

ASSUME SessionsAssumption ==
    /\ MaxStrikes \in Nat \ {0}
    /\ IsFiniteSet(Slots)
    /\ None \notin Users \cup [count : Nat, since : Nat]
    /\ {MaxRequests, MaxTokens, MaxAccounts, MaxFaults, MaxWindows} \subseteq Nat

VARIABLES users,      \* auth.users with auth.user_roles
          tokens,     \* auth.refresh_tokens
          accounts,   \* auth.service_accounts
          limiter,    \* Limiter.states
          sweep,      \* the key gcLoop is about to delete
          window,     \* limiter windows passed so far
          req,        \* the request in each slot
          workload,   \* the operations this behaviour draws from
          accepted,   \* requests accepted so far
          faults,     \* statements that failed and restarts so far
          blind,      \* history: an admin was removed on stale reads
          misses,     \* history: failed logins since the key was last clear
          mixed       \* history: two writers of a limiter key overlapped

stores == <<users, tokens, accounts>>
limits == <<limiter, sweep, window, misses, mixed>>
vars == <<stores, limits, req, workload, accepted, faults, blind>>

Roles == {"admin", "operator"}

(* The row of a user with its rows of auth.user_roles: "rows" numbers the  *)
(* rows that were ever inserted for each role, so that a role granted anew *)
(* is another row.  "granted" and "kept" are history: the user has been an *)
(* admin (so an access token may say so), and the user was deactivated     *)
(* without the revocation of the sessions that should follow.              *)
User(roles) == [known |-> TRUE, active |-> TRUE,
                roles |-> roles, rows |-> [role \in Roles |-> 0],
                granted |-> "admin" \in roles, kept |-> FALSE]
Unknown == [User({}) EXCEPT !.known = FALSE, !.active = FALSE]

(* A refresh token.  History: "late" (created by a request that had made   *)
(* its decision before the session was revoked) and, of a whole family and *)
(* in its first row, "forks" (uses marked by a rotation that overlapped    *)
(* another of the same token) and "lost" (rotations that marked a token    *)
(* and then failed).                                                       *)
Token(u, family, late) ==
    [user |-> u, family |-> family, used |-> FALSE, revoked |-> FALSE,
     expired |-> FALSE, late |-> late, forks |-> 0, lost |-> 0]

(* A service account; secrets are numbered as they replace each other.     *)
Account(scopes) == [present |-> TRUE, active |-> TRUE, scopes |-> scopes,
                    secret |-> 1, lastUsed |-> FALSE]

(* A request.  "saw" is what it read and will act on, "now" what it read   *)
(* on the clock; "stale", "late" and "twin" are history.                   *)
Idle == [op |-> "none", pc |-> "none", actor |-> None, user |-> None, id |-> 0,
         want |-> None, roles |-> {}, saw |-> None, now |-> 0,
         stale |-> FALSE, late |-> FALSE, twin |-> FALSE]

Usable(t) == ~tokens[t].used /\ ~tokens[t].revoked /\ ~tokens[t].expired
Family(f) == {t \in DOMAIN tokens : tokens[t].family = f}
ActiveAdmins(us) == {u \in Users : us[u].active /\ "admin" \in us[u].roles}

Init ==
    /\ workload \in Workloads
    /\ \E u \in Users :
        /\ users \in {[v \in Users |-> User({"admin"})],
                      [v \in Users |-> IF v = u THEN User({"admin"}) ELSE Unknown]}
        /\ tokens \in {<<>>} \cup {<<Token(u, 1, FALSE)>> : w \in workload \cap {"refresh"}}
    /\ accounts = <<Account({"read"})>>
    /\ limiter = [u \in Users |-> None]
    /\ sweep = None
    /\ window = 0
    /\ req = [r \in Slots |-> Idle]
    /\ accepted = 0
    /\ faults = 0
    /\ blind = FALSE
    /\ misses = [u \in Users |-> 0]
    /\ mixed = {}

-----------------------------------------------------------------------------
(* Requests and their steps. *)

Accept(r, request) ==
    /\ req[r] = Idle
    /\ accepted < MaxRequests
    /\ request.op \in workload
    /\ accepted' = accepted + 1
    /\ req' = [req EXCEPT ![r] = request]
    /\ UNCHANGED <<stores, limits, workload, faults, blind>>

At(r, op, pc) == req[r].op = op /\ req[r].pc = pc

To(r, pc) == [req EXCEPT ![r].pc = pc]
Done(r) == [req EXCEPT ![r] = Idle]
(* The request of slot r becomes "new" and every other request that Hit    *)
(* names is marked in the history field "mark".                            *)
Meanwhile(r, new, Hit(_), mark) ==
    [q \in Slots |-> IF q = r THEN new
                     ELSE IF Hit(q) THEN [req[q] EXCEPT ![mark] = TRUE] ELSE req[q]]

Reads == UNCHANGED <<stores, limits, workload, accepted, faults, blind>>

-----------------------------------------------------------------------------
(* Statements of the repositories. *)

(* mutant: only the token that was presented is revoked. *)
RevokeNewest(f) == [t \in DOMAIN tokens |->
    IF t = f THEN [tokens[t] EXCEPT !.revoked = TRUE] ELSE tokens[t]]

(* RefreshTokenRepository.RevokeFamily and RevokeAllForUser: the rows that *)
(* exist when the statement runs.                                          *)
RevokeFamily(f) == [t \in DOMAIN tokens |->
    IF tokens[t].family = f THEN [tokens[t] EXCEPT !.revoked = TRUE] ELSE tokens[t]]
RevokeAllForUser(u) == [t \in DOMAIN tokens |->
    IF tokens[t].user = u THEN [tokens[t] EXCEPT !.revoked = TRUE] ELSE tokens[t]]

(* A rotation that has looked its token up has decided to create a child,  *)
(* whatever is revoked after that.                                         *)
Rotating(q, pcs) == req[q].op = "refresh" /\ req[q].pc \in pcs

(* mutant: inactive admins count. *)
CountAnyAdmin(u) == Cardinality({v \in Users \ {u} : "admin" \in users[v].roles})
CountActiveAdminsExcluding(u) == Cardinality(ActiveAdmins(users) \ {u})

(* RefreshTokenRepository.FindByHash, for a request that presents token t. *)
FoundValid(t) == ~tokens[t].revoked /\ ~tokens[t].expired

Create(row) ==
    /\ Len(tokens) < MaxTokens
    /\ tokens' = Append(tokens, row)

-----------------------------------------------------------------------------
(* The login limiter: a map read and written without a lock.  Allow and    *)
(* OnFailure read the clock before they load the entry, so that windows    *)
(* may pass in between and until the store; the reading is part of the     *)
(* step before.                                                            *)

Fresh(state, now) == state # None /\ state.since >= now
(* mutant: one strike too many. *)
BlockedLate(u, now) == Fresh(limiter[u], now) /\ limiter[u].count > MaxStrikes
Blocked(u, now) == Fresh(limiter[u], now) /\ limiter[u].count >= MaxStrikes
(* A write of key u: writers whose loaded state it outdates are mixed.     *)
Overlapped(r, u) ==
    mixed \cup (IF sweep = u \/ \E q \in Slots \ {r} : req[q].user = u /\ req[q].pc \in {"forget", "store"}
                THEN {u} ELSE {})

ClearKey(r, u) ==
    /\ limiter' = [limiter EXCEPT ![u] = None]
    /\ misses' = [misses EXCEPT ![u] = 0]
    /\ mixed' = Overlapped(r, u)
    /\ UNCHANGED <<sweep, window>>

WindowPasses ==
    /\ window < MaxWindows
    /\ \E u \in Users : limiter[u] # None
    /\ window' = window + 1
    /\ misses' = [u \in Users |-> 0]
    /\ UNCHANGED <<stores, limiter, sweep, req, workload, accepted, faults, blind, mixed>>

(* gcLoop ranges over the map and deletes what is old, a load and a delete *)
(* for each key.                                                           *)
SweepFinds(u) ==
    /\ sweep = None
    /\ limiter[u] # None /\ ~Fresh(limiter[u], window)
    /\ sweep' = u
    /\ UNCHANGED <<stores, limiter, window, misses, mixed, req, workload, accepted, faults, blind>>
SweepDeletes ==
    /\ sweep # None
    /\ limiter' = [limiter EXCEPT ![sweep] = None]
    /\ sweep' = None
    /\ UNCHANGED <<stores, window, misses, mixed, req, workload, accepted, faults, blind>>

-----------------------------------------------------------------------------
(* POST /login: AuthHandler.login, AuthService.Authenticate, IssueForUser.  *)

Login(r) == \E u \in Users :
    Accept(r, [Idle EXCEPT !.op = "login", !.pc = "allow", !.user = u, !.now = window])

Allow(r) ==
    LET u == req[r].user  now == req[r].now IN
    /\ At(r, "login", "allow")
    /\ req' = IF limiter[u] # None /\ ~Fresh(limiter[u], now) THEN To(r, "forget")
              ELSE IF Blocked(u, now) THEN Done(r) ELSE To(r, "credentials")
    /\ Reads

Forget(r) ==
    /\ At(r, "login", "forget")
    /\ limiter' = [limiter EXCEPT ![req[r].user] = None]
    /\ mixed' = Overlapped(r, req[r].user)
    /\ req' = To(r, "credentials")
    /\ UNCHANGED <<stores, sweep, window, misses, workload, accepted, faults, blind>>

(* LocalProvider.Authenticate for the right password.                      *)
LocalIdentity(u) == users[u].known /\ users[u].active

(* FindBySubject reads is_active once more.  A wrong password, an unknown  *)
(* user, an inactive user and a failed query are failures for the limiter. *)
Authenticate(r) ==
    /\ At(r, "login", "credentials")
    /\ \/ LocalIdentity(req[r].user) /\ req' = To(r, "issue")
       \/ req' = [req EXCEPT ![r].pc = "strike", ![r].now = window]
    /\ Reads

IssueForUser(r) ==
    /\ At(r, "login", "issue")
    /\ Create(Token(req[r].user, Len(tokens) + 1, req[r].late))
    /\ req' = To(r, "clear")
    /\ UNCHANGED <<users, accounts, limits, workload, accepted, faults, blind>>

OnSuccess(r) ==
    /\ At(r, "login", "clear")
    /\ ClearKey(r, req[r].user)
    /\ req' = Done(r)
    /\ UNCHANGED <<stores, workload, accepted, faults, blind>>

OnFailure(r) ==
    /\ At(r, "login", "strike")
    /\ LET loaded == limiter[req[r].user]  now == req[r].now IN
       req' = [req EXCEPT ![r].pc = "store",
                          ![r].saw = IF Fresh(loaded, now)
                                     THEN [count |-> loaded.count + 1, since |-> loaded.since]
                                     ELSE [count |-> 1, since |-> now]]
    /\ Reads

StoreFailure(r) ==
    LET u == req[r].user IN
    /\ At(r, "login", "store")
    /\ limiter' = [limiter EXCEPT ![u] = req[r].saw]
    /\ misses' = [misses EXCEPT ![u] = IF req[r].now = window THEN @ + 1 ELSE @]
    /\ mixed' = Overlapped(r, u)
    /\ req' = Done(r)
    /\ UNCHANGED <<stores, sweep, window, workload, accepted, faults, blind>>

-----------------------------------------------------------------------------
(* POST /refresh: TokenService.Rotate. *)

Refresh(r) == \E t \in DOMAIN tokens :
    Accept(r, [Idle EXCEPT !.op = "refresh", !.pc = "find", !.id = t])

(* mutant: used_at is not looked at. *)
FindByHashOnly(r) ==
    /\ At(r, "refresh", "find")
    /\ req' = IF ~FoundValid(req[r].id) THEN Done(r) ELSE To(r, "mark")
    /\ Reads
FindByHash(r) ==
    LET t == req[r].id IN
    /\ At(r, "refresh", "find")
    /\ req' = IF ~FoundValid(t) THEN Done(r)
              ELSE IF tokens[t].used THEN To(r, "reuse") ELSE To(r, "mark")
    /\ Reads
(* RevokeFamily as a step of request r, which then ends.                   *)
EndFamily(r, f) ==
    /\ tokens' = RevokeFamily(f)
    /\ req' = Meanwhile(r, Idle,
                        LAMBDA q : Rotating(q, {"mark", "user", "child"}) /\ tokens[req[q].id].family = f,
                        "late")
    /\ UNCHANGED <<users, accounts, limits, workload, accepted, faults, blind>>

ReuseDetected(r) ==
    /\ At(r, "refresh", "reuse")
    /\ EndFamily(r, tokens[req[r].id].family)

(* The UPDATE has no condition on used_at: of two rotations that found the *)
(* token unused, both mark it and both go on.                              *)
MarkUsed(r) ==
    LET t == req[r].id IN
    /\ At(r, "refresh", "mark")
    /\ tokens' = [s \in DOMAIN tokens |->
         [tokens[s] EXCEPT !.used = @ \/ s = t,
                           !.forks = IF s = tokens[t].family /\ req[r].twin THEN @ + 1 ELSE @]]
    /\ req' = Meanwhile(r, [req[r] EXCEPT !.pc = "user"],
                        LAMBDA q : Rotating(q, {"mark"}) /\ req[q].id = t, "twin")
    /\ UNCHANGED <<users, accounts, limits, workload, accepted, faults, blind>>

GetByID(r) ==
    /\ At(r, "refresh", "user")
    /\ req' = To(r, IF users[tokens[req[r].id].user].active THEN "child" ELSE "disable")
    /\ Reads

Rotate(r) ==
    LET parent == tokens[req[r].id] IN
    /\ At(r, "refresh", "child")
    /\ Create(Token(parent.user, parent.family, parent.late \/ req[r].late))
    /\ req' = Done(r)
    /\ UNCHANGED <<users, accounts, limits, workload, accepted, faults, blind>>

UserDisabled(r) ==
    /\ At(r, "refresh", "disable")
    /\ EndFamily(r, tokens[req[r].id].family)

-----------------------------------------------------------------------------
(* POST /logout: AuthHandler.logout, TokenService.Revoke. *)

Logout(r) == \E t \in DOMAIN tokens :
    Accept(r, [Idle EXCEPT !.op = "logout", !.pc = "revoke", !.id = t])

Revoke(r) ==
    /\ At(r, "logout", "revoke")
    /\ EndFamily(r, tokens[req[r].id].family)

-----------------------------------------------------------------------------
(* Administration of users: AdminHandler and AdminService.                 *)

Actors == {u \in Users : users[u].granted}
AdminRequest(op, pc, actor, u) ==
    [Idle EXCEPT !.op = op, !.pc = pc, !.actor = actor, !.user = u]

CreateUser(r) == \E a \in Actors, u \in Users, roles \in SUBSET Roles :
    Accept(r, [AdminRequest("createUser", "create", a, u) EXCEPT !.roles = roles])
UpdateUser(r) == \E a \in Actors, u \in Users, active \in BOOLEAN :
    Accept(r, [AdminRequest("updateUser", "read", a, u) EXCEPT !.want = active])
DeleteUser(r) == \E a \in Actors, u \in Users :
    Accept(r, [AdminRequest("deleteUser", "read", a, u) EXCEPT !.want = FALSE])
SetUserRoles(r) == \E a \in Actors, u \in Users, roles \in SUBSET Roles :
    Accept(r, [AdminRequest("setUserRoles", "read", a, u) EXCEPT !.roles = roles])
RemoveUserRole(r) == \E a \in Actors, u \in Users, role \in Roles :
    Accept(r, [AdminRequest("removeUserRole", "current", a, u) EXCEPT !.roles = {role}])
RevokeUserSessions(r) == \E a \in Actors, u \in Users :
    Accept(r, AdminRequest("revokeSessions", "read", a, u))

Deactivations == {"updateUser", "deleteUser"}
RoleChanges == {"setUserRoles", "removeUserRole"}

(* RemoveUserRole reads the roles, takes one away and sets the rest.       *)
CurrentRoles(r) ==
    /\ At(r, "removeUserRole", "current")
    /\ req' = [req EXCEPT ![r].pc = "read", ![r].roles = users[req[r].user].roles \ @]
    /\ Reads

(* What each use case does with the row that FindByID returned.            *)
UpdateUserUseCase(q, row) ==
    IF ~row.known THEN "done" ELSE IF ~q.want /\ row.active THEN "roles" ELSE "write"
DeactivateUserUseCase(row) == IF row.active THEN "roles" ELSE "done"
SetUserRolesUseCase(row) == IF row.known THEN "roles" ELSE "done"
RevokeUserSessionsUseCase(row) == IF row.known THEN "revoke" ELSE "done"

Continue(r, q, pc) == [req EXCEPT ![r] = IF pc = "done" THEN Idle ELSE [q EXCEPT !.pc = pc]]

FindByID(r) ==
    LET q == req[r]  row == users[q.user] IN
    /\ q.pc = "read"
    /\ req' = Continue(r, [q EXCEPT !.saw = row.active],
                      CASE q.op = "updateUser" -> UpdateUserUseCase(q, row)
                        [] q.op = "deleteUser" -> DeactivateUserUseCase(row)
                        [] q.op \in RoleChanges -> SetUserRolesUseCase(row)
                        [] q.op = "revokeSessions" -> RevokeUserSessionsUseCase(row))
    /\ Reads

(* GetRoles and the rules on it: nobody takes the admin role, or the       *)
(* account, from themselves, and an active admin goes only after a count.  *)
GetRoles(r) ==
    LET q == req[r]
        demotes == "admin" \in users[q.user].roles
                   /\ (q.op \in RoleChanges => "admin" \notin q.roles)
        change == IF q.op \in RoleChanges THEN "clear" ELSE "write"
    IN
    /\ q.pc = "roles"
    /\ req' = Continue(r, q, IF demotes /\ q.actor = q.user THEN "done"
                            ELSE IF demotes /\ q.saw THEN "count" ELSE change)
    /\ Reads

CountAdmins(r) ==
    /\ req[r].pc = "count"
    /\ req' = Continue(r, req[r], IF CountActiveAdminsExcluding(req[r].user) = 0 THEN "done"
                                 ELSE IF req[r].op \in RoleChanges THEN "clear" ELSE "write")
    /\ Reads

(* A committed change of a user.  When it takes away an active admin, what *)
(* other requests have read is stale.  CreateUser is among them: it sets   *)
(* the roles of a user whom others may have changed since it was inserted. *)
Administers(q) == req[q].op \in Deactivations \cup RoleChanges \cup {"createUser"}
ChangeUser(r, u, row, pc) ==
    LET removes == ~(ActiveAdmins(users) \subseteq ActiveAdmins([users EXCEPT ![u] = row])) IN
    /\ users' = [users EXCEPT ![u] = row]
    /\ req' = Meanwhile(r, Continue(r, req[r], pc)[r],
                        LAMBDA q : removes /\ Administers(q), "stale")
    /\ blind' = (blind \/ (removes /\ req[r].stale))
    /\ UNCHANGED <<tokens, accounts, limits, workload, accepted, faults>>

(* UserRepository.Update, of is_active alone; a user that is deactivated   *)
(* without a revocation to follow is "kept".                               *)
Update(u, active, revokes) ==
    [users[u] EXCEPT !.active = active,
                     !.kept = ~active /\ ~revokes /\ (@ \/ users[u].active)]

(* The sessions are revoked afterwards, if the user was active when the    *)
(* request read it.                                                        *)
WriteUser(r) ==
    LET u == req[r].user  ends == ~req[r].want /\ req[r].saw IN
    /\ req[r].op \in Deactivations /\ req[r].pc = "write"
    /\ ChangeUser(r, u, Update(u, req[r].want, ends), IF ends THEN "revoke" ELSE "done")

(* mutant: the sessions outlive the deactivation. *)
RevokeNothing(r) ==
    /\ req[r].op \in Deactivations \cup {"revokeSessions"} /\ req[r].pc = "revoke"
    /\ req' = Done(r)
    /\ Reads
RevokeSessions(r) ==
    LET u == req[r].user IN
    /\ req[r].op \in Deactivations \cup {"revokeSessions"} /\ req[r].pc = "revoke"
    /\ tokens' = RevokeAllForUser(u)
    /\ users' = [users EXCEPT ![u].kept = FALSE]
    /\ req' = Meanwhile(r, Idle,
                        LAMBDA q : \/ Rotating(q, {"mark", "user", "child"}) /\ tokens[req[q].id].user = u
                                   \/ At(q, "login", "issue") /\ req[q].user = u, "late")
    /\ UNCHANGED <<accounts, limits, workload, accepted, faults, blind>>
(* The row that UserRepository.Create inserts: no roles as yet.            *)
CreatedUser == User({})
InsertUser(r) ==
    LET u == req[r].user IN
    /\ At(r, "createUser", "create")
    /\ IF users[u].known THEN req' = Done(r) /\ UNCHANGED users
       ELSE req' = To(r, "clear") /\ users' = [users EXCEPT ![u] = CreatedUser]
    /\ UNCHANGED <<tokens, accounts, limits, workload, accepted, faults, blind>>

(* SetRoles, one transaction.  Its DELETE finds the rows that are committed *)
(* when it starts, waits while another SetRoles that has deleted one of     *)
(* them is not committed, and then removes those that are still there.      *)
RoleRows(u) == {<<role, users[u].rows[role]>> : role \in users[u].roles}
RowsLocked(r, rows) == \E q \in Slots \ {r} :
    req[q].pc = "grant" /\ req[q].user = req[r].user /\ req[q].saw \cap rows # {}

ClearRoles(r) ==
    LET rows == RoleRows(req[r].user) IN
    /\ req[r].pc = "clear" /\ req[r].op \in RoleChanges \cup {"createUser"}
    /\ req' = [req EXCEPT ![r].pc = IF RowsLocked(r, rows) THEN "wait" ELSE "grant", ![r].saw = rows]
    /\ Reads

RowsUnlocked(r) ==
    /\ req[r].pc = "wait" /\ req[r].op \in RoleChanges \cup {"createUser"}
    /\ ~RowsLocked(r, req[r].saw)
    /\ req' = To(r, "grant")
    /\ Reads

(* The INSERTs, which fail on a row that the DELETE did not see, and the   *)
(* COMMIT.                                                                 *)
Regranted(row, granted, kept) ==
    [row EXCEPT !.roles = granted \cup kept,
                !.rows = [role \in Roles |-> IF role \in granted THEN @[role] + 1 ELSE @[role]],
                !.granted = @ \/ "admin" \in granted \cup kept]
GrantRoles(r) ==
    LET u == req[r].user
        unseen == {role \in users[u].roles : <<role, users[u].rows[role]>> \notin req[r].saw}
    IN
    /\ req[r].pc = "grant" /\ req[r].op \in RoleChanges \cup {"createUser"}
    /\ IF unseen \cap req[r].roles # {}
       THEN req' = Done(r) /\ Reads
       ELSE ChangeUser(r, u, Regranted(users[u], req[r].roles, unseen), "done")

-----------------------------------------------------------------------------
(* Service accounts.  The rows all have the same client_id here, which is  *)
(* unique, so at most one is present; a deleted row's id never returns.    *)

ScopeSets == {{"read"}, {"read", "write"}}
AccountRequest(op, pc, a) == [Idle EXCEPT !.op = op, !.pc = pc, !.id = a]

CreateServiceAccount(r) == \E scopes \in ScopeSets :
    Accept(r, [AccountRequest("createAccount", "create", 0) EXCEPT !.roles = scopes])
(* is_active and the scopes are each given or left out (None, {}).         *)
UpdateServiceAccount(r) ==
    \E a \in DOMAIN accounts, active \in BOOLEAN \cup {None}, scopes \in ScopeSets \cup {{}} :
        Accept(r, [AccountRequest("updateAccount", "find", a) EXCEPT !.want = active, !.roles = scopes])
RotateServiceAccountSecret(r) == \E a \in DOMAIN accounts :
    Accept(r, AccountRequest("rotateSecret", "find", a))
DeleteServiceAccount(r) == \E a \in DOMAIN accounts :
    Accept(r, AccountRequest("deleteAccount", "find", a))
IssueServiceToken(r) ==
    \E a \in DOMAIN accounts : \E scopes \in ScopeSets \cup {{}}, secret \in 1..accounts[a].secret :
        Accept(r, [AccountRequest("serviceToken", "find", a) EXCEPT !.roles = scopes, !.want = secret])

InsertAccount(r) ==
    /\ At(r, "createAccount", "create")
    /\ IF \E a \in DOMAIN accounts : accounts[a].present THEN UNCHANGED accounts
       ELSE Len(accounts) < MaxAccounts /\ accounts' = Append(accounts, Account(req[r].roles))
    /\ req' = Done(r)
    /\ UNCHANGED <<users, tokens, limits, workload, accepted, faults, blind>>

(* The secret must be the current one, the account active, and all the     *)
(* scopes asked for must be allowed (resolveGrantedScopes).                *)
Granted(row, q) == q.want = row.secret /\ row.active /\ q.roles \subseteq row.scopes

(* What each use case does with the row that it found.                     *)
UpdateAccountUseCase(row) == IF row.present THEN "write" ELSE "done"
RotateSecretUseCase(row) == IF row.present THEN "write" ELSE "done"
DeleteAccountUseCase(row) == IF row.present THEN "write" ELSE "done"
ServiceTokenUseCase(q, row) == IF row.present /\ Granted(row, q) THEN "write" ELSE "done"

AccountOps == {"updateAccount", "rotateSecret", "deleteAccount", "serviceToken"}

(* FindByID or FindByClientID: the whole row is read.                      *)
FindAccount(r) ==
    LET q == req[r]  row == accounts[q.id] IN
    /\ q.pc = "find" /\ q.op \in AccountOps
    /\ req' = Continue(r, [q EXCEPT !.saw = row],
                      CASE q.op = "updateAccount" -> UpdateAccountUseCase(row)
                        [] q.op = "rotateSecret" -> RotateSecretUseCase(row)
                        [] q.op = "deleteAccount" -> DeleteAccountUseCase(row)
                        [] q.op = "serviceToken" -> ServiceTokenUseCase(q, row))
    /\ Reads

(* mutant: an update that does not mention is_active switches the account on. *)
MergedActive(q) == [q.saw EXCEPT !.active = IF q.want = None THEN TRUE ELSE q.want,
                                 !.scopes = IF q.roles = {} THEN @ ELSE q.roles]
(* The row that UpdateServiceAccount writes: all of it, as it was read,    *)
(* with the fields of the request over it.                                 *)
Merged(q) == [q.saw EXCEPT !.active = IF q.want = None THEN @ ELSE q.want,
                           !.scopes = IF q.roles = {} THEN @ ELSE q.roles]
(* client_secret_hash and last_used_at are not among the columns of Update. *)
UpdateAccountRow(old, new) == [new EXCEPT !.secret = old.secret, !.lastUsed = old.lastUsed]
UpdateSecretHash(old) == [old EXCEPT !.secret = @ + 1]
DeleteAccountRow(old) == [old EXCEPT !.present = FALSE]
UpdateLastUsed(old) == [old EXCEPT !.lastUsed = TRUE]

(* UPDATE ... WHERE id and DELETE ... WHERE id: nothing for a row that is  *)
(* gone.                                                                   *)
WriteAccount(r) ==
    LET q == req[r]  a == q.id IN
    /\ q.pc = "write" /\ q.op \in AccountOps
    /\ accounts' = IF ~accounts[a].present THEN accounts
                   ELSE [accounts EXCEPT ![a] =
                            CASE q.op = "updateAccount" -> UpdateAccountRow(@, Merged(q))
                              [] q.op = "rotateSecret" -> UpdateSecretHash(@)
                              [] q.op = "deleteAccount" -> DeleteAccountRow(@)
                              [] q.op = "serviceToken" -> UpdateLastUsed(@)]
    /\ req' = Meanwhile(r, Idle, LAMBDA p : At(p, "updateAccount", "write") /\ req[p].id = a
                                            /\ q.op = "updateAccount", "stale")
    /\ UNCHANGED <<users, tokens, limits, workload, accepted, faults, blind>>

-----------------------------------------------------------------------------
(* A statement fails (a lost connection, a request its client cancelled),  *)
(* or the process restarts and every request and the limiter are gone.     *)

(* What a request leaves half done: a rotation that has marked its token,  *)
(* a deactivation that has not revoked the sessions.                       *)
Turning(f) == {r \in Slots : Rotating(r, {"user", "child", "disable"}) /\ tokens[req[r].id].family = f}
LostBy(rs, f) == Cardinality(rs \cap Turning(f))
Abandon(rs) ==
    /\ tokens' = [t \in DOMAIN tokens |-> [tokens[t] EXCEPT !.lost = @ + LostBy(rs, t)]]
    /\ users' = [u \in Users |-> [users[u] EXCEPT !.kept = @ \/ \E r \in rs :
                    req[r].op \in Deactivations /\ req[r].pc = "revoke" /\ req[r].user = u]]
    /\ faults < MaxFaults
    /\ faults' = faults + 1
    /\ UNCHANGED <<accounts, window, workload, accepted, blind>>

InMemory == {"allow", "forget", "strike", "store", "clear"}
StatementFails(r) ==
    /\ req[r] # Idle
    /\ ~(req[r].op = "login" /\ req[r].pc \in InMemory \cup {"credentials"})
    /\ Abandon({r})
    /\ req' = Done(r)
    /\ UNCHANGED <<limiter, sweep, misses, mixed>>

Restart ==
    /\ Abandon(Slots)
    /\ req' = [r \in Slots |-> Idle]
    /\ limiter' = [u \in Users |-> None]
    /\ sweep' = None
    /\ misses' = [u \in Users |-> 0]
    /\ mixed' = {}

(* expires_at passes.  Nothing deletes expired rows: DeleteExpired has no  *)
(* caller.                                                                 *)
Expire == \E t \in DOMAIN tokens :
    /\ ~tokens[t].expired
    /\ tokens' = [tokens EXCEPT ![t].expired = TRUE]
    /\ UNCHANGED <<users, accounts, limits, req, workload, accepted, faults, blind>>

-----------------------------------------------------------------------------
AuthRequest(r) == Login(r) \/ Refresh(r) \/ Logout(r)
LoginStep(r) ==
    \/ Allow(r) \/ Forget(r) \/ Authenticate(r) \/ IssueForUser(r)
    \/ OnSuccess(r) \/ OnFailure(r) \/ StoreFailure(r)
TokenStep(r) ==
    \/ FindByHash(r) \/ ReuseDetected(r) \/ MarkUsed(r) \/ GetByID(r)
    \/ Rotate(r) \/ UserDisabled(r) \/ Revoke(r)
UsersRequest(r) ==
    \/ CreateUser(r) \/ UpdateUser(r) \/ DeleteUser(r)
    \/ SetUserRoles(r) \/ RemoveUserRole(r) \/ RevokeUserSessions(r)
UsersStep(r) ==
    \/ CurrentRoles(r) \/ FindByID(r) \/ GetRoles(r) \/ CountAdmins(r) \/ WriteUser(r)
    \/ RevokeSessions(r) \/ InsertUser(r) \/ ClearRoles(r) \/ RowsUnlocked(r) \/ GrantRoles(r)
AccountRequests(r) ==
    \/ CreateServiceAccount(r) \/ UpdateServiceAccount(r) \/ RotateServiceAccountSecret(r)
    \/ DeleteServiceAccount(r) \/ IssueServiceToken(r)
AccountStep(r) == InsertAccount(r) \/ FindAccount(r) \/ WriteAccount(r)

Next ==
    \/ \E r \in Slots : \/ AuthRequest(r) \/ LoginStep(r) \/ TokenStep(r)
                        \/ UsersRequest(r) \/ UsersStep(r)
                        \/ AccountRequests(r) \/ AccountStep(r)
                        \/ StatementFails(r)
    \/ Restart
    \/ Expire
    \/ WindowPasses
    \/ \E u \in Users : SweepFinds(u)
    \/ SweepDeletes

Spec == Init /\ [][Next]_vars

-----------------------------------------------------------------------------
(* Rows and requests have their types, a family starts with the row it is  *)
(* named after, and all tokens of a family belong to one user.             *)
TypeOK ==
    /\ \A u \in Users : users[u].roles \subseteq Roles /\ users[u].active \in BOOLEAN
                        /\ (users[u].active \/ users[u].roles # {} => users[u].known)
    /\ \A t \in DOMAIN tokens :
        LET root == tokens[t].family IN
        /\ root \in 1..t /\ tokens[root].family = root
        /\ tokens[root].user = tokens[t].user
    /\ \A r \in Slots : (req[r].op = "none") = (req[r].pc = "none")
    /\ \A u \in Users : limiter[u] # None => limiter[u].count \in 1..MaxRequests

(* A session that was not revoked has exactly one refresh token that can   *)
(* still be used, or a rotation in progress that will create it: a refresh *)
(* neither doubles the session nor loses it.  The exceptions are counted:  *)
(* one more for each rotation that overlapped another of the same token    *)
(* (TokenService.Rotate checks used_at and sets it in two statements), one *)
(* less for each that failed after it had marked the token.                *)
OneHead ==
    \A f \in DOMAIN tokens :
        tokens[f].family = f /\ (\A t \in Family(f) : ~tokens[t].revoked) =>
            Cardinality({t \in Family(f) : ~tokens[t].used})
              + Cardinality(Turning(f)) + tokens[f].lost
            = 1 + tokens[f].forks

(* A session that was logged out, revoked by an administrator or ended by  *)
(* the reuse of a token has no usable token left, except what a rotation   *)
(* that had found its token before the revocation has created since.       *)
RevocationHolds ==
    \A t \in DOMAIN tokens :
        Usable(t) /\ (\E s \in Family(tokens[t].family) : tokens[s].revoked) => tokens[t].late

(* A deactivated user has no usable token, except while the deactivation   *)
(* has still to revoke them, after it failed to ("kept": DELETE does not   *)
(* try again, the user is inactive already), or when a login or a rotation *)
(* had read the user as active.                                            *)
SignedOut ==
    \A t \in DOMAIN tokens :
        LET u == tokens[t].user IN
        Usable(t) /\ ~users[u].active =>
            \/ tokens[t].late
            \/ users[u].kept
            \/ \E r \in Slots : req[r].op \in Deactivations /\ req[r].pc = "revoke" /\ req[r].user = u

(* There is always an active administrator, unless two requests that each  *)
(* took one away overlapped: the count and the write it allows are two     *)
(* statements of no common transaction.                                    *)
AdminRemains == blind \/ ActiveAdmins(users) # {}

(* The limiter lets no more logins fail in a window, by the clock of their *)
(* OnFailure, than its maximum and those already on their way, unless two writers of the same  *)
(* key overlapped (the map entry is loaded and stored without a lock).     *)
AttemptsLimited ==
    \A u \in Users : u \in mixed \/ misses[u] <= MaxStrikes + Cardinality(Slots) - 1

(* The switch and the scopes of a service account change only to what a    *)
(* request asked for, or back to what a request had read before another    *)
(* one's write: the update writes the whole row.  The secret is not part   *)
(* of that, so a replaced secret does not come back.                       *)
ChangedBy(a, asked(_)) ==
    \E r \in Slots : /\ At(r, "updateAccount", "write") /\ req[r].id = a /\ req'[r] = Idle
                     /\ asked(r) \/ req[r].stale
AccountChangesAsked ==
    [][\A a \in DOMAIN accounts :
        /\ accounts'[a].active # accounts[a].active =>
               ChangedBy(a, LAMBDA r : req[r].want = accounts'[a].active)
        /\ accounts'[a].scopes # accounts[a].scopes =>
               ChangedBy(a, LAMBDA r : req[r].roles = accounts'[a].scopes)
        /\ accounts'[a].secret >= accounts[a].secret]_vars

=============================================================================
