--------------------------- MODULE SessionsProofs ---------------------------
(***************************************************************************)
(* Proofs about Sessions, for any users, requests in progress, workloads   *)
(* and faults.  Six inductive invariants: one follows a rotation from the  *)
(* step that found its token to the child it creates, one a change of a    *)
(* user from what it read to what it writes, one a login or a rotation     *)
(* from the step that found the user active to the token it creates, one   *)
(* an update of a service account from the row it read to the row it       *)
(* writes, one counts the tokens a session can go on with, one the logins  *)
(* that the limiter has let through.                                       *)
(***************************************************************************)
EXTENDS Sessions, FiniteSetTheorems, SequenceTheorems, TLAPS

UserOps == Deactivations \cup RoleChanges \cup {"createUser", "revokeSessions"}

UserFields == {"known", "active", "roles", "rows", "granted", "kept"}
UserShaped(row) == row = [f \in UserFields |-> row[f]]

TokenRow == [user : Users, family : Nat, used : BOOLEAN, revoked : BOOLEAN,
             expired : BOOLEAN, late : BOOLEAN, forks : Int, lost : Int]

\* A request has its fields, names rows that exist, and is at a step of its handler.
Fields == {"op", "pc", "actor", "user", "id", "want", "roles", "saw", "now",
           "stale", "late", "twin"}
Shaped(q) == q = [f \in Fields |-> q[f]]
Proper(q, rows) ==
    /\ q.late \in BOOLEAN
    /\ q.op \in UserOps \cup {"login"} => q.user \in Users
    /\ q.op \in {"refresh", "logout"} => q.id \in rows
    /\ q.pc = "read" => q.op \in Deactivations \cup RoleChanges \cup {"revokeSessions"}
    /\ q.pc \in {"roles", "count"} => q.op \in Deactivations \cup RoleChanges

UsersTyped ==
    /\ users = [u \in Users |-> users[u]]
    /\ \A u \in Users : UserShaped(users[u])
\* A family is named after its first token, and has one user.
TokensTyped ==
    /\ tokens \in Seq(TokenRow)
    /\ \A t \in DOMAIN tokens :
          /\ tokens[t].family \in DOMAIN tokens
          /\ tokens[tokens[t].family].user = tokens[t].user
RequestsTyped ==
    /\ req = [r \in Slots |-> req[r]]
    /\ \A r \in Slots : Shaped(req[r]) /\ Proper(req[r], DOMAIN tokens)

Typed == UsersTyped /\ TokensTyped /\ RequestsTyped

-----------------------------------------------------------------------------
(* A step of slot r leaves what other requests are about to do alone, and  *)
(* ends the request or goes on with it.                                    *)

Stays(q) ==
    /\ req'[q].op = req[q].op /\ req'[q].pc = req[q].pc
    /\ req'[q].user = req[q].user /\ req'[q].id = req[q].id
    /\ req'[q].want = req[q].want /\ req'[q].roles = req[q].roles /\ req'[q].saw = req[q].saw
    /\ req'[q].now = req[q].now
    /\ req[q].late => req'[q].late
    /\ req[q].stale => req'[q].stale
    /\ \/ req'[q].twin = req[q].twin
       \/ req[q].pc = "mark" /\ req'[q].twin = TRUE /\ tokens'[req[q].id].used = TRUE

GoesOn(r) ==
    /\ req'[r].op = req[r].op /\ req'[r].user = req[r].user /\ req'[r].want = req[r].want
    /\ req'[r].id = req[r].id /\ req'[r].now \in {req[r].now, window}
    /\ req'[r].late = req[r].late /\ req'[r].stale = req[r].stale /\ req'[r].twin = req[r].twin

RequestStep(r) ==
    /\ RequestsTyped'
    /\ \A q \in Slots \ {r} : Stays(q)
    /\ req'[r] = Idle \/ GoesOn(r)

LEMMA IdleProper == Shaped(Idle) /\ \A rows : Proper(Idle, rows)
BY DEF Shaped, Fields, Proper, Idle, UserOps, Deactivations, RoleChanges

\* The request of slot r is replaced, and others are marked.
LEMMA MeanwhileStep ==
    ASSUME RequestsTyped, NEW r \in Slots, NEW new, NEW hit,
           NEW mark \in {"late", "stale", "twin"},
           mark = "twin" => \A q \in hit : req[q].pc = "mark" /\ tokens'[req[q].id].used = TRUE,
           req' = [q \in Slots |-> IF q = r THEN new
                                   ELSE IF q \in hit THEN [req[q] EXCEPT ![mark] = TRUE]
                                   ELSE req[q]],
           DOMAIN tokens \subseteq DOMAIN tokens',
           Shaped(new), Proper(new, DOMAIN tokens')
    PROVE  /\ RequestsTyped'
           /\ req'[r] = new
           /\ \A q \in Slots \ {r} : Stays(q)
           /\ \A q \in Slots \ {r} : q \in hit => req'[q] = [req[q] EXCEPT ![mark] = TRUE]
<1>1. req' = [q \in Slots |-> req'[q]] /\ req'[r] = new
  OBVIOUS
<1>2. ASSUME NEW q \in Slots \ {r}
      PROVE  /\ Stays(q) /\ Shaped(req'[q]) /\ Proper(req'[q], DOMAIN tokens')
             /\ q \in hit => req'[q] = [req[q] EXCEPT ![mark] = TRUE]
  <2>1. req'[q] = IF q \in hit THEN [req[q] EXCEPT ![mark] = TRUE] ELSE req[q]
    BY <1>2
  <2>2. Shaped(req[q]) /\ Proper(req[q], DOMAIN tokens)
    BY DEF RequestsTyped
  <2>3. CASE q \in hit
    <3>1. CASE mark = "twin"
      BY <2>1, <2>2, <2>3, <3>1 DEF Shaped, Fields, Proper, Stays
    <3>2. CASE mark # "twin"
      BY <2>1, <2>2, <2>3, <3>2 DEF Shaped, Fields, Proper, Stays
    <3> QED BY <3>1, <3>2
  <2>4. CASE q \notin hit
    BY <2>1, <2>2, <2>4 DEF Proper, Stays
  <2> QED BY <2>1, <2>3, <2>4
<1> QED BY <1>1, <1>2 DEF RequestsTyped

LEMMA ReplaceStep ==
    ASSUME RequestsTyped, NEW r \in Slots, NEW new,
           req' = [req EXCEPT ![r] = new],
           DOMAIN tokens \subseteq DOMAIN tokens',
           Shaped(new), Proper(new, DOMAIN tokens')
    PROVE  /\ RequestsTyped'
           /\ req'[r] = new
           /\ \A q \in Slots \ {r} : Stays(q)
BY DEF RequestsTyped, Proper, Stays

\* The next statement of a handler.
LEMMA ToStep ==
    ASSUME RequestsTyped, NEW r \in Slots, NEW pc, req' = To(r, pc),
           pc \notin {"read", "roles", "count"},
           DOMAIN tokens \subseteq DOMAIN tokens'
    PROVE  RequestStep(r) /\ GoesOn(r) /\ req'[r].pc = pc
<1> DEFINE new == [req[r] EXCEPT !.pc = pc]
<1>1. Shaped(req[r]) /\ Proper(req[r], DOMAIN tokens)
  BY DEF RequestsTyped
<1>2. /\ Shaped(new) /\ new.pc = pc /\ new.op = req[r].op /\ new.user = req[r].user
      /\ new.id = req[r].id /\ new.want = req[r].want
      /\ new.late = req[r].late /\ new.stale = req[r].stale /\ new.twin = req[r].twin
      /\ new.now = req[r].now
  BY <1>1 DEF Shaped, Fields
<1>3. Proper(new, DOMAIN tokens')
  BY <1>1, <1>2 DEF Proper
<1>4. req' = [req EXCEPT ![r] = new]
  BY DEF To
<1> HIDE DEF new
<1> QED BY <1>2, <1>3, <1>4, ReplaceStep DEF RequestStep, GoesOn

LEMMA DoneStep ==
    ASSUME RequestsTyped, NEW r \in Slots, req' = Done(r), DOMAIN tokens \subseteq DOMAIN tokens'
    PROVE  RequestStep(r) /\ req'[r] = Idle
BY IdleProper, ReplaceStep DEF RequestStep, Done

-----------------------------------------------------------------------------
(* A request is accepted: it has decided nothing.                          *)

LEMMA AcceptStep ==
    ASSUME RequestsTyped, NEW r \in Slots, NEW new, Accept(r, new),
           Shaped(new), Proper(new, DOMAIN tokens), new.twin = FALSE, new.now \in {0, window},
           new.pc \in {"allow", "find", "create", "read", "current"}
           \/ (new.op = "logout" /\ new.pc = "revoke")
    PROVE  /\ RequestsTyped' /\ UNCHANGED <<stores, limits, blind>>
           /\ req[r] = Idle /\ req'[r].twin = FALSE /\ req'[r].now \in {0, window}
           /\ \A q \in Slots \ {r} : Stays(q)
           /\ \/ req'[r].pc \in {"allow", "find", "create", "read", "current"}
              \/ req'[r].op = "logout" /\ req'[r].pc = "revoke"
<1>1. /\ UNCHANGED <<stores, limits, blind, tokens>> /\ req[r] = Idle
      /\ req' = [req EXCEPT ![r] = new]
  BY DEF Accept, stores
<1>2. Proper(new, DOMAIN tokens') /\ DOMAIN tokens \subseteq DOMAIN tokens'
  BY <1>1
<1>3. RequestsTyped' /\ req'[r] = new /\ \A q \in Slots \ {r} : Stays(q)
  BY <1>1, <1>2, ReplaceStep
<1> QED BY <1>1, <1>3

LEMMA RequestAccepted ==
    ASSUME RequestsTyped, NEW r \in Slots,
           AuthRequest(r) \/ UsersRequest(r) \/ AccountRequests(r)
    PROVE  /\ RequestsTyped' /\ UNCHANGED <<stores, limits, blind>>
           /\ req[r] = Idle /\ req'[r].twin = FALSE /\ req'[r].now \in {0, window}
           /\ \A q \in Slots \ {r} : Stays(q)
           /\ \/ req'[r].pc \in {"allow", "find", "create", "read", "current"}
              \/ req'[r].op = "logout" /\ req'[r].pc = "revoke"
<1> USE DEF Shaped, Fields, Proper, UserOps, Deactivations, RoleChanges
<1>1. CASE Login(r)
  <2>1. PICK u \in Users : Accept(r, [Idle EXCEPT !.op = "login", !.pc = "allow", !.user = u, !.now = window])
    BY <1>1 DEF Login
  <2> DEFINE new == [Idle EXCEPT !.op = "login", !.pc = "allow", !.user = u, !.now = window]
  <2>2. Shaped(new) /\ Proper(new, DOMAIN tokens) /\ new.twin = FALSE /\ new.now = window /\ new.op = "login" /\ new.pc = "allow"
    BY DEF Idle
  <2> QED BY <2>1, <2>2, AcceptStep
<1>2. CASE Refresh(r)
  <2>1. PICK t \in DOMAIN tokens :
          Accept(r, [Idle EXCEPT !.op = "refresh", !.pc = "find", !.id = t])
    BY <1>2 DEF Refresh
  <2> DEFINE new == [Idle EXCEPT !.op = "refresh", !.pc = "find", !.id = t]
  <2>2. Shaped(new) /\ Proper(new, DOMAIN tokens) /\ new.twin = FALSE /\ new.now = 0 /\ new.op = "refresh" /\ new.pc = "find"
    BY DEF Idle
  <2> QED BY <2>1, <2>2, AcceptStep
<1>3. CASE Logout(r)
  <2>1. PICK t \in DOMAIN tokens :
          Accept(r, [Idle EXCEPT !.op = "logout", !.pc = "revoke", !.id = t])
    BY <1>3 DEF Logout
  <2> DEFINE new == [Idle EXCEPT !.op = "logout", !.pc = "revoke", !.id = t]
  <2>2. Shaped(new) /\ Proper(new, DOMAIN tokens) /\ new.twin = FALSE /\ new.now = 0 /\ new.op = "logout" /\ new.pc = "revoke"
    BY DEF Idle
  <2> QED BY <2>1, <2>2, AcceptStep
<1>4. CASE CreateUser(r)
  <2>1. PICK a \in Actors, u \in Users, roles \in SUBSET Roles :
          Accept(r, [AdminRequest("createUser", "create", a, u) EXCEPT !.roles = roles])
    BY <1>4 DEF CreateUser
  <2> DEFINE new == [AdminRequest("createUser", "create", a, u) EXCEPT !.roles = roles]
  <2>2. Shaped(new) /\ Proper(new, DOMAIN tokens) /\ new.twin = FALSE /\ new.now = 0 /\ new.op = "createUser" /\ new.pc = "create"
    BY DEF Idle, AdminRequest
  <2> QED BY <2>1, <2>2, AcceptStep
<1>5. CASE UpdateUser(r)
  <2>1. PICK a \in Actors, u \in Users, active \in BOOLEAN :
          Accept(r, [AdminRequest("updateUser", "read", a, u) EXCEPT !.want = active])
    BY <1>5 DEF UpdateUser
  <2> DEFINE new == [AdminRequest("updateUser", "read", a, u) EXCEPT !.want = active]
  <2>2. Shaped(new) /\ Proper(new, DOMAIN tokens) /\ new.twin = FALSE /\ new.now = 0 /\ new.op = "updateUser" /\ new.pc = "read"
    BY DEF Idle, AdminRequest
  <2> QED BY <2>1, <2>2, AcceptStep
<1>6. CASE DeleteUser(r)
  <2>1. PICK a \in Actors, u \in Users :
          Accept(r, [AdminRequest("deleteUser", "read", a, u) EXCEPT !.want = FALSE])
    BY <1>6 DEF DeleteUser
  <2> DEFINE new == [AdminRequest("deleteUser", "read", a, u) EXCEPT !.want = FALSE]
  <2>2. Shaped(new) /\ Proper(new, DOMAIN tokens) /\ new.twin = FALSE /\ new.now = 0 /\ new.op = "deleteUser" /\ new.pc = "read"
    BY DEF Idle, AdminRequest
  <2> QED BY <2>1, <2>2, AcceptStep
<1>7. CASE SetUserRoles(r)
  <2>1. PICK a \in Actors, u \in Users, roles \in SUBSET Roles :
          Accept(r, [AdminRequest("setUserRoles", "read", a, u) EXCEPT !.roles = roles])
    BY <1>7 DEF SetUserRoles
  <2> DEFINE new == [AdminRequest("setUserRoles", "read", a, u) EXCEPT !.roles = roles]
  <2>2. Shaped(new) /\ Proper(new, DOMAIN tokens) /\ new.twin = FALSE /\ new.now = 0 /\ new.op = "setUserRoles" /\ new.pc = "read"
    BY DEF Idle, AdminRequest
  <2> QED BY <2>1, <2>2, AcceptStep
<1>8. CASE RemoveUserRole(r)
  <2>1. PICK a \in Actors, u \in Users, role \in Roles :
          Accept(r, [AdminRequest("removeUserRole", "current", a, u) EXCEPT !.roles = {role}])
    BY <1>8 DEF RemoveUserRole
  <2> DEFINE new == [AdminRequest("removeUserRole", "current", a, u) EXCEPT !.roles = {role}]
  <2>2. Shaped(new) /\ Proper(new, DOMAIN tokens) /\ new.twin = FALSE /\ new.now = 0 /\ new.op = "removeUserRole" /\ new.pc = "current"
    BY DEF Idle, AdminRequest
  <2> QED BY <2>1, <2>2, AcceptStep
<1>9. CASE RevokeUserSessions(r)
  <2>1. PICK a \in Actors, u \in Users : Accept(r, AdminRequest("revokeSessions", "read", a, u))
    BY <1>9 DEF RevokeUserSessions
  <2> DEFINE new == AdminRequest("revokeSessions", "read", a, u)
  <2>2. Shaped(new) /\ Proper(new, DOMAIN tokens) /\ new.twin = FALSE /\ new.now = 0 /\ new.op = "revokeSessions" /\ new.pc = "read"
    BY DEF Idle, AdminRequest
  <2> QED BY <2>1, <2>2, AcceptStep
<1>10. CASE CreateServiceAccount(r)
  <2>1. PICK scopes \in ScopeSets :
          Accept(r, [AccountRequest("createAccount", "create", 0) EXCEPT !.roles = scopes])
    BY <1>10 DEF CreateServiceAccount
  <2> DEFINE new == [AccountRequest("createAccount", "create", 0) EXCEPT !.roles = scopes]
  <2>2. Shaped(new) /\ Proper(new, DOMAIN tokens) /\ new.twin = FALSE /\ new.now = 0 /\ new.op = "createAccount" /\ new.pc = "create"
    BY DEF Idle, AccountRequest
  <2> QED BY <2>1, <2>2, AcceptStep
<1>11. CASE UpdateServiceAccount(r)
  <2>1. PICK a \in DOMAIN accounts, active \in BOOLEAN \cup {None}, scopes \in ScopeSets \cup {{}} :
          Accept(r, [AccountRequest("updateAccount", "find", a) EXCEPT !.want = active, !.roles = scopes])
    BY <1>11 DEF UpdateServiceAccount
  <2> DEFINE new == [AccountRequest("updateAccount", "find", a) EXCEPT !.want = active, !.roles = scopes]
  <2>2. Shaped(new) /\ Proper(new, DOMAIN tokens) /\ new.twin = FALSE /\ new.now = 0 /\ new.op = "updateAccount" /\ new.pc = "find"
    BY DEF Idle, AccountRequest
  <2> QED BY <2>1, <2>2, AcceptStep
<1>12. CASE RotateServiceAccountSecret(r)
  <2>1. PICK a \in DOMAIN accounts : Accept(r, AccountRequest("rotateSecret", "find", a))
    BY <1>12 DEF RotateServiceAccountSecret
  <2> DEFINE new == AccountRequest("rotateSecret", "find", a)
  <2>2. Shaped(new) /\ Proper(new, DOMAIN tokens) /\ new.twin = FALSE /\ new.now = 0 /\ new.op = "rotateSecret" /\ new.pc = "find"
    BY DEF Idle, AccountRequest
  <2> QED BY <2>1, <2>2, AcceptStep
<1>13. CASE DeleteServiceAccount(r)
  <2>1. PICK a \in DOMAIN accounts : Accept(r, AccountRequest("deleteAccount", "find", a))
    BY <1>13 DEF DeleteServiceAccount
  <2> DEFINE new == AccountRequest("deleteAccount", "find", a)
  <2>2. Shaped(new) /\ Proper(new, DOMAIN tokens) /\ new.twin = FALSE /\ new.now = 0 /\ new.op = "deleteAccount" /\ new.pc = "find"
    BY DEF Idle, AccountRequest
  <2> QED BY <2>1, <2>2, AcceptStep
<1>14. CASE IssueServiceToken(r)
  <2>1. PICK a \in DOMAIN accounts :
          \E scopes \in ScopeSets \cup {{}}, secret \in 1..accounts[a].secret :
             Accept(r, [AccountRequest("serviceToken", "find", a) EXCEPT !.roles = scopes, !.want = secret])
    BY <1>14 DEF IssueServiceToken
  <2>2. PICK scopes \in ScopeSets \cup {{}}, secret \in 1..accounts[a].secret :
          Accept(r, [AccountRequest("serviceToken", "find", a) EXCEPT !.roles = scopes, !.want = secret])
    BY <2>1
  <2> DEFINE new == [AccountRequest("serviceToken", "find", a) EXCEPT !.roles = scopes, !.want = secret]
  <2>3. Shaped(new) /\ Proper(new, DOMAIN tokens) /\ new.twin = FALSE /\ new.now = 0 /\ new.op = "serviceToken" /\ new.pc = "find"
    BY DEF Idle, AccountRequest
  <2> QED BY <2>1, <2>2, <2>3, AcceptStep
<1> QED BY <1>1, <1>2, <1>3, <1>4, <1>5, <1>6, <1>7, <1>8, <1>9, <1>10, <1>11, <1>12, <1>13, <1>14
        DEF AuthRequest, UsersRequest, AccountRequests

-----------------------------------------------------------------------------
(* The rows of refresh tokens: statements change rows, or append one.      *)

Rewritten ==
    /\ tokens' = [t \in DOMAIN tokens |-> tokens'[t]]
    /\ \A t \in DOMAIN tokens :
          /\ tokens'[t] \in TokenRow
          /\ tokens'[t].user = tokens[t].user /\ tokens'[t].family = tokens[t].family

\* Nothing is revoked, and no token becomes usable.
Unrevoked ==
    /\ Rewritten
    /\ \A t \in DOMAIN tokens :
          /\ tokens'[t].revoked = tokens[t].revoked /\ tokens'[t].late = tokens[t].late
          /\ tokens[t].used => tokens'[t].used
          /\ tokens[t].expired => tokens'[t].expired

\* No token becomes usable.
Fades ==
    /\ DOMAIN tokens' = DOMAIN tokens
    /\ \A t \in DOMAIN tokens : /\ Usable(t)' => Usable(t)
                                /\ tokens'[t].late = tokens[t].late
                                /\ tokens'[t].user = tokens[t].user

LEMMA UnrevokedFades ==
    ASSUME Unrevoked PROVE Fades
BY DEF Unrevoked, Rewritten, Fades, Usable

LEMMA TokensDomain ==
    ASSUME TokensTyped
    PROVE  /\ DOMAIN tokens = 1..Len(tokens) /\ Len(tokens) \in Nat
           /\ \A t \in DOMAIN tokens : tokens[t] \in TokenRow
           /\ tokens = [t \in DOMAIN tokens |-> tokens[t]]
BY DEF TokensTyped

LEMMA RewrittenTyped ==
    ASSUME TokensTyped, Rewritten
    PROVE  TokensTyped' /\ DOMAIN tokens' = DOMAIN tokens
<1>1. DOMAIN tokens' = DOMAIN tokens
  BY DEF Rewritten
<1>2. tokens' \in [1..Len(tokens) -> TokenRow]
  BY TokensDomain DEF Rewritten
<1>3. tokens' \in Seq(TokenRow)
  BY <1>2, TokensDomain
<1>4. ASSUME NEW t \in DOMAIN tokens
      PROVE  /\ tokens'[t].family \in DOMAIN tokens
             /\ tokens'[tokens'[t].family].user = tokens'[t].user
  <2>1. tokens[t].family \in DOMAIN tokens /\ tokens[tokens[t].family].user = tokens[t].user
    BY DEF TokensTyped
  <2> QED BY <2>1 DEF Rewritten
<1> QED BY <1>1, <1>3, <1>4 DEF TokensTyped

LEMMA UnchangedTokens ==
    ASSUME TokensTyped, UNCHANGED tokens
    PROVE  Unrevoked /\ Rewritten /\ TokensTyped'
BY TokensDomain DEF Unrevoked, Rewritten, TokensTyped

LEMMA CreatedTyped ==
    ASSUME TokensTyped, NEW row \in TokenRow, Create(row),
           \/ row.family = Len(tokens) + 1
           \/ row.family \in DOMAIN tokens /\ tokens[row.family].user = row.user
    PROVE  /\ TokensTyped'
           /\ DOMAIN tokens' = DOMAIN tokens \cup {Len(tokens) + 1}
           /\ Len(tokens) + 1 \notin DOMAIN tokens
           /\ \A t \in DOMAIN tokens : tokens'[t] = tokens[t]
           /\ tokens'[Len(tokens) + 1] = row
<1>1. tokens' = Append(tokens, row)
  BY DEF Create
<1>2. /\ tokens' \in Seq(TokenRow) /\ Len(tokens') = Len(tokens) + 1
      /\ \A t \in 1..Len(tokens) : tokens'[t] = tokens[t]
      /\ tokens'[Len(tokens) + 1] = row
  BY <1>1, AppendProperties DEF TokensTyped
<1>3. /\ DOMAIN tokens' = DOMAIN tokens \cup {Len(tokens) + 1}
      /\ Len(tokens) + 1 \notin DOMAIN tokens
  BY <1>2, TokensDomain
<1>4. ASSUME NEW t \in DOMAIN tokens'
      PROVE  /\ tokens'[t].family \in DOMAIN tokens'
             /\ tokens'[tokens'[t].family].user = tokens'[t].user
  <2>1. CASE t \in DOMAIN tokens
    BY <1>2, <1>3, <2>1, TokensDomain, ZenonT(60) DEF TokensTyped
  <2>2. CASE t = Len(tokens) + 1
    BY <1>2, <1>3, <2>2, TokensDomain DEF TokensTyped
  <2> QED BY <1>3, <2>1, <2>2
<1> QED BY <1>2, <1>3, <1>4, TokensDomain DEF TokensTyped

-----------------------------------------------------------------------------
(* Revocation.  A session that has ended has no token that can be used, and *)
(* no rotation in hand, but those that began before.                        *)

Ended(f) == \E s \in DOMAIN tokens : tokens[s].family = f /\ tokens[s].revoked
InHand(r) == Rotating(r, {"mark", "user", "child"})

RevocationInv ==
    /\ \A t \in DOMAIN tokens : Usable(t) /\ Ended(tokens[t].family) => tokens[t].late
    /\ \A r \in Slots : InHand(r) /\ Ended(tokens[req[r].id].family)
                          => req[r].late \/ tokens[req[r].id].late

\* Nothing is revoked or created; a rotation may have found a token that is usable.
LEMMA QuietKeeps ==
    ASSUME Typed, RevocationInv, Unrevoked,
           \A q \in Slots : InHand(q)' =>
              \/ InHand(q) /\ req'[q].id = req[q].id /\ (req[q].late => req'[q].late)
              \/ req'[q].id \in DOMAIN tokens /\ Usable(req'[q].id)
    PROVE  RevocationInv'
<1>1. DOMAIN tokens' = DOMAIN tokens
  BY DEF Unrevoked, Rewritten
<1>2. \A f : Ended(f)' <=> Ended(f)
  BY <1>1 DEF Unrevoked, Rewritten, Ended
<1>3. ASSUME NEW t \in DOMAIN tokens', Usable(t)', Ended(tokens[t].family)'
      PROVE  tokens'[t].late
  <2>1. t \in DOMAIN tokens /\ Usable(t) /\ Ended(tokens[t].family)
    BY <1>1, <1>2, <1>3 DEF Unrevoked, Rewritten, Usable
  <2> QED BY <2>1 DEF RevocationInv, Unrevoked
<1>4. ASSUME NEW q \in Slots, InHand(q)', Ended(tokens[req[q].id].family)'
      PROVE  req'[q].late \/ tokens'[req'[q].id].late
  <2>1. CASE InHand(q) /\ req'[q].id = req[q].id /\ (req[q].late => req'[q].late)
    <3>1. req[q].id \in DOMAIN tokens
      BY <2>1 DEF Typed, RequestsTyped, Proper, InHand, Rotating
    <3>2. Ended(tokens[req[q].id].family)
      BY <1>2, <1>4, <2>1, <3>1 DEF Unrevoked, Rewritten
    <3> QED BY <2>1, <3>1, <3>2 DEF RevocationInv, Unrevoked
  <2>2. CASE req'[q].id \in DOMAIN tokens /\ Usable(req'[q].id)
    <3>1. Ended(tokens[req'[q].id].family)
      BY <1>2, <1>4, <2>2 DEF Unrevoked, Rewritten
    <3> QED BY <2>2, <3>1 DEF RevocationInv, Unrevoked
  <2> QED BY <1>4, <2>1, <2>2
<1> QED BY <1>3, <1>4 DEF RevocationInv

LEMMA RevokedRow ==
    ASSUME NEW row \in TokenRow, NEW new, new = [row EXCEPT !.revoked = TRUE]
    PROVE  /\ new \in TokenRow
           /\ new.user = row.user /\ new.family = row.family /\ new.late = row.late
           /\ new.used = row.used /\ new.expired = row.expired /\ new.revoked = TRUE
           /\ new.forks = row.forks /\ new.lost = row.lost
BY DEF TokenRow

\* A revocation of all tokens in "rows" that warns the rotations in hand of one of them.
LEMMA RevokedKeeps ==
    ASSUME Typed, RevocationInv, NEW rows,
           tokens' = [t \in DOMAIN tokens |->
                        IF t \in rows THEN [tokens[t] EXCEPT !.revoked = TRUE] ELSE tokens[t]],
           \A t, s \in DOMAIN tokens :
              t \in rows /\ tokens[s].family = tokens[t].family => s \in rows,
           \A q \in Slots : InHand(q)' =>
              /\ InHand(q) /\ req'[q].id = req[q].id /\ (req[q].late => req'[q].late)
              /\ req[q].id \in rows => req'[q].late
    PROVE  /\ RevocationInv' /\ Rewritten /\ Fades
           /\ \A t \in rows \cap DOMAIN tokens : ~Usable(t)'
<1>1. /\ DOMAIN tokens' = DOMAIN tokens
      /\ \A t \in DOMAIN tokens : t \in rows => tokens'[t] = [tokens[t] EXCEPT !.revoked = TRUE]
      /\ \A t \in DOMAIN tokens : t \notin rows => tokens'[t] = tokens[t]
  OBVIOUS
<1>2. \A t \in DOMAIN tokens : tokens[t] \in TokenRow
  BY TokensDomain DEF Typed
<1>3. \A t \in DOMAIN tokens :
        /\ tokens'[t] \in TokenRow
        /\ tokens'[t].user = tokens[t].user /\ tokens'[t].family = tokens[t].family
        /\ tokens'[t].late = tokens[t].late /\ tokens'[t].used = tokens[t].used
        /\ tokens'[t].expired = tokens[t].expired
        /\ t \in rows => tokens'[t].revoked
        /\ t \notin rows => tokens'[t].revoked = tokens[t].revoked
  <2> SUFFICES ASSUME NEW t \in DOMAIN tokens
               PROVE  /\ tokens'[t] \in TokenRow
                      /\ tokens'[t].user = tokens[t].user /\ tokens'[t].family = tokens[t].family
                      /\ tokens'[t].late = tokens[t].late /\ tokens'[t].used = tokens[t].used
                      /\ tokens'[t].expired = tokens[t].expired
                      /\ t \in rows => tokens'[t].revoked
                      /\ t \notin rows => tokens'[t].revoked = tokens[t].revoked
    OBVIOUS
  <2>1. CASE t \in rows
    <3>1. tokens'[t] = [tokens[t] EXCEPT !.revoked = TRUE] /\ tokens[t] \in TokenRow
      BY <1>1, <1>2, <2>1
    <3> QED BY <2>1, <3>1, RevokedRow, ZenonT(60)
  <2>2. CASE t \notin rows
    BY <1>1, <1>2, <2>2
  <2> QED BY <2>1, <2>2
<1>4. Rewritten
  BY <1>1, <1>3 DEF Rewritten
<1>5. ASSUME NEW t \in DOMAIN tokens, t \notin rows, Ended(tokens[t].family)'
      PROVE  Ended(tokens[t].family)
  <2>1. tokens'[t].family = tokens[t].family
    BY <1>3
  <2>2. PICK s \in DOMAIN tokens : tokens'[s].family = tokens[t].family /\ tokens'[s].revoked
    BY <1>1, <1>5, <2>1 DEF Ended
  <2>3. s \notin rows
    BY <1>3, <1>5, <2>2
  <2> QED BY <1>3, <2>2, <2>3 DEF Ended
<1>6. ASSUME NEW t \in DOMAIN tokens', Usable(t)', Ended(tokens[t].family)'
      PROVE  tokens'[t].late
  <2>1. t \in DOMAIN tokens /\ t \notin rows /\ Usable(t)
    BY <1>1, <1>3, <1>6 DEF Usable
  <2> QED BY <1>3, <1>5, <1>6, <2>1 DEF RevocationInv
<1>7. ASSUME NEW q \in Slots, InHand(q)', Ended(tokens[req[q].id].family)'
      PROVE  req'[q].late \/ tokens'[req'[q].id].late
  <2>1. InHand(q) /\ req'[q].id = req[q].id /\ (req[q].late => req'[q].late)
    BY <1>7
  <2>2. req[q].id \in DOMAIN tokens
    BY <2>1 DEF Typed, RequestsTyped, Proper, InHand, Rotating
  <2>3. CASE req[q].id \in rows
    BY <1>7, <2>3
  <2>4. CASE req[q].id \notin rows
    <3>1. Ended(tokens[req[q].id].family)
      BY <1>5, <1>7, <2>1, <2>2, <2>4
    <3> QED BY <1>3, <2>1, <2>2, <3>1 DEF RevocationInv
  <2> QED BY <2>3, <2>4
<1>8. Fades /\ \A t \in rows \cap DOMAIN tokens : ~Usable(t)'
  BY <1>1, <1>3 DEF Fades, Usable
<1> QED BY <1>4, <1>6, <1>7, <1>8 DEF RevocationInv

\* A token is created: of a session of its own, or by a rotation in hand.
LEMMA CreatedKeeps ==
    ASSUME Typed, RevocationInv, NEW row \in TokenRow, Create(row),
           \/ row.family = Len(tokens) + 1
           \/ row.family \in DOMAIN tokens /\ tokens[row.family].user = row.user,
           ~row.revoked,
           row.family \in DOMAIN tokens /\ Ended(row.family) => row.late,
           \A q \in Slots : InHand(q)' =>
              InHand(q) /\ req'[q].id = req[q].id /\ (req[q].late => req'[q].late)
    PROVE  RevocationInv'
<1> DEFINE n == Len(tokens) + 1
<1>1. /\ DOMAIN tokens' = DOMAIN tokens \cup {n} /\ n \notin DOMAIN tokens
      /\ \A t \in DOMAIN tokens : tokens'[t] = tokens[t]
      /\ tokens'[n] = row
  BY CreatedTyped DEF Typed
<1> HIDE DEF n
<1>2. \A f : Ended(f)' <=> Ended(f)
  BY <1>1 DEF Ended
<1>3. \A t \in DOMAIN tokens : tokens[t].family \in DOMAIN tokens
  BY DEF Typed, TokensTyped
<1>4. ASSUME NEW t \in DOMAIN tokens', Usable(t)', Ended(tokens[t].family)'
      PROVE  tokens'[t].late
  <2>1. CASE t \in DOMAIN tokens
    BY <1>1, <1>2, <1>4, <2>1 DEF RevocationInv, Usable
  <2>2. CASE t = n
    <3>1. Ended(row.family)
      BY <1>1, <1>2, <1>4, <2>2
    <3>2. row.family \in DOMAIN tokens
      BY <1>3, <3>1 DEF Ended
    <3> QED BY <1>1, <2>2, <3>1, <3>2
  <2> QED BY <1>1, <2>1, <2>2
<1>5. ASSUME NEW q \in Slots, InHand(q)', Ended(tokens[req[q].id].family)'
      PROVE  req'[q].late \/ tokens'[req'[q].id].late
  <2>1. req[q].id \in DOMAIN tokens /\ req'[q].id = req[q].id /\ InHand(q)
    BY <1>5 DEF Typed, RequestsTyped, Proper, InHand, Rotating
  <2>2. Ended(tokens[req[q].id].family)
    BY <1>1, <1>2, <1>5, <2>1
  <2> QED BY <1>1, <1>5, <2>1, <2>2 DEF RevocationInv
<1> QED BY <1>4, <1>5 DEF RevocationInv

-----------------------------------------------------------------------------
(* The steps of the handlers, one by one. *)

LEMMA ToKeepsHand ==
    ASSUME NEW r \in Slots, RequestStep(r), req[r].op # "refresh"
    PROVE  \A q \in Slots : InHand(q)' =>
              InHand(q) /\ req'[q].id = req[q].id /\ (req[q].late => req'[q].late)
BY DEF RequestStep, GoesOn, Stays, InHand, Rotating, Idle

\* Nothing but the requests changes.
LEMMA OtherKeeps ==
    ASSUME Typed, RevocationInv, NEW r \in Slots, RequestStep(r), req[r].op # "refresh",
           UNCHANGED tokens
    PROVE  TokensTyped' /\ RevocationInv'
BY ToKeepsHand, QuietKeeps, UnchangedTokens DEF Typed

\* A failure is about to be stored.
LEMMA FailureStep ==
    ASSUME RequestsTyped, NEW r \in Slots, UNCHANGED tokens, req[r].op = "login",
           \/ req' = [req EXCEPT ![r].pc = "strike", ![r].now = window]
           \/ \E state : req' = [req EXCEPT ![r].pc = "store", ![r].saw = state]
    PROVE  RequestStep(r) /\ GoesOn(r) /\ req'[r].pc \in {"strike", "store"}
<1>1. Shaped(req[r]) /\ Proper(req[r], DOMAIN tokens)
  BY DEF RequestsTyped
<1>2. PICK new :
        /\ req' = [req EXCEPT ![r] = new]
        /\ Shaped(new) /\ new.pc \in {"strike", "store"} /\ new.op = "login" /\ new.user = req[r].user
        /\ new.id = req[r].id /\ new.now \in {req[r].now, window} /\ new.want = req[r].want
        /\ new.late = req[r].late /\ new.stale = req[r].stale /\ new.twin = req[r].twin
  <2>1. CASE req' = [req EXCEPT ![r].pc = "strike", ![r].now = window]
    <3> DEFINE new == [req[r] EXCEPT !.pc = "strike", !.now = window]
    <3>1. /\ Shaped(new) /\ new.pc = "strike" /\ new.op = "login" /\ new.user = req[r].user
          /\ new.id = req[r].id /\ new.now = window /\ new.want = req[r].want
          /\ new.late = req[r].late /\ new.stale = req[r].stale /\ new.twin = req[r].twin
      BY <1>1 DEF Shaped, Fields
    <3>2. req' = [req EXCEPT ![r] = new]
      BY <2>1
    <3> HIDE DEF new
    <3> QED BY <3>1, <3>2
  <2>2. ASSUME NEW state, req' = [req EXCEPT ![r].pc = "store", ![r].saw = state]
        PROVE  \E new :
                 /\ req' = [req EXCEPT ![r] = new]
                 /\ Shaped(new) /\ new.pc \in {"strike", "store"} /\ new.op = "login"
                 /\ new.user = req[r].user
                 /\ new.id = req[r].id /\ new.now \in {req[r].now, window} /\ new.want = req[r].want
                 /\ new.late = req[r].late /\ new.stale = req[r].stale /\ new.twin = req[r].twin
    <3> DEFINE new == [req[r] EXCEPT !.pc = "store", !.saw = state]
    <3>1. /\ Shaped(new) /\ new.pc = "store" /\ new.op = "login" /\ new.user = req[r].user
          /\ new.id = req[r].id /\ new.now = req[r].now /\ new.want = req[r].want
          /\ new.late = req[r].late /\ new.stale = req[r].stale /\ new.twin = req[r].twin
      BY <1>1 DEF Shaped, Fields
    <3>2. req' = [req EXCEPT ![r] = new]
      BY <2>2
    <3> HIDE DEF new
    <3> QED BY <3>1, <3>2
  <2> QED BY <2>1, <2>2
<1>3. Proper(new, DOMAIN tokens')
  BY <1>1, <1>2 DEF Proper, UserOps
<1> QED BY <1>2, <1>3, ReplaceStep DEF RequestStep, GoesOn

LEMMA LoginKeeps ==
    ASSUME Typed, RevocationInv, NEW r \in Slots, LoginStep(r)
    PROVE  /\ RequestStep(r) /\ TokensTyped' /\ RevocationInv'
           /\ UNCHANGED <<users, blind>> /\ req[r].op = "login"
<1> USE DEF Typed
<1>1. ASSUME LoginStep(r), ~IssueForUser(r)
      PROVE  RequestStep(r) /\ UNCHANGED <<tokens, users, blind>> /\ req[r].op = "login"
  <2>1. UNCHANGED <<tokens, users, blind>> /\ req[r].op = "login"
    BY <1>1 DEF LoginStep, Allow, Forget, Authenticate, OnSuccess, OnFailure, StoreFailure, At, Reads, stores
  <2>2. \/ req' = Done(r)
        \/ \E pc \in {"forget", "credentials", "issue"} : req' = To(r, pc)
        \/ req' = [req EXCEPT ![r].pc = "strike", ![r].now = window]
        \/ \E state : req' = [req EXCEPT ![r].pc = "store", ![r].saw = state]
    BY <1>1 DEF LoginStep, Allow, Forget, Authenticate, OnSuccess, OnFailure, StoreFailure
  <2>3. CASE \/ req' = [req EXCEPT ![r].pc = "strike", ![r].now = window]
             \/ \E state : req' = [req EXCEPT ![r].pc = "store", ![r].saw = state]
    BY <2>1, <2>3, FailureStep
  <2> QED BY <2>1, <2>2, <2>3, ToStep, DoneStep
<1>3. ASSUME IssueForUser(r)
      PROVE  /\ RequestStep(r) /\ TokensTyped' /\ RevocationInv'
             /\ UNCHANGED <<users, blind>> /\ req[r].op = "login"
  <2> DEFINE row == Token(req[r].user, Len(tokens) + 1, req[r].late)
  <2>1. /\ Create(row) /\ req' = To(r, "clear")
        /\ UNCHANGED <<users, blind>> /\ req[r].op = "login"
    BY <1>3 DEF IssueForUser, At
  <2>2. req[r].user \in Users /\ req[r].late \in BOOLEAN
    BY <2>1 DEF RequestsTyped, Proper
  <2>3. /\ row \in TokenRow /\ row.family = Len(tokens) + 1 /\ ~row.revoked
        /\ row.family \notin DOMAIN tokens
    BY <2>2, TokensDomain DEF Token, TokenRow
  <2> HIDE DEF row
  <2>4. TokensTyped' /\ DOMAIN tokens \subseteq DOMAIN tokens'
    BY <2>1, <2>3, CreatedTyped
  <2>5. RequestStep(r)
    BY <2>1, <2>4, ToStep
  <2>6. RevocationInv'
    BY <2>1, <2>3, <2>5, ToKeepsHand, CreatedKeeps
  <2> QED BY <2>1, <2>4, <2>5, <2>6
<1> HIDE DEF Typed
<1> QED BY <1>1, <1>3, OtherKeeps

\* The end of a session by a request that presents a token of it.
LEMMA EndKeeps ==
    ASSUME Typed, RevocationInv, NEW r \in Slots, NEW f, EndFamily(r, f)
    PROVE  /\ RequestStep(r) /\ TokensTyped' /\ RevocationInv' /\ UNCHANGED <<users, blind>>
           /\ Fades /\ req'[r] = Idle
<1> DEFINE rows == {t \in DOMAIN tokens : tokens[t].family = f}
           hit == {q \in Slots : InHand(q) /\ tokens[req[q].id].family = f}
<1>1. /\ tokens' = [t \in DOMAIN tokens |->
                      IF t \in rows THEN [tokens[t] EXCEPT !.revoked = TRUE] ELSE tokens[t]]
      /\ req' = [q \in Slots |-> IF q = r THEN Idle
                              ELSE IF q \in hit THEN [req[q] EXCEPT !["late"] = TRUE]
                              ELSE req[q]]
      /\ UNCHANGED <<users, blind>>
  BY DEF EndFamily, RevokeFamily, Meanwhile, InHand
<1>2. DOMAIN tokens' = DOMAIN tokens
  BY <1>1
<1>3. /\ RequestsTyped' /\ req'[r] = Idle
      /\ \A q \in Slots \ {r} : Stays(q)
      /\ \A q \in Slots \ {r} : q \in hit => req'[q] = [req[q] EXCEPT !["late"] = TRUE]
  <2> HIDE DEF hit
  <2> QED BY <1>1, <1>2, IdleProper, MeanwhileStep, ZenonT(60) DEF Typed
<1>4. ASSUME NEW q \in Slots, InHand(q)'
      PROVE  /\ InHand(q) /\ req'[q].id = req[q].id /\ (req[q].late => req'[q].late)
             /\ req[q].id \in rows => req'[q].late
  <2>1. q # r
    BY <1>3, <1>4 DEF InHand, Rotating, Idle
  <2>2. /\ Stays(q) /\ Shaped(req[q])
        /\ q \in hit => req'[q] = [req[q] EXCEPT !["late"] = TRUE]
    BY <1>3, <2>1 DEF Typed, RequestsTyped
  <2>3. InHand(q)
    BY <1>4, <2>2 DEF InHand, Rotating, Stays
  <2>4. req[q].id \in rows => q \in hit
    BY <2>3
  <2>5. q \in hit => req'[q].late
    BY <2>2 DEF Shaped, Fields
  <2> QED BY <2>2, <2>3, <2>4, <2>5 DEF Stays
<1>5. \A t, s \in DOMAIN tokens :
         t \in rows /\ tokens[s].family = tokens[t].family => s \in rows
  OBVIOUS
<1> HIDE DEF rows
<1>6. RevocationInv' /\ Rewritten /\ Fades
  BY <1>1, <1>4, <1>5, RevokedKeeps
<1> QED BY <1>1, <1>3, <1>6, RewrittenTyped DEF RequestStep, Typed

\* Two rotations that found a token unused both mark it.
LEMMA MarkKeeps ==
    ASSUME Typed, RevocationInv, NEW r \in Slots, MarkUsed(r)
    PROVE  /\ RequestStep(r) /\ TokensTyped' /\ RevocationInv' /\ UNCHANGED <<users, blind>>
           /\ Unrevoked /\ GoesOn(r) /\ req'[r].pc = "user"
<1> DEFINE t    == req[r].id
           new  == [req[r] EXCEPT !.pc = "user"]
           hit  == {q \in Slots : Rotating(q, {"mark"}) /\ req[q].id = t}
<1>1. /\ req[r].op = "refresh" /\ req[r].pc = "mark"
      /\ tokens' = [s \in DOMAIN tokens |->
           [tokens[s] EXCEPT !.used = @ \/ s = t,
                             !.forks = IF s = tokens[t].family /\ req[r].twin THEN @ + 1 ELSE @]]
      /\ req' = [q \in Slots |-> IF q = r THEN new
                              ELSE IF q \in hit THEN [req[q] EXCEPT !["twin"] = TRUE]
                              ELSE req[q]]
      /\ UNCHANGED <<users, blind>>
  BY DEF MarkUsed, At, Meanwhile
<1>2. /\ Shaped(req[r]) /\ Proper(req[r], DOMAIN tokens) /\ t \in DOMAIN tokens
  BY <1>1 DEF Typed, RequestsTyped, Proper
<1>3. /\ Shaped(new) /\ new.pc = "user" /\ new.op = "refresh" /\ new.id = t
      /\ new.user = req[r].user /\ new.want = req[r].want
      /\ new.late = req[r].late /\ new.stale = req[r].stale /\ new.twin = req[r].twin
      /\ new.now = req[r].now
  BY <1>1, <1>2 DEF Shaped, Fields
<1>4. ASSUME NEW s \in DOMAIN tokens
      PROVE  /\ tokens'[s] \in TokenRow
             /\ tokens'[s].user = tokens[s].user /\ tokens'[s].family = tokens[s].family
             /\ tokens'[s].revoked = tokens[s].revoked /\ tokens'[s].late = tokens[s].late
             /\ tokens'[s].expired = tokens[s].expired
             /\ tokens'[s].used = (tokens[s].used \/ s = t)
  <2> DEFINE used  == tokens[s].used \/ s = t
             forks == IF s = tokens[t].family /\ req[r].twin THEN tokens[s].forks + 1
                      ELSE tokens[s].forks
  <2>1. tokens[s] \in TokenRow
    BY TokensDomain DEF Typed
  <2>2. forks \in Int /\ used \in BOOLEAN
    BY <2>1 DEF TokenRow
  <2>3. tokens'[s] = [tokens[s] EXCEPT !.used = used, !.forks = forks]
    BY <1>1
  <2>4. used = (tokens[s].used \/ s = t)
    OBVIOUS
  <2> HIDE DEF used, forks, t
  <2> QED BY <2>1, <2>2, <2>3, <2>4 DEF TokenRow
<1> HIDE DEF new, hit
<1>6. Unrevoked /\ DOMAIN tokens' = DOMAIN tokens
  <2>1. tokens' = [s \in DOMAIN tokens |-> tokens'[s]]
    BY <1>1
  <2> HIDE DEF t
  <2> QED BY <1>4, <2>1 DEF Unrevoked, Rewritten
<1>7. Proper(new, DOMAIN tokens')
  BY <1>1, <1>2, <1>3, <1>6 DEF Proper
<1>8. /\ RequestsTyped' /\ req'[r] = new
      /\ \A q \in Slots \ {r} : Stays(q)
  <2>1. \A q \in hit : req[q].pc = "mark" /\ tokens'[req[q].id].used = TRUE
    BY <1>2, <1>4 DEF hit, Rotating
  <2>2. req' = [q \in Slots |-> IF q = r THEN new
                               ELSE IF q \in hit THEN [req[q] EXCEPT !["twin"] = TRUE]
                               ELSE req[q]]
    BY <1>1
  <2>3. RequestsTyped /\ DOMAIN tokens \subseteq DOMAIN tokens' /\ Shaped(new)
    BY <1>3, <1>6 DEF Typed
  <2> HIDE DEF t
  <2> QED BY <1>7, <2>1, <2>2, <2>3, MeanwhileStep
<1>9. RequestStep(r) /\ GoesOn(r)
  BY <1>1, <1>3, <1>8 DEF RequestStep, GoesOn
<1>10. RevocationInv'
  <2>1. \A q \in Slots : InHand(q)' =>
           InHand(q) /\ req'[q].id = req[q].id /\ (req[q].late => req'[q].late)
    BY <1>1, <1>3, <1>8 DEF InHand, Rotating, Stays
  <2> QED BY <1>6, <2>1, QuietKeeps
<1> QED BY <1>1, <1>3, <1>6, <1>8, <1>9, <1>10, RewrittenTyped DEF Unrevoked, Typed

LEMMA TokenKeeps ==
    ASSUME Typed, RevocationInv, NEW r \in Slots, TokenStep(r)
    PROVE  /\ RequestStep(r) /\ TokensTyped' /\ RevocationInv'
           /\ UNCHANGED <<users, blind>> /\ req[r].op \in {"refresh", "logout"}
<1>0. Shaped(req[r]) /\ Proper(req[r], DOMAIN tokens) /\ RequestsTyped /\ TokensTyped
  BY DEF Typed, RequestsTyped
<1>1. CASE FindByHash(r)
  <2>1. /\ req[r].op = "refresh" /\ UNCHANGED <<users, blind, tokens>>
        /\ \/ req' = Done(r)
           \/ req' = To(r, "reuse")
           \/ /\ req' = To(r, "mark")
              /\ FoundValid(req[r].id) /\ ~tokens[req[r].id].used
    BY <1>1 DEF FindByHash, At, Reads, stores
  <2>2. /\ RequestStep(r)
        /\ \/ req'[r] = Idle
           \/ req'[r].pc = "reuse"
           \/ req'[r].id = req[r].id /\ Usable(req[r].id)
    <3>0. DOMAIN tokens \subseteq DOMAIN tokens'
      BY <2>1
    <3>1. CASE req' = Done(r)
      BY <1>0, <3>0, <3>1, DoneStep
    <3>2. CASE req' = To(r, "reuse")
      BY <1>0, <3>0, <3>2, ToStep
    <3>3. CASE req' = To(r, "mark") /\ FoundValid(req[r].id) /\ ~tokens[req[r].id].used
      <4>1. RequestStep(r) /\ GoesOn(r)
        BY <1>0, <3>0, <3>3, ToStep
      <4>2. req'[r].id = req[r].id
        BY <2>1, <4>1 DEF GoesOn
      <4> QED BY <3>3, <4>1, <4>2 DEF FoundValid, Usable
    <3> QED BY <2>1, <3>1, <3>2, <3>3
  <2>3. \A q \in Slots : InHand(q)' =>
           \/ InHand(q) /\ req'[q].id = req[q].id /\ (req[q].late => req'[q].late)
           \/ req'[q].id \in DOMAIN tokens /\ Usable(req'[q].id)
    BY <1>0, <2>1, <2>2 DEF InHand, Rotating, RequestStep, Stays, Idle, Proper
  <2> QED BY <1>0, <2>1, <2>2, <2>3, QuietKeeps, UnchangedTokens
<1>2. CASE ReuseDetected(r) \/ UserDisabled(r) \/ Revoke(r)
  <2>1. EndFamily(r, tokens[req[r].id].family) /\ req[r].op \in {"refresh", "logout"}
    BY <1>2 DEF ReuseDetected, UserDisabled, Revoke, At
  <2> QED BY <2>1, EndKeeps
<1>3. CASE MarkUsed(r)
  BY <1>3, MarkKeeps DEF MarkUsed, At
<1>4. CASE GetByID(r)
  <2>1. /\ req[r].op = "refresh" /\ req[r].pc = "user" /\ UNCHANGED <<users, blind, tokens>>
        /\ \E pc \in {"child", "disable"} : req' = To(r, pc)
    BY <1>4 DEF GetByID, At, Reads, stores
  <2>2. RequestStep(r) /\ GoesOn(r)
    BY <1>0, <2>1, ToStep
  <2>3. \A q \in Slots : InHand(q)' =>
           InHand(q) /\ req'[q].id = req[q].id /\ (req[q].late => req'[q].late)
    BY <2>1, <2>2 DEF InHand, Rotating, RequestStep, GoesOn, Stays
  <2> QED BY <1>0, <2>1, <2>2, <2>3, QuietKeeps, UnchangedTokens
<1>5. CASE Rotate(r)
  <2> DEFINE parent == tokens[req[r].id]
             row    == Token(parent.user, parent.family, parent.late \/ req[r].late)
  <2>1. /\ req[r].op = "refresh" /\ req[r].pc = "child"
        /\ Create(row) /\ req' = Done(r)
        /\ UNCHANGED <<users, blind>>
    BY <1>5 DEF Rotate, At
  <2>2. req[r].id \in DOMAIN tokens /\ parent \in TokenRow
    BY <1>0, <2>1, TokensDomain DEF Proper
  <2>3. row \in TokenRow /\ ~row.revoked /\ row.family = parent.family /\ row.user = parent.user
    BY <2>2 DEF Token, TokenRow
  <2>4. Ended(row.family) => row.late
    <3>1. Ended(parent.family) => req[r].late \/ parent.late
      BY <2>1 DEF RevocationInv, InHand, Rotating
    <3> QED BY <2>3, <3>1 DEF Token
  <2>5. row.family \in DOMAIN tokens /\ tokens[row.family].user = row.user
    BY <1>0, <2>2, <2>3 DEF TokensTyped
  <2> HIDE DEF row, parent
  <2>6. TokensTyped' /\ DOMAIN tokens \subseteq DOMAIN tokens'
    BY <1>0, <2>1, <2>3, <2>5, CreatedTyped
  <2>7. RequestStep(r) /\ req'[r] = Idle
    BY <1>0, <2>1, <2>6, DoneStep
  <2>8. \A q \in Slots : InHand(q)' =>
           InHand(q) /\ req'[q].id = req[q].id /\ (req[q].late => req'[q].late)
    BY <2>7 DEF InHand, Rotating, RequestStep, Stays, Idle
  <2>9. RevocationInv'
    BY <2>1, <2>3, <2>4, <2>5, <2>8, CreatedKeeps
  <2> QED BY <2>1, <2>6, <2>7, <2>9
<1> QED BY <1>1, <1>2, <1>3, <1>4, <1>5 DEF TokenStep

-----------------------------------------------------------------------------
(* The administration of users, as far as sessions are concerned. *)

\* A use case ends the request or goes on with what it has read.
LEMMA ContinueStep ==
    ASSUME RequestsTyped, NEW r \in Slots, NEW q, NEW pc, req' = Continue(r, q, pc),
           DOMAIN tokens \subseteq DOMAIN tokens',
           Shaped(q), q.op = req[r].op, q.user = req[r].user, q.id = req[r].id,
           q.want = req[r].want, q.late = req[r].late, q.stale = req[r].stale, q.twin = req[r].twin,
           q.now = req[r].now,
           pc # "read",
           pc \in {"roles", "count"} => q.op \in Deactivations \cup RoleChanges
    PROVE  /\ RequestStep(r)
           /\ pc = "done" => req'[r] = Idle
           /\ pc # "done" => /\ GoesOn(r) /\ req'[r].pc = pc
                             /\ req'[r].saw = q.saw /\ req'[r].roles = q.roles
<1>1. CASE pc = "done"
  <2>1. req' = Done(r)
    BY <1>1 DEF Continue, Done
  <2> QED BY <1>1, <2>1, DoneStep
<1>2. CASE pc # "done"
  <2> DEFINE new == [q EXCEPT !.pc = pc]
  <2>1. /\ Shaped(new) /\ new.op = q.op /\ new.user = q.user /\ new.id = q.id /\ new.want = q.want
        /\ new.late = q.late /\ new.stale = q.stale /\ new.twin = q.twin /\ new.now = q.now /\ new.pc = pc
        /\ new.saw = q.saw /\ new.roles = q.roles
    BY DEF Shaped, Fields
  <2>2. Proper(req[r], DOMAIN tokens)
    BY DEF RequestsTyped
  <2>3. req' = [req EXCEPT ![r] = new]
    BY <1>2 DEF Continue
  <2> HIDE DEF new
  <2>4. Proper(new, DOMAIN tokens')
    BY <2>1, <2>2 DEF Proper
  <2> QED BY <1>2, <2>1, <2>3, <2>4, ReplaceStep DEF RequestStep, GoesOn
<1> QED BY <1>1, <1>2

LEMMA CurrentRolesStep ==
    ASSUME RequestsTyped, NEW r \in Slots, CurrentRoles(r)
    PROVE  /\ RequestStep(r) /\ UNCHANGED <<users, tokens, blind>>
           /\ req[r].op \in UserOps /\ req'[r].pc = "read"
<1> DEFINE roles == users[req[r].user].roles \ req[r].roles
           new   == [req[r] EXCEPT !.pc = "read", !.roles = roles]
<1>1. /\ req[r].op = "removeUserRole" /\ UNCHANGED <<users, tokens, blind>>
      /\ req' = [req EXCEPT ![r] = new]
  BY DEF CurrentRoles, At, Reads, stores
<1>2. Shaped(req[r]) /\ Proper(req[r], DOMAIN tokens)
  BY DEF RequestsTyped
<1> HIDE DEF roles
<1>3. /\ Shaped(new) /\ new.op = req[r].op /\ new.user = req[r].user /\ new.id = req[r].id
      /\ new.want = req[r].want /\ new.late = req[r].late /\ new.stale = req[r].stale /\ new.twin = req[r].twin
      /\ new.now = req[r].now
      /\ new.pc = "read"
  BY <1>2 DEF Shaped, Fields
<1> HIDE DEF new
<1>4. Proper(new, DOMAIN tokens')
  BY <1>1, <1>2, <1>3 DEF Proper, RoleChanges
<1>5. RequestStep(r) /\ req'[r].pc = "read"
  BY <1>1, <1>3, <1>4, ReplaceStep DEF RequestStep, GoesOn
<1> QED BY <1>1, <1>5 DEF UserOps, RoleChanges

\* FindByID, and the use case on the row it returned.
LEMMA FindByIDStep ==
    ASSUME RequestsTyped, NEW r \in Slots, FindByID(r)
    PROVE  /\ RequestStep(r) /\ UNCHANGED <<users, tokens, blind>>
           /\ req[r].op \in Deactivations \cup RoleChanges \cup {"revokeSessions"}
           /\ \/ req'[r] = Idle
              \/ /\ GoesOn(r) /\ req'[r].roles = req[r].roles
                 /\ req'[r].saw = users[req[r].user].active
                 /\ req'[r].pc \in {"roles", "write", "revoke"}
                 /\ req[r].op \in {"updateUser"} \cup RoleChanges \cup {"revokeSessions"}
                      => users[req[r].user].known
                 /\ req[r].op = "deleteUser" => users[req[r].user].active
                 /\ req'[r].pc = "revoke" => req[r].op = "revokeSessions"
                 /\ req'[r].pc = "write" => /\ req[r].op = "updateUser"
                                            /\ req[r].want \/ ~users[req[r].user].active
                 /\ req'[r].pc = "roles" /\ req[r].op \in Deactivations
                      => users[req[r].user].active
<1> DEFINE row == users[req[r].user]
           q   == [req[r] EXCEPT !.saw = row.active]
           pc  == CASE req[r].op = "updateUser" -> UpdateUserUseCase(req[r], row)
                    [] req[r].op = "deleteUser" -> DeactivateUserUseCase(row)
                    [] req[r].op \in RoleChanges -> SetUserRolesUseCase(row)
                    [] req[r].op = "revokeSessions" -> RevokeUserSessionsUseCase(row)
<1>1. req[r].pc = "read" /\ req' = Continue(r, q, pc) /\ UNCHANGED <<users, tokens, blind>>
  BY DEF FindByID, Reads, stores
<1>2. Shaped(req[r]) /\ req[r].op \in Deactivations \cup RoleChanges \cup {"revokeSessions"}
  BY <1>1 DEF RequestsTyped, Proper
<1>3. /\ Shaped(q) /\ q.op = req[r].op /\ q.user = req[r].user /\ q.id = req[r].id
      /\ q.want = req[r].want /\ q.late = req[r].late /\ q.stale = req[r].stale
      /\ q.twin = req[r].twin /\ q.now = req[r].now
      /\ q.saw = row.active /\ q.roles = req[r].roles
  BY <1>2 DEF Shaped, Fields
<1>4. /\ pc \in {"done", "roles", "write", "revoke"}
      /\ pc = "revoke" => req[r].op = "revokeSessions"
      /\ pc = "write" => req[r].op = "updateUser" /\ (req[r].want \/ ~row.active)
      /\ pc = "roles" => req[r].op \in Deactivations \cup RoleChanges
      /\ pc = "roles" /\ req[r].op \in Deactivations => row.active
      /\ pc # "done" => /\ req[r].op # "deleteUser" => row.known
                        /\ req[r].op = "deleteUser" => row.active
  BY <1>2 DEF UpdateUserUseCase, DeactivateUserUseCase, SetUserRolesUseCase,
              RevokeUserSessionsUseCase, Deactivations, RoleChanges
<1> HIDE DEF q, pc
<1>5. /\ RequestStep(r)
      /\ pc = "done" => req'[r] = Idle
      /\ pc # "done" => /\ GoesOn(r) /\ req'[r].pc = pc
                        /\ req'[r].saw = q.saw /\ req'[r].roles = q.roles
  BY <1>1, <1>3, <1>4, ContinueStep
<1> QED BY <1>1, <1>2, <1>3, <1>4, <1>5 DEF RoleChanges

-----------------------------------------------------------------------------
(* The last administrator.  A change that can take an active administrator  *)
(* away was decided when there was another one; until it is written, only a *)
(* removal by another request can make that untrue, and marks it.           *)

OtherAdmin(r) == ActiveAdmins(users) \ {req[r].user} # {}
\* What the request writes leaves its user an administrator, if active.
Harmless(r) == IF req[r].op \in Deactivations THEN req[r].want ELSE "admin" \in req[r].roles
Decided(r) ==
    /\ Administers(r)
    /\ req[r].pc \in {"write", "clear", "wait", "grant"} \/ (req[r].pc = "roles" /\ ~req[r].saw)
Found(r) ==
    req[r].op \in UserOps /\ req[r].pc \in {"roles", "count", "write", "clear", "wait", "grant", "revoke"}

AdminInv ==
    /\ \A u \in Users : users[u].active => users[u].known
    /\ \A r \in Slots : Found(r) => users[req[r].user].known
    /\ AdminRemains
    /\ \A r \in Slots : Decided(r) => req[r].stale \/ blind \/ OtherAdmin(r) \/ Harmless(r)

\* The same administrators; a request that decides now has seen another one.
LEMMA SameAdminsKeep ==
    ASSUME RequestsTyped, AdminInv, NEW r \in Slots,
           ActiveAdmins(users)' = ActiveAdmins(users), UNCHANGED blind,
           \A u \in Users : /\ users[u].known => users'[u].known
                            /\ users'[u].active => users[u].active \/ users'[u].known,
           \A q \in Slots \ {r} : Stays(q),
           Found(r)' => users'[req'[r].user].known,
           Decided(r)' => req'[r].stale \/ blind \/ OtherAdmin(r)' \/ Harmless(r)'
    PROVE  AdminInv'
<1>1. \A u \in Users : users'[u].active => users'[u].known
  BY DEF AdminInv
<1>2. ASSUME NEW q \in Slots, Found(q)' PROVE users'[req'[q].user].known
  <2>1. CASE q = r
    BY <1>2, <2>1
  <2>2. CASE q # r
    <3>1. Found(q) /\ req'[q].user = req[q].user
      BY <1>2, <2>2 DEF Found, Stays
    <3>2. req[q].user \in Users
      BY <3>1 DEF Found, RequestsTyped, Proper
    <3> QED BY <3>1, <3>2 DEF AdminInv
  <2> QED BY <2>1, <2>2
<1>3. AdminRemains'
  BY DEF AdminInv, AdminRemains
<1>4. ASSUME NEW q \in Slots, Decided(q)'
      PROVE  req'[q].stale \/ blind' \/ OtherAdmin(q)' \/ Harmless(q)'
  <2>1. CASE q = r
    BY <1>4, <2>1
  <2>2. CASE q # r
    <3>1. /\ Stays(q) /\ Decided(q)
          /\ OtherAdmin(q)' <=> OtherAdmin(q)
          /\ Harmless(q)' <=> Harmless(q)
      BY <1>4, <2>2 DEF Stays, Decided, Administers, OtherAdmin, Harmless
    <3> QED BY <3>1 DEF AdminInv, Stays
  <2> QED BY <2>1, <2>2
<1> QED BY <1>1, <1>2, <1>3, <1>4 DEF AdminInv

LEMMA NotAmongAdmins ==
    ASSUME AdminInv, NEW r \in Slots, req[r].user \notin ActiveAdmins(users)
    PROVE  blind \/ OtherAdmin(r)
BY DEF AdminInv, AdminRemains, OtherAdmin

\* The steps that only read.
LEMMA ReadingKeeps ==
    ASSUME Typed, AdminInv, NEW r \in Slots,
           CurrentRoles(r) \/ FindByID(r) \/ GetRoles(r) \/ CountAdmins(r)
           \/ ClearRoles(r) \/ RowsUnlocked(r)
    PROVE  /\ RequestStep(r) /\ UNCHANGED <<users, tokens, blind>>
           /\ AdminInv' /\ req[r].op \in UserOps
<1>0. RequestsTyped /\ Shaped(req[r]) /\ Proper(req[r], DOMAIN tokens)
  BY DEF Typed, RequestsTyped
<1>1. ASSUME RequestStep(r), UNCHANGED <<users, tokens, blind>>,
             Found(r)' => users[req'[r].user].known,
             Decided(r)' => req'[r].stale \/ blind \/ OtherAdmin(r)' \/ Harmless(r)'
      PROVE  AdminInv'
  BY <1>0, <1>1, SameAdminsKeep DEF RequestStep
<1>2. CASE CurrentRoles(r)
  <2>1. /\ RequestStep(r) /\ UNCHANGED <<users, tokens, blind>>
        /\ req[r].op \in UserOps /\ req'[r].pc = "read"
    BY <1>0, <1>2, CurrentRolesStep
  <2> QED BY <1>1, <2>1 DEF Found, Decided
<1>3. CASE FindByID(r)
  <2> DEFINE row == users[req[r].user]
  <2>1. /\ RequestStep(r) /\ UNCHANGED <<users, tokens, blind>>
        /\ req[r].op \in Deactivations \cup RoleChanges \cup {"revokeSessions"}
        /\ \/ req'[r] = Idle
           \/ /\ GoesOn(r) /\ req'[r].roles = req[r].roles
              /\ req'[r].saw = row.active
              /\ req'[r].pc \in {"roles", "write", "revoke"}
              /\ req[r].op \in {"updateUser"} \cup RoleChanges \cup {"revokeSessions"} => row.known
              /\ req[r].op = "deleteUser" => row.active
              /\ req'[r].pc = "revoke" => req[r].op = "revokeSessions"
              /\ req'[r].pc = "write" => req[r].op = "updateUser" /\ (req[r].want \/ ~row.active)
              /\ req'[r].pc = "roles" /\ req[r].op \in Deactivations => row.active
    BY <1>0, <1>3, FindByIDStep
  <2>2. req[r].op \in UserOps /\ req[r].user \in Users
    BY <1>0, <2>1 DEF UserOps, Proper
  <2>3. CASE req'[r] = Idle
    <3>1. ~Found(r)' /\ ~Decided(r)'
      BY <2>3 DEF Found, Decided, Idle
    <3> QED BY <1>1, <2>1, <2>2, <3>1
  <2>4. CASE req'[r] # Idle
    <3>1. row.known
      <4>1. req[r].op = "deleteUser" => row.known
        BY <2>1, <2>2, <2>4 DEF AdminInv
      <4> QED BY <2>1, <2>4, <4>1 DEF Deactivations
    <3>2. ASSUME Decided(r)' PROVE blind \/ OtherAdmin(r)' \/ Harmless(r)'
      <4>1. ~row.active \/ Harmless(r)'
        BY <2>1, <2>4, <3>2 DEF Decided, Harmless, GoesOn, Deactivations
      <4>2. CASE ~row.active
        <5>1. req[r].user \notin ActiveAdmins(users)
          BY <4>2 DEF ActiveAdmins
        <5>2. OtherAdmin(r) => OtherAdmin(r)'
          BY <2>1, <2>4 DEF OtherAdmin, GoesOn
        <5> QED BY <5>1, <5>2, NotAmongAdmins
      <4> QED BY <4>1, <4>2
    <3>3. req'[r].user = req[r].user
      BY <2>1, <2>4 DEF GoesOn
    <3> QED BY <1>1, <2>1, <2>2, <3>1, <3>2, <3>3
  <2> QED BY <2>3, <2>4
<1>4. CASE GetRoles(r)
  <2> DEFINE demotes == /\ "admin" \in users[req[r].user].roles
                        /\ req[r].op \in RoleChanges => "admin" \notin req[r].roles
             change == IF req[r].op \in RoleChanges THEN "clear" ELSE "write"
             pc == IF demotes /\ req[r].actor = req[r].user THEN "done"
                   ELSE IF demotes /\ req[r].saw THEN "count" ELSE change
  <2>1. /\ req[r].pc = "roles" /\ req' = Continue(r, req[r], pc)
        /\ UNCHANGED <<users, tokens, blind>>
    BY <1>4 DEF GetRoles, Reads, stores
  <2>2. req[r].op \in Deactivations \cup RoleChanges /\ req[r].op \in UserOps
    BY <1>0, <2>1 DEF Proper, UserOps
  <2>3. /\ pc \in {"done", "count", "clear", "write"}
        /\ pc \in {"clear", "write"} => ~demotes \/ ~req[r].saw
    OBVIOUS
  <2> HIDE DEF pc, demotes
  <2>4. /\ RequestStep(r)
        /\ pc = "done" => req'[r] = Idle
        /\ pc # "done" => /\ GoesOn(r) /\ req'[r].pc = pc
                          /\ req'[r].saw = req[r].saw /\ req'[r].roles = req[r].roles
    BY <1>0, <2>1, <2>2, <2>3, ContinueStep
  <2>5. CASE pc = "done"
    <3>1. ~Found(r)' /\ ~Decided(r)'
      BY <2>4, <2>5 DEF Found, Decided, Idle
    <3> QED BY <1>1, <2>1, <2>2, <2>4, <3>1
  <2>6. CASE pc # "done"
    <3>1. users[req'[r].user].known
      BY <2>1, <2>2, <2>4, <2>6 DEF AdminInv, Found, GoesOn
    <3>2. ASSUME Decided(r)' PROVE req'[r].stale \/ blind \/ OtherAdmin(r)' \/ Harmless(r)'
      <4>0. /\ OtherAdmin(r) => OtherAdmin(r)'
            /\ Harmless(r) => Harmless(r)'
            /\ req[r].stale => req'[r].stale
        BY <2>1, <2>4, <2>6 DEF OtherAdmin, Harmless, GoesOn
      <4>1. pc \in {"clear", "write"}
        BY <2>3, <2>4, <2>6, <3>2 DEF Decided
      <4>2. CASE ~req[r].saw
        <5>1. Decided(r)
          BY <2>1, <2>2, <4>2 DEF Decided, Administers
        <5> QED BY <4>0, <5>1 DEF AdminInv
      <4>3. CASE ~demotes /\ "admin" \in users[req[r].user].roles
        <5>1. req[r].op \in RoleChanges /\ "admin" \in req[r].roles
          BY <4>3 DEF demotes
        <5>2. Harmless(r)
          BY <5>1 DEF Harmless, RoleChanges, Deactivations
        <5> QED BY <4>0, <5>2
      <4>4. CASE "admin" \notin users[req[r].user].roles
        <5>1. req[r].user \notin ActiveAdmins(users)
          BY <4>4 DEF ActiveAdmins
        <5> QED BY <4>0, <5>1, NotAmongAdmins
      <4> QED BY <2>3, <4>1, <4>2, <4>3, <4>4
    <3> QED BY <1>1, <2>1, <2>2, <2>4, <3>1, <3>2
  <2> QED BY <2>5, <2>6
<1>5. CASE CountAdmins(r)
  <2> DEFINE pc == IF CountActiveAdminsExcluding(req[r].user) = 0 THEN "done"
                   ELSE IF req[r].op \in RoleChanges THEN "clear" ELSE "write"
  <2>1. /\ req[r].pc = "count" /\ req' = Continue(r, req[r], pc)
        /\ UNCHANGED <<users, tokens, blind>>
    BY <1>5 DEF CountAdmins, Reads, stores
  <2>2. req[r].op \in Deactivations \cup RoleChanges /\ req[r].op \in UserOps
    BY <1>0, <2>1 DEF Proper, UserOps
  <2>3. /\ pc \in {"done", "clear", "write"}
        /\ pc # "done" => OtherAdmin(r)
    <3>1. OtherAdmin(r) \/ CountActiveAdminsExcluding(req[r].user) = 0
      BY FS_EmptySet DEF OtherAdmin, CountActiveAdminsExcluding
    <3> QED BY <3>1
  <2> HIDE DEF pc
  <2>4. /\ RequestStep(r)
        /\ pc = "done" => req'[r] = Idle
        /\ pc # "done" => GoesOn(r) /\ req'[r].pc = pc
    BY <1>0, <2>1, <2>2, <2>3, ContinueStep
  <2>5. CASE pc = "done"
    <3>1. ~Found(r)' /\ ~Decided(r)'
      BY <2>4, <2>5 DEF Found, Decided, Idle
    <3> QED BY <1>1, <2>1, <2>2, <2>4, <3>1
  <2>6. CASE pc # "done"
    <3>1. users[req'[r].user].known
      BY <2>1, <2>2, <2>4, <2>6 DEF AdminInv, Found, GoesOn
    <3>2. OtherAdmin(r)'
      BY <2>1, <2>3, <2>4, <2>6 DEF OtherAdmin, GoesOn
    <3> QED BY <1>1, <2>1, <2>2, <2>4, <3>1, <3>2
  <2> QED BY <2>5, <2>6
<1>6. CASE ClearRoles(r)
  <2> DEFINE pc  == IF RowsLocked(r, RoleRows(req[r].user)) THEN "wait" ELSE "grant"
             new == [req[r] EXCEPT !.pc = pc, !.saw = RoleRows(req[r].user)]
  <2>1. /\ req[r].pc = "clear" /\ req[r].op \in RoleChanges \cup {"createUser"}
        /\ req' = [req EXCEPT ![r] = new]
        /\ UNCHANGED <<users, tokens, blind>>
    BY <1>6 DEF ClearRoles, Reads, stores
  <2>2. /\ Shaped(new) /\ new.op = req[r].op /\ new.user = req[r].user /\ new.id = req[r].id
        /\ new.want = req[r].want /\ new.late = req[r].late /\ new.stale = req[r].stale /\ new.twin = req[r].twin
        /\ new.now = req[r].now
        /\ new.pc \in {"wait", "grant"} /\ new.roles = req[r].roles
    BY <1>0 DEF Shaped, Fields
  <2> HIDE DEF new
  <2>3. Proper(new, DOMAIN tokens')
    BY <1>0, <2>1, <2>2 DEF Proper
  <2>4. RequestStep(r) /\ GoesOn(r) /\ req'[r] = new
    BY <1>0, <2>1, <2>2, <2>3, ReplaceStep DEF RequestStep, GoesOn
  <2>5. /\ req[r].op \in UserOps /\ Found(r) /\ Decided(r)
        /\ OtherAdmin(r) => OtherAdmin(r)'
        /\ Harmless(r) => Harmless(r)'
    BY <2>1, <2>2, <2>4 DEF UserOps, Found, Decided, Administers, OtherAdmin, Harmless, GoesOn
  <2>6. /\ users[req'[r].user].known
        /\ req'[r].stale \/ blind \/ OtherAdmin(r)' \/ Harmless(r)'
    BY <2>2, <2>4, <2>5 DEF AdminInv
  <2> QED BY <1>1, <2>1, <2>4, <2>5, <2>6
<1>7. CASE RowsUnlocked(r)
  <2>1. /\ req[r].pc = "wait" /\ req[r].op \in RoleChanges \cup {"createUser"}
        /\ req' = To(r, "grant") /\ UNCHANGED <<users, tokens, blind>>
    BY <1>7 DEF RowsUnlocked, Reads, stores
  <2>2. RequestStep(r) /\ GoesOn(r) /\ req'[r].pc = "grant" /\ req'[r].roles = req[r].roles
    <3>1. req'[r].roles = req[r].roles
      BY <1>0, <2>1 DEF To, Shaped, Fields, RequestsTyped
    <3> QED BY <1>0, <2>1, <3>1, ToStep
  <2>3. /\ req[r].op \in UserOps /\ Found(r) /\ Decided(r)
        /\ OtherAdmin(r) => OtherAdmin(r)'
        /\ Harmless(r) => Harmless(r)'
    BY <2>1, <2>2 DEF UserOps, Found, Decided, Administers, OtherAdmin, Harmless, GoesOn
  <2>4. /\ users[req'[r].user].known
        /\ req'[r].stale \/ blind \/ OtherAdmin(r)' \/ Harmless(r)'
    BY <2>2, <2>3 DEF AdminInv, GoesOn
  <2> QED BY <1>1, <2>1, <2>2, <2>3, <2>4
<1> QED BY <1>2, <1>3, <1>4, <1>5, <1>6, <1>7

\* A deactivated user whose sessions are still to be revoked, or will not be.
Pending(u) == \E r \in Slots : req[r].op \in Deactivations /\ req[r].pc = "revoke" /\ req[r].user = u
Covered(u) == users[u].active \/ users[u].kept \/ Pending(u)

LEMMA PendingStays ==
    ASSUME NEW r \in Slots, \A q \in Slots \ {r} : Stays(q),
           ~(req[r].op \in Deactivations /\ req[r].pc = "revoke")
    PROVE  \A u : Pending(u) => Pending(u)'
BY DEF Pending, Stays

\* A change of a user that was decided: what it takes away, it does not take
\* from under a request without the mark, and never unmarked the last one.
LEMMA ChangeKeeps ==
    ASSUME Typed, AdminInv, NEW r \in Slots, NEW row, NEW pc \in {"done", "revoke"},
           ChangeUser(r, req[r].user, row, pc), Decided(r), Found(r),
           UserShaped(row), row.known = users[req[r].user].known,
           Harmless(r) /\ req[r].user \in ActiveAdmins(users) => row.active /\ "admin" \in row.roles
    PROVE  /\ RequestStep(r) /\ UsersTyped' /\ AdminInv' /\ UNCHANGED tokens
           /\ req[r].op \in UserOps
           /\ users'[req[r].user] = row
           /\ \A v \in Users \ {req[r].user} : users'[v] = users[v]
           /\ pc = "revoke" => GoesOn(r) /\ req'[r].pc = "revoke"
<1> DEFINE u == req[r].user
           removes == ~(ActiveAdmins(users) \subseteq ActiveAdmins([users EXCEPT ![u] = row]))
           hit == {q \in Slots : removes /\ Administers(q)}
           new == IF pc = "done" THEN Idle ELSE [req[r] EXCEPT !.pc = pc]
<1>0. /\ RequestsTyped /\ Shaped(req[r]) /\ Proper(req[r], DOMAIN tokens)
      /\ req[r].op \in UserOps /\ u \in Users /\ users[u].known
  BY DEF Typed, RequestsTyped, Found, Proper, AdminInv
<1>1. /\ users' = [users EXCEPT ![u] = row]
      /\ blind' = (blind \/ (removes /\ req[r].stale))
      /\ UNCHANGED tokens
      /\ req' = [q \in Slots |-> IF q = r THEN Continue(r, req[r], pc)[r]
                                 ELSE IF q \in hit THEN [req[q] EXCEPT !["stale"] = TRUE]
                                 ELSE req[q]]
  BY DEF ChangeUser, Meanwhile
<1>2. Continue(r, req[r], pc)[r] = new
  BY <1>0 DEF Continue, RequestsTyped
<1>3. /\ Shaped(new) /\ Proper(new, DOMAIN tokens')
      /\ pc = "done" => new = Idle
      /\ pc # "done" => /\ new.op = req[r].op /\ new.user = u /\ new.id = req[r].id
                        /\ new.want = req[r].want /\ new.late = req[r].late
                        /\ new.stale = req[r].stale /\ new.twin = req[r].twin
                        /\ new.now = req[r].now
                        /\ new.pc = "revoke"
  <2>1. CASE pc = "done"
    BY <2>1, IdleProper
  <2>2. CASE pc # "done"
    BY <1>0, <1>1, <2>2 DEF Shaped, Fields, Proper
  <2> QED BY <2>1, <2>2
<1> HIDE DEF new, hit
<1>4. /\ RequestsTyped' /\ req'[r] = new
      /\ \A q \in Slots \ {r} : Stays(q)
      /\ \A q \in Slots \ {r} : q \in hit => req'[q] = [req[q] EXCEPT !["stale"] = TRUE]
  BY <1>0, <1>1, <1>2, <1>3, MeanwhileStep
<1>5. RequestStep(r) /\ (pc = "revoke" => GoesOn(r) /\ req'[r].pc = "revoke")
  BY <1>3, <1>4 DEF RequestStep, GoesOn
<1>6. /\ users' = [v \in Users |-> users'[v]] /\ users'[u] = row
      /\ \A v \in Users \ {u} : users'[v] = users[v]
      /\ ActiveAdmins(users)' = ActiveAdmins([users EXCEPT ![u] = row])
  BY <1>0, <1>1 DEF Typed, UsersTyped, ActiveAdmins
<1>7. UsersTyped'
  BY <1>6 DEF Typed, UsersTyped
<1>8. /\ removes <=> ~(ActiveAdmins(users) \subseteq ActiveAdmins(users)')
      /\ \A v \in Users \ {u} : v \in ActiveAdmins(users)' <=> v \in ActiveAdmins(users)
      /\ u \in ActiveAdmins(users)' <=> row.active /\ "admin" \in row.roles
  BY <1>0, <1>6 DEF ActiveAdmins
<1> HIDE DEF removes
<1>9. removes => /\ ~Harmless(r) /\ u \in ActiveAdmins(users)
                 /\ req[r].stale \/ blind \/ OtherAdmin(r)
  <2>1. removes => u \in ActiveAdmins(users) /\ u \notin ActiveAdmins(users)'
    BY <1>8 DEF ActiveAdmins
  <2> QED BY <1>8, <2>1 DEF AdminInv
<1>10. AdminRemains'
  <2>1. CASE removes /\ (req[r].stale \/ blind)
    BY <1>1, <2>1 DEF AdminRemains
  <2>2. CASE removes /\ OtherAdmin(r)
    BY <1>8, <2>2 DEF AdminRemains, OtherAdmin, ActiveAdmins
  <2>3. CASE ~removes
    <3>1. ActiveAdmins(users) \subseteq ActiveAdmins(users)'
      BY <1>8, <2>3
    <3> QED BY <1>1, <3>1 DEF AdminInv, AdminRemains
  <2> QED BY <1>9, <2>1, <2>2, <2>3
<1>11. ASSUME NEW q \in Slots, Found(q)' PROVE users'[req'[q].user].known
  <2>1. CASE q = r
    <3>1. req'[q].user = u
      BY <1>3, <1>4, <1>11, <2>1 DEF Found, Idle
    <3> QED BY <1>0, <1>6, <3>1
  <2>2. CASE q # r
    <3>1. Found(q) /\ req'[q].user = req[q].user /\ req[q].user \in Users
      BY <1>0, <1>4, <1>11, <2>2 DEF Found, Stays, RequestsTyped, Proper
    <3> QED BY <1>0, <1>6, <3>1 DEF AdminInv
  <2> QED BY <2>1, <2>2
<1>12. ASSUME NEW q \in Slots, Decided(q)'
       PROVE  req'[q].stale \/ blind' \/ OtherAdmin(q)' \/ Harmless(q)'
  <2>1. q # r
    BY <1>3, <1>4, <1>12 DEF Decided, Idle
  <2>2. /\ Stays(q) /\ Decided(q) /\ Administers(q)
        /\ Harmless(q)' <=> Harmless(q)
        /\ q \in hit => req'[q] = [req[q] EXCEPT !["stale"] = TRUE]
    BY <1>4, <1>12, <2>1 DEF Stays, Decided, Administers, Harmless
  <2>3. CASE removes
    <3>1. q \in hit
      BY <2>2, <2>3 DEF hit
    <3>2. Shaped(req[q])
      BY <1>0 DEF RequestsTyped
    <3>3. req'[q].stale = TRUE
      BY <2>2, <3>1, <3>2 DEF Shaped, Fields
    <3> QED BY <3>3
  <2>4. CASE ~removes
    <3>1. ActiveAdmins(users) \subseteq ActiveAdmins(users)'
      BY <1>8, <2>4
    <3>2. OtherAdmin(q) => OtherAdmin(q)'
      BY <2>2, <3>1 DEF OtherAdmin, Stays
    <3> QED BY <1>1, <2>2, <3>2 DEF AdminInv, Stays
  <2> QED BY <2>3, <2>4
<1>13. \A v \in Users : users'[v].active => users'[v].known
  BY <1>0, <1>6 DEF AdminInv
<1>14. AdminInv'
  BY <1>10, <1>11, <1>12, <1>13 DEF AdminInv
<1> QED BY <1>0, <1>1, <1>5, <1>6, <1>7, <1>14

LEMMA WritingKeeps ==
    ASSUME Typed, AdminInv, NEW r \in Slots, WriteUser(r) \/ GrantRoles(r)
    PROVE  /\ RequestStep(r) /\ UsersTyped' /\ AdminInv' /\ UNCHANGED tokens
           /\ req[r].op \in UserOps
           /\ \A v \in Users : Covered(v) => Covered(v)'
<1> DEFINE u == req[r].user
<1>0. /\ RequestsTyped /\ Shaped(req[r]) /\ Proper(req[r], DOMAIN tokens)
  BY DEF Typed, RequestsTyped
<1>1. CASE WriteUser(r)
  <2> DEFINE ends == ~req[r].want /\ req[r].saw
             row  == Update(u, req[r].want, ends)
             pc   == IF ends THEN "revoke" ELSE "done"
  <2>1. /\ req[r].op \in Deactivations /\ req[r].pc = "write"
        /\ ChangeUser(r, u, row, pc)
    BY <1>1 DEF WriteUser
  <2>2. Decided(r) /\ Found(r) /\ u \in Users
    BY <1>0, <2>1 DEF Decided, Found, Administers, UserOps, Proper
  <2>3. UserShaped(users[u])
    BY <2>2 DEF Typed, UsersTyped
  <2>4. /\ UserShaped(row) /\ row.known = users[u].known
        /\ row.active = req[r].want /\ row.roles = users[u].roles
        /\ row.kept = (~req[r].want /\ ~ends /\ (users[u].kept \/ users[u].active))
    BY <2>3 DEF Update, UserShaped, UserFields
  <2>5. Harmless(r) /\ u \in ActiveAdmins(users) => row.active /\ "admin" \in row.roles
    BY <2>1, <2>4 DEF Harmless, ActiveAdmins
  <2>6. pc \in {"done", "revoke"}
    OBVIOUS
  <2>7. ends => pc = "revoke"
    OBVIOUS
  <2> HIDE DEF row, pc
  <2>8. /\ RequestStep(r) /\ UsersTyped' /\ AdminInv' /\ UNCHANGED tokens
        /\ req[r].op \in UserOps
        /\ users'[u] = row
        /\ \A v \in Users \ {u} : users'[v] = users[v]
        /\ pc = "revoke" => GoesOn(r) /\ req'[r].pc = "revoke"
    BY <2>1, <2>2, <2>4, <2>5, <2>6, ChangeKeeps
  <2>9. \A v : Pending(v) => Pending(v)'
    BY <2>1, <2>8, PendingStays DEF RequestStep
  <2>10. ASSUME NEW v \in Users, Covered(v) PROVE Covered(v)'
    <3>1. CASE v = u /\ req[r].want
      BY <2>4, <2>8, <3>1 DEF Covered
    <3>2. CASE v = u /\ ends
      <4>1. Pending(v)'
        BY <2>1, <2>7, <2>8, <3>2 DEF Pending, GoesOn
      <4> QED BY <4>1 DEF Covered
    <3>3. CASE v = u /\ ~req[r].want /\ ~ends
      BY <2>4, <2>8, <2>9, <2>10, <3>3 DEF Covered
    <3>4. CASE v # u
      BY <2>8, <2>9, <2>10, <3>4 DEF Covered
    <3> QED BY <3>1, <3>2, <3>3, <3>4
  <2>11. \A v \in Users : Covered(v) => Covered(v)'
    BY <2>10
  <2> QED BY <2>8, <2>11
<1>2. CASE GrantRoles(r)
  <2> DEFINE unseen == {role \in users[u].roles : <<role, users[u].rows[role]>> \notin req[r].saw}
             roles  == req[r].roles \cup unseen
             row    == Regranted(users[u], req[r].roles, unseen)
  <2>1. /\ req[r].pc = "grant" /\ req[r].op \in RoleChanges \cup {"createUser"}
        /\ \/ req' = Done(r) /\ UNCHANGED <<users, tokens, blind>>
           \/ ChangeUser(r, u, row, "done")
    BY <1>2 DEF GrantRoles, Reads, stores
  <2>2. /\ req[r].op \in RoleChanges \cup {"createUser"} /\ req[r].op \in UserOps
        /\ Decided(r) /\ Found(r) /\ u \in Users
    BY <1>0, <2>1 DEF Decided, Found, Administers, UserOps, Proper
  <2>3. CASE req' = Done(r) /\ UNCHANGED <<users, tokens, blind>>
    <3>1. RequestStep(r) /\ req'[r] = Idle
      BY <1>0, <2>3, DoneStep
    <3>2. ~Found(r)' /\ ~Decided(r)'
      BY <3>1 DEF Found, Decided, Idle
    <3>3. AdminInv'
      BY <1>0, <2>3, <3>1, <3>2, SameAdminsKeep DEF RequestStep
    <3>4. \A v \in Users : Covered(v) => Covered(v)'
      <4>1. \A v : Pending(v) => Pending(v)'
        BY <2>1, <3>1, PendingStays DEF RequestStep
      <4> QED BY <2>3, <4>1 DEF Covered
    <3> QED BY <2>2, <2>3, <3>1, <3>3, <3>4 DEF Typed, UsersTyped
  <2>4. CASE ChangeUser(r, u, row, "done")
    <3>1. UserShaped(users[u])
      BY <2>2 DEF Typed, UsersTyped
    <3>2. "admin" \in req[r].roles => "admin" \in roles
      OBVIOUS
    <3>3. /\ UserShaped(row) /\ row.known = users[u].known
          /\ row.active = users[u].active /\ row.roles = roles
          /\ row.kept = users[u].kept
      <4> HIDE DEF unseen
      <4> QED BY <3>1 DEF UserShaped, UserFields, Regranted
    <3>4. Harmless(r) /\ u \in ActiveAdmins(users) => row.active /\ "admin" \in row.roles
      BY <2>2, <3>2, <3>3 DEF Harmless, ActiveAdmins, Deactivations, RoleChanges
    <3> HIDE DEF row
    <3>5. /\ RequestStep(r) /\ UsersTyped' /\ AdminInv' /\ UNCHANGED tokens
          /\ users'[u] = row
          /\ \A v \in Users \ {u} : users'[v] = users[v]
      BY <2>2, <2>4, <3>3, <3>4, ChangeKeeps
    <3>6. \A v : Pending(v) => Pending(v)'
      BY <2>1, <3>5, PendingStays DEF RequestStep
    <3>7. \A v \in Users : Covered(v) => Covered(v)'
      BY <3>3, <3>5, <3>6 DEF Covered
    <3> QED BY <2>2, <3>5, <3>7
  <2> QED BY <2>1, <2>3, <2>4
<1> QED BY <1>1, <1>2

\* A user is inserted without roles.
LEMMA InsertKeeps ==
    ASSUME Typed, AdminInv, NEW r \in Slots, InsertUser(r)
    PROVE  /\ RequestStep(r) /\ UsersTyped' /\ AdminInv' /\ UNCHANGED tokens
           /\ req[r].op \in UserOps
<1> DEFINE u == req[r].user
<1>0. /\ RequestsTyped /\ Shaped(req[r]) /\ Proper(req[r], DOMAIN tokens)
  BY DEF Typed, RequestsTyped
<1>1. /\ req[r].op = "createUser" /\ req[r].pc = "create" /\ UNCHANGED <<tokens, blind>>
      /\ \/ req' = Done(r) /\ UNCHANGED users
         \/ /\ ~users[u].known /\ req' = To(r, "clear")
            /\ users' = [users EXCEPT ![u] = CreatedUser]
  BY DEF InsertUser, At
<1>2. req[r].op \in UserOps /\ u \in Users
  BY <1>0, <1>1 DEF UserOps, Proper
<1>3. CASE req' = Done(r) /\ UNCHANGED users
  <2>1. RequestStep(r) /\ req'[r] = Idle
    BY <1>0, <1>1, <1>3, DoneStep
  <2>2. ~Found(r)' /\ ~Decided(r)'
    BY <2>1 DEF Found, Decided, Idle
  <2>3. AdminInv'
    BY <1>0, <1>1, <1>3, <2>1, <2>2, SameAdminsKeep DEF RequestStep
  <2> QED BY <1>1, <1>2, <1>3, <2>1, <2>3 DEF Typed, UsersTyped
<1>4. CASE /\ ~users[u].known /\ req' = To(r, "clear")
           /\ users' = [users EXCEPT ![u] = CreatedUser]
  <2>1. RequestStep(r) /\ GoesOn(r) /\ req'[r].pc = "clear"
    BY <1>0, <1>1, <1>4, ToStep
  <2>2. /\ CreatedUser.known /\ CreatedUser.roles = {} /\ UserShaped(CreatedUser)
    BY DEF CreatedUser, User, UserShaped, UserFields
  <2>3. /\ users' = [v \in Users |-> users'[v]] /\ users'[u] = CreatedUser
        /\ \A v \in Users \ {u} : users'[v] = users[v]
    BY <1>2, <1>4 DEF Typed, UsersTyped
  <2>4. UsersTyped'
    BY <2>2, <2>3 DEF Typed, UsersTyped
  <2>5. u \notin ActiveAdmins(users) /\ ActiveAdmins(users)' = ActiveAdmins(users)
    BY <1>2, <1>4, <2>2, <2>3 DEF ActiveAdmins, AdminInv
  <2>6. blind \/ OtherAdmin(r)'
    <3>1. OtherAdmin(r) => OtherAdmin(r)'
      BY <2>1, <2>5 DEF OtherAdmin, GoesOn
    <3> QED BY <2>5, <3>1, NotAmongAdmins
  <2>7. users'[req'[r].user].known
    BY <2>1, <2>2, <2>3 DEF GoesOn
  <2>8. \A v \in Users : /\ users[v].known => users'[v].known
                         /\ users'[v].active => users[v].active \/ users'[v].known
    BY <2>2, <2>3
  <2>9. AdminInv'
    BY <1>0, <1>1, <2>1, <2>5, <2>6, <2>7, <2>8, SameAdminsKeep DEF RequestStep
  <2> QED BY <1>1, <1>2, <2>1, <2>4, <2>9
<1> QED BY <1>1, <1>3, <1>4

\* Every session of a user is revoked; nobody stops being an administrator.
LEMMA RevokeKeeps ==
    ASSUME Typed, RevocationInv, AdminInv, NEW r \in Slots, RevokeSessions(r)
    PROVE  /\ RequestStep(r) /\ UsersTyped' /\ TokensTyped' /\ RevocationInv' /\ AdminInv'
           /\ Fades /\ req'[r] = Idle
           /\ \A v \in Users \ {req[r].user} : users'[v] = users[v]
           /\ \A t \in DOMAIN tokens : tokens[t].user = req[r].user => ~Usable(t)'
           /\ \A q \in Slots \ {r} :
                 \/ InHand(q) /\ tokens[req[q].id].user = req[r].user
                 \/ At(q, "login", "issue") /\ req[q].user = req[r].user
                 => req'[q].late
<1> DEFINE u == req[r].user
           rows == {t \in DOMAIN tokens : tokens[t].user = u}
           hit == {q \in Slots : \/ InHand(q) /\ tokens[req[q].id].user = u
                                 \/ At(q, "login", "issue") /\ req[q].user = u}
<1>0. /\ RequestsTyped /\ Shaped(req[r]) /\ Proper(req[r], DOMAIN tokens) /\ TokensTyped
  BY DEF Typed, RequestsTyped
<1>1. /\ req[r].op \in UserOps
      /\ tokens' = [t \in DOMAIN tokens |->
                      IF t \in rows THEN [tokens[t] EXCEPT !.revoked = TRUE] ELSE tokens[t]]
      /\ users' = [users EXCEPT ![u].kept = FALSE]
      /\ req' = [q \in Slots |-> IF q = r THEN Idle
                                 ELSE IF q \in hit THEN [req[q] EXCEPT !["late"] = TRUE]
                                 ELSE req[q]]
      /\ UNCHANGED blind
  BY DEF RevokeSessions, RevokeAllForUser, Meanwhile, InHand, UserOps
<1>2. DOMAIN tokens' = DOMAIN tokens /\ u \in Users
  BY <1>0, <1>1 DEF Proper
<1>3. /\ RequestsTyped' /\ req'[r] = Idle
      /\ \A q \in Slots \ {r} : Stays(q)
      /\ \A q \in Slots \ {r} : q \in hit => req'[q] = [req[q] EXCEPT !["late"] = TRUE]
  <2> HIDE DEF hit
  <2> QED BY <1>0, <1>1, <1>2, IdleProper, MeanwhileStep
<1>4. ASSUME NEW q \in Slots, InHand(q)'
      PROVE  /\ InHand(q) /\ req'[q].id = req[q].id /\ (req[q].late => req'[q].late)
             /\ req[q].id \in rows => req'[q].late
  <2>1. q # r
    BY <1>3, <1>4 DEF InHand, Rotating, Idle
  <2>2. /\ Stays(q) /\ Shaped(req[q])
        /\ q \in hit => req'[q] = [req[q] EXCEPT !["late"] = TRUE]
    BY <1>0, <1>3, <2>1 DEF RequestsTyped
  <2>3. InHand(q)
    BY <1>4, <2>2 DEF InHand, Rotating, Stays
  <2>4. req[q].id \in rows => q \in hit
    BY <2>3
  <2>5. q \in hit => req'[q].late
    BY <2>2 DEF Shaped, Fields
  <2> QED BY <2>2, <2>3, <2>4, <2>5 DEF Stays
<1>5. \A t, s \in DOMAIN tokens :
         t \in rows /\ tokens[s].family = tokens[t].family => s \in rows
  BY <1>0 DEF TokensTyped
<1>6. /\ RevocationInv' /\ Rewritten /\ Fades
      /\ \A t \in rows \cap DOMAIN tokens : ~Usable(t)'
  <2> HIDE DEF rows
  <2> QED BY <1>1, <1>4, <1>5, RevokedKeeps
<1>7. UserShaped(users[u])
  BY <1>2 DEF Typed, UsersTyped
<1> DEFINE row == [users[u] EXCEPT !.kept = FALSE]
<1>8. /\ UserShaped(row) /\ row.known = users[u].known
      /\ row.active = users[u].active /\ row.roles = users[u].roles
  BY <1>7 DEF UserShaped, UserFields
<1>9. /\ users' = [v \in Users |-> users'[v]] /\ users'[u] = row
      /\ \A v \in Users \ {u} : users'[v] = users[v]
  BY <1>1, <1>2 DEF Typed, UsersTyped
<1> HIDE DEF row
<1>10. UsersTyped'
  BY <1>8, <1>9 DEF Typed, UsersTyped
<1>11. /\ ActiveAdmins(users)' = ActiveAdmins(users)
       /\ \A v \in Users : /\ users[v].known => users'[v].known
                           /\ users'[v].active => users[v].active \/ users'[v].known
  BY <1>8, <1>9 DEF ActiveAdmins
<1>12. ~Found(r)' /\ ~Decided(r)'
  BY <1>3 DEF Found, Decided, Idle
<1>13. AdminInv'
  BY <1>0, <1>1, <1>3, <1>11, <1>12, SameAdminsKeep
<1>14. ASSUME NEW q \in Slots \ {r}, q \in hit PROVE req'[q].late
  <2>1. Shaped(req[q]) /\ req'[q] = [req[q] EXCEPT !["late"] = TRUE]
    BY <1>0, <1>3, <1>14 DEF RequestsTyped
  <2> QED BY <2>1 DEF Shaped, Fields
<1>15. \A t \in DOMAIN tokens : tokens[t].user = u => ~Usable(t)'
  <2>1. \A t \in DOMAIN tokens : tokens[t].user = u => t \in rows
    OBVIOUS
  <2> QED BY <1>6, <2>1
<1>16. \A q \in Slots \ {r} :
          \/ InHand(q) /\ tokens[req[q].id].user = u
          \/ At(q, "login", "issue") /\ req[q].user = u
          => q \in hit
  OBVIOUS
<1> HIDE DEF rows, hit
<1>17. RequestStep(r) /\ TokensTyped'
  BY <1>0, <1>3, <1>6, RewrittenTyped DEF RequestStep
<1> QED BY <1>3, <1>6, <1>9, <1>10, <1>13, <1>14, <1>15, <1>16, <1>17

\* A step of a login, a session or a service account, or a new request:
\* nothing of the administration of users moves.
LEMMA OutsideKeeps ==
    ASSUME Typed, AdminInv, NEW r \in Slots, UNCHANGED <<users, blind>>,
           \A q \in Slots \ {r} : Stays(q),
           ~Found(r)', ~Decided(r)'
    PROVE  UsersTyped' /\ AdminInv'
BY SameAdminsKeep DEF Typed, UsersTyped, ActiveAdmins

LEMMA AcceptKeeps ==
    ASSUME Typed, RevocationInv, AdminInv, NEW r \in Slots,
           AuthRequest(r) \/ UsersRequest(r) \/ AccountRequests(r)
    PROVE  Typed' /\ RevocationInv' /\ AdminInv'
<1>1. /\ RequestsTyped' /\ UNCHANGED <<stores, blind>> /\ UNCHANGED <<users, tokens, blind>>
      /\ \A q \in Slots \ {r} : Stays(q)
      /\ \/ req'[r].pc \in {"allow", "find", "create", "read", "current"}
         \/ req'[r].op = "logout" /\ req'[r].pc = "revoke"
  BY RequestAccepted DEF stores, Typed
<1>2. ~Found(r)' /\ ~Decided(r)' /\ ~InHand(r)'
  BY <1>1 DEF Found, Decided, Administers, InHand, Rotating, UserOps, Deactivations, RoleChanges
<1>3. \A q \in Slots : InHand(q)' =>
         InHand(q) /\ req'[q].id = req[q].id /\ (req[q].late => req'[q].late)
  BY <1>1, <1>2 DEF InHand, Rotating, Stays
<1>4. Unrevoked /\ TokensTyped'
  BY <1>1, UnchangedTokens DEF Typed
<1>5. RevocationInv'
  BY <1>3, <1>4, QuietKeeps
<1> QED BY <1>1, <1>2, <1>4, <1>5, OutsideKeeps DEF Typed

LEMMA AccountStepIs ==
    ASSUME RequestsTyped, NEW r \in Slots, AccountStep(r)
    PROVE  /\ RequestStep(r) /\ UNCHANGED <<users, tokens, blind>>
           /\ req[r].op \in AccountOps \cup {"createAccount"}
<1>0. Shaped(req[r]) /\ Proper(req[r], DOMAIN tokens)
  BY DEF RequestsTyped
<1>1. CASE InsertAccount(r)
  <2>1. /\ req[r].op = "createAccount" /\ req' = Done(r) /\ UNCHANGED <<users, tokens, blind>>
    BY <1>1 DEF InsertAccount, At
  <2> QED BY <2>1, DoneStep
<1>2. CASE FindAccount(r)
  <2> DEFINE row == accounts[req[r].id]
             q   == [req[r] EXCEPT !.saw = row]
             pc  == CASE req[r].op = "updateAccount" -> UpdateAccountUseCase(row)
                      [] req[r].op = "rotateSecret" -> RotateSecretUseCase(row)
                      [] req[r].op = "deleteAccount" -> DeleteAccountUseCase(row)
                      [] req[r].op = "serviceToken" -> ServiceTokenUseCase(req[r], row)
  <2>1. /\ req[r].op \in AccountOps /\ req' = Continue(r, q, pc)
        /\ UNCHANGED <<users, tokens, blind>>
    BY <1>2 DEF FindAccount, Reads, stores
  <2>2. pc \in {"write", "done"}
    BY <2>1 DEF AccountOps, UpdateAccountUseCase, RotateSecretUseCase, DeleteAccountUseCase,
                ServiceTokenUseCase
  <2> HIDE DEF row
  <2>3. /\ Shaped(q) /\ q.op = req[r].op /\ q.user = req[r].user /\ q.id = req[r].id
        /\ q.want = req[r].want /\ q.late = req[r].late /\ q.stale = req[r].stale
        /\ q.twin = req[r].twin /\ q.now = req[r].now
    BY <1>0 DEF Shaped, Fields
  <2> HIDE DEF q, pc
  <2>4. RequestStep(r)
    BY <2>1, <2>2, <2>3, ContinueStep
  <2> QED BY <2>1, <2>4
<1>3. CASE WriteAccount(r)
  <2> DEFINE hit == {p \in Slots : /\ At(p, "updateAccount", "write") /\ req[p].id = req[r].id
                                   /\ req[r].op = "updateAccount"}
  <2>1. /\ req[r].op \in AccountOps /\ UNCHANGED <<users, tokens, blind>>
        /\ req' = [p \in Slots |-> IF p = r THEN Idle
                                   ELSE IF p \in hit THEN [req[p] EXCEPT !["stale"] = TRUE]
                                   ELSE req[p]]
    BY <1>3 DEF WriteAccount, Meanwhile
  <2> HIDE DEF hit
  <2>2. RequestsTyped' /\ req'[r] = Idle /\ \A q \in Slots \ {r} : Stays(q)
    BY <2>1, IdleProper, MeanwhileStep, ZenonT(60)
  <2> QED BY <2>1, <2>2 DEF RequestStep
<1> QED BY <1>1, <1>2, <1>3 DEF AccountStep

\* Every step of a handler.
LEMMA HandlerKeeps ==
    ASSUME Typed, RevocationInv, AdminInv, NEW r \in Slots,
           LoginStep(r) \/ TokenStep(r) \/ UsersStep(r) \/ AccountStep(r)
    PROVE  Typed' /\ RevocationInv' /\ AdminInv'
<1>0. RequestsTyped
  BY DEF Typed
<1>1. ASSUME RequestStep(r), req[r].op \notin UserOps PROVE ~Found(r)' /\ ~Decided(r)'
  BY <1>1 DEF RequestStep, GoesOn, Found, Decided, Administers, Idle, UserOps
<1>2. ASSUME RequestStep(r), TokensTyped', RevocationInv', UNCHANGED <<users, blind>>,
             req[r].op \notin UserOps
      PROVE  Typed' /\ RevocationInv' /\ AdminInv'
  <2>1. UsersTyped' /\ AdminInv'
    BY <1>1, <1>2, OutsideKeeps DEF RequestStep
  <2> QED BY <1>2, <2>1 DEF Typed, RequestStep
<1>3. CASE LoginStep(r)
  <2>1. /\ RequestStep(r) /\ TokensTyped' /\ RevocationInv'
        /\ UNCHANGED <<users, blind>> /\ req[r].op = "login"
    BY <1>3, LoginKeeps
  <2> QED BY <1>2, <2>1 DEF UserOps, Deactivations, RoleChanges
<1>4. CASE TokenStep(r)
  <2>1. /\ RequestStep(r) /\ TokensTyped' /\ RevocationInv'
        /\ UNCHANGED <<users, blind>> /\ req[r].op \in {"refresh", "logout"}
    BY <1>4, TokenKeeps
  <2> QED BY <1>2, <2>1 DEF UserOps, Deactivations, RoleChanges
<1>5. CASE AccountStep(r)
  <2>1. /\ RequestStep(r) /\ UNCHANGED <<users, tokens, blind>>
        /\ req[r].op \in AccountOps \cup {"createAccount"}
    BY <1>0, <1>5, AccountStepIs
  <2>2. TokensTyped' /\ RevocationInv'
    BY <2>1, OtherKeeps DEF AccountOps
  <2> QED BY <1>2, <2>1, <2>2 DEF UserOps, Deactivations, RoleChanges, AccountOps
<1>6. CASE RevokeSessions(r)
  BY <1>6, RevokeKeeps DEF Typed, RequestStep
<1>7. CASE UsersStep(r) /\ ~RevokeSessions(r)
  <2>1. /\ RequestStep(r) /\ UsersTyped' /\ AdminInv' /\ UNCHANGED tokens
        /\ req[r].op \in UserOps
    <3>1. CASE CurrentRoles(r) \/ FindByID(r) \/ GetRoles(r) \/ CountAdmins(r)
               \/ ClearRoles(r) \/ RowsUnlocked(r)
      <4>1. /\ RequestStep(r) /\ UNCHANGED <<users, tokens, blind>>
            /\ AdminInv' /\ req[r].op \in UserOps
        BY <3>1, ReadingKeeps
      <4> QED BY <4>1 DEF Typed, UsersTyped
    <3>2. CASE WriteUser(r) \/ GrantRoles(r)
      BY <3>2, WritingKeeps
    <3>3. CASE InsertUser(r)
      BY <3>3, InsertKeeps
    <3> QED BY <1>7, <3>1, <3>2, <3>3 DEF UsersStep
  <2>2. TokensTyped' /\ RevocationInv'
    BY <2>1, OtherKeeps DEF UserOps, Deactivations, RoleChanges
  <2> QED BY <2>1, <2>2 DEF Typed, RequestStep
<1> QED BY <1>3, <1>4, <1>5, <1>6, <1>7

-----------------------------------------------------------------------------
(* What happens to requests from outside. *)

LEMMA LostByNat ==
    ASSUME NEW rs \in SUBSET Slots, NEW t
    PROVE  LostBy(rs, t) \in Nat
<1>1. IsFiniteSet(Slots)
  BY SessionsAssumption
<1>2. IsFiniteSet(rs \cap Turning(t))
  BY <1>1, FS_Subset
<1> QED BY <1>2, FS_CardinalityType DEF LostBy

\* Requests are abandoned: counted in the rows, and gone.
LEMMA AbandonKeeps ==
    ASSUME Typed, RevocationInv, AdminInv, NEW rs \in SUBSET Slots, Abandon(rs),
           req' = [r \in Slots |-> IF r \in rs THEN Idle ELSE req[r]]
    PROVE  Typed' /\ RevocationInv' /\ AdminInv'
<1>1. /\ tokens' = [t \in DOMAIN tokens |-> [tokens[t] EXCEPT !.lost = @ + LostBy(rs, t)]]
      /\ UNCHANGED blind
      /\ \A u \in Users : \E kept : users'[u] = [users[u] EXCEPT !.kept = kept]
      /\ users' = [u \in Users |-> users'[u]]
  BY DEF Abandon
<1>2. ASSUME NEW t \in DOMAIN tokens
      PROVE  /\ tokens'[t] \in TokenRow
             /\ tokens'[t].user = tokens[t].user /\ tokens'[t].family = tokens[t].family
             /\ tokens'[t].revoked = tokens[t].revoked /\ tokens'[t].late = tokens[t].late
             /\ tokens'[t].used = tokens[t].used /\ tokens'[t].expired = tokens[t].expired
  <2>1. tokens[t] \in TokenRow
    BY TokensDomain DEF Typed
  <2> DEFINE lost == tokens[t].lost + LostBy(rs, t)
  <2>2. lost \in Int
    BY <2>1, LostByNat DEF TokenRow
  <2>3. tokens'[t] = [tokens[t] EXCEPT !.lost = lost]
    BY <1>1
  <2> HIDE DEF lost
  <2> QED BY <2>1, <2>2, <2>3 DEF TokenRow
<1>3. Unrevoked
  BY <1>1, <1>2 DEF Unrevoked, Rewritten
<1>4. TokensTyped' /\ DOMAIN tokens' = DOMAIN tokens
  BY <1>3, RewrittenTyped DEF Unrevoked, Typed
<1>5. ASSUME NEW u \in Users
      PROVE  /\ UserShaped(users'[u]) /\ users'[u].known = users[u].known
             /\ users'[u].active = users[u].active /\ users'[u].roles = users[u].roles
  <2>1. UserShaped(users[u])
    BY DEF Typed, UsersTyped
  <2>2. PICK kept : users'[u] = [users[u] EXCEPT !.kept = kept]
    BY <1>1
  <2> QED BY <2>1, <2>2 DEF UserShaped, UserFields
<1>6. UsersTyped'
  BY <1>1, <1>5 DEF UsersTyped
<1>7. ASSUME NEW r \in Slots
      PROVE  /\ Shaped(req'[r]) /\ Proper(req'[r], DOMAIN tokens')
             /\ req'[r] = Idle \/ req'[r] = req[r]
  <2>1. Shaped(req[r]) /\ Proper(req[r], DOMAIN tokens)
    BY DEF Typed, RequestsTyped
  <2> QED BY <1>4, <2>1, IdleProper
<1>8. RequestsTyped'
  BY <1>7 DEF RequestsTyped
<1>9. RevocationInv'
  <2>1. \A q \in Slots : InHand(q)' =>
           InHand(q) /\ req'[q].id = req[q].id /\ (req[q].late => req'[q].late)
    BY <1>7 DEF InHand, Rotating, Idle
  <2> QED BY <1>3, <2>1, QuietKeeps
<1>10. ActiveAdmins(users)' = ActiveAdmins(users)
  BY <1>5 DEF ActiveAdmins
<1>11. AdminInv'
  <2>1. \A u \in Users : users'[u].active => users'[u].known
    BY <1>5 DEF AdminInv
  <2>2. ASSUME NEW q \in Slots, Found(q)' PROVE users'[req'[q].user].known
    <3>1. req'[q] = req[q] /\ Found(q)
      BY <1>7, <2>2 DEF Found, Idle
    <3>2. req[q].user \in Users
      BY <3>1 DEF Found, Typed, RequestsTyped, Proper
    <3> QED BY <1>5, <3>1, <3>2 DEF AdminInv
  <2>3. AdminRemains'
    BY <1>1, <1>10 DEF AdminInv, AdminRemains
  <2>4. ASSUME NEW q \in Slots, Decided(q)'
        PROVE  req'[q].stale \/ blind' \/ OtherAdmin(q)' \/ Harmless(q)'
    <3>1. req'[q] = req[q]
      BY <1>7, <2>4 DEF Decided, Idle
    <3>2. /\ Decided(q)
          /\ OtherAdmin(q) => OtherAdmin(q)'
          /\ Harmless(q) => Harmless(q)'
      BY <1>10, <2>4, <3>1 DEF Decided, Administers, OtherAdmin, Harmless
    <3> QED BY <1>1, <3>1, <3>2 DEF AdminInv
  <2> QED BY <2>1, <2>2, <2>3, <2>4 DEF AdminInv
<1> QED BY <1>4, <1>6, <1>8, <1>9, <1>11 DEF Typed

LEMMA OutsideSteps ==
    ASSUME Typed, RevocationInv, AdminInv,
           \/ \E r \in Slots : StatementFails(r)
           \/ Restart \/ Expire \/ WindowPasses
           \/ \E u \in Users : SweepFinds(u)
           \/ SweepDeletes
           \/ UNCHANGED vars
    PROVE  Typed' /\ RevocationInv' /\ AdminInv'
<1>1. ASSUME NEW r \in Slots, StatementFails(r) PROVE Typed' /\ RevocationInv' /\ AdminInv'
  <2>1. Abandon({r}) /\ req' = [req EXCEPT ![r] = Idle]
    BY <1>1 DEF StatementFails, Done
  <2>2. req' = [q \in Slots |-> IF q \in {r} THEN Idle ELSE req[q]]
    BY <2>1 DEF Typed, RequestsTyped
  <2> QED BY <2>1, <2>2, AbandonKeeps
<1>2. CASE Restart
  <2>1. /\ Abandon(Slots)
        /\ req' = [q \in Slots |-> IF q \in Slots THEN Idle ELSE req[q]]
    BY <1>2 DEF Restart
  <2> QED BY <2>1, AbandonKeeps
<1>3. CASE Expire
  <2>1. PICK t \in DOMAIN tokens : tokens' = [tokens EXCEPT ![t].expired = TRUE]
    BY <1>3 DEF Expire
  <2>2. UNCHANGED <<users, req, blind>>
    BY <1>3 DEF Expire
  <2> DEFINE row == [tokens[t] EXCEPT !.expired = TRUE]
  <2>3. /\ \A s \in DOMAIN tokens : tokens[s] \in TokenRow
        /\ tokens = [s \in DOMAIN tokens |-> tokens[s]]
    BY TokensDomain DEF Typed
  <2>4. /\ row \in TokenRow /\ row.user = tokens[t].user /\ row.family = tokens[t].family
        /\ row.revoked = tokens[t].revoked /\ row.late = tokens[t].late
        /\ row.used = tokens[t].used /\ row.expired = TRUE
    BY <2>3 DEF TokenRow
  <2>5. tokens' = [tokens EXCEPT ![t] = row]
    BY <2>1
  <2> HIDE DEF row
  <2>6. Unrevoked
    BY <2>3, <2>4, <2>5 DEF Unrevoked, Rewritten
  <2>7. TokensTyped' /\ DOMAIN tokens' = DOMAIN tokens
    BY <2>6, RewrittenTyped DEF Unrevoked, Typed
  <2>8. RevocationInv'
    BY <2>2, <2>6, QuietKeeps DEF InHand, Rotating
  <2>9. RequestsTyped' /\ UsersTyped'
    BY <2>2, <2>7 DEF Typed, RequestsTyped, UsersTyped
  <2>10. AdminInv'
    BY <2>2 DEF AdminInv, Found, AdminRemains, Decided, Administers, OtherAdmin, Harmless, ActiveAdmins
  <2> QED BY <2>7, <2>8, <2>9, <2>10 DEF Typed
<1>4. CASE \/ WindowPasses
           \/ \E u \in Users : SweepFinds(u)
           \/ SweepDeletes
           \/ UNCHANGED vars
  <2>1. UNCHANGED <<users, tokens, req, blind>>
    BY <1>4 DEF WindowPasses, SweepFinds, SweepDeletes, vars, stores
  <2>2. Typed'
    BY <2>1 DEF Typed, UsersTyped, TokensTyped, RequestsTyped
  <2>3. RevocationInv'
    BY <2>1 DEF RevocationInv, Usable, Ended, InHand, Rotating
  <2>4. AdminInv'
    BY <2>1 DEF AdminInv, Found, AdminRemains, Decided, Administers, OtherAdmin, Harmless, ActiveAdmins
  <2> QED BY <2>2, <2>3, <2>4
<1> QED BY <1>1, <1>2, <1>3, <1>4

-----------------------------------------------------------------------------
(* Deactivation.  A token that can be used belongs to a user who is active, *)
(* or is covered by a revocation to come, or one that failed; and so does   *)
(* what a login is about to issue and what a rotation is about to create.   *)

Issuing(r) == At(r, "login", "issue")
Child(r) == Rotating(r, {"child"})

SignedInv ==
    /\ \A t \in DOMAIN tokens : Usable(t) => tokens[t].late \/ Covered(tokens[t].user)
    /\ \A r \in Slots : Issuing(r) => req[r].late \/ Covered(req[r].user)
    /\ \A r \in Slots : Child(r) =>
          req[r].late \/ tokens[req[r].id].late \/ Covered(tokens[req[r].id].user)

\* No login and no rotation gets as far as its decision about the user.
NoneDecides ==
    /\ \A q \in Slots : Issuing(q)' =>
          Issuing(q) /\ req'[q].user = req[q].user /\ (req[q].late => req'[q].late)
    /\ \A q \in Slots : Child(q)' =>
          Child(q) /\ req'[q].id = req[q].id /\ (req[q].late => req'[q].late)
CoverageStays == \A v \in Users : Covered(v) => Covered(v)'

LEMMA OwnersAreUsers ==
    ASSUME Typed
    PROVE  /\ \A t \in DOMAIN tokens : tokens[t].user \in Users
           /\ \A q \in Slots : Issuing(q) => req[q].user \in Users
           /\ \A q \in Slots : Child(q) => req[q].id \in DOMAIN tokens
<1>1. \A t \in DOMAIN tokens : tokens[t].user \in Users
  BY TokensDomain DEF Typed, TokenRow
<1> QED BY <1>1 DEF Typed, RequestsTyped, Proper, Issuing, At, Child, Rotating

\* A login may decide to issue for a user who is active, a rotation to create.
LEMMA FadesKeeps ==
    ASSUME Typed, SignedInv, Fades, CoverageStays,
           \A q \in Slots : Issuing(q)' =>
              \/ Issuing(q) /\ req'[q].user = req[q].user /\ (req[q].late => req'[q].late)
              \/ users'[req'[q].user].active,
           \A q \in Slots : Child(q)' =>
              \/ Child(q) /\ req'[q].id = req[q].id /\ (req[q].late => req'[q].late)
              \/ req'[q].id \in DOMAIN tokens /\ users'[tokens[req'[q].id].user].active
    PROVE  SignedInv'
<1>1. ASSUME NEW t \in DOMAIN tokens', Usable(t)'
      PROVE  tokens'[t].late \/ Covered(tokens[t].user)'
  <2>1. t \in DOMAIN tokens /\ Usable(t) /\ tokens[t].user \in Users
    BY <1>1, OwnersAreUsers DEF Fades
  <2>2. tokens'[t].late = tokens[t].late /\ tokens'[t].user = tokens[t].user
    BY <2>1 DEF Fades
  <2> QED BY <2>1, <2>2 DEF SignedInv, CoverageStays
<1>2. ASSUME NEW q \in Slots, Issuing(q)'
      PROVE  req'[q].late \/ Covered(req[q].user)'
  <2>1. CASE Issuing(q) /\ req'[q].user = req[q].user /\ (req[q].late => req'[q].late)
    <3>1. req[q].user \in Users
      BY <2>1, OwnersAreUsers
    <3> QED BY <2>1, <3>1 DEF SignedInv, CoverageStays
  <2>2. CASE users'[req'[q].user].active
    BY <2>2 DEF Covered
  <2> QED BY <1>2, <2>1, <2>2
<1>3. ASSUME NEW q \in Slots, Child(q)'
      PROVE  req'[q].late \/ tokens'[req'[q].id].late \/ Covered(tokens[req[q].id].user)'
  <2>1. CASE Child(q) /\ req'[q].id = req[q].id /\ (req[q].late => req'[q].late)
    <3>1. req[q].id \in DOMAIN tokens /\ tokens[req[q].id].user \in Users
      BY <2>1, OwnersAreUsers
    <3>2. /\ tokens'[req'[q].id].late = tokens[req[q].id].late
          /\ tokens'[req'[q].id].user = tokens[req[q].id].user
      BY <2>1, <3>1 DEF Fades
    <3> QED BY <2>1, <3>1, <3>2 DEF SignedInv, CoverageStays
  <2>2. CASE req'[q].id \in DOMAIN tokens /\ users'[tokens[req'[q].id].user].active
    BY <2>2 DEF Covered, Fades
  <2> QED BY <1>3, <2>1, <2>2
<1> QED BY <1>1, <1>2, <1>3 DEF SignedInv

LEMMA NoneDecidesKeeps ==
    ASSUME Typed, SignedInv, Fades, CoverageStays, NoneDecides
    PROVE  SignedInv'
BY FadesKeeps DEF NoneDecides

\* A token is created: by a login that decided to, or a rotation.
LEMMA CreatedSigned ==
    ASSUME Typed, SignedInv, NEW row \in TokenRow, Create(row),
           \/ row.family = Len(tokens) + 1
           \/ row.family \in DOMAIN tokens /\ tokens[row.family].user = row.user,
           row.late \/ Covered(row.user),
           CoverageStays, NoneDecides
    PROVE  SignedInv'
<1> DEFINE n == Len(tokens) + 1
<1>1. /\ DOMAIN tokens' = DOMAIN tokens \cup {n} /\ n \notin DOMAIN tokens
      /\ \A t \in DOMAIN tokens : tokens'[t] = tokens[t]
      /\ tokens'[n] = row
  BY CreatedTyped DEF Typed
<1> HIDE DEF n
<1>2. row.user \in Users
  BY DEF TokenRow
<1>3. ASSUME NEW t \in DOMAIN tokens', Usable(t)'
      PROVE  tokens'[t].late \/ Covered(tokens[t].user)'
  <2>1. CASE t \in DOMAIN tokens
    <3>1. tokens'[t] = tokens[t] /\ Usable(t) /\ tokens[t].user \in Users
      BY <1>1, <1>3, <2>1, OwnersAreUsers DEF Usable
    <3> QED BY <2>1, <3>1 DEF SignedInv, CoverageStays
  <2>2. CASE t = n
    BY <1>1, <1>2, <2>2 DEF CoverageStays
  <2> QED BY <1>1, <2>1, <2>2
<1>4. ASSUME NEW q \in Slots, Issuing(q)'
      PROVE  req'[q].late \/ Covered(req[q].user)'
  <2>1. Issuing(q) /\ req'[q].user = req[q].user /\ (req[q].late => req'[q].late)
    BY <1>4 DEF NoneDecides
  <2>2. req[q].user \in Users
    BY <2>1, OwnersAreUsers
  <2> QED BY <2>1, <2>2 DEF SignedInv, CoverageStays
<1>5. ASSUME NEW q \in Slots, Child(q)'
      PROVE  req'[q].late \/ tokens'[req'[q].id].late \/ Covered(tokens[req[q].id].user)'
  <2>1. Child(q) /\ req'[q].id = req[q].id /\ (req[q].late => req'[q].late)
    BY <1>5 DEF NoneDecides
  <2>2. req[q].id \in DOMAIN tokens /\ tokens[req[q].id].user \in Users
    BY <2>1, OwnersAreUsers
  <2>3. tokens'[req'[q].id] = tokens[req[q].id]
    BY <1>1, <2>1, <2>2
  <2> QED BY <2>1, <2>2, <2>3 DEF SignedInv, CoverageStays
<1> QED BY <1>3, <1>4, <1>5 DEF SignedInv

\* A step of slot r that writes no user and revokes no sessions of one.
LEMMA CoverageOf ==
    ASSUME NEW r \in Slots, \A q \in Slots \ {r} : Stays(q), UNCHANGED users,
           ~(req[r].op \in Deactivations /\ req[r].pc = "revoke")
    PROVE  CoverageStays
<1>1. \A u : Pending(u) => Pending(u)'
  BY PendingStays
<1> QED BY <1>1 DEF CoverageStays, Covered

LEMMA OthersDecideNot ==
    ASSUME NEW r \in Slots, \A q \in Slots \ {r} : Stays(q), ~Issuing(r)', ~Child(r)'
    PROVE  NoneDecides
BY DEF NoneDecides, Stays, Issuing, At, Child, Rotating

LEMMA LoginSigned ==
    ASSUME Typed, RevocationInv, SignedInv, NEW r \in Slots, LoginStep(r)
    PROVE  SignedInv'
<1>1. /\ RequestStep(r) /\ UNCHANGED users /\ req[r].op = "login" /\ RequestsTyped
      /\ \A q \in Slots \ {r} : Stays(q)
      /\ DOMAIN tokens \subseteq DOMAIN tokens'
  <2>1. DOMAIN tokens \subseteq DOMAIN tokens'
    <3>1. CASE IssueForUser(r)
      BY <3>1 DEF IssueForUser, Create, Typed, TokensTyped
    <3>2. CASE ~IssueForUser(r)
      BY <3>2 DEF LoginStep, Allow, Forget, Authenticate, OnSuccess, OnFailure, StoreFailure,
                  Reads, stores
    <3> QED BY <3>1, <3>2
  <2> QED BY <2>1, LoginKeeps DEF RequestStep, Typed
<1>2. CoverageStays
  BY <1>1, CoverageOf DEF Deactivations
<1>3. ~Child(r)'
  BY <1>1 DEF RequestStep, GoesOn, Child, Rotating, Idle
<1>4. CASE Allow(r) \/ Forget(r) \/ Authenticate(r) \/ OnSuccess(r) \/ OnFailure(r) \/ StoreFailure(r)
  <2>1. UNCHANGED tokens
    BY <1>4 DEF Allow, Forget, Authenticate, OnSuccess, OnFailure, StoreFailure, Reads, stores
  <2>2. Issuing(r)' => users'[req'[r].user].active
    <3>1. CASE \/ req' = [req EXCEPT ![r].pc = "strike", ![r].now = window]
               \/ \E state : req' = [req EXCEPT ![r].pc = "store", ![r].saw = state]
      BY <1>1, <2>1, <3>1, FailureStep DEF Issuing, At
    <3>2. CASE ~(\/ req' = [req EXCEPT ![r].pc = "strike", ![r].now = window]
                 \/ \E state : req' = [req EXCEPT ![r].pc = "store", ![r].saw = state])
      <4>1. \/ req' = Done(r)
            \/ \E pc \in {"forget", "credentials"} : req' = To(r, pc)
            \/ req' = To(r, "issue") /\ users[req[r].user].active
        BY <1>4, <3>2 DEF Allow, Forget, Authenticate, LocalIdentity, OnSuccess, OnFailure, StoreFailure
      <4>2. CASE req' = Done(r)
        BY <1>1, <4>2, DoneStep DEF Issuing, At, Idle
      <4>3. CASE \E pc \in {"forget", "credentials"} : req' = To(r, pc)
        BY <1>1, <4>3, ToStep DEF Issuing, At
      <4>4. CASE req' = To(r, "issue") /\ users[req[r].user].active
        <5>1. GoesOn(r)
          BY <1>1, <4>4, ToStep
        <5> QED BY <1>1, <4>4, <5>1 DEF GoesOn
      <4> QED BY <4>1, <4>2, <4>3, <4>4
    <3> QED BY <3>1, <3>2
  <2>3. Fades
    BY <2>1, UnchangedTokens, UnrevokedFades DEF Typed
  <2>4. \A q \in Slots : Issuing(q)' =>
           \/ Issuing(q) /\ req'[q].user = req[q].user /\ (req[q].late => req'[q].late)
           \/ users'[req'[q].user].active
    BY <1>1, <2>2 DEF Stays, Issuing, At
  <2>5. \A q \in Slots : Child(q)' =>
           Child(q) /\ req'[q].id = req[q].id /\ (req[q].late => req'[q].late)
    BY <1>1, <1>3 DEF Stays, Child, Rotating
  <2> QED BY <1>2, <2>3, <2>4, <2>5, FadesKeeps
<1>5. CASE IssueForUser(r)
  <2> DEFINE row == Token(req[r].user, Len(tokens) + 1, req[r].late)
  <2>1. Create(row) /\ req' = To(r, "clear") /\ Issuing(r)
    BY <1>5 DEF IssueForUser, Issuing
  <2>2. req[r].user \in Users /\ req[r].late \in BOOLEAN
    BY <1>1 DEF RequestsTyped, Proper
  <2>3. /\ row \in TokenRow /\ row.family = Len(tokens) + 1
        /\ row.late = req[r].late /\ row.user = req[r].user
    BY <2>2, TokensDomain DEF Token, TokenRow, Typed
  <2>4. row.late \/ Covered(row.user)
    BY <2>1, <2>3 DEF SignedInv
  <2>5. ~Issuing(r)'
    BY <1>1, <2>1, ToStep DEF Issuing, At
  <2>6. NoneDecides
    BY <1>1, <1>3, <2>5, OthersDecideNot
  <2> HIDE DEF row
  <2> QED BY <1>2, <2>1, <2>3, <2>4, <2>6, CreatedSigned
<1> QED BY <1>4, <1>5 DEF LoginStep

LEMMA TokenSigned ==
    ASSUME Typed, RevocationInv, SignedInv, NEW r \in Slots, TokenStep(r)
    PROVE  SignedInv'
<1>1. /\ RequestStep(r) /\ UNCHANGED users /\ req[r].op \in {"refresh", "logout"}
      /\ RequestsTyped /\ TokensTyped /\ \A q \in Slots \ {r} : Stays(q)
      /\ Shaped(req[r]) /\ Proper(req[r], DOMAIN tokens)
  BY TokenKeeps DEF RequestStep, Typed, RequestsTyped
<1>2. CoverageStays
  BY <1>1, CoverageOf DEF Deactivations
<1>3. ~Issuing(r)'
  BY <1>1 DEF RequestStep, GoesOn, Issuing, At, Idle
<1>4. ASSUME Fades, ~Child(r)' PROVE SignedInv'
  BY <1>1, <1>2, <1>3, <1>4, OthersDecideNot, NoneDecidesKeeps
<1>5. CASE FindByHash(r)
  <2>1. /\ UNCHANGED tokens
        /\ \/ req' = Done(r)
           \/ \E pc \in {"reuse", "mark"} : req' = To(r, pc)
    BY <1>5 DEF FindByHash, Reads, stores
  <2>2. ~Child(r)'
    BY <1>1, <2>1, ToStep, DoneStep DEF Child, Rotating, Idle
  <2> QED BY <1>1, <1>4, <2>1, <2>2, UnchangedTokens, UnrevokedFades
<1>6. CASE ReuseDetected(r) \/ UserDisabled(r) \/ Revoke(r)
  <2>1. EndFamily(r, tokens[req[r].id].family)
    BY <1>6 DEF ReuseDetected, UserDisabled, Revoke
  <2>2. Fades /\ req'[r] = Idle
    BY <2>1, EndKeeps
  <2> QED BY <1>4, <2>2 DEF Child, Rotating, Idle
<1>7. CASE MarkUsed(r)
  <2>1. Unrevoked /\ req'[r].pc = "user"
    BY <1>7, MarkKeeps
  <2> QED BY <1>4, <2>1, UnrevokedFades DEF Child, Rotating
<1>8. CASE GetByID(r)
  <2> DEFINE active == users[tokens[req[r].id].user].active
  <2>1. /\ req[r].op = "refresh" /\ UNCHANGED tokens
        /\ req' = To(r, IF active THEN "child" ELSE "disable")
    BY <1>8 DEF GetByID, At, Reads, stores
  <2>2. GoesOn(r) /\ req'[r].pc = (IF active THEN "child" ELSE "disable")
    <3>1. CASE active
      <4>1. req' = To(r, "child")
        BY <2>1, <3>1
      <4> HIDE DEF active
      <4> QED BY <1>1, <2>1, <3>1, <4>1, ToStep
    <3>2. CASE ~active
      <4>1. req' = To(r, "disable")
        BY <2>1, <3>2
      <4> HIDE DEF active
      <4> QED BY <1>1, <2>1, <3>2, <4>1, ToStep
    <3> QED BY <3>1, <3>2
  <2>3. /\ req'[r].id = req[r].id /\ req[r].id \in DOMAIN tokens
        /\ Child(r)' => active
    BY <1>1, <2>1, <2>2 DEF GoesOn, Proper, Child, Rotating
  <2>4. Fades
    BY <1>1, <2>1, UnchangedTokens, UnrevokedFades
  <2>5. \A q \in Slots : Child(q)' =>
           \/ Child(q) /\ req'[q].id = req[q].id /\ (req[q].late => req'[q].late)
           \/ req'[q].id \in DOMAIN tokens /\ users'[tokens[req'[q].id].user].active
    BY <1>1, <2>3 DEF Stays, Child, Rotating
  <2>6. \A q \in Slots : Issuing(q)' =>
           Issuing(q) /\ req'[q].user = req[q].user /\ (req[q].late => req'[q].late)
    BY <1>1, <1>3 DEF Stays, Issuing, At
  <2> QED BY <1>2, <2>4, <2>5, <2>6, FadesKeeps
<1>9. CASE Rotate(r)
  <2> DEFINE parent == tokens[req[r].id]
             row    == Token(parent.user, parent.family, parent.late \/ req[r].late)
  <2>1. Create(row) /\ req' = Done(r) /\ Child(r)
    BY <1>9 DEF Rotate, At, Child, Rotating
  <2>2. req[r].id \in DOMAIN tokens /\ parent \in TokenRow
    BY <1>1, <2>1, OwnersAreUsers, TokensDomain
  <2>3. /\ row \in TokenRow /\ row.family = parent.family /\ row.user = parent.user
        /\ row.late = (parent.late \/ req[r].late)
    BY <2>2 DEF Token, TokenRow
  <2>4. row.late \/ Covered(row.user)
    BY <2>1, <2>3 DEF SignedInv
  <2>5. row.family \in DOMAIN tokens /\ tokens[row.family].user = row.user
    BY <1>1, <2>2, <2>3 DEF TokensTyped
  <2> HIDE DEF row, parent
  <2>6. DOMAIN tokens \subseteq DOMAIN tokens'
    BY <1>1, <2>1, <2>3, <2>5, CreatedTyped
  <2>7. ~Child(r)'
    BY <1>1, <2>1, <2>6, DoneStep DEF Child, Rotating, Idle
  <2>8. NoneDecides
    BY <1>1, <1>3, <2>7, OthersDecideNot
  <2> QED BY <1>2, <2>1, <2>3, <2>4, <2>5, <2>8, CreatedSigned
<1> QED BY <1>5, <1>6, <1>7, <1>8, <1>9 DEF TokenStep

LEMMA RevokeSigned ==
    ASSUME Typed, RevocationInv, AdminInv, SignedInv, NEW r \in Slots, RevokeSessions(r)
    PROVE  SignedInv'
<1> DEFINE u == req[r].user
<1>1. /\ \A q \in Slots \ {r} : Stays(q)
      /\ Fades /\ req'[r] = Idle
      /\ \A v \in Users \ {u} : users'[v] = users[v]
      /\ \A t \in DOMAIN tokens : tokens[t].user = u => ~Usable(t)'
      /\ \A q \in Slots \ {r} : InHand(q) /\ tokens[req[q].id].user = u => req'[q].late
      /\ \A q \in Slots \ {r} : Issuing(q) /\ req[q].user = u => req'[q].late
  BY RevokeKeeps DEF RequestStep, Issuing
<1>2. ASSUME NEW v \in Users \ {u}, Covered(v) PROVE Covered(v)'
  <2>1. Pending(v) => Pending(v)'
    BY <1>1, <1>2 DEF Pending, Stays
  <2> QED BY <1>1, <1>2, <2>1 DEF Covered
<1>3. ASSUME NEW t \in DOMAIN tokens', Usable(t)'
      PROVE  tokens'[t].late \/ Covered(tokens[t].user)'
  <2>1. /\ t \in DOMAIN tokens /\ Usable(t) /\ tokens[t].user \in Users \ {u}
        /\ tokens'[t].late = tokens[t].late /\ tokens'[t].user = tokens[t].user
    BY <1>1, <1>3, OwnersAreUsers DEF Fades
  <2> HIDE DEF u
  <2> QED BY <1>2, <2>1 DEF SignedInv
<1>4. ASSUME NEW q \in Slots, Issuing(q)'
      PROVE  req'[q].late \/ Covered(req[q].user)'
  <2>1. q # r
    BY <1>1, <1>4 DEF Issuing, At, Idle
  <2>2. /\ Issuing(q) /\ req'[q].user = req[q].user /\ (req[q].late => req'[q].late)
        /\ req[q].user \in Users
    BY <1>1, <1>4, <2>1, OwnersAreUsers DEF Stays, Issuing, At
  <2>3. CASE req[q].user = u
    BY <1>1, <2>1, <2>2, <2>3
  <2>4. CASE req[q].user # u
    <3> HIDE DEF u
    <3> QED BY <1>2, <2>2, <2>4 DEF SignedInv
  <2> QED BY <2>3, <2>4
<1>5. ASSUME NEW q \in Slots, Child(q)'
      PROVE  req'[q].late \/ tokens'[req'[q].id].late \/ Covered(tokens[req[q].id].user)'
  <2>1. q # r
    BY <1>1, <1>5 DEF Child, Rotating, Idle
  <2>2. /\ Child(q) /\ InHand(q) /\ req'[q].id = req[q].id /\ (req[q].late => req'[q].late)
    BY <1>1, <1>5, <2>1 DEF Stays, Child, InHand, Rotating
  <2>3. /\ req[q].id \in DOMAIN tokens /\ tokens[req[q].id].user \in Users
        /\ tokens'[req'[q].id].late = tokens[req[q].id].late
        /\ tokens'[req'[q].id].user = tokens[req[q].id].user
    BY <1>1, <2>2, OwnersAreUsers DEF Fades
  <2>4. CASE tokens[req[q].id].user = u
    BY <1>1, <2>1, <2>2, <2>4
  <2>5. CASE tokens[req[q].id].user # u
    <3> HIDE DEF u
    <3> QED BY <1>2, <2>2, <2>3, <2>5 DEF SignedInv
  <2> QED BY <2>4, <2>5
<1> QED BY <1>3, <1>4, <1>5 DEF SignedInv

LEMMA UsersSigned ==
    ASSUME Typed, RevocationInv, AdminInv, SignedInv, NEW r \in Slots, UsersStep(r)
    PROVE  SignedInv'
<1>1. CASE RevokeSessions(r)
  BY <1>1, RevokeSigned
<1>2. ASSUME RequestStep(r), UNCHANGED tokens, req[r].op \in UserOps, CoverageStays
      PROVE  SignedInv'
  <2>1. ~Issuing(r)' /\ ~Child(r)' /\ \A q \in Slots \ {r} : Stays(q)
    BY <1>2 DEF RequestStep, GoesOn, Issuing, At, Child, Rotating, Idle,
                UserOps, Deactivations, RoleChanges
  <2>2. Fades
    BY <1>2, UnchangedTokens, UnrevokedFades DEF Typed
  <2> QED BY <1>2, <2>1, <2>2, OthersDecideNot, NoneDecidesKeeps
<1>3. CASE CurrentRoles(r) \/ FindByID(r) \/ GetRoles(r) \/ CountAdmins(r)
           \/ ClearRoles(r) \/ RowsUnlocked(r)
  <2>1. RequestStep(r) /\ UNCHANGED <<users, tokens>> /\ req[r].op \in UserOps
    BY <1>3, ReadingKeeps
  <2>2. req[r].pc # "revoke"
    BY <1>3 DEF CurrentRoles, FindByID, GetRoles, CountAdmins, ClearRoles, RowsUnlocked, At
  <2>3. CoverageStays
    BY <2>1, <2>2, CoverageOf DEF RequestStep
  <2> QED BY <1>2, <2>1, <2>3
<1>4. CASE WriteUser(r) \/ GrantRoles(r)
  <2>1. /\ RequestStep(r) /\ UNCHANGED tokens /\ req[r].op \in UserOps
        /\ CoverageStays
    BY <1>4, WritingKeeps DEF CoverageStays
  <2> QED BY <1>2, <2>1
<1>5. CASE InsertUser(r)
  <2>1. RequestStep(r) /\ UNCHANGED tokens /\ req[r].op \in UserOps
    BY <1>5, InsertKeeps
  <2>2. \A v : Pending(v) => Pending(v)'
    BY <1>5, <2>1, PendingStays DEF RequestStep, InsertUser, At
  <2>3. \A v \in Users : users'[v] = users[v] \/ users'[v] = CreatedUser
    BY <1>5 DEF InsertUser, Typed, UsersTyped
  <2>4. CreatedUser.active
    BY DEF CreatedUser, User
  <2>5. CoverageStays
    BY <2>2, <2>3, <2>4 DEF CoverageStays, Covered
  <2> QED BY <1>2, <2>1, <2>5
<1> QED BY <1>1, <1>3, <1>4, <1>5 DEF UsersStep

LEMMA RestSigned ==
    ASSUME Typed, SignedInv, NEW r \in Slots,
           \/ AccountStep(r)
           \/ AuthRequest(r) \/ UsersRequest(r) \/ AccountRequests(r)
    PROVE  SignedInv'
<1>0. RequestsTyped
  BY DEF Typed
<1>1. CASE AccountStep(r)
  <2>1. /\ RequestStep(r) /\ UNCHANGED <<users, tokens>>
        /\ req[r].op \in AccountOps \cup {"createAccount"}
    BY <1>0, <1>1, AccountStepIs
  <2>2. ~Issuing(r)' /\ ~Child(r)' /\ \A q \in Slots \ {r} : Stays(q)
    BY <2>1 DEF RequestStep, GoesOn, Issuing, At, Child, Rotating, Idle, AccountOps
  <2>3. CoverageStays
    BY <2>1, <2>2, CoverageOf DEF AccountOps, Deactivations
  <2>4. Fades
    BY <2>1, UnchangedTokens, UnrevokedFades DEF Typed
  <2> QED BY <2>2, <2>3, <2>4, OthersDecideNot, NoneDecidesKeeps
<1>2. CASE AuthRequest(r) \/ UsersRequest(r) \/ AccountRequests(r)
  <2>1. /\ UNCHANGED <<users, tokens>>
        /\ \A q \in Slots \ {r} : Stays(q)
        /\ \/ req'[r].pc \in {"allow", "find", "create", "read", "current"}
           \/ req'[r].op = "logout" /\ req'[r].pc = "revoke"
    BY <1>0, <1>2, RequestAccepted DEF stores
  <2>2. req[r] = Idle
    BY <1>2 DEF AuthRequest, Login, Refresh, Logout, UsersRequest, CreateUser, UpdateUser,
                DeleteUser, SetUserRoles, RemoveUserRole, RevokeUserSessions, AccountRequests,
                CreateServiceAccount, UpdateServiceAccount, RotateServiceAccountSecret,
                DeleteServiceAccount, IssueServiceToken, Accept
  <2>3. ~Issuing(r)' /\ ~Child(r)'
    BY <2>1 DEF Issuing, At, Child, Rotating
  <2>4. CoverageStays
    BY <2>1, <2>2, CoverageOf DEF Idle
  <2>5. Fades
    BY <2>1, UnchangedTokens, UnrevokedFades DEF Typed
  <2> QED BY <2>1, <2>3, <2>4, <2>5, OthersDecideNot, NoneDecidesKeeps
<1> QED BY <1>1, <1>2

\* A request that is abandoned before it revoked the sessions leaves "kept".
LEMMA AbandonSigned ==
    ASSUME Typed, SignedInv, NEW rs \in SUBSET Slots, Abandon(rs),
           req' = [r \in Slots |-> IF r \in rs THEN Idle ELSE req[r]]
    PROVE  SignedInv'
<1>1. /\ tokens' = [t \in DOMAIN tokens |-> [tokens[t] EXCEPT !.lost = @ + LostBy(rs, t)]]
      /\ users' = [u \in Users |-> [users[u] EXCEPT !.kept = @ \/ \E r \in rs :
                      req[r].op \in Deactivations /\ req[r].pc = "revoke" /\ req[r].user = u]]
  BY DEF Abandon
<1>2. ASSUME NEW t \in DOMAIN tokens
      PROVE  /\ tokens'[t].user = tokens[t].user /\ tokens'[t].late = tokens[t].late
             /\ tokens'[t].revoked = tokens[t].revoked
             /\ tokens'[t].used = tokens[t].used /\ tokens'[t].expired = tokens[t].expired
  <2>1. tokens[t] \in TokenRow
    BY TokensDomain DEF Typed
  <2> DEFINE lost == tokens[t].lost + LostBy(rs, t)
  <2>2. tokens'[t] = [tokens[t] EXCEPT !.lost = lost]
    BY <1>1
  <2> HIDE DEF lost
  <2> QED BY <2>1, <2>2 DEF TokenRow
<1>3. Fades
  BY <1>1, <1>2 DEF Fades, Usable
<1>4. ASSUME NEW u \in Users, Covered(u) PROVE Covered(u)'
  <2> DEFINE left == \E r \in rs : req[r].op \in Deactivations /\ req[r].pc = "revoke" /\ req[r].user = u
             kept == users[u].kept \/ left
  <2>1. UserShaped(users[u]) /\ users'[u] = [users[u] EXCEPT !.kept = kept]
    BY <1>1 DEF Typed, UsersTyped
  <2>2. users'[u].active = users[u].active /\ users'[u].kept = kept
    <3> HIDE DEF kept
    <3> QED BY <2>1 DEF UserShaped, UserFields
  <2>3. Pending(u) => left \/ Pending(u)'
    BY DEF Pending
  <2> QED BY <1>4, <2>2, <2>3 DEF Covered
<1>5. NoneDecides
  BY DEF NoneDecides, Issuing, At, Child, Rotating, Idle
<1>6. CoverageStays
  BY <1>4 DEF CoverageStays
<1> QED BY <1>3, <1>5, <1>6, NoneDecidesKeeps

LEMMA OutsideSigned ==
    ASSUME Typed, SignedInv,
           \/ \E r \in Slots : StatementFails(r)
           \/ Restart \/ Expire \/ WindowPasses
           \/ \E u \in Users : SweepFinds(u)
           \/ SweepDeletes
           \/ UNCHANGED vars
    PROVE  SignedInv'
<1>1. ASSUME NEW r \in Slots, StatementFails(r) PROVE SignedInv'
  <2>1. Abandon({r}) /\ req' = [req EXCEPT ![r] = Idle]
    BY <1>1 DEF StatementFails, Done
  <2>2. req' = [q \in Slots |-> IF q \in {r} THEN Idle ELSE req[q]]
    BY <2>1 DEF Typed, RequestsTyped
  <2> QED BY <2>1, <2>2, AbandonSigned
<1>2. CASE Restart
  <2>1. /\ Abandon(Slots)
        /\ req' = [q \in Slots |-> IF q \in Slots THEN Idle ELSE req[q]]
    BY <1>2 DEF Restart
  <2> QED BY <2>1, AbandonSigned
<1>3. CASE Expire
  <2>1. PICK t \in DOMAIN tokens : tokens' = [tokens EXCEPT ![t].expired = TRUE]
    BY <1>3 DEF Expire
  <2>2. UNCHANGED <<users, req>>
    BY <1>3 DEF Expire
  <2> DEFINE row == [tokens[t] EXCEPT !.expired = TRUE]
  <2>3. /\ \A s \in DOMAIN tokens : tokens[s] \in TokenRow
        /\ tokens = [s \in DOMAIN tokens |-> tokens[s]]
    BY TokensDomain DEF Typed
  <2>4. row.user = tokens[t].user /\ row.late = tokens[t].late /\ row.expired = TRUE
    BY <2>3 DEF TokenRow
  <2>5. tokens' = [tokens EXCEPT ![t] = row]
    BY <2>1
  <2> HIDE DEF row
  <2>6. Fades
    BY <2>3, <2>4, <2>5 DEF Fades, Usable
  <2>7. NoneDecides /\ CoverageStays
    BY <2>2 DEF NoneDecides, CoverageStays, Covered, Pending, Issuing, At, Child, Rotating
  <2> QED BY <2>6, <2>7, NoneDecidesKeeps
<1>4. CASE \/ WindowPasses
           \/ \E u \in Users : SweepFinds(u)
           \/ SweepDeletes
           \/ UNCHANGED vars
  <2>1. UNCHANGED <<users, tokens, req>>
    BY <1>4 DEF WindowPasses, SweepFinds, SweepDeletes, vars, stores
  <2> QED BY <2>1 DEF SignedInv, Usable, Covered, Pending, Issuing, At, Child, Rotating
<1> QED BY <1>1, <1>2, <1>3, <1>4

-----------------------------------------------------------------------------
(* Service accounts.  An update that is about to write its row has read the *)
(* switch and the scopes as they still are, or was marked: only another     *)
(* update changes them.                                                     *)

AccountFields == {"present", "active", "scopes", "secret", "lastUsed"}
AccountShaped(row) == row = [f \in AccountFields |-> row[f]] /\ row.secret \in Int
Updating(r) == At(r, "updateAccount", "write")

AccountInv ==
    /\ \E rows : accounts \in Seq(rows)
    /\ \A a \in DOMAIN accounts : AccountShaped(accounts[a])
    /\ \A r \in Slots : req[r].op \in AccountOps => req[r].id \in DOMAIN accounts
    /\ \A r \in Slots : Updating(r) =>
          /\ AccountShaped(req[r].saw)
          /\ \/ req[r].stale
             \/ /\ req[r].saw.active = accounts[req[r].id].active
                /\ req[r].saw.scopes = accounts[req[r].id].scopes

\* What one step may do to a row, and whose step that is.
AsAsked ==
    \A a \in DOMAIN accounts :
        /\ accounts'[a].active # accounts[a].active =>
               ChangedBy(a, LAMBDA r : req[r].want = accounts'[a].active)
        /\ accounts'[a].scopes # accounts[a].scopes =>
               ChangedBy(a, LAMBDA r : req[r].roles = accounts'[a].scopes)
        /\ accounts'[a].secret >= accounts[a].secret

LEMMA SameAccounts ==
    ASSUME AccountInv, UNCHANGED accounts
    PROVE  AsAsked
BY DEF AccountInv, AccountShaped, AsAsked

\* A step of slot r that leaves the accounts alone.
LEMMA AccountsStay ==
    ASSUME AccountInv, NEW r \in Slots, \A q \in Slots \ {r} : Stays(q),
           UNCHANGED accounts,
           req'[r].op \in AccountOps => req'[r].id \in DOMAIN accounts,
           ~Updating(r)'
    PROVE  AccountInv' /\ AsAsked
<1>1. ASSUME NEW q \in Slots, req'[q].op \in AccountOps PROVE req'[q].id \in DOMAIN accounts
  BY <1>1 DEF AccountInv, Stays
<1>2. ASSUME NEW q \in Slots, Updating(q)'
      PROVE  /\ AccountShaped(req'[q].saw)
             /\ \/ req'[q].stale
                \/ /\ req'[q].saw.active = accounts[req'[q].id].active
                   /\ req'[q].saw.scopes = accounts[req'[q].id].scopes
  <2>1. q # r /\ Updating(q) /\ Stays(q)
    BY <1>2 DEF Stays, Updating, At
  <2> QED BY <2>1 DEF AccountInv, Stays
<1>3. (\E rows : accounts' \in Seq(rows)) /\ \A a \in DOMAIN accounts' : AccountShaped(accounts'[a])
  BY DEF AccountInv
<1> QED BY <1>1, <1>2, <1>3, SameAccounts DEF AccountInv

\* The row that a statement of q leaves, where it found "old".
Written(q, old) ==
    CASE q.op = "updateAccount" -> UpdateAccountRow(old, Merged(q))
      [] q.op = "rotateSecret" -> UpdateSecretHash(old)
      [] q.op = "deleteAccount" -> DeleteAccountRow(old)
      [] q.op = "serviceToken" -> UpdateLastUsed(old)

LEMMA WrittenRow ==
    ASSUME NEW q, NEW old, q.op \in AccountOps, AccountShaped(old),
           q.op = "updateAccount" => AccountShaped(q.saw)
    PROVE  /\ AccountShaped(Written(q, old))
           /\ Written(q, old).secret >= old.secret
           /\ q.op # "updateAccount" => /\ Written(q, old).active = old.active
                                        /\ Written(q, old).scopes = old.scopes
           /\ q.op = "updateAccount" =>
                 /\ Written(q, old).active = (IF q.want = None THEN q.saw.active ELSE q.want)
                 /\ Written(q, old).scopes = (IF q.roles = {} THEN q.saw.scopes ELSE q.roles)
<1>1. CASE q.op = "updateAccount"
  <2> DEFINE active == IF q.want = None THEN q.saw.active ELSE q.want
             scopes == IF q.roles = {} THEN q.saw.scopes ELSE q.roles
             new    == [[q.saw EXCEPT !.active = active, !.scopes = scopes]
                           EXCEPT !.secret = old.secret, !.lastUsed = old.lastUsed]
  <2>1. Written(q, old) = new
    BY <1>1 DEF Written, UpdateAccountRow, Merged
  <2> HIDE DEF active, scopes
  <2>2. AccountShaped(new) /\ new.active = active /\ new.scopes = scopes /\ new.secret = old.secret
    BY <1>1 DEF AccountShaped, AccountFields
  <2>3. old.secret \in Int
    BY DEF AccountShaped
  <2> HIDE DEF new
  <2> QED BY <1>1, <2>1, <2>2, <2>3 DEF active, scopes
<1>2. CASE q.op = "rotateSecret"
  <2>1. Written(q, old) = [old EXCEPT !.secret = @ + 1]
    BY <1>2 DEF Written, UpdateSecretHash
  <2> QED BY <1>2, <2>1 DEF AccountShaped, AccountFields
<1>3. CASE q.op = "deleteAccount"
  <2>1. Written(q, old) = [old EXCEPT !.present = FALSE]
    BY <1>3 DEF Written, DeleteAccountRow
  <2> QED BY <1>3, <2>1 DEF AccountShaped, AccountFields
<1>4. CASE q.op = "serviceToken"
  <2>1. Written(q, old) = [old EXCEPT !.lastUsed = TRUE]
    BY <1>4 DEF Written, UpdateLastUsed
  <2> QED BY <1>4, <2>1 DEF AccountShaped, AccountFields
<1> QED BY <1>1, <1>2, <1>3, <1>4 DEF AccountOps

LEMMA InsertAsAsked ==
    ASSUME RequestsTyped, AccountInv, NEW r \in Slots, InsertAccount(r)
    PROVE  AccountInv' /\ AsAsked
<1>1. /\ req' = Done(r) /\ UNCHANGED tokens
      /\ \/ UNCHANGED accounts
         \/ accounts' = Append(accounts, Account(req[r].roles))
  BY DEF InsertAccount
<1>2. RequestStep(r) /\ req'[r] = Idle
  BY <1>1, DoneStep
<1>3. ~Updating(r)' /\ req'[r].op \notin AccountOps
  BY <1>2 DEF Updating, At, Idle, AccountOps
<1>4. CASE UNCHANGED accounts
  BY <1>2, <1>3, <1>4, AccountsStay DEF RequestStep
<1>5. CASE accounts' = Append(accounts, Account(req[r].roles))
  <2> DEFINE row == Account(req[r].roles)
  <2>1. AccountShaped(row)
    BY DEF AccountShaped, AccountFields, Account
  <2> HIDE DEF row
  <2>2. PICK rows : accounts \in Seq(rows)
    BY DEF AccountInv
  <2>3. accounts \in Seq(rows \cup {row}) /\ accounts' = Append(accounts, row)
    BY <1>5, <2>2 DEF row
  <2>4. /\ accounts' \in Seq(rows \cup {row}) /\ Len(accounts') = Len(accounts) + 1
        /\ \A a \in 1..Len(accounts) : accounts'[a] = accounts[a]
        /\ accounts'[Len(accounts) + 1] = row
    BY <2>3, AppendProperties
  <2>5. /\ \A a \in DOMAIN accounts : a \in DOMAIN accounts' /\ accounts'[a] = accounts[a]
        /\ \A a \in DOMAIN accounts' : AccountShaped(accounts'[a])
    BY <2>1, <2>2, <2>4 DEF AccountInv
  <2>6. ASSUME NEW q \in Slots, req'[q].op \in AccountOps PROVE req'[q].id \in DOMAIN accounts'
    <3>1. q # r /\ Stays(q)
      BY <1>2, <1>3, <2>6 DEF RequestStep
    <3> QED BY <2>5, <2>6, <3>1 DEF AccountInv, Stays
  <2>7. ASSUME NEW q \in Slots, Updating(q)'
        PROVE  /\ AccountShaped(req'[q].saw)
               /\ \/ req'[q].stale
                  \/ /\ req'[q].saw.active = accounts'[req'[q].id].active
                     /\ req'[q].saw.scopes = accounts'[req'[q].id].scopes
    <3>1. q # r /\ Updating(q) /\ Stays(q)
      BY <1>2, <1>3, <2>7 DEF RequestStep, Stays, Updating, At
    <3>2. req[q].id \in DOMAIN accounts
      BY <3>1 DEF AccountInv, Updating, At, AccountOps
    <3>3. accounts'[req[q].id] = accounts[req[q].id]
      BY <2>5, <3>2
    <3> QED BY <3>1, <3>3 DEF AccountInv, Stays
  <2>8. AccountInv'
    BY <2>4, <2>5, <2>6, <2>7 DEF AccountInv
  <2>9. AsAsked
    BY <2>5 DEF AsAsked, AccountInv, AccountShaped
  <2> QED BY <2>8, <2>9
<1> QED BY <1>1, <1>4, <1>5

LEMMA FindAsAsked ==
    ASSUME RequestsTyped, AccountInv, NEW r \in Slots, FindAccount(r)
    PROVE  AccountInv' /\ AsAsked
<1> DEFINE row == accounts[req[r].id]
           q   == [req[r] EXCEPT !.saw = row]
           pc  == CASE req[r].op = "updateAccount" -> UpdateAccountUseCase(row)
                    [] req[r].op = "rotateSecret" -> RotateSecretUseCase(row)
                    [] req[r].op = "deleteAccount" -> DeleteAccountUseCase(row)
                    [] req[r].op = "serviceToken" -> ServiceTokenUseCase(req[r], row)
<1>1. /\ req[r].op \in AccountOps /\ req' = Continue(r, q, pc)
      /\ UNCHANGED <<accounts, tokens>>
  BY DEF FindAccount, Reads, stores
<1>2. pc \in {"write", "done"}
  BY <1>1 DEF AccountOps, UpdateAccountUseCase, RotateSecretUseCase, DeleteAccountUseCase,
              ServiceTokenUseCase
<1>3. AccountShaped(row) /\ req[r].id \in DOMAIN accounts /\ Shaped(req[r])
  BY <1>1 DEF AccountInv, RequestsTyped
<1>4. /\ Shaped(q) /\ q.op = req[r].op /\ q.user = req[r].user /\ q.id = req[r].id
      /\ q.want = req[r].want /\ q.late = req[r].late /\ q.stale = req[r].stale
      /\ q.twin = req[r].twin /\ q.now = req[r].now
      /\ q.saw = row
  <2> HIDE DEF row
  <2> QED BY <1>3 DEF Shaped, Fields
<1> HIDE DEF q, pc
<1>5. /\ RequestStep(r)
      /\ pc = "done" => req'[r] = Idle
      /\ pc # "done" => GoesOn(r) /\ req'[r].saw = q.saw
  BY <1>1, <1>2, <1>4, ContinueStep
<1>6. req'[r] = Idle \/ (req'[r].id = req[r].id /\ req'[r].saw = row)
  BY <1>1, <1>2, <1>4, <1>5 DEF GoesOn, AccountOps
<1>7. ASSUME NEW p \in Slots, req'[p].op \in AccountOps PROVE req'[p].id \in DOMAIN accounts
  <2>1. CASE p = r
    BY <1>3, <1>6, <1>7, <2>1 DEF Idle, AccountOps
  <2>2. CASE p # r
    BY <1>5, <1>7, <2>2 DEF RequestStep, Stays, AccountInv
  <2> QED BY <2>1, <2>2
<1>8. ASSUME NEW p \in Slots, Updating(p)'
      PROVE  /\ AccountShaped(req'[p].saw)
             /\ \/ req'[p].stale
                \/ /\ req'[p].saw.active = accounts[req'[p].id].active
                   /\ req'[p].saw.scopes = accounts[req'[p].id].scopes
  <2>1. CASE p = r
    BY <1>3, <1>6, <1>8, <2>1 DEF Updating, At, Idle
  <2>2. CASE p # r
    <3>1. Updating(p) /\ Stays(p)
      BY <1>5, <1>8, <2>2 DEF RequestStep, Stays, Updating, At
    <3> QED BY <3>1 DEF AccountInv, Stays
  <2> QED BY <2>1, <2>2
<1>9. (\E rows : accounts' \in Seq(rows)) /\ \A a \in DOMAIN accounts' : AccountShaped(accounts'[a])
  BY <1>1 DEF AccountInv
<1> QED BY <1>1, <1>7, <1>8, <1>9, SameAccounts DEF AccountInv

LEMMA WriteAsAsked ==
    ASSUME RequestsTyped, AccountInv, NEW r \in Slots, WriteAccount(r)
    PROVE  AccountInv' /\ AsAsked
<1> DEFINE a   == req[r].id
           row == Written(req[r], accounts[a])
           hit == {p \in Slots : At(p, "updateAccount", "write") /\ req[p].id = a
                                 /\ req[r].op = "updateAccount"}
<1>1. /\ req[r].pc = "write" /\ req[r].op \in AccountOps /\ UNCHANGED tokens
      /\ UNCHANGED accounts \/ accounts' = [accounts EXCEPT ![a] = row]
      /\ req' = [p \in Slots |-> IF p = r THEN Idle
                                 ELSE IF p \in hit THEN [req[p] EXCEPT !["stale"] = TRUE]
                                 ELSE req[p]]
  BY DEF WriteAccount, Written, Meanwhile
<1>2. a \in DOMAIN accounts
  BY <1>1 DEF AccountInv
<1>3. req[r].op = "updateAccount" => Updating(r) /\ AccountShaped(req[r].saw)
  BY <1>1 DEF AccountInv, Updating, At
<1>4. /\ AccountShaped(row) /\ row.secret >= accounts[a].secret
      /\ req[r].op # "updateAccount" => /\ row.active = accounts[a].active
                                        /\ row.scopes = accounts[a].scopes
      /\ req[r].op = "updateAccount" =>
            /\ row.active = (IF req[r].want = None THEN req[r].saw.active ELSE req[r].want)
            /\ row.scopes = (IF req[r].roles = {} THEN req[r].saw.scopes ELSE req[r].roles)
  <2>1. AccountShaped(accounts[a])
    BY <1>2 DEF AccountInv
  <2> QED BY <1>1, <1>3, <2>1, WrittenRow
<1> HIDE DEF hit
<1>5. /\ req'[r] = Idle
      /\ \A p \in Slots \ {r} : Stays(p)
      /\ \A p \in Slots \ {r} : p \in hit => req'[p] = [req[p] EXCEPT !["stale"] = TRUE]
  BY <1>1, IdleProper, MeanwhileStep, ZenonT(60)
<1> HIDE DEF row
<1>6. ~Updating(r)' /\ req'[r].op \notin AccountOps
  BY <1>5 DEF Updating, At, Idle, AccountOps
<1>7. CASE UNCHANGED accounts
  BY <1>5, <1>6, <1>7, AccountsStay
<1>8. CASE accounts' = [accounts EXCEPT ![a] = row]
  <2>1. PICK rows : accounts \in Seq(rows)
    BY DEF AccountInv
  <2>2. accounts' \in Seq(rows \cup {row})
    <3>1. accounts \in [1..Len(accounts) -> rows \cup {row}] /\ Len(accounts) \in Nat
      BY <2>1
    <3> HIDE DEF a
    <3>2. accounts' \in [1..Len(accounts) -> rows \cup {row}]
      BY <1>8, <3>1
    <3> QED BY <3>1, <3>2
  <2>3. /\ DOMAIN accounts' = DOMAIN accounts /\ accounts'[req[r].id] = row
        /\ \A b \in DOMAIN accounts : b # req[r].id => accounts'[b] = accounts[b]
    BY <1>2, <1>8
  <2>4. \A b \in DOMAIN accounts' : AccountShaped(accounts'[b])
    BY <1>4, <2>3 DEF AccountInv
  <2>5. ASSUME NEW p \in Slots, req'[p].op \in AccountOps PROVE req'[p].id \in DOMAIN accounts'
    <3>1. p # r /\ Stays(p)
      BY <1>5, <1>6, <2>5
    <3> QED BY <2>3, <2>5, <3>1 DEF AccountInv, Stays
  <2>6. ASSUME NEW p \in Slots, Updating(p)'
        PROVE  /\ AccountShaped(req'[p].saw)
               /\ \/ req'[p].stale
                  \/ /\ req'[p].saw.active = accounts'[req'[p].id].active
                     /\ req'[p].saw.scopes = accounts'[req'[p].id].scopes
    <3>1. p # r /\ Updating(p) /\ Stays(p)
      BY <1>5, <1>6, <2>6 DEF Stays, Updating, At
    <3>2. AccountShaped(req'[p].saw) /\ req[p].id \in DOMAIN accounts
      BY <3>1 DEF AccountInv, Stays, Updating, At, AccountOps
    <3>3. CASE req[p].id = req[r].id /\ req[r].op = "updateAccount"
      <4>1. p \in hit
        BY <3>1, <3>3 DEF hit, Updating
      <4>2. Shaped(req[p]) /\ req'[p] = [req[p] EXCEPT !["stale"] = TRUE]
        BY <1>5, <3>1, <4>1 DEF RequestsTyped
      <4> QED BY <3>2, <4>2 DEF Shaped, Fields
    <3>4. CASE ~(req[p].id = req[r].id /\ req[r].op = "updateAccount")
      <4>1. /\ accounts'[req[p].id].active = accounts[req[p].id].active
            /\ accounts'[req[p].id].scopes = accounts[req[p].id].scopes
        BY <1>4, <2>3, <3>2, <3>4
      <4> QED BY <3>1, <3>2, <4>1 DEF AccountInv, Stays
    <3> QED BY <3>3, <3>4
  <2>7. AccountInv'
    BY <2>2, <2>4, <2>5, <2>6 DEF AccountInv
  <2>8. ASSUME NEW b \in DOMAIN accounts
        PROVE  /\ accounts'[b].active # accounts[b].active =>
                     ChangedBy(b, LAMBDA p : req[p].want = accounts'[b].active)
               /\ accounts'[b].scopes # accounts[b].scopes =>
                     ChangedBy(b, LAMBDA p : req[p].roles = accounts'[b].scopes)
               /\ accounts'[b].secret >= accounts[b].secret
    <3>1. CASE b # req[r].id
      BY <2>3, <3>1 DEF AccountInv, AccountShaped
    <3>2. CASE b = req[r].id /\ req[r].op # "updateAccount"
      BY <1>4, <2>3, <3>2
    <3>3. CASE b = req[r].id /\ req[r].op = "updateAccount"
      <4>1. /\ Updating(r) /\ req'[r] = Idle /\ accounts'[b] = row
            /\ row.secret >= accounts[b].secret
        BY <1>3, <1>4, <1>5, <2>3, <3>3
      <4>2. req[r].stale \/ /\ req[r].saw.active = accounts[b].active
                            /\ req[r].saw.scopes = accounts[b].scopes
        BY <3>3, <4>1 DEF AccountInv
      <4>3. /\ row.active # accounts[b].active => req[r].want = row.active \/ req[r].stale
            /\ row.scopes # accounts[b].scopes => req[r].roles = row.scopes \/ req[r].stale
        BY <1>4, <3>3, <4>2
      <4> QED BY <3>3, <4>1, <4>3 DEF ChangedBy, Updating
    <3> QED BY <3>1, <3>2, <3>3
  <2> QED BY <2>7, <2>8 DEF AsAsked
<1> QED BY <1>1, <1>7, <1>8

\* A new request names an account that exists.
LEMMA AcceptAsAsked ==
    ASSUME RequestsTyped, AccountInv, NEW r \in Slots,
           AuthRequest(r) \/ UsersRequest(r) \/ AccountRequests(r)
    PROVE  AccountInv' /\ AsAsked
<1>1. /\ UNCHANGED accounts
      /\ \A q \in Slots \ {r} : Stays(q)
      /\ ~Updating(r)'
  <2>1. /\ UNCHANGED stores /\ \A q \in Slots \ {r} : Stays(q)
        /\ \/ req'[r].pc \in {"allow", "find", "create", "read", "current"}
           \/ req'[r].op = "logout" /\ req'[r].pc = "revoke"
    BY RequestAccepted
  <2> QED BY <2>1 DEF Updating, At, stores
<1>2. ASSUME NEW new, Accept(r, new) PROVE req'[r] = new
  BY <1>2 DEF Accept, RequestsTyped
<1>3. req'[r].op \in AccountOps => req'[r].id \in DOMAIN accounts
  <2>1. CASE AuthRequest(r)
    <3>1. CASE Login(r)
      <4>1. PICK u \in Users : Accept(r, [Idle EXCEPT !.op = "login", !.pc = "allow", !.user = u, !.now = window])
        BY <3>1 DEF Login
      <4>2. req'[r].op = "login"
        BY <1>2, <4>1 DEF Idle
      <4> QED BY <4>2 DEF AccountOps
    <3>2. CASE Refresh(r)
      <4>1. PICK t \in DOMAIN tokens :
              Accept(r, [Idle EXCEPT !.op = "refresh", !.pc = "find", !.id = t])
        BY <3>2 DEF Refresh
      <4>2. req'[r].op = "refresh"
        BY <1>2, <4>1 DEF Idle
      <4> QED BY <4>2 DEF AccountOps
    <3>3. CASE Logout(r)
      <4>1. PICK t \in DOMAIN tokens :
              Accept(r, [Idle EXCEPT !.op = "logout", !.pc = "revoke", !.id = t])
        BY <3>3 DEF Logout
      <4>2. req'[r].op = "logout"
        BY <1>2, <4>1 DEF Idle
      <4> QED BY <4>2 DEF AccountOps
    <3> QED BY <2>1, <3>1, <3>2, <3>3 DEF AuthRequest
  <2>2. CASE UsersRequest(r)
    <3>1. CASE CreateUser(r)
      <4>1. PICK a \in Actors, u \in Users, roles \in SUBSET Roles :
              Accept(r, [AdminRequest("createUser", "create", a, u) EXCEPT !.roles = roles])
        BY <3>1 DEF CreateUser
      <4>2. req'[r].op = "createUser"
        BY <1>2, <4>1 DEF AdminRequest, Idle
      <4> QED BY <4>2 DEF AccountOps
    <3>2. CASE UpdateUser(r)
      <4>1. PICK a \in Actors, u \in Users, active \in BOOLEAN :
              Accept(r, [AdminRequest("updateUser", "read", a, u) EXCEPT !.want = active])
        BY <3>2 DEF UpdateUser
      <4>2. req'[r].op = "updateUser"
        BY <1>2, <4>1 DEF AdminRequest, Idle
      <4> QED BY <4>2 DEF AccountOps
    <3>3. CASE DeleteUser(r)
      <4>1. PICK a \in Actors, u \in Users :
              Accept(r, [AdminRequest("deleteUser", "read", a, u) EXCEPT !.want = FALSE])
        BY <3>3 DEF DeleteUser
      <4>2. req'[r].op = "deleteUser"
        BY <1>2, <4>1 DEF AdminRequest, Idle
      <4> QED BY <4>2 DEF AccountOps
    <3>4. CASE SetUserRoles(r)
      <4>1. PICK a \in Actors, u \in Users, roles \in SUBSET Roles :
              Accept(r, [AdminRequest("setUserRoles", "read", a, u) EXCEPT !.roles = roles])
        BY <3>4 DEF SetUserRoles
      <4>2. req'[r].op = "setUserRoles"
        BY <1>2, <4>1 DEF AdminRequest, Idle
      <4> QED BY <4>2 DEF AccountOps
    <3>5. CASE RemoveUserRole(r)
      <4>1. PICK a \in Actors, u \in Users, role \in Roles :
              Accept(r, [AdminRequest("removeUserRole", "current", a, u) EXCEPT !.roles = {role}])
        BY <3>5 DEF RemoveUserRole
      <4>2. req'[r].op = "removeUserRole"
        BY <1>2, <4>1 DEF AdminRequest, Idle
      <4> QED BY <4>2 DEF AccountOps
    <3>6. CASE RevokeUserSessions(r)
      <4>1. PICK a \in Actors, u \in Users :
              Accept(r, AdminRequest("revokeSessions", "read", a, u))
        BY <3>6 DEF RevokeUserSessions
      <4>2. req'[r].op = "revokeSessions"
        BY <1>2, <4>1 DEF AdminRequest, Idle
      <4> QED BY <4>2 DEF AccountOps
    <3> QED BY <2>2, <3>1, <3>2, <3>3, <3>4, <3>5, <3>6 DEF UsersRequest
  <2>3. CASE AccountRequests(r)
    <3>1. CASE CreateServiceAccount(r)
      <4>1. PICK scopes \in ScopeSets :
              Accept(r, [AccountRequest("createAccount", "create", 0) EXCEPT !.roles = scopes])
        BY <3>1 DEF CreateServiceAccount
      <4>2. req'[r].op = "createAccount"
        BY <1>2, <4>1 DEF AccountRequest, Idle
      <4> QED BY <4>2 DEF AccountOps
    <3>2. CASE UpdateServiceAccount(r)
      <4>1. PICK a \in DOMAIN accounts, active \in BOOLEAN \cup {None}, scopes \in ScopeSets \cup {{}} :
              Accept(r, [AccountRequest("updateAccount", "find", a)
                            EXCEPT !.want = active, !.roles = scopes])
        BY <3>2 DEF UpdateServiceAccount
      <4> QED BY <1>2, <4>1 DEF AccountRequest, Idle
    <3>3. CASE RotateServiceAccountSecret(r)
      BY <1>2, <3>3 DEF RotateServiceAccountSecret, AccountRequest, Idle
    <3>4. CASE DeleteServiceAccount(r)
      BY <1>2, <3>4 DEF DeleteServiceAccount, AccountRequest, Idle
    <3>5. CASE IssueServiceToken(r)
      <4>1. PICK a \in DOMAIN accounts :
              \E scopes \in ScopeSets \cup {{}}, secret \in 1..accounts[a].secret :
                 Accept(r, [AccountRequest("serviceToken", "find", a)
                               EXCEPT !.roles = scopes, !.want = secret])
        BY <3>5 DEF IssueServiceToken
      <4> QED BY <1>2, <4>1 DEF AccountRequest, Idle
    <3> QED BY <2>3, <3>1, <3>2, <3>3, <3>4, <3>5 DEF AccountRequests
  <2> QED BY <2>1, <2>2, <2>3
<1> QED BY <1>1, <1>3, AccountsStay

\* The steps that are about users and tokens.
LEMMA OtherStepsStay ==
    ASSUME Typed, RevocationInv, AdminInv, AccountInv, NEW r \in Slots,
           LoginStep(r) \/ TokenStep(r) \/ UsersStep(r)
    PROVE  AccountInv' /\ AsAsked
<1>1. UNCHANGED accounts
  BY DEF LoginStep, Allow, Forget, Authenticate, IssueForUser, OnSuccess, OnFailure, StoreFailure,
         TokenStep, FindByHash, ReuseDetected, MarkUsed, GetByID, Rotate, UserDisabled, Revoke,
         EndFamily, UsersStep, CurrentRoles, FindByID, GetRoles, CountAdmins, WriteUser,
         RevokeSessions, InsertUser, ClearRoles, RowsUnlocked, GrantRoles, ChangeUser, Reads, stores
<1>2. RequestStep(r) /\ req[r].op \in {"login", "refresh", "logout"} \cup UserOps
  <2>1. CASE LoginStep(r)
    BY <2>1, LoginKeeps
  <2>2. CASE TokenStep(r)
    BY <2>2, TokenKeeps
  <2>3. CASE CurrentRoles(r) \/ FindByID(r) \/ GetRoles(r) \/ CountAdmins(r)
             \/ ClearRoles(r) \/ RowsUnlocked(r)
    BY <2>3, ReadingKeeps
  <2>4. CASE WriteUser(r) \/ GrantRoles(r)
    BY <2>4, WritingKeeps
  <2>5. CASE InsertUser(r)
    BY <2>5, InsertKeeps
  <2>6. CASE RevokeSessions(r)
    <3>1. req[r].op \in UserOps
      BY <2>6 DEF RevokeSessions, UserOps
    <3> QED BY <2>6, <3>1, RevokeKeeps
  <2> QED BY <2>1, <2>2, <2>3, <2>4, <2>5, <2>6 DEF UsersStep
<1>3. req'[r].op \notin AccountOps
  BY <1>2 DEF RequestStep, GoesOn, Idle, AccountOps, UserOps, Deactivations, RoleChanges
<1>4. ~Updating(r)'
  BY <1>3 DEF Updating, At, AccountOps
<1> QED BY <1>1, <1>2, <1>3, <1>4, AccountsStay DEF RequestStep

LEMMA OutsideStays ==
    ASSUME AccountInv, RequestsTyped,
           \/ \E r \in Slots : StatementFails(r)
           \/ Restart \/ Expire \/ WindowPasses
           \/ \E u \in Users : SweepFinds(u)
           \/ SweepDeletes
           \/ UNCHANGED vars
    PROVE  AccountInv' /\ AsAsked
<1>1. UNCHANGED accounts
  BY DEF StatementFails, Abandon, Restart, Expire, WindowPasses, SweepFinds, SweepDeletes, vars, stores
<1>2. \A q \in Slots : req'[q] = req[q] \/ req'[q] = Idle
  BY DEF StatementFails, Done, Restart, Expire, WindowPasses, SweepFinds, SweepDeletes, vars,
         RequestsTyped
<1>3. \A q \in Slots : req'[q].op \in AccountOps => req'[q].id \in DOMAIN accounts
  BY <1>2 DEF AccountInv, Idle, AccountOps
<1>4. \A q \in Slots : Updating(q)' => Updating(q) /\ req'[q] = req[q]
  BY <1>2 DEF Updating, At, Idle
<1>5. AccountInv'
  BY <1>1, <1>3, <1>4 DEF AccountInv
<1> QED BY <1>1, <1>5, SameAccounts

-----------------------------------------------------------------------------
(* The head of a session.  While a session lasts, its tokens that were not  *)
(* used, the rotations that will create one and those that were lost add up *)
(* to one, and one more for each rotation that marked a token a second      *)
(* time: it is known to be second as soon as the first one has marked it.   *)

Unused(f) == {t \in Family(f) : ~tokens[t].used}
Turns(q, f) == Rotating(q, {"user", "child", "disable"}) /\ tokens[req[q].id].family = f
Balanced(f) ==
    Cardinality(Unused(f)) + Cardinality(Turning(f)) + tokens[f].lost = 1 + tokens[f].forks
Twins(q) ==
    /\ At(q, "refresh", "find") => req[q].twin = FALSE
    /\ At(q, "refresh", "mark") => req[q].twin = tokens[req[q].id].used

HeadInv ==
    /\ \A f \in DOMAIN tokens : tokens[f].family = f /\ ~Ended(f) => Balanced(f)
    /\ \A q \in Slots : Twins(q)

LEMMA HeadFinite ==
    ASSUME TokensTyped, NEW f
    PROVE  /\ IsFiniteSet(Unused(f)) /\ Cardinality(Unused(f)) \in Nat
           /\ IsFiniteSet(Turning(f)) /\ Cardinality(Turning(f)) \in Nat
<1>1. IsFiniteSet(DOMAIN tokens)
  <2>1. DOMAIN tokens = 1..Len(tokens) /\ Len(tokens) \in Nat
    BY TokensDomain
  <2>2. 1 \in Int /\ Len(tokens) \in Int
    BY <2>1
  <2>3. IsFiniteSet(1..Len(tokens))
    BY <2>2, FS_Interval
  <2> QED BY <2>1, <2>3
<1>2. Unused(f) \subseteq DOMAIN tokens
  BY DEF Unused, Family
<1>3. IsFiniteSet(Slots) /\ Turning(f) \subseteq Slots
  BY SessionsAssumption DEF Turning
<1> QED BY <1>1, <1>2, <1>3, FS_Subset, FS_CardinalityType

\* What a row keeps when nothing of it is used, marked or lost.
KeepsHead(t) ==
    /\ tokens'[t].family = tokens[t].family /\ tokens'[t].used = tokens[t].used
    /\ tokens'[t].forks = tokens[t].forks /\ tokens'[t].lost = tokens[t].lost
    /\ tokens[t].revoked => tokens'[t].revoked

\* No token is used or created, and no rotation of a session that lasts comes or goes.
LEMMA HeadQuiet ==
    ASSUME TokensTyped, HeadInv, DOMAIN tokens' = DOMAIN tokens,
           \A t \in DOMAIN tokens : KeepsHead(t),
           \A f \in DOMAIN tokens : ~Ended(f)' => \A q \in Slots : Turns(q, f)' <=> Turns(q, f),
           \A q \in Slots : Twins(q)'
    PROVE  HeadInv'
<1>1. ASSUME NEW f \in DOMAIN tokens, tokens'[f].family = f, ~Ended(f)' PROVE Balanced(f)'
  <2>1. ~Ended(f) /\ tokens[f].family = f
    BY <1>1 DEF Ended, KeepsHead
  <2>2. Unused(f)' = Unused(f)
    BY DEF Unused, Family, KeepsHead
  <2>3. Turning(f)' = Turning(f)
    BY <1>1 DEF Turning, Turns
  <2> QED BY <2>1, <2>2, <2>3 DEF HeadInv, Balanced, KeepsHead
<1> QED BY <1>1 DEF HeadInv

\* A request that stays where it is, while no token is used.
LEMMA TwinsStay ==
    ASSUME RequestsTyped, HeadInv, NEW q \in Slots, Stays(q),
           DOMAIN tokens \subseteq DOMAIN tokens',
           \A t \in DOMAIN tokens : tokens'[t].used = tokens[t].used
    PROVE  Twins(q)'
<1>1. CASE At(q, "refresh", "mark")
  <2>1. req[q].id \in DOMAIN tokens /\ req'[q].id = req[q].id
    BY <1>1 DEF RequestsTyped, Proper, Stays, At
  <2>2. req[q].twin = tokens[req[q].id].used
    BY <1>1 DEF HeadInv, Twins
  <2>3. tokens'[req'[q].id].used = tokens[req[q].id].used
    BY <2>1
  <2>4. req'[q].pc # "find"
    BY <1>1 DEF At, Stays
  <2>5. req'[q].twin = tokens'[req'[q].id].used
    BY <2>1, <2>2, <2>3 DEF Stays
  <2> QED BY <2>4, <2>5 DEF Twins, At
<1>2. CASE ~At(q, "refresh", "mark")
  BY <1>2 DEF HeadInv, Twins, At, Stays
<1> QED BY <1>1, <1>2

LEMMA TurnsStay ==
    ASSUME RequestsTyped, NEW q \in Slots, Stays(q), NEW f,
           \A t \in DOMAIN tokens : tokens'[t].family = tokens[t].family
    PROVE  Turns(q, f)' <=> Turns(q, f)
BY DEF RequestsTyped, Proper, Stays, Turns, Rotating

\* A step of a request that does not rotate, and of the rows only revokes.
LEMMA BystanderHead ==
    ASSUME Typed, HeadInv, NEW r \in Slots, RequestStep(r), req[r].op # "refresh",
           DOMAIN tokens' = DOMAIN tokens,
           \A t \in DOMAIN tokens : KeepsHead(t)
    PROVE  HeadInv'
<1>1. ~Twins(r)' => FALSE
  BY DEF RequestStep, GoesOn, Idle, Twins, At
<1>2. ASSUME NEW f, NEW q \in Slots PROVE Turns(q, f)' <=> Turns(q, f)
  <2>1. CASE q = r
    BY <2>1 DEF RequestStep, GoesOn, Idle, Turns, Rotating
  <2>2. CASE q # r
    BY <2>2, TurnsStay DEF RequestStep, Typed, KeepsHead
  <2> QED BY <2>1, <2>2
<1>3. \A q \in Slots \ {r} : Twins(q)'
  BY TwinsStay DEF RequestStep, Typed, KeepsHead
<1> QED BY <1>1, <1>2, <1>3, HeadQuiet DEF Typed

LEMMA SameRows ==
    ASSUME TokensTyped, UNCHANGED tokens
    PROVE  DOMAIN tokens' = DOMAIN tokens /\ \A t \in DOMAIN tokens : KeepsHead(t)
BY DEF KeepsHead

LEMMA AcceptHead ==
    ASSUME Typed, HeadInv, NEW r \in Slots,
           AuthRequest(r) \/ UsersRequest(r) \/ AccountRequests(r)
    PROVE  HeadInv'
<1>1. /\ UNCHANGED tokens /\ \A q \in Slots \ {r} : Stays(q)
      /\ req[r] = Idle /\ req'[r].twin = FALSE
      /\ \/ req'[r].pc \in {"allow", "find", "create", "read", "current"}
         \/ req'[r].op = "logout" /\ req'[r].pc = "revoke"
  BY RequestAccepted DEF Typed, stores
<1>2. Twins(r)'
  BY <1>1 DEF Twins, At
<1>3. \A q \in Slots \ {r} : Twins(q)'
  BY <1>1, TwinsStay DEF Typed
<1>4. ASSUME NEW f, NEW q \in Slots PROVE Turns(q, f)' <=> Turns(q, f)
  <2>1. CASE q = r
    BY <1>1, <2>1 DEF Idle, Turns, Rotating
  <2>2. CASE q # r
    BY <1>1, <2>2, TurnsStay DEF Typed
  <2> QED BY <2>1, <2>2
<1> QED BY <1>1, <1>2, <1>3, <1>4, SameRows, HeadQuiet DEF Typed

\* A login starts a session.
LEMMA IssueHead ==
    ASSUME Typed, RevocationInv, HeadInv, NEW r \in Slots, IssueForUser(r)
    PROVE  HeadInv'
<1> DEFINE n   == Len(tokens) + 1
           row == Token(req[r].user, n, req[r].late)
<1>1. Create(row) /\ req[r].op = "login" /\ RequestStep(r)
  BY LoginKeeps DEF LoginStep, IssueForUser, At
<1>2. /\ row \in TokenRow /\ row.family = n
      /\ row.used = FALSE /\ row.revoked = FALSE /\ row.lost = 0 /\ row.forks = 0
  <2>1. req[r].user \in Users /\ req[r].late \in BOOLEAN
    BY <1>1 DEF Typed, RequestsTyped, Proper
  <2> QED BY <2>1, TokensDomain DEF Token, TokenRow, Typed
<1> HIDE DEF row
<1>3. /\ DOMAIN tokens' = DOMAIN tokens \cup {n} /\ n \notin DOMAIN tokens
      /\ \A t \in DOMAIN tokens : tokens'[t] = tokens[t]
      /\ tokens'[n] = row
  BY <1>1, <1>2, CreatedTyped DEF Typed
<1>4. PICK m : m = n
  OBVIOUS
<1> HIDE DEF n
<1>5. \A q \in Slots : Twins(q)'
  <2>1. \A q \in Slots \ {r} : Twins(q)'
    BY <1>1, <1>3, TwinsStay DEF RequestStep, Typed
  <2>2. Twins(r)'
    BY <1>1 DEF RequestStep, GoesOn, Idle, Twins, At
  <2> QED BY <2>1, <2>2
<1>6. ASSUME NEW f, NEW q \in Slots PROVE Turns(q, f)' <=> Turns(q, f)
  <2>1. CASE q = r
    BY <1>1, <2>1 DEF RequestStep, GoesOn, Idle, Turns, Rotating
  <2>2. CASE q # r
    BY <1>1, <1>3, <2>2, TurnsStay DEF RequestStep, Typed
  <2> QED BY <2>1, <2>2
<1>7. \A f : Turning(f)' = Turning(f)
  BY <1>6 DEF Turning, Turns
<1>8. \A t \in DOMAIN tokens : tokens[t].family \in DOMAIN tokens
  BY DEF Typed, TokensTyped
<1>9. ASSUME NEW f \in DOMAIN tokens', tokens'[f].family = f, ~Ended(f)' PROVE Balanced(f)'
  <2>1. CASE f \in DOMAIN tokens
    <3>1. ~Ended(f) /\ tokens[f].family = f
      BY <1>3, <1>9, <2>1 DEF Ended
    <3>2. Unused(f)' = Unused(f)
      BY <1>2, <1>3, <2>1 DEF Unused, Family
    <3> QED BY <1>3, <1>7, <2>1, <3>1, <3>2 DEF HeadInv, Balanced
  <2>2. CASE f = m
    <3>1. Unused(m)' = {m}
      BY <1>2, <1>3, <1>4, <1>8 DEF Unused, Family
    <3>2. Turning(m) = {}
      <4>1. \A q \in Slots : req[q].op = "refresh" => req[q].id \in DOMAIN tokens
        BY DEF Typed, RequestsTyped, Proper
      <4> QED BY <1>3, <1>4, <1>8, <4>1 DEF Turning, Rotating
    <3>3. Cardinality(Unused(m)') = 1 /\ Cardinality(Turning(m)') = 0
      BY <1>7, <3>1, <3>2, FS_Singleton, FS_EmptySet
    <3> QED BY <1>2, <1>3, <1>4, <2>2, <3>3 DEF Balanced
  <2> QED BY <1>3, <1>4, <1>9, <2>1, <2>2
<1> QED BY <1>5, <1>9 DEF HeadInv

LEMMA RevokedHead ==
    ASSUME TokensTyped, NEW rows,
           tokens' = [t \in DOMAIN tokens |->
                        IF t \in rows THEN [tokens[t] EXCEPT !.revoked = TRUE] ELSE tokens[t]]
    PROVE  /\ DOMAIN tokens' = DOMAIN tokens
           /\ \A t \in DOMAIN tokens : KeepsHead(t) /\ (t \in rows => tokens'[t].revoked)
<1>1. ASSUME NEW t \in DOMAIN tokens
      PROVE  KeepsHead(t) /\ (t \in rows => tokens'[t].revoked)
  <2>1. tokens[t] \in TokenRow
    BY TokensDomain
  <2>2. CASE t \in rows
    <3>1. tokens'[t] = [tokens[t] EXCEPT !.revoked = TRUE]
      BY <2>2
    <3> QED BY <2>1, <3>1, RevokedRow DEF KeepsHead
  <2>3. CASE t \notin rows
    BY <2>3 DEF KeepsHead
  <2> QED BY <2>2, <2>3
<1> QED BY <1>1

\* A request ends the session of the token that it presented.
LEMMA EndHead ==
    ASSUME Typed, RevocationInv, HeadInv, NEW r \in Slots,
           EndFamily(r, tokens[req[r].id].family), req[r].op \in {"refresh", "logout"}
    PROVE  HeadInv'
<1>1. PICK t \in DOMAIN tokens : t = req[r].id
  BY DEF Typed, RequestsTyped, Proper
<1>2. PICK f : f = tokens[t].family
  OBVIOUS
<1>3. RequestStep(r) /\ req'[r] = Idle
  BY EndKeeps
<1> DEFINE rows == {s \in DOMAIN tokens : tokens[s].family = f}
<1>4. tokens' = [s \in DOMAIN tokens |->
                   IF s \in rows THEN [tokens[s] EXCEPT !.revoked = TRUE] ELSE tokens[s]]
  BY <1>1, <1>2 DEF EndFamily, RevokeFamily
<1>5. t \in rows
  BY <1>2
<1> HIDE DEF rows
<1>6. /\ DOMAIN tokens' = DOMAIN tokens
      /\ \A s \in DOMAIN tokens : KeepsHead(s) /\ (s \in rows => tokens'[s].revoked)
  BY <1>4, RevokedHead DEF Typed
<1>7. Ended(f)'
  BY <1>2, <1>5, <1>6 DEF Ended, KeepsHead
<1>8. ASSUME NEW g \in DOMAIN tokens, ~Ended(g)', NEW q \in Slots
      PROVE  Turns(q, g)' <=> Turns(q, g)
  <2>1. CASE q = r
    <3>1. g # f
      BY <1>7, <1>8
    <3> QED BY <1>1, <1>2, <1>3, <2>1, <3>1 DEF Turns, Rotating, Idle
  <2>2. CASE q # r
    BY <1>3, <1>6, <2>2, TurnsStay DEF RequestStep, Typed, KeepsHead
  <2> QED BY <2>1, <2>2
<1>9. \A q \in Slots : Twins(q)'
  <2>1. \A q \in Slots \ {r} : Twins(q)'
    BY <1>3, <1>6, TwinsStay DEF RequestStep, Typed, KeepsHead
  <2>2. Twins(r)'
    BY <1>3 DEF Twins, At, Idle
  <2> QED BY <2>1, <2>2
<1> QED BY <1>6, <1>8, <1>9, HeadQuiet DEF Typed

LEMMA RevokeHead ==
    ASSUME Typed, RevocationInv, AdminInv, HeadInv, NEW r \in Slots, RevokeSessions(r)
    PROVE  HeadInv'
<1>1. RequestStep(r) /\ req[r].op # "refresh"
  BY RevokeKeeps DEF RevokeSessions, Deactivations
<1> DEFINE rows == {t \in DOMAIN tokens : tokens[t].user = req[r].user}
<1>2. tokens' = [t \in DOMAIN tokens |->
                   IF t \in rows THEN [tokens[t] EXCEPT !.revoked = TRUE] ELSE tokens[t]]
  BY DEF RevokeSessions, RevokeAllForUser
<1> HIDE DEF rows
<1>3. DOMAIN tokens' = DOMAIN tokens /\ \A t \in DOMAIN tokens : KeepsHead(t)
  BY <1>2, RevokedHead DEF Typed
<1> QED BY <1>1, <1>3, BystanderHead

\* A rotation looks its token up, or the user of the token.
LEMMA LookupHead ==
    ASSUME Typed, RevocationInv, HeadInv, NEW r \in Slots, FindByHash(r) \/ GetByID(r)
    PROVE  HeadInv'
<1>0. RequestsTyped
  BY DEF Typed
<1>1. /\ UNCHANGED tokens /\ RequestStep(r) /\ req[r].op = "refresh"
      /\ \A t \in DOMAIN tokens : KeepsHead(t)
  BY TokenKeeps DEF TokenStep, FindByHash, GetByID, At, Reads, stores, KeepsHead
<1>2. CASE FindByHash(r)
  <2>1. /\ req[r].pc = "find"
        /\ \/ req' = Done(r)
           \/ req' = To(r, "reuse")
           \/ req' = To(r, "mark") /\ ~tokens[req[r].id].used
    BY <1>2 DEF FindByHash, At
  <2>2. /\ Twins(r)'
        /\ \A f : ~Turns(r, f) /\ ~Turns(r, f)'
    <3>1. CASE req' = Done(r)
      <4>1. req'[r] = Idle
        BY <1>0, <3>1 DEF Done, RequestsTyped
      <4> QED BY <2>1, <4>1 DEF Twins, At, Turns, Rotating, Idle
    <3>2. CASE req' = To(r, "reuse")
      <4>1. req'[r].pc = "reuse"
        BY <1>0, <1>1, <3>2, ToStep
      <4> QED BY <2>1, <4>1 DEF Twins, At, Turns, Rotating
    <3>3. CASE req' = To(r, "mark") /\ ~tokens[req[r].id].used
      <4>1. GoesOn(r) /\ req'[r].pc = "mark"
        BY <1>0, <1>1, <3>3, ToStep
      <4>2. req'[r].id = req[r].id /\ req'[r].twin = FALSE
        BY <1>1, <2>1, <4>1 DEF GoesOn, HeadInv, Twins, At
      <4>3. tokens'[req'[r].id].used = FALSE
        <5>1. req[r].id \in DOMAIN tokens
          BY <1>0, <1>1 DEF RequestsTyped, Proper
        <5>2. tokens[req[r].id] \in TokenRow
          BY <5>1, TokensDomain DEF Typed
        <5> QED BY <1>1, <3>3, <4>2, <5>2 DEF TokenRow
      <4> QED BY <2>1, <4>1, <4>2, <4>3 DEF Twins, At, Turns, Rotating
    <3> QED BY <2>1, <3>1, <3>2, <3>3
  <2>3. \A q \in Slots : Twins(q)'
    <3>1. \A q \in Slots \ {r} : Twins(q)'
      BY <1>0, <1>1, TwinsStay DEF RequestStep, KeepsHead
    <3> QED BY <2>2, <3>1
  <2>4. \A f : \A q \in Slots : Turns(q, f)' <=> Turns(q, f)
    <3>1. \A f : \A q \in Slots \ {r} : Turns(q, f)' <=> Turns(q, f)
      BY <1>0, <1>1, TurnsStay DEF RequestStep, KeepsHead
    <3> QED BY <2>2, <3>1
  <2> QED BY <1>1, <2>3, <2>4, HeadQuiet DEF Typed
<1>3. CASE GetByID(r)
  <2>1. /\ req[r].pc = "user"
        /\ \E pc \in {"child", "disable"} : req' = To(r, pc)
    BY <1>3 DEF GetByID, At
  <2>2. GoesOn(r) /\ req'[r].pc \in {"child", "disable"}
    BY <1>0, <1>1, <2>1, ToStep
  <2>3. \A q \in Slots : Twins(q)'
    <3>1. \A q \in Slots \ {r} : Twins(q)'
      BY <1>0, <1>1, TwinsStay DEF RequestStep, KeepsHead
    <3>2. Twins(r)'
      BY <2>2 DEF Twins, At
    <3> QED BY <3>1, <3>2
  <2>4. \A f : \A q \in Slots : Turns(q, f)' <=> Turns(q, f)
    <3>1. \A f : \A q \in Slots \ {r} : Turns(q, f)' <=> Turns(q, f)
      BY <1>0, <1>1, TurnsStay DEF RequestStep, KeepsHead
    <3>2. \A f : Turns(r, f)' <=> Turns(r, f)
      BY <1>1, <2>1, <2>2 DEF Turns, Rotating, GoesOn
    <3> QED BY <3>1, <3>2
  <2> QED BY <1>1, <2>3, <2>4, HeadQuiet DEF Typed
<1> QED BY <1>2, <1>3

\* A rotation creates the child of the token that it marked.
LEMMA RotateHead ==
    ASSUME Typed, RevocationInv, HeadInv, NEW r \in Slots, Rotate(r)
    PROVE  HeadInv'
<1>1. PICK n : n = Len(tokens) + 1
  OBVIOUS
<1>2. PICK t \in DOMAIN tokens : t = req[r].id
  BY DEF Rotate, At, Typed, RequestsTyped, Proper
<1> DEFINE row == Token(tokens[t].user, tokens[t].family, tokens[t].late \/ req[r].late)
<1>3. /\ Create(row) /\ req[r].op = "refresh" /\ req[r].pc = "child"
      /\ RequestStep(r) /\ req' = Done(r)
  BY <1>2, TokenKeeps DEF TokenStep, Rotate, At
<1>4. req'[r] = Idle
  BY <1>3 DEF Done, Typed, RequestsTyped
<1>5. PICK f \in DOMAIN tokens : f = tokens[t].family
  BY DEF Typed, TokensTyped
<1>6. /\ row \in TokenRow /\ row.family = f /\ row.used = FALSE /\ row.revoked = FALSE
      /\ tokens[f].user = row.user
  <2>1. tokens[t] \in TokenRow /\ req[r].late \in BOOLEAN /\ tokens[f].user = tokens[t].user
    BY <1>5, TokensDomain DEF Typed, RequestsTyped, Proper, TokensTyped
  <2> QED BY <1>5, <2>1 DEF Token, TokenRow
<1> HIDE DEF row
<1>7. /\ DOMAIN tokens' = DOMAIN tokens \cup {n} /\ n \notin DOMAIN tokens
      /\ \A s \in DOMAIN tokens : tokens'[s] = tokens[s]
      /\ tokens'[n] = row
  BY <1>1, <1>3, <1>6, CreatedTyped DEF Typed
<1>8. \A q \in Slots : Twins(q)'
  <2>1. \A q \in Slots \ {r} : Twins(q)'
    BY <1>3, <1>7, TwinsStay DEF RequestStep, Typed
  <2>2. Twins(r)'
    BY <1>4 DEF Idle, Twins, At
  <2> QED BY <2>1, <2>2
<1>9. \A g : \A q \in Slots \ {r} : Turns(q, g)' <=> Turns(q, g)
  BY <1>3, <1>7, TurnsStay DEF RequestStep, Typed
<1>10. \A g : ~Turns(r, g)' /\ (Turns(r, g) <=> g = f)
  BY <1>2, <1>3, <1>4, <1>5 DEF Turns, Rotating, Idle
<1>11. ASSUME NEW g \in DOMAIN tokens', tokens'[g].family = g, ~Ended(g)' PROVE Balanced(g)'
  <2>1. g # n
    BY <1>5, <1>6, <1>7, <1>11
  <2>2. g \in DOMAIN tokens /\ tokens[g].family = g /\ ~Ended(g) /\ tokens'[g] = tokens[g]
    BY <1>7, <1>11, <2>1 DEF Ended
  <2>3. Balanced(g)
    BY <2>2 DEF HeadInv
  <2>4. CASE g = f
    <3>1. Unused(f)' = Unused(f) \cup {n} /\ n \notin Unused(f)
      BY <1>6, <1>7 DEF Unused, Family
    <3>2. Turning(f)' = Turning(f) \ {r} /\ r \in Turning(f)
      BY <1>9, <1>10 DEF Turning, Turns
    <3>3. Cardinality(Unused(f)') = Cardinality(Unused(f)) + 1
      BY <3>1, HeadFinite, FS_AddElement DEF Typed
    <3>4. Cardinality(Turning(f)') = Cardinality(Turning(f)) - 1
      BY <3>2, HeadFinite, FS_RemoveElement DEF Typed
    <3>5. tokens[f] \in TokenRow
      BY TokensDomain DEF Typed
    <3> QED BY <2>2, <2>3, <2>4, <3>3, <3>4, <3>5, HeadFinite DEF Balanced, TokenRow, Typed
  <2>5. CASE g # f
    <3>1. Unused(g)' = Unused(g)
      BY <1>6, <1>7, <2>5 DEF Unused, Family
    <3>2. Turning(g)' = Turning(g)
      BY <1>9, <1>10, <2>5 DEF Turning, Turns
    <3> QED BY <2>2, <2>3, <3>1, <3>2 DEF Balanced
  <2> QED BY <2>4, <2>5
<1> QED BY <1>8, <1>11 DEF HeadInv

\* A token is marked: it was the head, or another rotation had marked it.
LEMMA MarkHead ==
    ASSUME Typed, RevocationInv, HeadInv, NEW r \in Slots, MarkUsed(r)
    PROVE  HeadInv'
<1>0. RequestsTyped /\ TokensTyped
  BY DEF Typed
<1>1. PICK t \in DOMAIN tokens : t = req[r].id
  BY DEF MarkUsed, At, Typed, RequestsTyped, Proper
<1>2. PICK f \in DOMAIN tokens : f = tokens[t].family
  BY DEF Typed, TokensTyped
<1>3. /\ RequestStep(r) /\ GoesOn(r) /\ req'[r].pc = "user"
      /\ req[r].op = "refresh" /\ req[r].pc = "mark"
  BY MarkKeeps DEF MarkUsed, At
<1>4. req[r].twin = tokens[t].used
  BY <1>1, <1>3 DEF HeadInv, Twins, At
<1> DEFINE Forks(s) == IF s = f /\ req[r].twin THEN tokens[s].forks + 1 ELSE tokens[s].forks
<1>5. tokens' = [s \in DOMAIN tokens |->
                   [tokens[s] EXCEPT !.used = tokens[s].used \/ s = t, !.forks = Forks(s)]]
  BY <1>1, <1>2 DEF MarkUsed
<1>6. DOMAIN tokens' = DOMAIN tokens
  BY <1>5
<1>7. ASSUME NEW s \in DOMAIN tokens
      PROVE  /\ tokens'[s].family = tokens[s].family
             /\ tokens'[s].used = (tokens[s].used \/ s = t)
             /\ tokens'[s].forks = Forks(s) /\ tokens'[s].lost = tokens[s].lost
             /\ tokens'[s].revoked = tokens[s].revoked
  <2>1. tokens[s] \in TokenRow /\ Forks(s) \in Int
    BY <1>0, TokensDomain DEF TokenRow
  <2>2. tokens'[s] = [tokens[s] EXCEPT !.used = tokens[s].used \/ s = t, !.forks = Forks(s)]
    BY <1>5
  <2>3. (tokens[s].used \/ s = t) \in BOOLEAN
    BY <2>1 DEF TokenRow
  <2>4. PICK used \in BOOLEAN, forks \in Int :
          used = (tokens[s].used \/ s = t) /\ forks = Forks(s)
    BY <2>1, <2>3
  <2>5. tokens'[s] = [tokens[s] EXCEPT !.used = used, !.forks = forks]
    BY <2>2, <2>4
  <2> HIDE DEF Forks
  <2>6. /\ tokens'[s].family = tokens[s].family /\ tokens'[s].used = used
        /\ tokens'[s].forks = forks /\ tokens'[s].lost = tokens[s].lost
        /\ tokens'[s].revoked = tokens[s].revoked
    BY <2>1, <2>5 DEF TokenRow
  <2> QED BY <2>4, <2>6
<1>8. ASSUME NEW q \in Slots \ {r} PROVE Twins(q)'
  <2>1. Stays(q) /\ Twins(q)
    BY <1>3 DEF RequestStep, HeadInv
  <2>2. CASE At(q, "refresh", "mark")
    <3>1. PICK s \in DOMAIN tokens : s = req[q].id
      BY <1>0, <2>2 DEF At, RequestsTyped, Proper
    <3>2. req'[q].id = s /\ req'[q].pc = "mark"
      BY <2>1, <2>2, <3>1 DEF Stays, At
    <3>3. CASE s = t
      <4>1. tokens'[s].used = TRUE
        BY <1>7, <3>3
      <4>2. req'[q] = [req[q] EXCEPT !["twin"] = TRUE]
        BY <1>1, <2>2, <3>1, <3>3 DEF MarkUsed, Meanwhile, Rotating, At
      <4>3. req'[q].twin = TRUE
        BY <1>0, <4>2 DEF RequestsTyped, Shaped, Fields
      <4> QED BY <3>2, <4>1, <4>3 DEF Twins, At
    <3>4. CASE s # t
      <4>1. tokens'[s].used = tokens[s].used /\ req[q].twin = tokens[s].used
        <5>1. tokens[s].used \in BOOLEAN
          BY <1>0, TokensDomain DEF TokenRow
        <5> QED BY <1>7, <2>1, <2>2, <3>1, <3>4, <5>1 DEF Twins
      <4>2. req'[q].twin = tokens'[s].used
        BY <2>1, <3>1, <4>1 DEF Stays
      <4> QED BY <3>2, <4>2 DEF Twins, At
    <3> QED BY <3>3, <3>4
  <2>3. CASE ~At(q, "refresh", "mark")
    BY <2>1, <2>3 DEF Twins, At, Stays
  <2> QED BY <2>2, <2>3
<1>9. Twins(r)'
  BY <1>3 DEF Twins, At
<1>10. \A g : \A q \in Slots \ {r} : Turns(q, g)' <=> Turns(q, g)
  BY <1>0, <1>3, <1>7, TurnsStay DEF RequestStep
<1>11. \A g : ~Turns(r, g) /\ (Turns(r, g)' <=> g = f)
  BY <1>1, <1>2, <1>3, <1>7 DEF Turns, Rotating, GoesOn
<1>12. ASSUME NEW g \in DOMAIN tokens, tokens'[g].family = g, ~Ended(g)' PROVE Balanced(g)'
  <2>1. tokens[g].family = g /\ ~Ended(g)
    BY <1>6, <1>7, <1>12 DEF Ended
  <2>2. Balanced(g) /\ tokens[g] \in TokenRow
    BY <1>0, <2>1, TokensDomain DEF HeadInv
  <2>3. CASE g = f
    <3>1. Turning(f)' = Turning(f) \cup {r} /\ r \notin Turning(f)
      BY <1>10, <1>11 DEF Turning, Turns
    <3>2. Cardinality(Turning(f)') = Cardinality(Turning(f)) + 1
      BY <1>0, <3>1, HeadFinite, FS_AddElement
    <3>3. CASE tokens[t].used
      <4>1. Unused(f)' = Unused(f)
        BY <1>6, <1>7, <3>3 DEF Unused, Family
      <4>2. tokens'[f].forks = tokens[f].forks + 1
        BY <1>4, <1>7, <3>3
      <4> QED BY <1>0, <1>7, <2>2, <2>3, <3>2, <4>1, <4>2, HeadFinite DEF Balanced, TokenRow
    <3>4. CASE ~tokens[t].used
      <4>1. Unused(f)' = Unused(f) \ {t} /\ t \in Unused(f)
        BY <1>2, <1>6, <1>7, <3>4, ZenonT(60) DEF Unused, Family
      <4>2. Cardinality(Unused(f)') = Cardinality(Unused(f)) - 1
        BY <1>0, <4>1, HeadFinite, FS_RemoveElement
      <4>3. tokens'[f].forks = tokens[f].forks
        BY <1>4, <1>7, <3>4
      <4> QED BY <1>0, <1>7, <2>2, <2>3, <3>2, <4>2, <4>3, HeadFinite DEF Balanced, TokenRow
    <3> QED BY <3>3, <3>4
  <2>4. CASE g # f
    <3>1. Unused(g)' = Unused(g)
      BY <1>2, <1>6, <1>7, <2>4 DEF Unused, Family
    <3>2. Turning(g)' = Turning(g)
      BY <1>10, <1>11, <2>4 DEF Turning, Turns
    <3>3. tokens'[g].forks = tokens[g].forks /\ tokens'[g].lost = tokens[g].lost
      BY <1>7, <2>4
    <3> QED BY <2>2, <3>1, <3>2, <3>3 DEF Balanced
  <2> QED BY <2>3, <2>4
<1> QED BY <1>6, <1>8, <1>9, <1>12 DEF HeadInv

\* Of the rotations that are cut off, those that had marked a token are lost.
LEMMA AbandonHead ==
    ASSUME Typed, HeadInv, NEW rs \in SUBSET Slots, Abandon(rs),
           req' = [r \in Slots |-> IF r \in rs THEN Idle ELSE req[r]]
    PROVE  HeadInv'
<1>0. TokensTyped
  BY DEF Typed
<1>1. /\ tokens' = [t \in DOMAIN tokens |-> [tokens[t] EXCEPT !.lost = tokens[t].lost + LostBy(rs, t)]]
      /\ DOMAIN tokens' = DOMAIN tokens
  BY DEF Abandon
<1>2. ASSUME NEW t \in DOMAIN tokens
      PROVE  /\ tokens'[t].family = tokens[t].family /\ tokens'[t].used = tokens[t].used
             /\ tokens'[t].revoked = tokens[t].revoked /\ tokens'[t].forks = tokens[t].forks
             /\ tokens'[t].lost = tokens[t].lost + LostBy(rs, t)
  <2>1. tokens[t] \in TokenRow
    BY <1>0, TokensDomain
  <2> DEFINE lost == tokens[t].lost + LostBy(rs, t)
  <2>2. tokens'[t] = [tokens[t] EXCEPT !.lost = lost]
    BY <1>1
  <2> HIDE DEF lost
  <2>3. tokens'[t].lost = lost
    BY <2>1, <2>2 DEF TokenRow
  <2>4. /\ tokens'[t].family = tokens[t].family /\ tokens'[t].used = tokens[t].used
        /\ tokens'[t].revoked = tokens[t].revoked /\ tokens'[t].forks = tokens[t].forks
    BY <2>1, <2>2 DEF TokenRow
  <2> QED BY <2>3, <2>4 DEF lost
<1>3. \A q \in Slots : /\ q \in rs => req'[q] = Idle
                       /\ q \notin rs => req'[q] = req[q]
  OBVIOUS
<1>4. ASSUME NEW q \in Slots PROVE Twins(q)'
  <2>1. CASE q \in rs
    BY <1>3, <2>1 DEF Twins, At, Idle
  <2>2. CASE q \notin rs
    <3>1. req'[q] = req[q]
      BY <1>3, <2>2
    <3>2. At(q, "refresh", "mark") => req[q].id \in DOMAIN tokens
      BY DEF Typed, RequestsTyped, Proper, At
    <3> QED BY <1>2, <3>1, <3>2 DEF Twins, At, HeadInv
  <2> QED BY <2>1, <2>2
<1>5. ASSUME NEW f PROVE Turning(f)' = Turning(f) \ rs
  <2>1. ASSUME NEW q \in Slots PROVE q \in Turning(f)' <=> q \in Turning(f) \ rs
    <3>1. CASE q \in rs
      BY <1>3, <3>1 DEF Turning, Rotating, Idle
    <3>2. CASE q \notin rs
      <4>1. req'[q] = req[q]
        BY <1>3, <3>2
      <4>2. req[q].op = "refresh" => req[q].id \in DOMAIN tokens
        BY DEF Typed, RequestsTyped, Proper
      <4> QED BY <1>2, <3>2, <4>1, <4>2 DEF Turning, Rotating
    <3> QED BY <3>1, <3>2
  <2> QED BY <2>1 DEF Turning
<1>6. ASSUME NEW f \in DOMAIN tokens, tokens'[f].family = f, ~Ended(f)' PROVE Balanced(f)'
  <2>1. Balanced(f) /\ tokens[f] \in TokenRow
    BY <1>0, <1>1, <1>2, <1>6, TokensDomain, ZenonT(60) DEF Ended, HeadInv
  <2>2. Unused(f)' = Unused(f)
    BY <1>1, <1>2 DEF Unused, Family
  <2>3. Cardinality(Turning(f) \ rs) = Cardinality(Turning(f)) - Cardinality(Turning(f) \cap rs)
    BY <1>0, HeadFinite, FS_Difference
  <2>4. LostBy(rs, f) = Cardinality(Turning(f) \cap rs) /\ LostBy(rs, f) \in Nat
    <3>1. rs \cap Turning(f) = Turning(f) \cap rs
      OBVIOUS
    <3> QED BY <3>1, LostByNat DEF LostBy
  <2>5. Cardinality(Turning(f)') = Cardinality(Turning(f)) - LostBy(rs, f)
    BY <1>5, <2>3, <2>4
  <2> QED BY <1>0, <1>2, <2>1, <2>2, <2>4, <2>5, HeadFinite DEF Balanced, TokenRow
<1> QED BY <1>1, <1>4, <1>6 DEF HeadInv

\* A statement that fails, a restart, the clock and gcLoop.
LEMMA OutsideHead ==
    ASSUME Typed, HeadInv,
           \/ \E r \in Slots : StatementFails(r)
           \/ Restart \/ Expire \/ WindowPasses
           \/ \E u \in Users : SweepFinds(u)
           \/ SweepDeletes
           \/ UNCHANGED vars
    PROVE  HeadInv'
<1>1. ASSUME NEW r \in Slots, StatementFails(r) PROVE HeadInv'
  <2>1. Abandon({r}) /\ req' = [req EXCEPT ![r] = Idle]
    BY <1>1 DEF StatementFails, Done
  <2>2. req' = [q \in Slots |-> IF q \in {r} THEN Idle ELSE req[q]]
    BY <2>1 DEF Typed, RequestsTyped
  <2> QED BY <2>1, <2>2, AbandonHead
<1>2. CASE Restart
  <2>1. /\ Abandon(Slots)
        /\ req' = [q \in Slots |-> IF q \in Slots THEN Idle ELSE req[q]]
    BY <1>2 DEF Restart
  <2> QED BY <2>1, AbandonHead
<1>3. ASSUME UNCHANGED req, DOMAIN tokens' = DOMAIN tokens, \A t \in DOMAIN tokens : KeepsHead(t)
      PROVE  HeadInv'
  <2>1. \A q \in Slots : Stays(q)
    BY <1>3 DEF Stays
  <2>2. \A q \in Slots : Twins(q)'
    BY <1>3, <2>1, TwinsStay DEF Typed, KeepsHead
  <2>3. \A f : \A q \in Slots : Turns(q, f)' <=> Turns(q, f)
    BY <1>3, <2>1, TurnsStay DEF Typed, KeepsHead
  <2> QED BY <1>3, <2>2, <2>3, HeadQuiet DEF Typed
<1>4. CASE Expire
  <2>1. PICK t \in DOMAIN tokens : tokens' = [tokens EXCEPT ![t].expired = TRUE]
    BY <1>4 DEF Expire
  <2>2. UNCHANGED req /\ DOMAIN tokens' = DOMAIN tokens
    BY <1>4, <2>1 DEF Expire
  <2>3. ASSUME NEW s \in DOMAIN tokens PROVE KeepsHead(s)
    <3>1. tokens[s] \in TokenRow
      BY TokensDomain DEF Typed
    <3>2. CASE s = t
      <4>1. tokens'[s] = [tokens[s] EXCEPT !.expired = TRUE]
        BY <2>1, <3>2
      <4> QED BY <3>1, <4>1 DEF TokenRow, KeepsHead
    <3>3. CASE s # t
      BY <2>1, <3>3 DEF KeepsHead
    <3> QED BY <3>2, <3>3
  <2> QED BY <1>3, <2>2, <2>3
<1>5. CASE \/ WindowPasses
           \/ \E u \in Users : SweepFinds(u)
           \/ SweepDeletes
           \/ UNCHANGED vars
  <2>1. UNCHANGED <<tokens, req>>
    BY <1>5 DEF WindowPasses, SweepFinds, SweepDeletes, vars, stores
  <2> QED BY <1>3, <2>1, SameRows DEF Typed
<1> QED BY <1>1, <1>2, <1>4, <1>5

\* Every step of a handler.
LEMMA HandlerHead ==
    ASSUME Typed, RevocationInv, AdminInv, HeadInv, NEW r \in Slots,
           LoginStep(r) \/ TokenStep(r) \/ UsersStep(r) \/ AccountStep(r)
    PROVE  HeadInv'
<1>0. RequestsTyped /\ TokensTyped
  BY DEF Typed
<1>1. ASSUME RequestStep(r), req[r].op # "refresh", UNCHANGED tokens PROVE HeadInv'
  BY <1>0, <1>1, SameRows, BystanderHead
<1>2. CASE LoginStep(r)
  <2>1. RequestStep(r) /\ req[r].op # "refresh"
    BY <1>2, LoginKeeps
  <2>2. CASE IssueForUser(r)
    BY <2>2, IssueHead
  <2>3. CASE ~IssueForUser(r)
    <3>1. UNCHANGED tokens
      BY <1>2, <2>3 DEF LoginStep, Allow, Forget, Authenticate, OnSuccess, OnFailure, StoreFailure,
                        Reads, stores
    <3> QED BY <1>1, <2>1, <3>1
  <2> QED BY <2>2, <2>3
<1>3. CASE TokenStep(r)
  <2>1. CASE ReuseDetected(r) \/ UserDisabled(r) \/ Revoke(r)
    <3>1. EndFamily(r, tokens[req[r].id].family) /\ req[r].op \in {"refresh", "logout"}
      BY <2>1 DEF ReuseDetected, UserDisabled, Revoke, At
    <3> QED BY <3>1, EndHead
  <2> QED BY <1>3, <2>1, LookupHead, MarkHead, RotateHead DEF TokenStep
<1>4. CASE UsersStep(r)
  <2>1. CASE RevokeSessions(r)
    BY <2>1, RevokeHead
  <2>2. CASE ~RevokeSessions(r)
    <3>1. RequestStep(r) /\ UNCHANGED tokens /\ req[r].op \in UserOps
      <4>1. CASE CurrentRoles(r) \/ FindByID(r) \/ GetRoles(r) \/ CountAdmins(r)
                 \/ ClearRoles(r) \/ RowsUnlocked(r)
        BY <4>1, ReadingKeeps
      <4>2. CASE WriteUser(r) \/ GrantRoles(r)
        BY <4>2, WritingKeeps
      <4>3. CASE InsertUser(r)
        BY <4>3, InsertKeeps
      <4> QED BY <1>4, <2>2, <4>1, <4>2, <4>3 DEF UsersStep
    <3> QED BY <1>1, <3>1 DEF UserOps, Deactivations, RoleChanges
  <2> QED BY <2>1, <2>2
<1>5. CASE AccountStep(r)
  <2>1. RequestStep(r) /\ UNCHANGED tokens /\ req[r].op # "refresh"
    BY <1>0, <1>5, AccountStepIs DEF AccountOps
  <2> QED BY <1>1, <2>1
<1> QED BY <1>2, <1>3, <1>4, <1>5

-----------------------------------------------------------------------------
(* The login limiter.  Unless two writers of a key have overlapped, no less *)
(* is counted under it than was missed, a request that is about to store or *)
(* to delete acts on what is there, and each login that was let through can *)
(* add one more.                                                           *)

Count(u) == IF Fresh(limiter[u], window) THEN limiter[u].count ELSE 0
Trying(q, u) == req[q].op = "login" /\ req[q].user = u /\ req[q].pc \in {"credentials", "strike", "store"}
Triers(u) == {q \in Slots : Trying(q, u)}
Writing(q, u) == req[q].op = "login" /\ req[q].user = u /\ req[q].pc \in {"forget", "store"}
Acts(q, u) ==
    /\ At(q, "login", "forget") => ~Fresh(limiter[u], window)
    /\ At(q, "login", "store") =>
          /\ req[q].now = window => req[q].saw.since = window
          /\ IF req[q].saw.since = window THEN Count(u) < req[q].saw.count ELSE Count(u) = 0

Counted(u) ==
    /\ misses[u] \in Nat /\ misses[u] <= Count(u)
    /\ misses[u] + Cardinality(Triers(u)) <= MaxStrikes + Cardinality(Slots) - 1
    /\ sweep = u => ~Fresh(limiter[u], window)
    /\ \A q \in Slots : Writing(q, u) => Acts(q, u)

Entries == [count : Nat, since : 0..window]
LimiterTyped ==
    /\ limiter = [u \in Users |-> limiter[u]]
    /\ misses = [u \in Users |-> misses[u]]
    /\ window \in Nat
    /\ \A u \in Users : limiter[u] = None \/ limiter[u] \in Entries
    /\ \A q \in Slots : req[q].now \in 0..window
                       /\ (At(q, "login", "store") => req[q].saw \in Entries)

LimiterInv == LimiterTyped /\ \A u \in Users : u \in mixed \/ Counted(u)

LEMMA TriersFinite ==
    ASSUME NEW u
    PROVE  /\ IsFiniteSet(Triers(u)) /\ Cardinality(Triers(u)) \in Nat
           /\ Cardinality(Slots) \in Nat
           /\ Cardinality(Triers(u)) <= Cardinality(Slots)
<1>1. IsFiniteSet(Slots)
  BY SessionsAssumption
<1>2. Triers(u) \subseteq Slots
  BY DEF Triers
<1> QED BY <1>1, <1>2, FS_Subset, FS_CardinalityType

LEMMA CountNat ==
    ASSUME LimiterTyped, NEW u \in Users
    PROVE  Count(u) \in Nat
BY DEF LimiterTyped, Entries, Count, Fresh

LEMMA EntryIsOne ==
    ASSUME window \in Nat, NEW state \in Entries
    PROVE  state # None /\ state.count \in Nat /\ state.since \in 0..window
<1>1. state \in [count : Nat, since : Nat]
  BY DEF Entries
<1> QED BY <1>1, SessionsAssumption DEF Entries

\* Fewer logins on their way.
LEMMA FewerTriers ==
    ASSUME NEW u, \A q \in Slots : Trying(q, u)' => Trying(q, u)
    PROVE  /\ Cardinality(Triers(u)') \in Nat
           /\ Cardinality(Triers(u)') <= Cardinality(Triers(u))
<1>1. Triers(u)' \subseteq Triers(u)
  BY DEF Triers
<1> QED BY <1>1, TriersFinite, FS_Subset, FS_CardinalityType

\* The entry of a key stays, and of the requests about it one may have ended.
LEMMA SameEntry ==
    ASSUME LimiterTyped, NEW u \in Users, Counted(u),
           limiter'[u] = limiter[u], misses'[u] = misses[u], UNCHANGED window,
           sweep' = u => sweep = u \/ ~Fresh(limiter[u], window),
           \A q \in Slots : Trying(q, u)' => Trying(q, u),
           \A q \in Slots : Writing(q, u)' => Writing(q, u) /\ req'[q].pc = req[q].pc
                                          /\ req'[q].saw = req[q].saw /\ req'[q].now = req[q].now
    PROVE  Counted(u)'
<1>1. Count(u)' = Count(u) /\ (Fresh(limiter[u], window)' <=> Fresh(limiter[u], window))
  BY DEF Count, Fresh
<1>2. misses'[u] + Cardinality(Triers(u)') <= MaxStrikes + Cardinality(Slots) - 1
  BY FewerTriers, TriersFinite, CountNat, SessionsAssumption DEF Counted
<1>3. \A q \in Slots : Writing(q, u)' => Acts(q, u)'
  BY <1>1 DEF Counted, Acts, At, Writing
<1> QED BY <1>1, <1>2, <1>3 DEF Counted

\* A step of a request that is no login.
LEMMA LimiterQuiet ==
    ASSUME LimiterInv, NEW r \in Slots, UNCHANGED limits,
           \A q \in Slots \ {r} : Stays(q),
           \A u \in Users : ~Trying(r, u)' /\ ~Writing(r, u)', ~At(r, "login", "store")',
           req'[r].now \in 0..window
    PROVE  LimiterInv'
<1>1. UNCHANGED <<limiter, misses, window, sweep, mixed>>
  BY DEF limits
<1>2. LimiterTyped'
  BY <1>1 DEF LimiterInv, LimiterTyped, Entries, At, Stays
<1>3. ASSUME NEW u \in Users, u \notin mixed' PROVE Counted(u)'
  <2>1. Counted(u)
    BY <1>1, <1>3 DEF LimiterInv
  <2>2. ASSUME NEW q \in Slots, Trying(q, u)' PROVE Trying(q, u)
    BY <2>2 DEF Trying, Stays
  <2>3. ASSUME NEW q \in Slots, Writing(q, u)'
        PROVE  Writing(q, u) /\ req'[q].pc = req[q].pc
                             /\ req'[q].saw = req[q].saw /\ req'[q].now = req[q].now
    BY <2>3 DEF Writing, Stays
  <2> QED BY <1>1, <2>1, <2>2, <2>3, SameEntry DEF LimiterInv
<1> QED BY <1>2, <1>3 DEF LimiterInv

LEMMA NowTyped ==
    ASSUME LimiterInv, NEW r \in Slots, RequestStep(r)
    PROVE  req'[r].now \in 0..window
BY DEF LimiterInv, LimiterTyped, RequestStep, GoesOn, Idle

LEMMA OtherLimited ==
    ASSUME LimiterInv, NEW r \in Slots, UNCHANGED limits, RequestStep(r), req[r].op # "login"
    PROVE  LimiterInv'
<1>1. (\A u \in Users : ~Trying(r, u)' /\ ~Writing(r, u)') /\ ~At(r, "login", "store")'
  BY DEF RequestStep, GoesOn, Idle, Trying, Writing, At
<1> QED BY <1>1, NowTyped, LimiterQuiet DEF RequestStep

LEMMA AcceptLimited ==
    ASSUME LimiterInv, RequestsTyped, NEW r \in Slots,
           AuthRequest(r) \/ UsersRequest(r) \/ AccountRequests(r)
    PROVE  LimiterInv'
<1>1. /\ UNCHANGED limits /\ \A q \in Slots \ {r} : Stays(q)
      /\ req'[r].now \in {0, window}
      /\ \/ req'[r].pc \in {"allow", "find", "create", "read", "current"}
         \/ req'[r].op = "logout" /\ req'[r].pc = "revoke"
  BY RequestAccepted
<1>2. (\A u \in Users : ~Trying(r, u)' /\ ~Writing(r, u)') /\ ~At(r, "login", "store")'
  BY <1>1 DEF Trying, Writing, At
<1> QED BY <1>1, <1>2, LimiterQuiet DEF LimiterInv, LimiterTyped

\* The others, while a login takes a step.
Untouched(r) == \A q \in Slots \ {r} :
    /\ \A u \in Users : /\ Trying(q, u)' <=> Trying(q, u)
                        /\ Writing(q, u)' <=> Writing(q, u)
    /\ req'[q].op = req[q].op /\ req'[q].pc = req[q].pc
    /\ req'[q].saw = req[q].saw /\ req'[q].now = req[q].now
LEMMA OthersUntouched ==
    ASSUME NEW r \in Slots, RequestStep(r)
    PROVE  Untouched(r)
BY DEF RequestStep, Stays, Untouched, Trying, Writing

\* A login turns to an entry that it leaves alone, and is counted among those
\* on their way only if the entry has room.
LEMMA LoginReads ==
    ASSUME LimiterInv, NEW r \in Slots, UNCHANGED limits, Untouched(r),
           NEW u \in Users, req'[r].user = u,
           Trying(r, u)' => Trying(r, u) \/ ~Blocked(u, req[r].now),
           req'[r].now \in 0..window,
           At(r, "login", "store")' => req'[r].saw \in Entries,
           u \notin mixed /\ Writing(r, u)' => Acts(r, u)'
    PROVE  LimiterInv'
<1>1. UNCHANGED <<limiter, misses, window, sweep, mixed>>
  BY DEF limits
<1>2. LimiterTyped'
  BY <1>1 DEF LimiterInv, LimiterTyped, Entries, Untouched, At
<1>3. ASSUME NEW v \in Users, v \notin mixed' PROVE Counted(v)'
  <2>1. Counted(v) /\ LimiterTyped
    BY <1>1, <1>3 DEF LimiterInv
  <2>2. CASE v # u
    <3>1. ASSUME NEW q \in Slots, Trying(q, v)' PROVE Trying(q, v)
      BY <2>2, <3>1 DEF Trying, Untouched
    <3>2. ASSUME NEW q \in Slots, Writing(q, v)'
          PROVE  Writing(q, v) /\ req'[q].pc = req[q].pc
                               /\ req'[q].saw = req[q].saw /\ req'[q].now = req[q].now
      BY <2>2, <3>2 DEF Writing, Untouched
    <3> QED BY <1>1, <2>1, <3>1, <3>2, SameEntry
  <2>3. CASE v = u
    <3>1. Count(u)' = Count(u) /\ (Fresh(limiter[u], window)' <=> Fresh(limiter[u], window))
      BY <1>1 DEF Count, Fresh
    <3>2. misses'[u] + Cardinality(Triers(u)') <= MaxStrikes + Cardinality(Slots) - 1
      <4>1. CASE Trying(r, u)' => Trying(r, u)
        <5>1. \A q \in Slots : Trying(q, u)' => Trying(q, u)
          BY <4>1 DEF Untouched
        <5> QED BY <1>1, <2>1, <2>3, <5>1, FewerTriers, TriersFinite, CountNat, SessionsAssumption DEF Counted
      <4>2. CASE ~Blocked(u, req[r].now)
        <5>1. Cardinality(Triers(u)') \in Nat /\ Cardinality(Triers(u)') <= Cardinality(Slots)
              /\ Cardinality(Slots) \in Nat
          <6>1. Triers(u)' \subseteq Slots /\ IsFiniteSet(Slots)
            BY SessionsAssumption DEF Triers
          <6> QED BY <6>1, FS_Subset, FS_CardinalityType
        <5>2. Count(u) <= MaxStrikes - 1
          BY <2>1, <4>2, CountNat, SessionsAssumption DEF Blocked, Count, LimiterTyped, Entries, Fresh
        <5>3. misses'[u] <= Count(u) /\ misses'[u] \in Nat /\ Count(u) \in Nat /\ MaxStrikes \in Nat
          BY <1>1, <2>1, <2>3, CountNat, SessionsAssumption DEF Counted
        <5> QED BY <5>1, <5>2, <5>3
      <4> QED BY <4>1, <4>2
    <3>3. ASSUME NEW q \in Slots, Writing(q, u)' PROVE Acts(q, u)'
      <4>1. CASE q = r
        BY <1>1, <1>3, <2>3, <3>3, <4>1
      <4>2. CASE q # r
        BY <1>1, <2>1, <2>3, <3>1, <3>3, <4>2 DEF Untouched, Counted, Acts, At, Writing
      <4> QED BY <4>1, <4>2
    <3> QED BY <1>1, <2>1, <2>3, <3>1, <3>2, <3>3 DEF Counted
  <2> QED BY <2>2, <2>3
<1> QED BY <1>2, <1>3 DEF LimiterInv

\* A login writes its entry: what others have loaded of it is no longer there.
LEMMA LoginWrites ==
    ASSUME LimiterInv, NEW r \in Slots, Untouched(r),
           NEW u \in Users, req[r].user = u, ~Writing(r, u)', ~At(r, "login", "store")',
           \A v \in Users \ {u} : ~Trying(r, v)' /\ ~Writing(r, v)',
           NEW state, limiter' = [limiter EXCEPT ![u] = state],
           state = None \/ state \in Entries, req'[r].now \in 0..window,
           NEW missed, misses' = [misses EXCEPT ![u] = missed],
           mixed' = Overlapped(r, u), UNCHANGED <<sweep, window>>,
           u \notin mixed' =>
              /\ missed \in Nat /\ missed <= Count(u)'
              /\ missed + Cardinality(Triers(u)') <= MaxStrikes + Cardinality(Slots) - 1
    PROVE  LimiterInv'
<1>1. /\ limiter'[u] = state /\ misses'[u] = missed
      /\ \A v \in Users \ {u} : limiter'[v] = limiter[v] /\ misses'[v] = misses[v]
      /\ limiter' = [v \in Users |-> limiter'[v]] /\ misses' = [v \in Users |-> misses'[v]]
  BY DEF LimiterInv, LimiterTyped
<1>2. LimiterTyped'
  <2>1. \A v \in Users : limiter'[v] = None \/ limiter'[v] \in Entries'
    BY <1>1 DEF LimiterInv, LimiterTyped, Entries
  <2>2. \A q \in Slots : req'[q].now \in 0..window'
                        /\ (At(q, "login", "store")' => req'[q].saw \in Entries')
    BY DEF LimiterInv, LimiterTyped, Entries, Untouched, At
  <2> QED BY <1>1, <2>1, <2>2 DEF LimiterInv, LimiterTyped
<1>3. mixed \subseteq mixed'
  BY DEF Overlapped
<1>4. ASSUME NEW v \in Users, v \notin mixed' PROVE Counted(v)'
  <2>1. Counted(v) /\ LimiterTyped
    BY <1>3, <1>4 DEF LimiterInv
  <2>2. CASE v # u
    <3>1. ASSUME NEW q \in Slots, Trying(q, v)' PROVE Trying(q, v)
      BY <2>2, <3>1 DEF Untouched
    <3>2. ASSUME NEW q \in Slots, Writing(q, v)'
          PROVE  Writing(q, v) /\ req'[q].pc = req[q].pc
                               /\ req'[q].saw = req[q].saw /\ req'[q].now = req[q].now
      BY <2>2, <3>2 DEF Untouched
    <3> QED BY <1>1, <2>1, <2>2, <3>1, <3>2, SameEntry
  <2>3. CASE v = u
    <3>1. sweep # u /\ \A q \in Slots \ {r} : ~Writing(q, u)
      BY <1>4, <2>3 DEF Overlapped, Writing
    <3>2. \A q \in Slots : ~Writing(q, u)'
      BY <3>1 DEF Untouched
    <3> QED BY <1>1, <1>4, <2>3, <3>1, <3>2 DEF Counted
  <2> QED BY <2>2, <2>3
<1> QED BY <1>2, <1>4 DEF LimiterInv

LEMMA RoomForAll ==
    ASSUME NEW u
    PROVE  0 + Cardinality(Triers(u)') <= MaxStrikes + Cardinality(Slots) - 1
<1>1. Triers(u)' \subseteq Slots /\ IsFiniteSet(Slots)
  BY SessionsAssumption DEF Triers
<1>2. /\ Cardinality(Triers(u)') \in Nat /\ Cardinality(Slots) \in Nat
      /\ Cardinality(Triers(u)') <= Cardinality(Slots)
  BY <1>1, FS_Subset, FS_CardinalityType
<1> QED BY <1>2, SessionsAssumption

LEMMA LoginLimited ==
    ASSUME LimiterInv, Typed, RevocationInv, NEW r \in Slots, LoginStep(r)
    PROVE  LimiterInv'
<1>a. RequestStep(r) /\ req[r].op = "login" /\ req[r].user \in Users
  <2>1. RequestStep(r) /\ req[r].op = "login"
    BY LoginKeeps
  <2> QED BY <2>1 DEF Typed, RequestsTyped, Proper
<1>b. PICK u \in Users : req[r].user = u
  BY <1>a
<1>0. /\ RequestStep(r) /\ Untouched(r) /\ req[r].op = "login" /\ u \in Users /\ req[r].user = u
      /\ Shaped(req[r]) /\ req' = [q \in Slots |-> req'[q]] /\ LimiterTyped
      /\ req'[r].now \in 0..window /\ req[r].now \in 0..window /\ window \in Nat
  <2>1. Untouched(r) /\ req'[r].now \in 0..window
    BY <1>a, OthersUntouched, NowTyped DEF LimiterInv
  <2> QED BY <1>a, <1>b, <2>1 DEF Typed, RequestsTyped, Proper, RequestStep, LimiterInv, LimiterTyped
\* The request ends without a write.
<1>1. ASSUME req' = Done(r), UNCHANGED limits PROVE LimiterInv'
  <2>1. req'[r] = Idle
    BY <1>1 DEF Done, Typed, RequestsTyped
  <2>2. (\A v \in Users : ~Trying(r, v)' /\ ~Writing(r, v)') /\ ~At(r, "login", "store")'
    BY <2>1 DEF Trying, Writing, At, Idle
  <2> QED BY <1>0, <1>1, <2>2, LimiterQuiet DEF RequestStep
<1>2. ASSUME NEW pc, req' = To(r, pc)
      PROVE  req'[r].op = "login" /\ req'[r].pc = pc /\ req'[r].user = u
  BY <1>0, <1>2 DEF To, Typed, RequestsTyped, Shaped, Fields
<1>3. CASE Allow(r)
  <2>1. /\ req[r].pc = "allow" /\ UNCHANGED limits
        /\ req' = IF limiter[u] # None /\ ~Fresh(limiter[u], req[r].now) THEN To(r, "forget")
                  ELSE IF Blocked(u, req[r].now) THEN Done(r) ELSE To(r, "credentials")
    BY <1>0, <1>3 DEF Allow, At, Reads
  <2>2. CASE req' = Done(r)
    BY <1>1, <2>1, <2>2
  <2>3. CASE limiter[u] # None /\ ~Fresh(limiter[u], req[r].now) /\ req' = To(r, "forget")
    <3>1. req'[r].pc = "forget" /\ req'[r].user = u
      BY <1>2, <2>3
    <3>2. ~Fresh(limiter[u], window)'
      BY <1>0, <2>1, <2>3 DEF limits, Fresh, LimiterTyped, Entries
    <3>3. Acts(r, u)' /\ ~Trying(r, u)' /\ ~At(r, "login", "store")'
      BY <3>1, <3>2 DEF Acts, At, Trying
    <3> QED BY <1>0, <2>1, <3>1, <3>3, LoginReads
  <2>4. CASE ~Blocked(u, req[r].now) /\ req' = To(r, "credentials")
    <3>1. req'[r].pc = "credentials" /\ req'[r].user = u
      BY <1>2, <2>4
    <3>2. ~Writing(r, u)' /\ ~At(r, "login", "store")'
      BY <3>1 DEF Writing, At
    <3> QED BY <1>0, <2>1, <2>4, <3>1, <3>2, LoginReads
  <2> QED BY <2>1, <2>2, <2>3, <2>4
<1>4. CASE Forget(r)
  <2>1. /\ req[r].pc = "forget" /\ req' = To(r, "credentials")
        /\ limiter' = [limiter EXCEPT ![u] = None] /\ mixed' = Overlapped(r, u)
        /\ UNCHANGED <<sweep, window, misses>>
    BY <1>0, <1>4 DEF Forget, At
  <2>2. req'[r].pc = "credentials" /\ req'[r].user = u
    BY <1>2, <2>1
  <2>3. /\ ~Writing(r, u)' /\ ~At(r, "login", "store")'
        /\ \A v \in Users \ {u} : ~Trying(r, v)' /\ ~Writing(r, v)'
    BY <2>2 DEF Writing, Trying, At
  <2>4. limiter'[u] = None /\ Count(u)' = 0
    BY <1>0, <2>1 DEF LimiterTyped, Count, Fresh
  <2>5. u \notin mixed' => misses[u] = 0
    <3>1. u \notin mixed' => Counted(u)
      BY <1>0, <2>1 DEF Overlapped, LimiterInv
    <3>2. u \notin mixed' => Count(u) = 0
      BY <1>0, <2>1, <3>1 DEF Counted, Writing, Acts, At, Count
    <3> QED BY <3>1, <3>2 DEF Counted
  <2>6. misses' = [misses EXCEPT ![u] = misses[u]]
    BY <1>0, <2>1 DEF LimiterTyped
  <2>7. u \notin mixed' =>
          /\ misses[u] \in Nat /\ misses[u] <= Count(u)'
          /\ misses[u] + Cardinality(Triers(u)') <= MaxStrikes + Cardinality(Slots) - 1
    BY <2>4, <2>5, RoomForAll
  <2> QED BY <1>0, <2>1, <2>3, <2>6, <2>7, LoginWrites
<1>5. CASE Authenticate(r)
  <2>1. /\ req[r].pc = "credentials" /\ UNCHANGED limits
        /\ req' = To(r, "issue") \/ req' = [req EXCEPT ![r].pc = "strike", ![r].now = window]
    BY <1>0, <1>5 DEF Authenticate, At, Reads
  <2>2. req'[r].pc \in {"issue", "strike"} /\ req'[r].user = u
    BY <1>0, <1>2, <2>1 DEF Typed, RequestsTyped, Shaped, Fields
  <2>3. Trying(r, u) /\ ~Writing(r, u)' /\ ~At(r, "login", "store")'
    BY <1>0, <2>1, <2>2 DEF Trying, Writing, At
  <2> QED BY <1>0, <2>1, <2>2, <2>3, LoginReads
<1>6. CASE IssueForUser(r)
  <2>1. UNCHANGED limits /\ req' = To(r, "clear")
    BY <1>6 DEF IssueForUser
  <2>2. req'[r].pc = "clear" /\ req'[r].user = u
    BY <1>2, <2>1
  <2>3. ~Trying(r, u)' /\ ~Writing(r, u)' /\ ~At(r, "login", "store")'
    BY <2>2 DEF Trying, Writing, At
  <2> QED BY <1>0, <2>1, <2>2, <2>3, LoginReads
<1>7. CASE OnSuccess(r)
  <2>1. /\ req' = Done(r)
        /\ limiter' = [limiter EXCEPT ![u] = None] /\ mixed' = Overlapped(r, u)
        /\ misses' = [misses EXCEPT ![u] = 0]
        /\ UNCHANGED <<sweep, window>>
    BY <1>0, <1>7 DEF OnSuccess, ClearKey
  <2>2. req'[r] = Idle
    BY <2>1 DEF Done, Typed, RequestsTyped
  <2>3. /\ ~Writing(r, u)' /\ ~At(r, "login", "store")'
        /\ \A v \in Users \ {u} : ~Trying(r, v)' /\ ~Writing(r, v)'
    BY <2>2 DEF Writing, Trying, At, Idle
  <2>4. Count(u)' = 0
    BY <1>0, <2>1 DEF LimiterTyped, Count, Fresh
  <2>5. u \notin mixed' =>
          /\ 0 <= Count(u)'
          /\ 0 + Cardinality(Triers(u)') <= MaxStrikes + Cardinality(Slots) - 1
    BY <2>4, RoomForAll
  <2> QED BY <1>0, <2>1, <2>3, <2>5, LoginWrites
<1>8. CASE OnFailure(r)
  <2> DEFINE loaded == limiter[u]
             now    == req[r].now
             state  == IF Fresh(loaded, now) THEN [count |-> loaded.count + 1, since |-> loaded.since]
                       ELSE [count |-> 1, since |-> now]
  <2>1. /\ req[r].pc = "strike" /\ UNCHANGED limits
        /\ req' = [req EXCEPT ![r].pc = "store", ![r].saw = state]
    BY <1>0, <1>8 DEF OnFailure, At, Reads
  <2>2. /\ state \in Entries
        /\ now = window => state.since = window
        /\ IF state.since = window THEN Count(u) < state.count ELSE Count(u) = 0
    <3>1. CASE Fresh(loaded, now)
      <4>1. loaded \in Entries /\ loaded.count \in Nat /\ loaded.since \in 0..window /\ loaded # None
        BY <1>0, <3>1, EntryIsOne DEF LimiterTyped, Fresh
      <4>2. state = [count |-> loaded.count + 1, since |-> loaded.since] /\ loaded.since >= now
        BY <3>1 DEF Fresh
      <4>3. Count(u) = IF loaded.since >= window THEN loaded.count ELSE 0
        BY <4>1 DEF Count, Fresh
      <4> HIDE DEF state, loaded, now
      <4> QED BY <1>0, <4>1, <4>2, <4>3 DEF Entries
    <3>2. CASE ~Fresh(loaded, now)
      <4>1. state = [count |-> 1, since |-> now] /\ now \in 0..window
        BY <1>0, <3>2
      <4>2. Count(u) = 0
        BY <1>0, <3>2 DEF LimiterTyped, Entries, Count, Fresh
      <4> HIDE DEF state, loaded, now
      <4> QED BY <1>0, <4>1, <4>2 DEF Entries
    <3> QED BY <3>1, <3>2
  <2> HIDE DEF state
  <2>3. /\ req'[r].pc = "store" /\ req'[r].user = u /\ req'[r].saw = state /\ req'[r].op = "login"
        /\ req'[r].now = now
    BY <1>0, <2>1 DEF Typed, RequestsTyped, Shaped, Fields
  <2>4. Count(u)' = Count(u) /\ window' = window
    BY <2>1 DEF limits, Count, Fresh
  <2>5. Trying(r, u) /\ Acts(r, u)'
    BY <1>0, <2>1, <2>2, <2>3, <2>4 DEF Trying, Acts, At
  <2> QED BY <1>0, <2>1, <2>2, <2>3, <2>5, LoginReads
<1>9. CASE StoreFailure(r)
  <2> DEFINE state  == req[r].saw
             missed == IF req[r].now = window THEN misses[u] + 1 ELSE misses[u]
  <2>1. /\ req[r].pc = "store" /\ req' = Done(r)
        /\ limiter' = [limiter EXCEPT ![u] = state] /\ mixed' = Overlapped(r, u)
        /\ misses' = [misses EXCEPT ![u] = missed]
        /\ UNCHANGED <<sweep, window>>
    BY <1>0, <1>9 DEF StoreFailure, At
  <2>2. req'[r] = Idle
    BY <2>1 DEF Done, Typed, RequestsTyped
  <2>3. /\ ~Writing(r, u)' /\ ~At(r, "login", "store")'
        /\ \A v \in Users \ {u} : ~Trying(r, v)' /\ ~Writing(r, v)'
    BY <2>2 DEF Writing, Trying, At, Idle
  <2>4. state \in Entries /\ state # None /\ state.count \in Nat /\ state.since \in 0..window
    BY <1>0, <2>1, EntryIsOne DEF LimiterTyped, At
  <2>5. Count(u)' = IF state.since = window THEN state.count ELSE 0
    BY <1>0, <2>1, <2>4 DEF LimiterTyped, Count, Fresh
  <2>6. u \notin mixed' =>
          /\ missed \in Nat /\ missed <= Count(u)'
          /\ missed + Cardinality(Triers(u)') <= MaxStrikes + Cardinality(Slots) - 1
    <3> SUFFICES ASSUME u \notin mixed'
                 PROVE  /\ missed \in Nat /\ missed <= Count(u)'
                        /\ missed + Cardinality(Triers(u)') <= MaxStrikes + Cardinality(Slots) - 1
      OBVIOUS
    <3>1. Counted(u)
      BY <1>0, <2>1 DEF Overlapped, LimiterInv
    <3>2. /\ req[r].now = window => state.since = window
          /\ IF state.since = window THEN Count(u) < state.count ELSE Count(u) = 0
          /\ misses[u] \in Nat /\ misses[u] <= Count(u) /\ Count(u) \in Nat
      BY <1>0, <2>1, <3>1, CountNat DEF Counted, Writing, Acts, At
    <3>3. r \in Triers(u) /\ Triers(u)' = Triers(u) \ {r}
      BY <1>0, <2>1, <2>3, <2>2 DEF Triers, Trying, Untouched, Idle
    <3>4. /\ Cardinality(Triers(u)') = Cardinality(Triers(u)) - 1
          /\ Cardinality(Triers(u)) \in Nat /\ Cardinality(Slots) \in Nat
      BY <3>3, TriersFinite, FS_RemoveElement
    <3>5. misses[u] + Cardinality(Triers(u)) <= MaxStrikes + Cardinality(Slots) - 1
      BY <3>1 DEF Counted
    <3>6. missed \in Nat /\ missed <= misses[u] + 1 /\ missed <= Count(u)'
      BY <2>4, <2>5, <3>2
    <3> HIDE DEF missed
    <3> QED BY <3>2, <3>4, <3>5, <3>6, SessionsAssumption
  <2> HIDE DEF state, missed
  <2> QED BY <1>0, <2>1, <2>3, <2>4, <2>6, LoginWrites
<1> QED BY <1>3, <1>4, <1>5, <1>6, <1>7, <1>8, <1>9 DEF LoginStep

LEMMA HandlerLimited ==
    ASSUME Typed, RevocationInv, AdminInv, LimiterInv, NEW r \in Slots,
           LoginStep(r) \/ TokenStep(r) \/ UsersStep(r) \/ AccountStep(r)
    PROVE  LimiterInv'
<1>1. CASE LoginStep(r)
  BY <1>1, LoginLimited
<1>2. CASE TokenStep(r)
  <2>1. RequestStep(r) /\ req[r].op # "login"
    BY <1>2, TokenKeeps
  <2>2. UNCHANGED limits
    BY <1>2 DEF TokenStep, FindByHash, ReuseDetected, MarkUsed, GetByID, Rotate, UserDisabled, Revoke,
                EndFamily, Reads
  <2> QED BY <2>1, <2>2, OtherLimited
<1>3. CASE UsersStep(r)
  <2>1. RequestStep(r) /\ req[r].op \in UserOps
    <3>1. CASE CurrentRoles(r) \/ FindByID(r) \/ GetRoles(r) \/ CountAdmins(r)
               \/ ClearRoles(r) \/ RowsUnlocked(r)
      BY <3>1, ReadingKeeps
    <3>2. CASE WriteUser(r) \/ GrantRoles(r)
      BY <3>2, WritingKeeps
    <3>3. CASE InsertUser(r)
      BY <3>3, InsertKeeps
    <3>4. CASE RevokeSessions(r)
      BY <3>4, RevokeKeeps DEF RevokeSessions, UserOps
    <3> QED BY <1>3, <3>1, <3>2, <3>3, <3>4 DEF UsersStep
  <2>2. UNCHANGED limits
    BY <1>3 DEF UsersStep, CurrentRoles, FindByID, GetRoles, CountAdmins, WriteUser, RevokeSessions,
                InsertUser, ClearRoles, RowsUnlocked, GrantRoles, ChangeUser, Reads
  <2> QED BY <2>1, <2>2, OtherLimited DEF UserOps, Deactivations, RoleChanges
<1>4. CASE AccountStep(r)
  <2>1. RequestStep(r) /\ req[r].op # "login"
    BY <1>4, AccountStepIs DEF AccountOps, Typed
  <2>2. UNCHANGED limits
    BY <1>4 DEF AccountStep, InsertAccount, FindAccount, WriteAccount, Reads
  <2> QED BY <2>1, <2>2, OtherLimited
<1> QED BY <1>1, <1>2, <1>3, <1>4

\* A statement that fails, a restart, the clock and gcLoop.
LEMMA OutsideLimited ==
    ASSUME LimiterInv, Typed,
           \/ \E r \in Slots : StatementFails(r)
           \/ Restart \/ Expire \/ WindowPasses
           \/ \E u \in Users : SweepFinds(u)
           \/ SweepDeletes
           \/ UNCHANGED vars
    PROVE  LimiterInv'
<1>1. ASSUME NEW r \in Slots, StatementFails(r) PROVE LimiterInv'
  <2>1. UNCHANGED limits /\ req' = [req EXCEPT ![r] = Idle]
    BY <1>1 DEF StatementFails, Abandon, Done, limits
  <2>2. req'[r] = Idle /\ \A q \in Slots \ {r} : req'[q] = req[q]
    BY <2>1 DEF Typed, RequestsTyped
  <2>3. (\A u \in Users : ~Trying(r, u)' /\ ~Writing(r, u)') /\ ~At(r, "login", "store")'
    BY <2>2 DEF Trying, Writing, At, Idle
  <2>4. \A q \in Slots \ {r} : Stays(q)
    BY <2>2 DEF Stays
  <2>5. req'[r].now \in 0..window
    BY <2>2 DEF Idle, LimiterInv, LimiterTyped
  <2> QED BY <2>1, <2>3, <2>4, <2>5, LimiterQuiet
<1>2. CASE Restart
  <2>1. /\ req' = [r \in Slots |-> Idle] /\ limiter' = [u \in Users |-> None] /\ sweep' = None
        /\ misses' = [u \in Users |-> 0] /\ mixed' = {} /\ UNCHANGED window
    BY <1>2 DEF Restart, Abandon
  <2>2. \A u \in Users : Count(u)' = 0 /\ ~Fresh(limiter[u], window)'
    BY <2>1 DEF Count, Fresh
  <2>3. \A q \in Slots : ~At(q, "login", "store")' /\ \A u \in Users : ~Writing(q, u)'
    BY <2>1 DEF At, Writing, Idle
  <2>4. LimiterTyped'
    BY <2>1, <2>3 DEF LimiterInv, LimiterTyped, Idle
  <2>5. ASSUME NEW u \in Users PROVE Counted(u)'
    BY <2>1, <2>2, <2>3, RoomForAll DEF Counted
  <2> QED BY <2>4, <2>5 DEF LimiterInv
<1>3. CASE Expire \/ UNCHANGED vars
  <2>1. UNCHANGED <<limiter, misses, window, sweep, mixed, req>>
    BY <1>3 DEF Expire, vars, limits
  <2>2. LimiterTyped'
    BY <2>1 DEF LimiterInv, LimiterTyped, Entries, At
  <2>3. ASSUME NEW u \in Users, u \notin mixed' PROVE Counted(u)'
    BY <2>1, <2>3, SameEntry DEF LimiterInv, Trying, Writing
  <2> QED BY <2>2, <2>3 DEF LimiterInv
<1>4. CASE WindowPasses
  <2>1. /\ window' = window + 1 /\ misses' = [u \in Users |-> 0]
        /\ UNCHANGED <<limiter, sweep, req, mixed>>
    BY <1>4 DEF WindowPasses
  <2>2. \A u \in Users : ~Fresh(limiter[u], window)' /\ Count(u)' = 0
    BY <2>1 DEF LimiterInv, LimiterTyped, Entries, Fresh, Count
  <2>3. Entries \subseteq Entries' /\ 0..window \subseteq 0..window'
    BY <2>1 DEF LimiterInv, LimiterTyped, Entries
  <2>4. LimiterTyped'
    BY <2>1, <2>3 DEF LimiterInv, LimiterTyped, At
  <2>5. ASSUME NEW q \in Slots, NEW u \in Users PROVE Acts(q, u)'
    <3>1. At(q, "login", "store")' =>
            /\ req'[q].saw.since \in 0..window /\ req'[q].now \in 0..window /\ window \in Nat
      BY <2>1 DEF LimiterInv, LimiterTyped, Entries, At
    <3> QED BY <2>1, <2>2, <3>1 DEF Acts
  <2>6. ASSUME NEW u \in Users PROVE Counted(u)'
    BY <2>1, <2>2, <2>5, RoomForAll DEF Counted
  <2> QED BY <2>4, <2>6 DEF LimiterInv
<1>5. ASSUME NEW w \in Users, SweepFinds(w) PROVE LimiterInv'
  <2>1. /\ ~Fresh(limiter[w], window) /\ sweep' = w
        /\ UNCHANGED <<limiter, window, misses, mixed, req>>
    BY <1>5 DEF SweepFinds
  <2>2. LimiterTyped'
    BY <2>1 DEF LimiterInv, LimiterTyped, Entries, At
  <2>3. ASSUME NEW u \in Users, u \notin mixed' PROVE Counted(u)'
    BY <2>1, <2>3, SameEntry DEF LimiterInv, Trying, Writing
  <2> QED BY <2>2, <2>3 DEF LimiterInv
<1>6. CASE SweepDeletes
  <2>1. /\ sweep # None /\ sweep' = None
        /\ limiter' = [limiter EXCEPT ![sweep] = None]
        /\ UNCHANGED <<window, misses, mixed, req>>
    BY <1>6 DEF SweepDeletes
  <2>2. LimiterTyped'
    BY <2>1 DEF LimiterInv, LimiterTyped, Entries, At
  <2>3. ASSUME NEW u \in Users, u \notin mixed' PROVE Counted(u)'
    <3>1. Counted(u) /\ LimiterTyped
      BY <2>1, <2>3 DEF LimiterInv
    <3>2. CASE sweep # u
      <4>1. limiter'[u] = limiter[u] /\ sweep' # u
        BY <2>1, <3>1, <3>2, SessionsAssumption DEF LimiterTyped
      <4> QED BY <2>1, <3>1, <4>1, SameEntry DEF Trying, Writing
    <3>3. CASE sweep = u
      <4>1. ~Fresh(limiter[u], window) /\ limiter'[u] = None
        BY <2>1, <3>1, <3>3 DEF Counted, LimiterTyped
      <4>2. ~Fresh(limiter[u], window)' /\ Count(u)' = 0 /\ Count(u) = 0
        BY <4>1 DEF Fresh, Count
      <4>3. Triers(u)' = Triers(u)
        BY <2>1 DEF Triers, Trying
      <4>4. \A q \in Slots : Writing(q, u)' => Acts(q, u)'
        BY <2>1, <3>1, <4>1, <4>2 DEF Counted, Writing, Acts, At
      <4> QED BY <2>1, <3>1, <4>2, <4>3, <4>4 DEF Counted
    <3> QED BY <3>2, <3>3
  <2> QED BY <2>2, <2>3 DEF LimiterInv
<1> QED BY <1>1, <1>2, <1>3, <1>4, <1>5, <1>6

-----------------------------------------------------------------------------
(* The inductive invariant. *)

SessionsInv ==
    Typed /\ RevocationInv /\ AdminInv /\ SignedInv /\ AccountInv /\ HeadInv /\ LimiterInv

LEMMA InitEstablishes == ASSUME Init PROVE SessionsInv
<1>1. PICK u \in Users :
        /\ \/ users = [v \in Users |-> User({"admin"})]
           \/ users = [v \in Users |-> IF v = u THEN User({"admin"}) ELSE Unknown]
        /\ tokens = <<>> \/ tokens = <<Token(u, 1, FALSE)>>
  BY DEF Init
<1>2. req = [r \in Slots |-> Idle] /\ blind = FALSE
  BY DEF Init
<1>3. /\ UserShaped(User({"admin"})) /\ UserShaped(Unknown)
      /\ User({"admin"}).known /\ User({"admin"}).active /\ User({"admin"}).roles = {"admin"}
      /\ ~Unknown.known /\ ~Unknown.active
  BY DEF User, Unknown, UserShaped, UserFields
<1>4. UsersTyped
  BY <1>1, <1>3 DEF UsersTyped
<1>5. Token(u, 1, FALSE) \in TokenRow /\ ~Token(u, 1, FALSE).revoked /\ Token(u, 1, FALSE).family = 1
  BY DEF Token, TokenRow
<1>6. TokensTyped /\ \A t \in DOMAIN tokens : ~tokens[t].revoked
  <2>1. CASE tokens = <<>>
    BY <2>1 DEF TokensTyped
  <2>2. CASE tokens = <<Token(u, 1, FALSE)>>
    <3> DEFINE row == Token(u, 1, FALSE)
    <3>1. row \in TokenRow /\ ~row.revoked /\ row.family = 1 /\ tokens = <<row>>
      BY <1>5, <2>2
    <3> HIDE DEF row
    <3>2. tokens \in Seq(TokenRow) /\ DOMAIN tokens = {1} /\ tokens[1] = row
      BY <3>1
    <3> QED BY <3>1, <3>2 DEF TokensTyped
  <2> QED BY <1>1, <2>1, <2>2
<1>7. RequestsTyped
  BY <1>2, IdleProper DEF RequestsTyped
<1>8. RevocationInv
  BY <1>2, <1>6 DEF RevocationInv, Ended, InHand, Rotating, Idle
<1>9. AdminRemains
  <2>1. u \in ActiveAdmins(users)
    BY <1>1, <1>3 DEF ActiveAdmins
  <2> QED BY <2>1 DEF AdminRemains
<1>10. AdminInv
  BY <1>1, <1>2, <1>3, <1>9 DEF AdminInv, Found, Decided, Idle
<1>11. SignedInv
  <2>1. \A t \in DOMAIN tokens : tokens[t].user = u
    BY <1>1 DEF Token
  <2>2. users[u].active
    BY <1>1, <1>3
  <2> QED BY <1>2, <2>1, <2>2 DEF SignedInv, Covered, Issuing, At, Child, Rotating, Idle
<1>12. AccountInv
  <2> DEFINE row == Account({"read"})
  <2>1. AccountShaped(row)
    BY DEF AccountShaped, AccountFields, Account
  <2>2. accounts = <<row>>
    BY DEF Init
  <2> HIDE DEF row
  <2>3. accounts \in Seq({row}) /\ DOMAIN accounts = {1} /\ accounts[1] = row
    BY <2>2
  <2> QED BY <1>2, <2>1, <2>3 DEF AccountInv, Updating, At, Idle, AccountOps
<1>13. HeadInv
  <2>1. \A q \in Slots : Twins(q)
    BY <1>2 DEF Twins, At, Idle
  <2>2. CASE tokens = <<>>
    BY <2>1, <2>2 DEF HeadInv
  <2>3. CASE tokens = <<Token(u, 1, FALSE)>>
    <3> DEFINE row == Token(u, 1, FALSE)
    <3>1. row.family = 1 /\ row.used = FALSE /\ row.lost = 0 /\ row.forks = 0 /\ tokens = <<row>>
      BY <2>3 DEF Token
    <3> HIDE DEF row
    <3>2. DOMAIN tokens = {1} /\ tokens[1] = row
      BY <3>1
    <3>3. Unused(1) = {1} /\ Turning(1) = {}
      BY <1>2, <3>1, <3>2 DEF Unused, Family, Turning, Rotating, Idle
    <3>4. Cardinality({1}) = 1 /\ Cardinality({}) = 0
      BY FS_Singleton, FS_EmptySet
    <3>5. Balanced(1)
      BY <3>1, <3>2, <3>3, <3>4 DEF Balanced
    <3> QED BY <2>1, <3>2, <3>5 DEF HeadInv
  <2> QED BY <1>1, <2>2, <2>3
<1>14. LimiterInv
  <2>1. /\ limiter = [v \in Users |-> None] /\ misses = [v \in Users |-> 0]
        /\ window = 0 /\ sweep = None /\ mixed = {}
    BY DEF Init
  <2>2. \A q \in Slots : ~At(q, "login", "store") /\ \A v \in Users : ~Trying(q, v) /\ ~Writing(q, v)
    BY <1>2 DEF At, Trying, Writing, Idle
  <2>3. LimiterTyped
    BY <1>2, <2>1, <2>2 DEF LimiterTyped, Idle
  <2>4. ASSUME NEW v \in Users PROVE Counted(v)
    <3>1. Triers(v) = {} /\ Cardinality({}) = 0 /\ Cardinality(Slots) \in Nat
      BY <2>2, SessionsAssumption, FS_EmptySet, FS_CardinalityType DEF Triers
    <3>2. Count(v) = 0 /\ ~Fresh(limiter[v], window)
      BY <2>1 DEF Count, Fresh
    <3> QED BY <2>1, <2>2, <3>1, <3>2, SessionsAssumption DEF Counted
  <2> QED BY <2>3, <2>4 DEF LimiterInv
<1> QED BY <1>4, <1>6, <1>7, <1>8, <1>10, <1>11, <1>12, <1>13, <1>14 DEF SessionsInv, Typed

\* Whatever a request, a failure, a restart or the clock does.
LEMMA StepKeeps == SessionsInv /\ [Next]_vars => SessionsInv' /\ AsAsked
<1> SUFFICES ASSUME Typed, RevocationInv, AdminInv, SignedInv, AccountInv, HeadInv, LimiterInv,
                    [Next]_vars
             PROVE  SessionsInv' /\ AsAsked
  BY DEF SessionsInv
<1>0. RequestsTyped
  BY DEF Typed
<1>1. ASSUME NEW r \in Slots, AuthRequest(r) \/ UsersRequest(r) \/ AccountRequests(r)
      PROVE  SessionsInv' /\ AsAsked
  <2>1. Typed' /\ RevocationInv' /\ AdminInv'
    BY <1>1, AcceptKeeps
  <2>2. SignedInv'
    BY <1>1, RestSigned
  <2>3. AccountInv' /\ AsAsked
    BY <1>0, <1>1, AcceptAsAsked
  <2>4. HeadInv' /\ LimiterInv'
    BY <1>0, <1>1, AcceptHead, AcceptLimited
  <2> QED BY <2>1, <2>2, <2>3, <2>4 DEF SessionsInv
<1>2. ASSUME NEW r \in Slots, LoginStep(r) \/ TokenStep(r) \/ UsersStep(r) \/ AccountStep(r)
      PROVE  SessionsInv' /\ AsAsked
  <2>1. Typed' /\ RevocationInv' /\ AdminInv'
    BY <1>2, HandlerKeeps
  <2>2. SignedInv'
    BY <1>2, LoginSigned, TokenSigned, UsersSigned, RestSigned
  <2>3. AccountInv' /\ AsAsked
    BY <1>0, <1>2, OtherStepsStay, InsertAsAsked, FindAsAsked, WriteAsAsked DEF AccountStep
  <2>4. HeadInv' /\ LimiterInv'
    BY <1>2, HandlerHead, HandlerLimited
  <2> QED BY <2>1, <2>2, <2>3, <2>4 DEF SessionsInv
<1>3. CASE \/ \E r \in Slots : StatementFails(r)
           \/ Restart \/ Expire \/ WindowPasses
           \/ \E u \in Users : SweepFinds(u)
           \/ SweepDeletes
           \/ UNCHANGED vars
  <2>1. Typed' /\ RevocationInv' /\ AdminInv'
    BY <1>3, OutsideSteps
  <2>2. SignedInv'
    BY <1>3, OutsideSigned
  <2>3. AccountInv' /\ AsAsked
    BY <1>0, <1>3, OutsideStays
  <2>4. HeadInv' /\ LimiterInv'
    BY <1>3, OutsideHead, OutsideLimited
  <2> QED BY <2>1, <2>2, <2>3, <2>4 DEF SessionsInv
<1> QED BY <1>1, <1>2, <1>3 DEF Next

LEMMA Invariance == Spec => []SessionsInv
<1>1. Init => SessionsInv
  BY InitEstablishes
<1> QED BY <1>1, StepKeeps, PTL DEF Spec

\* Once a session is logged out, revoked by an administrator or ended because
\* a used token came back, none of its tokens can be used but what a rotation
\* created that had found its token before: whatever rotations, logins and
\* revocations run at the same time, fail half way or are cut off by a restart.
THEOREM RevocationCorrect == Spec => []RevocationHolds
<1>1. SessionsInv => RevocationHolds
  BY DEF SessionsInv, RevocationInv, RevocationHolds, Ended, Family
<1> QED BY <1>1, Invariance, PTL

\* There is an active administrator, however the changes of users and roles
\* interleave, unless two of them that each took one away had overlapped.
THEOREM AdminCorrect == Spec => []AdminRemains
<1>1. SessionsInv => AdminRemains
  BY DEF SessionsInv, AdminInv
<1> QED BY <1>1, Invariance, PTL

\* A user who has been deactivated has no token that can be used, as soon as
\* the revocation that follows is done: only if that failed, or for a login or
\* a rotation that had read the user as active, there is one.
THEOREM DeactivationCorrect == Spec => []SignedOut
<1>1. SessionsInv => SignedOut
  BY DEF SessionsInv, SignedInv, SignedOut, Covered, Pending
<1> QED BY <1>1, Invariance, PTL

\* Whatever requests about a service account overlap, its switch and scopes
\* change only to what a request asked for, or back to what one had read before
\* the write of another; a secret that was replaced never comes back.
THEOREM AccountsCorrect == Spec => AccountChangesAsked
<1>1. SessionsInv /\ [Next]_vars => [AsAsked]_vars
  BY StepKeeps
<1>2. Spec => [][AsAsked]_vars
  BY <1>1, Invariance, PTL DEF Spec
<1> QED BY <1>2 DEF AccountChangesAsked, AsAsked

\* A session that was not revoked has one refresh token to go on with, or a
\* rotation that will create it, whatever rotations of it overlap, fail or are
\* cut off: one more for each that marked a token another had marked, one less
\* for each that was lost after it had.
THEOREM OneHeadCorrect == Spec => []OneHead
<1>1. SessionsInv => OneHead
  BY DEF SessionsInv, HeadInv, Balanced, Unused, OneHead, Ended, Family
<1> QED BY <1>1, Invariance, PTL

\* However logins of one user overlap each other, the clock, gcLoop and
\* restarts, the limiter lets through no more failures than its maximum and one
\* for each other request in progress, until two writers of the key overlap.
THEOREM AttemptsCorrect == Spec => []AttemptsLimited
<1>1. SessionsInv => AttemptsLimited
  <2>1. ASSUME NEW u \in Users, SessionsInv, u \notin mixed
        PROVE  misses[u] <= MaxStrikes + Cardinality(Slots) - 1
    <3>1. Counted(u) /\ LimiterTyped
      BY <2>1 DEF SessionsInv, LimiterInv
    <3>2. misses[u] \in Nat
      BY <3>1, CountNat DEF Counted
    <3> QED BY <3>1, <3>2, TriersFinite, SessionsAssumption DEF Counted
  <2> QED BY <2>1 DEF AttemptsLimited
<1> QED BY <1>1, Invariance, PTL

=============================================================================
