--------------------------- MODULE RefreshSessions ---------------------------
(***************************************************************************)
(* AuthService (src/src/modules/auth/auth.service.ts) over the table       *)
(* user_refresh_tokens: login, refresh, logout and logout-all as they run  *)
(* concurrently on the event loops of one or several server processes.     *)
(* Every await of the service is a place where other requests run, so each *)
(* request takes one action per database statement (or bcrypt call), and   *)
(* may fail or die with its process at any of them.                        *)
(*                                                                         *)
(* Requests the service refuses (401, or 500 when the owner of the token   *)
(* is soft-deleted and the joined user is null) change nothing and are not *)
(* steps; their conditions are the negated guards of the find actions.     *)
(***************************************************************************)
EXTENDS Naturals, FiniteSets

CONSTANTS
  Users,      \* rows of the users table
  Tokens,     \* values of crypto.randomBytes(40)
  Requests,   \* slots for requests being served at the same time
  RefreshTtl, \* auth.refreshTokenExpiresIn, in clock ticks
  MaxTime,    \* bound on the clock
  None        \* "undefined"

ASSUME TtlAssumption == RefreshTtl \in Nat
ASSUME TimeAssumption == MaxTime \in Nat

VARIABLES
  now,        \* new Date()
  active,     \* users whose status is ACTIVE
  deleted,    \* users whose deletedAt is set
  rows,       \* the table user_refresh_tokens
  issued,     \* token values drawn so far
  pc,         \* where each request is
  subject,    \* the user a request works for
  entity,     \* the UserRefreshToken a request has read or is saving
  misses,     \* history: how many refreshes of a session deleted no row
  ended,      \* history: sessions a logout-all was to end
  escaped,    \* history: of these, those with a refresh in flight then
  overtaken   \* history: requests past the status check of a user then disabled

vars == <<now, active, deleted, rows, issued, pc, subject, entity,
          misses, ended, escaped, overtaken>>
accountVars == <<active, deleted>>
historyVars == <<misses, ended, escaped, overtaken>>

(* A row of the table.  family is history: the token of the login that the *)
(* row descends from by refreshes, which identifies the session.           *)
Row == [token : Tokens, family : Tokens, user : Users, expires : Nat]

Places == {"idle", "compare", "insert", "revoke", "renew", "dropExpired",
           "logout", "deleteAll"}

(* The types, and what each place has at hand: the entity it is to save or   *)
(* remove, and the user it acts for, who is the owner of that entity.        *)
TypeOK ==
  /\ now \in 0..MaxTime
  /\ active \subseteq Users /\ deleted \subseteq Users
  /\ rows \subseteq Row /\ issued \subseteq Tokens
  /\ pc \in [Requests -> Places]
  /\ subject \in [Requests -> {None} \cup Users]
  /\ entity \in [Requests -> {None} \cup Row]
  /\ \A r \in Requests :
       /\ pc[r] \in {"insert", "revoke", "renew", "dropExpired", "logout"}
            => entity[r] \in Row
       /\ pc[r] \in {"compare", "deleteAll"} => subject[r] \in Users
       /\ pc[r] \in {"insert", "revoke", "renew"} => subject[r] = entity[r].user
  /\ misses \in [Tokens -> Nat] /\ ended \subseteq Tokens
  /\ escaped \subseteq Tokens /\ overtaken \subseteq Requests

-----------------------------------------------------------------------------
Init ==
  /\ now = 0
  /\ active \in SUBSET Users /\ deleted \in SUBSET Users
  /\ rows = {} /\ issued = {}
  /\ pc = [r \in Requests |-> "idle"]
  /\ subject = [r \in Requests |-> None]
  /\ entity = [r \in Requests |-> None]
  /\ misses = [f \in Tokens |-> 0] /\ ended = {} /\ escaped = {} /\ overtaken = {}

(* user.status === ACTIVE, for a user a query still returns. *)
Usable(u) == u \in active \ deleted

(* isExpired(): strictly later than expiresAt. *)
Expired(row) == now > row.expires

(* Requests that have passed the checks of user u and will store a token. *)
Committed(u) ==
  {r \in Requests :
     pc[r] \in {"compare", "revoke", "renew", "insert"} /\ subject[r] = u}

(* Refreshes of a session of user u that have read their row already. *)
Refreshing(u) ==
  {r \in Requests :
     /\ pc[r] \in {"revoke", "renew", "insert"}
     /\ entity[r].user = u
     /\ pc[r] = "insert" => entity[r].token # entity[r].family}

(* The request has been answered, or has died. *)
Release(r) ==
  /\ pc' = [pc EXCEPT ![r] = "idle"]
  /\ subject' = [subject EXCEPT ![r] = None]
  /\ entity' = [entity EXCEPT ![r] = None]
  /\ overtaken' = overtaken \ {r}

(* generateRefreshToken up to its save: a fresh value and an expiry are      *)
(* fixed, and the request goes on to insert them.                            *)
DrawToken(r, t, f, u) ==
  /\ t \in Tokens \ issued
  /\ issued' = issued \cup {t}
  /\ entity' = [entity EXCEPT ![r] = [token |-> t, family |-> f, user |-> u,
                                      expires |-> now + RefreshTtl]]
  /\ pc' = [pc EXCEPT ![r] = "insert"]
  /\ UNCHANGED subject

-----------------------------------------------------------------------------
Tick ==
  /\ now < MaxTime
  /\ now' = now + 1
  /\ UNCHANGED <<active, deleted, rows, issued, pc, subject, entity, historyVars>>

(* UsersService.updateStatus, update and remove: status and deletedAt may be *)
(* written either way (a save of an entity read before a removal writes the  *)
(* old null back).  No path touches the tokens of the user.                  *)
ChangeAccount(u) ==
  /\ active' \in {active \cup {u}, active \ {u}}
  /\ deleted' \in {deleted \cup {u}, deleted \ {u}}
  /\ accountVars' # accountVars
  /\ overtaken' = IF u \in active' \ deleted' THEN overtaken
                  ELSE overtaken \cup Committed(u)
  /\ UNCHANGED <<now, rows, issued, pc, subject, entity, misses, ended, escaped>>

(* POST /auth/login, validateUser: the account is found and active. *)
LoginFind(r, u) ==
  /\ pc[r] = "idle" /\ Usable(u)
  /\ pc' = [pc EXCEPT ![r] = "compare"]
  /\ subject' = [subject EXCEPT ![r] = u]
  /\ UNCHANGED <<now, accountVars, rows, issued, entity, historyVars>>

(* bcrypt.compare says no. *)
LoginMismatch(r) ==
  /\ pc[r] = "compare"
  /\ Release(r)
  /\ UNCHANGED <<now, accountVars, rows, issued, misses, ended, escaped>>

(* bcrypt.compare says yes: login draws the token of a new session.  The   *)
(* account is not looked at again.                                         *)
LoginCompare(r, t) ==
  /\ pc[r] = "compare"
  /\ DrawToken(r, t, t, subject[r])
  /\ UNCHANGED <<now, accountVars, rows, historyVars>>

(* The save of generateRefreshToken, after which login answers. *)
InsertToken(r) ==
  /\ pc[r] = "insert"
  /\ rows' = rows \cup {entity[r]}
  /\ Release(r)
  /\ UNCHANGED <<now, accountVars, issued, misses, ended, escaped>>

(* Faulty variant of RefreshFind: the status check is left to the login. *)
RefreshFindUnchecked(r, row) ==
  /\ pc[r] = "idle" /\ row \in rows
  /\ \/ /\ Expired(row)
        /\ pc' = [pc EXCEPT ![r] = "dropExpired"]
        /\ UNCHANGED subject
     \/ /\ ~Expired(row) /\ row.user \notin deleted
        /\ pc' = [pc EXCEPT ![r] = "revoke"]
        /\ subject' = [subject EXCEPT ![r] = row.user]
  /\ entity' = [entity EXCEPT ![r] = row]
  /\ UNCHANGED <<now, accountVars, rows, issued, historyVars>>

(* POST /auth/refresh: the token and its user are read and checked. *)
RefreshFind(r, row) ==
  /\ pc[r] = "idle" /\ row \in rows
  /\ \/ /\ Expired(row)
        /\ pc' = [pc EXCEPT ![r] = "dropExpired"]
        /\ UNCHANGED subject
     \/ /\ ~Expired(row) /\ Usable(row.user)
        /\ pc' = [pc EXCEPT ![r] = "revoke"]
        /\ subject' = [subject EXCEPT ![r] = row.user]
  /\ entity' = [entity EXCEPT ![r] = row]
  /\ UNCHANGED <<now, accountVars, rows, issued, historyVars>>

(* An expired token is removed and the refresh refused. *)
DropExpired(r) ==
  /\ pc[r] = "dropExpired"
  /\ rows' = rows \ {entity[r]}
  /\ Release(r)
  /\ UNCHANGED <<now, accountVars, issued, misses, ended, escaped>>

(* Faulty variant of Revoke: the old token stays until it expires. *)
RevokeForgotten(r) ==
  /\ pc[r] = "revoke"
  /\ pc' = [pc EXCEPT ![r] = "renew"]
  /\ UNCHANGED <<now, accountVars, rows, issued, subject, entity, historyVars>>

(* The old token is removed, if it is still there: remove does not say. *)
Revoke(r) ==
  /\ pc[r] = "revoke"
  /\ rows' = rows \ {entity[r]}
  /\ pc' = [pc EXCEPT ![r] = "renew"]
  /\ misses' = IF entity[r] \in rows THEN misses
                ELSE [misses EXCEPT ![entity[r].family] = @ + 1]
  /\ UNCHANGED <<now, accountVars, issued, subject, entity, ended, escaped, overtaken>>

(* Faulty variant of Renew: the row is saved again under its old value. *)
RenewSameValue(r, t) ==
  /\ pc[r] = "renew" /\ t = entity[r].token
  /\ entity' = [entity EXCEPT ![r].expires = now + RefreshTtl]
  /\ pc' = [pc EXCEPT ![r] = "insert"]
  /\ UNCHANGED <<now, accountVars, rows, issued, subject, historyVars>>

(* login draws the successor for the user read with the old token. *)
Renew(r, t) ==
  /\ pc[r] = "renew"
  /\ DrawToken(r, t, entity[r].family, subject[r])
  /\ UNCHANGED <<now, accountVars, rows, historyVars>>

(* Faulty variant of LogoutFind: a token that is not found goes to remove. *)
LogoutFindUnchecked(r, row) ==
  /\ pc[r] = "idle"
  /\ pc' = [pc EXCEPT ![r] = "logout"]
  /\ UNCHANGED <<now, accountVars, rows, issued, subject, entity, historyVars>>

(* POST /auth/logout: find, then remove. *)
LogoutFind(r, row) ==
  /\ pc[r] = "idle" /\ row \in rows
  /\ pc' = [pc EXCEPT ![r] = "logout"]
  /\ entity' = [entity EXCEPT ![r] = row]
  /\ UNCHANGED <<now, accountVars, rows, issued, subject, historyVars>>

LogoutRemove(r) ==
  /\ pc[r] = "logout"
  /\ rows' = rows \ {entity[r]}
  /\ Release(r)
  /\ UNCHANGED <<now, accountVars, issued, misses, ended, escaped>>

(* POST /auth/logout-all: JwtStrategy.validate loads the user (any status),  *)
(* then one statement deletes the user's rows.                               *)
LogoutAllAuth(r, u) ==
  /\ pc[r] = "idle" /\ u \notin deleted
  /\ pc' = [pc EXCEPT ![r] = "deleteAll"]
  /\ subject' = [subject EXCEPT ![r] = u]
  /\ UNCHANGED <<now, accountVars, rows, issued, entity, historyVars>>

(* Faulty variant of LogoutAllDelete: only the tokens still valid are deleted. *)
LogoutAllDeleteValid(r) ==
  LET u == subject[r]
      surviving == {entity[q].family : q \in Refreshing(u)}
  IN /\ pc[r] = "deleteAll"
     /\ rows' = {row \in rows : row.user # u \/ Expired(row)}
     /\ ended' = ended \cup surviving
                     \cup {row.family : row \in {held \in rows : held.user = u}}
     /\ escaped' = escaped \cup surviving
     /\ Release(r)
     /\ UNCHANGED <<now, accountVars, issued, misses>>

LogoutAllDelete(r) ==
  LET u == subject[r]
      surviving == {entity[q].family : q \in Refreshing(u)}
  IN /\ pc[r] = "deleteAll"
     /\ rows' = {row \in rows : row.user # u}
     /\ ended' = ended \cup surviving
                     \cup {row.family : row \in {held \in rows : held.user = u}}
     /\ escaped' = escaped \cup surviving
     /\ Release(r)
     /\ UNCHANGED <<now, accountVars, issued, misses>>

(* A statement fails, or the process dies: what the request had left to do is *)
(* never done, and no earlier statement is undone (there is no transaction).  *)
Fail(r) ==
  /\ pc[r] # "idle"
  /\ Release(r)
  /\ UNCHANGED <<now, accountVars, rows, issued, misses, ended, escaped>>

Login(r) ==
  \/ \E u \in Users : LoginFind(r, u)
  \/ LoginMismatch(r)
  \/ \E t \in Tokens : LoginCompare(r, t)
  \/ InsertToken(r)

Refresh(r) ==
  \/ \E row \in rows : RefreshFind(r, row)
  \/ DropExpired(r)
  \/ Revoke(r)
  \/ \E t \in Tokens : Renew(r, t)

Logout(r) ==
  \/ \E row \in rows : LogoutFind(r, row)
  \/ LogoutRemove(r)
  \/ \E u \in Users : LogoutAllAuth(r, u)
  \/ LogoutAllDelete(r)

Next ==
  \/ Tick
  \/ \E u \in Users : ChangeAccount(u)
  \/ \E r \in Requests : Login(r) \/ Refresh(r) \/ Logout(r) \/ Fail(r)

Spec == Init /\ [][Next]_vars

-----------------------------------------------------------------------------
(* The tokens of a session that can be presented. *)
TokensOf(f) == {row \in rows : row.family = f}

(* One session has at most one token that can be presented, and one more for *)
(* each refresh that removed nothing and answered with new tokens all the    *)
(* same (auth.service.ts:158-162): the one hole in the rotation is that      *)
(* remove does not tell a refresh that another request got there first, and  *)
(* each passage through it is worth one token, however the requests mix.     *)
TokensBoundedByMisses ==
  \A f \in Tokens : Cardinality(TokensOf(f)) <= 1 + misses[f]

(* What logout-all leaves behind (auth.service.ts:177-179): a session it was *)
(* to end has a stored token again only if a refresh of that session had     *)
(* read its row before the delete and inserted the successor after it.       *)
LogoutAllExplained ==
  \A row \in rows : row.family \in ended => row.family \in escaped

(* What auth.controller.ts:85-88 says of it, "Logout from all devices": no   *)
(* session that was open at the delete is open later.                        *)
LoggedOutFromAllDevices ==
  \A row \in rows : row.family \notin ended

(* A disabled or deleted user gains a session row only from a request that   *)
(* had passed its status check before the account was disabled, never from   *)
(* one that started later (auth.service.ts:54-56, 154-156).                  *)
GainIsUsableOrOvertaken ==
  \A row \in rows' \ rows :
    \/ Usable(row.user)
    \/ \E r \in overtaken : pc[r] = "insert" /\ entity[r] = row
DisabledGainOnlyOvertaken == [][GainIsUsableOrOvertaken]_vars

-----------------------------------------------------------------------------
(* The mapping to SessionLifecycle: a session is open while a row of it is    *)
(* stored or a request is about to store one.                                *)
Carriers == {r \in Requests : pc[r] \in {"revoke", "renew", "insert"}}
OpenFamilies == {row.family : row \in rows} \cup {entity[r].family : r \in Carriers}
PendingTokens == {entity[r].token : r \in {q \in Requests : pc[q] = "insert"}}
LiveTokens == {row.token : row \in rows}

tokenBar ==
  LET pending == PendingTokens
      live == LiveTokens
  IN [t \in Tokens |-> IF t \notin issued THEN "fresh"
                       ELSE IF t \in pending THEN "pending"
                       ELSE IF t \in live THEN "live" ELSE "dead"]
sessionBar ==
  LET open == OpenFamilies
  IN [f \in Tokens |-> IF f \notin issued THEN "unused"
                       ELSE IF f \in open THEN "open" ELSE "closed"]

Lifecycle == INSTANCE SessionLifecycle WITH token <- tokenBar, session <- sessionBar

(* Every behaviour of the service is one of SessionLifecycle: a value that   *)
(* was revoked, expired or lost is never stored again, and a session none of *)
(* whose tokens is stored or on its way never comes back.                    *)
LifecycleRefined == Lifecycle!LifecycleSpec

=============================================================================
