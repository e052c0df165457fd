--------------------------- MODULE AccountSessions ---------------------------
(***************************************************************************)
(* UsersService and AuthService over one database: the accounts of         *)
(* AccountRecords are those whose status and deletedAt the logins and      *)
(* refreshes of RefreshSessions check.  The two services share nothing     *)
(* else, and neither waits for the other: whoever bans or removes an       *)
(* account leaves its tokens alone, and what ends its access is that the   *)
(* checks fail from then on.                                               *)
(***************************************************************************)
EXTENDS Naturals

CONSTANTS
  Users, Emails, Statuses,
  Active,          \* UserStatus.ACTIVE
  AccountRequests, \* requests to UsersService being served at the same time
  Requests,        \* requests to AuthService being served at the same time
  Tokens, RefreshTtl, MaxTime, None

ASSUME ActiveAssumption == Active \in Statuses

VARIABLES
  users, apc, target, patch, aentity, seen, stale, raced, \* of AccountRecords
  now, rows, issued, pc, subject, entity,                 \* of RefreshSessions
  misses, ended, escaped, overtaken,
  barred,  \* history: users last asked to be banned, made inactive or removed
  undone   \* history: of these, those a stale save has written since

accountVars == <<users, apc, target, patch, aentity, seen, stale, raced>>
sessionVars == <<now, rows, issued, pc, subject, entity, misses, ended, escaped>>
vars == <<accountVars, sessionVars, overtaken, barred, undone>>

(* What the queries of AuthService see of the table users: the status, and    *)
(* whether a find returns the row at all.                                     *)
active == {u \in Users : users[u] # None /\ users[u].status = Active}
deleted == {u \in Users : users[u] = None \/ users[u].deleted}

Accounts == INSTANCE AccountRecords
              WITH Requests <- AccountRequests, pc <- apc, entity <- aentity
Sessions == INSTANCE RefreshSessions

ASSUME NoneAssumption ==
  None \notin Emails \cup Statuses \cup Users /\ None \notin Accounts!Row
ASSUME ClockAssumption == RefreshTtl \in Nat /\ MaxTime \in Nat

Init ==
  /\ Accounts!Init /\ Sessions!Init
  /\ barred = {} /\ undone = {}

-----------------------------------------------------------------------------
(* Requests past the checks of a user who may no longer sign in. *)
Overtakes ==
  overtaken' = overtaken \cup
    UNION {Sessions!Committed(u) : u \in {v \in Users :
             /\ v \notin active' \ deleted'
             /\ (v \in active) # (v \in active') \/ (v \in deleted) # (v \in deleted')}}

(* What is asked of the account of u: s is the status of the DTO, if any.     *)
(* A save counts as an answer to it unless its entity is out of date.         *)
Asked(r, u, s) ==
  /\ barred' = CASE s \in Statuses \ {Active} -> barred \cup {u}
                 [] s = Active /\ r \notin stale -> barred \ {u}
                 [] OTHER -> barred
  /\ undone' = CASE r \in stale -> undone \cup {u}
                 [] r \notin stale /\ s \in Statuses -> undone \ {u}
                 [] OTHER -> undone

(* UsersService.updateStatus and update end in save. *)
SaveAccount(r) ==
  /\ Accounts!SaveWrite(r)
  /\ Asked(r, target[r], patch[r].status)
  /\ Overtakes
  /\ UNCHANGED sessionVars

(* Faulty variant of RemoveAccount: the tokens go with the account. *)
RemoveAccountCascading(r) ==
  /\ Accounts!RemoveWrite(r)
  /\ barred' = barred \cup {target[r]} /\ undone' = undone \ {target[r]}
  /\ Overtakes
  /\ rows' = {row \in rows : row.user # target[r]}
  /\ UNCHANGED <<now, issued, pc, subject, entity, misses, ended, escaped>>

(* UsersService.remove ends in softRemove. *)
RemoveAccount(r) ==
  /\ Accounts!RemoveWrite(r)
  /\ barred' = barred \cup {target[r]} /\ undone' = undone \ {target[r]}
  /\ Overtakes
  /\ UNCHANGED sessionVars

(* The other steps of UsersService. *)
ServeAccount(r) ==
  /\ \/ Accounts!Create(r) \/ Accounts!IndexRefuses(r) \/ Accounts!Fail(r)
     \/ \E u \in Users : Accounts!RemoveFind(r, u)
     \/ \E u \in Users, dto \in Accounts!Patch : Accounts!UpdateFind(r, u, dto)
     \/ Accounts!UpdateCheckEmail(r) \/ Accounts!SaveLoad(r)
  /\ Overtakes
  /\ UNCHANGED <<sessionVars, barred, undone>>

(* The steps of AuthService, which write no account. *)
ServeSession(r) ==
  /\ UNCHANGED <<accountVars, barred, undone>>
  /\ Sessions!Login(r) \/ Sessions!Refresh(r) \/ Sessions!Logout(r) \/ Sessions!Fail(r)

Elapse ==
  /\ UNCHANGED <<accountVars, barred, undone>>
  /\ Sessions!Tick

Next ==
  \/ \E r \in AccountRequests : SaveAccount(r) \/ RemoveAccount(r) \/ ServeAccount(r)
  \/ \E r \in Requests : ServeSession(r)
  \/ Elapse

Spec == Init /\ [][Next]_vars

-----------------------------------------------------------------------------
(* The histories are sets of users. *)
TypeOK ==
  /\ Accounts!TypeOK /\ Sessions!TypeOK
  /\ barred \subseteq Users /\ undone \subseteq Users

(* The real users table does to the sessions nothing but what                 *)
(* RefreshSessions lets an arbitrary one do, so that all it says of sessions  *)
(* holds of the two services together.                                        *)
SessionsRefined == Sessions!Spec

(* A user who is asked to be banned or removed gets a token row later only    *)
(* from a login or refresh that was past its check when the account was       *)
(* written, or because a save with an entity read before has written the      *)
(* account again (users.service.ts:66-79 against auth.service.ts:54-56,       *)
(* 154-156).                                                                  *)
BarredGainIsExplained ==
  \A row \in rows' \ rows : row.user \in barred =>
    \/ row.user \in undone
    \/ \E r \in overtaken : pc[r] = "insert" /\ entity[r] = row
RevokedAccessExplained == [][BarredGainIsExplained]_vars
=============================================================================
