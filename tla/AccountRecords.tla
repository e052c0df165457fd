--------------------------- MODULE AccountRecords ---------------------------
(***************************************************************************)
(* UsersService (src/src/modules/users/users.service.ts) over the table    *)
(* users.  create and update look for the address first and rely on the    *)
(* unique index when two requests race; update and updateStatus keep the   *)
(* whole entity they have read, and the save that follows loads the row    *)
(* again (removed or not) and writes every column in which the two differ. *)
(* remove sets deletedAt, which hides the row from every find but not from *)
(* the index.                                                              *)
(*                                                                         *)
(* Requests the service refuses (404, 409) and reads change nothing and    *)
(* are not steps.  Of a row the address, the status and deletedAt matter;  *)
(* the other columns take the way of the status.                           *)
(***************************************************************************)
CONSTANTS
  Users,    \* ids, generated by the database
  Emails, Statuses,
  Requests, \* requests being served at the same time
  None

Row == [email : Emails, status : Statuses, deleted : BOOLEAN]
Patch == [email : {None} \cup Emails, status : {None} \cup Statuses]
NoPatch == [email |-> None, status |-> None]

ASSUME NoneAssumption ==
  None \notin Emails \cup Statuses \cup Users /\ None \notin Row

VARIABLES
  users,  \* the table: per id its row, or None
  pc,     \* where each request is
  target, \* the user it works on
  patch,  \* the UpdateUserDto of an update
  entity, \* the User entity it is about to save
  seen,   \* the row its save has loaded
  stale,  \* history: requests whose user was written after they had read it
  raced   \* history: requests whose address another row has got since they
          \* looked for it

history == <<stale, raced>>
vars == <<users, pc, target, patch, entity, seen, history>>

Places == {"idle", "insert", "checkEmail", "saveLoad", "saveWrite", "remove"}
Saving == {"checkEmail", "saveLoad", "saveWrite"}

(* The types, and what each place has at hand: the entity and the row that    *)
(* its save compares, and a row that is there to be written.                  *)
TypeOK ==
  /\ users \in [Users -> {None} \cup Row]
  /\ pc \in [Requests -> Places]
  /\ target \in [Requests -> {None} \cup Users]
  /\ patch \in [Requests -> Patch]
  /\ entity \in [Requests -> {None} \cup Row]
  /\ seen \in [Requests -> {None} \cup Row]
  /\ stale \subseteq Requests /\ raced \subseteq Requests
  /\ \A r \in Requests :
       /\ pc[r] # "idle" => target[r] \in Users
       /\ pc[r] \in Saving \cup {"insert"} => entity[r] \in Row
       /\ pc[r] \in Saving \cup {"remove"} => users[target[r]] # None
       /\ pc[r] = "saveWrite" => seen[r] \in Row

-----------------------------------------------------------------------------
Init ==
  /\ users = [u \in Users |-> None]
  /\ pc = [r \in Requests |-> "idle"]
  /\ target = [r \in Requests |-> None]
  /\ patch = [r \in Requests |-> NoPatch]
  /\ entity = [r \in Requests |-> None]
  /\ seen = [r \in Requests |-> None]
  /\ stale = {} /\ raced = {}

Rows == {u \in Users : users[u] # None}

(* What a find sees: rows without deletedAt. *)
Visible == {u \in Rows : ~users[u].deleted}
EmailFound(e) == \E u \in Visible : users[u].email = e

(* What the unique index sees. *)
EmailHeld(e, u) == \E v \in Rows \ {u} : users[v].email = e

Release(r) ==
  /\ pc' = [pc EXCEPT ![r] = "idle"]
  /\ target' = [target EXCEPT ![r] = None]
  /\ patch' = [patch EXCEPT ![r] = NoPatch]
  /\ entity' = [entity EXCEPT ![r] = None]
  /\ seen' = [seen EXCEPT ![r] = None]

Forget(r) == stale' = stale \ {r} /\ raced' = raced \ {r}

(* The requests about to write the address that user u gets with this row. *)
Rivals(u, row) ==
  {q \in Requests : /\ entity[q] # None /\ target[q] # u
                    /\ row # users[u] /\ ~row.deleted /\ entity[q].email = row.email}

(* Request r writes the row of its user and is answered. *)
Write(r, row) ==
  LET u == target[r]
  IN /\ users' = [users EXCEPT ![u] = row]
     /\ stale' = (IF row = users[u] THEN stale
                  ELSE stale \cup {q \in Requests : target[q] = u}) \ {r}
     /\ raced' = (raced \cup Rivals(u, row)) \ {r}
     /\ Release(r)

-----------------------------------------------------------------------------
(* create: the address is looked for, and the new row gets an id of its own. *)
CreateFind(r, u, e, s) ==
  /\ pc[r] = "idle"
  /\ users[u] = None /\ \A q \in Requests : target[q] # u
  /\ ~EmailFound(e)
  /\ pc' = [pc EXCEPT ![r] = "insert"]
  /\ target' = [target EXCEPT ![r] = u]
  /\ entity' = [entity EXCEPT ![r] = [email |-> e, status |-> s, deleted |-> FALSE]]
  /\ UNCHANGED <<users, patch, seen, history>>

CreateInsert(r) ==
  /\ pc[r] = "insert"
  /\ ~EmailHeld(entity[r].email, target[r])
  /\ Write(r, entity[r])

(* Faulty variant of Merged: a status the DTO leaves out gets a default. *)
MergedDefault(row, dto) ==
  [email |-> IF dto.email = None THEN row.email ELSE dto.email,
   status |-> IF dto.status = None THEN CHOOSE s \in Statuses : TRUE ELSE dto.status,
   deleted |-> row.deleted]

(* repository.merge(user, updateUserDto); user.status = status. *)
Merged(row, dto) ==
  [email |-> IF dto.email = None THEN row.email ELSE dto.email,
   status |-> IF dto.status = None THEN row.status ELSE dto.status,
   deleted |-> row.deleted]

(* Faulty variant of UpdateFind: the entity is built from the id and the DTO *)
(* without looking whether the user has been removed.                        *)
UpdateFindAny(r, u, dto) ==
  /\ pc[r] = "idle" /\ u \in Rows
  /\ pc' = [pc EXCEPT ![r] = IF dto.email \in {None, users[u].email}
                             THEN "saveLoad" ELSE "checkEmail"]
  /\ target' = [target EXCEPT ![r] = u]
  /\ patch' = [patch EXCEPT ![r] = dto]
  /\ entity' = [entity EXCEPT ![r] = Merged([users[u] EXCEPT !.deleted = FALSE], dto)]
  /\ UNCHANGED <<users, seen, history>>

(* Faulty variant of UpdateFind: nobody looks for the new address. *)
UpdateFindUnchecked(r, u, dto) ==
  /\ pc[r] = "idle" /\ u \in Visible
  /\ pc' = [pc EXCEPT ![r] = "saveLoad"]
  /\ target' = [target EXCEPT ![r] = u]
  /\ patch' = [patch EXCEPT ![r] = dto]
  /\ entity' = [entity EXCEPT ![r] = Merged(users[u], dto)]
  /\ UNCHANGED <<users, seen, history>>

(* update, and updateStatus with a DTO of the status alone: findOne. *)
UpdateFind(r, u, dto) ==
  /\ pc[r] = "idle" /\ u \in Visible
  /\ pc' = [pc EXCEPT ![r] = IF dto.email \in {None, users[u].email}
                             THEN "saveLoad" ELSE "checkEmail"]
  /\ target' = [target EXCEPT ![r] = u]
  /\ patch' = [patch EXCEPT ![r] = dto]
  /\ entity' = [entity EXCEPT ![r] = Merged(users[u], dto)]
  /\ UNCHANGED <<users, seen, history>>

(* The new address is looked for; 409 when it is found. *)
UpdateCheckEmail(r) ==
  /\ pc[r] = "checkEmail"
  /\ IF EmailFound(patch[r].email)
     THEN Release(r) /\ Forget(r)
     ELSE /\ pc' = [pc EXCEPT ![r] = "saveLoad"]
          /\ raced' = raced \ {r}
          /\ UNCHANGED <<target, patch, entity, seen, stale>>
  /\ UNCHANGED users

(* Faulty variant of SaveLoad: save writes without loading the row. *)
SaveLoadSkipped(r) ==
  /\ pc[r] = "saveLoad"
  /\ pc' = [pc EXCEPT ![r] = "saveWrite"]
  /\ UNCHANGED <<users, target, patch, entity, seen, history>>

SaveLoad(r) ==
  /\ pc[r] = "saveLoad"
  /\ pc' = [pc EXCEPT ![r] = "saveWrite"]
  /\ seen' = [seen EXCEPT ![r] = users[target[r]]]
  /\ UNCHANGED <<users, target, patch, entity, history>>

(* The UPDATE sets the columns in which the entity differs from the row that *)
(* was loaded, whatever the row is by now.                                   *)
Updated(r) ==
  [k \in {"email", "status", "deleted"} |->
     IF entity[r][k] # seen[r][k] THEN entity[r][k] ELSE users[target[r]][k]]

SaveWrite(r) ==
  /\ pc[r] = "saveWrite"
  /\ ~EmailHeld(Updated(r).email, target[r])
  /\ Write(r, Updated(r))

(* The index refuses the write and the request is answered with 500. *)
IndexRefuses(r) ==
  /\ \/ pc[r] = "insert" /\ EmailHeld(entity[r].email, target[r])
     \/ pc[r] = "saveWrite" /\ EmailHeld(Updated(r).email, target[r])
  /\ Release(r) /\ Forget(r)
  /\ UNCHANGED users

(* remove: findOne, then softRemove. *)
RemoveFind(r, u) ==
  /\ pc[r] = "idle" /\ u \in Visible
  /\ pc' = [pc EXCEPT ![r] = "remove"]
  /\ target' = [target EXCEPT ![r] = u]
  /\ UNCHANGED <<users, patch, entity, seen, history>>

RemoveWrite(r) ==
  /\ pc[r] = "remove"
  /\ Write(r, [users[target[r]] EXCEPT !.deleted = TRUE])

(* A statement fails, or the process dies. *)
Fail(r) ==
  /\ pc[r] # "idle"
  /\ Release(r) /\ Forget(r)
  /\ UNCHANGED users

Create(r) ==
  \/ \E u \in Users, e \in Emails, s \in Statuses : CreateFind(r, u, e, s)
  \/ CreateInsert(r)

Update(r) ==
  \/ \E u \in Users, dto \in Patch : UpdateFind(r, u, dto)
  \/ UpdateCheckEmail(r) \/ SaveLoad(r) \/ SaveWrite(r)

Remove(r) == RemoveWrite(r) \/ \E u \in Users : RemoveFind(r, u)

Next ==
  \E r \in Requests : Create(r) \/ Update(r) \/ Remove(r) \/ IndexRefuses(r) \/ Fail(r)

Spec == Init /\ [][Next]_vars

-----------------------------------------------------------------------------
(* The looks of create and update for an address (users.service.ts:17-24,     *)
(* 57-64) leave two ways to a refusal by the index: a removed user holds it,  *)
(* or somebody got it after the look.  Any other taken address is found.      *)
RefusalExplainedStep ==
  \A r \in Requests : IndexRefuses(r) =>
    \/ r \in raced
    \/ \E v \in Rows \ {target[r]} : users[v].deleted /\ users[v].email = entity[r].email
RefusalExplained == [][RefusalExplainedStep]_vars

(* A removed user comes back only by the save of a request that had read the *)
(* row before the removal (users.service.ts:67): there is no other way back. *)
ReturnOnlyByStaleSaveStep ==
  \A u \in Rows : users[u].deleted /\ ~users'[u].deleted =>
    \E r \in stale : pc[r] = "saveWrite" /\ target[r] = u
ReturnOnlyByStaleSave == [][ReturnOnlyByStaleSaveStep]_vars

(* A status or an address changes only to what a request was asked to set,   *)
(* or back to what a request had read before somebody else changed it: a     *)
(* profile update can undo a ban, but only one under way when the ban came.  *)
ChangeAskedOrStaleStep ==
  \A u \in Rows : \A k \in {"email", "status"} : users'[u][k] # users[u][k] =>
    \E r \in Requests : /\ pc[r] = "saveWrite" /\ target[r] = u
                        /\ patch[r][k] = users'[u][k] \/ r \in stale
ChangeAskedOrStale == [][ChangeAskedOrStaleStep]_vars

(* admin-users.controller.ts:34, "Email already in use" with status 409: a   *)
(* creation or update for an address in use never gets to the index, whose   *)
(* refusal is answered with 500.                                             *)
TakenEmailIsConflict == [][~\E r \in Requests : IndexRefuses(r)]_vars

=============================================================================
