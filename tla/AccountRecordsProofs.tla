------------------------ MODULE AccountRecordsProofs ------------------------
(***************************************************************************)
(* Theorems about AccountRecords, for any sets of users, addresses,        *)
(* statuses and requests.  Two invariants carry the action properties: an  *)
(* entity is out of date only if its request is in stale, and until then   *)
(* it is the row of its user with the DTO merged into it; and an address   *)
(* that was looked for is still free of visible rows unless the request is *)
(* in raced.                                                               *)
(***************************************************************************)
EXTENDS AccountRecords, TLAPS

(* The entity of a request nobody has overtaken is the row with its DTO. *)
EntityCurrent ==
  \A r \in Requests \ stale : pc[r] \in Saving =>
    /\ ~users[target[r]].deleted
    /\ entity[r] = Merged(users[target[r]], patch[r])
    /\ pc[r] = "saveWrite" => seen[r] = users[target[r]]

AccountInv == TypeOK /\ EntityCurrent

(* Every step is one of these. *)
LEMMA NextCases ==
  ASSUME Next
  PROVE  \E r \in Requests :
           \/ \E u \in Users, e \in Emails, s \in Statuses : CreateFind(r, u, e, s)
           \/ CreateInsert(r)
           \/ \E u \in Users, dto \in Patch : UpdateFind(r, u, dto)
           \/ UpdateCheckEmail(r)
           \/ SaveLoad(r)
           \/ SaveWrite(r)
           \/ RemoveWrite(r)
           \/ \E u \in Users : RemoveFind(r, u)
           \/ IndexRefuses(r)
           \/ Fail(r)
BY DEF Next, Create, Update, Remove

(* Merging a DTO into a row gives a row. *)
LEMMA MergedTyped ==
  ASSUME NEW row \in Row, NEW dto \in Patch
  PROVE  Merged(row, dto) \in Row
BY NoneAssumption DEF Row, Patch, Merged

(* What an UPDATE leaves is a row. *)
LEMMA UpdatedTyped ==
  ASSUME TypeOK, NEW r \in Requests, pc[r] = "saveWrite"
  PROVE  Updated(r) \in Row
<1>1. /\ entity[r] \in Row /\ seen[r] \in Row
      /\ target[r] \in Users /\ users[target[r]] \in Row
  BY DEF TypeOK, Saving
<1>2. QED
  BY <1>1 DEF Updated, Row

(* Writing a row and releasing the request keeps the types. *)
LEMMA WriteTyped ==
  ASSUME TypeOK, NEW r \in Requests, pc[r] # "idle", NEW row \in Row, Write(r, row)
  PROVE  TypeOK'
<1>1. target[r] \in Users
  BY DEF TypeOK
<1>2. /\ users' \in [Users -> {None} \cup Row]
      /\ \A u \in Users : users[u] # None => users'[u] # None
  BY <1>1, NoneAssumption DEF TypeOK, Write
<1>3. /\ NoPatch \in Patch
      /\ stale' \subseteq Requests /\ raced' \subseteq Requests
  BY DEF TypeOK, Write, Rivals, NoPatch, Patch
<1>4. QED
  BY <1>1, <1>2, <1>3 DEF TypeOK, Write, Release, Places, Saving

(* Releasing a request without a write keeps the invariant. *)
LEMMA ReleaseKeeps ==
  ASSUME AccountInv, NEW r \in Requests, Release(r), Forget(r), UNCHANGED users
  PROVE  AccountInv'
<1>1. NoPatch \in Patch
  BY DEF NoPatch, Patch
<1>2. TypeOK'
  BY <1>1 DEF AccountInv, TypeOK, Release, Forget, Places, Saving
<1>3. EntityCurrent'
  <2> SUFFICES ASSUME NEW q \in Requests \ stale', pc'[q] \in Saving
               PROVE  /\ ~users'[target'[q]].deleted
                      /\ entity'[q] = Merged(users'[target'[q]], patch'[q])
                      /\ pc'[q] = "saveWrite" => seen'[q] = users'[target'[q]]
    BY DEF EntityCurrent, Merged
  <2>1. q # r /\ q \notin stale
    BY DEF AccountInv, TypeOK, Release, Forget, Saving
  <2>2. QED
    BY <2>1 DEF AccountInv, TypeOK, EntityCurrent, Release
<1>4. QED
  BY <1>2, <1>3 DEF AccountInv

(* Requests a write leaves out of stale work on other rows, or on a row the *)
(* write did not change.                                                    *)
LEMMA WriteKeepsCurrent ==
  ASSUME AccountInv, NEW r \in Requests, pc[r] # "idle", NEW row \in Row,
         Write(r, row)
  PROVE  EntityCurrent'
<1> SUFFICES ASSUME NEW q \in Requests \ stale', pc'[q] \in Saving
             PROVE  /\ ~users'[target'[q]].deleted
                    /\ entity'[q] = Merged(users'[target'[q]], patch'[q])
                    /\ pc'[q] = "saveWrite" => seen'[q] = users'[target'[q]]
  BY DEF EntityCurrent, Merged
<1>1. /\ q # r
      /\ pc'[q] = pc[q] /\ target'[q] = target[q] /\ patch'[q] = patch[q]
      /\ entity'[q] = entity[q] /\ seen'[q] = seen[q]
  BY DEF AccountInv, TypeOK, Write, Release, Saving
<1>2. q \notin stale
  BY <1>1 DEF Write
<1>3. users'[target[q]] = users[target[q]]
  <2>1. CASE row = users[target[r]]
    BY <2>1, <1>1 DEF AccountInv, TypeOK, Write
  <2>2. CASE row # users[target[r]]
    <3>1. target[q] # target[r]
      BY <2>2, <1>1 DEF Write
    <3>2. QED
      BY <3>1, <1>1 DEF AccountInv, TypeOK, Write, Saving
  <2>3. QED
    BY <2>1, <2>2
<1>4. QED
  BY <1>1, <1>2, <1>3 DEF AccountInv, EntityCurrent

LEMMA AccountStep ==
  ASSUME AccountInv, [Next]_vars
  PROVE  AccountInv'
<1>1. CASE UNCHANGED vars
  BY <1>1 DEF AccountInv, TypeOK, EntityCurrent, vars, history, Merged
<1>2. CASE Next
  <2> PICK r \in Requests :
           \/ \E u \in Users, e \in Emails, s \in Statuses : CreateFind(r, u, e, s)
           \/ CreateInsert(r)
           \/ \E u \in Users, dto \in Patch : UpdateFind(r, u, dto)
           \/ UpdateCheckEmail(r)
           \/ SaveLoad(r)
           \/ SaveWrite(r)
           \/ RemoveWrite(r)
           \/ \E u \in Users : RemoveFind(r, u)
           \/ IndexRefuses(r)
           \/ Fail(r)
    BY <1>2, NextCases
  <2>1. ASSUME NEW u \in Users, NEW e \in Emails, NEW s \in Statuses,
               CreateFind(r, u, e, s)
        PROVE  AccountInv'
    <3>1. [email |-> e, status |-> s, deleted |-> FALSE] \in Row
      BY DEF Row
    <3>2. TypeOK'
      BY <2>1, <3>1 DEF AccountInv, TypeOK, CreateFind, history, Places, Saving
    <3>3. EntityCurrent'
      BY <2>1 DEF AccountInv, TypeOK, EntityCurrent, CreateFind, history, Saving, Merged
    <3>4. QED
      BY <3>2, <3>3 DEF AccountInv
  <2>2. CASE CreateInsert(r)
    <3>1. entity[r] \in Row /\ pc[r] # "idle" /\ Write(r, entity[r])
      BY <2>2 DEF AccountInv, TypeOK, CreateInsert
    <3>2. QED
      BY <3>1, WriteTyped, WriteKeepsCurrent DEF AccountInv
  <2>3. ASSUME NEW u \in Users, NEW dto \in Patch, UpdateFind(r, u, dto)
        PROVE  AccountInv'
    <3>1. users[u] \in Row /\ ~users[u].deleted /\ users[u] # None
      BY <2>3 DEF AccountInv, TypeOK, UpdateFind, Visible, Rows
    <3>2. Merged(users[u], dto) \in Row
      BY <3>1, MergedTyped
    <3>3. TypeOK'
      BY <2>3, <3>1, <3>2 DEF AccountInv, TypeOK, UpdateFind, history, Places, Saving
    <3>4. EntityCurrent'
      <4> SUFFICES ASSUME NEW q \in Requests \ stale', pc'[q] \in Saving
                   PROVE  /\ ~users'[target'[q]].deleted
                          /\ entity'[q] = Merged(users'[target'[q]], patch'[q])
                          /\ pc'[q] = "saveWrite" => seen'[q] = users'[target'[q]]
        BY DEF EntityCurrent, Merged
      <4>1. CASE q = r
        BY <4>1, <2>3, <3>1 DEF AccountInv, TypeOK, UpdateFind, history, Saving, Merged
      <4>2. CASE q # r
        BY <4>2, <2>3 DEF AccountInv, TypeOK, EntityCurrent, UpdateFind, history, Merged
      <4>3. QED
        BY <4>1, <4>2
    <3>5. QED
      BY <3>3, <3>4 DEF AccountInv
  <2>4. CASE UpdateCheckEmail(r)
    <3>1. CASE EmailFound(patch[r].email)
      BY <2>4, <3>1, ReleaseKeeps DEF UpdateCheckEmail
    <3>2. CASE ~EmailFound(patch[r].email)
      BY <2>4, <3>2 DEF AccountInv, TypeOK, EntityCurrent, UpdateCheckEmail,
                        Places, Saving, Merged
    <3>3. QED
      BY <3>1, <3>2
  <2>5. CASE SaveLoad(r)
    <3>1. users[target[r]] \in Row
      BY <2>5 DEF AccountInv, TypeOK, SaveLoad, history, Saving
    <3>2. TypeOK'
      BY <2>5, <3>1 DEF AccountInv, TypeOK, SaveLoad, history, Places, Saving
    <3>3. EntityCurrent'
      BY <2>5 DEF AccountInv, TypeOK, EntityCurrent, SaveLoad, history, Saving, Merged
    <3>4. QED
      BY <3>2, <3>3 DEF AccountInv
  <2>6. CASE SaveWrite(r)
    <3>1. Updated(r) \in Row /\ pc[r] # "idle" /\ Write(r, Updated(r))
      BY <2>6, UpdatedTyped DEF AccountInv, SaveWrite
    <3>2. QED
      BY <3>1, WriteTyped, WriteKeepsCurrent DEF AccountInv
  <2>7. CASE RemoveWrite(r)
    <3>1. users[target[r]] \in Row
      BY <2>7 DEF AccountInv, TypeOK, RemoveWrite, Saving
    <3>2. /\ [users[target[r]] EXCEPT !.deleted = TRUE] \in Row
          /\ pc[r] # "idle"
      BY <2>7, <3>1 DEF Row, RemoveWrite
    <3>3. Write(r, [users[target[r]] EXCEPT !.deleted = TRUE])
      BY <2>7 DEF RemoveWrite
    <3>4. QED
      BY <3>2, <3>3, WriteTyped, WriteKeepsCurrent DEF AccountInv
  <2>8. ASSUME NEW u \in Users, RemoveFind(r, u)
        PROVE  AccountInv'
    <3>1. TypeOK'
      BY <2>8 DEF AccountInv, TypeOK, RemoveFind, history, Visible, Rows, Places, Saving
    <3>2. EntityCurrent'
      BY <2>8 DEF AccountInv, TypeOK, EntityCurrent, RemoveFind, history, Saving, Merged
    <3>3. QED
      BY <3>1, <3>2 DEF AccountInv
  <2>9. CASE IndexRefuses(r)
    BY <2>9, ReleaseKeeps DEF IndexRefuses
  <2>10. CASE Fail(r)
    BY <2>10, ReleaseKeeps DEF Fail
  <2>11. QED
    BY <2>1, <2>2, <2>3, <2>4, <2>5, <2>6, <2>7, <2>8, <2>9, <2>10
<1>3. QED
  BY <1>1, <1>2

(* The types, and with them the fact the other theorems rest on: an entity  *)
(* is out of date only in a request that stale records.                     *)
THEOREM AccountInvariant == Spec => []AccountInv
<1>1. Init => AccountInv
  <2>1. NoPatch \in Patch
    BY DEF NoPatch, Patch
  <2>2. QED
    BY <2>1 DEF Init, AccountInv, TypeOK, EntityCurrent, Places, Saving
<1>2. AccountInv /\ [Next]_vars => AccountInv'
  BY AccountStep
<1>3. QED
  BY <1>1, <1>2, PTL DEF Spec

(* Every variable keeps its type. *)
THEOREM TypeCorrect == Spec => []TypeOK
<1>1. AccountInv => TypeOK
  BY DEF AccountInv
<1>2. QED
  BY <1>1, AccountInvariant, PTL

-----------------------------------------------------------------------------
(* Only three actions write the table, and each writes one row of it. *)
LEMMA WhatIsWritten ==
  ASSUME AccountInv, [Next]_vars, users' # users
  PROVE  \E r \in Requests :
           /\ target[r] \in Users
           /\ \/ pc[r] = "insert" /\ CreateInsert(r)
              \/ pc[r] = "saveWrite" /\ SaveWrite(r)
              \/ pc[r] = "remove" /\ RemoveWrite(r)
<1> PICK r \in Requests :
         \/ \E u \in Users, e \in Emails, s \in Statuses : CreateFind(r, u, e, s)
         \/ CreateInsert(r)
         \/ \E u \in Users, dto \in Patch : UpdateFind(r, u, dto)
         \/ UpdateCheckEmail(r)
         \/ SaveLoad(r)
         \/ SaveWrite(r)
         \/ RemoveWrite(r)
         \/ \E u \in Users : RemoveFind(r, u)
         \/ IndexRefuses(r)
         \/ Fail(r)
  BY NextCases DEF vars
<1>1. CreateInsert(r) \/ SaveWrite(r) \/ RemoveWrite(r)
  BY DEF CreateFind, UpdateFind, UpdateCheckEmail, SaveLoad, RemoveFind,
         IndexRefuses, Fail
<1>2. QED
  BY <1>1 DEF AccountInv, TypeOK, CreateInsert, SaveWrite, RemoveWrite

(* What the unique index keeps: no two rows hold one address. *)
EmailsUnique ==
  \A u, v \in Rows : users[u].email = users[v].email => u = v

(* Writing a row whose address nobody else holds keeps addresses unique. *)
LEMMA WriteKeepsUnique ==
  ASSUME AccountInv, EmailsUnique, NEW r \in Requests, target[r] \in Users,
         NEW row \in Row, Write(r, row), ~EmailHeld(row.email, target[r])
  PROVE  EmailsUnique'
<1>1. \A u \in Users : users'[u] = IF u = target[r] THEN row ELSE users[u]
  BY DEF AccountInv, TypeOK, Write
<1>2. QED
  BY <1>1 DEF EmailsUnique, EmailHeld, Rows

LEMMA UniqueStep ==
  ASSUME AccountInv, EmailsUnique, [Next]_vars
  PROVE  EmailsUnique'
<1>1. CASE users' = users
  BY <1>1 DEF EmailsUnique, Rows
<1>2. CASE users' # users
  <2> PICK r \in Requests :
           /\ target[r] \in Users
           /\ \/ pc[r] = "insert" /\ CreateInsert(r)
              \/ pc[r] = "saveWrite" /\ SaveWrite(r)
              \/ pc[r] = "remove" /\ RemoveWrite(r)
    BY <1>2, WhatIsWritten
  <2>1. CASE pc[r] = "insert" /\ CreateInsert(r)
    <3>1. entity[r] \in Row
      BY <2>1 DEF AccountInv, TypeOK
    <3>2. QED
      BY <2>1, <3>1, WriteKeepsUnique DEF CreateInsert
  <2>2. CASE pc[r] = "saveWrite" /\ SaveWrite(r)
    <3>1. Updated(r) \in Row
      BY <2>2, UpdatedTyped DEF AccountInv
    <3>2. QED
      BY <2>2, <3>1, WriteKeepsUnique DEF SaveWrite
  <2>3. CASE pc[r] = "remove" /\ RemoveWrite(r)
    <3> DEFINE row == [users[target[r]] EXCEPT !.deleted = TRUE]
    <3>1. users[target[r]] \in Row /\ target[r] \in Rows
      BY <2>3, NoneAssumption DEF AccountInv, TypeOK, Saving, Rows
    <3>2. row \in Row /\ row.email = users[target[r]].email
      BY <3>1 DEF Row
    <3>3. ~EmailHeld(row.email, target[r])
      BY <3>1, <3>2 DEF EmailsUnique, EmailHeld
    <3>4. Write(r, row)
      BY <2>3 DEF RemoveWrite
    <3> HIDE DEF row
    <3>5. QED
      BY <3>2, <3>3, <3>4, WriteKeepsUnique
  <2>4. QED
    BY <2>1, <2>2, <2>3
<1>3. QED
  BY <1>1, <1>2

-----------------------------------------------------------------------------
(* A request that has looked for its address and has not been raced finds no *)
(* live row but its own in its way.                                          *)
AddressLooked ==
  \A q \in Requests :
    /\ pc[q] = "checkEmail" => entity[q].email = patch[q].email
    /\ pc[q] \in {"insert", "saveLoad", "saveWrite"} /\ q \notin raced =>
         \A v \in Visible \ {target[q]} : users[v].email # entity[q].email

(* A write that gives a live row an address races those about to write it. *)
LEMMA WriteKeepsLooked ==
  ASSUME AccountInv, AddressLooked, NEW r \in Requests, pc[r] # "idle",
         NEW row \in Row, Write(r, row)
  PROVE  AddressLooked'
<1> SUFFICES ASSUME NEW q \in Requests
             PROVE  /\ pc'[q] = "checkEmail" => entity'[q].email = patch'[q].email
                    /\ pc'[q] \in {"insert", "saveLoad", "saveWrite"} /\ q \notin raced' =>
                         \A v \in Visible' \ {target'[q]} :
                           users'[v].email # entity'[q].email
  BY DEF AddressLooked
<1>1. CASE q = r
  BY <1>1 DEF AccountInv, TypeOK, Write, Release
<1>2. CASE q # r
  <2>1. /\ pc'[q] = pc[q] /\ target'[q] = target[q] /\ patch'[q] = patch[q]
        /\ entity'[q] = entity[q]
    BY <1>2 DEF AccountInv, TypeOK, Write, Release
  <2>2. ASSUME pc[q] \in {"insert", "saveLoad", "saveWrite"}, q \notin raced',
               NEW v \in Visible' \ {target[q]}
        PROVE  users'[v].email # entity[q].email
    <3>1. q \notin raced /\ q \notin Rivals(target[r], row)
      BY <1>2, <2>2 DEF Write
    <3>2. entity[q] # None
      BY <2>2, NoneAssumption DEF AccountInv, TypeOK, Saving
    <3>3. CASE users'[v] = users[v]
      BY <2>2, <3>1, <3>3 DEF AddressLooked, Visible, Rows
    <3>4. CASE users'[v] # users[v]
      <4>1. v = target[r] /\ users'[v] = row /\ ~row.deleted
        BY <2>2, <3>4 DEF AccountInv, TypeOK, Write, Visible, Rows
      <4>2. QED
        BY <2>2, <3>1, <3>2, <3>4, <4>1 DEF Rivals
    <3>5. QED
      BY <3>3, <3>4
  <2>3. QED
    BY <2>1, <2>2 DEF AddressLooked
<1>3. QED
  BY <1>1, <1>2

(* A step that writes nothing concerns no request but its own. *)
LEMMA LookedElsewhere ==
  ASSUME AddressLooked, NEW r \in Requests, users' = users,
         \A q \in Requests \ {r} :
           /\ pc'[q] = pc[q] /\ target'[q] = target[q] /\ patch'[q] = patch[q]
           /\ entity'[q] = entity[q] /\ (q \in raced' <=> q \in raced),
         pc'[r] = "checkEmail" => entity'[r].email = patch'[r].email,
         pc'[r] \in {"insert", "saveLoad", "saveWrite"} /\ r \notin raced' =>
           \A v \in Visible \ {target'[r]} : users[v].email # entity'[r].email
  PROVE  AddressLooked'
BY DEF AddressLooked, Visible, Rows

LEMMA LookedStep ==
  ASSUME AccountInv, EmailsUnique, AddressLooked, [Next]_vars
  PROVE  AddressLooked'
<1>1. CASE UNCHANGED vars
  BY <1>1 DEF AddressLooked, Visible, Rows, vars, history
<1>2. CASE Next
  <2> PICK r \in Requests :
           \/ \E u \in Users, e \in Emails, s \in Statuses : CreateFind(r, u, e, s)
           \/ CreateInsert(r)
           \/ \E u \in Users, dto \in Patch : UpdateFind(r, u, dto)
           \/ UpdateCheckEmail(r)
           \/ SaveLoad(r)
           \/ SaveWrite(r)
           \/ RemoveWrite(r)
           \/ \E u \in Users : RemoveFind(r, u)
           \/ IndexRefuses(r)
           \/ Fail(r)
    BY <1>2, NextCases
  <2>1. ASSUME NEW u \in Users, NEW e \in Emails, NEW s \in Statuses,
               CreateFind(r, u, e, s)
        PROVE  AddressLooked'
    <3>1. /\ entity'[r].email = e /\ pc'[r] = "insert"
          /\ \A v \in Visible : users[v].email # e
      BY <2>1 DEF AccountInv, TypeOK, CreateFind, EmailFound
    <3>2. QED
      BY <2>1, <3>1, LookedElsewhere DEF AccountInv, TypeOK, CreateFind, history
  <2>2. ASSUME NEW u \in Users, NEW dto \in Patch, UpdateFind(r, u, dto)
        PROVE  AddressLooked'
    <3>1. /\ pc'[r] = IF dto.email \in {None, users[u].email} THEN "saveLoad" ELSE "checkEmail"
          /\ target'[r] = u /\ patch'[r] = dto /\ u \in Visible
          /\ entity'[r].email = IF dto.email = None THEN users[u].email ELSE dto.email
      BY <2>2 DEF AccountInv, TypeOK, UpdateFind, Merged
    <3>2. \A v \in Visible \ {u} : users[v].email # users[u].email
      BY <3>1 DEF EmailsUnique, Visible
    <3>3. pc'[r] = "checkEmail" => entity'[r].email = patch'[r].email
      BY <3>1
    <3>4. pc'[r] \in {"insert", "saveLoad", "saveWrite"} =>
            \A v \in Visible \ {target'[r]} : users[v].email # entity'[r].email
      BY <3>1, <3>2
    <3>5. QED
      BY <2>2, <3>3, <3>4, LookedElsewhere DEF AccountInv, TypeOK, UpdateFind, history
  <2>3. CASE UpdateCheckEmail(r)
    <3>1. CASE EmailFound(patch[r].email)
      BY <2>3, <3>1, LookedElsewhere
         DEF AccountInv, TypeOK, UpdateCheckEmail, Release, Forget
    <3>2. CASE ~EmailFound(patch[r].email)
      <4>1. /\ pc'[r] = "saveLoad" /\ pc[r] = "checkEmail"
            /\ UNCHANGED <<users, target, patch, entity>>
            /\ \A v \in Visible : users[v].email # patch[r].email
        BY <2>3, <3>2 DEF AccountInv, TypeOK, UpdateCheckEmail, EmailFound
      <4>2. entity[r].email = patch[r].email
        BY <4>1 DEF AddressLooked
      <4>3. QED
        BY <2>3, <3>2, <4>1, <4>2, LookedElsewhere
           DEF AccountInv, TypeOK, UpdateCheckEmail
    <3>3. QED
      BY <3>1, <3>2
  <2>4. CASE SaveLoad(r)
    <3>1. pc[r] = "saveLoad" /\ pc'[r] = "saveWrite"
      BY <2>4 DEF AccountInv, TypeOK, SaveLoad
    <3>2. r \notin raced => \A v \in Visible \ {target[r]} : users[v].email # entity[r].email
      BY <3>1 DEF AddressLooked
    <3>3. QED
      BY <2>4, <3>1, <3>2, LookedElsewhere DEF AccountInv, TypeOK, SaveLoad, history
  <2>5. ASSUME NEW u \in Users, RemoveFind(r, u)
        PROVE  AddressLooked'
    BY <2>5, LookedElsewhere DEF AccountInv, TypeOK, RemoveFind, history
  <2>6. CASE IndexRefuses(r) \/ Fail(r)
    BY <2>6, LookedElsewhere DEF AccountInv, TypeOK, IndexRefuses, Fail, Release, Forget
  <2>7. CASE CreateInsert(r)
    <3>1. entity[r] \in Row /\ pc[r] # "idle" /\ Write(r, entity[r])
      BY <2>7 DEF AccountInv, TypeOK, CreateInsert
    <3>2. QED
      BY <3>1, WriteKeepsLooked
  <2>8. CASE SaveWrite(r)
    <3>1. Updated(r) \in Row /\ pc[r] # "idle" /\ Write(r, Updated(r))
      BY <2>8, UpdatedTyped DEF AccountInv, SaveWrite
    <3>2. QED
      BY <3>1, WriteKeepsLooked
  <2>9. CASE RemoveWrite(r)
    <3>1. users[target[r]] \in Row
      BY <2>9 DEF AccountInv, TypeOK, RemoveWrite, Saving
    <3>2. /\ [users[target[r]] EXCEPT !.deleted = TRUE] \in Row
          /\ pc[r] # "idle"
      BY <2>9, <3>1 DEF Row, RemoveWrite
    <3>3. Write(r, [users[target[r]] EXCEPT !.deleted = TRUE])
      BY <2>9 DEF RemoveWrite
    <3>4. QED
      BY <3>2, <3>3, WriteKeepsLooked
  <2>10. QED
    BY <2>1, <2>2, <2>3, <2>4, <2>5, <2>6, <2>7, <2>8, <2>9
<1>3. QED
  BY <1>1, <1>2

(* Whoever is refused was raced or meets a removed row. *)
LEMMA RefusedOnlySo ==
  ASSUME AccountInv, EmailsUnique, AddressLooked
  PROVE  RefusalExplainedStep
<1> SUFFICES ASSUME NEW r \in Requests, IndexRefuses(r), r \notin raced
             PROVE  \E v \in Rows \ {target[r]} :
                      users[v].deleted /\ users[v].email = entity[r].email
  BY DEF RefusalExplainedStep
<1>1. PICK v \in Rows \ {target[r]} : users[v].email = entity[r].email
  <2>1. CASE pc[r] = "insert" /\ EmailHeld(entity[r].email, target[r])
    BY <2>1 DEF EmailHeld
  <2>2. CASE pc[r] = "saveWrite" /\ EmailHeld(Updated(r).email, target[r])
    <3>1. Updated(r).email \in {entity[r].email, users[target[r]].email}
      BY DEF Updated
    <3>2. target[r] \in Rows
      BY <2>2 DEF AccountInv, TypeOK, Saving, Rows
    <3>3. PICK v \in Rows \ {target[r]} : users[v].email = Updated(r).email
      BY <2>2 DEF EmailHeld
    <3>4. users[v].email # users[target[r]].email
      BY <3>2, <3>3 DEF EmailsUnique
    <3>5. QED
      BY <3>1, <3>3, <3>4
  <2>3. QED
    BY <2>1, <2>2 DEF IndexRefuses
<1>2. pc[r] \in {"insert", "saveWrite"}
  BY DEF IndexRefuses
<1>3. v \notin Visible
  BY <1>1, <1>2 DEF AddressLooked
<1>4. QED
  BY <1>1, <1>3 DEF Visible

(* Addresses stay unique, and every look for one counts until it is raced. *)
THEOREM AddressInvariant == Spec => [](EmailsUnique /\ AddressLooked)
<1>1. Init => EmailsUnique /\ AddressLooked
  BY DEF Init, EmailsUnique, AddressLooked, Rows
<1>2. AccountInv /\ EmailsUnique /\ AddressLooked /\ [Next]_vars
        => EmailsUnique' /\ AddressLooked'
  BY UniqueStep, LookedStep
<1>3. QED
  BY <1>1, <1>2, AccountInvariant, PTL DEF Spec

(* The index refuses only a request that lost a race after its look for the *)
(* address, or one whose address a removed user holds.                      *)
THEOREM RefusalsExplained == Spec => RefusalExplained
<1>1. AccountInv /\ EmailsUnique /\ AddressLooked => RefusalExplainedStep
  BY RefusedOnlySo
<1>2. QED
  BY <1>1, AccountInvariant, AddressInvariant, PTL DEF Spec, RefusalExplained

(* The UPDATE of a request nobody has overtaken writes the row it had read, *)
(* with the DTO merged into it.                                             *)
LEMMA CurrentUpdate ==
  ASSUME AccountInv, NEW r \in Requests, pc[r] = "saveWrite", r \notin stale
  PROVE  Updated(r) = Merged(users[target[r]], patch[r])
<1>1. /\ entity[r] = Merged(users[target[r]], patch[r])
      /\ seen[r] = users[target[r]] /\ entity[r] \in Row
  BY DEF AccountInv, EntityCurrent, TypeOK, Saving
<1>2. Updated(r) = [k \in {"email", "status", "deleted"} |-> entity[r][k]]
  BY <1>1 DEF Updated
<1>3. QED
  BY <1>1, <1>2 DEF Row

(* The id of a row about to be inserted is nobody else's. *)
InsertFresh ==
  \A r \in Requests : pc[r] = "insert" =>
    /\ users[target[r]] = None
    /\ \A q \in Requests \ {r} : target[q] # target[r]

LEMMA InsertFreshStep ==
  ASSUME AccountInv, InsertFresh, [Next]_vars
  PROVE  InsertFresh'
<1>1. CASE UNCHANGED vars
  BY <1>1 DEF InsertFresh, vars
<1>2. CASE Next
  <2> PICK r \in Requests :
           \/ \E u \in Users, e \in Emails, s \in Statuses : CreateFind(r, u, e, s)
           \/ CreateInsert(r)
           \/ \E u \in Users, dto \in Patch : UpdateFind(r, u, dto)
           \/ UpdateCheckEmail(r)
           \/ SaveLoad(r)
           \/ SaveWrite(r)
           \/ RemoveWrite(r)
           \/ \E u \in Users : RemoveFind(r, u)
           \/ IndexRefuses(r)
           \/ Fail(r)
    BY <1>2, NextCases
  <2> USE DEF AccountInv, TypeOK, InsertFresh
  <2>1. ASSUME NEW u \in Users, NEW e \in Emails, NEW s \in Statuses,
               CreateFind(r, u, e, s)
        PROVE  InsertFresh'
    BY <2>1 DEF CreateFind
  <2>2. ASSUME NEW u \in Visible,
               \/ \E dto \in Patch : UpdateFind(r, u, dto)
               \/ RemoveFind(r, u)
        PROVE  InsertFresh'
    <3>1. /\ users[u] # None /\ users' = users
          /\ target' = [target EXCEPT ![r] = u]
          /\ pc[r] = "idle" /\ pc'[r] # "insert"
          /\ \A q \in Requests \ {r} : pc'[q] = pc[q]
      BY <2>2 DEF UpdateFind, RemoveFind, Visible, Rows
    <3>2. QED
      BY <3>1
  <2>3. CASE UpdateCheckEmail(r) \/ SaveLoad(r)
    <3>1. /\ target' \in {target, [target EXCEPT ![r] = None]} /\ users' = users
          /\ pc'[r] # "insert" /\ \A q \in Requests \ {r} : pc'[q] = pc[q]
      BY <2>3 DEF UpdateCheckEmail, SaveLoad, Release
    <3>2. QED
      BY <3>1, NoneAssumption
  <2>4. CASE CreateInsert(r) \/ SaveWrite(r) \/ RemoveWrite(r)
    <3>1. /\ target[r] \in Users /\ target' = [target EXCEPT ![r] = None]
          /\ pc' = [pc EXCEPT ![r] = "idle"]
          /\ \A u \in Users \ {target[r]} : users'[u] = users[u]
      BY <2>4 DEF CreateInsert, SaveWrite, RemoveWrite, Write, Release
    <3> SUFFICES ASSUME NEW q \in Requests, pc'[q] = "insert"
                 PROVE  /\ users'[target'[q]] = None
                        /\ \A p \in Requests \ {q} : target'[p] # target'[q]
      OBVIOUS
    <3>2. /\ q # r /\ pc[q] = "insert"
          /\ target'[q] = target[q] /\ target[q] \in Users
          /\ target[q] # target[r]
      BY <3>1
    <3>3. users'[target'[q]] = None
      BY <3>1, <3>2
    <3>4. ASSUME NEW p \in Requests \ {q}
          PROVE  target'[p] # target'[q]
      <4>1. target'[p] = target[p] \/ target'[p] = None
        BY <3>1
      <4>2. CASE target'[p] = target[p]
        BY <4>2, <3>2
      <4>3. CASE p = r
        BY <4>3, <3>1, <3>2, NoneAssumption
      <4>4. QED
        BY <4>1, <4>2, <4>3, <3>1
    <3>5. QED
      BY <3>3, <3>4
  <2>5. CASE IndexRefuses(r) \/ Fail(r)
    <3>1. /\ target' = [target EXCEPT ![r] = None] /\ users' = users
          /\ pc' = [pc EXCEPT ![r] = "idle"]
      BY <2>5 DEF IndexRefuses, Fail, Release
    <3>2. QED
      BY <3>1, NoneAssumption
  <2>6. QED
    BY <2>1, <2>2, <2>3, <2>4, <2>5 DEF UpdateFind, RemoveFind
<1>3. QED
  BY <1>1, <1>2

(* A row changes in a step only through the write of its own request. *)
LEMMA RowChange ==
  ASSUME AccountInv, InsertFresh, [Next]_vars, NEW u \in Rows, users'[u] # users[u]
  PROVE  \E r \in Requests :
           /\ target[r] = u
           /\ \/ pc[r] = "saveWrite" /\ users'[u] = Updated(r)
              \/ users'[u] = [users[u] EXCEPT !.deleted = TRUE]
<1> PICK r \in Requests :
         /\ target[r] \in Users
         /\ \/ pc[r] = "insert" /\ CreateInsert(r)
            \/ pc[r] = "saveWrite" /\ SaveWrite(r)
            \/ pc[r] = "remove" /\ RemoveWrite(r)
  BY WhatIsWritten
<1>1. target[r] = u
  BY DEF AccountInv, TypeOK, CreateInsert, SaveWrite, RemoveWrite, Write, Rows
<1>2. ~(pc[r] = "insert")
  BY <1>1 DEF InsertFresh, Rows
<1>3. CASE pc[r] = "saveWrite" /\ SaveWrite(r)
  <2>1. users'[u] = Updated(r)
    BY <1>1, <1>3 DEF AccountInv, TypeOK, SaveWrite, Write, Rows
  <2>2. QED
    BY <1>1, <1>3, <2>1
<1>4. CASE pc[r] = "remove" /\ RemoveWrite(r)
  <2>1. users'[u] = [users[u] EXCEPT !.deleted = TRUE]
    BY <1>1, <1>4 DEF AccountInv, TypeOK, RemoveWrite, Write, Rows
  <2>2. QED
    BY <1>1, <2>1
<1>5. QED
  BY <1>2, <1>3, <1>4

(* The ids of rows about to be inserted are fresh in every reachable state. *)
THEOREM InsertInvariant == Spec => []InsertFresh
<1>1. Init => InsertFresh
  BY DEF Init, InsertFresh
<1>2. AccountInv /\ InsertFresh /\ [Next]_vars => InsertFresh'
  BY InsertFreshStep
<1>3. QED
  BY <1>1, <1>2, AccountInvariant, PTL DEF Spec

(* A removed user comes back only by a save whose entity was read before. *)
THEOREM RemovedComeBackStale == Spec => ReturnOnlyByStaleSave
<1>1. AccountInv /\ InsertFresh /\ [Next]_vars => ReturnOnlyByStaleSaveStep
  <2> SUFFICES ASSUME AccountInv, InsertFresh, [Next]_vars,
                      NEW u \in Rows, users[u].deleted, ~users'[u].deleted
               PROVE  \E r \in stale : pc[r] = "saveWrite" /\ target[r] = u
    BY DEF ReturnOnlyByStaleSaveStep
  <2>1. users[u] \in Row
    BY DEF AccountInv, TypeOK, Rows
  <2> PICK r \in Requests :
           /\ target[r] = u
           /\ \/ pc[r] = "saveWrite" /\ users'[u] = Updated(r)
              \/ users'[u] = [users[u] EXCEPT !.deleted = TRUE]
    BY RowChange
  <2>2. [users[u] EXCEPT !.deleted = TRUE].deleted = TRUE
    BY <2>1 DEF Row
  <2>3. pc[r] = "saveWrite"
    BY <2>2
  <2>4. r \in stale
    BY <2>3 DEF AccountInv, EntityCurrent, Saving
  <2>5. QED
    BY <2>3, <2>4
<1>2. QED
  BY <1>1, AccountInvariant, InsertInvariant, PTL DEF Spec, ReturnOnlyByStaleSave

(* A column changes only to what was asked for, or back by a stale save. *)
THEOREM ChangesAskedFor == Spec => ChangeAskedOrStale
<1>1. AccountInv /\ InsertFresh /\ [Next]_vars => ChangeAskedOrStaleStep
  <2> SUFFICES ASSUME AccountInv, InsertFresh, [Next]_vars,
                      NEW u \in Rows, NEW k \in {"email", "status"},
                      users'[u][k] # users[u][k]
               PROVE  \E r \in Requests :
                        /\ pc[r] = "saveWrite" /\ target[r] = u
                        /\ patch[r][k] = users'[u][k] \/ r \in stale
    BY DEF ChangeAskedOrStaleStep
  <2>1. users[u] \in Row
    BY DEF AccountInv, TypeOK, Rows
  <2> PICK r \in Requests :
           /\ target[r] = u
           /\ \/ pc[r] = "saveWrite" /\ users'[u] = Updated(r)
              \/ users'[u] = [users[u] EXCEPT !.deleted = TRUE]
    BY RowChange
  <2>2. [users[u] EXCEPT !.deleted = TRUE][k] = users[u][k]
    BY <2>1 DEF Row
  <2>3. pc[r] = "saveWrite" /\ users'[u] = Updated(r)
    BY <2>2
  <2>4. CASE r \notin stale
    <3>1. users'[u] = Merged(users[u], patch[r])
      BY <2>3, <2>4, CurrentUpdate
    <3>2. patch[r][k] = users'[u][k]
      BY <3>1 DEF Merged
    <3>3. QED
      BY <2>3, <3>2
  <2>5. QED
    BY <2>3, <2>4
<1>2. QED
  BY <1>1, AccountInvariant, InsertInvariant, PTL DEF Spec, ChangeAskedOrStale

=============================================================================
