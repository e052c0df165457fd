------------------------ MODULE RefreshSessionsProofs ------------------------
(***************************************************************************)
(* Proofs about RefreshSessions for any users, tokens, requests, lifetime  *)
(* and length of the run.                                                  *)
(***************************************************************************)
EXTENDS RefreshSessions, FiniteSetTheorems, TLAPS

(* Every step is one of the actions: the case split of the proofs below. *)
LEMMA NextCases ==
  ASSUME Next
  PROVE  \/ Tick
         \/ \E u \in Users : ChangeAccount(u)
         \/ \E r \in Requests :
              \/ \E u \in Users : LoginFind(r, u) \/ LogoutAllAuth(r, u)
              \/ \E t \in Tokens : LoginCompare(r, t) \/ Renew(r, t)
              \/ \E row \in rows : RefreshFind(r, row) \/ LogoutFind(r, row)
              \/ LoginMismatch(r) \/ InsertToken(r) \/ DropExpired(r)
              \/ Revoke(r) \/ LogoutRemove(r) \/ LogoutAllDelete(r) \/ Fail(r)
  BY DEF Next, Login, Refresh, Logout

-----------------------------------------------------------------------------
(* A new token row is a row. *)
LEMMA DrawTyped ==
  ASSUME TypeOK, NEW r \in Requests, NEW t, NEW f \in Tokens, NEW u \in Users,
         DrawToken(r, t, f, u)
  PROVE  /\ t \in Tokens \ issued
         /\ [token |-> t, family |-> f, user |-> u, expires |-> now + RefreshTtl] \in Row
  BY TtlAssumption, TimeAssumption DEF DrawToken, TypeOK, Row

(* Variables always hold values of their types (all of AuthService's token  *)
(* handling): in particular a request that is to write has a row to write.  *)
THEOREM TypeCorrect == Spec => []TypeOK
<1>1. Init => TypeOK
  BY TimeAssumption DEF Init, TypeOK, Places
<1>2. TypeOK /\ [Next]_vars => TypeOK'
  <2> SUFFICES ASSUME TypeOK, [Next]_vars PROVE TypeOK'
    OBVIOUS
  <2> USE DEF TypeOK, accountVars, historyVars
  <2>1. CASE UNCHANGED vars
    BY <2>1 DEF vars
  <2>2. CASE Tick
    BY <2>2, TimeAssumption DEF Tick
  <2>3. ASSUME NEW u \in Users, ChangeAccount(u) PROVE TypeOK'
    BY <2>3 DEF ChangeAccount, Committed
  <2>4. ASSUME NEW r \in Requests, NEW u \in Users, LoginFind(r, u) PROVE TypeOK'
    BY <2>4 DEF LoginFind, Places
  <2>5. ASSUME NEW r \in Requests, NEW u \in Users, LogoutAllAuth(r, u) PROVE TypeOK'
    BY <2>5 DEF LogoutAllAuth, Places
  <2>6. ASSUME NEW r \in Requests, NEW t \in Tokens, LoginCompare(r, t) PROVE TypeOK'
    BY <2>6, DrawTyped DEF LoginCompare, DrawToken, Places, Row
  <2>7. ASSUME NEW r \in Requests, NEW t \in Tokens, Renew(r, t) PROVE TypeOK'
    BY <2>7, DrawTyped DEF Renew, DrawToken, Places, Row
  <2>8. ASSUME NEW r \in Requests, NEW row \in rows, RefreshFind(r, row) PROVE TypeOK'
    BY <2>8 DEF RefreshFind, Places, Row
  <2>9. ASSUME NEW r \in Requests, NEW row \in rows, LogoutFind(r, row) PROVE TypeOK'
    BY <2>9 DEF LogoutFind, Places, Row
  <2>10. ASSUME NEW r \in Requests, Revoke(r) PROVE TypeOK'
    BY <2>10 DEF Revoke, Places, Row
  <2>11. ASSUME NEW r \in Requests, LogoutAllDelete(r) PROVE TypeOK'
    BY <2>11 DEF LogoutAllDelete, Release, Refreshing, Places, Row
  <2>12. ASSUME NEW r \in Requests,
                LoginMismatch(r) \/ InsertToken(r) \/ DropExpired(r)
                  \/ LogoutRemove(r) \/ Fail(r)
         PROVE  TypeOK'
    BY <2>12 DEF LoginMismatch, InsertToken, DropExpired, LogoutRemove, Fail,
                 Release, Places
  <2> QED
    BY <2>1, <2>2, <2>3, <2>4, <2>5, <2>6, <2>7, <2>8, <2>9, <2>10, <2>11,
       <2>12, NextCases
<1> QED
  BY <1>1, <1>2, PTL DEF Spec

-----------------------------------------------------------------------------
Inserting == {r \in Requests : pc[r] = "insert"}

(* Every value that occurs anywhere has been drawn. *)
OnlyIssued ==
  /\ \A row \in rows : row.token \in issued /\ row.family \in issued
  /\ \A r \in Requests : pc[r] \in {"insert", "revoke", "renew", "logout", "dropExpired"}
       => entity[r].token \in issued /\ entity[r].family \in issued
  /\ ended \subseteq issued

(* A token value is in one place: one row, or one request about to store it. *)
TokenInOnePlace ==
  /\ \A a, b \in rows : a.token = b.token => a = b
  /\ \A q, r \in Inserting : entity[q].token = entity[r].token => q = r
  /\ \A row \in rows, r \in Inserting : row.token # entity[r].token

Rotation == OnlyIssued /\ TokenInOnePlace

THEOREM RotationInvariant == Spec => []Rotation
<1>1. Init => Rotation
  BY DEF Init, Rotation, OnlyIssued, TokenInOnePlace, Inserting
<1>2. TypeOK /\ TypeOK' /\ Rotation /\ [Next]_vars => Rotation'
  <2> SUFFICES ASSUME TypeOK, TypeOK', Rotation, [Next]_vars PROVE Rotation'
    OBVIOUS
  <2> USE DEF Rotation, OnlyIssued, TokenInOnePlace, Inserting, accountVars,
              historyVars, TypeOK
  <2>1. CASE UNCHANGED vars
    BY <2>1 DEF vars
  <2>2. CASE Tick
    BY <2>2 DEF Tick
  <2>3. ASSUME NEW u \in Users, ChangeAccount(u) PROVE Rotation'
    BY <2>3 DEF ChangeAccount
  <2>4. ASSUME NEW r \in Requests, NEW u \in Users, LoginFind(r, u) PROVE Rotation'
    BY <2>4 DEF LoginFind
  <2>5. ASSUME NEW r \in Requests, NEW u \in Users, LogoutAllAuth(r, u) PROVE Rotation'
    BY <2>5 DEF LogoutAllAuth
  <2>6. ASSUME NEW r \in Requests, NEW t \in Tokens, LoginCompare(r, t) PROVE Rotation'
    BY <2>6 DEF LoginCompare, DrawToken, Row
  <2>7. ASSUME NEW r \in Requests, NEW t \in Tokens, Renew(r, t) PROVE Rotation'
    BY <2>7 DEF Renew, DrawToken, Row
  <2>8. ASSUME NEW r \in Requests, NEW row \in rows, RefreshFind(r, row) PROVE Rotation'
    BY <2>8 DEF RefreshFind, Row
  <2>9. ASSUME NEW r \in Requests, NEW row \in rows, LogoutFind(r, row) PROVE Rotation'
    BY <2>9 DEF LogoutFind, Row
  <2>10. ASSUME NEW r \in Requests, Revoke(r) PROVE Rotation'
    BY <2>10 DEF Revoke, Row
  <2>11. ASSUME NEW r \in Requests, LogoutAllDelete(r) PROVE Rotation'
    BY <2>11 DEF LogoutAllDelete, Release, Refreshing, Row
  <2>12. ASSUME NEW r \in Requests, InsertToken(r) PROVE Rotation'
    BY <2>12 DEF InsertToken, Release, Row
  <2>13. ASSUME NEW r \in Requests,
                LoginMismatch(r) \/ DropExpired(r) \/ LogoutRemove(r) \/ Fail(r)
         PROVE  Rotation'
    BY <2>13 DEF LoginMismatch, DropExpired, LogoutRemove, Fail, Release, Row
  <2> QED
    BY <2>1, <2>2, <2>3, <2>4, <2>5, <2>6, <2>7, <2>8, <2>9, <2>10, <2>11,
       <2>12, <2>13, NextCases
<1> QED
  BY <1>1, <1>2, TypeCorrect, PTL DEF Spec

-----------------------------------------------------------------------------
(* Requests that have passed the remove of a refresh of session f, or the     *)
(* checks of the login that opens it, and will store a token of it.           *)
StoringFor(f) ==
  {r \in Requests : pc[r] \in {"renew", "insert"} /\ entity[r].family = f}

(* The tokens of a session, stored or about to be, are at most one more than  *)
(* its refreshes have missed.                                                 *)
Bounded(f) ==
  /\ IsFiniteSet(TokensOf(f)) /\ IsFiniteSet(StoringFor(f))
  /\ Cardinality(TokensOf(f)) + Cardinality(StoringFor(f)) <= 1 + misses[f]

SessionInv == \A f \in Tokens : Bounded(f)

(* A session that loses tokens and requests, or keeps them, stays bounded. *)
LEMMA NothingGained ==
  ASSUME NEW f \in Tokens, misses[f] \in Nat, misses'[f] = misses[f], Bounded(f),
         TokensOf(f)' \subseteq TokensOf(f), StoringFor(f)' \subseteq StoringFor(f)
  PROVE  Bounded(f)'
<1>1. /\ IsFiniteSet(TokensOf(f)') /\ Cardinality(TokensOf(f)') <= Cardinality(TokensOf(f))
      /\ IsFiniteSet(StoringFor(f)')
      /\ Cardinality(StoringFor(f)') <= Cardinality(StoringFor(f))
  BY FS_Subset DEF Bounded
<1>2. /\ Cardinality(TokensOf(f)) \in Nat /\ Cardinality(TokensOf(f)') \in Nat
      /\ Cardinality(StoringFor(f)) \in Nat /\ Cardinality(StoringFor(f)') \in Nat
  BY <1>1, FS_CardinalityType DEF Bounded
<1> QED
  BY <1>1, <1>2 DEF Bounded

(* A login opens a session that was nowhere. *)
LEMMA LoginBounded ==
  ASSUME TypeOK, OnlyIssued, NEW r \in Requests, NEW t \in Tokens, LoginCompare(r, t),
         Bounded(t)
  PROVE  Bounded(t)'
<1>1. /\ t \in Tokens \ issued /\ pc' = [pc EXCEPT ![r] = "insert"]
      /\ entity'[r].family = t /\ \A q \in Requests \ {r} : entity'[q] = entity[q]
      /\ UNCHANGED <<rows, misses>>
  BY DEF LoginCompare, DrawToken, TypeOK, historyVars
<1>2. TokensOf(t)' = {}
  BY <1>1 DEF TokensOf, OnlyIssued
<1>3. StoringFor(t)' = {r}
  BY <1>1 DEF StoringFor, OnlyIssued, TypeOK
<1>4. /\ IsFiniteSet({}) /\ Cardinality({}) = 0
      /\ IsFiniteSet({r}) /\ Cardinality({r}) = 1
  BY FS_EmptySet, FS_Singleton
<1>5. misses'[t] \in Nat
  BY <1>1 DEF TypeOK
<1> QED
  BY <1>2, <1>3, <1>4, <1>5 DEF Bounded

(* The insert turns a request that will store a token into a stored token. *)
LEMMA InsertBounded ==
  ASSUME TypeOK, NEW r \in Requests, InsertToken(r),
         NEW f \in Tokens, f = entity[r].family, Bounded(f)
  PROVE  Bounded(f)'
<1>1. /\ pc[r] = "insert" /\ rows' = rows \cup {entity[r]}
      /\ pc' = [pc EXCEPT ![r] = "idle"]
      /\ \A q \in Requests \ {r} : entity'[q] = entity[q]
      /\ misses' = misses /\ misses[f] \in Nat
  BY DEF InsertToken, Release, TypeOK
<1>2. TokensOf(f)' = TokensOf(f) \cup {entity[r]}
  BY <1>1 DEF TokensOf
<1>3. r \in StoringFor(f) /\ StoringFor(f)' = StoringFor(f) \ {r}
  BY <1>1 DEF StoringFor, TypeOK
<1>4. IsFiniteSet(TokensOf(f)) /\ IsFiniteSet(StoringFor(f))
  BY DEF Bounded
<1>5. /\ IsFiniteSet(TokensOf(f)')
      /\ \/ Cardinality(TokensOf(f)') = Cardinality(TokensOf(f))
         \/ Cardinality(TokensOf(f)') = Cardinality(TokensOf(f)) + 1
  BY <1>2, <1>4, FS_AddElement
<1>6. /\ IsFiniteSet(StoringFor(f)')
      /\ Cardinality(StoringFor(f)') = Cardinality(StoringFor(f)) - 1
  BY <1>3, <1>4, FS_RemoveElement
<1>7. Cardinality(TokensOf(f)) \in Nat /\ Cardinality(StoringFor(f)) \in Nat
  BY <1>4, FS_CardinalityType
<1> QED
  BY <1>1, <1>5, <1>6, <1>7 DEF Bounded

(* The remove of a refresh takes a stored token for the one it will store, or *)
(* misses it.                                                                 *)
LEMMA RevokeBounded ==
  ASSUME TypeOK, NEW r \in Requests, Revoke(r),
         NEW f \in Tokens, f = entity[r].family, Bounded(f)
  PROVE  Bounded(f)'
<1>1. /\ pc[r] = "revoke" /\ rows' = rows \ {entity[r]} /\ entity' = entity
      /\ pc' = [pc EXCEPT ![r] = "renew"]
      /\ misses' = IF entity[r] \in rows THEN misses ELSE [misses EXCEPT ![f] = @ + 1]
      /\ misses[f] \in Nat
  BY DEF Revoke, TypeOK
<1>2. TokensOf(f)' = TokensOf(f) \ {entity[r]}
  BY <1>1 DEF TokensOf
<1>3. StoringFor(f)' = StoringFor(f) \cup {r} /\ r \notin StoringFor(f)
  BY <1>1 DEF StoringFor, TypeOK
<1>4. /\ IsFiniteSet(StoringFor(f)')
      /\ Cardinality(StoringFor(f)') = Cardinality(StoringFor(f)) + 1
      /\ Cardinality(StoringFor(f)) \in Nat
  BY <1>3, FS_AddElement, FS_CardinalityType DEF Bounded
<1>5. Cardinality(TokensOf(f)) \in Nat
  BY FS_CardinalityType DEF Bounded
<1>6. CASE entity[r] \in rows
  <2>1. entity[r] \in TokensOf(f)
    BY <1>6 DEF TokensOf
  <2>2. /\ IsFiniteSet(TokensOf(f)')
        /\ Cardinality(TokensOf(f)') = Cardinality(TokensOf(f)) - 1
    BY <1>2, <2>1, FS_RemoveElement DEF Bounded
  <2> QED
    BY <1>1, <1>4, <1>5, <1>6, <2>2 DEF Bounded
<1>7. CASE entity[r] \notin rows
  <2>1. TokensOf(f)' = TokensOf(f)
    BY <1>2, <1>7 DEF TokensOf
  <2>2. misses'[f] = misses[f] + 1
    BY <1>1, <1>7 DEF TypeOK
  <2> QED
    BY <1>1, <1>4, <1>5, <2>1, <2>2 DEF Bounded
<1> QED
  BY <1>6, <1>7

(* Every step keeps every session bounded. *)
LEMMA SessionStep ==
  ASSUME TypeOK, OnlyIssued, [Next]_vars, NEW f \in Tokens, Bounded(f)
  PROVE  Bounded(f)'
<1> USE DEF accountVars, historyVars, TypeOK, TokensOf, StoringFor
<1>1. CASE UNCHANGED <<rows, pc, entity, misses>>
  BY <1>1, NothingGained
<1>2. ASSUME NEW r \in Requests, NEW u \in Users, LoginFind(r, u) \/ LogoutAllAuth(r, u)
      PROVE  Bounded(f)'
  BY <1>2, NothingGained DEF LoginFind, LogoutAllAuth
<1>3. ASSUME NEW r \in Requests, NEW t \in Tokens, LoginCompare(r, t) PROVE Bounded(f)'
  <2>1. CASE t = f
    BY <1>3, <2>1, LoginBounded
  <2>2. CASE t # f
    BY <1>3, <2>2, NothingGained DEF LoginCompare, DrawToken
  <2> QED
    BY <2>1, <2>2
<1>4. ASSUME NEW r \in Requests, NEW t \in Tokens, Renew(r, t) PROVE Bounded(f)'
  BY <1>4, NothingGained DEF Renew, DrawToken
<1>5. ASSUME NEW r \in Requests, NEW row \in rows, RefreshFind(r, row) \/ LogoutFind(r, row)
      PROVE  Bounded(f)'
  BY <1>5, NothingGained DEF RefreshFind, LogoutFind
<1>6. ASSUME NEW r \in Requests, InsertToken(r) PROVE Bounded(f)'
  <2>1. CASE entity[r].family = f
    BY <1>6, <2>1, InsertBounded
  <2>2. CASE entity[r].family # f
    BY <1>6, <2>2, NothingGained DEF InsertToken, Release
  <2> QED
    BY <2>1, <2>2
<1>7. ASSUME NEW r \in Requests, Revoke(r) PROVE Bounded(f)'
  <2>1. CASE entity[r].family = f
    BY <1>7, <2>1, RevokeBounded
  <2>2. CASE entity[r].family # f
    <3>1. /\ pc' = [pc EXCEPT ![r] = "renew"] /\ entity' = entity
          /\ TokensOf(f)' \subseteq TokensOf(f) /\ StoringFor(f)' \subseteq StoringFor(f)
      BY <1>7, <2>2 DEF Revoke
    <3>2. misses'[f] = misses[f] /\ misses[f] \in Nat
      BY <1>7, <2>2 DEF Revoke
    <3> QED
      BY <3>1, <3>2, NothingGained
  <2> QED
    BY <2>1, <2>2
<1>8. ASSUME NEW r \in Requests,
             LoginMismatch(r) \/ DropExpired(r) \/ LogoutRemove(r)
               \/ LogoutAllDelete(r) \/ Fail(r)
      PROVE  Bounded(f)'
  BY <1>8, NothingGained DEF LoginMismatch, DropExpired, LogoutRemove,
     LogoutAllDelete, Fail, Release
<1> QED
  BY <1>1, <1>2, <1>3, <1>4, <1>5, <1>6, <1>7, <1>8, NextCases
     DEF Tick, ChangeAccount, vars

THEOREM SessionInvariant == Spec => []SessionInv
<1>1. Init => SessionInv
  <2> SUFFICES ASSUME Init, NEW f \in Tokens PROVE Bounded(f)
    BY DEF SessionInv
  <2>1. TokensOf(f) = {} /\ StoringFor(f) = {} /\ misses[f] = 0
    BY DEF Init, TokensOf, StoringFor
  <2> QED
    BY <2>1, FS_EmptySet DEF Bounded
<1>2. TypeOK /\ Rotation /\ SessionInv /\ [Next]_vars => SessionInv'
  BY SessionStep DEF SessionInv, Rotation
<1> QED
  BY <1>1, <1>2, TypeCorrect, RotationInvariant, PTL DEF Spec

(* A session has one presentable token at most, and one more for each of its *)
(* refreshes that answered although its remove had deleted nothing.          *)
THEOREM TokensBounded == Spec => []TokensBoundedByMisses
<1>1. TypeOK /\ SessionInv => TokensBoundedByMisses
  <2> SUFFICES ASSUME TypeOK, SessionInv, NEW f \in Tokens
               PROVE  Cardinality(TokensOf(f)) <= 1 + misses[f]
    BY DEF TokensBoundedByMisses
  <2>1. Cardinality(TokensOf(f)) \in Nat /\ Cardinality(StoringFor(f)) \in Nat
    BY FS_CardinalityType DEF SessionInv, Bounded
  <2>2. misses[f] \in Nat
    BY DEF TypeOK
  <2> QED
    BY <2>1, <2>2 DEF SessionInv, Bounded
<1> QED
  BY <1>1, TypeCorrect, SessionInvariant, PTL

-----------------------------------------------------------------------------
(* All rows of a session, and all requests that carry it on, have one user. *)
OneOwner ==
  /\ \A a, b \in rows : a.family = b.family => a.user = b.user
  /\ \A q, r \in Carriers : entity[q].family = entity[r].family
                              => entity[q].user = entity[r].user
  /\ \A row \in rows, r \in Carriers : row.family = entity[r].family
                                         => row.user = entity[r].user

(* Until its login has stored the first token, a session is nowhere else. *)
FirstTokenAlone ==
  \A r \in Inserting : entity[r].token = entity[r].family =>
    /\ entity[r].family \notin ended
    /\ \A row \in rows : row.family # entity[r].family
    /\ \A q \in Carriers : entity[q].family = entity[r].family => q = r

(* A session ended by logout-all with no refresh in flight is gone. *)
EndedGone ==
  \A f \in ended \ escaped :
    /\ \A row \in rows : row.family # f
    /\ \A r \in Carriers : entity[r].family # f

LogoutAllInv == OnlyIssued /\ OneOwner /\ FirstTokenAlone /\ EndedGone

THEOREM LogoutAllInvariant == Spec => []LogoutAllInv
<1>1. Init => LogoutAllInv
  BY DEF Init, LogoutAllInv, OnlyIssued, OneOwner, FirstTokenAlone, EndedGone,
         Inserting, Carriers
<1>2. TypeOK /\ TypeOK' /\ LogoutAllInv /\ [Next]_vars => LogoutAllInv'
  <2> SUFFICES ASSUME TypeOK, TypeOK', LogoutAllInv, [Next]_vars PROVE LogoutAllInv'
    OBVIOUS
  <2> USE DEF LogoutAllInv, OnlyIssued, OneOwner, FirstTokenAlone, EndedGone,
              Inserting, Carriers, accountVars, historyVars, TypeOK
  <2>1. CASE UNCHANGED vars
    BY <2>1 DEF vars
  <2>2. CASE Tick
    BY <2>2 DEF Tick
  <2>3. ASSUME NEW u \in Users, ChangeAccount(u) PROVE LogoutAllInv'
    BY <2>3 DEF ChangeAccount
  <2>4. ASSUME NEW r \in Requests, NEW u \in Users, LoginFind(r, u) PROVE LogoutAllInv'
    BY <2>4 DEF LoginFind
  <2>5. ASSUME NEW r \in Requests, NEW u \in Users, LogoutAllAuth(r, u)
        PROVE  LogoutAllInv'
    BY <2>5 DEF LogoutAllAuth
  <2>6. ASSUME NEW r \in Requests, NEW t \in Tokens, LoginCompare(r, t)
        PROVE  LogoutAllInv'
    BY <2>6 DEF LoginCompare, DrawToken, Row
  <2>7. ASSUME NEW r \in Requests, NEW t \in Tokens, Renew(r, t) PROVE LogoutAllInv'
    BY <2>7 DEF Renew, DrawToken, Row
  <2>8. ASSUME NEW r \in Requests, NEW row \in rows, RefreshFind(r, row)
        PROVE  LogoutAllInv'
    BY <2>8 DEF RefreshFind, Row
  <2>9. ASSUME NEW r \in Requests, NEW row \in rows, LogoutFind(r, row)
        PROVE  LogoutAllInv'
    BY <2>9 DEF LogoutFind, Row
  <2>10. ASSUME NEW r \in Requests, Revoke(r) PROVE LogoutAllInv'
    BY <2>10 DEF Revoke, Row
  <2>11. ASSUME NEW r \in Requests, LogoutAllDelete(r) PROVE LogoutAllInv'
    BY <2>11 DEF LogoutAllDelete, Release, Refreshing, Row
  <2>12. ASSUME NEW r \in Requests, InsertToken(r) PROVE LogoutAllInv'
    BY <2>12 DEF InsertToken, Release, Row
  <2>13. ASSUME NEW r \in Requests,
                LoginMismatch(r) \/ DropExpired(r) \/ LogoutRemove(r) \/ Fail(r)
         PROVE  LogoutAllInv'
    BY <2>13 DEF LoginMismatch, DropExpired, LogoutRemove, Fail, Release, Row
  <2> QED
    BY <2>1, <2>2, <2>3, <2>4, <2>5, <2>6, <2>7, <2>8, <2>9, <2>10, <2>11,
       <2>12, <2>13, NextCases
<1> QED
  BY <1>1, <1>2, TypeCorrect, PTL DEF Spec

(* Whatever logout-all leaves of the sessions it was to end was in the hands *)
(* of a refresh at the delete.                                               *)
THEOREM LogoutAllEnds == Spec => []LogoutAllExplained
<1>1. LogoutAllInv => LogoutAllExplained
  BY DEF LogoutAllInv, EndedGone, LogoutAllExplained
<1> QED
  BY <1>1, LogoutAllInvariant, PTL

-----------------------------------------------------------------------------
(* A request past the checks of a user that is not usable now was overtaken. *)
OvertakenInv ==
  \A r \in Requests :
    /\ pc[r] \in {"compare", "revoke", "renew", "insert"}
    /\ ~Usable(subject[r])
    => r \in overtaken

THEOREM OvertakenInvariant == Spec => []OvertakenInv
<1>1. Init => OvertakenInv
  BY DEF Init, OvertakenInv
<1>2. TypeOK /\ OvertakenInv /\ [Next]_vars => OvertakenInv'
  <2> SUFFICES ASSUME TypeOK, OvertakenInv, [Next]_vars PROVE OvertakenInv'
    OBVIOUS
  <2> USE DEF OvertakenInv, Usable, accountVars, historyVars, TypeOK
  <2>1. CASE UNCHANGED vars
    BY <2>1 DEF vars
  <2>2. CASE Tick
    BY <2>2 DEF Tick
  <2>3. ASSUME NEW u \in Users, ChangeAccount(u) PROVE OvertakenInv'
    BY <2>3 DEF ChangeAccount, Committed
  <2>4. ASSUME NEW r \in Requests, NEW u \in Users,
               LoginFind(r, u) \/ LogoutAllAuth(r, u)
        PROVE  OvertakenInv'
    BY <2>4 DEF LoginFind, LogoutAllAuth
  <2>5. ASSUME NEW r \in Requests, NEW t \in Tokens, LoginCompare(r, t) \/ Renew(r, t)
        PROVE  OvertakenInv'
    BY <2>5 DEF LoginCompare, Renew, DrawToken
  <2>6. ASSUME NEW r \in Requests, NEW row \in rows,
               RefreshFind(r, row) \/ LogoutFind(r, row)
        PROVE  OvertakenInv'
    BY <2>6 DEF RefreshFind, LogoutFind
  <2>7. ASSUME NEW r \in Requests, Revoke(r) PROVE OvertakenInv'
    BY <2>7 DEF Revoke
  <2>8. ASSUME NEW r \in Requests,
               LoginMismatch(r) \/ InsertToken(r) \/ DropExpired(r)
                 \/ LogoutRemove(r) \/ LogoutAllDelete(r) \/ Fail(r)
        PROVE  OvertakenInv'
    BY <2>8 DEF LoginMismatch, InsertToken, DropExpired, LogoutRemove,
                LogoutAllDelete, Fail, Release
  <2> QED
    BY <2>1, <2>2, <2>3, <2>4, <2>5, <2>6, <2>7, <2>8, NextCases
<1> QED
  BY <1>1, <1>2, TypeCorrect, PTL DEF Spec

(* Sessions of a disabled user grow only by requests that were overtaken. *)
THEOREM DisabledGain == Spec => DisabledGainOnlyOvertaken
<1>1. TypeOK /\ OvertakenInv /\ [Next]_vars => [GainIsUsableOrOvertaken]_vars
  <2> SUFFICES ASSUME TypeOK, OvertakenInv, Next, NEW row \in rows' \ rows
               PROVE  \/ Usable(row.user)
                      \/ \E r \in overtaken : pc[r] = "insert" /\ entity[r] = row
    BY DEF GainIsUsableOrOvertaken
  <2>1. PICK r \in Requests : InsertToken(r)
    BY NextCases DEF Tick, ChangeAccount, LoginFind, LogoutAllAuth, LoginCompare,
       Renew, DrawToken, RefreshFind, LogoutFind, LoginMismatch, DropExpired,
       Revoke, LogoutRemove, LogoutAllDelete, Fail
  <2>2. pc[r] = "insert" /\ entity[r] = row /\ subject[r] = row.user
    BY <2>1 DEF InsertToken, TypeOK
  <2> QED
    BY <2>2 DEF OvertakenInv
<1> QED
  BY <1>1, TypeCorrect, OvertakenInvariant, PTL DEF Spec, DisabledGainOnlyOvertaken

-----------------------------------------------------------------------------
(* Refinement of SessionLifecycle.                                          *)

LEMMA LifecycleInitial == Init => Lifecycle!LifecycleInit
  BY DEF Init, Lifecycle!LifecycleInit, tokenBar, sessionBar

(* When no value is drawn and none is stored, tokens and sessions can only go. *)
LEMMA OnlyDrops ==
  ASSUME UNCHANGED issued,
         PendingTokens' \subseteq PendingTokens,
         LiveTokens' \subseteq LiveTokens,
         PendingTokens \cap LiveTokens = {},
         OpenFamilies' \subseteq OpenFamilies
  PROVE  Lifecycle!LifecycleNext
<1>1. /\ tokenBar' \in [Tokens -> Lifecycle!TokenPhases]
      /\ sessionBar' \in [Tokens -> Lifecycle!SessionPhases]
  BY DEF tokenBar, sessionBar, Lifecycle!TokenPhases, Lifecycle!SessionPhases
<1>2. ASSUME NEW t \in Tokens, tokenBar'[t] # tokenBar[t]
      PROVE  tokenBar[t] \in {"pending", "live"} /\ tokenBar'[t] = "dead"
  BY <1>2 DEF tokenBar
<1>3. ASSUME NEW f \in Tokens, sessionBar'[f] # sessionBar[f]
      PROVE  sessionBar[f] = "open" /\ sessionBar'[f] = "closed"
  BY <1>3 DEF sessionBar
<1>4. Lifecycle!Drop
  BY <1>1, <1>2, <1>3 DEF Lifecycle!Drop
<1> QED
  BY <1>4 DEF Lifecycle!LifecycleNext

(* Storing a pending value. *)
LEMMA StoreStep ==
  ASSUME NEW t \in PendingTokens, t \in Tokens, t \in issued,
         UNCHANGED <<issued, OpenFamilies>>,
         PendingTokens' = PendingTokens \ {t},
         LiveTokens' = LiveTokens \cup {t}
  PROVE  Lifecycle!Store(t)
<1>1. UNCHANGED sessionBar
  BY DEF sessionBar
<1>2. tokenBar[t] = "pending" /\ tokenBar'[t] = "live"
  BY DEF tokenBar
<1>3. \A d \in Tokens \ {t} : tokenBar'[d] = tokenBar[d]
  BY DEF tokenBar
<1>4. tokenBar' = [tokenBar EXCEPT ![t] = "live"]
  BY <1>2, <1>3 DEF tokenBar
<1> QED
  BY <1>1, <1>2, <1>4 DEF Lifecycle!Store

(* Drawing a value for an open session. *)
LEMMA RenewStep ==
  ASSUME NEW t \in Tokens \ issued, NEW f \in OpenFamilies, f \in Tokens,
         OpenFamilies \subseteq issued,
         issued' = issued \cup {t},
         UNCHANGED <<OpenFamilies, LiveTokens>>,
         PendingTokens' = PendingTokens \cup {t}
  PROVE  Lifecycle!Renew(t, f)
<1>1. /\ tokenBar[t] = "fresh" /\ tokenBar'[t] = "pending"
      /\ sessionBar[t] = "unused" /\ sessionBar'[t] = "closed"
      /\ sessionBar[f] = "open"
  BY DEF tokenBar, sessionBar
<1>2. \A d \in Tokens \ {t} : tokenBar'[d] = tokenBar[d] /\ sessionBar'[d] = sessionBar[d]
  BY DEF tokenBar, sessionBar
<1>3. tokenBar' = [tokenBar EXCEPT ![t] = "pending"]
  BY <1>1, <1>2 DEF tokenBar
<1>4. sessionBar' = [sessionBar EXCEPT ![t] = "closed"]
  BY <1>1, <1>2 DEF sessionBar
<1> QED
  BY <1>1, <1>3, <1>4 DEF Lifecycle!Renew

(* Every step of the service is a step, or a stutter, of the mapping. *)
LEMMA LifecycleStep ==
  ASSUME TypeOK, TypeOK', Rotation, Rotation', Next
  PROVE  Lifecycle!LifecycleNext
<1> USE DEF TypeOK, Carriers, accountVars, historyVars, PendingTokens, LiveTokens,
            OpenFamilies
<1>0. PendingTokens \cap LiveTokens = {} /\ PendingTokens \subseteq issued
      /\ LiveTokens \subseteq issued /\ OpenFamilies \subseteq issued
  BY DEF Rotation, OnlyIssued, TokenInOnePlace, Inserting
<1>1. CASE Tick
  BY <1>0, <1>1, OnlyDrops DEF Tick
<1>2. ASSUME NEW u \in Users, ChangeAccount(u) PROVE Lifecycle!LifecycleNext
  BY <1>0, <1>2, OnlyDrops DEF ChangeAccount
<1>3. ASSUME NEW r \in Requests, NEW u \in Users, LoginFind(r, u) \/ LogoutAllAuth(r, u)
      PROVE  Lifecycle!LifecycleNext
  BY <1>0, <1>3, OnlyDrops DEF LoginFind, LogoutAllAuth
<1>4. ASSUME NEW r \in Requests, NEW t \in Tokens, LoginCompare(r, t)
      PROVE  Lifecycle!LifecycleNext
  <2>1. t \in Tokens \ issued /\ issued' = issued \cup {t} /\ rows' = rows
        /\ pc' = [pc EXCEPT ![r] = "insert"] /\ pc[r] = "compare"
        /\ entity'[r].token = t /\ entity'[r].family = t
        /\ \A q \in Requests \ {r} : entity'[q] = entity[q]
    BY <1>4 DEF LoginCompare, DrawToken
  <2>2. PendingTokens' = PendingTokens \cup {t} /\ LiveTokens' = LiveTokens
        /\ OpenFamilies' = OpenFamilies \cup {t}
    BY <2>1
  <2>3. Lifecycle!Open(t)
    BY <1>0, <2>1, <2>2 DEF Lifecycle!Open, tokenBar, sessionBar
  <2> QED
    BY <2>3 DEF Lifecycle!LifecycleNext
<1>5. ASSUME NEW r \in Requests, NEW t \in Tokens, Renew(r, t)
      PROVE  Lifecycle!LifecycleNext
  <2> DEFINE f == entity[r].family
  <2>1. t \in Tokens \ issued /\ issued' = issued \cup {t} /\ rows' = rows
        /\ pc' = [pc EXCEPT ![r] = "insert"] /\ pc[r] = "renew"
        /\ entity'[r].token = t /\ entity'[r].family = f
        /\ \A q \in Requests \ {r} : entity'[q] = entity[q]
    BY <1>5 DEF Renew, DrawToken
  <2>2. PendingTokens' = PendingTokens \cup {t} /\ LiveTokens' = LiveTokens
        /\ OpenFamilies' = OpenFamilies
    BY <2>1
  <2>3. f \in OpenFamilies /\ f \in Tokens
    BY <2>1 DEF Row
  <2>4. Lifecycle!Renew(t, f)
    BY <1>0, <2>1, <2>2, <2>3, RenewStep
  <2> QED
    BY <2>3, <2>4 DEF Lifecycle!LifecycleNext
<1>6. ASSUME NEW r \in Requests, NEW row \in rows, RefreshFind(r, row) \/ LogoutFind(r, row)
      PROVE  Lifecycle!LifecycleNext
  <2>1. PendingTokens' = PendingTokens /\ LiveTokens' = LiveTokens
        /\ OpenFamilies' \subseteq OpenFamilies
    BY <1>6 DEF RefreshFind, LogoutFind
  <2> QED
    BY <1>0, <1>6, <2>1, OnlyDrops DEF RefreshFind, LogoutFind
<1>7. ASSUME NEW r \in Requests, Revoke(r) PROVE Lifecycle!LifecycleNext
  BY <1>0, <1>7, OnlyDrops DEF Revoke
<1>8. ASSUME NEW r \in Requests, InsertToken(r) PROVE Lifecycle!LifecycleNext
  <2> DEFINE t == entity[r].token
  <2>1. /\ pc[r] = "insert" /\ entity[r] \in Row /\ UNCHANGED issued
        /\ rows' = rows \cup {entity[r]}
        /\ pc' = [pc EXCEPT ![r] = "idle"]
        /\ \A q \in Requests \ {r} : entity'[q] = entity[q]
    BY <1>8 DEF InsertToken, Release
  <2>2. PendingTokens' = PendingTokens \ {t} /\ LiveTokens' = LiveTokens \cup {t}
        /\ OpenFamilies' = OpenFamilies /\ t \in PendingTokens /\ t \in Tokens
    BY <2>1 DEF Row, Rotation, TokenInOnePlace, Inserting
  <2>3. Lifecycle!Store(t)
    BY <1>0, <2>1, <2>2, StoreStep
  <2> QED
    BY <2>2, <2>3 DEF Lifecycle!LifecycleNext
<1>9. ASSUME NEW r \in Requests,
             LoginMismatch(r) \/ DropExpired(r) \/ LogoutRemove(r)
               \/ LogoutAllDelete(r) \/ Fail(r)
      PROVE  Lifecycle!LifecycleNext
  BY <1>0, <1>9, OnlyDrops DEF LoginMismatch, DropExpired, LogoutRemove,
     LogoutAllDelete, Fail, Release
<1> QED
  BY <1>1, <1>2, <1>3, <1>4, <1>5, <1>6, <1>7, <1>8, <1>9, NextCases

(* The service implements SessionLifecycle: no token value is ever stored    *)
(* twice and no session that is gone comes back.                             *)
THEOREM Refinement == Spec => LifecycleRefined
<1>1. UNCHANGED vars => UNCHANGED <<tokenBar, sessionBar>>
  BY DEF vars, tokenBar, sessionBar, PendingTokens, LiveTokens, OpenFamilies, Carriers
<1>2. TypeOK /\ TypeOK' /\ Rotation /\ Rotation' /\ [Next]_vars
        => [Lifecycle!LifecycleNext]_Lifecycle!lifecycleVars
  BY <1>1, LifecycleStep DEF Lifecycle!lifecycleVars
<1> QED
  BY <1>2, LifecycleInitial, TypeCorrect, RotationInvariant, PTL
     DEF Spec, LifecycleRefined, Lifecycle!LifecycleSpec

=============================================================================
