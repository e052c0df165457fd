----------------------- MODULE AccountSessionsProofs -----------------------
(***************************************************************************)
(* Proofs about the two services together.  What has been proved of each   *)
(* of them alone carries over: the composition implements both, and the    *)
(* invariants of AccountRecordsProofs say which writes of the accounts can *)
(* surprise AuthService.                                                   *)
(***************************************************************************)
EXTENDS AccountSessions, TLAPS

AP == INSTANCE AccountRecordsProofs
        WITH Requests <- AccountRequests, pc <- apc, entity <- aentity
SP == INSTANCE RefreshSessionsProofs

(* The composition takes the steps of the two services and no others. *)
LEMMA StepsOfServices ==
  ASSUME Next
  PROVE  \/ \E r \in AccountRequests :
              Accounts!Next /\ (SaveAccount(r) \/ RemoveAccount(r) \/ ServeAccount(r))
         \/ UNCHANGED accountVars /\ Sessions!Next /\ UNCHANGED <<barred, undone>>
  BY DEF Next, SaveAccount, RemoveAccount, ServeAccount, ServeSession, Elapse,
         Accounts!Next, Accounts!Update, Accounts!Remove, Sessions!Next

-----------------------------------------------------------------------------
(* The theorems are about instances of their own of the two specifications. *)
LEMMA SameAccounts == Accounts!Init => AP!Init
  BY DEF Accounts!Init, AP!Init, Accounts!NoPatch, AP!NoPatch
LEMMA SameNext == Accounts!Next = AP!Next
  BY DEF
         Accounts!Init, AP!Init, Accounts!Next, AP!Next, Accounts!Create,
         AP!Create, Accounts!Update, AP!Update, Accounts!Remove, AP!Remove,
         Accounts!IndexRefuses, AP!IndexRefuses, Accounts!Fail, AP!Fail,
         Accounts!CreateFind, AP!CreateFind, Accounts!CreateInsert,
         AP!CreateInsert, Accounts!UpdateFind, AP!UpdateFind,
         Accounts!UpdateCheckEmail, AP!UpdateCheckEmail, Accounts!SaveLoad,
         AP!SaveLoad, Accounts!SaveWrite, AP!SaveWrite, Accounts!RemoveFind,
         AP!RemoveFind, Accounts!RemoveWrite, AP!RemoveWrite,
         Accounts!Write, AP!Write, Accounts!Rivals, AP!Rivals, Accounts!Forget, AP!Forget,
         Accounts!history, AP!history, Accounts!Release, AP!Release,
         Accounts!Updated, AP!Updated, Accounts!Merged, AP!Merged,
         Accounts!EmailHeld, AP!EmailHeld, Accounts!EmailFound,
         AP!EmailFound, Accounts!Visible, AP!Visible, Accounts!Rows,
         AP!Rows, Accounts!Patch, AP!Patch, Accounts!NoPatch, AP!NoPatch,
         Accounts!vars, AP!vars

LEMMA SameSessionsInit == Sessions!Init => SP!Init
  BY DEF Sessions!Init, SP!Init
LEMMA SameSessionsNext == Sessions!Next = SP!Next
  BY DEF
         Sessions!Next, SP!Next, Sessions!Tick, SP!Tick,
         Sessions!ChangeAccount, SP!ChangeAccount, Sessions!Login, SP!Login,
         Sessions!Refresh, SP!Refresh, Sessions!Logout, SP!Logout,
         Sessions!Fail, SP!Fail, Sessions!LoginFind, SP!LoginFind,
         Sessions!LoginMismatch, SP!LoginMismatch, Sessions!LoginCompare,
         SP!LoginCompare, Sessions!InsertToken, SP!InsertToken,
         Sessions!RefreshFind, SP!RefreshFind, Sessions!DropExpired,
         SP!DropExpired, Sessions!Revoke, SP!Revoke, Sessions!Renew,
         SP!Renew, Sessions!LogoutFind, SP!LogoutFind,
         Sessions!LogoutRemove, SP!LogoutRemove, Sessions!LogoutAllAuth,
         SP!LogoutAllAuth, Sessions!LogoutAllDelete, SP!LogoutAllDelete,
         Sessions!Release, SP!Release, Sessions!DrawToken, SP!DrawToken,
         Sessions!Usable, SP!Usable, Sessions!Expired, SP!Expired,
         Sessions!Committed, SP!Committed, Sessions!Refreshing,
         SP!Refreshing, Sessions!accountVars, SP!accountVars,
         Sessions!historyVars, SP!historyVars

-----------------------------------------------------------------------------
(* What AccountRecordsProofs says of the accounts holds in the composition. *)
THEOREM AccountsKept == Spec => [](AP!AccountInv /\ AP!InsertFresh)
<1>1. Init => AP!Init
  BY SameAccounts DEF Init
<1>2. [Next]_vars => [AP!Next]_AP!vars
  BY StepsOfServices, SameNext DEF vars, accountVars, AP!vars, AP!history
<1>3. AP!Spec => []AP!AccountInv
  BY AP!AccountInvariant, NoneAssumption DEF Accounts!Row, AP!Row
<1>4. AP!Spec => []AP!InsertFresh
  BY AP!InsertInvariant, NoneAssumption DEF Accounts!Row, AP!Row
<1> QED
  BY <1>1, <1>2, <1>3, <1>4, PTL DEF Spec, AP!Spec

-----------------------------------------------------------------------------
(* A step of UsersService writes one row of the table at most. *)
LEMMA OneRowWritten ==
  ASSUME AP!AccountInv, Accounts!Next, users' # users
  PROVE  \E u \in Users : \A v \in Users \ {u} : users'[v] = users[v]
<1>1. [AP!Next]_AP!vars
  BY SameNext
<1>2. PICK r \in AccountRequests :
         /\ target[r] \in Users
         /\ \E row : AP!Write(r, row)
  BY <1>1, AP!WhatIsWritten, NoneAssumption
     DEF AP!CreateInsert, AP!SaveWrite, AP!RemoveWrite, Accounts!Row, AP!Row
<1>3. \A v \in Users \ {target[r]} : users'[v] = users[v]
  BY <1>2 DEF AP!AccountInv, AP!TypeOK, AP!Write
<1> QED
  BY <1>2, <1>3

(* For the sessions it is a change of one account, or nothing. *)
LEMMA AccountStepIsChange ==
  ASSUME AP!AccountInv, Accounts!Next, Overtakes, UNCHANGED sessionVars
  PROVE  (\E u \in Users : Sessions!ChangeAccount(u)) \/ UNCHANGED Sessions!vars
<1>1. CASE active' = active /\ deleted' = deleted
  <2>1. overtaken' = overtaken
    BY <1>1 DEF Overtakes
  <2> QED
    BY <1>1, <2>1 DEF sessionVars, Sessions!vars
<1>2. CASE ~(active' = active /\ deleted' = deleted)
  <2>1. users' # users
    BY <1>2 DEF active, deleted
  <2>2. PICK u \in Users : \A v \in Users \ {u} : users'[v] = users[v]
    BY <2>1, OneRowWritten
  <2>3. /\ active' \in {active \cup {u}, active \ {u}}
        /\ deleted' \in {deleted \cup {u}, deleted \ {u}}
    BY <2>2 DEF active, deleted
  <2>4. \A v \in Users : (v \in active) # (v \in active') \/ (v \in deleted) # (v \in deleted')
                         <=> v = u
    BY <1>2, <2>2, <2>3 DEF active, deleted
  <2>5. overtaken' = IF u \in active' \ deleted' THEN overtaken
                     ELSE overtaken \cup Sessions!Committed(u)
    BY <2>4 DEF Overtakes
  <2>6. Sessions!ChangeAccount(u)
    BY <1>2, <2>3, <2>5 DEF sessionVars, Sessions!ChangeAccount, Sessions!accountVars
  <2> QED
    BY <2>6
<1> QED
  BY <1>1, <1>2

LEMMA SessionStep ==
  ASSUME AP!AccountInv, [Next]_vars
  PROVE  [Sessions!Next]_Sessions!vars
<1>1. CASE UNCHANGED vars
  BY <1>1 DEF vars, accountVars, sessionVars, Sessions!vars, active, deleted
<1>2. ASSUME NEW r \in AccountRequests, Accounts!Next,
             SaveAccount(r) \/ RemoveAccount(r) \/ ServeAccount(r)
      PROVE  [Sessions!Next]_Sessions!vars
  <2>1. Overtakes /\ UNCHANGED sessionVars
    BY <1>2 DEF SaveAccount, RemoveAccount, ServeAccount
  <2> QED
    BY <1>2, <2>1, AccountStepIsChange DEF Sessions!Next
<1> QED
  BY <1>1, <1>2, StepsOfServices

(* The two services together implement RefreshSessions. *)
THEOREM SessionsImplemented == Spec => SessionsRefined
<1>1. Init => Sessions!Init
  BY DEF Init
<1>2. AP!AccountInv /\ [Next]_vars => [Sessions!Next]_Sessions!vars
  BY SessionStep
<1> QED
  BY <1>1, <1>2, AccountsKept, PTL DEF Spec, SessionsRefined, Sessions!Spec

-----------------------------------------------------------------------------
(* A barred account is unusable until a save with an old entity writes it. *)
BarredInv ==
  /\ barred \subseteq Users
  /\ \A u \in barred : users[u] # None
  /\ \A u \in barred \ undone : ~Sessions!Usable(u)

LEMMA SaveKeepsBarred ==
  ASSUME AP!AccountInv, BarredInv, NEW r \in AccountRequests, SaveAccount(r)
  PROVE  BarredInv'
<1> DEFINE u == target[r]
           s == patch[r].status
<1> USE DEF BarredInv, Sessions!Usable, active, deleted
<1>1. /\ u \in Users /\ users[u] \in AP!Row /\ users[u] # None
      /\ patch[r] \in AP!Patch /\ apc[r] = "saveWrite"
      /\ users'[u] = AP!Updated(r)
      /\ \A v \in Users \ {u} : users'[v] = users[v]
  BY NoneAssumption
     DEF SaveAccount, Accounts!SaveWrite, Accounts!Write, Accounts!Updated,
         AP!Updated, AP!AccountInv, AP!TypeOK, AP!Saving, Accounts!Row, AP!Row
<1>2. Asked(r, u, s)
  BY DEF SaveAccount
<1>3. AP!Updated(r) \in AP!Row
  BY <1>1, AP!UpdatedTyped, NoneAssumption DEF AP!AccountInv, Accounts!Row, AP!Row
<1>4. AP!Updated(r) # None
  BY <1>3, NoneAssumption DEF Accounts!Row, AP!Row
<1>5. barred' \subseteq barred \cup {u}
  BY <1>2 DEF Asked
<1>6. ASSUME NEW v \in barred' \ undone', v # u PROVE v \notin active' \ deleted'
  BY <1>1, <1>2, <1>5, <1>6 DEF Asked
<1>7. ASSUME u \in barred' \ undone' PROVE u \notin active' \ deleted'
  <2>1. r \notin stale
    BY <1>2, <1>7 DEF Asked
  <2>2. AP!Updated(r) = AP!Merged(users[u], patch[r])
    BY <1>1, <2>1, AP!CurrentUpdate, NoneAssumption DEF Accounts!Row, AP!Row
  <2>3. CASE s \in Statuses
    <3>1. s # Active
      BY <1>2, <1>7, <2>1, <2>3 DEF Asked
    <3>2. s # None
      BY <2>3, NoneAssumption
    <3>3. AP!Updated(r).status = s
      BY <2>2, <3>2 DEF AP!Merged
    <3>4. users'[u].status # Active
      BY <1>1, <3>1, <3>3
    <3> QED
      BY <3>4
  <2>4. CASE s \notin Statuses
    <3>1. s = None /\ u \in barred \ undone
      BY <1>1, <1>2, <1>7, <2>1, <2>4, ActiveAssumption DEF Asked, AP!Patch
    <3>2. /\ AP!Updated(r).status = users[u].status
          /\ AP!Updated(r).deleted = users[u].deleted
      BY <2>2, <3>1 DEF AP!Merged
    <3>3. ~(u \in active \ deleted)
      BY <3>1
    <3> QED
      BY <1>1, <1>4, <3>2, <3>3
  <2> QED
    BY <2>3, <2>4
<1>8. barred' \subseteq Users /\ \A v \in barred' : users'[v] # None
  BY <1>1, <1>4, <1>5
<1>9. \A v \in barred' \ undone' : v \notin active' \ deleted'
  BY <1>6, <1>7
<1> QED
  BY <1>8, <1>9

LEMMA RemoveKeepsBarred ==
  ASSUME AP!AccountInv, BarredInv, NEW r \in AccountRequests, RemoveAccount(r)
  PROVE  BarredInv'
<1> DEFINE u == target[r]
<1>1. u \in Users /\ users[u] \in AP!Row /\ users[u] # None
  BY DEF RemoveAccount, Accounts!RemoveWrite, AP!AccountInv, AP!TypeOK, AP!Saving
<1>2. users' = [users EXCEPT ![u] = [users[u] EXCEPT !.deleted = TRUE]]
  BY DEF RemoveAccount, Accounts!RemoveWrite, Accounts!Write
<1>3. users'[u] \in AP!Row /\ users'[u].deleted
  BY <1>1, <1>2 DEF AP!AccountInv, AP!TypeOK, AP!Row
<1>4. users'[u] # None
  BY <1>3, NoneAssumption DEF Accounts!Row, AP!Row
<1>5. barred' = barred \cup {u} /\ undone' = undone \ {u}
  BY DEF RemoveAccount
<1> QED
  BY <1>1, <1>2, <1>3, <1>4, <1>5
     DEF BarredInv, Sessions!Usable, active, deleted, AP!AccountInv, AP!TypeOK

(* Of the other steps only the insert of a new account writes the table. *)
LEMMA ServeKeepsBarred ==
  ASSUME AP!AccountInv, AP!InsertFresh, BarredInv,
         NEW r \in AccountRequests, ServeAccount(r)
  PROVE  BarredInv'
<1>1. barred' = barred /\ undone' = undone
  BY DEF ServeAccount
<1>2. ASSUME NEW u \in barred PROVE users'[u] = users[u]
  <2>1. CASE Accounts!CreateInsert(r)
    <3>1. target[r] # u
      BY <1>2, <2>1 DEF Accounts!CreateInsert, AP!InsertFresh, BarredInv
    <3> QED
      BY <1>2, <2>1, <3>1 DEF Accounts!CreateInsert, Accounts!Write, BarredInv,
         AP!AccountInv, AP!TypeOK
  <2>2. CASE ~Accounts!CreateInsert(r)
    BY <2>2 DEF ServeAccount, Accounts!Create, Accounts!CreateFind,
       Accounts!IndexRefuses, Accounts!Fail, Accounts!RemoveFind,
       Accounts!UpdateFind, Accounts!UpdateCheckEmail, Accounts!SaveLoad
  <2> QED
    BY <2>1, <2>2
<1> QED
  BY <1>1, <1>2 DEF BarredInv, Sessions!Usable, active, deleted

THEOREM BarredInvariant == Spec => []BarredInv
<1>1. Init => BarredInv
  BY DEF Init, BarredInv
<1>2. AP!AccountInv /\ AP!InsertFresh /\ BarredInv /\ [Next]_vars => BarredInv'
  <2> SUFFICES ASSUME AP!AccountInv, AP!InsertFresh, BarredInv, [Next]_vars
               PROVE  BarredInv'
    OBVIOUS
  <2>1. CASE UNCHANGED <<accountVars, barred, undone>>
    BY <2>1 DEF accountVars, BarredInv, Sessions!Usable, active, deleted
  <2>2. ASSUME NEW r \in AccountRequests,
               SaveAccount(r) \/ RemoveAccount(r) \/ ServeAccount(r)
        PROVE  BarredInv'
    BY <2>2, SaveKeepsBarred, RemoveKeepsBarred, ServeKeepsBarred
  <2> QED
    BY <2>1, <2>2 DEF Next, ServeSession, Elapse, vars
<1> QED
  BY <1>1, <1>2, AccountsKept, PTL DEF Spec

(* A user asked to be banned or removed gains sessions only through a request *)
(* that was past its check, or after a save with an old entity.               *)
THEOREM RevokedAccess == Spec => RevokedAccessExplained
<1>1. BarredInv /\ BarredInv' /\ [Next]_vars
        /\ [SP!GainIsUsableOrOvertaken]_SP!vars => [BarredGainIsExplained]_vars
  <2> SUFFICES ASSUME BarredInv, BarredInv', Next,
                      [SP!GainIsUsableOrOvertaken]_SP!vars,
                      NEW row \in rows' \ rows, row.user \in barred
               PROVE  \/ row.user \in undone
                      \/ \E r \in overtaken : pc[r] = "insert" /\ entity[r] = row
    BY DEF BarredGainIsExplained
  <2>1. \/ SP!Usable(row.user)
        \/ \E r \in overtaken : pc[r] = "insert" /\ entity[r] = row
    BY DEF SP!GainIsUsableOrOvertaken, SP!vars
  <2> QED
    BY <2>1 DEF BarredInv, SP!Usable, Sessions!Usable
<1>2. Init => SP!Init
  BY SameSessionsInit DEF Init
<1>3. AP!AccountInv /\ [Next]_vars => [SP!Next]_SP!vars
  BY SessionStep, SameSessionsNext DEF Sessions!vars, SP!vars
<1>4. SP!Spec => [][SP!GainIsUsableOrOvertaken]_SP!vars
  BY SP!DisabledGain, ClockAssumption DEF SP!DisabledGainOnlyOvertaken
<1> QED
  BY <1>1, <1>2, <1>3, <1>4, AccountsKept, BarredInvariant, PTL DEF Spec, SP!Spec,
     RevokedAccessExplained

(* The types of both services, and that the histories are of users. *)
THEOREM TypeCorrect == Spec => []TypeOK
<1>1. Init => SP!Init
  BY SameSessionsInit DEF Init
<1>2. AP!AccountInv /\ [Next]_vars => [SP!Next]_SP!vars
  BY SessionStep, SameSessionsNext DEF Sessions!vars, SP!vars
<1>3. SP!Spec => []SP!TypeOK
  BY SP!TypeCorrect, ClockAssumption
<1>4. Init => undone \subseteq Users
  BY DEF Init
<1>5. AP!AccountInv /\ undone \subseteq Users /\ [Next]_vars => (undone \subseteq Users)'
  <2> SUFFICES ASSUME AP!AccountInv, undone \subseteq Users, Next
               PROVE  undone' \subseteq Users
    BY DEF vars
  <2>1. ASSUME NEW r \in AccountRequests, SaveAccount(r) PROVE undone' \subseteq Users
    BY <2>1 DEF SaveAccount, Asked, Accounts!SaveWrite, AP!AccountInv, AP!TypeOK
  <2> QED
    BY <2>1 DEF Next, RemoveAccount, ServeAccount, ServeSession, Elapse
<1>6. AP!AccountInv => Accounts!TypeOK
  BY DEF AP!AccountInv, AP!TypeOK, Accounts!TypeOK, AP!Row, Accounts!Row, AP!Patch,
     Accounts!Patch, AP!Places, Accounts!Places, AP!Saving, Accounts!Saving
<1>7. SP!TypeOK => Sessions!TypeOK
  BY DEF SP!TypeOK, Sessions!TypeOK, SP!Row, Sessions!Row, SP!Places, Sessions!Places
<1>8. Accounts!TypeOK /\ Sessions!TypeOK /\ BarredInv /\ undone \subseteq Users
        => TypeOK
  BY DEF TypeOK, BarredInv
<1> QED
  BY <1>1, <1>2, <1>3, <1>4, <1>5, <1>6, <1>7, <1>8, AccountsKept, BarredInvariant,
     PTL DEF Spec, SP!Spec

-----------------------------------------------------------------------------
(* What AuthService promises alone it keeps next to UsersService: rotation    *)
(* and logout-all, for any users, tokens and requests.                       *)
THEOREM PromisesKept ==
  Spec => [](Sessions!TokensBoundedByMisses /\ Sessions!LogoutAllExplained)
<1>1. Init => SP!Init
  BY SameSessionsInit DEF Init
<1>2. AP!AccountInv /\ [Next]_vars => [SP!Next]_SP!vars
  BY SessionStep, SameSessionsNext DEF Sessions!vars, SP!vars
<1>3. SP!Spec => []SP!TokensBoundedByMisses
  BY SP!TokensBounded, ClockAssumption
<1>4. SP!Spec => []SP!LogoutAllExplained
  BY SP!LogoutAllEnds, ClockAssumption
<1>5. SP!TokensBoundedByMisses => Sessions!TokensBoundedByMisses
  <2>1. ASSUME NEW S PROVE SP!Cardinality(S) = Sessions!Cardinality(S)
    BY DEF SP!Cardinality, Sessions!Cardinality, SP!IsFiniteSet, Sessions!IsFiniteSet
  <2> QED
    BY <2>1 DEF SP!TokensBoundedByMisses, Sessions!TokensBoundedByMisses, SP!TokensOf,
       Sessions!TokensOf
<1>6. SP!LogoutAllExplained => Sessions!LogoutAllExplained
  BY DEF SP!LogoutAllExplained, Sessions!LogoutAllExplained
<1> QED
  BY <1>1, <1>2, <1>3, <1>4, <1>5, <1>6, AccountsKept, PTL DEF Spec, SP!Spec

(* So the sessions of the two services together live as SessionLifecycle      *)
(* says, whatever is done to the accounts: no token value returns, and no     *)
(* session that is gone.                                                      *)
THEOREM LifecycleKept == Spec => Sessions!LifecycleRefined
<1>1. Init => SP!Init
  BY SameSessionsInit DEF Init
<1>2. AP!AccountInv /\ [Next]_vars => [SP!Next]_SP!vars
  BY SessionStep, SameSessionsNext DEF Sessions!vars, SP!vars
<1>3. SP!Spec => SP!LifecycleRefined
  BY SP!Refinement, ClockAssumption
<1>4. SP!tokenBar = Sessions!tokenBar /\ SP!sessionBar = Sessions!sessionBar
  BY DEF SP!tokenBar, Sessions!tokenBar, SP!sessionBar, Sessions!sessionBar,
     SP!PendingTokens, Sessions!PendingTokens, SP!LiveTokens, Sessions!LiveTokens,
     SP!OpenFamilies, Sessions!OpenFamilies, SP!Carriers, Sessions!Carriers
<1>5. SP!Lifecycle!LifecycleInit => Sessions!Lifecycle!LifecycleInit
  BY <1>4 DEF SP!Lifecycle!LifecycleInit, Sessions!Lifecycle!LifecycleInit
<1>6. SP!tokenBar' = Sessions!tokenBar' /\ SP!sessionBar' = Sessions!sessionBar'
  BY DEF SP!tokenBar, Sessions!tokenBar, SP!sessionBar, Sessions!sessionBar,
     SP!PendingTokens, Sessions!PendingTokens, SP!LiveTokens, Sessions!LiveTokens,
     SP!OpenFamilies, Sessions!OpenFamilies, SP!Carriers, Sessions!Carriers
<1>7. [SP!Lifecycle!LifecycleNext]_SP!Lifecycle!lifecycleVars
        => [Sessions!Lifecycle!LifecycleNext]_Sessions!Lifecycle!lifecycleVars
  BY <1>4, <1>6
     DEF SP!Lifecycle!LifecycleNext, Sessions!Lifecycle!LifecycleNext,
         SP!Lifecycle!lifecycleVars, Sessions!Lifecycle!lifecycleVars,
         SP!Lifecycle!Open, Sessions!Lifecycle!Open,
         SP!Lifecycle!Renew, Sessions!Lifecycle!Renew,
         SP!Lifecycle!Store, Sessions!Lifecycle!Store,
         SP!Lifecycle!Drop, Sessions!Lifecycle!Drop,
         SP!Lifecycle!TokenPhases, Sessions!Lifecycle!TokenPhases,
         SP!Lifecycle!SessionPhases, Sessions!Lifecycle!SessionPhases
<1> QED
  BY <1>1, <1>2, <1>3, <1>5, <1>7, AccountsKept, PTL
     DEF Spec, SP!Spec, SP!LifecycleRefined, Sessions!LifecycleRefined,
         SP!Lifecycle!LifecycleSpec, Sessions!Lifecycle!LifecycleSpec
=============================================================================
