-------------------------- MODULE StoredFilesProofs --------------------------
(***************************************************************************)
(* Proofs about StoredFiles for any files and requests, whichever routes   *)
(* are mounted.                                                            *)
(***************************************************************************)
EXTENDS StoredFiles, TLAPS

(* The case split of the proofs below. *)
LEMMA NextCases ==
  ASSUME Next
  PROVE  /\ UNCHANGED direct
         /\ \/ \E f \in Files : ClientPost(f) \/ GrantExpire(f)
            \/ \E r \in Requests, f \in Files :
                 \/ UploadPut(r, f) \/ PresignSign(r, f)
                 \/ CompleteFind(r, f) \/ DeleteFind(r, f)
            \/ \E r \in Requests :
                 \/ UploadSave(r) \/ PresignSave(r) \/ CompleteLoad(r)
                 \/ CompleteWrite(r) \/ EraseObject(r) \/ DropRow(r) \/ Fail(r)
  BY DEF Next, Upload, Direct, Delete

(* Every request past its first step works on a file. *)
THEOREM TypeCorrect == Spec => []TypeOK
<1>1. Init => TypeOK
  BY DEF Init, TypeOK, RowStates, Places
<1>2. TypeOK /\ [Next]_vars => TypeOK'
  <2> SUFFICES ASSUME TypeOK, [Next]_vars PROVE TypeOK'
    OBVIOUS
  <2> USE DEF TypeOK, RowStates, Places, historyVars
  <2>0. direct' = direct
    BY NextCases DEF vars
  <2>1. CASE UNCHANGED vars
    BY <2>0, <2>1 DEF vars
  <2>2. ASSUME NEW f \in Files, ClientPost(f) \/ GrantExpire(f) PROVE TypeOK'
    BY <2>0, <2>2 DEF ClientPost, GrantExpire
  <2>3. ASSUME NEW r \in Requests, NEW f \in Files, UploadPut(r, f) \/ PresignSign(r, f)
        PROVE  TypeOK'
    BY <2>0, <2>3 DEF UploadPut, PresignSign, DrawKey, Begin
  <2>4. ASSUME NEW r \in Requests, NEW f \in Files, CompleteFind(r, f) \/ DeleteFind(r, f)
        PROVE  TypeOK'
    BY <2>0, <2>4 DEF CompleteFind, DeleteFind, Begin
  <2>5. ASSUME NEW r \in Requests, UploadSave(r) \/ PresignSave(r) PROVE TypeOK'
    BY <2>0, <2>5 DEF UploadSave, PresignSave, Release
  <2>6. ASSUME NEW r \in Requests, CompleteLoad(r) PROVE TypeOK'
    BY <2>0, <2>6 DEF CompleteLoad
  <2>7. ASSUME NEW r \in Requests, CompleteWrite(r) PROVE TypeOK'
    BY <2>0, <2>7 DEF CompleteWrite, Release
  <2>8. ASSUME NEW r \in Requests, EraseObject(r) PROVE TypeOK'
    BY <2>0, <2>8 DEF EraseObject, Continue
  <2>9. ASSUME NEW r \in Requests, DropRow(r) PROVE TypeOK'
    BY <2>0, <2>9 DEF DropRow, Release
  <2>10. ASSUME NEW r \in Requests, Fail(r) PROVE TypeOK'
    BY <2>0, <2>10 DEF Fail, Release
  <2> QED
    BY <2>1, <2>2, <2>3, <2>4, <2>5, <2>6, <2>7, <2>8, <2>9, <2>10, NextCases
<1> QED
  BY <1>1, <1>2, PTL DEF Spec

-----------------------------------------------------------------------------
(* Until its row is saved a file belongs to the request that drew its key. *)
SavedAlone ==
  /\ \A r \in Requests : pc[r] # "idle" => file[r] \in drawn
  /\ \A f \in Files : row[f] # "none" => f \in drawn
  /\ \A r \in Requests : pc[r] \in {"saveUpload", "saveGrant"} =>
       /\ row[file[r]] = "none"
       /\ \A q \in Requests \ {r} : pc[q] # "idle" => file[q] # file[r]
  /\ \A r \in Requests : pc[r] = "saveUpload" => file[r] \in objects

(* Between the two steps of a delete the object is there only if posted late. *)
ErasedBeforeDrop ==
  \A f \in objects : Dropping(f) => f \in late

StoresInv == SavedAlone /\ ErasedBeforeDrop /\ OrphanExplained /\ DanglingExplained

THEOREM StoresInvariant == Spec => []StoresInv
<1>1. Init => StoresInv
  BY DEF Init, StoresInv, SavedAlone, ErasedBeforeDrop, OrphanExplained,
         DanglingExplained
<1>2. TypeOK /\ TypeOK' /\ StoresInv /\ [Next]_vars => StoresInv'
  <2> SUFFICES ASSUME TypeOK, TypeOK', StoresInv, [Next]_vars PROVE StoresInv'
    OBVIOUS
  <2> USE DEF StoresInv, SavedAlone, ErasedBeforeDrop, OrphanExplained,
              DanglingExplained, At, Dropping, TypeOK, historyVars
  <2>1. CASE UNCHANGED vars
    BY <2>1 DEF vars
  <2>2. ASSUME NEW f \in Files, ClientPost(f) \/ GrantExpire(f) PROVE StoresInv'
    BY <2>2 DEF ClientPost, GrantExpire
  <2>3. ASSUME NEW r \in Requests, NEW f \in Files, UploadPut(r, f) \/ PresignSign(r, f)
        PROVE  StoresInv'
    BY <2>3 DEF UploadPut, PresignSign, DrawKey, Begin
  <2>4. ASSUME NEW r \in Requests, NEW f \in Files, CompleteFind(r, f) \/ DeleteFind(r, f)
        PROVE  StoresInv'
    BY <2>4 DEF CompleteFind, DeleteFind, Begin
  <2>5. ASSUME NEW r \in Requests, UploadSave(r) \/ PresignSave(r) PROVE StoresInv'
    BY <2>5 DEF UploadSave, PresignSave, Release
  <2>6. ASSUME NEW r \in Requests, CompleteLoad(r) PROVE StoresInv'
    BY <2>6 DEF CompleteLoad
  <2>7. ASSUME NEW r \in Requests, CompleteWrite(r) PROVE StoresInv'
    BY <2>7 DEF CompleteWrite, Release
  <2>8. ASSUME NEW r \in Requests, EraseObject(r) PROVE StoresInv'
    BY <2>8 DEF EraseObject, Continue
  <2>9. ASSUME NEW r \in Requests, DropRow(r) PROVE StoresInv'
    BY <2>9 DEF DropRow, Release
  <2>10. ASSUME NEW r \in Requests, Fail(r) PROVE StoresInv'
    BY <2>10 DEF Fail, Release
  <2> QED
    BY <2>1, <2>2, <2>3, <2>4, <2>5, <2>6, <2>7, <2>8, <2>9, <2>10, NextCases
<1> QED
  BY <1>1, <1>2, TypeCorrect, PTL DEF Spec

(* Objects no row leads to come from uploads, never from deletes alone. *)
THEOREM Orphans == Spec => []OrphanExplained
<1>1. StoresInv => OrphanExplained
  BY DEF StoresInv
<1> QED
  BY <1>1, StoresInvariant, PTL

(* Rows that lead to no object are explained by what was done to the file. *)
THEOREM Dangling == Spec => []DanglingExplained
<1>1. StoresInv => DanglingExplained
  BY DEF StoresInv
<1> QED
  BY <1>1, StoresInvariant, PTL

(* A dead file with no completion in flight is never live again, and no      *)
(* completion of it ever starts.                                             *)
THEOREM DeadForGood == Spec => DeadStaysDead
<1>1. TypeOK /\ StoresInv /\ [Next]_vars => [DeadStaysDeadStep]_vars
  <2> SUFFICES ASSUME TypeOK, StoresInv, Next, NEW f \in Files, Dead(f)
               PROVE  Dead(f)'
    BY DEF DeadStaysDeadStep
  <2> USE DEF TypeOK, StoresInv, SavedAlone, Dead, Completing, At, historyVars
  <2>1. ASSUME NEW g \in Files, ClientPost(g) \/ GrantExpire(g) PROVE Dead(f)'
    BY <2>1 DEF ClientPost, GrantExpire
  <2>2. ASSUME NEW r \in Requests, NEW g \in Files,
               UploadPut(r, g) \/ PresignSign(r, g) \/ CompleteFind(r, g) \/ DeleteFind(r, g)
        PROVE  Dead(f)'
    BY <2>2 DEF UploadPut, PresignSign, CompleteFind, DeleteFind, Begin
  <2>3. ASSUME NEW r \in Requests, CompleteLoad(r) \/ EraseObject(r) \/ Fail(r)
        PROVE  Dead(f)'
    BY <2>3 DEF CompleteLoad, EraseObject, Fail, Continue, Release
  <2>4. ASSUME NEW r \in Requests, UploadSave(r) \/ PresignSave(r) PROVE Dead(f)'
    BY <2>4 DEF UploadSave, PresignSave, Release
  <2>5. ASSUME NEW r \in Requests, CompleteWrite(r) PROVE Dead(f)'
    BY <2>5 DEF CompleteWrite, Release
  <2>6. ASSUME NEW r \in Requests, DropRow(r) PROVE Dead(f)'
    BY <2>6 DEF DropRow, Release
  <2> QED
    BY <2>1, <2>2, <2>3, <2>4, <2>5, <2>6, NextCases
<1> QED
  BY <1>1, TypeCorrect, StoresInvariant, PTL DEF Spec, DeadStaysDead

-----------------------------------------------------------------------------
(* As files.module.ts mounts the service, without presigned uploads, there   *)
(* are no late posts and no revivals, and nothing is soft-deleted.           *)
MountedInv ==
  ~direct =>
    /\ grants = {} /\ awaiting = {} /\ late = {} /\ revived = {}
    /\ \A f \in Files : row[f] # "soft"
    /\ \A r \in Requests : pc[r] \in {"idle", "saveUpload", "eraseHard", "dropHard"}

THEOREM MountedInvariant == Spec => []MountedInv
<1>1. Init => MountedInv
  BY DEF Init, MountedInv
<1>2. TypeOK /\ MountedInv /\ [Next]_vars => MountedInv'
  <2> SUFFICES ASSUME TypeOK, MountedInv, ~direct, [Next]_vars PROVE MountedInv'
    BY NextCases DEF MountedInv, vars
  <2> USE DEF TypeOK, MountedInv, historyVars
  <2>1. CASE UNCHANGED vars
    BY <2>1 DEF vars
  <2>2. ASSUME NEW f \in Files, ClientPost(f) \/ GrantExpire(f) PROVE MountedInv'
    BY <2>2 DEF ClientPost, GrantExpire
  <2>3. ASSUME NEW r \in Requests, NEW f \in Files,
               UploadPut(r, f) \/ PresignSign(r, f) \/ CompleteFind(r, f) \/ DeleteFind(r, f)
        PROVE  MountedInv'
    BY <2>3 DEF UploadPut, PresignSign, CompleteFind, DeleteFind, Begin
  <2>4. ASSUME NEW r \in Requests,
               UploadSave(r) \/ PresignSave(r) \/ CompleteLoad(r) \/ CompleteWrite(r)
        PROVE  MountedInv'
    BY <2>4 DEF UploadSave, PresignSave, CompleteLoad, CompleteWrite, Release
  <2>5. ASSUME NEW r \in Requests, EraseObject(r) \/ DropRow(r) \/ Fail(r)
        PROVE  MountedInv'
    BY <2>5 DEF EraseObject, Continue, DropRow, Fail, Release
  <2> QED
    BY <2>1, <2>2, <2>3, <2>4, <2>5, NextCases
<1> QED
  BY <1>1, <1>2, TypeCorrect, PTL DEF Spec

(* The stores of the mounted service agree except for files with a request   *)
(* at work on them and for those a failed request left behind.               *)
THEOREM MountedAgree == Spec => []MountedStoresAgree
<1>1. MountedInv /\ StoresInv => MountedStoresAgree
  BY DEF MountedInv, StoresInv, OrphanExplained, DanglingExplained, MountedStoresAgree
<1> QED
  BY <1>1, MountedInvariant, StoresInvariant, PTL

-----------------------------------------------------------------------------
(* Nothing is stored or granted for a key before its request has drawn it,    *)
(* or, of a presigned upload, before its row is there; and whoever works on   *)
(* a file that has been found works on one with a row.                        *)
KeysInv ==
  /\ objects \subseteq drawn /\ grants \subseteq drawn
  /\ \A r \in Requests : pc[r] = "saveGrant" =>
       direct /\ file[r] \notin objects /\ file[r] \notin grants
  /\ \A r \in Requests : pc[r] \in {"eraseSoft", "eraseHard", "dropSoft", "dropHard"}
       => row[file[r]] # "none"

THEOREM KeysInvariant == Spec => []KeysInv
<1>1. Init => KeysInv
  BY DEF Init, KeysInv
<1>2. TypeOK /\ StoresInv /\ KeysInv /\ [Next]_vars => KeysInv'
  <2> SUFFICES ASSUME TypeOK, StoresInv, KeysInv, [Next]_vars PROVE KeysInv'
    OBVIOUS
  <2> USE DEF TypeOK, StoresInv, SavedAlone, KeysInv, historyVars
  <2>0. direct' = direct
    BY NextCases DEF vars
  <2>1. CASE UNCHANGED vars
    BY <2>1 DEF vars
  <2>2. ASSUME NEW f \in Files, ClientPost(f) \/ GrantExpire(f) PROVE KeysInv'
    BY <2>0, <2>2 DEF ClientPost, GrantExpire
  <2>3. ASSUME NEW r \in Requests, NEW f \in Files, UploadPut(r, f) \/ PresignSign(r, f)
        PROVE  KeysInv'
    BY <2>0, <2>3 DEF UploadPut, PresignSign, DrawKey, Begin
  <2>4. ASSUME NEW r \in Requests, NEW f \in Files, CompleteFind(r, f) \/ DeleteFind(r, f)
        PROVE  KeysInv'
    BY <2>0, <2>4 DEF CompleteFind, DeleteFind, Begin
  <2>5. ASSUME NEW r \in Requests, UploadSave(r) \/ PresignSave(r) PROVE KeysInv'
    BY <2>0, <2>5 DEF UploadSave, PresignSave, Release
  <2>6. ASSUME NEW r \in Requests, CompleteLoad(r) \/ CompleteWrite(r) PROVE KeysInv'
    BY <2>0, <2>6 DEF CompleteLoad, CompleteWrite, Release
  <2>7. ASSUME NEW r \in Requests, EraseObject(r) PROVE KeysInv'
    BY <2>0, <2>7 DEF EraseObject, Continue
  <2>8. ASSUME NEW r \in Requests, DropRow(r) \/ Fail(r) PROVE KeysInv'
    BY <2>0, <2>8 DEF DropRow, Fail, Release
  <2> QED
    BY <2>1, <2>2, <2>3, <2>4, <2>5, <2>6, <2>7, <2>8, NextCases
<1> QED
  BY <1>1, <1>2, TypeCorrect, StoresInvariant, PTL DEF Spec

-----------------------------------------------------------------------------
(* Refinement of FileLifecycle.                                             *)

(* What a step does to the phase of one file it does by row or object. *)
LEMMA PhaseKept ==
  ASSUME NEW f \in Files, row'[f] = row[f], f \in objects' <=> f \in objects
  PROVE  phaseBar'[f] = phaseBar[f]
  BY DEF phaseBar

LEMMA PhaseUpdate ==
  ASSUME NEW f \in Files, NEW to,
         phaseBar'[f] = to, \A g \in Files \ {f} : phaseBar'[g] = phaseBar[g]
  PROVE  phaseBar' = [phaseBar EXCEPT ![f] = to]
  BY DEF phaseBar

(* The insert of an upload lists a file with its object. *)
LEMMA UploadPublishes ==
  ASSUME TypeOK, StoresInv, NEW r \in Requests, UploadSave(r)
  PROVE  Lifecycle!Publish(file[r])
<1> DEFINE f == file[r]
<1>1. /\ f \in Files /\ pc[r] = "saveUpload" /\ row[f] = "none" /\ f \in objects
      /\ row' = [row EXCEPT ![f] = "live"] /\ objects' = objects /\ grants' = grants
      /\ pc' = [pc EXCEPT ![r] = "idle"]
      /\ \A q \in Requests \ {r} : file'[q] = file[q]
  BY DEF UploadSave, Release, historyVars, TypeOK, StoresInv, SavedAlone
<1>2. phaseBar[f] = "absent" /\ phaseBar'[f] = "full"
  BY <1>1 DEF phaseBar, TypeOK
<1>3. \A g \in Files \ {f} : phaseBar'[g] = phaseBar[g]
  BY <1>1, PhaseKept DEF TypeOK
<1>4. Completing' = Completing
  BY <1>1 DEF Completing, TypeOK
<1> QED
  BY <1>1, <1>2, <1>3, <1>4, PhaseUpdate DEF Lifecycle!Publish, Lifecycle!Turn

(* The insert of a presigned upload lists a file without one. *)
LEMMA PresignOffers ==
  ASSUME TypeOK, StoresInv, KeysInv, NEW r \in Requests, PresignSave(r)
  PROVE  Lifecycle!Offer(file[r])
<1> DEFINE f == file[r]
<1>1. /\ f \in Files /\ pc[r] = "saveGrant" /\ row[f] = "none" /\ f \notin objects
      /\ direct /\ row' = [row EXCEPT ![f] = "live"] /\ objects' = objects
      /\ grants' = grants \cup {f} /\ pc' = [pc EXCEPT ![r] = "idle"]
      /\ \A q \in Requests \ {r} : file'[q] = file[q]
  BY DEF PresignSave, Release, TypeOK, StoresInv, SavedAlone, KeysInv
<1>2. phaseBar[f] = "absent" /\ phaseBar'[f] = "empty"
  BY <1>1 DEF phaseBar, TypeOK
<1>3. \A g \in Files \ {f} : phaseBar'[g] = phaseBar[g]
  BY <1>1, PhaseKept DEF TypeOK
<1>4. Completing' = Completing
  BY <1>1 DEF Completing, TypeOK
<1> QED
  BY <1>1, <1>2, <1>3, <1>4, PhaseUpdate DEF Lifecycle!Offer, Lifecycle!Turn

(* A post fills a listed file that is empty, and is not seen otherwise. *)
LEMMA PostFills ==
  ASSUME TypeOK, NEW f \in Files, ClientPost(f), UNCHANGED direct
  PROVE  Lifecycle!Fill(f) \/ UNCHANGED Lifecycle!lifecycleVars
<1>1. /\ f \in grants /\ row' = row /\ objects' = objects \cup {f}
      /\ grants' = grants /\ pc' = pc /\ file' = file
  BY DEF ClientPost
<1>2. Completing' = Completing
  BY <1>1 DEF Completing
<1>3. \A g \in Files \ {f} : phaseBar'[g] = phaseBar[g]
  BY <1>1, PhaseKept
<1>4. CASE row[f] = "live" /\ f \notin objects
  <2>1. phaseBar[f] = "empty" /\ phaseBar'[f] = "full"
    BY <1>1, <1>4 DEF phaseBar
  <2> QED
    BY <1>1, <1>2, <1>3, <2>1, PhaseUpdate DEF Lifecycle!Fill, Lifecycle!Turn
<1>5. CASE ~(row[f] = "live" /\ f \notin objects)
  <2>1. phaseBar'[f] = phaseBar[f]
    BY <1>1, <1>5 DEF phaseBar
  <2>2. phaseBar' = phaseBar
    BY <1>3, <2>1 DEF phaseBar
  <2> QED
    BY <1>1, <1>2, <2>2 DEF Lifecycle!lifecycleVars
<1> QED
  BY <1>4, <1>5

(* Taking the object of a listed file empties it. *)
LEMMA EraseEmpties ==
  ASSUME TypeOK, NEW r \in Requests, EraseObject(r), UNCHANGED direct
  PROVE  Lifecycle!Empty(file[r]) \/ UNCHANGED Lifecycle!lifecycleVars
<1> DEFINE f == file[r]
<1>1. /\ f \in Files /\ row' = row /\ objects' = objects \ {f}
      /\ grants' = grants /\ file' = file
      /\ \/ pc[r] = "eraseSoft" /\ pc' = [pc EXCEPT ![r] = "dropSoft"]
         \/ pc[r] = "eraseHard" /\ pc' = [pc EXCEPT ![r] = "dropHard"]
  BY DEF EraseObject, Continue, TypeOK
<1>2. Completing' = Completing
  BY <1>1 DEF Completing, TypeOK
<1>3. \A g \in Files \ {f} : phaseBar'[g] = phaseBar[g]
  BY <1>1, PhaseKept
<1>4. CASE row[f] = "live" /\ f \in objects
  <2>1. phaseBar[f] = "full" /\ phaseBar'[f] = "empty"
    BY <1>1, <1>4 DEF phaseBar
  <2> QED
    BY <1>1, <1>2, <1>3, <2>1, PhaseUpdate DEF Lifecycle!Empty, Lifecycle!Turn
<1>5. CASE ~(row[f] = "live" /\ f \in objects)
  <2>1. phaseBar'[f] = phaseBar[f]
    BY <1>1, <1>5 DEF phaseBar
  <2>2. phaseBar' = phaseBar
    BY <1>3, <2>1 DEF phaseBar
  <2> QED
    BY <1>1, <1>2, <2>2 DEF Lifecycle!lifecycleVars
<1> QED
  BY <1>4, <1>5

(* Dropping the row ends a listed file: an empty one, or one that was filled *)
(* since its object was taken, which takes a grant.                          *)
LEMMA DropEnds ==
  ASSUME TypeOK, StoresInv, MountedInv, KeysInv, NEW r \in Requests, DropRow(r),
         UNCHANGED direct
  PROVE  Lifecycle!End(file[r]) \/ UNCHANGED Lifecycle!lifecycleVars
<1> DEFINE f == file[r]
<1>1. /\ f \in Files /\ pc[r] \in {"dropSoft", "dropHard"} /\ row[f] # "none"
      /\ row'[f] \in {"soft", "gone"} /\ \A g \in Files \ {f} : row'[g] = row[g]
      /\ objects' = objects /\ grants' = grants /\ pc' = [pc EXCEPT ![r] = "idle"]
      /\ \A q \in Requests \ {r} : file'[q] = file[q]
  BY DEF DropRow, Release, TypeOK, KeysInv
<1>2. Completing' = Completing
  BY <1>1 DEF Completing, TypeOK
<1>3. \A g \in Files \ {f} : phaseBar'[g] = phaseBar[g]
  BY <1>1, PhaseKept
<1>4. phaseBar'[f] = "ended"
  BY <1>1 DEF phaseBar
<1>5. CASE row[f] = "live"
  <2>1. phaseBar[f] = IF f \in objects THEN "full" ELSE "empty"
    BY <1>1, <1>5 DEF phaseBar
  <2>2. f \in objects => direct
    BY <1>1 DEF StoresInv, ErasedBeforeDrop, Dropping, At, MountedInv
  <2> QED
    BY <1>1, <1>2, <1>3, <1>4, <2>1, <2>2, PhaseUpdate DEF Lifecycle!End, Lifecycle!Turn
<1>6. CASE row[f] # "live"
  <2>1. phaseBar[f] = "ended"
    BY <1>1, <1>6 DEF phaseBar
  <2>2. phaseBar' = phaseBar
    BY <1>3, <1>4, <2>1 DEF phaseBar
  <2> QED
    BY <1>1, <1>2, <2>2 DEF Lifecycle!lifecycleVars
<1> QED
  BY <1>5, <1>6

(* A completion that is over may have been the last of its file. *)
LEMMA CompletionLeaves ==
  ASSUME TypeOK, NEW r \in Requests, pc[r] \in {"completeLoad", "completeWrite"},
         Release(r)
  PROVE  /\ file[r] \in Completing
         /\ Completing' \in {Completing, Completing \ {file[r]}}
<1>1. /\ pc' = [pc EXCEPT ![r] = "idle"]
      /\ \A q \in Requests \ {r} : file'[q] = file[q]
  BY DEF Release, TypeOK
<1>2. Completing' =
        {file[q] : q \in {p \in Requests \ {r} :
                            pc[p] \in {"completeLoad", "completeWrite"}}}
  BY <1>1 DEF Completing, TypeOK
<1>3. Completing =
        {file[r]} \cup {file[q] : q \in {p \in Requests \ {r} :
                            pc[p] \in {"completeLoad", "completeWrite"}}}
  BY DEF Completing
<1> QED
  BY <1>2, <1>3

(* The save of a completion brings a file back that has ended, or does nothing. *)
LEMMA SaveRestores ==
  ASSUME TypeOK, NEW r \in Requests, CompleteWrite(r), UNCHANGED direct
  PROVE  \/ Lifecycle!Restore(file[r]) \/ Lifecycle!FinishCompletion(file[r])
         \/ UNCHANGED Lifecycle!lifecycleVars
<1> DEFINE f == file[r]
<1>1. f \in Files /\ objects' = objects /\ grants' = grants
  BY DEF CompleteWrite, TypeOK
<1>2. f \in Completing /\ Completing' \in {Completing, Completing \ {f}}
  BY CompletionLeaves DEF CompleteWrite
<1>3. CASE row[f] \in {"soft", "gone"} /\ row' = [row EXCEPT ![f] = "live"]
  <2>1. phaseBar[f] = "ended" /\ phaseBar'[f] \in {"empty", "full"}
    BY <1>1, <1>3 DEF phaseBar, TypeOK
  <2>2. \A g \in Files \ {f} : phaseBar'[g] = phaseBar[g]
    BY <1>1, <1>3, PhaseKept DEF TypeOK
  <2> QED
    BY <1>1, <1>2, <2>1, <2>2, PhaseUpdate DEF Lifecycle!Restore, Lifecycle!Turn
<1>4. CASE row' = row
  <2>1. phaseBar' = phaseBar
    BY <1>1, <1>4 DEF phaseBar
  <2> QED
    BY <1>1, <1>2, <2>1 DEF Lifecycle!FinishCompletion, Lifecycle!lifecycleVars
<1> QED
  BY <1>3, <1>4 DEF CompleteWrite

(* The rest of the steps touch neither the phase of a file nor the grants. *)
LEMMA PhasesKept ==
  ASSUME TypeOK, UNCHANGED row,
         objects' = objects \/ \E f \in Files : row[f] = "none" /\ objects' = objects \cup {f}
  PROVE  phaseBar' = phaseBar
  BY DEF phaseBar, TypeOK

LEMMA LifecycleStep ==
  ASSUME TypeOK, StoresInv, MountedInv, KeysInv, Next
  PROVE  Lifecycle!LifecycleNext
<1> USE DEF Lifecycle!LifecycleNext, historyVars
<1>0. UNCHANGED direct
  BY NextCases
<1>1. ASSUME NEW f \in Files, ClientPost(f) PROVE Lifecycle!LifecycleNext
  BY <1>0, <1>1, PostFills
<1>2. ASSUME NEW f \in Files, GrantExpire(f) PROVE Lifecycle!LifecycleNext
  <2>1. phaseBar' = phaseBar /\ Completing' = Completing
    BY <1>2 DEF GrantExpire, phaseBar, Completing
  <2>2. Lifecycle!Lapse(f)
    BY <1>2, <2>1 DEF GrantExpire, Lifecycle!Lapse
  <2> QED
    BY <1>0, <2>2
<1>3. ASSUME NEW r \in Requests, NEW f \in Files, UploadPut(r, f) \/ PresignSign(r, f)
      PROVE  Lifecycle!LifecycleNext
  <2>1. phaseBar' = phaseBar
    BY <1>3, PhasesKept DEF UploadPut, PresignSign, DrawKey, StoresInv, SavedAlone
  <2>2. Completing' = Completing
    BY <1>3 DEF UploadPut, PresignSign, Begin, Completing, TypeOK
  <2> QED
    BY <1>0, <1>3, <2>1, <2>2 DEF UploadPut, PresignSign, Lifecycle!lifecycleVars
<1>4. ASSUME NEW r \in Requests, NEW f \in Files, CompleteFind(r, f)
      PROVE  Lifecycle!LifecycleNext
  <2>1. phaseBar' = phaseBar /\ phaseBar[f] \in {"empty", "full"}
    BY <1>4 DEF CompleteFind, phaseBar
  <2>2. Completing' = Completing \cup {f}
    BY <1>4 DEF CompleteFind, Begin, Completing, TypeOK
  <2>3. Lifecycle!StartCompletion(f)
    BY <1>4, <2>1, <2>2 DEF CompleteFind, Lifecycle!StartCompletion
  <2> QED
    BY <1>0, <2>3
<1>5. ASSUME NEW r \in Requests, NEW f \in Files, DeleteFind(r, f)
      PROVE  Lifecycle!LifecycleNext
  <2>1. phaseBar' = phaseBar
    BY <1>5 DEF DeleteFind, phaseBar
  <2>2. Completing' = Completing
    BY <1>5 DEF DeleteFind, Begin, Completing, TypeOK
  <2> QED
    BY <1>0, <1>5, <2>1, <2>2 DEF DeleteFind, Lifecycle!lifecycleVars
<1>6. ASSUME NEW r \in Requests, UploadSave(r) \/ PresignSave(r)
      PROVE  Lifecycle!LifecycleNext
  <2>1. file[r] \in Files
    BY <1>6 DEF UploadSave, PresignSave, TypeOK
  <2> QED
    BY <1>0, <1>6, <2>1, UploadPublishes, PresignOffers
<1>7. ASSUME NEW r \in Requests, CompleteLoad(r) PROVE Lifecycle!LifecycleNext
  <2>1. phaseBar' = phaseBar
    BY <1>7 DEF CompleteLoad, phaseBar
  <2>2. Completing' = Completing
    BY <1>7 DEF CompleteLoad, Completing, TypeOK
  <2> QED
    BY <1>0, <1>7, <2>1, <2>2 DEF CompleteLoad, Lifecycle!lifecycleVars
<1>8. ASSUME NEW r \in Requests, CompleteWrite(r) PROVE Lifecycle!LifecycleNext
  <2>1. file[r] \in Files
    BY <1>8 DEF CompleteWrite, TypeOK
  <2> QED
    BY <1>0, <1>8, <2>1, SaveRestores
<1>9. ASSUME NEW r \in Requests, EraseObject(r) \/ DropRow(r) PROVE Lifecycle!LifecycleNext
  <2>1. file[r] \in Files
    BY <1>9 DEF EraseObject, Continue, DropRow, TypeOK
  <2> QED
    BY <1>0, <1>9, <2>1, EraseEmpties, DropEnds
<1>10. ASSUME NEW r \in Requests, Fail(r) PROVE Lifecycle!LifecycleNext
  <2>1. phaseBar' = phaseBar /\ grants' = grants
    BY <1>10 DEF Fail, phaseBar
  <2>2. CASE pc[r] \in {"completeLoad", "completeWrite"}
    <3>1. /\ file[r] \in Files /\ file[r] \in Completing
          /\ Completing' \in {Completing, Completing \ {file[r]}}
      BY <1>10, <2>2, CompletionLeaves DEF Fail, TypeOK
    <3> QED
      BY <1>0, <2>1, <3>1 DEF Lifecycle!FinishCompletion, Lifecycle!lifecycleVars
  <2>3. CASE pc[r] \notin {"completeLoad", "completeWrite"}
    <3>1. Completing' = Completing
      BY <1>10, <2>3 DEF Fail, Release, Completing, TypeOK
    <3> QED
      BY <1>0, <2>1, <3>1 DEF Lifecycle!lifecycleVars
  <2> QED
    BY <2>2, <2>3
<1> QED
  BY <1>1, <1>2, <1>3, <1>4, <1>5, <1>6, <1>7, <1>8, <1>9, <1>10, NextCases

(* The service implements FileLifecycle, whichever routes are mounted: as it  *)
(* is mounted, a file is listed only once its object is there, loses the      *)
(* object only to be ended next, and never returns.                           *)
THEOREM Refinement == Spec => FilesRefined
<1>1. Init => Lifecycle!LifecycleInit
  BY DEF Init, Lifecycle!LifecycleInit, phaseBar, Completing
<1>2. UNCHANGED vars => UNCHANGED Lifecycle!lifecycleVars
  BY DEF vars, Lifecycle!lifecycleVars, phaseBar, Completing
<1>3. TypeOK /\ StoresInv /\ MountedInv /\ KeysInv /\ [Next]_vars
        => [Lifecycle!LifecycleNext]_Lifecycle!lifecycleVars
  BY <1>2, LifecycleStep
<1> QED
  BY <1>1, <1>3, TypeCorrect, StoresInvariant, MountedInvariant, KeysInvariant, PTL
     DEF Spec, FilesRefined, Lifecycle!LifecycleSpec

=============================================================================
