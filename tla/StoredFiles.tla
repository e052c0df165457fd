----------------------------- MODULE StoredFiles -----------------------------
(***************************************************************************)
(* FilesService (src/src/modules/files/files.service.ts) over two stores   *)
(* that share no transaction: the objects StorageService puts and deletes, *)
(* and the table files.  A file is named by its key, which a request draws *)
(* with a fresh uuid; row and object of a file carry the same name.        *)
(*                                                                         *)
(* The module that is mounted serves upload, download and the admin's      *)
(* removal.  The presigned upload, its completion and the owner's soft     *)
(* delete are in the service too, reached from a controller that           *)
(* files.module.ts does not mount; direct says whether they run.           *)
(*                                                                         *)
(* Refused requests (404, or 400 for another user's file) and reads change *)
(* nothing and are not steps.                                              *)
(***************************************************************************)
CONSTANTS
  Files,    \* keys, drawn one by one
  Requests, \* requests being served at the same time
  None

VARIABLES
  direct,   \* whether src/src/modules/files/files.controller.ts is mounted
  row,      \* per file: "none", "live", "soft" (deletedAt set) or "gone"
  objects,  \* files with an object in the bucket or upload directory
  drawn,    \* keys drawn so far
  grants,   \* files with a presigned POST that has not expired
  pc, file, \* per request: where it is, and on which file
  seen,     \* per completion: the row its save has loaded
  awaiting, \* history: presigned files the client has not posted yet
  unsaved,  \* history: uploads that died between the put and the save
  halfway,  \* history: files a delete erased without getting to their row
  late,     \* history: files posted with the row dead or about to die
  revived   \* history: files a completion brought back

vars == <<direct, row, objects, drawn, grants, pc, file, seen, awaiting,
          unsaved, halfway, late, revived>>
historyVars == <<awaiting, unsaved, halfway, late, revived>>

RowStates == {"none", "live", "soft", "gone"}
Places == {"idle", "saveUpload", "saveGrant", "completeLoad", "completeWrite",
           "eraseSoft", "eraseHard", "dropSoft", "dropHard"}

(* The types, and what each place has at hand: its file, and for the write of *)
(* a completion the row its save has loaded.                                  *)
TypeOK ==
  /\ direct \in BOOLEAN
  /\ row \in [Files -> RowStates]
  /\ objects \subseteq Files /\ drawn \subseteq Files /\ grants \subseteq Files
  /\ pc \in [Requests -> Places]
  /\ file \in [Requests -> {None} \cup Files]
  /\ seen \in [Requests -> {None} \cup RowStates]
  /\ \A r \in Requests : /\ pc[r] # "idle" => file[r] \in Files
                         /\ pc[r] = "completeWrite" => seen[r] \in RowStates
  /\ awaiting \subseteq Files /\ unsaved \subseteq Files /\ halfway \subseteq Files
  /\ late \subseteq Files /\ revived \subseteq Files

-----------------------------------------------------------------------------
Init ==
  /\ direct \in BOOLEAN
  /\ row = [f \in Files |-> "none"]
  /\ objects = {} /\ drawn = {} /\ grants = {}
  /\ pc = [r \in Requests |-> "idle"]
  /\ file = [r \in Requests |-> None]
  /\ seen = [r \in Requests |-> None]
  /\ awaiting = {} /\ unsaved = {} /\ halfway = {} /\ late = {} /\ revived = {}

At(place, f) == \E r \in Requests : pc[r] = place /\ file[r] = f

(* A delete has erased the object and not yet touched the row. *)
Dropping(f) == At("dropSoft", f) \/ At("dropHard", f)

Begin(r, f, place) ==
  /\ pc[r] = "idle"
  /\ pc' = [pc EXCEPT ![r] = place]
  /\ file' = [file EXCEPT ![r] = f]
  /\ UNCHANGED seen

Continue(r, from, to) ==
  /\ pc[r] = from
  /\ pc' = [pc EXCEPT ![r] = to]
  /\ UNCHANGED <<file, seen>>

Release(r) ==
  /\ pc' = [pc EXCEPT ![r] = "idle"]
  /\ file' = [file EXCEPT ![r] = None]
  /\ seen' = [seen EXCEPT ![r] = None]

(* generateKey: a key nobody has. *)
DrawKey(f) ==
  /\ f \in Files \ drawn
  /\ drawn' = drawn \cup {f}

-----------------------------------------------------------------------------
(* Faulty variant of UploadPut: a put that failed goes unnoticed. *)
UploadPutUnchecked(r, f) ==
  /\ DrawKey(f)
  /\ Begin(r, f, "saveUpload")
  /\ objects' \in {objects, objects \cup {f}}
  /\ UNCHANGED <<row, grants, historyVars>>

(* uploadFile: the object is put under a fresh key, then the row is saved. *)
UploadPut(r, f) ==
  /\ DrawKey(f)
  /\ Begin(r, f, "saveUpload")
  /\ objects' = objects \cup {f}
  /\ UNCHANGED <<row, grants, historyVars>>

UploadSave(r) ==
  /\ pc[r] = "saveUpload"
  /\ row' = [row EXCEPT ![file[r]] = "live"]
  /\ Release(r)
  /\ UNCHANGED <<objects, drawn, grants, historyVars>>

(* getPresignedUploadUrl: a POST is signed for a fresh key, and a row of size *)
(* 0 is saved before the client gets to see it.                               *)
PresignSign(r, f) ==
  /\ direct
  /\ DrawKey(f)
  /\ Begin(r, f, "saveGrant")
  /\ UNCHANGED <<row, objects, grants, historyVars>>

PresignSave(r) ==
  /\ pc[r] = "saveGrant"
  /\ row' = [row EXCEPT ![file[r]] = "live"]
  /\ grants' = grants \cup {file[r]}
  /\ awaiting' = awaiting \cup {file[r]}
  /\ Release(r)
  /\ UNCHANGED <<objects, drawn, unsaved, halfway, late, revived>>

(* The client posts with its grant, any number of times until it expires. *)
ClientPost(f) ==
  /\ f \in grants
  /\ objects' = objects \cup {f}
  /\ awaiting' = awaiting \ {f}
  /\ late' = IF row[f] = "live" /\ ~Dropping(f) THEN late ELSE late \cup {f}
  /\ UNCHANGED <<row, drawn, grants, pc, file, seen, unsaved, halfway, revived>>

GrantExpire(f) ==
  /\ f \in grants
  /\ grants' = grants \ {f}
  /\ UNCHANGED <<row, objects, drawn, pc, file, seen, historyVars>>

(* Faulty variant of CompleteFind: soft-deleted rows are found as well. *)
CompleteFindDeleted(r, f) ==
  /\ direct
  /\ row[f] \in {"live", "soft"}
  /\ Begin(r, f, "completeLoad")
  /\ UNCHANGED <<row, objects, drawn, grants, historyVars>>

(* completeUpload: findOne, then save, which loads the row again (deleted or *)
(* not) and writes whatever differs from the entity found first.             *)
CompleteFind(r, f) ==
  /\ direct
  /\ row[f] = "live"
  /\ Begin(r, f, "completeLoad")
  /\ UNCHANGED <<row, objects, drawn, grants, historyVars>>

(* Faulty variant of CompleteLoad: save writes without loading the row. *)
CompleteLoadSkipped(r) ==
  /\ Continue(r, "completeLoad", "completeWrite")
  /\ UNCHANGED <<row, objects, drawn, grants, historyVars>>

CompleteLoad(r) ==
  /\ pc[r] = "completeLoad"
  /\ pc' = [pc EXCEPT ![r] = "completeWrite"]
  /\ seen' = [seen EXCEPT ![r] = row[file[r]]]
  /\ UNCHANGED <<row, objects, drawn, grants, file, historyVars>>

(* A row loaded as deleted has a deletedAt that differs from the entity's    *)
(* null: the update clears it.  A row loaded as missing is inserted anew.  An *)
(* update of a row that has gone meanwhile touches nothing, and so does an   *)
(* insert refused because the row is there.                                  *)
CompleteWrite(r) ==
  LET f == file[r]
      back == \/ seen[r] = "soft" /\ row[f] = "soft"
              \/ seen[r] = "gone" /\ row[f] = "gone"
  IN /\ pc[r] = "completeWrite"
     /\ row' = IF back THEN [row EXCEPT ![f] = "live"] ELSE row
     /\ revived' = IF back THEN revived \cup {f} ELSE revived
     /\ Release(r)
     /\ UNCHANGED <<objects, drawn, grants, awaiting, unsaved, halfway, late>>

(* deleteFile (soft, by the owner) and remove (hard, by an admin): findOne, *)
(* then the object, then the row.                                           *)
DeleteFind(r, f) ==
  /\ row[f] = "live"
  /\ \/ direct /\ Begin(r, f, "eraseSoft")
     \/ Begin(r, f, "eraseHard")
  /\ UNCHANGED <<row, objects, drawn, grants, historyVars>>

(* Faulty variant of EraseObject: a delete the store refused goes unnoticed. *)
EraseObjectUnchecked(r) ==
  /\ \/ Continue(r, "eraseSoft", "dropSoft")
     \/ Continue(r, "eraseHard", "dropHard")
  /\ objects' \in {objects, objects \ {file[r]}}
  /\ UNCHANGED <<row, drawn, grants, historyVars>>

EraseObject(r) ==
  /\ \/ Continue(r, "eraseSoft", "dropSoft")
     \/ Continue(r, "eraseHard", "dropHard")
  /\ objects' = objects \ {file[r]}
  /\ UNCHANGED <<row, drawn, grants, historyVars>>

(* softDelete is an update by id; remove is a delete by id. *)
DropRow(r) ==
  LET f == file[r]
  IN /\ \/ /\ pc[r] = "dropSoft"
           /\ row' = [row EXCEPT ![f] = IF @ = "gone" THEN "gone" ELSE "soft"]
        \/ /\ pc[r] = "dropHard"
           /\ row' = [row EXCEPT ![f] = "gone"]
     /\ Release(r)
     /\ UNCHANGED <<objects, drawn, grants, historyVars>>

(* A statement or a call to the store fails, or the process dies. *)
Fail(r) ==
  /\ pc[r] # "idle"
  /\ unsaved' = IF pc[r] = "saveUpload" THEN unsaved \cup {file[r]} ELSE unsaved
  /\ halfway' = IF pc[r] \in {"dropSoft", "dropHard"}
                THEN halfway \cup {file[r]} ELSE halfway
  /\ Release(r)
  /\ UNCHANGED <<row, objects, drawn, grants, awaiting, late, revived>>

Upload(r) == UploadSave(r) \/ \E f \in Files : UploadPut(r, f)

Direct(r) ==
  \/ \E f \in Files : PresignSign(r, f) \/ CompleteFind(r, f)
  \/ PresignSave(r) \/ CompleteLoad(r) \/ CompleteWrite(r)

Delete(r) ==
  \/ \E f \in Files : DeleteFind(r, f)
  \/ EraseObject(r) \/ DropRow(r)

(* What is mounted is settled when the application starts. *)
Next ==
  /\ UNCHANGED direct
  /\ \/ \E f \in Files : ClientPost(f) \/ GrantExpire(f)
     \/ \E r \in Requests : Upload(r) \/ Direct(r) \/ Delete(r) \/ Fail(r)

Spec == Init /\ [][Next]_vars

-----------------------------------------------------------------------------
(* An object no live row leads to is an upload about to be saved or lost on  *)
(* its way, or was posted by a client whose file was dead or dying: a delete *)
(* never leaves one behind by itself (files.service.ts:143-147, 189-193).    *)
OrphanExplained ==
  \A f \in objects : row[f] # "live" =>
    At("saveUpload", f) \/ f \in unsaved \/ f \in late

(* A live row whose object is missing, so that getFile answers with a URL to *)
(* nothing, waits for its client's first post, is being deleted, was left    *)
(* halfway by a delete, or was brought back by a completion.                 *)
DanglingExplained ==
  \A f \in Files : row[f] = "live" /\ f \notin objects =>
    f \in awaiting \/ Dropping(f) \/ f \in halfway \/ f \in revived

(* A dead file comes back only by a completion that had found it alive: with *)
(* none in flight, no call that comes later brings it back, a completion     *)
(* included (files.service.ts:151-163, 146, 193).                            *)
Completing ==
  {file[r] : r \in {q \in Requests : pc[q] \in {"completeLoad", "completeWrite"}}}
Dead(f) == row[f] \in {"soft", "gone"} /\ f \notin Completing
DeadStaysDeadStep == \A f \in Files : Dead(f) => Dead(f)'
DeadStaysDead == [][DeadStaysDeadStep]_vars

(* As the service is mounted, without the direct routes, row and object      *)
(* disagree only while an upload or a delete is between its two writes, or   *)
(* for good after one has failed there: every other cause of an orphan or a  *)
(* dangling row lies in the routes files.module.ts leaves out.               *)
MountedStoresAgree ==
  ~direct => \A f \in Files :
    /\ f \in objects /\ row[f] # "live" => At("saveUpload", f) \/ f \in unsaved
    /\ row[f] = "live" /\ f \notin objects => Dropping(f) \/ f \in halfway

-----------------------------------------------------------------------------
(* The mapping to FileLifecycle. *)
phaseBar ==
  [f \in Files |-> IF row[f] = "none" THEN "absent"
                   ELSE IF row[f] # "live" THEN "ended"
                   ELSE IF f \in objects THEN "full" ELSE "empty"]

Lifecycle == INSTANCE FileLifecycle WITH phase <- phaseBar, completing <- Completing

(* Every behaviour of the two stores is one of FileLifecycle, whichever       *)
(* routes are mounted: as it is mounted no file is ever listed before its     *)
(* object is there, or seen again after a delete has taken its object.        *)
FilesRefined == Lifecycle!LifecycleSpec

=============================================================================
