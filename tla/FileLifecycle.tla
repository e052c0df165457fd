---------------------------- MODULE FileLifecycle ----------------------------
(***************************************************************************)
(* What FilesService promises of each file, without requests, rows or      *)
(* objects.  A file is absent, listed with its content (full), listed      *)
(* without (empty), or ended.  As the service is mounted a file appears    *)
(* full, loses its content only to be ended next, and never comes back.    *)
(* With the routes of the direct upload it may also be offered empty,      *)
(* filled by a client whose grant has not expired, and brought back by a   *)
(* completion that began while it was listed.                              *)
(***************************************************************************)
CONSTANT Files

VARIABLES
  direct,     \* whether the routes of the direct upload are mounted
  phase,      \* per file
  grants,     \* files a client may fill
  completing  \* files with a completion under way

lifecycleVars == <<direct, phase, grants, completing>>

LifecycleInit ==
  /\ direct \in BOOLEAN
  /\ phase = [f \in Files |-> "absent"]
  /\ grants = {} /\ completing = {}

Turn(f, from, to) ==
  /\ phase[f] \in from
  /\ phase' = [phase EXCEPT ![f] = to]

(* An upload is listed once its content is there. *)
Publish(f) == Turn(f, {"absent"}, "full") /\ UNCHANGED <<grants, completing>>

(* A delete takes the content, *)
Empty(f) == Turn(f, {"full"}, "empty") /\ UNCHANGED <<grants, completing>>

(* and then the entry: a client that may fill the file can have done so in   *)
(* between.                                                                  *)
End(f) ==
  /\ \/ Turn(f, {"empty"}, "ended")
     \/ direct /\ Turn(f, {"full"}, "ended")
  /\ UNCHANGED <<grants, completing>>

(* A presigned upload is listed with nothing in it yet. *)
Offer(f) ==
  /\ direct /\ Turn(f, {"absent"}, "empty")
  /\ grants' = grants \cup {f}
  /\ UNCHANGED completing

Fill(f) == f \in grants /\ Turn(f, {"empty"}, "full") /\ UNCHANGED <<grants, completing>>

Lapse(f) == f \in grants /\ grants' = grants \ {f} /\ UNCHANGED <<phase, completing>>

(* A completion starts on a listed file only; *)
StartCompletion(f) ==
  /\ direct /\ phase[f] \in {"empty", "full"}
  /\ completing' = completing \cup {f}
  /\ UNCHANGED <<phase, grants>>

(* it may bring back a file ended meanwhile, *)
Restore(f) ==
  /\ f \in completing
  /\ Turn(f, {"ended"}, "empty") \/ Turn(f, {"ended"}, "full")
  /\ completing' \in {completing, completing \ {f}}
  /\ UNCHANGED grants

(* or be done, or lost, without. *)
FinishCompletion(f) ==
  /\ f \in completing
  /\ completing' = completing \ {f}
  /\ UNCHANGED <<phase, grants>>

(* Most steps of the service show nothing here.  That is said first, although *)
(* LifecycleSpec allows for it, because TLC tries the disjuncts in order.     *)
LifecycleNext ==
  /\ UNCHANGED direct
  /\ \/ UNCHANGED lifecycleVars
     \/ \E f \in Files :
          \/ Publish(f) \/ Empty(f) \/ End(f)
          \/ Offer(f) \/ Fill(f) \/ Lapse(f)
          \/ StartCompletion(f) \/ Restore(f) \/ FinishCompletion(f)

LifecycleSpec == LifecycleInit /\ [][LifecycleNext]_lifecycleVars

=============================================================================
