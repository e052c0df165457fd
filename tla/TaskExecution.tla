---------------------------- MODULE TaskExecution ----------------------------
(***************************************************************************)
(* What background tasks promise to whoever adds one, without queues,      *)
(* messages, jobs or workers: a task is accepted once, it is carried out   *)
(* for nobody who did not ask, it is reported completed only after it was  *)
(* carried out, and nothing reported is ever taken back.  A task delivered *)
(* once has one outcome.                                                   *)
(***************************************************************************)
CONSTANTS
  Tasks,
  Redelivered   \* whether a task may be delivered more than once

VARIABLES accepted, carriedOut, completed, failed

executionVars == <<accepted, carriedOut, completed, failed>>

ExecutionInit ==
  /\ accepted = {} /\ carriedOut = {} /\ completed = {} /\ failed = {}

Accept(t) ==
  /\ t \notin accepted
  /\ accepted' = accepted \cup {t}
  /\ UNCHANGED <<carriedOut, completed, failed>>

CarryOut(t) ==
  /\ t \in accepted \ carriedOut
  /\ carriedOut' = carriedOut \cup {t}
  /\ UNCHANGED <<accepted, completed, failed>>

Complete(t) ==
  /\ t \in carriedOut \ completed
  /\ t \in failed => Redelivered
  /\ completed' = completed \cup {t}
  /\ UNCHANGED <<accepted, carriedOut, failed>>

GiveUp(t) ==
  /\ t \in accepted \ failed
  /\ t \in completed => Redelivered
  /\ failed' = failed \cup {t}
  /\ UNCHANGED <<accepted, carriedOut, completed>>

ExecutionNext ==
  \E t \in Tasks : Accept(t) \/ CarryOut(t) \/ Complete(t) \/ GiveUp(t)

ExecutionSpec == ExecutionInit /\ [][ExecutionNext]_executionVars

=============================================================================
