-------------------------- MODULE SessionLifecycle --------------------------
(***************************************************************************)
(* What the refresh-token table promises, without requests, rows or time.  *)
(* A session is named by the token value its login issued.  A value is     *)
(* drawn once, waits to be stored, may be stored, and once it has gone it  *)
(* never comes back; a session opens once and, once closed, stays closed.  *)
(***************************************************************************)
CONSTANT Tokens

VARIABLES token, session

lifecycleVars == <<token, session>>

TokenPhases == {"fresh", "pending", "live", "dead"}
SessionPhases == {"unused", "open", "closed"}

LifecycleInit ==
  /\ token = [t \in Tokens |-> "fresh"]
  /\ session = [t \in Tokens |-> "unused"]

(* A login draws a fresh value, which names a new session. *)
Open(t) ==
  /\ token[t] = "fresh" /\ session[t] = "unused"
  /\ token' = [token EXCEPT ![t] = "pending"]
  /\ session' = [session EXCEPT ![t] = "open"]

(* A refresh draws a fresh value for a session f that is open: the value     *)
(* names no session of its own.                                              *)
Renew(t, f) ==
  /\ token[t] = "fresh" /\ session[t] = "unused"
  /\ session[f] = "open"
  /\ token' = [token EXCEPT ![t] = "pending"]
  /\ session' = [session EXCEPT ![t] = "closed"]

(* The value drawn is stored and can be presented from now on. *)
Store(t) ==
  /\ token[t] = "pending"
  /\ token' = [token EXCEPT ![t] = "live"]
  /\ UNCHANGED session

(* Tokens disappear (revocation, logout, expiry, a failed request), which    *)
(* may close sessions.                                                       *)
Drop ==
  /\ token' \in [Tokens -> TokenPhases] /\ session' \in [Tokens -> SessionPhases]
  /\ \A t \in Tokens :
       /\ token'[t] # token[t] => token[t] \in {"pending", "live"} /\ token'[t] = "dead"
       /\ session'[t] # session[t] => session[t] = "open" /\ session'[t] = "closed"

LifecycleNext ==
  \/ UNCHANGED lifecycleVars
  \/ Drop
  \/ \E t \in Tokens : Open(t) \/ Store(t)
  \/ \E t, f \in Tokens : Renew(t, f)

LifecycleSpec == LifecycleInit /\ [][LifecycleNext]_lifecycleVars

=============================================================================
