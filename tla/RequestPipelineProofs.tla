------------------------ MODULE RequestPipelineProofs ------------------------
(***************************************************************************)
(* Proofs about RequestPipeline: what a request leaves behind names one    *)
(* trace, requests do not mix theirs, only refused requests are answered   *)
(* without the header, and a handler runs in its caller's role.            *)
(***************************************************************************)
EXTENDS RequestPipeline, TLAPS

Early == {"new", "guards", "admitted"}

(* What holds of the ids of one request.  The properties say nothing about    *)
(* the header and the context, and the steps read both.                       *)
TraceOK(r) ==
  /\ store[r] = reply[r]
  /\ emitted[r] \cup sent[r] \cup calls[r] \subseteq {reply[r]}
  /\ given[r] # None => header[r] = given[r]
  /\ reply[r] = None => header[r] = given[r]
  /\ reply[r] # None => header[r] = reply[r] /\ stage[r] \notin Early
  /\ body[r] # None => stage[r] = "answered" /\ header[r] \in {None, body[r]}
  /\ stage[r] = "new" => given[r] = None
  /\ stage[r] \in Early => emitted[r] \cup sent[r] \cup calls[r] = {}
  /\ {given[r], reply[r], body[r]} \ {None} \subseteq used

(* What holds of one request in the server of main.ts. *)
ToldOK(r) ==
  r \notin lambda /\ reply[r] = None =>
    /\ stage[r] # "handler"
    /\ emitted[r] \cup sent[r] \cup calls[r] = {}
    /\ stage[r] \in {"raised", "answered"} => route[r] # "public"
    /\ stage[r] = "answered" /\ route[r] # "outside" => body[r] # None

(* What the guards have established for one request. *)
LookOK(r) ==
  /\ stage[r] = "new" => looks[r] = 0
  /\ stage[r] = "guards" => looks[r] < Guards /\ route[r] \in {"own", "admin"}
  /\ stage[r] \in {"admitted", "handler"} /\ route[r] \in {"own", "admin"} =>
       looks[r] > 0
  /\ stage[r] \in UnderWay /\ route[r] \in {"own", "admin"} /\ looks[r] > 0 =>
       role[caller[r]] \in Admits(route[r]) \/ r \in overtaken

(* An id two requests have come to by different ways is a client's. *)
Apart ==
  \A r, s \in Requests : \A i \in Ids :
    r # s /\ i \in {reply[r], body[r]} /\ i \in {reply[s], body[s]}
    => i \in {given[r], given[s]}

IInv ==
  /\ TypeOK
  /\ \A r \in Requests : TraceOK(r) /\ ToldOK(r) /\ LookOK(r)
  /\ Apart

-----------------------------------------------------------------------------
THEOREM InitIInv == Init => IInv
<1> SUFFICES ASSUME Init PROVE IInv
  OBVIOUS
<1> USE RolesAssumption, IdsAssumption, HooksAssumption
<1>1. TypeOK
  BY DEF Init, TypeOK, Nothing, Stages, UnderWay, Routes, Guards, OptionalId
<1>2. ASSUME NEW r \in Requests PROVE TraceOK(r) /\ ToldOK(r) /\ LookOK(r)
  BY DEF Init, Nothing, TraceOK, ToldOK, LookOK, Early, UnderWay
<1>3. Apart
  BY DEF Init, Nothing, Apart
<1> QED
  BY <1>1, <1>2, <1>3 DEF IInv

(* A request that arrives has left nothing behind yet. *)
LEMMA ArriveKeeps ==
  ASSUME NEW r \in Requests, IInv, Arrive(r) PROVE IInv'
<1> USE RolesAssumption, IdsAssumption, HooksAssumption DEF TypeOK, Arrive,
     GoTo, guardVars, traceVars, handlerVars, requestVars
<1>1. TypeOK'
  BY DEF IInv, Stages, UnderWay, OptionalId, Routes, Guards
<1>2. ASSUME NEW q \in Requests PROVE TraceOK(q)' /\ ToldOK(q)'
  <2>1. TraceOK(q) /\ ToldOK(q) /\ LookOK(q)
    BY DEF IInv
  <2> QED
    BY <2>1 DEF IInv, TraceOK, ToldOK, Early, UnderWay, TraceOK, LookOK
<1>3. ASSUME NEW q \in Requests PROVE LookOK(q)'
  <2>1. LookOK(q)
    BY DEF IInv
  <2>2. CASE q = r
    BY <2>1, <2>2 DEF IInv, LookOK, UnderWay, Guards, Routes
  <2>3. CASE q # r
    BY <2>1, <2>3 DEF IInv, LookOK, UnderWay, Guards
  <2> QED
    BY <2>2, <2>3
<1>4. Apart'
  BY DEF IInv, Apart, TraceOK, Early
<1> QED
  BY <1>1, <1>2, <1>3, <1>4 DEF IInv

(* A changed role overtakes the requests it matters to. *)
LEMMA ChangeRoleKeeps ==
  ASSUME NEW u \in Users, IInv, ChangeRole(u) PROVE IInv'
<1> USE RolesAssumption, IdsAssumption, HooksAssumption DEF TypeOK,
     ChangeRole, GoTo, guardVars, traceVars, handlerVars, requestVars
<1>1. TypeOK'
  BY DEF IInv
<1>2. ASSUME NEW q \in Requests PROVE TraceOK(q)' /\ ToldOK(q)'
  <2>1. TraceOK(q) /\ ToldOK(q) /\ LookOK(q)
    BY DEF IInv
  <2> QED
    BY <2>1 DEF IInv, TraceOK, ToldOK, Early
<1>3. ASSUME NEW q \in Requests PROVE LookOK(q)'
  <2>1. LookOK(q)
    BY DEF IInv
  <2> QED
    BY <2>1 DEF IInv, LookOK, UnderWay
<1>4. Apart'
  BY DEF IInv, Apart
<1> QED
  BY <1>1, <1>2, <1>3, <1>4 DEF IInv

(* What the guard lets on has just been seen in the table. *)
LEMMA GuardLookKeeps ==
  ASSUME NEW r \in Requests, IInv, GuardLook(r) PROVE IInv'
<1> USE RolesAssumption, IdsAssumption, HooksAssumption DEF TypeOK, GuardLook,
     GoTo, guardVars, traceVars, handlerVars, requestVars
<1>1. TypeOK'
  BY DEF IInv, LastLook, Stages, UnderWay, OptionalId, Guards, LookOK
<1>2. ASSUME NEW q \in Requests PROVE TraceOK(q)' /\ ToldOK(q)'
  <2>1. TraceOK(q) /\ ToldOK(q) /\ LookOK(q)
    BY DEF IInv
  <2> QED
    BY <2>1 DEF IInv, TraceOK, ToldOK, Early, LastLook, UnderWay, LookOK
<1>3. ASSUME NEW q \in Requests PROVE LookOK(q)'
  <2>1. LookOK(q)
    BY DEF IInv
  <2> QED
    BY <2>1 DEF IInv, LookOK, LastLook, UnderWay, Loaded, Admits, Guards
<1>4. Apart'
  BY DEF IInv, Apart, LastLook
<1> QED
  BY <1>1, <1>2, <1>3, <1>4 DEF IInv

LEMMA GuardRefuseKeeps ==
  ASSUME NEW r \in Requests, IInv, GuardRefuse(r) PROVE IInv'
<1> USE RolesAssumption, IdsAssumption, HooksAssumption DEF TypeOK,
     GuardRefuse, GoTo, guardVars, traceVars, handlerVars, requestVars
<1>1. TypeOK'
  BY DEF IInv, Stages, UnderWay, OptionalId
<1>2. ASSUME NEW q \in Requests PROVE TraceOK(q)' /\ ToldOK(q)'
  <2>1. TraceOK(q) /\ ToldOK(q) /\ LookOK(q)
    BY DEF IInv
  <2> QED
    BY <2>1 DEF IInv, TraceOK, ToldOK, Early, UnderWay, LookOK
<1>3. ASSUME NEW q \in Requests PROVE LookOK(q)'
  <2>1. LookOK(q)
    BY DEF IInv
  <2> QED
    BY <2>1 DEF IInv, LookOK, UnderWay
<1>4. Apart'
  BY DEF IInv, Apart
<1> QED
  BY <1>1, <1>2, <1>3, <1>4 DEF IInv

(* The id is the client's, or one nobody has. *)
LEMMA InterceptKeeps ==
  ASSUME NEW r \in Requests, IInv, Intercept(r) PROVE IInv'
<1> USE RolesAssumption, IdsAssumption, HooksAssumption DEF TypeOK, Intercept,
     GoTo, guardVars, traceVars, handlerVars, requestVars
<1>1. TypeOK'
  BY DEF IInv, Extract, Fresh, Stages, UnderWay, OptionalId
<1>2. ASSUME NEW q \in Requests PROVE TraceOK(q)' /\ ToldOK(q)'
  <2>1. TraceOK(q) /\ ToldOK(q) /\ LookOK(q)
    BY DEF IInv
  <2> QED
    BY <2>1 DEF IInv, TraceOK, ToldOK, Early, Extract, Fresh, UnderWay
<1>3. ASSUME NEW q \in Requests PROVE LookOK(q)'
  <2>1. LookOK(q)
    BY DEF IInv
  <2> QED
    BY <2>1 DEF IInv, LookOK, Extract, Fresh, UnderWay
<1>4. Apart'
  BY DEF IInv, Apart, Extract, Fresh, TraceOK, Early
<1> QED
  BY <1>1, <1>2, <1>3, <1>4 DEF IInv

LEMMA EnterKeeps ==
  ASSUME NEW r \in Requests, IInv, Enter(r) PROVE IInv'
<1> USE RolesAssumption, IdsAssumption, HooksAssumption DEF TypeOK, Enter,
     GoTo, guardVars, traceVars, handlerVars, requestVars
<1>1. TypeOK'
  BY DEF IInv, Stages, UnderWay, OptionalId
<1>2. ASSUME NEW q \in Requests PROVE TraceOK(q)' /\ ToldOK(q)'
  <2>1. TraceOK(q) /\ ToldOK(q) /\ LookOK(q)
    BY DEF IInv
  <2> QED
    BY <2>1 DEF IInv, TraceOK, ToldOK, Early, UnderWay
<1>3. ASSUME NEW q \in Requests PROVE LookOK(q)'
  <2>1. LookOK(q)
    BY DEF IInv
  <2> QED
    BY <2>1 DEF IInv, LookOK, UnderWay
<1>4. Apart'
  BY DEF IInv, Apart
<1> QED
  BY <1>1, <1>2, <1>3, <1>4 DEF IInv

LEMMA LogOrAddKeeps ==
  ASSUME NEW r \in Requests, IInv, LogOrAdd(r) PROVE IInv'
<1> USE RolesAssumption, IdsAssumption, HooksAssumption DEF TypeOK, LogOrAdd,
     GoTo, guardVars, traceVars, handlerVars, requestVars
<1>1. TypeOK'
  BY DEF IInv, Stages, UnderWay, OptionalId
<1>2. ASSUME NEW q \in Requests PROVE TraceOK(q)' /\ ToldOK(q)'
  <2>1. TraceOK(q) /\ ToldOK(q) /\ LookOK(q)
    BY DEF IInv
  <2> QED
    BY <2>1 DEF IInv, TraceOK, ToldOK, Early, UnderWay
<1>3. ASSUME NEW q \in Requests PROVE LookOK(q)'
  <2>1. LookOK(q)
    BY DEF IInv
  <2> QED
    BY <2>1 DEF IInv, LookOK, UnderWay
<1>4. Apart'
  BY DEF IInv, Apart
<1> QED
  BY <1>1, <1>2, <1>3, <1>4 DEF IInv

LEMMA PrepareCallKeeps ==
  ASSUME NEW r \in Requests, IInv, PrepareCall(r) PROVE IInv'
<1> USE RolesAssumption, IdsAssumption, HooksAssumption DEF TypeOK,
     PrepareCall, TracingHeaders, GoTo, guardVars, traceVars, handlerVars, requestVars
<1>1. TypeOK'
  BY DEF IInv, Stages, UnderWay, OptionalId
<1>2. ASSUME NEW q \in Requests PROVE TraceOK(q)' /\ ToldOK(q)'
  <2>1. TraceOK(q) /\ ToldOK(q) /\ LookOK(q)
    BY DEF IInv
  <2> QED
    BY <2>1 DEF IInv, TraceOK, ToldOK, Early, UnderWay
<1>3. ASSUME NEW q \in Requests PROVE LookOK(q)'
  <2>1. LookOK(q)
    BY DEF IInv
  <2> QED
    BY <2>1 DEF IInv, LookOK, UnderWay
<1>4. Apart'
  BY DEF IInv, Apart
<1> QED
  BY <1>1, <1>2, <1>3, <1>4 DEF IInv

LEMMA GetAxiosRefKeeps ==
  ASSUME NEW r \in Requests, IInv, GetAxiosRef(r) PROVE IInv'
<1> USE RolesAssumption, IdsAssumption, HooksAssumption DEF TypeOK,
     GetAxiosRef, GoTo, guardVars, traceVars, handlerVars, requestVars
<1>1. TypeOK'
  BY DEF IInv, Stages, UnderWay, OptionalId
<1>2. ASSUME NEW q \in Requests PROVE TraceOK(q)' /\ ToldOK(q)'
  <2>1. TraceOK(q) /\ ToldOK(q) /\ LookOK(q)
    BY DEF IInv
  <2> QED
    BY <2>1 DEF IInv, TraceOK, ToldOK, Early, UnderWay
<1>3. ASSUME NEW q \in Requests PROVE LookOK(q)'
  <2>1. LookOK(q)
    BY DEF IInv
  <2> QED
    BY <2>1 DEF IInv, LookOK, UnderWay
<1>4. Apart'
  BY DEF IInv, Apart
<1> QED
  BY <1>1, <1>2, <1>3, <1>4 DEF IInv

LEMMA ReturnKeeps ==
  ASSUME NEW r \in Requests, IInv, Return(r) PROVE IInv'
<1> USE RolesAssumption, IdsAssumption, HooksAssumption DEF TypeOK, Return,
     GoTo, guardVars, traceVars, handlerVars, requestVars
<1>1. TypeOK'
  BY DEF IInv, Stages, UnderWay, OptionalId
<1>2. ASSUME NEW q \in Requests PROVE TraceOK(q)' /\ ToldOK(q)'
  <2>1. TraceOK(q) /\ ToldOK(q) /\ LookOK(q)
    BY DEF IInv
  <2> QED
    BY <2>1 DEF IInv, TraceOK, ToldOK, Early, UnderWay
<1>3. ASSUME NEW q \in Requests PROVE LookOK(q)'
  <2>1. LookOK(q)
    BY DEF IInv
  <2> QED
    BY <2>1 DEF IInv, LookOK, UnderWay
<1>4. Apart'
  BY DEF IInv, Apart
<1> QED
  BY <1>1, <1>2, <1>3, <1>4 DEF IInv

LEMMA ThrowKeeps ==
  ASSUME NEW r \in Requests, IInv, Throw(r) PROVE IInv'
<1> USE RolesAssumption, IdsAssumption, HooksAssumption DEF TypeOK, Throw,
     GoTo, guardVars, traceVars, handlerVars, requestVars
<1>1. TypeOK'
  BY DEF IInv, Stages, UnderWay, OptionalId
<1>2. ASSUME NEW q \in Requests PROVE TraceOK(q)' /\ ToldOK(q)'
  <2>1. TraceOK(q) /\ ToldOK(q) /\ LookOK(q)
    BY DEF IInv
  <2> QED
    BY <2>1 DEF IInv, TraceOK, ToldOK, Early, UnderWay
<1>3. ASSUME NEW q \in Requests PROVE LookOK(q)'
  <2>1. LookOK(q)
    BY DEF IInv
  <2> QED
    BY <2>1 DEF IInv, LookOK, UnderWay
<1>4. Apart'
  BY DEF IInv, Apart
<1> QED
  BY <1>1, <1>2, <1>3, <1>4 DEF IInv

LEMMA DefaultFilterKeeps ==
  ASSUME NEW r \in Requests, IInv, DefaultFilter(r) PROVE IInv'
<1> USE RolesAssumption, IdsAssumption, HooksAssumption DEF TypeOK,
     DefaultFilter, GoTo, guardVars, traceVars, handlerVars, requestVars
<1>1. TypeOK'
  BY DEF IInv, Stages, UnderWay, OptionalId
<1>2. ASSUME NEW q \in Requests PROVE TraceOK(q)' /\ ToldOK(q)'
  <2>1. TraceOK(q) /\ ToldOK(q) /\ LookOK(q)
    BY DEF IInv
  <2> QED
    BY <2>1 DEF IInv, TraceOK, ToldOK, Early, UnderWay
<1>3. ASSUME NEW q \in Requests PROVE LookOK(q)'
  <2>1. LookOK(q)
    BY DEF IInv
  <2> QED
    BY <2>1 DEF IInv, LookOK, UnderWay
<1>4. Apart'
  BY DEF IInv, Apart
<1> QED
  BY <1>1, <1>2, <1>3, <1>4 DEF IInv

LEMMA SendCallKeeps ==
  ASSUME NEW r \in Requests, IInv, SendCall(r) PROVE IInv'
<1> USE RolesAssumption, IdsAssumption, HooksAssumption DEF TypeOK, SendCall,
     GoTo, guardVars, traceVars, handlerVars, requestVars
<1>1. TypeOK'
  BY DEF IInv, HookId, TracingHeaders, Stages, UnderWay, OptionalId
<1>2. ASSUME NEW q \in Requests PROVE TraceOK(q)' /\ ToldOK(q)'
  <2>1. TraceOK(q) /\ ToldOK(q) /\ LookOK(q)
    BY DEF IInv
  <2> QED
    BY <2>1 DEF IInv, TraceOK, ToldOK, Early, HookId, TracingHeaders, UnderWay
<1>3. ASSUME NEW q \in Requests PROVE LookOK(q)'
  <2>1. LookOK(q)
    BY DEF IInv
  <2> QED
    BY <2>1 DEF IInv, LookOK, HookId, TracingHeaders, UnderWay
<1>4. Apart'
  BY DEF IInv, Apart, HookId, TracingHeaders
<1> QED
  BY <1>1, <1>2, <1>3, <1>4 DEF IInv

LEMMA SendDirectKeeps ==
  ASSUME NEW r \in Requests, IInv, SendDirect(r) PROVE IInv'
<1> USE RolesAssumption, IdsAssumption, HooksAssumption DEF TypeOK,
     SendDirect, GoTo, guardVars, traceVars, handlerVars, requestVars
<1>1. TypeOK'
  BY DEF IInv, HookId, TracingHeaders, Stages, UnderWay, OptionalId
<1>2. ASSUME NEW q \in Requests PROVE TraceOK(q)' /\ ToldOK(q)'
  <2>1. TraceOK(q) /\ ToldOK(q) /\ LookOK(q)
    BY DEF IInv
  <2> QED
    BY <2>1 DEF IInv, TraceOK, ToldOK, Early, HookId, TracingHeaders, UnderWay
<1>3. ASSUME NEW q \in Requests PROVE LookOK(q)'
  <2>1. LookOK(q)
    BY DEF IInv
  <2> QED
    BY <2>1 DEF IInv, LookOK, HookId, TracingHeaders, UnderWay
<1>4. Apart'
  BY DEF IInv, Apart, HookId, TracingHeaders
<1> QED
  BY <1>1, <1>2, <1>3, <1>4 DEF IInv

LEMMA FilterKeeps ==
  ASSUME NEW r \in Requests, IInv, Filter(r) PROVE IInv'
<1> USE RolesAssumption, IdsAssumption, HooksAssumption DEF TypeOK, Filter,
     GoTo, guardVars, traceVars, handlerVars, requestVars
<1>1. TypeOK'
  BY DEF IInv, Extract, Fresh, Stages, UnderWay, OptionalId
<1>2. ASSUME NEW q \in Requests PROVE TraceOK(q)' /\ ToldOK(q)'
  <2>1. TraceOK(q) /\ ToldOK(q) /\ LookOK(q)
    BY DEF IInv
  <2> QED
    BY <2>1 DEF IInv, TraceOK, ToldOK, Early, Extract, Fresh, UnderWay
<1>3. ASSUME NEW q \in Requests PROVE LookOK(q)'
  <2>1. LookOK(q)
    BY DEF IInv
  <2> QED
    BY <2>1 DEF IInv, LookOK, Extract, Fresh, UnderWay
<1>4. Apart'
  BY DEF IInv, Apart, Extract, Fresh, TraceOK, Early
<1> QED
  BY <1>1, <1>2, <1>3, <1>4 DEF IInv

THEOREM StepIInv == IInv /\ [Next]_vars => IInv'
<1> SUFFICES ASSUME IInv, [Next]_vars PROVE IInv'
  OBVIOUS
<1>1. ASSUME NEW r \in Requests, Arrive(r) \/ Handle(r) \/ Proceed(r) PROVE
     IInv'
  BY <1>1, ArriveKeeps, LogOrAddKeeps, PrepareCallKeeps, SendCallKeeps,
     GetAxiosRefKeeps, SendDirectKeeps, GuardLookKeeps, GuardRefuseKeeps,
     InterceptKeeps, EnterKeeps, ReturnKeeps, ThrowKeeps, FilterKeeps,
     DefaultFilterKeeps
     DEF Handle, Proceed
<1>2. ASSUME NEW u \in Users, ChangeRole(u) PROVE IInv'
  BY <1>2, ChangeRoleKeeps
<1>3. CASE UNCHANGED vars
  BY <1>3 DEF IInv, TypeOK, TraceOK, ToldOK, LookOK, Apart, vars, guardVars,
     traceVars, handlerVars, requestVars
<1> QED
  BY <1>1, <1>2, <1>3 DEF Next

THEOREM Inductive == Spec => []IInv
BY InitIInv, StepIInv, PTL DEF Spec

-----------------------------------------------------------------------------
(* The types. *)
THEOREM TypeCorrect == Spec => []TypeOK
<1>1. IInv => TypeOK
  BY DEF IInv
<1> QED
  BY <1>1, Inductive, PTL

(* Headers, logs, tasks, calls and error body of a request name one trace, *)
(* for every number of requests and hooks (logging.interceptor.ts).        *)
THEOREM OneTraceHolds == Spec => []OneTrace
<1>1. IInv => OneTrace
  BY DEF IInv, TypeOK, TraceOK, OneTrace
<1> QED
  BY <1>1, Inductive, PTL

(* Interleaved requests have an id in common only if a client sent it to *)
(* one of them (tracing.service.ts).                                     *)
THEOREM TracesApartHolds == Spec => []TracesApart
<1>1. ASSUME IInv PROVE TracesApart
  <2> SUFFICES ASSUME NEW r \in Requests, NEW s \in Requests,
                      NEW i \in Trail(r) \cap Trail(s), r # s
               PROVE  i \in {given[r], given[s]}
    BY DEF TracesApart
  <2>1. /\ i \in {reply[r], body[r]} /\ i \in {reply[s], body[s]}
        /\ i \in Ids
    BY <1>1 DEF IInv, TraceOK, Trail, TypeOK, OptionalId
  <2> QED
    BY <1>1, <2>1 DEF IInv, Apart
<1> QED
  BY <1>1, Inductive, PTL

(* A routed request is answered by the server of main.ts without the header *)
(* only if it was refused before its handler, and then its body has the id  *)
(* (global-exception.filter.ts).                                            *)
THEOREM UntoldIsRefusedHolds == Spec => []UntoldIsRefused
<1>1. IInv => UntoldIsRefused
  BY DEF IInv, TraceOK, ToldOK, UntoldIsRefused
<1> QED
  BY <1>1, Inductive, PTL

(* A handler runs outside its caller's role only if the role changed after *)
(* the last guard's look (jwt-auth.guard.ts, roles.guard.ts).              *)
THEOREM ActsInRoleHolds == Spec => []ActsInRole
<1>1. IInv => ActsInRole
  BY DEF IInv, LookOK, UnderWay, ActsInRole
<1> QED
  BY <1>1, Inductive, PTL
=============================================================================
