--------------------------- MODULE RequestPipeline ---------------------------
(***************************************************************************)
(* The way of an HTTP request through the application: the guards, the     *)
(* LoggingInterceptor, the handler with what it calls, and the answer or   *)
(* the GlobalExceptionFilter.  Two things cross it.  The caller's role is  *)
(* read from the table users by each JwtAuthGuard of the route, while      *)
(* others change that table.  The trace id comes from the client or is     *)
(* drawn; it is kept in the request's headers, in the response's headers   *)
(* and in an AsyncLocalStorage context (TracingService), from which log    *)
(* lines, background tasks and outgoing calls take it.                     *)
(* The server of main.ts installs interceptor and filter; the handler of   *)
(* lambda.ts serves the same routes without them.                          *)
(* x-request-id and x-correlation-id go the way of x-trace-id.             *)
(***************************************************************************)
EXTENDS Naturals

CONSTANTS
  Requests,    \* requests, each served once
  Users,       \* accounts a bearer token may name
  Roles,       \* values of users.role
  AdminRoles,  \* those named by @Roles on the admin controllers
  Ids,         \* trace ids
  MaxHooks,    \* bound on the calls of getAxiosRef
  None

ASSUME RolesAssumption == AdminRoles \subseteq Roles /\ None \notin Roles
ASSUME IdsAssumption == None \notin Ids
ASSUME HooksAssumption == MaxHooks \in Nat

VARIABLES
  role,       \* users.role, None when the account is missing or removed
  lambda,     \* requests served by the handler of lambda.ts
  stage,      \* per request: where it is
  route,      \* per request: what the router matched
  caller,     \* per request: the account its bearer token names
  looks,      \* per request: how many guards have loaded the account
  overtaken,  \* history: requests whose caller's role changed after the last load
  given,      \* history, per request: the trace id the client sent
  used,       \* ids that have been sent or drawn
  header,     \* request.headers['x-trace-id']
  reply,      \* trace id in the headers of the response
  body,       \* trace id in the body of an error response
  store,      \* traceId in the context the handler runs in
  calls,      \* trace ids in the configs of outgoing calls that were prepared
  hooks,      \* pairs of interceptors on the shared axios instance
  sent,       \* trace ids of the calls that went out
  emitted     \* trace ids of the handler's log lines and tasks

guardVars == <<role, looks, overtaken>>
traceVars == <<used, header, reply, body, store>>
handlerVars == <<calls, hooks, sent, emitted>>
requestVars == <<lambda, route, caller, given>>
vars == <<stage, guardVars, traceVars, handlerVars, requestVars>>

UnderWay == {"guards", "admitted", "handler"}
Stages == UnderWay \cup {"new", "raised", "answered"}

(* "public": @Public().  "own": the routes of a signed-in user.  "admin":    *)
(* @Roles(ADMIN, SUPER_ADMIN).  "unmatched": no route or a body that does    *)
(* not parse, Nest raises a 404 or 400.  "outside": answered by middleware   *)
(* in front of Nest's router (CORS preflight, served files, Swagger, the     *)
(* queue dashboard).                                                         *)
Routes == {"outside", "unmatched", "public", "own", "admin"}

(* The roles a route lets in. *)
Admits(t) == CASE t = "admin" -> AdminRoles [] t = "own" -> Roles [] OTHER -> {}

(* The guard runs twice: as APP_GUARD and again by @UseGuards. *)
Guards == 2

OptionalId == Ids \cup {None}

(* The types. *)
TypeOK ==
  /\ role \in [Users -> Roles \cup {None}]
  /\ lambda \subseteq Requests
  /\ stage \in [Requests -> Stages]
  /\ route \in [Requests -> Routes]
  /\ caller \in [Requests -> Users]
  /\ looks \in [Requests -> 0..Guards]
  /\ overtaken \subseteq Requests
  /\ given \in [Requests -> OptionalId]
  /\ used \subseteq Ids
  /\ header \in [Requests -> OptionalId]
  /\ reply \in [Requests -> OptionalId]
  /\ body \in [Requests -> OptionalId]
  /\ store \in [Requests -> OptionalId]
  /\ calls \in [Requests -> SUBSET OptionalId]
  /\ hooks \in 0..MaxHooks
  /\ sent \in [Requests -> SUBSET OptionalId]
  /\ emitted \in [Requests -> SUBSET OptionalId]

-----------------------------------------------------------------------------
Nothing == [r \in Requests |-> None]

Init ==
  /\ role \in [Users -> Roles \cup {None}]
  /\ lambda \in SUBSET Requests
  /\ stage = [r \in Requests |-> "new"]
  /\ route = [r \in Requests |-> "unmatched"]
  /\ caller \in [Requests -> Users]
  /\ looks = [r \in Requests |-> 0] /\ overtaken = {}
  /\ given = Nothing /\ used = {} /\ header = Nothing
  /\ reply = Nothing /\ body = Nothing /\ store = Nothing
  /\ calls = [r \in Requests |-> {}] /\ hooks = 0
  /\ sent = [r \in Requests |-> {}] /\ emitted = [r \in Requests |-> {}]

GoTo(r, s) == stage' = [stage EXCEPT ![r] = s]

(* A request arrives, with an id the client chose, perhaps one it has seen   *)
(* in another answer, or without.  Guards have nothing to do on public       *)
(* routes and are not reached by unmatched ones; what is answered outside    *)
(* the router meets neither guard nor interceptor nor filter.                *)
Arrive(r) ==
  \E t \in Routes, i \in OptionalId :
    /\ stage[r] = "new"
    /\ GoTo(r, CASE t = "outside" -> "answered" [] t = "unmatched" -> "raised"
                 [] t = "public" -> "admitted" [] OTHER -> "guards")
    /\ route' = [route EXCEPT ![r] = t]
    /\ given' = [given EXCEPT ![r] = i]
    /\ header' = [header EXCEPT ![r] = i]
    /\ used' = used \cup ({i} \ {None})
    /\ UNCHANGED <<guardVars, lambda, caller, reply, body, store, handlerVars>>

(* UsersService.update or remove: an account gets another role or goes. *)
ChangeRole(u) ==
  \E x \in Roles \cup {None} :
    /\ x # role[u]
    /\ role' = [role EXCEPT ![u] = x]
    /\ overtaken' = overtaken \cup
         {r \in Requests : caller[r] = u /\ looks[r] > 0 /\ stage[r] \in UnderWay}
    /\ UNCHANGED <<stage, looks, traceVars, handlerVars, requestVars>>

-----------------------------------------------------------------------------
(* Faulty variant of Loaded: the role comes from the payload of the token,   *)
(* which says what it was when the token was signed.                         *)
LoadedFromToken(r, x) == x \in Roles

(* JwtStrategy.validate: what req.user says is what the table says now. *)
Loaded(r, x) == x = role[caller[r]]

(* Faulty variant of LastLook: one guard too many. *)
LastLookLate(r) == looks[r] = Guards

LastLook(r) == looks[r] + 1 = Guards

(* JwtAuthGuard, whose strategy loads the account of the payload's sub, then  *)
(* RolesGuard, which compares req.user.role with the route's roles.  Both     *)
(* together let the request on, or one of them refuses it.                    *)
GuardLook(r) ==
  \E x \in Roles \cup {None} :
    /\ stage[r] = "guards"
    /\ Loaded(r, x)
    /\ looks' = [looks EXCEPT ![r] = @ + 1]
    /\ overtaken' = overtaken \ {r}
    /\ GoTo(r, CASE x \notin Admits(route[r]) -> "raised"
                 [] x \in Admits(route[r]) /\ LastLook(r) -> "admitted"
                 [] OTHER -> "guards")
    /\ UNCHANGED <<role, traceVars, handlerVars, requestVars>>

(* passport finds no bearer token, or one that is malformed or has expired. *)
GuardRefuse(r) ==
  /\ stage[r] = "guards"
  /\ GoTo(r, "raised")
  /\ UNCHANGED <<guardVars, traceVars, handlerVars, requestVars>>

-----------------------------------------------------------------------------
(* uuid(): an id nobody has sent or drawn. *)
Fresh(i) == i \notin used

(* TracingService.extractFromHeaders: the client's id or a new one. *)
Extract(r, i) == IF header[r] # None THEN i = header[r] ELSE Fresh(i)

(* Faulty variant of Intercept: the context is a static field. *)
InterceptStatic(r) ==
  \E i \in Ids :
    /\ stage[r] = "admitted" /\ r \notin lambda
    /\ Extract(r, i)
    /\ used' = used \cup {i}
    /\ header' = [header EXCEPT ![r] = i]
    /\ reply' = [reply EXCEPT ![r] = i]
    /\ store' = [s \in Requests |-> i]
    /\ GoTo(r, "handler")
    /\ UNCHANGED <<guardVars, body, handlerVars, requestVars>>

(* Faulty variant of Intercept: only an id the server drew is sent back. *)
InterceptSilent(r) ==
  \E i \in Ids :
    /\ stage[r] = "admitted" /\ r \notin lambda
    /\ Extract(r, i)
    /\ used' = used \cup {i}
    /\ header' = [header EXCEPT ![r] = i]
    /\ reply' = [reply EXCEPT ![r] = IF header[r] = None THEN i ELSE None]
    /\ store' = [store EXCEPT ![r] = i]
    /\ GoTo(r, "handler")
    /\ UNCHANGED <<guardVars, body, handlerVars, requestVars>>

(* LoggingInterceptor.intercept: the id goes into the headers of the request  *)
(* and of the response, and the handler is run in a context that has it.      *)
Intercept(r) ==
  \E i \in Ids :
    /\ stage[r] = "admitted" /\ r \notin lambda
    /\ Extract(r, i)
    /\ used' = used \cup {i}
    /\ header' = [header EXCEPT ![r] = i]
    /\ reply' = [reply EXCEPT ![r] = i]
    /\ store' = [store EXCEPT ![r] = i]
    /\ GoTo(r, "handler")
    /\ UNCHANGED <<guardVars, body, handlerVars, requestVars>>

(* Served by the Lambda, the request goes straight to its handler. *)
Enter(r) ==
  /\ stage[r] = "admitted" /\ r \in lambda
  /\ GoTo(r, "handler")
  /\ UNCHANGED <<guardVars, traceVars, handlerVars, requestVars>>

-----------------------------------------------------------------------------
(* Steps of handlers and of the services under them.                          *)
(* A line by LoggerService, or a task by QueueService.add: both take the ids  *)
(* of the current context.  A line by a Logger of Nest takes none and is left *)
(* out.                                                                       *)
LogOrAdd(r) ==
  /\ stage[r] = "handler"
  /\ emitted' = [emitted EXCEPT ![r] = @ \cup {store[r]}]
  /\ UNCHANGED <<stage, guardVars, traceVars, calls, hooks, sent, requestVars>>

(* TracingService.getTracingHeaders: the id of the context, if it has one. *)
TracingHeaders(r) == store[r]

(* TracedHttpService.get, post, ...: the headers are put together when the    *)
(* method is called, the request is sent when the Observable is subscribed.   *)
PrepareCall(r) ==
  /\ stage[r] = "handler"
  /\ calls' = [calls EXCEPT ![r] = @ \cup {TracingHeaders(r)}]
  /\ UNCHANGED <<stage, guardVars, traceVars, hooks, sent, emitted, requestVars>>

(* Faulty variant of HookId: the hook keeps the headers of the request that   *)
(* installed it.                                                              *)
HookIdCaptured(r, i) == \E s \in Requests : i = TracingHeaders(s)

(* The request interceptor that getAxiosRef installs reads the context that   *)
(* is current when a call is sent.                                            *)
HookId(r, i) == i = TracingHeaders(r)

(* A prepared call is subscribed, perhaps again by a retry: inside the        *)
(* context or, when the Observable was handed to somebody else, outside (not   *)
(* inside the context of another request, to which no code hands one).         *)
SendCall(r) ==
  \E c \in calls[r], i \in OptionalId :
    /\ stage[r] = "handler"
    /\ \/ i = c
       \/ hooks > 0 /\ i # None /\ HookId(r, i)
    /\ sent' = [sent EXCEPT ![r] = @ \cup {i}]
    /\ UNCHANGED <<stage, guardVars, traceVars, calls, hooks, emitted, requestVars>>

(* TracedHttpService.getAxiosRef: every call installs another pair of         *)
(* interceptors on the one instance.                                          *)
GetAxiosRef(r) ==
  /\ stage[r] = "handler" /\ hooks < MaxHooks
  /\ hooks' = hooks + 1
  /\ UNCHANGED <<stage, guardVars, traceVars, calls, sent, emitted, requestVars>>

(* A call through that instance, without TracedHttpService's own headers. *)
SendDirect(r) ==
  \E i \in OptionalId :
    /\ stage[r] = "handler" /\ hooks > 0
    /\ HookId(r, i)
    /\ sent' = [sent EXCEPT ![r] = @ \cup {i}]
    /\ UNCHANGED <<stage, guardVars, traceVars, calls, hooks, emitted, requestVars>>

(* The handler returns and the response is sent. *)
Return(r) ==
  /\ stage[r] = "handler"
  /\ GoTo(r, "answered")
  /\ calls' = [calls EXCEPT ![r] = {}]
  /\ UNCHANGED <<guardVars, traceVars, hooks, sent, emitted, requestVars>>

(* The handler, a pipe or a service throws. *)
Throw(r) ==
  /\ stage[r] = "handler"
  /\ GoTo(r, "raised")
  /\ calls' = [calls EXCEPT ![r] = {}]
  /\ UNCHANGED <<guardVars, traceVars, hooks, sent, emitted, requestVars>>

(* GlobalExceptionFilter.catch.  Nest calls it where the interceptors'        *)
(* context has been left or has not been entered; should it be current, the   *)
(* filter prefers it.  Otherwise the id is taken from the request's headers.  *)
Filter(r) ==
  \E i \in Ids :
    /\ stage[r] = "raised" /\ r \notin lambda
    /\ Extract(r, i) \/ i = store[r]
    /\ used' = used \cup {i}
    /\ body' = [body EXCEPT ![r] = i]
    /\ GoTo(r, "answered")
    /\ UNCHANGED <<guardVars, header, reply, store, handlerVars, requestVars>>

(* In the Lambda, Nest's own filter answers. *)
DefaultFilter(r) ==
  /\ stage[r] = "raised" /\ r \in lambda
  /\ GoTo(r, "answered")
  /\ UNCHANGED <<guardVars, traceVars, handlerVars, requestVars>>

Handle(r) ==
  \/ LogOrAdd(r) \/ PrepareCall(r) \/ SendCall(r) \/ GetAxiosRef(r) \/ SendDirect(r)

Proceed(r) ==
  \/ GuardLook(r) \/ GuardRefuse(r)
  \/ Intercept(r) \/ Enter(r)
  \/ Return(r) \/ Throw(r)
  \/ Filter(r) \/ DefaultFilter(r)

Next ==
  \/ \E r \in Requests : Arrive(r) \/ Handle(r) \/ Proceed(r)
  \/ \E u \in Users : ChangeRole(u)

Spec == Init /\ [][Next]_vars

-----------------------------------------------------------------------------
(* What a request leaves behind names one trace: the id in the headers of its *)
(* response, which is the client's if it sent one, is also that of its tasks, *)
(* its calls (whoever installed hooks, and when), the lines it writes through *)
(* LoggerService (those of Nest's own Logger, which most services use, carry  *)
(* no id) and the body of an error, although the filter does not see the      *)
(* context.                                                                   *)
OneTrace ==
  \A r \in Requests : reply[r] # None =>
    /\ emitted[r] \cup sent[r] \subseteq {reply[r]}
    /\ body[r] \in {None, reply[r]}
    /\ given[r] \in {None, reply[r]}

(* The ids in what a request leaves behind. *)
Trail(r) == (emitted[r] \cup sent[r] \cup {reply[r], body[r]}) \ {None}

(* Requests run interleaved on one thread and yet never mix their traces: an  *)
(* id two of them have is one that a client sent.                             *)
TracesApart ==
  \A r, s \in Requests : \A i \in Trail(r) \cap Trail(s) :
    r = s \/ i \in {given[r], given[s]}

(* Of the requests that reach Nest's router, the server of main.ts omits the  *)
(* headers only where the request was refused before the interceptor.  Then   *)
(* no handler has done anything, and the body of the error still names the    *)
(* id, which is the client's if it sent one (global-exception.filter.ts:23).  *)
UntoldIsRefused ==
  \A r \in Requests \ lambda : stage[r] = "answered" /\ reply[r] = None =>
    /\ emitted[r] \cup sent[r] = {} /\ route[r] # "public"
    /\ route[r] # "outside" => body[r] # None /\ given[r] \in {None, body[r]}

(* docs/distributed-tracing.md:73, of the GlobalExceptionFilter: "Error       *)
(* responses include tracing headers".                                        *)
ErrorResponsesIncludeHeaders ==
  \A r \in Requests : body[r] # None => reply[r] # None

(* A handler runs for an account whose role does not admit it to the route,   *)
(* or that has been removed, only if the role changed after the last guard's  *)
(* look: what was true when the token was signed or when the first guard      *)
(* looked does not count.                                                     *)
ActsInRole ==
  \A r \in Requests : stage[r] = "handler" /\ route[r] \in {"own", "admin"} =>
    role[caller[r]] \in Admits(route[r]) \/ r \in overtaken
=============================================================================
