------------------------------- MODULE Webhooks -------------------------------
(***************************************************************************)
(* Webhook notifications: audit events are offered to every endpoint of the *)
(* running configuration, queued, and posted by workers with retries, while *)
(* admins replace the configuration and the server restarts.                *)
(***************************************************************************)
EXTENDS Integers, Sequences, FiniteSets

CONSTANTS
  Endpoints,      \* endpoint IDs
  HookSecrets,    \* signing secrets
  PutCalls,       \* concurrent PUT requests
  HookWorkers,    \* webhookWorkers
  HookTests,      \* concurrent test requests
  HookQueue,      \* webhookQueueSize
  HookRetries,    \* webhookMaxRetries
  EnvHooks,       \* webhookConfigFromEnv: what VANTYX_WEBHOOK_URL configures
  MaxOffered      \* bound: deliveries offered to one endpoint

ASSUME HooksAssumption ==
  /\ IsFiniteSet(HookWorkers) /\ IsFiniteSet(HookTests)
  /\ HookQueue \in Nat /\ HookRetries \in Nat /\ MaxOffered \in Nat
  /\ "none" \notin Endpoints
  /\ EnvHooks \in [Endpoints -> HookSecrets \cup {"absent", "none"}]

VARIABLES
  hooks,      \* the dispatcher's configuration: a secret per endpoint, or "absent"
  savedHooks, \* the app_settings row
  rowed,      \* there is such a row
  put,        \* [pc, cfg] of each PUT
  offer,      \* endpoints the event being dispatched is still to be offered to
  hookQueue,  \* the channel
  posting,    \* [ep, attempt] of each worker and test request
  tally,      \* webhookStats of each endpoint
  offered,    \* deliveries offered since the start (history)
  putsRaced,  \* two PUTs were between the row and the dispatcher at once (history)
  loadFailed  \* the server started without reading the row, and no PUT since (history)

\* The configuration, running and stored, which only PUTs and starts touch.
settings == <<hooks, savedHooks, rowed, loadFailed>>
hookVars == <<settings, put, offer, hookQueue, posting, tally, offered, putsRaced>>

Posters == HookWorkers \cup HookTests
Configured == {e \in Endpoints : hooks[e] # "absent"}
IdlePut == [pc |-> "idle", cfg |-> [e \in Endpoints |-> "absent"]]
IdleWorker == [ep |-> "none", attempt |-> 0]
NoTally == [sent |-> 0, failed |-> 0, dropped |-> 0]

\* What a start finds: the row, else the environment.
ToLoad == IF rowed THEN savedHooks ELSE EnvHooks

HooksInit ==
  /\ savedHooks = [e \in Endpoints |-> "absent"]
  /\ rowed = FALSE
  /\ hooks = EnvHooks
  /\ put = [r \in PutCalls |-> IdlePut]
  /\ offer = {}
  /\ hookQueue = << >>
  /\ posting = [w \in Posters |-> IdleWorker]
  /\ tally = [e \in Endpoints |-> NoTally]
  /\ offered = [e \in Endpoints |-> 0]
  /\ putsRaced = FALSE
  /\ loadFailed = FALSE

-------------------------------------------------------------------------------
(* handlePutWebhooks: a new list, secrets left out taken from the running    *)
(* one, then the row, then the dispatcher.                                   *)

ReadPut(r, in) ==
  /\ put[r].pc = "idle"
  /\ put' = [put EXCEPT ![r] = [pc |-> "save", cfg |->
       [e \in Endpoints |-> IF in[e] = "omitted" THEN IF hooks[e] = "absent" THEN "none" ELSE hooks[e]
                            ELSE in[e]]]]
  /\ UNCHANGED <<settings, offer, hookQueue, posting, tally, offered, putsRaced>>

SavePut(r) ==
  /\ put[r].pc = "save"
  /\ savedHooks' = put[r].cfg
  /\ rowed' = TRUE
  /\ put' = [put EXCEPT ![r].pc = "apply"]
  /\ putsRaced' = \E q \in PutCalls : put[q].pc = "apply"
  /\ UNCHANGED <<hooks, loadFailed, offer, hookQueue, posting, tally, offered>>

\* The error is not looked at.
SaveFailsFault(r) ==
  /\ put[r].pc = "save"
  /\ put' = [put EXCEPT ![r].pc = "apply"]
  /\ UNCHANGED <<settings, offer, hookQueue, posting, tally, offered, putsRaced>>

SaveFails(r) ==
  /\ put[r].pc = "save"
  /\ put' = [put EXCEPT ![r] = IdlePut]
  /\ UNCHANGED <<settings, offer, hookQueue, posting, tally, offered, putsRaced>>

\* setConfig; statistics of endpoints that are gone are kept.
ApplyPut(r) ==
  /\ put[r].pc = "apply"
  /\ hooks' = put[r].cfg
  /\ loadFailed' = FALSE
  /\ put' = [put EXCEPT ![r] = IdlePut]
  /\ UNCHANGED <<savedHooks, rowed, offer, hookQueue, posting, tally, offered, putsRaced>>

-------------------------------------------------------------------------------
(* dispatch, loop, deliver and record.                                       *)

\* An event every endpoint subscribes to; the list is read once.
Dispatch ==
  /\ offer = {}
  /\ Configured # {}
  /\ offer' = Configured
  /\ UNCHANGED <<settings, put, hookQueue, posting, tally, offered, putsRaced>>

Offer(e) ==
  /\ e \in offer
  /\ offered[e] < MaxOffered
  /\ offer' = offer \ {e}
  /\ offered' = [offered EXCEPT ![e] = @ + 1]
  /\ IF Len(hookQueue) < HookQueue
     THEN hookQueue' = Append(hookQueue, e) /\ UNCHANGED tally
     ELSE tally' = [tally EXCEPT ![e].dropped = @ + 1] /\ UNCHANGED hookQueue
  /\ UNCHANGED <<settings, put, posting, putsRaced>>

TakeDelivery(w) ==
  /\ posting[w] = IdleWorker
  /\ hookQueue # << >>
  /\ posting' = [posting EXCEPT ![w] = [ep |-> Head(hookQueue), attempt |-> 0]]
  /\ hookQueue' = Tail(hookQueue)
  /\ UNCHANGED <<settings, put, offer, tally, offered, putsRaced>>

\* handleTestWebhook delivers by itself, past the queue.
TestHook(t, e) ==
  /\ posting[t] = IdleWorker
  /\ e \in Configured
  /\ offered[e] < MaxOffered
  /\ offered' = [offered EXCEPT ![e] = @ + 1]
  /\ posting' = [posting EXCEPT ![t] = [ep |-> e, attempt |-> 0]]
  /\ UNCHANGED <<settings, put, offer, hookQueue, tally, putsRaced>>

\* The result for an endpoint that was removed meanwhile is not kept.
recordFault(w, how) ==
  tally' = IF hooks[posting[w].ep] = "absent" THEN tally
           ELSE [tally EXCEPT ![posting[w].ep][how] = @ + 1]

record(w, how) == tally' = [tally EXCEPT ![posting[w].ep][how] = @ + 1]

\* One POST: 2xx ends the delivery, 4xx other than 429 too; anything else is
\* tried again, after a pause, up to HookRetries times.  A test whose caller left
\* ends like a refusal.
Post(w, answer) ==
  /\ posting[w] # IdleWorker
  /\ IF answer = "again" /\ posting[w].attempt < HookRetries
     THEN posting' = [posting EXCEPT ![w].attempt = @ + 1] /\ UNCHANGED tally
     ELSE /\ posting' = [posting EXCEPT ![w] = IdleWorker]
          /\ record(w, IF answer = "accepted" THEN "sent" ELSE "failed")
  /\ UNCHANGED <<settings, put, offer, hookQueue, offered, putsRaced>>

\* The server restarts at any point: initWebhooks sets what it finds, the rest was
\* memory.
ForgetHooks ==
  /\ put' = [r \in PutCalls |-> IdlePut]
  /\ offer' = {}
  /\ hookQueue' = << >>
  /\ posting' = [w \in Posters |-> IdleWorker]
  /\ tally' = [e \in Endpoints |-> NoTally]
  /\ offered' = [e \in Endpoints |-> 0]
  /\ putsRaced' = FALSE
  /\ UNCHANGED <<savedHooks, rowed>>

RestartHooks ==
  /\ hooks' = ToLoad
  /\ loadFailed' = FALSE
  /\ ForgetHooks

\* A row that cannot be read or decoded counts as none: the environment's list runs.
RestartUnloaded ==
  /\ rowed
  /\ hooks' = EnvHooks
  /\ loadFailed' = TRUE
  /\ ForgetHooks

HooksNext ==
  \/ \E r \in PutCalls :
       \/ \E in \in [Endpoints -> HookSecrets \cup {"absent", "omitted"}] : ReadPut(r, in)
       \/ SavePut(r)
       \/ SaveFails(r)
       \/ ApplyPut(r)
  \/ Dispatch
  \/ \E e \in Endpoints : Offer(e)
  \/ \E w \in HookWorkers : TakeDelivery(w)
  \/ \E t \in HookTests, e \in Endpoints : TestHook(t, e)
  \/ \E w \in Posters, answer \in {"accepted", "refused", "again"} : Post(w, answer)
  \/ RestartHooks
  \/ RestartUnloaded

HooksSpec == HooksInit /\ [][HooksNext]_hookVars

-------------------------------------------------------------------------------
Queued(e) == Cardinality({k \in DOMAIN hookQueue : hookQueue[k] = e})
Posted(e) == Cardinality({w \in Posters : posting[w].ep = e})

\* Every delivery offered to an endpoint is counted as sent, failed or dropped, or
\* still waits in the queue or with a worker, though the list is replaced meanwhile.
Accounted == \A e \in Endpoints :
  offered[e] = tally[e].sent + tally[e].failed + tally[e].dropped + Queued(e) + Posted(e)

\* What the dispatcher runs is what a restart would load, once no PUT is between
\* the two; only two PUTs that overlapped there, and a start that could not read the
\* row, can leave them apart.
RunningIsSaved ==
  (\A r \in PutCalls : put[r].pc # "apply") /\ ~putsRaced /\ ~loadFailed => hooks = ToLoad

\* The notifications as a whole: no delivery is lost track of, and the running and
\* the saved configuration agree.
WebhooksSound == Accounted /\ RunningIsSaved

===============================================================================
