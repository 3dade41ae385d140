------------------------------ MODULE Scheduler ------------------------------
(***************************************************************************)
(* ContinuousBatchScheduler of crates/runtime/src/scheduler.rs: bounded    *)
(* admission, cancellation, and the round-robin token loop of              *)
(* run_to_completion.                                                      *)
(*                                                                         *)
(* Every method takes &mut self, so no client call interleaves with a run; *)
(* the client's calls and the iterations of the run's loop are the steps.  *)
(* A slot popped by an iteration never outlives it, so one iteration is    *)
(* one action.                                                             *)
(*                                                                         *)
(* NextTokenOfLast, LastEvent, RequeuedNowhere, RequeuedFirst,             *)
(* RequeuedOldContext, AdmittedToPrefill, HeldIdsQueued, LoadPendingOnly,  *)
(* AdmissionEventsWithoutPrefill, ContinueNever, DecodeFailsEmptying and   *)
(* ReapCanceledNever are slips that the checks must notice; no behaviour   *)
(* uses them.                                                              *)
(***************************************************************************)
EXTENDS Integers, SequencesExt

CONSTANTS
  Ids,             \* request ids clients use
  Token,           \* token ids
  Prompts,         \* prompts clients submit, the empty one included
  MaxNews,         \* values of max_new_tokens clients ask for, 0 included
  DecodeOne(_),    \* the greedy model: a function of the context it is given
  MayFail,         \* may decode_one return an error?
  MaxQueueLen,     \* SchedulerConfig::max_queue_len
  Limits,          \* RequestLimits: [prompt, output, context |-> Nat]
  MaxSubmissions,  \* bound: submissions accepted in one behaviour
  NoToken,         \* Option::None of an event's token
  NoRequest        \* no request was ever accepted under an id

ASSUME SchedulerAssumption ==
  /\ \A prompt \in Prompts : prompt \in Seq(Token)
  /\ \A n \in MaxNews : n \in Nat
  /\ MayFail \in BOOLEAN
  /\ MaxQueueLen \in Nat
  /\ Limits \in [prompt : Nat, output : Nat, context : Nat]
  /\ MaxSubmissions \in Nat
  /\ NoToken \notin Token

Request == [id : Ids, prompt : Prompts, max_new_tokens : MaxNews]

\* What the service knows of a request under way: see JobOf
Job == [prompt : Prompts, wanted : MaxNews, got : Seq(Token)]

ASSUME NoRequestAssumption == NoRequest \notin Request \cup Job

VARIABLES
  pending,      \* VecDeque of slots accepted and not admitted yet
  active,       \* VecDeque of slots taking turns at emitting a token
  completed,    \* responses not yet handed to a caller
  events,       \* the batch's event history
  cleanup_log,  \* ids whose resources were released
  running,      \* is run_to_completion executing?
  reply,        \* outcome of the last call: Ok, or the kind of its error
  responses,    \* what the last successful run returned
  asked,        \* history: the last request accepted under each id
  accepted      \* history: submissions accepted so far

queues == <<pending, active, completed>>
history == <<events, cleanup_log>>
vars == <<queues, history, running, reply, responses, asked, accepted>>

Live == {"Queued", "Prefill", "Decode", "Emit"}
State == Live \cup {"Complete", "Canceled", "Cleanup"}

\* SchedulerRequestState::transition
Transitions ==
  {<<"Queued", "Prefill">>, <<"Prefill", "Decode">>, <<"Decode", "Emit">>,
   <<"Emit", "Decode">>, <<"Emit", "Complete">>, <<"Complete", "Cleanup">>,
   <<"Canceled", "Cleanup">>}
  \cup {<<s, "Canceled">> : s \in Live}

CanGo(from, to) == <<from, to>> \in Transitions

Slot == [id : Ids, prompt : Seq(Token), generated : Seq(Token),
         max_new_tokens : Nat, state : State]
Response == [id : Ids, tokens : Seq(Token)]
Event == [id : Ids, state : State, token : Token \cup {NoToken}]

Mark(id, state) == [id |-> id, state |-> state, token |-> NoToken]
Emission(id, token) == [id |-> id, state |-> "Emit", token |-> token]

IdsOf(queue) == {queue[i].id : i \in DOMAIN queue}

Idle == pending = <<>> /\ active = <<>> /\ completed = <<>>

-----------------------------------------------------------------------------
(***************************************************************************)
(* Client calls.                                                           *)
(***************************************************************************)

\* RequestLimits::validate_generation, whose own validate holds by the
\* construction of the scheduler
WithinLimits(prompt, output) ==
  /\ prompt <= Limits.prompt
  /\ output <= Limits.output
  /\ prompt + output <= Limits.context

\* What counts against the queue bound, and the ids that are taken
LoadPendingOnly == Len(pending)
Load == Len(pending) + Len(active)
HeldIdsQueued == IdsOf(pending) \cup IdsOf(active)
HeldIds == IdsOf(pending) \cup IdsOf(active) \cup IdsOf(completed)

Admissible(r) ==
  /\ Load < MaxQueueLen
  /\ r.prompt # <<>>
  /\ r.max_new_tokens > 0
  /\ WithinLimits(Len(r.prompt), r.max_new_tokens)
  /\ r.id \notin HeldIds

NewSlot(r) == [id |-> r.id, prompt |-> r.prompt, generated |-> <<>>,
               max_new_tokens |-> r.max_new_tokens, state |-> "Queued"]

\* The log a submission continues: start_new_batch_history_if_idle
ContinueNever(log) == <<>>
Continue(log) == IF Idle THEN <<>> ELSE log

Submit(r) ==
  /\ ~running
  /\ Admissible(r)
  /\ accepted < MaxSubmissions
  /\ pending' = Append(pending, NewSlot(r))
  /\ events' = Append(Continue(events), Mark(r.id, "Queued"))
  /\ cleanup_log' = Continue(cleanup_log)
  /\ reply' = "Ok"
  /\ asked' = [asked EXCEPT ![r.id] = r]
  /\ accepted' = accepted + 1
  /\ UNCHANGED <<active, completed, running, responses>>

\* An inadmissible request, or one whose token buffer cannot be reserved
RejectSubmit(r) ==
  /\ ~running
  /\ \/ ~Admissible(r) /\ reply' = "InvalidRequest"
     \/ Admissible(r) /\ reply' = "Runtime"
  /\ UNCHANGED <<queues, history, running, responses, asked, accepted>>

CancelPending(id) ==
  /\ ~running
  /\ \E i \in DOMAIN pending :
       /\ pending[i].id = id
       /\ \A j \in 1..(i - 1) : pending[j].id # id
       /\ pending' = RemoveAt(pending, i)
  /\ events' = events \o <<Mark(id, "Canceled"), Mark(id, "Cleanup")>>
  /\ cleanup_log' = Append(cleanup_log, id)
  /\ reply' = "Ok"
  /\ UNCHANGED <<active, completed, running, responses, asked, accepted>>

\* A slot that a failed run left active is only marked; the next run reaps it
CancelActive(id) ==
  /\ ~running
  /\ id \notin IdsOf(pending)
  /\ \E i \in DOMAIN active :
       /\ active[i].id = id
       /\ \A j \in 1..(i - 1) : active[j].id # id
       /\ CanGo(active[i].state, "Canceled")
       /\ active' = [active EXCEPT ![i].state = "Canceled"]
  /\ events' = Append(events, Mark(id, "Canceled"))
  /\ reply' = "Ok"
  /\ UNCHANGED <<pending, completed, cleanup_log, running, responses, asked,
                 accepted>>

\* Unknown id, or a request canceled already
RejectCancel(id) ==
  /\ ~running
  /\ id \notin IdsOf(pending)
  /\ \A i \in DOMAIN active :
       active[i].id = id => ~CanGo(active[i].state, "Canceled")
  /\ reply' = "Runtime"
  /\ UNCHANGED <<queues, history, running, responses, asked, accepted>>

-----------------------------------------------------------------------------
(***************************************************************************)
(* run_to_completion.                                                      *)
(***************************************************************************)

\* admit_pending: every pending slot, in order, through Prefill to Decode
AdmittedToPrefill ==
  [i \in DOMAIN pending |-> [pending[i] EXCEPT !.state = "Prefill"]]
Admitted == [i \in DOMAIN pending |-> [pending[i] EXCEPT !.state = "Decode"]]
AdmissionEventsWithoutPrefill ==
  [k \in DOMAIN pending |-> Mark(pending[k].id, "Decode")]
AdmissionEvents ==
  [k \in 1..(2 * Len(pending)) |->
     Mark(pending[(k + 1) \div 2].id,
          IF k % 2 = 1 THEN "Prefill" ELSE "Decode")]

StartRun ==
  /\ ~running
  /\ running' = TRUE
  /\ pending' = <<>>
  /\ active' = active \o Admitted
  /\ events' = events \o AdmissionEvents
  /\ UNCHANGED <<completed, cleanup_log, reply, responses, asked, accepted>>

\* The slot whose turn it is decodes
Turn ==
  /\ running
  /\ active # <<>>
  /\ CanGo(Head(active).state, "Emit")

NextTokenOfLast == DecodeOne(Last(active).prompt)
NextToken == DecodeOne(Head(active).prompt)

\* The queue when the slot, its context extended, goes to its end
RequeuedNowhere == Tail(active)
RequeuedFirst ==
  <<[Head(active) EXCEPT !.prompt = Append(@, NextToken),
                         !.generated = Append(@, NextToken)]>> \o Tail(active)
RequeuedOldContext ==
  Append(Tail(active), [Head(active) EXCEPT !.generated = Append(@, NextToken)])
Requeued ==
  Append(Tail(active), [Head(active) EXCEPT !.prompt = Append(@, NextToken),
                                            !.generated = Append(@, NextToken)])

ReapCanceledNever ==
  /\ running
  /\ active # <<>>
  /\ Head(active).state = "Canceled"
  /\ active' = Append(Tail(active), Head(active))
  /\ UNCHANGED <<pending, completed, history, running, reply, responses, asked,
                 accepted>>
ReapCanceled ==
  /\ running
  /\ active # <<>>
  /\ Head(active).state = "Canceled"
  /\ active' = Tail(active)
  /\ events' = Append(events, Mark(Head(active).id, "Cleanup"))
  /\ cleanup_log' = Append(cleanup_log, Head(active).id)
  /\ UNCHANGED <<pending, completed, running, reply, responses, asked,
                 accepted>>

EmitAndRequeue ==
  LET slot == Head(active) IN
  /\ Turn
  /\ Len(slot.generated) + 1 # slot.max_new_tokens
  /\ active' = Requeued
  /\ events' = events \o <<Emission(slot.id, NextToken),
                           Mark(slot.id, "Decode")>>
  /\ UNCHANGED <<pending, completed, cleanup_log, running, reply, responses,
                 asked, accepted>>

EmitAndComplete ==
  LET slot == Head(active) IN
  /\ Turn
  /\ Len(slot.generated) + 1 = slot.max_new_tokens
  /\ active' = Tail(active)
  /\ completed' = Append(completed,
                         [id |-> slot.id,
                          tokens |-> Append(slot.generated, NextToken)])
  /\ events' = events \o <<Emission(slot.id, NextToken),
                           Mark(slot.id, "Complete"), Mark(slot.id, "Cleanup")>>
  /\ cleanup_log' = Append(cleanup_log, slot.id)
  /\ UNCHANGED <<pending, running, reply, responses, asked, accepted>>

\* decode_one's error leaves the run at once, and the popped slot with it
DecodeFailsEmptying ==
  /\ MayFail
  /\ Turn
  /\ active' = Tail(active)
  /\ completed' = <<>>
  /\ running' = FALSE
  /\ reply' = "Runtime"
  /\ UNCHANGED <<pending, history, responses, asked, accepted>>
DecodeFails ==
  /\ MayFail
  /\ Turn
  /\ active' = Tail(active)
  /\ running' = FALSE
  /\ reply' = "Runtime"
  /\ UNCHANGED <<pending, completed, history, responses, asked, accepted>>

\* Where an id first appears in the history: the key the responses are sorted
\* by. Their ids differ, so there is one order.
LastEvent(id) == SelectLastInSeq(events, LAMBDA e : e.id = id)
FirstEvent(id) == SelectInSeq(events, LAMBDA e : e.id = id)

FinishRun ==
  /\ running
  /\ active = <<>>
  /\ \E order \in Bijection(DOMAIN completed, DOMAIN completed) :
       /\ \A i, j \in DOMAIN completed :
            i < j => FirstEvent(completed[order[i]].id)
                     <= FirstEvent(completed[order[j]].id)
       /\ responses' = [i \in DOMAIN completed |-> completed[order[i]]]
  /\ completed' = <<>>
  /\ running' = FALSE
  /\ reply' = "Ok"
  /\ UNCHANGED <<pending, active, history, asked, accepted>>

-----------------------------------------------------------------------------
Init ==
  /\ pending = <<>>
  /\ active = <<>>
  /\ completed = <<>>
  /\ events = <<>>
  /\ cleanup_log = <<>>
  /\ running = FALSE
  /\ reply = "Ok"
  /\ responses = <<>>
  /\ asked = [id \in Ids |-> NoRequest]
  /\ accepted = 0

Client ==
  \/ \E r \in Request : Submit(r) \/ RejectSubmit(r)
  \/ \E id \in Ids : CancelPending(id) \/ CancelActive(id) \/ RejectCancel(id)
  \/ StartRun

Iteration ==
  \/ ReapCanceled
  \/ EmitAndRequeue
  \/ EmitAndComplete
  \/ DecodeFails
  \/ FinishRun

Next == Client \/ Iteration

Spec == Init /\ [][Next]_vars

\* The run's loop has nothing to wait for: once called, it keeps iterating.
\* Nothing obliges a client to call.
FairSpec == Spec /\ WF_vars(Iteration)
-----------------------------------------------------------------------------
(***************************************************************************)
(* Safety.                                                                 *)
(***************************************************************************)

\* Every variable ranges over its type; pending slots are Queued, active ones
\* wait to emit or to be reaped, so no transition inside a run is refused.
TypeOK ==
  /\ pending \in Seq(Slot)
  /\ active \in Seq(Slot)
  /\ completed \in Seq(Response)
  /\ events \in Seq(Event)
  /\ cleanup_log \in Seq(Ids)
  /\ running \in BOOLEAN
  /\ reply \in {"Ok", "InvalidRequest", "Runtime"}
  /\ responses \in Seq(Response)
  /\ asked \in [Ids -> Request \cup {NoRequest}]
  /\ accepted \in Nat
  /\ \A i \in DOMAIN pending : pending[i].state = "Queued"
  /\ \A i \in DOMAIN active : active[i].state \in {"Decode", "Canceled"}

Distinct(queue) ==
  \A i, j \in DOMAIN queue : queue[i].id = queue[j].id => i = j

\* "Request IDs are unique within pending, active, and completed scheduler
\* state" (docs/design/scheduler.md), across failed runs, cancellations and
\* resubmissions.
UniqueIds ==
  /\ Distinct(pending) /\ Distinct(active) /\ Distinct(completed)
  /\ IdsOf(pending) \cap IdsOf(active) = {}
  /\ IdsOf(pending) \cap IdsOf(completed) = {}
  /\ IdsOf(active) \cap IdsOf(completed) = {}

\* "max_queue_len bounds pending plus active requests": a failed run's
\* survivors keep counting against the next submissions.
QueueBound == Len(pending) + Len(active) <= MaxQueueLen

\* tokens is what the model alone generates after prompt
GreedyRun(prompt, tokens) ==
  \A k \in 1..Len(tokens) :
    tokens[k] = DecodeOne(prompt \o SubSeq(tokens, 1, k - 1))

\* The slot is part of the way through request r
OnCourse(slot, r) ==
  /\ slot.prompt = r.prompt \o slot.generated
  /\ slot.max_new_tokens = r.max_new_tokens
  /\ Len(slot.generated) < r.max_new_tokens
  /\ GreedyRun(r.prompt, slot.generated)

\* The response is all that request r asked for
Answers(response, r) ==
  /\ Len(response.tokens) = r.max_new_tokens
  /\ GreedyRun(r.prompt, response.tokens)

\* "Batching must not change deterministic greedy output": whatever shared the
\* batch, failed or was canceled, a slot and a response hold the tokens the
\* model gives the request on its own, and a response holds all of them.
BatchingTransparent ==
  /\ \A i \in DOMAIN pending : OnCourse(pending[i], asked[pending[i].id])
  /\ \A i \in DOMAIN active : OnCourse(active[i], asked[active[i].id])
  /\ \A i \in DOMAIN completed :
       Answers(completed[i], asked[completed[i].id])

\* The state of an id by the first n entries of a history. Cleanup, if it has
\* none: no life has begun.
StateAfter(log, id, n) ==
  LET mine == {k \in 1..n : log[k].id = id}
  IN  IF mine = {} THEN "Cleanup" ELSE log[Max(mine)].state

\* A life ends in Cleanup, or in Decode when the model failed on it.
Follows(from, to) ==
  \/ CanGo(from, to)
  \/ to = "Queued" /\ (from = "Cleanup" \/ (MayFail /\ from = "Decode"))

\* The history of each id walks the state machine, whole lives one after the
\* other, each cleaned up once. Nothing follows Canceled but Cleanup.
Lifecycle ==
  \A k \in DOMAIN events :
    Follows(StateAfter(events, events[k].id, k - 1), events[k].state)

\* seq lists the values at certain positions, in their order
Lists(seq, positions, value) ==
  /\ Len(seq) = Cardinality(positions)
  /\ \A k \in positions : seq[Cardinality({j \in positions : j <= k})] = value[k]

\* Where a history has the tokens of an id's current life, and the cleanups
EmissionsOf(log, id) ==
  {k \in DOMAIN log : /\ log[k].id = id
                      /\ log[k].state = "Emit"
                      /\ \A m \in k..Len(log) : log[m] # Mark(id, "Queued")}
CleanupsIn(log) == {k \in DOMAIN log : log[k].state = "Cleanup"}

\* "Scheduler events must expose enough state for tests to prove ordering and
\* cleanup": the history alone tells who is pending, who is canceled and still
\* held, what each slot has emitted, and the cleanup log in its order.
EventsExplainState ==
  /\ \A id \in Ids :
       LET now == StateAfter(events, id, Len(events))
       IN  /\ now \in {"Queued", "Decode", "Canceled", "Cleanup"}
           /\ id \in IdsOf(pending) <=> now = "Queued"
           /\ now = "Canceled" => id \in IdsOf(active)
           /\ now = "Decode" /\ ~MayFail => id \in IdsOf(active)
           /\ id \in IdsOf(completed) => now = "Cleanup"
           /\ \A i \in DOMAIN active : active[i].id = id =>
                /\ active[i].state = now
                /\ Lists(active[i].generated, EmissionsOf(events, id),
                         [k \in DOMAIN events |-> events[k].token])
  /\ Lists(cleanup_log, CleanupsIn(events), [k \in DOMAIN events |-> events[k].id])

IsEmission(k, id) == events[k].id = id /\ events[k].state = "Emit"

\* b is waiting for its turns since before position i of the history
WaitingSince(b, i) ==
  /\ \E s \in DOMAIN active : active[s].id = b /\ active[s].state = "Decode"
  /\ \E p \in 1..(i - 1) :
       /\ events[p] = Mark(b, "Prefill")
       /\ \A q \in p..Len(events) : events[q] # Mark(b, "Queued")

\* "A long request emits one token, then moves behind other active requests":
\* nobody emits twice while another waits, not even across a failed run.
RoundRobin ==
  \A a, b \in Ids : \A i, j \in DOMAIN events :
    /\ a # b
    /\ i < j
    /\ IsEmission(i, a)
    /\ IsEmission(j, a)
    /\ WaitingSince(b, i)
    => \E k \in (i + 1)..(j - 1) : IsEmission(k, b)

-----------------------------------------------------------------------------
(***************************************************************************)
(* Action properties.                                                      *)
(***************************************************************************)

Returns == running /\ ~running' /\ reply' = "Ok"

Submissions(id) == {k \in DOMAIN events : events[k] = Mark(id, "Queued")}
SubmittedBefore(a, b) ==
  \E j \in Submissions(b) : \A i \in Submissions(a) : i < j

\* A batch's responses come in the order of submission, provided no id was
\* submitted twice within the batch.
ReturnInSubmissionOrder ==
  [][Returns /\ (\A id \in Ids : Cardinality(Submissions(id)) <= 1)
     => \A i, j \in DOMAIN responses' :
          i < j => SubmittedBefore(responses'[i].id, responses'[j].id)]_vars

\* A finished response survives failed runs, cancellations and submissions
\* until the run that returns it.
CompletedIsDelivered ==
  [][\A i \in DOMAIN completed :
       \/ completed[i] \in ToSet(completed')
       \/ Returns /\ completed[i] \in ToSet(responses')]_vars

-----------------------------------------------------------------------------
(***************************************************************************)
(* Liveness, under FairSpec.                                               *)
(***************************************************************************)

\* run_to_completion returns, whatever the batch and the model's failures.
RunTerminates == running ~> ~running

\* With a model that does not fail, whoever is active when the run has begun
\* is answered by it, unless canceled before.
ActiveIsAnswered ==
  \A id \in Ids :
    (running /\ \E i \in DOMAIN active :
                  active[i].id = id /\ active[i].state = "Decode")
    ~> (~running /\ id \in IdsOf(responses))

-----------------------------------------------------------------------------
(***************************************************************************)
(* The scheduler implements GenerationService: an id's job is its slot     *)
(* until it is canceled or lost, then its undelivered response.            *)
(***************************************************************************)
JobOf(id) ==
  LET mine == {s \in ToSet(pending) \cup ToSet(active) :
                 s.id = id /\ s.state # "Canceled"}
      done == {r \in ToSet(completed) : r.id = id}
      got == {s.generated : s \in mine} \cup {r.tokens : r \in done}
  IN  IF got = {} THEN NoRequest
      ELSE [prompt |-> asked[id].prompt, wanted |-> asked[id].max_new_tokens,
            got |-> CHOOSE tokens \in got : TRUE]

Service == INSTANCE GenerationService WITH
  Capacity <- MaxQueueLen,
  None <- NoRequest,
  job <- [id \in Ids |-> JobOf(id)],
  serving <- running,
  delivered <- ToSet(responses)

\* Every step of the scheduler is a step of the service, or none.
ImplementsService == Service!ServiceSpec
=============================================================================
