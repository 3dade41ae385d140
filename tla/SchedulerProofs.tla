--------------------------- MODULE SchedulerProofs ---------------------------
(***************************************************************************)
(* Safety of Scheduler for every set of ids, prompts and limits, every     *)
(* queue bound and every model, failing or not.                            *)
(***************************************************************************)
EXTENDS Scheduler, SequenceTheorems, FiniteSetTheorems, TLAPS

-----------------------------------------------------------------------------
(***************************************************************************)
(* Facts about the sequences the queues are.                               *)
(***************************************************************************)

\* VecDeque::remove closes the gap.
LEMMA RemoveAtProperties ==
  ASSUME NEW S, NEW s \in Seq(S), NEW i \in 1..Len(s)
  PROVE  /\ RemoveAt(s, i) \in Seq(S)
         /\ Len(RemoveAt(s, i)) = Len(s) - 1
         /\ \A j \in 1..(Len(s) - 1) :
              RemoveAt(s, i)[j] = IF j < i THEN s[j] ELSE s[j + 1]
<1> DEFINE front == SubSeq(s, 1, i - 1)
           back == SubSeq(s, i + 1, Len(s))
<1>1. /\ front \in Seq(S)
      /\ Len(front) = i - 1
      /\ \A j \in 1..(i - 1) : front[j] = s[j]
  BY SubSeqProperties
<1>2. /\ back \in Seq(S)
      /\ Len(back) = Len(s) - i
      /\ \A j \in 1..(Len(s) - i) : back[j] = s[i + j]
  BY SubSeqProperties
<1>3. RemoveAt(s, i) = front \o back
  BY DEF RemoveAt
<1> HIDE DEF front, back
<1>4. /\ front \o back \in Seq(S)
      /\ Len(front \o back) = Len(front) + Len(back)
      /\ \A j \in 1..(Len(front) + Len(back)) :
           (front \o back)[j] = IF j <= Len(front) THEN front[j]
                                                 ELSE back[j - Len(front)]
  BY <1>1, <1>2, ConcatProperties
<1>5. Len(s) \in Nat /\ Len(front) + Len(back) = Len(s) - 1
  BY <1>1, <1>2
<1>6. ASSUME NEW j \in 1..(Len(s) - 1)
      PROVE  (front \o back)[j] = IF j < i THEN s[j] ELSE s[j + 1]
  <2>1. CASE j < i
    BY <1>1, <1>4, <1>5, <2>1
  <2>2. CASE ~(j < i)
    <3>1. j - (i - 1) \in 1..(Len(s) - i) /\ i + (j - (i - 1)) = j + 1
      BY <1>5, <2>2
    <3>2. (front \o back)[j] = back[j - (i - 1)]
      BY <1>1, <1>4, <1>5, <2>2
    <3> QED BY <1>2, <2>2, <3>1, <3>2
  <2> QED BY <2>1, <2>2
<1> QED BY <1>3, <1>4, <1>5, <1>6

\* pop_front shifts the rest of the queue by one.
LEMMA TailProperties ==
  ASSUME NEW S, NEW s \in Seq(S), s # <<>>
  PROVE  /\ Tail(s) \in Seq(S)
         /\ Len(Tail(s)) = Len(s) - 1
         /\ \A i \in 1..(Len(s) - 1) : Tail(s)[i] = s[i + 1]
         /\ Head(s) = s[1]
         /\ Head(s) \in S
         /\ 1 \in DOMAIN s
OBVIOUS

-----------------------------------------------------------------------------
(***************************************************************************)
(* Type correctness.                                                       *)
(***************************************************************************)

\* The model maps every context to a token (GreedyDecodeModel::decode_one).
DecodesToTokens == \A context \in Seq(Token) : DecodeOne(context) \in Token

\* An admissible request makes a well-formed queued slot.
LEMMA NewSlotType ==
  ASSUME NEW r \in Request
  PROVE  NewSlot(r) \in Slot /\ NewSlot(r).state = "Queued"
BY SchedulerAssumption
   DEF SchedulerAssumption, Request, NewSlot, Slot, State, Live

\* What the scheduler logs are events.
LEMMA EventTypes ==
  ASSUME NEW id \in Ids
  PROVE  /\ \A state \in State : Mark(id, state) \in Event
         /\ \A token \in Token : Emission(id, token) \in Event
BY DEF Mark, Emission, Event, State, Live

\* The states of a slot, one by one.
LEMMA StateNames ==
  State = {"Queued", "Prefill", "Decode", "Emit", "Complete", "Canceled",
           "Cleanup"}
BY DEF State, Live

\* The admission of pending slots keeps them slots and makes them Decode.
LEMMA AdmittedType ==
  ASSUME TypeOK
  PROVE  /\ Admitted \in Seq(Slot)
         /\ Len(Admitted) = Len(pending)
         /\ \A i \in DOMAIN pending :
              /\ Admitted[i] = [pending[i] EXCEPT !.state = "Decode"]
              /\ Admitted[i].state = "Decode"
         /\ AdmissionEvents \in Seq(Event)
<1>1. pending \in Seq(Slot) /\ Len(pending) \in Nat
  BY DEF TypeOK
<1>2. ASSUME NEW i \in 1..Len(pending)
      PROVE  [pending[i] EXCEPT !.state = "Decode"] \in Slot
  <2>1. pending[i] \in Slot
    BY <1>1
  <2> QED BY <2>1, StateNames DEF Slot
<1>3. ASSUME NEW k \in 1..(2 * Len(pending))
      PROVE  AdmissionEvents[k] \in Event
  <2>1. (k + 1) \div 2 \in 1..Len(pending)
    BY <1>1
  <2>2. pending[(k + 1) \div 2] \in Slot
    BY <1>1, <2>1
  <2>3. pending[(k + 1) \div 2].id \in Ids
    BY <2>2 DEF Slot
  <2> QED BY <2>3, EventTypes, StateNames DEF AdmissionEvents
<1>4. AdmissionEvents \in Seq(Event)
  BY <1>1, <1>3 DEF AdmissionEvents
<1>5. ASSUME NEW i \in 1..Len(pending)
      PROVE  /\ Admitted[i] = [pending[i] EXCEPT !.state = "Decode"]
             /\ Admitted[i].state = "Decode"
             /\ Admitted[i] \in Slot
  <2>1. i \in DOMAIN pending
    BY <1>1
  <2>2. Admitted[i] = [pending[i] EXCEPT !.state = "Decode"]
    BY <2>1 DEF Admitted
  <2>3. Admitted[i].state = "Decode"
    BY <1>1, <2>2 DEF Slot
  <2> QED BY <1>2, <2>2, <2>3
<1>6. Admitted = [i \in 1..Len(pending) |-> Admitted[i]]
  BY <1>1 DEF Admitted
<1>7. Admitted \in Seq(Slot) /\ Len(Admitted) = Len(pending)
  <2> HIDE DEF Admitted
  <2> QED BY <1>1, <1>5, <1>6
<1>8. DOMAIN pending = 1..Len(pending)
  BY <1>1
<1> QED BY <1>4, <1>5, <1>7, <1>8

\* Emitting appends a token to the head slot's prompt and output.
LEMMA NextTokenType ==
  ASSUME TypeOK, DecodesToTokens, active # <<>>
  PROVE  /\ NextToken \in Token
         /\ Append(Head(active).prompt, NextToken) \in Seq(Token)
         /\ Append(Head(active).generated, NextToken) \in Seq(Token)
<1>1. Head(active) \in Slot
  BY DEF TypeOK
<1>2. /\ Head(active).prompt \in Seq(Token)
      /\ Head(active).generated \in Seq(Token)
  BY <1>1 DEF Slot
<1>3. NextToken \in Token
  BY <1>2 DEF NextToken, DecodesToTokens
<1> QED BY <1>2, <1>3

\* No step leaves the types; in particular no transition of a run is refused,
\* since a slot is only ever queued as Queued and only ever runs as Decode.
THEOREM TypeCorrect ==
  ASSUME DecodesToTokens
  PROVE  Spec => []TypeOK
<1>1. Init => TypeOK
  <2> SUFFICES ASSUME Init PROVE TypeOK
    OBVIOUS
  <2>1. /\ pending = <<>> /\ active = <<>> /\ completed = <<>>
        /\ events = <<>> /\ cleanup_log = <<>> /\ responses = <<>>
    BY DEF Init
  <2>2. DOMAIN pending = {} /\ DOMAIN active = {}
    BY <2>1
  <2>3. \A S : <<>> \in Seq(S)
    OBVIOUS
  <2>4. asked \in [Ids -> Request \cup {NoRequest}] /\ accepted \in Nat
    BY DEF Init
  <2> QED BY <2>1, <2>2, <2>3, <2>4 DEF Init, TypeOK
<1>2. TypeOK /\ [Next]_vars => TypeOK'
  <2> SUFFICES ASSUME TypeOK, [Next]_vars
               PROVE  TypeOK'
    OBVIOUS
  <2>0. Head(active) \in Slot \/ active = <<>>
    BY DEF TypeOK
  <2>1. ASSUME NEW r \in Request, Submit(r)
        PROVE  TypeOK'
    <3>1. NewSlot(r) \in Slot /\ NewSlot(r).state = "Queued" /\ r.id \in Ids
      BY NewSlotType DEF Request
    <3>2. pending' \in Seq(Slot)
      BY <2>1, <3>1 DEF Submit, TypeOK
    <3>3. events' \in Seq(Event) /\ cleanup_log' \in Seq(Ids)
      <4>1. Mark(r.id, "Queued") \in Event
        BY <3>1, EventTypes, StateNames
      <4>2. Continue(events) \in Seq(Event) /\ Continue(cleanup_log) \in Seq(Ids)
        BY DEF TypeOK, Continue
      <4> QED BY <2>1, <4>1, <4>2 DEF Submit
    <3>4. \A i \in DOMAIN pending' : pending'[i].state = "Queued"
      <4>1. pending' = Append(pending, NewSlot(r))
        BY <2>1 DEF Submit
      <4>2. ASSUME NEW i \in DOMAIN pending'
            PROVE  \/ i \in DOMAIN pending /\ pending'[i] = pending[i]
                   \/ pending'[i] = NewSlot(r)
        BY <4>1 DEF TypeOK
      <4> QED BY <3>1, <4>2 DEF TypeOK
    <3>5. asked' \in [Ids -> Request \cup {NoRequest}] /\ accepted' \in Nat
      BY <2>1, <3>1 DEF Submit, TypeOK
    <3>6. UNCHANGED <<active, completed, running, responses>> /\ reply' = "Ok"
      BY <2>1 DEF Submit
    <3> QED BY <3>2, <3>3, <3>4, <3>5, <3>6 DEF TypeOK
  <2>2. ASSUME NEW r \in Request, RejectSubmit(r)
        PROVE  TypeOK'
    BY <2>2 DEF RejectSubmit, queues, history, TypeOK
  <2>3. ASSUME NEW id \in Ids, CancelPending(id)
        PROVE  TypeOK'
    <3>1. PICK i \in DOMAIN pending : pending' = RemoveAt(pending, i)
      BY <2>3 DEF CancelPending
    <3>0. pending \in Seq(Slot) /\ i \in 1..Len(pending)
      BY DEF TypeOK
    <3>2. /\ pending' \in Seq(Slot)
          /\ Len(pending') = Len(pending) - 1
          /\ \A j \in 1..(Len(pending) - 1) :
               pending'[j] = IF j < i THEN pending[j] ELSE pending[j + 1]
      BY <3>0, <3>1, RemoveAtProperties
    <3>3. ASSUME NEW j \in DOMAIN pending'
          PROVE  pending'[j].state = "Queued"
      <4>1. j \in 1..(Len(pending) - 1) /\ j \in DOMAIN pending
            /\ j + 1 \in DOMAIN pending
        BY <3>0, <3>2
      <4>2. pending'[j] \in {pending[j], pending[j + 1]}
        BY <3>2, <4>1
      <4> QED BY <4>1, <4>2 DEF TypeOK
    <3>4. events' \in Seq(Event) /\ cleanup_log' \in Seq(Ids)
      <4>1. Mark(id, "Canceled") \in Event /\ Mark(id, "Cleanup") \in Event
        BY EventTypes, StateNames
      <4> QED BY <2>3, <4>1 DEF CancelPending, TypeOK
    <3> QED BY <2>3, <3>2, <3>3, <3>4 DEF CancelPending, TypeOK
  <2>4. ASSUME NEW id \in Ids, CancelActive(id)
        PROVE  TypeOK'
    <3>1. PICK i \in DOMAIN active :
            active' = [active EXCEPT ![i].state = "Canceled"]
      BY <2>4 DEF CancelActive
    <3>2. active \in Seq(Slot) /\ active[i] \in Slot
      BY DEF TypeOK
    <3>3. [active[i] EXCEPT !.state = "Canceled"] \in Slot
      BY <3>2, StateNames DEF Slot
    <3>4. active' \in Seq(Slot)
      BY <3>1, <3>2, <3>3, ExceptSeq
    <3>5. \A j \in DOMAIN active' : active'[j].state \in {"Decode", "Canceled"}
      BY <3>1, <3>2 DEF TypeOK, Slot
    <3>6. events' \in Seq(Event)
      BY <2>4, EventTypes, StateNames DEF CancelActive, TypeOK
    <3> QED BY <2>4, <3>4, <3>5, <3>6 DEF CancelActive, TypeOK
  <2>5. ASSUME NEW id \in Ids, RejectCancel(id)
        PROVE  TypeOK'
    BY <2>5 DEF RejectCancel, queues, history, TypeOK
  <2>6. CASE StartRun
    <3>1. /\ Admitted \in Seq(Slot)
          /\ AdmissionEvents \in Seq(Event)
          /\ \A i \in DOMAIN Admitted : Admitted[i].state = "Decode"
      <4>1. DOMAIN pending = 1..Len(pending)
        BY DEF TypeOK
      <4>2. DOMAIN Admitted = DOMAIN pending
        BY DEF Admitted
      <4> QED BY <4>1, <4>2, AdmittedType
    <3>2. active' \in Seq(Slot)
      BY <2>6, <3>1 DEF StartRun, TypeOK
    <3>3. \A i \in DOMAIN active' : active'[i].state \in {"Decode", "Canceled"}
      BY <2>6, <3>1, ConcatProperties DEF StartRun, TypeOK
    <3>4. events' \in Seq(Event)
      BY <2>6, <3>1 DEF StartRun, TypeOK
    <3> QED BY <2>6, <3>2, <3>3, <3>4 DEF StartRun, TypeOK
  <2>7. CASE ReapCanceled
    <3>1. active # <<>> /\ Head(active) \in Slot
      BY <2>0, <2>7 DEF ReapCanceled
    <3>2. events' \in Seq(Event) /\ cleanup_log' \in Seq(Ids)
      <4>1. Head(active).id \in Ids
        BY <3>1 DEF Slot
      <4>2. Mark(Head(active).id, "Cleanup") \in Event
        BY <4>1, EventTypes, StateNames
      <4> QED BY <2>7, <4>1, <4>2 DEF ReapCanceled, TypeOK
    <3>3. active' \in Seq(Slot)
          /\ \A i \in DOMAIN active' : active'[i].state \in {"Decode", "Canceled"}
      BY <2>7, <3>1, TailProperties DEF ReapCanceled, TypeOK
    <3> QED BY <2>7, <3>2, <3>3 DEF ReapCanceled, TypeOK
  <2>8. CASE EmitAndRequeue
    <3> DEFINE slot == Head(active)
               later == [slot EXCEPT !.prompt = Append(@, NextToken),
                                     !.generated = Append(@, NextToken)]
    <3>1. active # <<>> /\ active' = Append(Tail(active), later)
      BY <2>8 DEF EmitAndRequeue, Requeued, Turn
    <3>2. slot \in Slot /\ slot.state \in {"Decode", "Canceled"}
      BY <3>1 DEF TypeOK
    <3>3. later \in Slot /\ later.state = slot.state
      BY <3>1, <3>2, NextTokenType DEF Slot
    <3>4. active' \in Seq(Slot)
      BY <3>1, <3>3 DEF TypeOK
    <3>5. \A i \in DOMAIN active' : active'[i].state \in {"Decode", "Canceled"}
      BY <3>1, <3>2, <3>3 DEF TypeOK
    <3>6. events' \in Seq(Event)
      <4>1. <<Emission(slot.id, NextToken), Mark(slot.id, "Decode")>>
              \in Seq(Event)
        BY <3>1, <3>2, NextTokenType, EventTypes, StateNames DEF Slot
      <4> QED BY <2>8, <4>1 DEF EmitAndRequeue, Requeued, TypeOK
    <3> QED BY <2>8, <3>4, <3>5, <3>6 DEF EmitAndRequeue, Requeued, TypeOK
  <2>9. CASE EmitAndComplete
    <3> DEFINE slot == Head(active)
    <3>1. active # <<>>
      BY <2>9 DEF EmitAndComplete, Turn
    <3>2. slot \in Slot
      BY <3>1 DEF TypeOK
    <3>3. [id |-> slot.id, tokens |-> Append(slot.generated, NextToken)]
            \in Response
      BY <3>1, <3>2, NextTokenType DEF Slot, Response
    <3>4. completed' \in Seq(Response)
      BY <2>9, <3>3 DEF EmitAndComplete, TypeOK
    <3>5. events' \in Seq(Event)
      <4>1. <<Emission(slot.id, NextToken), Mark(slot.id, "Complete"),
              Mark(slot.id, "Cleanup")>> \in Seq(Event)
        BY <3>1, <3>2, NextTokenType, EventTypes, StateNames DEF Slot
      <4> QED BY <2>9, <4>1 DEF EmitAndComplete, TypeOK
    <3>6. active' \in Seq(Slot)
          /\ \A i \in DOMAIN active' : active'[i].state \in {"Decode", "Canceled"}
      <4>1. active' = Tail(active)
        BY <2>9 DEF EmitAndComplete
      <4>2. /\ active \in Seq(Slot)
            /\ \A i \in DOMAIN active : active[i].state \in {"Decode", "Canceled"}
        BY DEF TypeOK
      <4> QED BY <3>1, <4>1, <4>2, TailProperties
    <3>7. cleanup_log' \in Seq(Ids)
      BY <2>9, <3>2 DEF EmitAndComplete, TypeOK, Slot
    <3> QED BY <2>9, <3>4, <3>5, <3>6, <3>7 DEF EmitAndComplete, TypeOK
  <2>10. CASE DecodeFails
    <3>1. active' \in Seq(Slot)
          /\ \A i \in DOMAIN active' : active'[i].state \in {"Decode", "Canceled"}
      BY <2>10, TailProperties DEF DecodeFails, Turn, TypeOK
    <3> QED BY <2>10, <3>1 DEF DecodeFails, history, TypeOK
  <2>11. CASE FinishRun
    <3>1. PICK order \in Bijection(DOMAIN completed, DOMAIN completed) :
            responses' = [i \in DOMAIN completed |-> completed[order[i]]]
      BY <2>11 DEF FinishRun
    <3>2. \A i \in DOMAIN completed : order[i] \in DOMAIN completed
      BY <3>1 DEF Bijection, Injection
    <3>3. completed \in Seq(Response) /\ DOMAIN completed = 1..Len(completed)
          /\ Len(completed) \in Nat
      BY DEF TypeOK
    <3>4. \A i \in DOMAIN completed : completed[order[i]] \in Response
      BY <3>2, <3>3
    <3>5. responses' \in Seq(Response)
      BY <3>1, <3>3, <3>4
    <3>6. completed' = <<>> /\ <<>> \in Seq(Response)
      BY <2>11 DEF FinishRun
    <3> QED BY <2>11, <3>5, <3>6 DEF FinishRun, history, TypeOK
  <2>12. CASE UNCHANGED vars
    BY <2>12 DEF vars, queues, history, TypeOK
  <2> QED BY <2>1, <2>2, <2>3, <2>4, <2>5, <2>6, <2>7, <2>8, <2>9, <2>10,
             <2>11, <2>12 DEF Next, Client, Iteration
<1> QED BY <1>1, <1>2, PTL DEF Spec

-----------------------------------------------------------------------------
(***************************************************************************)
(* The ids in a queue, and whether they repeat, under the operations the   *)
(* scheduler performs on its queues.                                       *)
(***************************************************************************)

\* Ids of a queue with one slot more.
LEMMA AppendIds ==
  ASSUME NEW S, NEW q \in Seq(S), NEW e, Append(q, e) \in Seq(S),
         Distinct(q), e.id \notin IdsOf(q)
  PROVE  /\ Distinct(Append(q, e))
         /\ IdsOf(Append(q, e)) = IdsOf(q) \cup {e.id}
<1> DEFINE r == Append(q, e)
<1>1. /\ DOMAIN q = 1..Len(q) /\ Len(q) \in Nat
      /\ DOMAIN r = 1..(Len(q) + 1)
      /\ r[Len(q) + 1] = e
      /\ \A i \in DOMAIN q : r[i] = q[i]
  OBVIOUS
<1> HIDE DEF r
<1>2. \A i \in DOMAIN r : i \in DOMAIN q \/ i = Len(q) + 1
  BY <1>1
<1>3. IdsOf(r) = IdsOf(q) \cup {e.id}
  <2>1. IdsOf(r) \subseteq IdsOf(q) \cup {e.id}
    BY <1>1, <1>2 DEF IdsOf
  <2>2. IdsOf(q) \subseteq IdsOf(r)
    BY <1>1 DEF IdsOf
  <2>3. Len(q) + 1 \in DOMAIN r
    BY <1>1
  <2>4. e.id \in IdsOf(r)
    BY <1>1, <2>3 DEF IdsOf
  <2> QED BY <2>1, <2>2, <2>4
<1>4. \A i \in DOMAIN q : q[i].id # e.id
  BY DEF IdsOf
<1>5. Distinct(r)
  BY <1>1, <1>2, <1>4 DEF Distinct
<1> QED BY <1>3, <1>5 DEF r

\* Ids of a queue without its first slot.
LEMMA TailIds ==
  ASSUME NEW S, NEW q \in Seq(S), q # <<>>, Distinct(q)
  PROVE  /\ Distinct(Tail(q))
         /\ IdsOf(Tail(q)) = IdsOf(q) \ {Head(q).id}
         /\ Head(q).id \in IdsOf(q)
<1>1. /\ DOMAIN q = 1..Len(q) /\ Len(q) \in Nat /\ 1 \in DOMAIN q
      /\ DOMAIN Tail(q) = 1..(Len(q) - 1)
      /\ \A i \in DOMAIN Tail(q) : i + 1 \in DOMAIN q /\ Tail(q)[i] = q[i + 1]
      /\ Head(q) = q[1]
  OBVIOUS
<1>2. Head(q).id \in IdsOf(q)
  BY <1>1 DEF IdsOf
<1>3. Distinct(Tail(q))
  <2> SUFFICES ASSUME NEW i \in DOMAIN Tail(q), NEW j \in DOMAIN Tail(q),
                      Tail(q)[i].id = Tail(q)[j].id
               PROVE  i = j
    BY DEF Distinct
  <2>1. i + 1 = j + 1
    BY <1>1 DEF Distinct
  <2> QED BY <1>1, <2>1
<1>4. \A i \in DOMAIN Tail(q) : Tail(q)[i].id # Head(q).id
  <2> SUFFICES ASSUME NEW i \in DOMAIN Tail(q), Tail(q)[i].id = Head(q).id
               PROVE  FALSE
    OBVIOUS
  <2>1. i + 1 = 1
    BY <1>1 DEF Distinct
  <2> QED BY <1>1, <2>1
<1>5. ASSUME NEW i \in DOMAIN q, i # 1
      PROVE  i - 1 \in DOMAIN Tail(q) /\ q[i] = Tail(q)[i - 1]
  <2>1. i - 1 \in 1..(Len(q) - 1) /\ (i - 1) + 1 = i
    BY <1>1, <1>5
  <2> QED BY <1>1, <2>1
<1>6. IdsOf(Tail(q)) = IdsOf(q) \ {Head(q).id}
  <2>1. IdsOf(Tail(q)) \subseteq IdsOf(q) \ {Head(q).id}
    BY <1>1, <1>4 DEF IdsOf
  <2>2. ASSUME NEW i \in DOMAIN q
        PROVE  q[i].id \in IdsOf(Tail(q)) \cup {Head(q).id}
    <3>1. CASE i = 1
      BY <1>1, <3>1
    <3>2. CASE i # 1
      BY <1>5, <3>2 DEF IdsOf
    <3> QED BY <3>1, <3>2
  <2>3. IdsOf(q) \subseteq IdsOf(Tail(q)) \cup {Head(q).id}
    BY <2>2 DEF IdsOf
  <2> QED BY <2>1, <2>3
<1> QED BY <1>2, <1>3, <1>6

\* Ids of a queue that a cancelled slot was taken from.
LEMMA RemoveIds ==
  ASSUME NEW S, NEW q \in Seq(S), NEW k \in DOMAIN q, Distinct(q)
  PROVE  /\ Distinct(RemoveAt(q, k))
         /\ IdsOf(RemoveAt(q, k)) \subseteq IdsOf(q)
<1> DEFINE r == RemoveAt(q, k)
           from(j) == IF j < k THEN j ELSE j + 1
<1>1. DOMAIN q = 1..Len(q) /\ Len(q) \in Nat /\ k \in 1..Len(q)
  OBVIOUS
<1>2. /\ r \in Seq(S)
      /\ Len(r) = Len(q) - 1
      /\ \A j \in 1..(Len(q) - 1) : r[j] = IF j < k THEN q[j] ELSE q[j + 1]
  BY <1>1, RemoveAtProperties
<1> HIDE DEF r
<1>0. /\ DOMAIN r = 1..(Len(q) - 1)
      /\ \A j \in 1..(Len(q) - 1) : r[j] = q[from(j)]
  BY <1>1, <1>2
<1>3. \A j \in DOMAIN r : from(j) \in DOMAIN q
  BY <1>1, <1>0
<1>4. \A i, j \in DOMAIN r : from(i) = from(j) => i = j
  BY <1>1, <1>0
<1>5. Distinct(r)
  BY <1>0, <1>3, <1>4 DEF Distinct
<1>6. IdsOf(r) \subseteq IdsOf(q)
  BY <1>0, <1>3 DEF IdsOf
<1> QED BY <1>5, <1>6 DEF r

\* Ids of two queues, one after the other.
LEMMA ConcatIds ==
  ASSUME NEW S, NEW q \in Seq(S), NEW r \in Seq(S),
         Distinct(q), Distinct(r), IdsOf(q) \cap IdsOf(r) = {}
  PROVE  /\ Distinct(q \o r)
         /\ IdsOf(q \o r) = IdsOf(q) \cup IdsOf(r)
<1> DEFINE c == q \o r
<1>1. /\ DOMAIN q = 1..Len(q) /\ Len(q) \in Nat
      /\ DOMAIN r = 1..Len(r) /\ Len(r) \in Nat
      /\ DOMAIN c = 1..(Len(q) + Len(r))
      /\ \A i \in 1..(Len(q) + Len(r)) :
           c[i] = IF i <= Len(q) THEN q[i] ELSE r[i - Len(q)]
  BY ConcatProperties
<1> HIDE DEF c
<1>2. \A i \in DOMAIN c :
        \/ i \in DOMAIN q /\ c[i] = q[i]
        \/ ~(i \in DOMAIN q) /\ i - Len(q) \in DOMAIN r /\ c[i] = r[i - Len(q)]
  BY <1>1
<1>3. /\ \A i \in DOMAIN q : i \in DOMAIN c /\ c[i] = q[i]
      /\ \A i \in DOMAIN r : i + Len(q) \in DOMAIN c /\ c[i + Len(q)] = r[i]
  BY <1>1
<1>4. IdsOf(c) = IdsOf(q) \cup IdsOf(r)
  <2>1. IdsOf(c) \subseteq IdsOf(q) \cup IdsOf(r)
    BY <1>2 DEF IdsOf
  <2>2. IdsOf(q) \subseteq IdsOf(c)
    BY <1>3 DEF IdsOf
  <2>3. IdsOf(r) \subseteq IdsOf(c)
    BY <1>3 DEF IdsOf
  <2> QED BY <2>1, <2>2, <2>3
<1>5. Distinct(c)
  <2> SUFFICES ASSUME NEW i \in DOMAIN c, NEW j \in DOMAIN c, c[i].id = c[j].id
               PROVE  i = j
    BY DEF Distinct
  <2>1. \A m \in DOMAIN q, n \in DOMAIN r : q[m].id # r[n].id
    BY DEF IdsOf
  <2>2. \/ i \in DOMAIN q /\ j \in DOMAIN q
        \/ ~(i \in DOMAIN q) /\ ~(j \in DOMAIN q)
    BY <1>2, <2>1
  <2>3. CASE i \in DOMAIN q /\ j \in DOMAIN q
    BY <1>2, <2>3 DEF Distinct
  <2>4. CASE ~(i \in DOMAIN q) /\ ~(j \in DOMAIN q)
    <3>1. i - Len(q) = j - Len(q)
      BY <1>2, <2>4 DEF Distinct
    <3> QED BY <1>1, <3>1
  <2> QED BY <2>2, <2>3, <2>4
<1> QED BY <1>4, <1>5 DEF c

\* Rewriting slots in place, ids kept.
LEMMA SameIds ==
  ASSUME NEW q, NEW r, DOMAIN r = DOMAIN q,
         \A i \in DOMAIN q : r[i].id = q[i].id
  PROVE  IdsOf(r) = IdsOf(q) /\ (Distinct(q) => Distinct(r))
BY DEF IdsOf, Distinct

-----------------------------------------------------------------------------
(***************************************************************************)
(* Ids identify: UniqueIds is inductive once the queues are sequences.     *)
(***************************************************************************)

\* Every call and turn keeps ids unique in the three queues.
LEMMA UniqueIdsStep ==
  ASSUME TypeOK, UniqueIds, TypeOK', [Next]_vars
  PROVE  UniqueIds'
<1>0. /\ pending \in Seq(Slot) /\ pending' \in Seq(Slot)
      /\ active \in Seq(Slot) /\ active' \in Seq(Slot)
      /\ completed \in Seq(Response) /\ completed' \in Seq(Response)
  BY DEF TypeOK
<1>1. ASSUME NEW r \in Request, Submit(r)
      PROVE  UniqueIds'
  <2>1. /\ pending' = Append(pending, NewSlot(r))
        /\ UNCHANGED <<active, completed>>
        /\ NewSlot(r).id = r.id
        /\ r.id \notin IdsOf(pending) \cup IdsOf(active) \cup IdsOf(completed)
    BY <1>1 DEF Submit, Admissible, Load, HeldIds, NewSlot
  <2>2. /\ Distinct(pending')
        /\ IdsOf(pending') = IdsOf(pending) \cup {r.id}
    BY <1>0, <2>1, AppendIds DEF UniqueIds
  <2> QED BY <2>1, <2>2 DEF UniqueIds
<1>2. ASSUME NEW id \in Ids, CancelPending(id)
      PROVE  UniqueIds'
  <2>1. PICK i \in DOMAIN pending : pending' = RemoveAt(pending, i)
    BY <1>2 DEF CancelPending
  <2>2. Distinct(pending') /\ IdsOf(pending') \subseteq IdsOf(pending)
    BY <1>0, <2>1, RemoveIds DEF UniqueIds
  <2>3. UNCHANGED <<active, completed>>
    BY <1>2 DEF CancelPending
  <2> QED BY <2>2, <2>3 DEF UniqueIds
<1>3. ASSUME NEW id \in Ids, CancelActive(id)
      PROVE  UniqueIds'
  <2>1. PICK i \in DOMAIN active :
          active' = [active EXCEPT ![i].state = "Canceled"]
    BY <1>3 DEF CancelActive
  <2>2. active[i] \in Slot
    BY <1>0
  <2>3. DOMAIN active' = DOMAIN active
        /\ \A j \in DOMAIN active : active'[j].id = active[j].id
    BY <1>0, <2>1, <2>2 DEF Slot
  <2>4. UNCHANGED <<pending, completed>>
    BY <1>3 DEF CancelActive
  <2>5. IdsOf(active') = IdsOf(active) /\ (Distinct(active) => Distinct(active'))
    BY <2>3, SameIds
  <2> QED BY <2>4, <2>5 DEF UniqueIds
<1>4. CASE StartRun
  <2>1. /\ pending' = <<>> /\ active' = active \o Admitted
        /\ completed' = completed
    BY <1>4 DEF StartRun
  <2>2. Admitted \in Seq(Slot) /\ DOMAIN Admitted = DOMAIN pending
    BY AdmittedType DEF Admitted
  <2>3. \A i \in DOMAIN pending : Admitted[i].id = pending[i].id
    <3> SUFFICES ASSUME NEW i \in DOMAIN pending
                 PROVE  Admitted[i].id = pending[i].id
      OBVIOUS
    <3>1. pending[i] \in Slot
      BY <1>0
    <3>2. Admitted[i] = [pending[i] EXCEPT !.state = "Decode"]
      BY AdmittedType
    <3> HIDE DEF Admitted
    <3> QED BY <3>1, <3>2 DEF Slot
  <2>4. IdsOf(Admitted) = IdsOf(pending) /\ Distinct(Admitted)
    BY <2>2, <2>3, SameIds DEF UniqueIds
  <2>5. /\ Distinct(active')
        /\ IdsOf(active') = IdsOf(active) \cup IdsOf(pending)
    BY <1>0, <2>1, <2>2, <2>4, ConcatIds DEF UniqueIds
  <2>6. IdsOf(pending') = {} /\ Distinct(pending')
    BY <2>1 DEF IdsOf, Distinct
  <2> QED BY <2>1, <2>5, <2>6 DEF UniqueIds
<1>5. CASE ReapCanceled \/ DecodeFails
  <2>1. /\ active # <<>> /\ active' = Tail(active)
        /\ UNCHANGED <<pending, completed>>
    BY <1>5 DEF ReapCanceled, DecodeFails, Turn
  <2>2. Distinct(active') /\ IdsOf(active') \subseteq IdsOf(active)
    BY <1>0, <2>1, TailIds DEF UniqueIds
  <2> QED BY <2>1, <2>2 DEF UniqueIds
<1>6. CASE EmitAndRequeue
  <2> DEFINE later == [Head(active) EXCEPT !.prompt = Append(@, NextToken),
                                           !.generated = Append(@, NextToken)]
  <2>1. /\ active # <<>> /\ active' = Append(Tail(active), later)
        /\ UNCHANGED <<pending, completed>>
    BY <1>6 DEF EmitAndRequeue, Requeued, Turn
  <2>2. Head(active) \in Slot /\ Tail(active) \in Seq(Slot)
    BY <1>0, <2>1
  <2>3. later.id = Head(active).id
    BY <2>2 DEF Slot
  <2>4. /\ Distinct(Tail(active))
        /\ IdsOf(Tail(active)) = IdsOf(active) \ {Head(active).id}
        /\ Head(active).id \in IdsOf(active)
    BY <1>0, <2>1, TailIds DEF UniqueIds
  <2> HIDE DEF later
  <2>5. later.id \notin IdsOf(Tail(active))
    BY <2>3, <2>4
  <2>6. /\ Distinct(active')
        /\ IdsOf(active') = IdsOf(Tail(active)) \cup {later.id}
    BY <1>0, <2>1, <2>2, <2>4, <2>5, AppendIds
  <2>7. IdsOf(active') = IdsOf(active)
    BY <2>3, <2>4, <2>6
  <2> QED BY <2>1, <2>6, <2>7 DEF UniqueIds
<1>7. CASE EmitAndComplete
  <2> DEFINE done == [id |-> Head(active).id,
                      tokens |-> Append(Head(active).generated, NextToken)]
  <2>1. /\ active # <<>> /\ active' = Tail(active) /\ pending' = pending
        /\ completed' = Append(completed, done)
    BY <1>7 DEF EmitAndComplete, Turn
  <2>2. /\ Distinct(active')
        /\ IdsOf(active') = IdsOf(active) \ {done.id}
        /\ done.id \in IdsOf(active)
    BY <1>0, <2>1, TailIds DEF UniqueIds
  <2>3. done.id \notin IdsOf(completed)
    BY <2>2 DEF UniqueIds
  <2> HIDE DEF done
  <2>4. /\ Distinct(completed')
        /\ IdsOf(completed') = IdsOf(completed) \cup {done.id}
    BY <1>0, <2>1, <2>3, AppendIds DEF UniqueIds
  <2> QED BY <2>1, <2>2, <2>4 DEF UniqueIds
<1>8. CASE FinishRun
  <2>1. completed' = <<>> /\ UNCHANGED <<pending, active>>
    BY <1>8 DEF FinishRun
  <2>2. IdsOf(completed') = {} /\ Distinct(completed')
    BY <2>1 DEF IdsOf, Distinct
  <2> QED BY <2>1, <2>2 DEF UniqueIds
<1>9. CASE UNCHANGED queues
  BY <1>9 DEF queues, UniqueIds
<1>10. \/ \E r \in Request : Submit(r)
       \/ \E id \in Ids : CancelPending(id) \/ CancelActive(id)
       \/ StartRun \/ ReapCanceled \/ DecodeFails \/ EmitAndRequeue
       \/ EmitAndComplete \/ FinishRun
       \/ UNCHANGED queues
  BY DEF Next, Client, Iteration, vars, RejectSubmit, RejectCancel
<1> QED BY <1>1, <1>2, <1>3, <1>4, <1>5, <1>6, <1>7, <1>8, <1>9, <1>10

\* Request ids are unique within pending, active and completed state, whatever
\* clients submit, cancel and submit again and wherever a run fails.
THEOREM UniqueIdsAlways ==
  ASSUME DecodesToTokens
  PROVE  Spec => []UniqueIds
<1>1. Init => UniqueIds
  BY DEF Init, UniqueIds, Distinct, IdsOf
<1>2. TypeOK /\ TypeOK' /\ UniqueIds /\ [Next]_vars => UniqueIds'
  BY UniqueIdsStep
<1>3. Spec => []TypeOK
  BY TypeCorrect
<1> QED BY <1>1, <1>2, <1>3, PTL DEF Spec

-----------------------------------------------------------------------------
(***************************************************************************)
(* The queue bound.                                                        *)
(***************************************************************************)

\* Every call and turn keeps the load within max_queue_len.
LEMMA QueueBoundStep ==
  ASSUME TypeOK, QueueBound, [Next]_vars
  PROVE  QueueBound'
<1> USE SchedulerAssumption DEF SchedulerAssumption
<1>0. /\ pending \in Seq(Slot) /\ active \in Seq(Slot)
      /\ Len(pending) \in Nat /\ Len(active) \in Nat
  BY DEF TypeOK
<1>1. ASSUME NEW r \in Request, Submit(r)
      PROVE  QueueBound'
  <2>1. Len(pending') = Len(pending) + 1 /\ active' = active
    BY <1>0, <1>1, AppendProperties DEF Submit
  <2>2. Len(pending) + Len(active) < MaxQueueLen
    BY <1>1 DEF Submit, Admissible, Load, HeldIds
  <2> QED BY <1>0, <2>1, <2>2 DEF QueueBound
<1>2. ASSUME NEW id \in Ids, CancelPending(id)
      PROVE  QueueBound'
  <2>1. PICK i \in DOMAIN pending : pending' = RemoveAt(pending, i)
    BY <1>2 DEF CancelPending
  <2>2. Len(pending') = Len(pending) - 1
    BY <1>0, <2>1, RemoveAtProperties
  <2> QED BY <1>0, <1>2, <2>2 DEF CancelPending, QueueBound
<1>3. ASSUME NEW id \in Ids, CancelActive(id)
      PROVE  QueueBound'
  BY <1>0, <1>3 DEF CancelActive, QueueBound
<1>4. CASE StartRun
  <2>1. Admitted \in Seq(Slot) /\ Len(Admitted) = Len(pending)
    BY AdmittedType
  <2>2. Len(active') = Len(active) + Len(pending)
    <3>1. active' = active \o Admitted
      BY <1>4 DEF StartRun
    <3> HIDE DEF Admitted
    <3>2. Len(active \o Admitted) = Len(active) + Len(Admitted)
      BY <1>0, <2>1, ConcatProperties, ZenonT(40)
    <3> QED BY <2>1, <3>1, <3>2
  <2>3. Len(pending') = 0
    BY <1>4 DEF StartRun
  <2> QED BY <1>0, <1>4, <2>2, <2>3 DEF StartRun, QueueBound
<1>5. CASE Iteration
  <2>1. pending' = pending /\ Len(active') <= Len(active) /\ Len(active') \in Nat
    <3>1. CASE active # <<>> /\ active' = Tail(active)
      BY <1>0, <1>5, <3>1
         DEF Iteration, ReapCanceled, EmitAndRequeue, Requeued, EmitAndComplete,
             DecodeFails, FinishRun
    <3>2. CASE EmitAndRequeue
      <4>1. active # <<>> /\ Tail(active) \in Seq(Slot)
            /\ Len(Tail(active)) = Len(active) - 1
        BY <1>0, <3>2 DEF EmitAndRequeue, Requeued, Turn
      <4>2. \A e : Len(Append(Tail(active), e)) = Len(active)
        BY <1>0, <4>1
      <4> QED BY <1>0, <3>2, <4>2 DEF EmitAndRequeue, Requeued
    <3>3. CASE FinishRun
      BY <1>0, <3>3 DEF FinishRun
    <3> QED BY <1>5, <3>1, <3>2, <3>3
            DEF Iteration, ReapCanceled, EmitAndComplete, DecodeFails, Turn
  <2> QED BY <1>0, <2>1 DEF QueueBound
<1>6. CASE UNCHANGED queues
  BY <1>6 DEF queues, QueueBound
<1> QED BY <1>1, <1>2, <1>3, <1>4, <1>5, <1>6
        DEF Next, Client, vars, RejectSubmit, RejectCancel

\* Pending plus active requests never exceed max_queue_len: what a failed run
\* leaves active is counted, and admission moves slots without adding any.
THEOREM QueueBoundAlways ==
  ASSUME DecodesToTokens
  PROVE  Spec => []QueueBound
<1>1. Init => QueueBound
  BY SchedulerAssumption DEF Init, QueueBound, SchedulerAssumption
<1>2. TypeOK /\ QueueBound /\ [Next]_vars => QueueBound'
  BY QueueBoundStep
<1>3. Spec => []TypeOK
  BY TypeCorrect
<1> QED BY <1>1, <1>2, <1>3, PTL DEF Spec

-----------------------------------------------------------------------------
(***************************************************************************)
(* Batching does not show in the output. The invariant is strengthened     *)
(* with the fact that whoever is live was asked for, by a request that is  *)
(* the last accepted under its id because live ids are not accepted again. *)
(***************************************************************************)

OnTrack(slot, book) ==
  book[slot.id] \in Request /\ OnCourse(slot, book[slot.id])
Answered(response, book) ==
  book[response.id] \in Request /\ Answers(response, book[response.id])

BatchInv ==
  /\ \A i \in DOMAIN pending : OnTrack(pending[i], asked)
  /\ \A i \in DOMAIN active : OnTrack(active[i], asked)
  /\ \A i \in DOMAIN completed : Answered(completed[i], asked)

\* One more token from the model continues a greedy run.
LEMMA GreedyStep ==
  ASSUME NEW p \in Seq(Token), NEW g \in Seq(Token), NEW t \in Token,
         GreedyRun(p, g), t = DecodeOne(p \o g)
  PROVE  /\ GreedyRun(p, Append(g, t))
         /\ p \o Append(g, t) = Append(p \o g, t)
<1> DEFINE h == Append(g, t)
<1>1. /\ h \in Seq(Token) /\ Len(h) = Len(g) + 1 /\ Len(g) \in Nat
      /\ \A k \in 1..Len(g) : h[k] = g[k]
      /\ h[Len(g) + 1] = t
  OBVIOUS
<1>2. p \o h = Append(p \o g, t)
  OBVIOUS
<1> HIDE DEF h
<1>3. ASSUME NEW k \in 1..(Len(g) + 1)
      PROVE  SubSeq(h, 1, k - 1) = SubSeq(g, 1, k - 1)
  <2>1. \A j \in 1..(k - 1) : h[j] = g[j] /\ j \in 1..Len(g)
    BY <1>1
  <2>2. /\ SubSeq(h, 1, k - 1) \in Seq(Token)
        /\ SubSeq(g, 1, k - 1) \in Seq(Token)
        /\ Len(SubSeq(h, 1, k - 1)) = k - 1
        /\ Len(SubSeq(g, 1, k - 1)) = k - 1
        /\ \A j \in 1..(k - 1) : SubSeq(h, 1, k - 1)[j] = h[j]
        /\ \A j \in 1..(k - 1) : SubSeq(g, 1, k - 1)[j] = g[j]
    BY <1>1
  <2> QED BY <2>1, <2>2, SeqEqual
<1>4. SubSeq(g, 1, Len(g)) = g
  BY SubSeqFull
<1>5. GreedyRun(p, h)
  <2> SUFFICES ASSUME NEW k \in 1..Len(h)
               PROVE  h[k] = DecodeOne(p \o SubSeq(h, 1, k - 1))
    BY DEF GreedyRun
  <2>1. CASE k \in 1..Len(g)
    <3>1. g[k] = DecodeOne(p \o SubSeq(g, 1, k - 1))
      BY <2>1 DEF GreedyRun
    <3> QED BY <1>1, <1>3, <2>1, <3>1
  <2>2. CASE k = Len(g) + 1
    <3>1. SubSeq(h, 1, k - 1) = g
      BY <1>1, <1>3, <1>4, <2>2
    <3> QED BY <1>1, <2>2, <3>1
  <2> QED BY <1>1, <2>1, <2>2
<1> QED BY <1>2, <1>5 DEF h

\* The head slot's turn, whether it finishes the request or not.
LEMMA EmitOnCourse ==
  ASSUME TypeOK, BatchInv, DecodesToTokens, active # <<>>,
         NEW slot, slot = Head(active), NEW r, r = asked[slot.id]
  PROVE  /\ slot \in Slot /\ r \in Request /\ r.prompt \in Seq(Token)
         /\ slot.max_new_tokens = r.max_new_tokens
         /\ Len(slot.generated) < r.max_new_tokens
         /\ GreedyRun(r.prompt, Append(slot.generated, NextToken))
         /\ Append(slot.prompt, NextToken)
              = r.prompt \o Append(slot.generated, NextToken)
<1>1. slot \in Slot /\ slot = active[1] /\ 1 \in DOMAIN active
  BY TailProperties DEF TypeOK
<1>2. r \in Request
  BY <1>1 DEF BatchInv, OnTrack
<1>3. r.prompt \in Seq(Token)
  BY <1>2, SchedulerAssumption DEF Request, SchedulerAssumption
<1>4. OnCourse(slot, r)
  BY <1>1 DEF BatchInv, OnTrack
<1>5. slot.generated \in Seq(Token)
  BY <1>1 DEF Slot
<1>6. NextToken \in Token /\ NextToken = DecodeOne(slot.prompt)
  BY NextTokenType DEF NextToken
<1> HIDE DEF NextToken
<1>7. /\ slot.prompt = r.prompt \o slot.generated
      /\ slot.max_new_tokens = r.max_new_tokens
      /\ Len(slot.generated) < r.max_new_tokens
      /\ GreedyRun(r.prompt, slot.generated)
  BY <1>4 DEF OnCourse
<1> DEFINE g == slot.generated
           p == r.prompt
           t == NextToken
<1>8. /\ p \in Seq(Token) /\ g \in Seq(Token) /\ t \in Token
      /\ GreedyRun(p, g) /\ t = DecodeOne(p \o g)
  BY <1>3, <1>5, <1>6, <1>7
<1>9. /\ GreedyRun(p, Append(g, t))
      /\ p \o Append(g, t) = Append(p \o g, t)
  <2> HIDE DEF p, g, t
  <2> QED BY <1>8, GreedyStep
<1> QED BY <1>1, <1>2, <1>3, <1>7, <1>9

\* Every call and turn keeps slots and responses on the course of their own
\* request.
LEMMA BatchInvStep ==
  ASSUME TypeOK, BatchInv, DecodesToTokens, [Next]_vars
  PROVE  BatchInv'
<1>0. /\ pending \in Seq(Slot) /\ active \in Seq(Slot)
      /\ completed \in Seq(Response)
      /\ asked \in [Ids -> Request \cup {NoRequest}]
  BY DEF TypeOK
<1>1. ASSUME NEW r \in Request, Submit(r)
      PROVE  BatchInv'
  <2>1. /\ pending' = Append(pending, NewSlot(r))
        /\ UNCHANGED <<active, completed>>
        /\ asked' = [asked EXCEPT ![r.id] = r]
        /\ r.id \notin IdsOf(pending) \cup IdsOf(active) \cup IdsOf(completed)
        /\ r.max_new_tokens > 0
    BY <1>1 DEF Submit, Admissible, Load, HeldIds
  <2>2. /\ \A i \in DOMAIN pending : asked'[pending[i].id] = asked[pending[i].id]
        /\ \A i \in DOMAIN active : asked'[active[i].id] = asked[active[i].id]
        /\ \A i \in DOMAIN completed :
             asked'[completed[i].id] = asked[completed[i].id]
    BY <1>0, <2>1 DEF IdsOf
  <2>3. asked'[r.id] = r
    BY <1>0, <2>1 DEF Request
  <2>4. OnTrack(NewSlot(r), asked')
    <3>1. /\ NewSlot(r).id = r.id /\ NewSlot(r).generated = <<>>
          /\ NewSlot(r).prompt = r.prompt
          /\ NewSlot(r).max_new_tokens = r.max_new_tokens
      BY DEF NewSlot
    <3>2. r.prompt \in Seq(Token) /\ r.max_new_tokens \in Nat
      BY SchedulerAssumption DEF Request, SchedulerAssumption
    <3>3. r.prompt = r.prompt \o <<>> /\ Len(<<>>) = 0
      BY <3>2
    <3>4. GreedyRun(r.prompt, <<>>)
      BY DEF GreedyRun
    <3>5. OnCourse(NewSlot(r), r)
      BY <2>1, <3>1, <3>2, <3>3, <3>4 DEF OnCourse
    <3> QED BY <2>3, <3>1, <3>5 DEF OnTrack
  <2>5. ASSUME NEW i \in DOMAIN pending'
        PROVE  OnTrack(pending'[i], asked')
    <3>1. \/ i \in DOMAIN pending /\ pending'[i] = pending[i]
          \/ pending'[i] = NewSlot(r)
      BY <1>0, <2>1
    <3> QED BY <2>2, <2>4, <3>1 DEF BatchInv, OnTrack
  <2>6. \A i \in DOMAIN active' : OnTrack(active'[i], asked')
    BY <2>1, <2>2 DEF BatchInv, OnTrack
  <2>7. \A i \in DOMAIN completed' : Answered(completed'[i], asked')
    BY <2>1, <2>2 DEF BatchInv, Answered
  <2> QED BY <2>5, <2>6, <2>7 DEF BatchInv
<1>2. ASSUME NEW id \in Ids, CancelPending(id)
      PROVE  BatchInv'
  <2>1. PICK k \in DOMAIN pending : pending' = RemoveAt(pending, k)
    BY <1>2 DEF CancelPending
  <2>2. UNCHANGED <<active, completed, asked>>
    BY <1>2 DEF CancelPending
  <2>3. /\ k \in 1..Len(pending) /\ DOMAIN pending = 1..Len(pending)
        /\ Len(pending) \in Nat
    BY <1>0
  <2>4. /\ DOMAIN pending' = 1..(Len(pending) - 1)
        /\ \A j \in 1..(Len(pending) - 1) :
             pending'[j] = IF j < k THEN pending[j] ELSE pending[j + 1]
    <3>1. /\ Len(pending') = Len(pending) - 1
          /\ pending' \in Seq(Slot)
          /\ \A j \in 1..(Len(pending) - 1) :
               pending'[j] = IF j < k THEN pending[j] ELSE pending[j + 1]
      BY <1>0, <2>1, <2>3, RemoveAtProperties
    <3>2. DOMAIN pending' = 1..Len(pending')
      BY <3>1
    <3> QED BY <3>1, <3>2
  <2>5. ASSUME NEW i \in DOMAIN pending'
        PROVE  OnTrack(pending'[i], asked')
    <3>1. i \in DOMAIN pending /\ i + 1 \in DOMAIN pending
          /\ pending'[i] \in {pending[i], pending[i + 1]}
      BY <2>3, <2>4
    <3> QED BY <2>2, <3>1 DEF BatchInv
  <2> QED BY <2>2, <2>5 DEF BatchInv
<1>3. ASSUME NEW id \in Ids, CancelActive(id)
      PROVE  BatchInv'
  <2>1. PICK k \in DOMAIN active :
          active' = [active EXCEPT ![k].state = "Canceled"]
    BY <1>3 DEF CancelActive
  <2>2. UNCHANGED <<pending, completed, asked>>
    BY <1>3 DEF CancelActive
  <2>3. ASSUME NEW i \in DOMAIN active'
        PROVE  OnTrack(active'[i], asked')
    <3>1. i \in DOMAIN active /\ active[i] \in Slot
      BY <1>0, <2>1
    <3>2. /\ active'[i].id = active[i].id
          /\ active'[i].prompt = active[i].prompt
          /\ active'[i].generated = active[i].generated
          /\ active'[i].max_new_tokens = active[i].max_new_tokens
      BY <1>0, <2>1, <3>1 DEF Slot
    <3> QED BY <2>2, <3>1, <3>2 DEF BatchInv, OnTrack, OnCourse
  <2> QED BY <2>2, <2>3 DEF BatchInv
<1>4. CASE StartRun
  <2>1. /\ pending' = <<>> /\ active' = active \o Admitted
        /\ UNCHANGED <<completed, asked>>
    BY <1>4 DEF StartRun
  <2>2. /\ Admitted \in Seq(Slot) /\ Len(Admitted) = Len(pending)
        /\ DOMAIN Admitted = DOMAIN pending
    BY AdmittedType DEF Admitted
  <2>3. ASSUME NEW i \in DOMAIN pending
        PROVE  OnTrack(Admitted[i], asked)
    <3>1. pending[i] \in Slot
      BY <1>0
    <3>2. Admitted[i] = [pending[i] EXCEPT !.state = "Decode"]
      BY AdmittedType
    <3>3. /\ Admitted[i].id = pending[i].id
          /\ Admitted[i].prompt = pending[i].prompt
          /\ Admitted[i].generated = pending[i].generated
          /\ Admitted[i].max_new_tokens = pending[i].max_new_tokens
      BY <3>1, <3>2 DEF Slot
    <3> QED BY <3>3 DEF BatchInv, OnTrack, OnCourse
  <2>4. ASSUME NEW i \in DOMAIN active'
        PROVE  OnTrack(active'[i], asked')
    <3>1. \/ i \in DOMAIN active /\ active'[i] = active[i]
          \/ i - Len(active) \in DOMAIN Admitted
             /\ active'[i] = Admitted[i - Len(active)]
      <4> HIDE DEF Admitted
      <4> QED BY <1>0, <2>1, <2>2, ConcatProperties
    <3> QED BY <2>1, <2>2, <2>3, <3>1 DEF BatchInv
  <2> QED BY <2>1, <2>4 DEF BatchInv
<1>5. CASE ReapCanceled \/ DecodeFails
  <2>1. /\ active # <<>> /\ active' = Tail(active)
        /\ UNCHANGED <<pending, completed, asked>>
    BY <1>5 DEF ReapCanceled, DecodeFails, Turn
  <2>2. \A i \in DOMAIN active' :
          i + 1 \in DOMAIN active /\ active'[i] = active[i + 1]
    BY <1>0, <2>1
  <2> QED BY <2>1, <2>2 DEF BatchInv
<1>6. CASE EmitAndRequeue
  <2> DEFINE slot == Head(active)
             later == [slot EXCEPT !.prompt = Append(@, NextToken),
                                   !.generated = Append(@, NextToken)]
             r == asked[slot.id]
  <2>1. /\ active # <<>> /\ active' = Append(Tail(active), later)
        /\ Len(slot.generated) + 1 # slot.max_new_tokens
        /\ UNCHANGED <<pending, completed, asked>>
    BY <1>6 DEF EmitAndRequeue, Requeued, Turn
  <2>2. /\ slot \in Slot /\ r \in Request /\ r.prompt \in Seq(Token)
        /\ slot.max_new_tokens = r.max_new_tokens
        /\ Len(slot.generated) < r.max_new_tokens
        /\ GreedyRun(r.prompt, Append(slot.generated, NextToken))
        /\ Append(slot.prompt, NextToken)
             = r.prompt \o Append(slot.generated, NextToken)
    BY <2>1, EmitOnCourse
  <2>3. /\ later.id = slot.id
        /\ later.prompt = Append(slot.prompt, NextToken)
        /\ later.generated = Append(slot.generated, NextToken)
        /\ later.max_new_tokens = slot.max_new_tokens
    BY <2>2 DEF Slot
  <2>4. Len(later.generated) < r.max_new_tokens
    <3> HIDE DEF slot, later, r, NextToken
    <3>1. /\ slot.generated \in Seq(Token) /\ slot.max_new_tokens \in Nat
          /\ Len(slot.generated) \in Nat
      BY <2>2 DEF Slot
    <3>2. Len(later.generated) = Len(slot.generated) + 1
      BY <2>3, <3>1
    <3>3. /\ Len(slot.generated) < r.max_new_tokens
          /\ Len(slot.generated) + 1 # r.max_new_tokens /\ r.max_new_tokens \in Nat
      BY <2>1, <2>2, <3>1
    <3> QED BY <3>1, <3>2, <3>3
  <2>5. OnCourse(later, r)
    BY <2>2, <2>3, <2>4 DEF OnCourse
  <2>6. OnTrack(later, asked)
    BY <2>2, <2>3, <2>5 DEF OnTrack
  <2> HIDE DEF later
  <2>7. ASSUME NEW i \in DOMAIN active'
        PROVE  OnTrack(active'[i], asked')
    <3>1. \/ i + 1 \in DOMAIN active /\ active'[i] = active[i + 1]
          \/ active'[i] = later
      <4>1. /\ DOMAIN Tail(active) = 1..(Len(active) - 1)
            /\ DOMAIN active = 1..Len(active) /\ Len(active) \in Nat
            /\ \A j \in 1..(Len(active) - 1) : Tail(active)[j] = active[j + 1]
            /\ Tail(active) \in Seq(Slot) /\ Len(Tail(active)) = Len(active) - 1
        BY <1>0, <2>1
      <4>2. CASE i \in 1..(Len(active) - 1)
        BY <2>1, <4>1, <4>2
      <4>3. CASE i = Len(active)
        BY <2>1, <4>1, <4>3
      <4>4. DOMAIN active' = 1..Len(active)
        BY <2>1, <4>1
      <4> QED BY <4>1, <4>2, <4>3, <4>4
    <3> QED BY <2>1, <2>6, <3>1 DEF BatchInv
  <2> QED BY <2>1, <2>7 DEF BatchInv
<1>7. CASE EmitAndComplete
  <2> DEFINE slot == Head(active)
             done == [id |-> slot.id,
                      tokens |-> Append(slot.generated, NextToken)]
             r == asked[slot.id]
  <2>1. /\ active # <<>> /\ active' = Tail(active)
        /\ Len(slot.generated) + 1 = slot.max_new_tokens
        /\ completed' = Append(completed, done)
        /\ UNCHANGED <<pending, asked>>
    BY <1>7 DEF EmitAndComplete, Turn
  <2>2. /\ slot \in Slot /\ r \in Request
        /\ slot.max_new_tokens = r.max_new_tokens
        /\ GreedyRun(r.prompt, Append(slot.generated, NextToken))
    BY <2>1, EmitOnCourse
  <2>3. Len(done.tokens) = r.max_new_tokens
    <3>1. slot.generated \in Seq(Token)
      BY <2>2 DEF Slot
    <3>2. Len(done.tokens) = Len(slot.generated) + 1
      <4> HIDE DEF slot, NextToken
      <4> QED BY <3>1
    <3> QED BY <2>1, <2>2, <3>2
  <2>4. Answered(done, asked)
    BY <2>2, <2>3 DEF Answered, Answers
  <2> HIDE DEF done
  <2>5. ASSUME NEW i \in DOMAIN completed'
        PROVE  Answered(completed'[i], asked')
    <3>1. \/ i \in DOMAIN completed /\ completed'[i] = completed[i]
          \/ completed'[i] = done
      BY <1>0, <2>1
    <3> QED BY <2>1, <2>4, <3>1 DEF BatchInv
  <2>6. \A i \in DOMAIN active' :
          i + 1 \in DOMAIN active /\ active'[i] = active[i + 1]
    BY <1>0, <2>1
  <2> QED BY <2>1, <2>5, <2>6 DEF BatchInv
<1>8. CASE FinishRun
  BY <1>8 DEF FinishRun, BatchInv
<1>9. CASE UNCHANGED <<queues, asked>>
  BY <1>9 DEF queues, BatchInv
<1>10. \/ \E r \in Request : Submit(r)
       \/ \E id \in Ids : CancelPending(id) \/ CancelActive(id)
       \/ StartRun \/ ReapCanceled \/ DecodeFails \/ EmitAndRequeue
       \/ EmitAndComplete \/ FinishRun
       \/ UNCHANGED <<queues, asked>>
  BY DEF Next, Client, Iteration, vars, RejectSubmit, RejectCancel
<1> QED BY <1>1, <1>2, <1>3, <1>4, <1>5, <1>6, <1>7, <1>8, <1>9, <1>10

\* Whatever shared the batch, failed or was canceled, every slot and every
\* response holds the tokens the model gives its request on its own, and every
\* response holds all of them: for any prompts, ids, limits and model.
THEOREM BatchingTransparentAlways ==
  ASSUME DecodesToTokens
  PROVE  Spec => []BatchingTransparent
<1>1. Init => BatchInv
  BY DEF Init, BatchInv
<1>2. TypeOK /\ BatchInv /\ [Next]_vars => BatchInv'
  BY BatchInvStep
<1>3. BatchInv => BatchingTransparent
  BY DEF BatchInv, OnTrack, Answered, BatchingTransparent
<1>4. Spec => []TypeOK
  BY TypeCorrect
<1> QED BY <1>1, <1>2, <1>3, <1>4, PTL DEF Spec
-----------------------------------------------------------------------------
(***************************************************************************)
(* The queues as sets.                                                     *)
(***************************************************************************)

\* push_back adds its element.
LEMMA AppendSet ==
  ASSUME NEW S, NEW s \in Seq(S), NEW e
  PROVE  ToSet(Append(s, e)) = ToSet(s) \cup {e}
<1>1. /\ DOMAIN s = 1..Len(s) /\ Len(s) \in Nat
      /\ DOMAIN Append(s, e) = 1..(Len(s) + 1)
      /\ \A i \in 1..Len(s) : Append(s, e)[i] = s[i]
      /\ Append(s, e)[Len(s) + 1] = e
  OBVIOUS
<1>2. \A i \in 1..(Len(s) + 1) : i \in 1..Len(s) \/ i = Len(s) + 1
  BY <1>1
<1>3. 1..Len(s) \subseteq 1..(Len(s) + 1) /\ Len(s) + 1 \in 1..(Len(s) + 1)
  BY <1>1
<1> QED BY <1>1, <1>2, <1>3, Zenon DEF ToSet

\* pop_front takes the first element out.
LEMMA TailSet ==
  ASSUME NEW S, NEW s \in Seq(S), s # <<>>
  PROVE  ToSet(s) = ToSet(Tail(s)) \cup {Head(s)}
<1>1. /\ DOMAIN s = 1..Len(s) /\ Len(s) \in Nat /\ 1 \in DOMAIN s
      /\ DOMAIN Tail(s) = 1..(Len(s) - 1)
      /\ \A i \in 1..(Len(s) - 1) : Tail(s)[i] = s[i + 1]
      /\ Head(s) = s[1]
  OBVIOUS
<1>2. \A i \in 1..Len(s) :
        i = 1 \/ (i - 1 \in 1..(Len(s) - 1) /\ (i - 1) + 1 = i)
  BY <1>1
<1>3. \A i \in 1..(Len(s) - 1) : i + 1 \in 1..Len(s)
  BY <1>1
<1>4. ToSet(s) \subseteq ToSet(Tail(s)) \cup {Head(s)}
  <2> SUFFICES ASSUME NEW i \in 1..Len(s)
               PROVE  s[i] \in ToSet(Tail(s)) \cup {Head(s)}
    BY <1>1 DEF ToSet
  <2>1. CASE i = 1
    BY <1>1, <2>1
  <2>2. CASE i # 1
    <3>1. i - 1 \in DOMAIN Tail(s) /\ Tail(s)[i - 1] = s[i]
      BY <1>1, <1>2, <2>2
    <3> QED BY <3>1 DEF ToSet
  <2> QED BY <2>1, <2>2
<1>5. ToSet(Tail(s)) \cup {Head(s)} \subseteq ToSet(s)
  <2>1. ASSUME NEW i \in 1..(Len(s) - 1)
        PROVE  Tail(s)[i] \in ToSet(s)
    <3>1. i + 1 \in DOMAIN s /\ Tail(s)[i] = s[i + 1]
      BY <1>1, <1>3
    <3> QED BY <3>1 DEF ToSet
  <2>2. ToSet(Tail(s)) \subseteq ToSet(s)
    BY <1>1, <2>1 DEF ToSet
  <2>3. Head(s) \in ToSet(s)
    BY <1>1 DEF ToSet
  <2> QED BY <2>2, <2>3
<1> QED BY <1>4, <1>5

\* Extending a queue by another one unites them.
LEMMA ConcatSet ==
  ASSUME NEW S, NEW s \in Seq(S), NEW t \in Seq(S)
  PROVE  ToSet(s \o t) = ToSet(s) \cup ToSet(t)
<1>1. /\ DOMAIN s = 1..Len(s) /\ Len(s) \in Nat
      /\ DOMAIN t = 1..Len(t) /\ Len(t) \in Nat
      /\ DOMAIN (s \o t) = 1..(Len(s) + Len(t))
      /\ \A i \in 1..Len(s) : (s \o t)[i] = s[i]
      /\ \A i \in 1..Len(t) : (s \o t)[Len(s) + i] = t[i]
  OBVIOUS
<1>2. \A i \in 1..(Len(s) + Len(t)) :
        \/ i \in 1..Len(s)
        \/ \E j \in 1..Len(t) : i = Len(s) + j
  <2> SUFFICES ASSUME NEW i \in 1..(Len(s) + Len(t)), i \notin 1..Len(s)
               PROVE  \E j \in 1..Len(t) : i = Len(s) + j
    OBVIOUS
  <2>1. i - Len(s) \in 1..Len(t) /\ i = Len(s) + (i - Len(s))
    BY <1>1
  <2> QED BY <2>1
<1>3. ASSUME NEW e \in ToSet(s \o t)
      PROVE  e \in ToSet(s) \cup ToSet(t)
  <2>1. PICK i \in 1..(Len(s) + Len(t)) : e = (s \o t)[i]
    BY <1>1 DEF ToSet
  <2>2. CASE i \in 1..Len(s)
    BY <1>1, <2>1, <2>2 DEF ToSet
  <2>3. CASE \E j \in 1..Len(t) : i = Len(s) + j
    BY <1>1, <2>1, <2>3 DEF ToSet
  <2> QED BY <1>2, <2>2, <2>3
<1>4. ASSUME NEW i \in 1..Len(s)
      PROVE  s[i] \in ToSet(s \o t)
  <2>1. i \in DOMAIN (s \o t) /\ (s \o t)[i] = s[i]
    BY <1>1
  <2> QED BY <2>1 DEF ToSet
<1>5. ASSUME NEW i \in 1..Len(t)
      PROVE  t[i] \in ToSet(s \o t)
  <2>1. Len(s) + i \in DOMAIN (s \o t) /\ (s \o t)[Len(s) + i] = t[i]
    BY <1>1
  <2> QED BY <2>1 DEF ToSet
<1>6. ToSet(s) \cup ToSet(t) \subseteq ToSet(s \o t)
  BY <1>1, <1>4, <1>5 DEF ToSet
<1> QED BY <1>3, <1>6

\* Removing an element leaves every other one.
LEMMA RemoveSet ==
  ASSUME NEW S, NEW s \in Seq(S), NEW i \in DOMAIN s
  PROVE  ToSet(s) = ToSet(RemoveAt(s, i)) \cup {s[i]}
<1>1. /\ DOMAIN s = 1..Len(s) /\ Len(s) \in Nat /\ i \in 1..Len(s)
  OBVIOUS
<1>2. /\ DOMAIN RemoveAt(s, i) = 1..(Len(s) - 1)
      /\ \A j \in 1..(Len(s) - 1) :
           RemoveAt(s, i)[j] = IF j < i THEN s[j] ELSE s[j + 1]
  <2>1. /\ Len(RemoveAt(s, i)) = Len(s) - 1
        /\ RemoveAt(s, i) \in Seq(S)
        /\ \A j \in 1..(Len(s) - 1) :
             RemoveAt(s, i)[j] = IF j < i THEN s[j] ELSE s[j + 1]
    BY <1>1, RemoveAtProperties
  <2>2. DOMAIN RemoveAt(s, i) = 1..Len(RemoveAt(s, i))
    BY <2>1
  <2> QED BY <2>1, <2>2
<1>3. ASSUME NEW j \in 1..Len(s)
      PROVE  s[j] \in ToSet(RemoveAt(s, i)) \cup {s[i]}
  <2>1. CASE j < i
    <3>1. j \in DOMAIN RemoveAt(s, i) /\ RemoveAt(s, i)[j] = s[j]
      BY <1>1, <1>2, <2>1
    <3> QED BY <3>1 DEF ToSet
  <2>2. CASE j > i
    <3>1. j - 1 \in DOMAIN RemoveAt(s, i) /\ RemoveAt(s, i)[j - 1] = s[j]
      BY <1>1, <1>2, <2>2
    <3> QED BY <3>1 DEF ToSet
  <2>3. CASE j = i
    BY <2>3
  <2> QED BY <1>1, <2>1, <2>2, <2>3
<1>4. ASSUME NEW j \in 1..(Len(s) - 1)
      PROVE  RemoveAt(s, i)[j] \in ToSet(s)
  <2>1. RemoveAt(s, i)[j] \in {s[j], s[j + 1]} /\ j \in DOMAIN s
        /\ j + 1 \in DOMAIN s
    BY <1>1, <1>2
  <2> QED BY <2>1 DEF ToSet
<1>5. ToSet(s) \subseteq ToSet(RemoveAt(s, i)) \cup {s[i]}
  <2> SUFFICES ASSUME NEW e \in ToSet(s)
               PROVE  e \in ToSet(RemoveAt(s, i)) \cup {s[i]}
    OBVIOUS
  <2>1. PICK j \in 1..Len(s) : e = s[j]
    BY <1>1 DEF ToSet
  <2> QED BY <1>3, <2>1
<1>6. ToSet(RemoveAt(s, i)) \subseteq ToSet(s)
  <2> SUFFICES ASSUME NEW e \in ToSet(RemoveAt(s, i))
               PROVE  e \in ToSet(s)
    OBVIOUS
  <2>1. PICK j \in 1..(Len(s) - 1) : e = RemoveAt(s, i)[j]
    BY <1>2 DEF ToSet
  <2> QED BY <1>4, <2>1
<1>7. s[i] \in ToSet(s)
  BY DEF ToSet
<1> QED BY <1>5, <1>6, <1>7

\* Handing the responses over reorders them and loses none.
LEMMA FinishSet ==
  ASSUME FinishRun
  PROVE  ToSet(responses') = ToSet(completed)
<1>1. PICK order \in Bijection(DOMAIN completed, DOMAIN completed) :
        responses' = [i \in DOMAIN completed |-> completed[order[i]]]
  BY DEF FinishRun
<1>2. /\ \A i \in DOMAIN completed : order[i] \in DOMAIN completed
      /\ \A j \in DOMAIN completed : \E i \in DOMAIN completed : order[i] = j
  BY DEF Bijection, Injection, Surjection
<1>3. /\ DOMAIN responses' = DOMAIN completed
      /\ \A i \in DOMAIN completed : responses'[i] = completed[order[i]]
  BY <1>1
<1>4. ASSUME NEW j \in DOMAIN completed
      PROVE  completed[j] \in ToSet(responses')
  <2>1. PICK i \in DOMAIN completed : order[i] = j
    BY <1>2
  <2>2. i \in DOMAIN responses' /\ responses'[i] = completed[j]
    BY <1>3, <2>1
  <2> QED BY <2>2 DEF ToSet
<1>5. ASSUME NEW i \in DOMAIN completed
      PROVE  responses'[i] \in ToSet(completed)
  BY <1>2, <1>3 DEF ToSet
<1>6. ToSet(completed) \subseteq ToSet(responses')
  BY <1>4 DEF ToSet
<1>7. ToSet(responses') \subseteq ToSet(completed)
  BY <1>3, <1>5 DEF ToSet
<1> QED BY <1>6, <1>7

\* A finished response is in completed until the run that returns it, whatever
\* fails, is canceled or is submitted meanwhile.
THEOREM CompletedIsDeliveredAlways ==
  ASSUME DecodesToTokens
  PROVE  Spec => CompletedIsDelivered
<1> DEFINE Kept ==
      \A i \in DOMAIN completed :
        \/ completed[i] \in ToSet(completed')
        \/ Returns /\ completed[i] \in ToSet(responses')
<1>1. TypeOK /\ [Next]_vars => Kept
  <2> SUFFICES ASSUME TypeOK, [Next]_vars, NEW i \in DOMAIN completed
               PROVE  \/ completed[i] \in ToSet(completed')
                      \/ Returns /\ completed[i] \in ToSet(responses')
    OBVIOUS
  <2>1. completed[i] \in ToSet(completed) /\ completed \in Seq(Response)
    BY DEF ToSet, TypeOK
  <2>2. CASE UNCHANGED completed
    BY <2>1, <2>2
  <2>3. CASE EmitAndComplete
    <3>1. PICK done : completed' = Append(completed, done)
      BY <2>3 DEF EmitAndComplete
    <3> QED BY <2>1, <3>1, AppendSet
  <2>4. CASE FinishRun
    <3>1. Returns
      BY <2>4 DEF FinishRun, Returns
    <3> QED BY <2>1, <2>4, <3>1, FinishSet
  <2>5. UNCHANGED completed \/ EmitAndComplete \/ FinishRun
    BY DEF Next, Client, Iteration, vars, queues, Submit, RejectSubmit,
           CancelPending, CancelActive, RejectCancel, StartRun, ReapCanceled,
           EmitAndRequeue, DecodeFails
  <2> QED BY <2>2, <2>3, <2>4, <2>5
<1>2. Spec => []TypeOK
  BY TypeCorrect
<1>3. CompletedIsDelivered <=> [][Kept]_vars
  BY DEF CompletedIsDelivered
<1> HIDE DEF Kept
<1>4. Spec => [][Kept]_vars
  BY <1>1, <1>2, PTL DEF Spec
<1> QED BY <1>3, <1>4
-----------------------------------------------------------------------------
(***************************************************************************)
(* The scheduler implements GenerationService. A job is determined by what *)
(* the slots and responses under its id hold; an action changes that under *)
(* the id it serves and under no other.                                    *)
(***************************************************************************)

Slots == ToSet(pending) \cup ToSet(active)

\* JobOf as a function of the queues' contents
JobIn(slots, ended, book, id) ==
  LET mine == {s \in slots : s.id = id /\ s.state # "Canceled"}
      done == {r \in ended : r.id = id}
      got == {s.generated : s \in mine} \cup {r.tokens : r \in done}
  IN  IF got = {} THEN NoRequest
      ELSE [prompt |-> book[id].prompt, wanted |-> book[id].max_new_tokens,
            got |-> CHOOSE tokens \in got : TRUE]

JobWith(r, tokens) ==
  [prompt |-> r.prompt, wanted |-> r.max_new_tokens, got |-> tokens]

\* A slot or a response under the id has generated these tokens
Holds(slots, ended, id, tokens) ==
  \/ \E s \in slots :
       s.id = id /\ s.state # "Canceled" /\ s.generated = tokens
  \/ \E r \in ended : r.id = id /\ r.tokens = tokens

\* No two slots or responses share an id
OneEach(slots, ended) ==
  /\ \A s, t \in slots : s.id = t.id => s = t
  /\ \A r, q \in ended : r.id = q.id => r = q
  /\ \A s \in slots, r \in ended : s.id # r.id

\* A job is read off the queues' contents, now and after a step.
LEMMA JobOfIn ==
  \A id : JobOf(id) = JobIn(Slots, ToSet(completed), asked, id)
BY DEF JobOf, JobIn, Slots

\* Queues that hold the same under an id give it the same job.
LEMMA SameJob ==
  ASSUME NEW slots, NEW ended, NEW book, NEW slots2, NEW ended2, NEW book2,
         NEW id, book[id] = book2[id],
         \A g : Holds(slots, ended, id, g) <=> Holds(slots2, ended2, id, g)
  PROVE  JobIn(slots, ended, book, id) = JobIn(slots2, ended2, book2, id)
<1> DEFINE got1 == {s.generated : s \in {s \in slots :
                                    s.id = id /\ s.state # "Canceled"}}
                   \cup {r.tokens : r \in {r \in ended : r.id = id}}
           got2 == {s.generated : s \in {s \in slots2 :
                                    s.id = id /\ s.state # "Canceled"}}
                   \cup {r.tokens : r \in {r \in ended2 : r.id = id}}
<1>1. \A g : g \in got1 <=> Holds(slots, ended, id, g)
  BY DEF Holds
<1>2. \A g : g \in got2 <=> Holds(slots2, ended2, id, g)
  BY DEF Holds
<1>3. got1 = got2
  <2> HIDE DEF got1, got2
  <2> QED BY <1>1, <1>2
<1>4. JobIn(slots, ended, book, id) =
        IF got1 = {} THEN NoRequest
        ELSE [prompt |-> book[id].prompt, wanted |-> book[id].max_new_tokens,
              got |-> CHOOSE tokens \in got1 : TRUE]
  BY DEF JobIn
<1>5. JobIn(slots2, ended2, book2, id) =
        IF got2 = {} THEN NoRequest
        ELSE [prompt |-> book2[id].prompt, wanted |-> book2[id].max_new_tokens,
              got |-> CHOOSE tokens \in got2 : TRUE]
  BY DEF JobIn
<1> HIDE DEF got1, got2
<1> QED BY <1>3, <1>4, <1>5

\* An id that holds one sequence of tokens has the job with these tokens.
LEMMA TheJob ==
  ASSUME NEW slots, NEW ended, NEW book, NEW id, NEW g,
         Holds(slots, ended, id, g), OneEach(slots, ended)
  PROVE  JobIn(slots, ended, book, id) = JobWith(book[id], g)
<1> DEFINE got1 == {s.generated : s \in {s \in slots :
                                    s.id = id /\ s.state # "Canceled"}}
                   \cup {r.tokens : r \in {r \in ended : r.id = id}}
<1>1. \A h : h \in got1 <=> Holds(slots, ended, id, h)
  BY DEF Holds
<1>2. \A h : Holds(slots, ended, id, h) => h = g
  BY DEF Holds, OneEach
<1>3. JobIn(slots, ended, book, id) =
        IF got1 = {} THEN NoRequest
        ELSE [prompt |-> book[id].prompt, wanted |-> book[id].max_new_tokens,
              got |-> CHOOSE tokens \in got1 : TRUE]
  BY DEF JobIn
<1> HIDE DEF got1
<1>4. g \in got1 /\ \A h \in got1 : h = g
  BY <1>1, <1>2
<1>5. (CHOOSE tokens \in got1 : TRUE) = g
  BY <1>4
<1> QED BY <1>3, <1>4, <1>5 DEF JobWith

\* An id that holds nothing has no job.
LEMMA NoJob ==
  ASSUME NEW slots, NEW ended, NEW book, NEW id,
         \A g : ~Holds(slots, ended, id, g)
  PROVE  JobIn(slots, ended, book, id) = NoRequest
BY DEF JobIn, Holds

\* Unique ids, as a fact about the queues' contents.
LEMMA OneEachOf ==
  ASSUME NEW p, NEW a, NEW c, Distinct(p), Distinct(a), Distinct(c),
         IdsOf(p) \cap IdsOf(a) = {}, IdsOf(p) \cap IdsOf(c) = {},
         IdsOf(a) \cap IdsOf(c) = {}
  PROVE  OneEach(ToSet(p) \cup ToSet(a), ToSet(c))
<1>1. /\ \A s \in ToSet(p) : s.id \in IdsOf(p)
      /\ \A s \in ToSet(a) : s.id \in IdsOf(a)
      /\ \A s \in ToSet(c) : s.id \in IdsOf(c)
  BY DEF ToSet, IdsOf
<1>2. /\ \A s, t \in ToSet(p) : s.id = t.id => s = t
      /\ \A s, t \in ToSet(a) : s.id = t.id => s = t
      /\ \A s, t \in ToSet(c) : s.id = t.id => s = t
  BY DEF ToSet, Distinct
<1>3. ASSUME NEW s \in ToSet(p) \cup ToSet(a), NEW t \in ToSet(p) \cup ToSet(a),
             s.id = t.id
      PROVE  s = t
  BY <1>1, <1>2, <1>3
<1>4. ASSUME NEW s \in ToSet(p) \cup ToSet(a), NEW r \in ToSet(c)
      PROVE  s.id # r.id
  BY <1>1
<1> QED BY <1>2, <1>3, <1>4 DEF OneEach

\* A queue of n elements has at most n ids.
LEMMA IdsCount ==
  ASSUME NEW S, NEW s \in Seq(S)
  PROVE  /\ IsFiniteSet(IdsOf(s))
         /\ Cardinality(IdsOf(s)) \in Nat
         /\ Cardinality(IdsOf(s)) <= Len(s)
<1> DEFINE f == [i \in 1..Len(s) |-> s[i].id]
<1>1. DOMAIN s = 1..Len(s) /\ Len(s) \in Nat
  OBVIOUS
<1>2. f \in Surjection(1..Len(s), IdsOf(s))
  BY <1>1 DEF Surjection, IdsOf
<1>3. IsFiniteSet(1..Len(s)) /\ Cardinality(1..Len(s)) = Len(s)
  BY <1>1, FS_Interval
<1>4. IsFiniteSet(IdsOf(s)) /\ Cardinality(IdsOf(s)) <= Cardinality(1..Len(s))
  BY <1>2, <1>3, FS_Surjection
<1> QED BY <1>3, <1>4, FS_CardinalityType

-----------------------------------------------------------------------------
\* A run starts by emptying pending, and no call comes before it returns.
Drained == running => pending = <<>>

\* While a run executes nothing is pending: admission took it all.
LEMMA DrainedStep ==
  ASSUME TypeOK, Drained, [Next]_vars
  PROVE  Drained'
BY DEF Drained, Next, Client, Iteration, vars, queues, Submit, RejectSubmit,
       CancelPending, CancelActive, RejectCancel, StartRun, ReapCanceled,
       EmitAndRequeue, EmitAndComplete, DecodeFails, FinishRun

\* The jobs of all ids, as the service sees them
Jobs == [id \in Ids |-> JobOf(id)]

\* A slot that is not canceled is an unfinished job.
LEMMA SlotJob ==
  ASSUME TypeOK, UniqueIds, BatchInv, NEW s \in Slots, s.state # "Canceled"
  PROVE  /\ s \in Slot /\ s.id \in Ids /\ OnTrack(s, asked)
         /\ JobOf(s.id) = JobWith(asked[s.id], s.generated)
         /\ s.id \in Service!Unfinished
<1>1. s \in Slot /\ OnTrack(s, asked)
  <2>1. \/ \E i \in DOMAIN pending : s = pending[i]
        \/ \E i \in DOMAIN active : s = active[i]
    BY DEF Slots, ToSet
  <2>2. /\ \A i \in DOMAIN pending : pending[i] \in Slot
        /\ \A i \in DOMAIN active : active[i] \in Slot
    BY DEF TypeOK
  <2> QED BY <2>1, <2>2 DEF BatchInv
<1>2. s.id \in Ids /\ s.generated \in Seq(Token)
  BY <1>1 DEF Slot
<1>3. JobOf(s.id) = JobWith(asked[s.id], s.generated)
  <2>1. OneEach(Slots, ToSet(completed))
    BY OneEachOf DEF UniqueIds, Slots
  <2>2. Holds(Slots, ToSet(completed), s.id, s.generated)
    BY DEF Holds
  <2> QED BY <2>1, <2>2, JobOfIn, TheJob
<1>4. JobOf(s.id) # NoRequest
  <2>1. asked[s.id] \in Request
    BY <1>1 DEF OnTrack
  <2>2. JobWith(asked[s.id], s.generated) \in Job
    BY <1>2, <2>1 DEF Request, Job, JobWith
  <2> QED BY <1>3, <2>2, NoRequestAssumption
<1>5. Len(JobOf(s.id).got) # JobOf(s.id).wanted
  <2>1. /\ JobOf(s.id).got = s.generated
        /\ JobOf(s.id).wanted = asked[s.id].max_new_tokens
    BY <1>3 DEF JobWith
  <2>2. Len(s.generated) < asked[s.id].max_new_tokens
    BY <1>1 DEF OnTrack, OnCourse
  <2>3. Len(s.generated) \in Nat
    BY <1>2
  <2>4. asked[s.id].max_new_tokens \in Nat
    BY <1>1, SchedulerAssumption DEF OnTrack, Request, SchedulerAssumption
  <2> QED BY <2>1, <2>2, <2>3, <2>4
<1>6. s.id \in Service!Unfinished
  BY <1>2, <1>4, <1>5 DEF Service!Unfinished, Service!Busy, Service!Finished
<1> QED BY <1>1, <1>2, <1>3, <1>6

\* A response is a finished job.
LEMMA ResponseJob ==
  ASSUME TypeOK, UniqueIds, BatchInv, NEW r \in ToSet(completed)
  PROVE  /\ r \in Response /\ r.id \in Ids
         /\ JobOf(r.id) = JobWith(asked[r.id], r.tokens)
         /\ Service!Busy(r.id)
         /\ r.id \notin Service!Unfinished
<1>1. r \in Response /\ Answered(r, asked)
  <2>1. \E i \in DOMAIN completed : r = completed[i]
    BY DEF ToSet
  <2>2. \A i \in DOMAIN completed : completed[i] \in Response
    BY DEF TypeOK
  <2> QED BY <2>1, <2>2 DEF BatchInv
<1>2. r.id \in Ids /\ r.tokens \in Seq(Token)
  BY <1>1 DEF Response
<1>3. JobOf(r.id) = JobWith(asked[r.id], r.tokens)
  <2>1. OneEach(Slots, ToSet(completed))
    BY OneEachOf DEF UniqueIds, Slots
  <2>2. Holds(Slots, ToSet(completed), r.id, r.tokens)
    BY DEF Holds
  <2> QED BY <2>1, <2>2, JobOfIn, TheJob
<1>4. JobOf(r.id) # NoRequest
  <2>1. asked[r.id] \in Request
    BY <1>1 DEF Answered
  <2>2. JobWith(asked[r.id], r.tokens) \in Job
    BY <1>2, <2>1 DEF Request, Job, JobWith
  <2> QED BY <1>3, <2>2, NoRequestAssumption
<1>5. Len(JobOf(r.id).got) = JobOf(r.id).wanted
  BY <1>1, <1>3 DEF Answered, Answers, JobWith
<1>6. Service!Busy(r.id)
  BY <1>2, <1>4 DEF Service!Busy
<1>7. Service!Finished(r.id)
  BY <1>2, <1>5, <1>6 DEF Service!Finished
<1>8. r.id \notin Service!Unfinished
  BY <1>7 DEF Service!Unfinished
<1> QED BY <1>1, <1>2, <1>3, <1>6, <1>8

\* A job is a slot's or a response's.
LEMMA JobOwner ==
  ASSUME NEW id \in Ids, Service!Busy(id)
  PROVE  \/ \E s \in Slots : s.id = id /\ s.state # "Canceled"
         \/ \E r \in ToSet(completed) : r.id = id
<1>1. JobOf(id) # NoRequest
  BY DEF Service!Busy
<1>2. \E g : Holds(Slots, ToSet(completed), id, g)
  BY <1>1, JobOfIn, NoJob
<1> QED BY <1>2 DEF Holds

\* Unfinished jobs are pending or active.
LEMMA UnfinishedIds ==
  ASSUME TypeOK, UniqueIds, BatchInv
  PROVE  Service!Unfinished \subseteq IdsOf(pending) \cup IdsOf(active)
<1> SUFFICES ASSUME NEW id \in Service!Unfinished
             PROVE  id \in IdsOf(pending) \cup IdsOf(active)
  OBVIOUS
<1>1. id \in Ids /\ Service!Busy(id)
  BY DEF Service!Unfinished
<1>2. ASSUME NEW r \in ToSet(completed), r.id = id
      PROVE  FALSE
  BY <1>2, ResponseJob
<1>3. PICK s \in Slots : s.id = id
  BY <1>1, <1>2, JobOwner
<1> QED BY <1>3 DEF Slots, ToSet, IdsOf

\* Unfinished jobs are counted by the queue bound.
LEMMA UnfinishedCount ==
  ASSUME TypeOK, UniqueIds, BatchInv
  PROVE  /\ Cardinality(Service!Unfinished) \in Nat
         /\ Cardinality(Service!Unfinished) <= Len(pending) + Len(active)
<1> DEFINE P == IdsOf(pending)  A == IdsOf(active)
<1>1. Service!Unfinished \subseteq P \cup A
  BY UnfinishedIds
<1>2. /\ IsFiniteSet(P) /\ Cardinality(P) \in Nat
      /\ Cardinality(P) <= Len(pending)
      /\ IsFiniteSet(A) /\ Cardinality(A) \in Nat
      /\ Cardinality(A) <= Len(active)
  BY IdsCount DEF TypeOK
<1>3. Len(pending) \in Nat /\ Len(active) \in Nat
  BY DEF TypeOK
<1> HIDE DEF P, A
<1>4. /\ IsFiniteSet(P \cup A)
      /\ Cardinality(P \cup A)
           = Cardinality(P) + Cardinality(A) - Cardinality(P \cap A)
  BY <1>2, FS_Union
<1>5. IsFiniteSet(P \cap A) /\ Cardinality(P \cap A) \in Nat
  BY <1>2, FS_Intersection, FS_CardinalityType
<1>6. /\ IsFiniteSet(Service!Unfinished)
      /\ Cardinality(Service!Unfinished) <= Cardinality(P \cup A)
  BY <1>1, <1>4, FS_Subset
<1>7. /\ Cardinality(Service!Unfinished) \in Nat
      /\ Cardinality(P \cup A) \in Nat
  BY <1>4, <1>6, FS_CardinalityType
<1> QED BY <1>2, <1>3, <1>4, <1>5, <1>6, <1>7
-----------------------------------------------------------------------------
\* What a step leaves alone under an id, it leaves alone in its job.
LEMMA JobKept ==
  ASSUME NEW id, asked'[id] = asked[id],
         \A g : Holds(Slots', ToSet(completed'), id, g)
                <=> Holds(Slots, ToSet(completed), id, g)
  PROVE  JobOf(id)' = JobOf(id)
<1>1. JobOf(id)' = JobIn(Slots', ToSet(completed'), asked', id)
  BY DEF JobOf, JobIn, Slots
<1>2. JobOf(id) = JobIn(Slots, ToSet(completed), asked, id)
  BY JobOfIn
<1> QED BY <1>1, <1>2, SameJob

\* The job of an id that holds tokens after a step.
LEMMA JobAfter ==
  ASSUME UniqueIds', NEW id, NEW g,
         Holds(Slots', ToSet(completed'), id, g)
  PROVE  JobOf(id)' = JobWith(asked'[id], g)
<1>1. JobOf(id)' = JobIn(Slots', ToSet(completed'), asked', id)
  BY DEF JobOf, JobIn, Slots
<1>2. OneEach(Slots', ToSet(completed'))
  BY OneEachOf DEF UniqueIds, Slots
<1> QED BY <1>1, <1>2, TheJob

\* The job of an id that holds nothing after a step.
LEMMA JobGone ==
  ASSUME NEW id, \A g : ~Holds(Slots', ToSet(completed'), id, g)
  PROVE  JobOf(id)' = NoRequest
<1>1. JobOf(id)' = JobIn(Slots', ToSet(completed'), asked', id)
  BY DEF JobOf, JobIn, Slots
<1> QED BY <1>1, NoJob

\* A step that changes the job of one id changes the jobs at that id.
LEMMA OneJobChanges ==
  ASSUME NEW id \in Ids, NEW new, JobOf(id)' = new,
         \A other \in Ids \ {id} : JobOf(other)' = JobOf(other)
  PROVE  Jobs' = [Jobs EXCEPT ![id] = new]
<1>1. \A i \in Ids : JobOf(i)' = IF i = id THEN new ELSE JobOf(i)
  OBVIOUS
<1>2. Jobs' = [i \in Ids |-> JobOf(i)']
  BY DEF Jobs
<1>3. Jobs' = [i \in Ids |-> IF i = id THEN new ELSE JobOf(i)]
  BY <1>1, <1>2
<1> QED BY <1>3 DEF Jobs

\* The service counts its jobs as the scheduler would.
LEMMA ServiceCardinality ==
  \A S : Service!Cardinality(S) = Cardinality(S)
BY DEF Service!Cardinality, Cardinality, Service!IsFiniteSet, IsFiniteSet

\* A submission is accepted as a new job.
LEMMA SubmitAccepts ==
  ASSUME TypeOK, UniqueIds, BatchInv, TypeOK', UniqueIds',
         NEW r \in Request, Submit(r)
  PROVE  Service!Accept(r.id, r.prompt, r.max_new_tokens)
<1>1. /\ pending' = Append(pending, NewSlot(r))
      /\ UNCHANGED <<active, completed, running, responses>>
      /\ asked' = [asked EXCEPT ![r.id] = r]
      /\ ~running
      /\ Len(pending) + Len(active) < MaxQueueLen
      /\ r.id \notin IdsOf(pending) \cup IdsOf(active) \cup IdsOf(completed)
  BY DEF Submit, Admissible, Load, HeldIds
<1>2. r.id \in Ids /\ asked'[r.id] = r
  BY <1>1 DEF Request, TypeOK
<1>3. /\ NewSlot(r).id = r.id /\ NewSlot(r).generated = <<>>
      /\ NewSlot(r).state = "Queued"
  BY DEF NewSlot
<1>4. /\ Slots' = Slots \cup {NewSlot(r)}
      /\ ToSet(completed') = ToSet(completed)
  <2>1. ToSet(pending') = ToSet(pending) \cup {NewSlot(r)}
    BY <1>1, AppendSet DEF TypeOK
  <2> QED BY <1>1, <2>1 DEF Slots
<1>5. /\ \A s \in Slots : s.id # r.id
      /\ \A q \in ToSet(completed) : q.id # r.id
  BY <1>1 DEF Slots, ToSet, IdsOf
<1>6. ~Service!Busy(r.id)
  BY <1>2, <1>5, JobOwner
<1>7. JobOf(r.id)' = JobWith(r, <<>>)
  <2>1. Holds(Slots', ToSet(completed'), r.id, <<>>)
    BY <1>3, <1>4 DEF Holds
  <2> QED BY <1>2, <2>1, JobAfter
<1>8. ASSUME NEW other \in Ids \ {r.id}
      PROVE  JobOf(other)' = JobOf(other)
  <2>1. asked'[other] = asked[other]
    BY <1>1 DEF TypeOK
  <2>2. \A g : Holds(Slots', ToSet(completed'), other, g)
               <=> Holds(Slots, ToSet(completed), other, g)
    BY <1>3, <1>4 DEF Holds
  <2> QED BY <2>1, <2>2, JobKept
<1>9. Jobs' = [Jobs EXCEPT ![r.id] = JobWith(r, <<>>)]
  BY <1>2, <1>7, <1>8, OneJobChanges
<1>10. Cardinality(Service!Unfinished) < MaxQueueLen
  <2>1. /\ Cardinality(Service!Unfinished) \in Nat
        /\ Cardinality(Service!Unfinished) <= Len(pending) + Len(active)
    BY UnfinishedCount
  <2>2. Len(pending) \in Nat /\ Len(active) \in Nat /\ MaxQueueLen \in Nat
    BY SchedulerAssumption DEF TypeOK, SchedulerAssumption
  <2> QED BY <1>1, <2>1, <2>2
<1> QED BY <1>1, <1>6, <1>9, <1>10, ServiceCardinality
        DEF Service!Accept, Jobs, JobWith

\* A canceled job is withdrawn: a pending slot is removed, an active one is
\* marked and no longer counts as a job.
LEMMA CancelPendingWithdraws ==
  ASSUME TypeOK, UniqueIds, BatchInv, NEW id \in Ids, CancelPending(id)
  PROVE  Service!Withdraw(id)
<1>1. PICK i \in DOMAIN pending : pending[i].id = id
                                  /\ pending' = RemoveAt(pending, i)
  BY DEF CancelPending
<1>2. ~running /\ UNCHANGED <<active, completed, running, responses, asked>>
  BY DEF CancelPending
<1>3. pending[i] \in Slots /\ pending[i].state = "Queued"
  BY DEF TypeOK, Slots, ToSet
<1>4. id \in Service!Unfinished
  BY <1>1, <1>3, SlotJob
<1>5. /\ Slots = Slots' \cup {pending[i]}
      /\ ToSet(completed') = ToSet(completed)
  <2>1. ToSet(pending) = ToSet(pending') \cup {pending[i]}
    BY <1>1, RemoveSet DEF TypeOK
  <2> QED BY <1>2, <2>1 DEF Slots
<1>6. /\ \A s \in Slots' : s.id # id
      /\ \A r \in ToSet(completed') : r.id # id
  <2>1. ASSUME NEW s \in ToSet(pending')
        PROVE  s.id # id
    <3>1. PICK j \in 1..(Len(pending) - 1) : s = pending'[j]
      <4>1. /\ pending' \in Seq(Slot)
            /\ Len(pending') = Len(pending) - 1
        BY <1>1, RemoveAtProperties DEF TypeOK
      <4> QED BY <4>1 DEF ToSet
    <3>2. \E k \in DOMAIN pending : k # i /\ s = pending[k]
      <4>1. /\ pending \in Seq(Slot) /\ i \in 1..Len(pending)
            /\ Len(pending) \in Nat
        BY DEF TypeOK
      <4>2. pending'[j] = IF j < i THEN pending[j] ELSE pending[j + 1]
        BY <1>1, <4>1, RemoveAtProperties
      <4> QED BY <3>1, <4>1, <4>2
    <3> QED BY <1>1, <3>2 DEF UniqueIds, Distinct
  <2>2. id \notin IdsOf(active) /\ id \notin IdsOf(completed)
    BY <1>1 DEF UniqueIds, IdsOf
  <2> QED BY <1>2, <2>1, <2>2 DEF Slots, ToSet, IdsOf
<1>7. JobOf(id)' = NoRequest
  BY <1>6, JobGone DEF Holds
<1>8. ASSUME NEW other \in Ids \ {id}
      PROVE  JobOf(other)' = JobOf(other)
  <2>1. \A g : Holds(Slots', ToSet(completed'), other, g)
               <=> Holds(Slots, ToSet(completed), other, g)
    BY <1>1, <1>5 DEF Holds
  <2> QED BY <1>2, <2>1, JobKept
<1>9. Jobs' = [Jobs EXCEPT ![id] = NoRequest]
  BY <1>7, <1>8, OneJobChanges
<1> QED BY <1>2, <1>4, <1>9 DEF Service!Withdraw, Jobs

\* Canceling an active slot withdraws its job, though the slot stays queued.
LEMMA CancelActiveWithdraws ==
  ASSUME TypeOK, UniqueIds, BatchInv, UniqueIds',
         NEW id \in Ids, CancelActive(id)
  PROVE  Service!Withdraw(id)
<1>1. PICK i \in DOMAIN active :
        /\ active[i].id = id
        /\ CanGo(active[i].state, "Canceled")
        /\ active' = [active EXCEPT ![i].state = "Canceled"]
  BY DEF CancelActive
<1>2. ~running /\ UNCHANGED <<pending, completed, running, responses, asked>>
  BY DEF CancelActive
<1>3. active \in Seq(Slot) /\ active[i] \in Slot
  BY DEF TypeOK
<1>4. active[i].state # "Canceled"
  BY <1>1 DEF CanGo, Transitions, Live
<1>5. active[i] \in Slots
  BY DEF Slots, ToSet
<1>6. id \in Service!Unfinished
  BY <1>1, <1>4, <1>5, SlotJob
<1>7. /\ DOMAIN active' = DOMAIN active
      /\ active'[i].id = id /\ active'[i].state = "Canceled"
      /\ \A j \in DOMAIN active : j # i => active'[j] = active[j]
  BY <1>1, <1>3 DEF Slot
<1>8. ASSUME NEW s, s.id # id
      PROVE  s \in Slots' <=> s \in Slots
  BY <1>1, <1>2, <1>7, <1>8 DEF Slots, ToSet
<1>9. /\ \A s \in Slots' : s.id = id => s.state = "Canceled"
      /\ \A r \in ToSet(completed') : r.id # id
  <2>1. OneEach(Slots', ToSet(completed'))
    BY OneEachOf DEF UniqueIds, Slots
  <2>2. active'[i] \in Slots'
    BY <1>7 DEF Slots, ToSet
  <2> QED BY <1>7, <2>1, <2>2 DEF OneEach
<1>10. JobOf(id)' = NoRequest
  BY <1>9, JobGone DEF Holds
<1>11. ASSUME NEW other \in Ids \ {id}
       PROVE  JobOf(other)' = JobOf(other)
  <2>1. \A g : Holds(Slots', ToSet(completed'), other, g)
               <=> Holds(Slots, ToSet(completed), other, g)
    BY <1>2, <1>8 DEF Holds
  <2> QED BY <1>2, <2>1, JobKept
<1>12. Jobs' = [Jobs EXCEPT ![id] = NoRequest]
  BY <1>10, <1>11, OneJobChanges
<1> QED BY <1>2, <1>6, <1>12 DEF Service!Withdraw, Jobs

\* A run begins: admission moves the slots and changes no job.
LEMMA StartBegins ==
  ASSUME TypeOK, StartRun
  PROVE  Service!Begin
<1>1. /\ ~running /\ running' = TRUE
      /\ pending' = <<>> /\ active' = active \o Admitted
      /\ UNCHANGED <<completed, responses, asked>>
  BY DEF StartRun
<1>2. /\ Admitted \in Seq(Slot) /\ DOMAIN Admitted = DOMAIN pending
      /\ \A i \in DOMAIN pending :
           Admitted[i] = [pending[i] EXCEPT !.state = "Decode"]
  BY AdmittedType DEF Admitted
<1>3. ASSUME NEW i \in DOMAIN pending
      PROVE  /\ Admitted[i].id = pending[i].id
             /\ Admitted[i].generated = pending[i].generated
             /\ Admitted[i].state # "Canceled"
             /\ pending[i].state # "Canceled"
  <2>1. pending[i] \in Slot /\ pending[i].state = "Queued"
    BY DEF TypeOK
  <2> QED BY <1>2, <2>1 DEF Slot
<1> HIDE DEF Admitted
<1>4. Slots' = ToSet(active) \cup ToSet(Admitted)
  <2>1. ToSet(active') = ToSet(active) \cup ToSet(Admitted)
    BY <1>1, <1>2, ConcatSet DEF TypeOK
  <2>2. ToSet(pending') = {}
    BY <1>1 DEF ToSet
  <2> QED BY <2>1, <2>2 DEF Slots
<1>5. ASSUME NEW id \in Ids
      PROVE  JobOf(id)' = JobOf(id)
  <2>1. \A g : (\E s \in ToSet(pending) :
                  s.id = id /\ s.state # "Canceled" /\ s.generated = g)
               <=> (\E s \in ToSet(Admitted) :
                      s.id = id /\ s.state # "Canceled" /\ s.generated = g)
    BY <1>2, <1>3 DEF ToSet
  <2>2. \A g : Holds(Slots', ToSet(completed'), id, g)
               <=> Holds(Slots, ToSet(completed), id, g)
    BY <1>1, <1>4, <2>1 DEF Holds, Slots
  <2> QED BY <1>1, <2>2, JobKept
<1>6. Jobs' = Jobs
  BY <1>5 DEF Jobs
<1> QED BY <1>1, <1>6 DEF Service!Begin, Jobs

\* Reaping a canceled slot changes no job: it lost it when it was canceled.
LEMMA ReapStutters ==
  ASSUME TypeOK, ReapCanceled
  PROVE  UNCHANGED Service!serviceVars
<1>1. /\ active # <<>> /\ Head(active).state = "Canceled"
      /\ active' = Tail(active)
      /\ UNCHANGED <<pending, completed, running, responses, asked>>
  BY DEF ReapCanceled
<1>2. Slots = Slots' \cup {Head(active)}
  <2>1. ToSet(active) = ToSet(active') \cup {Head(active)}
    BY <1>1, TailSet DEF TypeOK
  <2> QED BY <1>1, <2>1 DEF Slots
<1>3. ASSUME NEW id \in Ids
      PROVE  JobOf(id)' = JobOf(id)
  <2>1. \A g : Holds(Slots', ToSet(completed'), id, g)
               <=> Holds(Slots, ToSet(completed), id, g)
    BY <1>1, <1>2 DEF Holds
  <2> QED BY <1>1, <2>1, JobKept
<1>4. Jobs' = Jobs
  BY <1>3 DEF Jobs
<1> QED BY <1>1, <1>4 DEF Service!serviceVars, Jobs
\* The head slot's turn, when it is not canceled: its job gets the token the
\* model gives it, whether it is requeued or completed.
LEMMA EmitAdvances ==
  ASSUME TypeOK, UniqueIds, BatchInv, DecodesToTokens, UniqueIds',
         EmitAndRequeue \/ EmitAndComplete,
         NEW id \in Ids, id = Head(active).id
  PROVE  Service!Advance(id)
<1> DEFINE slot == Head(active)
           longer == Append(slot.generated, NextToken)
           r == asked[id]
<1>0. slot.id = id
  OBVIOUS
<1>1. /\ running /\ active # <<>> /\ CanGo(slot.state, "Emit")
      /\ UNCHANGED <<pending, running, responses, asked>>
  BY DEF EmitAndRequeue, EmitAndComplete, Turn
<1>2. slot.state # "Canceled"
  BY <1>1 DEF CanGo, Transitions, Live
<1>3. ToSet(active) = ToSet(Tail(active)) \cup {slot} /\ slot \in Slots
  <2>1. ToSet(active) = ToSet(Tail(active)) \cup {slot}
    BY <1>1, TailSet DEF TypeOK
  <2> QED BY <2>1 DEF Slots
<1>4. /\ slot \in Slot /\ id \in Ids /\ OnTrack(slot, asked)
      /\ JobOf(id) = JobWith(r, slot.generated)
      /\ id \in Service!Unfinished
  BY <1>2, <1>3, SlotJob
<1>5. NextToken = DecodeOne(r.prompt \o slot.generated)
  BY <1>4 DEF OnTrack, OnCourse, NextToken
<1>6. /\ Holds(Slots', ToSet(completed'), id, longer)
      /\ \A other \in Ids \ {id} : \A g :
           Holds(Slots', ToSet(completed'), other, g)
           <=> Holds(Slots, ToSet(completed), other, g)
  <2>1. CASE EmitAndRequeue
    <3> DEFINE later == [slot EXCEPT !.prompt = Append(slot.prompt, NextToken),
                                     !.generated = longer]
    <3>1. active' = Append(Tail(active), later) /\ completed' = completed
      BY <2>1 DEF EmitAndRequeue, Requeued
    <3>2. /\ later.id = id /\ later.generated = longer
          /\ later.state = slot.state
      BY <1>4 DEF Slot
    <3> HIDE DEF later, longer
    <3>3. ToSet(active') = ToSet(Tail(active)) \cup {later}
      <4>1. Tail(active) \in Seq(Slot)
        BY <1>1 DEF TypeOK
      <4> QED BY <3>1, <4>1, AppendSet
    <3>4. Slots' = ToSet(pending) \cup ToSet(Tail(active)) \cup {later}
      BY <1>1, <3>3 DEF Slots
    <3>5. Slots = ToSet(pending) \cup ToSet(Tail(active)) \cup {slot}
      BY <1>3 DEF Slots
    <3> HIDE DEF slot
    <3>6. Holds(Slots', ToSet(completed'), id, longer)
      BY <1>2, <3>2, <3>4 DEF Holds
    <3> QED BY <1>0, <3>1, <3>2, <3>4, <3>5, <3>6 DEF Holds
  <2>2. CASE EmitAndComplete
    <3> DEFINE done == [id |-> id, tokens |-> longer]
    <3>1. active' = Tail(active) /\ completed' = Append(completed, done)
      BY <2>2 DEF EmitAndComplete
    <3>2. done.id = id /\ done.tokens = longer
      OBVIOUS
    <3> HIDE DEF done, longer
    <3>3. ToSet(completed') = ToSet(completed) \cup {done}
      BY <3>1, AppendSet DEF TypeOK
    <3>4. Slots' = ToSet(pending) \cup ToSet(Tail(active))
      BY <1>1, <3>1 DEF Slots
    <3>5. Slots = ToSet(pending) \cup ToSet(Tail(active)) \cup {slot}
      BY <1>3 DEF Slots
    <3> HIDE DEF slot
    <3>6. Holds(Slots', ToSet(completed'), id, longer)
      BY <3>2, <3>3 DEF Holds
    <3> QED BY <1>0, <3>2, <3>3, <3>4, <3>5, <3>6 DEF Holds
  <2> QED BY <2>1, <2>2
<1> HIDE DEF longer
<1>7. JobOf(id)' = JobWith(r, longer)
  <2>1. asked'[id] = r
    BY <1>1
  <2> HIDE DEF r
  <2> QED BY <1>6, <2>1, JobAfter
<1>8. ASSUME NEW other \in Ids \ {id}
      PROVE  JobOf(other)' = JobOf(other)
  BY <1>1, <1>6, JobKept
<1>9. Jobs' = [Jobs EXCEPT ![id] = JobWith(r, longer)]
  <2> HIDE DEF r
  <2> QED BY <1>4, <1>7, <1>8, OneJobChanges
<1>10. Jobs[id] = JobWith(r, slot.generated)
  BY <1>4 DEF Jobs
<1>11. JobWith(r, longer)
         = [Jobs[id] EXCEPT !.got = Append(Jobs[id].got,
                              DecodeOne(Jobs[id].prompt \o Jobs[id].got))]
  <2>1. /\ Jobs[id].prompt = r.prompt /\ Jobs[id].got = slot.generated
        /\ Jobs[id] = [prompt |-> r.prompt, wanted |-> r.max_new_tokens,
                       got |-> slot.generated]
    BY <1>10 DEF JobWith
  <2>2. longer = Append(Jobs[id].got,
                        DecodeOne(Jobs[id].prompt \o Jobs[id].got))
    BY <1>5, <2>1 DEF longer
  <2>3. \A p, w, g, h :
          [[prompt |-> p, wanted |-> w, got |-> g] EXCEPT !.got = h]
          = [prompt |-> p, wanted |-> w, got |-> h]
    OBVIOUS
  <2>4. JobWith(r, longer) = [prompt |-> r.prompt, wanted |-> r.max_new_tokens,
                              got |-> longer]
    BY DEF JobWith
  <2>5. [Jobs[id] EXCEPT !.got = longer] = JobWith(r, longer)
    <3> HIDE DEF Jobs, slot, r
    <3> QED BY <2>1, <2>3, <2>4
  <2> HIDE DEF Jobs, slot, r
  <2> QED BY <2>2, <2>5
<1>12. Jobs' = [Jobs EXCEPT ![id] =
                 [Jobs[id] EXCEPT !.got = Append(Jobs[id].got,
                              DecodeOne(Jobs[id].prompt \o Jobs[id].got))]]
  BY <1>9, <1>11
<1> QED BY <1>1, <1>4, <1>12 DEF Service!Advance, Jobs

\* A decode error aborts the job it hit: the popped slot is lost.
LEMMA FailAborts ==
  ASSUME TypeOK, UniqueIds, BatchInv, DecodeFails,
         NEW id \in Ids, id = Head(active).id
  PROVE  Service!Abort(id)
<1> DEFINE slot == Head(active)
<1>0. slot.id = id
  OBVIOUS
<1>1. /\ MayFail /\ running /\ running' = FALSE
      /\ active # <<>> /\ CanGo(slot.state, "Emit")
      /\ active' = Tail(active)
      /\ UNCHANGED <<pending, completed, responses, asked>>
  BY DEF DecodeFails, Turn
<1>2. slot.state # "Canceled"
  BY <1>1 DEF CanGo, Transitions, Live
<1>3. ToSet(active) = ToSet(Tail(active)) \cup {slot} /\ slot \in Slots
  <2>1. ToSet(active) = ToSet(Tail(active)) \cup {slot}
    BY <1>1, TailSet DEF TypeOK
  <2> QED BY <2>1 DEF Slots
<1>4. id \in Ids /\ id \in Service!Unfinished
  BY <1>2, <1>3, SlotJob
<1>5. Slots = Slots' \cup {slot}
  BY <1>1, <1>3 DEF Slots
<1>6. /\ \A s \in Slots' : s.id # id
      /\ \A q \in ToSet(completed') : q.id # id
  <2>1. IdsOf(Tail(active)) = IdsOf(active) \ {id} /\ id \in IdsOf(active)
    BY <1>1, TailIds DEF TypeOK, UniqueIds
  <2>2. id \notin IdsOf(pending) /\ id \notin IdsOf(completed)
    BY <2>1 DEF UniqueIds
  <2> HIDE DEF slot
  <2> QED BY <1>1, <2>1, <2>2 DEF Slots, ToSet, IdsOf
<1> HIDE DEF slot
<1>7. JobOf(id)' = NoRequest
  BY <1>6, JobGone DEF Holds
<1>8. ASSUME NEW other \in Ids \ {id}
      PROVE  JobOf(other)' = JobOf(other)
  <2>1. \A g : Holds(Slots', ToSet(completed'), other, g)
               <=> Holds(Slots, ToSet(completed), other, g)
    BY <1>0, <1>1, <1>5 DEF Holds
  <2> QED BY <1>1, <2>1, JobKept
<1>9. Jobs' = [Jobs EXCEPT ![id] = NoRequest]
  BY <1>4, <1>7, <1>8, OneJobChanges
<1> QED BY <1>1, <1>4, <1>9 DEF Service!Abort, Jobs, slot

\* A run that returns delivers every job, and all of them are finished.
LEMMA FinishDelivers ==
  ASSUME TypeOK, UniqueIds, BatchInv, Drained, FinishRun
  PROVE  Service!Deliver
<1>1. /\ running /\ running' = FALSE /\ active = <<>> /\ pending = <<>>
      /\ completed' = <<>> /\ UNCHANGED <<pending, active, asked>>
  BY DEF FinishRun, Drained
<1>2. Slots = {} /\ Slots' = {} /\ ToSet(completed') = {}
  BY <1>1 DEF Slots, ToSet
<1>3. Service!Unfinished = {}
  <2> SUFFICES ASSUME NEW id \in Service!Unfinished
               PROVE  FALSE
    OBVIOUS
  <2>1. id \in Ids /\ Service!Busy(id)
    BY DEF Service!Unfinished
  <2> QED BY <1>2, <2>1, JobOwner, ResponseJob
<1>4. ASSUME NEW id \in Ids
      PROVE  JobOf(id)' = NoRequest
  BY <1>2, JobGone DEF Holds
<1>5. Jobs' = [id \in Ids |-> NoRequest]
  BY <1>4 DEF Jobs
<1>6. ASSUME NEW r \in ToSet(completed)
      PROVE  /\ r.id \in Ids /\ Service!Busy(r.id)
             /\ r = [id |-> r.id, tokens |-> Jobs[r.id].got]
  <2>1. /\ r \in Response /\ r.id \in Ids /\ Service!Busy(r.id)
        /\ JobOf(r.id) = JobWith(asked[r.id], r.tokens)
    BY ResponseJob
  <2>2. Jobs[r.id].got = r.tokens
    BY <2>1 DEF Jobs, JobWith
  <2> QED BY <2>1, <2>2 DEF Response
<1>7. ASSUME NEW id \in Ids, Service!Busy(id)
      PROVE  \E r \in ToSet(completed) : r.id = id
  BY <1>2, <1>7, JobOwner
<1>8. ToSet(responses')
        = {[id |-> id, tokens |-> Jobs[id].got] :
             id \in {i \in Ids : Service!Busy(i)}}
  BY <1>6, <1>7, FinishSet
<1> QED BY <1>1, <1>3, <1>5, <1>8 DEF Service!Deliver, Jobs

\* Every step of the scheduler is a step of the service, or none.
LEMMA ServiceStep ==
  ASSUME TypeOK, UniqueIds, BatchInv, Drained, DecodesToTokens,
         TypeOK', UniqueIds', [Next]_vars
  PROVE  [Service!ServiceNext]_(Service!serviceVars)
<1>1. ASSUME NEW r \in Request, Submit(r)
      PROVE  Service!ServiceNext
  <2>1. Service!Accept(r.id, r.prompt, r.max_new_tokens)
    BY <1>1, SubmitAccepts
  <2>2. /\ r.id \in Ids /\ r.prompt \in Prompts \ {<<>>}
        /\ r.max_new_tokens \in MaxNews \ {0}
    BY <1>1 DEF Submit, Admissible, Request
  <2> QED BY <2>1, <2>2 DEF Service!ServiceNext
<1>2. ASSUME NEW id \in Ids, CancelPending(id) \/ CancelActive(id)
      PROVE  Service!ServiceNext
  BY <1>2, CancelPendingWithdraws, CancelActiveWithdraws
     DEF Service!ServiceNext
<1>3. CASE StartRun
  BY <1>3, StartBegins DEF Service!ServiceNext
<1>4. CASE ReapCanceled
  BY <1>4, ReapStutters
<1>5. CASE EmitAndRequeue \/ EmitAndComplete
  <2>1. PICK id \in Ids : id = Head(active).id
    <3>1. active \in Seq(Slot) /\ active # <<>>
      BY <1>5 DEF EmitAndRequeue, EmitAndComplete, Turn, TypeOK
    <3>2. Head(active) \in Slot
      BY <3>1
    <3> QED BY <3>2 DEF Slot
  <2> QED BY <1>5, <2>1, EmitAdvances DEF Service!ServiceNext
<1>6. CASE DecodeFails
  <2>1. PICK id \in Ids : id = Head(active).id
    <3>1. active \in Seq(Slot) /\ active # <<>>
      BY <1>6 DEF DecodeFails, Turn, TypeOK
    <3>2. Head(active) \in Slot
      BY <3>1
    <3> QED BY <3>2 DEF Slot
  <2> QED BY <1>6, <2>1, FailAborts DEF Service!ServiceNext
<1>7. CASE FinishRun
  BY <1>7, FinishDelivers DEF Service!ServiceNext
<1>8. CASE UNCHANGED <<queues, running, responses, asked>>
  BY <1>8 DEF Service!serviceVars, JobOf, queues
<1>9. \/ \E r \in Request : Submit(r)
      \/ \E id \in Ids : CancelPending(id) \/ CancelActive(id)
      \/ StartRun \/ ReapCanceled \/ EmitAndRequeue \/ EmitAndComplete
      \/ DecodeFails \/ FinishRun
      \/ UNCHANGED <<queues, running, responses, asked>>
  BY DEF Next, Client, Iteration, vars, RejectSubmit, RejectCancel
<1> QED BY <1>1, <1>2, <1>3, <1>4, <1>5, <1>6, <1>7, <1>8, <1>9

\* The scheduler is a set of jobs that advance independently, each by greedy
\* decode of its own context, and are handed over together: queues, rotation,
\* admission, failed runs and the reaping of canceled slots do not show.
THEOREM SchedulerImplementsService ==
  ASSUME DecodesToTokens
  PROVE  Spec => ImplementsService
<1>1. Init => Service!ServiceInit
  <2> SUFFICES ASSUME Init PROVE Service!ServiceInit
    OBVIOUS
  <2>1. Slots = {} /\ ToSet(completed) = {} /\ ToSet(responses) = {}
    BY DEF Init, Slots, ToSet
  <2>2. \A id \in Ids : JobOf(id) = NoRequest
    BY <2>1, JobOfIn, NoJob DEF Holds
  <2> QED BY <2>1, <2>2 DEF Service!ServiceInit, Init
<1>2. Init => BatchInv /\ Drained
  BY DEF Init, BatchInv, Drained
<1>3. TypeOK /\ BatchInv /\ [Next]_vars => BatchInv'
  BY BatchInvStep
<1>4. TypeOK /\ Drained /\ [Next]_vars => Drained'
  BY DrainedStep
<1>5. TypeOK /\ UniqueIds /\ BatchInv /\ Drained /\ TypeOK' /\ UniqueIds'
      /\ [Next]_vars => [Service!ServiceNext]_(Service!serviceVars)
  BY ServiceStep
<1>6. Spec => []TypeOK
  BY TypeCorrect
<1>7. Spec => []UniqueIds
  BY UniqueIdsAlways
<1> QED BY <1>1, <1>2, <1>3, <1>4, <1>5, <1>6, <1>7, PTL
        DEF Spec, ImplementsService, Service!ServiceSpec

-----------------------------------------------------------------------------
(***************************************************************************)
(* Round robin. A slot has a turn when it is admitted and whenever it      *)
(* emits; the queue is in the order of last turns, so that whoever is at   *)
(* the head has waited longest.                                            *)
(***************************************************************************)
EmitsAt(log, k, id) == log[k].id = id /\ log[k].state = "Emit"
TurnAt(log, k, id) == log[k] = Mark(id, "Prefill") \/ EmitsAt(log, k, id)

\* The one behind has had a turn since the last one of the one in front
QueueInTurn ==
  \A s, t \in DOMAIN active :
    s < t /\ active[s].state = "Decode" /\ active[t].state = "Decode"
    => \E k \in DOMAIN events :
         /\ TurnAt(events, k, active[t].id)
         /\ \A m \in DOMAIN events : m >= k => ~TurnAt(events, m, active[s].id)

\* Between two admissions of an id it is submitted again
AdmittedOnce ==
  \A id \in Ids : \A k, m \in DOMAIN events :
    k < m /\ events[k] = Mark(id, "Prefill") /\ events[m] = Mark(id, "Prefill")
    => \E q \in k..m : events[q] = Mark(id, "Queued")

\* A pending request has not been admitted since it was submitted
PendingSince(log, id) ==
  \E q \in DOMAIN log :
    /\ log[q] = Mark(id, "Queued")
    /\ \A m \in DOMAIN log : m > q => log[m] # Mark(id, "Prefill")

TurnInv ==
  /\ QueueInTurn
  /\ AdmittedOnce
  /\ \A i \in DOMAIN pending : PendingSince(events, pending[i].id)
  /\ RoundRobin

Decoding(id) == \E s \in DOMAIN active : active[s].id = id /\ active[s].state = "Decode"

\* What a call or an iteration appends to the history comes after all of it.
LEMMA Logged ==
  ASSUME NEW new \in Seq(Event), events \in Seq(Event), events' = events \o new
  PROVE  /\ Len(events) \in Nat /\ Len(new) \in Nat
         /\ DOMAIN events = 1..Len(events) /\ DOMAIN new = 1..Len(new)
         /\ Len(events') = Len(events) + Len(new)
         /\ DOMAIN events' = 1..(Len(events) + Len(new))
         /\ \A k \in DOMAIN events : k \in DOMAIN events' /\ events'[k] = events[k]
         /\ \A k \in DOMAIN new :
              /\ Len(events) + k \in DOMAIN events'
              /\ events'[Len(events) + k] = new[k]
         /\ \A k \in DOMAIN events' :
              \/ k \in DOMAIN events
              \/ /\ k - Len(events) \in DOMAIN new
                 /\ events'[k] = new[k - Len(events)]
                 /\ k > Len(events)
<1>1. /\ Len(events) \in Nat /\ Len(new) \in Nat
      /\ DOMAIN events = 1..Len(events) /\ DOMAIN new = 1..Len(new)
      /\ Len(events') = Len(events) + Len(new)
      /\ DOMAIN events' = 1..(Len(events) + Len(new))
      /\ \A k \in 1..(Len(events) + Len(new)) :
           events'[k] = IF k <= Len(events) THEN events[k] ELSE new[k - Len(events)]
  BY ConcatProperties
<1>2. \A k \in DOMAIN events : k \in DOMAIN events' /\ events'[k] = events[k]
  BY <1>1
<1>3. ASSUME NEW k \in DOMAIN new
      PROVE  /\ Len(events) + k \in DOMAIN events'
             /\ events'[Len(events) + k] = new[k]
  <2>1. /\ Len(events) + k \in 1..(Len(events) + Len(new))
        /\ ~(Len(events) + k <= Len(events))
        /\ Len(events) + k - Len(events) = k
    BY <1>1
  <2> QED BY <1>1, <2>1
<1>4. ASSUME NEW k \in DOMAIN events', k \notin DOMAIN events
      PROVE  /\ k - Len(events) \in DOMAIN new
             /\ events'[k] = new[k - Len(events)]
             /\ k > Len(events)
  <2>1. k > Len(events) /\ k - Len(events) \in 1..Len(new)
    BY <1>1, <1>4
  <2> QED BY <1>1, <2>1
<1> QED BY <1>1, <1>2, <1>3, <1>4

\* What was awaited before an entry of the history still is in the longer one.
LEMMA WaitedBefore ==
  ASSUME NEW new \in Seq(Event), events \in Seq(Event), events' = events \o new,
         NEW b \in Ids, NEW i \in DOMAIN events, Decoding(b), WaitingSince(b, i)'
  PROVE  WaitingSince(b, i)
<1>1. /\ Len(events) \in Nat /\ Len(new) \in Nat
      /\ DOMAIN events = 1..Len(events)
      /\ Len(events') = Len(events) + Len(new)
      /\ \A k \in DOMAIN events : events'[k] = events[k]
  BY Logged
<1>2. PICK p \in 1..(i - 1) :
        /\ events'[p] = Mark(b, "Prefill")
        /\ \A q \in p..Len(events') : events'[q] # Mark(b, "Queued")
  BY DEF WaitingSince
<1>3. /\ p \in DOMAIN events
      /\ \A q \in p..Len(events) : q \in DOMAIN events /\ q \in p..Len(events')
  BY <1>1
<1>4. /\ events[p] = Mark(b, "Prefill")
      /\ \A q \in p..Len(events) : events[q] # Mark(b, "Queued")
  BY <1>1, <1>2, <1>3
<1> QED BY <1>4 DEF WaitingSince, Decoding

\* Round robin of the longer history, in terms of its emissions.
LEMMA RoundRobinLater ==
  ASSUME \A a, b \in Ids : \A i, j \in DOMAIN events' :
           /\ a # b
           /\ i < j
           /\ EmitsAt(events', i, a)
           /\ EmitsAt(events', j, a)
           /\ WaitingSince(b, i)'
           => \E k \in (i + 1)..(j - 1) : EmitsAt(events', k, b)
  PROVE  RoundRobin'
BY DEF RoundRobin, IsEmission, EmitsAt

\* A step after which nobody has had a turn and the queue is in the same order,
\* shorter perhaps.
LEMMA WithoutTurn ==
  ASSUME TypeOK, TurnInv,
         NEW new \in Seq(Event), events' = events \o new,
         \A k \in DOMAIN new : new[k].state \notin {"Emit", "Prefill"},
         \A s \in DOMAIN active' :
           active'[s].state = "Decode" => Decoding(active'[s].id),
         \A s, t \in DOMAIN active' :
           s < t /\ active'[s].state = "Decode" /\ active'[t].state = "Decode"
           => \E s0, t0 \in DOMAIN active :
                /\ s0 < t0
                /\ active[s0].state = "Decode" /\ active[s0].id = active'[s].id
                /\ active[t0].state = "Decode" /\ active[t0].id = active'[t].id,
         \A i \in DOMAIN pending' :
           \/ PendingSince(events, pending'[i].id)
           \/ \E k \in DOMAIN new : new[k] = Mark(pending'[i].id, "Queued")
  PROVE  TurnInv'
<1>1. /\ Len(events) \in Nat /\ Len(new) \in Nat
      /\ DOMAIN events = 1..Len(events) /\ DOMAIN new = 1..Len(new)
      /\ Len(events') = Len(events) + Len(new)
      /\ DOMAIN events' = 1..(Len(events) + Len(new))
      /\ \A k \in DOMAIN events : k \in DOMAIN events' /\ events'[k] = events[k]
      /\ \A k \in DOMAIN new :
           /\ Len(events) + k \in DOMAIN events'
           /\ events'[Len(events) + k] = new[k]
      /\ \A k \in DOMAIN events' :
           \/ k \in DOMAIN events
           \/ /\ k - Len(events) \in DOMAIN new
              /\ events'[k] = new[k - Len(events)]
              /\ k > Len(events)
  BY Logged DEF TypeOK
<1>2. \A k \in DOMAIN events' : k \notin DOMAIN events =>
        events'[k].state \notin {"Emit", "Prefill"}
  BY <1>1
<1>3. \A k \in DOMAIN events' : \A id :
        /\ events'[k] = Mark(id, "Prefill")
           => k \in DOMAIN events /\ events[k] = Mark(id, "Prefill")
        /\ EmitsAt(events', k, id) => k \in DOMAIN events /\ EmitsAt(events, k, id)
        /\ TurnAt(events', k, id) => k \in DOMAIN events /\ TurnAt(events, k, id)
  BY <1>1, <1>2 DEF Mark, EmitsAt, TurnAt
<1>4. \A k \in DOMAIN events : \A id :
        /\ EmitsAt(events, k, id) => EmitsAt(events', k, id)
        /\ TurnAt(events, k, id) => TurnAt(events', k, id)
  BY <1>1 DEF EmitsAt, TurnAt
<1>5. QueueInTurn'
  <2> SUFFICES ASSUME NEW s \in DOMAIN active', NEW t \in DOMAIN active', s < t,
                      active'[s].state = "Decode", active'[t].state = "Decode"
               PROVE  \E k \in DOMAIN events' :
                        /\ TurnAt(events', k, active'[t].id)
                        /\ \A m \in DOMAIN events' : m >= k => ~TurnAt(events', m, active'[s].id)
    BY DEF QueueInTurn
  <2>1. PICK s0 \in DOMAIN active, t0 \in DOMAIN active :
          /\ s0 < t0
          /\ active[s0].state = "Decode" /\ active[s0].id = active'[s].id
          /\ active[t0].state = "Decode" /\ active[t0].id = active'[t].id
    OBVIOUS
  <2>2. PICK k \in DOMAIN events :
          /\ TurnAt(events, k, active[t0].id)
          /\ \A m \in DOMAIN events : m >= k => ~TurnAt(events, m, active[s0].id)
    BY <2>1 DEF TurnInv, QueueInTurn
  <2>3. k \in DOMAIN events' /\ TurnAt(events', k, active'[t].id)
    BY <1>1, <1>4, <2>1, <2>2
  <2>4. ASSUME NEW m \in DOMAIN events', m >= k, TurnAt(events', m, active'[s].id)
        PROVE  FALSE
    BY <1>3, <2>1, <2>2, <2>4
  <2> QED BY <2>3, <2>4
<1>6. AdmittedOnce'
  <2> SUFFICES ASSUME NEW id \in Ids, NEW k \in DOMAIN events',
                      NEW m \in DOMAIN events', k < m,
                      events'[k] = Mark(id, "Prefill"), events'[m] = Mark(id, "Prefill")
               PROVE  \E q \in k..m : events'[q] = Mark(id, "Queued")
    BY DEF AdmittedOnce
  <2>1. /\ k \in DOMAIN events /\ events[k] = Mark(id, "Prefill")
        /\ m \in DOMAIN events /\ events[m] = Mark(id, "Prefill")
    BY <1>3
  <2>2. PICK q \in k..m : events[q] = Mark(id, "Queued")
    BY <2>1 DEF TurnInv, AdmittedOnce
  <2>3. q \in DOMAIN events
    BY <1>1, <2>1
  <2> QED BY <1>1, <2>2, <2>3
<1>7. ASSUME NEW i \in DOMAIN pending'
      PROVE  PendingSince(events', pending'[i].id)
  <2> DEFINE id == pending'[i].id
  <2>1. CASE PendingSince(events, id)
    <3>1. PICK q \in DOMAIN events :
            /\ events[q] = Mark(id, "Queued")
            /\ \A m \in DOMAIN events : m > q => events[m] # Mark(id, "Prefill")
      BY <2>1 DEF PendingSince
    <3>2. \A m \in DOMAIN events' : m > q => events'[m] # Mark(id, "Prefill")
      BY <1>3, <3>1
    <3> QED BY <1>1, <3>1, <3>2 DEF PendingSince
  <2>2. CASE \E k \in DOMAIN new : new[k] = Mark(id, "Queued")
    <3>1. PICK k \in DOMAIN new : new[k] = Mark(id, "Queued")
      BY <2>2
    <3>2. /\ Len(events) + k \in DOMAIN events'
          /\ events'[Len(events) + k] = Mark(id, "Queued")
      BY <1>1, <3>1
    <3>3. ASSUME NEW m \in DOMAIN events', m > Len(events) + k,
                 events'[m] = Mark(id, "Prefill")
          PROVE  FALSE
      <4>1. m \in DOMAIN events
        BY <1>3, <3>3
      <4> QED BY <1>1, <3>3, <4>1
    <3> QED BY <3>2, <3>3 DEF PendingSince
  <2> QED BY <2>1, <2>2
<1>8. RoundRobin'
  <2> SUFFICES ASSUME NEW a \in Ids, NEW b \in Ids,
                      NEW i \in DOMAIN events', NEW j \in DOMAIN events',
                      a # b, i < j, EmitsAt(events', i, a), EmitsAt(events', j, a),
                      WaitingSince(b, i)'
               PROVE  \E k \in (i + 1)..(j - 1) : EmitsAt(events', k, b)
    BY RoundRobinLater
  <2>1. /\ i \in DOMAIN events /\ EmitsAt(events, i, a)
        /\ j \in DOMAIN events /\ EmitsAt(events, j, a)
    BY <1>3
  <2>2. Decoding(b)
    BY DEF WaitingSince
  <2>3. WaitingSince(b, i)
    BY <2>1, <2>2, WaitedBefore DEF TypeOK
  <2>4. PICK k \in (i + 1)..(j - 1) : EmitsAt(events, k, b)
    BY <2>1, <2>3 DEF TurnInv, RoundRobin, IsEmission, EmitsAt
  <2>5. k \in DOMAIN events
    BY <1>1, <2>1
  <2> QED BY <1>4, <2>4, <2>5
<1> QED BY <1>5, <1>6, <1>7, <1>8 DEF TurnInv

\* The head's turn: it emits, and goes behind all others or leaves. Whoever
\* waited through its last turn has had one of its own since.
LEMMA WithTurn ==
  ASSUME TypeOK, UniqueIds, TurnInv, active # <<>>, Head(active).state = "Decode",
         NEW new \in Seq(Event), events' = events \o new, new # <<>>,
         new[1].id = Head(active).id, new[1].state = "Emit",
         \A k \in DOMAIN new : k # 1 => new[k].state \notin {"Emit", "Prefill"},
         pending' = pending, active' \in Seq(Slot),
         \A t \in DOMAIN active' :
           \/ /\ t + 1 \in DOMAIN active /\ active'[t] = active[t + 1]
           \/ active'[t].id = Head(active).id /\ t = Len(active')
  PROVE  TurnInv'
<1> DEFINE h == Head(active).id
           n == Len(events)
<1>1. /\ n \in Nat /\ Len(new) \in Nat
      /\ DOMAIN events = 1..n /\ DOMAIN new = 1..Len(new)
      /\ Len(events') = n + Len(new)
      /\ DOMAIN events' = 1..(n + Len(new))
      /\ \A k \in DOMAIN events : k \in DOMAIN events' /\ events'[k] = events[k]
      /\ \A k \in DOMAIN new :
           /\ n + k \in DOMAIN events'
           /\ events'[n + k] = new[k]
      /\ \A k \in DOMAIN events' :
           \/ k \in DOMAIN events
           \/ /\ k - n \in DOMAIN new
              /\ events'[k] = new[k - n]
              /\ k > n
  BY Logged DEF TypeOK
<1>2. 1 \in DOMAIN new
  BY <1>1
<1>3. /\ n + 1 \in DOMAIN events' /\ EmitsAt(events', n + 1, h)
      /\ \A k \in DOMAIN events' : k \notin DOMAIN events /\ k # n + 1 =>
           events'[k].state \notin {"Emit", "Prefill"}
  <2>1. n + 1 \in DOMAIN events' /\ EmitsAt(events', n + 1, h)
    BY <1>1, <1>2 DEF EmitsAt
  <2>2. ASSUME NEW k \in DOMAIN events', k \notin DOMAIN events, k # n + 1
        PROVE  events'[k].state \notin {"Emit", "Prefill"}
    <3>1. k - n \in DOMAIN new /\ events'[k] = new[k - n] /\ k - n # 1
      BY <1>1, <2>2
    <3> QED BY <3>1
  <2> QED BY <2>1, <2>2
<1>4. /\ active \in Seq(Slot) /\ Len(active) \in Nat /\ DOMAIN active = 1..Len(active)
      /\ 1 \in DOMAIN active /\ active[1].id = h /\ active[1].state = "Decode"
      /\ DOMAIN active' = 1..Len(active') /\ Len(active') \in Nat
      /\ \A s, t \in DOMAIN active : active[s].id = active[t].id => s = t
  BY DEF TypeOK, UniqueIds, Distinct
<1> HIDE DEF h, n
<1>5. \A k \in DOMAIN events' : \A id :
        /\ events'[k] = Mark(id, "Prefill")
           => k \in DOMAIN events /\ events[k] = Mark(id, "Prefill")
        /\ EmitsAt(events', k, id)
           => \/ k \in DOMAIN events /\ EmitsAt(events, k, id)
              \/ k = n + 1 /\ id = h
        /\ TurnAt(events', k, id)
           => \/ k \in DOMAIN events /\ TurnAt(events, k, id)
              \/ k = n + 1 /\ id = h
  BY <1>1, <1>3 DEF Mark, EmitsAt, TurnAt
<1>6. \A k \in DOMAIN events : \A id :
        /\ EmitsAt(events, k, id) => EmitsAt(events', k, id)
        /\ TurnAt(events, k, id) => TurnAt(events', k, id)
  BY <1>1 DEF EmitsAt, TurnAt
<1>7. \A t \in DOMAIN active' :
        \/ /\ t + 1 \in DOMAIN active /\ active'[t] = active[t + 1]
           /\ active[t + 1].id # h
        \/ active'[t].id = h /\ t = Len(active')
  <2> SUFFICES ASSUME NEW t \in DOMAIN active', t + 1 \in DOMAIN active
               PROVE  active[t + 1].id # h
    BY DEF h
  <2>1. t + 1 # 1
    BY <1>4
  <2> QED BY <1>4, <2>1
<1>8. QueueInTurn'
  <2> SUFFICES ASSUME NEW s \in DOMAIN active', NEW t \in DOMAIN active', s < t,
                      active'[s].state = "Decode", active'[t].state = "Decode"
               PROVE  \E k \in DOMAIN events' :
                        /\ TurnAt(events', k, active'[t].id)
                        /\ \A m \in DOMAIN events' :
                             m >= k => ~TurnAt(events', m, active'[s].id)
    BY DEF QueueInTurn
  <2>1. /\ s + 1 \in DOMAIN active /\ active'[s] = active[s + 1]
        /\ active[s + 1].id # h
    BY <1>4, <1>7
  <2>2. CASE active'[t].id = h
    <3>1. TurnAt(events', n + 1, active'[t].id)
      BY <1>3, <2>2 DEF TurnAt
    <3>2. ASSUME NEW m \in DOMAIN events', m >= n + 1,
                 TurnAt(events', m, active'[s].id)
          PROVE  FALSE
      BY <1>1, <1>5, <2>1, <3>2
    <3> QED BY <1>3, <3>1, <3>2
  <2>3. CASE t + 1 \in DOMAIN active /\ active'[t] = active[t + 1]
    <3>1. s + 1 < t + 1
      BY <1>4
    <3>2. PICK k \in DOMAIN events :
            /\ TurnAt(events, k, active[t + 1].id)
            /\ \A m \in DOMAIN events : m >= k => ~TurnAt(events, m, active[s + 1].id)
      BY <2>1, <2>3, <3>1 DEF TurnInv, QueueInTurn
    <3>3. k \in DOMAIN events' /\ TurnAt(events', k, active'[t].id)
      BY <1>1, <1>6, <2>3, <3>2
    <3>4. ASSUME NEW m \in DOMAIN events', m >= k,
                 TurnAt(events', m, active'[s].id)
          PROVE  FALSE
      BY <1>5, <2>1, <3>2, <3>4
    <3> QED BY <3>3, <3>4
  <2> QED BY <1>7, <2>2, <2>3
<1>9. AdmittedOnce'
  <2> SUFFICES ASSUME NEW id \in Ids, NEW k \in DOMAIN events',
                      NEW m \in DOMAIN events', k < m,
                      events'[k] = Mark(id, "Prefill"), events'[m] = Mark(id, "Prefill")
               PROVE  \E q \in k..m : events'[q] = Mark(id, "Queued")
    BY DEF AdmittedOnce
  <2>1. /\ k \in DOMAIN events /\ events[k] = Mark(id, "Prefill")
        /\ m \in DOMAIN events /\ events[m] = Mark(id, "Prefill")
    BY <1>5
  <2>2. PICK q \in k..m : events[q] = Mark(id, "Queued")
    BY <2>1 DEF TurnInv, AdmittedOnce
  <2>3. q \in DOMAIN events
    BY <1>1, <2>1
  <2> QED BY <1>1, <2>2, <2>3
<1>10. ASSUME NEW i \in DOMAIN pending'
       PROVE  PendingSince(events', pending'[i].id)
  <2> DEFINE id == pending'[i].id
  <2>1. PICK q \in DOMAIN events :
          /\ events[q] = Mark(id, "Queued")
          /\ \A m \in DOMAIN events : m > q => events[m] # Mark(id, "Prefill")
    BY DEF TurnInv, PendingSince
  <2>2. \A m \in DOMAIN events' : m > q => events'[m] # Mark(id, "Prefill")
    BY <1>5, <2>1
  <2> QED BY <1>1, <2>1, <2>2 DEF PendingSince
<1>11. RoundRobin'
  <2> SUFFICES ASSUME NEW a \in Ids, NEW b \in Ids,
                      NEW i \in DOMAIN events', NEW j \in DOMAIN events',
                      a # b, i < j, EmitsAt(events', i, a), EmitsAt(events', j, a),
                      WaitingSince(b, i)'
               PROVE  \E k \in (i + 1)..(j - 1) : EmitsAt(events', k, b)
    BY RoundRobinLater
  <2>1. i \in DOMAIN events /\ EmitsAt(events, i, a)
    BY <1>1, <1>5
  <2>2. PICK t \in DOMAIN active' : active'[t].id = b /\ active'[t].state = "Decode"
    BY DEF WaitingSince
  <2>3. Decoding(b)
    <3>1. CASE b = h
      BY <1>4, <3>1 DEF Decoding
    <3>2. CASE b # h
      BY <1>7, <2>2, <3>2 DEF Decoding
    <3> QED BY <3>1, <3>2
  <2>4. WaitingSince(b, i)
    BY <2>1, <2>3, WaitedBefore DEF TypeOK
  <2>5. CASE j \in DOMAIN events /\ EmitsAt(events, j, a)
    <3>1. PICK k \in (i + 1)..(j - 1) : EmitsAt(events, k, b)
      BY <2>1, <2>4, <2>5 DEF TurnInv, RoundRobin, IsEmission, EmitsAt
    <3>2. k \in DOMAIN events
      BY <1>1, <2>1, <2>5
    <3> QED BY <1>6, <3>1, <3>2
  <2>6. CASE j = n + 1 /\ a = h
    <3>1. /\ t + 1 \in DOMAIN active /\ 1 < t + 1
          /\ active[t + 1].id = b /\ active[t + 1].state = "Decode"
      BY <1>4, <1>7, <2>2, <2>6
    <3>2. PICK k \in DOMAIN events :
            /\ TurnAt(events, k, b)
            /\ \A m \in DOMAIN events : m >= k => ~TurnAt(events, m, h)
      <4>1. QueueInTurn
        BY DEF TurnInv
      <4>2. 1 \in DOMAIN active /\ active[1].id = h /\ active[1].state = "Decode"
        BY <1>4
      <4> QED BY <3>1, <4>1, <4>2 DEF QueueInTurn
    <3>3. ~(i >= k)
      BY <2>1, <2>6, <3>2 DEF TurnAt
    <3>4. k \in (i + 1)..(j - 1)
      BY <1>1, <2>1, <2>6, <3>3
    <3>5. CASE EmitsAt(events, k, b)
      BY <1>6, <3>2, <3>4, <3>5
    <3>6. CASE events[k] = Mark(b, "Prefill")
      <4>1. PICK p \in 1..(i - 1) :
              /\ events[p] = Mark(b, "Prefill")
              /\ \A q \in p..Len(events) : events[q] # Mark(b, "Queued")
        BY <2>4 DEF WaitingSince
      <4>2. p \in DOMAIN events /\ p < k
        BY <1>1, <2>1, <3>3
      <4>3. PICK q \in p..k : events[q] = Mark(b, "Queued")
        BY <3>6, <4>1, <4>2 DEF TurnInv, AdmittedOnce
      <4>4. q \in p..Len(events)
        BY <1>1, <4>2 DEF n
      <4> QED BY <4>1, <4>3, <4>4
    <3> QED BY <3>2, <3>5, <3>6 DEF TurnAt
  <2> QED BY <1>5, <2>5, <2>6
<1> QED BY <1>8, <1>9, <1>10, <1>11 DEF TurnInv

\* What admission logs of the pending slots: each is admitted once, in order.
LEMMA AdmissionLog ==
  ASSUME TypeOK, UniqueIds
  PROVE  /\ DOMAIN AdmissionEvents = 1..(2 * Len(pending))
         /\ \A k \in DOMAIN AdmissionEvents :
              AdmissionEvents[k].state \in {"Prefill", "Decode"}
         /\ \A u \in DOMAIN pending :
              /\ 2 * u - 1 \in DOMAIN AdmissionEvents
              /\ AdmissionEvents[2 * u - 1] = Mark(pending[u].id, "Prefill")
         /\ \A u \in DOMAIN pending : \A k \in DOMAIN AdmissionEvents :
              AdmissionEvents[k] = Mark(pending[u].id, "Prefill") => k = 2 * u - 1
         /\ \A k \in DOMAIN AdmissionEvents :
              \E u \in DOMAIN pending : AdmissionEvents[k].id = pending[u].id
<1>1. /\ DOMAIN pending = 1..Len(pending) /\ Len(pending) \in Nat
      /\ DOMAIN AdmissionEvents = 1..(2 * Len(pending))
      /\ \A i, j \in DOMAIN pending : pending[i].id = pending[j].id => i = j
  BY DEF TypeOK, UniqueIds, Distinct, AdmissionEvents
<1>2. \A k \in 1..(2 * Len(pending)) : (k + 1) \div 2 \in DOMAIN pending
  BY <1>1
<1>3. \A k \in 1..(2 * Len(pending)) :
        AdmissionEvents[k] = Mark(pending[(k + 1) \div 2].id,
                                  IF k % 2 = 1 THEN "Prefill" ELSE "Decode")
  BY DEF AdmissionEvents
<1>4. ASSUME NEW k \in DOMAIN AdmissionEvents
      PROVE  /\ AdmissionEvents[k].state \in {"Prefill", "Decode"}
             /\ AdmissionEvents[k].id = pending[(k + 1) \div 2].id
             /\ AdmissionEvents[k].state = "Prefill" => k % 2 = 1
  BY <1>1, <1>3 DEF Mark
<1>5. ASSUME NEW u \in DOMAIN pending
      PROVE  /\ 2 * u - 1 \in DOMAIN AdmissionEvents
             /\ AdmissionEvents[2 * u - 1] = Mark(pending[u].id, "Prefill")
  <2>1. /\ 2 * u - 1 \in 1..(2 * Len(pending))
        /\ (2 * u - 1 + 1) \div 2 = u
        /\ (2 * u - 1) % 2 = 1
    BY <1>1
  <2> QED BY <1>1, <1>3, <2>1
<1>6. ASSUME NEW u \in DOMAIN pending, NEW k \in DOMAIN AdmissionEvents,
             AdmissionEvents[k] = Mark(pending[u].id, "Prefill")
      PROVE  k = 2 * u - 1
  <2>1. /\ AdmissionEvents[k].state = "Prefill"
        /\ AdmissionEvents[k].id = pending[u].id
    BY <1>6 DEF Mark
  <2>2. (k + 1) \div 2 = u /\ k % 2 = 1
    BY <1>1, <1>2, <1>4, <2>1
  <2>3. k \in Nat
    BY <1>1
  <2>4. k = 2 * ((k + 1) \div 2) - 1
    <3>1. \A j \in Nat : j % 2 = 1 => j = 2 * ((j + 1) \div 2) - 1
      OBVIOUS
    <3> QED BY <2>2, <2>3, <3>1
  <2> QED BY <2>2, <2>4
<1> QED BY <1>1, <1>2, <1>4, <1>5, <1>6

\* Admission puts the pending behind the survivors of a failed run, each with a
\* turn later than those before it.
LEMMA WithAdmission ==
  ASSUME TypeOK, UniqueIds, TurnInv, StartRun
  PROVE  TurnInv'
<1> DEFINE n == Len(events)
           new == AdmissionEvents
<1>0. new \in Seq(Event) /\ events \in Seq(Event) /\ events' = events \o new
  BY AdmittedType DEF StartRun, TypeOK
<1>1. /\ n \in Nat /\ Len(new) \in Nat
      /\ DOMAIN events = 1..n /\ DOMAIN new = 1..Len(new)
      /\ Len(events') = n + Len(new)
      /\ DOMAIN events' = 1..(n + Len(new))
      /\ \A k \in DOMAIN events : k \in DOMAIN events' /\ events'[k] = events[k]
      /\ \A k \in DOMAIN new :
           /\ n + k \in DOMAIN events'
           /\ events'[n + k] = new[k]
      /\ \A k \in DOMAIN events' :
           \/ k \in DOMAIN events
           \/ /\ k - n \in DOMAIN new
              /\ events'[k] = new[k - n]
              /\ k > n
  <2> HIDE DEF new
  <2> QED BY <1>0, Logged
<1>2. /\ \A k \in DOMAIN new : new[k].state \in {"Prefill", "Decode"}
      /\ \A u \in DOMAIN pending :
           2 * u - 1 \in DOMAIN new /\ new[2 * u - 1] = Mark(pending[u].id, "Prefill")
      /\ \A u \in DOMAIN pending : \A k \in DOMAIN new :
           new[k] = Mark(pending[u].id, "Prefill") => k = 2 * u - 1
      /\ \A k \in DOMAIN new : \E u \in DOMAIN pending : new[k].id = pending[u].id
  BY AdmissionLog
<1>3. /\ DOMAIN pending = 1..Len(pending) /\ Len(pending) \in Nat
      /\ DOMAIN active = 1..Len(active) /\ Len(active) \in Nat
      /\ DOMAIN active' = 1..(Len(active) + Len(pending))
      /\ \A s \in 1..Len(active) : active'[s] = active[s]
      /\ \A u \in DOMAIN pending : active'[Len(active) + u].id = pending[u].id
  <2>1. /\ active \in Seq(Slot) /\ pending \in Seq(Slot) /\ Admitted \in Seq(Slot)
        /\ Len(Admitted) = Len(pending)
        /\ active' = active \o Admitted
    BY AdmittedType DEF TypeOK, StartRun
  <2>2. \A u \in DOMAIN pending : Admitted[u].id = pending[u].id
    <3>1. ASSUME NEW u \in DOMAIN pending
          PROVE  Admitted[u].id = pending[u].id
      <4>1. pending[u] \in Slot
        BY <2>1
      <4>2. Admitted[u] = [pending[u] EXCEPT !.state = "Decode"]
        BY AdmittedType
      <4> HIDE DEF Admitted
      <4> QED BY <4>1, <4>2 DEF Slot
    <3> QED BY <3>1
  <2>3. /\ Len(active \o Admitted) = Len(active) + Len(Admitted)
        /\ \A s \in 1..(Len(active) + Len(Admitted)) :
             (active \o Admitted)[s] =
               IF s <= Len(active) THEN active[s] ELSE Admitted[s - Len(active)]
        /\ active \o Admitted \in Seq(Slot)
    BY <2>1, ConcatProperties
  <2>4. /\ DOMAIN pending = 1..Len(pending) /\ Len(pending) \in Nat
        /\ DOMAIN active = 1..Len(active) /\ Len(active) \in Nat
    BY <2>1
  <2>5. ASSUME NEW u \in DOMAIN pending
        PROVE  active'[Len(active) + u].id = pending[u].id
    <3>1. /\ Len(active) + u \in 1..(Len(active) + Len(Admitted))
          /\ ~(Len(active) + u <= Len(active))
          /\ Len(active) + u - Len(active) = u
      BY <2>1, <2>4
    <3>2. active'[Len(active) + u] = Admitted[u]
      BY <2>1, <2>3, <3>1
    <3> QED BY <2>2, <3>2
  <2>6. /\ DOMAIN active' = 1..(Len(active) + Len(pending))
        /\ \A s \in 1..Len(active) : active'[s] = active[s]
    BY <2>1, <2>3, <2>4
  <2> QED BY <2>4, <2>5, <2>6
<1>4. /\ \A s \in DOMAIN active, u \in DOMAIN pending : active[s].id # pending[u].id
      /\ \A u, v \in DOMAIN pending : pending[u].id = pending[v].id => u = v
      /\ pending' = <<>>
  <2>1. ASSUME NEW s \in DOMAIN active, NEW u \in DOMAIN pending
        PROVE  active[s].id # pending[u].id
    <3>1. active[s].id \in IdsOf(active) /\ pending[u].id \in IdsOf(pending)
      BY DEF IdsOf
    <3> QED BY <3>1 DEF UniqueIds
  <2>2. \A u, v \in DOMAIN pending : pending[u].id = pending[v].id => u = v
    BY DEF UniqueIds, Distinct
  <2> QED BY <2>1, <2>2 DEF StartRun
<1> HIDE DEF n, new
<1>5. \A k \in DOMAIN events' : \A id :
        /\ EmitsAt(events', k, id) => k \in DOMAIN events /\ EmitsAt(events, k, id)
        /\ TurnAt(events', k, id) =>
             \/ k \in DOMAIN events /\ TurnAt(events, k, id)
             \/ /\ k - n \in DOMAIN new /\ k > n
                /\ new[k - n] = Mark(id, "Prefill")
  BY <1>1, <1>2 DEF Mark, EmitsAt, TurnAt
<1>6. \A k \in DOMAIN events : \A id :
        /\ EmitsAt(events, k, id) => EmitsAt(events', k, id)
        /\ TurnAt(events, k, id) => TurnAt(events', k, id)
  BY <1>1 DEF EmitsAt, TurnAt
<1>7. ASSUME NEW u \in DOMAIN pending
      PROVE  /\ n + (2 * u - 1) \in DOMAIN events'
             /\ events'[n + (2 * u - 1)] = Mark(pending[u].id, "Prefill")
             /\ TurnAt(events', n + (2 * u - 1), pending[u].id)
  BY <1>1, <1>2 DEF TurnAt
<1>8. QueueInTurn'
  <2> SUFFICES ASSUME NEW s \in DOMAIN active', NEW t \in DOMAIN active', s < t,
                      active'[s].state = "Decode", active'[t].state = "Decode"
               PROVE  \E k \in DOMAIN events' :
                        /\ TurnAt(events', k, active'[t].id)
                        /\ \A m \in DOMAIN events' :
                             m >= k => ~TurnAt(events', m, active'[s].id)
    BY DEF QueueInTurn
  <2>1. CASE t \in DOMAIN active
    <3>1. s \in DOMAIN active /\ active'[s] = active[s] /\ active'[t] = active[t]
      BY <1>3, <2>1
    <3>2. PICK k \in DOMAIN events :
            /\ TurnAt(events, k, active[t].id)
            /\ \A m \in DOMAIN events : m >= k => ~TurnAt(events, m, active[s].id)
      BY <2>1, <3>1 DEF TurnInv, QueueInTurn
    <3>3. k \in DOMAIN events' /\ TurnAt(events', k, active'[t].id)
      BY <1>1, <1>6, <3>1, <3>2
    <3>4. ASSUME NEW m \in DOMAIN events', m >= k,
                 TurnAt(events', m, active'[s].id)
          PROVE  FALSE
      <4>1. CASE m \in DOMAIN events /\ TurnAt(events, m, active[s].id)
        BY <3>2, <3>4, <4>1
      <4>2. CASE m - n \in DOMAIN new /\ new[m - n] = Mark(active[s].id, "Prefill")
        <5>1. new[m - n].id = active[s].id
          BY <4>2 DEF Mark
        <5> QED BY <1>2, <1>4, <3>1, <4>2, <5>1
      <4> QED BY <1>5, <3>1, <3>4, <4>1, <4>2
    <3> QED BY <3>3, <3>4
  <2>2. CASE t \notin DOMAIN active
    <3> DEFINE v == t - Len(active)
    <3>1. v \in DOMAIN pending /\ active'[t].id = pending[v].id
      <4>1. v \in DOMAIN pending /\ t = Len(active) + v
        BY <1>3, <2>2
      <4> HIDE DEF v
      <4> QED BY <1>3, <4>1
    <3> HIDE DEF v
    <3>2. ASSUME NEW m \in DOMAIN events', m >= n + (2 * v - 1),
                 TurnAt(events', m, active'[s].id)
          PROVE  FALSE
      <4>1. /\ m - n \in DOMAIN new /\ m > n
            /\ new[m - n] = Mark(active'[s].id, "Prefill")
        BY <1>1, <1>3, <1>5, <3>1, <3>2
      <4>2. new[m - n].id = active'[s].id
        BY <4>1 DEF Mark
      <4>3. CASE s \in DOMAIN active
        BY <1>2, <1>3, <1>4, <4>1, <4>2, <4>3
      <4>4. CASE s \notin DOMAIN active
        <5>1. PICK u \in DOMAIN pending : s = Len(active) + u
          <6>1. s - Len(active) \in DOMAIN pending
                /\ s = Len(active) + (s - Len(active))
            BY <1>3, <4>4
          <6> QED BY <6>1
        <5>2. active'[s].id = pending[u].id
          BY <1>3, <5>1
        <5>3. m - n = 2 * u - 1
          BY <1>2, <4>1, <5>2
        <5>4. u < v
          <6>1. PICK w \in DOMAIN pending : w = v /\ t = Len(active) + w
            BY <1>3, <2>2, <3>1 DEF v
          <6> QED BY <1>3, <5>1, <6>1
        <5> QED BY <1>1, <1>3, <3>1, <3>2, <5>3, <5>4, SMTT(20)
      <4> QED BY <4>3, <4>4
    <3> QED BY <1>7, <3>1, <3>2
  <2> QED BY <2>1, <2>2
<1>9. ASSUME NEW u \in DOMAIN pending
      PROVE  \E q \in DOMAIN events :
               /\ events[q] = Mark(pending[u].id, "Queued")
               /\ \A m \in DOMAIN events :
                    m >= q => events[m] # Mark(pending[u].id, "Prefill")
  <2>1. PICK q \in DOMAIN events :
          /\ events[q] = Mark(pending[u].id, "Queued")
          /\ \A m \in DOMAIN events :
               m > q => events[m] # Mark(pending[u].id, "Prefill")
    BY DEF TurnInv, PendingSince
  <2>2. events[q] # Mark(pending[u].id, "Prefill")
    BY <2>1 DEF Mark
  <2>3. ASSUME NEW m \in DOMAIN events, m >= q
        PROVE  events[m] # Mark(pending[u].id, "Prefill")
    <3>1. m = q \/ m > q
      BY <1>1, <2>3
    <3> QED BY <2>1, <2>2, <3>1
  <2> QED BY <2>1, <2>3
<1>10. AdmittedOnce'
  <2> SUFFICES ASSUME NEW id \in Ids, NEW k \in DOMAIN events',
                      NEW m \in DOMAIN events', k < m,
                      events'[k] = Mark(id, "Prefill"), events'[m] = Mark(id, "Prefill")
               PROVE  \E q \in k..m : events'[q] = Mark(id, "Queued")
    BY DEF AdmittedOnce
  <2>1. CASE m \in DOMAIN events
    <3>1. k \in DOMAIN events
      BY <1>1, <2>1
    <3>2. PICK q \in k..m : events[q] = Mark(id, "Queued")
      BY <1>1, <2>1, <3>1 DEF TurnInv, AdmittedOnce
    <3>3. q \in DOMAIN events
      BY <1>1, <2>1, <3>1
    <3> QED BY <1>1, <3>2, <3>3
  <2>2. CASE m \notin DOMAIN events
    <3>1. m - n \in DOMAIN new /\ m > n /\ new[m - n] = Mark(id, "Prefill")
      BY <1>1, <2>2
    <3>2. PICK u \in DOMAIN pending : id = pending[u].id
      <4>1. new[m - n].id = id
        BY <3>1 DEF Mark
      <4> QED BY <1>2, <3>1, <4>1
    <3>3. m - n = 2 * u - 1
      BY <1>2, <3>1, <3>2
    <3>4. k \in DOMAIN events
      <4>1. CASE k - n \in DOMAIN new /\ events'[k] = new[k - n]
        <5>1. k - n = 2 * u - 1
          BY <1>2, <3>2, <4>1
        <5> QED BY <1>1, <3>3, <5>1
      <4> QED BY <1>1, <4>1
    <3>5. PICK q \in DOMAIN events :
            /\ events[q] = Mark(id, "Queued")
            /\ \A l \in DOMAIN events : l >= q => events[l] # Mark(id, "Prefill")
      BY <1>9, <3>2
    <3>6. q \in k..m
      BY <1>1, <3>1, <3>4, <3>5
    <3> QED BY <1>1, <3>5, <3>6
  <2> QED BY <2>1, <2>2
<1>11. RoundRobin'
  <2> SUFFICES ASSUME NEW a \in Ids, NEW b \in Ids,
                      NEW i \in DOMAIN events', NEW j \in DOMAIN events',
                      a # b, i < j, EmitsAt(events', i, a), EmitsAt(events', j, a),
                      WaitingSince(b, i)'
               PROVE  \E k \in (i + 1)..(j - 1) : EmitsAt(events', k, b)
    BY RoundRobinLater
  <2>1. /\ i \in DOMAIN events /\ EmitsAt(events, i, a)
        /\ j \in DOMAIN events /\ EmitsAt(events, j, a)
    BY <1>5
  <2>2. PICK s \in DOMAIN active' : active'[s].id = b /\ active'[s].state = "Decode"
    BY DEF WaitingSince
  <2>3. CASE s \in DOMAIN active
    <3>1. Decoding(b)
      BY <1>3, <2>2, <2>3 DEF Decoding
    <3>2. WaitingSince(b, i)
      BY <1>0, <2>1, <3>1, WaitedBefore
    <3>3. PICK k \in (i + 1)..(j - 1) : EmitsAt(events, k, b)
      BY <2>1, <3>2 DEF TurnInv, RoundRobin, IsEmission, EmitsAt
    <3>4. k \in DOMAIN events
      BY <1>1, <2>1
    <3> QED BY <1>6, <3>3, <3>4
  <2>4. CASE s \notin DOMAIN active
    <3>1. PICK u \in DOMAIN pending : b = pending[u].id
      <4>1. /\ s - Len(active) \in DOMAIN pending
            /\ s = Len(active) + (s - Len(active))
        BY <1>3, <2>4
      <4> QED BY <1>3, <2>2, <4>1
    <3>2. PICK p \in 1..(i - 1) :
            /\ events'[p] = Mark(b, "Prefill")
            /\ \A q \in p..Len(events') : events'[q] # Mark(b, "Queued")
      BY DEF WaitingSince
    <3>3. p \in DOMAIN events /\ events[p] = Mark(b, "Prefill")
      <4>1. p \in DOMAIN events
        BY <1>1, <2>1
      <4> QED BY <1>1, <3>2, <4>1
    <3>4. PICK q \in DOMAIN events :
            /\ events[q] = Mark(b, "Queued")
            /\ \A m \in DOMAIN events : m >= q => events[m] # Mark(b, "Prefill")
      BY <1>9, <3>1
    <3>5. q \in p..Len(events')
      BY <1>1, <3>3, <3>4
    <3> QED BY <1>1, <3>2, <3>4, <3>5
  <2> QED BY <2>3, <2>4
<1>12. TurnInv'
  BY <1>4, <1>8, <1>10, <1>11 DEF TurnInv
<1> QED BY <1>12

\* A queue that only loses its head, or marks slots canceled, keeps its order.
LEMMA OrderKept ==
  ASSUME TypeOK, TypeOK', NEW d \in {0, 1},
         \A s \in DOMAIN active' :
           /\ s + d \in DOMAIN active
           /\ active'[s].id = active[s + d].id
           /\ active'[s].state = "Decode" => active[s + d].state = "Decode"
  PROVE  /\ \A s \in DOMAIN active' :
              active'[s].state = "Decode" => Decoding(active'[s].id)
         /\ \A s, t \in DOMAIN active' :
              s < t /\ active'[s].state = "Decode" /\ active'[t].state = "Decode"
              => \E s0, t0 \in DOMAIN active :
                   /\ s0 < t0
                   /\ active[s0].state = "Decode" /\ active[s0].id = active'[s].id
                   /\ active[t0].state = "Decode" /\ active[t0].id = active'[t].id
<1>1. \A s \in DOMAIN active' :
        active'[s].state = "Decode" => Decoding(active'[s].id)
  BY DEF Decoding
<1>2. DOMAIN active' = 1..Len(active') /\ Len(active') \in Nat
  BY DEF TypeOK
<1>3. ASSUME NEW s \in DOMAIN active', NEW t \in DOMAIN active', s < t,
             active'[s].state = "Decode", active'[t].state = "Decode"
      PROVE  \E s0, t0 \in DOMAIN active :
               /\ s0 < t0
               /\ active[s0].state = "Decode" /\ active[s0].id = active'[s].id
               /\ active[t0].state = "Decode" /\ active[t0].id = active'[t].id
  <2>1. s + d < t + d
    BY <1>2, <1>3
  <2> QED BY <1>3, <2>1
<1> QED BY <1>1, <1>3

\* A submission is logged and awaits admission; to an idle scheduler it begins
\* the history.
LEMMA WithSubmission ==
  ASSUME TypeOK, TypeOK', TurnInv, NEW r \in Request, Submit(r)
  PROVE  TurnInv'
<1>1. /\ r.id \in Ids /\ Mark(r.id, "Queued") \in Event
      /\ Mark(r.id, "Queued").state = "Queued"
  BY EventTypes, StateNames DEF Request, Mark
<1>2. /\ events \in Seq(Event) /\ pending \in Seq(Slot)
      /\ active' = active /\ NewSlot(r).id = r.id
      /\ pending' = Append(pending, NewSlot(r))
  BY DEF TypeOK, Submit, NewSlot
<1>3. /\ DOMAIN active = 1..Len(active) /\ Len(active) \in Nat
      /\ \A i \in DOMAIN pending' :
           \/ i \in DOMAIN pending /\ pending'[i] = pending[i]
           \/ pending'[i] = NewSlot(r)
  BY <1>2 DEF TypeOK
<1>4. CASE Idle
  <2>1. /\ events' = <<Mark(r.id, "Queued")>> /\ pending = <<>> /\ active' = <<>>
    BY <1>2, <1>4 DEF Submit, Continue, Idle
  <2>2. /\ DOMAIN events' = {1} /\ DOMAIN active' = {} /\ DOMAIN pending = {}
        /\ events'[1] = Mark(r.id, "Queued")
    BY <2>1
  <2>3. QueueInTurn'
    BY <2>2 DEF QueueInTurn
  <2>4. AdmittedOnce'
    BY <2>2 DEF AdmittedOnce
  <2>5. \A i \in DOMAIN pending' : PendingSince(events', pending'[i].id)
    BY <1>2, <1>3, <2>2 DEF PendingSince
  <2>6. RoundRobin'
    BY <2>2 DEF RoundRobin, WaitingSince
  <2> QED BY <2>3, <2>4, <2>5, <2>6 DEF TurnInv
<1>5. CASE ~Idle
  <2> DEFINE new == <<Mark(r.id, "Queued")>>
  <2>1. events' = Append(events, Mark(r.id, "Queued"))
    BY <1>5 DEF Submit, Continue
  <2>2. events' = events \o new
    BY <1>1, <1>2, <2>1, AppendIsConcat
  <2>3. /\ new \in Seq(Event) /\ DOMAIN new = {1}
        /\ new[1] = Mark(r.id, "Queued")
        /\ \A k \in DOMAIN new : new[k].state \notin {"Emit", "Prefill"}
    BY <1>1
  <2> HIDE DEF new
  <2>4. \A i \in DOMAIN pending' :
          \/ PendingSince(events, pending'[i].id)
          \/ \E k \in DOMAIN new : new[k] = Mark(pending'[i].id, "Queued")
    BY <1>2, <1>3, <2>3 DEF TurnInv
  <2>5. \A s \in DOMAIN active' :
          /\ s + 0 \in DOMAIN active
          /\ active'[s].id = active[s + 0].id
          /\ active'[s].state = "Decode" => active[s + 0].state = "Decode"
    BY <1>2, <1>3
  <2>6. /\ \A s \in DOMAIN active' :
             active'[s].state = "Decode" => Decoding(active'[s].id)
        /\ \A s, t \in DOMAIN active' :
             s < t /\ active'[s].state = "Decode" /\ active'[t].state = "Decode"
             => \E s0, t0 \in DOMAIN active :
                  /\ s0 < t0
                  /\ active[s0].state = "Decode" /\ active[s0].id = active'[s].id
                  /\ active[t0].state = "Decode" /\ active[t0].id = active'[t].id
    BY <2>5, OrderKept
  <2> QED BY <2>2, <2>3, <2>4, <2>6, WithoutTurn
<1> QED BY <1>4, <1>5

\* A step that logs no turn and only shortens the queues, or cancels in place.
LEMMA Shortened ==
  ASSUME TypeOK, TypeOK', TurnInv,
         NEW new \in Seq(Event), events' = events \o new,
         \A k \in DOMAIN new : new[k].state \notin {"Emit", "Prefill"},
         NEW d \in {0, 1},
         \A s \in DOMAIN active' :
           /\ s + d \in DOMAIN active
           /\ active'[s].id = active[s + d].id
           /\ active'[s].state = "Decode" => active[s + d].state = "Decode",
         \A i \in DOMAIN pending' :
           \E j \in DOMAIN pending : pending'[i].id = pending[j].id
  PROVE  TurnInv'
<1>1. \A i \in DOMAIN pending' :
        \/ PendingSince(events, pending'[i].id)
        \/ \E k \in DOMAIN new : new[k] = Mark(pending'[i].id, "Queued")
  BY DEF TurnInv
<1>2. /\ \A s \in DOMAIN active' :
           active'[s].state = "Decode" => Decoding(active'[s].id)
      /\ \A s, t \in DOMAIN active' :
           s < t /\ active'[s].state = "Decode" /\ active'[t].state = "Decode"
           => \E s0, t0 \in DOMAIN active :
                /\ s0 < t0
                /\ active[s0].state = "Decode" /\ active[s0].id = active'[s].id
                /\ active[t0].state = "Decode" /\ active[t0].id = active'[t].id
  BY OrderKept
<1> QED BY <1>1, <1>2, WithoutTurn

\* TurnInv is inductive.
LEMMA TurnStep ==
  ASSUME TypeOK, TypeOK', DecodesToTokens, UniqueIds, TurnInv, [Next]_vars
  PROVE  TurnInv'
<1>0. /\ pending \in Seq(Slot) /\ active \in Seq(Slot) /\ events \in Seq(Event)
      /\ active' \in Seq(Slot) /\ pending' \in Seq(Slot)
      /\ DOMAIN pending' = 1..Len(pending')
      /\ DOMAIN pending = 1..Len(pending) /\ Len(pending) \in Nat
      /\ DOMAIN active = 1..Len(active) /\ Len(active) \in Nat
  BY DEF TypeOK
<1>1. ASSUME NEW r \in Request, Submit(r)
      PROVE  TurnInv'
  BY <1>1, WithSubmission
<1>2. ASSUME NEW id \in Ids, CancelPending(id)
      PROVE  TurnInv'
  <2> DEFINE new == <<Mark(id, "Canceled"), Mark(id, "Cleanup")>>
  <2>1. PICK i \in DOMAIN pending : pending' = RemoveAt(pending, i)
    BY <1>2 DEF CancelPending
  <2>2. /\ Len(pending') = Len(pending) - 1 /\ DOMAIN pending' = 1..Len(pending')
        /\ \A j \in 1..(Len(pending) - 1) :
             pending'[j] = IF j < i THEN pending[j] ELSE pending[j + 1]
    BY <1>0, <2>1, RemoveAtProperties
  <2>3. ASSUME NEW j \in DOMAIN pending'
        PROVE  \E k \in DOMAIN pending : pending'[j].id = pending[k].id
    <3>1. /\ j \in DOMAIN pending /\ j + 1 \in DOMAIN pending
          /\ j \in 1..(Len(pending) - 1)
      BY <1>0, <2>2
    <3>2. pending'[j] = pending[j] \/ pending'[j] = pending[j + 1]
      BY <2>2, <3>1
    <3> QED BY <3>1, <3>2
  <2>4. /\ new \in Seq(Event) /\ events' = events \o new /\ active' = active
        /\ \A k \in DOMAIN new : new[k].state \notin {"Emit", "Prefill"}
    <3>1. Mark(id, "Canceled") \in Event /\ Mark(id, "Cleanup") \in Event
      BY EventTypes, StateNames
    <3>2. Mark(id, "Canceled").state = "Canceled" /\ Mark(id, "Cleanup").state = "Cleanup"
      BY DEF Mark
    <3> QED BY <1>2, <3>1, <3>2 DEF CancelPending
  <2> HIDE DEF new
  <2>5. \A s \in DOMAIN active' :
          /\ s + 0 \in DOMAIN active
          /\ active'[s].id = active[s + 0].id
          /\ active'[s].state = "Decode" => active[s + 0].state = "Decode"
    BY <1>0, <2>4
  <2> QED BY <2>3, <2>4, <2>5, Shortened
<1>3. ASSUME NEW id \in Ids, CancelActive(id)
      PROVE  TurnInv'
  <2> DEFINE new == <<Mark(id, "Canceled")>>
  <2>1. PICK i \in DOMAIN active :
          active' = [active EXCEPT ![i].state = "Canceled"]
    BY <1>3 DEF CancelActive
  <2>2. active[i] \in Slot
    BY <1>0
  <2>3. \A s \in DOMAIN active' :
          /\ s + 0 \in DOMAIN active
          /\ active'[s].id = active[s + 0].id
          /\ active'[s].state = "Decode" => active[s + 0].state = "Decode"
    <3>1. DOMAIN active' = DOMAIN active /\ i \in DOMAIN active
      BY <1>0, <2>1
    <3>2. \A s \in DOMAIN active : s # i => active'[s] = active[s]
      BY <1>0, <2>1
    <3>3. active'[i] = [active[i] EXCEPT !.state = "Canceled"]
      BY <1>0, <2>1
    <3>4. active'[i].id = active[i].id /\ active'[i].state = "Canceled"
      BY <2>2, <3>3 DEF Slot
    <3>5. \A s \in DOMAIN active : s + 0 = s
      BY <1>0
    <3> HIDE DEF new
    <3> QED BY <3>1, <3>2, <3>4, <3>5
  <2>4. /\ new \in Seq(Event) /\ events' = events \o new /\ pending' = pending
        /\ \A k \in DOMAIN new : new[k].state \notin {"Emit", "Prefill"}
    <3>1. Mark(id, "Canceled") \in Event /\ Mark(id, "Canceled").state = "Canceled"
      BY EventTypes, StateNames DEF Mark
    <3> QED BY <1>0, <1>3, <3>1, AppendIsConcat DEF CancelActive
  <2> HIDE DEF new
  <2> QED BY <2>3, <2>4, Shortened
<1>4. CASE StartRun
  BY <1>4, WithAdmission
<1>5. CASE ReapCanceled
  <2> DEFINE new == <<Mark(Head(active).id, "Cleanup")>>
  <2>1. active # <<>> /\ active' = Tail(active) /\ pending' = pending
    BY <1>5 DEF ReapCanceled
  <2>2. \A s \in DOMAIN active' :
          /\ s + 1 \in DOMAIN active
          /\ active'[s].id = active[s + 1].id
          /\ active'[s].state = "Decode" => active[s + 1].state = "Decode"
    BY <1>0, <2>1, TailProperties
  <2>3. /\ new \in Seq(Event) /\ events' = events \o new
        /\ \A k \in DOMAIN new : new[k].state \notin {"Emit", "Prefill"}
    <3>0. Head(active) \in Slot
      BY <1>0, <2>1
    <3>1. Head(active).id \in Ids
      BY <3>0 DEF Slot
    <3>2. /\ Mark(Head(active).id, "Cleanup") \in Event
          /\ Mark(Head(active).id, "Cleanup").state = "Cleanup"
      BY <3>1, EventTypes, StateNames DEF Mark
    <3> QED BY <1>0, <1>5, <3>2, AppendIsConcat DEF ReapCanceled
  <2> HIDE DEF new
  <2> QED BY <2>1, <2>2, <2>3, Shortened
<1>6. CASE DecodeFails
  <2>1. /\ active # <<>> /\ active' = Tail(active) /\ pending' = pending
        /\ events' = events
    BY <1>6 DEF DecodeFails, Turn, history
  <2>2. \A s \in DOMAIN active' :
          /\ s + 1 \in DOMAIN active
          /\ active'[s].id = active[s + 1].id
          /\ active'[s].state = "Decode" => active[s + 1].state = "Decode"
    BY <1>0, <2>1, TailProperties
  <2>3. <<>> \in Seq(Event) /\ events' = events \o <<>> /\ DOMAIN <<>> = {}
    BY <1>0, <2>1, ConcatEmptySeq
  <2> QED BY <2>1, <2>2, <2>3, Shortened
<1>7. ASSUME Turn, NEW new \in Seq(Event), events' = events \o new, new # <<>>,
             new[1] = Emission(Head(active).id, NextToken),
             \A k \in DOMAIN new : k # 1 => new[k].state \notin {"Emit", "Prefill"},
             pending' = pending,
             \A t \in DOMAIN active' :
               \/ /\ t + 1 \in DOMAIN active /\ active'[t] = active[t + 1]
               \/ active'[t].id = Head(active).id /\ t = Len(active')
      PROVE  TurnInv'
  <2>1. active # <<>> /\ 1 \in DOMAIN active /\ Head(active) = active[1]
    BY <1>0, <1>7 DEF Turn
  <2>2. Head(active).state = "Decode"
    BY <1>7, <2>1 DEF TypeOK, Turn, CanGo, Transitions, Live
  <2>3. new[1].id = Head(active).id /\ new[1].state = "Emit"
    BY <1>7 DEF Emission
  <2> QED BY <1>0, <1>7, <2>1, <2>2, <2>3, WithTurn
<1>8. CASE EmitAndRequeue
  <2> DEFINE new == <<Emission(Head(active).id, NextToken),
                      Mark(Head(active).id, "Decode")>>
             later == [Head(active) EXCEPT !.prompt = Append(@, NextToken),
                                           !.generated = Append(@, NextToken)]
  <2>1. /\ Turn /\ active # <<>> /\ active' = Append(Tail(active), later)
        /\ pending' = pending /\ events' = events \o new
    BY <1>8 DEF EmitAndRequeue, Requeued, Turn
  <2>0. Head(active) \in Slot
    BY <1>0, <2>1
  <2>2. /\ Head(active) \in Slot /\ later.id = Head(active).id
    BY <2>0 DEF Slot
  <2>3. /\ new \in Seq(Event) /\ new # <<>>
        /\ new[1] = Emission(Head(active).id, NextToken)
        /\ \A k \in DOMAIN new : k # 1 => new[k].state \notin {"Emit", "Prefill"}
    <3>1. /\ Emission(Head(active).id, NextToken) \in Event
          /\ Mark(Head(active).id, "Decode") \in Event
      BY <2>1, <2>2, NextTokenType, EventTypes, StateNames DEF Slot
    <3>2. Mark(Head(active).id, "Decode").state = "Decode"
      BY DEF Mark
    <3> QED BY <3>1, <3>2
  <2> HIDE DEF new, later
  <2>4. ASSUME NEW t \in DOMAIN active'
        PROVE  \/ /\ t + 1 \in DOMAIN active /\ active'[t] = active[t + 1]
               \/ active'[t].id = Head(active).id /\ t = Len(active')
    <3>1. /\ Tail(active) \in Seq(Slot) /\ Len(Tail(active)) = Len(active) - 1
          /\ \A i \in 1..(Len(active) - 1) : Tail(active)[i] = active[i + 1]
      BY <1>0, <2>1, TailProperties
    <3>2. /\ DOMAIN active' = 1..Len(active) /\ Len(active') = Len(active)
          /\ \A i \in 1..(Len(active) - 1) : active'[i] = Tail(active)[i]
          /\ active'[Len(active)] = later
      BY <1>0, <2>1, <3>1
    <3>3. CASE t \in 1..(Len(active) - 1)
      BY <1>0, <3>1, <3>2, <3>3
    <3>4. CASE t = Len(active)
      BY <2>2, <3>2, <3>4
    <3> QED BY <1>0, <3>2, <3>3, <3>4
  <2> QED BY <1>7, <2>1, <2>3, <2>4
<1>9. CASE EmitAndComplete
  <2> DEFINE new == <<Emission(Head(active).id, NextToken),
                      Mark(Head(active).id, "Complete"),
                      Mark(Head(active).id, "Cleanup")>>
  <2>1. /\ Turn /\ active # <<>> /\ active' = Tail(active)
        /\ pending' = pending /\ events' = events \o new
    BY <1>9 DEF EmitAndComplete, Turn
  <2>2. Head(active) \in Slot
    BY <1>0, <2>1
  <2>3. /\ new \in Seq(Event) /\ new # <<>>
        /\ new[1] = Emission(Head(active).id, NextToken)
        /\ \A k \in DOMAIN new : k # 1 => new[k].state \notin {"Emit", "Prefill"}
    <3>1. /\ Emission(Head(active).id, NextToken) \in Event
          /\ Mark(Head(active).id, "Complete") \in Event
          /\ Mark(Head(active).id, "Cleanup") \in Event
      BY <2>1, <2>2, NextTokenType, EventTypes, StateNames DEF Slot
    <3>2. /\ Mark(Head(active).id, "Complete").state = "Complete"
          /\ Mark(Head(active).id, "Cleanup").state = "Cleanup"
      BY DEF Mark
    <3> QED BY <3>1, <3>2
  <2> HIDE DEF new
  <2>4. \A t \in DOMAIN active' :
          t + 1 \in DOMAIN active /\ active'[t] = active[t + 1]
    BY <1>0, <2>1, TailProperties
  <2> QED BY <1>7, <2>1, <2>3, <2>4
<1>10. CASE UNCHANGED <<pending, active, events>>
  BY <1>10 DEF TurnInv, QueueInTurn, AdmittedOnce, RoundRobin, IsEmission,
               WaitingSince
<1>11. \/ \E r \in Request : Submit(r)
       \/ \E id \in Ids : CancelPending(id) \/ CancelActive(id)
       \/ StartRun \/ ReapCanceled \/ DecodeFails \/ EmitAndRequeue
       \/ EmitAndComplete
       \/ UNCHANGED <<pending, active, events>>
  BY DEF Next, Client, Iteration, vars, queues, history, RejectSubmit,
         RejectCancel, FinishRun
<1> QED BY <1>1, <1>2, <1>3, <1>4, <1>5, <1>6, <1>8, <1>9, <1>10, <1>11

\* Nobody emits twice while another waits, whatever is submitted, canceled or
\* lost meanwhile and across failed runs: for any ids, limits and model.
THEOREM RoundRobinAlways ==
  ASSUME DecodesToTokens
  PROVE  Spec => []RoundRobin
<1>1. Init => TurnInv
  <2> SUFFICES ASSUME Init PROVE TurnInv
    OBVIOUS
  <2>1. DOMAIN pending = {} /\ DOMAIN active = {} /\ DOMAIN events = {}
    BY DEF Init
  <2> QED BY <2>1 DEF TurnInv, QueueInTurn, AdmittedOnce, RoundRobin
<1>2. TypeOK /\ TypeOK' /\ UniqueIds /\ TurnInv /\ [Next]_vars => TurnInv'
  BY TurnStep
<1>3. TurnInv => RoundRobin
  BY DEF TurnInv
<1>4. Spec => []TypeOK
  BY TypeCorrect
<1>5. Spec => []UniqueIds
  BY UniqueIdsAlways
<1> QED BY <1>1, <1>2, <1>3, <1>4, <1>5, PTL DEF Spec

-----------------------------------------------------------------------------
(***************************************************************************)
(* What the history says of each id: the state its last event left it in,  *)
(* and what it has emitted since it was last submitted.                    *)
(***************************************************************************)

\* A set of natural numbers has a least element.
LEMMA LeastNat ==
  ASSUME NEW T, T \subseteq Nat, T # {}
  PROVE  \E m \in T : \A k \in T : m <= k
<1>1. PICK m \in T : \A k \in T : <<k, m>> \notin OpToRel(<, Nat)
  BY NatLessThanWellFounded, WFMin
<1>2. \A k \in T : ~(k < m)
  BY <1>1 DEF OpToRel
<1> QED BY <1>2

\* So positions of a history have a last one, and a first.
LEMMA Extremes ==
  ASSUME NEW n \in Nat, NEW S, S \subseteq 1..n, S # {}
  PROVE  /\ Max(S) \in S /\ \A x \in S : Max(S) >= x
         /\ Min(S) \in S /\ \A x \in S : Min(S) <= x
<1> DEFINE T == {n - x : x \in S}
<1>1. T \subseteq Nat /\ T # {}
  <2>1. ASSUME NEW x \in S
        PROVE  n - x \in Nat
    OBVIOUS
  <2>2. PICK x \in S : TRUE
    OBVIOUS
  <2>3. n - x \in T
    BY <2>2
  <2> QED BY <2>1, <2>3
<1>2. PICK m \in T : \A k \in T : m <= k
  BY <1>1, LeastNat
<1>3. PICK x \in S : m = n - x
  OBVIOUS
<1>4. \A y \in S : x >= y
  <2> SUFFICES ASSUME NEW y \in S PROVE x >= y
    OBVIOUS
  <2>1. n - y \in T
    OBVIOUS
  <2>2. m <= n - y
    BY <1>2, <2>1
  <2> HIDE DEF T
  <2>3. x \in Nat /\ y \in Nat
    OBVIOUS
  <2> QED BY <1>3, <2>2, <2>3
<1>5. \E z \in S : \A y \in S : z >= y
  BY <1>4
<1>6. S \subseteq Nat
  OBVIOUS
<1>7. \E z \in S : \A y \in S : z <= y
  BY <1>6, LeastNat
<1> HIDE DEF T
<1>8. Max(S) \in S /\ \A y \in S : Max(S) >= y
  BY <1>5 DEF Max
<1>9. Min(S) \in S /\ \A y \in S : Min(S) <= y
  BY <1>7 DEF Min
<1> QED BY <1>8, <1>9

\* The last event of an id gives its state.
LEMMA LastState ==
  ASSUME NEW log, NEW id, NEW n \in Nat, NEW m \in 1..n, log[m].id = id,
         \A k \in (m + 1)..n : log[k].id # id
  PROVE  StateAfter(log, id, n) = log[m].state
<1> DEFINE mine == {k \in 1..n : log[k].id = id}
<1>1. m \in mine /\ mine \subseteq 1..n
  OBVIOUS
<1>2. \A k \in mine : m >= k
  OBVIOUS
<1>3. Max(mine) \in mine /\ Max(mine) >= m
  BY <1>1, Extremes
<1>4. Max(mine) = m
  BY <1>1, <1>2, <1>3
<1>5. StateAfter(log, id, n) = IF mine = {} THEN "Cleanup" ELSE log[Max(mine)].state
  BY DEF StateAfter
<1> HIDE DEF mine
<1> QED BY <1>1, <1>4, <1>5

SameTo(longer, log, m) == \A k \in 1..m : longer[k] = log[k]
SilentFrom(log, id, m, n) == \A k \in (m + 1)..n : log[k].id # id

\* Events of other ids leave its state as it was.
LEMMA StateKept ==
  ASSUME NEW log, NEW longer, NEW id, NEW m \in Nat, NEW n \in Nat, m <= n,
         SameTo(longer, log, m), SilentFrom(longer, id, m, n)
  PROVE  StateAfter(longer, id, n) = StateAfter(log, id, m)
<1> DEFINE mine == {k \in 1..m : log[k].id = id}
           later == {k \in 1..n : longer[k].id = id}
<1>1. later = mine
  BY DEF SameTo, SilentFrom
<1>2. /\ StateAfter(longer, id, n) = IF later = {} THEN "Cleanup" ELSE longer[Max(later)].state
      /\ StateAfter(log, id, m) = IF mine = {} THEN "Cleanup" ELSE log[Max(mine)].state
  BY DEF StateAfter
<1>3. mine \subseteq 1..m
  OBVIOUS
<1> HIDE DEF mine, later
<1>4. mine # {} => Max(mine) \in 1..m
  BY <1>3, Extremes
<1> QED BY <1>1, <1>2, <1>4 DEF SameTo

\* A list of values at positions has no length but that of the list.
LEMMA ListsNone ==
  ASSUME NEW value
  PROVE  Lists(<<>>, {}, value)
BY FS_EmptySet DEF Lists

\* Only the values at the positions matter.
LEMMA ListsSame ==
  ASSUME NEW seq, NEW positions, NEW value, NEW other,
         Lists(seq, positions, value), \A k \in positions : other[k] = value[k]
  PROVE  Lists(seq, positions, other)
BY DEF Lists

\* A value at a position behind all others is appended to the list.
LEMMA ListsMore ==
  ASSUME NEW S, NEW seq \in Seq(S), NEW x \in S,
         NEW n \in Nat, NEW positions \in SUBSET (1..n), NEW m \in Nat, m > n,
         NEW value, NEW other, Lists(seq, positions, value),
         \A k \in positions : other[k] = value[k], other[m] = x
  PROVE  Lists(Append(seq, x), positions \cup {m}, other)
<1> DEFINE more == positions \cup {m}
<1>0. IsFiniteSet(positions) /\ m \notin positions /\ Cardinality(positions) \in Nat
  <2>1. IsFiniteSet(1..n)
    BY FS_Interval
  <2>2. IsFiniteSet(positions)
    BY <2>1, FS_Subset
  <2>3. m \notin positions
    OBVIOUS
  <2> QED BY <2>2, <2>3, FS_CardinalityType
<1>1. /\ IsFiniteSet(more)
      /\ Cardinality(more) = Cardinality(positions) + 1
  BY <1>0, FS_AddElement
<1>2. /\ Len(seq) = Cardinality(positions)
      /\ \A k \in positions : seq[Cardinality({j \in positions : j <= k})] = value[k]
  BY DEF Lists
<1>3. Len(Append(seq, x)) = Cardinality(more)
  BY <1>1, <1>2
<1>4. ASSUME NEW k \in more
      PROVE  Append(seq, x)[Cardinality({j \in more : j <= k})] = other[k]
  <2>1. CASE k \in positions
    <3> DEFINE before == {j \in positions : j <= k}
    <3>1. {j \in more : j <= k} = before
      BY <2>1
    <3>2. k \in before /\ before \subseteq positions
      BY <2>1
    <3>3. Cardinality(before) \in 1..Len(seq)
      <4>1. IsFiniteSet(before) /\ Cardinality(before) <= Cardinality(positions)
        BY <1>0, <3>2, FS_Subset
      <4>2. Cardinality(before) \in Nat /\ Cardinality(before) # 0
        BY <3>2, <4>1, FS_CardinalityType, FS_EmptySet
      <4> HIDE DEF before
      <4> QED BY <1>0, <1>2, <4>1, <4>2
    <3>4. seq[Cardinality(before)] = value[k]
      BY <1>2, <2>1
    <3>5. other[k] = value[k]
      BY <2>1
    <3> HIDE DEF before, more
    <3>6. Append(seq, x)[Cardinality(before)] = seq[Cardinality(before)]
      BY <3>3
    <3> QED BY <3>1, <3>4, <3>5, <3>6
  <2>2. CASE k = m
    <3>1. \A j \in more : j <= m
      OBVIOUS
    <3> HIDE DEF more
    <3>2. {j \in more : j <= k} = more
      BY <2>2, <3>1
    <3>3. Append(seq, x)[Len(seq) + 1] = x
      OBVIOUS
    <3>4. Cardinality(more) = Len(seq) + 1
      BY <1>1, <1>2
    <3> QED BY <2>2, <3>2, <3>3, <3>4
  <2> QED BY <2>1, <2>2
<1> QED BY <1>3, <1>4 DEF Lists

\* An appended history, position by position.
LEMMA LoggedAt ==
  ASSUME NEW new \in Seq(Event), events \in Seq(Event), events' = events \o new
  PROVE  /\ Len(events) \in Nat /\ Len(new) \in Nat
         /\ DOMAIN events = 1..Len(events) /\ DOMAIN new = 1..Len(new)
         /\ Len(events') = Len(events) + Len(new)
         /\ DOMAIN events' = 1..(Len(events) + Len(new))
         /\ \A k \in 1..Len(events) : events'[k] = events[k]
         /\ \A k \in 1..Len(new) : events'[Len(events) + k] = new[k]
         /\ \A k \in DOMAIN events' :
              \/ k \in 1..Len(events)
              \/ /\ k - Len(events) \in 1..Len(new)
                 /\ events'[k] = new[k - Len(events)]
                 /\ k > Len(events)
         /\ new # <<>> => Len(new) \in Nat \ {0}
<1>1. new # <<>> => Len(new) \in Nat \ {0}
  OBVIOUS
<1>2. /\ Len(events) \in Nat /\ Len(new) \in Nat
      /\ DOMAIN events = 1..Len(events) /\ DOMAIN new = 1..Len(new)
      /\ Len(events') = Len(events) + Len(new)
      /\ DOMAIN events' = 1..(Len(events) + Len(new))
      /\ \A k \in DOMAIN events : k \in DOMAIN events' /\ events'[k] = events[k]
      /\ \A k \in DOMAIN new :
           /\ Len(events) + k \in DOMAIN events'
           /\ events'[Len(events) + k] = new[k]
      /\ \A k \in DOMAIN events' :
           \/ k \in DOMAIN events
           \/ /\ k - Len(events) \in DOMAIN new
              /\ events'[k] = new[k - Len(events)]
              /\ k > Len(events)
  BY Logged
<1> QED BY <1>1, <1>2

\* Entries of one id leave the states of the others.
LEMMA OthersKept ==
  ASSUME NEW h, NEW new \in Seq(Event), events \in Seq(Event),
         events' = events \o new, \A k \in DOMAIN new : new[k].id = h,
         NEW other, other # h
  PROVE  StateAfter(events', other, Len(events')) = StateAfter(events, other, Len(events))
<1> DEFINE n == Len(events)
           last == Len(events')
           longer == events'
<1>1. /\ n \in Nat /\ last \in Nat /\ n <= last
      /\ \A k \in 1..n : longer[k] = events[k]
      /\ \A k \in (n + 1)..last : longer[k].id = h
  <2>1. /\ n \in Nat /\ Len(new) \in Nat /\ DOMAIN new = 1..Len(new)
        /\ last = n + Len(new) /\ DOMAIN longer = 1..(n + Len(new))
        /\ \A k \in 1..n : longer[k] = events[k]
        /\ \A k \in DOMAIN longer :
             k \in 1..n \/ (k - n \in 1..Len(new) /\ longer[k] = new[k - n] /\ k > n)
    BY LoggedAt
  <2> HIDE DEF n, last, longer
  <2>2. ASSUME NEW k \in (n + 1)..last
        PROVE  longer[k].id = h
    <3>1. k \in DOMAIN longer /\ k \notin 1..n
      BY <2>1
    <3>2. k - n \in DOMAIN new /\ longer[k] = new[k - n]
      BY <2>1, <3>1
    <3> QED BY <3>2
  <2>3. last \in Nat /\ n <= last
    <3>1. n \in Nat /\ Len(new) \in Nat /\ last = n + Len(new)
      BY <2>1
    <3> HIDE DEF last, n
    <3> QED BY <3>1
  <2>4. /\ n \in Nat /\ \A k \in 1..n : longer[k] = events[k]
    BY <2>1
  <2> QED BY <2>2, <2>3, <2>4
<1> HIDE DEF n, last, longer
<1>2. SameTo(longer, events, n) /\ SilentFrom(longer, other, n, last)
  BY <1>1 DEF SameTo, SilentFrom
<1>3. StateAfter(longer, other, last) = StateAfter(events, other, n)
  BY <1>1, <1>2, StateKept
<1> QED BY <1>3 DEF n, last, longer

\* Events of one id, which go on from its state, keep its history a walk through
\* the state machine, and the others' states.
LEMMA BlockLogged ==
  ASSUME Lifecycle, NEW h, NEW new \in Seq(Event), events \in Seq(Event),
         events' = events \o new, new # <<>>,
         \A k \in DOMAIN new : new[k].id = h,
         Follows(StateAfter(events, h, Len(events)), new[1].state),
         \A k \in 1..(Len(new) - 1) : Follows(new[k].state, new[k + 1].state)
  PROVE  /\ Lifecycle'
         /\ StateAfter(events', h, Len(events')) = new[Len(new)].state
         /\ \A other : other # h =>
              StateAfter(events', other, Len(events'))
                = StateAfter(events, other, Len(events))
<1> DEFINE n == Len(events)
           m == Len(new)
           longer == events'
<1>1. /\ n \in Nat /\ m \in Nat \ {0}
      /\ DOMAIN events = 1..n /\ DOMAIN new = 1..m
      /\ Len(longer) = n + m
      /\ DOMAIN longer = 1..(n + m)
      /\ \A k \in 1..n : longer[k] = events[k]
      /\ \A k \in 1..m : longer[n + k] = new[k]
      /\ \A k \in DOMAIN longer :
           k \in 1..n \/ (k - n \in 1..m /\ longer[k] = new[k - n] /\ k > n)
  BY LoggedAt
<1> HIDE DEF n, m, longer
<1>2. ASSUME NEW k \in (n + 1)..(n + m)
      PROVE  longer[k].id = h /\ longer[k] = new[k - n] /\ k - n \in 1..m
  <2>1. k \in DOMAIN longer /\ k \notin 1..n
    BY <1>1
  <2>2. k - n \in DOMAIN new /\ longer[k] = new[k - n]
    BY <1>1, <2>1
  <2> QED BY <1>1, <2>2
<1>3. ASSUME NEW id, NEW k \in 0..n
      PROVE  StateAfter(longer, id, k) = StateAfter(events, id, k)
  <2>1. k \in Nat /\ k <= k /\ SameTo(longer, events, k)
    BY <1>1 DEF SameTo
  <2>2. SilentFrom(longer, id, k, k)
    BY <1>1 DEF SilentFrom
  <2> QED BY <2>1, <2>2, StateKept
<1>4. ASSUME NEW k \in (n + 1)..(n + m)
      PROVE  StateAfter(longer, h, k) = longer[k].state
  <2>1. k \in Nat /\ k \in 1..k /\ \A j \in (k + 1)..k : longer[j].id # h
    BY <1>1
  <2> QED BY <1>2, <2>1, LastState
<1>5. ASSUME NEW k \in DOMAIN longer
      PROVE  Follows(StateAfter(longer, longer[k].id, k - 1), longer[k].state)
  <2>1. CASE k \in 1..n
    <3>1. k - 1 \in 0..n /\ longer[k] = events[k] /\ k \in DOMAIN events
      BY <1>1, <2>1
    <3> QED BY <1>3, <3>1 DEF Lifecycle
  <2>2. CASE k = n + 1
    <3>1. longer[k].id = h /\ longer[k] = new[1] /\ k - 1 = n /\ n \in 0..n
      BY <1>1, <1>2, <2>2
    <3>2. StateAfter(longer, h, n) = StateAfter(events, h, Len(events))
      BY <1>3, <3>1 DEF n
    <3> QED BY <3>1, <3>2
  <2>3. CASE k \in (n + 2)..(n + m)
    <3>0. k \in Int
      BY <2>3
    <3>1. /\ k - 1 \in (n + 1)..(n + m) /\ k \in (n + 1)..(n + m)
          /\ k - n - 1 \in 1..(m - 1) /\ (k - 1) - n = k - n - 1
          /\ (k - n - 1) + 1 = k - n
      <4>1. n \in Nat /\ m \in Nat
        BY <1>1
      <4>2. n + 2 <= k /\ k <= n + m
        BY <2>3, <3>0, <4>1
      <4> QED BY <3>0, <4>1, <4>2, SMTT(20)
    <3>2. /\ longer[k].id = h /\ longer[k] = new[k - n]
          /\ StateAfter(longer, h, k - 1) = new[k - n - 1].state
      BY <1>2, <1>4, <3>1
    <3>3. Follows(new[k - n - 1].state, new[k - n].state)
      BY <3>1 DEF m
    <3> QED BY <3>2, <3>3
  <2> QED BY <1>1, <2>1, <2>2, <2>3
<1>6. Lifecycle'
  BY <1>5 DEF Lifecycle, longer
<1>7. StateAfter(longer, h, Len(longer)) = new[m].state
  <2>1. n + m \in (n + 1)..(n + m) /\ longer[n + m] = new[m]
    BY <1>1
  <2> QED BY <1>1, <1>4, <2>1
<1> QED BY <1>6, <1>7, OthersKept DEF longer, m, n

\* Entries that end no life and emit nothing leave the lists as they were.
LEMMA QuietLogged ==
  ASSUME NEW new \in Seq(Event), events \in Seq(Event), events' = events \o new
  PROVE  /\ (\A k \in DOMAIN new : new[k].state # "Cleanup")
            => CleanupsIn(events') = CleanupsIn(events)
         /\ \A id : (\A k \in DOMAIN new :
                       new[k].id = id => new[k].state \notin {"Emit", "Queued"})
                    => EmissionsOf(events', id) = EmissionsOf(events, id)
<1> DEFINE n == Len(events)
           m == Len(new)
           longer == events'
<1>1. /\ n \in Nat /\ m \in Nat
      /\ DOMAIN events = 1..n /\ DOMAIN new = 1..m
      /\ Len(longer) = n + m
      /\ DOMAIN longer = 1..(n + m)
      /\ \A k \in 1..n : longer[k] = events[k]
      /\ \A k \in DOMAIN longer :
           k \in 1..n \/ (k - n \in 1..m /\ longer[k] = new[k - n] /\ k > n)
  BY LoggedAt
<1> HIDE DEF n, m, longer
<1>2. ASSUME \A k \in DOMAIN new : new[k].state # "Cleanup"
      PROVE  CleanupsIn(longer) = CleanupsIn(events)
  <2>1. \A k \in DOMAIN longer : longer[k].state = "Cleanup" => k \in 1..n
    BY <1>1, <1>2
  <2>2. 1..n \subseteq DOMAIN longer
    BY <1>1
  <2> QED BY <1>1, <2>1, <2>2 DEF CleanupsIn
<1>3. ASSUME NEW id, \A k \in DOMAIN new :
               new[k].id = id => new[k].state \notin {"Emit", "Queued"}
      PROVE  EmissionsOf(longer, id) = EmissionsOf(events, id)
  <2>1. \A k \in DOMAIN longer :
          longer[k].id = id /\ longer[k].state \in {"Emit", "Queued"} => k \in 1..n
    BY <1>1, <1>3
  <2>2. \A k \in DOMAIN longer : longer[k] = Mark(id, "Queued") => k \in 1..n
    BY <2>1 DEF Mark
  <2>3. ASSUME NEW k \in 1..n
        PROVE  (\A j \in k..Len(longer) : longer[j] # Mark(id, "Queued"))
               <=> (\A j \in k..Len(events) : events[j] # Mark(id, "Queued"))
    <3>1. /\ k..Len(longer) \subseteq DOMAIN longer
          /\ k..Len(events) \subseteq k..Len(longer)
          /\ \A j \in k..Len(longer) : j \in 1..n => j \in k..Len(events)
          /\ k..Len(events) \subseteq 1..n
      BY <1>1 DEF n
    <3> QED BY <1>1, <2>2, <3>1
  <2>4. 1..n \subseteq DOMAIN longer
    BY <1>1
  <2>5. \A k : k \in EmissionsOf(longer, id) <=> k \in EmissionsOf(events, id)
    BY <1>1, <2>1, <2>3, <2>4 DEF EmissionsOf
  <2> QED BY <2>5 DEF EmissionsOf
<1> QED BY <1>2, <1>3 DEF longer

\* An emission joins those of its id's life.
LEMMA EmissionLogged ==
  ASSUME NEW id, NEW new \in Seq(Event), events \in Seq(Event),
         events' = events \o new, new # <<>>, new[1].id = id, new[1].state = "Emit",
         \A k \in DOMAIN new : k # 1 => new[k].state \notin {"Emit", "Queued"}
  PROVE  EmissionsOf(events', id) = EmissionsOf(events, id) \cup {Len(events) + 1}
<1> DEFINE n == Len(events)
           m == Len(new)
           longer == events'
<1>1. /\ n \in Nat /\ m \in Nat \ {0}
      /\ DOMAIN events = 1..n /\ DOMAIN new = 1..m
      /\ Len(longer) = n + m
      /\ DOMAIN longer = 1..(n + m)
      /\ \A k \in 1..n : longer[k] = events[k]
      /\ longer[n + 1] = new[1]
      /\ \A k \in DOMAIN longer :
           k \in 1..n \/ (k - n \in 1..m /\ longer[k] = new[k - n] /\ k > n)
  <2>1. /\ n \in Nat /\ m \in Nat \ {0}
        /\ DOMAIN events = 1..n /\ DOMAIN new = 1..m
        /\ Len(longer) = n + m
        /\ DOMAIN longer = 1..(n + m)
        /\ \A k \in 1..n : longer[k] = events[k]
        /\ \A k \in 1..m : longer[n + k] = new[k]
        /\ \A k \in DOMAIN longer :
             k \in 1..n \/ (k - n \in 1..m /\ longer[k] = new[k - n] /\ k > n)
    BY LoggedAt
  <2> HIDE DEF n, m, longer
  <2> QED BY <2>1
<1> HIDE DEF n, m, longer
<1>2. ASSUME NEW k \in DOMAIN longer, k > n + 1
      PROVE  longer[k].state \notin {"Emit", "Queued"}
  <2>1. k - n \in DOMAIN new /\ k - n # 1 /\ longer[k] = new[k - n]
    BY <1>1, <1>2
  <2> QED BY <2>1
<1>3. \A k \in DOMAIN longer :
        longer[k].id = id /\ longer[k].state \in {"Emit", "Queued"}
        => k \in 1..n \/ k = n + 1
  <2> SUFFICES ASSUME NEW k \in DOMAIN longer, k \notin 1..n, k # n + 1
               PROVE  longer[k].state \notin {"Emit", "Queued"}
    OBVIOUS
  <2>1. k > n + 1
    BY <1>1
  <2> QED BY <1>2, <2>1
<1>4. \A k \in DOMAIN longer : longer[k] = Mark(id, "Queued") => k \in 1..n
  <2> SUFFICES ASSUME NEW k \in DOMAIN longer, longer[k] = Mark(id, "Queued")
               PROVE  k \in 1..n
    OBVIOUS
  <2>1. longer[k].id = id /\ longer[k].state = "Queued"
    BY DEF Mark
  <2> QED BY <1>1, <1>3, <2>1
<1>5. ASSUME NEW k \in 1..n
      PROVE  (\A j \in k..Len(longer) : longer[j] # Mark(id, "Queued"))
             <=> (\A j \in k..Len(events) : events[j] # Mark(id, "Queued"))
  <2>1. /\ k..Len(longer) \subseteq DOMAIN longer
        /\ k..Len(events) \subseteq k..Len(longer)
        /\ \A j \in k..Len(longer) : j \in 1..n => j \in k..Len(events)
        /\ k..Len(events) \subseteq 1..n
    BY <1>1 DEF n
  <2> QED BY <1>1, <1>4, <2>1
<1>6. n + 1 \in EmissionsOf(longer, id)
  <2>1. n + 1 \in DOMAIN longer /\ longer[n + 1].id = id /\ longer[n + 1].state = "Emit"
    BY <1>1
  <2>2. \A j \in (n + 1)..Len(longer) : j \in DOMAIN longer /\ j \notin 1..n
    BY <1>1
  <2> QED BY <1>4, <2>1, <2>2 DEF EmissionsOf
<1>7. \A k \in 1..n : k \in EmissionsOf(longer, id) <=> k \in EmissionsOf(events, id)
  <2>1. 1..n \subseteq DOMAIN longer
    BY <1>1
  <2> QED BY <1>1, <1>5, <2>1 DEF EmissionsOf
<1>8. \A k \in EmissionsOf(longer, id) : k \in 1..n \/ k = n + 1
  BY <1>3 DEF EmissionsOf
<1>9. EmissionsOf(events, id) \subseteq 1..n
  BY <1>1 DEF EmissionsOf
<1> QED BY <1>6, <1>7, <1>8, <1>9 DEF n, longer

\* A life's end joins those of all ids.
LEMMA CleanupLogged ==
  ASSUME NEW new \in Seq(Event), events \in Seq(Event), events' = events \o new,
         new # <<>>, new[Len(new)].state = "Cleanup",
         \A k \in DOMAIN new : k # Len(new) => new[k].state # "Cleanup"
  PROVE  CleanupsIn(events') = CleanupsIn(events) \cup {Len(events')}
<1> DEFINE n == Len(events)
           m == Len(new)
           longer == events'
<1>1. /\ n \in Nat /\ m \in Nat \ {0}
      /\ DOMAIN events = 1..n /\ DOMAIN new = 1..m
      /\ Len(longer) = n + m
      /\ DOMAIN longer = 1..(n + m)
      /\ \A k \in 1..n : longer[k] = events[k]
      /\ longer[n + m] = new[m]
      /\ \A k \in DOMAIN longer :
           k \in 1..n \/ (k - n \in 1..m /\ longer[k] = new[k - n] /\ k > n)
  <2>1. /\ n \in Nat /\ m \in Nat \ {0}
        /\ DOMAIN events = 1..n /\ DOMAIN new = 1..m
        /\ Len(longer) = n + m
        /\ DOMAIN longer = 1..(n + m)
        /\ \A k \in 1..n : longer[k] = events[k]
        /\ \A k \in 1..m : longer[n + k] = new[k]
        /\ \A k \in DOMAIN longer :
             k \in 1..n \/ (k - n \in 1..m /\ longer[k] = new[k - n] /\ k > n)
    BY LoggedAt
  <2> HIDE DEF n, m, longer
  <2> QED BY <2>1
<1>2. \A k \in 1..m : k # m => new[k].state # "Cleanup"
  BY <1>1
<1>3. new[m].state = "Cleanup"
  OBVIOUS
<1> HIDE DEF n, m, longer
<1>4. ASSUME NEW k \in DOMAIN longer, k \notin 1..n, k # n + m
      PROVE  longer[k].state # "Cleanup"
  <2>1. k - n \in 1..m /\ longer[k] = new[k - n]
    BY <1>1, <1>4
  <2>2. k - n # m
    <3>1. n \in Int /\ m \in Int /\ k \in Int
      BY <1>1
    <3> QED BY <1>4, <3>1, SMTT(20)
  <2> QED BY <1>2, <2>1, <2>2
<1>5. n + m \in DOMAIN longer /\ longer[n + m].state = "Cleanup"
  BY <1>1, <1>3
<1>6. 1..n \subseteq DOMAIN longer
  BY <1>1
<1>7. \A k : k \in CleanupsIn(longer) <=> k \in CleanupsIn(events) \/ k = n + m
  BY <1>1, <1>4, <1>5, <1>6 DEF CleanupsIn
<1> QED BY <1>1, <1>7 DEF longer, n

\* What the history should show of an id, whose queues are given.
Explains(log, waiting, turning, done, id) ==
  LET now == StateAfter(log, id, Len(log))
  IN  /\ now \in {"Queued", "Decode", "Canceled", "Cleanup"}
      /\ id \in IdsOf(waiting) <=> now = "Queued"
      /\ now = "Canceled" => id \in IdsOf(turning)
      /\ now = "Decode" /\ ~MayFail => id \in IdsOf(turning)
      /\ id \in IdsOf(done) => now = "Cleanup"
      /\ \A i \in DOMAIN turning : turning[i].id = id =>
           /\ turning[i].state = now
           /\ Lists(turning[i].generated, EmissionsOf(log, id),
                    [k \in DOMAIN log |-> log[k].token])

CleanupsListed == Lists(cleanup_log, CleanupsIn(events), [k \in DOMAIN events |-> events[k].id])

\* A pending request has emitted nothing.
Unspoken ==
  \A i \in DOMAIN pending :
    pending[i].generated = <<>> /\ EmissionsOf(events, pending[i].id) = {}

HistoryInv == Lifecycle /\ EventsExplainState /\ Unspoken

\* EventsExplainState, id by id.
LEMMA ExplainedOne ==
  /\ EventsExplainState <=>
       /\ \A id \in Ids : Explains(events, pending, active, completed, id)
       /\ CleanupsListed
  /\ EventsExplainState' <=>
       /\ \A id \in Ids : Explains(events', pending', active', completed', id)
       /\ CleanupsListed'
BY DEF EventsExplainState, Explains, CleanupsListed

\* What a step must keep of an id that it does not touch.
Aside(waiting, waiting2, turning, turning2, done, done2, id) ==
  /\ id \in IdsOf(waiting2) <=> id \in IdsOf(waiting)
  /\ id \in IdsOf(turning) => id \in IdsOf(turning2)
  /\ id \in IdsOf(done2) => id \in IdsOf(done)
  /\ \A i \in DOMAIN turning2 : turning2[i].id = id =>
       \E j \in DOMAIN turning : turning2[i] = turning[j]

Extends(longer, log) == \A k \in DOMAIN log : k \in DOMAIN longer /\ longer[k] = log[k]

\* A longer history that says nothing of an id explains it as before, when its
\* places in the queues are the same.
LEMMA ExplainedAsBefore ==
  ASSUME NEW log, NEW longer, NEW waiting, NEW waiting2, NEW turning, NEW turning2,
         NEW done, NEW done2, NEW id,
         Explains(log, waiting, turning, done, id),
         StateAfter(longer, id, Len(longer)) = StateAfter(log, id, Len(log)),
         EmissionsOf(longer, id) = EmissionsOf(log, id),
         Extends(longer, log),
         Aside(waiting, waiting2, turning, turning2, done, done2, id)
  PROVE  Explains(longer, waiting2, turning2, done2, id)
<1> DEFINE now == StateAfter(log, id, Len(log))
           tokens == [k \in DOMAIN log |-> log[k].token]
           tokens2 == [k \in DOMAIN longer |-> longer[k].token]
<1>1. /\ now \in {"Queued", "Decode", "Canceled", "Cleanup"}
      /\ id \in IdsOf(waiting) <=> now = "Queued"
      /\ now = "Canceled" => id \in IdsOf(turning)
      /\ now = "Decode" /\ ~MayFail => id \in IdsOf(turning)
      /\ id \in IdsOf(done) => now = "Cleanup"
      /\ \A i \in DOMAIN turning : turning[i].id = id =>
           turning[i].state = now /\ Lists(turning[i].generated, EmissionsOf(log, id), tokens)
  BY DEF Explains
<1>2. \A k \in EmissionsOf(log, id) : tokens2[k] = tokens[k]
  BY DEF EmissionsOf, Extends
<1> HIDE DEF now, tokens, tokens2
<1>3. ASSUME NEW i \in DOMAIN turning2, turning2[i].id = id
      PROVE  turning2[i].state = now
             /\ Lists(turning2[i].generated, EmissionsOf(longer, id), tokens2)
  <2>1. PICK j \in DOMAIN turning : turning2[i] = turning[j]
    BY <1>3 DEF Aside
  <2>2. turning[j].state = now /\ Lists(turning[j].generated, EmissionsOf(log, id), tokens)
    BY <1>1, <1>3, <2>1
  <2>3. Lists(turning[j].generated, EmissionsOf(log, id), tokens2)
    BY <1>2, <2>2, ListsSame
  <2> QED BY <2>1, <2>2, <2>3
<1>4. now = StateAfter(longer, id, Len(longer))
  BY DEF now
<1>5. /\ now \in {"Queued", "Decode", "Canceled", "Cleanup"}
      /\ id \in IdsOf(waiting2) <=> now = "Queued"
      /\ now = "Canceled" => id \in IdsOf(turning2)
      /\ now = "Decode" /\ ~MayFail => id \in IdsOf(turning2)
      /\ id \in IdsOf(done2) => now = "Cleanup"
  BY <1>1 DEF Aside
<1> QED BY <1>3, <1>4, <1>5 DEF Explains, tokens2

\* The cleanup log goes on with the history.
LEMMA CleanupsKept ==
  ASSUME NEW new \in Seq(Event), events \in Seq(Event), events' = events \o new,
         CleanupsListed, cleanup_log' = cleanup_log,
         \A k \in DOMAIN new : new[k].state # "Cleanup"
  PROVE  CleanupsListed'
<1> DEFINE ids == [k \in DOMAIN events |-> events[k].id]
           ids2 == [k \in DOMAIN events' |-> events'[k].id]
<1>1. CleanupsIn(events') = CleanupsIn(events)
  BY QuietLogged
<1>2. \A k \in DOMAIN events : k \in DOMAIN events' /\ events'[k] = events[k]
  BY Logged
<1>3. \A k \in CleanupsIn(events) : ids2[k] = ids[k]
  BY <1>2 DEF CleanupsIn
<1>4. Lists(cleanup_log, CleanupsIn(events), ids)
  BY DEF CleanupsListed
<1> HIDE DEF ids, ids2
<1>5. Lists(cleanup_log, CleanupsIn(events), ids2)
  BY <1>3, <1>4, ListsSame
<1>6. Lists(cleanup_log', CleanupsIn(events'), ids2)
  BY <1>1, <1>5
<1> QED BY <1>6 DEF CleanupsListed, ids2

\* It grows by the life that the history ends.
LEMMA CleanupsGrow ==
  ASSUME NEW new \in Seq(Event), events \in Seq(Event), events' = events \o new,
         CleanupsListed, cleanup_log \in Seq(Ids), NEW h \in Ids,
         cleanup_log' = Append(cleanup_log, h), new # <<>>,
         new[Len(new)].id = h, new[Len(new)].state = "Cleanup",
         \A k \in DOMAIN new : k # Len(new) => new[k].state # "Cleanup"
  PROVE  CleanupsListed'
<1> DEFINE ids == [k \in DOMAIN events |-> events[k].id]
           ids2 == [k \in DOMAIN events' |-> events'[k].id]
           old == CleanupsIn(events)
           n == Len(events)
           last == Len(events')
<1>1. CleanupsIn(events') = old \cup {last}
  BY CleanupLogged
<1>2. /\ n \in Nat /\ last \in Nat /\ last > n /\ last \in DOMAIN events'
      /\ events'[last] = new[Len(new)]
      /\ old \in SUBSET (1..n)
      /\ \A k \in 1..n : k \in DOMAIN events' /\ events'[k] = events[k]
  <2>1. /\ n \in Nat /\ Len(new) \in Nat \ {0}
        /\ last = n + Len(new) /\ DOMAIN events' = 1..(n + Len(new))
        /\ DOMAIN events = 1..n /\ \A k \in 1..n : events'[k] = events[k]
        /\ \A k \in 1..Len(new) : events'[n + k] = new[k]
    BY LoggedAt
  <2>2. old \subseteq DOMAIN events
    BY DEF CleanupsIn
  <2> HIDE DEF n, last, old
  <2> QED BY <2>1, <2>2
<1>3. \A k \in old : ids2[k] = ids[k]
  BY <1>2 DEF CleanupsIn
<1>4. Lists(cleanup_log, old, ids)
  BY DEF CleanupsListed
<1>5. ids2[last] = h
  BY <1>2
<1> HIDE DEF ids, ids2, old, n, last
<1>6. Lists(Append(cleanup_log, h), old \cup {last}, ids2)
  BY <1>2, <1>3, <1>4, <1>5, ListsMore
<1>7. Lists(cleanup_log', CleanupsIn(events'), ids2)
  BY <1>1, <1>6
<1> QED BY <1>7 DEF CleanupsListed, ids2

\* A step that logs for one id explains all when it explains that one.
LEMMA BlockExplained ==
  ASSUME Lifecycle, EventsExplainState, NEW h, NEW new \in Seq(Event),
         events \in Seq(Event), events' = events \o new, new # <<>>,
         \A k \in DOMAIN new : new[k].id = h,
         Follows(StateAfter(events, h, Len(events)), new[1].state),
         \A k \in 1..(Len(new) - 1) : Follows(new[k].state, new[k + 1].state),
         \A other \in Ids : other # h =>
           Aside(pending, pending', active, active', completed, completed', other),
         Explains(events', pending', active', completed', h),
         CleanupsListed'
  PROVE  Lifecycle' /\ EventsExplainState'
<1>1. /\ Lifecycle'
      /\ \A other : other # h =>
           StateAfter(events', other, Len(events')) = StateAfter(events, other, Len(events))
  BY BlockLogged
<1>2. ASSUME NEW other \in Ids, other # h
      PROVE  Explains(events', pending', active', completed', other)
  <2>1. EmissionsOf(events', other) = EmissionsOf(events, other)
    <3>1. \A k \in DOMAIN new :
            new[k].id = other => new[k].state \notin {"Emit", "Queued"}
      BY <1>2
    <3> QED BY <3>1, QuietLogged
  <2>2. Extends(events', events)
    BY Logged DEF Extends
  <2>3. Explains(events, pending, active, completed, other)
    BY ExplainedOne
  <2>4. StateAfter(events', other, Len(events')) = StateAfter(events, other, Len(events))
    BY <1>1, <1>2
  <2>5. Aside(pending, pending', active, active', completed, completed', other)
    BY <1>2
  <2> QED BY <2>1, <2>2, <2>3, <2>4, <2>5, ExplainedAsBefore
<1>3. \A id \in Ids : Explains(events', pending', active', completed', id)
  BY <1>2
<1> QED BY <1>1, <1>3, ExplainedOne

\* The transitions of the state machine that the scheduler's steps take.
LEMMA StepsTaken ==
  /\ CanGo("Queued", "Prefill") /\ CanGo("Prefill", "Decode")
  /\ CanGo("Decode", "Emit") /\ CanGo("Emit", "Decode")
  /\ CanGo("Emit", "Complete") /\ CanGo("Complete", "Cleanup")
  /\ CanGo("Canceled", "Cleanup") /\ CanGo("Queued", "Canceled")
  /\ CanGo("Decode", "Canceled")
  /\ ~CanGo("Canceled", "Canceled") /\ ~CanGo("Canceled", "Emit")
BY DEF CanGo, Transitions, Live

\* Removal takes one id out of a queue.
LEMMA RemovedId ==
  ASSUME NEW S, NEW q \in Seq(S), NEW k \in DOMAIN q, Distinct(q)
  PROVE  /\ IdsOf(RemoveAt(q, k)) = IdsOf(q) \ {q[k].id}
         /\ \A i \in DOMAIN RemoveAt(q, k) : \E j \in DOMAIN q : RemoveAt(q, k)[i] = q[j]
<1> DEFINE r == RemoveAt(q, k)
<1>1. /\ DOMAIN q = 1..Len(q) /\ Len(q) \in Nat /\ k \in 1..Len(q)
      /\ DOMAIN r = 1..(Len(q) - 1)
      /\ \A j \in 1..(Len(q) - 1) : r[j] = IF j < k THEN q[j] ELSE q[j + 1]
  <2>1. k \in 1..Len(q) /\ DOMAIN q = 1..Len(q) /\ Len(q) \in Nat
    OBVIOUS
  <2>2. /\ r \in Seq(S) /\ Len(r) = Len(q) - 1
        /\ \A j \in 1..(Len(q) - 1) : r[j] = IF j < k THEN q[j] ELSE q[j + 1]
    BY <2>1, RemoveAtProperties
  <2> HIDE DEF r
  <2> QED BY <2>1, <2>2
<1>2. ToSet(q) = ToSet(r) \cup {q[k]}
  BY RemoveSet
<1> HIDE DEF r
<1>3. ASSUME NEW i \in DOMAIN r
      PROVE  \E j \in DOMAIN q : j # k /\ r[i] = q[j]
  <2>1. CASE i < k
    BY <1>1, <2>1
  <2>2. CASE ~(i < k)
    <3>1. i + 1 \in DOMAIN q /\ i + 1 # k
      BY <1>1, <2>2
    <3> QED BY <1>1, <2>2, <3>1
  <2> QED BY <2>1, <2>2
<1>4. IdsOf(r) \subseteq IdsOf(q) \ {q[k].id}
  BY <1>3 DEF IdsOf, Distinct
<1>5. \A i \in DOMAIN q : q[i].id # q[k].id => q[i].id \in IdsOf(r)
  <2> SUFFICES ASSUME NEW i \in DOMAIN q, q[i].id # q[k].id
               PROVE  q[i].id \in IdsOf(r)
    OBVIOUS
  <2>1. q[i] \in ToSet(r)
    BY <1>2 DEF ToSet
  <2> QED BY <2>1 DEF ToSet, IdsOf
<1>6. IdsOf(q) \ {q[k].id} \subseteq IdsOf(r)
  BY <1>5 DEF IdsOf
<1> QED BY <1>3, <1>4, <1>6 DEF r

\* The slot whose turn it is, and what the history says of it.
LEMMA HeadExplained ==
  ASSUME TypeOK, UniqueIds, EventsExplainState, active # <<>>
  PROVE  /\ Head(active) \in Slot
         /\ Head(active).id \in Ids
         /\ Head(active).state \in {"Decode", "Canceled"}
         /\ StateAfter(events, Head(active).id, Len(events)) = Head(active).state
         /\ Lists(Head(active).generated, EmissionsOf(events, Head(active).id),
                  [k \in DOMAIN events |-> events[k].token])
         /\ Head(active).id \notin IdsOf(pending)
         /\ Head(active).id \notin IdsOf(completed)
         /\ IdsOf(Tail(active)) = IdsOf(active) \ {Head(active).id}
         /\ \A i \in DOMAIN Tail(active) :
              /\ \E j \in DOMAIN active : Tail(active)[i] = active[j]
              /\ Tail(active)[i].id # Head(active).id
<1> DEFINE h == Head(active).id
           tokens == [k \in DOMAIN events |-> events[k].token]
<1>1. /\ active \in Seq(Slot) /\ Head(active) \in Slot /\ Head(active) = active[1]
      /\ 1 \in DOMAIN active
      /\ \A i \in DOMAIN active : active[i].state \in {"Decode", "Canceled"}
  BY TailProperties DEF TypeOK
<1>2. h \in Ids
  BY <1>1 DEF Slot
<1>3. Explains(events, pending, active, completed, h)
  BY <1>2, ExplainedOne
<1>4. active[1].state = StateAfter(events, h, Len(events))
      /\ Lists(active[1].generated, EmissionsOf(events, h), tokens)
  BY <1>1, <1>3 DEF Explains
<1>5. IdsOf(Tail(active)) = IdsOf(active) \ {h} /\ h \in IdsOf(active)
  BY <1>1, TailIds DEF UniqueIds
<1>6. h \notin IdsOf(pending) /\ h \notin IdsOf(completed)
  BY <1>5 DEF UniqueIds
<1>7. /\ DOMAIN active = 1..Len(active) /\ Len(active) \in Nat
      /\ DOMAIN Tail(active) = 1..(Len(active) - 1)
      /\ \A i \in 1..(Len(active) - 1) : Tail(active)[i] = active[i + 1]
  BY <1>1
<1>8. ASSUME NEW i \in DOMAIN Tail(active)
      PROVE  (\E j \in DOMAIN active : Tail(active)[i] = active[j])
             /\ Tail(active)[i].id # h
  <2>1. i + 1 \in DOMAIN active /\ Tail(active)[i] = active[i + 1]
    BY <1>7
  <2>2. Tail(active)[i].id \in IdsOf(Tail(active))
    BY DEF IdsOf
  <2> QED BY <1>5, <2>1, <2>2
<1> QED BY <1>1, <1>2, <1>4, <1>5, <1>6, <1>8

\* Only the head's id leaves, or is touched, when the head leaves.
LEMMA AsideOfHead ==
  ASSUME TypeOK, UniqueIds, EventsExplainState, active # <<>>,
         pending' = pending, active' = Tail(active),
         NEW id, id # Head(active).id, id \in IdsOf(completed') => id \in IdsOf(completed)
  PROVE  Aside(pending, pending', active, active', completed, completed', id)
BY HeadExplained DEF Aside

\* A step that logs nothing and touches the queues of one id at most.
LEMMA SilentExplained ==
  ASSUME HistoryInv, UNCHANGED <<events, cleanup_log, pending>>, NEW h,
         \A other \in Ids : other # h =>
           Aside(pending, pending', active, active', completed, completed', other),
         h \in Ids => Explains(events, pending, active', completed', h)
  PROVE  HistoryInv'
<1>1. ASSUME NEW id \in Ids
      PROVE  Explains(events', pending', active', completed', id)
  <2>1. CASE id = h
    BY <2>1
  <2>2. CASE id # h
    <3>1. Aside(pending, pending', active, active', completed, completed', id)
      BY <2>2
    <3>2. Explains(events, pending, active, completed, id)
      BY ExplainedOne DEF HistoryInv
    <3>3. events' = events /\ Extends(events, events)
      BY DEF Extends
    <3>4. Explains(events, pending', active', completed', id)
      BY <3>1, <3>2, <3>3, ExplainedAsBefore
    <3> QED BY <3>3, <3>4
  <2> QED BY <2>1, <2>2
<1>2. CleanupsListed
  BY ExplainedOne DEF HistoryInv
<1>3. CleanupsListed'
  BY <1>2 DEF CleanupsListed
<1>4. Lifecycle' /\ Unspoken'
  BY DEF HistoryInv, Lifecycle, Unspoken
<1> QED BY <1>1, <1>3, <1>4, ExplainedOne DEF HistoryInv

\* A step that logs nothing of the pending keeps them unspoken.
LEMMA UnspokenKept ==
  ASSUME Unspoken, NEW new \in Seq(Event), events \in Seq(Event), events' = events \o new,
         \A i \in DOMAIN pending' : \E j \in DOMAIN pending : pending'[i] = pending[j],
         \A i \in DOMAIN pending' : \A k \in DOMAIN new :
           new[k].id = pending'[i].id => new[k].state \notin {"Emit", "Queued"}
  PROVE  Unspoken'
<1>1. ASSUME NEW i \in DOMAIN pending'
      PROVE  pending'[i].generated = <<>> /\ EmissionsOf(events', pending'[i].id) = {}
  <2>1. PICK j \in DOMAIN pending : pending'[i] = pending[j]
    OBVIOUS
  <2>2. pending[j].generated = <<>> /\ EmissionsOf(events, pending[j].id) = {}
    BY DEF Unspoken
  <2>3. EmissionsOf(events', pending'[i].id) = EmissionsOf(events, pending'[i].id)
    BY QuietLogged
  <2> QED BY <2>1, <2>2, <2>3
<1> QED BY <1>1 DEF Unspoken

\* decode_one's error: the slot is gone, and the history stays at Decode.
LEMMA HistoryFails ==
  ASSUME TypeOK, UniqueIds, HistoryInv, DecodeFails
  PROVE  HistoryInv'
<1> DEFINE h == Head(active).id
<1>1. /\ MayFail /\ active # <<>> /\ active' = Tail(active)
      /\ UNCHANGED <<events, cleanup_log, pending, completed>>
      /\ CanGo(Head(active).state, "Emit")
  BY DEF DecodeFails, Turn, history
<1>2. \A other \in Ids : other # h =>
        Aside(pending, pending', active, active', completed, completed', other)
  BY <1>1, AsideOfHead DEF HistoryInv
<1>3. /\ Head(active).state = "Decode" /\ h \notin IdsOf(pending) /\ h \notin IdsOf(completed)
      /\ StateAfter(events, h, Len(events)) = "Decode"
      /\ \A i \in DOMAIN active' : active'[i].id # h
  BY <1>1, HeadExplained, StepsTaken DEF HistoryInv
<1> HIDE DEF h
<1>4. Explains(events, pending, active', completed', h)
  BY <1>1, <1>3 DEF Explains
<1> QED BY <1>1, <1>2, <1>4, SilentExplained

\* The finished responses leave with the run.
LEMMA HistoryFinishes ==
  ASSUME HistoryInv, FinishRun
  PROVE  HistoryInv'
<1>1. /\ UNCHANGED <<events, cleanup_log, pending, active>> /\ completed' = <<>>
  BY DEF FinishRun, history
<1>2. IdsOf(completed') = {}
  BY <1>1 DEF IdsOf
<1>3. \A other \in Ids :
        /\ Aside(pending, pending', active, active', completed, completed', other)
        /\ Explains(events, pending, active, completed, other)
           => Explains(events, pending, active', completed', other)
  BY <1>1, <1>2 DEF Aside, Explains
<1>4. \A other \in Ids : Explains(events, pending, active', completed', other)
  BY <1>3, ExplainedOne DEF HistoryInv
<1> QED BY <1>1, <1>3, <1>4, SilentExplained

\* cancel of a pending request ends its life.
LEMMA HistoryCancelsPending ==
  ASSUME TypeOK, UniqueIds, HistoryInv, NEW h \in Ids, CancelPending(h)
  PROVE  HistoryInv'
<1> DEFINE new == <<Mark(h, "Canceled"), Mark(h, "Cleanup")>>
<1>1. /\ events' = events \o new /\ cleanup_log' = Append(cleanup_log, h)
      /\ UNCHANGED <<active, completed>>
  BY DEF CancelPending
<1>2. PICK i \in DOMAIN pending : pending[i].id = h /\ pending' = RemoveAt(pending, i)
  BY DEF CancelPending
<1>3. /\ events \in Seq(Event) /\ pending \in Seq(Slot) /\ cleanup_log \in Seq(Ids)
  BY DEF TypeOK
<1>4. /\ new \in Seq(Event) /\ new # <<>> /\ Len(new) = 2 /\ DOMAIN new = {1, 2}
      /\ new[1] = Mark(h, "Canceled") /\ new[2] = Mark(h, "Cleanup")
  <2>1. Mark(h, "Canceled") \in Event /\ Mark(h, "Cleanup") \in Event
    BY EventTypes, StateNames
  <2> QED BY <2>1
<1>5. new[1].id = h /\ new[2].id = h /\ new[1].state = "Canceled" /\ new[2].state = "Cleanup"
  BY <1>4 DEF Mark
<1> HIDE DEF new
<1>6. /\ IdsOf(pending') = IdsOf(pending) \ {h} /\ h \in IdsOf(pending)
      /\ \A k \in DOMAIN pending' : \E j \in DOMAIN pending : pending'[k] = pending[j]
  <2>1. Distinct(pending)
    BY DEF UniqueIds
  <2>2. h \in IdsOf(pending)
    BY <1>2 DEF IdsOf
  <2> QED BY <1>2, <1>3, <2>1, <2>2, RemovedId
<1>7. h \notin IdsOf(active) /\ h \notin IdsOf(completed)
  BY <1>6 DEF UniqueIds
<1>8. StateAfter(events, h, Len(events)) = "Queued"
  BY <1>6, ExplainedOne DEF HistoryInv, Explains
<1>9. \A k \in 1..(Len(new) - 1) : Follows(new[k].state, new[k + 1].state)
  BY <1>4, <1>5, StepsTaken DEF Follows
<1>10. Follows(StateAfter(events, h, Len(events)), new[1].state)
  BY <1>5, <1>8, StepsTaken DEF Follows
<1>11. \A k \in DOMAIN new : new[k].id = h /\ new[k].state \in {"Canceled", "Cleanup"}
  BY <1>4, <1>5
<1>12. Lifecycle
  BY DEF HistoryInv
<1>13. StateAfter(events', h, Len(events')) = "Cleanup"
  <2>1. \A k \in DOMAIN new : new[k].id = h
    BY <1>11
  <2>2. StateAfter(events', h, Len(events')) = new[Len(new)].state
    BY <1>1, <1>3, <1>4, <1>9, <1>10, <1>12, <2>1, BlockLogged
  <2> QED BY <1>4, <1>5, <2>2
<1>14. Explains(events', pending', active', completed', h)
  <2>1. \A j \in DOMAIN active' : active'[j].id # h
    BY <1>1, <1>7 DEF IdsOf
  <2>2. h \notin IdsOf(pending')
    BY <1>6
  <2> QED BY <1>13, <2>1, <2>2 DEF Explains
<1>15. CleanupsListed'
  <2>1. \A k \in DOMAIN new : k # Len(new) => new[k].state # "Cleanup"
    BY <1>4, <1>5
  <2>2. CleanupsListed
    BY ExplainedOne DEF HistoryInv
  <2> QED BY <1>1, <1>3, <1>4, <1>5, <2>1, <2>2, CleanupsGrow
<1>16. \A other \in Ids : other # h =>
         Aside(pending, pending', active, active', completed, completed', other)
  BY <1>1, <1>6 DEF Aside
<1>17. EventsExplainState /\ \A k \in DOMAIN new : new[k].id = h
  BY <1>11 DEF HistoryInv
<1>18. Lifecycle' /\ EventsExplainState'
  BY <1>1, <1>3, <1>4, <1>9, <1>10, <1>12, <1>14, <1>15, <1>16, <1>17, BlockExplained
<1>19. Unspoken'
  <2>1. \A k \in DOMAIN new : new[k].state \notin {"Emit", "Queued"}
    BY <1>11
  <2>2. Unspoken
    BY DEF HistoryInv
  <2> QED BY <1>1, <1>3, <1>4, <1>6, <2>1, <2>2, UnspokenKept
<1> QED BY <1>18, <1>19 DEF HistoryInv

\* cancel of a slot that a failed run left marks it.
LEMMA HistoryCancelsActive ==
  ASSUME TypeOK, UniqueIds, HistoryInv, NEW h \in Ids, CancelActive(h)
  PROVE  HistoryInv'
<1> DEFINE new == <<Mark(h, "Canceled")>>
<1>1. /\ events \in Seq(Event) /\ active \in Seq(Slot) /\ pending \in Seq(Slot)
      /\ \A j \in DOMAIN active : active[j].state \in {"Decode", "Canceled"}
  BY DEF TypeOK
<1>2. /\ new \in Seq(Event) /\ new # <<>> /\ Len(new) = 1 /\ DOMAIN new = {1}
      /\ new[1].id = h /\ new[1].state = "Canceled"
  <2>1. Mark(h, "Canceled") \in Event
    BY EventTypes, StateNames
  <2>2. Mark(h, "Canceled").id = h /\ Mark(h, "Canceled").state = "Canceled"
    BY DEF Mark
  <2> QED BY <2>1, <2>2
<1>3. events' = events \o new /\ UNCHANGED <<pending, completed, cleanup_log>>
  BY <1>1, AppendIsConcat DEF CancelActive
<1> HIDE DEF new
<1>4. PICK i \in DOMAIN active :
        /\ active[i].id = h /\ CanGo(active[i].state, "Canceled")
        /\ active' = [active EXCEPT ![i].state = "Canceled"]
  BY DEF CancelActive
<1>5. active[i].state = "Decode"
  BY <1>1, <1>4, StepsTaken
<1>6. /\ DOMAIN active' = DOMAIN active
      /\ \A j \in DOMAIN active : j # i => active'[j] = active[j]
      /\ active'[i] = [active[i] EXCEPT !.state = "Canceled"]
  BY <1>1, <1>4
<1>7. /\ active'[i].id = h /\ active'[i].state = "Canceled"
      /\ active'[i].generated = active[i].generated
  <2>1. active[i] \in Slot
    BY <1>1
  <2> QED BY <1>4, <1>6, <2>1 DEF Slot
<1>8. \A j \in DOMAIN active : active[j].id = h => j = i
  BY <1>4 DEF UniqueIds, Distinct
<1>9. /\ \A j \in DOMAIN active' : active'[j].id = h => j = i
      /\ h \in IdsOf(active) /\ h \in IdsOf(active')
      /\ IdsOf(active') = IdsOf(active)
  <2>1. \A j \in DOMAIN active : active'[j].id = active[j].id
    BY <1>4, <1>6, <1>7
  <2>2. IdsOf(active') = IdsOf(active)
    BY <1>6, <2>1, SameIds
  <2>3. h \in IdsOf(active)
    BY <1>4 DEF IdsOf
  <2> QED BY <1>6, <1>8, <2>1, <2>2, <2>3
<1>10. h \notin IdsOf(pending) /\ h \notin IdsOf(completed)
  BY <1>9 DEF UniqueIds
<1>11. Explains(events, pending, active, completed, h)
  BY ExplainedOne DEF HistoryInv
<1>12. StateAfter(events, h, Len(events)) = "Decode"
  BY <1>4, <1>5, <1>11 DEF Explains
<1>13. Follows(StateAfter(events, h, Len(events)), new[1].state)
  BY <1>2, <1>12, StepsTaken DEF Follows
<1>14. \A k \in 1..(Len(new) - 1) : Follows(new[k].state, new[k + 1].state)
  BY <1>2
<1>15. \A k \in DOMAIN new : new[k].id = h
  BY <1>2
<1>16. Lifecycle /\ EventsExplainState /\ Unspoken /\ CleanupsListed
  BY ExplainedOne DEF HistoryInv
<1>17. StateAfter(events', h, Len(events')) = "Canceled"
  <2>1. StateAfter(events', h, Len(events')) = new[Len(new)].state
    BY <1>1, <1>2, <1>3, <1>13, <1>14, <1>15, <1>16, BlockLogged
  <2> QED BY <1>2, <2>1
<1>18. \A k \in DOMAIN new : new[k].state \notin {"Emit", "Queued", "Cleanup"}
  BY <1>2
<1>19. EmissionsOf(events', h) = EmissionsOf(events, h)
  BY <1>1, <1>2, <1>3, <1>18, QuietLogged
<1>20. Lists(active'[i].generated, EmissionsOf(events', h),
             [k \in DOMAIN events' |-> events'[k].token])
  <2> DEFINE tokens == [k \in DOMAIN events |-> events[k].token]
             tokens2 == [k \in DOMAIN events' |-> events'[k].token]
  <2>1. \A k \in DOMAIN events : k \in DOMAIN events' /\ events'[k] = events[k]
    BY <1>1, <1>2, <1>3, Logged
  <2>2. \A k \in EmissionsOf(events, h) : tokens2[k] = tokens[k]
    BY <2>1 DEF EmissionsOf
  <2>3. Lists(active[i].generated, EmissionsOf(events, h), tokens)
    BY <1>4, <1>11 DEF Explains
  <2> HIDE DEF tokens, tokens2
  <2>4. Lists(active[i].generated, EmissionsOf(events, h), tokens2)
    BY <2>2, <2>3, ListsSame
  <2>5. Lists(active'[i].generated, EmissionsOf(events', h), tokens2)
    BY <1>7, <1>19, <2>4
  <2> QED BY <2>5 DEF tokens2
<1>21. Explains(events', pending', active', completed', h)
  <2>1. h \notin IdsOf(pending') /\ h \notin IdsOf(completed') /\ h \in IdsOf(active')
    BY <1>3, <1>9, <1>10
  <2> QED BY <1>7, <1>9, <1>17, <1>20, <2>1 DEF Explains
<1>22. CleanupsListed'
  BY <1>1, <1>2, <1>3, <1>16, <1>18, CleanupsKept
<1>23. \A other \in Ids : other # h =>
         Aside(pending, pending', active, active', completed, completed', other)
  BY <1>3, <1>6, <1>7, <1>9 DEF Aside
<1>24. Lifecycle' /\ EventsExplainState'
  BY <1>1, <1>2, <1>3, <1>13, <1>14, <1>15, <1>16, <1>21, <1>22, <1>23, BlockExplained
<1>25. Unspoken'
  <2>1. \A k \in DOMAIN pending' : \E j \in DOMAIN pending : pending'[k] = pending[j]
    BY <1>3
  <2> QED BY <1>1, <1>2, <1>3, <1>16, <1>18, <2>1, UnspokenKept
<1> QED BY <1>24, <1>25 DEF HistoryInv

\* A canceled slot is reaped, and its life is over.
LEMMA HistoryReaps ==
  ASSUME TypeOK, UniqueIds, HistoryInv, ReapCanceled
  PROVE  HistoryInv'
<1> DEFINE h == Head(active).id
           new == <<Mark(h, "Cleanup")>>
<1>1. /\ events \in Seq(Event) /\ cleanup_log \in Seq(Ids)
      /\ active # <<>> /\ active' = Tail(active)
      /\ UNCHANGED <<pending, completed>> /\ Head(active).state = "Canceled"
      /\ cleanup_log' = Append(cleanup_log, h)
  BY DEF ReapCanceled, TypeOK
<1>2. /\ h \in Ids /\ h \notin IdsOf(pending) /\ h \notin IdsOf(completed)
      /\ StateAfter(events, h, Len(events)) = "Canceled"
      /\ \A i \in DOMAIN active' : active'[i].id # h
  BY <1>1, HeadExplained DEF HistoryInv
<1>3. \A other \in Ids : other # h =>
        Aside(pending, pending', active, active', completed, completed', other)
  BY <1>1, AsideOfHead DEF HistoryInv
<1>4. /\ new \in Seq(Event) /\ new # <<>> /\ Len(new) = 1 /\ DOMAIN new = {1}
      /\ new[1].id = h /\ new[1].state = "Cleanup"
  <2>1. Mark(h, "Cleanup") \in Event
    BY <1>2, EventTypes, StateNames
  <2>2. Mark(h, "Cleanup").id = h /\ Mark(h, "Cleanup").state = "Cleanup"
    BY DEF Mark
  <2> HIDE DEF h
  <2> QED BY <2>1, <2>2
<1>5. events' = events \o new
  BY <1>1, AppendIsConcat DEF ReapCanceled
<1> HIDE DEF new, h
<1>6. Follows(StateAfter(events, h, Len(events)), new[1].state)
  BY <1>2, <1>4, StepsTaken DEF Follows
<1>7. \A k \in 1..(Len(new) - 1) : Follows(new[k].state, new[k + 1].state)
  BY <1>4
<1>8. \A k \in DOMAIN new : new[k].id = h
  BY <1>4
<1>9. Lifecycle /\ EventsExplainState /\ Unspoken /\ CleanupsListed
  BY ExplainedOne DEF HistoryInv
<1>10. StateAfter(events', h, Len(events')) = "Cleanup"
  <2>1. StateAfter(events', h, Len(events')) = new[Len(new)].state
    BY <1>1, <1>4, <1>5, <1>6, <1>7, <1>8, <1>9, BlockLogged
  <2> QED BY <1>4, <2>1
<1>11. Explains(events', pending', active', completed', h)
  BY <1>1, <1>2, <1>10 DEF Explains
<1>12. CleanupsListed'
  <2>1. \A k \in DOMAIN new : k # Len(new) => new[k].state # "Cleanup"
    BY <1>4
  <2> QED BY <1>1, <1>2, <1>4, <1>5, <1>9, <2>1, CleanupsGrow
<1>13. Lifecycle' /\ EventsExplainState'
  BY <1>1, <1>3, <1>4, <1>5, <1>6, <1>7, <1>8, <1>9, <1>11, <1>12, BlockExplained
<1>14. Unspoken'
  <2>1. \A k \in DOMAIN pending' : \E j \in DOMAIN pending : pending'[k] = pending[j]
    BY <1>1
  <2>2. \A k \in DOMAIN new : new[k].state \notin {"Emit", "Queued"}
    BY <1>4
  <2> QED BY <1>1, <1>4, <1>5, <1>9, <2>1, <2>2, UnspokenKept
<1> QED BY <1>13, <1>14 DEF HistoryInv

\* A turn's token joins those the history has of the slot.
LEMMA EmissionListed ==
  ASSUME TypeOK, UniqueIds, EventsExplainState, DecodesToTokens, active # <<>>,
         NEW new \in Seq(Event), events' = events \o new, new # <<>>,
         new[1] = Emission(Head(active).id, NextToken),
         \A k \in DOMAIN new : k # 1 => new[k].state \notin {"Emit", "Queued"}
  PROVE  Lists(Append(Head(active).generated, NextToken),
               EmissionsOf(events', Head(active).id),
               [k \in DOMAIN events' |-> events'[k].token])
<1> DEFINE h == Head(active).id
           n == Len(events)
           tokens == [k \in DOMAIN events |-> events[k].token]
           tokens2 == [k \in DOMAIN events' |-> events'[k].token]
           old == EmissionsOf(events, h)
           seq == Head(active).generated
<1>1. /\ new[1].id = h /\ new[1].state = "Emit" /\ new[1].token = NextToken
      /\ events \in Seq(Event)
  BY DEF Emission, TypeOK
<1>2. EmissionsOf(events', h) = old \cup {n + 1}
  BY <1>1, EmissionLogged
<1>3. /\ n \in Nat /\ n + 1 \in DOMAIN events' /\ events'[n + 1] = new[1]
      /\ \A k \in 1..n : k \in DOMAIN events' /\ events'[k] = events[k]
      /\ DOMAIN events = 1..n
  <2>1. /\ n \in Nat /\ Len(new) \in Nat \ {0} /\ DOMAIN events = 1..n
        /\ DOMAIN events' = 1..(n + Len(new))
        /\ \A k \in 1..n : events'[k] = events[k]
        /\ \A k \in 1..Len(new) : events'[n + k] = new[k]
    BY <1>1, LoggedAt
  <2> HIDE DEF n
  <2> QED BY <2>1
<1>4. old \in SUBSET (1..n) /\ \A k \in old : tokens2[k] = tokens[k]
  BY <1>3 DEF EmissionsOf
<1>5. Lists(seq, old, tokens) /\ seq \in Seq(Token) /\ NextToken \in Token
  BY HeadExplained, NextTokenType DEF Slot
<1>6. tokens2[n + 1] = NextToken
  BY <1>1, <1>3
<1> HIDE DEF h, n, tokens, tokens2, old, seq
<1>7. n + 1 \in Nat /\ n + 1 > n
  BY <1>3
<1>8. Lists(Append(seq, NextToken), old \cup {n + 1}, tokens2)
  BY <1>3, <1>4, <1>5, <1>6, <1>7, ListsMore
<1>9. Lists(Append(seq, NextToken), EmissionsOf(events', h), tokens2)
  BY <1>2, <1>8
<1> QED BY <1>9 DEF h, tokens2, seq

\* A turn that goes on.
LEMMA HistoryTurns ==
  ASSUME TypeOK, UniqueIds, HistoryInv, DecodesToTokens, EmitAndRequeue
  PROVE  HistoryInv'
<1> DEFINE h == Head(active).id
           new == <<Emission(h, NextToken), Mark(h, "Decode")>>
           later == [Head(active) EXCEPT !.prompt = Append(@, NextToken),
                                         !.generated = Append(@, NextToken)]
           emitted == Append(Head(active).generated, NextToken)
<1>1. /\ events \in Seq(Event) /\ active \in Seq(Slot) /\ active # <<>>
      /\ active' = Append(Tail(active), later)
      /\ UNCHANGED <<pending, completed, cleanup_log>>
      /\ CanGo(Head(active).state, "Emit")
      /\ events' = events \o new
  BY DEF EmitAndRequeue, Requeued, Turn, TypeOK
<1>2. /\ h \in Ids /\ h \notin IdsOf(pending) /\ h \notin IdsOf(completed)
      /\ Head(active) \in Slot /\ Head(active).state = "Decode"
      /\ StateAfter(events, h, Len(events)) = "Decode"
      /\ IdsOf(Tail(active)) = IdsOf(active) \ {h}
      /\ \A i \in DOMAIN Tail(active) :
           /\ \E j \in DOMAIN active : Tail(active)[i] = active[j]
           /\ Tail(active)[i].id # h
  BY <1>1, HeadExplained, StepsTaken DEF HistoryInv
<1>3. later.id = h /\ later.state = "Decode" /\ later.generated = emitted
  BY <1>2 DEF Slot
<1>4. /\ new \in Seq(Event) /\ new # <<>> /\ Len(new) = 2 /\ DOMAIN new = {1, 2}
      /\ new[1] = Emission(h, NextToken) /\ new[1].id = h /\ new[1].state = "Emit"
      /\ new[2].id = h /\ new[2].state = "Decode"
  <2>1. Emission(h, NextToken) \in Event /\ Mark(h, "Decode") \in Event
    BY <1>1, <1>2, EventTypes, StateNames, NextTokenType
  <2>2. /\ Mark(h, "Decode").id = h /\ Mark(h, "Decode").state = "Decode"
        /\ Emission(h, NextToken).id = h /\ Emission(h, NextToken).state = "Emit"
    BY DEF Mark, Emission
  <2> HIDE DEF h
  <2> QED BY <2>1, <2>2
<1>5. \A k \in DOMAIN new : k # 1 => new[k].state \notin {"Emit", "Queued"}
  BY <1>4
<1>6. Lists(emitted, EmissionsOf(events', h), [k \in DOMAIN events' |-> events'[k].token])
  BY <1>1, <1>4, <1>5, EmissionListed DEF HistoryInv
<1> HIDE DEF new, h, later, emitted
<1>7. /\ \A i \in DOMAIN active' :
           \/ /\ \E j \in DOMAIN active : active'[i] = active[j]
              /\ active'[i].id # h
           \/ active'[i] = later
      /\ IdsOf(Tail(active)) \subseteq IdsOf(active') /\ h \in IdsOf(active')
  <2> DEFINE rest == Tail(active)
  <2>1. rest \in Seq(Slot) /\ active' = Append(rest, later)
    BY <1>1
  <2>2. \A i \in DOMAIN rest : (\E j \in DOMAIN active : rest[i] = active[j]) /\ rest[i].id # h
    BY <1>2
  <2> HIDE DEF rest
  <2>3. /\ DOMAIN rest = 1..Len(rest) /\ Len(rest) \in Nat
        /\ DOMAIN active' = 1..(Len(rest) + 1)
        /\ \A i \in 1..Len(rest) : active'[i] = rest[i]
        /\ active'[Len(rest) + 1] = later
    BY <2>1
  <2>4. \A i \in DOMAIN active' : i \in DOMAIN rest \/ i = Len(rest) + 1
    BY <2>3
  <2>5. DOMAIN rest \subseteq DOMAIN active' /\ Len(rest) + 1 \in DOMAIN active'
    BY <2>3
  <2>6. IdsOf(rest) \subseteq IdsOf(active') /\ h \in IdsOf(active')
    BY <1>3, <2>3, <2>5 DEF IdsOf
  <2> QED BY <2>2, <2>3, <2>4, <2>6 DEF rest
<1>8. Follows(StateAfter(events, h, Len(events)), new[1].state)
  BY <1>2, <1>4, StepsTaken DEF Follows
<1>9. \A k \in 1..(Len(new) - 1) : Follows(new[k].state, new[k + 1].state)
  BY <1>4, StepsTaken DEF Follows
<1>10. \A k \in DOMAIN new : new[k].id = h
  BY <1>4
<1>11. Lifecycle /\ EventsExplainState /\ Unspoken /\ CleanupsListed
  BY ExplainedOne DEF HistoryInv
<1>12. StateAfter(events', h, Len(events')) = "Decode"
  <2>1. StateAfter(events', h, Len(events')) = new[Len(new)].state
    BY <1>1, <1>4, <1>8, <1>9, <1>10, <1>11, BlockLogged
  <2> QED BY <1>4, <2>1
<1>13. Explains(events', pending', active', completed', h)
  <2>1. h \notin IdsOf(pending') /\ h \notin IdsOf(completed') /\ h \in IdsOf(active')
    BY <1>1, <1>2, <1>7
  <2>2. \A i \in DOMAIN active' : active'[i].id = h => active'[i] = later
    BY <1>7
  <2> QED BY <1>3, <1>6, <1>12, <2>1, <2>2 DEF Explains
<1>14. CleanupsListed'
  <2>1. \A k \in DOMAIN new : new[k].state # "Cleanup"
    BY <1>4
  <2> QED BY <1>1, <1>4, <1>11, <2>1, CleanupsKept
<1>15. \A other \in Ids : other # h =>
         Aside(pending, pending', active, active', completed, completed', other)
  BY <1>1, <1>2, <1>3, <1>7 DEF Aside
<1>16. Lifecycle' /\ EventsExplainState'
  BY <1>1, <1>4, <1>8, <1>9, <1>10, <1>11, <1>13, <1>14, <1>15, BlockExplained
<1>17. Unspoken'
  <2>1. \A k \in DOMAIN pending' : \E j \in DOMAIN pending : pending'[k] = pending[j]
    BY <1>1
  <2>2. \A i \in DOMAIN pending' : pending'[i].id # h
    BY <1>1, <1>2 DEF IdsOf
  <2>3. \A i \in DOMAIN pending' : \A k \in DOMAIN new :
          new[k].id = pending'[i].id => new[k].state \notin {"Emit", "Queued"}
    BY <1>10, <2>2
  <2> QED BY <1>1, <1>4, <1>11, <2>1, <2>3, UnspokenKept
<1> QED BY <1>16, <1>17 DEF HistoryInv

\* The last turn ends the slot's life and leaves its response.
LEMMA HistoryCompletes ==
  ASSUME TypeOK, UniqueIds, HistoryInv, DecodesToTokens, EmitAndComplete
  PROVE  HistoryInv'
<1> DEFINE h == Head(active).id
           new == <<Emission(h, NextToken), Mark(h, "Complete"), Mark(h, "Cleanup")>>
           response == [id |-> h, tokens |-> Append(Head(active).generated, NextToken)]
<1>1. /\ events \in Seq(Event) /\ cleanup_log \in Seq(Ids)
      /\ completed \in Seq(Response) /\ active # <<>>
      /\ active' = Tail(active) /\ pending' = pending
      /\ completed' = Append(completed, response)
      /\ cleanup_log' = Append(cleanup_log, h)
      /\ CanGo(Head(active).state, "Emit")
      /\ events' = events \o new
  BY DEF EmitAndComplete, Turn, TypeOK
<1>2. /\ h \in Ids /\ h \notin IdsOf(pending)
      /\ Head(active).state = "Decode"
      /\ StateAfter(events, h, Len(events)) = "Decode"
      /\ \A i \in DOMAIN active' : active'[i].id # h
  BY <1>1, HeadExplained, StepsTaken DEF HistoryInv
<1>3. /\ new \in Seq(Event) /\ new # <<>> /\ Len(new) = 3 /\ DOMAIN new = {1, 2, 3}
      /\ new[1].id = h /\ new[1].state = "Emit"
      /\ new[2].id = h /\ new[2].state = "Complete"
      /\ new[3].id = h /\ new[3].state = "Cleanup"
  <2>1. /\ Emission(h, NextToken) \in Event
        /\ Mark(h, "Complete") \in Event /\ Mark(h, "Cleanup") \in Event
    BY <1>1, <1>2, EventTypes, StateNames, NextTokenType
  <2>2. /\ Mark(h, "Complete").id = h /\ Mark(h, "Complete").state = "Complete"
        /\ Mark(h, "Cleanup").id = h /\ Mark(h, "Cleanup").state = "Cleanup"
        /\ Emission(h, NextToken).id = h /\ Emission(h, NextToken).state = "Emit"
    BY DEF Mark, Emission
  <2> HIDE DEF h
  <2> QED BY <2>1, <2>2
<1>4. \A other : other # h => (other \in IdsOf(completed') => other \in IdsOf(completed))
  <2> SUFFICES ASSUME NEW i \in DOMAIN completed', completed'[i].id # h
               PROVE  completed'[i].id \in IdsOf(completed)
    BY DEF IdsOf
  <2>1. response.id = h
    OBVIOUS
  <2> HIDE DEF response, h, new
  <2>2. i \in DOMAIN completed /\ completed'[i] = completed[i]
    BY <1>1, <2>1
  <2> QED BY <2>2 DEF IdsOf
<1>5. \A other \in Ids : other # h =>
        Aside(pending, pending', active, active', completed, completed', other)
  BY <1>1, <1>4, AsideOfHead DEF HistoryInv
<1> HIDE DEF new, h, response
<1>6. Follows(StateAfter(events, h, Len(events)), new[1].state)
  BY <1>2, <1>3, StepsTaken DEF Follows
<1>7. \A k \in 1..(Len(new) - 1) : Follows(new[k].state, new[k + 1].state)
  <2>1. \A k \in 1..(Len(new) - 1) : k = 1 \/ k = 2
    BY <1>3
  <2> QED BY <1>3, <2>1, StepsTaken DEF Follows
<1>8. \A k \in DOMAIN new : new[k].id = h
  BY <1>3
<1>9. Lifecycle /\ EventsExplainState /\ Unspoken /\ CleanupsListed
  BY ExplainedOne DEF HistoryInv
<1>10. StateAfter(events', h, Len(events')) = "Cleanup"
  <2>1. StateAfter(events', h, Len(events')) = new[Len(new)].state
    BY <1>1, <1>3, <1>6, <1>7, <1>8, <1>9, BlockLogged
  <2> QED BY <1>3, <2>1
<1>11. Explains(events', pending', active', completed', h)
  BY <1>1, <1>2, <1>10 DEF Explains
<1>12. CleanupsListed'
  <2>1. new[Len(new)].id = h /\ new[Len(new)].state = "Cleanup"
    BY <1>3
  <2>2. \A k \in DOMAIN new : k # Len(new) => new[k].state # "Cleanup"
    BY <1>3
  <2> QED BY <1>1, <1>2, <1>3, <1>9, <2>1, <2>2, CleanupsGrow
<1>13. Lifecycle' /\ EventsExplainState'
  BY <1>1, <1>3, <1>5, <1>6, <1>7, <1>8, <1>9, <1>11, <1>12, BlockExplained
<1>14. Unspoken'
  <2>1. \A k \in DOMAIN pending' : \E j \in DOMAIN pending : pending'[k] = pending[j]
    BY <1>1
  <2>2. \A i \in DOMAIN pending' : pending'[i].id # h
    BY <1>1, <1>2 DEF IdsOf
  <2>3. \A i \in DOMAIN pending' : \A k \in DOMAIN new :
          new[k].id = pending'[i].id => new[k].state \notin {"Emit", "Queued"}
    BY <1>8, <2>2
  <2> QED BY <1>1, <1>3, <1>9, <2>1, <2>3, UnspokenKept
<1> QED BY <1>13, <1>14 DEF HistoryInv

\* A submission that starts a batch's history.
LEMMA HistoryBegins ==
  ASSUME TypeOK, HistoryInv, NEW r \in Request, Submit(r), Idle
  PROVE  HistoryInv'
<1> DEFINE h == r.id
           e == Mark(h, "Queued")
           slot == NewSlot(r)
<1>1. /\ pending' = <<slot>> /\ active' = <<>> /\ completed' = <<>>
      /\ events' = <<e>> /\ cleanup_log' = <<>>
  BY DEF Submit, Continue, Idle
<1>2. e.id = h /\ e.state = "Queued" /\ slot.id = h /\ slot.generated = <<>>
  BY DEF Mark, NewSlot
<1> HIDE DEF h, slot
<1>3. /\ DOMAIN events' = {1} /\ Len(events') = 1 /\ events'[1] = e
      /\ DOMAIN pending' = {1} /\ pending'[1] = slot
      /\ DOMAIN active' = {} /\ DOMAIN completed' = {}
  BY <1>1
<1>4. StateAfter(events', h, 1) = "Queued"
  <2>1. 1 \in Nat /\ 1 \in 1..1 /\ events'[1].id = h /\ \A k \in (1 + 1)..1 : events'[k].id # h
    BY <1>2, <1>3
  <2>2. StateAfter(events', h, 1) = events'[1].state
    BY <2>1, LastState
  <2> QED BY <1>2, <1>3, <2>2
<1>5. \A other : other # h => StateAfter(events', other, 1) = "Cleanup"
  <2> SUFFICES ASSUME NEW other, other # h
               PROVE  StateAfter(events', other, 1) = "Cleanup"
    OBVIOUS
  <2>1. {k \in 1..1 : events'[k].id = other} = {}
    BY <1>2, <1>3
  <2> QED BY <2>1 DEF StateAfter
<1>6. StateAfter(events', h, 0) = "Cleanup"
  <2>1. {k \in 1..0 : events'[k].id = h} = {}
    OBVIOUS
  <2> QED BY <2>1 DEF StateAfter
<1>7. Lifecycle'
  <2>1. \A k \in DOMAIN events' : k = 1 /\ k - 1 = 0
    BY <1>3
  <2>2. Follows("Cleanup", "Queued")
    BY DEF Follows
  <2> QED BY <1>2, <1>3, <1>6, <2>1, <2>2 DEF Lifecycle
<1>8. IdsOf(pending') = {h} /\ IdsOf(active') = {} /\ IdsOf(completed') = {}
  BY <1>2, <1>3 DEF IdsOf
<1>9. \A id \in Ids : Explains(events', pending', active', completed', id)
  BY <1>3, <1>4, <1>5, <1>8 DEF Explains
<1>10. CleanupsListed'
  <2>1. CleanupsIn(events') = {}
    BY <1>2, <1>3 DEF CleanupsIn
  <2> QED BY <1>1, <2>1, ListsNone DEF CleanupsListed
<1>11. EmissionsOf(events', h) = {}
  BY <1>2, <1>3 DEF EmissionsOf
<1>12. Unspoken'
  BY <1>2, <1>3, <1>11 DEF Unspoken
<1> QED BY <1>7, <1>9, <1>10, <1>12, ExplainedOne DEF HistoryInv

\* A submission to a batch under way begins another life in its history.
LEMMA HistorySubmits ==
  ASSUME TypeOK, UniqueIds, HistoryInv, NEW r \in Request, Submit(r), ~Idle
  PROVE  HistoryInv'
<1> DEFINE h == r.id
           new == <<Mark(h, "Queued")>>
           slot == NewSlot(r)
<1>1. /\ events \in Seq(Event) /\ pending \in Seq(Slot) /\ h \in Ids
      /\ pending' = Append(pending, slot)
      /\ UNCHANGED <<active, completed>> /\ cleanup_log' = cleanup_log
      /\ h \notin IdsOf(pending) /\ h \notin IdsOf(active) /\ h \notin IdsOf(completed)
  BY DEF Submit, Continue, Admissible, HeldIds, Request, TypeOK
<1>2. slot.id = h /\ slot.generated = <<>> /\ slot \in Slot
  BY NewSlotType DEF NewSlot
<1>3. /\ new \in Seq(Event) /\ new # <<>> /\ Len(new) = 1 /\ DOMAIN new = {1}
      /\ new[1] = Mark(h, "Queued") /\ new[1].id = h /\ new[1].state = "Queued"
  <2>1. Mark(h, "Queued") \in Event
    BY <1>1, EventTypes, StateNames
  <2>2. Mark(h, "Queued").id = h /\ Mark(h, "Queued").state = "Queued"
    BY DEF Mark
  <2> HIDE DEF h
  <2> QED BY <2>1, <2>2
<1>4. events' = events \o new
  BY <1>1, AppendIsConcat DEF Submit, Continue
<1> HIDE DEF new, h, slot
<1>5. /\ DOMAIN pending = 1..Len(pending) /\ Len(pending) \in Nat
      /\ DOMAIN pending' = 1..(Len(pending) + 1)
      /\ \A i \in 1..Len(pending) : pending'[i] = pending[i]
      /\ pending'[Len(pending) + 1] = slot
  BY <1>1
<1>6. \A i \in DOMAIN pending' : i \in DOMAIN pending \/ pending'[i] = slot
  <2>1. \A i \in DOMAIN pending' : i \in DOMAIN pending \/ i = Len(pending) + 1
    BY <1>5
  <2> QED BY <1>5, <2>1
<1>7. IdsOf(pending') = IdsOf(pending) \cup {h}
  <2>1. DOMAIN pending \subseteq DOMAIN pending' /\ Len(pending) + 1 \in DOMAIN pending'
    BY <1>5
  <2>2. IdsOf(pending') \subseteq IdsOf(pending) \cup {h}
    BY <1>2, <1>5, <1>6 DEF IdsOf
  <2>3. IdsOf(pending) \subseteq IdsOf(pending') /\ h \in IdsOf(pending')
    BY <1>2, <1>5, <2>1 DEF IdsOf
  <2> QED BY <2>2, <2>3
<1>8. Lifecycle /\ EventsExplainState /\ Unspoken /\ CleanupsListed
  BY ExplainedOne DEF HistoryInv
<1>9. Follows(StateAfter(events, h, Len(events)), new[1].state)
  <2>1. Explains(events, pending, active, completed, h)
    BY <1>1, <1>8, ExplainedOne
  <2>2. \/ StateAfter(events, h, Len(events)) = "Cleanup"
        \/ StateAfter(events, h, Len(events)) = "Decode" /\ MayFail
    BY <1>1, <2>1, SchedulerAssumption DEF Explains, SchedulerAssumption
  <2> QED BY <1>3, <2>2 DEF Follows
<1>10. \A k \in 1..(Len(new) - 1) : Follows(new[k].state, new[k + 1].state)
  BY <1>3
<1>11. \A k \in DOMAIN new : new[k].id = h
  BY <1>3
<1>12. StateAfter(events', h, Len(events')) = "Queued"
  <2>1. StateAfter(events', h, Len(events')) = new[Len(new)].state
    BY <1>1, <1>3, <1>4, <1>8, <1>9, <1>10, <1>11, BlockLogged
  <2> QED BY <1>3, <2>1
<1>13. Explains(events', pending', active', completed', h)
  <2>1. \A i \in DOMAIN active' : active'[i].id # h
    BY <1>1 DEF IdsOf
  <2>2. h \in IdsOf(pending') /\ h \notin IdsOf(completed')
    BY <1>1, <1>7
  <2> QED BY <1>12, <2>1, <2>2 DEF Explains
<1>14. CleanupsListed'
  <2>1. \A k \in DOMAIN new : new[k].state # "Cleanup"
    BY <1>3
  <2> QED BY <1>1, <1>3, <1>4, <1>8, <2>1, CleanupsKept
<1>15. \A other \in Ids : other # h =>
         Aside(pending, pending', active, active', completed, completed', other)
  BY <1>1, <1>7 DEF Aside
<1>16. Lifecycle' /\ EventsExplainState'
  BY <1>1, <1>3, <1>4, <1>8, <1>9, <1>10, <1>11, <1>13, <1>14, <1>15, BlockExplained
<1>17. EmissionsOf(events', h) = {}
  <2>1. /\ Len(events') \in Nat /\ DOMAIN events' = 1..Len(events')
        /\ events'[Len(events')] = Mark(h, "Queued")
    <3>1. /\ Len(events) \in Nat /\ Len(events') = Len(events) + Len(new)
          /\ DOMAIN events' = 1..(Len(events) + Len(new))
          /\ \A k \in 1..Len(new) : events'[Len(events) + k] = new[k]
      BY <1>1, <1>3, <1>4, LoggedAt
    <3> QED BY <1>3, <3>1
  <2>2. \A k \in DOMAIN events' : Len(events') \in k..Len(events')
    BY <2>1
  <2> QED BY <2>1, <2>2 DEF EmissionsOf
<1>18. Unspoken'
  <2>1. ASSUME NEW i \in DOMAIN pending'
        PROVE  pending'[i].generated = <<>> /\ EmissionsOf(events', pending'[i].id) = {}
    <3>1. CASE pending'[i] = slot
      BY <1>2, <1>17, <3>1
    <3>2. CASE i \in DOMAIN pending
      <4>1. pending'[i] = pending[i] /\ pending[i].id # h
        BY <1>1, <1>5, <3>2 DEF IdsOf
      <4>2. \A k \in DOMAIN new :
              new[k].id = pending[i].id => new[k].state \notin {"Emit", "Queued"}
        BY <1>11, <4>1
      <4>3. EmissionsOf(events', pending[i].id) = EmissionsOf(events, pending[i].id)
        BY <1>1, <1>3, <1>4, <4>2, QuietLogged
      <4> QED BY <1>8, <3>2, <4>1, <4>3 DEF Unspoken
    <3> QED BY <1>6, <3>1, <3>2
  <2> QED BY <2>1 DEF Unspoken
<1> QED BY <1>16, <1>18 DEF HistoryInv

\* What admission logs, entry by entry.
LEMMA AdmissionOf ==
  ASSUME TypeOK, UniqueIds
  PROVE  /\ DOMAIN AdmissionEvents = 1..(2 * Len(pending))
         /\ Len(AdmissionEvents) = 2 * Len(pending)
         /\ \A u \in DOMAIN pending :
              /\ 2 * u - 1 \in DOMAIN AdmissionEvents /\ 2 * u \in DOMAIN AdmissionEvents
              /\ AdmissionEvents[2 * u - 1] = Mark(pending[u].id, "Prefill")
              /\ AdmissionEvents[2 * u] = Mark(pending[u].id, "Decode")
              /\ \A k \in DOMAIN AdmissionEvents :
                   AdmissionEvents[k].id = pending[u].id => k = 2 * u - 1 \/ k = 2 * u
         /\ \A k \in DOMAIN AdmissionEvents :
              \E u \in DOMAIN pending : k = 2 * u - 1 \/ k = 2 * u
<1>1. /\ DOMAIN pending = 1..Len(pending) /\ Len(pending) \in Nat
      /\ DOMAIN AdmissionEvents = 1..(2 * Len(pending))
      /\ Len(AdmissionEvents) = 2 * Len(pending)
      /\ \A i, j \in DOMAIN pending : pending[i].id = pending[j].id => i = j
  <2>1. /\ pending \in Seq(Slot)
        /\ \A i, j \in DOMAIN pending : pending[i].id = pending[j].id => i = j
    BY DEF TypeOK, UniqueIds, Distinct
  <2>2. 2 * Len(pending) \in Nat
    BY <2>1
  <2> QED BY <2>1, <2>2 DEF AdmissionEvents
<1>2. ASSUME NEW u \in DOMAIN pending
      PROVE  /\ 2 * u - 1 \in DOMAIN AdmissionEvents /\ 2 * u \in DOMAIN AdmissionEvents
             /\ AdmissionEvents[2 * u - 1] = Mark(pending[u].id, "Prefill")
             /\ AdmissionEvents[2 * u] = Mark(pending[u].id, "Decode")
  <2>1. /\ 2 * u - 1 \in 1..(2 * Len(pending)) /\ 2 * u \in 1..(2 * Len(pending))
        /\ (2 * u - 1 + 1) \div 2 = u /\ (2 * u + 1) \div 2 = u
        /\ (2 * u - 1) % 2 = 1 /\ (2 * u) % 2 # 1
    <3>1. \A v \in Nat : v >= 1 =>
            /\ (2 * v - 1 + 1) \div 2 = v /\ (2 * v + 1) \div 2 = v
            /\ (2 * v - 1) % 2 = 1 /\ (2 * v) % 2 # 1
      OBVIOUS
    <3>2. u \in Nat /\ u >= 1 /\ u <= Len(pending)
      BY <1>1
    <3>3. 2 * u - 1 \in 1..(2 * Len(pending)) /\ 2 * u \in 1..(2 * Len(pending))
      BY <1>1, <3>2
    <3> QED BY <3>1, <3>2, <3>3
  <2>2. /\ AdmissionEvents[2 * u - 1]
             = Mark(pending[(2 * u - 1 + 1) \div 2].id,
                    IF (2 * u - 1) % 2 = 1 THEN "Prefill" ELSE "Decode")
        /\ AdmissionEvents[2 * u]
             = Mark(pending[(2 * u + 1) \div 2].id,
                    IF (2 * u) % 2 = 1 THEN "Prefill" ELSE "Decode")
    BY <2>1 DEF AdmissionEvents
  <2> QED BY <1>1, <2>1, <2>2
<1>3. ASSUME NEW k \in DOMAIN AdmissionEvents
      PROVE  \E u \in DOMAIN pending : k = 2 * u - 1 \/ k = 2 * u
  <2>1. (k + 1) \div 2 \in DOMAIN pending /\ k \in Nat
    BY <1>1
  <2>2. \A j \in Nat : j = 2 * ((j + 1) \div 2) - 1 \/ j = 2 * ((j + 1) \div 2)
    OBVIOUS
  <2> QED BY <2>1, <2>2
<1>4. ASSUME NEW u \in DOMAIN pending, NEW k \in DOMAIN AdmissionEvents,
             AdmissionEvents[k].id = pending[u].id
      PROVE  k = 2 * u - 1 \/ k = 2 * u
  <2>1. PICK v \in DOMAIN pending : k = 2 * v - 1 \/ k = 2 * v
    BY <1>3
  <2>2. AdmissionEvents[k].id = pending[v].id
    <3>1. /\ AdmissionEvents[2 * v - 1].id = pending[v].id
          /\ AdmissionEvents[2 * v].id = pending[v].id
      <4>1. /\ Mark(pending[v].id, "Prefill").id = pending[v].id
            /\ Mark(pending[v].id, "Decode").id = pending[v].id
        BY DEF Mark
      <4> QED BY <1>2, <4>1
    <3> QED BY <2>1, <3>1
  <2>3. v = u
    BY <1>1, <1>4, <2>2
  <2> QED BY <2>1, <2>3
<1> QED BY <1>1, <1>2, <1>3, <1>4

\* Admission takes every pending id from Queued through Prefill to Decode.
LEMMA HistoryAdmits ==
  ASSUME TypeOK, UniqueIds, HistoryInv, StartRun
  PROVE  HistoryInv'
<1> DEFINE n == Len(events)
           new == AdmissionEvents
           m == 2 * Len(pending)
           longer == events'
           held == active \o Admitted
           id_(u) == pending[u].id
<1>1. /\ events \in Seq(Event) /\ new \in Seq(Event) /\ events' = events \o new
      /\ pending' = <<>> /\ active' = held
      /\ UNCHANGED <<completed, cleanup_log>>
      /\ pending \in Seq(Slot) /\ active \in Seq(Slot)
  BY AdmittedType DEF StartRun, TypeOK
<1>2. /\ n \in Nat /\ m \in Nat /\ DOMAIN events = 1..n
      /\ DOMAIN longer = 1..(n + m) /\ Len(longer) = n + m
      /\ \A k \in 1..n : longer[k] = events[k]
      /\ \A k \in 1..m : longer[n + k] = new[k]
      /\ \A k \in DOMAIN longer :
           k \in 1..n \/ (k - n \in 1..m /\ longer[k] = new[k - n] /\ k > n)
      /\ DOMAIN pending = 1..Len(pending) /\ Len(pending) \in Nat
  <2>1. /\ Len(new) = m /\ DOMAIN new = 1..m /\ Len(pending) \in Nat
        /\ DOMAIN pending = 1..Len(pending)
    BY <1>1, AdmissionOf
  <2>2. m \in Nat
    BY <2>1
  <2> HIDE DEF new, m
  <2> QED BY <1>1, <2>1, <2>2, LoggedAt
<1>3. \A u \in DOMAIN pending :
        /\ 2 * u - 1 \in 1..m /\ 2 * u \in 1..m
        /\ longer[n + (2 * u - 1)].id = id_(u)
        /\ longer[n + (2 * u - 1)].state = "Prefill"
        /\ longer[n + 2 * u].id = id_(u)
        /\ longer[n + 2 * u].state = "Decode"
  <2> SUFFICES ASSUME NEW u \in DOMAIN pending
               PROVE  /\ 2 * u - 1 \in 1..m /\ 2 * u \in 1..m
                      /\ longer[n + (2 * u - 1)].id = id_(u)
                      /\ longer[n + (2 * u - 1)].state = "Prefill"
                      /\ longer[n + 2 * u].id = id_(u)
                      /\ longer[n + 2 * u].state = "Decode"
    OBVIOUS
  <2>1. /\ 2 * u - 1 \in 1..m /\ 2 * u \in 1..m
        /\ new[2 * u - 1] = Mark(id_(u), "Prefill")
        /\ new[2 * u] = Mark(id_(u), "Decode")
    BY AdmissionOf
  <2>2. /\ longer[n + (2 * u - 1)] = new[2 * u - 1]
        /\ longer[n + 2 * u] = new[2 * u]
    BY <1>2, <2>1
  <2> HIDE DEF longer, new, n, m, id_
  <2>3. /\ Mark(id_(u), "Prefill").id = id_(u) /\ Mark(id_(u), "Prefill").state = "Prefill"
        /\ Mark(id_(u), "Decode").id = id_(u) /\ Mark(id_(u), "Decode").state = "Decode"
    BY DEF Mark
  <2> QED BY <2>1, <2>2, <2>3
<1>4. ASSUME NEW k \in (n + 1)..(n + m)
      PROVE  \E u \in DOMAIN pending :
               /\ k = n + (2 * u - 1) \/ k = n + 2 * u
               /\ longer[k].id = id_(u)
               /\ longer[k].state \in {"Prefill", "Decode"}
  <2>0. n \in Int /\ m \in Int /\ k \in Int
    BY <1>2
  <2>1. k - n \in 1..m
    BY <2>0
  <2>2. PICK u \in DOMAIN pending : k - n = 2 * u - 1 \/ k - n = 2 * u
    BY <2>1, AdmissionOf
  <2>3. u \in Int
    BY <1>2
  <2>4. k = n + (2 * u - 1) \/ k = n + 2 * u
    BY <2>0, <2>2, <2>3
  <2> HIDE DEF n, m, longer, id_
  <2>5. /\ longer[n + (2 * u - 1)].id = id_(u) /\ longer[n + 2 * u].id = id_(u)
        /\ longer[n + (2 * u - 1)].state = "Prefill" /\ longer[n + 2 * u].state = "Decode"
    BY <1>3
  <2> QED BY <2>4, <2>5
<1>5. \A k \in DOMAIN new : new[k].state \in {"Prefill", "Decode"}
  BY AdmissionLog
<1>6. ASSUME NEW u \in DOMAIN pending, NEW v \in DOMAIN pending, id_(u) = id_(v)
      PROVE  u = v
  BY <1>6 DEF UniqueIds, Distinct
<1>7. Lifecycle /\ EventsExplainState /\ Unspoken /\ CleanupsListed
  BY ExplainedOne DEF HistoryInv
<1>8. ASSUME NEW u \in DOMAIN pending
      PROVE  /\ id_(u) \in Ids /\ id_(u) \in IdsOf(pending)
             /\ StateAfter(events, id_(u), n) = "Queued"
             /\ EmissionsOf(events, id_(u)) = {}
             /\ id_(u) \notin IdsOf(completed) /\ id_(u) \notin IdsOf(active)
  <2>1. id_(u) \in IdsOf(pending)
    BY DEF IdsOf
  <2>2. pending[u] \in Slot
    BY <1>1
  <2>3. id_(u) \in Ids
    BY <2>2 DEF Slot
  <2>4. Explains(events, pending, active, completed, id_(u))
    BY <1>7, <2>3, ExplainedOne
  <2>5. StateAfter(events, id_(u), n) = "Queued"
    BY <2>1, <2>4 DEF Explains
  <2>6. EmissionsOf(events, id_(u)) = {}
    BY <1>7 DEF Unspoken
  <2>7. id_(u) \notin IdsOf(completed) /\ id_(u) \notin IdsOf(active)
    BY <2>1 DEF UniqueIds
  <2> QED BY <2>1, <2>3, <2>5, <2>6, <2>7
<1>9. \A id : EmissionsOf(longer, id) = EmissionsOf(events, id)
  <2>1. \A id : \A k \in DOMAIN new :
          new[k].id = id => new[k].state \notin {"Emit", "Queued"}
    BY <1>5
  <2> HIDE DEF new
  <2> QED BY <1>1, <2>1, QuietLogged
<1>10. CleanupsListed'
  <2>1. \A k \in DOMAIN new : new[k].state # "Cleanup"
    BY <1>5
  <2> HIDE DEF new
  <2> QED BY <1>1, <1>7, <2>1, CleanupsKept
<1>11. /\ DOMAIN active = 1..Len(active) /\ Len(active) \in Nat
       /\ DOMAIN held = 1..(Len(active) + Len(pending))
       /\ \A i \in 1..Len(active) : held[i] = active[i]
       /\ \A u \in 1..Len(pending) :
            held[Len(active) + u] = [pending[u] EXCEPT !.state = "Decode"]
  <2>1. /\ Admitted \in Seq(Slot) /\ Len(Admitted) = Len(pending)
        /\ \A i \in DOMAIN pending : Admitted[i] = [pending[i] EXCEPT !.state = "Decode"]
    BY AdmittedType
  <2>2. /\ DOMAIN active = 1..Len(active) /\ Len(active) \in Nat
        /\ DOMAIN held = 1..(Len(active) + Len(Admitted))
        /\ \A i \in 1..Len(active) : held[i] = active[i]
        /\ \A u \in 1..Len(Admitted) : held[Len(active) + u] = Admitted[u]
    <3> DEFINE entering == Admitted
    <3>1. entering \in Seq(Slot) /\ active \in Seq(Slot)
      BY <1>1, <2>1
    <3> HIDE DEF entering
    <3>2. /\ DOMAIN active = 1..Len(active) /\ Len(active) \in Nat
          /\ DOMAIN (active \o entering) = 1..(Len(active) + Len(entering))
          /\ \A i \in 1..Len(active) : (active \o entering)[i] = active[i]
          /\ \A u \in 1..Len(entering) : (active \o entering)[Len(active) + u] = entering[u]
      BY <3>1
    <3> QED BY <3>2 DEF entering
  <2> HIDE DEF held, n, new, m, longer, id_
  <2> QED BY <1>2, <2>1, <2>2
<1>12. ASSUME NEW u \in DOMAIN pending
       PROVE  /\ held[Len(active) + u].id = id_(u)
              /\ held[Len(active) + u].state = "Decode"
              /\ held[Len(active) + u].generated = <<>>
              /\ Len(active) + u \in DOMAIN held
  <2>1. pending[u] \in Slot /\ pending[u].generated = <<>>
    BY <1>1, <1>7 DEF Unspoken
  <2>2. held[Len(active) + u] = [pending[u] EXCEPT !.state = "Decode"]
    BY <1>2, <1>11
  <2>3. Len(active) + u \in DOMAIN held
    BY <1>2, <1>11
  <2> HIDE DEF held
  <2> QED BY <2>1, <2>2, <2>3 DEF Slot
<1>13. \A i \in DOMAIN held :
         \/ i \in DOMAIN active /\ held[i] = active[i]
         \/ \E u \in DOMAIN pending : i = Len(active) + u
  <2> SUFFICES ASSUME NEW i \in DOMAIN held, i \notin DOMAIN active
               PROVE  \E u \in DOMAIN pending : i = Len(active) + u
    BY <1>11
  <2>1. i - Len(active) \in 1..Len(pending) /\ i = Len(active) + (i - Len(active))
    BY <1>2, <1>11
  <2> QED BY <1>2, <2>1
<1> HIDE DEF n, new, m, longer, held, id_
<1>14. ASSUME NEW id, id \notin IdsOf(pending), NEW k \in n..(n + m)
       PROVE  StateAfter(longer, id, k) = StateAfter(events, id, n)
  <2>1. SameTo(longer, events, n)
    BY <1>2 DEF SameTo
  <2>2. \A j \in (n + 1)..k : longer[j].id # id
    <3> SUFFICES ASSUME NEW j \in (n + 1)..k PROVE longer[j].id # id
      OBVIOUS
    <3>1. j \in (n + 1)..(n + m)
      BY <1>2
    <3>2. PICK u \in DOMAIN pending : longer[j].id = id_(u)
      BY <1>4, <3>1
    <3> QED BY <1>8, <1>14, <3>2
  <2>3. SilentFrom(longer, id, n, k)
    BY <2>2 DEF SilentFrom
  <2>4. k \in Nat /\ n <= k
    BY <1>2
  <2> QED BY <1>2, <2>1, <2>3, <2>4, StateKept
<1>15. ASSUME NEW u \in DOMAIN pending
       PROVE  /\ StateAfter(longer, id_(u), n + (2 * u - 2)) = "Queued"
              /\ StateAfter(longer, id_(u), n + (2 * u - 1)) = "Prefill"
              /\ StateAfter(longer, id_(u), n + m) = "Decode"
  <2>0. /\ n \in Nat /\ m \in Nat /\ u \in Nat /\ u >= 1
        /\ 2 * u - 1 \in 1..m /\ 2 * u \in 1..m
    BY <1>2, <1>3
  <2>1. ASSUME NEW j \in (n + 1)..(n + m), longer[j].id = id_(u)
        PROVE  j = n + (2 * u - 1) \/ j = n + 2 * u
    <3>1. PICK v \in DOMAIN pending :
            (j = n + (2 * v - 1) \/ j = n + 2 * v) /\ longer[j].id = id_(v)
      BY <1>4
    <3>2. v = u
      BY <1>6, <2>1, <3>1
    <3> QED BY <3>1, <3>2
  <2>2. StateAfter(longer, id_(u), n + (2 * u - 2)) = "Queued"
    <3> DEFINE k == n + (2 * u - 2)
    <3>1. SameTo(longer, events, n)
      BY <1>2 DEF SameTo
    <3>2. ASSUME NEW j \in (n + 1)..k
          PROVE  longer[j].id # id_(u)
      <4>1. /\ j \in (n + 1)..(n + m)
            /\ j # n + (2 * u - 1) /\ j # n + 2 * u
        BY <2>0
      <4> QED BY <2>1, <4>1
    <3>3. SilentFrom(longer, id_(u), n, k)
      BY <3>2 DEF SilentFrom
    <3>4. k \in Nat /\ n <= k
      BY <2>0
    <3> HIDE DEF k
    <3>5. StateAfter(longer, id_(u), k) = StateAfter(events, id_(u), n)
      BY <2>0, <3>1, <3>3, <3>4, StateKept
    <3> QED BY <1>8, <3>5 DEF k
  <2>3. StateAfter(longer, id_(u), n + (2 * u - 1)) = "Prefill"
    <3> DEFINE k == n + (2 * u - 1)
    <3>1. /\ k \in Nat /\ k \in 1..k /\ \A j \in (k + 1)..k : longer[j].id # id_(u)
      BY <2>0
    <3>2. longer[k].id = id_(u) /\ longer[k].state = "Prefill"
      BY <1>3
    <3> HIDE DEF k
    <3>3. StateAfter(longer, id_(u), k) = longer[k].state
      BY <3>1, <3>2, LastState
    <3> QED BY <3>2, <3>3 DEF k
  <2>4. StateAfter(longer, id_(u), n + m) = "Decode"
    <3> DEFINE k == n + 2 * u
               last == n + m
    <3>1. /\ last \in Nat /\ k \in 1..last
      BY <2>0
    <3>2. ASSUME NEW j \in (k + 1)..last
          PROVE  longer[j].id # id_(u)
      <4>1. /\ j \in (n + 1)..(n + m)
            /\ j # n + (2 * u - 1) /\ j # n + 2 * u
        BY <2>0
      <4> QED BY <2>1, <4>1
    <3>3. longer[k].id = id_(u) /\ longer[k].state = "Decode"
      BY <1>3
    <3> HIDE DEF k, last
    <3>4. StateAfter(longer, id_(u), last) = longer[k].state
      BY <3>1, <3>2, <3>3, LastState
    <3> QED BY <3>3, <3>4 DEF last
  <2> QED BY <2>2, <2>3, <2>4
<1>16. Lifecycle'
  <2>1. ASSUME NEW k \in DOMAIN longer
        PROVE  Follows(StateAfter(longer, longer[k].id, k - 1), longer[k].state)
    <3>1. CASE k \in 1..n
      <4> DEFINE j == k - 1
      <4>1. j \in Nat /\ j <= j /\ k \in DOMAIN events /\ longer[k] = events[k]
        BY <1>2, <3>1
      <4>2. \A i \in 1..j : longer[i] = events[i]
        BY <1>2, <3>1
      <4>3. \A i \in (j + 1)..j : longer[i].id # longer[k].id
        BY <4>1
      <4> HIDE DEF j
      <4>4. SameTo(longer, events, j) /\ SilentFrom(longer, longer[k].id, j, j)
        BY <4>2, <4>3 DEF SameTo, SilentFrom
      <4>5. StateAfter(longer, longer[k].id, j) = StateAfter(events, longer[k].id, j)
        BY <4>1, <4>4, StateKept
      <4>6. Follows(StateAfter(events, events[k].id, j), events[k].state)
        BY <1>7, <4>1 DEF Lifecycle, j
      <4>7. Follows(StateAfter(longer, longer[k].id, j), longer[k].state)
        BY <4>1, <4>5, <4>6
      <4> QED BY <4>7 DEF j
    <3>2. CASE k \notin 1..n
      <4>1. k \in (n + 1)..(n + m)
        BY <1>2, <3>2
      <4>2. PICK u \in DOMAIN pending : k = n + (2 * u - 1) \/ k = n + 2 * u
        BY <1>4, <4>1
      <4>3. u \in Nat /\ n \in Nat
        BY <1>2
      <4>4. CASE k = n + (2 * u - 1)
        <5>1. k - 1 = n + (2 * u - 2)
          BY <4>3, <4>4
        <5>2. longer[k].id = id_(u) /\ longer[k].state = "Prefill"
          BY <1>3, <4>4
        <5>3. Follows("Queued", "Prefill")
          BY StepsTaken DEF Follows
        <5> QED BY <1>15, <5>1, <5>2, <5>3
      <4>5. CASE k = n + 2 * u
        <5>1. k - 1 = n + (2 * u - 1)
          BY <4>3, <4>5
        <5>2. longer[k].id = id_(u) /\ longer[k].state = "Decode"
          BY <1>3, <4>5
        <5>3. Follows("Prefill", "Decode")
          BY StepsTaken DEF Follows
        <5> QED BY <1>15, <5>1, <5>2, <5>3
      <4> QED BY <4>2, <4>4, <4>5
    <3> QED BY <3>1, <3>2
  <2> QED BY <2>1 DEF Lifecycle, longer
<1>17. ASSUME NEW id \in Ids
       PROVE  Explains(longer, pending', active', completed', id)
  <2>0. IdsOf(pending') = {} /\ Len(longer) = n + m
    BY <1>1, <1>2 DEF IdsOf
  <2>1. CASE id \in IdsOf(pending)
    <3>1. PICK u \in DOMAIN pending : id = id_(u)
      BY <2>1 DEF IdsOf, id_
    <3>2. StateAfter(longer, id, Len(longer)) = "Decode"
      BY <1>15, <2>0, <3>1
    <3>3. id \in IdsOf(active')
      BY <1>1, <1>12, <3>1 DEF IdsOf
    <3>4. id \notin IdsOf(completed')
      BY <1>1, <1>8, <3>1
    <3>5. ASSUME NEW i \in DOMAIN active', active'[i].id = id
          PROVE  active'[i].state = "Decode" /\ active'[i].generated = <<>>
      <4>1. ~(i \in DOMAIN active /\ held[i] = active[i])
        BY <1>1, <1>8, <3>1, <3>5 DEF IdsOf
      <4>2. PICK v \in DOMAIN pending : i = Len(active) + v
        BY <1>1, <1>13, <4>1
      <4> QED BY <1>1, <1>12, <4>2
    <3>6. Lists(<<>>, EmissionsOf(longer, id), [k \in DOMAIN longer |-> longer[k].token])
      <4>1. EmissionsOf(longer, id) = {}
        BY <1>8, <1>9, <3>1
      <4> QED BY <4>1, ListsNone
    <3> QED BY <2>0, <3>2, <3>3, <3>4, <3>5, <3>6 DEF Explains
  <2>2. CASE id \notin IdsOf(pending)
    <3>1. StateAfter(longer, id, Len(longer)) = StateAfter(events, id, Len(events))
      <4>1. n + m \in n..(n + m)
        BY <1>2
      <4>2. StateAfter(longer, id, n + m) = StateAfter(events, id, n)
        BY <1>14, <2>2, <4>1
      <4> QED BY <2>0, <4>2 DEF n
    <3>2. Extends(longer, events)
      <4>1. \A k \in 1..n : k \in 1..(n + m)
        BY <1>2
      <4> QED BY <1>2, <4>1 DEF Extends
    <3>3. \A i \in DOMAIN active' : active'[i].id = id =>
            \E j \in DOMAIN active : active'[i] = active[j]
      <4> SUFFICES ASSUME NEW i \in DOMAIN active', active'[i].id = id
                   PROVE  \E j \in DOMAIN active : active'[i] = active[j]
        OBVIOUS
      <4>1. ASSUME NEW u \in DOMAIN pending, i = Len(active) + u
            PROVE  FALSE
        BY <1>1, <1>8, <1>12, <2>2, <4>1
      <4> QED BY <1>1, <1>13, <4>1
    <3>4. IdsOf(active) \subseteq IdsOf(active')
      <4>1. \A i \in DOMAIN active : i \in DOMAIN held
        BY <1>2, <1>11
      <4> QED BY <1>1, <1>11, <4>1 DEF IdsOf
    <3>5. Aside(pending, pending', active, active', completed, completed', id)
      BY <1>1, <2>0, <2>2, <3>3, <3>4 DEF Aside
    <3>6. Explains(events, pending, active, completed, id)
      BY <1>7, ExplainedOne
    <3>7. EmissionsOf(longer, id) = EmissionsOf(events, id)
      BY <1>9
    <3> QED BY <3>1, <3>2, <3>5, <3>6, <3>7, ExplainedAsBefore
  <2> QED BY <2>1, <2>2
<1>18. EventsExplainState'
  BY <1>10, <1>17, ExplainedOne DEF longer
<1>19. Unspoken'
  BY <1>1 DEF Unspoken
<1> QED BY <1>16, <1>18, <1>19 DEF HistoryInv

\* HistoryInv is inductive.
LEMMA HistoryStep ==
  ASSUME TypeOK, UniqueIds, DecodesToTokens, HistoryInv, [Next]_vars
  PROVE  HistoryInv'
<1>1. CASE UNCHANGED <<queues, history>>
  BY <1>1 DEF queues, history, HistoryInv, Lifecycle, EventsExplainState, Unspoken
<1>2. CASE Client
  <2>1. ASSUME NEW r \in Request, Submit(r)
        PROVE  HistoryInv'
    BY <2>1, HistoryBegins, HistorySubmits
  <2>2. ASSUME NEW id \in Ids, CancelPending(id) \/ CancelActive(id)
        PROVE  HistoryInv'
    BY <2>2, HistoryCancelsPending, HistoryCancelsActive
  <2>3. CASE StartRun
    BY <2>3, HistoryAdmits
  <2> QED BY <1>1, <1>2, <2>1, <2>2, <2>3 DEF Client, RejectSubmit, RejectCancel
<1>3. CASE Iteration
  BY <1>3, HistoryReaps, HistoryTurns, HistoryCompletes, HistoryFails, HistoryFinishes
     DEF Iteration
<1> QED BY <1>1, <1>2, <1>3 DEF Next, vars

\* No history explains empty queues.
LEMMA HistoryInit ==
  ASSUME Init
  PROVE  HistoryInv
<1>1. /\ DOMAIN events = {} /\ Len(events) = 0 /\ cleanup_log = <<>>
      /\ DOMAIN pending = {} /\ DOMAIN active = {} /\ DOMAIN completed = {}
  BY DEF Init
<1>2. \A id : StateAfter(events, id, 0) = "Cleanup"
  BY DEF StateAfter
<1>3. IdsOf(pending) = {} /\ IdsOf(active) = {} /\ IdsOf(completed) = {}
  BY <1>1 DEF IdsOf
<1>4. \A id \in Ids : Explains(events, pending, active, completed, id)
  BY <1>1, <1>2, <1>3 DEF Explains
<1>5. CleanupsListed
  <2>1. CleanupsIn(events) = {}
    BY <1>1 DEF CleanupsIn
  <2> QED BY <1>1, <2>1, ListsNone DEF CleanupsListed
<1>6. Lifecycle /\ Unspoken
  BY <1>1 DEF Lifecycle, Unspoken
<1> QED BY <1>4, <1>5, <1>6, ExplainedOne DEF HistoryInv

\* The scheduler's history is one.
LEMMA HistoryAlways ==
  ASSUME DecodesToTokens
  PROVE  Spec => []HistoryInv
<1>1. Init => HistoryInv
  BY HistoryInit
<1>2. TypeOK /\ UniqueIds /\ HistoryInv /\ [Next]_vars => HistoryInv'
  BY HistoryStep
<1>3. Spec => []TypeOK
  BY TypeCorrect
<1>4. Spec => []UniqueIds
  BY UniqueIdsAlways
<1> QED BY <1>1, <1>2, <1>3, <1>4, PTL DEF Spec

\* Each id's history walks the state machine, life after life, and no life is
\* left before its cleanup but one the model failed on.
THEOREM LifecycleAlways ==
  ASSUME DecodesToTokens
  PROVE  Spec => []Lifecycle
<1>1. HistoryInv => Lifecycle
  BY DEF HistoryInv
<1> QED BY <1>1, HistoryAlways, PTL

\* The history alone tells who is pending, active or canceled, every slot's
\* tokens, and the cleanup log.
THEOREM EventsExplainStateAlways ==
  ASSUME DecodesToTokens
  PROVE  Spec => []EventsExplainState
<1>1. HistoryInv => EventsExplainState
  BY DEF HistoryInv
<1> QED BY <1>1, HistoryAlways, PTL

-----------------------------------------------------------------------------
(***************************************************************************)
(* Responses in the order of submission.                                   *)
(***************************************************************************)

\* Entries other than emissions carry no token, and a finished id has entries.
Plain(log) ==
  \A k \in DOMAIN log : log[k].state = "Emit" \/ log[k] = Mark(log[k].id, log[k].state)
Logs(log, id) == \E k \in DOMAIN log : log[k].id = id
EntriesInv == Plain(events) /\ \A id \in IdsOf(completed) : Logs(events, id)

\* Plain entries of whoever finishes keep EntriesInv.
LEMMA EntriesLogged ==
  ASSUME EntriesInv, NEW new \in Seq(Event), events \in Seq(Event),
         events' = events \o new, Plain(new),
         \A id \in IdsOf(completed') : id \in IdsOf(completed) \/ Logs(new, id)
  PROVE  EntriesInv'
<1>1. /\ \A k \in DOMAIN events : k \in DOMAIN events' /\ events'[k] = events[k]
      /\ \A k \in DOMAIN new :
           Len(events) + k \in DOMAIN events' /\ events'[Len(events) + k] = new[k]
      /\ \A k \in DOMAIN events' :
           \/ k \in DOMAIN events
           \/ k - Len(events) \in DOMAIN new /\ events'[k] = new[k - Len(events)]
  BY Logged
<1>2. ASSUME NEW k \in DOMAIN events'
      PROVE  \/ events'[k].state = "Emit"
             \/ events'[k] = Mark(events'[k].id, events'[k].state)
  <2>1. CASE k \in DOMAIN events
    BY <1>1, <2>1 DEF EntriesInv, Plain
  <2>2. CASE k - Len(events) \in DOMAIN new /\ events'[k] = new[k - Len(events)]
    BY <2>2 DEF Plain
  <2> QED BY <1>1, <2>1, <2>2
<1>3. Plain(events')
  BY <1>2 DEF Plain
<1>4. ASSUME NEW id, Logs(events, id) \/ Logs(new, id)
      PROVE  Logs(events', id)
  <2>1. CASE Logs(events, id)
    BY <1>1, <2>1 DEF Logs
  <2>2. CASE Logs(new, id)
    <3>1. PICK k \in DOMAIN new : new[k].id = id
      BY <2>2 DEF Logs
    <3>2. Len(events) + k \in DOMAIN events' /\ events'[Len(events) + k] = new[k]
      BY <1>1
    <3> QED BY <3>1, <3>2 DEF Logs
  <2> QED BY <1>4, <2>1, <2>2
<1>5. \A id \in IdsOf(completed') : Logs(events', id)
  BY <1>4 DEF EntriesInv
<1> QED BY <1>3, <1>5 DEF EntriesInv

\* What calls and turns log is plain.
LEMMA PlainEntries ==
  ASSUME NEW id, NEW token, NEW s, NEW t
  PROVE  /\ Plain(<<Mark(id, s)>>) /\ Plain(<<Mark(id, s), Mark(id, t)>>)
         /\ Plain(<<Emission(id, token), Mark(id, s)>>)
         /\ Plain(<<Emission(id, token), Mark(id, s), Mark(id, t)>>)
         /\ Logs(<<Emission(id, token), Mark(id, s), Mark(id, t)>>, id)
<1> DEFINE IsPlain(x) == x.state = "Emit" \/ x = Mark(x.id, x.state)
           a == Emission(id, token)
           b == Mark(id, s)
           c == Mark(id, t)
<1>1. a.id = id /\ IsPlain(a) /\ IsPlain(b) /\ IsPlain(c)
  BY DEF Emission, Mark
<1> HIDE DEF IsPlain, a, b, c
<1>2. /\ \A k \in DOMAIN <<b>> : <<b>>[k] = b
      /\ \A k \in DOMAIN <<b, c>> : <<b, c>>[k] \in {b, c}
      /\ \A k \in DOMAIN <<a, b>> : <<a, b>>[k] \in {a, b}
      /\ \A k \in DOMAIN <<a, b, c>> : <<a, b, c>>[k] \in {a, b, c}
      /\ 1 \in DOMAIN <<a, b, c>> /\ <<a, b, c>>[1] = a
  OBVIOUS
<1>3. /\ \A k \in DOMAIN <<b>> : IsPlain(<<b>>[k])
      /\ \A k \in DOMAIN <<b, c>> : IsPlain(<<b, c>>[k])
      /\ \A k \in DOMAIN <<a, b>> : IsPlain(<<a, b>>[k])
      /\ \A k \in DOMAIN <<a, b, c>> : IsPlain(<<a, b, c>>[k])
  BY <1>1, <1>2
<1>4. Plain(<<b>>) /\ Plain(<<b, c>>) /\ Plain(<<a, b>>) /\ Plain(<<a, b, c>>)
  BY <1>3 DEF Plain, IsPlain
<1>5. Logs(<<a, b, c>>, id)
  BY <1>1, <1>2 DEF Logs
<1> QED BY <1>4, <1>5 DEF a, b, c

\* EntriesInv is inductive.
LEMMA EntriesStep ==
  ASSUME TypeOK, TypeOK', DecodesToTokens, UniqueIds, EntriesInv, [Next]_vars
  PROVE  EntriesInv'
<1>0. /\ events \in Seq(Event) /\ active \in Seq(Slot) /\ completed \in Seq(Response)
      /\ pending \in Seq(Slot)
  BY DEF TypeOK
<1>1. ASSUME events' = events, IdsOf(completed') \subseteq IdsOf(completed)
      PROVE  EntriesInv'
  BY <1>1 DEF EntriesInv
<1>2. ASSUME NEW new \in Seq(Event), events' = events \o new, Plain(new),
             completed' = completed
      PROVE  EntriesInv'
  BY <1>0, <1>2, EntriesLogged
<1>3. ASSUME NEW r \in Request, Submit(r)
      PROVE  EntriesInv'
  <2> DEFINE new == <<Mark(r.id, "Queued")>>
  <2>1. new \in Seq(Event) /\ Plain(new)
    <3>1. Mark(r.id, "Queued") \in Event
      BY EventTypes, StateNames DEF Request
    <3>2. new \in Seq(Event)
      BY <3>1
    <3>3. Plain(new)
      BY PlainEntries
    <3> QED BY <3>2, <3>3
  <2>2. completed' = completed
    BY <1>3 DEF Submit
  <2>3. CASE Idle
    <3>1. events' = new /\ completed' = <<>>
      BY <1>3, <2>3 DEF Submit, Continue, Idle
    <3>2. IdsOf(completed') = {}
      BY <3>1 DEF IdsOf
    <3> QED BY <2>1, <3>1, <3>2 DEF EntriesInv
  <2>4. CASE ~Idle
    <3>1. events' = events \o new
      BY <1>0, <1>3, <2>4, AppendIsConcat DEF Submit, Continue
    <3> QED BY <1>2, <2>1, <2>2, <3>1
  <2> QED BY <2>3, <2>4
<1>4. ASSUME NEW id \in Ids, CancelPending(id) \/ CancelActive(id)
      PROVE  EntriesInv'
  <2> DEFINE one == <<Mark(id, "Canceled")>>
             two == <<Mark(id, "Canceled"), Mark(id, "Cleanup")>>
  <2>1. one \in Seq(Event) /\ two \in Seq(Event) /\ Plain(one) /\ Plain(two)
    <3>1. Mark(id, "Canceled") \in Event /\ Mark(id, "Cleanup") \in Event
      BY EventTypes, StateNames
    <3>2. one \in Seq(Event) /\ two \in Seq(Event)
      BY <3>1
    <3>3. Plain(one) /\ Plain(two)
      BY PlainEntries
    <3> QED BY <3>2, <3>3
  <2>2. completed' = completed /\ (events' = events \o two \/ events' = events \o one)
    <3>1. CASE CancelPending(id)
      BY <3>1 DEF CancelPending
    <3>2. CASE CancelActive(id)
      <4>1. completed' = completed /\ events' = Append(events, Mark(id, "Canceled"))
        BY <3>2 DEF CancelActive
      <4> QED BY <1>0, <2>1, <4>1, AppendIsConcat
    <3> QED BY <1>4, <3>1, <3>2
  <2> HIDE DEF one, two
  <2> QED BY <1>2, <2>1, <2>2
<1>5. CASE StartRun
  <2>1. AdmissionEvents \in Seq(Event) /\ completed' = completed
        /\ events' = events \o AdmissionEvents
    BY <1>5, AdmittedType DEF StartRun
  <2>2. \A k \in DOMAIN AdmissionEvents :
          AdmissionEvents[k] = Mark(AdmissionEvents[k].id, AdmissionEvents[k].state)
    <3> SUFFICES ASSUME NEW k \in DOMAIN AdmissionEvents
                 PROVE  AdmissionEvents[k]
                          = Mark(AdmissionEvents[k].id, AdmissionEvents[k].state)
      OBVIOUS
    <3>1. PICK id, s : AdmissionEvents[k] = Mark(id, s)
      <4>1. PICK u \in DOMAIN pending : k = 2 * u - 1 \/ k = 2 * u
        BY AdmissionOf
      <4>2. /\ AdmissionEvents[2 * u - 1] = Mark(pending[u].id, "Prefill")
            /\ AdmissionEvents[2 * u] = Mark(pending[u].id, "Decode")
        BY AdmissionOf
      <4> QED BY <4>1, <4>2
    <3> QED BY <3>1 DEF Mark
  <2>3. Plain(AdmissionEvents)
    BY <2>2 DEF Plain
  <2> QED BY <1>2, <2>1, <2>3
<1>6. ASSUME ReapCanceled \/ EmitAndRequeue
      PROVE  EntriesInv'
  <2> DEFINE h == Head(active).id
             reaped == <<Mark(h, "Cleanup")>>
             turned == <<Emission(h, NextToken), Mark(h, "Decode")>>
  <2>1. active # <<>>
    BY <1>6 DEF ReapCanceled, EmitAndRequeue, Turn
  <2>2. Head(active) \in Slot
    BY <1>0, <2>1
  <2>3. h \in Ids
    BY <2>2 DEF Slot
  <2>4. /\ reaped \in Seq(Event) /\ turned \in Seq(Event)
        /\ Plain(reaped) /\ Plain(turned)
    <3>1. /\ Mark(h, "Cleanup") \in Event /\ Mark(h, "Decode") \in Event
          /\ Emission(h, NextToken) \in Event
      BY <2>1, <2>3, EventTypes, StateNames, NextTokenType
    <3> HIDE DEF h
    <3>2. reaped \in Seq(Event) /\ turned \in Seq(Event)
      BY <3>1
    <3> QED BY <3>2, PlainEntries
  <2>5. completed' = completed /\ (events' = events \o reaped \/ events' = events \o turned)
    <3>1. CASE ReapCanceled
      <4>1. completed' = completed /\ events' = Append(events, Mark(h, "Cleanup"))
        BY <3>1 DEF ReapCanceled
      <4> QED BY <1>0, <2>4, <4>1, AppendIsConcat
    <3>2. CASE EmitAndRequeue
      BY <3>2 DEF EmitAndRequeue
    <3> QED BY <1>6, <3>1, <3>2
  <2> HIDE DEF reaped, turned
  <2> QED BY <1>2, <2>4, <2>5
<1>7. CASE EmitAndComplete
  <2> DEFINE h == Head(active).id
             new == <<Emission(h, NextToken), Mark(h, "Complete"), Mark(h, "Cleanup")>>
             response == [id |-> h, tokens |-> Append(Head(active).generated, NextToken)]
  <2>1. /\ active # <<>> /\ events' = events \o new
        /\ completed' = Append(completed, response)
    BY <1>7 DEF EmitAndComplete, Turn
  <2>2. Head(active) \in Slot
    BY <1>0, <2>1
  <2>3. h \in Ids
    BY <2>2 DEF Slot
  <2>4. new \in Seq(Event) /\ Plain(new) /\ Logs(new, h)
    <3>1. /\ Mark(h, "Complete") \in Event /\ Mark(h, "Cleanup") \in Event
          /\ Emission(h, NextToken) \in Event
      BY <2>1, <2>3, EventTypes, StateNames, NextTokenType
    <3> HIDE DEF h
    <3>2. new \in Seq(Event)
      BY <3>1
    <3> QED BY <3>2, PlainEntries
  <2>5. response.id = h
    OBVIOUS
  <2> HIDE DEF response, new, h
  <2>6. \A i \in DOMAIN completed' :
          (i \in DOMAIN completed /\ completed'[i] = completed[i]) \/ completed'[i] = response
    BY <1>0, <2>1
  <2>7. \A id \in IdsOf(completed') : id \in IdsOf(completed) \/ Logs(new, id)
    BY <2>4, <2>5, <2>6 DEF IdsOf
  <2> QED BY <1>0, <2>1, <2>4, <2>7, EntriesLogged
<1>8. CASE FinishRun
  <2>1. events' = events /\ completed' = <<>>
    BY <1>8 DEF FinishRun, history
  <2> QED BY <1>1, <2>1 DEF IdsOf
<1>9. CASE UNCHANGED <<events, completed>>
  BY <1>1, <1>9
<1>10. CASE DecodeFails
  BY <1>9, <1>10 DEF DecodeFails, history
<1>11. \/ \E r \in Request : Submit(r)
       \/ \E id \in Ids : CancelPending(id) \/ CancelActive(id)
       \/ StartRun \/ ReapCanceled \/ DecodeFails \/ EmitAndRequeue
       \/ EmitAndComplete \/ FinishRun
       \/ UNCHANGED <<events, completed>>
  BY DEF Next, Client, Iteration, vars, RejectSubmit, RejectCancel, queues, history
<1> QED BY <1>3, <1>4, <1>5, <1>6, <1>7, <1>8, <1>9, <1>10, <1>11

\* An id first appears in the history where it was submitted.
LEMMA FirstIsSubmission ==
  ASSUME events \in Seq(Event), Lifecycle, EntriesInv, NEW id, Logs(events, id)
  PROVE  /\ FirstEvent(id) \in Submissions(id)
         /\ FirstEvent(id) \in Nat /\ events[FirstEvent(id)].id = id
<1> DEFINE mine == {i \in 1..Len(events) : events[i].id = id}
           f == Min(mine)
<1>1. /\ Len(events) \in Nat /\ DOMAIN events = 1..Len(events)
      /\ mine \subseteq 1..Len(events) /\ mine # {}
  BY DEF Logs
<1>2. FirstEvent(id) = f
  BY <1>1 DEF FirstEvent, SelectInSeq
<1>3. f \in mine /\ \A x \in mine : f <= x
  BY <1>1, Extremes
<1>4. f \in 1..Len(events) /\ events[f].id = id
  BY <1>3
<1>5. StateAfter(events, id, f - 1) = "Cleanup"
  <2>1. \A k \in 1..(f - 1) : k \in 1..Len(events) /\ ~(f <= k)
    BY <1>1, <1>4
  <2>2. {k \in 1..(f - 1) : events[k].id = id} = {}
    BY <1>3, <2>1
  <2> HIDE DEF f
  <2> QED BY <2>2 DEF StateAfter
<1> HIDE DEF f, mine
<1>6. Follows("Cleanup", events[f].state)
  BY <1>1, <1>4, <1>5 DEF Lifecycle
<1>7. events[f].state = "Queued"
  BY <1>6 DEF Follows, CanGo, Transitions, Live
<1>8. events[f] = Mark(id, "Queued")
  BY <1>1, <1>4, <1>7 DEF EntriesInv, Plain
<1> QED BY <1>1, <1>2, <1>4, <1>8 DEF Submissions

\* A set with one element at most has no second.
LEMMA OnlyOne ==
  ASSUME NEW S, IsFiniteSet(S), Cardinality(S) <= 1, NEW x \in S, NEW y \in S
  PROVE  x = y
<1> SUFFICES ASSUME x # y PROVE FALSE
  OBVIOUS
<1>1. Cardinality({x}) = 1 /\ IsFiniteSet({x})
  BY FS_Singleton
<1>2. Cardinality({x} \cup {y}) = Cardinality({x}) + 1 /\ IsFiniteSet({x} \cup {y})
  BY <1>1, FS_AddElement
<1>3. {x} \cup {y} \subseteq S
  OBVIOUS
<1>4. Cardinality({x} \cup {y}) <= Cardinality(S) /\ Cardinality(S) \in Nat
  BY <1>3, FS_Subset, FS_CardinalityType
<1> QED BY <1>1, <1>2, <1>4

\* A batch's responses are in the order of submission.
LEMMA FinishInOrder ==
  ASSUME TypeOK, UniqueIds, HistoryInv, EntriesInv, FinishRun,
         \A id \in Ids : Cardinality(Submissions(id)) <= 1
  PROVE  \A i, j \in DOMAIN responses' :
           i < j => SubmittedBefore(responses'[i].id, responses'[j].id)
<1>0. /\ events \in Seq(Event) /\ completed \in Seq(Response) /\ Lifecycle
      /\ Distinct(completed)
  BY DEF TypeOK, HistoryInv, UniqueIds
<1>1. PICK order \in Bijection(DOMAIN completed, DOMAIN completed) :
        /\ \A i, j \in DOMAIN completed :
             i < j => FirstEvent(completed[order[i]].id)
                      <= FirstEvent(completed[order[j]].id)
        /\ responses' = [i \in DOMAIN completed |-> completed[order[i]]]
  BY DEF FinishRun
<1>2. /\ \A i \in DOMAIN completed : order[i] \in DOMAIN completed
      /\ \A i, j \in DOMAIN completed : order[i] = order[j] => i = j
  <2>1. order \in [DOMAIN completed -> DOMAIN completed]
    BY DEF Bijection, Injection
  <2>2. \A i, j \in DOMAIN completed : order[i] = order[j] => i = j
    BY DEF Bijection, Injection, IsInjective
  <2> QED BY <2>1, <2>2
<1>3. ASSUME NEW id \in IdsOf(completed)
      PROVE  /\ id \in Ids /\ FirstEvent(id) \in Nat /\ events[FirstEvent(id)].id = id
             /\ FirstEvent(id) \in Submissions(id)
             /\ \A k \in Submissions(id) : k = FirstEvent(id)
  <2>1. PICK i \in DOMAIN completed : id = completed[i].id
    BY DEF IdsOf
  <2>2. completed[i] \in Response
    BY <1>0
  <2>3. id \in Ids
    BY <2>1, <2>2 DEF Response
  <2>4. /\ FirstEvent(id) \in Nat /\ events[FirstEvent(id)].id = id
        /\ FirstEvent(id) \in Submissions(id)
    BY <1>0, FirstIsSubmission DEF EntriesInv
  <2>5. IsFiniteSet(Submissions(id))
    <3>1. Submissions(id) \subseteq 1..Len(events) /\ Len(events) \in Nat
      BY <1>0 DEF Submissions
    <3>2. IsFiniteSet(1..Len(events))
      BY <3>1, FS_Interval
    <3> QED BY <3>1, <3>2, FS_Subset
  <2>6. Cardinality(Submissions(id)) <= 1
    BY <2>3
  <2> QED BY <2>3, <2>4, <2>5, <2>6, OnlyOne
<1>4. ASSUME NEW i \in DOMAIN responses', NEW j \in DOMAIN responses', i < j
      PROVE  SubmittedBefore(responses'[i].id, responses'[j].id)
  <2> DEFINE a == completed[order[i]].id
             b == completed[order[j]].id
  <2>1. /\ responses'[i].id = a /\ responses'[j].id = b
        /\ i \in DOMAIN completed /\ j \in DOMAIN completed /\ i # j
        /\ FirstEvent(a) <= FirstEvent(b)
    <3>1. i \in DOMAIN completed /\ j \in DOMAIN completed
      BY <1>1
    <3>2. i # j
      BY <1>0, <1>4, <3>1
    <3> QED BY <1>1, <1>4, <3>1, <3>2
  <2>2. a \in IdsOf(completed) /\ b \in IdsOf(completed)
    BY <1>2, <2>1 DEF IdsOf
  <2>3. a # b
    BY <1>0, <1>2, <2>1 DEF Distinct
  <2> HIDE DEF a, b
  <2>4. FirstEvent(a) < FirstEvent(b)
    BY <1>3, <2>1, <2>2, <2>3
  <2>5. SubmittedBefore(a, b)
    BY <1>3, <2>2, <2>4 DEF SubmittedBefore
  <2> QED BY <2>1, <2>5
<1> QED BY <1>4

\* A run returns its responses in the order of submission, when no id was
\* submitted twice within the batch.
THEOREM ReturnInSubmissionOrderAlways ==
  ASSUME DecodesToTokens
  PROVE  Spec => ReturnInSubmissionOrder
<1>1. Init => EntriesInv
  <2> SUFFICES ASSUME Init PROVE EntriesInv
    OBVIOUS
  <2>1. DOMAIN events = {} /\ DOMAIN completed = {}
    BY DEF Init
  <2> QED BY <2>1 DEF EntriesInv, Plain, IdsOf
<1>2. TypeOK /\ TypeOK' /\ UniqueIds /\ EntriesInv /\ [Next]_vars => EntriesInv'
  BY EntriesStep
<1>3. TypeOK /\ UniqueIds /\ HistoryInv /\ EntriesInv /\ [Next]_vars =>
        [Returns /\ (\A id \in Ids : Cardinality(Submissions(id)) <= 1)
         => \A i, j \in DOMAIN responses' :
              i < j => SubmittedBefore(responses'[i].id, responses'[j].id)]_vars
  <2> SUFFICES ASSUME TypeOK, UniqueIds, HistoryInv, EntriesInv, [Next]_vars, Returns,
                      \A id \in Ids : Cardinality(Submissions(id)) <= 1
               PROVE  \A i, j \in DOMAIN responses' :
                        i < j => SubmittedBefore(responses'[i].id, responses'[j].id)
    OBVIOUS
  <2>1. FinishRun
    BY DEF Returns, Next, Client, Iteration, vars, Submit, RejectSubmit, CancelPending,
           CancelActive, RejectCancel, StartRun, ReapCanceled, EmitAndRequeue,
           EmitAndComplete, DecodeFails, Turn
  <2> QED BY <2>1, FinishInOrder
<1>4. Spec => []TypeOK
  BY TypeCorrect
<1>5. Spec => []UniqueIds
  BY UniqueIdsAlways
<1>6. Spec => []HistoryInv
  BY HistoryAlways
<1> QED BY <1>1, <1>2, <1>3, <1>4, <1>5, <1>6, PTL DEF Spec, ReturnInSubmissionOrder
=============================================================================
