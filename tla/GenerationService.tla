-------------------------- MODULE GenerationService --------------------------
(***************************************************************************)
(* What the runtime's batch scheduler promises its caller, without queues, *)
(* slots, states or events: a set of jobs that advance independently, each *)
(* by greedy decode of its own context, and are handed over together.      *)
(***************************************************************************)
EXTENDS Integers, Sequences, FiniteSets

CONSTANTS Ids, Prompts, MaxNews, DecodeOne(_), MayFail, Capacity, None

VARIABLES
  job,        \* per id: the prompt, the tokens wanted and got; or None
  serving,    \* is a batch being served?
  delivered   \* the answers handed over last

serviceVars == <<job, serving, delivered>>

Busy(id) == job[id] # None
Finished(id) == Busy(id) /\ Len(job[id].got) = job[id].wanted
Unfinished == {id \in Ids : Busy(id) /\ ~Finished(id)}

Accept(id, prompt, wanted) ==
  /\ ~serving
  /\ ~Busy(id)
  /\ Cardinality(Unfinished) < Capacity
  /\ job' = [job EXCEPT ![id] = [prompt |-> prompt, wanted |-> wanted,
                                 got |-> <<>>]]
  /\ UNCHANGED <<serving, delivered>>

Withdraw(id) ==
  /\ ~serving
  /\ id \in Unfinished
  /\ job' = [job EXCEPT ![id] = None]
  /\ UNCHANGED <<serving, delivered>>

Begin ==
  /\ ~serving
  /\ serving' = TRUE
  /\ UNCHANGED <<job, delivered>>

\* A job's next token depends on that job alone
Advance(id) ==
  /\ serving
  /\ id \in Unfinished
  /\ job' = [job EXCEPT ![id].got =
               Append(@, DecodeOne(job[id].prompt \o job[id].got))]
  /\ UNCHANGED <<serving, delivered>>

\* A decode error costs the job it hit, and no other
Abort(id) ==
  /\ MayFail
  /\ serving
  /\ id \in Unfinished
  /\ job' = [job EXCEPT ![id] = None]
  /\ serving' = FALSE
  /\ UNCHANGED delivered

Deliver ==
  /\ serving
  /\ Unfinished = {}
  /\ delivered' = {[id |-> id, tokens |-> job[id].got] :
                     id \in {i \in Ids : Busy(i)}}
  /\ job' = [id \in Ids |-> None]
  /\ serving' = FALSE

ServiceInit ==
  /\ job = [id \in Ids |-> None]
  /\ serving = FALSE
  /\ delivered = {}

ServiceNext ==
  \/ Begin
  \/ Deliver
  \/ \E id \in Ids :
       \/ \E prompt \in Prompts \ {<<>>}, wanted \in MaxNews \ {0} :
            Accept(id, prompt, wanted)
       \/ Withdraw(id)
       \/ Advance(id)
       \/ Abort(id)

ServiceSpec == ServiceInit /\ [][ServiceNext]_serviceVars
=============================================================================
