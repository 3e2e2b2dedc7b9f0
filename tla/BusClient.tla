------------------------------- MODULE BusClient -------------------------------
(***************************************************************************)
(* BOB's client of the message bus (bob-orchestrator/app/bus_client.py)    *)
(* and the circuit breaker in front of it (app/circuit_breaker.py).        *)
(* Coroutines of one process call it: a request is tried up to             *)
(* MAX_RETRIES + 1 times, a write that fails goes to an offline queue in   *)
(* SQLite, and a background loop drains the queue in the order of its ids. *)
(* The bus carries a request out before it answers, and the answer may be  *)
(* lost.                                                                   *)
(***************************************************************************)
EXTENDS Integers

CONSTANTS
  Writes,       \* writes BOB makes, each once
  Reads,        \* reads BOB makes, each once
  Refused,      \* the writes the bus answers with a 4xx
  Threshold,    \* failure_threshold
  MAX_RETRIES,
  MaxFaults     \* bound on failed attempts and restarts

Requests == Writes \cup Reads

ASSUME RequestsAssumption  == Writes \cap Reads = {} /\ Refused \subseteq Writes
ASSUME ThresholdAssumption == Threshold \in Nat \ {0}
ASSUME RetriesAssumption   == MAX_RETRIES \in Nat
ASSUME FaultsAssumption    == MaxFaults \in Nat

VARIABLES
  breaker,    \* State of the breaker
  failures,   \* failure_count
  cooling,    \* cooldown_seconds have not passed since last_failure_time
  call,       \* [Requests -> where its coroutine is, and the attempt it is at]
  pending,    \* writes with a row in pending_requests
  id,         \* [Writes -> id of its row, 0 before it has one]
  nextId,     \* the next AUTOINCREMENT id
  rest,       \* the rows the drain in progress has selected and not dealt with
  arrived,    \* of those, the one the bus has carried out
  answered,   \* and the one it has answered
  times,      \* history: [Writes -> how often the bus has carried it out]
  unheeded,   \* history: [Writes -> how often it did so to no effect on the client]
  swallowed,  \* history: writes _enqueue has failed to store
  faults      \* how many faults have happened

circuit == <<breaker, failures, cooling>>
table   == <<pending, id, nextId>>
drain   == <<rest, arrived, answered>>
history == <<times, unheeded, swallowed>>
vars    == <<circuit, call, table, drain, history, faults>>

PC == {"new", "trying", "arrived", "answered", "queued", "raised", "gone"}

At(pc, n) == [pc |-> pc, attempt |-> n]
InFlight(r) == call[r].pc \in {"trying", "arrived"}

Init ==
  /\ breaker    = "CLOSED"
  /\ failures   = 0
  /\ cooling    = FALSE
  /\ call       = [r \in Requests |-> At("new", 0)]
  /\ pending    = {}
  /\ id         = [w \in Writes |-> 0]
  /\ nextId     = 1
  /\ rest       = {}
  /\ arrived    = {}
  /\ answered   = {}
  /\ times      = [w \in Writes |-> 0]
  /\ unheeded   = [w \in Writes |-> 0]
  /\ swallowed  = {}
  /\ faults     = 0

Faulty == faults < MaxFaults /\ faults' = faults + 1

CarriedOut(r) ==
  times' = IF r \in Writes THEN [times EXCEPT ![r] = @ + 1] ELSE times

\* The bus has carried the write out, and the client does not take note: the
\* answer is lost or cannot be read, or the row is not deleted after it.
Unheeded(r) ==
  unheeded' = IF r \in Writes THEN [unheeded EXCEPT ![r] = @ + 1] ELSE unheeded

(***************************************************************************)
(* The circuit breaker                                                     *)
(***************************************************************************)
can_execute == breaker # "OPEN" \/ ~cooling

record_success ==
  /\ breaker'  = "CLOSED"
  /\ failures' = 0
  /\ UNCHANGED cooling

\* Mutant: the circuit opens one failure late.
record_failureLate ==
  /\ failures' = failures + 1
  /\ cooling'  = TRUE
  /\ breaker'  = IF failures' > Threshold THEN "OPEN" ELSE breaker

record_failure ==
  /\ failures' = failures + 1
  /\ cooling'  = TRUE
  /\ breaker'  = IF failures' >= Threshold THEN "OPEN" ELSE breaker

\* cooldown_seconds pass.
Cooled ==
  /\ cooling
  /\ cooling' = FALSE
  /\ UNCHANGED <<breaker, failures, call, table, drain, history, faults>>

(***************************************************************************)
(* _enqueue logs an error of the queue database and returns as if the      *)
(* write were stored.                                                      *)
(***************************************************************************)
enqueue(w) ==
  \/ /\ pending' = pending \cup {w}
     /\ id'      = [id EXCEPT ![w] = nextId]
     /\ nextId'  = nextId + 1
     /\ UNCHANGED swallowed
  \/ /\ swallowed' = swallowed \cup {w}
     /\ UNCHANGED table

(***************************************************************************)
(* _write_request and _read_request                                        *)
(***************************************************************************)
Begin(r) ==
  /\ call[r].pc = "new"
  /\ can_execute
  /\ breaker' = IF breaker = "OPEN" THEN "HALF_OPEN" ELSE breaker
  /\ call'    = [call EXCEPT ![r] = At("trying", 0)]
  /\ UNCHANGED <<failures, cooling, table, drain, history, faults>>

\* How a call ends that is not answered: a write is queued, a read raises.
Deferred(r) ==
  IF r \in Writes
    THEN call' = [call EXCEPT ![r] = At("queued", 0)] /\ enqueue(r)
    ELSE call' = [call EXCEPT ![r] = At("raised", 0)] /\ UNCHANGED <<table, swallowed>>

FailFast(r) ==
  /\ call[r].pc = "new"
  /\ ~can_execute
  /\ Deferred(r)
  /\ UNCHANGED <<circuit, drain, times, unheeded, faults>>

Arrive(r) ==
  /\ call[r].pc = "trying"
  /\ r \notin Refused
  /\ call' = [call EXCEPT ![r] = At("arrived", call[r].attempt)]
  /\ CarriedOut(r)
  /\ UNCHANGED <<circuit, table, drain, unheeded, swallowed, faults>>

Answer(r) ==
  /\ call[r].pc = "arrived"
  /\ call' = [call EXCEPT ![r] = At("answered", 0)]
  /\ record_success
  /\ UNCHANGED <<table, drain, history, faults>>

\* An attempt ends without an answer, before or after the bus has acted on it.
AttemptFails(r) ==
  /\ Faulty
  /\ InFlight(r)
  /\ IF call[r].pc = "arrived" THEN Unheeded(r) ELSE UNCHANGED unheeded
  /\ UNCHANGED <<drain, times>>

\* Timeouts, refused connections and 5xx are retried.
Retry(r) ==
  /\ AttemptFails(r)
  /\ call[r].attempt < MAX_RETRIES
  /\ call' = [call EXCEPT ![r] = At("trying", call[r].attempt + 1)]
  /\ UNCHANGED <<circuit, table, swallowed>>

\* Other errors are not, nor is the last attempt.
GiveUp(r) ==
  /\ AttemptFails(r)
  /\ record_failure
  /\ Deferred(r)

\* The answer came, record_success is called, and resp.json() raises: the same
\* except clause counts a failure and queues the write.
AnswerUnreadable(r) ==
  /\ call[r].pc = "arrived"
  /\ AttemptFails(r)
  /\ failures' = 1
  /\ cooling'  = TRUE
  /\ breaker'  = IF Threshold = 1 THEN "OPEN" ELSE "CLOSED"
  /\ Deferred(r)

\* A 4xx: raise_for_status raises, and _write_request queues the write.
Refuse(r) ==
  /\ call[r].pc = "trying"
  /\ r \in Refused
  /\ record_failure
  /\ Deferred(r)
  /\ UNCHANGED <<drain, times, unheeded, faults>>

(***************************************************************************)
(* drain_queue: the rows are selected, then sent one by one.               *)
(***************************************************************************)
Drain ==
  /\ rest = {}
  /\ pending # {}
  /\ rest' = pending
  /\ UNCHANGED <<circuit, call, table, arrived, answered, history, faults>>

\* Mutant: ORDER BY id DESC.
FirstNewest(w) == w \in rest /\ \A v \in rest : id[w] >= id[v]

\* ORDER BY id
First(w) == w \in rest /\ \A v \in rest : id[w] <= id[v]

DrainArrive(w) ==
  /\ First(w)
  /\ arrived = {}
  /\ w \notin Refused
  /\ arrived' = {w}
  /\ CarriedOut(w)
  /\ UNCHANGED <<circuit, call, table, rest, answered, unheeded, swallowed, faults>>

DrainAnswered(w) ==
  /\ w \in arrived \ answered
  /\ answered' = {w}
  /\ UNCHANGED <<circuit, call, table, rest, arrived, history, faults>>

\* Mutant: the row stays.
DrainDeleteForgotten(w) ==
  /\ w \in answered
  /\ arrived'  = {}
  /\ answered' = {}
  /\ rest'     = rest \ {w}
  /\ UNCHANGED <<circuit, call, table, history, faults>>

\* The DELETE is committed before the next row is sent.
DrainDelete(w) ==
  /\ w \in answered
  /\ arrived'  = {}
  /\ answered' = {}
  /\ pending'  = pending \ {w}
  /\ rest'     = rest \ {w}
  /\ UNCHANGED <<circuit, call, id, nextId, history, faults>>

\* What the except clause of drain_queue leaves behind.
DrainBroken(w) ==
  /\ Faulty
  /\ First(w)
  /\ IF w \in arrived THEN Unheeded(w) ELSE UNCHANGED unheeded
  /\ arrived'  = {}
  /\ answered' = {}
  /\ UNCHANGED <<circuit, call, id, nextId, times, swallowed>>

\* Mutants: the drain goes on with the next row; it gives the row up.
DrainFailsOn(w)       == DrainBroken(w) /\ rest' = rest \ {w} /\ UNCHANGED pending
DrainFailsDeleting(w) == DrainBroken(w) /\ rest' = {} /\ pending' = pending \ {w}

\* No answer, or the DELETE fails after it (and so, maybe, does the UPDATE of
\* the attempts): the row stays, and with the rest waits for the next drain.
DrainFails(w) == DrainBroken(w) /\ rest' = {} /\ UNCHANGED pending

\* A 4xx is no different, but will be the same the next time.
DrainRefused(w) ==
  /\ First(w)
  /\ arrived = {}
  /\ w \in Refused
  /\ rest' = {}
  /\ UNCHANGED <<circuit, call, table, arrived, answered, history, faults>>

(***************************************************************************)
(* BOB's process restarts: the table stays, the breaker starts afresh.     *)
(***************************************************************************)
Restart ==
  /\ Faulty
  /\ breaker'  = "CLOSED"
  /\ failures' = 0
  /\ cooling'  = FALSE
  /\ call'     = [r \in Requests |-> IF InFlight(r) THEN At("gone", 0) ELSE call[r]]
  /\ rest'     = {}
  /\ arrived'  = {}
  /\ answered' = {}
  /\ unheeded' =
       [w \in Writes |-> IF call[w].pc = "arrived" \/ w \in arrived
                         THEN unheeded[w] + 1 ELSE unheeded[w]]
  /\ UNCHANGED <<table, times, swallowed>>

Next ==
  \/ \E r \in Requests :
       \/ Begin(r)
       \/ FailFast(r)
       \/ Arrive(r)
       \/ Answer(r)
       \/ Retry(r)
       \/ GiveUp(r)
       \/ AnswerUnreadable(r)
       \/ Refuse(r)
  \/ Cooled
  \/ Drain
  \/ \E w \in Writes :
       \/ DrainArrive(w)
       \/ DrainAnswered(w)
       \/ DrainDelete(w)
       \/ DrainFails(w)
       \/ DrainRefused(w)
  \/ Restart

Spec == Init /\ [][Next]_vars

\* _drain_loop runs every QUEUE_DRAIN_INTERVAL, and a bus that is up answers.
Fairness ==
  /\ WF_vars(Drain)
  /\ \A w \in Writes :
       WF_vars(DrainArrive(w) \/ DrainAnswered(w) \/ DrainDelete(w) \/ DrainRefused(w))

FairSpec == Spec /\ Fairness

(***************************************************************************)
(* Properties                                                              *)
(***************************************************************************)
TypeOK ==
  /\ breaker    \in {"CLOSED", "OPEN", "HALF_OPEN"}
  /\ failures   \in Nat
  /\ cooling    \in BOOLEAN
  /\ call       \in [Requests -> [pc : PC, attempt : 0..MAX_RETRIES]]
  /\ pending    \subseteq Writes
  /\ id         \in [Writes -> Nat]
  /\ nextId     \in Nat \ {0}
  /\ rest       \subseteq pending
  /\ arrived    \subseteq rest
  /\ answered   \subseteq arrived
  /\ times      \in [Writes -> Nat]
  /\ unheeded   \in [Writes -> Nat]
  /\ swallowed  \subseteq Writes
  /\ faults     \in 0..MaxFaults

\* Whatever a caller was told of its write, the bus has carried it out or the
\* queue still holds it, through restarts, lost answers and unfinished drains;
\* only an error of the queue database itself loses it.
NoWriteLost ==
  \A w \in Writes :
    /\ call[w].pc = "answered" => times[w] > 0
    /\ call[w].pc = "queued"   => times[w] > 0 \/ w \in pending \cup swallowed

\* A write is repeated only as often as its answer was lost or could not be read,
\* or came and its row was not deleted (the DELETE failed, the process stopped
\* first): retries, the queue and a drain cut short never repeat it otherwise.
RepeatedOnlyUnheeded == \A w \in Writes : times[w] <= unheeded[w] + 1

\* Queued writes reach the bus in the order they were queued: a drain never
\* sends a row while an older one, whatever became of it, is still stored.
DrainsInOrder ==
  \A v \in rest, u \in pending : id[u] <= id[v] => u \in rest

\* The circuit is closed exactly while fewer than Threshold calls have failed
\* since the last success, so one failed probe opens it again, and a call that
\* was under way when it opened cannot leave it closed without succeeding.
ClosedBelowThreshold == breaker = "CLOSED" <=> failures < Threshold

\* A write of which an older row will never be accepted.
Blocked(w) == \E u \in pending \cap Refused : id[u] < id[w]

\* Every queued write the bus accepts reaches it in the end, unless it waits
\* behind one the bus refuses.
DrainsUnlessBlocked ==
  \A w \in Writes \ Refused : w \in pending ~> times[w] > 0 \/ Blocked(w)
===============================================================================
