--------------------------- MODULE BusClient_proofs ---------------------------
(***************************************************************************)
(* Proofs about BusClient, for any writes and reads, any of them refused,  *)
(* any threshold, any number of retries and any bound on the faults.       *)
(***************************************************************************)
EXTENDS BusClient, TLAPS

\* Everything an enqueue may do to the table, typed.
LEMMA EnqueueTyped ==
  ASSUME TypeOK, NEW w \in Writes, enqueue(w)
  PROVE  /\ pending' \subseteq Writes
         /\ id' \in [Writes -> Nat]
         /\ nextId' \in Nat \ {0}
         /\ swallowed' \subseteq Writes
         /\ pending \subseteq pending'
BY DEF TypeOK, enqueue, table

\* A call that ends without an answer leaves the types as they are.
LEMMA DeferredTyped ==
  ASSUME TypeOK, NEW r \in Requests, Deferred(r)
  PROVE  /\ call' \in [Requests -> [pc : PC, attempt : 0..MAX_RETRIES]]
         /\ pending' \subseteq Writes
         /\ id' \in [Writes -> Nat]
         /\ nextId' \in Nat \ {0}
         /\ swallowed' \subseteq Writes
         /\ pending \subseteq pending'
<1>1. At("queued", 0) \in [pc : PC, attempt : 0..MAX_RETRIES]
  BY RetriesAssumption DEF At, PC
<1>2. At("raised", 0) \in [pc : PC, attempt : 0..MAX_RETRIES]
  BY RetriesAssumption DEF At, PC
<1>3. CASE r \in Writes
  BY <1>1, <1>3, EnqueueTyped DEF Deferred, TypeOK
<1>4. CASE r \notin Writes
  BY <1>2, <1>4 DEF Deferred, TypeOK, table
<1> QED
  BY <1>3, <1>4

LEMMA RecordFailureTyped ==
  ASSUME TypeOK, record_failure
  PROVE  /\ breaker' \in {"CLOSED", "OPEN", "HALF_OPEN"}
         /\ failures' \in Nat
         /\ cooling' \in BOOLEAN
BY DEF TypeOK, record_failure

\* TypeOK holds of every reachable state.
THEOREM TypeCorrect == Spec => []TypeOK
<1>1. Init => TypeOK
  <2>1. At("new", 0) \in [pc : PC, attempt : 0..MAX_RETRIES]
    BY RetriesAssumption DEF At, PC
  <2> SUFFICES ASSUME Init PROVE TypeOK
    OBVIOUS
  <2>2. call \in [Requests -> [pc : PC, attempt : 0..MAX_RETRIES]]
    BY <2>1 DEF Init
  <2>3. /\ id \in [Writes -> Nat]
        /\ times \in [Writes -> Nat]
        /\ unheeded \in [Writes -> Nat]
    BY DEF Init
  <2>4. failures \in Nat /\ nextId \in Nat \ {0} /\ faults \in 0..MaxFaults
    BY FaultsAssumption DEF Init
  <2>5. /\ breaker \in {"CLOSED", "OPEN", "HALF_OPEN"}
        /\ cooling \in BOOLEAN
    BY DEF Init
  <2> QED
    BY <2>2, <2>3, <2>4, <2>5 DEF Init, TypeOK
<1>2. ASSUME TypeOK, [Next]_vars
      PROVE  TypeOK'
  <2> USE <1>2
  <2>1. ASSUME NEW r \in Requests, Begin(r)
        PROVE  TypeOK'
    <3>1. At("trying", 0) \in [pc : PC, attempt : 0..MAX_RETRIES]
      BY RetriesAssumption DEF At, PC
    <3> QED
      BY <2>1, <3>1 DEF TypeOK, Begin, table, drain, history
  <2>2. ASSUME NEW r \in Requests, FailFast(r)
        PROVE  TypeOK'
    BY <2>2, DeferredTyped DEF TypeOK, FailFast, circuit, drain
  <2>3. ASSUME NEW r \in Requests, Arrive(r)
        PROVE  TypeOK'
    <3>1. At("arrived", call[r].attempt) \in [pc : PC, attempt : 0..MAX_RETRIES]
      BY <2>3 DEF TypeOK, At, PC
    <3>2. times' \in [Writes -> Nat]
      BY <2>3 DEF TypeOK, Arrive, CarriedOut
    <3> QED
      BY <2>3, <3>1, <3>2 DEF TypeOK, Arrive, circuit, table, drain
  <2>4. ASSUME NEW r \in Requests, Answer(r)
        PROVE  TypeOK'
    <3>1. At("answered", 0) \in [pc : PC, attempt : 0..MAX_RETRIES]
      BY RetriesAssumption DEF At, PC
    <3> QED
      BY <2>4, <3>1 DEF TypeOK, Answer, record_success, table, drain, history
  <2>5. ASSUME NEW r \in Requests, AttemptFails(r)
        PROVE  unheeded' \in [Writes -> Nat] /\ faults' \in 0..MaxFaults
    BY <2>5, FaultsAssumption DEF TypeOK, AttemptFails, Unheeded, Faulty
  <2>6. ASSUME NEW r \in Requests, Retry(r)
        PROVE  TypeOK'
    <3>1. call[r].attempt \in 0..MAX_RETRIES
      BY DEF TypeOK
    <3>2. At("trying", call[r].attempt + 1) \in [pc : PC, attempt : 0..MAX_RETRIES]
      BY <2>6, <3>1, RetriesAssumption DEF Retry, At, PC
    <3> QED
      BY <2>5, <2>6, <3>2 DEF TypeOK, Retry, AttemptFails, circuit, table, drain
  <2>7. ASSUME NEW r \in Requests, GiveUp(r)
        PROVE  TypeOK'
    BY <2>5, <2>7, DeferredTyped, RecordFailureTyped DEF TypeOK, GiveUp, AttemptFails, drain
  <2>8. ASSUME NEW r \in Requests, Refuse(r)
        PROVE  TypeOK'
    BY <2>8, DeferredTyped, RecordFailureTyped DEF TypeOK, Refuse, drain
  <2>9. CASE Cooled
    BY <2>9 DEF TypeOK, Cooled, table, drain, history
  <2>10. CASE Drain
    BY <2>10 DEF TypeOK, Drain, circuit, table, history
  <2>11. ASSUME NEW w \in Writes, DrainArrive(w)
         PROVE  TypeOK'
    BY <2>11 DEF TypeOK, DrainArrive, CarriedOut, First, circuit, table
  <2>12. ASSUME NEW w \in Writes, DrainDelete(w)
         PROVE  TypeOK'
    BY <2>12 DEF TypeOK, DrainDelete, circuit, history
  <2>13. ASSUME NEW w \in Writes, DrainFails(w)
         PROVE  TypeOK'
    BY <2>13, FaultsAssumption DEF TypeOK, DrainFails, DrainBroken, Unheeded, Faulty, circuit
  <2>14. ASSUME NEW w \in Writes, DrainRefused(w)
         PROVE  TypeOK'
    BY <2>14 DEF TypeOK, DrainRefused, circuit, table, history
  <2>15. CASE Restart
    <3>1. At("gone", 0) \in [pc : PC, attempt : 0..MAX_RETRIES]
      BY RetriesAssumption DEF At, PC
    <3>2. call' \in [Requests -> [pc : PC, attempt : 0..MAX_RETRIES]]
      BY <2>15, <3>1 DEF TypeOK, Restart
    <3>3. \A w \in Writes : unheeded[w] \in Nat /\ unheeded[w] + 1 \in Nat
      BY DEF TypeOK
    <3>4. unheeded' \in [Writes -> Nat]
      BY <2>15, <3>3 DEF Restart
    <3>5. faults' \in 0..MaxFaults
      BY <2>15, FaultsAssumption DEF TypeOK, Restart, Faulty
    <3> QED
      BY <2>15, <3>2, <3>4, <3>5 DEF TypeOK, Restart, table
  <2>16. CASE UNCHANGED vars
    BY <2>16 DEF TypeOK, vars, circuit, table, drain, history
  <2>17. ASSUME NEW r \in Requests, AnswerUnreadable(r)
         PROVE  TypeOK'
    BY <2>5, <2>17, DeferredTyped DEF TypeOK, AnswerUnreadable, AttemptFails, drain
  <2>18. ASSUME NEW w \in Writes, DrainAnswered(w)
         PROVE  TypeOK'
    BY <2>18 DEF TypeOK, DrainAnswered, circuit, table, history
  <2> QED
    BY <2>1, <2>2, <2>3, <2>4, <2>6, <2>7, <2>8, <2>9, <2>10, <2>11, <2>12, <2>13, <2>14,
       <2>15, <2>16, <2>17, <2>18 DEF Next
<1> QED
  BY <1>1, <1>2, PTL DEF Spec

(***************************************************************************)
(* The breaker.  A success resets state and count together, a failure      *)
(* opens at the threshold, and a probe leaves the count where it was.      *)
(***************************************************************************)
\* One failed probe opens the circuit again, whatever else was under way
\* (ClosedBelowThreshold).
THEOREM ClosedCircuitIsHealthy == Spec => []ClosedBelowThreshold
<1>1. Init => ClosedBelowThreshold
  BY ThresholdAssumption DEF Init, ClosedBelowThreshold
<1>2. ASSUME TypeOK, ClosedBelowThreshold, [Next]_vars
      PROVE  ClosedBelowThreshold'
  <2> USE <1>2
  <2>1. CASE UNCHANGED <<breaker, failures>>
    BY <2>1 DEF ClosedBelowThreshold
  <2>2. CASE record_failure
    BY <2>2, ThresholdAssumption DEF TypeOK, ClosedBelowThreshold, record_failure
  <2>3. CASE breaker' = "CLOSED" /\ failures' = 0
    BY <2>3, ThresholdAssumption DEF ClosedBelowThreshold
  <2>4. ASSUME NEW r \in Requests, Begin(r)
        PROVE  ClosedBelowThreshold'
    BY <2>4, ThresholdAssumption DEF TypeOK, ClosedBelowThreshold, Begin
  <2>6. ASSUME NEW r \in Requests, AnswerUnreadable(r)
        PROVE  ClosedBelowThreshold'
    BY <2>6, ThresholdAssumption DEF ClosedBelowThreshold, AnswerUnreadable
  <2>7. \/ UNCHANGED <<breaker, failures>>
        \/ record_failure
        \/ breaker' = "CLOSED" /\ failures' = 0
        \/ \E r \in Requests : Begin(r) \/ AnswerUnreadable(r)
    BY DEF Next, vars, circuit, FailFast, Arrive, Answer, Retry, GiveUp, Refuse, Cooled, Drain,
           DrainArrive, DrainAnswered, DrainDelete, DrainFails, DrainBroken, DrainRefused,
           Restart, record_success
  <2> QED
    BY <2>1, <2>2, <2>3, <2>4, <2>6, <2>7
<1> QED
  BY <1>1, <1>2, TypeCorrect, PTL DEF Spec

(***************************************************************************)
(* The table.  Only calls that have ended have rows, ids grow and are      *)
(* never shared, and the row that is being sent is the first of the rest.  *)
(***************************************************************************)
OnlyQueued     == \A w \in pending : call[w].pc = "queued" /\ id[w] < nextId
DistinctIds    == \A u, v \in pending : id[u] = id[v] => u = v
ArrivedIsFirst == \A w \in arrived : First(w)

TableInv == OnlyQueued /\ DistinctIds /\ DrainsInOrder /\ ArrivedIsFirst

\* A step that leaves table and drain alone, and ended calls ended.
LEMMA TableFrame ==
  ASSUME TypeOK, TableInv, UNCHANGED <<table, drain>>,
         \A w \in Writes : call[w].pc = "queued" => call'[w].pc = "queued"
  PROVE  TableInv'
BY DEF TypeOK, TableInv, OnlyQueued, DistinctIds, DrainsInOrder, ArrivedIsFirst, First, table, drain

\* A call that had not ended is deferred.
LEMMA TableDeferred ==
  ASSUME TypeOK, TableInv, NEW r \in Requests, call[r].pc # "queued", Deferred(r), UNCHANGED drain
  PROVE  TableInv'
<1>1. \A w \in Writes : call[w].pc = "queued" => call'[w].pc = "queued"
  BY DEF Deferred, TypeOK, At, Requests
<1>2. CASE UNCHANGED table
  BY <1>1, <1>2, TableFrame
<1>3. CASE ~UNCHANGED table
  <2>1. /\ r \in Writes
        /\ pending' = pending \cup {r}
        /\ id' = [id EXCEPT ![r] = nextId]
        /\ nextId' = nextId + 1
        /\ call' = [call EXCEPT ![r] = At("queued", 0)]
    BY <1>3 DEF Deferred, enqueue
  <2>2. r \notin pending
    BY DEF TableInv, OnlyQueued
  <2>3. /\ nextId \in Nat
        /\ id'[r] = nextId
        /\ \A w \in pending : id'[w] = id[w] /\ id[w] < nextId /\ id[w] \in Nat
    BY <2>1, <2>2 DEF TypeOK, TableInv, OnlyQueued
  <2>4. OnlyQueued'
    BY <1>1, <2>1, <2>3 DEF TypeOK, TableInv, OnlyQueued, At, Requests
  <2>5. DistinctIds'
    BY <2>1, <2>3 DEF TableInv, DistinctIds
  <2>6. DrainsInOrder'
    BY <2>1, <2>3 DEF TypeOK, TableInv, DrainsInOrder, drain
  <2>7. ArrivedIsFirst'
    BY <2>1, <2>3 DEF TypeOK, TableInv, ArrivedIsFirst, First, drain
  <2> QED
    BY <2>4, <2>5, <2>6, <2>7 DEF TableInv
<1> QED
  BY <1>2, <1>3

LEMMA TableStep ==
  ASSUME TypeOK, TableInv, [Next]_vars
  PROVE  TableInv'
<1>1. ASSUME NEW r \in Requests, Begin(r) \/ Arrive(r) \/ Answer(r) \/ Retry(r)
      PROVE  TableInv'
  <2>1. UNCHANGED <<table, drain>>
    BY <1>1 DEF Begin, Arrive, Answer, Retry, AttemptFails
  <2>2. call[r].pc # "queued" /\ \A w \in Requests \ {r} : call'[w] = call[w]
    BY <1>1 DEF TypeOK, Begin, Arrive, Answer, Retry, AttemptFails, InFlight
  <2> QED
    BY <2>1, <2>2, TableFrame DEF Requests
<1>2. ASSUME NEW r \in Requests,
             FailFast(r) \/ GiveUp(r) \/ AnswerUnreadable(r) \/ Refuse(r)
      PROVE  TableInv'
  <2>1. call[r].pc # "queued" /\ Deferred(r) /\ UNCHANGED drain
    BY <1>2 DEF FailFast, GiveUp, AnswerUnreadable, Refuse, AttemptFails, InFlight
  <2> QED
    BY <2>1, TableDeferred
<1>3. CASE Cooled
  BY <1>3, TableFrame DEF Cooled
<1>4. CASE Drain
  BY <1>4 DEF TypeOK, TableInv, OnlyQueued, DistinctIds, DrainsInOrder, ArrivedIsFirst, First,
              Drain, table
<1>5. ASSUME NEW w \in Writes, DrainArrive(w)
      PROVE  TableInv'
  BY <1>5 DEF TypeOK, TableInv, OnlyQueued, DistinctIds, DrainsInOrder, ArrivedIsFirst, First,
              DrainArrive, table
<1>6. ASSUME NEW w \in Writes, DrainDelete(w)
      PROVE  TableInv'
  BY <1>6 DEF TypeOK, TableInv, OnlyQueued, DistinctIds, DrainsInOrder, ArrivedIsFirst, First,
              DrainDelete
<1>7. ASSUME NEW w \in Writes, DrainFails(w) \/ DrainRefused(w)
      PROVE  TableInv'
  BY <1>7 DEF TypeOK, TableInv, OnlyQueued, DistinctIds, DrainsInOrder, ArrivedIsFirst, First,
              DrainFails, DrainBroken, DrainRefused, table
<1>10. ASSUME NEW w \in Writes, DrainAnswered(w)
       PROVE  TableInv'
  BY <1>10 DEF TypeOK, TableInv, OnlyQueued, DistinctIds, DrainsInOrder, ArrivedIsFirst, First,
               DrainAnswered, table
<1>8. CASE Restart
  <2>1. \A w \in Writes : call[w].pc = "queued" => call'[w].pc = "queued"
    BY <1>8 DEF Restart, InFlight, Requests
  <2> QED
    BY <1>8, <2>1 DEF TypeOK, TableInv, OnlyQueued, DistinctIds, DrainsInOrder, ArrivedIsFirst,
                      First, Restart, table
<1>9. CASE UNCHANGED vars
  BY <1>9, TableFrame DEF vars
<1> QED
  BY <1>1, <1>2, <1>3, <1>4, <1>5, <1>6, <1>7, <1>8, <1>9, <1>10 DEF Next

\* The inductive invariant holds of every reachable state.
LEMMA TableInvariant == Spec => []TableInv
<1>1. Init => TableInv
  BY DEF Init, TableInv, OnlyQueued, DistinctIds, DrainsInOrder, ArrivedIsFirst
<1> QED
  BY <1>1, TypeCorrect, TableStep, PTL DEF Spec

\* Queued writes reach the bus in the order they were queued (DrainsInOrder).
THEOREM QueueDrainsInOrder == Spec => []DrainsInOrder
BY TableInvariant, PTL DEF TableInv

(***************************************************************************)
(* The count.  For each answer that came to nothing a write may be carried *)
(* out once more; one more time is due to the attempt that is, or was, the *)
(* last of all.                                                            *)
(***************************************************************************)
Settled(w) ==
  \/ call[w].pc \in {"arrived", "answered", "gone"}
  \/ call[w].pc = "queued" /\ (w \notin pending \/ w \in arrived)

Counted(w) ==
  /\ times[w] <= unheeded[w] + 1
  /\ times[w] > unheeded[w] => Settled(w)
  /\ call[w].pc \in {"arrived", "answered"} \/ w \in arrived => times[w] > 0
  /\ call[w].pc = "queued" => times[w] > 0 \/ w \in pending \cup swallowed

CountInv == \A w \in Writes : Counted(w)

\* A step that does not concern w.
LEMMA CountFrame ==
  ASSUME NEW w \in Writes, Counted(w),
         times'[w] = times[w], unheeded'[w] = unheeded[w], call'[w] = call[w],
         w \in pending' <=> w \in pending, w \in arrived' <=> w \in arrived,
         swallowed \subseteq swallowed'
  PROVE  Counted(w)'
BY DEF Counted, Settled

\* Deferring a call concerns that call's write only.
LEMMA DeferredFrame ==
  ASSUME TypeOK, NEW r \in Requests, Deferred(r)
  PROVE  /\ swallowed \subseteq swallowed'
         /\ \A w \in Writes \ {r} : call'[w] = call[w] /\ (w \in pending' <=> w \in pending)
         /\ r \in Writes => /\ call'[r].pc = "queued"
                            /\ r \in pending' \cup swallowed'
BY DEF TypeOK, Deferred, enqueue, table, At, Requests

LEMMA CountStep ==
  ASSUME TypeOK, TableInv, CountInv, [Next]_vars, NEW w \in Writes
  PROVE  Counted(w)'
<1> USE DEF CountInv
<1>1. Counted(w) /\ times[w] \in Nat /\ unheeded[w] \in Nat
  BY DEF TypeOK
<1>2. ASSUME NEW r \in Requests, Begin(r)
      PROVE  Counted(w)'
  BY <1>1, <1>2 DEF TypeOK, Begin, Counted, Settled, At, table, drain, history, Requests
<1>3. ASSUME NEW r \in Requests, Deferred(r), call[r].pc = "new" \/ call[r].pc = "trying",
             UNCHANGED <<drain, times, unheeded>>
      PROVE  Counted(w)'
  <2>1. CASE r = w
    BY <1>1, <1>3, <2>1, DeferredFrame DEF TypeOK, TableInv, OnlyQueued, Counted, Settled, drain
  <2>2. CASE r # w
    BY <1>1, <1>3, <2>2, DeferredFrame, CountFrame DEF drain
  <2> QED
    BY <2>1, <2>2
<1>4. ASSUME NEW r \in Requests, Arrive(r)
      PROVE  Counted(w)'
  <2>1. CASE r = w
    BY <1>1, <1>4, <2>1 DEF TypeOK, Arrive, CarriedOut, Counted, Settled, At, table, drain, Requests
  <2>2. CASE r # w
    BY <1>1, <1>4, <2>2, CountFrame DEF TypeOK, Arrive, CarriedOut, At, table, drain, Requests
  <2> QED
    BY <2>1, <2>2
<1>5. ASSUME NEW r \in Requests, Answer(r)
      PROVE  Counted(w)'
  BY <1>1, <1>5 DEF TypeOK, Answer, Counted, Settled, At, table, drain, history, Requests
<1>6. ASSUME NEW r \in Requests, Retry(r)
      PROVE  Counted(w)'
  <2>1. CASE r = w
    BY <1>1, <1>6, <2>1 DEF TypeOK, Retry, AttemptFails, InFlight, Unheeded, Counted, Settled,
                            TableInv, OnlyQueued, At, table, drain, Requests
  <2>2. CASE r # w
    BY <1>1, <1>6, <2>2, CountFrame DEF TypeOK, Retry, AttemptFails, Unheeded, At, table, drain,
                                        Requests
  <2> QED
    BY <2>1, <2>2
<1>7. ASSUME NEW r \in Requests, GiveUp(r) \/ AnswerUnreadable(r)
      PROVE  Counted(w)'
  <2>1. Deferred(r) /\ AttemptFails(r)
    BY <1>7 DEF GiveUp, AnswerUnreadable
  <2>2. CASE r = w
    BY <1>1, <2>1, <2>2, DeferredFrame DEF TypeOK, AttemptFails, InFlight, Unheeded, Counted,
                                           Settled, TableInv, OnlyQueued, drain
  <2>3. CASE r # w
    BY <1>1, <2>1, <2>3, DeferredFrame, CountFrame DEF TypeOK, AttemptFails, Unheeded, drain
  <2> QED
    BY <2>2, <2>3
<1>8. CASE Cooled
  BY <1>1, <1>8, CountFrame DEF Cooled, table, drain, history
<1>9. CASE Drain
  BY <1>1, <1>9, CountFrame DEF Drain, table, history
<1>10. ASSUME NEW v \in Writes, DrainArrive(v)
       PROVE  Counted(w)'
  <2>1. CASE v = w
    BY <1>1, <1>10, <2>1 DEF TypeOK, TableInv, OnlyQueued, DrainArrive, First, CarriedOut, Counted,
                             Settled, table
  <2>2. CASE v # w
    BY <1>1, <1>10, <2>2, CountFrame DEF TypeOK, DrainArrive, CarriedOut, table
  <2> QED
    BY <2>1, <2>2
<1>11. ASSUME NEW v \in Writes, First(v)
       PROVE  arrived \subseteq {v}
  BY <1>11 DEF TypeOK, TableInv, DistinctIds, ArrivedIsFirst, First
<1>12. ASSUME NEW v \in Writes, DrainDelete(v)
       PROVE  Counted(w)'
  BY <1>1, <1>11, <1>12 DEF TypeOK, TableInv, ArrivedIsFirst, DrainDelete, Counted, Settled, history
<1>13. ASSUME NEW v \in Writes, DrainFails(v)
       PROVE  Counted(w)'
  BY <1>1, <1>11, <1>13 DEF TypeOK, DrainFails, DrainBroken, Unheeded, Counted, Settled
<1>14. ASSUME NEW v \in Writes, DrainRefused(v)
       PROVE  Counted(w)'
  BY <1>1, <1>14, CountFrame DEF DrainRefused, table, history
<1>15. CASE Restart
  <2>1. call'[w] = IF InFlight(w) THEN At("gone", 0) ELSE call[w]
    BY <1>15 DEF Restart, Requests
  <2>2. unheeded'[w] = IF call[w].pc = "arrived" \/ w \in arrived
                           THEN unheeded[w] + 1 ELSE unheeded[w]
    BY <1>15 DEF Restart
  <2>3. UNCHANGED <<table, times, swallowed>> /\ arrived' = {}
    BY <1>15 DEF Restart
  <2> QED
    BY <1>1, <2>1, <2>2, <2>3 DEF InFlight, At, Counted, Settled, TableInv, OnlyQueued, table
<1>16. CASE UNCHANGED vars
  BY <1>1, <1>16, CountFrame DEF vars, table, drain, history
<1>17. ASSUME NEW r \in Requests, FailFast(r) \/ Refuse(r)
       PROVE  Counted(w)'
  BY <1>3, <1>17 DEF FailFast, Refuse
<1>18. ASSUME NEW v \in Writes, DrainAnswered(v)
       PROVE  Counted(w)'
  BY <1>1, <1>18, CountFrame DEF DrainAnswered, table, history
<1> QED
  BY <1>2, <1>4, <1>5, <1>6, <1>7, <1>8, <1>9, <1>10, <1>12, <1>13, <1>14, <1>15, <1>16, <1>17, <1>18
  DEF Next

LEMMA CountInvariant == Spec => []CountInv
<1>1. Init => CountInv
  <2> SUFFICES ASSUME Init, NEW w \in Writes PROVE Counted(w)
    BY DEF CountInv
  <2>1. /\ times[w] = 0 /\ unheeded[w] = 0 /\ arrived = {}
        /\ call[w] = At("new", 0)
    BY DEF Init, Requests
  <2> QED
    BY <2>1 DEF Counted, At
<1>2. ASSUME TypeOK, TableInv, CountInv, [Next]_vars
      PROVE  CountInv'
  BY <1>2, CountStep DEF CountInv
<1> QED
  BY <1>1, <1>2, TypeCorrect, TableInvariant, PTL DEF Spec

\* No write a caller was told of is lost, but to an error of the queue database
\* (NoWriteLost).
THEOREM WritesAreNotLost == Spec => []NoWriteLost
<1>1. CountInv => NoWriteLost
  BY DEF CountInv, Counted, NoWriteLost
<1> QED
  BY <1>1, CountInvariant, PTL

\* A write is repeated only as often as an answer was lost, could not be read, or
\* was not followed by the deletion of its row (RepeatedOnlyUnheeded).
THEOREM WritesAreNotRepeated == Spec => []RepeatedOnlyUnheeded
<1>1. CountInv => RepeatedOnlyUnheeded
  BY DEF CountInv, Counted, RepeatedOnlyUnheeded
<1> QED
  BY <1>1, CountInvariant, PTL
(***************************************************************************)
(* What waits behind a refused write.  No answer ever deletes its row, and *)
(* a drain does not go past it.                                            *)
(***************************************************************************)
NoneRefused == arrived \cap Refused = {}

LEMMA RefusedNeverArrive == Spec => []NoneRefused
<1>1. Init => NoneRefused
  BY DEF Init, NoneRefused
<1>2. TypeOK /\ NoneRefused /\ [Next]_vars => NoneRefused'
  BY DEF NoneRefused, Next, vars, drain, Begin, FailFast, Arrive, Answer, Retry, GiveUp, Refuse,
         AnswerUnreadable, AttemptFails, Cooled, Drain, DrainArrive, DrainAnswered, DrainDelete,
         DrainFails, DrainBroken, DrainRefused, Restart
<1> QED
  BY <1>1, <1>2, TypeCorrect, PTL DEF Spec

\* A row keeps its id as long as it is there.
LEMMA RowsKeepTheirIds ==
  ASSUME TypeOK, TableInv, [Next]_vars
  PROVE  \A w \in pending : id'[w] = id[w] /\ (w \in pending' \/ DrainDelete(w))
<1>1. ASSUME NEW r \in Requests,
             FailFast(r) \/ GiveUp(r) \/ AnswerUnreadable(r) \/ Refuse(r)
      PROVE  \A w \in pending : id'[w] = id[w] /\ w \in pending'
  <2>1. Deferred(r) /\ call[r].pc # "queued"
    BY <1>1 DEF FailFast, GiveUp, AnswerUnreadable, Refuse, AttemptFails, InFlight
  <2>2. r \notin pending
    BY <2>1 DEF TableInv, OnlyQueued
  <2> QED
    BY <2>1, <2>2 DEF Deferred, enqueue, table, TypeOK
<1>2. ASSUME NEW w \in Writes, DrainDelete(w)
      PROVE  \A v \in pending : id'[v] = id[v] /\ (v \in pending' \/ v = w)
  BY <1>2 DEF DrainDelete
<1>3. ASSUME UNCHANGED table
      PROVE  \A w \in pending : id'[w] = id[w] /\ w \in pending'
  BY <1>3 DEF table
<1>4. \/ UNCHANGED table
      \/ \E r \in Requests : FailFast(r) \/ GiveUp(r) \/ AnswerUnreadable(r) \/ Refuse(r)
      \/ \E w \in Writes : DrainDelete(w)
  BY DEF Next, vars, table, Begin, Arrive, Answer, Retry, Cooled, Drain, DrainArrive,
         DrainAnswered, DrainFails, DrainBroken, DrainRefused, Restart
<1> QED
  BY <1>1, <1>2, <1>3, <1>4

\* A blocked row is neither sent nor first in a drain.
LEMMA BlockedWait ==
  ASSUME TypeOK, TableInv, NEW w \in pending, Blocked(w)
  PROVE  ~First(w)
BY DEF TypeOK, TableInv, DrainsInOrder, Blocked, First

\* The exception of DrainsUnlessBlocked is for good: what waits behind a write
\* the bus refuses stays in the queue, unsent and blocked, whatever comes.
THEOREM BlockedIsBlockedForGood ==
  Spec => [][\A w \in pending : Blocked(w) =>
               w \in pending' /\ Blocked(w)' /\ times'[w] = times[w]]_vars
<1>1. ASSUME TypeOK, TableInv, NoneRefused, [Next]_vars, NEW w \in pending, Blocked(w)
      PROVE  w \in pending' /\ Blocked(w)' /\ times'[w] = times[w]
  <2> USE <1>1
  <2>1. ~First(w)
    BY BlockedWait
  <2>2. w \in pending' /\ id'[w] = id[w]
    BY <2>1, RowsKeepTheirIds DEF DrainDelete, TypeOK, TableInv, ArrivedIsFirst
  <2>3. PICK u \in pending \cap Refused : id[u] < id[w]
    BY DEF Blocked
  <2>4. u \in pending' /\ id'[u] = id[u]
    BY <2>3, RowsKeepTheirIds DEF DrainDelete, NoneRefused, TypeOK
  <2>5. Blocked(w)'
    BY <2>2, <2>3, <2>4 DEF Blocked
  <2>6. times'[w] = times[w]
    <3>1. call[w].pc = "queued" /\ w \in Writes
      BY DEF TypeOK, TableInv, OnlyQueued
    <3>2. ASSUME NEW r \in Requests, Arrive(r) PROVE times'[w] = times[w]
      BY <3>1, <3>2 DEF Arrive, CarriedOut, TypeOK
    <3>3. ASSUME NEW v \in Writes, DrainArrive(v) PROVE times'[w] = times[w]
      BY <2>1, <3>1, <3>3 DEF DrainArrive, CarriedOut, TypeOK
    <3>4. \/ UNCHANGED times
          \/ \E r \in Requests : Arrive(r)
          \/ \E v \in Writes : DrainArrive(v)
      BY DEF Next, vars, history, Begin, FailFast, Answer, Retry, GiveUp, Refuse, AttemptFails,
             AnswerUnreadable, Cooled, Drain, DrainAnswered, DrainDelete, DrainFails, DrainBroken,
             DrainRefused, Restart
    <3> QED
      BY <3>2, <3>3, <3>4
  <2> QED
    BY <2>2, <2>5, <2>6
<1>2. ASSUME TypeOK, TableInv, NoneRefused, [Next]_vars
      PROVE  [\A w \in pending : Blocked(w) =>
                w \in pending' /\ Blocked(w)' /\ times'[w] = times[w]]_vars
  BY <1>1, <1>2
<1> QED
  BY <1>2, TypeCorrect, TableInvariant, RefusedNeverArrive, PTL DEF Spec
===============================================================================
