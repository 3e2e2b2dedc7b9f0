------------------------- MODULE BusDelivery_proofs -------------------------
(***************************************************************************)
(* Proofs about BusDelivery, for any number of messages and agents, any    *)
(* LIMIT, any length of a second and any bound on the clock.               *)
(***************************************************************************)
EXTENDS BusDelivery, TLAPS

(***************************************************************************)
(* A stamp never sorts before its time, and whole seconds apart it sorts   *)
(* as its time.                                                            *)
(***************************************************************************)
LEMMA StampFacts ==
  ASSUME NEW t \in Nat
  PROVE  Stamp(t) \in Nat /\ Stamp(t) >= t /\ (~Whole(t) => Stamp(t) = t)
BY SecondAssumption DEF Stamp

\* What the table says of a posted message.
LEMMA EnvelopeFields ==
  ASSUME TypeOK, NEW m \in Posted
  PROVE  /\ envelope[m] \in Envelope
         /\ envelope[m].ts \in Nat
         /\ envelope[m].to \in Recipients
BY EnvelopeAssumption DEF TypeOK, Posted, Envelope

\* TypeOK holds of every reachable state.
THEOREM TypeCorrect == Spec => []TypeOK
<1>1. Init => TypeOK
  BY ClockAssumption DEF Init, TypeOK, Posted
<1>2. ASSUME TypeOK, [Next]_vars
      PROVE  TypeOK'
  <2> USE <1>2
  <2>1. CASE Tick
    BY <2>1, ClockAssumption DEF TypeOK, Tick, Posted, bus, loop, history
  <2>2. ASSUME NEW m \in Messages, NEW to \in Recipients, NEW topic \in Topics \cup {None},
               StampMessage(m, to, topic)
        PROVE  TypeOK'
    <3>1. [to |-> to, topic |-> topic, ts |-> clock] \in Envelope
      BY DEF TypeOK, Envelope
    <3>2. envelope' \in [Messages -> Envelope \cup {None}]
      BY <2>2, <3>1 DEF TypeOK, StampMessage
    <3>3. Posted \subseteq Posted'
      BY <2>2, <3>1, EnvelopeAssumption DEF TypeOK, StampMessage, Posted
    <3> QED
      BY <2>2, <3>1, <3>2, <3>3, EnvelopeAssumption DEF TypeOK, StampMessage, loop, Posted
  <2>3. ASSUME NEW m \in Messages, StoreMessage(m)
        PROVE  TypeOK'
    BY <2>3 DEF TypeOK, StoreMessage, UnderWay, Posted, loop, history
  <2>4. ASSUME NEW a \in Agents, NEW topic \in Topics, Subscribe(a, topic) \/ Unsubscribe(a, topic)
        PROVE  TypeOK'
    BY <2>4 DEF TypeOK, Subscribe, Unsubscribe, Posted, loop, history
  <2>5. ASSUME NEW a \in Agents, PollSelect(a)
        PROVE  TypeOK'
    BY <2>5 DEF TypeOK, PollSelect, Matching, UnderWay, Posted, bus
  <2>6. ASSUME NEW a \in Agents, PollAnswer(a)
        PROVE  TypeOK'
    BY <2>6 DEF TypeOK, PollAnswer, Posted, bus
  <2>7. ASSUME NEW a \in Agents, PollFails(a)
        PROVE  TypeOK'
    BY <2>7 DEF TypeOK, PollFails, Posted, bus
  <2>8. ASSUME NEW a \in Agents, AgentRestart(a)
        PROVE  TypeOK'
    BY <2>8 DEF TypeOK, AgentRestart, Posted, bus
  <2>9. ASSUME NEW a \in Agents, NEW m \in Messages, Handle(a, m)
        PROVE  TypeOK'
    BY <2>9 DEF TypeOK, Handle, Posted, bus, history
  <2>10. CASE BusRestart
    <3>1. stored \subseteq Posted'
      BY <2>10 DEF TypeOK, BusRestart, Posted
    <3> QED
      BY <2>10, <3>1 DEF TypeOK, BusRestart
  <2>11. CASE UNCHANGED vars
    BY <2>11 DEF TypeOK, vars, Posted, bus, loop, history
  <2> QED
    BY <2>1, <2>2, <2>3, <2>4, <2>5, <2>6, <2>7, <2>8, <2>9, <2>10, <2>11 DEF Next
<1> QED
  BY <1>1, <1>2, PTL DEF Spec

(***************************************************************************)
(* The order of times behind the three safety properties: nothing is from  *)
(* the future; a row selected comes after since, a row answered or handled *)
(* does not, because server_time is taken after the SELECT.                *)
(***************************************************************************)
NotFromTheFuture ==
  /\ \A m \in Posted : envelope[m].ts <= clock
  /\ \A a \in Agents : since[a] <= clock

SelectedIsAhead ==
  \A a \in polling : \A m \in rows[a] : Stamp(envelope[m].ts) > Stamp(since[a])

AnsweredIsBehind ==
  \A a \in Agents :
    /\ \A m \in handled[a] : envelope[m].ts <= since[a]
    /\ a \notin polling => \A m \in rows[a] : envelope[m].ts <= since[a]

(***************************************************************************)
(* What keeps a message from being lost unseen.  A poll that is open knows *)
(* the inserts beside it; what was stored before it and is still asked for *)
(* is in its answer or cut from it; and a message the agent no longer asks *)
(* for is accounted for.                                                   *)
(***************************************************************************)
Spared(a, m) == m \in overtaken[a] \cup dropped[a]

BesideIsKnown == \A a \in polling : UnderWay \subseteq beside[a]

OpenPollSaw ==
  \A a \in polling : \A m \in stored :
    ToAgent(a, m) /\ Stamp(envelope[m].ts) > Stamp(since[a])
      => m \in rows[a] \cup cut[a] \cup beside[a]

BehindIsKnown ==
  \A a \in Agents : \A m \in Posted :
    Stamp(envelope[m].ts) <= Stamp(since[a]) /\ ~Spared(a, m)
      => m \in stored /\ (ToAgent(a, m) => m \in handled[a] \cup rows[a] \cup cut[a])

LossInv == BesideIsKnown /\ OpenPollSaw /\ BehindIsKnown

ClockInv == TypeOK /\ NotFromTheFuture /\ SelectedIsAhead /\ AnsweredIsBehind

DeliveryInv ==
  ClockInv /\ LossInv /\ HandledOnce /\ HandledInOrder /\ OnTimeNotLost

\* No step changes the row of a stored message, and none takes a row away.
LEMMA RowsStay ==
  ASSUME TypeOK, [Next]_vars
  PROVE  /\ stored \subseteq stored'
         /\ \A m \in stored : envelope'[m] = envelope[m]
         /\ \A m \in Posted' : \/ m \in Posted /\ envelope'[m] = envelope[m]
                               \/ envelope'[m].ts = clock
<1> USE DEF TypeOK, Posted
<1>1. ASSUME NEW m \in Messages, NEW to \in Recipients, NEW topic \in Topics \cup {None},
             StampMessage(m, to, topic)
      PROVE  /\ stored \subseteq stored'
             /\ \A n \in stored : envelope'[n] = envelope[n]
             /\ \A n \in Posted' : \/ n \in Posted /\ envelope'[n] = envelope[n]
                                   \/ envelope'[n].ts = clock
  BY <1>1 DEF StampMessage
<1>2. CASE UNCHANGED <<envelope, stored>>
  BY <1>2
<1>3. CASE BusRestart
  BY <1>3 DEF BusRestart
<1>4. ASSUME NEW m \in Messages, StoreMessage(m)
      PROVE  stored \subseteq stored' /\ envelope' = envelope
  BY <1>4 DEF StoreMessage
<1> QED
  BY <1>1, <1>2, <1>3, <1>4
     DEF Next, vars, bus, Tick, Subscribe, Unsubscribe, PollSelect, PollAnswer, PollFails,
         AgentRestart, Handle

\* The part of the invariant about times is inductive.
LEMMA ClockInvStep ==
  ASSUME ClockInv, TypeOK', [Next]_vars
  PROVE  ClockInv'
<1> USE DEF ClockInv
<1>1. NotFromTheFuture'
  <2>1. clock <= clock' /\ clock \in Nat /\ clock' \in Nat
    BY DEF TypeOK, Next, vars, Tick, StampMessage, StoreMessage, Subscribe, Unsubscribe,
           PollSelect, PollAnswer, PollFails, AgentRestart, Handle, BusRestart
  <2>2. \A a \in Agents : since'[a] = since[a] \/ since'[a] = clock
    BY DEF TypeOK, Next, vars, loop, Tick, StampMessage, StoreMessage, Subscribe, Unsubscribe,
           PollSelect, PollAnswer, PollFails, AgentRestart, Handle, BusRestart
  <2>3. \A m \in Posted' : envelope'[m].ts <= clock'
    BY <2>1, RowsStay, EnvelopeFields DEF NotFromTheFuture
  <2>4. \A a \in Agents : since'[a] <= clock'
    BY <2>1, <2>2 DEF NotFromTheFuture, TypeOK
  <2> QED
    BY <2>3, <2>4 DEF NotFromTheFuture
<1>2. SelectedIsAhead'
  <2> SUFFICES ASSUME NEW a \in polling', NEW m \in rows'[a]
               PROVE  Stamp(envelope'[m].ts) > Stamp(since'[a])
    BY DEF SelectedIsAhead
  <2> a \in Agents
    BY DEF TypeOK
  <2>1. ASSUME PollSelect(a)
        PROVE  m \in stored /\ Stamp(envelope[m].ts) > Stamp(since[a]) /\ since' = since
    BY <2>1 DEF TypeOK, PollSelect, Oldest, Matching
  <2>2. ASSUME ~PollSelect(a)
        PROVE  a \in polling /\ m \in rows[a] /\ since'[a] = since[a]
    BY <2>2 DEF TypeOK, Next, vars, loop, Tick, StampMessage, StoreMessage, Subscribe,
                Unsubscribe, PollSelect, PollAnswer, PollFails, AgentRestart, Handle, BusRestart
  <2>3. m \in stored /\ Stamp(envelope[m].ts) > Stamp(since[a]) /\ since'[a] = since[a]
    BY <2>1, <2>2 DEF SelectedIsAhead, TypeOK
  <2> QED
    BY <2>3, RowsStay
<1>3. AnsweredIsBehind'
  <2> SUFFICES ASSUME NEW a \in Agents
               PROVE  /\ \A m \in handled'[a] : envelope'[m].ts <= since'[a]
                      /\ a \notin polling' => \A m \in rows'[a] : envelope'[m].ts <= since'[a]
    BY DEF AnsweredIsBehind
  <2>1. since[a] \in Nat /\ clock \in Nat /\ since[a] <= clock
    BY DEF TypeOK, NotFromTheFuture
  <2>2. \A m \in stored : envelope[m].ts \in Nat /\ envelope[m].ts <= clock
                          /\ envelope'[m] = envelope[m]
    BY RowsStay, EnvelopeFields DEF NotFromTheFuture, TypeOK
  <2>3. since'[a] = since[a] \/ since'[a] = clock
    BY DEF TypeOK, Next, vars, loop, Tick, StampMessage, StoreMessage, Subscribe, Unsubscribe,
           PollSelect, PollAnswer, PollFails, AgentRestart, Handle, BusRestart
  <2>4. handled[a] \subseteq stored /\ rows[a] \subseteq stored
    BY DEF TypeOK
  <2>5. \A m \in handled'[a] : m \in handled[a] \/ (m \in rows[a] /\ a \notin polling)
    BY DEF TypeOK, Next, vars, loop, Tick, StampMessage, StoreMessage, Subscribe, Unsubscribe,
           PollSelect, PollAnswer, PollFails, AgentRestart, Handle, BusRestart
  <2>6. a \notin polling' =>
          \A m \in rows'[a] : m \in rows[a] /\ (a \notin polling \/ since'[a] = clock)
    BY DEF TypeOK, Next, vars, loop, Tick, StampMessage, StoreMessage, Subscribe, Unsubscribe,
           PollSelect, PollAnswer, PollFails, AgentRestart, Handle, BusRestart
  <2>7. \A m \in handled'[a] : envelope'[m].ts <= since'[a]
    BY <2>1, <2>2, <2>3, <2>4, <2>5 DEF AnsweredIsBehind
  <2>8. a \notin polling' => \A m \in rows'[a] : envelope'[m].ts <= since'[a]
    BY <2>1, <2>2, <2>3, <2>4, <2>6 DEF AnsweredIsBehind
  <2> QED
    BY <2>7, <2>8
<1> QED
  BY <1>1, <1>2, <1>3

\* What the invariant needs to know of the steps, one agent at a time.
LEMMA AgentSteps ==
  ASSUME TypeOK, [Next]_vars, NEW a \in Agents
  PROVE  \/ PollSelect(a)
         \/ PollAnswer(a)
         \/ PollFails(a)
         \/ AgentRestart(a)
         \/ \E m \in Messages : Handle(a, m)
         \/ BusRestart
         \/ /\ a \in polling' <=> a \in polling
            /\ rows'[a] = rows[a] /\ since'[a] = since[a] /\ handled'[a] = handled[a]
            /\ cut'[a] = cut[a] /\ dropped'[a] = dropped[a]
            /\ \/ /\ beside'[a] = beside[a] /\ overtaken'[a] = overtaken[a]
                  /\ envelope' = envelope /\ Posted' = Posted
               \/ \E m \in Messages, to \in Recipients, topic \in Topics \cup {None} :
                    StampMessage(m, to, topic)
BY DEF TypeOK, Next, vars, bus, loop, history, Posted, Tick, StampMessage, StoreMessage,
       Subscribe, Unsubscribe, PollSelect, PollAnswer, PollFails, AgentRestart, Handle

\* No message an agent has handled is selected for it again.
LEMMA HandledOnceStep ==
  ASSUME ClockInv, HandledOnce, TypeOK', ClockInv', [Next]_vars
  PROVE  HandledOnce'
<1> SUFFICES ASSUME NEW a \in Agents, NEW m \in rows'[a], m \in handled'[a],
                    ~Whole(envelope'[m].ts)
             PROVE  FALSE
  BY DEF HandledOnce
<1> USE DEF ClockInv
<1>1. envelope'[m].ts \in Nat /\ since'[a] \in Nat
  BY EnvelopeAssumption DEF TypeOK, Posted, Envelope
<1>2. Stamp(envelope'[m].ts) = envelope'[m].ts
      /\ Stamp(since'[a]) \in Nat /\ Stamp(since'[a]) >= since'[a]
  BY <1>1, StampFacts
<1>3. a \notin polling'
  BY <1>1, <1>2 DEF SelectedIsAhead, AnsweredIsBehind
<1>4. m \in rows[a] /\ m \in handled[a]
  BY <1>3, AgentSteps
     DEF TypeOK, PollSelect, PollAnswer, PollFails, AgentRestart, Handle, BusRestart
<1> QED
  BY <1>4, RowsStay DEF HandledOnce, TypeOK

\* No message older than one the agent has handled is selected for it.
LEMMA HandledInOrderStep ==
  ASSUME ClockInv, HandledInOrder, TypeOK', ClockInv', [Next]_vars
  PROVE  HandledInOrder'
<1> SUFFICES ASSUME NEW a \in Agents, NEW n \in stored', NEW m \in handled'[a],
                    envelope'[n].ts < envelope'[m].ts, ~Whole(envelope'[n].ts)
             PROVE  n \notin rows'[a] /\ n \notin Matching(a)'
  BY DEF HandledInOrder
<1> USE DEF ClockInv
<1>1. m \in stored' /\ n \in Messages /\ m \in Messages
  BY DEF TypeOK, Posted
<1>2. envelope'[n].ts \in Nat /\ envelope'[m].ts \in Nat /\ since'[a] \in Nat
  BY <1>1, EnvelopeAssumption DEF TypeOK, Posted, Envelope
<1>3. envelope'[n].ts <= since'[a]
  BY <1>2 DEF AnsweredIsBehind
<1>4. /\ Stamp(envelope'[n].ts) = envelope'[n].ts /\ Stamp(since'[a]) \in Nat
      /\ Stamp(since'[a]) >= since'[a] /\ Stamp(envelope'[m].ts) \in Nat
      /\ Stamp(envelope'[m].ts) >= envelope'[m].ts
  BY <1>2, StampFacts
<1>5. n \notin Matching(a)'
  BY <1>2, <1>3, <1>4 DEF Matching
<1>6. n \notin rows'[a]
  <2>1. SUFFICES ASSUME n \in rows'[a]
                 PROVE  FALSE
    OBVIOUS
  <2>2. a \notin polling'
    BY <2>1, <1>2, <1>3, <1>4 DEF SelectedIsAhead
  <2>3. n \in rows[a] /\ n \in stored /\ envelope'[n] = envelope[n]
    BY <2>1, <2>2, AgentSteps, RowsStay
       DEF TypeOK, PollSelect, PollAnswer, PollFails, AgentRestart, Handle, BusRestart
  <2>4. CASE m \in handled[a]
    BY <2>3, <2>4, RowsStay DEF HandledInOrder, TypeOK
  <2>5. CASE m \notin handled[a]
    <3>1. Handle(a, m) /\ m \in stored /\ envelope'[m] = envelope[m]
      BY <2>5, AgentSteps, RowsStay
         DEF TypeOK, PollSelect, PollAnswer, PollFails, AgentRestart, Handle, BusRestart
    <3>2. Stamp(envelope[m].ts) <= Stamp(envelope[n].ts)
      BY <3>1, <2>3 DEF Handle
    <3> QED
      BY <3>1, <3>2, <2>3, <1>2, <1>4
  <2> QED
    BY <2>4, <2>5
<1> QED
  BY <1>5, <1>6

\* A message is behind since only if it has been given, cut, dropped or overtaken.
LEMMA LossStep ==
  ASSUME ClockInv, LossInv, TypeOK', [Next]_vars, NEW a \in Agents
  PROVE  /\ a \in polling' => UnderWay' \subseteq beside'[a]
         /\ \A m \in stored' :
              /\ a \in polling' /\ ToAgent(a, m)'
              /\ Stamp(envelope'[m].ts) > Stamp(since'[a])
              => m \in rows'[a] \cup cut'[a] \cup beside'[a]
         /\ \A m \in Posted' :
              /\ Stamp(envelope'[m].ts) <= Stamp(since'[a])
              /\ m \notin overtaken'[a] \cup dropped'[a]
              => /\ m \in stored'
                 /\ ToAgent(a, m)' => m \in handled'[a] \cup rows'[a] \cup cut'[a]
<1> DEFINE Known ==
      /\ a \in polling => UnderWay \subseteq beside[a]
      /\ \A m \in stored :
           a \in polling /\ ToAgent(a, m) /\ Stamp(envelope[m].ts) > Stamp(since[a])
             => m \in rows[a] \cup cut[a] \cup beside[a]
      /\ \A m \in Posted :
           Stamp(envelope[m].ts) <= Stamp(since[a]) /\ m \notin overtaken[a] \cup dropped[a]
             => m \in stored /\ (ToAgent(a, m) => m \in handled[a] \cup rows[a] \cup cut[a])
<1>1. Known
  BY DEF LossInv, BesideIsKnown, OpenPollSaw, BehindIsKnown, Spared
<1>2. /\ stored \subseteq Posted /\ stored' \subseteq Posted'
      /\ stored \subseteq stored' /\ \A m \in stored : envelope'[m] = envelope[m]
  BY RowsStay DEF ClockInv, TypeOK
<1>3. /\ clock \in Nat /\ since[a] \in Nat /\ Stamp(since[a]) \in Nat /\ Stamp(clock) \in Nat
      /\ \A m \in Posted : envelope[m].ts \in Nat /\ Stamp(envelope[m].ts) \in Nat
  BY EnvelopeFields, StampFacts DEF ClockInv, TypeOK
<1> USE DEF ToAgent
<1>4. CASE PollSelect(a)
  <2>1. /\ a \notin polling /\ envelope' = envelope /\ stored' = stored /\ since' = since
        /\ rows[a] = {} /\ handled' = handled /\ overtaken' = overtaken /\ dropped' = dropped
        /\ Posted' = Posted /\ beside'[a] = UnderWay /\ cut[a] \subseteq cut'[a]
        /\ Matching(a) \subseteq rows'[a] \cup cut'[a]
    BY <1>4 DEF ClockInv, TypeOK, PollSelect, bus, Posted
  <2>2. UnderWay' = UnderWay
    BY <2>1 DEF UnderWay
  <2> QED
    BY <1>1, <2>1, <2>2 DEF Matching
<1>5. CASE PollAnswer(a)
  <2>1. /\ a \in polling /\ a \notin polling' /\ envelope' = envelope /\ stored' = stored
        /\ rows' = rows /\ handled' = handled /\ cut' = cut /\ dropped' = dropped
        /\ Posted' = Posted /\ overtaken'[a] = overtaken[a] \cup beside[a]
    BY <1>5 DEF ClockInv, TypeOK, PollAnswer, bus, Posted
  <2>2. ASSUME NEW m \in Posted, m \notin overtaken'[a] \cup dropped'[a]
        PROVE  m \in stored /\ (ToAgent(a, m) => m \in handled[a] \cup rows[a] \cup cut[a])
    <3>1. m \in stored
      BY <1>1, <2>1, <2>2 DEF UnderWay
    <3>2. CASE Stamp(envelope[m].ts) <= Stamp(since[a])
      BY <1>1, <2>1, <2>2, <3>2
    <3>3. CASE Stamp(envelope[m].ts) > Stamp(since[a])
      BY <1>1, <2>1, <2>2, <3>1, <3>3
    <3> QED
      BY <1>3, <3>2, <3>3
  <2> QED
    BY <2>1, <2>2
<1>6. CASE PollFails(a)
  <2>1. /\ a \in polling /\ a \notin polling' /\ envelope' = envelope /\ stored' = stored
        /\ since' = since /\ handled' = handled /\ cut' = cut /\ dropped' = dropped
        /\ Posted' = Posted /\ overtaken' = overtaken
    BY <1>6 DEF ClockInv, TypeOK, PollFails, bus, Posted
  <2>2. \A m \in rows[a] : Stamp(envelope[m].ts) > Stamp(since[a]) /\ m \in stored
    BY <2>1 DEF ClockInv, TypeOK, SelectedIsAhead
  <2> QED
    BY <1>1, <1>2, <1>3, <2>1, <2>2
<1>7. CASE AgentRestart(a)
  BY <1>2, <1>7 DEF ClockInv, TypeOK, AgentRestart, bus, Posted
<1>8. ASSUME NEW n \in Messages, Handle(a, n)
      PROVE  /\ a \notin polling' /\ envelope' = envelope /\ stored' = stored
             /\ since' = since /\ cut' = cut /\ dropped' = dropped /\ overtaken' = overtaken
             /\ Posted' = Posted
             /\ handled[a] \cup rows[a] = handled'[a] \cup rows'[a]
  BY <1>8 DEF ClockInv, TypeOK, Handle, bus, history, Posted
<1>9. CASE BusRestart
  <2>1. /\ polling' = {} /\ stored' = stored /\ since' = since /\ handled' = handled
        /\ cut' = cut /\ Posted' = stored /\ overtaken'[a] = overtaken[a] \cap stored
        /\ dropped'[a] = dropped[a] \cap stored
        /\ rows'[a] = IF a \in polling THEN {} ELSE rows[a]
    BY <1>9 DEF ClockInv, TypeOK, BusRestart, Posted
  <2>2. a \in polling => \A m \in rows[a] : Stamp(envelope[m].ts) > Stamp(since[a])
    BY DEF ClockInv, SelectedIsAhead
  <2>3. rows[a] \subseteq stored
    BY DEF ClockInv, TypeOK
  <2> QED
    BY <1>1, <1>2, <1>3, <2>1, <2>2, <2>3
<1>10. CASE /\ a \in polling' <=> a \in polling
            /\ rows'[a] = rows[a] /\ since'[a] = since[a] /\ handled'[a] = handled[a]
            /\ cut'[a] = cut[a] /\ dropped'[a] = dropped[a]
            /\ beside'[a] = beside[a] /\ overtaken'[a] = overtaken[a]
            /\ envelope' = envelope /\ Posted' = Posted
  BY <1>1, <1>2, <1>10 DEF UnderWay
<1>11. ASSUME NEW n \in Messages, NEW to \in Recipients, NEW topic \in Topics \cup {None},
              StampMessage(n, to, topic)
       PROVE  /\ stored' = stored /\ rows' = rows /\ since' = since /\ handled' = handled
              /\ cut' = cut /\ dropped' = dropped /\ polling' = polling /\ n \notin Posted
              /\ beside'[a] = IF a \in polling THEN beside[a] \cup {n} ELSE beside[a]
              /\ overtaken'[a] = IF Stamp(clock) <= Stamp(since[a])
                                 THEN overtaken[a] \cup {n} ELSE overtaken[a]
              /\ Posted' = Posted \cup {n} /\ envelope'[n].ts = clock
              /\ \A m \in Posted : envelope'[m] = envelope[m]
  <2>1. [to |-> to, topic |-> topic, ts |-> clock] \in Envelope
    BY DEF ClockInv, TypeOK, Envelope
  <2> QED
    BY <1>11, <2>1, EnvelopeAssumption DEF ClockInv, TypeOK, StampMessage, loop, Posted
<1>12. ASSUME NEW n \in Messages, NEW to \in Recipients, NEW topic \in Topics \cup {None},
              StampMessage(n, to, topic)
       PROVE  Known'
  BY <1>1, <1>2, <1>11, <1>12 DEF UnderWay
<1> QED
  BY <1>1, <1>2, <1>4, <1>5, <1>6, <1>7, <1>8, <1>9, <1>10, <1>12, AgentSteps DEF ClockInv

\* The invariant keeps every message that is on time at hand.
LEMMA OnTimeFromLossInv ==
  ASSUME ClockInv, LossInv
  PROVE  OnTimeNotLost
<1> SUFFICES ASSUME NEW a \in Agents, NEW m \in OnTime(a),
                    m \notin handled[a] \cup rows[a]
             PROVE  m \in Matching(a)
  BY DEF OnTimeNotLost
<1>1. m \in stored /\ m \in Posted /\ ToAgent(a, m) /\ ~Spared(a, m) /\ m \notin cut[a]
  BY DEF OnTime, Spared, ClockInv, TypeOK
<1>2. ~(Stamp(envelope[m].ts) <= Stamp(since[a]))
  BY <1>1 DEF LossInv, BehindIsKnown
<1>3. envelope[m].ts \in Nat /\ since[a] \in Nat
  BY <1>1, EnvelopeFields DEF ClockInv, TypeOK
<1>4. Stamp(envelope[m].ts) \in Nat /\ Stamp(since[a]) \in Nat
  BY <1>3, StampFacts
<1> QED
  BY <1>1, <1>2, <1>4 DEF Matching

LEMMA DeliveryInvariant == Spec => []DeliveryInv
<1>1. Init => DeliveryInv
  <2>1. ASSUME Init
        PROVE  TypeOK /\ Posted = {} /\ polling = {} /\ stored = {}
    BY <2>1, ClockAssumption DEF Init, TypeOK, Posted
  <2> QED
    BY <2>1, ClockAssumption
       DEF Init, DeliveryInv, ClockInv, NotFromTheFuture, SelectedIsAhead, AnsweredIsBehind,
           LossInv, BesideIsKnown, OpenPollSaw, BehindIsKnown, HandledOnce, HandledInOrder,
           OnTimeNotLost, OnTime
<1>2. ASSUME DeliveryInv, TypeOK', [Next]_vars
      PROVE  DeliveryInv'
  <2>1. ClockInv' /\ HandledOnce' /\ HandledInOrder'
    BY <1>2, ClockInvStep, HandledOnceStep, HandledInOrderStep DEF DeliveryInv
  <2>2. LossInv'
    <3>1. polling' \subseteq Agents
      BY <1>2 DEF TypeOK
    <3> QED
      BY <1>2, <3>1, LossStep
         DEF DeliveryInv, LossInv, BesideIsKnown, OpenPollSaw, BehindIsKnown, Spared
  <2>3. OnTimeNotLost'
    BY <2>1, <2>2, OnTimeFromLossInv, PTL
  <2> QED
    BY <2>1, <2>2, <2>3 DEF DeliveryInv
<1> QED
  BY <1>1, <1>2, TypeCorrect, PTL DEF Spec

(***************************************************************************)
(* The poll loop keeps no record of what it has handled, and yet handles   *)
(* nothing twice, whole seconds apart: polls may fail, answers may be cut  *)
(* by LIMIT and either side may restart.                                   *)
(***************************************************************************)
THEOREM NothingIsHandledTwice == Spec => []HandledOnce
BY DeliveryInvariant, PTL DEF DeliveryInv

(***************************************************************************)
(* Messages are handled in the order of their stamps, although neither the *)
(* order of the INSERTs nor the answers of poll follow it.                 *)
(***************************************************************************)
THEOREM MessagesAreHandledInOrder == Spec => []HandledInOrder
BY DeliveryInvariant, PTL DEF DeliveryInv

(***************************************************************************)
(* A message addressed to an agent reaches it unless LIMIT cuts it, the    *)
(* agent restarts, its insert overlaps an answered poll, or its stamp does *)
(* not sort behind the last server_time: nothing else loses a message.     *)
(***************************************************************************)
THEOREM OnTimeMessagesAreNotLost == Spec => []OnTimeNotLost
BY DeliveryInvariant, PTL DEF DeliveryInv
===============================================================================
