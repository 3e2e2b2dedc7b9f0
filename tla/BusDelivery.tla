----------------------------- MODULE BusDelivery -----------------------------
(***************************************************************************)
(* How a message gets from POST /messages to an agent's handler: the bus   *)
(* stamps and stores it (message-bus/app/database.py), and an agent's poll *)
(* loop (buslib/agent_base.py) asks for what is newer than the time the    *)
(* last answer carried.  Nothing marks a message as delivered: the clock   *)
(* alone keeps it from being lost or handled twice.                        *)
(*                                                                         *)
(* Time is counted in ticks of now_iso's resolution; all containers run on *)
(* one host and read one clock.                                            *)
(***************************************************************************)
EXTENDS Integers, FiniteSets

CONSTANTS
  Messages,   \* message identifiers
  Recipients, \* whom a message may be addressed to, ALL among them
  Agents,     \* the recipients whose poll loops are followed
  Topics,     \* topics an agent may subscribe to
  Addresses,  \* recipient and topic, as callers combine them
  ALL,        \* the broadcast recipient
  None,       \* no topic; no message
  Limit,      \* rows one poll returns at most
  Second,     \* ticks in a second
  MaxClock    \* bound on the clock

ASSUME LimitAssumption  == Limit \in Nat \ {0}
ASSUME SecondAssumption == Second \in Nat \ {0}
ASSUME ClockAssumption  == MaxClock \in Nat \ {0, 1}
ASSUME NamesAssumption  == Agents \subseteq Recipients \ {ALL} /\ None \notin Topics
ASSUME AddressAssumption == Addresses \subseteq Recipients \X (Topics \cup {None})

VARIABLES
  clock,      \* the time of day
  envelope,   \* [Messages -> recipient, topic and timestamp, or None]
  stored,     \* messages whose row is committed
  subs,       \* rows of the subscriptions table
  polling,    \* agents whose GET /messages/poll has run its SELECT
  rows,       \* [Agents -> messages selected, or answered and not yet handled]
  since,      \* [Agents -> _last_poll]
  handled,    \* [Agents -> messages given to handle_message]
  beside,     \* history: [Agents -> messages under way while its poll is open]
  overtaken,  \* history: [Agents -> messages its server_time has gone past]
  cut,        \* history: [Agents -> messages LIMIT has kept from an answer]
  dropped     \* history: [Agents -> messages a restart has skipped]

bus     == <<envelope, stored, subs>>
loop    == <<polling, rows, since, handled>>
history == <<beside, overtaken, cut, dropped>>
vars    == <<clock, bus, loop, history>>

Envelope == [to : Recipients, topic : Topics \cup {None}, ts : 1..MaxClock]

ASSUME EnvelopeAssumption == None \notin Envelope

(***************************************************************************)
(* now_iso leaves out the fraction of a second when it is zero, and "Z"    *)
(* sorts behind ".": as text, which is how the bus compares, a whole       *)
(* second comes after every other stamp of the second it starts.           *)
(***************************************************************************)
Whole(t) == t % Second = 0
Stamp(t) == IF Whole(t) THEN t + Second ELSE t

Posted   == {m \in Messages : envelope[m] # None}
UnderWay == Posted \ stored

ToAgent(a, m)    == envelope[m].to \in {a, ALL}
Subscribed(a, m) == <<a, envelope[m].topic>> \in subs

\* The agents have just started.
Init ==
  /\ clock    = 2
  /\ envelope = [m \in Messages |-> None]
  /\ stored   = {}
  /\ subs     = {}
  /\ polling  = {}
  /\ rows     = [a \in Agents |-> {}]
  /\ since    = [a \in Agents |-> 1]
  /\ handled  = [a \in Agents |-> {}]
  /\ beside    = [a \in Agents |-> {}]
  /\ overtaken = [a \in Agents |-> {}]
  /\ cut      = [a \in Agents |-> {}]
  /\ dropped  = [a \in Agents |-> {}]

Tick ==
  /\ clock < MaxClock
  /\ clock' = clock + 1
  /\ UNCHANGED <<bus, loop, history>>

(***************************************************************************)
(* POST /messages                                                          *)
(***************************************************************************)
Sent(to, topic) == <<to, topic>> \in Addresses

\* insert_message takes the time before it awaits the parent and the INSERT.  An
\* agent whose last answer's time the stamp does not sort behind, because that is
\* the same tick or began a second the stamp is in, will not ask for the message.
StampMessage(m, to, topic) ==
  /\ Sent(to, topic)
  /\ envelope[m] = None
  /\ envelope'  = [envelope EXCEPT ![m] = [to |-> to, topic |-> topic, ts |-> clock]]
  /\ beside'    = [a \in Agents |-> IF a \in polling THEN beside[a] \cup {m} ELSE beside[a]]
  /\ overtaken' = [a \in Agents |->
                     IF Stamp(clock) <= Stamp(since[a]) THEN overtaken[a] \cup {m}
                     ELSE overtaken[a]]
  /\ UNCHANGED <<clock, stored, subs, loop, cut, dropped>>

StoreMessage(m) ==
  /\ m \in UnderWay
  /\ stored' = stored \cup {m}
  /\ UNCHANGED <<clock, envelope, subs, loop, history>>

(***************************************************************************)
(* /subscriptions                                                          *)
(***************************************************************************)
Subscribe(a, topic) ==
  /\ subs' = subs \cup {<<a, topic>>}
  /\ UNCHANGED <<clock, envelope, stored, loop, history>>

Unsubscribe(a, topic) ==
  /\ subs' = subs \ {<<a, topic>>}
  /\ UNCHANGED <<clock, envelope, stored, loop, history>>

(***************************************************************************)
(* The poll loop                                                           *)
(***************************************************************************)
\* Mutants: a row is visible before its commit; a broadcast is not selected.
MatchingUncommitted(a) ==
  {m \in Posted : /\ ToAgent(a, m) \/ Subscribed(a, m)
                  /\ Stamp(envelope[m].ts) > Stamp(since[a])}
MatchingDirect(a) ==
  {m \in stored : /\ envelope[m].to = a \/ Subscribed(a, m)
                  /\ Stamp(envelope[m].ts) > Stamp(since[a])}

\* The WHERE clause of poll_messages.
Matching(a) ==
  {m \in stored : /\ ToAgent(a, m) \/ Subscribed(a, m)
                  /\ Stamp(envelope[m].ts) > Stamp(since[a])}

\* ORDER BY timestamp ASC LIMIT: the oldest of M.
Oldest(R, M) ==
  /\ R \subseteq M
  /\ \A x \in R, y \in M \ R : Stamp(envelope[x].ts) <= Stamp(envelope[y].ts)
  /\ Cardinality(R) = IF Cardinality(M) > Limit THEN Limit ELSE Cardinality(M)

\* The SELECT.  The loop polls when the last answer is dealt with.
PollSelect(a) ==
  /\ a \notin polling
  /\ rows[a] = {}
  /\ \E R \in SUBSET Matching(a) :
       /\ Oldest(R, Matching(a))
       /\ rows' = [rows EXCEPT ![a] = R]
       /\ cut'  = [cut EXCEPT ![a] = @ \cup (Matching(a) \ R)]
  /\ polling' = polling \cup {a}
  /\ beside'  = [beside EXCEPT ![a] = UnderWay]
  /\ UNCHANGED <<clock, bus, since, handled, overtaken, dropped>>

\* Mutant: the loop does not take over the server's time.
PollAnswerForgotten(a) ==
  /\ a \in polling
  /\ polling' = polling \ {a}
  /\ UNCHANGED <<clock, bus, rows, since, handled, history>>

\* server_time is taken after the SELECT; the loop advances _last_poll to it
\* before it handles the first message.
PollAnswer(a) ==
  /\ a \in polling
  /\ polling'   = polling \ {a}
  /\ since'     = [since EXCEPT ![a] = clock]
  /\ overtaken' = [overtaken EXCEPT ![a] = @ \cup beside[a]]
  /\ beside'    = [beside EXCEPT ![a] = {}]
  /\ UNCHANGED <<clock, bus, rows, handled, cut, dropped>>

\* Mutant: the loop advances when it asks and not when it is answered.
PollFailsAdvanced(a) ==
  /\ a \in polling
  /\ polling' = polling \ {a}
  /\ rows'    = [rows EXCEPT ![a] = {}]
  /\ since'   = [since EXCEPT ![a] = clock]
  /\ UNCHANGED <<clock, bus, handled, history>>

\* Timeout, lost answer or error: the loop logs it and asks again.
PollFails(a) ==
  /\ a \in polling
  /\ polling' = polling \ {a}
  /\ rows'    = [rows EXCEPT ![a] = {}]
  /\ beside'  = [beside EXCEPT ![a] = {}]
  /\ UNCHANGED <<clock, bus, since, handled, overtaken, cut, dropped>>

\* Mutant: ORDER BY timestamp DESC, as in list_messages.
HandleNewestFirst(a, m) ==
  /\ a \notin polling
  /\ m \in rows[a]
  /\ \A x \in rows[a] : Stamp(envelope[m].ts) >= Stamp(envelope[x].ts)
  /\ handled' = [handled EXCEPT ![a] = @ \cup {m}]
  /\ rows'    = [rows EXCEPT ![a] = @ \ {m}]
  /\ UNCHANGED <<clock, bus, polling, since, history>>

\* The next message of the answer; a handler that raises is done with it too.
Handle(a, m) ==
  /\ a \notin polling
  /\ m \in rows[a]
  /\ \A x \in rows[a] : Stamp(envelope[m].ts) <= Stamp(envelope[x].ts)
  /\ handled' = [handled EXCEPT ![a] = @ \cup {m}]
  /\ rows'    = [rows EXCEPT ![a] = @ \ {m}]
  /\ UNCHANGED <<clock, bus, polling, since, history>>

(***************************************************************************)
(* Restarts                                                                *)
(***************************************************************************)
\* The agent's process: a new instance starts listening from now.
AgentRestart(a) ==
  /\ since'   = [since EXCEPT ![a] = clock]
  /\ rows'    = [rows EXCEPT ![a] = {}]
  /\ polling' = polling \ {a}
  /\ dropped' = [dropped EXCEPT ![a] = @ \cup (Posted \ handled[a])]
  /\ beside'  = [beside EXCEPT ![a] = {}]
  /\ UNCHANGED <<clock, bus, handled, overtaken, cut>>

\* The bus: rows stay, requests in flight are gone.
BusRestart ==
  /\ envelope' = [m \in Messages |-> IF m \in stored THEN envelope[m] ELSE None]
  /\ polling'  = {}
  /\ rows'     = [a \in Agents |-> IF a \in polling THEN {} ELSE rows[a]]
  /\ beside'    = [a \in Agents |-> {}]
  /\ overtaken' = [a \in Agents |-> overtaken[a] \cap stored]
  /\ dropped'   = [a \in Agents |-> dropped[a] \cap stored]
  /\ UNCHANGED <<clock, stored, subs, since, handled, cut>>

Next ==
  \/ Tick
  \/ \E m \in Messages :
       \/ \E to \in Recipients, topic \in Topics \cup {None} :
            StampMessage(m, to, topic)
       \/ StoreMessage(m)
  \/ \E a \in Agents, topic \in Topics : Subscribe(a, topic) \/ Unsubscribe(a, topic)
  \/ \E a \in Agents :
       \/ PollSelect(a)
       \/ PollAnswer(a)
       \/ PollFails(a)
       \/ AgentRestart(a)
       \/ \E m \in Messages : Handle(a, m)
  \/ BusRestart

Spec == Init /\ [][Next]_vars

(***************************************************************************)
(* The loop polls and handles as long as it runs, and a poll sooner or     *)
(* later gets its answer.  Nothing is assumed of senders or of the clock.  *)
(***************************************************************************)
Fairness ==
  \A a \in Agents :
    /\ WF_vars(PollSelect(a))
    /\ SF_vars(PollAnswer(a))
    /\ WF_vars(\E m \in Messages : Handle(a, m))

FairSpec == Spec /\ Fairness

(***************************************************************************)
(* Properties                                                              *)
(***************************************************************************)
TypeOK ==
  /\ clock    \in 1..MaxClock
  /\ envelope \in [Messages -> Envelope \cup {None}]
  /\ stored   \subseteq Posted
  /\ subs     \subseteq Agents \X Topics
  /\ polling  \subseteq Agents
  /\ rows     \in [Agents -> SUBSET stored]
  /\ since    \in [Agents -> 1..MaxClock]
  /\ handled  \in [Agents -> SUBSET stored]
  /\ beside    \in [Agents -> SUBSET Posted]
  /\ overtaken \in [Agents -> SUBSET Posted]
  /\ cut      \in [Agents -> SUBSET stored]
  /\ dropped  \in [Agents -> SUBSET Posted]

\* No agent is given a message again, whatever polls fail or are cut short,
\* unless the message bears a whole second.
HandledOnce ==
  \A a \in Agents : \A m \in rows[a] \cap handled[a] : Whole(envelope[m].ts)

\* Whole seconds apart, an agent handles messages in the order of their stamps,
\* whatever LIMIT cuts, so what one sender tells it arrives in the order sent:
\* once it has handled a message, none stamped before it is still to come.
HandledInOrder ==
  \A a \in Agents, n \in stored : \A m \in handled[a] :
    envelope[n].ts < envelope[m].ts /\ ~Whole(envelope[n].ts)
      => n \notin rows[a] \cup Matching(a)

\* The messages for the agent that it ought to be given: all but those LIMIT has
\* cut from an answer, those posted before it restarted, and those it has been
\* overtaken by.  A message is overtaken when its insert (from now_iso to the
\* commit, wherever in it the SELECT falls) overlaps a poll that is answered, or
\* when it is stamped in the tick, or the whole second, of the last server_time.
OnTime(a) ==
  {m \in stored : ToAgent(a, m)} \ (cut[a] \cup dropped[a] \cup overtaken[a])

\* A message is lost to an agent in those ways only (LIMIT, a restart, an insert
\* beside an answered poll, a stamp not behind the last one): any other is
\* handled, or at hand, or still asked for, whatever polls fail.
OnTimeNotLost ==
  \A a \in Agents : OnTime(a) \subseteq handled[a] \cup rows[a] \cup Matching(a)

\* And it does get handled: again and again the agent has caught up with all of
\* the messages it ought to be given.
OnTimeHandled ==
  \A a \in Agents : []<>(OnTime(a) \subseteq handled[a])
===============================================================================
