----------------------------- MODULE DebateArena -----------------------------
(***************************************************************************)
(* One task's way through the debate arena: the PM's orchestrator          *)
(* (debate-arena/agents/pm), the primary agent that writes the drafts, and *)
(* the critics, all of them poll loops that talk through the message bus.  *)
(* An agent handles one message at a time; its handler is a script of bus  *)
(* calls, and the calls of different agents interleave.  A PATCH is two    *)
(* steps, the check and the write (BusTasks); a message is received in the *)
(* order of its stamp or lost (BusDelivery).                               *)
(*                                                                         *)
(* Left out: messages no handler acts on (status_update, escalation, the   *)
(* other state_changes, acks), and PATCHes from outside the arena.         *)
(***************************************************************************)
EXTENDS Integers, Sequences

CONSTANTS
  Critics,      \* the agents that may be asked for a critique
  Reviewers,    \* QA and RE, whose answers are adversarial reviews
  Tiers,        \* what classify_and_assign may make of a task
  MaxFaults     \* bound on lost messages, failed calls and restarts

PM      == "PM"
Primary == "primary"
Actor   == {PM, Primary}
Agent   == Actor \cup Critics

\* metadata.debate without current_round: the registered critics, the final
\* critic, whether the tier is light_review, and max_rounds (0 for no_debate).
ASSUME TiersAssumption ==
  \A t \in Tiers : /\ t.critics \in Seq(Critics)
                   /\ t.final \in Reviewers
                   /\ t.light \in BOOLEAN
                   /\ t.rounds \in Nat
ASSUME AgentsAssumption == Reviewers \subseteq Critics /\ Actor \cap Critics = {}
ASSUME FaultsAssumption == MaxFaults \in Nat

VARIABLES
  tier,       \* the tier of the task, the same whenever it is classified
  state,      \* the state column of the task, "none" before POST /tasks
  round,      \* metadata.debate.current_round
  drafts,     \* how many drafts the primary has sent; a draft is its number
  inbox,      \* [Agent -> messages to come, in the order of their stamps]
  script,     \* [Actor -> calls its handler has still to make]
  checked,    \* actors whose PATCH has passed the check against the table
  faults,     \* how many faults have happened
  overtaken   \* history: the PM came to decide on a draft not yet IN_REVIEW

vars == <<tier, state, round, drafts, inbox, script, checked, faults, overtaken>>

Lifecycle == INSTANCE TaskLifecycle
               WITH Tasks <- {"task"}, Absent <- "none", state <- [t \in {"task"} |-> state]

Allowed(s) == state # "none" /\ s \in Lifecycle!VALID_TRANSITIONS[state]

(***************************************************************************)
(* Messages and calls.  A PATCH says on which draft it decides and why.    *)
(***************************************************************************)
Verdict == {"approve", "revise"}    \* "reject" is treated as "revise"

Deliverable(d)   == [kind |-> "deliverable", draft |-> d]
Review(d)        == [kind |-> "review", draft |-> d]
Answer(c, d, v)  == [kind |-> "verdict", from |-> c, draft |-> d, verdict |-> v]
Work(kind)       == [kind |-> kind]

Patch(s)           == [op |-> "patch", to |-> s]
Decide(s, r, d, w) == [op |-> "patch", to |-> s, round |-> r, draft |-> d, why |-> w]
Send(who, m)       == [op |-> "send", who |-> who, msg |-> m]

Accept(r, d, w) == <<Decide("ACCEPTED", r, d, w), Decide("CLOSED", r, d, w)>>

Init ==
  /\ tier \in Tiers
  /\ state     = "none"
  /\ round     = 0
  /\ drafts    = 0
  /\ inbox     = [x \in Agent |-> <<>>]
  /\ script    = [x \in Actor |-> <<>>]
  /\ checked   = {}
  /\ faults    = 0
  /\ overtaken = FALSE

\* POST /tasks announces the task to ALL; BOB may also assign it to the PM.
Create(announcements) ==
  /\ state = "none"
  /\ state' = "CREATED"
  /\ inbox' = [inbox EXCEPT ![PM] = announcements]
  /\ UNCHANGED <<tier, round, drafts, script, checked, faults, overtaken>>

(***************************************************************************)
(* What the PM makes of a message, on the task it has just read.           *)
(***************************************************************************)
\* Mutant: the primary hears of its task before the task is assigned.
ClassifyBackwards == <<Send(Primary, Work("assign")), Decide("ASSIGNED", 0, 0, "new")>>

\* classify_and_assign
Classify == <<Decide("ASSIGNED", 0, 0, "new"), Send(Primary, Work("assign"))>>

\* handle_deliverable: every critic is asked, or nobody in the no_debate tier.
Route(d) ==
  IF tier.rounds = 0
    THEN Accept(round, d, "no_debate")
    ELSE [i \in DOMAIN tier.critics |-> Send(tier.critics[i], Review(d))]

\* Mutant: the limit is tested on the round before this one.
ReviseLate(d) ==
  IF round >= tier.rounds
    THEN Accept(round + 1, d, "escalated")
    ELSE <<Decide("REWORK", round + 1, d, "revise"), Send(Primary, Work("revise"))>>

\* A further round, or _escalate when there is none left.  The first escalation
\* of every tier with critics accepts the task; a second one finds it accepted.
Revise(d) ==
  IF round + 1 >= tier.rounds
    THEN Accept(round + 1, d, "escalated")
    ELSE <<Decide("REWORK", round + 1, d, "revise"), Send(Primary, Work("revise"))>>

\* Mutant: the final critic's approval is passed on like any other's.
ApprovedAgain(c, d) == IF tier.light THEN Accept(round, d, "approved") ELSE <<Send(tier.final, Review(d))>>

\* handle_qa_verdict accepts on a reviewer's approval; handle_critique passes
\* any other critic's on to the final critic.  That request carries the
\* critique, not the draft, as its deliverable.
Approved(c, d) ==
  IF c \in Reviewers \/ tier.light
    THEN Accept(round, d, "approved")
    ELSE <<Send(tier.final, Review(d))>>

\* handle_task_assignment and handle_critique_request of the primary agents:
\* send_deliverable sends the draft before it reports it.
Draft ==
  <<Patch("IN_PROGRESS"), Send(PM, Deliverable(drafts + 1)), Patch("IN_REVIEW")>>

(***************************************************************************)
(* handle_message of the PM and the primary: the loop takes the next       *)
(* message when it is done with the last one.                              *)
(***************************************************************************)
Incoming(x, kind) ==
  script[x] = <<>> /\ inbox[x] # <<>> /\ Head(inbox[x]).kind = kind

Begin(x, calls) ==
  /\ script' = [script EXCEPT ![x] = calls]
  /\ inbox'  = [inbox EXCEPT ![x] = Tail(@)]
  /\ UNCHANGED <<tier, state, round, drafts, checked, faults, overtaken>>

\* A new task is classified unless it has an assignee by now.
HandleCreated ==
  /\ Incoming(PM, "created")
  /\ Begin(PM, IF state = "CREATED" THEN Classify ELSE <<>>)

\* One that BOB hands to the PM is classified in any case.
HandleDelegated == Incoming(PM, "delegated") /\ Begin(PM, Classify)

HandleDeliverable ==
  /\ Incoming(PM, "deliverable")
  /\ Begin(PM, Route(Head(inbox[PM]).draft))

HandleVerdict ==
  /\ Incoming(PM, "verdict")
  /\ LET m == Head(inbox[PM])
     IN  Begin(PM, IF m.verdict = "approve" THEN Approved(m.from, m.draft)
                                            ELSE Revise(m.draft))

HandleWork ==
  /\ Incoming(Primary, "assign") \/ Incoming(Primary, "revise")
  /\ Begin(Primary, Draft)

(***************************************************************************)
(* The calls of a handler                                                  *)
(***************************************************************************)
NextCall(x, op) == script[x] # <<>> /\ Head(script[x]).op = op

CallSend(x) ==
  /\ NextCall(x, "send")
  /\ LET call == Head(script[x])
     IN  /\ inbox'  = [inbox EXCEPT ![call.who] = Append(@, call.msg)]
         /\ drafts' = IF call.msg.kind = "deliverable" THEN call.msg.draft ELSE drafts
  /\ script' = [script EXCEPT ![x] = Tail(@)]
  /\ UNCHANGED <<tier, state, round, checked, faults, overtaken>>

\* Mutant: the bus takes any state.
CallPatchUnchecked(x) ==
  /\ NextCall(x, "patch")
  /\ x \notin checked
  /\ state # "none"
  /\ checked' = checked \cup {x}
  /\ UNCHANGED <<tier, state, round, drafts, inbox, script, faults, overtaken>>

\* The bus reads the task and checks the transition.
CallPatch(x) ==
  /\ NextCall(x, "patch")
  /\ x \notin checked
  /\ Allowed(Head(script[x]).to)
  /\ checked' = checked \cup {x}
  /\ UNCHANGED <<tier, state, round, drafts, inbox, script, faults, overtaken>>

\* The bus writes the columns, and answers.
PatchWritten(x) ==
  /\ x \in checked
  /\ LET call == Head(script[x])
     IN  /\ state' = call.to
         /\ round' = IF x = PM THEN call.round ELSE round
  /\ checked' = checked \ {x}
  /\ script'  = [script EXCEPT ![x] = Tail(@)]
  /\ UNCHANGED <<tier, drafts, inbox, faults, overtaken>>

\* 422: raise_for_status ends the handler, with what it had still to do.
PatchRefused(x) ==
  /\ NextCall(x, "patch")
  /\ x \notin checked
  /\ ~Allowed(Head(script[x]).to)
  /\ script' = [script EXCEPT ![x] = <<>>]
  /\ overtaken' = (overtaken \/ (x = PM /\ script[Primary] = <<Patch("IN_REVIEW")>>))
  /\ UNCHANGED <<tier, state, round, drafts, inbox, checked, faults>>

(***************************************************************************)
(* A critic reads a request, thinks, and answers: one call on the bus.     *)
(***************************************************************************)
Critique(c, v) ==
  /\ inbox[c] # <<>>
  /\ inbox' = [inbox EXCEPT ![c]  = Tail(@),
                            ![PM] = Append(@, Answer(c, Head(inbox[c]).draft, v))]
  /\ UNCHANGED <<tier, state, round, drafts, script, checked, faults, overtaken>>

(***************************************************************************)
(* Faults.  A PATCH that is on the bus when its caller goes has failed or  *)
(* has been written; it does not come back after the caller has.           *)
(***************************************************************************)
Faulty == faults < MaxFaults /\ faults' = faults + 1

\* Mutant: the PATCH of a handler that is over is still to be written.
HandlerFailsHalfway(x) ==
  /\ Faulty
  /\ script[x] # <<>>
  /\ script' = [script EXCEPT ![x] = <<>>]
  /\ UNCHANGED <<tier, state, round, drafts, inbox, checked, overtaken>>

\* A call raises, or its answer is lost: the handler is over.
HandlerFails(x) ==
  /\ Faulty
  /\ script[x] # <<>>
  /\ script'  = [script EXCEPT ![x] = <<>>]
  /\ checked' = checked \ {x}
  /\ UNCHANGED <<tier, state, round, drafts, inbox, overtaken>>

\* A message is passed over by its recipient's poll, or its handler raises.
MessageLost(y) ==
  /\ Faulty
  /\ inbox[y] # <<>>
  /\ inbox' = [inbox EXCEPT ![y] = Tail(@)]
  /\ UNCHANGED <<tier, state, round, drafts, script, checked, overtaken>>

\* An agent is restarted and polls from now.
Restart(y) ==
  /\ Faulty
  /\ inbox'   = [inbox EXCEPT ![y] = <<>>]
  /\ script'  = [x \in Actor |-> IF x = y THEN <<>> ELSE script[x]]
  /\ checked' = checked \ {y}
  /\ UNCHANGED <<tier, state, round, drafts, overtaken>>

Handle(x) ==
  \/ x = PM /\ (HandleCreated \/ HandleDelegated \/ HandleDeliverable \/ HandleVerdict)
  \/ x = Primary /\ HandleWork

Call(x) ==
  \/ CallSend(x)
  \/ CallPatch(x)
  \/ PatchWritten(x)
  \/ PatchRefused(x)

Fault ==
  \/ \E x \in Actor : HandlerFails(x)
  \/ \E y \in Agent : MessageLost(y) \/ Restart(y)

Next ==
  \/ Create(<<Work("created")>>)
  \/ Create(<<Work("created"), Work("delegated")>>)
  \/ \E x \in Actor : Handle(x) \/ Call(x)
  \/ \E c \in Critics, v \in Verdict : Critique(c, v)
  \/ Fault

Spec == Init /\ [][Next]_vars

(***************************************************************************)
(* Every poll loop gets on with its messages; no fault is ever due, and no *)
(* critic has to approve.                                                  *)
(***************************************************************************)
Fairness ==
  /\ \A x \in Actor : WF_vars(Handle(x) \/ Call(x))
  /\ \A c \in Critics : WF_vars(\E v \in Verdict : Critique(c, v))

FairSpec == Spec /\ Fairness

(***************************************************************************)
(* Properties                                                              *)
(***************************************************************************)
Message ==
  {Work(k) : k \in {"created", "delegated", "assign", "revise"}}
    \cup {Deliverable(d) : d \in 1..drafts} \cup {Review(d) : d \in 1..drafts}
    \cup {Answer(c, d, v) : c \in Critics, d \in 1..drafts, v \in Verdict}

TypeOK ==
  /\ tier      \in Tiers
  /\ state     \in Lifecycle!TaskState \cup {"none"}
  /\ round     \in Nat
  /\ drafts    \in Nat
  /\ inbox     \in [Agent -> Seq(Message)]
  /\ DOMAIN script = Actor
  /\ checked   \subseteq {x \in Actor : NextCall(x, "patch")}
  /\ faults    \in 0..MaxFaults
  /\ overtaken \in BOOLEAN

\* Though the bus checks and writes in two steps, nothing the agents do makes
\* the task leave its lifecycle: whoever PATCHes, the other one cannot.
ImplementsLifecycle == Lifecycle!Spec

\* However many critics object to however many drafts, in whatever order their
\* verdicts come, the debate ends: no round after the last, no draft too many.
RoundsBounded ==
  /\ round <= tier.rounds
  /\ drafts <= IF tier.rounds = 0 THEN 1 ELSE tier.rounds

\* The primary is asked once for each round: what waits for it fits the state
\* the task is in, so that no request finds the task moved on.
WorkFitsState ==
  /\ Len(inbox[Primary]) <= 1
  /\ inbox[Primary] = <<Work("assign")>> => state = "ASSIGNED"
  /\ inbox[Primary] = <<Work("revise")>> => state = "REWORK"

\* The draft that is accepted is the last one: the primary is not at work on
\* another, and will not be.
AcceptedIsFinal ==
  state \in {"ACCEPTED", "CLOSED"} => script[Primary] = <<>> /\ inbox[Primary] = <<>>

\* Every task is closed in the end, whatever the critics say, unless there was
\* a fault or the PM overtook the primary's report.
EventuallyClosed ==
  state = "CREATED" ~> state = "CLOSED" \/ faults > 0 \/ overtaken

\* The documented gate: what is accepted as approved has passed the review.
ApprovedAsReviewed ==
  [][\A x \in Actor :
       (PatchWritten(x) /\ state' = "ACCEPTED" /\ Head(script[x]).why = "approved")
         => Head(script[x]).draft = drafts]_vars
===============================================================================
