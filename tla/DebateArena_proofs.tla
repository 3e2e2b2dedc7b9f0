-------------------------- MODULE DebateArena_proofs --------------------------
(***************************************************************************)
(* Theorems about DebateArena, for every set of critics, every tier with   *)
(* any number of critics and rounds, and any number of faults.             *)
(***************************************************************************)
EXTENDS DebateArena, SequenceTheorems, TLAPS

(***************************************************************************)
(* What is under way.  A message is about a draft that has been sent, and  *)
(* what is left of a handler is a tail of a script some handler begins.    *)
(***************************************************************************)
Drafted == 1..drafts
Rounds  == 0..(tier.rounds + 1)
Why     == {"no_debate", "escalated", "approved"}

\* What an agent is sent.
Suited(y) ==
  IF y = PM THEN {Work("created"), Work("delegated")} \cup {Deliverable(d) : d \in Drafted}
                   \cup {Answer(c, d, v) : c \in Critics, d \in Drafted, v \in Verdict}
  ELSE IF y = Primary THEN {Work("assign"), Work("revise")}
  ELSE {Review(d) : d \in Drafted}

Asks == {Send(c, Review(d)) : c \in Critics, d \in Drafted}

\* The handlers and what is left of them, the PM's and the primary's.
Assigning        == <<Send(Primary, Work("assign"))>>
Revising         == <<Send(Primary, Work("revise"))>>
Closing(r, d, w) == <<Decide("CLOSED", r, d, w)>>
Reworking(r, d)  == <<Decide("REWORK", r, d, "revise"), Send(Primary, Work("revise"))>>
Reporting        == <<Patch("IN_REVIEW")>>
Delivering(d)    == <<Send(PM, Deliverable(d)), Patch("IN_REVIEW")>>
Drafting(d)      == <<Patch("IN_PROGRESS"), Send(PM, Deliverable(d)), Patch("IN_REVIEW")>>

PMScript ==
  {Classify, Assigning, Revising} \cup Seq(Asks)
    \cup {Accept(r, d, w) : r \in Rounds, d \in Drafted, w \in Why}
    \cup {Closing(r, d, w) : r \in Rounds, d \in Drafted, w \in Why}
    \cup {Reworking(r, d) : r \in Rounds, d \in Drafted}

PrimaryScript == {<<>>, Reporting, Delivering(drafts + 1), Drafting(drafts + 1)}

InboxTyped ==
  /\ inbox \in [Agent -> Seq(Message)]
  /\ \A y \in Agent : inbox[y] \in Seq(Suited(y))

ArenaTyped ==
  /\ tier \in Tiers
  /\ state \in Lifecycle!TaskState \cup {"none"}
  /\ round \in Nat /\ drafts \in Nat /\ faults \in 0..MaxFaults /\ overtaken \in BOOLEAN
  /\ InboxTyped
  /\ script \in [Actor -> PMScript \cup PrimaryScript]
  /\ script[PM] \in PMScript /\ script[Primary] \in PrimaryScript
  /\ checked \subseteq Actor

(***************************************************************************)
(* Whose turn it is.  The states from which the PM may PATCH are not those *)
(* from which the primary may, so that a PATCH past the check is as valid  *)
(* when it is written; and the primary's work is the PM about to send it,  *)
(* a message in its inbox or its handler, never two of them, in a state    *)
(* the PM cannot change.                                                   *)
(***************************************************************************)
CheckedIsAllowed ==
  \A x \in checked : NextCall(x, "patch") /\ Allowed(Head(script[x]).to)

Patches(x, s) == NextCall(x, "patch") /\ Head(script[x]).to = s
Sends(x, m)   == NextCall(x, "send") /\ Head(script[x]).msg = m

PrimaryFree == inbox[Primary] = <<>> /\ script[Primary] = <<>>

OneTurn ==
  /\ Sends(PM, Work("assign")) => state = "ASSIGNED" /\ PrimaryFree
  /\ Sends(PM, Work("revise")) => state = "REWORK" /\ PrimaryFree
  /\ inbox[Primary] # <<>> =>
       /\ script[Primary] = <<>>
       /\ \/ state = "ASSIGNED" /\ inbox[Primary] = <<Work("assign")>>
          \/ state = "REWORK" /\ inbox[Primary] = <<Work("revise")>>
  /\ Patches(Primary, "IN_PROGRESS") => state \in {"ASSIGNED", "REWORK"}
  /\ NextCall(Primary, "send") => state = "IN_PROGRESS"
  /\ Patches(Primary, "IN_REVIEW") => state = "IN_PROGRESS"

(***************************************************************************)
(* The rounds.  A decision carries the round it was made in or the next:   *)
(* only the PM's own PATCHes change it, and it makes one decision at a     *)
(* time.  One made on a task that is over will be refused.                 *)
(***************************************************************************)
Over == state \in {"ACCEPTED", "CLOSED"}

RoundsCounted ==
  /\ round <= tier.rounds
  /\ ~Over => round = 0 \/ round < tier.rounds
  /\ state \in {"none", "CREATED"} => round = 0
  /\ Patches(PM, "REWORK") =>
       Head(script[PM]).round = round + 1 /\ round + 1 < tier.rounds
  /\ Patches(PM, "ACCEPTED") =>
       \/ Over
       \/ Head(script[PM]).round \in {round, round + 1} /\ Head(script[PM]).round <= tier.rounds
  /\ Patches(PM, "CLOSED") => Head(script[PM]).round = round

\* One draft a round: none before it is asked for, none after it has been sent.
DraftsCounted ==
  /\ drafts <= IF tier.rounds = 0 THEN 1 ELSE tier.rounds
  /\ ~Over => drafts <= round + 1
  /\ state \in {"none", "CREATED", "ASSIGNED", "REWORK"} => drafts <= round
  /\ NextCall(Primary, "send") => drafts <= round

\* Without a debate nobody is asked, and nobody answers.
NobodyAsked ==
  tier.rounds = 0 =>
    /\ \A c \in Critics : inbox[c] = <<>>
    /\ \A i \in DOMAIN inbox[PM] : inbox[PM][i].kind # "verdict"
    /\ NextCall(PM, "send") => Head(script[PM]).msg.kind # "review"

DebateInv ==
  ArenaTyped /\ CheckedIsAllowed /\ OneTurn /\ RoundsCounted /\ DraftsCounted /\ NobodyAsked

(***************************************************************************)
(* Lemmas about the scripts and the inboxes.                               *)
(***************************************************************************)
LEMMA Names ==
  /\ Agent = {PM, Primary} \cup Critics /\ Actor = {PM, Primary} /\ PM # Primary
  /\ \A c \in Critics : c # PM /\ c # Primary
BY AgentsAssumption DEF Agent, Actor, PM, Primary

LEMMA Tails ==
  /\ \A a : <<a>> # <<>> /\ Head(<<a>>) = a /\ Tail(<<a>>) = <<>>
  /\ \A a, b : <<a, b>> # <<>> /\ Head(<<a, b>>) = a /\ Tail(<<a, b>>) = <<b>>
  /\ \A a, b, c : <<a, b, c>> # <<>> /\ Head(<<a, b, c>>) = a /\ Tail(<<a, b, c>>) = <<b, c>>
OBVIOUS

LEMMA LargerSeq ==
  ASSUME NEW S, NEW T, S \subseteq T
  PROVE  Seq(S) \subseteq Seq(T)
BY SeqDef

LEMMA Appended ==
  ASSUME NEW S, NEW q \in Seq(S), NEW m
  PROVE  \A i \in DOMAIN Append(q, m) :
           \/ i \in DOMAIN q /\ Append(q, m)[i] = q[i]
           \/ Append(q, m)[i] = m
<1>1. q \in Seq(S \cup {m}) /\ m \in S \cup {m}
  BY LargerSeq
<1>2. /\ Len(Append(q, m)) = Len(q) + 1 /\ Append(q, m)[Len(q) + 1] = m
      /\ \A i \in 1..Len(q) : Append(q, m)[i] = q[i]
      /\ Append(q, m) \in Seq(S \cup {m})
  BY <1>1, AppendProperties
<1>3. DOMAIN q = 1..Len(q) /\ Len(q) \in Nat /\ DOMAIN Append(q, m) = 1..(Len(q) + 1)
  BY <1>2
<1> QED
  BY <1>2, <1>3

\* The PM's calls, each with what is left of its handler after it.
PMNext(call, rest) ==
  \/ /\ call.op = "patch" /\ call.to = "ASSIGNED" /\ call.round = 0
     /\ rest = Assigning
  \/ /\ call.op = "patch" /\ call.to = "REWORK" /\ call.round \in Rounds
     /\ rest = Revising
  \/ /\ call.op = "patch" /\ call.to = "ACCEPTED" /\ call.round \in Rounds
     /\ \E d \in Drafted, w \in Why : rest = Closing(call.round, d, w)
  \/ /\ call.op = "patch" /\ call.to = "CLOSED" /\ call.round \in Rounds
     /\ rest = <<>>
  \/ /\ call.op = "send" /\ call.who = Primary /\ call.msg = Work("assign")
     /\ rest = <<>>
  \/ /\ call.op = "send" /\ call.who = Primary /\ call.msg = Work("revise")
     /\ rest = <<>>
  \/ /\ call.op = "send" /\ call.who \in Critics /\ \E d \in Drafted : call.msg = Review(d)
     /\ rest \in Seq(Asks)

LEMMA PMCalls ==
  ASSUME ArenaTyped, script[PM] # <<>>
  PROVE  PMNext(Head(script[PM]), Tail(script[PM]))
<1> USE DEF Decide, Send
<1>1. CASE script[PM] = Classify
  BY <1>1, Tails DEF Classify, Assigning, PMNext
<1>2. CASE script[PM] \in {Assigning, Revising}
  <2>1. /\ Head(script[PM]) \in {Send(Primary, Work("assign")), Send(Primary, Work("revise"))}
        /\ Tail(script[PM]) = <<>>
    BY <1>2, Tails DEF Assigning, Revising
  <2>2. \A m : Send(Primary, m).op = "send" /\ Send(Primary, m).who = Primary
              /\ Send(Primary, m).msg = m
    OBVIOUS
  <2> HIDE DEF Send
  <2> QED
    BY <2>1, <2>2 DEF PMNext
<1>3. ASSUME NEW r \in Rounds, NEW d \in Drafted, NEW w \in Why, script[PM] = Accept(r, d, w)
      PROVE  PMNext(Head(script[PM]), Tail(script[PM]))
  <2>1. Head(script[PM]) = Decide("ACCEPTED", r, d, w) /\ Tail(script[PM]) = Closing(r, d, w)
    BY <1>3, Tails DEF Accept, Closing
  <2>2. Decide("ACCEPTED", r, d, w).op = "patch" /\ Decide("ACCEPTED", r, d, w).to = "ACCEPTED"
        /\ Decide("ACCEPTED", r, d, w).round = r
    OBVIOUS
  <2> HIDE DEF Decide
  <2>3. /\ Head(script[PM]).op = "patch" /\ Head(script[PM]).to = "ACCEPTED"
        /\ Head(script[PM]).round = r
    BY <2>1, <2>2
  <2>4. \E e \in Drafted, v \in Why : Tail(script[PM]) = Closing(Head(script[PM]).round, e, v)
    BY <2>1, <2>3
  <2> QED
    BY <2>3, <2>4 DEF PMNext
<1>4. ASSUME NEW r \in Rounds, NEW d \in Drafted, NEW w \in Why, script[PM] = Closing(r, d, w)
      PROVE  PMNext(Head(script[PM]), Tail(script[PM]))
  BY <1>4, Tails DEF Closing, PMNext
<1>5. ASSUME NEW r \in Rounds, NEW d \in Drafted, script[PM] = Reworking(r, d)
      PROVE  PMNext(Head(script[PM]), Tail(script[PM]))
  BY <1>5, Tails DEF Reworking, Revising, PMNext
<1>6. CASE script[PM] \in Seq(Asks)
  <2>1. Head(script[PM]) \in Asks /\ Tail(script[PM]) \in Seq(Asks)
    BY <1>6
  <2> QED
    BY <2>1 DEF Asks, PMNext
<1> QED
  BY <1>1, <1>2, <1>3, <1>4, <1>5, <1>6 DEF ArenaTyped, PMScript

LEMMA Kinds ==
  /\ Work("assign").kind = "assign" /\ Work("revise").kind = "revise"
  /\ \A d : Review(d).kind = "review" /\ Review(d).draft = d
  /\ \A d : Deliverable(d).kind = "deliverable" /\ Deliverable(d).draft = d
  /\ \A c, d, v : Answer(c, d, v).kind = "verdict" /\ Answer(c, d, v).draft = d
BY DEF Work, Review, Deliverable, Answer

\* The same of the primary's.
LEMMA PrimaryCalls ==
  ASSUME ArenaTyped, script[Primary] # <<>>
  PROVE  LET call == Head(script[Primary])
             rest == Tail(script[Primary])
         IN  \/ /\ call.op = "patch" /\ call.to = "IN_PROGRESS"
                /\ rest = Delivering(drafts + 1)
             \/ /\ call.op = "send" /\ call.who = PM /\ call.msg = Deliverable(drafts + 1)
                /\ call.msg.kind = "deliverable" /\ call.msg.draft = drafts + 1
                /\ rest = Reporting
             \/ call.op = "patch" /\ call.to = "IN_REVIEW" /\ rest = <<>>
<1> USE DEF Patch, Send, Deliverable
<1>1. CASE script[Primary] = Drafting(drafts + 1)
  BY <1>1, Tails DEF Drafting, Delivering
<1>2. CASE script[Primary] = Delivering(drafts + 1)
  BY <1>2, Tails DEF Delivering, Reporting
<1>3. CASE script[Primary] = Reporting
  BY <1>3, Tails DEF Reporting
<1> QED
  BY <1>1, <1>2, <1>3 DEF ArenaTyped, PrimaryScript

LEMMA SuitedIsMessage == \A y \in Agent : Suited(y) \subseteq Message
BY Names DEF Suited, Message, Drafted, Work, Deliverable, Review, Answer

\* As drafts are sent, there is more to talk about.
LEMMA DraftsGrow ==
  ASSUME tier' = tier, drafts \in Nat, drafts' \in Nat, drafts <= drafts'
  PROVE  /\ Message \subseteq Message'
         /\ \A y \in Agent : Seq(Suited(y)) \subseteq Seq(Suited(y)')
         /\ PMScript \subseteq PMScript'
<1>1. Drafted \subseteq Drafted' /\ 1..drafts \subseteq 1..drafts'
  BY DEF Drafted
<1>2. Message \subseteq Message'
  BY <1>1 DEF Message
<1>3. ASSUME NEW y \in Agent PROVE Suited(y) \subseteq Suited(y)'
  BY <1>1 DEF Suited
<1>4. \A y \in Agent : Seq(Suited(y)) \subseteq Seq(Suited(y)')
  BY <1>3, LargerSeq
<1>5. Asks \subseteq Asks'
  BY <1>1 DEF Asks
<1>6. Seq(Asks) \subseteq Seq(Asks')
  BY <1>5, LargerSeq
<1>7. PMScript \subseteq PMScript'
  BY <1>1, <1>6 DEF PMScript, Rounds
<1> QED
  BY <1>2, <1>4, <1>7

LEMMA DraftsStay ==
  ASSUME UNCHANGED <<tier, drafts>>
  PROVE  /\ Message' = Message /\ PMScript' = PMScript /\ PrimaryScript' = PrimaryScript
         /\ Drafted' = Drafted /\ Rounds' = Rounds
         /\ \A y \in Agent : Suited(y)' = Suited(y)
BY DEF Message, PMScript, PrimaryScript, Drafted, Rounds, Suited, Asks

(***************************************************************************)
(* Steps that begin a handler.                                             *)
(***************************************************************************)
PMHandles == HandleCreated \/ HandleDelegated \/ HandleDeliverable \/ HandleVerdict

\* What the PM may make of a message, as the invariant has it.
Resolved(s) ==
  \/ s = <<>> \/ s = Classify
  \/ \E r \in {round, round + 1}, d \in Drafted, w \in Why :
       s = Accept(r, d, w) /\ (Over \/ r <= tier.rounds)
  \/ \E d \in Drafted : s = Reworking(round + 1, d) /\ round + 1 < tier.rounds
  \/ s \in Seq(Asks) /\ tier.rounds # 0

LEMMA PMBegins ==
  ASSUME DebateInv, PMHandles
  PROVE  \E s : Resolved(s) /\ Begin(PM, s) /\ script[PM] = <<>> /\ inbox[PM] # <<>>
<1> DEFINE m == Head(inbox[PM])
<1>1. PICK s : Begin(PM, s) /\ \/ s = <<>> \/ s = Classify
                               \/ m.kind = "deliverable" /\ s = Route(m.draft)
                               \/ m.kind = "verdict" /\ s = Approved(m.from, m.draft)
                               \/ m.kind = "verdict" /\ s = Revise(m.draft)
  BY DEF PMHandles, HandleCreated, HandleDelegated, HandleDeliverable, HandleVerdict, Incoming
<1>2. inbox[PM] # <<>> /\ script[PM] = <<>>
  BY DEF PMHandles, HandleCreated, HandleDelegated, HandleDeliverable, HandleVerdict, Incoming
<1>3. m \in Suited(PM) /\ inbox[PM] \in Seq(Suited(PM)) /\ m = inbox[PM][1]
      /\ 1 \in DOMAIN inbox[PM]
  BY <1>2, Names DEF DebateInv, ArenaTyped, InboxTyped
<1>4. /\ m.kind \in {"deliverable", "verdict"} => m.draft \in Drafted
      /\ m.kind = "verdict" => m.from \in Critics
  BY <1>3, Kinds DEF Suited, Work, Deliverable, Answer
<1>5. m.kind = "verdict" => tier.rounds # 0
  BY <1>3 DEF DebateInv, NobodyAsked
<1>6. /\ tier.critics \in Seq(Critics) /\ tier.final \in Critics /\ tier.rounds \in Nat
      /\ round \in Nat
  BY TiersAssumption, AgentsAssumption DEF DebateInv, ArenaTyped
<1>7. round <= tier.rounds /\ (Over \/ round = 0 \/ round < tier.rounds) /\ round \in Rounds
      /\ round + 1 \in Rounds
  BY <1>6 DEF DebateInv, RoundsCounted, Rounds
<1> HIDE DEF m
<1>8. ASSUME m.kind = "deliverable", s = Route(m.draft)
      PROVE  Resolved(s)
  <2>1. CASE tier.rounds = 0
    BY <1>4, <1>7, <1>8, <2>1 DEF Route, Resolved, Why
  <2>2. CASE tier.rounds # 0
    <3>1. s = [i \in DOMAIN tier.critics |-> Send(tier.critics[i], Review(m.draft))]
      BY <1>8, <2>2 DEF Route
    <3>2. \A i \in DOMAIN tier.critics : Send(tier.critics[i], Review(m.draft)) \in Asks
      BY <1>4, <1>6, <1>8 DEF Asks
    <3>3. DOMAIN tier.critics = 1..Len(tier.critics) /\ Len(tier.critics) \in Nat
      BY <1>6
    <3>4. s \in [1..Len(tier.critics) -> Asks]
      BY <3>1, <3>2, <3>3
    <3>5. s \in Seq(Asks)
      BY <3>3, <3>4, SeqDef
    <3> QED
      BY <2>2, <3>5 DEF Resolved
  <2> QED
    BY <2>1, <2>2
<1>9. ASSUME m.kind = "verdict", s = Approved(m.from, m.draft)
      PROVE  Resolved(s)
  <2>1. CASE m.from \in Reviewers \/ tier.light
    BY <1>4, <1>7, <1>9, <2>1 DEF Approved, Resolved, Why
  <2>2. CASE ~(m.from \in Reviewers \/ tier.light)
    <3>1. s = <<Send(tier.final, Review(m.draft))>>
      BY <1>9, <2>2 DEF Approved
    <3>2. Send(tier.final, Review(m.draft)) \in Asks
      BY <1>4, <1>6, <1>9 DEF Asks
    <3>3. s \in Seq(Asks)
      BY <3>1, <3>2
    <3> QED
      BY <1>5, <1>9, <3>3 DEF Resolved
  <2> QED
    BY <2>1, <2>2
<1>10. ASSUME m.kind = "verdict", s = Revise(m.draft)
       PROVE  Resolved(s)
  <2>1. CASE round + 1 >= tier.rounds
    <3>1. s = Accept(round + 1, m.draft, "escalated")
      BY <1>10, <2>1 DEF Revise
    <3>2. Over \/ round + 1 <= tier.rounds
      BY <1>5, <1>6, <1>7, <1>10
    <3> QED
      BY <1>4, <1>10, <3>1, <3>2 DEF Resolved, Why
  <2>2. CASE ~(round + 1 >= tier.rounds)
    <3>1. s = Reworking(round + 1, m.draft)
      BY <1>10, <2>2 DEF Revise, Reworking
    <3>2. round + 1 < tier.rounds
      BY <1>6, <2>2
    <3> QED
      BY <1>4, <1>10, <3>1, <3>2 DEF Resolved
  <2> QED
    BY <2>1, <2>2
<1>11. Resolved(s)
  BY <1>1, <1>8, <1>9, <1>10 DEF Resolved
<1> QED
  BY <1>1, <1>2, <1>11

\* What the first call of such a handler is.
LEMMA ResolvedCalls ==
  ASSUME DebateInv, NEW s, Resolved(s), s # <<>>
  PROVE  /\ s \in PMScript
         /\ LET call == Head(s)
            IN  \/ call.op = "patch" /\ call.to = "ASSIGNED"
                \/ /\ call.op = "patch" /\ call.to = "ACCEPTED" /\ call.round \in {round, round + 1}
                   /\ Over \/ call.round <= tier.rounds
                \/ /\ call.op = "patch" /\ call.to = "REWORK" /\ call.round = round + 1
                   /\ round + 1 < tier.rounds
                \/ /\ call.op = "send" /\ \E d \in Drafted : call.msg = Review(d)
                   /\ tier.rounds # 0
<1>1. round \in Rounds /\ round + 1 \in Rounds
  BY TiersAssumption DEF DebateInv, ArenaTyped, RoundsCounted, Rounds
<1>2. CASE s = Classify
  BY <1>2, Tails DEF Classify, PMScript, Decide
<1>3. ASSUME NEW r \in {round, round + 1}, NEW d \in Drafted, NEW w \in Why,
             s = Accept(r, d, w), Over \/ r <= tier.rounds
      PROVE  /\ s \in PMScript /\ Head(s).op = "patch" /\ Head(s).to = "ACCEPTED"
             /\ Head(s).round = r
  <2>1. Head(s) = Decide("ACCEPTED", r, d, w)
    BY <1>3, Tails DEF Accept
  <2>2. s \in PMScript
    BY <1>1, <1>3 DEF PMScript
  <2> QED
    BY <2>1, <2>2 DEF Decide
<1>4. ASSUME NEW d \in Drafted, s = Reworking(round + 1, d)
      PROVE  /\ s \in PMScript /\ Head(s).op = "patch" /\ Head(s).to = "REWORK"
             /\ Head(s).round = round + 1
  <2>1. Head(s) = Decide("REWORK", round + 1, d, "revise")
    BY <1>4, Tails DEF Reworking
  <2>2. s \in PMScript
    BY <1>1, <1>4 DEF PMScript
  <2> QED
    BY <2>1, <2>2 DEF Decide
<1>5. ASSUME s \in Seq(Asks)
      PROVE  s \in PMScript /\ Head(s).op = "send" /\ \E d \in Drafted : Head(s).msg = Review(d)
  <2>1. Head(s) \in Asks
    BY <1>5
  <2> QED
    BY <1>5, <2>1 DEF PMScript, Asks, Send
<1> QED
  BY <1>2, <1>3, <1>4, <1>5 DEF Resolved

LEMMA PMBeginsStep ==
  ASSUME DebateInv, PMHandles
  PROVE  DebateInv'
<1>1. PICK s : Resolved(s) /\ Begin(PM, s) /\ script[PM] = <<>> /\ inbox[PM] # <<>>
  BY PMBegins
<1>2. /\ UNCHANGED <<tier, state, round, drafts, checked, faults, overtaken>>
      /\ script' = [script EXCEPT ![PM] = s] /\ inbox' = [inbox EXCEPT ![PM] = Tail(inbox[PM])]
  BY <1>1 DEF Begin
<1>3. script'[PM] = s /\ script'[Primary] = script[Primary]
  BY <1>2, Names DEF DebateInv, ArenaTyped
<1>4. \A y \in Agent : inbox'[y] = IF y = PM THEN Tail(inbox[PM]) ELSE inbox[y]
  BY <1>2 DEF DebateInv, ArenaTyped, InboxTyped
<1>5. s \in PMScript
  <2>1. <<>> \in PMScript
    BY DEF PMScript
  <2>2. s # <<>> => s \in PMScript
    BY <1>1, ResolvedCalls
  <2> QED
    BY <2>1, <2>2
<1>6. Tail(inbox[PM]) \in Seq(Suited(PM)) /\ Tail(inbox[PM]) \in Seq(Message)
  BY <1>1, Names DEF DebateInv, ArenaTyped, InboxTyped
<1>7. ArenaTyped'
  <2>1. InboxTyped'
    BY <1>2, <1>4, <1>6, DraftsStay DEF DebateInv, ArenaTyped, InboxTyped
  <2> QED
    BY <1>2, <1>3, <1>5, <2>1, DraftsStay DEF DebateInv, ArenaTyped
<1>8. CheckedIsAllowed'
  <2>1. PM \notin checked
    BY <1>1 DEF DebateInv, CheckedIsAllowed, NextCall
  <2> QED
    BY <1>2, <1>3, <2>1, Names DEF DebateInv, ArenaTyped, CheckedIsAllowed, NextCall, Allowed
<1>9. /\ inbox'[Primary] = inbox[Primary]
      /\ \A call : NextCall(Primary, call)' = NextCall(Primary, call)
      /\ \A t : Patches(Primary, t)' = Patches(Primary, t)
  BY <1>3, <1>4, Names DEF NextCall, Patches
<1>10. OneTurn'
  <2>1. ~Sends(PM, Work("assign"))' /\ ~Sends(PM, Work("revise"))'
    BY <1>1, <1>3, ResolvedCalls, Kinds DEF Sends, NextCall
  <2> QED
    BY <1>2, <1>3, <1>9, <2>1 DEF DebateInv, OneTurn, PrimaryFree
<1>11. RoundsCounted'
  BY <1>1, <1>2, <1>3, ResolvedCalls DEF DebateInv, RoundsCounted, Over, Patches, NextCall
<1>12. DraftsCounted'
  BY <1>2, <1>9 DEF DebateInv, DraftsCounted, Over
<1>13. NobodyAsked'
  <2>1. NextCall(PM, "send")' => tier.rounds # 0
    BY <1>1, <1>3, ResolvedCalls DEF NextCall
  <2>2. \A i \in DOMAIN Tail(inbox[PM]) : /\ i + 1 \in DOMAIN inbox[PM]
                                         /\ Tail(inbox[PM])[i] = inbox[PM][i + 1]
    BY <1>1, Names DEF DebateInv, ArenaTyped, InboxTyped
  <2> QED
    BY <1>2, <1>4, <2>1, <2>2, Names DEF DebateInv, NobodyAsked
<1> QED
  BY <1>7, <1>8, <1>10, <1>11, <1>12, <1>13 DEF DebateInv

LEMMA PrimaryBeginsStep ==
  ASSUME DebateInv, HandleWork
  PROVE  DebateInv'
<1>1. /\ UNCHANGED <<tier, state, round, drafts, checked, faults, overtaken>>
      /\ script' = [script EXCEPT ![Primary] = Draft]
      /\ inbox' = [inbox EXCEPT ![Primary] = Tail(inbox[Primary])]
      /\ script[Primary] = <<>> /\ inbox[Primary] # <<>>
  BY DEF HandleWork, Incoming, Begin
<1>2. Draft = Drafting(drafts + 1)
  BY DEF Draft, Drafting
<1>3. script'[Primary] = Drafting(drafts + 1) /\ script'[PM] = script[PM]
  BY <1>1, <1>2, Names DEF DebateInv, ArenaTyped
<1>4. \A y \in Agent : inbox'[y] = IF y = Primary THEN Tail(inbox[Primary]) ELSE inbox[y]
  BY <1>1 DEF DebateInv, ArenaTyped, InboxTyped
<1>5. /\ state \in {"ASSIGNED", "REWORK"} /\ inbox'[Primary] = <<>>
      /\ ~Sends(PM, Work("assign")) /\ ~Sends(PM, Work("revise"))
  <2>1. \/ state = "ASSIGNED" /\ inbox[Primary] = <<Work("assign")>>
        \/ state = "REWORK" /\ inbox[Primary] = <<Work("revise")>>
    BY <1>1 DEF DebateInv, OneTurn
  <2>2. inbox'[Primary] = <<>>
    BY <1>4, <2>1, Tails, Names
  <2> QED
    BY <1>1, <2>1, <2>2 DEF DebateInv, OneTurn, PrimaryFree
<1>6. Head(script'[Primary]) = Patch("IN_PROGRESS") /\ script'[Primary] # <<>>
  BY <1>3, Tails DEF Drafting
<1>7. ArenaTyped'
  <2>1. InboxTyped'
    BY <1>1, <1>4, DraftsStay, Names DEF DebateInv, ArenaTyped, InboxTyped
  <2>2. script' \in [Actor -> PMScript \cup PrimaryScript]
    BY <1>1, <1>2, Names DEF DebateInv, ArenaTyped, PrimaryScript
  <2> QED
    BY <1>1, <1>3, <2>1, <2>2, DraftsStay DEF DebateInv, ArenaTyped, PrimaryScript
<1>8. CheckedIsAllowed'
  <2>1. Primary \notin checked
    BY <1>1 DEF DebateInv, CheckedIsAllowed, NextCall
  <2> QED
    BY <1>1, <1>3, <2>1, Names DEF DebateInv, ArenaTyped, CheckedIsAllowed, NextCall, Allowed
<1>9. OneTurn'
  <2>1. ~Sends(PM, Work("assign"))' /\ ~Sends(PM, Work("revise"))'
    BY <1>3, <1>5 DEF Sends, NextCall
  <2>2. ~NextCall(Primary, "send")' /\ ~Patches(Primary, "IN_REVIEW")'
    BY <1>6 DEF NextCall, Patches, Patch
  <2> QED
    BY <1>1, <1>5, <2>1, <2>2 DEF OneTurn
<1>10. RoundsCounted'
  BY <1>1, <1>3 DEF DebateInv, RoundsCounted, Over, Patches, NextCall
<1>11. DraftsCounted'
  <2>1. ~NextCall(Primary, "send")'
    BY <1>6 DEF NextCall, Patch
  <2> QED
    BY <1>1, <2>1 DEF DebateInv, DraftsCounted, Over
<1>12. NobodyAsked'
  BY <1>1, <1>3, <1>4, Names DEF DebateInv, NobodyAsked, NextCall
<1> QED
  BY <1>7, <1>8, <1>9, <1>10, <1>11, <1>12 DEF DebateInv

(***************************************************************************)
(* Steps that only drop: a refused PATCH, and every fault.                 *)
(***************************************************************************)
Drops ==
  /\ UNCHANGED <<tier, state, round, drafts>>
  /\ script' \in [Actor -> PMScript \cup PrimaryScript]
  /\ \A x \in Actor : script'[x] \in {script[x], <<>>}
  /\ inbox' \in [Agent -> Seq(Message)]
  /\ \A y \in Agent : \/ inbox'[y] \in {inbox[y], <<>>}
                      \/ inbox[y] # <<>> /\ inbox'[y] = Tail(inbox[y])
  /\ checked' \subseteq checked /\ \A x \in checked' : script'[x] = script[x]
  /\ faults' \in 0..MaxFaults /\ overtaken' \in BOOLEAN

LEMMA Dropping ==
  ASSUME DebateInv, Fault \/ (\E x \in Actor : PatchRefused(x)) \/ UNCHANGED vars
  PROVE  Drops
<1>1. <<>> \in PMScript /\ <<>> \in PrimaryScript /\ <<>> \in Seq(Message)
  BY DEF PMScript, PrimaryScript
<1>2. \A y \in Agent : /\ inbox[y] \in Seq(Message)
                       /\ inbox[y] # <<>> => Tail(inbox[y]) \in Seq(Message)
  BY DEF DebateInv, ArenaTyped, InboxTyped
<1>3. Faulty => faults' \in 0..MaxFaults
  BY FaultsAssumption DEF Faulty, DebateInv, ArenaTyped
<1>4. ASSUME NEW x \in Actor, PatchRefused(x) PROVE Drops
  <2>1. \A y \in checked : y # x
    BY <1>4 DEF PatchRefused
  <2> QED
    BY <1>1, <1>4, <2>1 DEF PatchRefused, Drops, DebateInv, ArenaTyped, InboxTyped
<1>5. ASSUME NEW x \in Actor, HandlerFails(x) PROVE Drops
  BY <1>1, <1>3, <1>5 DEF HandlerFails, Drops, DebateInv, ArenaTyped, InboxTyped
<1>6. ASSUME NEW y \in Agent, MessageLost(y) PROVE Drops
  <2>1. inbox' \in [Agent -> Seq(Message)]
    BY <1>2, <1>6 DEF MessageLost, DebateInv, ArenaTyped, InboxTyped
  <2> QED
    BY <1>3, <1>6, <2>1 DEF MessageLost, Drops, DebateInv, ArenaTyped, InboxTyped
<1>7. ASSUME NEW y \in Agent, Restart(y) PROVE Drops
  BY <1>1, <1>3, <1>7 DEF Restart, Drops, DebateInv, ArenaTyped, InboxTyped
<1>8. CASE UNCHANGED vars
  BY <1>8 DEF vars, Drops, DebateInv, ArenaTyped, InboxTyped
<1> QED
  BY <1>4, <1>5, <1>6, <1>7, <1>8 DEF Fault

LEMMA DroppingStep ==
  ASSUME DebateInv, Drops
  PROVE  DebateInv'
<1>1. /\ UNCHANGED <<tier, state, round, drafts>>
      /\ script'[PM] \in {script[PM], <<>>} /\ script'[Primary] \in {script[Primary], <<>>}
  BY Names DEF Drops
<1>2. <<>> \in PMScript /\ <<>> \in PrimaryScript
  BY DEF PMScript, PrimaryScript
<1>3. ArenaTyped'
  <2>1. \A y \in Agent : inbox'[y] \in Seq(Suited(y))
    <3> SUFFICES ASSUME NEW y \in Agent PROVE inbox'[y] \in Seq(Suited(y))
      OBVIOUS
    <3>1. inbox[y] \in Seq(Suited(y))
      BY DEF DebateInv, ArenaTyped, InboxTyped
    <3>2. inbox[y] # <<>> => Tail(inbox[y]) \in Seq(Suited(y))
      BY <3>1
    <3>3. \/ inbox'[y] \in {inbox[y], <<>>}
          \/ inbox[y] # <<>> /\ inbox'[y] = Tail(inbox[y])
      BY DEF Drops
    <3>4. <<>> \in Seq(Suited(y))
      OBVIOUS
    <3> QED
      BY <3>1, <3>2, <3>3, <3>4
  <2>2. InboxTyped'
    BY <1>1, <2>1, DraftsStay DEF InboxTyped, Drops
  <2> QED
    BY <1>1, <1>2, <2>2, DraftsStay DEF DebateInv, ArenaTyped, Drops
<1>4. CheckedIsAllowed'
  BY <1>1 DEF DebateInv, CheckedIsAllowed, Drops, NextCall, Allowed
<1>5. /\ \A op : NextCall(PM, op)' => NextCall(PM, op) /\ script'[PM] = script[PM]
      /\ \A op : NextCall(Primary, op)' => NextCall(Primary, op) /\ script'[Primary] = script[Primary]
  BY <1>1 DEF NextCall
<1>6. inbox'[Primary] \in {inbox[Primary], <<>>}
  <2>1. inbox[Primary] # <<>> => Tail(inbox[Primary]) = <<>>
    BY Tails DEF DebateInv, OneTurn
  <2> QED
    BY <2>1, Names DEF Drops
<1>7. OneTurn'
  BY <1>1, <1>5, <1>6 DEF DebateInv, OneTurn, Sends, Patches, PrimaryFree
<1>8. RoundsCounted'
  BY <1>1, <1>5 DEF DebateInv, RoundsCounted, Over, Patches
<1>9. DraftsCounted'
  BY <1>1, <1>5 DEF DebateInv, DraftsCounted, Over
<1>10. NobodyAsked'
  <2> SUFFICES ASSUME tier.rounds = 0
               PROVE  /\ \A c \in Critics : inbox'[c] = <<>>
                      /\ \A i \in DOMAIN inbox'[PM] : inbox'[PM][i].kind # "verdict"
                      /\ NextCall(PM, "send")' => Head(script'[PM]).msg.kind # "review"
    BY <1>1 DEF NobodyAsked
  <2>1. \A c \in Critics : inbox'[c] = <<>>
    BY Names DEF DebateInv, NobodyAsked, Drops
  <2>2. \A i \in DOMAIN inbox'[PM] : inbox'[PM][i].kind # "verdict"
    <3>1. CASE inbox'[PM] \in {inbox[PM], <<>>}
      BY <3>1 DEF DebateInv, NobodyAsked
    <3>2. CASE inbox[PM] # <<>> /\ inbox'[PM] = Tail(inbox[PM])
      <4>1. \A i \in DOMAIN Tail(inbox[PM]) : /\ i + 1 \in DOMAIN inbox[PM]
                                             /\ Tail(inbox[PM])[i] = inbox[PM][i + 1]
        BY <3>2, Names DEF DebateInv, ArenaTyped, InboxTyped
      <4> QED
        BY <3>2, <4>1 DEF DebateInv, NobodyAsked
    <3> QED
      BY <3>1, <3>2, Names DEF Drops
  <2> QED
    BY <1>5, <2>1, <2>2 DEF DebateInv, NobodyAsked
<1> QED
  BY <1>3, <1>4, <1>7, <1>8, <1>9, <1>10 DEF DebateInv

(***************************************************************************)
(* The calls of a handler.                                                 *)
(***************************************************************************)
\* From which states the PM's PATCHes pass the check, and the primary's.
LEMMA Turns ==
  ASSUME DebateInv, NEW x \in Actor, NextCall(x, "patch"), Allowed(Head(script[x]).to)
  PROVE  LET s == Head(script[x]).to
         IN  /\ s \in Lifecycle!VALID_TRANSITIONS[state] /\ s \in Lifecycle!TaskState
             /\ state \in Lifecycle!TaskState
             /\ x = PM => \/ s = "ASSIGNED" /\ state = "CREATED"
                          \/ s = "REWORK" /\ state = "IN_REVIEW"
                          \/ s = "ACCEPTED" /\ state = "IN_REVIEW"
                          \/ s = "CLOSED" /\ state = "ACCEPTED"
             /\ x = Primary => \/ s = "IN_PROGRESS" /\ state \in {"ASSIGNED", "REWORK"}
                               \/ s = "IN_REVIEW" /\ state = "IN_PROGRESS"
<1>1. script[x] # <<>> /\ Head(script[x]).op = "patch"
  BY DEF NextCall
<1>2. /\ state \in Lifecycle!TaskState
      /\ Head(script[x]).to \in Lifecycle!VALID_TRANSITIONS[state]
  BY DEF DebateInv, ArenaTyped, Allowed
<1>3. /\ Head(script[x]).to \in Lifecycle!TaskState
      /\ <<state, Head(script[x]).to>> \in Lifecycle!Transitions
  BY <1>2 DEF Lifecycle!VALID_TRANSITIONS
<1>4. x = PM => Head(script[x]).to \in {"ASSIGNED", "REWORK", "ACCEPTED", "CLOSED"}
  BY <1>1, PMCalls DEF DebateInv, PMNext
<1>5. x = Primary => Head(script[x]).to \in {"IN_PROGRESS", "IN_REVIEW"}
  BY <1>1, PrimaryCalls DEF DebateInv
<1> QED
  BY <1>2, <1>3, <1>4, <1>5 DEF Lifecycle!Transitions

\* Only one actor is past the check.
LEMMA CheckedAlone == 
  ASSUME DebateInv
  PROVE  \A x, y \in checked : x = y
BY Turns, Names DEF DebateInv, ArenaTyped, CheckedIsAllowed

LEMMA CallPatchStep ==
  ASSUME DebateInv, NEW x \in Actor, CallPatch(x)
  PROVE  DebateInv'
<1>1. /\ UNCHANGED <<tier, state, round, drafts, inbox, script, faults, overtaken>>
      /\ checked' = checked \cup {x}
      /\ NextCall(x, "patch") /\ Allowed(Head(script[x]).to)
  BY DEF CallPatch
<1>2. ArenaTyped'
  BY <1>1, DraftsStay DEF DebateInv, ArenaTyped, InboxTyped
<1>3. CheckedIsAllowed'
  BY <1>1 DEF DebateInv, CheckedIsAllowed, NextCall, Allowed
<1>4. OneTurn' /\ RoundsCounted' /\ DraftsCounted' /\ NobodyAsked'
  BY <1>1 DEF DebateInv, OneTurn, RoundsCounted, DraftsCounted, NobodyAsked, NextCall, Sends,
              Patches, PrimaryFree, Over
<1> QED
  BY <1>2, <1>3, <1>4 DEF DebateInv

LEMMA PMWritesStep ==
  ASSUME DebateInv, PatchWritten(PM)
  PROVE  DebateInv'
<1> DEFINE call == Head(script[PM])
           rest == Tail(script[PM])
<1>1. /\ UNCHANGED <<tier, drafts, inbox, faults, overtaken>>
      /\ state' = call.to /\ round' = call.round
      /\ checked' = checked \ {PM} /\ script' = [script EXCEPT ![PM] = rest] /\ PM \in checked
  BY DEF PatchWritten
<1>2. NextCall(PM, "patch") /\ Allowed(call.to) /\ PM \in Actor
  BY <1>1, Names DEF DebateInv, CheckedIsAllowed
<1>3. /\ call.to \in Lifecycle!TaskState
      /\ \/ call.to = "ASSIGNED" /\ state = "CREATED"
         \/ call.to = "REWORK" /\ state = "IN_REVIEW"
         \/ call.to = "ACCEPTED" /\ state = "IN_REVIEW"
         \/ call.to = "CLOSED" /\ state = "ACCEPTED"
  BY <1>2, Turns
<1>4. PMNext(call, rest) /\ call.op = "patch" /\ script[PM] # <<>>
  BY <1>2, PMCalls DEF DebateInv, NextCall
<1>5. script'[PM] = rest /\ script'[Primary] = script[Primary]
  BY <1>1, Names DEF DebateInv, ArenaTyped
<1>6. checked' = {}
  BY <1>1, CheckedAlone DEF DebateInv
<1>7. /\ Patches(PM, "REWORK") <=> call.to = "REWORK"
      /\ Patches(PM, "ACCEPTED") <=> call.to = "ACCEPTED"
      /\ Patches(PM, "CLOSED") <=> call.to = "CLOSED"
  BY <1>2 DEF Patches
<1>8. round \in Nat /\ tier.rounds \in Nat /\ drafts \in Nat /\ round <= tier.rounds
  BY TiersAssumption DEF DebateInv, ArenaTyped, RoundsCounted
<1>9. PrimaryFree
  <2>1. inbox[Primary] = <<>>
    BY <1>3 DEF DebateInv, OneTurn
  <2>2. script[Primary] = <<>>
    BY <1>3, PrimaryCalls DEF DebateInv, OneTurn, Patches, NextCall
  <2> QED
    BY <2>1, <2>2 DEF PrimaryFree
<1> HIDE DEF call, rest
<1>10. /\ call.round \in Nat /\ rest \in PMScript
       /\ \/ call.to = "ASSIGNED" /\ call.round = 0 /\ rest = Assigning
          \/ call.to = "REWORK" /\ call.round = round + 1 /\ round + 1 < tier.rounds
             /\ rest = Revising
          \/ /\ call.to = "ACCEPTED" /\ call.round \in {round, round + 1}
             /\ call.round <= tier.rounds
             /\ rest # <<>> /\ Head(rest).op = "patch" /\ Head(rest).to = "CLOSED"
             /\ Head(rest).round = call.round
          \/ call.to = "CLOSED" /\ call.round = round /\ rest = <<>>
  <2>1. CASE call.to = "ASSIGNED"
    BY <1>4, <2>1 DEF PMNext, PMScript
  <2>2. CASE call.to = "REWORK"
    BY <1>4, <1>7, <1>8, <2>2 DEF PMNext, PMScript, DebateInv, RoundsCounted, call
  <2>3. CASE call.to = "ACCEPTED"
    <3>1. call.round \in Rounds /\ \E d \in Drafted, w \in Why : rest = Closing(call.round, d, w)
      BY <1>4, <2>3 DEF PMNext
    <3>2. PICK d \in Drafted, w \in Why : rest = Closing(call.round, d, w)
      BY <3>1
    <3>3. rest \in PMScript /\ rest # <<>> /\ Head(rest) = Decide("CLOSED", call.round, d, w)
      BY <3>1, <3>2, Tails DEF PMScript, Closing
    <3>4. Head(rest).op = "patch" /\ Head(rest).to = "CLOSED" /\ Head(rest).round = call.round
      BY <3>3 DEF Decide
    <3>5. call.round \in {round, round + 1} /\ call.round <= tier.rounds
      BY <1>3, <1>7, <2>3 DEF DebateInv, RoundsCounted, Over, call
    <3> QED
      BY <1>8, <2>3, <3>3, <3>4, <3>5
  <2>4. CASE call.to = "CLOSED"
    <3>1. rest = <<>>
      BY <1>4, <2>4 DEF PMNext
    <3>2. call.round = round
      BY <1>7, <2>4 DEF DebateInv, RoundsCounted, call
    <3>3. <<>> \in PMScript
      BY DEF PMScript
    <3> QED
      BY <1>8, <2>4, <3>1, <3>2, <3>3
  <2> QED
    BY <1>3, <2>1, <2>2, <2>3, <2>4
<1>11. /\ Head(Assigning).op = "send" /\ Head(Assigning).msg = Work("assign") /\ Assigning # <<>>
       /\ Head(Revising).op = "send" /\ Head(Revising).msg = Work("revise") /\ Revising # <<>>
       /\ Work("assign") # Work("revise")
  BY Tails DEF Assigning, Revising, Send, Work
<1>12. ArenaTyped'
  <2>1. InboxTyped'
    BY <1>1, DraftsStay DEF DebateInv, ArenaTyped, InboxTyped
  <2>2. script' \in [Actor -> PMScript \cup PrimaryScript]
    BY <1>1, <1>10, Names DEF DebateInv, ArenaTyped
  <2> QED
    BY <1>1, <1>3, <1>5, <1>10, <2>1, <2>2, DraftsStay DEF DebateInv, ArenaTyped
<1>13. CheckedIsAllowed'
  BY <1>6 DEF CheckedIsAllowed
<1>14. PrimaryFree' /\ \A op : ~NextCall(Primary, op)'
  BY <1>1, <1>5, <1>9 DEF PrimaryFree, NextCall
<1>15. OneTurn'
  <2>1. /\ Sends(PM, Work("assign"))' => call.to = "ASSIGNED"
        /\ Sends(PM, Work("revise"))' => call.to = "REWORK"
    BY <1>5, <1>10, <1>11 DEF Sends, NextCall
  <2> QED
    BY <1>1, <1>14, <2>1 DEF OneTurn, Patches, PrimaryFree
<1>16. RoundsCounted'
  <2>1. /\ Patches(PM, "CLOSED")' => call.to = "ACCEPTED" /\ Head(rest).round = call.round
        /\ ~Patches(PM, "REWORK")' /\ ~Patches(PM, "ACCEPTED")'
    BY <1>5, <1>10, <1>11 DEF Patches, NextCall
  <2>2. /\ call.round <= tier.rounds
        /\ call.to \notin {"ACCEPTED", "CLOSED"} => call.round = 0 \/ call.round < tier.rounds
        /\ call.to \notin {"none", "CREATED"}
    BY <1>8, <1>10
  <2> QED
    BY <1>1, <1>5, <2>1, <2>2 DEF RoundsCounted, Over
<1>17. DraftsCounted'
  <2>1. /\ call.to \notin {"ACCEPTED", "CLOSED"} => drafts <= call.round + 1
        /\ call.to \in {"none", "CREATED", "ASSIGNED", "REWORK"} => drafts <= call.round
    BY <1>3, <1>8, <1>10 DEF DebateInv, DraftsCounted, RoundsCounted, Over
  <2> QED
    BY <1>1, <1>14, <2>1 DEF DebateInv, DraftsCounted, Over
<1>18. NobodyAsked'
  <2>1. NextCall(PM, "send")' => Head(script'[PM]).msg.kind # "review"
    BY <1>5, <1>10, <1>11, Kinds DEF NextCall
  <2> QED
    BY <1>1, <2>1 DEF DebateInv, NobodyAsked
<1> QED
  BY <1>12, <1>13, <1>15, <1>16, <1>17, <1>18 DEF DebateInv

LEMMA PrimaryWritesStep ==
  ASSUME DebateInv, PatchWritten(Primary)
  PROVE  DebateInv'
<1> DEFINE call == Head(script[Primary])
           rest == Tail(script[Primary])
<1>1. /\ UNCHANGED <<tier, round, drafts, inbox, faults, overtaken>>
      /\ state' = call.to /\ checked' = checked \ {Primary} /\ Primary \in checked
      /\ script' = [script EXCEPT ![Primary] = rest]
  BY Names DEF PatchWritten
<1>2. NextCall(Primary, "patch") /\ Allowed(call.to) /\ Primary \in Actor
  BY <1>1, Names DEF DebateInv, CheckedIsAllowed
<1>3. /\ call.to \in Lifecycle!TaskState
      /\ \/ call.to = "IN_PROGRESS" /\ state \in {"ASSIGNED", "REWORK"}
         \/ call.to = "IN_REVIEW" /\ state = "IN_PROGRESS"
  BY <1>2, Turns, Names
<1>4. \/ call.to = "IN_PROGRESS" /\ rest = Delivering(drafts + 1)
      \/ call.to = "IN_REVIEW" /\ rest = <<>>
  BY <1>2, PrimaryCalls DEF DebateInv, NextCall
<1>5. script'[Primary] = rest /\ script'[PM] = script[PM]
  BY <1>1, Names DEF DebateInv, ArenaTyped
<1>6. checked' = {}
  BY <1>1, CheckedAlone DEF DebateInv
<1>7. inbox[Primary] = <<>> /\ ~Sends(PM, Work("assign")) /\ ~Sends(PM, Work("revise"))
  BY <1>2 DEF DebateInv, OneTurn, PrimaryFree, NextCall
<1>8. round \in Nat /\ tier.rounds \in Nat /\ drafts \in Nat
  BY TiersAssumption DEF DebateInv, ArenaTyped
<1> HIDE DEF call, rest
<1>9. Delivering(drafts + 1) # <<>> /\ Head(Delivering(drafts + 1)).op = "send"
  BY Tails DEF Delivering, Send
<1>10. ArenaTyped'
  <2>1. InboxTyped'
    BY <1>1, DraftsStay DEF DebateInv, ArenaTyped, InboxTyped
  <2>2. rest \in PrimaryScript
    BY <1>4 DEF PrimaryScript
  <2>3. script' \in [Actor -> PMScript \cup PrimaryScript]
    BY <1>1, <2>2, Names DEF DebateInv, ArenaTyped
  <2> QED
    BY <1>1, <1>3, <1>5, <2>1, <2>2, <2>3, DraftsStay DEF DebateInv, ArenaTyped
<1>11. CheckedIsAllowed'
  BY <1>6 DEF CheckedIsAllowed
<1>12. OneTurn'
  <2>1. ~Sends(PM, Work("assign"))' /\ ~Sends(PM, Work("revise"))'
    BY <1>5, <1>7 DEF Sends, NextCall
  <2>2. /\ \A s : ~Patches(Primary, s)'
        /\ NextCall(Primary, "send")' => call.to = "IN_PROGRESS"
    BY <1>4, <1>5, <1>9 DEF Patches, NextCall
  <2> QED
    BY <1>1, <1>7, <2>1, <2>2 DEF OneTurn
<1>13. RoundsCounted'
  BY <1>1, <1>3, <1>5 DEF DebateInv, RoundsCounted, Over, Patches, NextCall
<1>14. DraftsCounted'
  <2>1. NextCall(Primary, "send")' => drafts <= round
    BY <1>3, <1>4, <1>5 DEF NextCall, DebateInv, DraftsCounted
  <2>2. drafts <= round + 1 /\ call.to \notin {"none", "CREATED", "ASSIGNED", "REWORK"}
    BY <1>3 DEF DebateInv, DraftsCounted, Over
  <2> QED
    BY <1>1, <2>1, <2>2 DEF DebateInv, DraftsCounted, Over
<1>15. NobodyAsked'
  BY <1>1, <1>5 DEF DebateInv, NobodyAsked, NextCall
<1> QED
  BY <1>10, <1>11, <1>12, <1>13, <1>14, <1>15 DEF DebateInv

LEMMA Delivered ==
  ASSUME ArenaTyped, tier' = tier, drafts' \in Nat, drafts <= drafts',
         NEW y \in Agent, NEW m \in Suited(y)',
         inbox' = [inbox EXCEPT ![y] = Append(inbox[y], m)]
  PROVE  InboxTyped'
<1>1. /\ \A z \in Agent : Seq(Suited(z)) \subseteq Seq(Suited(z)')
      /\ Message \subseteq Message'
  BY DraftsGrow DEF ArenaTyped
<1>2. Append(inbox[y], m) \in Seq(Suited(y)')
  BY <1>1 DEF ArenaTyped, InboxTyped
<1>3. \A z \in Agent : inbox'[z] \in Seq(Suited(z)')
  BY <1>1, <1>2 DEF ArenaTyped, InboxTyped
<1>4. \A z \in Agent : Suited(z)' \subseteq Message'
  BY Names DEF Suited, Message, Drafted, Work, Deliverable, Review, Answer
<1>5. inbox' \in [Agent -> Seq(Message')]
  <2>1. \A z \in Agent : Seq(Suited(z)') \subseteq Seq(Message')
    BY <1>4, LargerSeq
  <2>2. inbox' = [z \in Agent |-> inbox'[z]]
    BY DEF ArenaTyped, InboxTyped
  <2> QED
    BY <1>3, <2>1, <2>2
<1> QED
  BY <1>3, <1>5 DEF InboxTyped

LEMMA PMSendsStep ==
  ASSUME DebateInv, CallSend(PM)
  PROVE  DebateInv'
<1> DEFINE call == Head(script[PM])
           rest == Tail(script[PM])
<1>1. /\ UNCHANGED <<tier, state, round, checked, faults, overtaken>>
      /\ inbox' = [inbox EXCEPT ![call.who] = Append(inbox[call.who], call.msg)]
      /\ drafts' = IF call.msg.kind = "deliverable" THEN call.msg.draft ELSE drafts
      /\ script' = [script EXCEPT ![PM] = rest]
      /\ NextCall(PM, "send") /\ script[PM] # <<>> /\ call.op = "send"
  BY DEF CallSend, NextCall
<1>2. \/ call.who = Primary /\ call.msg = Work("assign") /\ rest = <<>>
      \/ call.who = Primary /\ call.msg = Work("revise") /\ rest = <<>>
      \/ call.who \in Critics /\ (\E d \in Drafted : call.msg = Review(d)) /\ rest \in Seq(Asks)
  BY <1>1, PMCalls DEF DebateInv, PMNext
<1>3. Sends(PM, call.msg)
  BY <1>1 DEF Sends
<1>4. call.who \in Agent /\ call.who # PM
  BY <1>2, Names
<1>5. script'[PM] = rest /\ script'[Primary] = script[Primary]
  BY <1>1, Names DEF DebateInv, ArenaTyped
<1> HIDE DEF call, rest
<1>6. drafts' = drafts
  BY <1>1, <1>2, Kinds
<1>7. \A y \in Agent : inbox'[y] = IF y = call.who THEN Append(inbox[y], call.msg) ELSE inbox[y]
  BY <1>1 DEF DebateInv, ArenaTyped, InboxTyped
<1>8. rest \in PMScript
  <2>1. <<>> \in Seq(Asks) /\ Seq(Asks) \subseteq PMScript
    BY DEF PMScript
  <2> QED
    BY <1>2, <2>1
<1>9. ArenaTyped'
  <2>m. PICK m : m = call.msg
    OBVIOUS
  <2>1. PICK y \in Agent : y = call.who /\ m = call.msg
    BY <1>4, <2>m
  <2>2. InboxTyped'
    <3>1. tier' = tier /\ drafts' \in Nat /\ drafts <= drafts' /\ ArenaTyped
      BY <1>1, <1>6 DEF DebateInv, ArenaTyped
    <3>2. m \in Suited(y)
      BY <1>2, <2>1, Names DEF Suited
    <3>3. m \in Suited(y)'
      BY <1>1, <1>6, <3>2, DraftsStay
    <3>4. inbox' = [inbox EXCEPT ![y] = Append(inbox[y], m)]
      BY <1>1, <2>1
    <3> QED
      BY <3>1, <3>3, <3>4, Delivered
  <2>3. script' \in [Actor -> PMScript \cup PrimaryScript]
    BY <1>1, <1>8, Names DEF DebateInv, ArenaTyped
  <2> QED
    BY <1>1, <1>5, <1>6, <1>8, <2>2, <2>3, DraftsStay DEF DebateInv, ArenaTyped
<1>10. CheckedIsAllowed'
  <2>1. PM \notin checked
    BY <1>1 DEF DebateInv, CheckedIsAllowed, NextCall
  <2> QED
    BY <1>1, <1>5, <2>1, Names DEF DebateInv, ArenaTyped, CheckedIsAllowed, NextCall, Allowed
<1>11. \A x \in Asks : x.op = "send" /\ \E d \in Drafted : x.msg = Review(d)
  BY DEF Asks, Send
<1>12. /\ \A s : ~Patches(PM, s)'
       /\ NextCall(PM, "send")' => call.who \in Critics /\ \E d \in Drafted : Head(rest).msg = Review(d)
  <2>1. CASE rest = <<>>
    BY <1>5, <2>1 DEF Patches, NextCall
  <2>2. CASE rest # <<>> /\ rest \in Seq(Asks) /\ call.who \in Critics
    <3>1. Head(rest) \in Asks
      BY <2>2
    <3> QED
      BY <1>5, <1>11, <2>2, <3>1 DEF Patches, NextCall
  <2> QED
    BY <1>2, <2>1, <2>2
<1>13. ~Sends(PM, Work("assign"))' /\ ~Sends(PM, Work("revise"))'
  BY <1>5, <1>12, Kinds DEF Sends
<1>14. OneTurn'
  <2>1. CASE call.who = Primary
    <3>1. Append(<<>>, call.msg) = <<call.msg>>
      OBVIOUS
    <3>2. PrimaryFree
      BY <1>2, <1>3, <2>1, Names DEF DebateInv, OneTurn
    <3>3. \/ state = "ASSIGNED" /\ call.msg = Work("assign")
          \/ state = "REWORK" /\ call.msg = Work("revise")
      BY <1>2, <1>3, <2>1, Names DEF DebateInv, OneTurn
    <3>4. inbox'[Primary] = <<call.msg>>
      BY <1>7, <2>1, <3>1, <3>2, Names DEF PrimaryFree
    <3>5. script'[Primary] = <<>>
      BY <1>5, <3>2 DEF PrimaryFree
    <3> QED
      BY <1>1, <1>13, <3>3, <3>4, <3>5 DEF OneTurn, Patches, NextCall
  <2>2. CASE call.who # Primary
    <3>1. inbox'[Primary] = inbox[Primary]
      BY <1>7, <2>2, Names
    <3> QED
      BY <1>1, <1>5, <1>13, <3>1 DEF DebateInv, OneTurn, Patches, NextCall
  <2> QED
    BY <2>1, <2>2
<1>15. RoundsCounted'
  BY <1>1, <1>12 DEF DebateInv, RoundsCounted, Over
<1>16. DraftsCounted'
  BY <1>1, <1>5, <1>6 DEF DebateInv, DraftsCounted, Over, NextCall
<1>17. NobodyAsked'
  <2>1. tier.rounds = 0 => call.who = Primary
    BY <1>1, <1>2, Kinds DEF DebateInv, NobodyAsked, call
  <2>2. tier.rounds = 0 => ~NextCall(PM, "send")'
    BY <1>12, <2>1, Names
  <2> QED
    BY <1>1, <1>7, <2>1, <2>2, Names DEF DebateInv, NobodyAsked
<1> QED
  BY <1>9, <1>10, <1>14, <1>15, <1>16, <1>17 DEF DebateInv

LEMMA PrimarySendsStep ==
  ASSUME DebateInv, CallSend(Primary)
  PROVE  DebateInv'
<1> DEFINE d == drafts + 1
<1>1. /\ UNCHANGED <<tier, state, round, checked, faults, overtaken>>
      /\ NextCall(Primary, "send") /\ script[Primary] # <<>> /\ drafts \in Nat
      /\ Head(script[Primary]).op = "send"
  BY DEF CallSend, NextCall, DebateInv, ArenaTyped
<1>2. LET call == Head(script[Primary])
      IN  /\ call.who = PM /\ call.msg = Deliverable(d)
          /\ call.msg.kind = "deliverable" /\ call.msg.draft = d
          /\ Tail(script[Primary]) = Reporting
  BY <1>1, PrimaryCalls DEF DebateInv
<1>3. /\ drafts' = d /\ inbox' = [inbox EXCEPT ![PM] = Append(inbox[PM], Deliverable(d))]
      /\ script' = [script EXCEPT ![Primary] = Reporting]
  BY <1>2 DEF CallSend
<1> HIDE DEF d
<1>4. d \in Nat /\ d = drafts + 1 /\ drafts <= d
  BY <1>1 DEF d
<1>5. script'[Primary] = Reporting /\ script'[PM] = script[PM]
  BY <1>3, Names DEF DebateInv, ArenaTyped
<1>6. \A y \in Agent : inbox'[y] = IF y = PM THEN Append(inbox[PM], Deliverable(d)) ELSE inbox[y]
  BY <1>3 DEF DebateInv, ArenaTyped, InboxTyped
<1>7. Reporting # <<>> /\ Head(Reporting).op = "patch" /\ Head(Reporting).to = "IN_REVIEW"
  BY Tails DEF Reporting, Patch
<1>8. state = "IN_PROGRESS" /\ inbox[Primary] = <<>>
  BY <1>1 DEF DebateInv, OneTurn
<1>9. ArenaTyped'
  <2>1. InboxTyped'
    <3>1. d \in Drafted'
      BY <1>1, <1>3, <1>4 DEF Drafted
    <3>2. Deliverable(d) \in Suited(PM)'
      BY <3>1 DEF Suited
    <3>3. tier' = tier /\ drafts' \in Nat /\ drafts <= drafts' /\ ArenaTyped /\ PM \in Agent
      BY <1>1, <1>3, <1>4, Names DEF DebateInv
    <3> QED
      BY <1>3, <3>2, <3>3, Delivered
  <2>2. PMScript \subseteq PMScript'
    BY <1>1, <1>3, <1>4, DraftsGrow DEF DebateInv
  <2>3. Reporting \in PrimaryScript'
    BY DEF PrimaryScript, Reporting, Patch
  <2>4. script[PM] \in PMScript'
    BY <2>2 DEF DebateInv, ArenaTyped
  <2>5. script' \in [Actor -> PMScript' \cup PrimaryScript']
    BY <1>3, <1>5, <2>3, <2>4, Names DEF DebateInv, ArenaTyped
  <2> QED
    BY <1>1, <1>3, <1>4, <1>5, <2>1, <2>3, <2>4, <2>5 DEF DebateInv, ArenaTyped
<1>10. CheckedIsAllowed'
  <2>1. Primary \notin checked
    BY <1>1 DEF DebateInv, CheckedIsAllowed, NextCall
  <2> QED
    BY <1>1, <1>5, <2>1, Names DEF DebateInv, ArenaTyped, CheckedIsAllowed, NextCall, Allowed
<1>11. OneTurn'
  <2>1. inbox'[Primary] = <<>>
    BY <1>6, <1>8, Names
  <2>2. ~NextCall(Primary, "send")' /\ ~Patches(Primary, "IN_PROGRESS")'
    BY <1>5, <1>7 DEF NextCall, Patches
  <2>3. ~Sends(PM, Work("assign"))' /\ ~Sends(PM, Work("revise"))'
    BY <1>5, <1>8 DEF Sends, NextCall, DebateInv, OneTurn
  <2> QED
    BY <1>1, <1>8, <2>1, <2>2, <2>3 DEF OneTurn
<1>12. RoundsCounted'
  BY <1>1, <1>5 DEF DebateInv, RoundsCounted, Over, Patches, NextCall
<1>13. DraftsCounted'
  <2>1. ~NextCall(Primary, "send")'
    BY <1>5, <1>7 DEF NextCall
  <2>2. drafts <= round /\ round <= tier.rounds /\ (round = 0 \/ round < tier.rounds)
    BY <1>1, <1>8 DEF DebateInv, RoundsCounted, DraftsCounted, Over
  <2>3. round \in Nat /\ tier.rounds \in Nat
    BY TiersAssumption DEF DebateInv, ArenaTyped
  <2>4. d <= round + 1 /\ d <= IF tier.rounds = 0 THEN 1 ELSE tier.rounds
    BY <1>1, <1>4, <2>2, <2>3
  <2> QED
    BY <1>1, <1>3, <1>8, <2>1, <2>4 DEF DraftsCounted, Over
<1>14. NobodyAsked'
  <2>1. inbox[PM] \in Seq(Suited(PM))
    BY Names DEF DebateInv, ArenaTyped, InboxTyped
  <2>2. \A i \in DOMAIN inbox'[PM] : \/ i \in DOMAIN inbox[PM] /\ inbox'[PM][i] = inbox[PM][i]
                                     \/ inbox'[PM][i] = Deliverable(d)
    <3>1. inbox'[PM] = Append(inbox[PM], Deliverable(d))
      BY <1>6, Names
    <3> QED
      BY <2>1, <3>1, Appended
  <2>3. \A c \in Critics : inbox'[c] = inbox[c]
    BY <1>6, Names
  <2> QED
    BY <1>1, <1>5, <2>2, <2>3, Kinds DEF DebateInv, NobodyAsked, NextCall
<1> QED
  BY <1>9, <1>10, <1>11, <1>12, <1>13, <1>14 DEF DebateInv

(***************************************************************************)
(* The announcement of the task, and the critics' answers: only an inbox   *)
(* grows that belongs to neither actor's turn.                             *)
(***************************************************************************)
LEMMA CreateStep ==
  ASSUME DebateInv, NEW a \in {<<Work("created")>>, <<Work("created"), Work("delegated")>>},
         Create(a)
  PROVE  DebateInv'
<1>1. /\ UNCHANGED <<tier, round, drafts, script, checked, faults, overtaken>>
      /\ state = "none" /\ state' = "CREATED" /\ inbox' = [inbox EXCEPT ![PM] = a]
  BY DEF Create
<1>2. \A y \in Agent : inbox'[y] = IF y = PM THEN a ELSE inbox[y]
  BY <1>1 DEF DebateInv, ArenaTyped, InboxTyped
<1>3. checked = {}
  BY <1>1 DEF DebateInv, CheckedIsAllowed, Allowed
<1>4. /\ a \in Seq(Suited(PM)) /\ a \in Seq(Message)
      /\ \A i \in DOMAIN a : a[i] \in {Work("created"), Work("delegated")}
  <2>1. Work("created") \in Suited(PM) /\ Work("delegated") \in Suited(PM)
    BY DEF Suited
  <2>2. Work("created") \in Message /\ Work("delegated") \in Message
    BY DEF Message
  <2> QED
    BY <2>1, <2>2
<1>5. ArenaTyped'
  <2>1. inbox' \in [Agent -> Seq(Message)]
    BY <1>1, <1>4 DEF DebateInv, ArenaTyped, InboxTyped
  <2>2. \A y \in Agent : inbox'[y] \in Seq(Suited(y))
    BY <1>2, <1>4 DEF DebateInv, ArenaTyped, InboxTyped
  <2>3. InboxTyped'
    BY <1>1, <2>1, <2>2, DraftsStay DEF InboxTyped
  <2>4. state' \in Lifecycle!TaskState
    BY <1>1 DEF Lifecycle!TaskState
  <2> QED
    BY <1>1, <2>3, <2>4, DraftsStay DEF DebateInv, ArenaTyped
<1>6. CheckedIsAllowed'
  BY <1>1, <1>3 DEF CheckedIsAllowed
<1>7. OneTurn'
  <2>1. inbox'[Primary] = inbox[Primary]
    BY <1>2, Names
  <2> QED
    BY <1>1, <2>1 DEF DebateInv, OneTurn, Sends, Patches, NextCall, PrimaryFree
<1>8. RoundsCounted'
  BY <1>1 DEF DebateInv, RoundsCounted, Over, Patches, NextCall
<1>9. DraftsCounted'
  BY <1>1 DEF DebateInv, DraftsCounted, Over, NextCall
<1>10. NobodyAsked'
  <2>1. \A i \in DOMAIN inbox'[PM] : inbox'[PM][i].kind # "verdict"
    <3>1. inbox'[PM] = a
      BY <1>2, Names
    <3>2. Work("created").kind # "verdict" /\ Work("delegated").kind # "verdict"
      BY DEF Work
    <3> QED
      BY <1>4, <3>1, <3>2
  <2>2. \A c \in Critics : inbox'[c] = inbox[c]
    BY <1>2, Names
  <2> QED
    BY <1>1, <2>1, <2>2 DEF DebateInv, NobodyAsked, NextCall
<1> QED
  BY <1>5, <1>6, <1>7, <1>8, <1>9, <1>10 DEF DebateInv

LEMMA CritiqueStep ==
  ASSUME DebateInv, NEW c \in Critics, NEW v \in Verdict, Critique(c, v)
  PROVE  DebateInv'
<1> DEFINE m == Answer(c, Head(inbox[c]).draft, v)
<1>1. /\ UNCHANGED <<tier, state, round, drafts, script, checked, faults, overtaken>>
      /\ inbox' = [inbox EXCEPT ![c] = Tail(inbox[c]), ![PM] = Append(inbox[PM], m)]
      /\ inbox[c] # <<>>
  BY Names DEF Critique, DebateInv, ArenaTyped, InboxTyped
<1>2. /\ inbox[c] \in Seq(Suited(c)) /\ inbox[c] \in Seq(Message)
      /\ inbox[PM] \in Seq(Suited(PM)) /\ inbox[PM] \in Seq(Message)
  BY Names DEF DebateInv, ArenaTyped, InboxTyped
<1>3. Head(inbox[c]) \in Suited(c)
  BY <1>1, <1>2
<1>4. Head(inbox[c]).draft \in Drafted
  BY <1>3, Names, Kinds DEF Suited
<1>5. m \in Suited(PM) /\ m \in Message
  BY <1>4, SuitedIsMessage, Names DEF Suited
<1> HIDE DEF m
<1>6. \A y \in Agent : inbox'[y] = IF y = PM THEN Append(inbox[PM], m)
                                   ELSE IF y = c THEN Tail(inbox[c]) ELSE inbox[y]
  BY <1>1, Names DEF DebateInv, ArenaTyped, InboxTyped
<1>7. /\ Append(inbox[PM], m) \in Seq(Suited(PM)) /\ Append(inbox[PM], m) \in Seq(Message)
      /\ Tail(inbox[c]) \in Seq(Suited(c)) /\ Tail(inbox[c]) \in Seq(Message)
  BY <1>1, <1>2, <1>5
<1>8. ArenaTyped'
  <2>1. inbox' \in [Agent -> Seq(Message)]
    BY <1>1, <1>7, Names DEF DebateInv, ArenaTyped, InboxTyped
  <2>2. \A y \in Agent : inbox'[y] \in Seq(Suited(y))
    BY <1>6, <1>7, Names DEF DebateInv, ArenaTyped, InboxTyped
  <2>3. InboxTyped'
    BY <1>1, <2>1, <2>2, DraftsStay DEF InboxTyped
  <2> QED
    BY <1>1, <2>3, DraftsStay DEF DebateInv, ArenaTyped
<1>9. CheckedIsAllowed'
  BY <1>1 DEF DebateInv, CheckedIsAllowed, NextCall, Allowed
<1>10. inbox'[Primary] = inbox[Primary]
  BY <1>6, Names
<1>11. OneTurn' /\ RoundsCounted' /\ DraftsCounted'
  BY <1>1, <1>10 DEF DebateInv, OneTurn, RoundsCounted, DraftsCounted, NextCall, Sends, Patches,
                     PrimaryFree, Over
<1>12. NobodyAsked'
  BY <1>1 DEF DebateInv, NobodyAsked
<1> QED
  BY <1>8, <1>9, <1>11, <1>12 DEF DebateInv

(***************************************************************************)
(* DebateInv is inductive.                                                 *)
(***************************************************************************)
LEMMA DebateInvInit ==
  ASSUME Init
  PROVE  DebateInv
<1> USE DEF Init
<1>1. tier.rounds \in Nat
  BY TiersAssumption
<1>2. <<>> \in PMScript /\ <<>> \in PrimaryScript /\ 0 \in 0..MaxFaults
  BY FaultsAssumption DEF PMScript, PrimaryScript
<1>3. \A y \in Agent : <<>> \in Seq(Suited(y)) /\ <<>> \in Seq(Message)
  OBVIOUS
<1>4. ArenaTyped
  BY <1>2, <1>3, Names DEF ArenaTyped, InboxTyped
<1>5. script[PM] = <<>> /\ script[Primary] = <<>> /\ \A y \in Agent : inbox[y] = <<>>
  BY Names
<1>6. \A x \in Actor : \A op : ~NextCall(x, op)
  BY Names DEF NextCall
<1>7. CheckedIsAllowed /\ OneTurn
  BY <1>5, <1>6, Names DEF CheckedIsAllowed, OneTurn, Sends, Patches
<1>8. RoundsCounted /\ DraftsCounted
  BY <1>1, <1>6, Names DEF RoundsCounted, DraftsCounted, Patches, Over
<1>9. NobodyAsked
  BY <1>5, <1>6, Names DEF NobodyAsked
<1> QED
  BY <1>4, <1>7, <1>8, <1>9 DEF DebateInv

LEMMA DebateInvStep ==
  ASSUME DebateInv, [Next]_vars
  PROVE  DebateInv'
<1>1. ASSUME NEW x \in Actor, Handle(x) PROVE DebateInv'
  BY <1>1, PMBeginsStep, PrimaryBeginsStep DEF Handle, PMHandles
<1>2. ASSUME NEW x \in Actor, Call(x) PROVE DebateInv'
  <2>1. CASE CallSend(x)
    BY <2>1, PMSendsStep, PrimarySendsStep, Names
  <2>2. CASE CallPatch(x)
    BY <2>2, CallPatchStep
  <2>3. CASE PatchWritten(x)
    BY <2>3, PMWritesStep, PrimaryWritesStep, Names
  <2>4. CASE PatchRefused(x)
    BY <2>4, Dropping, DroppingStep
  <2> QED
    BY <1>2, <2>1, <2>2, <2>3, <2>4 DEF Call
<1>3. CASE Fault \/ UNCHANGED vars
  BY <1>3, Dropping, DroppingStep
<1>4. ASSUME NEW c \in Critics, NEW v \in Verdict, Critique(c, v) PROVE DebateInv'
  BY <1>4, CritiqueStep
<1>5. CASE Create(<<Work("created")>>) \/ Create(<<Work("created"), Work("delegated")>>)
  BY <1>5, CreateStep
<1> QED
  BY <1>1, <1>2, <1>3, <1>4, <1>5 DEF Next

\* Whose turn it is, the rounds and the drafts are as stated above in every state.
THEOREM DebateInvHolds == Spec => []DebateInv
<1>1. Init => DebateInv
  BY DebateInvInit
<1>2. DebateInv /\ [Next]_vars => DebateInv'
  BY DebateInvStep
<1> QED
  BY <1>1, <1>2, PTL DEF Spec

\* Whatever the agents send, lose or repeat, every variable keeps its type; in
\* particular what is past the bus's check is a PATCH its handler still waits for.
THEOREM TypeCorrect == Spec => []TypeOK
<1>1. DebateInv => TypeOK
  BY DEF DebateInv, ArenaTyped, InboxTyped, CheckedIsAllowed, TypeOK
<1> QED
  BY <1>1, DebateInvHolds, PTL

\* However many critics a tier has and however many rounds it allows, the debate
\* never goes past its last round or asks for a draft too many.
THEOREM RoundsAreBounded == Spec => []RoundsBounded
<1>1. DebateInv => RoundsBounded
  BY DEF DebateInv, RoundsCounted, DraftsCounted, RoundsBounded
<1> QED
  BY <1>1, DebateInvHolds, PTL

\* What waits for the primary is the one request that its task's state asks for.
THEOREM WorkFits == Spec => []WorkFitsState
<1>1. DebateInv => WorkFitsState
  <2> SUFFICES ASSUME DebateInv PROVE WorkFitsState
    OBVIOUS
  <2>1. \A m : Len(<<m>>) <= 1
    OBVIOUS
  <2>2. Len(inbox[Primary]) <= 1
    <3>1. CASE inbox[Primary] = <<>>
      BY <3>1
    <3>2. CASE inbox[Primary] \in {<<Work("assign")>>, <<Work("revise")>>}
      BY <2>1, <3>2
    <3> QED
      BY <3>1, <3>2 DEF DebateInv, OneTurn
  <2>3. <<Work("assign")>> # <<Work("revise")>> /\ \A m : <<m>> # <<>>
    BY DEF Work
  <2> QED
    BY <2>2, <2>3 DEF DebateInv, OneTurn, WorkFitsState
<1> QED
  BY <1>1, DebateInvHolds, PTL

\* Once a draft is accepted the primary is not at work on another one.
THEOREM AcceptedDraftIsFinal == Spec => []AcceptedIsFinal
<1>1. DebateInv => AcceptedIsFinal
  <2> SUFFICES ASSUME DebateInv, state \in {"ACCEPTED", "CLOSED"}
               PROVE  script[Primary] = <<>> /\ inbox[Primary] = <<>>
    BY DEF AcceptedIsFinal
  <2>1. inbox[Primary] = <<>>
    BY DEF DebateInv, OneTurn
  <2>2. script[Primary] = <<>>
    BY PrimaryCalls DEF DebateInv, OneTurn, Patches, NextCall
  <2> QED
    BY <2>1, <2>2
<1> QED
  BY <1>1, DebateInvHolds, PTL

(***************************************************************************)
(* The refinement.  Only the announcement and the writing half of a PATCH  *)
(* change the state, and that half writes what is still allowed.           *)
(***************************************************************************)
LEMMA LifecycleStep ==
  ASSUME DebateInv, [Next]_vars
  PROVE  [Lifecycle!Next]_[t \in {"task"} |-> state]
<1> DEFINE column == [t \in {"task"} |-> state]
<1>1. ASSUME state' = state PROVE column' = column
  BY <1>1
<1>2. ASSUME NEW a, Create(a) PROVE Lifecycle!Create("task")
  BY <1>2 DEF Create, Lifecycle!Create
<1>3. ASSUME NEW x \in Actor, PatchWritten(x)
      PROVE  \E s \in Lifecycle!TaskState : Lifecycle!Advance("task", s)
  <2>1. NextCall(x, "patch") /\ Allowed(Head(script[x]).to)
    BY <1>3 DEF PatchWritten, DebateInv, CheckedIsAllowed
  <2>2. PICK s : s = Head(script[x]).to
    OBVIOUS
  <2>3. s \in Lifecycle!TaskState /\ s \in Lifecycle!VALID_TRANSITIONS[state] /\ state # "none"
    BY <2>1, <2>2, Turns DEF Allowed
  <2>4. state' = s
    BY <1>3, <2>2 DEF PatchWritten
  <2>5. Lifecycle!Advance("task", s)
    BY <2>3, <2>4 DEF Lifecycle!Advance
  <2> QED
    BY <2>3, <2>5
<1>4. \/ UNCHANGED state
      \/ \E a : Create(a)
      \/ \E x \in Actor : PatchWritten(x)
  BY DEF Next, vars, Handle, Call, Fault, HandleCreated, HandleDelegated, HandleDeliverable,
         HandleVerdict, HandleWork, Begin, CallSend, CallPatch, PatchRefused, Critique,
         HandlerFails, MessageLost, Restart
<1> QED
  BY <1>1, <1>2, <1>3, <1>4 DEF Lifecycle!Next

\* Though the bus checks and writes a PATCH in two steps and the agents' calls
\* interleave, every debate is a life of the task as the bus promises it.
THEOREM DebatesImplementLifecycle == Spec => ImplementsLifecycle
<1>1. Init => Lifecycle!Init
  BY DEF Init, Lifecycle!Init
<1>2. DebateInv /\ [Next]_vars => [Lifecycle!Next]_[t \in {"task"} |-> state]
  BY LifecycleStep
<1> QED
  BY <1>1, <1>2, DebateInvHolds, PTL DEF Spec, ImplementsLifecycle, Lifecycle!Spec
(***************************************************************************)
(* Where the draft is.  With one critic there is one thing to wait for at  *)
(* a time: the primary's work on the next draft, a report of this one in   *)
(* the PM's inbox, the PM's decision, or the request in a critic's inbox.  *)
(* Whatever is not lost is then about the last draft.                      *)
(***************************************************************************)
LoneCritic == Len(tier.critics) <= 1

Concerns(m) == m.kind \in {"deliverable", "verdict"}
Asking      == NextCall(PM, "send") /\ Head(script[PM]).msg.kind = "review"

InTheMaking ==
  \/ Sends(PM, Work("assign")) \/ Sends(PM, Work("revise"))
  \/ inbox[Primary] # <<>>
  \/ script[Primary] \notin {<<>>, Reporting}
Reported    == \E i \in DOMAIN inbox[PM] : Concerns(inbox[PM][i])
Decided     == Patches(PM, "REWORK") \/ Patches(PM, "ACCEPTED") \/ Asking
UnderReview == \E c \in Critics : inbox[c] # <<>>

OnePlace ==
  /\ InTheMaking => ~Reported /\ ~Decided /\ ~UnderReview
  /\ Reported => ~Decided /\ ~UnderReview
  /\ Decided => ~UnderReview
  /\ state \in {"none", "CREATED"} => ~(InTheMaking \/ Reported \/ Decided \/ UnderReview)

ReportedOnce ==
  \A i, j \in DOMAIN inbox[PM] :
    Concerns(inbox[PM][i]) /\ Concerns(inbox[PM][j]) => i = j /\ inbox[PM][i].draft = drafts

ReviewedOnce ==
  /\ \A c \in Critics : inbox[c] \in {<<>>, <<Review(drafts)>>}
  /\ \A c, e \in Critics : inbox[c] # <<>> /\ inbox[e] # <<>> => c = e

DecidedOnce ==
  /\ Patches(PM, "ACCEPTED") => Head(script[PM]).draft = drafts
  /\ Asking => Head(script[PM]).msg = Review(drafts) /\ Tail(script[PM]) = <<>>

LoneInv == LoneCritic => OnePlace /\ ReportedOnce /\ ReviewedOnce /\ DecidedOnce

\* An inbox that has grown shorter holds nothing new.
LEMMA LessMail ==
  ASSUME DebateInv, ReportedOnce, drafts' = drafts,
         \/ inbox'[PM] \in {inbox[PM], <<>>}
         \/ inbox[PM] # <<>> /\ inbox'[PM] = Tail(inbox[PM])
  PROVE  (Reported' => Reported) /\ ReportedOnce'
<1>1. CASE inbox'[PM] \in {inbox[PM], <<>>}
  BY <1>1 DEF Reported, ReportedOnce
<1>2. CASE inbox[PM] # <<>> /\ inbox'[PM] = Tail(inbox[PM])
  <2>1. \A i \in DOMAIN Tail(inbox[PM]) : /\ i \in Nat /\ i + 1 \in DOMAIN inbox[PM]
                                         /\ Tail(inbox[PM])[i] = inbox[PM][i + 1]
    BY <1>2, Names DEF DebateInv, ArenaTyped, InboxTyped
  <2>2. Reported' => Reported
    BY <1>2, <2>1 DEF Reported
  <2>3. \A i, j \in Nat : i + 1 = j + 1 => i = j
    OBVIOUS
  <2>4. ReportedOnce'
    BY <1>2, <2>1, <2>3 DEF ReportedOnce
  <2> QED
    BY <2>2, <2>4
<1> QED
  BY <1>1, <1>2

\* An empty inbox with one report more holds one.
LEMMA OneMore ==
  ASSUME DebateInv, ~Reported, NEW m
  PROVE  \A i, j \in DOMAIN Append(inbox[PM], m) :
           Concerns(Append(inbox[PM], m)[i]) /\ Concerns(Append(inbox[PM], m)[j])
             => i = j /\ Append(inbox[PM], m)[i] = m
<1>1. inbox[PM] \in Seq(Message)
  BY Names DEF DebateInv, ArenaTyped, InboxTyped
<1>2. inbox[PM] \in Seq(Message \cup {m}) /\ m \in Message \cup {m}
  BY <1>1, LargerSeq
<1>3. /\ Append(inbox[PM], m) \in Seq(Message \cup {m})
      /\ Len(Append(inbox[PM], m)) = Len(inbox[PM]) + 1
      /\ Append(inbox[PM], m)[Len(inbox[PM]) + 1] = m
      /\ \A i \in 1..Len(inbox[PM]) : Append(inbox[PM], m)[i] = inbox[PM][i]
  BY <1>2, AppendProperties
<1>4. /\ DOMAIN inbox[PM] = 1..Len(inbox[PM]) /\ Len(inbox[PM]) \in Nat
      /\ DOMAIN Append(inbox[PM], m) = 1..(Len(inbox[PM]) + 1)
  BY <1>1, <1>3
<1>5. \A i \in DOMAIN Append(inbox[PM], m) :
        i \in DOMAIN inbox[PM] \/ i = Len(inbox[PM]) + 1
  BY <1>4
<1>6. \A i \in DOMAIN Append(inbox[PM], m) :
        Concerns(Append(inbox[PM], m)[i]) => i = Len(inbox[PM]) + 1
  BY <1>3, <1>4, <1>5 DEF Reported
<1> QED
  BY <1>3, <1>6

LEMMA LoneDropping ==
  ASSUME DebateInv, LoneInv, Drops
  PROVE  LoneInv'
<1> SUFFICES ASSUME LoneCritic, OnePlace, ReportedOnce, ReviewedOnce, DecidedOnce
             PROVE  OnePlace' /\ ReportedOnce' /\ ReviewedOnce' /\ DecidedOnce'
  BY DEF LoneInv, LoneCritic, Drops
<1>1. /\ UNCHANGED <<tier, state, drafts>>
      /\ script'[PM] \in {script[PM], <<>>} /\ script'[Primary] \in {script[Primary], <<>>}
  BY Names DEF Drops
<1>2. (Reported' => Reported) /\ ReportedOnce'
  BY <1>1, LessMail, Names DEF Drops
<1>3. inbox'[Primary] \in {inbox[Primary], <<>>}
  <2>1. inbox[Primary] # <<>> => Tail(inbox[Primary]) = <<>>
    BY Tails DEF DebateInv, OneTurn
  <2> QED
    BY <2>1, Names DEF Drops
<1>4. \A c \in Critics : inbox'[c] \in {inbox[c], <<>>}
  <2>1. \A c \in Critics : inbox[c] # <<>> => Tail(inbox[c]) = <<>>
    BY Tails DEF ReviewedOnce
  <2> QED
    BY <2>1, Names DEF Drops
<1>5. ReviewedOnce' /\ (UnderReview' => UnderReview)
  BY <1>1, <1>4 DEF ReviewedOnce, UnderReview
<1>6. InTheMaking' => InTheMaking
  BY <1>1, <1>3 DEF InTheMaking, Sends, NextCall
<1>7. (Decided' => Decided) /\ DecidedOnce'
  BY <1>1 DEF Decided, DecidedOnce, Asking, Patches, NextCall
<1> QED
  BY <1>1, <1>2, <1>5, <1>6, <1>7 DEF OnePlace

\* What the PM makes of a message, and on which draft.
Verdicts(s, d) ==
  \/ s = <<>>
  \/ \E r, w : s = Accept(r, d, w)
  \/ \E r : s = Reworking(r, d)
  \/ \E c : s = <<Send(c, Review(d))>>

LEMMA LoneVerdict ==
  ASSUME DebateInv, LoneCritic, PMHandles
  PROVE  \E s : /\ Begin(PM, s) /\ script[PM] = <<>> /\ inbox[PM] # <<>>
                /\ \/ s \in {<<>>, Classify}
                   \/ Concerns(Head(inbox[PM])) /\ Verdicts(s, Head(inbox[PM]).draft)
<1> DEFINE m == Head(inbox[PM])
<1>1. PICK s : Begin(PM, s) /\ \/ s = <<>> \/ s = Classify
                               \/ m.kind = "deliverable" /\ s = Route(m.draft)
                               \/ m.kind = "verdict" /\ s = Approved(m.from, m.draft)
                               \/ m.kind = "verdict" /\ s = Revise(m.draft)
  BY DEF PMHandles, HandleCreated, HandleDelegated, HandleDeliverable, HandleVerdict, Incoming
<1>2. inbox[PM] # <<>> /\ script[PM] = <<>>
  BY DEF PMHandles, HandleCreated, HandleDelegated, HandleDeliverable, HandleVerdict, Incoming
<1> HIDE DEF m
<1>3. PICK d : d = m.draft
  OBVIOUS
<1>4. ASSUME s = Route(d) PROVE Verdicts(s, d)
  <2>1. CASE tier.rounds = 0
    BY <1>4, <2>1 DEF Route, Verdicts
  <2>2. CASE tier.rounds # 0
    <3>1. s = [i \in DOMAIN tier.critics |-> Send(tier.critics[i], Review(d))]
      BY <1>4, <2>2 DEF Route
    <3>2. tier.critics \in Seq(Critics)
      BY TiersAssumption DEF DebateInv, ArenaTyped
    <3>3. DOMAIN tier.critics = 1..Len(tier.critics) /\ Len(tier.critics) \in {0, 1}
      <4>1. DOMAIN tier.critics = 1..Len(tier.critics) /\ Len(tier.critics) \in Nat
        BY <3>2
      <4>2. \A n \in Nat : n <= 1 => n \in {0, 1}
        OBVIOUS
      <4> QED
        BY <4>1, <4>2 DEF LoneCritic
    <3>4. s = <<>> \/ s = <<Send(tier.critics[1], Review(d))>>
      BY <3>1, <3>3
    <3> QED
      BY <3>4 DEF Verdicts
  <2> QED
    BY <2>1, <2>2
<1>5. ASSUME NEW c, s = Approved(c, d) PROVE Verdicts(s, d)
  BY <1>5 DEF Approved, Verdicts
<1>6. ASSUME s = Revise(d) PROVE Verdicts(s, d)
  BY <1>6 DEF Revise, Reworking, Verdicts
<1>7. s \in {<<>>, Classify} \/ (Concerns(m) /\ Verdicts(s, d))
  BY <1>1, <1>3, <1>4, <1>5, <1>6 DEF Concerns
<1> QED
  BY <1>1, <1>2, <1>3, <1>7 DEF m

LEMMA LoneBegins ==
  ASSUME DebateInv, LoneInv, PMHandles
  PROVE  LoneInv'
<1>0. UNCHANGED tier
  BY DEF PMHandles, HandleCreated, HandleDelegated, HandleDeliverable, HandleVerdict, Begin
<1> SUFFICES ASSUME LoneCritic, OnePlace, ReportedOnce, ReviewedOnce, DecidedOnce
             PROVE  OnePlace' /\ ReportedOnce' /\ ReviewedOnce' /\ DecidedOnce'
  BY <1>0 DEF LoneInv, LoneCritic
<1>1. PICK s : /\ Begin(PM, s) /\ script[PM] = <<>> /\ inbox[PM] # <<>>
               /\ \/ s \in {<<>>, Classify}
                  \/ Concerns(Head(inbox[PM])) /\ Verdicts(s, Head(inbox[PM]).draft)
  BY LoneVerdict
<1>2. /\ UNCHANGED <<state, drafts>>
      /\ script'[PM] = s /\ script'[Primary] = script[Primary]
      /\ inbox'[PM] = Tail(inbox[PM]) /\ inbox'[Primary] = inbox[Primary]
      /\ \A c \in Critics : inbox'[c] = inbox[c]
  BY <1>1, Names DEF Begin, DebateInv, ArenaTyped, InboxTyped
<1>3. (Reported' => Reported) /\ ReportedOnce'
  BY <1>1, <1>2, LessMail
<1>4. ReviewedOnce' /\ (UnderReview' <=> UnderReview)
  BY <1>2 DEF ReviewedOnce, UnderReview
<1>5. CASE s \in {<<>>, Classify}
  <2>1. s # <<>> => Head(s).op = "patch" /\ Head(s).to = "ASSIGNED"
    BY <1>5, Tails DEF Classify, Decide
  <2>2. ~Decided' /\ DecidedOnce' /\ ~Sends(PM, Work("assign"))' /\ ~Sends(PM, Work("revise"))'
    BY <1>2, <2>1 DEF Decided, DecidedOnce, Asking, Patches, Sends, NextCall
  <2>3. InTheMaking' => InTheMaking
    BY <1>2, <2>2 DEF InTheMaking
  <2> QED
    BY <1>2, <1>3, <1>4, <2>2, <2>3 DEF OnePlace
<1>6. CASE Concerns(Head(inbox[PM])) /\ Verdicts(s, Head(inbox[PM]).draft)
  <2>1. /\ Head(inbox[PM]) = inbox[PM][1] /\ 1 \in DOMAIN inbox[PM]
        /\ \A i \in DOMAIN Tail(inbox[PM]) : /\ i \in Nat /\ i # 0 /\ i + 1 \in DOMAIN inbox[PM]
                                             /\ Tail(inbox[PM])[i] = inbox[PM][i + 1]
    BY <1>1, Names DEF DebateInv, ArenaTyped, InboxTyped
  <2>2. Reported /\ Head(inbox[PM]).draft = drafts
    BY <1>6, <2>1 DEF Reported, ReportedOnce
  <2>3. ~Reported'
    <3>1. \A i \in Nat : i # 0 => i + 1 # 1
      OBVIOUS
    <3> QED
      BY <1>2, <1>6, <2>1, <3>1 DEF Reported, ReportedOnce
  <2>4. /\ s # <<>> /\ Head(s).op = "patch" => Head(s).draft = drafts
        /\ s # <<>> /\ Head(s).op = "send" => Head(s).msg = Review(drafts) /\ Tail(s) = <<>>
    <3>1. ASSUME NEW r, NEW w, s = Accept(r, drafts, w)
          PROVE  Head(s).op = "patch" /\ Head(s).draft = drafts
      BY <3>1, Tails DEF Accept, Decide
    <3>2. ASSUME NEW r, s = Reworking(r, drafts)
          PROVE  Head(s).op = "patch" /\ Head(s).draft = drafts
      BY <3>2, Tails DEF Reworking, Decide
    <3>3. ASSUME NEW c, s = <<Send(c, Review(drafts))>>
          PROVE  Head(s).op = "send" /\ Head(s).msg = Review(drafts) /\ Tail(s) = <<>>
      BY <3>3, Tails DEF Send
    <3> QED
      BY <1>6, <2>2, <3>1, <3>2, <3>3 DEF Verdicts
  <2>5. DecidedOnce'
    BY <1>2, <2>4 DEF DecidedOnce, Asking, Patches, NextCall
  <2>6. ~Sends(PM, Work("assign"))' /\ ~Sends(PM, Work("revise"))'
    BY <1>2, <2>4, Kinds DEF Sends, NextCall
  <2>7. ~InTheMaking' /\ ~UnderReview'
    BY <1>2, <1>4, <2>2, <2>6 DEF OnePlace, InTheMaking
  <2>8. state' \notin {"none", "CREATED"}
    BY <1>2, <2>2 DEF OnePlace
  <2> QED
    BY <1>3, <1>4, <2>3, <2>5, <2>7, <2>8 DEF OnePlace
<1> QED
  BY <1>1, <1>5, <1>6

LEMMA LonePrimaryBegins ==
  ASSUME DebateInv, LoneInv, HandleWork
  PROVE  LoneInv'
<1>1. /\ UNCHANGED <<tier, state, drafts>> /\ inbox[Primary] # <<>>
      /\ script'[PM] = script[PM] /\ inbox'[PM] = inbox[PM]
      /\ \A c \in Critics : inbox'[c] = inbox[c]
  BY Names DEF HandleWork, Incoming, Begin, DebateInv, ArenaTyped, InboxTyped
<1>2. InTheMaking
  BY <1>1 DEF InTheMaking
<1>3. (Decided' <=> Decided) /\ (Reported' <=> Reported) /\ (UnderReview' <=> UnderReview)
  BY <1>1 DEF Decided, Reported, UnderReview, Asking, Patches, NextCall
<1>4. LoneCritic => OnePlace'
  BY <1>1, <1>2, <1>3 DEF LoneInv, OnePlace
<1>5. LoneCritic => ReportedOnce' /\ ReviewedOnce' /\ DecidedOnce'
  BY <1>1 DEF LoneInv, ReportedOnce, ReviewedOnce, DecidedOnce, Asking, Patches, NextCall
<1> QED
  BY <1>1, <1>4, <1>5 DEF LoneInv, LoneCritic

LEMMA LonePatches ==
  ASSUME DebateInv, LoneInv, NEW x \in Actor, CallPatch(x)
  PROVE  LoneInv'
BY DEF CallPatch, LoneInv, LoneCritic, OnePlace, ReportedOnce, ReviewedOnce, DecidedOnce, InTheMaking,
       Reported, Decided, UnderReview, Asking, Patches, Sends, NextCall

LEMMA LonePMWrites ==
  ASSUME DebateInv, LoneInv, PatchWritten(PM)
  PROVE  LoneInv'
<1> DEFINE call == Head(script[PM])
           rest == Tail(script[PM])
<1>1. /\ UNCHANGED <<tier, drafts, inbox>> /\ state' = call.to /\ PM \in checked
      /\ script'[PM] = rest /\ script'[Primary] = script[Primary]
  BY Names DEF PatchWritten, DebateInv, ArenaTyped
<1> SUFFICES ASSUME LoneCritic, OnePlace, ReportedOnce, ReviewedOnce, DecidedOnce
             PROVE  OnePlace' /\ ReportedOnce' /\ ReviewedOnce' /\ DecidedOnce'
  BY <1>1 DEF LoneInv, LoneCritic
<1>2. NextCall(PM, "patch") /\ Allowed(call.to) /\ PM \in Actor
  BY <1>1, Names DEF DebateInv, CheckedIsAllowed
<1>3. \/ call.to = "ASSIGNED" /\ state = "CREATED"
      \/ call.to \in {"REWORK", "ACCEPTED", "CLOSED"}
  BY <1>2, Turns
<1>4. PMNext(call, rest) /\ call.op = "patch"
  BY <1>2, PMCalls DEF DebateInv, NextCall
<1>5. call.to \in {"REWORK", "ACCEPTED"} => Decided
  BY <1>2 DEF Decided, Patches
<1> HIDE DEF call, rest
<1>6. /\ Head(Assigning).op = "send" /\ Head(Assigning).msg.kind = "assign" /\ Assigning # <<>>
      /\ Head(Revising).op = "send" /\ Head(Revising).msg.kind = "revise" /\ Revising # <<>>
  BY Tails DEF Assigning, Revising, Send, Work
<1>7. \/ rest = Assigning /\ call.to = "ASSIGNED"
      \/ rest = Revising /\ call.to = "REWORK"
      \/ rest = <<>>
      \/ rest # <<>> /\ Head(rest).op = "patch" /\ Head(rest).to = "CLOSED"
  <2>1. \A r, d, w : /\ Closing(r, d, w) # <<>> /\ Head(Closing(r, d, w)).op = "patch"
                    /\ Head(Closing(r, d, w)).to = "CLOSED"
    BY Tails DEF Closing, Decide
  <2>2. \/ rest = Assigning /\ call.to = "ASSIGNED"
        \/ rest = Revising /\ call.to = "REWORK"
        \/ rest = <<>>
        \/ \E r, d, w : rest = Closing(r, d, w)
    <3>1. call.op # "send"
      BY <1>4
    <3> QED
      BY <1>4, <3>1 DEF PMNext
  <2> QED
    BY <2>1, <2>2
<1>8. ~Decided' /\ DecidedOnce'
  BY <1>1, <1>6, <1>7 DEF Decided, DecidedOnce, Asking, Patches, NextCall
<1>9. (Reported' <=> Reported) /\ (UnderReview' <=> UnderReview) /\ ReportedOnce' /\ ReviewedOnce'
  BY <1>1 DEF Reported, UnderReview, ReportedOnce, ReviewedOnce
<1>10. InTheMaking' => InTheMaking \/ call.to \in {"ASSIGNED", "REWORK"}
  BY <1>1, <1>7 DEF InTheMaking, Sends, NextCall
<1> QED
  BY <1>1, <1>3, <1>5, <1>8, <1>9, <1>10 DEF OnePlace

LEMMA LonePrimaryWrites ==
  ASSUME DebateInv, LoneInv, PatchWritten(Primary)
  PROVE  LoneInv'
<1>1. /\ UNCHANGED <<tier, drafts, inbox>> /\ state' = Head(script[Primary]).to
      /\ script'[PM] = script[PM] /\ script'[Primary] = Tail(script[Primary])
      /\ Primary \in checked
  BY Names DEF PatchWritten, DebateInv, ArenaTyped
<1>2. NextCall(Primary, "patch")
  BY <1>1 DEF DebateInv, CheckedIsAllowed
<1>3. \/ Head(script[Primary]).to = "IN_PROGRESS"
      \/ Head(script[Primary]).to = "IN_REVIEW" /\ Tail(script[Primary]) = <<>>
  BY <1>2, PrimaryCalls DEF DebateInv, NextCall
<1>4. Reporting # <<>> /\ Head(Reporting).to = "IN_REVIEW"
  BY Tails DEF Reporting, Patch
<1>5. InTheMaking' => InTheMaking
  BY <1>1, <1>2, <1>3, <1>4 DEF InTheMaking, Sends, NextCall
<1>6. (Decided' <=> Decided) /\ (Reported' <=> Reported) /\ (UnderReview' <=> UnderReview)
  BY <1>1 DEF Decided, Reported, UnderReview, Asking, Patches, NextCall
<1>7. LoneCritic => OnePlace'
  BY <1>1, <1>3, <1>5, <1>6 DEF LoneInv, OnePlace
<1>8. LoneCritic => ReportedOnce' /\ ReviewedOnce' /\ DecidedOnce'
  BY <1>1 DEF LoneInv, ReportedOnce, ReviewedOnce, DecidedOnce, Asking, Patches, NextCall
<1> QED
  BY <1>1, <1>7, <1>8 DEF LoneInv, LoneCritic

LEMMA LonePMSends ==
  ASSUME DebateInv, LoneInv, CallSend(PM)
  PROVE  LoneInv'
<1> DEFINE call == Head(script[PM])
           rest == Tail(script[PM])
<1>1. /\ UNCHANGED <<tier, state>> /\ NextCall(PM, "send") /\ script[PM] # <<>> /\ call.op = "send"
      /\ inbox' = [inbox EXCEPT ![call.who] = Append(inbox[call.who], call.msg)]
      /\ drafts' = IF call.msg.kind = "deliverable" THEN call.msg.draft ELSE drafts
      /\ script'[PM] = rest /\ script'[Primary] = script[Primary]
  BY Names DEF CallSend, NextCall, DebateInv, ArenaTyped
<1> SUFFICES ASSUME LoneCritic, OnePlace, ReportedOnce, ReviewedOnce, DecidedOnce
             PROVE  OnePlace' /\ ReportedOnce' /\ ReviewedOnce' /\ DecidedOnce'
  BY <1>1 DEF LoneInv, LoneCritic
<1>2. \/ call.who = Primary /\ call.msg \in {Work("assign"), Work("revise")} /\ rest = <<>>
      \/ call.who \in Critics /\ (\E d \in Drafted : call.msg = Review(d))
  BY <1>1, PMCalls DEF DebateInv, PMNext
<1>3. /\ call.msg \in {Work("assign"), Work("revise")} => InTheMaking
      /\ call.msg.kind = "review" => Asking /\ Decided /\ call.msg = Review(drafts) /\ rest = <<>>
  BY <1>1 DEF InTheMaking, Sends, Asking, Decided, DecidedOnce
<1>4. call.msg \in {Work("assign"), Work("revise")} \/ call.msg.kind = "review"
  BY <1>2, Kinds
<1> HIDE DEF call, rest
<1>5. rest = <<>> /\ drafts' = drafts
  BY <1>1, <1>2, <1>3, Kinds
<1>6. ~Decided' /\ DecidedOnce' /\ ~Sends(PM, Work("assign"))' /\ ~Sends(PM, Work("revise"))'
  BY <1>1, <1>5 DEF Decided, DecidedOnce, Asking, Patches, Sends, NextCall
<1>7. \A y \in Agent : inbox'[y] = IF y = call.who THEN Append(inbox[y], call.msg) ELSE inbox[y]
  BY <1>1 DEF DebateInv, ArenaTyped, InboxTyped
<1>8. inbox'[PM] = inbox[PM]
  BY <1>2, <1>7, Names
<1>9. (Reported' <=> Reported) /\ ReportedOnce'
  BY <1>5, <1>8 DEF Reported, ReportedOnce
<1>10. CASE call.who = Primary
  <2>1. \A c \in Critics : inbox'[c] = inbox[c]
    BY <1>7, <1>10, Names
  <2>2. InTheMaking
    BY <1>2, <1>3, <1>10, Names
  <2>3. ReviewedOnce' /\ (UnderReview' <=> UnderReview)
    BY <1>5, <2>1 DEF ReviewedOnce, UnderReview
  <2> QED
    BY <1>1, <1>6, <1>9, <2>2, <2>3 DEF OnePlace
<1>11. CASE call.who \in Critics
  <2>1. Decided /\ call.msg = Review(drafts)
    BY <1>2, <1>3, <1>11, Names, Kinds
  <2>2. \A c \in Critics : inbox[c] = <<>>
    BY <2>1 DEF OnePlace, UnderReview
  <2>3. \A c \in Critics : inbox'[c] = IF c = call.who THEN <<Review(drafts)>> ELSE <<>>
    <3>1. Append(<<>>, call.msg) = <<call.msg>>
      OBVIOUS
    <3> QED
      BY <1>7, <2>1, <2>2, <3>1, Names
  <2>4. ReviewedOnce'
    BY <1>5, <2>3 DEF ReviewedOnce
  <2>5. ~InTheMaking /\ ~Reported /\ state \notin {"none", "CREATED"}
    BY <2>1 DEF OnePlace
  <2>6. inbox'[Primary] = inbox[Primary]
    BY <1>7, <1>11, Names
  <2>7. ~InTheMaking'
    BY <1>1, <1>6, <2>5, <2>6 DEF InTheMaking
  <2> QED
    BY <1>1, <1>6, <1>9, <2>4, <2>5, <2>7 DEF OnePlace
<1> QED
  BY <1>2, <1>10, <1>11

LEMMA LonePrimarySends ==
  ASSUME DebateInv, LoneInv, CallSend(Primary)
  PROVE  LoneInv'
<1>1. /\ UNCHANGED <<tier, state>> /\ NextCall(Primary, "send") /\ script[Primary] # <<>>
      /\ Head(script[Primary]).op = "send"
      /\ script'[PM] = script[PM] /\ script'[Primary] = Tail(script[Primary])
  BY Names DEF CallSend, NextCall, DebateInv, ArenaTyped
<1> SUFFICES ASSUME LoneCritic, OnePlace, ReportedOnce, ReviewedOnce, DecidedOnce
             PROVE  OnePlace' /\ ReportedOnce' /\ ReviewedOnce' /\ DecidedOnce'
  BY <1>1 DEF LoneInv, LoneCritic
<1>2. LET call == Head(script[Primary])
      IN  /\ call.who = PM /\ call.msg = Deliverable(drafts + 1)
          /\ call.msg.kind = "deliverable" /\ call.msg.draft = drafts + 1
          /\ Tail(script[Primary]) = Reporting
  BY <1>1, PrimaryCalls DEF DebateInv
<1>3. PICK m : m = Deliverable(drafts + 1)
  OBVIOUS
<1>4. drafts' = m.draft /\ inbox' = [inbox EXCEPT ![PM] = Append(inbox[PM], m)]
  BY <1>2, <1>3 DEF CallSend
<1>5. /\ inbox'[PM] = Append(inbox[PM], m) /\ inbox'[Primary] = inbox[Primary]
      /\ \A c \in Critics : inbox'[c] = inbox[c]
  BY <1>4, Names DEF DebateInv, ArenaTyped, InboxTyped
<1>6. /\ script[Primary] \notin {<<>>, Reporting}
      /\ inbox[Primary] = <<>> /\ ~Sends(PM, Work("assign")) /\ ~Sends(PM, Work("revise"))
  <2>1. Head(Reporting).op = "patch"
    BY Tails DEF Reporting, Patch
  <2>2. state = "IN_PROGRESS"
    BY <1>1 DEF DebateInv, OneTurn
  <2> QED
    BY <1>1, <2>1, <2>2 DEF DebateInv, OneTurn
<1>7. ~Reported /\ ~Decided /\ ~UnderReview /\ state \notin {"none", "CREATED"}
  BY <1>6 DEF OnePlace, InTheMaking
<1>8. ~InTheMaking'
  BY <1>1, <1>2, <1>5, <1>6 DEF InTheMaking, Sends, NextCall
<1>9. ~Decided' /\ DecidedOnce'
  BY <1>1, <1>7 DEF Decided, DecidedOnce, Asking, Patches, NextCall
<1>10. ~UnderReview' /\ ReviewedOnce'
  BY <1>5, <1>7 DEF UnderReview, ReviewedOnce
<1>11. ReportedOnce'
  BY <1>3, <1>4, <1>5, <1>7, OneMore DEF ReportedOnce, Reported
<1> QED
  BY <1>1, <1>7, <1>8, <1>9, <1>10, <1>11 DEF OnePlace

LEMMA LoneCreates ==
  ASSUME DebateInv, LoneInv,
         NEW a \in {<<Work("created")>>, <<Work("created"), Work("delegated")>>}, Create(a)
  PROVE  LoneInv'
<1>1. /\ UNCHANGED <<tier, drafts, script>> /\ state = "none"
      /\ inbox'[PM] = a /\ inbox'[Primary] = inbox[Primary]
      /\ \A c \in Critics : inbox'[c] = inbox[c]
  BY Names DEF Create, DebateInv, ArenaTyped, InboxTyped
<1>2. \A i \in DOMAIN a : ~Concerns(a[i])
  <2>1. ~Concerns(Work("created")) /\ ~Concerns(Work("delegated"))
    BY DEF Concerns, Work
  <2> QED
    BY <2>1
<1>3. ~Reported' /\ ReportedOnce'
  BY <1>1, <1>2 DEF Reported, ReportedOnce
<1>4. /\ (InTheMaking' <=> InTheMaking) /\ (Decided' <=> Decided) /\ (UnderReview' <=> UnderReview)
      /\ (DecidedOnce' <=> DecidedOnce) /\ (ReviewedOnce' <=> ReviewedOnce)
  BY <1>1 DEF InTheMaking, Decided, UnderReview, DecidedOnce, ReviewedOnce, Asking, Patches, Sends,
              NextCall
<1>5. LoneCritic => OnePlace'
  BY <1>1, <1>3, <1>4 DEF LoneInv, OnePlace
<1> QED
  BY <1>1, <1>3, <1>4, <1>5 DEF LoneInv, LoneCritic

LEMMA LoneCritiques ==
  ASSUME DebateInv, LoneInv, NEW c \in Critics, NEW v \in Verdict, Critique(c, v)
  PROVE  LoneInv'
<1>1. /\ UNCHANGED <<tier, state, drafts, script>> /\ inbox[c] # <<>>
      /\ inbox' = [inbox EXCEPT ![c] = Tail(inbox[c]),
                                ![PM] = Append(inbox[PM], Answer(c, Head(inbox[c]).draft, v))]
  BY Names DEF Critique, DebateInv, ArenaTyped, InboxTyped
<1> SUFFICES ASSUME LoneCritic, OnePlace, ReportedOnce, ReviewedOnce, DecidedOnce
             PROVE  OnePlace' /\ ReportedOnce' /\ ReviewedOnce' /\ DecidedOnce'
  BY <1>1 DEF LoneInv, LoneCritic
<1>2. inbox[c] = <<Review(drafts)>> /\ \A e \in Critics : e # c => inbox[e] = <<>>
  BY <1>1 DEF ReviewedOnce
<1>3. Head(inbox[c]).draft = drafts /\ Tail(inbox[c]) = <<>>
  BY <1>2, Tails, Kinds
<1>4. PICK m : m = Answer(c, drafts, v)
  OBVIOUS
<1>5. m.kind = "verdict" /\ m.draft = drafts
  BY <1>4, Kinds
<1>6. inbox' = [inbox EXCEPT ![c] = <<>>, ![PM] = Append(inbox[PM], m)]
  BY <1>1, <1>3, <1>4
<1>7. /\ inbox'[PM] = Append(inbox[PM], m) /\ inbox'[Primary] = inbox[Primary]
      /\ \A e \in Critics : inbox'[e] = <<>>
  BY <1>2, <1>6, Names DEF DebateInv, ArenaTyped, InboxTyped
<1>8. ~InTheMaking /\ ~Reported /\ ~Decided /\ state \notin {"none", "CREATED"}
  BY <1>1 DEF OnePlace, UnderReview
<1>9. ~InTheMaking' /\ ~Decided' /\ DecidedOnce'
  BY <1>1, <1>7, <1>8 DEF InTheMaking, Decided, DecidedOnce, Asking, Patches, Sends, NextCall
<1>10. ~UnderReview' /\ ReviewedOnce'
  BY <1>7 DEF UnderReview, ReviewedOnce
<1>11. ReportedOnce'
  <2>1. \A i, j \in DOMAIN Append(inbox[PM], m) :
          Concerns(Append(inbox[PM], m)[i]) /\ Concerns(Append(inbox[PM], m)[j])
            => i = j /\ Append(inbox[PM], m)[i] = m
    BY <1>8, OneMore
  <2>2. drafts' = drafts
    BY <1>1
  <2> QED
    BY <1>5, <1>7, <2>1, <2>2 DEF ReportedOnce
<1> QED
  BY <1>1, <1>8, <1>9, <1>10, <1>11 DEF OnePlace

LEMMA LoneInit ==
  ASSUME Init
  PROVE  LoneInv
<1>1. script[PM] = <<>> /\ script[Primary] = <<>> /\ \A y \in Agent : inbox[y] = <<>>
  BY Names DEF Init
<1>2. inbox[PM] = <<>> /\ inbox[Primary] = <<>> /\ \A c \in Critics : inbox[c] = <<>>
  BY <1>1, Names
<1> QED
  BY <1>1, <1>2 DEF LoneInv, OnePlace, ReportedOnce, ReviewedOnce, DecidedOnce, InTheMaking,
                    Reported, Decided, UnderReview, Asking, Patches, Sends, NextCall

LEMMA LoneStep ==
  ASSUME DebateInv, LoneInv, [Next]_vars
  PROVE  LoneInv'
<1>1. ASSUME NEW x \in Actor, Handle(x) PROVE LoneInv'
  BY <1>1, LoneBegins, LonePrimaryBegins DEF Handle, PMHandles
<1>2. ASSUME NEW x \in Actor, Call(x) PROVE LoneInv'
  <2>1. CASE CallSend(x)
    BY <2>1, LonePMSends, LonePrimarySends, Names
  <2>2. CASE CallPatch(x)
    BY <2>2, LonePatches
  <2>3. CASE PatchWritten(x)
    BY <2>3, LonePMWrites, LonePrimaryWrites, Names
  <2>4. CASE PatchRefused(x)
    BY <2>4, Dropping, LoneDropping
  <2> QED
    BY <1>2, <2>1, <2>2, <2>3, <2>4 DEF Call
<1>3. CASE Fault \/ UNCHANGED vars
  BY <1>3, Dropping, LoneDropping
<1>4. ASSUME NEW c \in Critics, NEW v \in Verdict, Critique(c, v) PROVE LoneInv'
  BY <1>4, LoneCritiques
<1>5. CASE Create(<<Work("created")>>) \/ Create(<<Work("created"), Work("delegated")>>)
  BY <1>5, LoneCreates
<1> QED
  BY <1>1, <1>2, <1>3, <1>4, <1>5 DEF Next

\* With one critic at most, the draft is in one place and the last one.
THEOREM LoneInvHolds == Spec => []LoneInv
<1>1. Init => LoneInv
  BY LoneInit
<1>2. DebateInv /\ LoneInv /\ [Next]_vars => LoneInv'
  BY LoneStep
<1> QED
  BY <1>1, <1>2, DebateInvHolds, PTL DEF Spec

\* What is accepted is the last draft, for whatever reason it is.
AcceptsTheLast ==
  \A x \in Actor : PatchWritten(x) /\ state' = "ACCEPTED" => Head(script[x]).draft = drafts

(***************************************************************************)
(* In one round there is one draft, and with one critic one answer.        *)
(***************************************************************************)
OneAnswer == LoneCritic \/ tier.rounds <= 1

\* What the PM is about to accept is a draft that has been sent.
LEMMA AcceptsADraft ==
  ASSUME DebateInv, Patches(PM, "ACCEPTED")
  PROVE  Head(script[PM]).draft \in Drafted
<1>1. script[PM] # <<>> /\ Head(script[PM]).op = "patch" /\ Head(script[PM]).to = "ACCEPTED"
  BY DEF Patches, NextCall
<1>2. ASSUME NEW r, NEW d \in Drafted, NEW w, script[PM] = Accept(r, d, w)
      PROVE  Head(script[PM]).draft \in Drafted
  BY <1>2, Tails DEF Accept, Decide
<1>3. ASSUME NEW r, NEW d, NEW w, script[PM] = Closing(r, d, w) PROVE FALSE
  BY <1>1, <1>3, Tails DEF Closing, Decide
<1>4. ASSUME NEW r, NEW d, script[PM] = Reworking(r, d) PROVE FALSE
  BY <1>1, <1>4, Tails DEF Reworking, Decide
<1>5. script[PM] \notin {Classify, Assigning, Revising}
  BY <1>1, Tails DEF Classify, Assigning, Revising, Decide, Send
<1>6. script[PM] \notin Seq(Asks)
  <2>1. \A a \in Asks : a.op = "send"
    BY DEF Asks, Send
  <2>2. script[PM] \in Seq(Asks) => Head(script[PM]) \in Asks
    BY <1>1
  <2> QED
    BY <1>1, <2>1, <2>2
<1> QED
  BY <1>2, <1>3, <1>4, <1>5, <1>6 DEF DebateInv, ArenaTyped, PMScript

LEMMA Accepting ==
  ASSUME DebateInv, LoneInv, OneAnswer
  PROVE  AcceptsTheLast
<1> SUFFICES ASSUME NEW x \in Actor, PatchWritten(x), state' = "ACCEPTED"
             PROVE  Head(script[x]).draft = drafts
  BY DEF AcceptsTheLast
<1>1. NextCall(x, "patch") /\ Allowed(Head(script[x]).to) /\ Head(script[x]).to = "ACCEPTED"
  BY DEF PatchWritten, DebateInv, CheckedIsAllowed
<1>2. x = PM /\ Patches(PM, "ACCEPTED")
  BY <1>1, Turns, Names DEF Patches
<1>3. CASE LoneCritic
  BY <1>2, <1>3 DEF LoneInv, DecidedOnce
<1>4. CASE tier.rounds <= 1
  <2>1. tier.rounds \in Nat /\ drafts \in Nat /\ Head(script[PM]).draft \in 1..drafts
    BY <1>2, TiersAssumption, AcceptsADraft DEF DebateInv, ArenaTyped, Drafted
  <2>2. drafts <= 1
    BY <1>4, <2>1 DEF DebateInv, DraftsCounted
  <2> QED
    BY <1>2, <2>1, <2>2
<1> QED
  BY <1>3, <1>4 DEF OneAnswer

\* The stale approval that TLC finds takes two critics and two rounds.  With one
\* critic, as in the infrastructure tier, or one round, whatever is accepted,
\* approved, escalated or without a debate, is the last draft the primary sent.
THEOREM OneAnswerAcceptsTheLast == Spec => [][OneAnswer => AcceptsTheLast]_vars
<1>1. DebateInv /\ LoneInv /\ [Next]_vars => [OneAnswer => AcceptsTheLast]_vars
  BY Accepting
<1> QED
  BY <1>1, DebateInvHolds, LoneInvHolds, PTL DEF Spec

\* So the documented gate holds of an arena all of whose tiers are such: what
\* is accepted as approved has passed the review.
THEOREM OneAnswerIsAsReviewed ==
  ASSUME \A t \in Tiers : Len(t.critics) <= 1 \/ t.rounds <= 1
  PROVE  Spec => ApprovedAsReviewed
<1>1. DebateInv => OneAnswer
  BY DEF DebateInv, ArenaTyped, OneAnswer, LoneCritic
<1>2. AcceptsTheLast =>
        \A x \in Actor :
          (PatchWritten(x) /\ state' = "ACCEPTED" /\ Head(script[x]).why = "approved")
            => Head(script[x]).draft = drafts
  BY DEF AcceptsTheLast
<1> QED
  BY <1>1, <1>2, OneAnswerAcceptsTheLast, DebateInvHolds, PTL DEF ApprovedAsReviewed
(***************************************************************************)
(* Who is waited for.  EventuallyClosed cannot be proved here, but that    *)
(* nobody is ever waited for in vain can: in every state of the task some  *)
(* message or some handler is still to come that takes it on.              *)
(***************************************************************************)
\* Somebody will answer: the orchestrator falls back on QA, and asks nobody if QA
\* is not registered either.
SomebodyAnswers == tier.critics # <<>> \/ tier.rounds = 0

Announced ==
  \/ \E i \in DOMAIN inbox[PM] : inbox[PM][i].kind \in {"created", "delegated"}
  \/ Patches(PM, "ASSIGNED")

PrimaryDue == inbox[Primary] # <<>> \/ Patches(Primary, "IN_PROGRESS")

\* Some answer about some draft is under way.
DecisionDue == Reported \/ UnderReview \/ Decided

SomebodyIsAtIt ==
  /\ state = "CREATED" => Announced
  /\ state = "ASSIGNED" => Sends(PM, Work("assign")) \/ PrimaryDue
  /\ state = "REWORK" => Sends(PM, Work("revise")) \/ PrimaryDue
  /\ state = "IN_PROGRESS" => NextCall(Primary, "send") \/ Patches(Primary, "IN_REVIEW")
  /\ state = "IN_REVIEW" \/ Patches(Primary, "IN_REVIEW") => DecisionDue
  /\ state = "ACCEPTED" => Patches(PM, "CLOSED")

NeverStuck == SomebodyAnswers /\ faults = 0 /\ ~overtaken => SomebodyIsAtIt

\* As long as there is no fault there has been none, and nothing was overtaken.
LEMMA StepsInTime ==
  ASSUME DebateInv, [Next]_vars, faults' = 0
  PROVE  /\ tier' = tier /\ faults = 0 /\ (overtaken => overtaken')
         /\ ~Fault
<1>1. faults \in Nat
  BY FaultsAssumption DEF DebateInv, ArenaTyped
<1>2. Fault => faults' = faults + 1
  BY DEF Fault, HandlerFails, MessageLost, Restart, Faulty
<1>3. ~Fault
  BY <1>1, <1>2
<1>4. \A x \in Actor : Handle(x) \/ Call(x) =>
        tier' = tier /\ faults' = faults /\ (overtaken => overtaken')
  <2>1. \A x \in Actor : Handle(x) => UNCHANGED <<tier, faults, overtaken>>
    BY DEF Handle, HandleCreated, HandleDelegated, HandleDeliverable, HandleVerdict, HandleWork, Begin
  <2>2. \A x \in Actor : CallSend(x) \/ CallPatch(x) \/ PatchWritten(x)
                          => UNCHANGED <<tier, faults, overtaken>>
    BY DEF CallSend, CallPatch, PatchWritten
  <2>3. \A x \in Actor : PatchRefused(x) => UNCHANGED <<tier, faults>> /\ (overtaken => overtaken')
    BY DEF PatchRefused
  <2> QED
    BY <2>1, <2>2, <2>3 DEF Call
<1> QED
  BY <1>3, <1>4 DEF Next, vars, Create, Critique

\* With somebody to answer, the PM makes something of every report.
LEMMA VerdictsAct ==
  ASSUME DebateInv, SomebodyAnswers, PMHandles, Concerns(Head(inbox[PM]))
  PROVE  Decided'
<1> DEFINE m == Head(inbox[PM])
<1>1. PICK s : Begin(PM, s) /\ \/ m.kind = "deliverable" /\ s = Route(m.draft)
                               \/ m.kind = "verdict" /\ s = Approved(m.from, m.draft)
                               \/ m.kind = "verdict" /\ s = Revise(m.draft)
  BY DEF PMHandles, HandleCreated, HandleDelegated, HandleDeliverable, HandleVerdict, Incoming,
         Concerns
<1> HIDE DEF m
<1>2. PICK d : d = m.draft
  OBVIOUS
<1>3. script'[PM] = s
  BY <1>1, Names DEF Begin, DebateInv, ArenaTyped
<1>4. ASSUME NEW r, NEW w, s = Accept(r, d, w) PROVE Decided'
  <2>1. s # <<>> /\ Head(s).op = "patch" /\ Head(s).to = "ACCEPTED"
    BY <1>4, Tails DEF Accept, Decide
  <2> QED
    BY <1>3, <2>1 DEF Decided, Patches, NextCall
<1>5. ASSUME NEW r, s = Reworking(r, d) PROVE Decided'
  <2>1. s # <<>> /\ Head(s).op = "patch" /\ Head(s).to = "REWORK"
    BY <1>5, Tails DEF Reworking, Decide
  <2> QED
    BY <1>3, <2>1 DEF Decided, Patches, NextCall
<1>6. ASSUME NEW c, s # <<>>, Head(s) = Send(c, Review(d)) PROVE Decided'
  <2>1. Head(s).op = "send" /\ Head(s).msg.kind = "review"
    BY <1>6, Kinds DEF Send
  <2> QED
    BY <1>3, <1>6, <2>1 DEF Decided, Asking, NextCall
<1>7. ASSUME s = Route(d) PROVE Decided'
  <2>1. CASE tier.rounds = 0
    BY <1>4, <1>7, <2>1 DEF Route
  <2>2. CASE tier.rounds # 0
    <3>1. s = [i \in DOMAIN tier.critics |-> Send(tier.critics[i], Review(d))]
      BY <1>7, <2>2 DEF Route
    <3>2. tier.critics \in Seq(Critics) /\ tier.critics # <<>>
      BY <2>2, TiersAssumption DEF DebateInv, ArenaTyped, SomebodyAnswers
    <3>3. DOMAIN tier.critics = 1..Len(tier.critics) /\ Len(tier.critics) \in Nat
          /\ 1 \in DOMAIN tier.critics
      BY <3>2
    <3>4. \A i \in DOMAIN tier.critics : s[i] = Send(tier.critics[i], Review(d))
      BY <3>1
    <3>5. s # <<>> /\ Head(s) = s[1]
      BY <3>1, <3>3
    <3>6. Head(s) = Send(tier.critics[1], Review(d))
      BY <3>3, <3>4, <3>5
    <3> QED
      BY <1>6, <3>5, <3>6
  <2> QED
    BY <2>1, <2>2
<1>8. ASSUME NEW c, s = Approved(c, d) PROVE Decided'
  <2>1. s = Accept(round, d, "approved") \/ s = <<Send(tier.final, Review(d))>>
    BY <1>8 DEF Approved
  <2> QED
    BY <1>4, <1>6, <2>1, Tails
<1>9. ASSUME s = Revise(d) PROVE Decided'
  BY <1>4, <1>5, <1>9 DEF Revise, Reworking
<1> QED
  BY <1>1, <1>2, <1>7, <1>8, <1>9

LEMMA StuckPMBegins ==
  ASSUME DebateInv, SomebodyAnswers, SomebodyIsAtIt, PMHandles
  PROVE  SomebodyIsAtIt'
<1>1. PICK s : Begin(PM, s) /\ script[PM] = <<>> /\ inbox[PM] # <<>>
  BY DEF PMHandles, HandleCreated, HandleDelegated, HandleDeliverable, HandleVerdict, Incoming
<1>2. /\ UNCHANGED <<state, drafts>> /\ script'[PM] = s /\ script'[Primary] = script[Primary]
      /\ inbox'[PM] = Tail(inbox[PM]) /\ inbox'[Primary] = inbox[Primary]
      /\ \A c \in Critics : inbox'[c] = inbox[c]
  BY <1>1, Names DEF Begin, DebateInv, ArenaTyped, InboxTyped
<1>3. \A op : ~NextCall(PM, op)
  BY <1>1 DEF NextCall
<1>4. \A i \in DOMAIN inbox[PM] :
        \/ inbox[PM][i] = Head(inbox[PM])
        \/ \E j \in DOMAIN inbox'[PM] : inbox'[PM][j] = inbox[PM][i]
  <2>1. inbox[PM] \in Seq(Suited(PM))
    BY Names DEF DebateInv, ArenaTyped, InboxTyped
  <2>2. /\ DOMAIN inbox[PM] = 1..Len(inbox[PM]) /\ Len(inbox[PM]) \in Nat
        /\ DOMAIN Tail(inbox[PM]) = 1..(Len(inbox[PM]) - 1)
        /\ \A j \in 1..(Len(inbox[PM]) - 1) : Tail(inbox[PM])[j] = inbox[PM][j + 1]
        /\ Head(inbox[PM]) = inbox[PM][1]
    BY <1>1, <2>1
  <2> SUFFICES ASSUME NEW i \in DOMAIN inbox[PM], i # 1
               PROVE  \E j \in DOMAIN inbox'[PM] : inbox'[PM][j] = inbox[PM][i]
    BY <2>2
  <2>3. i - 1 \in 1..(Len(inbox[PM]) - 1) /\ (i - 1) + 1 = i
    BY <2>2
  <2> QED
    BY <1>2, <2>2, <2>3
<1>5. state = "CREATED" => Announced'
  <2> SUFFICES ASSUME state = "CREATED" PROVE Announced'
    OBVIOUS
  <2>1. CASE Head(inbox[PM]).kind \in {"created", "delegated"}
    <3>1. Begin(PM, Classify)
      BY <2>1 DEF PMHandles, HandleCreated, HandleDelegated, HandleDeliverable, HandleVerdict, Incoming
    <3>2. script'[PM] = Classify
      BY <3>1, Names DEF Begin, DebateInv, ArenaTyped
    <3>3. Classify # <<>> /\ Head(Classify).op = "patch" /\ Head(Classify).to = "ASSIGNED"
      BY Tails DEF Classify, Decide
    <3> QED
      BY <3>2, <3>3 DEF Announced, Patches, NextCall
  <2>2. CASE Head(inbox[PM]).kind \notin {"created", "delegated"}
    BY <1>3, <1>4, <2>2 DEF SomebodyIsAtIt, Announced, Patches
  <2> QED
    BY <2>1, <2>2
<1>6. DecisionDue => DecisionDue'
  <2>1. CASE Concerns(Head(inbox[PM]))
    BY <2>1, VerdictsAct DEF DecisionDue
  <2>2. CASE ~Concerns(Head(inbox[PM]))
    <3>1. Reported => Reported'
      BY <1>4, <2>2 DEF Reported
    <3>2. ~Decided
      BY <1>3 DEF Decided, Patches, Asking
    <3>3. UnderReview => UnderReview'
      BY <1>2 DEF UnderReview
    <3> QED
      BY <3>1, <3>2, <3>3 DEF DecisionDue
  <2> QED
    BY <2>1, <2>2
<1>7. /\ PrimaryDue' <=> PrimaryDue
      /\ \A op : NextCall(Primary, op)' <=> NextCall(Primary, op)
      /\ \A t : Patches(Primary, t)' <=> Patches(Primary, t)
  BY <1>2 DEF PrimaryDue, Patches, NextCall
<1>8. ~Sends(PM, Work("assign")) /\ ~Sends(PM, Work("revise")) /\ ~Patches(PM, "CLOSED")
  BY <1>3 DEF Sends, Patches
<1> QED
  BY <1>2, <1>5, <1>6, <1>7, <1>8 DEF SomebodyIsAtIt

LEMMA StuckPrimaryBegins ==
  ASSUME DebateInv, SomebodyIsAtIt, HandleWork
  PROVE  SomebodyIsAtIt'
<1>1. /\ UNCHANGED <<state, drafts>> /\ inbox[Primary] # <<>> /\ script[Primary] = <<>>
      /\ script'[PM] = script[PM] /\ inbox'[PM] = inbox[PM] /\ script'[Primary] = Draft
      /\ \A c \in Critics : inbox'[c] = inbox[c]
  BY Names DEF HandleWork, Incoming, Begin, DebateInv, ArenaTyped, InboxTyped
<1>2. state \in {"ASSIGNED", "REWORK"}
  BY <1>1 DEF DebateInv, OneTurn
<1>3. Draft # <<>> /\ Head(Draft).op = "patch" /\ Head(Draft).to = "IN_PROGRESS"
  BY Tails DEF Draft, Patch
<1>4. PrimaryDue' /\ ~Patches(Primary, "IN_REVIEW")'
  BY <1>1, <1>3 DEF PrimaryDue, Patches, NextCall
<1> QED
  BY <1>1, <1>2, <1>4 DEF SomebodyIsAtIt

LEMMA StuckPMSends ==
  ASSUME DebateInv, SomebodyIsAtIt, CallSend(PM)
  PROVE  SomebodyIsAtIt'
<1> DEFINE call == Head(script[PM])
<1>1. /\ UNCHANGED state /\ NextCall(PM, "send") /\ script[PM] # <<>> /\ call.op = "send"
      /\ inbox' = [inbox EXCEPT ![call.who] = Append(inbox[call.who], call.msg)]
      /\ script'[Primary] = script[Primary]
  BY Names DEF CallSend, NextCall, DebateInv, ArenaTyped
<1>2. \/ call.who = Primary /\ call.msg \in {Work("assign"), Work("revise")}
      \/ call.who \in Critics /\ (\E d \in Drafted : call.msg = Review(d))
  BY <1>1, PMCalls DEF DebateInv, PMNext
<1>3. /\ \A t : ~Patches(PM, t)
      /\ \A m : Sends(PM, m) => call.msg = m
  BY <1>1 DEF Patches, Sends, NextCall
<1> HIDE DEF call
<1>4. \A y \in Agent : \A m : Append(inbox[y], m) # <<>>
  <2> SUFFICES ASSUME NEW y \in Agent, NEW m PROVE Append(inbox[y], m) # <<>>
    OBVIOUS
  <2>1. inbox[y] \in Seq(Suited(y) \cup {m}) /\ m \in Suited(y) \cup {m}
    BY LargerSeq DEF DebateInv, ArenaTyped, InboxTyped
  <2> QED
    BY <2>1, AppendProperties
<1>5. \A y \in Agent : inbox'[y] = IF y = call.who THEN Append(inbox[y], call.msg) ELSE inbox[y]
  BY <1>1 DEF DebateInv, ArenaTyped, InboxTyped
<1>6. inbox'[PM] = inbox[PM]
  BY <1>2, <1>5, Names
<1>7. /\ \A op : NextCall(Primary, op)' <=> NextCall(Primary, op)
      /\ \A t : Patches(Primary, t)' <=> Patches(Primary, t)
  BY <1>1 DEF Patches, NextCall
<1>8. CASE call.who = Primary /\ call.msg \in {Work("assign"), Work("revise")}
  <2>1. PrimaryDue'
    BY <1>4, <1>5, <1>8, Names DEF PrimaryDue
  <2>2. state \in {"ASSIGNED", "REWORK"} /\ ~Patches(Primary, "IN_REVIEW")
    <3>1. Sends(PM, Work("assign")) \/ Sends(PM, Work("revise"))
      BY <1>1, <1>8 DEF Sends, call
    <3> QED
      BY <3>1 DEF DebateInv, OneTurn, PrimaryFree, Patches, NextCall
  <2> QED
    BY <1>1, <1>7, <2>1, <2>2 DEF SomebodyIsAtIt
<1>9. CASE call.who \in Critics /\ (\E d \in Drafted : call.msg = Review(d))
  <2>1. DecisionDue'
    <3>1. PICK c \in Critics : c = call.who
      BY <1>9
    <3>2. c \in Agent
      BY Names
    <3>3. inbox'[c] = Append(inbox[c], call.msg)
      BY <1>5, <3>1, <3>2
    <3>4. inbox'[c] # <<>>
      BY <1>4, <3>2, <3>3, Zenon
    <3> QED
      BY <3>4 DEF DecisionDue, UnderReview
  <2>2. inbox'[Primary] = inbox[Primary]
    BY <1>5, <1>9, Names
  <2>3. PrimaryDue' <=> PrimaryDue
    BY <1>7, <2>2 DEF PrimaryDue
  <2>4. Announced => Announced'
    BY <1>3, <1>6 DEF Announced
  <2>5. ~Sends(PM, Work("assign")) /\ ~Sends(PM, Work("revise"))
    BY <1>3, <1>9, Kinds
  <2> QED
    BY <1>1, <1>3, <1>7, <2>1, <2>3, <2>4, <2>5 DEF SomebodyIsAtIt
<1> QED
  BY <1>2, <1>8, <1>9

LEMMA StuckPrimarySends ==
  ASSUME DebateInv, SomebodyIsAtIt, CallSend(Primary)
  PROVE  SomebodyIsAtIt'
<1>1. /\ UNCHANGED state /\ NextCall(Primary, "send") /\ script[Primary] # <<>>
      /\ Head(script[Primary]).op = "send" /\ script'[Primary] = Tail(script[Primary])
  BY Names DEF CallSend, NextCall, DebateInv, ArenaTyped
<1>2. LET call == Head(script[Primary])
      IN  /\ call.who = PM /\ call.msg = Deliverable(drafts + 1)
          /\ Tail(script[Primary]) = Reporting
  BY <1>1, PrimaryCalls DEF DebateInv
<1>3. PICK m : m = Deliverable(drafts + 1)
  OBVIOUS
<1>4. inbox' = [inbox EXCEPT ![PM] = Append(inbox[PM], m)]
  BY <1>2, <1>3 DEF CallSend
<1>5. inbox'[PM] = Append(inbox[PM], m) /\ inbox[PM] \in Seq(Suited(PM))
  BY <1>4, Names DEF DebateInv, ArenaTyped, InboxTyped
<1>6. Reported'
  <2>1. Concerns(m)
    BY <1>3, Kinds DEF Concerns
  <2>2. inbox[PM] \in Seq(Suited(PM) \cup {m}) /\ m \in Suited(PM) \cup {m}
    BY <1>5, LargerSeq
  <2>3. /\ Append(inbox[PM], m)[Len(inbox[PM]) + 1] = m
        /\ Len(inbox[PM]) + 1 \in DOMAIN Append(inbox[PM], m)
    BY <2>2, AppendProperties
  <2> QED
    BY <1>5, <2>1, <2>3 DEF Reported
<1>7. Reporting # <<>> /\ Head(Reporting).op = "patch" /\ Head(Reporting).to = "IN_REVIEW"
  BY Tails DEF Reporting, Patch
<1>8. Patches(Primary, "IN_REVIEW")'
  BY <1>1, <1>2, <1>7 DEF Patches, NextCall
<1>9. state = "IN_PROGRESS"
  BY <1>1 DEF DebateInv, OneTurn
<1> QED
  BY <1>1, <1>6, <1>8, <1>9 DEF SomebodyIsAtIt, DecisionDue

LEMMA StuckPMWrites ==
  ASSUME DebateInv, SomebodyIsAtIt, PatchWritten(PM)
  PROVE  SomebodyIsAtIt'
<1> DEFINE call == Head(script[PM])
           rest == Tail(script[PM])
<1>1. /\ UNCHANGED inbox /\ state' = call.to /\ PM \in checked
      /\ script'[PM] = rest /\ script'[Primary] = script[Primary]
  BY Names DEF PatchWritten, DebateInv, ArenaTyped
<1>2. NextCall(PM, "patch") /\ Allowed(call.to) /\ PM \in Actor
  BY <1>1, Names DEF DebateInv, CheckedIsAllowed
<1>3. \/ call.to = "ASSIGNED" /\ state = "CREATED"
      \/ call.to = "REWORK" /\ state = "IN_REVIEW"
      \/ call.to = "ACCEPTED" /\ state = "IN_REVIEW"
      \/ call.to = "CLOSED" /\ state = "ACCEPTED"
  BY <1>2, Turns
<1>4. PMNext(call, rest) /\ call.op = "patch"
  BY <1>2, PMCalls DEF DebateInv, NextCall
<1> HIDE DEF call, rest
<1>5. ~Patches(Primary, "IN_REVIEW")'
  BY <1>1, <1>3 DEF DebateInv, OneTurn, Patches, NextCall
<1>6. /\ call.to = "ASSIGNED" => rest = Assigning
      /\ call.to = "REWORK" => rest = Revising
      /\ call.to = "ACCEPTED" => \E d \in Drafted, w \in Why : rest = Closing(call.round, d, w)
  BY <1>4 DEF PMNext
<1>7. /\ Head(Assigning).op = "send" /\ Head(Assigning).msg = Work("assign") /\ Assigning # <<>>
      /\ Head(Revising).op = "send" /\ Head(Revising).msg = Work("revise") /\ Revising # <<>>
  BY Tails DEF Assigning, Revising, Send
<1>8. \A r, d, w : /\ Closing(r, d, w) # <<>> /\ Head(Closing(r, d, w)).op = "patch"
                   /\ Head(Closing(r, d, w)).to = "CLOSED"
  BY Tails DEF Closing, Decide
<1>9. /\ call.to = "ASSIGNED" => Sends(PM, Work("assign"))'
      /\ call.to = "REWORK" => Sends(PM, Work("revise"))'
  BY <1>1, <1>6, <1>7 DEF Sends, NextCall
<1>10. call.to = "ACCEPTED" => Patches(PM, "CLOSED")'
  BY <1>1, <1>6, <1>8 DEF Patches, NextCall
<1> QED
  BY <1>1, <1>3, <1>5, <1>9, <1>10 DEF SomebodyIsAtIt

LEMMA StuckPrimaryWrites ==
  ASSUME DebateInv, SomebodyIsAtIt, PatchWritten(Primary)
  PROVE  SomebodyIsAtIt'
<1>1. /\ UNCHANGED inbox /\ state' = Head(script[Primary]).to /\ Primary \in checked
      /\ script'[PM] = script[PM] /\ script'[Primary] = Tail(script[Primary])
  BY Names DEF PatchWritten, DebateInv, ArenaTyped
<1>2. NextCall(Primary, "patch") /\ script[Primary] # <<>>
  BY <1>1 DEF DebateInv, CheckedIsAllowed, NextCall
<1>3. \/ Head(script[Primary]).to = "IN_PROGRESS" /\ Tail(script[Primary]) = Delivering(drafts + 1)
      \/ Head(script[Primary]).to = "IN_REVIEW" /\ Tail(script[Primary]) = <<>>
  BY <1>2, PrimaryCalls DEF DebateInv, NextCall
<1>4. /\ Delivering(drafts + 1) # <<>> /\ Head(Delivering(drafts + 1)).op = "send"
  BY Tails DEF Delivering, Send
<1>5. DecisionDue' <=> DecisionDue
  BY <1>1 DEF DecisionDue, Reported, UnderReview, Decided, Asking, Patches, NextCall
<1>6. /\ state' = "IN_PROGRESS" => NextCall(Primary, "send")'
      /\ state' = "IN_REVIEW" => Patches(Primary, "IN_REVIEW")
      /\ ~Patches(Primary, "IN_REVIEW")'
  BY <1>1, <1>2, <1>3, <1>4 DEF Patches, NextCall
<1> QED
  BY <1>1, <1>3, <1>5, <1>6 DEF SomebodyIsAtIt

\* A PATCH is refused to the PM, and only when it could do without.
LEMMA StuckRefused ==
  ASSUME DebateInv, SomebodyIsAtIt, NEW x \in Actor, PatchRefused(x), ~overtaken'
  PROVE  SomebodyIsAtIt'
<1>1. /\ UNCHANGED <<state, inbox>> /\ NextCall(x, "patch") /\ ~Allowed(Head(script[x]).to)
      /\ script' = [script EXCEPT ![x] = <<>>]
      /\ ~(x = PM /\ script[Primary] = Reporting)
  BY DEF PatchRefused, Reporting
<1>2. \A s, t : <<s, t>> \in Lifecycle!Transitions /\ s # "none" /\ s \in Lifecycle!TaskState
                  /\ t \in Lifecycle!TaskState /\ state = s => Allowed(t)
  BY DEF Allowed, Lifecycle!VALID_TRANSITIONS
<1>3. /\ state = "CREATED" => Allowed("ASSIGNED")
      /\ state \in {"ASSIGNED", "REWORK"} => Allowed("IN_PROGRESS")
      /\ state = "IN_PROGRESS" => Allowed("IN_REVIEW")
      /\ state = "IN_REVIEW" => Allowed("REWORK") /\ Allowed("ACCEPTED")
      /\ state = "ACCEPTED" => Allowed("CLOSED")
  BY <1>2 DEF Lifecycle!Transitions, Lifecycle!TaskState
<1>4. x = PM
  <2> SUFFICES ASSUME x = Primary PROVE FALSE
    BY Names
  <2>1. Patches(Primary, "IN_PROGRESS") \/ Patches(Primary, "IN_REVIEW")
    BY <1>1, PrimaryCalls DEF DebateInv, Patches, NextCall
  <2> QED
    BY <1>1, <1>3, <2>1 DEF DebateInv, OneTurn, Patches
<1>5. script'[PM] = <<>> /\ script'[Primary] = script[Primary]
  BY <1>1, <1>4, Names DEF DebateInv, ArenaTyped
<1>6. \A t : Patches(PM, t) <=> Head(script[PM]).to = t
  BY <1>1, <1>4 DEF Patches
<1>7. ~Patches(Primary, "IN_REVIEW")
  <2>1. script[Primary] # Reporting
    BY <1>1, <1>4
  <2>2. Head(Drafting(drafts + 1)).to = "IN_PROGRESS" /\ Head(Delivering(drafts + 1)).op = "send"
    BY Tails DEF Drafting, Delivering, Patch, Send
  <2> QED
    BY <2>1, <2>2 DEF DebateInv, ArenaTyped, PrimaryScript, Patches, NextCall
<1>8. ~Asking /\ \A m : ~Sends(PM, m)
  BY <1>1, <1>4 DEF Asking, Sends, NextCall
<1>9. state = "CREATED" => Announced'
  BY <1>1, <1>3, <1>4, <1>6 DEF SomebodyIsAtIt, Announced
<1>10. state = "IN_REVIEW" => DecisionDue'
  BY <1>1, <1>3, <1>4, <1>6, <1>8 DEF SomebodyIsAtIt, DecisionDue, Reported, UnderReview, Decided
<1>11. state # "ACCEPTED"
  BY <1>1, <1>3, <1>4, <1>6 DEF SomebodyIsAtIt
<1>12. /\ PrimaryDue' <=> PrimaryDue
       /\ \A op : NextCall(Primary, op)' <=> NextCall(Primary, op)
       /\ \A t : Patches(Primary, t)' <=> Patches(Primary, t)
  BY <1>1, <1>5 DEF PrimaryDue, Patches, NextCall
<1> QED
  BY <1>1, <1>7, <1>8, <1>9, <1>10, <1>11, <1>12 DEF SomebodyIsAtIt

LEMMA StuckCreates ==
  ASSUME DebateInv, SomebodyIsAtIt,
         NEW a \in {<<Work("created")>>, <<Work("created"), Work("delegated")>>}, Create(a)
  PROVE  SomebodyIsAtIt'
<1>1. UNCHANGED script /\ state = "none" /\ state' = "CREATED" /\ inbox'[PM] = a
  BY Names DEF Create, DebateInv, ArenaTyped, InboxTyped
<1>2. 1 \in DOMAIN a /\ a[1].kind = "created"
  BY DEF Work
<1>3. ~Patches(Primary, "IN_REVIEW")'
  BY <1>1 DEF DebateInv, OneTurn, Patches, NextCall
<1> QED
  BY <1>1, <1>2, <1>3 DEF SomebodyIsAtIt, Announced

LEMMA StuckCritiques ==
  ASSUME DebateInv, SomebodyIsAtIt, NEW c \in Critics, NEW v \in Verdict, Critique(c, v)
  PROVE  SomebodyIsAtIt'
<1> DEFINE d == Head(inbox[c]).draft
<1>1. /\ UNCHANGED <<state, script>>
      /\ inbox' = [inbox EXCEPT ![c] = Tail(inbox[c]), ![PM] = Append(inbox[PM], Answer(c, d, v))]
  BY Names DEF Critique, DebateInv, ArenaTyped, InboxTyped
<1> HIDE DEF d
<1>2. PICK m : m = Answer(c, d, v)
  OBVIOUS
<1>3. inbox'[PM] = Append(inbox[PM], m) /\ inbox'[Primary] = inbox[Primary]
  BY <1>1, <1>2, Names DEF DebateInv, ArenaTyped, InboxTyped
<1>4. /\ Append(inbox[PM], m)[Len(inbox[PM]) + 1] = m
      /\ Len(inbox[PM]) + 1 \in DOMAIN Append(inbox[PM], m)
      /\ DOMAIN inbox[PM] \subseteq DOMAIN Append(inbox[PM], m)
      /\ \A i \in DOMAIN inbox[PM] : Append(inbox[PM], m)[i] = inbox[PM][i]
  <2>1. inbox[PM] \in Seq(Suited(PM))
    BY Names DEF DebateInv, ArenaTyped, InboxTyped
  <2>2. inbox[PM] \in Seq(Suited(PM) \cup {m}) /\ m \in Suited(PM) \cup {m}
    BY <2>1, LargerSeq
  <2> QED
    BY <2>2, AppendProperties
<1>5. DecisionDue'
  <2>1. Concerns(m)
    BY <1>2, Kinds DEF Concerns
  <2> QED
    BY <1>3, <1>4, <2>1 DEF DecisionDue, Reported
<1>6. Announced => Announced'
  BY <1>1, <1>3, <1>4 DEF Announced, Patches, NextCall
<1> QED
  BY <1>1, <1>3, <1>5, <1>6 DEF SomebodyIsAtIt, PrimaryDue, Patches, Sends, NextCall

LEMMA StuckStep ==
  ASSUME DebateInv, NeverStuck, [Next]_vars
  PROVE  NeverStuck'
<1> SUFFICES ASSUME SomebodyAnswers', faults' = 0, ~overtaken'
             PROVE  SomebodyIsAtIt'
  BY DEF NeverStuck
<1>1. tier' = tier /\ faults = 0 /\ ~overtaken /\ ~Fault
  BY StepsInTime
<1>2. SomebodyAnswers /\ SomebodyIsAtIt
  BY <1>1 DEF NeverStuck, SomebodyAnswers
<1>3. ASSUME NEW x \in Actor, Handle(x) PROVE SomebodyIsAtIt'
  BY <1>2, <1>3, StuckPMBegins, StuckPrimaryBegins DEF Handle, PMHandles
<1>4. ASSUME NEW x \in Actor, Call(x) PROVE SomebodyIsAtIt'
  <2>1. CASE CallSend(x)
    BY <1>2, <2>1, StuckPMSends, StuckPrimarySends, Names
  <2>2. CASE CallPatch(x)
    BY <1>2, <2>2 DEF CallPatch, SomebodyIsAtIt, Announced, PrimaryDue, DecisionDue, Reported,
                      UnderReview, Decided, Asking, Sends, Patches, NextCall
  <2>3. CASE PatchWritten(x)
    BY <1>2, <2>3, StuckPMWrites, StuckPrimaryWrites, Names
  <2>4. CASE PatchRefused(x)
    BY <1>2, <2>4, StuckRefused
  <2> QED
    BY <1>4, <2>1, <2>2, <2>3, <2>4 DEF Call
<1>5. CASE UNCHANGED vars
  BY <1>2, <1>5 DEF vars, SomebodyIsAtIt, Announced, PrimaryDue, DecisionDue, Reported,
                    UnderReview, Decided, Asking, Sends, Patches, NextCall
<1>6. ASSUME NEW c \in Critics, NEW v \in Verdict, Critique(c, v) PROVE SomebodyIsAtIt'
  BY <1>2, <1>6, StuckCritiques
<1>7. CASE Create(<<Work("created")>>) \/ Create(<<Work("created"), Work("delegated")>>)
  BY <1>2, <1>7, StuckCreates
<1> QED
  BY <1>1, <1>3, <1>4, <1>5, <1>6, <1>7 DEF Next

\* Nobody waits for everybody: as long as there is no fault and the PM has not
\* overtaken the primary's report, a task that is not closed has a message or a
\* handler under way that its state waits for, if anybody is there to review it.
THEOREM SomebodyIsAlwaysAtIt == Spec => []NeverStuck
<1>1. Init => NeverStuck
  <2> SUFFICES ASSUME Init PROVE SomebodyIsAtIt
    BY DEF NeverStuck
  <2>1. script[Primary] = <<>> /\ state = "none"
    BY Names DEF Init
  <2> QED
    BY <2>1 DEF SomebodyIsAtIt, Patches, NextCall
<1>2. DebateInv /\ NeverStuck /\ [Next]_vars => NeverStuck'
  BY StuckStep
<1> QED
  BY <1>1, <1>2, DebateInvHolds, PTL DEF Spec
===============================================================================
