-------------------------- MODULE Services_proofs --------------------------
(***************************************************************************)
(* Proofs about the services that exchange no call with each other: the    *)
(* scheduler, the usage and mail monitors, the shared memory, the key      *)
(* cache and the live feed of BOB, the bus's registry of agents, and the   *)
(* engineers' workspaces. They share no variable, and each theorem is      *)
(* about the specification of its own module, for any jobs, sweeps, mails, *)
(* proposals, decisions, requests, pages, agents, capabilities, drafts and *)
(* paths and any number of restarts. The last section puts them, and the   *)
(* channels of Channels_proofs, together: each behaviour of MCServices is  *)
(* one of every component.                                                 *)
(***************************************************************************)
EXTENDS Channels_proofs, MCServices, FiniteSetTheorems, SequenceTheorems, TLAPS

(***************************************************************************)
(* Scheduler                                                               *)
(***************************************************************************)

\* SchedulerTypeOK holds of every reachable state.
THEOREM SchedulerTypeCorrect == SchedulerSpec => []SchedulerTypeOK
<1>1. SchedulerInit => SchedulerTypeOK
  <2> SUFFICES ASSUME SchedulerInit PROVE SchedulerTypeOK
    OBVIOUS
  <2>1. store \in [Jobs -> Rows] /\ wanted \in [Jobs -> Rows]
    BY DEF SchedulerInit, DefaultRows, Rows
  <2>2. starts \in 0..MaxStarts /\ asks \in 0..MaxAsks /\ handed \in [Jobs -> Nat]
    BY DefaultsAssumption DEF SchedulerInit
  <2>3. run \in [Jobs -> {"none", "due", "raised"}] /\ up \in BOOLEAN
    BY DEF SchedulerInit
  <2> QED
    BY <2>1, <2>2, <2>3 DEF SchedulerTypeOK
<1>2. SchedulerTypeOK /\ [SchedulerNext]_schedulerVars => SchedulerTypeOK'
  <2> SUFFICES ASSUME SchedulerTypeOK, [SchedulerNext]_schedulerVars PROVE SchedulerTypeOK'
    OBVIOUS
  <2> USE DefaultsAssumption
  <2>1. CASE Start
    BY <2>1 DEF Start, Rows, SchedulerTypeOK
  <2>2. CASE Stop
    BY <2>2 DEF Stop, SchedulerTypeOK
  <2>3. ASSUME NEW j \in Jobs, add_job(j) PROVE SchedulerTypeOK'
    BY <2>3 DEF add_job, MayAsk, Rows, SchedulerTypeOK
  <2>4. ASSUME NEW j \in Jobs, Fire(j) \/ Run(j) PROVE SchedulerTypeOK'
    BY <2>4 DEF Fire, Run, SchedulerTypeOK
  <2>5. ASSUME NEW j \in Jobs, RunNow(j) PROVE SchedulerTypeOK'
    BY <2>5 DEF RunNow, MayAsk, SchedulerTypeOK
  <2>6. ASSUME NEW j \in Jobs, CreateTask(j) PROVE SchedulerTypeOK'
    BY <2>6 DEF CreateTask, SchedulerTypeOK
  <2>7. CASE UNCHANGED schedulerVars
    BY <2>7 DEF schedulerVars, SchedulerTypeOK
  <2> QED
    BY <2>1, <2>2, <2>3, <2>4, <2>5, <2>6, <2>7 DEF SchedulerNext
<1> QED
  BY <1>1, <1>2, PTL DEF SchedulerSpec

(***************************************************************************)
(* UsageMonitor                                                            *)
(***************************************************************************)
\* An alert that is due has no flag yet, a flag that goes back was set, and a
\* reading does not do both for a meter.
LEMMA DueOrDipped ==
  ASSUME NEW m \in Meters, NEW level \in Levels, flags \subseteq Alerts
  PROVE  /\ Due(m, level) \subseteq ({m} \X Kinds) \ flags
         /\ Dipped(m, level) \subseteq ({m} \X Kinds) \cap flags
         /\ Due(m, level) = {} \/ Dipped(m, level) = {}
<1>1. CASE level = "low"
  BY <1>1 DEF Due, Dipped
<1>2. CASE level # "low"
  <2>1. Dipped(m, level) = {}
    BY <1>2 DEF Dipped
  <2>2. <<m, "critical">> \in {m} \X Kinds /\ <<m, "warning">> \in {m} \X Kinds
    BY DEF Kinds
  <2> QED
    BY <1>2, <2>1, <2>2 DEF Due
<1> QED
  BY <1>1, <1>2

\* The same for the two meters together.
LEMMA DecideSets ==
  ASSUME NEW s \in Sweeps, NEW voice \in Levels, UsageTypeOK, Decide(s, voice)
  PROVE  \E due, gone \in SUBSET Alerts :
           /\ due \cap flags = {} /\ gone \subseteq flags /\ due \cap gone = {}
           /\ flags' = (flags \cup due) \ gone
           /\ fired' = [a \in Alerts |-> fired[a] + IF a \in due THEN 1 ELSE 0]
           /\ Clear(gone)
           /\ sweep' = [sweep EXCEPT ![s].pc = IF due = {} THEN "ended" ELSE "sending",
                                     ![s].left = due]
<1> DEFINE char == sweep[s].char
           due1 == Due("voice", voice)
           due2 == Due("char", char)
           gone1 == Dipped("voice", voice)
           gone2 == Dipped("char", char)
           due == (IF plan THEN due1 ELSE {}) \cup due2
           gone == (IF plan THEN gone1 ELSE {}) \cup gone2
<1>1. flags \subseteq Alerts /\ char \in Levels /\ "voice" \in Meters /\ "char" \in Meters
  BY DEF UsageTypeOK, Sweep, Meters
<1>2. /\ due1 \subseteq ({"voice"} \X Kinds) \ flags
      /\ gone1 \subseteq ({"voice"} \X Kinds) \cap flags
      /\ due1 = {} \/ gone1 = {}
  BY <1>1, DueOrDipped
<1>3. /\ due2 \subseteq ({"char"} \X Kinds) \ flags
      /\ gone2 \subseteq ({"char"} \X Kinds) \cap flags
      /\ due2 = {} \/ gone2 = {}
  BY <1>1, DueOrDipped
<1>4. ({"voice"} \X Kinds) \cap ({"char"} \X Kinds) = {}
  OBVIOUS
<1>5. {"voice"} \X Kinds \subseteq Alerts /\ {"char"} \X Kinds \subseteq Alerts
  BY DEF Alerts, Meters
<1>6. /\ flags' = (flags \cup due) \ gone
      /\ fired' = [a \in Alerts |-> fired[a] + IF a \in due THEN 1 ELSE 0]
      /\ Clear(gone)
      /\ sweep' = [sweep EXCEPT ![s].pc = IF due = {} THEN "ended" ELSE "sending",
                                ![s].left = due]
  BY DEF Decide
<1> HIDE DEF due1, due2, gone1, gone2
<1>7. /\ due \in SUBSET Alerts /\ gone \in SUBSET Alerts
      /\ due \cap flags = {} /\ gone \subseteq flags /\ due \cap gone = {}
  BY <1>2, <1>3, <1>4, <1>5
<1> HIDE DEF due, gone
<1> QED
  BY <1>6, <1>7

\* UsageTypeOK holds of every reachable state.
THEOREM UsageTypeCorrect == UsageSpec => []UsageTypeOK
<1>1. UsageInit => UsageTypeOK
  BY UsageAssumption DEF UsageInit, UsageTypeOK, Levels, Sweep, SweepStages
<1>2. UsageTypeOK /\ [UsageNext]_usageVars => UsageTypeOK'
  <2> SUFFICES ASSUME UsageTypeOK, [UsageNext]_usageVars PROVE UsageTypeOK'
    OBVIOUS
  <2>1. ASSUME NEW m \in Meters, Use(m) PROVE UsageTypeOK'
    BY <2>1 DEF Use, UsageTypeOK, Levels
  <2>2. ASSUME NEW s \in Sweeps, SweepStart(s) PROVE UsageTypeOK'
    BY <2>2 DEF SweepStart, UsageTypeOK, Sweep, SweepStages
  <2>3. ASSUME NEW s \in Sweeps, Subscribed(s) PROVE UsageTypeOK'
    BY <2>3 DEF Subscribed, UsageTypeOK, Sweep, SweepStages, Meters
  <2>4. ASSUME NEW s \in Sweeps, ConversationsRead(s) PROVE UsageTypeOK'
    <3>1. PICK voice \in {usage["voice"], "low"} : Decide(s, voice)
      BY <2>4 DEF ConversationsRead
    <3>2. voice \in Levels
      BY DEF UsageTypeOK, Levels, Meters
    <3>3. PICK due, gone \in SUBSET Alerts :
           /\ flags' = (flags \cup due) \ gone
           /\ fired' = [a \in Alerts |-> fired[a] + IF a \in due THEN 1 ELSE 0]
           /\ Clear(gone)
           /\ sweep' = [sweep EXCEPT ![s].pc = IF due = {} THEN "ended" ELSE "sending",
                                     ![s].left = due]
      BY <3>1, <3>2, DecideSets
    <3>4. flags' \in SUBSET Alerts
      BY <3>3 DEF UsageTypeOK
    <3>5. fired' \in [Alerts -> Nat] /\ cleared' \in [Alerts -> Nat]
      BY <3>3 DEF UsageTypeOK, Clear
    <3>6. sweep' \in [Sweeps -> Sweep]
      BY <3>3 DEF UsageTypeOK, Sweep, SweepStages
    <3> QED
      BY <2>4, <3>4, <3>5, <3>6 DEF ConversationsRead, UsageTypeOK
  <2>5. ASSUME NEW s \in Sweeps, AlertSent(s) PROVE UsageTypeOK'
    <3>1. PICK a \in sweep[s].left :
            sweep' = [sweep EXCEPT ![s].left = @ \ {a},
                                   ![s].pc = IF sweep[s].left = {a} THEN "ended" ELSE @]
      BY <2>5 DEF AlertSent
    <3> DEFINE pc2 == IF sweep[s].left = {a} THEN "ended" ELSE sweep[s].pc
    <3>2. sweep[s].left \ {a} \in SUBSET Alerts /\ pc2 \in SweepStages
      BY DEF UsageTypeOK, Sweep, SweepStages
    <3>3. sweep' = [sweep EXCEPT ![s].left = @ \ {a}, ![s].pc = pc2]
      BY <3>1
    <3> HIDE DEF pc2
    <3>4. sweep' \in [Sweeps -> Sweep]
      BY <3>2, <3>3 DEF UsageTypeOK, Sweep
    <3> QED
      BY <2>5, <3>4 DEF AlertSent, UsageTypeOK
  <2>6. NewPeriod => periods' \in 0..MaxPeriods
    BY UsageAssumption DEF NewPeriod, UsageTypeOK
  <2>7. CASE NewMonth
    BY <2>6, <2>7 DEF NewMonth, UsageTypeOK, Levels
  <2>8. Clear(flags) => cleared' \in [Alerts -> Nat]
    BY DEF Clear, UsageTypeOK
  <2>9. CASE NewDay
    BY <2>6, <2>8, <2>9 DEF NewDay, UsageTypeOK
  <2>10. CASE UsageRestart
    <3>1. sweep' \in [Sweeps -> Sweep]
      BY <2>10 DEF UsageRestart, UsageTypeOK, Sweep, SweepStages
    <3> QED
      BY <2>6, <2>8, <2>10, <3>1 DEF UsageRestart, UsageTypeOK
  <2>11. CASE UNCHANGED usageVars
    BY <2>11 DEF usageVars, UsageTypeOK
  <2> QED
    BY <2>1, <2>2, <2>3, <2>4, <2>5, <2>7, <2>9, <2>10, <2>11 DEF UsageNext
<1> QED
  BY <1>1, <1>2, PTL DEF UsageSpec

\* AlertedOnce of UsageMonitor holds of every reachable state: for any number of
\* sweeps, however they overlap, an alert is fired once more than its flag has
\* gone back while the flag is set, and as often while it is not.
THEOREM AlertsAreNotRepeated == UsageSpec => []AlertedOnce
<1>1. UsageInit => AlertedOnce
  BY DEF UsageInit, AlertedOnce
<1>2. UsageTypeOK /\ AlertedOnce /\ [UsageNext]_usageVars => AlertedOnce'
  <2> SUFFICES ASSUME UsageTypeOK, AlertedOnce, [UsageNext]_usageVars, NEW a \in Alerts
               PROVE  fired'[a] = cleared'[a] + (IF a \in flags' THEN 1 ELSE 0)
    BY DEF AlertedOnce
  <2>1. /\ fired[a] \in Nat /\ cleared[a] \in Nat
        /\ fired[a] = cleared[a] + (IF a \in flags THEN 1 ELSE 0)
    BY DEF UsageTypeOK, AlertedOnce
  <2>2. CASE fired' = fired /\ cleared' = cleared /\ flags' = flags
    BY <2>1, <2>2
  <2>3. CASE fired' = fired /\ Clear(flags) /\ flags' = {}
    <3>1. cleared'[a] = cleared[a] + IF a \in flags THEN 1 ELSE 0
      BY <2>3 DEF Clear
    <3> QED
      BY <2>1, <2>3, <3>1
  <2>4. ASSUME NEW s \in Sweeps, ConversationsRead(s)
        PROVE  fired'[a] = cleared'[a] + (IF a \in flags' THEN 1 ELSE 0)
    <3>1. PICK voice \in {usage["voice"], "low"} : Decide(s, voice)
      BY <2>4 DEF ConversationsRead
    <3>2. voice \in Levels
      BY DEF UsageTypeOK, Levels, Meters
    <3>3. PICK due, gone \in SUBSET Alerts :
           /\ due \cap flags = {} /\ gone \subseteq flags /\ due \cap gone = {}
           /\ flags' = (flags \cup due) \ gone
           /\ fired' = [b \in Alerts |-> fired[b] + IF b \in due THEN 1 ELSE 0]
           /\ Clear(gone)
      BY <3>1, <3>2, DecideSets
    <3>4. /\ fired'[a] = fired[a] + IF a \in due THEN 1 ELSE 0
          /\ cleared'[a] = cleared[a] + IF a \in gone THEN 1 ELSE 0
      BY <3>3 DEF Clear
    <3>5. CASE a \in due
      <4>1. a \notin flags /\ a \notin gone /\ a \in flags'
        BY <3>3, <3>5
      <4> QED
        BY <2>1, <3>4, <3>5, <4>1
    <3>6. CASE a \in gone
      <4>1. a \in flags /\ a \notin due /\ a \notin flags'
        BY <3>3, <3>6
      <4> QED
        BY <2>1, <3>4, <3>6, <4>1
    <3>7. CASE a \notin due \cup gone
      <4>1. a \in flags' <=> a \in flags
        BY <3>3, <3>7
      <4> QED
        BY <2>1, <3>4, <3>7, <4>1
    <3> QED
      BY <3>5, <3>6, <3>7
  <2>5. ASSUME NEW s \in Sweeps, SweepStart(s) \/ Subscribed(s) \/ AlertSent(s)
        PROVE  fired' = fired /\ cleared' = cleared /\ flags' = flags
    BY <2>5 DEF SweepStart, Subscribed, AlertSent
  <2>6. ASSUME NEW m \in Meters, Use(m)
        PROVE  fired' = fired /\ cleared' = cleared /\ flags' = flags
    BY <2>6 DEF Use
  <2>7. NewMonth \/ UNCHANGED usageVars => fired' = fired /\ cleared' = cleared /\ flags' = flags
    BY DEF NewMonth, usageVars
  <2>8. NewDay \/ UsageRestart => fired' = fired /\ Clear(flags) /\ flags' = {}
    BY DEF NewDay, UsageRestart
  <2> QED
    BY <2>2, <2>3, <2>4, <2>5, <2>6, <2>7, <2>8 DEF UsageNext
<1> QED
  BY <1>1, <1>2, UsageTypeCorrect, PTL DEF UsageSpec

(***************************************************************************)
(* SharedMemory                                                            *)
(***************************************************************************)
Approves(d, p) ==
  decision[d].pc = "recording" /\ decision[d].verb = "approve" /\ decision[d].of = p

\* An approval that stands between the stores has written; what is written is
\* approved, being approved or cut off; and at most one decision is at work on a
\* proposal, which is pending.
DecisionInv(p) ==
  /\ status[p] = "approved" => p \in stored
  /\ \A d \in Deciders : Approves(d, p) => p \in stored
  /\ p \in stored /\ status[p] # "approved" =>
       p \in cutOff \/ \E d \in Deciders : Approves(d, p)
  /\ \A d, e \in AtWork(p) : d = e
  /\ AtWork(p) # {} => status[p] = "pending"
  /\ \A d \in AtWork(p) :
       decision[d].pc = "storing" => decision[d].verb = "approve"

MemoryInv == MemoryTypeOK /\ \A p \in Proposals : DecisionInv(p)

LEMMA MemoryFaultTyped == ASSUME MemoryTypeOK, MemoryFault PROVE memoryFaults' \in 0..MemoryFaults
BY MemoryAssumption DEF MemoryTypeOK, MemoryFault

LEMMA ContinueTyped ==
  ASSUME MemoryTypeOK, NEW d \in Deciders, NEW pc \in {"none", "storing", "recording", "ended"},
         Continue(d, pc)
  PROVE  /\ decision' \in [Deciders -> Decision]
         /\ decision'[d].pc = pc
         /\ decision'[d].verb = decision[d].verb /\ decision'[d].of = decision[d].of
         /\ \A e \in Deciders : e # d => decision'[e] = decision[e]
         /\ decision[d].of \in Proposals
BY DEF MemoryTypeOK, Continue, Decision

\* What is in the collection and where an import stands does not matter to the
\* proposals.
LEMMA ElseKeeps ==
  ASSUME MemoryInv, UNCHANGED <<status, decision, stored, cutOff>>
  PROVE  \A p \in Proposals : DecisionInv(p)'
BY DEF MemoryInv, DecisionInv, AtWork, Approves

LEMMA ReadKeeps ==
  ASSUME MemoryInv, NEW d \in Deciders, DecideRead(d), NEW p \in Proposals
  PROVE  DecisionInv(p)'
<1> DEFINE q == decision[d].of
           pc == IF status[q] # "pending" THEN "ended"
                 ELSE IF decision[d].verb = "approve" THEN "storing" ELSE "recording"
<1>1. /\ decision[d].pc = "none" /\ Continue(d, pc)
      /\ \A x \in Proposals : AtWork(x) = {}
      /\ status' = status /\ stored' = stored /\ cutOff' = cutOff
  BY DEF DecideRead
<1>2. pc \in {"none", "storing", "recording", "ended"} /\ MemoryTypeOK
  BY DEF MemoryInv
<1>3. /\ decision'[d].pc = pc
      /\ decision'[d].verb = decision[d].verb /\ decision'[d].of = q
      /\ \A e \in Deciders : e # d => decision'[e] = decision[e]
      /\ decision[d].verb \in {"approve", "reject"}
  BY <1>1, <1>2, ContinueTyped DEF MemoryTypeOK, Decision
<1>4. DecisionInv(p)
  BY DEF MemoryInv
<1>5. pc \in {"storing", "recording"} => status[q] = "pending"
  OBVIOUS
<1>6. /\ pc = "storing" => decision[d].verb = "approve"
      /\ pc = "recording" => decision[d].verb # "approve"
  OBVIOUS
<1> HIDE DEF pc, q
<1>7. \A e \in Deciders : Approves(e, p)' <=> Approves(e, p)
  BY <1>1, <1>3, <1>6 DEF Approves
<1>8. \A e \in Deciders : e # d => (e \in AtWork(p)' <=> e \in AtWork(p))
  BY <1>3 DEF AtWork
<1>9. d \notin AtWork(p) /\ (d \in AtWork(p)' => p = q /\ status[p] = "pending")
  BY <1>1, <1>3, <1>5 DEF AtWork
<1>10. AtWork(p)' \subseteq AtWork(p) \cup {d}
  BY <1>8 DEF AtWork
<1>11. /\ \A e, f \in AtWork(p)' : e = f
       /\ AtWork(p)' # {} => status'[p] = "pending"
  BY <1>1, <1>9, <1>10
<1>12. \A e \in AtWork(p)' : decision'[e].pc = "storing" => decision'[e].verb = "approve"
  <2> SUFFICES ASSUME NEW e \in AtWork(p)', decision'[e].pc = "storing"
               PROVE  decision'[e].verb = "approve"
    OBVIOUS
  <2>1. CASE e = d
    BY <1>3, <1>6, <2>1
  <2>2. CASE e # d
    BY <1>3, <1>4, <1>10, <2>2 DEF DecisionInv, AtWork
  <2> QED
    BY <2>1, <2>2
<1> QED
  BY <1>1, <1>4, <1>7, <1>11, <1>12 DEF DecisionInv

\* A decision that moves on or ends: what the steps after the reading share.
LEMMA MoveKeeps ==
  ASSUME MemoryTypeOK, NEW d \in Deciders, NEW pc \in {"recording", "ended"},
         decision[d].pc \in {"storing", "recording"}, Continue(d, pc), NEW p \in Proposals
  PROVE  /\ AtWork(p)' \subseteq AtWork(p)
         /\ \A e \in Deciders : e # d => (Approves(e, p)' <=> Approves(e, p))
         /\ \A e \in Deciders : e # d => decision'[e] = decision[e]
         /\ decision'[d].pc = pc /\ decision'[d].verb = decision[d].verb
         /\ decision'[d].of = decision[d].of
         /\ d \in AtWork(decision[d].of)
         /\ pc = "ended" => ~Approves(d, p)' /\ d \notin AtWork(p)'
<1>1. /\ decision'[d].pc = pc
      /\ decision'[d].verb = decision[d].verb /\ decision'[d].of = decision[d].of
      /\ \A e \in Deciders : e # d => decision'[e] = decision[e]
  BY ContinueTyped
<1>2. AtWork(p)' \subseteq AtWork(p)
  BY <1>1 DEF AtWork
<1>3. \A e \in Deciders : e # d => (Approves(e, p)' <=> Approves(e, p))
  BY <1>1 DEF Approves
<1> QED
  BY <1>1, <1>2, <1>3 DEF AtWork, Approves

LEMMA StoreKeeps ==
  ASSUME MemoryInv, NEW d \in Deciders, ApproveStore(d) \/ StoreFails(d), NEW p \in Proposals
  PROVE  DecisionInv(p)'
<1>1. /\ decision[d].pc = "storing"
      /\ status' = status
      /\ \/ /\ stored' = stored \cup {decision[d].of} /\ cutOff' = cutOff
            /\ Continue(d, "recording")
         \/ /\ Continue(d, "ended")
            /\ \/ stored' = stored /\ cutOff' = cutOff
               \/ /\ stored' = stored \cup {decision[d].of}
                  /\ cutOff' = cutOff \cup {decision[d].of}
  BY DEF ApproveStore, StoreFails
<1>2. DecisionInv(p) /\ MemoryTypeOK
  BY DEF MemoryInv
<1>3. /\ AtWork(p)' \subseteq AtWork(p)
      /\ \A e \in Deciders : e # d => (Approves(e, p)' <=> Approves(e, p))
      /\ \A e \in Deciders : e # d => decision'[e] = decision[e]
      /\ decision'[d].verb = decision[d].verb /\ decision'[d].of = decision[d].of
      /\ d \in AtWork(decision[d].of)
  BY <1>1, <1>2, MoveKeeps
<1>4. decision[d].of \in Proposals /\ decision[d].verb = "approve"
  <2>1. decision[d].of \in Proposals
    BY <1>2 DEF MemoryTypeOK, Decision
  <2> QED
    BY <1>1, <1>3, <2>1 DEF MemoryInv, DecisionInv
<1>5. ~Approves(d, p)
  BY <1>1 DEF Approves
<1>6. CASE /\ stored' = stored \cup {decision[d].of} /\ cutOff' = cutOff
           /\ Continue(d, "recording")
  <2>1. decision'[d].pc = "recording"
    BY <1>1, <1>2, <1>6, MoveKeeps
  <2>2. Approves(d, p)' <=> p = decision[d].of
    BY <1>3, <1>4, <2>1 DEF Approves
  <2>3. \A e \in AtWork(p)' : decision'[e].pc = "storing" => decision'[e].verb = "approve"
    BY <1>2, <1>3, <2>1 DEF DecisionInv, AtWork
  <2>4. p \in stored' <=> p \in stored \/ p = decision[d].of
    BY <1>6
  <2>5. \A e \in Deciders : Approves(e, p)' => p \in stored'
    BY <1>2, <1>3, <2>2, <2>4 DEF DecisionInv
  <2>6. p \in stored' /\ status'[p] # "approved" =>
          p \in cutOff' \/ \E e \in Deciders : Approves(e, p)'
    <3>1. CASE p = decision[d].of
      BY <2>2, <3>1
    <3>2. CASE p # decision[d].of
      BY <1>1, <1>2, <1>3, <1>5, <2>4, <3>2 DEF DecisionInv
    <3> QED
      BY <3>1, <3>2
  <2> QED
    BY <1>1, <1>2, <1>3, <2>3, <2>4, <2>5, <2>6 DEF DecisionInv
<1>7. CASE /\ Continue(d, "ended")
           /\ \/ stored' = stored /\ cutOff' = cutOff
              \/ /\ stored' = stored \cup {decision[d].of}
                 /\ cutOff' = cutOff \cup {decision[d].of}
  <2>1. ~Approves(d, p)' /\ d \notin AtWork(p)'
    BY <1>1, <1>2, <1>7, MoveKeeps
  <2>2. \A e \in Deciders : Approves(e, p)' <=> Approves(e, p)
    BY <1>3, <1>5, <2>1
  <2>3. \A e \in AtWork(p)' : decision'[e].pc = "storing" => decision'[e].verb = "approve"
    BY <1>2, <1>3, <2>1 DEF DecisionInv, AtWork
  <2> QED
    BY <1>1, <1>2, <1>3, <1>7, <2>2, <2>3 DEF DecisionInv
<1> QED
  BY <1>1, <1>6, <1>7

LEMMA RecordKeeps ==
  ASSUME MemoryInv, NEW d \in Deciders, DecideRecord(d) \/ RecordFails(d), NEW p \in Proposals
  PROVE  DecisionInv(p)'
<1> DEFINE q == decision[d].of
           verdict == IF decision[d].verb = "approve" THEN "approved" ELSE "rejected"
<1>1. /\ decision[d].pc = "recording" /\ Continue(d, "ended")
      /\ stored' = stored
      /\ \/ status' = [status EXCEPT ![q] = verdict] /\ cutOff' = cutOff
         \/ /\ status' = status
            /\ cutOff' = IF decision[d].verb = "approve" THEN cutOff \cup {q} ELSE cutOff
  BY DEF DecideRecord, RecordFails
<1>2. DecisionInv(p) /\ MemoryTypeOK /\ q \in Proposals
  BY DEF MemoryInv, MemoryTypeOK, Decision
<1>3. /\ AtWork(p)' \subseteq AtWork(p)
      /\ \A e \in Deciders : e # d => (Approves(e, p)' <=> Approves(e, p))
      /\ \A e \in Deciders : e # d => decision'[e] = decision[e]
      /\ d \in AtWork(q) /\ ~Approves(d, p)' /\ d \notin AtWork(p)'
  BY <1>1, <1>2, MoveKeeps
<1>4. \A e \in AtWork(p)' : decision'[e].pc = "storing" => decision'[e].verb = "approve"
  BY <1>2, <1>3 DEF DecisionInv, AtWork
<1>5. \A e \in Deciders : Approves(e, p)' => Approves(e, p)
  BY <1>3
<1>6. Approves(d, p) <=> p = q /\ decision[d].verb = "approve"
  BY <1>1 DEF Approves
<1>7. verdict = "approved" <=> decision[d].verb = "approve"
  OBVIOUS
<1> HIDE DEF q, verdict
<1>8. CASE p # q
  <2>1. status'[p] = status[p] /\ (p \in cutOff' <=> p \in cutOff)
    BY <1>1, <1>2, <1>8 DEF MemoryTypeOK
  <2>2. \A e \in Deciders : Approves(e, p)' <=> Approves(e, p)
    BY <1>3, <1>6, <1>8
  <2> QED
    BY <1>1, <1>2, <1>3, <1>4, <2>1, <2>2 DEF DecisionInv
<1>9. CASE p = q
  <2>1. AtWork(p)' = {}
    BY <1>2, <1>3, <1>9 DEF DecisionInv
  <2>2. \/ status'[p] = verdict /\ cutOff' = cutOff
        \/ status'[p] = status[p] /\ (decision[d].verb = "approve" => p \in cutOff')
    BY <1>1, <1>2, <1>9 DEF MemoryTypeOK
  <2>3. cutOff \subseteq cutOff'
    BY <1>1
  <2>4. status'[p] = "approved" => p \in stored
    BY <1>2, <1>6, <1>7, <1>9, <2>2 DEF DecisionInv
  <2>5. p \in stored /\ status'[p] # "approved" => p \in cutOff'
    <3> SUFFICES ASSUME p \in stored, status'[p] # "approved"
                 PROVE  p \in cutOff'
      OBVIOUS
    <3>1. status[p] # "approved"
      BY <1>2, <1>3, <1>9 DEF DecisionInv
    <3>2. p \in cutOff \/ \E e \in Deciders : Approves(e, p)
      BY <1>2, <3>1 DEF DecisionInv
    <3>3. ASSUME NEW e \in Deciders, Approves(e, p) PROVE e = d
      <4>1. e \in AtWork(p)
        BY <3>3 DEF Approves, AtWork
      <4> QED
        BY <1>2, <1>3, <1>9, <4>1 DEF DecisionInv
    <3>4. p \in cutOff \/ decision[d].verb = "approve"
      BY <1>6, <3>2, <3>3
    <3> QED
      BY <1>7, <2>2, <2>3, <3>4
  <2> QED
    BY <1>1, <1>2, <1>4, <1>5, <2>1, <2>4, <2>5 DEF DecisionInv
<1> QED
  BY <1>8, <1>9

LEMMA MemoryRestartKeeps ==
  ASSUME MemoryInv, MemoryRestart, NEW p \in Proposals
  PROVE  DecisionInv(p)'
<1>1. /\ decision' = [d \in Deciders |-> IF decision[d].pc = "none" THEN decision[d]
                                         ELSE [decision[d] EXCEPT !.pc = "ended"]]
      /\ cutOff' = cutOff \cup {q \in stored : \E d \in AtWork(q) : decision[d].pc = "recording"}
      /\ status' = status /\ stored' = stored
  BY DEF MemoryRestart
<1>2. DecisionInv(p) /\ MemoryTypeOK
  BY DEF MemoryInv
<1>3. \A d \in Deciders : decision'[d].pc \in {"none", "ended"}
  BY <1>1, <1>2 DEF MemoryTypeOK, Decision
<1>4. AtWork(p)' = {} /\ \A d \in Deciders : ~Approves(d, p)'
  BY <1>3 DEF AtWork, Approves
<1>5. ASSUME NEW d \in Deciders, Approves(d, p), p \in stored PROVE p \in cutOff'
  BY <1>1, <1>5 DEF Approves, AtWork
<1>6. cutOff \subseteq cutOff'
  BY <1>1
<1> QED
  BY <1>1, <1>2, <1>4, <1>5, <1>6 DEF DecisionInv

LEMMA ProposeKeeps ==
  ASSUME MemoryInv, NEW q \in Proposals, Propose(q), NEW p \in Proposals
  PROVE  DecisionInv(p)'
<1>1. /\ status[q] = "none" /\ status' = [status EXCEPT ![q] = "pending"]
      /\ decision' = decision /\ stored' = stored /\ cutOff' = cutOff
  BY DEF Propose
<1>2. DecisionInv(p) /\ status \in [Proposals -> Statuses]
  BY DEF MemoryInv, MemoryTypeOK
<1>3. AtWork(p)' = AtWork(p) /\ \A d \in Deciders : Approves(d, p)' <=> Approves(d, p)
  BY <1>1 DEF AtWork, Approves
<1>4. status'[p] = status[p] \/ (status[p] = "none" /\ status'[p] = "pending")
  BY <1>1, <1>2
<1> QED
  BY <1>1, <1>2, <1>3, <1>4 DEF DecisionInv

\* The approval that fails between the stores is of a proposal that is written.
LEMMA CutOffTyped ==
  ASSUME MemoryInv, NEW d \in Deciders, RecordFails(d)
  PROVE  cutOff' \in SUBSET stored
<1>1. decision[d].of \in Proposals
  BY DEF MemoryInv, MemoryTypeOK, Decision
<1>2. decision[d].verb = "approve" => decision[d].of \in stored
  BY <1>1 DEF RecordFails, MemoryInv, DecisionInv, Approves
<1> QED
  BY <1>2 DEF RecordFails, MemoryInv, MemoryTypeOK

LEMMA MemoryTyped ==
  ASSUME MemoryInv, [MemoryNext]_memoryVars
  PROVE  MemoryTypeOK'
<1> USE DEF MemoryInv
<1>1. ASSUME NEW d \in Docs, RememberDoc(d) PROVE MemoryTypeOK'
  BY <1>1 DEF RememberDoc, Upsert, MemoryTypeOK, Texts
<1>2. ASSUME NEW p \in Proposals, Propose(p) PROVE MemoryTypeOK'
  BY <1>2 DEF Propose, MemoryTypeOK, Statuses
<1>3. ASSUME NEW d \in Deciders, DecideRead(d) PROVE MemoryTypeOK'
  <2>1. decision' \in [Deciders -> Decision]
    BY <1>3, ContinueTyped DEF DecideRead
  <2> QED
    BY <1>3, <2>1 DEF DecideRead, MemoryTypeOK
<1>4. ASSUME NEW d \in Deciders, ApproveStore(d) PROVE MemoryTypeOK'
  <2>1. decision' \in [Deciders -> Decision]
    BY <1>4, ContinueTyped DEF ApproveStore
  <2>2. decision[d].of \in Proposals
    BY DEF MemoryTypeOK, Decision
  <2>3. docs' \in [Docs -> Texts] /\ stored' \in SUBSET Proposals /\ cutOff' \in SUBSET stored'
    BY <1>4, <2>2 DEF ApproveStore, Upsert, MemoryTypeOK, Texts
  <2> QED
    BY <1>4, <2>1, <2>3 DEF ApproveStore, MemoryTypeOK
<1>5. ASSUME NEW d \in Deciders, StoreFails(d) PROVE MemoryTypeOK'
  <2>1. decision' \in [Deciders -> Decision]
    BY <1>5, ContinueTyped DEF StoreFails
  <2>2. decision[d].of \in Proposals
    BY DEF MemoryTypeOK, Decision
  <2>3. docs' \in [Docs -> Texts] /\ stored' \in SUBSET Proposals /\ cutOff' \in SUBSET stored'
    BY <1>5, <2>2 DEF StoreFails, Upsert, MemoryTypeOK, Texts
  <2> QED
    BY <1>5, <2>1, <2>2, <2>3, MemoryFaultTyped DEF StoreFails, MemoryTypeOK
<1>6. ASSUME NEW d \in Deciders, DecideRecord(d) PROVE MemoryTypeOK'
  <2>1. decision' \in [Deciders -> Decision]
    BY <1>6, ContinueTyped DEF DecideRecord
  <2>2. status' \in [Proposals -> Statuses]
    BY <1>6 DEF DecideRecord, MemoryTypeOK, Statuses
  <2> QED
    BY <1>6, <2>1, <2>2 DEF DecideRecord, MemoryTypeOK
<1>7. ASSUME NEW d \in Deciders, RecordFails(d) PROVE MemoryTypeOK'
  <2>1. decision' \in [Deciders -> Decision]
    BY <1>7, ContinueTyped DEF RecordFails
  <2> QED
    BY <1>7, <2>1, CutOffTyped, MemoryFaultTyped DEF RecordFails, MemoryTypeOK
<1>8. ASSUME NEW ids PROVE Written(ids) \in [Docs -> Texts]
  BY DEF Written, MemoryTypeOK, Texts
<1>9. CASE ImportMerge
  BY <1>8, <1>9 DEF ImportMerge, MemoryTypeOK
<1>10. CASE ImportList
  BY <1>10 DEF ImportList, MemoryTypeOK
<1>11. CASE ImportDelete
  BY <1>11 DEF ImportDelete, MemoryTypeOK, Texts
<1>12. CASE ImportWrite
  BY <1>8, <1>12 DEF ImportWrite, MemoryTypeOK
<1>13. CASE ImportFails
  BY <1>13, MemoryFaultTyped DEF ImportFails, MemoryTypeOK
<1>14. CASE MemoryRestart
  <2>1. decision' \in [Deciders -> Decision]
    BY <1>14 DEF MemoryRestart, MemoryTypeOK, Decision
  <2>2. docs' \in [Docs -> Texts]
    BY <1>14 DEF MemoryRestart, MemoryTypeOK, Texts
  <2>3. cutOff' \in SUBSET stored /\ import' \in [pc : {"idle", "listed", "writing"}, ids : SUBSET Docs]
    BY <1>14 DEF MemoryRestart, MemoryTypeOK
  <2> QED
    BY <1>14, <2>1, <2>2, <2>3, MemoryFaultTyped DEF MemoryRestart, MemoryTypeOK
<1>15. CASE UNCHANGED memoryVars
  BY <1>15 DEF memoryVars, MemoryTypeOK
<1> QED
  BY <1>1, <1>2, <1>3, <1>4, <1>5, <1>6, <1>7, <1>9, <1>10, <1>11, <1>12, <1>13, <1>14, <1>15
  DEF MemoryNext

LEMMA MemoryInvariant == MemorySpec => []MemoryInv
<1>1. MemoryInit => MemoryInv
  <2> SUFFICES ASSUME MemoryInit PROVE MemoryInv
    OBVIOUS
  <2>1. MemoryTypeOK
    BY MemoryAssumption DEF MemoryInit, MemoryTypeOK, Texts, Statuses, Decision
  <2>2. \A d \in Deciders : decision[d].pc = "none"
    BY DEF MemoryInit
  <2>3. \A p \in Proposals : AtWork(p) = {} /\ p \notin stored /\ status[p] = "none"
    BY <2>2 DEF MemoryInit, AtWork
  <2>4. \A p \in Proposals : \A d \in Deciders : ~Approves(d, p)
    BY <2>2 DEF Approves
  <2> QED
    BY <2>1, <2>3, <2>4 DEF MemoryInv, DecisionInv
<1>2. MemoryInv /\ [MemoryNext]_memoryVars => MemoryInv'
  <2> SUFFICES ASSUME MemoryInv, [MemoryNext]_memoryVars, NEW p \in Proposals
               PROVE  DecisionInv(p)'
    BY MemoryTyped DEF MemoryInv
  <2>1. ASSUME NEW d \in Deciders, DecideRead(d) PROVE DecisionInv(p)'
    BY <2>1, ReadKeeps
  <2>2. ASSUME NEW d \in Deciders, ApproveStore(d) \/ StoreFails(d) PROVE DecisionInv(p)'
    BY <2>2, StoreKeeps
  <2>3. ASSUME NEW d \in Deciders, DecideRecord(d) \/ RecordFails(d) PROVE DecisionInv(p)'
    BY <2>3, RecordKeeps
  <2>4. ASSUME NEW q \in Proposals, Propose(q) PROVE DecisionInv(p)'
    BY <2>4, ProposeKeeps
  <2>5. CASE MemoryRestart
    BY <2>5, MemoryRestartKeeps
  <2>6. ASSUME NEW d \in Docs, RememberDoc(d) PROVE DecisionInv(p)'
    BY <2>6, ElseKeeps DEF RememberDoc
  <2>7. CASE ImportMerge \/ ImportList \/ ImportDelete \/ ImportWrite \/ ImportFails
    BY <2>7, ElseKeeps DEF ImportMerge, ImportList, ImportDelete, ImportWrite, ImportFails
  <2>8. CASE UNCHANGED memoryVars
    BY <2>8, ElseKeeps DEF memoryVars
  <2> QED
    BY <2>1, <2>2, <2>3, <2>4, <2>5, <2>6, <2>7, <2>8 DEF MemoryNext
<1> QED
  BY <1>1, <1>2, PTL DEF MemorySpec

\* MemoryTypeOK holds of every reachable state; that an approval cut off was of a
\* written proposal is part of it, which is why it needs the whole invariant.
THEOREM MemoryTypeCorrect == MemorySpec => []MemoryTypeOK
<1>1. MemoryInv => MemoryTypeOK
  BY DEF MemoryInv
<1> QED
  BY <1>1, MemoryInvariant, PTL

\* RecordIsTrue of SharedMemory holds of every reachable state: for any proposals
\* and decisions, the table says approved only of what has been written, and
\* something else of a written one only where an approval stopped between the
\* two stores.
THEOREM RecordsAreTrue == MemorySpec => []RecordIsTrue
<1>1. MemoryInv => RecordIsTrue
  <2> SUFFICES ASSUME MemoryInv, NEW p \in Proposals
               PROVE  /\ status[p] = "approved" => p \in stored
                      /\ p \in stored /\ status[p] # "approved" =>
                           \/ p \in cutOff
                           \/ \E d \in AtWork(p) : decision[d].pc = "recording"
    BY DEF RecordIsTrue
  <2>1. DecisionInv(p)
    BY DEF MemoryInv
  <2>2. ASSUME NEW d \in Deciders, Approves(d, p)
        PROVE  d \in AtWork(p) /\ decision[d].pc = "recording"
    BY <2>2 DEF Approves, AtWork
  <2> QED
    BY <2>1, <2>2 DEF DecisionInv
<1> QED
  BY <1>1, MemoryInvariant, PTL

(***************************************************************************)
(* KeyCache                                                                *)
(***************************************************************************)
\* A request's key is not newer than the provider's; keys it has been sent hold
\* its own as long as that is published; and a guest with such a key is excused.
CallInv(c) ==
  /\ call[c].kid <= newest
  /\ call[c].pc = "none" => call[c].round = 1 /\ ~call[c].excused
  /\ call[c].pc = "answered" /\ call[c].kid \in published =>
       call[c].kid \in call[c].got \/ call[c].excused
  /\ call[c].pc = "guest" /\ call[c].kid \in published /\ backend # "none" =>
       call[c].excused

KeyInv == KeyTypeOK /\ \A c \in Calls : CallInv(c)

\* From the keys at hand to the verdict or to the second fetch.
LEMMA MatchedKeeps ==
  ASSUME KeyTypeOK, NEW c \in Calls, NEW keys \in SUBSET (1..MaxGen), NEW r \in Call,
         Matched(c, keys, r), UNCHANGED <<backend, published, newest>>,
         r.kid <= newest, r.pc \in {"none", "answered"},
         r.kid \in published => r.kid \in keys \/ r.excused \/ r.round = 1
  PROVE  /\ call' \in [Calls -> Call] /\ cached' \in {NoKeys, keys}
         /\ CallInv(c)'
         /\ \A e \in Calls : e # c => call'[e] = call[e]
<1>1. PICK x \in Call :
        /\ call' = [call EXCEPT ![c] = x] /\ cached' \in {NoKeys, keys}
        /\ x.kid = r.kid /\ x.pc \in {"user", "guest", "asking"}
        /\ x.pc = "guest" => \/ x.excused
                             \/ r.kid \notin keys /\ r.round = 2 /\ x.excused = r.excused
  <2>1. CASE /\ r.kid \in keys
             /\ \E v \in Verdicts :
                  call' = [call EXCEPT ![c] = [r EXCEPT !.pc = v,
                                                        !.excused = r.excused \/ v = "guest"]]
             /\ cached' = keys
    <3>1. PICK v \in Verdicts :
            call' = [call EXCEPT ![c] = [r EXCEPT !.pc = v,
                                                  !.excused = r.excused \/ v = "guest"]]
      BY <2>1
    <3> DEFINE x == [r EXCEPT !.pc = v, !.excused = r.excused \/ v = "guest"]
    <3>2. x \in Call /\ x.kid = r.kid /\ x.pc = v /\ x.excused = (r.excused \/ v = "guest")
      BY DEF Call, CallStages, Verdicts
    <3>3. v \in {"user", "guest"}
      BY DEF Verdicts
    <3> HIDE DEF x
    <3>4. call' = [call EXCEPT ![c] = x]
      BY <3>1 DEF x
    <3>5. v = "guest" => x.excused
      BY <3>2
    <3> QED
      BY <2>1, <3>2, <3>3, <3>4, <3>5
  <2>2. CASE /\ r.kid \notin keys /\ (keys = {} \/ r.round = 2)
             /\ call' = [call EXCEPT ![c] = [r EXCEPT !.pc = "guest",
                                                      !.excused = @ \/ keys = {}]]
             /\ cached' = keys
    <3> DEFINE x == [r EXCEPT !.pc = "guest", !.excused = @ \/ keys = {}]
    <3>1. x \in Call /\ x.kid = r.kid /\ x.pc = "guest" /\ x.excused = (r.excused \/ keys = {})
      BY DEF Call, CallStages
    <3> HIDE DEF x
    <3>2. call' = [call EXCEPT ![c] = x]
      BY <2>2 DEF x
    <3>3. keys = {} => x.excused
      BY <3>1
    <3>4. keys # {} => x.excused = r.excused
      <4>1. r.excused \in BOOLEAN
        BY DEF Call
      <4> QED
        BY <3>1, <4>1
    <3> QED
      BY <2>2, <3>1, <3>2, <3>3, <3>4
  <2>3. CASE /\ r.kid \notin keys /\ keys # {} /\ r.round = 1
             /\ cached' = NoKeys
             /\ call' = [call EXCEPT ![c] = [r EXCEPT !.pc = "asking", !.round = 2]]
    <3> DEFINE x == [r EXCEPT !.pc = "asking", !.round = 2]
    <3>1. x \in Call /\ x.kid = r.kid /\ x.pc = "asking"
      BY DEF Call, CallStages
    <3> HIDE DEF x
    <3>2. call' = [call EXCEPT ![c] = x]
      BY <2>3 DEF x
    <3> QED
      BY <2>3, <3>1, <3>2
  <2> QED
    BY <2>1, <2>2, <2>3 DEF Matched, Forgotten
<1>2. call' \in [Calls -> Call] /\ call'[c] = x /\ \A e \in Calls : e # c => call'[e] = call[e]
  BY <1>1 DEF KeyTypeOK
<1>3. x.pc = "guest" /\ r.kid \in published => x.excused
  <2> SUFFICES ASSUME x.pc = "guest", r.kid \in published, r.kid \notin keys, r.round = 2,
                      x.excused = r.excused
               PROVE  x.excused
    BY <1>1
  <2>1. r.excused
    OBVIOUS
  <2> QED
    BY <2>1
<1>4. CallInv(c)'
  BY <1>1, <1>2, <1>3 DEF CallInv
<1> QED
  BY <1>1, <1>2, <1>4

\* Steps that change one request and nothing of the provider's.
LEMMA CallStep ==
  ASSUME KeyInv, NEW c \in Calls, call' \in [Calls -> Call], CallInv(c)',
         \A e \in Calls : e # c => call'[e] = call[e],
         cached' = NoKeys \/ cached' \in SUBSET (1..MaxGen),
         UNCHANGED <<backend, published, newest>>
  PROVE  KeyInv'
<1>1. KeyTypeOK'
  BY DEF KeyInv, KeyTypeOK
<1>2. ASSUME NEW e \in Calls, e # c PROVE CallInv(e)'
  BY <1>2 DEF KeyInv, CallInv
<1> QED
  BY <1>1, <1>2 DEF KeyInv

LEMMA IdentifyKeeps == ASSUME KeyInv, NEW c \in Calls, Identify(c) PROVE KeyInv'
<1> DEFINE r == [call[c] EXCEPT !.kid = newest]
<1>1. /\ call[c].pc = "none" /\ UNCHANGED <<backend, published, newest>>
      /\ IF cached = NoKeys
           THEN call' = [call EXCEPT ![c] = [r EXCEPT !.pc = "asking"]] /\ UNCHANGED cached
           ELSE Matched(c, cached, r)
  BY DEF Identify
<1>2. KeyTypeOK /\ CallInv(c) /\ newest \in 1..MaxGen
  BY DEF KeyInv, KeyTypeOK
<1>3. r \in Call /\ r.kid = newest /\ r.pc = "none" /\ r.round = 1
  BY <1>1, <1>2 DEF CallInv, KeyTypeOK, Call
<1> HIDE DEF r
<1>4. CASE cached = NoKeys
  <2> DEFINE x == [r EXCEPT !.pc = "asking"]
  <2>1. x \in Call /\ x.kid = newest /\ x.pc = "asking"
    BY <1>3 DEF Call, CallStages
  <2> HIDE DEF x
  <2>2. call' = [call EXCEPT ![c] = x] /\ cached' = cached
    BY <1>1, <1>4 DEF x
  <2>3. call' \in [Calls -> Call] /\ call'[c] = x /\ \A e \in Calls : e # c => call'[e] = call[e]
    BY <1>2, <2>1, <2>2 DEF KeyTypeOK
  <2>4. CallInv(c)'
    BY <1>1, <1>2, <2>1, <2>3 DEF CallInv
  <2> QED
    BY <1>1, <1>4, <2>2, <2>3, <2>4, CallStep
<1>5. CASE cached # NoKeys
  <2>1. cached \in SUBSET (1..MaxGen) /\ Matched(c, cached, r)
    BY <1>1, <1>2, <1>5 DEF KeyTypeOK
  <2>2. newest <= newest
    BY <1>2
  <2>3. /\ call' \in [Calls -> Call] /\ cached' \in {NoKeys, cached}
        /\ CallInv(c)' /\ \A e \in Calls : e # c => call'[e] = call[e]
    BY <1>1, <1>2, <1>3, <2>1, <2>2, MatchedKeeps
  <2> QED
    BY <1>1, <2>1, <2>3, CallStep
<1> QED
  BY <1>4, <1>5

LEMMA KeysKeptKeeps == ASSUME KeyInv, NEW c \in Calls, KeysKept(c) PROVE KeyInv'
<1> DEFINE r == call[c]
           keys == call[c].got
<1>1. r.pc = "answered" /\ Matched(c, keys, r) /\ UNCHANGED <<backend, published, newest>>
  BY DEF KeysKept
<1>2. KeyTypeOK /\ CallInv(c) /\ r \in Call /\ keys \in SUBSET (1..MaxGen)
  BY DEF KeyInv, KeyTypeOK, Call
<1>3. r.kid <= newest /\ (r.kid \in published => r.kid \in keys \/ r.excused \/ r.round = 1)
  BY <1>1, <1>2 DEF CallInv
<1> HIDE DEF r, keys
<1>4. /\ call' \in [Calls -> Call] /\ cached' \in {NoKeys, keys}
      /\ CallInv(c)' /\ \A e \in Calls : e # c => call'[e] = call[e]
  BY <1>1, <1>2, <1>3, MatchedKeeps
<1> QED
  BY <1>1, <1>2, <1>4, CallStep

\* The steps about one request that reads no keys.
LEMMA AskingKeeps ==
  ASSUME KeyInv, NEW c \in Calls, IdentifySecret(c) \/ KeysSent(c) \/ FetchFails(c)
  PROVE  KeyInv'
<1>1. KeyTypeOK /\ CallInv(c) /\ call[c] \in Call
  BY DEF KeyInv, KeyTypeOK
<1>2. /\ UNCHANGED <<backend, published, newest>> /\ cached' = cached
      /\ cached = NoKeys \/ cached \in SUBSET (1..MaxGen)
  BY <1>1 DEF IdentifySecret, KeysSent, FetchFails, KeyTypeOK
<1>3. ASSUME NEW x \in Call, call' = [call EXCEPT ![c] = x], x.kid = call[c].kid,
             x.pc # "none",
             x.pc = "answered" /\ x.kid \in published => x.kid \in x.got \/ x.excused,
             x.pc = "guest" => x.excused \/ backend = "none"
      PROVE  KeyInv'
  <2>1. call' \in [Calls -> Call] /\ call'[c] = x /\ \A e \in Calls : e # c => call'[e] = call[e]
    BY <1>1, <1>3 DEF KeyTypeOK
  <2>2. CallInv(c)'
    BY <1>1, <1>2, <1>3, <2>1 DEF CallInv
  <2> QED
    BY <1>2, <2>1, <2>2, CallStep
<1>4. CASE IdentifySecret(c)
  <2>1. PICK v \in {"user", "guest"} :
          call' = [call EXCEPT ![c].pc = v, ![c].excused = v = "guest"]
    BY <1>4 DEF IdentifySecret, Verdicts
  <2> DEFINE x == [call[c] EXCEPT !.pc = v, !.excused = v = "guest"]
  <2>2. /\ x \in Call /\ x.kid = call[c].kid /\ x.pc = v /\ x.excused = (v = "guest")
        /\ call' = [call EXCEPT ![c] = x]
    BY <1>1, <2>1 DEF Call, CallStages, KeyTypeOK
  <2> HIDE DEF x
  <2>3. x.pc = "guest" => x.excused
    BY <2>2
  <2>4. x.pc # "none" /\ x.pc # "answered"
    BY <2>1, <2>2
  <2> QED
    BY <1>3, <2>2, <2>3, <2>4
<1>5. CASE KeysSent(c)
  <2>1. CASE call' = [call EXCEPT ![c].pc = "answered", ![c].got = published]
    <3> DEFINE x == [call[c] EXCEPT !.pc = "answered", !.got = published]
    <3>1. /\ x \in Call /\ x.kid = call[c].kid /\ x.pc = "answered" /\ x.got = published
          /\ call' = [call EXCEPT ![c] = x]
      BY <1>1, <2>1 DEF Call, CallStages, KeyTypeOK
    <3> HIDE DEF x
    <3> QED
      BY <1>3, <3>1
  <2>2. CASE call' = [call EXCEPT ![c].pc = "answered", ![c].got = {}, ![c].excused = TRUE]
    <3> DEFINE x == [call[c] EXCEPT !.pc = "answered", !.got = {}, !.excused = TRUE]
    <3>1. /\ x \in Call /\ x.kid = call[c].kid /\ x.pc = "answered" /\ x.excused
          /\ call' = [call EXCEPT ![c] = x]
      BY <1>1, <2>2 DEF Call, CallStages, KeyTypeOK
    <3> HIDE DEF x
    <3> QED
      BY <1>3, <3>1
  <2> QED
    BY <1>5, <2>1, <2>2 DEF KeysSent
<1>6. CASE FetchFails(c)
  <2> DEFINE x == [call[c] EXCEPT !.pc = "guest", !.excused = TRUE]
  <2>1. /\ x \in Call /\ x.kid = call[c].kid /\ x.pc = "guest" /\ x.excused
        /\ call' = [call EXCEPT ![c] = x]
    BY <1>1, <1>6 DEF FetchFails, Call, CallStages, KeyTypeOK
  <2> HIDE DEF x
  <2> QED
    BY <1>3, <2>1
<1> QED
  BY <1>4, <1>5, <1>6

\* A rotation publishes a key that no request is signed with.
LEMMA RotateKeeps == ASSUME KeyInv, Rotate PROVE KeyInv'
<1>1. KeyTypeOK /\ newest \in 1..MaxGen /\ MaxGen \in Nat
  BY KeysAssumption DEF KeyInv, KeyTypeOK
<1>2. newest' \in 1..MaxGen /\ published' \in SUBSET (1..MaxGen) /\ call' = call
  BY <1>1 DEF Rotate, KeyTypeOK
<1>3. KeyTypeOK'
  BY <1>1, <1>2 DEF Rotate, KeyTypeOK
<1>4. ASSUME NEW c \in Calls PROVE CallInv(c)'
  <2>1. CallInv(c) /\ call[c].kid \in 1..MaxGen
    BY <1>1 DEF KeyInv, KeyTypeOK, Call
  <2>2. call[c].kid <= newest' /\ call[c].kid # newest + 1
    BY <1>1, <2>1 DEF CallInv, Rotate
  <2>3. call[c].kid \in published' => call[c].kid \in published
    BY <2>2 DEF Rotate
  <2>4. backend' = backend
    BY DEF Rotate
  <2> QED
    BY <1>2, <2>1, <2>2, <2>3, <2>4 DEF CallInv
<1> QED
  BY <1>3, <1>4 DEF KeyInv

LEMMA KeyRestartKeeps == ASSUME KeyInv, KeyRestart PROVE KeyInv'
<1>1. KeyTypeOK
  BY DEF KeyInv
<1>2. ASSUME NEW c \in Calls PROVE call'[c] \in Call /\ CallInv(c)'
  <2>1. CallInv(c) /\ call[c] \in Call
    BY <1>1 DEF KeyInv, KeyTypeOK
  <2> DEFINE x == [call[c] EXCEPT !.pc = "guest", !.excused = TRUE]
  <2>2. x \in Call /\ x.kid = call[c].kid /\ x.pc = "guest" /\ x.excused
    BY <2>1 DEF Call, CallStages
  <2>3. call'[c] = IF call[c].pc \in {"asking", "answered"} THEN x ELSE call[c]
    BY DEF KeyRestart
  <2> HIDE DEF x
  <2>4. UNCHANGED <<backend, published, newest>>
    BY DEF KeyRestart
  <2>5. CASE call[c].pc \in {"asking", "answered"}
    BY <2>1, <2>2, <2>3, <2>4, <2>5 DEF CallInv
  <2>6. CASE call[c].pc \notin {"asking", "answered"}
    BY <2>1, <2>3, <2>4, <2>6 DEF CallInv
  <2> QED
    BY <2>5, <2>6
<1>3. KeyTypeOK'
  <2>1. call' \in [Calls -> Call]
    <3>1. call' = [c \in Calls |-> call'[c]]
      BY DEF KeyRestart
    <3> QED
      BY <1>2, <3>1
  <2> QED
    BY <1>1, <2>1 DEF KeyRestart, KeyTypeOK
<1> QED
  BY <1>2, <1>3 DEF KeyInv

LEMMA KeyInvariant == KeySpec => []KeyInv
<1>1. KeyInit => KeyInv
  <2> SUFFICES ASSUME KeyInit PROVE KeyInv
    OBVIOUS
  <2> DEFINE x == [pc |-> "none", round |-> 1, kid |-> 1, got |-> {}, excused |-> FALSE]
  <2>1. 1 \in 1..MaxGen
    BY KeysAssumption
  <2>2. x \in Call /\ x.pc = "none" /\ x.round = 1 /\ x.kid = 1 /\ x.excused = FALSE
    BY <2>1 DEF Call, CallStages
  <2> HIDE DEF x
  <2>3. call = [c \in Calls |-> x] /\ newest = 1 /\ published = {1} /\ cached = NoKeys
    BY DEF KeyInit, x
  <2>4. KeyTypeOK
    BY <2>1, <2>2, <2>3 DEF KeyInit, KeyTypeOK
  <2>5. \A c \in Calls : CallInv(c)
    BY <2>2, <2>3 DEF CallInv
  <2> QED
    BY <2>4, <2>5 DEF KeyInv
<1>2. KeyInv /\ [KeyNext]_keyVars => KeyInv'
  <2> SUFFICES ASSUME KeyInv, [KeyNext]_keyVars PROVE KeyInv'
    OBVIOUS
  <2>1. ASSUME NEW c \in Calls, Identify(c) PROVE KeyInv'
    BY <2>1, IdentifyKeeps
  <2>2. ASSUME NEW c \in Calls, KeysKept(c) PROVE KeyInv'
    BY <2>2, KeysKeptKeeps
  <2>3. ASSUME NEW c \in Calls, IdentifySecret(c) \/ KeysSent(c) \/ FetchFails(c) PROVE KeyInv'
    BY <2>3, AskingKeeps
  <2>4. CASE Rotate
    BY <2>4, RotateKeeps
  <2>5. CASE KeyRestart
    BY <2>5, KeyRestartKeeps
  <2>6. CASE UNCHANGED keyVars
    BY <2>6 DEF keyVars, KeyInv, KeyTypeOK, CallInv
  <2> QED
    BY <2>1, <2>2, <2>3, <2>4, <2>5, <2>6 DEF KeyNext
<1> QED
  BY <1>1, <1>2, PTL DEF KeySpec

\* KeyTypeOK holds of every reachable state.
THEOREM KeyTypeCorrect == KeySpec => []KeyTypeOK
<1>1. KeyInv => KeyTypeOK
  BY DEF KeyInv
<1> QED
  BY <1>1, KeyInvariant, PTL

\* NewKeyAccepted of KeyCache holds of every reachable state: for any number of
\* overlapping requests and any rotations a good token is refused only where the
\* request's own fetch failed or an empty answer was kept.
THEOREM GoodTokensAreAccepted == KeySpec => []NewKeyAccepted
<1>1. KeyInv => NewKeyAccepted
  BY DEF KeyInv, CallInv, NewKeyAccepted
<1> QED
  BY <1>1, KeyInvariant, PTL

(***************************************************************************)
(* LiveFeed                                                                *)
(***************************************************************************)
\* What is in the set has been accepted, and what a push calls dead has ended;
\* so a push that ends takes no open socket out of the set, and an open socket
\* stays there with an endpoint that pushes.
FeedInv ==
  /\ \A k \in conns : link[k].bus \in {"open", "closed"}
  /\ \A p \in Pushes : \A k \in push[p].dead : link[k].bus = "closed"
  /\ \A k \in Links : link[k].bus = "open" =>
       k \in conns /\ endpoint[k] \in {"sleeping", "pushing"}
  /\ \A t \in Tabs : tab[t].state = "connected" =>
       tab[t].ws \in Links /\ link[tab[t].ws].bus # "none"
  /\ \A k \in Links : link[k].browser \in {"opening", "open"} => \E t \in Tabs : tab[t].ws = k
  /\ \A k \in Links : link[k].browser \in {"none", "opening"} => link[k].bus = "none"

LEMMA FeedFaultTyped == ASSUME FeedTypeOK, FeedFault PROVE feedFaults' \in 0..FeedFaults
BY FeedAssumption DEF FeedTypeOK, FeedFault

LEMMA ClosedTyped ==
  ASSUME FeedTypeOK, NEW ks
  PROVE  /\ Closed(ks) \in [Tabs -> Tab]
         /\ \A t \in Tabs : Closed(ks)[t] = IF tab[t].ws \in ks THEN Alone ELSE tab[t]
         /\ Alone.ws = NoLink /\ Alone.state = "disconnected"
BY DEF Closed, FeedTypeOK, Tab, Alone

LEMMA UnfedTyped ==
  ASSUME FeedTypeOK, NEW ks
  PROVE  /\ Unfed(ks) \in [Links -> [browser : Halves, bus : Halves]]
         /\ \A k \in Links :
              /\ Unfed(ks)[k].browser = link[k].browser
              /\ Unfed(ks)[k].bus = IF k \in ks /\ link[k].bus \in {"opening", "open"}
                                      THEN "closed" ELSE link[k].bus
BY DEF Unfed, FeedTypeOK, Halves

LEMMA NoPushTyped == NoPush \in Push /\ NoPush.pc = "idle" /\ NoPush.dead = {}
BY DEF NoPush, Push

LEMMA OwnerTyped ==
  ASSUME FeedTypeOK, NEW p \in Pushes, NEW s \in {"sleeping", "ended"}, Owner(p, s)
  PROVE  /\ endpoint' \in [Links -> {"none", "sleeping", "pushing", "ended"}]
         /\ \A k \in Links : endpoint'[k] = IF k = push[p].by THEN s ELSE endpoint[k]
BY DEF Owner, FeedTypeOK

LEMMA RaisesTyped ==
  ASSUME FeedTypeOK, NEW p \in Pushes, PushRaises(p), feedFaults' \in 0..FeedFaults
  PROVE  FeedTypeOK'
<1>1. push' \in [Pushes -> Push] /\ conns' \in SUBSET Links /\ tab' = tab
  BY NoPushTyped DEF PushRaises, FeedTypeOK
<1>2. link' \in [Links -> [browser : Halves, bus : Halves]]
  BY UnfedTyped DEF PushRaises
<1>3. endpoint' \in [Links -> {"none", "sleeping", "pushing", "ended"}]
  BY OwnerTyped DEF PushRaises
<1> QED
  BY <1>1, <1>2, <1>3 DEF FeedTypeOK

\* FeedTypeOK holds of every reachable state.
THEOREM FeedTypeCorrect == FeedSpec => []FeedTypeOK
<1>1. FeedInit => FeedTypeOK
  <2> SUFFICES ASSUME FeedInit PROVE FeedTypeOK
    OBVIOUS
  <2>1. tab \in [Tabs -> Tab] /\ push \in [Pushes -> Push]
    BY NoPushTyped DEF FeedInit, Tab, Alone
  <2>2. link \in [Links -> [browser : Halves, bus : Halves]]
    BY DEF FeedInit, Halves
  <2> QED
    BY <2>1, <2>2, FeedAssumption DEF FeedInit, FeedTypeOK
<1>2. FeedTypeOK /\ [FeedNext]_feedVars => FeedTypeOK'
  <2> SUFFICES ASSUME FeedTypeOK, [FeedNext]_feedVars PROVE FeedTypeOK'
    OBVIOUS
  <2>1. ASSUME NEW t \in Tabs, NEW k \in Links, Connect(t, k) PROVE FeedTypeOK'
    BY <2>1 DEF Connect, FeedTypeOK, Tab, Halves
  <2>2. ASSUME NEW k \in Links, BrowserCloses(k) PROVE FeedTypeOK'
    <3>1. link' \in [Links -> [browser : Halves, bus : Halves]]
      BY <2>2 DEF BrowserCloses, FeedTypeOK, Halves
    <3> QED
      BY <2>2, <3>1, ClosedTyped, FeedFaultTyped DEF BrowserCloses, FeedTypeOK
  <2>3. ASSUME NEW k \in Links, ProxyAccepts(k) PROVE FeedTypeOK'
    <3>1. link' \in [Links -> [browser : Halves, bus : Halves]] /\ tab' \in [Tabs -> Tab]
      BY <2>3 DEF ProxyAccepts, FeedTypeOK, Halves, Tab
    <3> QED
      BY <2>3, <3>1 DEF ProxyAccepts, FeedTypeOK
  <2>4. ASSUME NEW k \in Links, BusRefuses(k) PROVE FeedTypeOK'
    <3>1. link' \in [Links -> [browser : Halves, bus : Halves]]
      BY <2>4 DEF BusRefuses, FeedTypeOK, Halves
    <3> QED
      BY <2>4, <3>1, ClosedTyped, FeedFaultTyped DEF BusRefuses, FeedTypeOK
  <2>5. ASSUME NEW k \in Links, BusSideBreaks(k) PROVE FeedTypeOK'
    BY <2>5, UnfedTyped, FeedFaultTyped DEF BusSideBreaks, FeedTypeOK
  <2>6. ASSUME NEW k \in Links, BusAccepts(k) PROVE FeedTypeOK'
    BY <2>6 DEF BusAccepts, FeedTypeOK, Halves
  <2>7. ASSUME NEW k \in Links, NEW p \in Pushes, Wake(k, p) PROVE FeedTypeOK'
    <3>1. [NoPush EXCEPT !.pc = "reading", !.by = k] \in Push
      BY NoPushTyped DEF Push
    <3> QED
      BY <2>7, <3>1 DEF Wake, FeedTypeOK
  <2>8. ASSUME NEW k \in Links, NEW p \in Pushes, PushSend(p, k) PROVE FeedTypeOK'
    <3> DEFINE dead == IF link[k].bus = "open" THEN push[p].dead ELSE push[p].dead \cup {k}
    <3>1. push' = [push EXCEPT ![p].sent = @ \cup {k}, ![p].dead = dead]
      BY <2>8 DEF PushSend
    <3>2. dead \in SUBSET Links
      BY DEF FeedTypeOK, Push
    <3> HIDE DEF dead
    <3> DEFINE x == [push[p] EXCEPT !.sent = @ \cup {k}, !.dead = dead]
    <3>5. x \in Push
      BY <3>2 DEF FeedTypeOK, Push
    <3>6. push' = [push EXCEPT ![p] = x]
      BY <3>1 DEF FeedTypeOK
    <3> HIDE DEF x
    <3>3. push' \in [Pushes -> Push]
      BY <3>5, <3>6 DEF FeedTypeOK
    <3>4. link' \in [Links -> [browser : Halves, bus : Halves]]
      BY <2>8, UnfedTyped DEF PushSend, FeedTypeOK
    <3> QED
      BY <2>8, <3>3, <3>4 DEF PushSend, FeedTypeOK
  <2>9. ASSUME NEW p \in Pushes, WritePushes(p) PROVE FeedTypeOK'
    <3>1. [NoPush EXCEPT !.pc = "reading"] \in Push
      BY NoPushTyped DEF Push
    <3> QED
      BY <2>9, <3>1 DEF WritePushes, FeedTypeOK
  <2>10. ASSUME NEW p \in Pushes, BeginSending(p) PROVE FeedTypeOK'
    BY <2>10 DEF BeginSending, FeedTypeOK, Push
  <2>11. ASSUME NEW p \in Pushes, PushEnds(p) PROVE FeedTypeOK'
    <3>1. endpoint' \in [Links -> {"none", "sleeping", "pushing", "ended"}]
      BY <2>11, OwnerTyped DEF PushEnds
    <3> QED
      BY <2>11, <3>1, NoPushTyped DEF PushEnds, FeedTypeOK
  <2>12. ASSUME NEW p \in Pushes, SetChanged(p) \/ QueryFails(p) PROVE FeedTypeOK'
    <3>1. feedFaults' \in 0..FeedFaults
      BY <2>12, FeedFaultTyped DEF SetChanged, QueryFails, FeedTypeOK
    <3> QED
      BY <2>12, <3>1, RaisesTyped DEF SetChanged, QueryFails
  <2>13. CASE ProxyRestart
    <3>1. link' \in [Links -> [browser : Halves, bus : Halves]]
      BY <2>13 DEF ProxyRestart, Halves
    <3> QED
      BY <2>13, <3>1, ClosedTyped, FeedFaultTyped DEF ProxyRestart, FeedTypeOK
  <2>14. CASE FeedBusRestart
    <3>1. /\ endpoint' \in [Links -> {"none", "sleeping", "pushing", "ended"}]
          /\ push' \in [Pushes -> Push]
      BY <2>14, NoPushTyped DEF FeedBusRestart
    <3> QED
      BY <2>14, <3>1, UnfedTyped, FeedFaultTyped DEF FeedBusRestart, FeedTypeOK
  <2>15. CASE UNCHANGED feedVars
    BY <2>15 DEF feedVars, FeedTypeOK
  <2> QED
    BY <2>1, <2>2, <2>3, <2>4, <2>5, <2>6, <2>7, <2>8, <2>9, <2>10, <2>11, <2>12, <2>13,
       <2>14, <2>15 DEF FeedNext
<1> QED
  BY <1>1, <1>2, PTL DEF FeedSpec

\* What a step of a push does to the invariant where it only closes connections
\* and keeps every open one in the set: used by the sends, the ends and the
\* exceptions of broadcast_update.
LEMMA OpenOnesStay ==
  ASSUME FeedTypeOK, FeedInv, NEW ks,
         link' = Unfed(ks), tab' = tab, conns' \in SUBSET conns,
         \A k \in Links : link'[k].bus = "open" =>
           k \in conns' /\ endpoint'[k] \in {"sleeping", "pushing"},
         \A p \in Pushes : \A k \in push'[p].dead : k \in Links /\ link'[k].bus = "closed"
  PROVE  FeedInv'
<1>1. \A k \in Links :
        /\ link'[k].browser = link[k].browser
        /\ link'[k].bus = link[k].bus \/ (link'[k].bus = "closed" /\ link[k].bus \in {"opening", "open"})
  BY UnfedTyped
<1>2. conns \in SUBSET Links
  BY DEF FeedTypeOK
<1> QED
  BY <1>1, <1>2 DEF FeedInv

LEMMA FeedInvariant == FeedSpec => [](FeedTypeOK /\ FeedInv)
<1>1. FeedInit => FeedInv
  BY FeedAssumption DEF FeedInit, FeedInv, NoPush, Alone
<1>2. FeedTypeOK /\ FeedInv /\ [FeedNext]_feedVars => FeedInv'
  <2> SUFFICES ASSUME FeedTypeOK, FeedInv, [FeedNext]_feedVars PROVE FeedInv'
    OBVIOUS
  <2> USE FeedAssumption
  <2>0. /\ conns \in SUBSET Links
        /\ \A p \in Pushes : push[p].dead \in SUBSET Links
        /\ \A k \in Links : link[k] \in [browser : Halves, bus : Halves]
        /\ \A t \in Tabs : tab[t] \in Tab
    BY DEF FeedTypeOK, Push
  <2>1. ASSUME NEW t \in Tabs, NEW k \in Links, Connect(t, k) PROVE FeedInv'
    <3>1. /\ UNCHANGED <<endpoint, conns, push>>
          /\ tab[t].ws = NoLink
          /\ \A j \in Links : link'[j].bus = link[j].bus
          /\ \A j \in Links : link'[j].browser = IF j = k THEN "opening" ELSE link[j].browser
          /\ link[k].browser = "none"
      BY <2>1 DEF Connect, FeedTypeOK
    <3>2. /\ tab'[t].ws = k /\ tab'[t].state = "connecting"
          /\ \A u \in Tabs : u # t => tab'[u] = tab[u]
      BY <2>1 DEF Connect, FeedTypeOK
    <3> QED
      BY <2>0, <3>1, <3>2 DEF FeedInv
  <2>2. ASSUME NEW k \in Links, BrowserCloses(k) PROVE FeedInv'
    <3>1. /\ UNCHANGED <<endpoint, conns, push>>
          /\ \A j \in Links : link'[j].bus = link[j].bus
          /\ \A j \in Links : link'[j].browser = IF j = k THEN "closed" ELSE link[j].browser
      BY <2>2 DEF BrowserCloses, FeedTypeOK
    <3>2. \A t \in Tabs : tab'[t] = IF tab[t].ws = k THEN Alone ELSE tab[t]
      BY <2>2, ClosedTyped DEF BrowserCloses
    <3> QED
      BY <2>0, <3>1, <3>2, ClosedTyped DEF FeedInv
  <2>3. ASSUME NEW k \in Links, ProxyAccepts(k) PROVE FeedInv'
    <3>1. /\ UNCHANGED <<endpoint, conns, push>>
          /\ link[k].browser = "opening"
          /\ \A j \in Links : /\ link'[j].browser = IF j = k THEN "open" ELSE link[j].browser
                              /\ link'[j].bus = IF j = k THEN "opening" ELSE link[j].bus
      BY <2>3 DEF ProxyAccepts, FeedTypeOK
    <3>2. \A t \in Tabs : /\ tab'[t].ws = tab[t].ws
                          /\ tab[t].ws # k => tab'[t] = tab[t]
      BY <2>3 DEF ProxyAccepts, FeedTypeOK, Tab
    <3>3. /\ link[k].bus = "none" /\ k \notin conns
          /\ \A p \in Pushes : k \notin push[p].dead
      BY <3>1 DEF FeedInv
    <3>4. /\ \A j \in conns : link'[j].bus \in {"open", "closed"}
          /\ \A p \in Pushes : \A j \in push[p].dead : link'[j].bus = "closed"
      BY <2>0, <3>1, <3>3 DEF FeedInv
    <3>5. \A j \in Links : link'[j].bus = "open" =>
            j \in conns /\ endpoint[j] \in {"sleeping", "pushing"}
      BY <3>1 DEF FeedInv
    <3>6. \A t \in Tabs : tab'[t].state = "connected" =>
            tab'[t].ws \in Links /\ link'[tab'[t].ws].bus # "none"
      <4> SUFFICES ASSUME NEW t \in Tabs, tab'[t].state = "connected"
                   PROVE  tab'[t].ws \in Links /\ link'[tab'[t].ws].bus # "none"
        OBVIOUS
      <4>1. CASE tab[t].ws = k
        BY <3>1, <3>2, <4>1
      <4>2. CASE tab[t].ws # k
        BY <3>1, <3>2, <4>2 DEF FeedInv
      <4> QED
        BY <4>1, <4>2
    <3>7. /\ \A j \in Links : link'[j].browser \in {"opening", "open"} =>
               \E t \in Tabs : tab'[t].ws = j
          /\ \A j \in Links : link'[j].browser \in {"none", "opening"} => link'[j].bus = "none"
      BY <3>1, <3>2 DEF FeedInv
    <3> QED
      BY <3>1, <3>4, <3>5, <3>6, <3>7 DEF FeedInv
  <2>4. ASSUME NEW k \in Links, BusRefuses(k) PROVE FeedInv'
    <3>1. /\ UNCHANGED <<endpoint, conns, push>>
          /\ \A j \in Links : link'[j] = IF j = k THEN [browser |-> "closed", bus |-> "closed"]
                                          ELSE link[j]
      BY <2>4 DEF BusRefuses, FeedTypeOK
    <3>2. \A t \in Tabs : tab'[t] = IF tab[t].ws = k THEN Alone ELSE tab[t]
      BY <2>4, ClosedTyped DEF BusRefuses
    <3> QED
      BY <2>0, <3>1, <3>2, ClosedTyped DEF FeedInv
  <2>5. ASSUME NEW k \in Links, BusSideBreaks(k) PROVE FeedInv'
    <3>1. link' = Unfed({k}) /\ UNCHANGED <<tab, endpoint, conns, push>>
      BY <2>5 DEF BusSideBreaks
    <3>2. \A j \in Links : link'[j].bus = link[j].bus
                          \/ (link'[j].bus = "closed" /\ link[j].bus \in {"opening", "open"})
      BY <3>1, UnfedTyped
    <3>3. \A j \in Links : link'[j].bus = "open" =>
            j \in conns' /\ endpoint'[j] \in {"sleeping", "pushing"}
      BY <3>1, <3>2 DEF FeedInv
    <3>4. \A p \in Pushes : \A j \in push'[p].dead : j \in Links /\ link'[j].bus = "closed"
      BY <2>0, <3>1, <3>2 DEF FeedInv
    <3> QED
      BY <2>0, <3>1, <3>3, <3>4, OpenOnesStay
  <2>6. ASSUME NEW k \in Links, BusAccepts(k) PROVE FeedInv'
    <3>1. /\ UNCHANGED <<tab, push>> /\ conns' = conns \cup {k}
          /\ link[k].bus = "opening"
          /\ \A j \in Links : link'[j].browser = link[j].browser
          /\ \A j \in Links : link'[j].bus = IF j = k THEN "open" ELSE link[j].bus
          /\ \A j \in Links : endpoint'[j] = IF j = k THEN "sleeping" ELSE endpoint[j]
      BY <2>6 DEF BusAccepts, FeedTypeOK
    <3> QED
      BY <2>0, <3>1 DEF FeedInv
  <2>7. ASSUME NEW k \in Links, NEW p \in Pushes, Wake(k, p) PROVE FeedInv'
    <3>1. /\ UNCHANGED <<tab, link, conns>>
          /\ \A j \in Links : endpoint'[j] = IF j = k THEN "pushing" ELSE endpoint[j]
      BY <2>7 DEF Wake, FeedTypeOK
    <3>2. \A q \in Pushes : push'[q].dead = IF q = p THEN {} ELSE push[q].dead
      BY <2>7 DEF Wake, FeedTypeOK, NoPush
    <3> QED
      BY <2>0, <3>1, <3>2 DEF FeedInv
  <2>8. ASSUME NEW k \in Links, NEW p \in Pushes, PushSend(p, k) PROVE FeedInv'
    <3> DEFINE ks == IF link[k].browser = "open" THEN {} ELSE {k}
    <3>1. UNCHANGED <<tab, endpoint, conns>> /\ k \in conns
      BY <2>8 DEF PushSend
    <3>2. link' = Unfed(ks)
      <4>1. Unfed({}) = link
        BY DEF Unfed, FeedTypeOK
      <4> QED
        BY <2>8, <4>1 DEF PushSend
    <3> HIDE DEF ks
    <3>3. \A j \in Links : link'[j].bus = link[j].bus
                          \/ (link'[j].bus = "closed" /\ link[j].bus \in {"opening", "open"})
      BY <3>2, UnfedTyped
    <3>4. \A q \in Pushes :
            push'[q].dead = IF q = p /\ link[k].bus # "open" THEN push[p].dead \cup {k}
                                                            ELSE push[q].dead
      BY <2>8 DEF PushSend, FeedTypeOK, Push
    <3>5. link[k].bus # "open" => link'[k].bus = "closed"
      BY <3>1, <3>3 DEF FeedInv
    <3>6. \A q \in Pushes : \A j \in push'[q].dead : j \in Links /\ link'[j].bus = "closed"
      BY <2>0, <3>3, <3>4, <3>5 DEF FeedInv
    <3>7. \A j \in Links : link'[j].bus = "open" =>
            j \in conns' /\ endpoint'[j] \in {"sleeping", "pushing"}
      BY <3>1, <3>3 DEF FeedInv
    <3> QED
      BY <3>1, <3>2, <3>6, <3>7, OpenOnesStay
  <2>9. ASSUME NEW p \in Pushes, WritePushes(p) \/ BeginSending(p) PROVE FeedInv'
    <3>1. UNCHANGED <<tab, link, endpoint, conns>>
      BY <2>9 DEF WritePushes, BeginSending
    <3>2. \A q \in Pushes : push'[q].dead \in SUBSET push[q].dead
      <4>1. CASE WritePushes(p)
        <5>1. \A q \in Pushes : push'[q].dead = IF q = p THEN {} ELSE push[q].dead
          BY <4>1 DEF WritePushes, FeedTypeOK, NoPush
        <5> QED
          BY <5>1
      <4>2. CASE BeginSending(p)
        <5>1. \A q \in Pushes : push'[q].dead = push[q].dead
          BY <4>2 DEF BeginSending, FeedTypeOK, Push
        <5> QED
          BY <5>1
      <4> QED
        BY <2>9, <4>1, <4>2
    <3> QED
      BY <2>0, <3>1, <3>2 DEF FeedInv
  <2>10. ASSUME NEW p \in Pushes, PushEnds(p) PROVE FeedInv'
    <3>1. /\ UNCHANGED <<tab, link>> /\ conns' = conns \ push[p].dead
          /\ \A q \in Pushes : push'[q].dead = IF q = p THEN {} ELSE push[q].dead
      BY <2>10 DEF PushEnds, FeedTypeOK, NoPush
    <3>2. \A k \in Links : endpoint'[k] = endpoint[k] \/ endpoint'[k] = "sleeping"
      BY <2>10, OwnerTyped DEF PushEnds
    <3> QED
      BY <2>0, <3>1, <3>2 DEF FeedInv
  <2>11. ASSUME NEW p \in Pushes, SetChanged(p) \/ QueryFails(p) PROVE FeedInv'
    <3>1. PushRaises(p)
      BY <2>11 DEF SetChanged, QueryFails
    <3>2. /\ tab' = tab /\ conns' = conns \ {push[p].by} /\ link' = Unfed({push[p].by})
          /\ \A q \in Pushes : push'[q].dead = IF q = p THEN {} ELSE push[q].dead
      BY <3>1 DEF PushRaises, FeedTypeOK, NoPush
    <3>3. \A k \in Links : k # push[p].by => endpoint'[k] = endpoint[k]
      BY <3>1, OwnerTyped DEF PushRaises
    <3>4. \A k \in Links :
            link'[k].bus = IF k = push[p].by /\ link[k].bus \in {"opening", "open"}
                             THEN "closed" ELSE link[k].bus
      BY <3>2, UnfedTyped
    <3>5. \A k \in Links : link'[k].bus = "open" =>
            k \in conns' /\ endpoint'[k] \in {"sleeping", "pushing"}
      BY <3>2, <3>3, <3>4 DEF FeedInv
    <3>6. \A q \in Pushes : \A k \in push'[q].dead : k \in Links /\ link'[k].bus = "closed"
      BY <2>0, <3>2, <3>4 DEF FeedInv
    <3> QED
      BY <3>2, <3>5, <3>6, OpenOnesStay
  <2>12. CASE ProxyRestart
    <3>1. /\ UNCHANGED <<endpoint, conns, push>>
          /\ \A k \in Links :
               /\ link'[k].browser = IF link[k].browser = "none" THEN "none" ELSE "closed"
               /\ link'[k].bus = IF link[k].bus = "none" THEN "none" ELSE "closed"
      BY <2>12 DEF ProxyRestart
    <3>2. \A t \in Tabs : tab'[t] = IF tab[t].ws \in Links THEN Alone ELSE tab[t]
      BY <2>12, ClosedTyped DEF ProxyRestart
    <3> QED
      BY <2>0, <3>1, <3>2, ClosedTyped DEF FeedInv
  <2>13. CASE FeedBusRestart
    <3>1. /\ tab' = tab /\ link' = Unfed(Links) /\ conns' = {}
          /\ \A p \in Pushes : push'[p].dead = {}
      BY <2>13 DEF FeedBusRestart, NoPush
    <3>2. \A k \in Links : link'[k].bus # "open"
      BY <2>0, <3>1, UnfedTyped
    <3> QED
      BY <3>1, <3>2, OpenOnesStay
  <2>14. CASE UNCHANGED feedVars
    BY <2>14 DEF feedVars, FeedInv
  <2> QED
    BY <2>1, <2>2, <2>3, <2>4, <2>5, <2>6, <2>7, <2>8, <2>9, <2>10, <2>11, <2>12, <2>13,
       <2>14 DEF FeedNext
<1> QED
  BY <1>1, <1>2, FeedTypeCorrect, PTL DEF FeedSpec

\* LiveIsFed of LiveFeed holds of every reachable state: for any number of pages,
\* sockets and overlapping pushes, a page that shows Live is in the bus's set with
\* an endpoint that pushes, once the bus has accepted it and until the bus's half
\* of its connection has ended.
THEOREM LiveDashboardsAreFed == FeedSpec => []LiveIsFed
<1>1. FeedTypeOK /\ FeedInv => LiveIsFed
  BY DEF FeedTypeOK, FeedInv, LiveIsFed, Halves
<1> QED
  BY <1>1, FeedInvariant, PTL

(***************************************************************************)
(* Registry                                                                *)
(***************************************************************************)
\* What RegistryTypeOK leaves out: an agent has a try left while it registers and
\* is in one of its lives while it is up.
InLife ==
  \A a \in Agents : /\ agent[a].pc = "registering" => agent[a].try < Tries
                    /\ agent[a].pc # "down" => agent[a].life \in 1..Lives

\* A request that has not deleted the old rows stands at the first new one.
AtFirstRow == \A r \in Requests : upsert[r].pc \in {"none", "checked"} => upsert[r].next = 1

RegistryInv == RegistryTypeOK /\ InLife /\ AtFirstRow

LEMMA RegistryInvariant == RegistrySpec => []RegistryInv
<1>1. RegistryInit => RegistryInv
  BY RegistryAssumption
  DEF RegistryInit, RegistryInv, RegistryTypeOK, InLife, AtFirstRow, AgentStages, UpsertStages,
      AllCaps, Requests
<1>2. RegistryInv /\ [RegistryNext]_registryVars => RegistryInv'
  <2> SUFFICES ASSUME RegistryInv, [RegistryNext]_registryVars PROVE RegistryInv'
    OBVIOUS
  <2> USE RegistryAssumption
      DEF RegistryInv, RegistryTypeOK, InLife, AtFirstRow, AgentStages, UpsertStages, Requests
  <2>1. ASSUME NEW a \in Agents, AgentStart(a) PROVE RegistryInv'
    BY <2>1 DEF AgentStart
  <2>2. ASSUME NEW a \in Agents, agent[a].pc = "registering", NEW done \in BOOLEAN,
               Tried(a, done)
        PROVE  /\ agent' \in [Agents -> [pc : AgentStages, try : 0..Tries, life : 0..Lives]]
               /\ InLife'
    <3> DEFINE t == agent[a].try + 1
               p == IF done \/ t = Tries THEN "declaring" ELSE "registering"
    <3>1. /\ agent' = [agent EXCEPT ![a].try = t, ![a].pc = p]
          /\ p \in {"registering", "declaring"}
      BY <2>2 DEF Tried
    <3>2. p = "registering" => t # Tries
      OBVIOUS
    <3>3. t \in 0..Tries /\ (t # Tries => t < Tries)
      BY <2>2
    <3> HIDE DEF t, p, Requests
    <3>4. agent' \in [Agents -> [pc : AgentStages, try : 0..Tries, life : 0..Lives]]
      <4> DEFINE x == [agent[a] EXCEPT !.try = t, !.pc = p]
      <4>1. x \in [pc : AgentStages, try : 0..Tries, life : 0..Lives]
        <5>1. /\ agent[a] \in [pc : AgentStages, try : 0..Tries, life : 0..Lives]
              /\ p \in AgentStages
          BY <3>1
        <5> HIDE DEF RegistryInv, RegistryTypeOK, AgentStages, InLife, AtFirstRow
        <5> QED
          BY <5>1, <3>3
      <4>2. agent' = [agent EXCEPT ![a] = x]
        BY <3>1
      <4> HIDE DEF x
      <4> QED
        BY <4>1, <4>2
    <3>5. /\ agent'[a].pc = p /\ agent'[a].try = t /\ agent'[a].life = agent[a].life
          /\ \A b \in Agents \ {a} : agent'[b] = agent[b]
      BY <3>1
    <3>6. agent[a].life \in 1..Lives
      BY <2>2
    <3>7. \A b \in Agents : /\ agent'[b].pc = "registering" => agent'[b].try < Tries
                            /\ agent'[b].pc # "down" => agent'[b].life \in 1..Lives
      BY <3>1, <3>2, <3>3, <3>5, <3>6
    <3> QED
      BY <3>4, <3>7
  <2>3. ASSUME NEW a \in Agents, RegisterAgent(a) PROVE RegistryInv'
    BY <2>2, <2>3 DEF RegisterAgent
  <2>4. ASSUME NEW a \in Agents, RegisterFails(a) PROVE RegistryInv'
    BY <2>2, <2>4 DEF RegisterFails
  <2>5. ASSUME NEW a \in Agents, DeclareCapabilities(a) PROVE RegistryInv'
    <3> DEFINE r == <<a, agent[a].life>>
    <3>1. r \in Requests
      BY <2>5 DEF DeclareCapabilities
    <3>2. \/ upsert[r].pc = "none" /\ upsert' = [upsert EXCEPT ![r].pc = "checked"] /\ agent' = agent
          \/ agent' = [agent EXCEPT ![a].pc = "subscribing"] /\ upsert' = upsert
      BY <2>5 DEF DeclareCapabilities, Subscribing
    <3>3. UNCHANGED <<rows, caps, saved, busStops, cut>>
      BY <2>5 DEF DeclareCapabilities
    <3> HIDE DEF r, Requests
    <3>4. /\ agent' \in [Agents -> [pc : AgentStages, try : 0..Tries, life : 0..Lives]]
          /\ InLife'
      <4>1. CASE agent' = agent
        BY <4>1
      <4>2. CASE agent' = [agent EXCEPT ![a].pc = "subscribing"]
        BY <4>2, <2>5 DEF DeclareCapabilities
      <4> QED
        BY <3>2, <4>1, <4>2
    <3>5. /\ upsert' \in [Requests -> [pc : UpsertStages, next : 1..(Declared + 1)]]
          /\ AtFirstRow'
      <4>1. CASE upsert' = upsert
        BY <4>1
      <4>2. CASE upsert[r].pc = "none" /\ upsert' = [upsert EXCEPT ![r].pc = "checked"]
        BY <4>2, <3>1
      <4> QED
        BY <3>2, <4>1, <4>2
    <3> QED
      BY <3>3, <3>4, <3>5
  <2>6. ASSUME NEW a \in Agents, SubscribeTopics(a) PROVE RegistryInv'
    BY <2>6 DEF SubscribeTopics
  <2>7. ASSUME NEW a \in Agents, AgentStops(a) PROVE RegistryInv'
    BY <2>7 DEF AgentStops
  <2>8. ASSUME NEW r \in Requests, UpsertDelete(r) PROVE RegistryInv'
    BY <2>8 DEF UpsertDelete
  <2>9. ASSUME NEW r \in Requests, UpsertInsert(r) PROVE RegistryInv'
    BY <2>9 DEF UpsertInsert, AllCaps
  <2>10. ASSUME NEW r \in Requests, UpsertClash(r) PROVE RegistryInv'
    BY <2>10 DEF UpsertClash
  <2>11. ASSUME NEW r \in Requests, UpsertCommit(r) PROVE RegistryInv'
    BY <2>11 DEF UpsertCommit
  <2>12. CASE BusStop
    BY <2>12 DEF BusStop
  <2>13. CASE UNCHANGED registryVars
    BY <2>13 DEF registryVars
  <2> QED
    BY <2>1, <2>3, <2>4, <2>5, <2>6, <2>7, <2>8, <2>9, <2>10, <2>11, <2>12, <2>13
    DEF RegistryNext
<1> QED
  BY <1>1, <1>2, PTL DEF RegistrySpec

\* RegistryTypeOK holds of every reachable state.
THEOREM RegistryTypeCorrect == RegistrySpec => []RegistryTypeOK
<1>1. RegistryInv => RegistryTypeOK
  BY DEF RegistryInv
<1> QED
  BY <1>1, RegistryInvariant, PTL

(***************************************************************************)
(* An agent's capabilities are whole: each that is missing is still to be  *)
(* inserted by a request nothing can stop before it gets there.            *)
(***************************************************************************)
Undeclared(a) == \A l \in 1..Lives : upsert[<<a, l>>].pc = "none"

\* Some request of a inserts c unless the bus stops: it is about to delete all there
\* is, or no row from where it stands up to c is in its way.
Coming(a, c) ==
  \/ \E l \in 1..Lives : upsert[<<a, l>>].pc = "checked"
  \/ \E l \in 1..Lives : /\ upsert[<<a, l>>].pc = "inserting" /\ upsert[<<a, l>>].next <= c
                         /\ \A k \in AllCaps : upsert[<<a, l>>].next <= k /\ k <= c
                                                 => k \notin caps[a]

\* c is there, or comes, or nothing was ever to be declared for a: the invariant.
CapabilityKept(a, c) == c \in caps[a] \/ Coming(a, c) \/ Undeclared(a)

\* An agent none of whose requests moves keeps what it has.
LEMMA Standstill ==
  ASSUME NEW a, NEW c, CapabilityKept(a, c), caps'[a] = caps[a],
         \A l \in 1..Lives : upsert'[<<a, l>>] = upsert[<<a, l>>]
  PROVE  CapabilityKept(a, c)'
BY DEF CapabilityKept, Coming, Undeclared

LEMMA DeclareKeeps ==
  ASSUME RegistryInv, NEW b \in Agents, DeclareCapabilities(b),
         NEW a \in Agents, NEW c \in AllCaps, CapabilityKept(a, c)
  PROVE  CapabilityKept(a, c)'
<1> DEFINE m == agent[b].life
<1>1. m \in 1..Lives
  BY DEF DeclareCapabilities, RegistryInv, InLife
<1>2. caps' = caps
  BY DEF DeclareCapabilities
<1>3. <<b, m>> \in Requests
  BY <1>1 DEF Requests
<1>4. CASE upsert' = upsert
  BY <1>2, <1>4, Standstill
<1>5. CASE upsert' = [upsert EXCEPT ![<<b, m>>].pc = "checked"]
  <2>1. upsert \in [Requests -> [pc : UpsertStages, next : 1..(Declared + 1)]]
    BY DEF RegistryInv, RegistryTypeOK
  <2>2. upsert'[<<b, m>>].pc = "checked"
    BY <1>3, <1>5, <2>1
  <2>3. CASE a = b
    BY <1>1, <2>2, <2>3 DEF CapabilityKept, Coming
  <2>4. CASE a # b
    <3>1. \A l \in 1..Lives : upsert'[<<a, l>>] = upsert[<<a, l>>]
      BY <1>5, <2>1, <2>4 DEF Requests
    <3> QED
      BY <1>2, <3>1, Standstill
  <2> QED
    BY <2>3, <2>4
<1> QED
  BY <1>4, <1>5 DEF DeclareCapabilities

\* The old rows go, and the request that has deleted them brings all the new ones.
LEMMA DeleteKeeps ==
  ASSUME RegistryInv, NEW r \in Requests, UpsertDelete(r),
         NEW a \in Agents, NEW c \in AllCaps, CapabilityKept(a, c)
  PROVE  CapabilityKept(a, c)'
<1> PICK b \in Agents, m \in 1..Lives : r = <<b, m>>
  BY DEF Requests
<1>1. /\ upsert \in [Requests -> [pc : UpsertStages, next : 1..(Declared + 1)]]
      /\ caps \in [Agents -> SUBSET AllCaps]
      /\ upsert[r].next = 1
  BY DEF RegistryInv, RegistryTypeOK, AtFirstRow, UpsertDelete
<1>2. /\ upsert' = [upsert EXCEPT ![r].pc = "inserting"]
      /\ caps' = [caps EXCEPT ![b] = {}]
  BY DEF UpsertDelete
<1>3. CASE a = b
  <2>1. /\ upsert'[<<a, m>>].pc = "inserting" /\ upsert'[<<a, m>>].next = 1
        /\ caps'[a] = {}
    BY <1>1, <1>2, <1>3
  <2>2. 1 <= c
    BY DEF AllCaps
  <2> QED
    BY <2>1, <2>2 DEF CapabilityKept, Coming
<1>4. CASE a # b
  <2>1. /\ \A l \in 1..Lives : upsert'[<<a, l>>] = upsert[<<a, l>>]
        /\ caps'[a] = caps[a]
    BY <1>1, <1>2, <1>4 DEF Requests
  <2> QED
    BY <2>1, Standstill
<1> QED
  BY <1>3, <1>4

\* A row is in nobody's way: whoever was to bring c from below it stands above it now.
LEMMA InsertKeeps ==
  ASSUME RegistryInv, NEW r \in Requests, UpsertInsert(r),
         NEW a \in Agents, NEW c \in AllCaps, CapabilityKept(a, c)
  PROVE  CapabilityKept(a, c)'
<1> USE RegistryAssumption
<1> PICK b \in Agents, m \in 1..Lives : r = <<b, m>>
  BY DEF Requests
<1> DEFINE n == upsert[r].next
<1>1. /\ upsert \in [Requests -> [pc : UpsertStages, next : 1..(Declared + 1)]]
      /\ caps \in [Agents -> SUBSET AllCaps]
  BY DEF RegistryInv, RegistryTypeOK
<1>2. /\ upsert[r].pc = "inserting" /\ n \in AllCaps /\ n \notin caps[b]
      /\ upsert' = [upsert EXCEPT ![r].next = n + 1]
      /\ caps' = [caps EXCEPT ![b] = @ \cup {n}]
  BY <1>1 DEF UpsertInsert, AllCaps
<1>3. CASE a = b
  <2>1. /\ upsert'[<<a, m>>].pc = "inserting" /\ upsert'[<<a, m>>].next = n + 1
        /\ \A l \in 1..Lives : l # m => upsert'[<<a, l>>] = upsert[<<a, l>>]
        /\ caps'[a] = caps[a] \cup {n}
    BY <1>1, <1>2, <1>3 DEF Requests
  <2>2. CASE c \in caps[a]
    BY <2>1, <2>2 DEF CapabilityKept
  <2>3. CASE \E l \in 1..Lives : upsert[<<a, l>>].pc = "checked"
    <3>1. PICK l \in 1..Lives : upsert[<<a, l>>].pc = "checked"
      BY <2>3
    <3>2. l # m
      BY <1>2, <1>3, <3>1
    <3> QED
      BY <2>1, <3>1, <3>2 DEF CapabilityKept, Coming
  <2>4. ASSUME NEW l \in 1..Lives, upsert[<<a, l>>].pc = "inserting",
               upsert[<<a, l>>].next <= c,
               \A k \in AllCaps : upsert[<<a, l>>].next <= k /\ k <= c => k \notin caps[a]
        PROVE  CapabilityKept(a, c)'
    <3> DEFINE x == upsert[<<a, l>>].next
    <3>0. x \in Nat /\ n \in Nat /\ c \in Nat /\ \A k \in AllCaps : k \in Nat
      BY <1>1, <1>2 DEF Requests, AllCaps
    <3>1. CASE n = c
      BY <2>1, <3>1 DEF CapabilityKept
    <3>2. CASE n # c /\ x <= n /\ n <= c
      <4>1. n + 1 <= c /\ \A k \in AllCaps : n + 1 <= k /\ k <= c => k \notin caps[a] \cup {n}
        BY <2>4, <3>0, <3>2
      <4> QED
        BY <2>1, <4>1 DEF CapabilityKept, Coming
    <3>3. CASE ~(x <= n /\ n <= c)
      <4>1. l # m
        <5>1. l = m => x = n
          BY <1>3
        <5>2. l = m => n <= c
          BY <2>4, <5>1
        <5> QED
          BY <3>0, <3>3, <5>1, <5>2
      <4>2. \A k \in AllCaps : x <= k /\ k <= c => k \notin caps[a] \cup {n}
        BY <2>4, <3>3
      <4> QED
        BY <2>1, <2>4, <4>1, <4>2 DEF CapabilityKept, Coming
    <3> QED
      BY <3>1, <3>2, <3>3
  <2>5. ~Undeclared(a)
    BY <1>2, <1>3 DEF Undeclared
  <2> QED
    BY <2>2, <2>3, <2>4, <2>5 DEF CapabilityKept, Coming
<1>4. CASE a # b
  <2>1. /\ \A l \in 1..Lives : upsert'[<<a, l>>] = upsert[<<a, l>>]
        /\ caps'[a] = caps[a]
    BY <1>1, <1>2, <1>4 DEF Requests
  <2> QED
    BY <2>1, Standstill
<1> QED
  BY <1>3, <1>4

\* A request that ends is not the one that brings c: there is a row in its way, or it
\* has inserted all of them.
LEMMA EndKeeps ==
  ASSUME RegistryInv, NEW r \in Requests, UpsertClash(r) \/ UpsertCommit(r),
         NEW a \in Agents, NEW c \in AllCaps, CapabilityKept(a, c)
  PROVE  CapabilityKept(a, c)'
<1> USE RegistryAssumption
<1> PICK b \in Agents, m \in 1..Lives : r = <<b, m>>
  BY DEF Requests
<1> DEFINE n == upsert[r].next
<1>1. /\ upsert \in [Requests -> [pc : UpsertStages, next : 1..(Declared + 1)]]
      /\ caps \in [Agents -> SUBSET AllCaps]
  BY DEF RegistryInv, RegistryTypeOK
<1>2. /\ upsert[r].pc = "inserting" /\ caps' = caps
      /\ upsert' = [upsert EXCEPT ![r].pc = "ended"]
      /\ n \in caps[b] \/ n > Declared
  BY DEF UpsertClash, UpsertCommit
<1>3. CASE a = b
  <2>1. \A l \in 1..Lives : l # m => upsert'[<<a, l>>] = upsert[<<a, l>>]
    BY <1>1, <1>2, <1>3 DEF Requests
  <2>2. CASE c \in caps[a]
    BY <1>2, <2>2 DEF CapabilityKept
  <2>3. CASE \E l \in 1..Lives : upsert[<<a, l>>].pc = "checked"
    <3>1. PICK l \in 1..Lives : upsert[<<a, l>>].pc = "checked"
      BY <2>3
    <3>2. l # m
      BY <1>2, <1>3, <3>1
    <3> QED
      BY <2>1, <3>1, <3>2 DEF CapabilityKept, Coming
  <2>4. ASSUME NEW l \in 1..Lives, upsert[<<a, l>>].pc = "inserting",
               upsert[<<a, l>>].next <= c,
               \A k \in AllCaps : upsert[<<a, l>>].next <= k /\ k <= c => k \notin caps[a]
        PROVE  CapabilityKept(a, c)'
    <3>1. ~(n <= c /\ n \in caps[a] /\ l = m)
      BY <1>1, <1>3, <2>4 DEF AllCaps
    <3>2. n > Declared => ~(n <= c)
      BY <1>1 DEF AllCaps
    <3>3. l = m => n <= c
      BY <1>3, <2>4
    <3>4. l # m
      BY <1>2, <1>3, <3>1, <3>2, <3>3
    <3> QED
      BY <1>2, <2>1, <2>4, <3>4 DEF CapabilityKept, Coming
  <2>5. ~Undeclared(a)
    BY <1>2, <1>3 DEF Undeclared
  <2> QED
    BY <2>2, <2>3, <2>4, <2>5 DEF CapabilityKept, Coming
<1>4. CASE a # b
  <2>1. /\ \A l \in 1..Lives : upsert'[<<a, l>>] = upsert[<<a, l>>]
        /\ caps'[a] = caps[a]
    BY <1>1, <1>2, <1>4 DEF Requests
  <2> QED
    BY <2>1, Standstill
<1> QED
  BY <1>3, <1>4

\* A bus that stops leaves alone the agents nothing was at work for and whose rows were
\* committed.
LEMMA StopKeeps ==
  ASSUME RegistryInv, BusStop, NEW a \in Agents \ cut', NEW c \in AllCaps, CapabilityKept(a, c)
  PROVE  CapabilityKept(a, c)'
<1>1. AtWorkFor(a) = {} /\ caps[a] = saved.caps[a]
  BY DEF BusStop
<1>2. caps'[a] = caps[a]
  BY <1>1 DEF BusStop
<1>3. ASSUME NEW l \in 1..Lives PROVE upsert'[<<a, l>>] = upsert[<<a, l>>]
  <2>1. <<a, l>> \in Requests
    BY DEF Requests
  <2>2. upsert[<<a, l>>].pc \notin {"checked", "inserting"}
    BY <1>1, <2>1 DEF AtWorkFor
  <2> QED
    BY <2>1, <2>2 DEF BusStop
<1> QED
  BY <1>2, <1>3, Standstill

\* Whatever requests of however many lives of an agent are at work at a time: when none
\* is, its capabilities are all there.
THEOREM CapabilitiesAreWhole == RegistrySpec => []CapabilitiesWhole
<1> DEFINE Inv == \A a \in Agents \ cut : \A c \in AllCaps : CapabilityKept(a, c)
<1>1. RegistryInit => Inv
  BY DEF RegistryInit, CapabilityKept, Undeclared, Requests
<1>2. RegistryInv /\ Inv /\ [RegistryNext]_registryVars => Inv'
  <2> SUFFICES ASSUME RegistryInv, Inv, [RegistryNext]_registryVars,
                      NEW a \in Agents \ cut', NEW c \in AllCaps
               PROVE  CapabilityKept(a, c)'
    OBVIOUS
  <2>1. a \notin cut
    BY DEF RegistryNext, registryVars, AgentStart, RegisterAgent, RegisterFails,
           DeclareCapabilities, SubscribeTopics, AgentStops, UpsertDelete, UpsertInsert,
           UpsertClash, UpsertCommit, BusStop
  <2>2. CapabilityKept(a, c)
    BY <2>1
  <2>3. CASE UNCHANGED <<caps, upsert>>
    BY <2>2, <2>3, Standstill
  <2>4. ASSUME NEW b \in Agents,
               \/ AgentStart(b) \/ RegisterAgent(b) \/ RegisterFails(b)
               \/ SubscribeTopics(b) \/ AgentStops(b)
        PROVE  UNCHANGED <<caps, upsert>>
    BY <2>4 DEF AgentStart, RegisterAgent, RegisterFails, SubscribeTopics, AgentStops
  <2>5. CASE UNCHANGED registryVars
    BY <2>3, <2>5 DEF registryVars
  <2> HIDE DEF Inv
  <2> QED
    BY <2>2, <2>3, <2>4, <2>5, DeclareKeeps, DeleteKeeps, InsertKeeps, EndKeeps, StopKeeps
    DEF RegistryNext
<1>3. RegistryInv /\ Inv => CapabilitiesWhole
  <2> SUFFICES ASSUME RegistryInv, Inv, NEW a \in Agents \ cut, AtWorkFor(a) = {}, ~Undeclared(a)
               PROVE  caps[a] = AllCaps
    BY DEF CapabilitiesWhole, Undeclared
  <2>1. ASSUME NEW l \in 1..Lives PROVE upsert[<<a, l>>].pc \notin {"checked", "inserting"}
    BY DEF AtWorkFor, Requests
  <2>2. \A c \in AllCaps : c \in caps[a]
    BY <2>1 DEF CapabilityKept, Coming
  <2> QED
    BY <2>2 DEF RegistryInv, RegistryTypeOK
<1> QED
  BY <1>1, <1>2, <1>3, RegistryInvariant, PTL DEF RegistrySpec

(***************************************************************************)
(* Workbench                                                               *)
(***************************************************************************)
DraftStages == {"new", "delivered", "dead"} \cup Working
DraftRows == [stage : DraftStages, wrote : SUBSET Paths, claims : SUBSET Paths,
         cut : SUBSET Paths, self : Reports, review : Reports,
         rounds : 0..2, halfway : BOOLEAN, reviewed : BOOLEAN]
KnownFiles == {NoFile} \cup [by : Drafts, clean : BOOLEAN]

WorkTyped == disk \in [Engineers -> [Paths -> KnownFiles]] /\ draft \in [Drafts -> DraftRows]

\* How far the draft is: what has been tested and how often it was answered.
Progress(d) ==
  /\ draft[d].stage = "new" => /\ draft[d].rounds = 0 /\ draft[d].self = Untested
                               /\ \A p \in Paths : ~Stands(d, p)
  /\ draft[d].stage \in {"built", "repair"} => draft[d].rounds = 1
  /\ draft[d].stage = "built" => draft[d].self = Untested
  /\ draft[d].stage = "rebuilt" => draft[d].rounds = 2
  /\ ~draft[d].reviewed => draft[d].review = Untested
  /\ draft[d].stage \notin {"delivered"} => ~draft[d].reviewed

\* What a report says of a file the draft left there is the case from the test on.
FileTold(d, p) ==
  Stands(d, p) =>
    /\ draft[d].stage # "dead" =>
         p \in draft[d].wrote \/ p \in draft[d].cut \/ draft[d].rounds = 2 \/ draft[d].halfway
    /\ p \in draft[d].wrote /\ draft[d].stage \in {"repair", "delivered"} =>
         draft[d].halfway \/ Agrees(draft[d].self, d, p)
    /\ p \in draft[d].wrote => Agrees(draft[d].review, d, p)

DraftInv(d) == Progress(d) /\ \A p \in Paths : FileTold(d, p)
WorkInv == WorkTyped /\ \A d \in Drafts : DraftInv(d)

\* The one assumption on the constants, as the proofs use it.
LEMMA AuthorsKnown ==
  ASSUME NEW d \in Drafts
  PROVE  Author[d] \in Engineers /\ d # NoDraft
  BY AuthorAssumption

\* What an answer leaves in its author's workspace, and in nobody else's.
LEMMA FilesWritten ==
  ASSUME WorkTyped, NEW d \in Drafts, NEW ans \in Answers, disk' = Applied(d, ans)
  PROVE  /\ disk' \in [Engineers -> [Paths -> KnownFiles]]
         /\ \A p \in Paths : ans[p] \in {"absent", "refused"} =>
              disk'[Author[d]][p] = disk[Author[d]][p]
         /\ \A p \in Paths : ans[p] \notin {"absent", "refused"} =>
              disk'[Author[d]][p].by = d
         /\ \A e \in Drafts, p \in Paths : e # d =>
              \/ disk'[Author[e]][p] = disk[Author[e]][p]
              \/ disk'[Author[e]][p].by # e
<1> DEFINE File(p) == [by |-> d, clean |-> ans[p] = "clean"]
           TheirFiles == [p \in Paths |-> IF ans[p] \in {"absent", "refused"}
                                    THEN disk[Author[d]][p] ELSE File(p)]
<1>1. Author[d] \in Engineers
  BY AuthorsKnown
<1>2. \A p \in Paths : File(p) \in KnownFiles /\ File(p).by = d
  <2> SUFFICES ASSUME NEW p \in Paths PROVE File(p) \in KnownFiles /\ File(p).by = d
    OBVIOUS
  <2> DEFINE isClean == (ans[p] = "clean")
  <2>1. isClean \in BOOLEAN
    OBVIOUS
  <2>2. File(p) = [by |-> d, clean |-> isClean]
    OBVIOUS
  <2> HIDE DEF isClean, File
  <2>3. QED BY <2>1, <2>2 DEF KnownFiles
<1> HIDE DEF File
<1>3. disk[Author[d]] \in [Paths -> KnownFiles]
  BY <1>1 DEF WorkTyped
<1>4. TheirFiles \in [Paths -> KnownFiles]
  BY <1>2, <1>3
<1>5. disk' = [disk EXCEPT ![Author[d]] = TheirFiles]
  BY DEF Applied, File
<1>6. \A p \in Paths : TheirFiles[p] = IF ans[p] \in {"absent", "refused"}
                                 THEN disk[Author[d]][p] ELSE File(p)
  OBVIOUS
<1> HIDE DEF TheirFiles
<1>7. disk' \in [Engineers -> [Paths -> KnownFiles]]
  BY <1>1, <1>4, <1>5 DEF WorkTyped
<1>8. disk'[Author[d]] = TheirFiles
  BY <1>1, <1>5 DEF WorkTyped
<1>9. \A e \in Drafts, p \in Paths : e # d =>
              \/ disk'[Author[e]][p] = disk[Author[e]][p]
              \/ disk'[Author[e]][p].by # e
  <2> SUFFICES ASSUME NEW e \in Drafts, NEW p \in Paths, e # d
               PROVE  \/ disk'[Author[e]][p] = disk[Author[e]][p]
                      \/ disk'[Author[e]][p].by # e
    OBVIOUS
  <2>1. CASE Author[e] = Author[d]
    BY <2>1, <1>2, <1>6, <1>8
  <2>2. CASE Author[e] # Author[d]
    BY <2>2, <1>5, AuthorsKnown DEF WorkTyped
  <2>3. QED BY <2>1, <2>2
<1>10. QED BY <1>2, <1>6, <1>7, <1>8, <1>9

\* A draft nothing is done with keeps what is said of it: its files are as
\* they were or no longer its own.
LEMMA OthersStand ==
  ASSUME NEW e \in Drafts, DraftInv(e), draft'[e] = draft[e],
         \A p \in Paths : \/ disk'[Author[e]][p] = disk[Author[e]][p]
                          \/ disk'[Author[e]][p].by # e
  PROVE  DraftInv(e)'
<1>1. \A p \in Paths : Stands(e, p)' => Stands(e, p) /\ disk'[Author[e]][p] = disk[Author[e]][p]
  BY DEF Stands
<1>2. Progress(e)'
  BY <1>1 DEF DraftInv, Progress
<1>3. ASSUME NEW p \in Paths PROVE FileTold(e, p)'
  <2> SUFFICES ASSUME Stands(e, p)' PROVE FileTold(e, p)'
    BY DEF FileTold
  <2>1. Stands(e, p) /\ disk'[Author[e]][p] = disk[Author[e]][p]
    BY <1>1
  <2>2. FileTold(e, p)
    BY DEF DraftInv
  <2>3. QED BY <2>1, <2>2 DEF FileTold, Agrees
<1>4. QED BY <1>2, <1>3 DEF DraftInv

\* A step that leaves the files alone and moves one draft on.
LEMMA DraftUntouched ==
  ASSUME WorkInv, NEW d \in Drafts, NEW x \in DraftRows, UNCHANGED disk,
         draft' = [draft EXCEPT ![d] = x], DraftInv(d)'
  PROVE  WorkInv'
<1>1. draft' \in [Drafts -> DraftRows]
  BY DEF WorkInv, WorkTyped
<1>2. ASSUME NEW e \in Drafts, e # d PROVE DraftInv(e)'
  <2>1. draft'[e] = draft[e]
    BY <1>2 DEF WorkInv, WorkTyped
  <2>2. QED BY <2>1, OthersStand DEF WorkInv
<1>3. QED BY <1>1, <1>2 DEF WorkInv, WorkTyped

\* A step that applies an answer and moves its draft on.
LEMMA AnsweredSoFar ==
  ASSUME WorkInv, NEW d \in Drafts, NEW ans \in Answers, NEW x \in DraftRows,
         disk' = Applied(d, ans), draft' = [draft EXCEPT ![d] = x], DraftInv(d)'
  PROVE  WorkInv'
<1>1. draft' \in [Drafts -> DraftRows]
  BY DEF WorkInv, WorkTyped
<1>w. WorkTyped
  BY DEF WorkInv
<1>2. ASSUME NEW e \in Drafts, e # d PROVE DraftInv(e)'
  <2>1. draft'[e] = draft[e]
    BY <1>2 DEF WorkInv, WorkTyped
  <2>2. \A p \in Paths : \/ disk'[Author[e]][p] = disk[Author[e]][p]
                         \/ disk'[Author[e]][p].by # e
    BY <1>2, <1>w, FilesWritten
  <2>3. DraftInv(e)
    BY DEF WorkInv
  <2>4. QED BY <2>1, <2>2, <2>3, OthersStand
<1>3. QED BY <1>1, <1>2, <1>w, FilesWritten DEF WorkInv, WorkTyped

\* The row of a draft to which an answer was applied.
LEMMA DeliveringRow ==
  ASSUME WorkTyped, NEW d \in Drafts, NEW ans \in Answers, NEW s \in DraftStages,
         draft[d].rounds \in 0..1
  PROVE  LET x == [Delivering(d, ans) EXCEPT !.stage = s] IN
         /\ x \in DraftRows /\ x.stage = s
         /\ x.wrote = Wrote(ans) /\ x.cut = draft[d].cut \cup Cut(ans)
         /\ x.rounds = draft[d].rounds + 1
         /\ x.self = draft[d].self /\ x.review = draft[d].review
         /\ x.halfway = draft[d].halfway /\ x.reviewed = draft[d].reviewed
<1> DEFINE x == [Delivering(d, ans) EXCEPT !.stage = s]
           w == Wrote(ans)
           c == Claimed(ans)
           k == Cut(ans)
           n == draft[d].rounds + 1
<1>1. w \in SUBSET Paths /\ c \in SUBSET Paths /\ k \in SUBSET Paths
  BY DEF Wrote, Claimed, Cut
<1>2. draft[d] \in DraftRows
  BY DEF WorkTyped
<1>3. n \in 0..2
  OBVIOUS
<1>4. x = [draft[d] EXCEPT !.stage = s, !.wrote = w, !.claims = c,
                           !.cut = draft[d].cut \cup k, !.rounds = n]
  BY <1>2 DEF Delivering, DraftRows
<1> HIDE DEF w, c, k, n, x
<1>5. /\ x \in DraftRows /\ x.stage = s /\ x.wrote = w /\ x.cut = draft[d].cut \cup k /\ x.rounds = n
      /\ x.self = draft[d].self /\ x.review = draft[d].review
      /\ x.halfway = draft[d].halfway /\ x.reviewed = draft[d].reviewed
  BY <1>1, <1>2, <1>3, <1>4 DEF DraftRows
<1>6. QED BY <1>5 DEF x, w, k, n

\* A file that stands after an answer was listed, was cut short, or stood before.
LEMMA StandsAfter ==
  ASSUME WorkTyped, NEW d \in Drafts, NEW ans \in Answers, disk' = Applied(d, ans),
         NEW p \in Paths, Stands(d, p)'
  PROVE  p \in Wrote(ans) \/ p \in Cut(ans) \/ Stands(d, p)
<1>1. ans[p] \in Outcomes
  BY DEF Answers
<1>2. CASE ans[p] \in {"absent", "refused"}
  BY <1>2, FilesWritten DEF Stands
<1>3. CASE ans[p] \notin {"absent", "refused"}
  BY <1>1, <1>3 DEF Outcomes, Wrote, Cut
<1>4. QED BY <1>2, <1>3

\* A test that is reached tells the case of every file the draft left.
LEMMA TestTells ==
  ASSUME WorkTyped, NEW d \in Drafts, NEW S \in SUBSET Paths, NEW reached \in BOOLEAN
  PROVE  LET t == Tested(Author[d], S, reached) IN
         /\ t \in Reports
         /\ \A p \in S : Stands(d, p) => Agrees(t, d, p)
<1> DEFINE t == Tested(Author[d], S, reached)
<1>1. CASE ~reached
  <2>1. t = Untested
    BY <1>1 DEF Tested
  <2> HIDE DEF t
  <2>2. QED BY <2>1 DEF Untested, Reports, Agrees, t
<1>2. CASE reached
  <2> DEFINE b == {p \in S : disk[Author[d]][p] = NoFile \/ ~disk[Author[d]][p].clean}
  <2>1. t = [reached |-> TRUE, over |-> S, bad |-> b]
    BY <1>2 DEF Tested
  <2>2. b \in SUBSET Paths
    OBVIOUS
  <2>3. \A p \in S : Stands(d, p) => (p \in b <=> ~disk[Author[d]][p].clean)
    BY AuthorsKnown DEF Stands, NoFile
  <2> HIDE DEF t, b
  <2>4. t \in Reports
    BY <2>1, <2>2 DEF Reports
  <2>5. \A p \in S : Stands(d, p) => Agrees(t, d, p)
    BY <2>1, <2>3 DEF Agrees
  <2>6. QED BY <2>4, <2>5 DEF t
<1>3. QED BY <1>1, <1>2

\* A test of any workspace makes a report.
LEMMA TestTyped ==
  ASSUME NEW a \in Engineers, NEW S \in SUBSET Paths, NEW reached \in BOOLEAN
  PROVE  Tested(a, S, reached) \in Reports
<1> DEFINE b == {p \in S : disk[a][p] = NoFile \/ ~disk[a][p].clean}
           t == Tested(a, S, reached)
<1>1. b \in SUBSET Paths
  OBVIOUS
<1>2. t = IF ~reached THEN Untested ELSE [reached |-> TRUE, over |-> S, bad |-> b]
  BY DEF Tested
<1> HIDE DEF b, t
<1>3. t \in Reports
  BY <1>1, <1>2 DEF Untested, Reports
<1>4. QED BY <1>3 DEF t

\* A first answer, delivered (Revise), kept for the test (Build) or lost
\* half-way (BuildRaises).
LEMMA FirstAnswer ==
  ASSUME WorkInv, NEW d \in Drafts, NEW ans \in Answers, NEW s \in {"built", "delivered"},
         draft[d].stage = "new", disk' = Applied(d, ans),
         draft' = [draft EXCEPT ![d] = [Delivering(d, ans) EXCEPT !.stage = s]]
  PROVE  WorkInv'
<1> DEFINE x == [Delivering(d, ans) EXCEPT !.stage = s]
<1>1. WorkTyped /\ DraftInv(d)
  BY DEF WorkInv
<1>2. /\ draft[d].rounds = 0 /\ draft[d].self = Untested /\ draft[d].review = Untested
      /\ ~draft[d].reviewed /\ \A p \in Paths : ~Stands(d, p)
  BY <1>1 DEF DraftInv, Progress
<1>3. s \in DraftStages
  BY DEF DraftStages, Working
<1>4. /\ x \in DraftRows /\ x.stage = s
      /\ x.wrote = Wrote(ans) /\ x.cut = draft[d].cut \cup Cut(ans)
      /\ x.rounds = draft[d].rounds + 1
      /\ x.self = draft[d].self /\ x.review = draft[d].review
      /\ x.halfway = draft[d].halfway /\ x.reviewed = draft[d].reviewed
  BY <1>1, <1>2, <1>3, DeliveringRow
<1> HIDE DEF x
<1>5. draft' = [draft EXCEPT ![d] = x]
  BY DEF x
<1>6. draft'[d] = x
  BY <1>1, <1>5 DEF WorkTyped
<1>7. x.rounds = 1
  BY <1>2, <1>4
<1>8. Progress(d)'
  BY <1>2, <1>4, <1>6, <1>7 DEF Progress
<1>9. ASSUME NEW p \in Paths PROVE FileTold(d, p)'
  <2> SUFFICES ASSUME Stands(d, p)' PROVE FileTold(d, p)'
    BY DEF FileTold
  <2>1. p \in x.wrote \/ p \in x.cut
    BY <1>1, <1>2, <1>4, StandsAfter
  <2>2. ~x.self.reached /\ ~x.review.reached
    BY <1>2, <1>4 DEF Untested
  <2>3. QED BY <1>6, <2>1, <2>2 DEF FileTold, Agrees
<1>10. QED BY <1>4, <1>5, <1>8, <1>9, AnsweredSoFar DEF DraftInv

LEMMA BuildStep ==
  ASSUME WorkInv, NEW d \in Drafts, NEW ans \in Answers, Build(d, ans) PROVE WorkInv'
  BY FirstAnswer DEF Build

LEMMA ReviseStep ==
  ASSUME WorkInv, NEW d \in Drafts, NEW ans \in Answers, Revise(d, ans) PROVE WorkInv'
  BY FirstAnswer DEF Revise

LEMMA BuildRaisesStep ==
  ASSUME WorkInv, NEW d \in Drafts, NEW ans \in Answers, BuildRaises(d, ans) PROVE WorkInv'
<1> DEFINE x == [draft[d] EXCEPT !.stage = "dead"]
<1>1. WorkTyped /\ DraftInv(d) /\ draft[d] \in DraftRows
  BY DEF WorkInv, WorkTyped
<1>2. ~draft[d].reviewed /\ draft[d].review = Untested
  BY <1>1 DEF DraftInv, Progress, BuildRaises
<1>3. /\ x \in DraftRows /\ x.stage = "dead" /\ x.reviewed = draft[d].reviewed
      /\ x.review = draft[d].review
  BY <1>1 DEF DraftRows, DraftStages
<1>4. draft' = [draft EXCEPT ![d] = x]
  BY DEF BuildRaises
<1> HIDE DEF x
<1>5. draft'[d] = x
  BY <1>1, <1>4 DEF WorkTyped
<1>6. Progress(d)'
  BY <1>2, <1>3, <1>5 DEF Progress
<1>7. \A p \in Paths : FileTold(d, p)'
  BY <1>2, <1>3, <1>5 DEF FileTold, Agrees, Untested
<1>8. disk' = Applied(d, ans)
  BY DEF BuildRaises
<1>9. QED BY <1>3, <1>4, <1>6, <1>7, <1>8, AnsweredSoFar DEF DraftInv

\* The corrected answer: what it wrote is all the payload lists from now on.
LEMMA RepairStep ==
  ASSUME WorkInv, NEW d \in Drafts, NEW ans \in Answers, Repair(d, ans) PROVE WorkInv'
<1> DEFINE x == [Delivering(d, ans) EXCEPT !.stage = "rebuilt"]
<1>1. WorkTyped /\ DraftInv(d)
  BY DEF WorkInv
<1>2. /\ draft[d].rounds = 1 /\ draft[d].review = Untested /\ ~draft[d].reviewed
  BY <1>1 DEF DraftInv, Progress, Repair
<1>3. /\ x \in DraftRows /\ x.stage = "rebuilt" /\ x.rounds = draft[d].rounds + 1
      /\ x.review = draft[d].review /\ x.reviewed = draft[d].reviewed
  <2>1. "rebuilt" \in DraftStages
    BY DEF DraftStages, Working
  <2>2. QED BY <1>1, <1>2, <2>1, DeliveringRow
<1> HIDE DEF x
<1>4. disk' = Applied(d, ans) /\ draft' = [draft EXCEPT ![d] = x]
  BY DEF Repair, x
<1>5. draft'[d] = x
  BY <1>1, <1>4 DEF WorkTyped
<1>6. x.rounds = 2
  BY <1>2, <1>3
<1>7. Progress(d)'
  BY <1>2, <1>3, <1>5, <1>6 DEF Progress
<1>8. \A p \in Paths : FileTold(d, p)'
  BY <1>2, <1>3, <1>5, <1>6 DEF FileTold, Agrees, Untested
<1>9. QED BY <1>3, <1>4, <1>7, <1>8, AnsweredSoFar DEF DraftInv

\* The corrected answer raised: the payload says so.
LEMMA RepairRaisesStep ==
  ASSUME WorkInv, NEW d \in Drafts, NEW ans \in Answers, RepairRaises(d, ans) PROVE WorkInv'
<1> DEFINE x == [draft[d] EXCEPT !.stage = "delivered", !.halfway = TRUE]
<1>1. WorkTyped /\ DraftInv(d) /\ draft[d] \in DraftRows
  BY DEF WorkInv, WorkTyped
<1>2. draft[d].review = Untested /\ ~draft[d].reviewed
  BY <1>1 DEF DraftInv, Progress, RepairRaises
<1>3. /\ x \in DraftRows /\ x.stage = "delivered" /\ x.halfway = TRUE
      /\ x.review = draft[d].review /\ x.reviewed = draft[d].reviewed
  BY <1>1 DEF DraftRows, DraftStages
<1>4. disk' = Applied(d, ans) /\ draft' = [draft EXCEPT ![d] = x]
  <2>1. /\ draft' = [draft EXCEPT ![d].stage = "delivered", ![d].halfway = TRUE]
        /\ disk' = Applied(d, ans)
    BY DEF RepairRaises
  <2>2. [draft EXCEPT ![d].stage = "delivered", ![d].halfway = TRUE] = [draft EXCEPT ![d] = x]
    BY <1>1 DEF WorkTyped
  <2>3. QED BY <2>1, <2>2
<1> HIDE DEF x
<1>5. draft'[d] = x
  BY <1>1, <1>4 DEF WorkTyped
<1>6. Progress(d)'
  BY <1>2, <1>3, <1>5 DEF Progress
<1>7. \A p \in Paths : FileTold(d, p)'
  BY <1>2, <1>3, <1>5 DEF FileTold, Agrees, Untested
<1>8. QED BY <1>3, <1>4, <1>6, <1>7, AnsweredSoFar DEF DraftInv

\* A test of the files the draft lists, first or repeated: what it says is so.
LEMMA Tests ==
  ASSUME WorkInv, NEW d \in Drafts, NEW reached \in BOOLEAN, NEW s \in {"repair", "delivered"},
         \/ draft[d].stage = "built"
         \/ draft[d].stage = "rebuilt" /\ s = "delivered",
         UNCHANGED disk,
         draft' = [draft EXCEPT ![d] = [draft[d] EXCEPT !.stage = s,
                     !.self = Tested(Author[d], draft[d].wrote, reached)]]
  PROVE  WorkInv'
<1> DEFINE t == Tested(Author[d], draft[d].wrote, reached)
           x == [draft[d] EXCEPT !.stage = s, !.self = t]
<1>1. WorkTyped /\ DraftInv(d) /\ draft[d] \in DraftRows
  BY DEF WorkInv, WorkTyped
<1>2. draft[d].review = Untested /\ ~draft[d].reviewed
  BY <1>1 DEF DraftInv, Progress
<1>3. draft[d].wrote \in SUBSET Paths
  BY <1>1 DEF DraftRows
<1>4. t \in Reports /\ \A p \in draft[d].wrote : Stands(d, p) => Agrees(t, d, p)
  BY <1>1, <1>3, TestTells
<1>5. draft' = [draft EXCEPT ![d] = x]
  OBVIOUS
<1> HIDE DEF t
<1>6. /\ x \in DraftRows /\ x.stage = s /\ x.self = t /\ x.rounds = draft[d].rounds
      /\ x.wrote = draft[d].wrote /\ x.cut = draft[d].cut /\ x.halfway = draft[d].halfway
      /\ x.review = draft[d].review /\ x.reviewed = draft[d].reviewed
  BY <1>1, <1>4 DEF DraftRows, DraftStages, Working
<1> HIDE DEF x
<1>7. draft'[d] = x
  BY <1>1, <1>5 DEF WorkTyped
<1>8. Progress(d)'
  BY <1>1, <1>2, <1>6, <1>7 DEF DraftInv, Progress
<1>9. ASSUME NEW p \in Paths PROVE FileTold(d, p)'
  <2> SUFFICES ASSUME Stands(d, p)' PROVE FileTold(d, p)'
    BY DEF FileTold
  <2>1. Stands(d, p)
    BY DEF Stands
  <2>2. p \in x.wrote \/ p \in x.cut \/ x.rounds = 2 \/ x.halfway
    BY <1>1, <1>6, <2>1 DEF DraftInv, FileTold
  <2>3. p \in x.wrote => Agrees(t, d, p)
    BY <1>4, <1>6, <2>1
  <2>4. ~x.review.reached
    BY <1>2, <1>6 DEF Untested
  <2>5. QED BY <1>6, <1>7, <2>2, <2>3, <2>4 DEF FileTold, Agrees
<1>10. QED BY <1>5, <1>6, <1>8, <1>9, DraftUntouched DEF DraftInv

LEMMA SelfTestStep ==
  ASSUME WorkInv, NEW d \in Drafts, NEW reached \in BOOLEAN, SelfTest(d, reached) PROVE WorkInv'
<1> DEFINE t == Tested(Author[d], draft[d].wrote, reached)
           s == IF HasErrors(t) THEN "repair" ELSE "delivered"
<1>1. draft \in [Drafts -> DraftRows]
  BY DEF WorkInv, WorkTyped
<1>2. draft[d].stage = "built" /\ UNCHANGED disk
  BY DEF SelfTest
<1>3. draft' = [draft EXCEPT ![d].self = t, ![d].stage = s]
  BY DEF SelfTest
<1>4. s \in {"repair", "delivered"}
  OBVIOUS
<1> HIDE DEF t, s
<1>5. [draft EXCEPT ![d].self = t, ![d].stage = s]
      = [draft EXCEPT ![d] = [draft[d] EXCEPT !.stage = s, !.self = t]]
  BY <1>1 DEF DraftRows
<1>6. draft' = [draft EXCEPT ![d] = [draft[d] EXCEPT !.stage = s, !.self = t]]
  BY <1>3, <1>5
<1>7. QED BY <1>2, <1>4, <1>6, Tests DEF t

LEMMA RetestStep ==
  ASSUME WorkInv, NEW d \in Drafts, NEW reached \in BOOLEAN, Retest(d, reached) PROVE WorkInv'
<1> DEFINE t == Tested(Author[d], draft[d].wrote, reached)
<1>1. draft \in [Drafts -> DraftRows]
  BY DEF WorkInv, WorkTyped
<1>2. draft[d].stage = "rebuilt" /\ UNCHANGED disk
  BY DEF Retest
<1>3. draft' = [draft EXCEPT ![d].stage = "delivered", ![d].self = t]
  BY DEF Retest
<1> HIDE DEF t
<1>4. [draft EXCEPT ![d].stage = "delivered", ![d].self = t]
      = [draft EXCEPT ![d] = [draft[d] EXCEPT !.stage = "delivered", !.self = t]]
  BY <1>1 DEF DraftRows
<1>5. draft' = [draft EXCEPT ![d] = [draft[d] EXCEPT !.stage = "delivered", !.self = t]]
  BY <1>3, <1>4
<1>6. QED BY <1>2, <1>5, Tests DEF t

\* The draft's stage moves, and nothing that is said of its files.
LEMMA FileMoved ==
  ASSUME WorkInv, NEW d \in Drafts, NEW s \in {"delivered", "dead"},
         draft[d].stage \in Working, draft[d].stage = "repair" \/ s = "dead",
         UNCHANGED disk, draft' = [draft EXCEPT ![d].stage = s]
  PROVE  WorkInv'
<1> DEFINE x == [draft[d] EXCEPT !.stage = s]
<1>1. WorkTyped /\ DraftInv(d) /\ draft[d] \in DraftRows
  BY DEF WorkInv, WorkTyped
<1>2. draft[d].review = Untested /\ ~draft[d].reviewed
  BY <1>1 DEF DraftInv, Progress, Working
<1>3. /\ x \in DraftRows /\ x.stage = s /\ x.self = draft[d].self /\ x.rounds = draft[d].rounds
      /\ x.wrote = draft[d].wrote /\ x.cut = draft[d].cut /\ x.halfway = draft[d].halfway
      /\ x.review = draft[d].review /\ x.reviewed = draft[d].reviewed
  BY <1>1 DEF DraftRows, DraftStages
<1>4. draft' = [draft EXCEPT ![d] = x]
  BY <1>1 DEF WorkTyped
<1> HIDE DEF x
<1>5. draft'[d] = x
  BY <1>1, <1>4 DEF WorkTyped
<1>6. Progress(d)'
  BY <1>2, <1>3, <1>5 DEF Progress
<1>7. ASSUME NEW p \in Paths PROVE FileTold(d, p)'
  <2>1. FileTold(d, p)
    BY <1>1 DEF DraftInv
  <2>2. ~x.review.reached
    BY <1>2, <1>3 DEF Untested
  <2>3. Stands(d, p)' <=> Stands(d, p)
    BY DEF Stands
  <2>4. CASE s = "dead"
    BY <1>3, <1>5, <2>2, <2>4 DEF FileTold, Agrees
  <2>5. CASE s = "delivered"
    BY <1>3, <1>5, <2>1, <2>2, <2>3, <2>5 DEF FileTold, Agrees
  <2>6. QED BY <2>4, <2>5
<1>8. QED BY <1>3, <1>4, <1>6, <1>7, DraftUntouched DEF DraftInv

LEMMA ReviewStep ==
  ASSUME WorkInv, NEW d \in Drafts, NEW reached \in BOOLEAN, Review(d, reached) PROVE WorkInv'
<1> DEFINE t == IF draft[d].wrote # {} THEN Tested(Author[d], draft[d].wrote, reached)
                                       ELSE Tested(Frontend, draft[d].claims, reached)
           x == [draft[d] EXCEPT !.reviewed = TRUE, !.review = t]
<1>1. WorkTyped /\ DraftInv(d) /\ draft[d] \in DraftRows
  BY DEF WorkInv, WorkTyped
<1>2. draft[d].stage = "delivered" /\ UNCHANGED disk
  BY DEF Review
<1>3. draft[d].wrote \in SUBSET Paths /\ draft[d].claims \in SUBSET Paths
  BY <1>1 DEF DraftRows
<1>4. t \in Reports
  BY <1>3, AuthorsKnown, AuthorAssumption, TestTyped
<1>5. \A p \in draft[d].wrote : Stands(d, p) => Agrees(t, d, p)
  BY <1>1, <1>3, TestTells
<1>6. draft' = [draft EXCEPT ![d].reviewed = TRUE, ![d].review = t]
  BY DEF Review
<1> HIDE DEF t
<1>7. draft' = [draft EXCEPT ![d] = x]
  BY <1>1, <1>6 DEF WorkTyped, DraftRows
<1>8. /\ x \in DraftRows /\ x.stage = "delivered" /\ x.self = draft[d].self
      /\ x.wrote = draft[d].wrote /\ x.cut = draft[d].cut /\ x.halfway = draft[d].halfway
      /\ x.review = t /\ x.reviewed = TRUE /\ x.rounds = draft[d].rounds
  BY <1>1, <1>2, <1>4 DEF DraftRows
<1> HIDE DEF x
<1>9. draft'[d] = x
  BY <1>1, <1>7 DEF WorkTyped
<1>10. Progress(d)'
  BY <1>8, <1>9 DEF Progress
<1>11. ASSUME NEW p \in Paths PROVE FileTold(d, p)'
  <2> SUFFICES ASSUME Stands(d, p)' PROVE FileTold(d, p)'
    BY DEF FileTold
  <2>1. Stands(d, p)
    BY <1>2 DEF Stands
  <2>2. FileTold(d, p)
    BY <1>1 DEF DraftInv
  <2>3. p \in x.wrote => Agrees(t, d, p)
    BY <1>5, <1>8, <2>1
  <2>4. QED BY <1>2, <1>8, <1>9, <2>1, <2>2, <2>3 DEF FileTold, Agrees
<1>12. QED BY <1>2, <1>7, <1>8, <1>10, <1>11, DraftUntouched DEF DraftInv

LEMMA WorkInitially == WorkbenchInit => WorkInv
<1> DEFINE x == [stage |-> "new", wrote |-> {}, claims |-> {},
                 cut |-> {}, self |-> Untested, review |-> Untested,
                 rounds |-> 0, halfway |-> FALSE, reviewed |-> FALSE]
<1> SUFFICES ASSUME WorkbenchInit PROVE WorkInv
  OBVIOUS
<1>1. Untested \in Reports /\ ~Untested.reached
  BY DEF Untested, Reports
<1>2. /\ x \in DraftRows /\ x.stage = "new" /\ x.rounds = 0 /\ x.self = Untested
      /\ x.review = Untested /\ x.reviewed = FALSE
  BY <1>1 DEF DraftRows, DraftStages
<1>3. draft = [d \in Drafts |-> x]
  BY DEF WorkbenchInit
<1> HIDE DEF x
<1>4. disk \in [Engineers -> [Paths -> KnownFiles]]
  BY DEF WorkbenchInit, KnownFiles
<1>5. WorkTyped
  BY <1>2, <1>3, <1>4 DEF WorkTyped
<1>6. ASSUME NEW d \in Drafts PROVE DraftInv(d)
  <2>1. \A p \in Paths : ~Stands(d, p)
    BY AuthorsKnown DEF WorkbenchInit, Stands, NoFile
  <2>2. QED BY <1>2, <1>3, <2>1 DEF DraftInv, Progress, FileTold
<1>7. QED BY <1>5, <1>6 DEF WorkInv

LEMMA WorkStep == WorkInv /\ [WorkbenchNext]_workbenchVars => WorkInv'
<1> SUFFICES ASSUME WorkInv, [WorkbenchNext]_workbenchVars PROVE WorkInv'
  OBVIOUS
<1>1. CASE UNCHANGED workbenchVars
  BY <1>1 DEF workbenchVars, WorkInv, WorkTyped, DraftInv, Progress, FileTold, Agrees, Stands
<1>2. CASE WorkbenchNext
  <2> PICK d \in Drafts :
    \/ \E ans \in Answers : \/ Build(d, ans) \/ BuildRaises(d, ans) \/ Repair(d, ans)
                            \/ RepairRaises(d, ans) \/ Revise(d, ans)
    \/ \E reached \in BOOLEAN : SelfTest(d, reached) \/ Retest(d, reached) \/ Review(d, reached)
    \/ RepairKept(d) \/ Lost(d)
    BY <1>2 DEF WorkbenchNext
  <2>1. ASSUME NEW ans \in Answers,
               \/ Build(d, ans) \/ BuildRaises(d, ans) \/ Repair(d, ans)
               \/ RepairRaises(d, ans) \/ Revise(d, ans)
        PROVE  WorkInv'
    BY <2>1, BuildStep, BuildRaisesStep, RepairStep, RepairRaisesStep, ReviseStep
  <2>2. ASSUME NEW reached \in BOOLEAN,
               SelfTest(d, reached) \/ Retest(d, reached) \/ Review(d, reached)
        PROVE  WorkInv'
    BY <2>2, SelfTestStep, RetestStep, ReviewStep
  <2>3. CASE RepairKept(d)
    BY <2>3, FileMoved DEF RepairKept, Working
  <2>4. CASE Lost(d)
    BY <2>4, FileMoved DEF Lost
  <2>5. QED BY <2>1, <2>2, <2>3, <2>4
<1>3. QED BY <1>1, <1>2

\* Every draft is as far as its reports say, whatever the agents answer.
THEOREM WorkInvHolds == WorkbenchSpec => []WorkInv
  BY WorkInitially, WorkStep, PTL DEF WorkbenchSpec

\* Type correctness of the workspaces and the drafts.
THEOREM WorkbenchTypeCorrect == WorkbenchSpec => []WorkbenchTypeOK
<1>1. WorkInv => WorkbenchTypeOK
  BY DEF WorkInv, WorkTyped, WorkbenchTypeOK, KnownFiles, DraftRows, DraftStages
<1>2. QED BY <1>1, WorkInvHolds, PTL

\* A delivered draft's self-test and RE's test, however late it runs, say of
\* every file the draft left and still owns what is the case.
THEOREM ReportsAreHonest == WorkbenchSpec => []ReportsAreTrue
<1>1. WorkInv => ReportsAreTrue
  BY DEF WorkInv, DraftInv, FileTold, ReportsAreTrue
<1>2. QED BY <1>1, WorkInvHolds, PTL

(***************************************************************************)
(* MailMonitor                                                             *)
(***************************************************************************)
Distinct(s) == \A i, j \in DOMAIN s : s[i] = s[j] => i = j

\* A mail that is marked has been surfaced, taken or lost, or is behind the push.
Accounted(m) == m \in shown \cup taken \cup dropped \cup ToSet(batch)

\* The list holds marked mails that no push awaited now will bring again.
ListInv == /\ Distinct(pending) /\ Distinct(batch)
           /\ ToSet(pending) \subseteq processed /\ ToSet(batch) \subseteq processed
           /\ \A i \in DOMAIN batch : i # 1 => batch[i] \notin ToSet(pending)

MailInv == /\ MailTypeOK /\ ListInv
           /\ batch # << >> => batch[1] \in shown
           /\ UrgentIsSurfaced

\* No mail is on the dashboard twice, though the loop and BOB's tool both take
\* mails from the inbox, a mail stays unread there, and a restart forgets them all.
OnDashboardOnce == Distinct(pending)

LEMMA ElementsOf ==
  ASSUME NEW S, NEW s \in Seq(S)
  PROVE  /\ DOMAIN s = 1..Len(s) /\ Len(s) \in Nat /\ \A i \in 1..Len(s) : s[i] \in S
         /\ ToSet(s) = {s[i] : i \in 1..Len(s)} /\ ToSet(s) \subseteq S
  BY DEF ToSet

\* The newest of a list are in it, in its order and no more often.
LEMMA NewestOf ==
  ASSUME NEW S, NEW list \in Seq(S), NEW n \in Nat
  PROVE  /\ Newest(list, n) \in Seq(S) /\ Len(Newest(list, n)) <= n
         /\ ToSet(Newest(list, n)) \subseteq ToSet(list)
         /\ Distinct(list) => Distinct(Newest(list, n))
<1> DEFINE off == IF Len(list) > n THEN Len(list) - n ELSE 0
           new == Newest(list, n)
<1>1. /\ off \in 0..Len(list) /\ Len(list) \in Nat /\ DOMAIN list = 1..Len(list)
      /\ Len(list) - off <= n
  OBVIOUS
<1>2. /\ new \in Seq(S) /\ Len(new) = Len(list) - off
      /\ \A i \in 1..Len(new) : new[i] = list[off + i]
  <2>1. CASE Len(list) > n
    <3>1. off = Len(list) - n /\ new = SubSeq(list, off + 1, Len(list))
      BY <2>1, <1>1 DEF Newest
    <3> HIDE DEF off, new
    <3>2. QED BY <1>1, <3>1
  <2>2. CASE ~(Len(list) > n)
    <3>1. off = 0 /\ new = list
      BY <2>2 DEF Newest
    <3> HIDE DEF off, new
    <3>2. QED BY <1>1, <3>1
  <2>3. QED BY <2>1, <2>2
<1> HIDE DEF off, new
<1>3. DOMAIN new = 1..Len(new)
  BY <1>2
<1>4. \A i \in 1..Len(new) : off + i \in 1..Len(list)
  BY <1>1, <1>2
<1>5. ToSet(new) \subseteq ToSet(list)
  BY <1>1, <1>2, <1>3, <1>4 DEF ToSet
<1>6. ASSUME Distinct(list) PROVE Distinct(new)
  <2>1. ASSUME NEW i \in 1..Len(new), NEW j \in 1..Len(new), new[i] = new[j] PROVE i = j
    <3>1. list[off + i] = list[off + j]
      BY <1>2, <2>1
    <3>2. off + i = off + j
      BY <1>1, <1>4, <1>6, <3>1 DEF Distinct
    <3>3. QED BY <1>1, <1>2, <3>2
  <2>2. QED BY <1>3, <2>1 DEF Distinct
<1>7. QED BY <1>1, <1>2, <1>5, <1>6 DEF new

\* What is left of a list without one of its elements.
LEMMA LeftOf ==
  ASSUME NEW S, NEW s \in Seq(S), NEW i \in DOMAIN s
  PROVE  /\ RemoveAt(s, i) \in Seq(S) /\ Len(RemoveAt(s, i)) <= Len(s)
         /\ ToSet(RemoveAt(s, i)) \subseteq ToSet(s)
         /\ Distinct(s) => Distinct(RemoveAt(s, i))
<1> DEFINE left == RemoveAt(s, i)
           at(k) == IF k < i THEN k ELSE k + 1
<1>1. DOMAIN s = 1..Len(s) /\ Len(s) \in Nat /\ i \in 1..Len(s)
  OBVIOUS
<1>2. /\ left \in Seq(S) /\ Len(left) = Len(s) - 1
      /\ \A k \in 1..Len(left) : left[k] = s[at(k)]
  <2> DEFINE a == SubSeq(s, 1, i - 1)
             b == SubSeq(s, i + 1, Len(s))
  <2>1. /\ a \in Seq(S) /\ Len(a) = i - 1 /\ \A k \in 1..(i - 1) : a[k] = s[k]
        /\ b \in Seq(S) /\ Len(b) = Len(s) - i
        /\ \A k \in 1..(Len(s) - i) : b[k] = s[i + k]
    BY <1>1
  <2>2. left = a \o b
    BY DEF RemoveAt
  <2> HIDE DEF a, b, left
  <2>3. left \in Seq(S) /\ Len(left) = Len(s) - 1
    <3>1. a \o b \in Seq(S) /\ Len(a \o b) = Len(a) + Len(b)
      BY <2>1, ConcatProperties
    <3>2. QED BY <1>1, <2>1, <2>2, <3>1
  <2>4. ASSUME NEW k \in 1..Len(left) PROVE left[k] = s[at(k)]
    <3>1. CASE k < i
      BY <1>1, <2>1, <2>2, <2>3, <3>1
    <3>2. CASE ~(k < i)
      <4>1. k - (i - 1) \in 1..(Len(s) - i) /\ i + (k - (i - 1)) = k + 1
        BY <1>1, <2>3, <3>2
      <4>2. left[k] = b[k - (i - 1)]
        BY <1>1, <2>1, <2>2, <2>3, <3>2
      <4>3. QED BY <2>1, <3>2, <4>1, <4>2
    <3>3. QED BY <3>1, <3>2
  <2>5. QED BY <2>3, <2>4
<1> HIDE DEF left
<1>3. DOMAIN left = 1..Len(left)
  BY <1>2
<1>4. /\ \A k \in 1..Len(left) : at(k) \in 1..Len(s)
      /\ \A k, l \in 1..Len(left) : at(k) = at(l) => k = l
  BY <1>1, <1>2
<1> HIDE DEF at
<1>5. ToSet(left) \subseteq ToSet(s)
  BY <1>1, <1>2, <1>3, <1>4 DEF ToSet
<1>6. Distinct(s) => Distinct(left)
  BY <1>1, <1>2, <1>3, <1>4 DEF Distinct
<1>7. QED BY <1>1, <1>2, <1>5, <1>6 DEF left

\* A list behind another one.
LEMMA BothLists ==
  ASSUME NEW S, NEW s \in Seq(S), NEW t \in Seq(S)
  PROVE  /\ s \o t \in Seq(S) /\ ToSet(s \o t) = ToSet(s) \cup ToSet(t)
         /\ Distinct(s) /\ Distinct(t) /\ ToSet(s) \cap ToSet(t) = {} => Distinct(s \o t)
<1> DEFINE both == s \o t
<1>1. /\ both \in Seq(S) /\ Len(both) = Len(s) + Len(t)
      /\ DOMAIN s = 1..Len(s) /\ DOMAIN t = 1..Len(t) /\ Len(s) \in Nat /\ Len(t) \in Nat
      /\ DOMAIN both = 1..(Len(s) + Len(t))
      /\ \A i \in 1..Len(s) : both[i] = s[i]
      /\ \A i \in 1..Len(t) : both[Len(s) + i] = t[i]
  OBVIOUS
<1> HIDE DEF both
<1>2. \A i \in DOMAIN both : i \in 1..Len(s) \/ \E k \in 1..Len(t) : i = Len(s) + k
  <2> SUFFICES ASSUME NEW i \in DOMAIN both, i \notin 1..Len(s)
               PROVE  \E k \in 1..Len(t) : i = Len(s) + k
    OBVIOUS
  <2>1. i - Len(s) \in 1..Len(t) /\ i = Len(s) + (i - Len(s))
    BY <1>1
  <2>2. QED BY <2>1
<1>3. ToSet(both) \subseteq ToSet(s) \cup ToSet(t)
  <2>1. ASSUME NEW i \in DOMAIN both PROVE both[i] \in ToSet(s) \cup ToSet(t)
    <3>1. CASE i \in 1..Len(s)
      BY <1>1, <3>1 DEF ToSet
    <3>2. CASE \E k \in 1..Len(t) : i = Len(s) + k
      BY <1>1, <3>2 DEF ToSet
    <3>3. QED BY <1>2, <3>1, <3>2
  <2>2. QED BY <2>1 DEF ToSet
<1>4. ToSet(s) \cup ToSet(t) \subseteq ToSet(both)
  <2>1. 1..Len(s) \subseteq DOMAIN both /\ \A k \in 1..Len(t) : Len(s) + k \in DOMAIN both
    BY <1>1
  <2>2. QED BY <1>1, <2>1 DEF ToSet
<1>5. ASSUME Distinct(s), Distinct(t), ToSet(s) \cap ToSet(t) = {} PROVE Distinct(both)
  <2>1. \A i \in 1..Len(s), j \in 1..Len(t) : s[i] # t[j]
    BY <1>1, <1>5 DEF ToSet
  <2>2. ASSUME NEW i \in DOMAIN both, NEW j \in DOMAIN both, both[i] = both[j] PROVE i = j
    <3>1. CASE i \in 1..Len(s) /\ j \in 1..Len(s)
      BY <1>1, <1>5, <2>2, <3>1 DEF Distinct
    <3>2. CASE i \in 1..Len(s) /\ j \notin 1..Len(s)
      BY <1>1, <1>2, <2>1, <2>2, <3>2
    <3>3. CASE i \notin 1..Len(s) /\ j \in 1..Len(s)
      BY <1>1, <1>2, <2>1, <2>2, <3>3
    <3>4. CASE i \notin 1..Len(s) /\ j \notin 1..Len(s)
      <4>1. PICK k \in 1..Len(t) : i = Len(s) + k
        BY <1>2, <3>4
      <4>2. PICK l \in 1..Len(t) : j = Len(s) + l
        BY <1>2, <3>4
      <4>3. t[k] = t[l]
        BY <1>1, <2>2, <4>1, <4>2
      <4>4. QED BY <1>1, <1>5, <4>1, <4>2, <4>3 DEF Distinct
    <3>5. QED BY <3>1, <3>2, <3>3, <3>4
  <2>3. QED BY <2>2 DEF Distinct
<1>6. QED BY <1>1, <1>3, <1>4, <1>5 DEF both

\* The part of a list up to one of its mails, and the part from it on.
LEMMA UpToOne ==
  ASSUME NEW S, NEW s \in Seq(S), NEW k \in 0..Len(s), NEW part, part = SubSeq(s, 1, k)
  PROVE  part \in Seq(S) /\ ToSet(part) = {s[i] : i \in 1..k}
<1>1. part \in Seq(S) /\ DOMAIN part = 1..k /\ \A i \in 1..k : part[i] = s[i]
  OBVIOUS
<1>2. QED BY <1>1 DEF ToSet

TailFrom(s, k, part) ==
  LET n == Len(s) - k + 1 IN
  /\ DOMAIN part = 1..n
  /\ \A i \in 1..n : part[i] = s[k - 1 + i] /\ k - 1 + i \in 1..Len(s)
  /\ \A i \in k..Len(s) : s[i] \in ToSet(part)
  /\ ToSet(part) \subseteq ToSet(s)
  /\ Distinct(s) => Distinct(part)

LEMMA FromOneOn ==
  ASSUME NEW S, NEW s \in Seq(S), NEW k \in 1..Len(s),
         NEW part, part = SubSeq(s, k, Len(s))
  PROVE  part \in Seq(S) /\ TailFrom(s, k, part)
<1> DEFINE n == Len(s) - k + 1
<1>0. Len(s) \in Nat /\ DOMAIN s = 1..Len(s) /\ k \in Nat /\ n \in Nat
  OBVIOUS
<1>1. /\ part \in Seq(S) /\ DOMAIN part = 1..n
      /\ \A i \in 1..n : part[i] = s[k - 1 + i]
  BY <1>0
<1>2. \A i \in 1..n : k - 1 + i \in 1..Len(s)
  BY <1>0
<1>3. ASSUME NEW i \in k..Len(s) PROVE s[i] \in ToSet(part)
  <2>1. i - k + 1 \in 1..n /\ k - 1 + (i - k + 1) = i
    BY <1>0
  <2>2. part[i - k + 1] = s[i]
    BY <1>1, <2>1
  <2>3. QED BY <1>1, <2>1, <2>2 DEF ToSet
<1>4. ToSet(part) \subseteq ToSet(s)
  BY <1>0, <1>1, <1>2 DEF ToSet
<1>5. ASSUME Distinct(s) PROVE Distinct(part)
  <2>1. ASSUME NEW i \in 1..n, NEW j \in 1..n, part[i] = part[j] PROVE i = j
    <3>1. k - 1 + i = k - 1 + j
      BY <1>0, <1>1, <1>2, <1>5, <2>1 DEF Distinct
    <3>2. QED BY <1>0, <3>1
  <2>2. QED BY <1>1, <2>1 DEF Distinct
<1>6. QED BY <1>1, <1>2, <1>3, <1>4, <1>5 DEF TailFrom

\* A list holds finitely many mails.
LEMMA ListedAreFinite ==
  ASSUME NEW S, NEW s \in Seq(S)
  PROVE  IsFiniteSet(ToSet(s))
<1>1. s \in [1..Len(s) -> ToSet(s)] /\ \A m \in ToSet(s) : \E i \in 1..Len(s) : s[i] = m
  BY ElementsOf
<1>2. s \in Surjection(1..Len(s), ToSet(s))
  BY <1>1 DEF Surjection
<1>3. IsFiniteSet(1..Len(s))
  BY ElementsOf, FS_Interval
<1>4. QED BY <1>2, <1>3, FS_Surjection

\* What a check looks at is finite, so the new mails of it can be put in order.
LEMMA LookedAt ==
  ASSUME NEW S, inbox \in Seq(S)
  PROVE  Looked \subseteq S /\ IsFiniteSet(Looked)
<1> DEFINE n == IF Len(inbox) < Top THEN Len(inbox) ELSE Top
           s == SubSeq(inbox, 1, n)
<1>1. n \in Nat /\ n <= Len(inbox)
  BY MailAssumption
<1>2. s \in Seq(S)
  BY <1>1
<1>3. Looked = ToSet(s)
  BY DEF Looked
<1> HIDE DEF s
<1>4. QED BY <1>2, <1>3, ElementsOf, ListedAreFinite

\* Put in order, the mails are all there, and each is there once.
LEMMA OrderedAll ==
  ASSUME NEW S, NEW some, some \subseteq S, IsFiniteSet(some), NEW list,
         NEW s \in InOrder(some, list)
  PROVE  s \in Seq(S) /\ ToSet(s) = some /\ Distinct(s)
<1> DEFINE n == Cardinality(some)
<1>1. n \in Nat
  BY FS_CardinalityType
<1>2. s \in [1..n -> some] /\ \A i, j \in 1..n : i # j => s[i] # s[j]
  BY DEF InOrder, SetToSeqs
<1>3. s \in Injection(1..n, some)
  BY <1>2 DEF Injection, IsInjective
<1>4. Cardinality(1..n) = n
  <2>1. Cardinality(1..n) = IF 1 > n THEN 0 ELSE n - 1 + 1
    BY <1>1, FS_Interval
  <2>2. QED BY <1>1, <2>1
<1>5. s \in Surjection(1..n, some)
  BY <1>3, <1>4, FS_Injection
<1>6. \A m \in some : \E i \in 1..n : s[i] = m
  BY <1>5 DEF Surjection
<1> HIDE DEF n
<1>7. s \in Seq(S)
  BY <1>1, <1>2
<1>8. QED BY <1>2, <1>6, <1>7 DEF ToSet, Distinct

\* What the loop puts on the dashboard on its way through its mails.
LEMMA UpToAll ==
  ASSUME MailTypeOK, Distinct(pending), NEW mails \in Seq(arrived), Distinct(mails),
         NEW upto \in 0..Len(mails), UpTo(mails, upto),
         \A i \in 1..upto : mails[i] \notin ToSet(pending)
  PROVE  /\ pending' \in Seq(arrived) /\ Len(pending') <= MaxPending /\ Distinct(pending')
         /\ ToSet(pending') \subseteq ToSet(pending) \cup {mails[i] : i \in 1..upto}
         /\ shown \subseteq shown' /\ shown' \subseteq arrived
         /\ \A i \in 1..upto : mails[i] \in Actionable => mails[i] \in shown'
<1> DEFINE part == SubSeq(mails, 1, upto)
           due  == ToSet(part) \cap Actionable
<1>1. /\ pending \in Seq(arrived) /\ MaxPending \in Nat /\ shown \subseteq arrived
  BY MailAssumption DEF MailTypeOK
<1>p. part = SubSeq(mails, 1, upto)
  OBVIOUS
<1> HIDE DEF part
<1>2. /\ part \in Seq(arrived) /\ ToSet(part) = {mails[i] : i \in 1..upto}
  BY <1>p, UpToOne
<1>3. shown' = shown \cup due /\ \E list \in InOrder(due, mails) : pending' = Kept(pending \o list)
  BY <1>p DEF UpTo
<1>4. /\ due \subseteq arrived /\ IsFiniteSet(due) /\ due \subseteq {mails[i] : i \in 1..upto}
      /\ due \cap ToSet(pending) = {}
  <2>1. IsFiniteSet(ToSet(part)) /\ ToSet(part) \subseteq arrived
    BY <1>2, ListedAreFinite, ElementsOf
  <2>2. QED BY <1>2, <2>1, FS_Subset
<1>5. PICK list \in InOrder(due, mails) : pending' = Kept(pending \o list)
  BY <1>3
<1>6. list \in Seq(arrived) /\ ToSet(list) = due /\ Distinct(list)
  <2> HIDE DEF due
  <2>1. QED BY <1>4, OrderedAll
<1>7. /\ pending \o list \in Seq(arrived) /\ ToSet(pending \o list) = ToSet(pending) \cup due
      /\ Distinct(pending \o list)
  <2> HIDE DEF due
  <2>1. QED BY <1>1, <1>4, <1>6, BothLists
<1>8. pending' = Newest(pending \o list, MaxPending)
  BY <1>5 DEF Kept
<1>9. /\ pending' \in Seq(arrived) /\ Len(pending') <= MaxPending /\ Distinct(pending')
      /\ ToSet(pending') \subseteq ToSet(pending) \cup due
  BY <1>1, <1>7, <1>8, NewestOf
<1>10. \A i \in 1..upto : mails[i] \in Actionable => mails[i] \in due
  BY <1>2
<1>11. QED BY <1>1, <1>3, <1>4, <1>9, <1>10

\* Each mail the loop is given is surfaced if it is actionable or is behind the
\* push the loop then awaits, and none comes to the dashboard that is there.
LEMMA SurfacedAll ==
  ASSUME MailTypeOK, Distinct(pending), NEW mails \in Seq(arrived), Distinct(mails),
         \A i \in DOMAIN mails : mails[i] \notin ToSet(pending), Surfaced(mails)
  PROVE  /\ pending' \in Seq(arrived) /\ Len(pending') <= MaxPending /\ Distinct(pending')
         /\ ToSet(pending') \subseteq ToSet(pending) \cup ToSet(mails)
         /\ batch' \in Seq(arrived) /\ Distinct(batch') /\ ToSet(batch') \subseteq ToSet(mails)
         /\ \A i \in DOMAIN batch' : i # 1 => batch'[i] \notin ToSet(pending')
         /\ shown \subseteq shown' /\ shown' \subseteq arrived
         /\ batch' # << >> => batch'[1] \in shown'
         /\ \A m \in ToSet(mails) \cap Actionable : m \in shown' \/ m \in ToSet(batch')
<1> DEFINE urgent == {i \in DOMAIN mails : mails[i] \in Urgent}
<1>1. /\ DOMAIN mails = 1..Len(mails) /\ Len(mails) \in Nat
      /\ ToSet(mails) = {mails[i] : i \in 1..Len(mails)}
      /\ arrived \subseteq Mails
  BY ElementsOf DEF MailTypeOK
<1>2. CASE urgent = {} /\ UpTo(mails, Len(mails)) /\ batch' = << >>
  <2>1. Len(mails) \in 0..Len(mails)
    BY <1>1
  <2>2. << >> \in Seq(arrived) /\ ToSet(<< >>) = {} /\ Distinct(<< >>) /\ DOMAIN << >> = {}
    BY DEF ToSet, Distinct
  <2>3. /\ pending' \in Seq(arrived) /\ Len(pending') <= MaxPending /\ Distinct(pending')
        /\ ToSet(pending') \subseteq ToSet(pending) \cup {mails[i] : i \in 1..Len(mails)}
        /\ shown \subseteq shown' /\ shown' \subseteq arrived
        /\ \A i \in 1..Len(mails) : mails[i] \in Actionable => mails[i] \in shown'
    BY <1>1, <1>2, <2>1, UpToAll
  <2>4. QED BY <1>1, <1>2, <2>2, <2>3
<1>3. ASSUME NEW first \in urgent, UpTo(mails, first),
             batch' = SubSeq(mails, first, Len(mails))
      PROVE  /\ pending' \in Seq(arrived) /\ Len(pending') <= MaxPending /\ Distinct(pending')
             /\ ToSet(pending') \subseteq ToSet(pending) \cup ToSet(mails)
             /\ batch' \in Seq(arrived) /\ Distinct(batch') /\ ToSet(batch') \subseteq ToSet(mails)
             /\ \A i \in DOMAIN batch' : i # 1 => batch'[i] \notin ToSet(pending')
             /\ shown \subseteq shown' /\ shown' \subseteq arrived
             /\ batch'[1] \in shown'
             /\ \A m \in ToSet(mails) \cap Actionable : m \in shown' \/ m \in ToSet(batch')
  <2>1. /\ first \in 1..Len(mails) /\ first \in 0..Len(mails)
        /\ 1..first \subseteq 1..Len(mails)
    BY <1>1
  <2>2. /\ pending' \in Seq(arrived) /\ Len(pending') <= MaxPending /\ Distinct(pending')
        /\ ToSet(pending') \subseteq ToSet(pending) \cup {mails[i] : i \in 1..first}
        /\ shown \subseteq shown' /\ shown' \subseteq arrived
        /\ \A i \in 1..first : mails[i] \in Actionable => mails[i] \in shown'
    BY <1>1, <1>3, <2>1, UpToAll
  <2>p. PICK part : part = SubSeq(mails, first, Len(mails))
    OBVIOUS
  <2>n. PICK n : n = Len(mails) - first + 1
    OBVIOUS
  <2>3. /\ part \in Seq(arrived) /\ DOMAIN part = 1..n
        /\ \A i \in 1..n : part[i] = mails[first - 1 + i] /\ first - 1 + i \in 1..Len(mails)
        /\ \A i \in first..Len(mails) : mails[i] \in ToSet(part)
        /\ ToSet(part) \subseteq ToSet(mails) /\ Distinct(part)
    <3>1. part \in Seq(arrived) /\ TailFrom(mails, first, part)
      BY <2>1, <2>p, FromOneOn
    <3>2. QED BY <3>1, <2>n DEF TailFrom
  <2>a. batch' = part
    BY <1>3, <2>p
  <2>4. part[1] = mails[first] /\ mails[first] \in shown'
    <3>1. mails[first] \in Mails /\ priority[mails[first]] = "urgent"
      BY <2>1 DEF Urgent
    <3>2. mails[first] \in Actionable
      BY <3>1 DEF Actionable
    <3>3. first \in 1..first /\ 1 \in 1..n /\ first - 1 + 1 = first
      BY <1>1, <2>1, <2>n
    <3>4. QED BY <2>2, <2>3, <3>2, <3>3
  <2>5. ASSUME NEW i \in DOMAIN part, i # 1 PROVE part[i] \notin ToSet(pending')
    <3>1. i \in 1..n /\ part[i] = mails[first - 1 + i] /\ first - 1 + i \in 1..Len(mails)
      BY <2>3, <2>5
    <3>2. \A j \in 1..first : j # first - 1 + i
      BY <1>1, <2>1, <2>5, <3>1
    <3>3. \A j \in 1..first : mails[j] # mails[first - 1 + i]
      BY <1>1, <2>1, <3>1, <3>2 DEF Distinct
    <3>4. mails[first - 1 + i] \notin ToSet(pending)
      BY <1>1, <3>1
    <3>5. QED BY <2>2, <3>1, <3>3, <3>4
  <2>6. \A i \in 1..Len(mails) : i \in 1..first \/ i \in first..Len(mails)
    BY <1>1, <2>1
  <2>7. \A m \in ToSet(mails) \cap Actionable : m \in shown' \/ m \in ToSet(part)
    BY <1>1, <2>2, <2>3, <2>6
  <2>8. ToSet(pending') \subseteq ToSet(pending) \cup ToSet(mails)
    BY <1>1, <2>1, <2>2
  <2>9. QED BY <2>2, <2>3, <2>a, <2>4, <2>5, <2>7, <2>8
<1>4. QED BY <1>2, <1>3 DEF Surfaced

LEMMA MailStep == MailInv /\ [MailNext]_mailVars => MailInv'
<1> SUFFICES ASSUME MailInv, [MailNext]_mailVars PROVE MailInv'
  OBVIOUS
<1>0. /\ MailTypeOK /\ ListInv
      /\ \A m \in processed \cap Actionable : Accounted(m)
      /\ batch # << >> => batch[1] \in shown
  BY DEF MailInv, UrgentIsSurfaced, Accounted
<1>t. /\ priority \in [Mails -> Priorities] /\ arrived \subseteq Mails /\ processed \subseteq arrived
      /\ inbox \in Seq(arrived) /\ batch \in Seq(arrived) /\ pending \in Seq(arrived)
      /\ Len(pending) <= MaxPending /\ MaxPending \in Nat /\ MailFaults \in Nat
      /\ shown \subseteq arrived /\ taken \subseteq arrived /\ dropped \subseteq arrived
      /\ mailFaults \in 0..MailFaults /\ << >> \in Seq(arrived)
  BY <1>0, MailAssumption DEF MailTypeOK
<1>l. /\ Distinct(pending) /\ Distinct(batch)
      /\ ToSet(pending) \subseteq processed /\ ToSet(batch) \subseteq processed
      /\ \A i \in DOMAIN batch : i # 1 => batch[i] \notin ToSet(pending)
  BY <1>0 DEF ListInv
<1>e. ToSet(<< >>) = {} /\ Distinct(<< >>) /\ DOMAIN << >> = {}
  BY DEF ToSet, Distinct
<1>a. priority' = priority => Actionable' = Actionable
  BY DEF Actionable
<1>f. MailFault => mailFaults' \in 0..MailFaults
  BY <1>t DEF MailFault
<1>b. batch # << >> => /\ Tail(batch) \in Seq(arrived) /\ Distinct(Tail(batch))
                       /\ ToSet(Tail(batch)) \subseteq ToSet(batch)
                       /\ \A i \in DOMAIN Tail(batch) : Tail(batch)[i] \notin ToSet(pending)
                       /\ \A m \in ToSet(batch) : m \in shown \/ m \in ToSet(Tail(batch))
  <2> SUFFICES ASSUME batch # << >>
               PROVE  /\ Tail(batch) \in Seq(arrived) /\ Distinct(Tail(batch))
                      /\ ToSet(Tail(batch)) \subseteq ToSet(batch)
                      /\ \A i \in DOMAIN Tail(batch) : Tail(batch)[i] \notin ToSet(pending)
                      /\ \A m \in ToSet(batch) : m \in shown \/ m \in ToSet(Tail(batch))
    OBVIOUS
  <2>1. /\ DOMAIN batch = 1..Len(batch) /\ Len(batch) \in Nat
        /\ DOMAIN Tail(batch) = 1..(Len(batch) - 1) /\ Tail(batch) \in Seq(arrived)
        /\ \A i \in 1..(Len(batch) - 1) : Tail(batch)[i] = batch[i + 1]
    BY <1>t
  <2>2. ASSUME NEW i \in 1..Len(batch), i # 1 PROVE batch[i] \in ToSet(Tail(batch))
    <3>1. i - 1 \in 1..(Len(batch) - 1) /\ (i - 1) + 1 = i
      BY <2>1, <2>2
    <3>2. Tail(batch)[i - 1] = batch[i]
      BY <2>1, <3>1
    <3>3. QED BY <2>1, <3>1, <3>2 DEF ToSet
  <2>3. \A m \in ToSet(batch) : m \in shown \/ m \in ToSet(Tail(batch))
    BY <1>0, <2>1, <2>2 DEF ToSet
  <2>4. \A i \in 1..(Len(batch) - 1) : i + 1 \in DOMAIN batch /\ i + 1 # 1
    BY <2>1
  <2>5. \A i \in DOMAIN Tail(batch) : Tail(batch)[i] \notin ToSet(pending)
    BY <1>l, <2>1, <2>4
  <2>6. ToSet(Tail(batch)) \subseteq ToSet(batch)
    BY <2>1, <2>4 DEF ToSet
  <2>7. ASSUME NEW i \in DOMAIN Tail(batch), NEW j \in DOMAIN Tail(batch),
               Tail(batch)[i] = Tail(batch)[j]
        PROVE  i = j
    <3>1. i \in 1..(Len(batch) - 1) /\ j \in 1..(Len(batch) - 1) /\ batch[i + 1] = batch[j + 1]
      BY <2>1, <2>7
    <3>2. i + 1 = j + 1
      BY <1>l, <2>4, <3>1 DEF Distinct
    <3>3. QED BY <3>1, <3>2
  <2>8. QED BY <2>1, <2>3, <2>5, <2>6, <2>7 DEF Distinct
<1>1. ASSUME NEW m \in Mails, Arrive(m) PROVE MailInv'
  <2>1. /\ arrived' = arrived \cup {m} /\ inbox' = <<m>> \o inbox
        /\ UNCHANGED <<priority, processed, batch, pending, shown, taken, dropped, mailFaults>>
    BY <1>1 DEF Arrive
  <2>2. arrived \subseteq arrived'
    BY <2>1
  <2>3. inbox' \in Seq(arrived') /\ batch' \in Seq(arrived') /\ pending' \in Seq(arrived')
    <3>1. inbox \in Seq(arrived') /\ batch \in Seq(arrived') /\ pending \in Seq(arrived')
      BY <1>t, <2>2
    <3>2. <<m>> \in Seq(arrived')
      BY <2>1
    <3>3. QED BY <2>1, <3>1, <3>2
  <2>4. MailTypeOK'
    BY <1>1, <1>t, <2>1, <2>2, <2>3 DEF MailTypeOK
  <2>5. ListInv'
    BY <1>0, <2>1 DEF ListInv
  <2>6. QED BY <1>0, <1>a, <2>1, <2>4, <2>5 DEF MailInv, UrgentIsSurfaced, Accounted
<1>2. ASSUME NEW m \in Mails, MarkAsRead(m) PROVE MailInv'
  <2>1. UNCHANGED <<priority, arrived, processed, batch, pending, shown, taken, dropped, mailFaults>>
    BY <1>2 DEF MarkAsRead
  <2>2. inbox' \in Seq(arrived)
    BY <1>2, <1>t, LeftOf DEF MarkAsRead
  <2>3. MailTypeOK'
    BY <1>0, <2>1, <2>2 DEF MailTypeOK
  <2>4. ListInv'
    BY <1>0, <2>1 DEF ListInv
  <2>5. QED BY <1>0, <1>a, <2>1, <2>3, <2>4 DEF MailInv, UrgentIsSurfaced, Accounted
<1>3. ASSUME NEW m \in Mails, DismissEmail(m) PROVE MailInv'
  <2>1. UNCHANGED <<priority, inbox, arrived, processed, batch, shown, taken, dropped, mailFaults>>
    BY <1>3 DEF DismissEmail
  <2>2. PICK i \in DOMAIN pending : pending' = RemoveAt(pending, i)
    BY <1>3 DEF DismissEmail
  <2>3. /\ pending' \in Seq(arrived) /\ Len(pending') <= Len(pending)
        /\ ToSet(pending') \subseteq ToSet(pending) /\ Distinct(pending')
    BY <1>t, <1>l, <2>2, LeftOf
  <2>4. MailTypeOK'
    <3>1. Len(pending') <= MaxPending
      BY <1>t, <2>3
    <3>2. QED BY <1>0, <2>1, <2>3, <3>1 DEF MailTypeOK
  <2>5. ListInv'
    BY <1>l, <2>1, <2>3 DEF ListInv
  <2>6. QED BY <1>0, <1>a, <2>1, <2>4, <2>5 DEF MailInv, UrgentIsSurfaced, Accounted
<1>4. CASE PollInbox
  <2>1. PICK new \in SUBSET Looked : Checked(new) /\ \E mails \in InOrder(new, inbox) : Surfaced(mails)
    BY <1>4 DEF PollInbox
  <2>2. PICK mails \in InOrder(new, inbox) : Surfaced(mails)
    BY <2>1
  <2>3. Looked \subseteq arrived /\ IsFiniteSet(new)
    BY <1>t, LookedAt, FS_Subset
  <2>4. mails \in Seq(arrived) /\ ToSet(mails) = new /\ Distinct(mails)
    BY <2>2, <2>3, OrderedAll
  <2>5. /\ new \cap processed = {} /\ processed' = processed \cup new
        /\ mailFaults' \in 0..MailFaults
    BY <1>f, <1>t, <2>1 DEF Checked, Marked
  <2>6. batch = << >> /\ UNCHANGED <<priority, inbox, arrived, taken, dropped>>
    BY <1>4 DEF PollInbox
  <2>7. \A i \in DOMAIN mails : mails[i] \notin ToSet(pending)
    BY <1>l, <2>4, <2>5 DEF ToSet
  <2>8. /\ pending' \in Seq(arrived) /\ Len(pending') <= MaxPending /\ Distinct(pending')
        /\ ToSet(pending') \subseteq ToSet(pending) \cup ToSet(mails)
        /\ batch' \in Seq(arrived) /\ Distinct(batch') /\ ToSet(batch') \subseteq ToSet(mails)
        /\ \A i \in DOMAIN batch' : i # 1 => batch'[i] \notin ToSet(pending')
        /\ shown \subseteq shown' /\ shown' \subseteq arrived
        /\ batch' # << >> => batch'[1] \in shown'
        /\ \A m \in ToSet(mails) \cap Actionable : m \in shown' \/ m \in ToSet(batch')
    BY <1>0, <1>l, <2>2, <2>4, <2>7, SurfacedAll
  <2>9. MailTypeOK'
    BY <1>t, <2>3, <2>5, <2>6, <2>8 DEF MailTypeOK
  <2>10. ListInv'
    BY <1>l, <2>4, <2>5, <2>8 DEF ListInv
  <2>11. \A m \in processed' \cap Actionable' : m \in shown' \cup taken' \cup dropped' \cup ToSet(batch')
    BY <1>0, <1>a, <1>e, <2>4, <2>5, <2>6, <2>8 DEF Accounted
  <2>12. QED BY <2>8, <2>9, <2>10, <2>11 DEF MailInv, UrgentIsSurfaced
<1>5. CASE PushSent
  <2>1. /\ batch # << >> /\ Surfaced(Tail(batch))
        /\ UNCHANGED <<priority, inbox, arrived, processed, taken, dropped, mailFaults>>
    BY <1>5 DEF PushSent
  <2>2. /\ pending' \in Seq(arrived) /\ Len(pending') <= MaxPending /\ Distinct(pending')
        /\ ToSet(pending') \subseteq ToSet(pending) \cup ToSet(Tail(batch))
        /\ batch' \in Seq(arrived) /\ Distinct(batch') /\ ToSet(batch') \subseteq ToSet(Tail(batch))
        /\ \A i \in DOMAIN batch' : i # 1 => batch'[i] \notin ToSet(pending')
        /\ shown \subseteq shown' /\ shown' \subseteq arrived
        /\ batch' # << >> => batch'[1] \in shown'
        /\ \A m \in ToSet(Tail(batch)) \cap Actionable : m \in shown' \/ m \in ToSet(batch')
    BY <1>0, <1>l, <1>b, <2>1, SurfacedAll
  <2>3. MailTypeOK'
    BY <1>t, <2>1, <2>2 DEF MailTypeOK
  <2>4. ListInv'
    BY <1>l, <1>b, <2>1, <2>2 DEF ListInv
  <2>5. \A m \in processed' \cap Actionable' : m \in shown' \cup taken' \cup dropped' \cup ToSet(batch')
    BY <1>0, <1>a, <1>b, <2>1, <2>2 DEF Accounted
  <2>6. QED BY <2>2, <2>3, <2>4, <2>5 DEF MailInv, UrgentIsSurfaced
<1>6. CASE PushFails
  <2>1. /\ batch # << >> /\ MailFault /\ batch' = << >> /\ dropped' = dropped \cup ToSet(Tail(batch))
        /\ UNCHANGED <<priority, inbox, arrived, processed, pending, shown, taken>>
    BY <1>6 DEF PushFails
  <2>2. ToSet(Tail(batch)) \subseteq arrived
    BY <1>b, <2>1, ElementsOf
  <2>3. MailTypeOK'
    BY <1>t, <1>f, <2>1, <2>2 DEF MailTypeOK
  <2>4. ListInv'
    BY <1>l, <1>e, <2>1 DEF ListInv
  <2>5. \A m \in processed' \cap Actionable' : m \in shown' \cup taken' \cup dropped' \cup ToSet(batch')
    BY <1>0, <1>a, <1>b, <2>1 DEF Accounted
  <2>6. QED BY <2>1, <2>3, <2>4, <2>5 DEF MailInv, UrgentIsSurfaced
<1>7. CASE CheckEmail
  <2>1. PICK new \in SUBSET Looked : Checked(new) /\ taken' = taken \cup new
    BY <1>7 DEF CheckEmail
  <2>2. UNCHANGED <<priority, inbox, arrived, batch, pending, shown, dropped>>
    BY <1>7 DEF CheckEmail
  <2>3. /\ processed' = processed \cup new /\ mailFaults' \in 0..MailFaults /\ new \subseteq arrived
    BY <1>f, <1>t, <2>1, LookedAt DEF Checked, Marked
  <2>4. MailTypeOK'
    BY <1>t, <2>1, <2>2, <2>3 DEF MailTypeOK
  <2>5. ListInv'
    BY <1>l, <2>2, <2>3 DEF ListInv
  <2>6. \A m \in processed' \cap Actionable' : m \in shown' \cup taken' \cup dropped' \cup ToSet(batch')
    BY <1>0, <1>a, <2>1, <2>2, <2>3 DEF Accounted
  <2>7. QED BY <1>0, <2>2, <2>4, <2>5, <2>6 DEF MailInv, UrgentIsSurfaced
<1>8. CASE MailRestart
  <2>1. /\ MailFault /\ processed' = {} /\ pending' = << >> /\ batch' = << >>
        /\ dropped' = dropped \cup ToSet(batch) /\ UNCHANGED <<priority, inbox, arrived, shown, taken>>
    BY <1>8 DEF MailRestart
  <2>2. ToSet(batch) \subseteq arrived /\ Len(<< >>) <= MaxPending
    BY <1>t, ElementsOf
  <2>3. MailTypeOK'
    BY <1>t, <1>f, <2>1, <2>2 DEF MailTypeOK
  <2>4. ListInv'
    BY <1>e, <2>1 DEF ListInv
  <2>5. QED BY <2>1, <2>3, <2>4 DEF MailInv, UrgentIsSurfaced
<1>9. CASE UNCHANGED mailVars
  <2>1. MailTypeOK' /\ ListInv'
    BY <1>0, <1>9 DEF mailVars, MailTypeOK, ListInv
  <2>2. QED BY <1>0, <1>9, <1>a, <2>1 DEF mailVars, MailInv, UrgentIsSurfaced, Accounted
<1>10. QED BY <1>1, <1>2, <1>3, <1>4, <1>5, <1>6, <1>7, <1>8, <1>9 DEF MailNext

LEMMA MailInitially == MailInit => MailInv
<1> SUFFICES ASSUME MailInit PROVE MailInv
  OBVIOUS
<1>1. << >> \in Seq(arrived) /\ Len(<< >>) <= MaxPending /\ 0 \in 0..MailFaults
  BY MailAssumption
<1>2. ToSet(<< >>) = {} /\ Distinct(<< >>) /\ DOMAIN << >> = {}
  BY DEF ToSet, Distinct
<1>3. MailTypeOK
  BY <1>1 DEF MailInit, MailTypeOK
<1>4. QED BY <1>2, <1>3 DEF MailInit, MailInv, ListInv, UrgentIsSurfaced

\* The lists are sequences of mails that have come, none of them twice, the mail
\* whose push is awaited has been shown, and no marked mail is forgotten.
THEOREM MailInvHolds == MailSpec => []MailInv
  BY MailInitially, MailStep, PTL DEF MailSpec

\* The inbox, the batch and the dashboard's list hold mails that have come, and the
\* list never more than the fifty (MaxPending) that add_pending_email keeps.
THEOREM MailTypeCorrect == MailSpec => []MailTypeOK
<1>1. MailInv => MailTypeOK
  BY DEF MailInv
<1>2. QED BY <1>1, MailInvHolds, PTL

\* However the loop, BOB's tool, dismissals, failing fetches and restarts
\* interleave, no mail is on the dashboard twice: so to dismiss the mail with an id
\* is to take one entry out.
THEOREM MailsAreListedOnce == MailSpec => []OnDashboardOnce
<1>1. MailInv => OnDashboardOnce
  BY DEF MailInv, ListInv, OnDashboardOnce
<1>2. QED BY <1>1, MailInvHolds, PTL

\* A mail that is not looked at again has been surfaced or taken if it is
\* actionable, or is behind a push: no mail is marked and then forgotten.
THEOREM UrgentMailSurfaces == MailSpec => []UrgentIsSurfaced
<1>1. MailInv => UrgentIsSurfaced
  BY DEF MailInv
<1>2. QED BY <1>1, MailInvHolds, PTL

(***************************************************************************)
(* MCServices                                                              *)
(***************************************************************************)
\* A step of each component, or of none of its variables.
EachSteps ==
  /\ [PhotoNext]_photoVars
  /\ [ChatNext]_chatVars
  /\ [VoiceNext]_voiceVars
  /\ [KeyNext]_keyVars
  /\ [MailNext]_mailVars
  /\ [UsageNext]_usageVars
  /\ [MemoryNext]_memoryVars
  /\ [RegistryNext]_registryVars
  /\ [WorkbenchNext]_workbenchVars
  /\ [SchedulerNext]_schedulerVars
  /\ [FeedNext]_feedVars

\* The component in focus takes its step and the others stand still.
LEMMA FocusStep ==
  ASSUME focus \in Parts, [ServicesNext]_servicesVars
  PROVE  focus' \in Parts /\ EachSteps
<1>1. CASE focus = "photos" /\ PhotoNext
               /\ Rest(UNCHANGED <<chatVars, voiceVars, keyVars, mailVars, usageVars,
                                  memoryVars, registryVars, workbenchVars, schedulerVars, feedVars>>)
  BY <1>1 DEF Rest, EachSteps
<1>2. CASE focus \in {"chats", "rates"} /\ ChatNext
               /\ Rest(UNCHANGED <<photoVars, voiceVars, keyVars, mailVars, usageVars,
                                  memoryVars, registryVars, workbenchVars, schedulerVars, feedVars>>)
  BY <1>2 DEF Rest, EachSteps
<1>3. CASE focus = "voice" /\ VoiceNext
               /\ Rest(UNCHANGED <<photoVars, chatVars, keyVars, mailVars, usageVars,
                                  memoryVars, registryVars, workbenchVars, schedulerVars, feedVars>>)
  BY <1>3 DEF Rest, EachSteps
<1>4. CASE focus = "keys" /\ KeyNext
               /\ Rest(UNCHANGED <<photoVars, chatVars, voiceVars, mailVars, usageVars,
                                  memoryVars, registryVars, workbenchVars, schedulerVars, feedVars>>)
  BY <1>4 DEF Rest, EachSteps
<1>5. CASE focus = "mails" /\ MailNext
               /\ Rest(UNCHANGED <<photoVars, chatVars, voiceVars, keyVars, usageVars,
                                  memoryVars, registryVars, workbenchVars, schedulerVars, feedVars>>)
  BY <1>5 DEF Rest, EachSteps
<1>6. CASE focus = "usage" /\ UsageNext
               /\ Rest(UNCHANGED <<photoVars, chatVars, voiceVars, keyVars, mailVars,
                                  memoryVars, registryVars, workbenchVars, schedulerVars, feedVars>>)
  BY <1>6 DEF Rest, EachSteps
<1>7. CASE focus = "memory" /\ MemoryNext
               /\ Rest(UNCHANGED <<photoVars, chatVars, voiceVars, keyVars, mailVars,
                                  usageVars, registryVars, workbenchVars, schedulerVars, feedVars>>)
  BY <1>7 DEF Rest, EachSteps
<1>8. CASE focus = "registry" /\ RegistryNext
               /\ Rest(UNCHANGED <<photoVars, chatVars, voiceVars, keyVars, mailVars,
                                  usageVars, memoryVars, workbenchVars, schedulerVars, feedVars>>)
  BY <1>8 DEF Rest, EachSteps
<1>9. CASE focus = "workbench" /\ WorkbenchNext
               /\ Rest(UNCHANGED <<photoVars, chatVars, voiceVars, keyVars, mailVars,
                                  usageVars, memoryVars, registryVars, schedulerVars, feedVars>>)
  BY <1>9 DEF Rest, EachSteps
<1>10. CASE focus = "scheduler" /\ SchedulerNext
               /\ Rest(UNCHANGED <<photoVars, chatVars, voiceVars, keyVars, mailVars,
                                  usageVars, memoryVars, registryVars, workbenchVars, feedVars>>)
  BY <1>10 DEF Rest, EachSteps
<1>11. CASE focus = "feed" /\ FeedNext
               /\ Rest(UNCHANGED <<photoVars, chatVars, voiceVars, keyVars, mailVars,
                                  usageVars, memoryVars, registryVars, workbenchVars, schedulerVars>>)
  BY <1>11 DEF Rest, EachSteps
<1>12. CASE UNCHANGED servicesVars
  BY <1>12 DEF servicesVars, EachSteps
<1>13. QED
  BY <1>1, <1>2, <1>3, <1>4, <1>5, <1>6, <1>7, <1>8, <1>9, <1>10, <1>11, <1>12 DEF ServicesNext

\* Each component starts as it does alone.
EachInit ==
  /\ PhotoInit /\ ChatInit /\ VoiceInit /\ KeyInit /\ MailInit /\ UsageInit
  /\ MemoryInit /\ RegistryInit /\ WorkbenchInit /\ SchedulerInit /\ FeedInit

LEMMA ServicesInitially == ServicesInit => focus \in Parts /\ EachInit
  BY DEF ServicesInit, EachInit

\* Focus stays on one of the components.
LEMMA FocusStays == ServicesSpec => [](focus \in Parts)
<1>1. focus \in Parts /\ [ServicesNext]_servicesVars => (focus \in Parts)'
  BY FocusStep
<1>2. QED BY <1>1, ServicesInitially, PTL DEF ServicesSpec

\* Each behaviour of the run is a behaviour of every component, to which what the
\* others do is a stutter: so whatever holds of a component by itself holds of it
\* here, and the run, which exercises one at a time, adds nothing to any of them.
THEOREM ServicesImplementEach ==
  ServicesSpec => /\ PhotoSpec /\ ChatSpec /\ VoiceSpec /\ KeySpec /\ MailSpec /\ UsageSpec
                  /\ MemorySpec /\ RegistrySpec /\ WorkbenchSpec /\ SchedulerSpec /\ FeedSpec
<1>1. focus \in Parts /\ [ServicesNext]_servicesVars
      => /\ [PhotoNext]_photoVars /\ [ChatNext]_chatVars /\ [VoiceNext]_voiceVars
         /\ [KeyNext]_keyVars /\ [MailNext]_mailVars /\ [UsageNext]_usageVars
         /\ [MemoryNext]_memoryVars /\ [RegistryNext]_registryVars /\ [WorkbenchNext]_workbenchVars
         /\ [SchedulerNext]_schedulerVars /\ [FeedNext]_feedVars
  BY FocusStep DEF EachSteps
<1>2. ServicesInit => /\ PhotoInit /\ ChatInit /\ VoiceInit /\ KeyInit /\ MailInit /\ UsageInit
                      /\ MemoryInit /\ RegistryInit /\ WorkbenchInit /\ SchedulerInit /\ FeedInit
  BY ServicesInitially DEF EachInit
<1>3. QED
  BY <1>1, <1>2, FocusStays, PTL
     DEF ServicesSpec, PhotoSpec, ChatSpec, VoiceSpec, KeySpec, MailSpec, UsageSpec,
         MemorySpec, RegistrySpec, WorkbenchSpec, SchedulerSpec, FeedSpec

\* The component in focus is of its type: every counter, cache, list and row of the
\* eleven components stays within what the code gives it, whatever the others are.
THEOREM ServicesTypeCorrect == ServicesSpec => []ServicesTypeOK
<1>1. focus \in Parts
      /\ PhotoTypeOK /\ ChatTypeOK /\ VoiceTypeOK /\ KeyTypeOK
      /\ MailTypeOK /\ UsageTypeOK /\ MemoryTypeOK /\ RegistryTypeOK
      /\ WorkbenchTypeOK /\ SchedulerTypeOK /\ FeedTypeOK
      => ServicesTypeOK
  BY DEF Parts, ServicesTypeOK
<1>2. QED
  BY <1>1, FocusStays, ServicesImplementEach, PhotoTypeCorrect, ChatTypeCorrect, VoiceTypeCorrect, KeyTypeCorrect,
     MailTypeCorrect, UsageTypeCorrect, MemoryTypeCorrect, RegistryTypeCorrect,
     WorkbenchTypeCorrect, SchedulerTypeCorrect, FeedTypeCorrect, PTL
============================================================================
