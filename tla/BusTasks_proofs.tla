--------------------------- MODULE BusTasks_proofs ---------------------------
(***************************************************************************)
(* Theorems about BusTasks, for every set of tasks, clients and agents.    *)
(***************************************************************************)
EXTENDS BusTasks, TLAPS

\* A step of the table leads from a gapless history to a gapless history.
LEMMA TableLeavesNoGap ==
  ASSUME NEW S \in SUBSET TaskState, NEW s \in S,
         NEW n \in VALID_TRANSITIONS[s], NoGap(S)
  PROVE  n \in TaskState /\ NoGap(S \cup {n})
BY DEF VALID_TRANSITIONS, Lifecycle!VALID_TRANSITIONS, Lifecycle!Transitions,
       TaskState, Lifecycle!TaskState, NoGap, Prerequisite

\* Histories without a gap can be joined.
LEMMA NoGapUnion ==
  ASSUME NEW S, NEW T, NoGap(S), NoGap(T)
  PROVE  NoGap(S \cup T)
BY DEF NoGap

\* What a client's record holds at each point of its request.
LEMMA RequestFields ==
  ASSUME NEW r \in Request
  PROVE  /\ r.pc \in {"idle", "adding", "announcing", "watching", "writing"}
         /\ r.pc = "idle" => r = Idle
         /\ r.pc = "adding" =>
              r \in PostInFlight /\ r.task \in Tasks /\ r.left \in SUBSET Watcher
         /\ r.pc \in {"announcing", "watching", "writing"} =>
              /\ r \in PatchInFlight
              /\ r.task \in Tasks
              /\ r.new \in TaskState \cup {None}
              /\ r.assignee \in Agents \cup {None}
         /\ r.pc = "announcing" => r.new \in TaskState
         /\ r.pc = "watching" => r.assignee \in Agents
BY DEF Request, PostInFlight, PatchInFlight, Idle

\* Changing the pc of a PATCH leaves what it is about to write.
LEMMA MovesOn ==
  ASSUME NEW r \in PatchInFlight, NEW p
  PROVE  LET q == [r EXCEPT !.pc = p]
         IN  q.pc = p /\ q.task = r.task /\ q.new = r.new /\ q.assignee = r.assignee
BY DEF PatchInFlight

\* Removing a watcher from those a POST has left to add.
LEMMA OneLess ==
  ASSUME NEW r \in PostInFlight, NEW L
  PROVE  LET q == [r EXCEPT !.left = L]
         IN  q.pc = "adding" /\ q.task = r.task /\ q.left = L
BY DEF PostInFlight

(***************************************************************************)
(* Type correctness.                                                       *)
(***************************************************************************)
\* Every reachable state of the handlers and the rows is well formed.
THEOREM TypeCorrect == Spec => []TypeOK
<1>1. Init => TypeOK
  BY DEF Init, TypeOK, Request, TaskState
<1>2. TypeOK /\ [Next]_vars => TypeOK'
  <2> SUFFICES ASSUME TypeOK, [Next]_vars
               PROVE  TypeOK'
    OBVIOUS
  <2> USE DEF TypeOK
  <2>1. ASSUME NEW c \in Clients, NEW t \in Tasks, NEW a \in Agents \cup {None},
               NEW extra \in SUBSET Agents, PostInsert(c, t, a, extra)
        PROVE  TypeOK'
    <3>1. "CREATED" \in TaskState
      BY DEF TaskState, Lifecycle!TaskState
    <3>2. InitialWatchers(a, extra) \in SUBSET Watcher
      BY DEF InitialWatchers, Watcher
    <3>3. [pc |-> "adding", task |-> t, left |-> InitialWatchers(a, extra)] \in Request
      BY <3>2 DEF Request, PostInFlight
    <3> QED
      BY <2>1, <3>1, <3>3 DEF PostInsert
  <2>2. ASSUME NEW c \in Clients, NEW w \in Watcher, PostAddWatcher(c, w)
        PROVE  TypeOK'
    <3>1. req[c] \in PostInFlight /\ req[c].task \in Tasks
      BY <2>2, RequestFields DEF PostAddWatcher
    <3>2. [req[c] EXCEPT !.left = @ \ {w}] \in Request
      BY <3>1 DEF Request, PostInFlight
    <3> QED
      BY <2>2, <3>1, <3>2 DEF PostAddWatcher
  <2>3. ASSUME NEW c \in Clients, PostAnnounce(c)
        PROVE  TypeOK'
    <3>1. req[c].task \in Tasks
      BY <2>3, RequestFields DEF PostAnnounce
    <3>2. "CREATED" \in TaskState
      BY DEF TaskState, Lifecycle!TaskState
    <3> QED
      BY <2>3, <3>1, <3>2 DEF PostAnnounce, Request
  <2>4. ASSUME NEW c \in Clients, PostBroadcastFails(c)
        PROVE  TypeOK'
    BY <2>4 DEF PostBroadcastFails, Request
  <2>5. ASSUME NEW c \in Clients, PatchAnnounce(c)
        PROVE  TypeOK'
    <3>1. /\ req[c] \in PatchInFlight
          /\ req[c].task \in Tasks
          /\ req[c].new \in TaskState
          /\ req[c].assignee \in Agents \cup {None}
      BY <2>5, RequestFields DEF PatchAnnounce
    <3>2. [req[c] EXCEPT !.pc = AfterAnnounce(req[c].assignee)] \in Request
      BY <3>1 DEF Request, PatchInFlight, AfterAnnounce
    <3>3. req' \in [Clients -> Request]
      BY <2>5, <3>2 DEF PatchAnnounce, Request
    <3> QED
      BY <2>5, <3>1, <3>3 DEF PatchAnnounce
  <2>6. ASSUME NEW c \in Clients, PatchWatch(c)
        PROVE  TypeOK'
    <3>1. /\ req[c] \in PatchInFlight
          /\ req[c].task \in Tasks
          /\ req[c].assignee \in Agents
      BY <2>6, RequestFields DEF PatchWatch
    <3>2. [req[c] EXCEPT !.pc = "writing"] \in Request
      BY <3>1 DEF Request, PatchInFlight
    <3> QED
      BY <2>6, <3>1, <3>2 DEF PatchWatch, Watcher
  <2>7. ASSUME NEW c \in Clients, PatchWrite(c)
        PROVE  TypeOK'
    <3>1. /\ req[c].task \in Tasks
          /\ req[c].new \in TaskState \cup {None}
          /\ req[c].assignee \in Agents \cup {None}
      BY <2>7, RequestFields DEF PatchWrite
    <3> QED
      BY <2>7, <3>1 DEF PatchWrite, Request
  <2>8. ASSUME NEW c \in Clients, NEW t \in Tasks, NEW new \in TaskState \cup {None},
               NEW a \in Agents \cup {None}, PatchRead(c, t, new, a)
        PROVE  TypeOK'
    <3>1. [pc |-> AfterRead(new, a), task |-> t, new |-> new, assignee |-> a] \in Request
      BY <2>8 DEF PatchRead, Request, PatchInFlight, AfterRead, AfterAnnounce
    <3> QED
      BY <2>8, <3>1 DEF PatchRead
  <2>9. ASSUME NEW t \in Tasks, NEW a \in Agents, WatchTask(t, a) \/ UnwatchTask(t, a)
        PROVE  TypeOK'
    BY <2>9 DEF WatchTask, UnwatchTask, Watcher
  <2>10. CASE Crash
    BY <2>10 DEF Crash, Request
  <2>11. CASE UNCHANGED vars
    BY <2>11 DEF vars
  <2> QED
    BY <2>1, <2>2, <2>3, <2>4, <2>5, <2>6, <2>7, <2>8, <2>9, <2>10, <2>11 DEF Next
<1> QED
  BY <1>1, <1>2, PTL DEF Spec

(***************************************************************************)
(* How a request moves on.                                                 *)
(***************************************************************************)
Patching(c) == req[c].pc \in {"announcing", "watching", "writing"}

\* Adding one watcher leaves the POST with the others to add.
LEMMA PostMovesOn ==
  ASSUME TypeOK, NEW c \in Clients, NEW w \in Watcher, PostAddWatcher(c, w)
  PROVE  /\ req[c].task \in Tasks
         /\ req'[c].pc = "adding"
         /\ req'[c].task = req[c].task
         /\ req'[c].left = req[c].left \ {w}
         /\ \A d \in Clients \ {c} : req'[d] = req[d]
<1>1. req[c] \in PostInFlight /\ req[c].task \in Tasks
  BY RequestFields DEF PostAddWatcher, TypeOK
<1>2. req' = [req EXCEPT ![c] = [req[c] EXCEPT !.left = req[c].left \ {w}]]
  BY DEF PostAddWatcher
<1>3. req'[c] = [req[c] EXCEPT !.left = req[c].left \ {w}]
  BY <1>2 DEF TypeOK
<1>4. req'[c].pc = "adding" /\ req'[c].task = req[c].task
      /\ req'[c].left = req[c].left \ {w}
  BY <1>1, <1>3, OneLess
<1> QED
  BY <1>1, <1>2, <1>4 DEF TypeOK

\* A PATCH that announces or adds its watcher still writes what it read for,
\* or is over.
LEMMA PatchMovesOn ==
  ASSUME TypeOK, NEW c \in Clients, PatchAnnounce(c) \/ PatchWatch(c)
  PROVE  /\ Patching(c)
         /\ req[c].task \in Tasks
         /\ \A d \in Clients \ {c} : req'[d] = req[d]
         /\ \/ req'[c] = Idle
            \/ /\ req'[c].pc \in {"watching", "writing"}
               /\ PatchWatch(c) => req'[c].pc = "writing"
               /\ req[c].assignee # None /\ PatchAnnounce(c) => req'[c].pc = "watching"
               /\ req'[c].task = req[c].task
               /\ req'[c].new = req[c].new
               /\ req'[c].assignee = req[c].assignee
<1>1. req[c] \in PatchInFlight /\ Patching(c) /\ req[c].task \in Tasks
  BY RequestFields DEF PatchAnnounce, PatchWatch, TypeOK, Patching
<1>2. PICK p : /\ \/ req' = [req EXCEPT ![c] = [req[c] EXCEPT !.pc = p]]
                  \/ req' = [req EXCEPT ![c] = Idle]
               /\ p \in {"watching", "writing"}
               /\ PatchWatch(c) => p = "writing"
               /\ req[c].assignee # None /\ PatchAnnounce(c) => p = "watching"
  <2>1. CASE PatchAnnounce(c)
    <3>1. ~PatchWatch(c)
      BY <2>1 DEF PatchAnnounce, PatchWatch
    <3> QED
      BY <2>1, <3>1 DEF PatchAnnounce, AfterAnnounce
  <2>2. CASE PatchWatch(c)
    <3>1. ~PatchAnnounce(c)
      BY <2>2 DEF PatchAnnounce, PatchWatch
    <3> QED
      BY <2>2, <3>1 DEF PatchWatch
  <2> QED
    BY <2>1, <2>2
<1>3. CASE req' = [req EXCEPT ![c] = [req[c] EXCEPT !.pc = p]]
  <2>1. req'[c] = [req[c] EXCEPT !.pc = p]
    BY <1>3 DEF TypeOK
  <2>2. /\ req'[c].pc = p
        /\ req'[c].task = req[c].task
        /\ req'[c].new = req[c].new
        /\ req'[c].assignee = req[c].assignee
    BY <1>1, <2>1, MovesOn
  <2>3. \A d \in Clients \ {c} : req'[d] = req[d]
    BY <1>3 DEF TypeOK
  <2> QED
    BY <1>1, <1>2, <2>2, <2>3
<1>4. CASE req' = [req EXCEPT ![c] = Idle]
  BY <1>1, <1>4 DEF TypeOK
<1> QED
  BY <1>2, <1>3, <1>4

(***************************************************************************)
(* No stage is skipped.  NoStageSkipped is not inductive: a PATCH writes a *)
(* state it validated against a row that may have changed since.  What     *)
(* stays true is that the state it validated was one the task has held, so *)
(* the history extended by the pending state has no gap, and a history     *)
(* only grows.                                                             *)
(***************************************************************************)
\* The row's state is in its history.
HeldIsRemembered == \A t \in Tasks : state[t] # Absent => state[t] \in ever[t]

\* The state a request is about to write leaves no gap in the history.
PendingLeavesNoGap ==
  \A c \in Clients :
    Patching(c) /\ req[c].new # None => NoGap(ever[req[c].task] \cup {req[c].new})

StageInv == NoStageSkipped /\ HeldIsRemembered /\ PendingLeavesNoGap

LEMMA StageInvStep ==
  ASSUME TypeOK, StageInv, [Next]_vars
  PROVE  StageInv'
<1> USE DEF StageInv
<1>0. NoGap({"CREATED"})
  BY DEF NoGap, Prerequisite
<1>1. ASSUME NEW c \in Clients, NEW t \in Tasks, NEW a \in Agents \cup {None},
             NEW extra \in SUBSET Agents, PostInsert(c, t, a, extra)
      PROVE  StageInv'
  <2>1. \A u \in Tasks : ever'[u] = ever[u] \/ ever'[u] = ever[u] \cup {"CREATED"}
    BY <1>1 DEF PostInsert, TypeOK
  <2>2. NoStageSkipped'
    BY <1>0, <2>1, NoGapUnion DEF NoStageSkipped
  <2>3. HeldIsRemembered'
    BY <1>1 DEF PostInsert, TypeOK, HeldIsRemembered
  <2>4. ASSUME NEW d \in Clients, Patching(d)', (req[d].new # None)'
        PROVE  NoGap(ever[req[d].task] \cup {req[d].new})'
    <3>1. req'[d] = req[d] /\ Patching(d) /\ req[d].new # None
      BY <1>1, <2>4 DEF PostInsert, TypeOK, Patching
    <3>2. req[d].task \in Tasks
      BY <3>1, RequestFields DEF Patching, TypeOK
    <3>3. NoGap(ever[req[d].task] \cup {req[d].new})
      BY <3>1 DEF PendingLeavesNoGap
    <3>4. NoGap((ever[req[d].task] \cup {req[d].new}) \cup {"CREATED"})
      BY <1>0, <3>3, NoGapUnion
    <3>5. (ever[req[d].task] \cup {req[d].new}) \cup {"CREATED"}
            = (ever[req[d].task] \cup {"CREATED"}) \cup {req[d].new}
      OBVIOUS
    <3> QED
      BY <2>1, <3>1, <3>2, <3>3, <3>4, <3>5
  <2> QED
    BY <2>2, <2>3, <2>4 DEF PendingLeavesNoGap
<1>2. ASSUME NEW c \in Clients,
             \/ \E w \in Watcher : PostAddWatcher(c, w)
             \/ PostAnnounce(c)
             \/ PostBroadcastFails(c)
             \/ PatchAnnounce(c)
             \/ PatchWatch(c)
      PROVE  StageInv'
  <2>1. UNCHANGED <<state, ever>>
    BY <1>2 DEF PostAddWatcher, PostAnnounce, PostBroadcastFails, PatchAnnounce, PatchWatch
  <2>2. \A d \in Clients : Patching(d)' =>
          Patching(d) /\ req'[d].task = req[d].task /\ req'[d].new = req[d].new
    <3>1. CASE \E w \in Watcher : PostAddWatcher(c, w)
      BY <3>1, PostMovesOn DEF Patching
    <3>2. CASE PostAnnounce(c) \/ PostBroadcastFails(c)
      BY <3>2 DEF PostAnnounce, PostBroadcastFails, TypeOK, Patching, Idle
    <3>3. CASE PatchAnnounce(c) \/ PatchWatch(c)
      BY <3>3, PatchMovesOn DEF Patching, Idle
    <3> QED
      BY <1>2, <3>1, <3>2, <3>3
  <2> QED
    BY <2>1, <2>2 DEF NoStageSkipped, HeldIsRemembered, PendingLeavesNoGap
<1>3. ASSUME NEW c \in Clients, PatchWrite(c)
      PROVE  StageInv'
  <2> DEFINE t == req[c].task
             n == req[c].new
  <2>1. t \in Tasks /\ n \in TaskState \cup {None} /\ Patching(c)
    BY <1>3, RequestFields DEF PatchWrite, TypeOK, Patching
  <2>2. /\ ever' = [ever EXCEPT ![t] = @ \cup ({n} \ {None})]
        /\ state' = [state EXCEPT ![t] = IF n # None THEN n ELSE @]
        /\ req' = [req EXCEPT ![c] = Idle]
    BY <1>3 DEF PatchWrite
  <2>3. NoGap(ever'[t])
    BY <2>1, <2>2 DEF PendingLeavesNoGap, NoStageSkipped, TypeOK
  <2>4. NoStageSkipped'
    BY <2>1, <2>2, <2>3 DEF NoStageSkipped, TypeOK
  <2>5. HeldIsRemembered'
    BY <2>1, <2>2 DEF HeldIsRemembered, TypeOK
  <2>6. ASSUME NEW d \in Clients, Patching(d)', (req[d].new # None)'
        PROVE  NoGap(ever[req[d].task] \cup {req[d].new})'
    <3>1. req'[d] = req[d] /\ Patching(d) /\ req[d].new # None
      BY <2>2, <2>6 DEF TypeOK, Patching, Idle
    <3>2. req[d].task \in Tasks
      BY <3>1, RequestFields DEF Patching, TypeOK
    <3>3. NoGap(ever[req[d].task] \cup {req[d].new})
      BY <3>1 DEF PendingLeavesNoGap
    <3>4. NoGap(ever'[req[d].task] \cup (ever[req[d].task] \cup {req[d].new}))
      BY <2>4, <3>2, <3>3, NoGapUnion DEF NoStageSkipped
    <3>5. ever[req[d].task] \subseteq ever'[req[d].task]
      BY <2>2, <3>2 DEF TypeOK
    <3>6. ever'[req[d].task] \cup (ever[req[d].task] \cup {req[d].new})
            = ever'[req[d].task] \cup {req[d].new}
      BY <3>5
    <3> QED
      BY <3>1, <3>4, <3>6
  <2> QED
    BY <2>4, <2>5, <2>6 DEF PendingLeavesNoGap
<1>4. ASSUME NEW c \in Clients, NEW t \in Tasks, NEW new \in TaskState \cup {None},
             NEW a \in Agents \cup {None}, PatchRead(c, t, new, a)
      PROVE  StageInv'
  <2>1. UNCHANGED <<state, ever>>
    BY <1>4 DEF PatchRead
  <2>2. ASSUME new # None
        PROVE  NoGap(ever[t] \cup {new})
    <3>1. state[t] \in ever[t] /\ ever[t] \in SUBSET TaskState /\ NoGap(ever[t])
      BY <1>4 DEF PatchRead, HeldIsRemembered, NoStageSkipped, TypeOK
    <3> QED
      BY <1>4, <2>2, <3>1, TableLeavesNoGap DEF PatchRead, Allowed
  <2>3. req' = [req EXCEPT ![c] = [pc |-> AfterRead(new, a), task |-> t,
                                   new |-> new, assignee |-> a]]
    BY <1>4 DEF PatchRead
  <2>4. ASSUME NEW d \in Clients, Patching(d)', (req[d].new # None)'
        PROVE  NoGap(ever[req[d].task] \cup {req[d].new})'
    <3>1. CASE d = c
      BY <2>1, <2>2, <2>3, <2>4, <3>1 DEF TypeOK
    <3>2. CASE d # c
      BY <2>1, <2>3, <2>4, <3>2 DEF TypeOK, Patching, PendingLeavesNoGap
    <3> QED
      BY <3>1, <3>2
  <2> QED
    BY <2>1, <2>4 DEF NoStageSkipped, HeldIsRemembered, PendingLeavesNoGap
<1>5. ASSUME NEW t \in Tasks, NEW a \in Agents, WatchTask(t, a) \/ UnwatchTask(t, a)
      PROVE  StageInv'
  BY <1>5 DEF WatchTask, UnwatchTask, NoStageSkipped, HeldIsRemembered,
              PendingLeavesNoGap, Patching
<1>6. CASE Crash
  BY <1>6 DEF Crash, NoStageSkipped, HeldIsRemembered, PendingLeavesNoGap, Patching, Idle
<1>7. CASE UNCHANGED vars
  BY <1>7 DEF vars, NoStageSkipped, HeldIsRemembered, PendingLeavesNoGap, Patching
<1> QED
  BY <1>1, <1>2, <1>3, <1>4, <1>5, <1>6, <1>7 DEF Next

LEMMA StageInvHolds == Spec => []StageInv
<1>1. Init => StageInv
  BY DEF Init, StageInv, NoStageSkipped, HeldIsRemembered, PendingLeavesNoGap,
         NoGap, Prerequisite, Patching, Idle
<1>2. TypeOK /\ StageInv /\ [Next]_vars => StageInv'
  BY StageInvStep
<1> QED
  BY <1>1, <1>2, TypeCorrect, PTL DEF Spec

\* No interleaving of requests puts a task into a stage it was not led to.
THEOREM StagesAreNotSkipped == Spec => []NoStageSkipped
<1>1. StageInv => NoStageSkipped
  BY DEF StageInv
<1> QED
  BY <1>1, StageInvHolds, PTL

(***************************************************************************)
(* No state is held before it was announced.                               *)
(***************************************************************************)
\* The state a request is past announcing has been announced.
PendingIsAnnounced ==
  \A c \in Clients :
    req[c].pc \in {"watching", "writing"} /\ req[c].new # None
      => req[c].new \in announced[req[c].task]

FeedInv == AnnouncedBeforeHeld /\ PendingIsAnnounced

LEMMA FeedInvStep ==
  ASSUME TypeOK, FeedInv, [Next]_vars
  PROVE  FeedInv'
<1> USE DEF FeedInv
<1>1. ASSUME NEW c \in Clients, NEW t \in Tasks, NEW a \in Agents \cup {None},
             NEW extra \in SUBSET Agents, PostInsert(c, t, a, extra)
      PROVE  FeedInv'
  <2>1. AnnouncedBeforeHeld'
    BY <1>1 DEF PostInsert, TypeOK, AnnouncedBeforeHeld
  <2>2. PendingIsAnnounced'
    BY <1>1 DEF PostInsert, TypeOK, PendingIsAnnounced
  <2> QED
    BY <2>1, <2>2
<1>2. ASSUME NEW c \in Clients,
             (\E w \in Watcher : PostAddWatcher(c, w)) \/ PostBroadcastFails(c)
      PROVE  FeedInv'
  <2>1. UNCHANGED <<ever, announced>>
    BY <1>2 DEF PostAddWatcher, PostBroadcastFails
  <2>2. \A d \in Clients : req'[d].pc \in {"watching", "writing"} => req'[d] = req[d]
    <3>1. CASE \E w \in Watcher : PostAddWatcher(c, w)
      BY <3>1, PostMovesOn
    <3>2. CASE PostBroadcastFails(c)
      BY <3>2 DEF PostBroadcastFails, TypeOK, Idle
    <3> QED
      BY <1>2, <3>1, <3>2
  <2> QED
    BY <2>1, <2>2 DEF AnnouncedBeforeHeld, PendingIsAnnounced
<1>3. ASSUME NEW c \in Clients, PostAnnounce(c)
      PROVE  FeedInv'
  <2>1. req[c].task \in Tasks
    BY <1>3, RequestFields DEF PostAnnounce, TypeOK
  <2>2. /\ \A t \in Tasks : announced[t] \subseteq announced'[t]
        /\ \A d \in Clients : req'[d] = req[d] \/ req'[d] = Idle
        /\ ever' = ever
    BY <1>3, <2>1 DEF PostAnnounce, TypeOK
  <2>3. \A d \in Clients : req[d].pc \in {"watching", "writing"} => req[d].task \in Tasks
    BY RequestFields DEF TypeOK
  <2> QED
    BY <2>2, <2>3 DEF AnnouncedBeforeHeld, PendingIsAnnounced, Idle
<1>4. ASSUME NEW c \in Clients, PatchAnnounce(c) \/ PatchWatch(c)
      PROVE  FeedInv'
  <2>1. req[c].task \in Tasks
    BY <1>4, PatchMovesOn
  <2>2. /\ \A t \in Tasks : announced[t] \subseteq announced'[t]
        /\ PatchAnnounce(c) => req[c].new \in announced'[req[c].task]
        /\ ever' = ever
    BY <1>4, <2>1 DEF PatchAnnounce, PatchWatch, TypeOK
  <2>3. \A d \in Clients : req[d].pc \in {"watching", "writing"} => req[d].task \in Tasks
    BY RequestFields DEF TypeOK
  <2>4. AnnouncedBeforeHeld'
    BY <2>2 DEF AnnouncedBeforeHeld
  <2>5. ASSUME NEW d \in Clients, req'[d].pc \in {"watching", "writing"}, req'[d].new # None
        PROVE  req'[d].new \in announced'[req'[d].task]
    <3>1. CASE d = c
      <4>1. req'[c].task = req[c].task /\ req'[c].new = req[c].new
        BY <1>4, <2>5, <3>1, PatchMovesOn DEF Idle
      <4>2. req[c].new \in announced'[req[c].task]
        <5>1. CASE PatchAnnounce(c)
          BY <2>2, <5>1
        <5>2. CASE PatchWatch(c)
          BY <2>1, <2>2, <2>5, <3>1, <4>1, <5>2 DEF PatchWatch, PendingIsAnnounced
        <5> QED
          BY <1>4, <5>1, <5>2
      <4> QED
        BY <3>1, <4>1, <4>2
    <3>2. CASE d # c
      <4>1. req'[d] = req[d]
        BY <1>4, <3>2, PatchMovesOn
      <4> QED
        BY <2>2, <2>3, <2>5, <4>1 DEF PendingIsAnnounced
    <3> QED
      BY <3>1, <3>2
  <2> QED
    BY <2>4, <2>5 DEF PendingIsAnnounced
<1>5. ASSUME NEW c \in Clients, PatchWrite(c)
      PROVE  FeedInv'
  <2>1. /\ req[c].task \in Tasks
        /\ req[c].new # None => req[c].new \in announced[req[c].task]
    BY <1>5, RequestFields DEF PatchWrite, TypeOK, PendingIsAnnounced
  <2>2. /\ ever' = [ever EXCEPT ![req[c].task] = @ \cup ({req[c].new} \ {None})]
        /\ announced' = announced
        /\ req' = [req EXCEPT ![c] = Idle]
    BY <1>5 DEF PatchWrite
  <2>3. AnnouncedBeforeHeld'
    BY <2>1, <2>2 DEF AnnouncedBeforeHeld, TypeOK
  <2>4. PendingIsAnnounced'
    BY <2>2 DEF PendingIsAnnounced, TypeOK, Idle
  <2> QED
    BY <2>3, <2>4
<1>6. ASSUME NEW c \in Clients, NEW t \in Tasks, NEW new \in TaskState \cup {None},
             NEW a \in Agents \cup {None}, PatchRead(c, t, new, a)
      PROVE  FeedInv'
  BY <1>6 DEF PatchRead, AfterRead, AfterAnnounce, TypeOK, AnnouncedBeforeHeld,
              PendingIsAnnounced
<1>7. ASSUME NEW t \in Tasks, NEW a \in Agents, WatchTask(t, a) \/ UnwatchTask(t, a)
      PROVE  FeedInv'
  BY <1>7 DEF WatchTask, UnwatchTask, AnnouncedBeforeHeld, PendingIsAnnounced
<1>8. CASE Crash
  BY <1>8 DEF Crash, AnnouncedBeforeHeld, PendingIsAnnounced, Idle
<1>9. CASE UNCHANGED vars
  BY <1>9 DEF vars, AnnouncedBeforeHeld, PendingIsAnnounced
<1> QED
  BY <1>1, <1>2, <1>3, <1>4, <1>5, <1>6, <1>7, <1>8, <1>9 DEF Next

\* The message feed is never behind the table.
THEOREM StatesAreAnnouncedFirst == Spec => []AnnouncedBeforeHeld
<1>1. Init => FeedInv
  BY DEF Init, FeedInv, AnnouncedBeforeHeld, PendingIsAnnounced, Idle
<1>2. TypeOK /\ FeedInv /\ [Next]_vars => FeedInv'
  BY FeedInvStep
<1>3. FeedInv => AnnouncedBeforeHeld
  BY DEF FeedInv
<1> QED
  BY <1>1, <1>2, <1>3, TypeCorrect, PTL DEF Spec

(***************************************************************************)
(* The assignee watches.  Between two steps of its requests a task may     *)
(* have an assignee that does not watch it yet: the POST that creates it   *)
(* has it among those left to add, and a PATCH has made whoever it assigns *)
(* a watcher before it writes.                                             *)
(***************************************************************************)
\* Who watches a task or has been removed from its watchers; it only grows.
Heeded(t) == watchers[t] \cup unwatched[t]

ToWatch(t) == {assignee[t], ORCH} \ {None}

\* The same after the step.
HeededNext(t)  == watchers'[t] \cup unwatched'[t]
ToWatchNext(t) == {assignee'[t], ORCH} \ {None}

RowsStay ==
  /\ \A t \in created : state[t] # Absent
  /\ \A c \in Clients : req[c].pc = "adding" => state[req[c].task] # Absent

\* The POST has the assignee and ORCH still to add, or has added them.
LeftToAdd ==
  \A c \in Clients :
    req[c].pc = "adding" => ToWatch(req[c].task) \subseteq Heeded(req[c].task) \cup req[c].left

\* A PATCH that is about to assign the task to an agent has made it a watcher.
WatchedFirst ==
  \A c \in Clients :
    req[c].pc = "writing" /\ req[c].assignee # None => req[c].assignee \in Heeded(req[c].task)

WatchInv == AssigneeWatches /\ RowsStay /\ LeftToAdd /\ WatchedFirst

\* Nobody who watches a task or was removed is forgotten.
LEMMA HeededGrows ==
  ASSUME TypeOK, [Next]_vars, NEW t \in Tasks
  PROVE  Heeded(t) \subseteq HeededNext(t)
<1> USE DEF Heeded, HeededNext, TypeOK
<1>1. ASSUME NEW c \in Clients, NEW w \in Watcher, PostAddWatcher(c, w)
      PROVE  Heeded(t) \subseteq HeededNext(t)
  BY <1>1 DEF PostAddWatcher
<1>2. ASSUME NEW c \in Clients, PatchWatch(c)
      PROVE  Heeded(t) \subseteq HeededNext(t)
  BY <1>2 DEF PatchWatch
<1>3. ASSUME NEW u \in Tasks, NEW a \in Agents, WatchTask(u, a) \/ UnwatchTask(u, a)
      PROVE  Heeded(t) \subseteq HeededNext(t)
  <2>1. CASE WatchTask(u, a)
    BY <2>1 DEF WatchTask
  <2>2. CASE UnwatchTask(u, a)
    BY <2>2 DEF UnwatchTask
  <2> QED
    BY <1>3, <2>1, <2>2
<1>4. CASE UNCHANGED <<watchers, unwatched>>
  BY <1>4
<1> QED
  BY <1>1, <1>2, <1>3, <1>4
  DEF Next, vars, PostInsert, PostAnnounce, PostBroadcastFails, PatchAnnounce, PatchWrite,
      PatchRead, Crash

\* A step that leaves the rows alone and lets no request forget anything.
LEMMA QuietStep ==
  ASSUME TypeOK, WatchInv, [Next]_vars,
         UNCHANGED <<state, assignee, created>>,
         \A c \in Clients : req'[c].pc = "adding" =>
           /\ req[c].pc = "adding" /\ req'[c].task = req[c].task
           /\ req[c].left \subseteq req'[c].left \cup HeededNext(req[c].task),
         \A c \in Clients : req'[c].pc = "writing" /\ req'[c].assignee # None =>
           req'[c].assignee \in HeededNext(req'[c].task)
  PROVE  WatchInv'
<1>1. AssigneeWatches'
  <2> SUFFICES ASSUME NEW t \in created
               PROVE  ToWatch(t) \subseteq HeededNext(t)
    BY DEF AssigneeWatches, ToWatch, ToWatchNext, Heeded, HeededNext
  <2>1. ToWatch(t) \subseteq Heeded(t) /\ t \in Tasks
    BY DEF WatchInv, AssigneeWatches, ToWatch, ToWatchNext, Heeded, HeededNext, TypeOK
  <2> QED
    BY <2>1, HeededGrows
<1>2. RowsStay'
  BY DEF WatchInv, RowsStay
<1>3. LeftToAdd'
  <2> SUFFICES ASSUME NEW c \in Clients, req'[c].pc = "adding"
               PROVE  ToWatch(req[c].task) \subseteq HeededNext(req[c].task) \cup req'[c].left
    BY DEF LeftToAdd, ToWatch, Heeded, HeededNext
  <2>1. ToWatch(req[c].task) \subseteq Heeded(req[c].task) \cup req[c].left
    BY DEF WatchInv, LeftToAdd
  <2>2. req[c].task \in Tasks
    BY RequestFields DEF TypeOK
  <2> QED
    BY <2>1, <2>2, HeededGrows
<1>4. WatchedFirst'
  BY DEF WatchedFirst, Heeded, HeededNext
<1> QED
  BY <1>1, <1>2, <1>3, <1>4 DEF WatchInv

LEMMA WatchInvStep ==
  ASSUME TypeOK, WatchInv, [Next]_vars
  PROVE  WatchInv'
<1>0. /\ \A c \in Clients : req[c].pc = "adding" => req[c].task \in Tasks
      /\ \A c \in Clients : req[c].pc = "writing" => req[c].task \in Tasks
      /\ \A c \in Clients : req[c].pc = "adding" => req[c].left \in SUBSET Watcher
  BY RequestFields DEF TypeOK
<1>1. ASSUME NEW c \in Clients, NEW t \in Tasks, NEW a \in Agents \cup {None},
             NEW extra \in SUBSET Agents, PostInsert(c, t, a, extra)
      PROVE  WatchInv'
  <2>1. /\ UNCHANGED <<watchers, created, unwatched>>
        /\ state[t] = Absent /\ state'[t] # Absent
        /\ \A u \in Tasks \ {t} : state'[u] = state[u] /\ assignee'[u] = assignee[u]
        /\ assignee'[t] = a
    <3>1. "CREATED" # Absent
      BY AbsentAssumption DEF TaskState, Lifecycle!TaskState
    <3> QED
      BY <1>1, <3>1 DEF PostInsert, TypeOK
  <2>2. /\ req'[c] = [pc |-> "adding", task |-> t, left |-> InitialWatchers(a, extra)]
        /\ \A d \in Clients \ {c} : req'[d] = req[d]
    BY <1>1 DEF PostInsert, TypeOK
  <2>3. t \notin created /\ \A d \in Clients : req[d].pc = "adding" => req[d].task # t
    BY <2>1 DEF WatchInv, RowsStay
  <2>4. AssigneeWatches'
    BY <2>1, <2>3 DEF WatchInv, AssigneeWatches, TypeOK
  <2>5. RowsStay'
    BY <1>0, <2>1, <2>2, <2>3 DEF WatchInv, RowsStay, TypeOK
  <2>6. LeftToAdd'
    <3> SUFFICES ASSUME NEW d \in Clients, req'[d].pc = "adding"
                 PROVE  ToWatchNext(req'[d].task) \subseteq HeededNext(req'[d].task) \cup req'[d].left
      BY DEF LeftToAdd, ToWatch, ToWatchNext, Heeded, HeededNext
    <3>1. CASE d = c
      BY <2>1, <2>2, <3>1 DEF ToWatch, ToWatchNext, InitialWatchers
    <3>2. CASE d # c
      BY <1>0, <2>1, <2>2, <2>3, <3>2 DEF WatchInv, LeftToAdd, ToWatch, ToWatchNext, Heeded, HeededNext
    <3> QED
      BY <3>1, <3>2
  <2>7. WatchedFirst'
    BY <2>1, <2>2 DEF WatchInv, WatchedFirst, Heeded, HeededNext
  <2> QED
    BY <2>4, <2>5, <2>6, <2>7 DEF WatchInv
<1>2. ASSUME NEW c \in Clients, NEW w \in Watcher, PostAddWatcher(c, w)
      PROVE  WatchInv'
  <2>1. /\ UNCHANGED <<state, assignee, created, unwatched>>
        /\ watchers' = [watchers EXCEPT ![req[c].task] = @ \cup {w}]
    BY <1>2 DEF PostAddWatcher
  <2>2. w \in HeededNext(req[c].task)
    BY <1>2, <2>1, PostMovesOn DEF Heeded, HeededNext, TypeOK
  <2>3. \A d \in Clients : req'[d].pc = "adding" =>
          /\ req[d].pc = "adding" /\ req'[d].task = req[d].task
          /\ req[d].left \subseteq req'[d].left \cup HeededNext(req[d].task)
    BY <1>2, <2>2, PostMovesOn DEF PostAddWatcher
  <2>4. \A d \in Clients : req'[d].pc = "writing" /\ req'[d].assignee # None =>
          req'[d].assignee \in HeededNext(req'[d].task)
    BY <1>0, <1>2, PostMovesOn, HeededGrows DEF WatchInv, WatchedFirst
  <2> QED
    BY <2>1, <2>3, <2>4, QuietStep
<1>3. ASSUME NEW c \in Clients, PostAnnounce(c)
      PROVE  WatchInv'
  <2>1. /\ UNCHANGED <<state, assignee, watchers, unwatched>>
        /\ created' = created \cup {req[c].task}
        /\ req[c].pc = "adding" /\ req[c].left = {}
        /\ req'[c] = Idle /\ \A d \in Clients \ {c} : req'[d] = req[d]
    BY <1>3 DEF PostAnnounce, TypeOK
  <2>2. ToWatch(req[c].task) \subseteq Heeded(req[c].task) /\ state[req[c].task] # Absent
    BY <2>1 DEF WatchInv, LeftToAdd, RowsStay
  <2> QED
    BY <2>1, <2>2 DEF WatchInv, AssigneeWatches, RowsStay, LeftToAdd, WatchedFirst, Idle,
                      ToWatch, ToWatchNext, Heeded, HeededNext
<1>4. ASSUME NEW c \in Clients, PatchAnnounce(c) \/ PatchWatch(c)
      PROVE  WatchInv'
  <2>1. UNCHANGED <<state, assignee, created, unwatched>>
    BY <1>4 DEF PatchAnnounce, PatchWatch
  <2>2. req'[c].pc = "writing" /\ req'[c].assignee # None =>
          req'[c].assignee \in HeededNext(req'[c].task)
    <3>1. CASE PatchAnnounce(c)
      BY <3>1, PatchMovesOn DEF Idle
    <3>2. CASE PatchWatch(c)
      <4>1. req[c].assignee \in HeededNext(req[c].task)
        BY <3>2, PatchMovesOn DEF PatchWatch, Heeded, HeededNext, TypeOK
      <4> QED
        BY <3>2, <4>1, PatchMovesOn DEF Idle
    <3> QED
      BY <1>4, <3>1, <3>2
  <2>3. \A d \in Clients : req'[d].pc = "adding" => d # c /\ req'[d] = req[d]
    BY <1>4, PatchMovesOn DEF Idle
  <2>4. \A d \in Clients : req'[d].pc = "writing" /\ req'[d].assignee # None =>
          req'[d].assignee \in HeededNext(req'[d].task)
    BY <1>0, <1>4, <2>2, PatchMovesOn, HeededGrows DEF WatchInv, WatchedFirst
  <2> QED
    BY <2>1, <2>3, <2>4, QuietStep
<1>5. ASSUME NEW c \in Clients, PatchWrite(c)
      PROVE  WatchInv'
  <2> DEFINE t == req[c].task
  <2>1. /\ t \in Tasks
        /\ req[c].new \in TaskState \cup {None}
        /\ req[c].assignee \in Agents \cup {None}
        /\ req[c].pc = "writing"
    BY <1>5, RequestFields DEF PatchWrite, TypeOK
  <2>2. /\ UNCHANGED <<watchers, created, unwatched>>
        /\ req'[c] = Idle /\ \A d \in Clients \ {c} : req'[d] = req[d]
        /\ \A u \in Tasks \ {t} : state'[u] = state[u] /\ assignee'[u] = assignee[u]
    BY <1>5, <2>1 DEF PatchWrite, TypeOK
  <2>3. state'[t] = state[t] \/ state'[t] # Absent
    BY <1>5, <2>1, AbsentAssumption DEF PatchWrite, TypeOK
  <2>4. assignee'[t] = assignee[t] \/ assignee'[t] \in Heeded(t)
    BY <1>5, <2>1 DEF PatchWrite, TypeOK, WatchInv, WatchedFirst
  <2>5. \A u \in Tasks : /\ state[u] # Absent => state'[u] # Absent
                        /\ ToWatchNext(u) \subseteq ToWatch(u) \cup Heeded(u)
                        /\ HeededNext(u) = Heeded(u)
    BY <2>2, <2>3, <2>4 DEF ToWatch, ToWatchNext, Heeded, HeededNext
  <2> HIDE DEF t
  <2>6. AssigneeWatches'
    <3> SUFFICES ASSUME NEW u \in created
                 PROVE  ToWatchNext(u) \subseteq HeededNext(u)
      BY <2>2 DEF AssigneeWatches, ToWatch, ToWatchNext, Heeded, HeededNext
    <3>1. u \in Tasks /\ ToWatch(u) \subseteq Heeded(u)
      BY DEF WatchInv, AssigneeWatches, ToWatch, ToWatchNext, Heeded, HeededNext, TypeOK
    <3> QED
      BY <2>5, <3>1
  <2>7. RowsStay'
    BY <1>0, <2>2, <2>5 DEF WatchInv, RowsStay, TypeOK, Idle
  <2>8. LeftToAdd'
    <3> SUFFICES ASSUME NEW d \in Clients, req'[d].pc = "adding"
                 PROVE  ToWatchNext(req'[d].task) \subseteq HeededNext(req'[d].task) \cup req'[d].left
      BY DEF LeftToAdd, ToWatch, ToWatchNext, Heeded, HeededNext
    <3>1. req'[d] = req[d]
      BY <2>2 DEF Idle
    <3>2. req[d].task \in Tasks
      BY <1>0, <3>1
    <3>3. ToWatch(req[d].task) \subseteq Heeded(req[d].task) \cup req[d].left
      BY <3>1 DEF WatchInv, LeftToAdd
    <3> QED
      BY <2>5, <3>1, <3>2, <3>3
  <2>9. WatchedFirst'
    BY <2>2 DEF WatchInv, WatchedFirst, Heeded, HeededNext, Idle
  <2> QED
    BY <2>6, <2>7, <2>8, <2>9 DEF WatchInv
<1>6. ASSUME NEW c \in Clients, NEW t \in Tasks, NEW new \in TaskState \cup {None},
             NEW a \in Agents \cup {None}, PatchRead(c, t, new, a)
      PROVE  WatchInv'
  <2>1. /\ UNCHANGED <<state, assignee, created, watchers, unwatched>>
        /\ \A d \in Clients \ {c} : req'[d] = req[d]
        /\ req'[c].pc \in {"announcing", "watching", "writing"}
        /\ req'[c].assignee = a
        /\ a # None => req'[c].pc # "writing"
    BY <1>6 DEF PatchRead, AfterRead, AfterAnnounce, TypeOK
  <2>2. \A d \in Clients : req'[d].pc = "writing" /\ req'[d].assignee # None =>
          req'[d].assignee \in HeededNext(req'[d].task)
    BY <2>1 DEF WatchInv, WatchedFirst, Heeded, HeededNext
  <2> QED
    BY <2>1, <2>2, QuietStep
<1>7. ASSUME NEW t \in Tasks, NEW a \in Agents, WatchTask(t, a) \/ UnwatchTask(t, a)
      PROVE  WatchInv'
  <2>1. UNCHANGED <<state, assignee, created, req>>
    BY <1>7 DEF WatchTask, UnwatchTask
  <2>2. \A d \in Clients : req'[d].pc = "writing" /\ req'[d].assignee # None =>
          req'[d].assignee \in HeededNext(req'[d].task)
    BY <1>0, <2>1, HeededGrows DEF WatchInv, WatchedFirst
  <2> QED
    BY <2>1, <2>2, QuietStep
<1>8. ASSUME (\E c \in Clients : PostBroadcastFails(c)) \/ Crash \/ UNCHANGED vars
      PROVE  WatchInv'
  <2>1. /\ UNCHANGED <<state, assignee, created, watchers, unwatched>>
        /\ \A d \in Clients : req'[d] = req[d] \/ req'[d] = Idle
    BY <1>8 DEF PostBroadcastFails, Crash, vars, TypeOK
  <2>2. \A d \in Clients : req'[d].pc = "writing" /\ req'[d].assignee # None =>
          req'[d].assignee \in HeededNext(req'[d].task)
    BY <2>1 DEF WatchInv, WatchedFirst, Heeded, HeededNext, Idle
  <2> QED
    BY <2>1, <2>2, QuietStep DEF Idle
<1> QED
  BY <1>1, <1>2, <1>3, <1>4, <1>5, <1>6, <1>7, <1>8 DEF Next

\* AssigneeWatches holds however POSTs, PATCHes and DELETEs about a task overlap
\* and whenever the bus stops: whoever a created task is assigned to has been made
\* its watcher, and so has the PM.
THEOREM AssigneesWatch == Spec => []AssigneeWatches
<1>1. Init => WatchInv
  BY DEF Init, WatchInv, AssigneeWatches, RowsStay, LeftToAdd, WatchedFirst, Idle
<1>2. TypeOK /\ WatchInv /\ [Next]_vars => WatchInv'
  BY WatchInvStep
<1>3. WatchInv => AssigneeWatches
  BY DEF WatchInv
<1> QED
  BY <1>1, <1>2, <1>3, TypeCorrect, PTL DEF Spec

(***************************************************************************)
(* The refinement of TaskLifecycle.  Where requests about one task do not  *)
(* overlap, what a PATCH read is still there when it writes: its write is  *)
(* an Advance, an insert is a Create, every other step a stutter.  Steps   *)
(* about tasks whose requests overlap are stutters too: Observed leaves    *)
(* them out.                                                               *)
(***************************************************************************)
OneAtATime ==
  \A c, d \in Clients :
    /\ req[c] # Idle /\ req[d] # Idle
    /\ req[c].task = req[d].task /\ req[c].task \in serialised
    => c = d

\* What a PATCH is going to write follows what the row still holds.
StillValid ==
  \A c \in Clients : Patching(c) /\ req[c].task \in serialised =>
    /\ state[req[c].task] # Absent
    /\ req[c].new # None => req[c].new \in VALID_TRANSITIONS[state[req[c].task]]

SerialInv == OneAtATime /\ StillValid

\* A request that moves on or ends, without touching the rows, keeps both.
LEMMA SerialStutter ==
  ASSUME SerialInv, UNCHANGED <<state, serialised>>,
         \A d \in Clients : req'[d] # Idle =>
           /\ req[d] # Idle /\ req'[d].task = req[d].task
           /\ req'[d].pc \in {"announcing", "watching", "writing"} =>
                Patching(d) /\ req'[d].new = req[d].new
  PROVE  SerialInv' /\ UNCHANGED <<state, serialised>>
BY DEF SerialInv, OneAtATime, StillValid, Patching, Idle

LEMMA SerialStep ==
  ASSUME TypeOK, SerialInv, [Next]_vars
  PROVE  SerialInv' /\ [Lifecycle!Next]_Observed
<1>1. ASSUME NEW c \in Clients, NEW t \in Tasks, NEW a \in Agents \cup {None},
             NEW extra \in SUBSET Agents, PostInsert(c, t, a, extra)
      PROVE  SerialInv' /\ [Lifecycle!Next]_Observed
  <2>1. /\ req'[c] = [pc |-> "adding", task |-> t, left |-> InitialWatchers(a, extra)]
        /\ \A d \in Clients \ {c} : req'[d] = req[d]
        /\ state[t] = Absent /\ state' = [state EXCEPT ![t] = "CREATED"]
        /\ UNCHANGED serialised
        /\ req[c] = Idle /\ (t \in serialised => \A d \in Clients : req[d] # Idle => req[d].task # t)
    BY <1>1 DEF PostInsert, MayArrive, Busy, TypeOK
  <2>2. OneAtATime'
    BY <2>1 DEF SerialInv, OneAtATime, Idle
  <2>3. StillValid'
    <3> SUFFICES ASSUME NEW d \in Clients, Patching(d)', (req[d].task \in serialised)'
                 PROVE  /\ state'[req'[d].task] # Absent
                        /\ req'[d].new # None =>
                             req'[d].new \in VALID_TRANSITIONS[state'[req'[d].task]]
      BY DEF StillValid
    <3>1. Patching(d) /\ req'[d] = req[d] /\ req[d] # Idle
      BY <2>1 DEF Patching, Idle
    <3>2. req[d].task \in Tasks \ {t}
      BY <2>1, <3>1, RequestFields DEF Patching, TypeOK
    <3>3. state'[req[d].task] = state[req[d].task]
      BY <2>1, <3>2 DEF TypeOK
    <3> QED
      BY <2>1, <2>2, <3>1, <3>3 DEF SerialInv, StillValid
  <2>4. CASE t \in serialised
    <3>1. Lifecycle!Create(t)
      BY <2>1, <2>4 DEF Lifecycle!Create, Observed, TypeOK
    <3> QED
      BY <2>2, <2>3, <3>1 DEF SerialInv, Lifecycle!Next
  <2>5. CASE t \notin serialised
    <3>1. UNCHANGED Observed
      BY <2>1, <2>5 DEF Observed, TypeOK
    <3> QED
      BY <2>2, <2>3, <3>1 DEF SerialInv
  <2> QED
    BY <2>4, <2>5
<1>2. ASSUME NEW c \in Clients, NEW t \in Tasks, NEW new \in TaskState \cup {None},
             NEW a \in Agents \cup {None}, PatchRead(c, t, new, a)
      PROVE  SerialInv' /\ UNCHANGED <<state, serialised>>
  <2>1. /\ req'[c] = [pc |-> AfterRead(new, a), task |-> t, new |-> new, assignee |-> a]
        /\ \A d \in Clients \ {c} : req'[d] = req[d]
        /\ UNCHANGED <<state, serialised>> /\ state[t] # Absent
        /\ new # None => new \in VALID_TRANSITIONS[state[t]]
        /\ req[c] = Idle /\ (t \in serialised => \A d \in Clients : req[d] # Idle => req[d].task # t)
    BY <1>2 DEF PatchRead, MayArrive, Busy, Allowed, TypeOK
  <2>2. OneAtATime'
    BY <2>1 DEF SerialInv, OneAtATime, Idle
  <2>3. StillValid'
    BY <2>1 DEF SerialInv, StillValid, Patching
  <2> QED
    BY <2>1, <2>2, <2>3 DEF SerialInv
<1>3. ASSUME NEW c \in Clients, PatchWrite(c)
      PROVE  SerialInv' /\ [Lifecycle!Next]_Observed
  <2> DEFINE t == req[c].task
             s == IF req[c].new # None THEN req[c].new ELSE state[t]
  <2>1. /\ t \in Tasks /\ req[c].pc = "writing"
        /\ req[c].new \in TaskState \cup {None}
    BY <1>3, RequestFields DEF PatchWrite, TypeOK
  <2>2. /\ state' = [state EXCEPT ![t] = s]
        /\ UNCHANGED serialised
        /\ req'[c] = Idle /\ \A d \in Clients \ {c} : req'[d] = req[d]
    BY <1>3 DEF PatchWrite, TypeOK
  <2>3. t \in serialised =>
          /\ state[t] # Absent
          /\ req[c].new # None => req[c].new \in VALID_TRANSITIONS[state[t]]
    BY <2>1 DEF SerialInv, StillValid, Patching
  <2>4. [Lifecycle!Next]_Observed
    <3>1. CASE t \in serialised /\ req[c].new # None
      <4>1. Lifecycle!Advance(t, req[c].new)
        BY <2>1, <2>2, <2>3, <3>1 DEF Lifecycle!Advance, VALID_TRANSITIONS, Observed, TypeOK
      <4>2. req[c].new \in Lifecycle!TaskState
        BY <2>1, <3>1 DEF TaskState
      <4> QED
        BY <2>1, <4>1, <4>2 DEF Lifecycle!Next
    <3>2. CASE t \notin serialised
      BY <2>1, <2>2, <3>2 DEF Observed, TypeOK
    <3>3. CASE req[c].new = None
      BY <2>1, <2>2, <3>3 DEF Observed, TypeOK
    <3> QED
      BY <3>1, <3>2, <3>3
  <2> HIDE DEF s
  <2>5. OneAtATime'
    BY <2>2 DEF SerialInv, OneAtATime
  <2>6. StillValid'
    <3> SUFFICES ASSUME NEW d \in Clients, Patching(d)', (req[d].task \in serialised)'
                 PROVE  /\ state'[req'[d].task] # Absent
                        /\ req'[d].new # None =>
                             req'[d].new \in VALID_TRANSITIONS[state'[req'[d].task]]
      BY DEF StillValid
    <3>1. Patching(d) /\ req'[d] = req[d] /\ req[d] # Idle /\ d # c
      BY <2>2 DEF Patching, Idle
    <3>2. req[d].task \in Tasks /\ req[d].task # t
      BY <2>1, <2>2, <3>1, RequestFields DEF Patching, TypeOK, SerialInv, OneAtATime, Idle
    <3>3. state'[req[d].task] = state[req[d].task]
      BY <2>2, <3>2 DEF TypeOK
    <3> QED
      BY <2>1, <2>2, <3>1, <3>3 DEF SerialInv, StillValid
  <2> QED
    BY <2>4, <2>5, <2>6 DEF SerialInv
<1>4. ASSUME NEW c \in Clients, NEW w \in Watcher, PostAddWatcher(c, w)
      PROVE  SerialInv' /\ UNCHANGED <<state, serialised>>
  <2>1. UNCHANGED <<state, serialised>> /\ req[c].pc = "adding"
    BY <1>4 DEF PostAddWatcher
  <2>2. \A d \in Clients : req'[d] # Idle =>
           /\ req[d] # Idle /\ req'[d].task = req[d].task
           /\ req'[d].pc \in {"announcing", "watching", "writing"} => d # c /\ req'[d] = req[d]
    BY <1>4, <2>1, PostMovesOn DEF Idle
  <2> QED
    BY <2>1, <2>2, SerialStutter DEF Patching
<1>5. ASSUME NEW c \in Clients, PatchAnnounce(c) \/ PatchWatch(c)
      PROVE  SerialInv' /\ UNCHANGED <<state, serialised>>
  <2>1. UNCHANGED <<state, serialised>>
    BY <1>5 DEF PatchAnnounce, PatchWatch
  <2> QED
    BY <1>5, <2>1, PatchMovesOn, SerialStutter DEF Patching, Idle
<1>6. ASSUME \/ \E c \in Clients : PostAnnounce(c) \/ PostBroadcastFails(c)
             \/ \E t \in Tasks, a \in Agents : WatchTask(t, a) \/ UnwatchTask(t, a)
             \/ Crash \/ UNCHANGED vars
      PROVE  SerialInv' /\ UNCHANGED <<state, serialised>>
  <2>1. /\ UNCHANGED <<state, serialised>>
        /\ \A d \in Clients : req'[d] = req[d] \/ req'[d] = Idle
    BY <1>6 DEF PostAnnounce, PostBroadcastFails, WatchTask, UnwatchTask, Crash, vars, TypeOK
  <2> QED
    BY <2>1, SerialStutter DEF Patching, Idle
<1> QED
  BY <1>1, <1>2, <1>3, <1>4, <1>5, <1>6 DEF Next, Observed

\* A task whose callers do not overlap two requests about it goes through the
\* lifecycle of models.py: every step of the handlers is a step of TaskLifecycle
\* on it or leaves its column alone, for any tasks, agents and number of requests
\* in flight, and however requests about the other tasks overlap.
THEOREM SerialRequestsImplementLifecycle ==
  Spec => ImplementsLifecycle
<1>1. Init => SerialInv /\ Lifecycle!Init
  BY DEF Init, SerialInv, OneAtATime, StillValid, Patching, Idle, Lifecycle!Init, Observed
<1>2. TypeOK /\ SerialInv /\ [Next]_vars => SerialInv' /\ [Lifecycle!Next]_Observed
  BY SerialStep
<1> QED
  BY <1>1, <1>2, TypeCorrect, PTL DEF Spec, ImplementsLifecycle, Lifecycle!Spec

\* Callers that never overlap two requests about one task get what the README
\* promises, which overlapping ones do not: the task only moves along the table.
THEOREM SerialTransitionsAreLegal ==
  Spec /\ serialised = Tasks => LegalTransitions
<1> DEFINE AllSerialised == serialised = Tasks
<1>1. AllSerialised /\ [Next]_vars => AllSerialised'
  BY DEF Next, vars, PostInsert, PostAddWatcher, PostAnnounce, PostBroadcastFails, PatchRead,
         PatchAnnounce, PatchWatch, PatchWrite, WatchTask, UnwatchTask, Crash
<1>2. TypeOK /\ TypeOK' /\ AllSerialised /\ AllSerialised' /\ [Lifecycle!Next]_Observed
      => [\A t \in Tasks : (state[t] # Absent /\ state'[t] # state[t])
            => state'[t] \in VALID_TRANSITIONS[state[t]]]_state
  <2> SUFFICES ASSUME TypeOK, TypeOK', AllSerialised, AllSerialised', [Lifecycle!Next]_Observed,
                      NEW t \in Tasks, state[t] # Absent, state'[t] # state[t]
               PROVE  state'[t] \in VALID_TRANSITIONS[state[t]]
    OBVIOUS
  <2>1. Observed = state /\ Observed' = state'
    BY DEF Observed, TypeOK
  <2>2. PICK u \in Tasks : Lifecycle!Create(u) \/ \E s \in Lifecycle!TaskState : Lifecycle!Advance(u, s)
    BY <2>1 DEF Lifecycle!Next
  <2>3. CASE Lifecycle!Create(u)
    BY <2>1, <2>3 DEF Lifecycle!Create, TypeOK
  <2>4. ASSUME NEW s \in Lifecycle!TaskState, Lifecycle!Advance(u, s)
        PROVE  state'[t] \in VALID_TRANSITIONS[state[t]]
    <3>1. u = t /\ state'[t] = s
      BY <2>1, <2>4 DEF Lifecycle!Advance, TypeOK
    <3>2. QED BY <2>1, <2>4, <3>1 DEF Lifecycle!Advance, VALID_TRANSITIONS
  <2>5. QED BY <2>2, <2>3, <2>4
<1> HIDE DEF AllSerialised
<1>3. Spec /\ AllSerialised => LegalTransitions
  BY <1>1, <1>2, SerialRequestsImplementLifecycle, TypeCorrect, PTL
     DEF Spec, ImplementsLifecycle, Lifecycle!Spec, LegalTransitions
<1> QED
  BY <1>3 DEF AllSerialised

(***************************************************************************)
(* What overlapping requests keep of the table.  A request is checked      *)
(* against a state the task has held, if not against the one it holds.     *)
(***************************************************************************)
\* The state a request is about to write follows one of its task's history.
PendingWasLegal ==
  \A c \in Clients :
    Patching(c) /\ req[c].new # None =>
      \E s \in ever[req[c].task] : req[c].new \in VALID_TRANSITIONS[s]

\* However many requests overlap, no task moves into a state that the table does
\* not give for some state it has held.
TransitionsWereLegal ==
  [][\A t \in Tasks : (state[t] # Absent /\ state'[t] # state[t])
       => \E s \in ever[t] : state'[t] \in VALID_TRANSITIONS[s]]_vars

\* A history only grows, and a request that goes on is about the same PATCH.
LEMMA PendingStep ==
  ASSUME TypeOK, HeldIsRemembered, PendingWasLegal, [Next]_vars
  PROVE  PendingWasLegal'
<1>1. \A t \in Tasks : ever[t] \subseteq ever'[t]
  BY DEF Next, PostInsert, PostAddWatcher, PostAnnounce, PostBroadcastFails, PatchAnnounce,
         PatchWatch, PatchWrite, PatchRead, WatchTask, UnwatchTask, Crash, vars, TypeOK
<1> DEFINE Goes(d) == /\ Patching(d) /\ req'[d].task = req[d].task /\ req'[d].new = req[d].new
                      /\ req[d].task \in Tasks
           Reads(d) == /\ req'[d].task \in Tasks /\ state[req'[d].task] # Absent
                       /\ req'[d].new # None =>
                            req'[d].new \in VALID_TRANSITIONS[state[req'[d].task]]
<1>2. ASSUME NEW d \in Clients, Patching(d)' PROVE Goes(d) \/ Reads(d)
  <2>0. Patching(d) => req[d].task \in Tasks
    BY RequestFields DEF Patching, TypeOK
  <2>a. req'[d] = req[d] => Goes(d)
    BY <1>2, <2>0 DEF Patching
  <2>b. req'[d] # Idle
    BY <1>2 DEF Patching, Idle
  <2>1. ASSUME NEW c \in Clients, NEW t \in Tasks, NEW a \in Agents \cup {None},
               NEW extra \in SUBSET Agents, PostInsert(c, t, a, extra)
        PROVE  Goes(d)
    <3>1. d # c
      BY <1>2, <2>1 DEF PostInsert, TypeOK, Patching
    <3>2. QED BY <2>a, <2>1, <3>1 DEF PostInsert, TypeOK
  <2>2. ASSUME NEW c \in Clients, NEW t \in Tasks, NEW new \in TaskState \cup {None},
               NEW a \in Agents \cup {None}, PatchRead(c, t, new, a)
        PROVE  Goes(d) \/ Reads(d)
    <3>1. CASE d = c
      <4>1. req'[d].task = t /\ req'[d].new = new
        BY <2>2, <3>1 DEF PatchRead, TypeOK
      <4>2. QED BY <2>2, <4>1 DEF PatchRead, Allowed
    <3>2. CASE d # c
      BY <2>a, <2>2, <3>2 DEF PatchRead, TypeOK
    <3>3. QED BY <3>1, <3>2
  <2>3. ASSUME NEW c \in Clients, NEW w \in Watcher, PostAddWatcher(c, w) PROVE Goes(d)
    BY <1>2, <2>a, <2>3, PostMovesOn DEF Patching
  <2>4. ASSUME NEW c \in Clients, PatchAnnounce(c) \/ PatchWatch(c) PROVE Goes(d)
    BY <2>a, <2>b, <2>4, PatchMovesOn
  <2>5. ASSUME \/ \E c \in Clients : PostAnnounce(c) \/ PostBroadcastFails(c) \/ PatchWrite(c)
               \/ \E t \in Tasks, a \in Agents : WatchTask(t, a) \/ UnwatchTask(t, a)
               \/ Crash \/ UNCHANGED vars
        PROVE  Goes(d)
    <3>1. req'[d] = req[d] \/ req'[d] = Idle
      BY <2>5 DEF PostAnnounce, PostBroadcastFails, PatchWrite, WatchTask, UnwatchTask, Crash,
                  vars, TypeOK
    <3>2. QED BY <2>a, <2>b, <3>1
  <2> HIDE DEF Goes, Reads
  <2>6. QED BY <2>1, <2>2, <2>3, <2>4, <2>5 DEF Next
<1>3. QED
  BY <1>1, <1>2 DEF PendingWasLegal, HeldIsRemembered

\* The table is asked of a state the task has held: what a race between two PATCHes
\* can do is to take a step that was legal earlier, never one that never was.
THEOREM RacesTakeLegalSteps == Spec => TransitionsWereLegal
<1>1. Init => HeldIsRemembered /\ PendingWasLegal
  BY DEF Init, HeldIsRemembered, PendingWasLegal, Patching, Idle
<1>2. TypeOK /\ StageInv /\ PendingWasLegal /\ [Next]_vars => PendingWasLegal'
  BY PendingStep DEF StageInv
<1>3. ASSUME TypeOK, HeldIsRemembered, PendingWasLegal, [Next]_vars
      PROVE  [\A t \in Tasks : (state[t] # Absent /\ state'[t] # state[t])
               => \E s \in ever[t] : state'[t] \in VALID_TRANSITIONS[s]]_vars
  <2> SUFFICES ASSUME NEW t \in Tasks, state[t] # Absent, state'[t] # state[t]
               PROVE  \E s \in ever[t] : state'[t] \in VALID_TRANSITIONS[s]
    OBVIOUS
  <2>1. PICK c \in Clients : PatchWrite(c) /\ req[c].task = t /\ req[c].new # None
                             /\ state'[t] = req[c].new
    <3>1. CASE \E c \in Clients : PatchWrite(c)
      <4>1. PICK c \in Clients : PatchWrite(c)
        BY <3>1
      <4> DEFINE u == req[c].task
                 s == IF req[c].new # None THEN req[c].new ELSE state[u]
      <4>2. state' = [state EXCEPT ![u] = s]
        BY <4>1 DEF PatchWrite
      <4>3. state \in [Tasks -> TaskState \cup {Absent}]
        BY <1>3 DEF TypeOK
      <4> HIDE DEF s
      <4>4. u = t /\ state'[t] = s
        BY <4>2, <4>3
      <4>5. req[c].new # None /\ s = req[c].new
        BY <4>4 DEF s
      <4>6. QED BY <4>1, <4>4, <4>5
    <3>2. CASE \E c \in Clients, u \in Tasks, a \in Agents \cup {None}, extra \in SUBSET Agents :
                 PostInsert(c, u, a, extra)
      BY <3>2 DEF PostInsert, TypeOK
    <3>3. CASE UNCHANGED state
      BY <3>3
    <3>4. QED
      BY <1>3, <3>1, <3>2, <3>3
         DEF Next, PostAddWatcher, PostAnnounce, PostBroadcastFails, PatchAnnounce,
             PatchWatch, PatchRead, WatchTask, UnwatchTask, Crash, vars
  <2>2. Patching(c)
    BY <2>1 DEF Patching, PatchWrite
  <2>3. QED BY <1>3, <2>1, <2>2 DEF PendingWasLegal
<1>4. QED
  BY <1>1, <1>2, <1>3, TypeCorrect, StageInvHolds, PTL DEF Spec, TransitionsWereLegal, StageInv
===============================================================================
