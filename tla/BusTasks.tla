------------------------------- MODULE BusTasks -------------------------------
(***************************************************************************)
(* The task endpoints of the message bus (message-bus/app/routes/tasks.py) *)
(* over its SQLite store (message-bus/app/database.py).  The bus is one    *)
(* asyncio process with one database connection: a handler runs alone      *)
(* until it awaits, and other handlers run in between.  A request is a     *)
(* client's record in "req"; each action below is the code between two     *)
(* awaits that touch shared state.  A statement and the commit behind it   *)
(* are one step: the single connection shows its own uncommitted rows to   *)
(* every handler, and a crash between the two is a crash before them.      *)
(***************************************************************************)
EXTENDS FiniteSets

CONSTANTS
  Tasks,        \* task identifiers
  Clients,      \* concurrent requests the bus serves
  Agents,       \* agent shorthands the requests name
  ORCH,         \* the agent every new task is watched by
  Absent,       \* no row yet
  None          \* a field the request leaves out

VARIABLES
  state,      \* [Tasks -> state column, Absent when there is no row]
  assignee,   \* [Tasks -> assignee column, None for NULL]
  watchers,   \* [Tasks -> SUBSET Watcher]: the rows of task_watchers
  announced,  \* [Tasks -> set of states]: new_state of its state_change messages
  req,        \* [Clients -> request in flight]
  serialised, \* tasks whose callers never overlap two requests; never changes
  ever,       \* history: [Tasks -> set of states the row has held]
  created,    \* history: tasks whose POST was answered 201
  unwatched   \* history: [Tasks -> agents removed by DELETE .../watchers]

vars == <<state, assignee, watchers, announced, req, serialised, ever, created, unwatched>>

\* What a reader of the table sees of the tasks in "serialised".
Observed == [t \in Tasks |-> IF t \in serialised THEN state[t] ELSE Absent]

Lifecycle == INSTANCE TaskLifecycle WITH state <- Observed

TaskState         == Lifecycle!TaskState
VALID_TRANSITIONS == Lifecycle!VALID_TRANSITIONS

ASSUME AbsentAssumption     == Absent \notin TaskState
ASSUME NoneAssumption       == None \notin Agents \cup {ORCH} \cup TaskState

Watcher == Agents \cup {ORCH}

Idle == [pc |-> "idle"]

(***************************************************************************)
(* A POST is "adding" the watchers it has left to add and announces when   *)
(* there is none; a PATCH goes through "announcing", "watching" and        *)
(* "writing", skipping what its body leaves out.                           *)
(***************************************************************************)
PostInFlight  == [pc : {"adding"}, task : Tasks, left : SUBSET Watcher]
PatchInFlight ==
  [pc : {"announcing"}, task : Tasks, new : TaskState, assignee : Agents \cup {None}]
    \cup [pc : {"watching"}, task : Tasks, new : TaskState \cup {None}, assignee : Agents]
    \cup [pc : {"writing"}, task : Tasks, new : TaskState \cup {None},
          assignee : Agents \cup {None}]

Request == {Idle} \cup PostInFlight \cup PatchInFlight

Busy(t) == \E c \in Clients : req[c] # Idle /\ req[c].task = t

\* The environment: whether a new request about t may arrive now.
MayArrive(c, t) == req[c] = Idle /\ (t \in serialised => ~Busy(t))

Init ==
  /\ state     = [t \in Tasks |-> Absent]
  /\ assignee  = [t \in Tasks |-> None]
  /\ watchers  = [t \in Tasks |-> {}]
  /\ announced = [t \in Tasks |-> {}]
  /\ req       = [c \in Clients |-> Idle]
  /\ serialised \in SUBSET Tasks
  /\ ever      = [t \in Tasks |-> {}]
  /\ created   = {}
  /\ unwatched = [t \in Tasks |-> {}]

(***************************************************************************)
(* POST /tasks                                                             *)
(***************************************************************************)
\* Mutant: the assignee is added without asking whether there is one.
InitialWatchersUnchecked(a, extra) == extra \cup {a, ORCH}

\* insert_task: who watches a new task (body.watchers is extra).
InitialWatchers(a, extra) ==
  extra \cup (IF a # None THEN {a} ELSE {}) \cup {ORCH}

\* insert_task: the row is inserted and committed before anything else.
PostInsert(c, t, a, extra) ==
  /\ MayArrive(c, t)
  /\ state[t] = Absent
  /\ state'    = [state EXCEPT ![t] = "CREATED"]
  /\ assignee' = [assignee EXCEPT ![t] = a]
  /\ ever'     = [ever EXCEPT ![t] = @ \cup {"CREATED"}]
  /\ req'      = [req EXCEPT ![c] =
                    [pc |-> "adding", task |-> t, left |-> InitialWatchers(a, extra)]]
  /\ UNCHANGED <<watchers, announced, created, unwatched, serialised>>

\* One turn of insert_task's loop; each add_watcher commits on its own.
PostAddWatcher(c, w) ==
  /\ req[c].pc = "adding"
  /\ w \in req[c].left
  /\ watchers' = [watchers EXCEPT ![req[c].task] = @ \cup {w}]
  /\ req' = [req EXCEPT ![c].left = @ \ {w}]
  /\ UNCHANGED <<state, assignee, announced, ever, created, unwatched, serialised>>

\* create_task: the announcement None -> CREATED, then 201.
PostAnnounce(c) ==
  /\ req[c].pc = "adding"
  /\ req[c].left = {}
  /\ announced' = [announced EXCEPT ![req[c].task] = @ \cup {"CREATED"}]
  /\ created'   = created \cup {req[c].task}
  /\ req' = [req EXCEPT ![c] = Idle]
  /\ UNCHANGED <<state, assignee, watchers, ever, unwatched, serialised>>

(***************************************************************************)
(* PATCH /tasks/t                                                          *)
(***************************************************************************)
\* Mutant: any known state passes.
AllowedUnchecked(t, new) == new \in TaskState

\* The check against the table, on the state get_task returned.
Allowed(t, new) == new \in VALID_TRANSITIONS[state[t]]

\* Mutants: a new assignee is not made a watcher; a state is not announced.
AfterAnnounceUnwatched(a)    == "writing"
AfterReadUnannounced(new, a) == IF a # None THEN "watching" ELSE "writing"

\* What a PATCH does next: a new assignee is made a watcher first, and a new
\* state is announced before either.
AfterAnnounce(a)  == IF a # None THEN "watching" ELSE "writing"
AfterRead(new, a) == IF new # None THEN "announcing" ELSE AfterAnnounce(a)

\* get_task and the check against the state just read.  A request the check
\* refuses (404, 422) changes nothing and is no action.  new = a = None is a
\* body with metadata or file_paths only, which this module does not follow.
PatchRead(c, t, new, a) ==
  /\ MayArrive(c, t)
  /\ state[t] # Absent
  /\ new # None => Allowed(t, new)
  /\ new # None \/ a # None
  /\ req' = [req EXCEPT ![c] =
               [pc |-> AfterRead(new, a), task |-> t, new |-> new, assignee |-> a]]
  /\ UNCHANGED <<state, assignee, watchers, announced, ever, created, unwatched, serialised>>

\* _notify_watchers: the message is committed before the task is changed.
PatchAnnounce(c) ==
  /\ req[c].pc = "announcing"
  /\ announced' = [announced EXCEPT ![req[c].task] = @ \cup {req[c].new}]
  /\ \/ req' = [req EXCEPT ![c].pc = AfterAnnounce(req[c].assignee)]
     \/ req' = [req EXCEPT ![c] = Idle]       \* _notify_change raised: 500
  /\ UNCHANGED <<state, assignee, watchers, ever, created, unwatched, serialised>>

PatchWatch(c) ==
  /\ req[c].pc = "watching"
  /\ watchers' = [watchers EXCEPT ![req[c].task] = @ \cup {req[c].assignee}]
  /\ req' = [req EXCEPT ![c].pc = "writing"]
  /\ UNCHANGED <<state, assignee, announced, ever, created, unwatched, serialised>>

\* update_task: the columns of the body are set whatever they hold by now.
PatchWrite(c) ==
  /\ req[c].pc = "writing"
  /\ LET t == req[c].task
         s == IF req[c].new # None THEN req[c].new ELSE state[t]
         a == IF req[c].assignee # None THEN req[c].assignee ELSE assignee[t]
     IN  /\ state'    = [state EXCEPT ![t] = s]
         /\ assignee' = [assignee EXCEPT ![t] = a]
         /\ ever'     = [ever EXCEPT ![t] = @ \cup ({req[c].new} \ {None})]
  /\ req' = [req EXCEPT ![c] = Idle]
  /\ UNCHANGED <<watchers, announced, created, unwatched, serialised>>

(***************************************************************************)
(* POST and DELETE /tasks/t/watchers.  Rows of tasks are never deleted, so *)
(* the existence check and the write behind it cannot disagree.            *)
(***************************************************************************)
WatchTask(t, a) ==
  /\ state[t] # Absent
  /\ watchers' = [watchers EXCEPT ![t] = @ \cup {a}]
  /\ UNCHANGED <<state, assignee, announced, req, ever, created, unwatched, serialised>>

UnwatchTask(t, a) ==
  /\ state[t] # Absent
  /\ watchers'  = [watchers EXCEPT ![t] = @ \ {a}]
  /\ unwatched' = [unwatched EXCEPT ![t] = @ \cup {a}]
  /\ UNCHANGED <<state, assignee, announced, req, ever, created, serialised>>

(***************************************************************************)
(* Failures                                                                *)
(***************************************************************************)
\* insert_task's _notify_change raises (a dashboard connects or leaves while
\* broadcast_update iterates over the set): 500 before the announcement.
PostBroadcastFails(c) ==
  /\ req[c].pc = "adding"
  /\ req[c].left = {}
  /\ req' = [req EXCEPT ![c] = Idle]
  /\ UNCHANGED <<state, assignee, watchers, announced, ever, created, unwatched, serialised>>

\* The process stops and is restarted: the rows stay, the handlers are gone.
Crash ==
  /\ req' = [c \in Clients |-> Idle]
  /\ UNCHANGED <<state, assignee, watchers, announced, ever, created, unwatched, serialised>>

Next ==
  \/ \E c \in Clients, t \in Tasks, a \in Agents \cup {None}, extra \in SUBSET Agents :
       PostInsert(c, t, a, extra)
  \/ \E c \in Clients, w \in Watcher : PostAddWatcher(c, w)
  \/ \E c \in Clients :
       \/ PostAnnounce(c)
       \/ PostBroadcastFails(c)
       \/ PatchAnnounce(c)
       \/ PatchWatch(c)
       \/ PatchWrite(c)
  \/ \E c \in Clients, t \in Tasks, new \in TaskState \cup {None}, a \in Agents \cup {None} :
       PatchRead(c, t, new, a)
  \/ \E t \in Tasks, a \in Agents : WatchTask(t, a) \/ UnwatchTask(t, a)
  \/ Crash

Spec == Init /\ [][Next]_vars

(***************************************************************************)
(* Properties                                                              *)
(***************************************************************************)
TypeOK ==
  /\ state     \in [Tasks -> TaskState \cup {Absent}]
  /\ assignee  \in [Tasks -> Agents \cup {None}]
  /\ watchers  \in [Tasks -> SUBSET Watcher]
  /\ announced \in [Tasks -> SUBSET TaskState]
  /\ req       \in [Clients -> Request]
  /\ serialised \subseteq Tasks
  /\ ever      \in [Tasks -> SUBSET TaskState]
  /\ created   \subseteq Tasks
  /\ unwatched \in [Tasks -> SUBSET Agents]

\* The stage before each stage.
Prerequisite ==
  {<<"CREATED", "ASSIGNED">>, <<"ASSIGNED", "IN_PROGRESS">>,
   <<"IN_PROGRESS", "IN_REVIEW">>, <<"IN_REVIEW", "REWORK">>,
   <<"IN_REVIEW", "ACCEPTED">>, <<"ACCEPTED", "CLOSED">>}

\* A set of stages with no gap before any of them.
NoGap(S) == \A e \in Prerequisite : e[2] \in S => e[1] \in S

\* However requests interleave, no task is ever in a stage without having been
\* in every stage before it: nothing is accepted that was never in review,
\* although update_task overwrites the column unconditionally.
NoStageSkipped == \A t \in Tasks : NoGap(ever[t])

\* A watcher of the message feed hears of every state before a reader of the
\* table can see it; only the default state of a new row comes unannounced.
AnnouncedBeforeHeld ==
  \A t \in Tasks : ever[t] \ {"CREATED"} \subseteq announced[t]

\* Once POST /tasks has answered 201, whoever the task is assigned to by then
\* or later watches it, and so does ORCH, unless a DELETE has removed them.
AssigneeWatches ==
  \A t \in created :
    ({assignee[t], ORCH} \ {None}) \subseteq watchers[t] \cup unwatched[t]

\* A task whose callers never overlap two requests about it goes through the
\* lifecycle in atomic steps, whatever is asked about the other tasks.
ImplementsLifecycle == Lifecycle!Spec

\* The documented promise: a task only moves along VALID_TRANSITIONS.
LegalTransitions ==
  [][\A t \in Tasks :
       (state[t] # Absent /\ state'[t] # state[t])
         => state'[t] \in VALID_TRANSITIONS[state[t]]]_state
===============================================================================
