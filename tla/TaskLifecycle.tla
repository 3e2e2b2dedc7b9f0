---------------------------- MODULE TaskLifecycle ----------------------------
(***************************************************************************)
(* What the message bus promises about the life of a task: the states of   *)
(* message-bus/app/models.py and the transitions of VALID_TRANSITIONS,     *)
(* each taken in one atomic step.  BusTasks (the request handlers) and     *)
(* DebateArena (the agents that drive a task) are checked against it.      *)
(***************************************************************************)
CONSTANTS
  Tasks,      \* task identifiers
  Absent      \* the "state" of a task that has no row yet

VARIABLE state   \* [Tasks -> TaskState \cup {Absent}]: the column tasks.state

TaskState ==
  {"CREATED", "ASSIGNED", "IN_PROGRESS", "IN_REVIEW", "REWORK", "ACCEPTED", "CLOSED"}

\* models.py's table, as a relation; a dictionary of lists there.
Transitions ==
  {<<"CREATED", "ASSIGNED">>,
   <<"ASSIGNED", "IN_PROGRESS">>, <<"ASSIGNED", "CREATED">>,
   <<"IN_PROGRESS", "IN_REVIEW">>,
   <<"IN_REVIEW", "ACCEPTED">>, <<"IN_REVIEW", "REWORK">>,
   <<"REWORK", "IN_PROGRESS">>,
   <<"ACCEPTED", "CLOSED">>}

VALID_TRANSITIONS ==
  [s \in TaskState |-> {n \in TaskState : <<s, n>> \in Transitions}]

Init == state = [t \in Tasks |-> Absent]

\* POST /tasks: the row appears in its default state.
Create(t) ==
  /\ state[t] = Absent
  /\ state' = [state EXCEPT ![t] = "CREATED"]

\* PATCH /tasks/t with a state the table allows.
Advance(t, s) ==
  /\ state[t] # Absent
  /\ s \in VALID_TRANSITIONS[state[t]]
  /\ state' = [state EXCEPT ![t] = s]

Next == \E t \in Tasks : Create(t) \/ \E s \in TaskState : Advance(t, s)

Spec == Init /\ [][Next]_state
==============================================================================
