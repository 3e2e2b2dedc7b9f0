------------------------------- MODULE ToolGate -------------------------------
(***************************************************************************)
(* The firewall in front of BOB's tools (bob-orchestrator/app/firewall.py, *)
(* loop_detector.py and the wrapper in tools.py).  A call passes one gate  *)
(* for every time its tool has been wrapped; a gate refuses loops, lets    *)
(* low and medium risk through, and lets a high risk through only on an    *)
(* approval Rob has given for the same tool and arguments.                 *)
(*                                                                         *)
(* The gates of one call run without an await between them, so nothing     *)
(* else moves while a call is in them (current).  Tools that are plain     *)
(* functions pass their gate on a worker thread; they are not followed.    *)
(***************************************************************************)
EXTENDS Integers, Sequences, FiniteSets

LOCAL INSTANCE Functions

CONSTANTS
  Tools,        \* names of tools
  HighTools,    \* those TOOL_REGISTRY has as HIGH
  McpTools,     \* those fetched from MCP servers
  Args,         \* arguments a tool is called with
  Suspicious,   \* those in which the injection scanner finds a pattern
  Ids,          \* confirmation ids; their number bounds the ones followed
  None,         \* no confirmation; no call
  Graphs,       \* graphs BOB builds, one for every tier
  Timeout,      \* ticks a confirmation may be answered
  Window,       \* REPEATED_CALL_WINDOW_SECONDS, in ticks
  Threshold,    \* REPEATED_CALL_THRESHOLD
  CycleLengths, \* CYCLE_MIN_LENGTH..CYCLE_MAX_LENGTH
  Repetitions,  \* CYCLE_REPETITIONS
  HistorySize,  \* HISTORY_SIZE
  MaxLayers,    \* bound on how often a tool is wrapped
  MaxClicks,    \* bound on Rob's approvals
  MaxClock      \* bound on the clock

ASSUME ToolsAssumption   == HighTools \subseteq Tools /\ McpTools \subseteq Tools
ASSUME ArgsAssumption    == Suspicious \subseteq Args
ASSUME IdsAssumption     == IsFiniteSet(Ids)
ASSUME NumbersAssumption ==
  /\ Graphs \in Nat \ {0} /\ Timeout \in Nat /\ Window \in Nat
  /\ Threshold \in Nat \ {0} /\ CycleLengths \subseteq Nat \ {0}
  /\ Repetitions \in Nat \ {0} /\ HistorySize \in Nat \ {0}
  /\ MaxLayers \in Nat /\ Graphs <= MaxLayers
  /\ MaxClicks \in Nat /\ MaxClock \in Nat

Calls     == Tools \X Args
HighCalls == HighTools \X Args

VARIABLES
  clock,   \* the time of day
  layers,  \* [Tools -> times the tool has been wrapped]
  current, \* the call in its gates, and how many of them are to come
  calls,   \* tool_history of the one thread every call is recorded under
  conf,    \* _pending: [Ids -> confirmation or None]
  issued,  \* ids that have been given out
  clicks,  \* history: [HighCalls -> answers "approved" to Rob]
  spent,   \* history: [HighCalls -> approvals consumed]
  ran      \* history: [HighCalls -> times the tool was reached]

history == <<clicks, spent, ran>>
vars    == <<clock, layers, current, calls, conf, issued, history>>

Statuses     == {"pending", "approved", "rejected", "expired", "consumed"}
Confirmation == [call : HighCalls, queued : 0..MaxClock, status : Statuses]
Entry        == [call : Calls, at : 0..MaxClock, first : BOOLEAN, ran : BOOLEAN]
Passage      == [call : Calls, left : 0..MaxLayers, first : BOOLEAN]

ASSUME NoneAssumption == None \notin Confirmation /\ None \notin Passage

ToolOf(call) == call[1]

(***************************************************************************)
(* The loop detector                                                       *)
(***************************************************************************)
\* Mutant: the history is a plain list.
AllOf(h) == h

\* deque(maxlen=HISTORY_SIZE)
Latest(h) ==
  IF Len(h) > HistorySize THEN SubSeq(h, Len(h) - HistorySize + 1, Len(h)) ELSE h

\* record_tool_call keeps a call that it is about to refuse, too.
Recorded(p) ==
  Latest(Append(calls, [call |-> p.call, at |-> clock, first |-> p.first, ran |-> FALSE]))

InWindow(h, call) == {i \in DOMAIN h : h[i].call = call /\ h[i].at >= clock - Window}

Repeated(h, call) == Cardinality(InWindow(h, call)) >= Threshold

\* The last calls are Repetitions times the same sequence of names.
Cyclic(h) ==
  \E n \in CycleLengths :
    /\ Len(h) >= n * Repetitions
    /\ \A i \in (Len(h) - n * Repetitions + 1)..(Len(h) - n) :
         ToolOf(h[i].call) = ToolOf(h[i + n].call)

\* Mutant: the detector raises, and the gate goes on as its except clause says.
LoopsUnseen(h, call) == FALSE

Loops(h, call) == Repeated(h, call) \/ Cyclic(h)

(***************************************************************************)
(* Confirmations                                                           *)
(***************************************************************************)
Live(id)    == conf[id] # None
Expired(id) == clock > conf[id].queued + Timeout

\* Mutant: a consumed entry is found again.
UsableAgain(call) ==
  {id \in Ids : /\ Live(id) /\ ~Expired(id)
                /\ conf[id].call = call
                /\ conf[id].status \in {"approved", "consumed"}}

\* What find_approved_confirmation looks for; it takes the oldest.
Usable(call) ==
  {id \in Ids : /\ Live(id) /\ ~Expired(id)
                /\ conf[id].call = call
                /\ conf[id].status = "approved"}

Init ==
  /\ clock   = 0
  /\ layers  = [t \in Tools |-> IF t \in McpTools THEN Graphs ELSE 1]
  /\ current = None
  /\ calls   = <<>>
  /\ conf    = [id \in Ids |-> None]
  /\ issued  = {}
  /\ clicks  = [c \in HighCalls |-> 0]
  /\ spent   = [c \in HighCalls |-> 0]
  /\ ran     = [c \in HighCalls |-> 0]

Tick ==
  /\ current = None
  /\ clock < MaxClock
  /\ clock' = clock + 1
  /\ UNCHANGED <<layers, current, calls, conf, issued, history>>

(***************************************************************************)
(* A tool call                                                             *)
(***************************************************************************)
\* The agent, or a replay of the audit log, calls the wrapped tool.
CallTool(call) ==
  /\ current = None
  /\ current' = [call |-> call, left |-> layers[ToolOf(call)], first |-> TRUE]
  /\ UNCHANGED <<clock, layers, calls, conf, issued, history>>

AtGate       == current # None /\ current.left > 0
Flagged      == current.call[2] \in Suspicious
High         == ToolOf(current.call) \in HighTools
NextGate     == [current EXCEPT !.left = @ - 1, !.first = FALSE]
PassesChecks == AtGate /\ ~Flagged /\ ~Loops(Recorded(current), current.call)

\* The scanner comes before the detector: a flagged call is not recorded.
GateDenyInjection ==
  /\ AtGate
  /\ Flagged
  /\ current' = None
  /\ UNCHANGED <<clock, layers, calls, conf, issued, history>>

\* Mutant: the approval is looked up, and used, ahead of the loop detector.
GateDenyLoopLate ==
  /\ AtGate
  /\ ~Flagged
  /\ Loops(Recorded(current), current.call)
  /\ calls'   = Recorded(current)
  /\ current' = None
  /\ \/ /\ ~High \/ Usable(current.call) = {}
        /\ UNCHANGED <<conf, spent>>
     \/ \E id \in Usable(current.call) :
          /\ conf'  = [conf EXCEPT ![id].status = "consumed"]
          /\ spent' = [spent EXCEPT ![current.call] = @ + 1]
  /\ UNCHANGED <<clock, layers, issued, clicks, ran>>

GateDenyLoop ==
  /\ AtGate
  /\ ~Flagged
  /\ Loops(Recorded(current), current.call)
  /\ calls'   = Recorded(current)
  /\ current' = None
  /\ UNCHANGED <<clock, layers, conf, issued, history>>

\* LOW and MEDIUM.
GateAllow ==
  /\ PassesChecks
  /\ ~High
  /\ calls'   = Recorded(current)
  /\ current' = NextGate
  /\ UNCHANGED <<clock, layers, conf, issued, history>>

GateAllowConfirmed ==
  /\ PassesChecks
  /\ High
  /\ calls'   = Recorded(current)
  /\ current' = NextGate
  /\ \E id \in Usable(current.call) :
       /\ \A other \in Usable(current.call) : conf[id].queued <= conf[other].queued
       /\ conf' = [conf EXCEPT ![id].status = "consumed"]
  /\ spent'   = [spent EXCEPT ![current.call] = @ + 1]
  /\ UNCHANGED <<clock, layers, issued, clicks, ran>>

\* Beyond the bound a confirmation is queued and never answered: it changes
\* nothing that a gate looks at, and is not kept.
GateQueue ==
  /\ PassesChecks
  /\ High
  /\ Usable(current.call) = {}
  /\ calls'   = Recorded(current)
  /\ current' = None
  /\ \/ \E id \in Ids \ issued :
          /\ conf'   = [conf EXCEPT ![id] = [call   |-> current.call,
                                             queued |-> clock,
                                             status |-> "pending"]]
          /\ issued' = issued \cup {id}
     \/ issued = Ids /\ UNCHANGED <<conf, issued>>
  /\ UNCHANGED <<clock, layers, history>>

\* Behind the last gate is the tool itself.
Run ==
  /\ current # None
  /\ current.left = 0
  /\ current' = None
  /\ calls'   = [calls EXCEPT ![Len(calls)].ran = TRUE]
  /\ ran'     = IF High THEN [ran EXCEPT ![current.call] = @ + 1] ELSE ran
  /\ UNCHANGED <<clock, layers, conf, issued, clicks, spent>>

(***************************************************************************)
(* Rob's answers                                                           *)
(***************************************************************************)
ClicksLeft == FoldFunction(+, 0, clicks) < MaxClicks

\* Whatever the status: a rejected or consumed entry is approved again.
Confirm(id) ==
  /\ current = None
  /\ Live(id)
  /\ ~Expired(id)
  /\ ClicksLeft
  /\ conf'   = [conf EXCEPT ![id].status = "approved"]
  /\ clicks' = [clicks EXCEPT ![conf[id].call] = @ + 1]
  /\ UNCHANGED <<clock, layers, current, calls, issued, spent, ran>>

\* 410 Gone.
ConfirmLate(id) ==
  /\ current = None
  /\ Live(id)
  /\ Expired(id)
  /\ conf' = [conf EXCEPT ![id].status = "expired"]
  /\ UNCHANGED <<clock, layers, current, calls, issued, history>>

Reject(id) ==
  /\ current = None
  /\ Live(id)
  /\ conf' = [conf EXCEPT ![id].status = "rejected"]
  /\ UNCHANGED <<clock, layers, current, calls, issued, history>>

Aged(c) ==
  IF clock > c.queued + Timeout /\ c.status = "pending"
    THEN [c EXCEPT !.status = "expired"] ELSE c

\* GET /firewall/pending expires what is late and drops what is old.
GetPending ==
  /\ current = None
  /\ conf' = [id \in Ids |->
                IF ~Live(id) \/ clock > conf[id].queued + 2 * Timeout
                  THEN None ELSE Aged(conf[id])]
  /\ UNCHANGED <<clock, layers, current, calls, issued, history>>

\* What the tool check_confirmation does behind its own gate.
CheckConfirmation(id) ==
  /\ current = None
  /\ Live(id)
  /\ conf' = [conf EXCEPT ![id] = Aged(@)]
  /\ UNCHANGED <<clock, layers, current, calls, issued, history>>

(***************************************************************************)
(* Rebuilding and restarting                                               *)
(***************************************************************************)
\* switch_personality builds every graph anew; build_graph wraps the MCP tools,
\* the same objects each time, around what they already are.
SwitchPersonality ==
  /\ current = None
  /\ \A t \in McpTools : layers[t] + Graphs <= MaxLayers
  /\ layers' = [t \in Tools |-> IF t \in McpTools THEN layers[t] + Graphs ELSE layers[t]]
  /\ UNCHANGED <<clock, current, calls, conf, issued, history>>

\* Confirmations and histories are in memory.
Restart ==
  /\ current = None
  /\ layers' = [t \in Tools |-> IF t \in McpTools THEN Graphs ELSE 1]
  /\ calls'  = <<>>
  /\ conf'   = [id \in Ids |-> None]
  /\ UNCHANGED <<clock, current, issued, history>>

Next ==
  \/ Tick
  \/ \E call \in Calls : CallTool(call)
  \/ GateDenyInjection
  \/ GateDenyLoop
  \/ GateAllow
  \/ GateAllowConfirmed
  \/ GateQueue
  \/ Run
  \/ \E id \in Ids :
       Confirm(id) \/ ConfirmLate(id) \/ Reject(id) \/ CheckConfirmation(id)
  \/ GetPending
  \/ SwitchPersonality
  \/ Restart

Spec == Init /\ [][Next]_vars

(***************************************************************************)
(* Properties                                                              *)
(***************************************************************************)
TypeOK ==
  /\ clock   \in 0..MaxClock
  /\ layers  \in [Tools -> 1..MaxLayers]
  /\ current \in Passage \cup {None}
  /\ calls   \in Seq(Entry) /\ Len(calls) <= HistorySize
  /\ conf    \in [Ids -> Confirmation \cup {None}]
  /\ issued  \subseteq Ids
  /\ clicks  \in [HighCalls -> Nat]
  /\ spent   \in [HighCalls -> Nat]
  /\ ran     \in [HighCalls -> Nat]

\* A HIGH call runs at most as often as Rob has answered a confirmation of this
\* very call with yes, through duplicates of the confirmation, answers given
\* twice or taken back, several gates, late answers and restarts.
RunsAreApproved ==
  \A c \in HighCalls : ran[c] <= clicks[c]

\* The gates do not use up an approval without running the call it was given
\* for, whatever the loop detector refuses, as long as the tool is wrapped once.
ApprovalsSpentOnRuns ==
  \A c \in HighCalls :
    current = None /\ ToolOf(c) \notin McpTools => spent[c] = ran[c]

\* Of the calls the detector remembers, fewer than the threshold ran with the
\* same arguments within one window.
RepeatsBounded ==
  \A i \in DOMAIN calls :
    Cardinality({j \in 1..i : /\ calls[j].ran /\ calls[j].call = calls[i].call
                              /\ calls[j].at >= calls[i].at - Window}) < Threshold

\* The documented rule of the first detector, and its promise of no false
\* alarms: a call is refused only when the agent has made it, or gone round a
\* cycle, often enough.
Made(h) == SelectSeq(h, LAMBDA e : e.first)
LoopsAreTheAgents ==
  [][GateDenyLoop => Loops(Made(calls'), current.call)]_vars
===============================================================================
