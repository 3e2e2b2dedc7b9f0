---------------------------- MODULE UsageMonitor ----------------------------
(***************************************************************************)
(* Alerts on the use of ElevenLabs (elevenlabs_monitor.py).  A sweep       *)
(* awaits two readings, fires what the flags say has not been fired yet,   *)
(* and awaits a push for each alert.  The loop sweeps every six hours,     *)
(* BOB's check_voice_usage tool, its copy over MCP and the daily briefing  *)
(* whenever they are asked to, so sweeps overlap and share the flags.      *)
(***************************************************************************)
EXTENDS Naturals, FiniteSets

CONSTANTS
  Sweeps,      \* run_usage_sweep calls; their number bounds them
  MaxPeriods   \* bound on the months, days and restarts

ASSUME UsageAssumption == MaxPeriods \in Nat

Meters == {"voice", "char"}
Kinds  == {"warning", "critical"}     \* the hard cap shares critical's flag
Levels == {"low", "warning", "critical"}
Alerts == Meters \X Kinds

VARIABLES
  plan,        \* the tier has voice minutes
  usage,       \* [Meters -> how much is used]
  flags,       \* _alert_state: alerts that have been sent
  sweep,       \* [Sweeps -> where it stands]
  fired,       \* history: [Alerts -> times it was fired]
  cleared,     \* history: [Alerts -> times its flag went back while it was set]
  periods      \* months, days and restarts so far

usageVars == <<plan, usage, flags, sweep, fired, cleared, periods>>

SweepStages == {"none", "asked", "read", "sending", "ended"}
Sweep == [pc : SweepStages, char : Levels, left : SUBSET Alerts]

UsageTypeOK ==
  /\ plan \in BOOLEAN /\ usage \in [Meters -> Levels]
  /\ flags \in SUBSET Alerts /\ sweep \in [Sweeps -> Sweep]
  /\ fired \in [Alerts -> Nat] /\ cleared \in [Alerts -> Nat]
  /\ periods \in 0..MaxPeriods

UsageInit ==
  /\ plan \in BOOLEAN /\ usage = [m \in Meters |-> "low"] /\ flags = {}
  /\ sweep = [s \in Sweeps |-> [pc |-> "none", char |-> "low", left |-> {}]]
  /\ fired = [a \in Alerts |-> 0] /\ cleared = [a \in Alerts |-> 0] /\ periods = 0

\* What is used grows, and starts again with the month.
Use(m) ==
  /\ usage[m] # "critical"
  /\ usage' = [usage EXCEPT ![m] = IF @ = "low" THEN "warning" ELSE "critical"]
  /\ UNCHANGED <<plan, flags, sweep, fired, cleared, periods>>

(***************************************************************************)
(* The alerts of a reading                                                 *)
(***************************************************************************)
\* Mutant: the hard cap's branch does not look at the flag.
DueAtHardCap(m, level) ==
  IF level = "critical" THEN {<<m, "critical">>}
  ELSE IF level # "low" /\ <<m, "warning">> \notin flags THEN {<<m, "warning">>}
  ELSE {}

\* The branches are tried in turn: at a critical level whose alert was sent the
\* warning is next, if that was not sent before.
Due(m, level) ==
  IF level = "critical" /\ <<m, "critical">> \notin flags THEN {<<m, "critical">>}
  ELSE IF level # "low" /\ <<m, "warning">> \notin flags THEN {<<m, "warning">>}
  ELSE {}

Dipped(m, level) == IF level = "low" THEN flags \cap ({m} \X Kinds) ELSE {}

Clear(gone) == cleared' = [a \in Alerts |-> cleared[a] + IF a \in gone THEN 1 ELSE 0]

\* No await from the second reading to the first push.
Decide(s, voice) ==
  LET char == sweep[s].char
      due  == (IF plan THEN Due("voice", voice) ELSE {}) \cup Due("char", char)
      gone == (IF plan THEN Dipped("voice", voice) ELSE {}) \cup Dipped("char", char)
  IN  /\ flags' = (flags \cup due) \ gone
      /\ fired' = [a \in Alerts |-> fired[a] + IF a \in due THEN 1 ELSE 0]
      /\ Clear(gone)
      /\ sweep' = [sweep EXCEPT ![s].pc = IF due = {} THEN "ended" ELSE "sending",
                                ![s].left = due]

(***************************************************************************)
(* A sweep                                                                 *)
(***************************************************************************)
SweepStart(s) ==
  /\ sweep[s].pc = "none"
  /\ sweep' = [sweep EXCEPT ![s].pc = "asked"]
  /\ UNCHANGED <<plan, usage, flags, fired, cleared, periods>>

\* The subscription, with the characters; without it the sweep ends.
Subscribed(s) ==
  /\ sweep[s].pc = "asked"
  /\ \/ sweep' = [sweep EXCEPT ![s].pc = "read", ![s].char = usage["char"]]
     \/ sweep' = [sweep EXCEPT ![s].pc = "ended"]
  /\ UNCHANGED <<plan, usage, flags, fired, cleared, periods>>

\* The conversations; a failing call is an empty list, that is, nothing used.
ConversationsRead(s) ==
  /\ sweep[s].pc = "read"
  /\ \E voice \in {usage["voice"], "low"} : Decide(s, voice)
  /\ UNCHANGED <<plan, usage, periods>>

\* A push that fails is logged and the next one tried.
AlertSent(s) ==
  /\ sweep[s].pc = "sending"
  /\ \E a \in sweep[s].left :
       sweep' = [sweep EXCEPT ![s].left = @ \ {a},
                              ![s].pc = IF sweep[s].left = {a} THEN "ended" ELSE @]
  /\ UNCHANGED <<plan, usage, flags, fired, cleared, periods>>

(***************************************************************************)
(* Days, months and restarts                                               *)
(***************************************************************************)
NewPeriod == periods < MaxPeriods /\ periods' = periods + 1

NewMonth ==
  /\ NewPeriod
  /\ usage' = [m \in Meters |-> "low"]
  /\ UNCHANGED <<plan, flags, sweep, fired, cleared>>

\* monitoring_loop has seen another day.
NewDay ==
  /\ NewPeriod
  /\ flags' = {} /\ Clear(flags)
  /\ UNCHANGED <<plan, usage, sweep, fired>>

UsageRestart ==
  /\ NewPeriod
  /\ flags' = {} /\ Clear(flags)
  /\ sweep' = [s \in Sweeps |-> IF sweep[s].pc = "none" THEN sweep[s]
                                ELSE [sweep[s] EXCEPT !.pc = "ended", !.left = {}]]
  /\ UNCHANGED <<plan, usage, fired>>

UsageNext ==
  \/ \E m \in Meters : Use(m)
  \/ \E s \in Sweeps : SweepStart(s) \/ Subscribed(s) \/ ConversationsRead(s)
                       \/ AlertSent(s)
  \/ NewMonth \/ NewDay \/ UsageRestart

UsageSpec == UsageInit /\ [][UsageNext]_usageVars

(***************************************************************************)
(* Properties                                                              *)
(***************************************************************************)
\* However many sweeps overlap, an alert is fired again only after its flag has
\* gone back: a low reading, a new day or a restart (_alert_state: "Track whether
\* alerts have been sent to avoid spam").
AlertedOnce ==
  \A a \in Alerts : fired[a] = cleared[a] + (IF a \in flags THEN 1 ELSE 0)
=============================================================================
