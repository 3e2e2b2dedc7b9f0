----------------------------- MODULE Scheduler -----------------------------
(***************************************************************************)
(* BOB's recurring jobs (bob-orchestrator/app/scheduler.py): a job store   *)
(* in SQLite that outlives the process, the defaults that every start      *)
(* seeds, the two calls that reach it, and the bridge from a job that is   *)
(* due to a task on the message bus.                                       *)
(*                                                                         *)
(* The library is APScheduler 3 with an AsyncIOScheduler.  Two things of   *)
(* it matter: before start() get_jobs() knows the pending jobs only, not   *)
(* the stored ones, and a job that is a plain function is run on a worker  *)
(* thread, which has no event loop to hand a coroutine to.                 *)
(*                                                                         *)
(* Jobs are added and triggered through BOB's own MCP server, which calls  *)
(* plain functions on the event loop.  The agent's scheduling tools never  *)
(* get here: they are plain functions, and _firewall_wrap (tools.py:455)   *)
(* takes a tool's coroutine, which they do not have, so that a call ends   *)
(* in a TypeError.  So nothing pauses, resumes or removes a job.           *)
(***************************************************************************)
EXTENDS Naturals

CONSTANTS Jobs, Defaults,  \* job ids; those of DEFAULT_SCHEDULES
          MaxStarts,       \* bound on the starts of the process
          MaxAsks          \* bound on the calls of the MCP server's tools

ASSUME DefaultsAssumption == Defaults \subseteq Jobs /\ MaxStarts \in Nat /\ MaxAsks \in Nat

VARIABLES
  up,      \* the scheduler runs
  starts,
  store,   \* store[j], the row of the job store
  run,     \* run[j], the latest run of a job that has come due
  handed,  \* handed[j], callbacks on the event loop
  wanted,  \* history: the row that was asked for last, the default before
  asks     \* number of calls so far

schedulerVars == <<up, starts, store, run, handed, wanted, asks>>

Rows == {"none", "default", "asked"}

SchedulerTypeOK ==
  /\ up \in BOOLEAN /\ starts \in 0..MaxStarts /\ asks \in 0..MaxAsks
  /\ store \in [Jobs -> Rows] /\ wanted \in [Jobs -> Rows]
  /\ run \in [Jobs -> {"none", "due", "raised"}]
  /\ handed \in [Jobs -> Nat]

DefaultRows == [j \in Jobs |-> IF j \in Defaults THEN "default" ELSE "none"]

SchedulerInit ==
  /\ up = FALSE /\ starts = 0 /\ asks = 0
  /\ store = [j \in Jobs |-> "none"] /\ wanted = DefaultRows
  /\ run = [j \in Jobs |-> "none"] /\ handed = [j \in Jobs |-> 0]
----------------------------------------------------------------------------
(* start_scheduler: existing_ids is empty whatever the store holds, so     *)
(* every default is added, and replaces the row of its id.                 *)
Start ==
  /\ ~up /\ starts < MaxStarts
  /\ up' = TRUE /\ starts' = starts + 1
  /\ store' = [j \in Jobs |-> IF j \in Defaults THEN "default" ELSE store[j]]
  /\ UNCHANGED <<run, handed, wanted, asks>>

(* stop_scheduler and the end of the process: what was under way is gone.  *)
Stop ==
  /\ up
  /\ up' = FALSE
  /\ run' = [j \in Jobs |-> IF run[j] = "due" THEN "none" ELSE run[j]]
  /\ handed' = [j \in Jobs |-> 0]
  /\ UNCHANGED <<starts, store, wanted, asks>>

MayAsk == up /\ asks < MaxAsks /\ asks' = asks + 1

(* add_bob_scheduled_job: the row of the id, if there is one, is replaced. *)
add_job(j) ==
  /\ MayAsk
  /\ store' = [store EXCEPT ![j] = "asked"]
  /\ wanted' = [wanted EXCEPT ![j] = "asked"]
  /\ UNCHANGED <<up, starts, run, handed>>

(* The clock of a job: it is submitted to the executor, one run at a time. *)
Fire(j) ==
  /\ up /\ store[j] # "none" /\ run[j] # "due"
  /\ run' = [run EXCEPT ![j] = "due"]
  /\ UNCHANGED <<up, starts, store, handed, wanted, asks>>

(* _execute_scheduled_task on a worker thread: get_event_loop raises.      *)
Run(j) ==
  /\ up /\ run[j] = "due"
  /\ run' = [run EXCEPT ![j] = "raised"]
  /\ UNCHANGED <<up, starts, store, handed, wanted, asks>>

(* trigger_bob_job, run_job_now and _execute_scheduled_task on the loop's  *)
(* own thread: the callback is scheduled, whatever else runs.              *)
RunNow(j) ==
  /\ MayAsk /\ store[j] # "none"
  /\ handed' = [handed EXCEPT ![j] = @ + 1]
  /\ UNCHANGED <<up, starts, store, run, wanted>>

(* The callback of main.py: the task is posted, or the error is logged.    *)
CreateTask(j) ==
  /\ up /\ handed[j] > 0
  /\ handed' = [handed EXCEPT ![j] = @ - 1]
  /\ UNCHANGED <<up, starts, store, run, wanted, asks>>
----------------------------------------------------------------------------
SchedulerNext ==
  \/ Start \/ Stop
  \/ \E j \in Jobs : add_job(j) \/ Fire(j) \/ Run(j) \/ RunNow(j) \/ CreateTask(j)

SchedulerSpec == SchedulerInit /\ [][SchedulerNext]_schedulerVars
----------------------------------------------------------------------------
(* scheduler.py:110: a start seeds the default jobs if the store is empty, *)
(* and the repository's README:196: the scheduler survives restarts        *)
(* without re-registering jobs.  While the scheduler runs, the store holds *)
(* what was asked of it last, through any number of restarts.              *)
SchedulesSurvive == \A j \in Jobs : up => store[j] = wanted[j]

(* scheduler.py:4: tasks fire as message bus tasks.  A job that has come   *)
(* due has not ended by an error of the bridge.                            *)
FiresAsTask == \A j \in Jobs : run[j] # "raised"
============================================================================
