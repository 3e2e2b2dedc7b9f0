----------------------------- MODULE Workbench -----------------------------
(***************************************************************************)
(* The workspaces the FE and BE engineers write their proposals into, the  *)
(* self-test with its single repair round, and RE's static analysis of a   *)
(* delivered draft (debate-arena/agents/fe-engineer/agent.py, be-engineer/ *)
(* agent.py, reliability-engineer/agent.py, services/code-sandbox).        *)
(*                                                                         *)
(* An agent works on one draft at a time, but all its drafts, of whatever  *)
(* task, go to the same directory, and RE tests the files of a draft long  *)
(* after the agent has gone on to the next.  A file is abstracted to the   *)
(* draft that wrote it last and to whether the checker for its extension   *)
(* finds an error; a model's answer to what becomes of each path it names. *)
(***************************************************************************)
EXTENDS FiniteSets, Functions

CONSTANTS Engineers,    \* the engineers, each with a workspace of its own
          Frontend,  \* the one whose workspace RE looks into for claimed files
          Drafts,    \* what the model may be asked to write, each once
          NoDraft,   \* the author of what is not there
          Author,    \* Author[d] is the agent that writes d
          Paths      \* relative paths the answers name

ASSUME AuthorAssumption ==
  Author \in [Drafts -> Engineers] /\ Frontend \in Engineers /\ NoDraft \notin Drafts

VARIABLES disk,   \* disk[a][p], the file in a's workspace, or NoFile
          draft   \* draft[d], how far d is and what its payload says

workbenchVars == <<disk, draft>>

NoFile == [by |-> NoDraft, clean |-> TRUE]
Untested == [reached |-> FALSE, over |-> {}, bad |-> {}]  \* not run, or no answer
Working == {"built", "repair", "rebuilt"}
(* What becomes of a path in an answer: it is not named; refused before    *)
(* the file is touched; cut short by an error; written, clean or broken.   *)
Outcomes == {"absent", "refused", "cut", "clean", "broken"}
Answers == [Paths -> Outcomes]

Wrote(ans) == {p \in Paths : ans[p] \in {"clean", "broken"}}
Claimed(ans) == IF Wrote(ans) # {} THEN {} ELSE {p \in Paths : ans[p] # "absent"}
Cut(ans) == {p \in Paths : ans[p] = "cut"}
Reports == [reached : BOOLEAN, over : SUBSET Paths, bad : SUBSET Paths]

WorkbenchTypeOK ==
  /\ \A a \in Engineers, p \in Paths : disk[a][p] = NoFile
                                 \/ disk[a][p] \in [by : Drafts, clean : BOOLEAN]
  /\ draft \in [Drafts -> [stage : {"new", "delivered", "dead"} \cup Working,
                           wrote : SUBSET Paths, claims : SUBSET Paths,
                           cut : SUBSET Paths, self : Reports, review : Reports,
                           rounds : 0..2, halfway : BOOLEAN, reviewed : BOOLEAN]]

WorkbenchInit ==
  /\ disk = [a \in Engineers |-> [p \in Paths |-> NoFile]]
  /\ draft = [d \in Drafts |-> [stage |-> "new", wrote |-> {}, claims |-> {},
                                cut |-> {}, self |-> Untested, review |-> Untested,
                                rounds |-> 0, halfway |-> FALSE, reviewed |-> FALSE]]
----------------------------------------------------------------------------
(* _apply_file_writes: entry by entry, overwriting what is there.          *)
Applied(d, ans) ==
  [disk EXCEPT ![Author[d]] = [p \in Paths |->
     IF ans[p] \in {"absent", "refused"} THEN @[p]
     ELSE [by |-> d, clean |-> ans[p] = "clean"]]]

(* The batch endpoint on paths of a's workspace; a missing file is an error. *)
Tested(a, S, reached) ==
  IF ~reached THEN Untested
  ELSE [reached |-> TRUE, over |-> S,
        bad |-> {p \in S : disk[a][p] = NoFile \/ ~disk[a][p].clean}]
HasErrors(report) == report.bad # {}

Idle(a) == \A d \in Drafts : Author[d] = a => draft[d].stage \notin Working

(* What the payload says of the files after an answer has been applied; its *)
(* claims are only of use when nothing was written.                        *)
Delivering(d, ans) ==
  [draft[d] EXCEPT !.wrote = Wrote(ans), !.claims = Claimed(ans),
                   !.cut = @ \cup Cut(ans), !.rounds = @ + 1]

(* execute_writing up to the self-test.                                    *)
Build(d, ans) ==
  /\ draft[d].stage = "new" /\ Idle(Author[d])
  /\ disk' = Applied(d, ans)
  /\ draft' = [draft EXCEPT ![d] = [Delivering(d, ans) EXCEPT !.stage = "built"]]

(* An answer with a path that is no string raises when its turn comes: the *)
(* handler ends without a deliverable, the files before it stay.           *)
BuildRaises(d, ans) ==
  /\ draft[d].stage = "new" /\ Idle(Author[d])
  /\ disk' = Applied(d, ans)
  /\ draft' = [draft EXCEPT ![d].stage = "dead"]

(* _self_test_loop, first test: errors lead to the repair round, a sandbox *)
(* that is not reached or has nothing to test to the delivery.             *)
SelfTest(d, reached) ==
  /\ draft[d].stage = "built"
  /\ LET report == Tested(Author[d], draft[d].wrote, reached) IN
       draft' = [draft EXCEPT ![d].self = report,
                              ![d].stage = IF HasErrors(report) THEN "repair" ELSE "delivered"]
  /\ UNCHANGED disk

(* The corrected answer replaces the first one, in the payload as a whole. *)
Repair(d, ans) ==
  /\ draft[d].stage = "repair"
  /\ disk' = Applied(d, ans)
  /\ draft' = [draft EXCEPT ![d] = [Delivering(d, ans) EXCEPT !.stage = "rebuilt"]]

(* The model cannot be reached or its answer cannot be parsed: the first   *)
(* answer is delivered with the first report.                              *)
RepairKept(d) ==
  /\ draft[d].stage = "repair"
  /\ draft' = [draft EXCEPT ![d].stage = "delivered"]
  /\ UNCHANGED disk

(* The corrected answer raises part of the way: the same delivery, over    *)
(* files that are no longer the ones the report is about.                  *)
RepairRaises(d, ans) ==
  /\ draft[d].stage = "repair"
  /\ disk' = Applied(d, ans)
  /\ draft' = [draft EXCEPT ![d].stage = "delivered", ![d].halfway = TRUE]

(* Mutant: the payload keeps the report that led to the repair.            *)
RetestKept(d, reached) ==
  /\ draft[d].stage = "rebuilt"
  /\ draft' = [draft EXCEPT ![d].stage = "delivered"]
  /\ UNCHANGED disk

(* The re-test, of the files the corrected answer wrote and no others.     *)
Retest(d, reached) ==
  /\ draft[d].stage = "rebuilt"
  /\ draft' = [draft EXCEPT ![d].stage = "delivered", ![d].self =
                  Tested(Author[d], draft[d].wrote, reached)]
  /\ UNCHANGED disk

(* The agent is stopped, or saving or sending the deliverable fails.       *)
Lost(d) ==
  /\ draft[d].stage \in Working
  /\ draft' = [draft EXCEPT ![d].stage = "dead"]
  /\ UNCHANGED disk

(* revise_output writes its files and delivers; nothing is tested.         *)
Revise(d, ans) ==
  /\ draft[d].stage = "new" /\ Idle(Author[d])
  /\ disk' = Applied(d, ans)
  /\ draft' = [draft EXCEPT ![d] = [Delivering(d, ans) EXCEPT !.stage = "delivered"]]

(* adversarial_review: RE has the files the payload says were written      *)
(* tested or, when it names none, the claimed ones, which the loop over    *)
(* the workspace roots only ever looks for under the front-end's.          *)
Review(d, reached) ==
  /\ draft[d].stage = "delivered" /\ ~draft[d].reviewed
  /\ draft' = [draft EXCEPT ![d].reviewed = TRUE, ![d].review =
                  IF draft[d].wrote # {} THEN Tested(Author[d], draft[d].wrote, reached)
                                         ELSE Tested(Frontend, draft[d].claims, reached)]
  /\ UNCHANGED disk
----------------------------------------------------------------------------
WorkbenchNext ==
  \E d \in Drafts :
    \/ \E ans \in Answers : \/ Build(d, ans) \/ BuildRaises(d, ans) \/ Repair(d, ans)
                            \/ RepairRaises(d, ans) \/ Revise(d, ans)
    \/ \E reached \in BOOLEAN : SelfTest(d, reached) \/ Retest(d, reached) \/ Review(d, reached)
    \/ RepairKept(d) \/ Lost(d)

WorkbenchSpec == WorkbenchInit /\ [][WorkbenchNext]_workbenchVars
----------------------------------------------------------------------------
(* The file at p is the one d left there: no later draft has replaced it.  *)
Stands(d, p) == disk[Author[d]][p].by = d
Agrees(report, d, p) ==
  report.reached => p \in report.over /\ (p \in report.bad <=> ~disk[Author[d]][p].clean)

(* What a delivered draft reports is true of the files a human promotes.   *)
(* As long as a file is still the one the draft left, the self-test that   *)
(* travels with the draft and RE's own test, however late, both say of it  *)
(* what is the case.  The exceptions are the code's: a repair that raised  *)
(* half-way leaves the first report over changed files (marked in the      *)
(* payload), and a file the payload does not list was cut short or belongs *)
(* to a first answer the repair has replaced.                              *)
ReportsAreTrue ==
  \A d \in Drafts : draft[d].stage = "delivered" =>
    \A p \in Paths : Stands(d, p) =>
      IF p \in draft[d].wrote
      THEN /\ draft[d].halfway \/ Agrees(draft[d].self, d, p)
           /\ Agrees(draft[d].review, d, p)
      ELSE p \in draft[d].cut \/ draft[d].rounds = 2 \/ draft[d].halfway
============================================================================
