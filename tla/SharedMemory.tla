---------------------------- MODULE SharedMemory ----------------------------
(***************************************************************************)
(* A collection of BOB's shared memory: memory.py over ChromaDB, and the   *)
(* proposals an agent makes and Rob decides on (memory_proposals.py over   *)
(* SQLite).  Nothing ties the two stores together.  Decisions are made at  *)
(* the API, on the event loop, and never overlap; but the process may stop *)
(* between any two of a decision's calls, and an import, which a process   *)
(* of its own can run (import_from_file), comes between them.  An import   *)
(* in replace mode deletes the ids it has listed and then writes.  BOB's   *)
(* own memory tools, being plain functions, never get here: Scheduler.tla  *)
(* says why.                                                               *)
(***************************************************************************)
EXTENDS Naturals, FiniteSets

CONSTANTS
  Docs,         \* document ids
  Seeds,        \* those of SEED_DATA
  Proposals,    \* proposals; their number bounds them
  Deciders,     \* decisions that are made; their number bounds them
  NoDoc,        \* no document has the id
  MemoryFaults  \* bound on failing calls, stopped threads and restarts

ASSUME MemoryAssumption == Seeds \subseteq Docs /\ MemoryFaults \in Nat

VARIABLES
  target,      \* [Proposals -> doc_id]
  docs,        \* the collection: [Docs -> whose text it holds]
  status,      \* the table: [Proposals -> status]
  decision,    \* [Deciders -> a call of approve or reject]
  import,      \* import_all: where it stands and the ids it has listed
  stored,      \* history: proposals whose text has been written
  cutOff,      \* history: proposals written by an approval that did not end
  memoryFaults \* faults so far

memoryVars == <<target, docs, status, decision, import, stored, cutOff, memoryFaults>>

Statuses == {"none", "pending", "approved", "rejected"}
Texts    == Proposals \cup {"seed", "photo", "import", NoDoc}
Decision == [pc : {"none", "storing", "recording", "ended"},
             verb : {"approve", "reject"}, of : Proposals]

MemoryTypeOK ==
  /\ target \in [Proposals -> Docs]
  /\ docs \in [Docs -> Texts] /\ status \in [Proposals -> Statuses]
  /\ decision \in [Deciders -> Decision]
  /\ import \in [pc : {"idle", "listed", "writing"}, ids : SUBSET Docs]
  /\ stored \in SUBSET Proposals
  /\ cutOff \in SUBSET stored /\ memoryFaults \in 0..MemoryFaults

MemoryInit ==
  /\ target \in [Proposals -> Docs]
  /\ docs = [d \in Docs |-> IF d \in Seeds THEN "seed" ELSE NoDoc]
  /\ status = [p \in Proposals |-> "none"]
  /\ decision \in [Deciders -> {d \in Decision : d.pc = "none"}]
  /\ import = [pc |-> "idle", ids |-> {}]
  /\ stored = {} /\ cutOff = {} /\ memoryFaults = 0

MemoryFault == memoryFaults < MemoryFaults /\ memoryFaults' = memoryFaults + 1

\* memory.store: an upsert
Upsert(d, text) == docs' = [docs EXCEPT ![d] = text]

\* remember_photo's call of memory.store, which asks no proposal.
RememberDoc(d) ==
  /\ docs[d] # "photo"
  /\ Upsert(d, "photo")
  /\ UNCHANGED <<target, status, decision, import, stored, cutOff, memoryFaults>>

(***************************************************************************)
(* Proposals                                                               *)
(***************************************************************************)
Propose(p) ==
  /\ status[p] = "none"
  /\ status' = [status EXCEPT ![p] = "pending"]
  /\ UNCHANGED <<target, docs, decision, import, stored, cutOff, memoryFaults>>

AtWork(p) == {d \in Deciders : decision[d].of = p /\ decision[d].pc \in {"storing", "recording"}}

Continue(d, pc) == decision' = [decision EXCEPT ![d].pc = pc]

\* get_proposal and the look at its status, when no other decision is under way;
\* get_pending and get_history show the same rows.
DecideRead(d) ==
  LET p == decision[d].of IN
  /\ decision[d].pc = "none" /\ status[p] # "none"
  /\ \A q \in Proposals : AtWork(q) = {}
  /\ Continue(d, IF status[p] # "pending" THEN "ended"
                 ELSE IF decision[d].verb = "approve" THEN "storing" ELSE "recording")
  /\ UNCHANGED <<target, docs, status, import, stored, cutOff, memoryFaults>>

ApproveStore(d) ==
  LET p == decision[d].of IN
  /\ decision[d].pc = "storing"
  /\ Upsert(target[p], p)
  /\ stored' = stored \cup {p}
  /\ Continue(d, "recording")
  /\ UNCHANGED <<target, status, import, cutOff, memoryFaults>>

\* Mutant: the failure is logged and the approval recorded.
StoreFailsOn(d) ==
  /\ decision[d].pc = "storing" /\ MemoryFault
  /\ Continue(d, "recording")
  /\ UNCHANGED <<target, docs, status, import, stored, cutOff>>

\* The call of ChromaDB raises, before or after it has written: the proposal
\* stays pending.
StoreFails(d) ==
  LET p == decision[d].of IN
  /\ decision[d].pc = "storing" /\ MemoryFault
  /\ Continue(d, "ended")
  /\ \/ UNCHANGED <<docs, stored, cutOff>>
     \/ /\ Upsert(target[p], p)
        /\ stored' = stored \cup {p}
        /\ cutOff' = cutOff \cup {p}
  /\ UNCHANGED <<target, status, import>>

\* The UPDATE has no condition but the id.
DecideRecord(d) ==
  LET p == decision[d].of IN
  /\ decision[d].pc = "recording"
  /\ status' = [status EXCEPT ![p] = IF decision[d].verb = "approve" THEN "approved"
                                                                     ELSE "rejected"]
  /\ Continue(d, "ended")
  /\ UNCHANGED <<target, docs, import, stored, cutOff, memoryFaults>>

\* The UPDATE fails, on a locked database for one.
RecordFails(d) ==
  LET p == decision[d].of IN
  /\ decision[d].pc = "recording" /\ MemoryFault
  /\ Continue(d, "ended")
  /\ cutOff' = IF decision[d].verb = "approve" THEN cutOff \cup {p} ELSE cutOff
  /\ UNCHANGED <<target, docs, status, import, stored>>

(***************************************************************************)
(* Import and seeds                                                        *)
(***************************************************************************)
\* What an import brings; a collection without entries is passed over.
Entries == (SUBSET Docs) \ {{}}

Written(ids) == [d \in Docs |-> IF d \in ids THEN "import" ELSE docs[d]]

\* Merge: one call.  It fails as a whole.
ImportMerge ==
  /\ import.pc = "idle"
  /\ \E ids \in Entries : docs' = Written(ids)
  /\ UNCHANGED <<target, status, decision, import, stored, cutOff, memoryFaults>>

\* Replace: the ids, what they are now, their deletion, the entries.
ImportList ==
  /\ import.pc = "idle"
  /\ \E d \in Docs : docs[d] # NoDoc
  /\ import' = [pc |-> "listed", ids |-> {d \in Docs : docs[d] # NoDoc}]
  /\ UNCHANGED <<target, docs, status, decision, stored, cutOff, memoryFaults>>

ImportDelete ==
  /\ import.pc = "listed"
  /\ import' = [import EXCEPT !.pc = "writing"]
  /\ docs'   = [d \in Docs |-> IF d \in import.ids THEN NoDoc ELSE docs[d]]
  /\ UNCHANGED <<target, status, decision, stored, cutOff, memoryFaults>>

ImportWrite ==
  /\ import.pc = "writing"
  /\ import' = [pc |-> "idle", ids |-> {}]
  /\ \E ids \in Entries : docs' = Written(ids)
  /\ UNCHANGED <<target, status, decision, stored, cutOff, memoryFaults>>

\* An error of the summary: what was deleted stays so.
ImportFails ==
  /\ import.pc # "idle" /\ MemoryFault
  /\ import' = [pc |-> "idle", ids |-> {}]
  /\ UNCHANGED <<target, docs, status, decision, stored, cutOff>>

\* BOB starts again and adds the seeds that are missing, or cannot.
MemoryRestart ==
  /\ MemoryFault
  /\ import'   = [pc |-> "idle", ids |-> {}]
  /\ decision' = [d \in Deciders |-> IF decision[d].pc = "none" THEN decision[d]
                                     ELSE [decision[d] EXCEPT !.pc = "ended"]]
  /\ cutOff'   = cutOff \cup {p \in stored : \E d \in AtWork(p) : decision[d].pc = "recording"}
  /\ docs' \in {docs, [d \in Docs |-> IF d \in Seeds /\ docs[d] = NoDoc THEN "seed"
                                                                        ELSE docs[d]]}
  /\ UNCHANGED <<target, status, stored>>

MemoryNext ==
  \/ \E d \in Docs : RememberDoc(d)
  \/ \E p \in Proposals : Propose(p)
  \/ \E d \in Deciders : DecideRead(d) \/ ApproveStore(d) \/ StoreFails(d)
                         \/ DecideRecord(d) \/ RecordFails(d)
  \/ ImportMerge \/ ImportList \/ ImportDelete \/ ImportWrite \/ ImportFails
  \/ MemoryRestart

MemorySpec == MemoryInit /\ [][MemoryNext]_memoryVars

(***************************************************************************)
(* Properties                                                              *)
(***************************************************************************)
\* What the table says is what happened: an approved proposal has been written,
\* and one that is rejected or pending has not, unless an approval ended after its
\* write without a record of it, by a lost answer, a failing UPDATE or a restart
\* (approve, reject: "data is not written").
RecordIsTrue ==
  \A p \in Proposals :
    /\ status[p] = "approved" => p \in stored
    /\ p \in stored /\ status[p] # "approved" =>
         \/ p \in cutOff
         \/ \E d \in AtWork(p) : decision[d].pc = "recording"
=============================================================================
