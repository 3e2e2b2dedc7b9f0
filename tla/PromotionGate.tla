----------------------------- MODULE PromotionGate -----------------------------
(***************************************************************************)
(* The promotion gate (debate-arena/services/promotion-gate/main.py): a    *)
(* proposal becomes live only when a human approves its pending record.    *)
(* The endpoints are plain functions, so FastAPI runs them in threads; the *)
(* record is read, the files are copied one by one, and the record is then *)
(* updated by id, whatever it says by then.                                *)
(***************************************************************************)

CONSTANTS
  Promotions, \* records the gate creates
  Handlers,   \* requests the gate serves at a time
  Files,      \* paths under the target roots
  FilesOf,    \* [Promotions -> the files its proposal is copied to]
  None        \* what was live before any promotion

ASSUME FilesAssumption == FilesOf \in [Promotions -> (SUBSET Files) \ {{}}]
ASSUME NoneAssumption  == None \notin Promotions

VARIABLES
  state,       \* [Promotions -> state column, "none" without a row]
  sources,     \* promotions whose proposal exists
  live,        \* [Files -> the promotion it was last copied from, or None]
  req,         \* [Handlers -> request in flight]
  copied,      \* history: [Promotions -> files copied for it]
  raced,       \* history: promotions two requests have decided on at once
  interrupted  \* history: promotions whose approval died on the way

vars == <<state, sources, live, req, copied, raced, interrupted>>

Resolved == {"applied", "rejected", "error"}

Idle == [pc |-> "idle"]
Copying(p, left) == [pc |-> "copying", on |-> p, left |-> left]
At(pc, p)        == [pc |-> pc, on |-> p]

Request ==
  {Idle} \cup {Copying(p, left) : p \in Promotions, left \in SUBSET Files}
    \cup {At("failing", p) : p \in Promotions}
    \cup {At("rejecting", p) : p \in Promotions}

Deciding(h, p) == req[h] # Idle /\ req[h].on = p

Init ==
  /\ state       = [p \in Promotions |-> "none"]
  /\ sources     = Promotions
  /\ live        = [f \in Files |-> None]
  /\ req         = [h \in Handlers |-> Idle]
  /\ copied      = [p \in Promotions |-> {}]
  /\ raced       = {}
  /\ interrupted = {}

\* create_promotion, once _safe_source has found the proposal.
Create(p) ==
  /\ state[p] = "none"
  /\ p \in sources
  /\ state' = [state EXCEPT ![p] = "pending"]
  /\ UNCHANGED <<sources, live, req, copied, raced, interrupted>>

\* The agent that wrote the proposal takes it away.
RemoveSource(p) ==
  /\ p \in sources
  /\ sources' = sources \ {p}
  /\ UNCHANGED <<state, live, req, copied, raced, interrupted>>

(***************************************************************************)
(* Both endpoints begin by reading the record; one that is not pending is  *)
(* answered 409.                                                           *)
(***************************************************************************)
Races(p) == raced' = IF \E h \in Handlers : Deciding(h, p) THEN raced \cup {p} ELSE raced

\* Mutant: an approval is started whatever the record says.
ApproveReadUnchecked(h, p) ==
  /\ req[h] = Idle
  /\ state[p] # "none"
  /\ p \in sources
  /\ req' = [req EXCEPT ![h] = Copying(p, FilesOf[p])]
  /\ Races(p)
  /\ UNCHANGED <<state, sources, live, copied, interrupted>>

ApproveRead(h, p) ==
  /\ req[h] = Idle
  /\ state[p] = "pending"
  /\ p \in sources
  /\ req' = [req EXCEPT ![h] = Copying(p, FilesOf[p])]
  /\ Races(p)
  /\ UNCHANGED <<state, sources, live, copied, interrupted>>

\* Mutant: a rejection is started whatever the record says.
RejectReadUnchecked(h, p) ==
  /\ req[h] = Idle
  /\ state[p] # "none"
  /\ req' = [req EXCEPT ![h] = At("rejecting", p)]
  /\ Races(p)
  /\ UNCHANGED <<state, sources, live, copied, interrupted>>

RejectRead(h, p) ==
  /\ req[h] = Idle
  /\ state[p] = "pending"
  /\ req' = [req EXCEPT ![h] = At("rejecting", p)]
  /\ Races(p)
  /\ UNCHANGED <<state, sources, live, copied, interrupted>>

(***************************************************************************)
(* approve_promotion                                                       *)
(***************************************************************************)
\* Mutant: a file of another proposal is copied.
CopyFileAny(h, f) ==
  /\ req[h].pc = "copying"
  /\ req[h].left # {}
  /\ LET p == req[h].on
     IN  /\ live'   = [live EXCEPT ![f] = p]
         /\ copied' = [copied EXCEPT ![p] = @ \cup {f}]
         /\ req'    = [req EXCEPT ![h] = Copying(p, req[h].left \ {f})]
  /\ UNCHANGED <<state, sources, raced, interrupted>>

CopyFile(h, f) ==
  /\ req[h].pc = "copying"
  /\ f \in req[h].left
  /\ req[h].on \in sources
  /\ LET p == req[h].on
     IN  /\ live'   = [live EXCEPT ![f] = p]
         /\ copied' = [copied EXCEPT ![p] = @ \cup {f}]
         /\ req'    = [req EXCEPT ![h] = Copying(p, req[h].left \ {f})]
  /\ UNCHANGED <<state, sources, raced, interrupted>>

\* The walk over a directory that has gone yields no more files, and no error.
WalkEnds(h) ==
  /\ req[h].pc = "copying"
  /\ req[h].left # {}
  /\ req[h].on \notin sources
  /\ req' = [req EXCEPT ![h] = Copying(req[h].on, {})]
  /\ UNCHANGED <<state, sources, live, copied, raced, interrupted>>

\* Any error of a copy, of a file listed before it went for one, ends the loop.
CopyFails(h) ==
  /\ req[h].pc = "copying"
  /\ req[h].left # {}
  /\ req' = [req EXCEPT ![h] = At("failing", req[h].on)]
  /\ UNCHANGED <<state, sources, live, copied, raced, interrupted>>

\* Mutant: the record is updated before the last file is copied.
ApproveWriteEarly(h) ==
  /\ req[h].pc = "copying"
  /\ \E f \in Files : req[h].left \subseteq {f}
  /\ state' = [state EXCEPT ![req[h].on] = "applied"]
  /\ req'   = [req EXCEPT ![h] = Idle]
  /\ UNCHANGED <<sources, live, copied, raced, interrupted>>

ApproveWrite(h) ==
  /\ req[h].pc = "copying"
  /\ req[h].left = {}
  /\ state' = [state EXCEPT ![req[h].on] = "applied"]
  /\ req'   = [req EXCEPT ![h] = Idle]
  /\ UNCHANGED <<sources, live, copied, raced, interrupted>>

ErrorWrite(h) ==
  /\ req[h].pc = "failing"
  /\ state' = [state EXCEPT ![req[h].on] = "error"]
  /\ req'   = [req EXCEPT ![h] = Idle]
  /\ UNCHANGED <<sources, live, copied, raced, interrupted>>

\* reject_promotion
RejectWrite(h) ==
  /\ req[h].pc = "rejecting"
  /\ state' = [state EXCEPT ![req[h].on] = "rejected"]
  /\ req'   = [req EXCEPT ![h] = Idle]
  /\ UNCHANGED <<sources, live, copied, raced, interrupted>>

(***************************************************************************)
(* The container is stopped, and every request with it; or the UPDATE of   *)
(* one of them finds the database locked.  What has been copied stays.     *)
(***************************************************************************)
Dies(S) ==
  /\ req' = [h \in Handlers |-> IF h \in S THEN Idle ELSE req[h]]
  /\ interrupted' =
       interrupted \cup {p \in Promotions :
                           \E h \in S : Deciding(h, p) /\ req[h].pc # "rejecting"}
  /\ UNCHANGED <<state, sources, live, copied, raced>>

HandlerDies(h) == req[h] # Idle /\ Dies({h})
Restart        == Dies(Handlers)

Next ==
  \/ \E p \in Promotions : Create(p) \/ RemoveSource(p)
  \/ \E h \in Handlers :
       \/ \E p \in Promotions : ApproveRead(h, p) \/ RejectRead(h, p)
       \/ \E f \in Files : CopyFile(h, f)
       \/ WalkEnds(h)
       \/ CopyFails(h)
       \/ ApproveWrite(h)
       \/ ErrorWrite(h)
       \/ RejectWrite(h)
       \/ HandlerDies(h)
  \/ Restart

Spec == Init /\ [][Next]_vars

(***************************************************************************)
(* Properties                                                              *)
(***************************************************************************)
TypeOK ==
  /\ state       \in [Promotions -> Resolved \cup {"none", "pending"}]
  /\ sources     \subseteq Promotions
  /\ live        \in [Files -> Promotions \cup {None}]
  /\ req         \in [Handlers -> Request]
  /\ copied      \in [Promotions -> SUBSET Files]
  /\ \A p \in Promotions : copied[p] \subseteq FilesOf[p]
  /\ raced       \subseteq Promotions
  /\ interrupted \subseteq Promotions

\* A record that says applied is true of the proposal, as long as that has not
\* been taken away: every file of it has been copied, however often its approval
\* was interrupted, failed or raced.
AppliedIsComplete ==
  \A p \in sources : state[p] = "applied" => copied[p] = FilesOf[p]

\* Whatever is live is accounted for: its promotion is applied, or failed half
\* way and says so, or is being approved.  A record that is pending or rejected
\* has nothing live, unless requests raced or an approval died on the way.
LiveIsAccountedFor ==
  \A f \in Files : live[f] # None =>
    \/ state[live[f]] \in {"applied", "error"}
    \/ \E h \in Handlers : Deciding(h, live[f]) /\ req[h].pc \in {"copying", "failing"}
    \/ live[f] \in raced \cup interrupted

\* Requests about a promotion that do not overlap resolve it once.
ResolvedOnce ==
  [][\A p \in Promotions \ raced' :
       state[p] \in Resolved => state'[p] = state[p]]_vars
===============================================================================
