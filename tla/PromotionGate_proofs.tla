------------------------- MODULE PromotionGate_proofs -------------------------
(***************************************************************************)
(* Proofs about PromotionGate, for any promotions, whatever files they     *)
(* share, and any number of requests at a time.                            *)
(***************************************************************************)
EXTENDS PromotionGate, TLAPS

\* What the requests in flight look like.
LEMMA RequestKinds ==
  ASSUME NEW r \in Request
  PROVE  \/ r = Idle
         \/ r.pc = "copying" /\ r.on \in Promotions /\ r.left \subseteq Files
         \/ r.pc = "failing" /\ r.on \in Promotions
         \/ r.pc = "rejecting" /\ r.on \in Promotions
BY DEF Request, Idle, Copying, At

\* A request that is copying or deciding is on a promotion.
LEMMA CopyingTyped ==
  ASSUME TypeOK, NEW h \in Handlers, req[h].pc = "copying"
  PROVE  /\ req[h] # Idle
         /\ req[h].on \in Promotions
         /\ req[h].left \subseteq Files
BY RequestKinds DEF TypeOK, Idle

LEMMA EndingTyped ==
  ASSUME TypeOK, NEW h \in Handlers, req[h].pc = "failing" \/ req[h].pc = "rejecting"
  PROVE  req[h] # Idle /\ req[h].on \in Promotions
BY RequestKinds DEF TypeOK, Idle

\* How far an approval is: what it has still to copy is of its own proposal,
\* and the rest of that has been copied unless the proposal has gone.
CopyProgress ==
  \A h \in Handlers : req[h].pc = "copying" =>
    /\ req[h].left \subseteq FilesOf[req[h].on]
    /\ req[h].on \in sources => FilesOf[req[h].on] \ req[h].left \subseteq copied[req[h].on]

TypeInv == TypeOK /\ CopyProgress

LEMMA TypeStep ==
  ASSUME TypeInv, [Next]_vars
  PROVE  TypeInv'
<1> USE DEF TypeInv
<1>1. ASSUME NEW p \in Promotions, Create(p) \/ RemoveSource(p)
      PROVE  TypeInv'
  BY <1>1 DEF TypeOK, CopyProgress, Create, RemoveSource, Resolved
<1>2. ASSUME NEW h \in Handlers, NEW p \in Promotions, ApproveRead(h, p)
      PROVE  TypeInv'
  <2>1. FilesOf[p] \subseteq Files
    BY FilesAssumption
  <2>2. Copying(p, FilesOf[p]) \in Request
    BY <2>1 DEF Request
  <2>3. TypeOK'
    BY <1>2, <2>2 DEF TypeOK, ApproveRead, Races
  <2>4. CopyProgress'
    BY <1>2 DEF TypeOK, CopyProgress, ApproveRead, Copying
  <2> QED
    BY <2>3, <2>4
<1>3. ASSUME NEW h \in Handlers, NEW p \in Promotions, RejectRead(h, p)
      PROVE  TypeInv'
  <2>1. At("rejecting", p) \in Request
    BY DEF Request
  <2>2. TypeOK'
    BY <1>3, <2>1 DEF TypeOK, RejectRead, Races
  <2>3. CopyProgress'
    BY <1>3 DEF TypeOK, CopyProgress, RejectRead, At
  <2> QED
    BY <2>2, <2>3
<1>4. ASSUME NEW h \in Handlers, NEW f \in Files, CopyFile(h, f)
      PROVE  TypeInv'
  <2> DEFINE p == req[h].on
  <2>1. req[h].pc = "copying" /\ f \in req[h].left /\ f \in FilesOf[p] /\ p \in Promotions
    BY <1>4, CopyingTyped DEF CopyFile, CopyProgress
  <2>2. Copying(p, req[h].left \ {f}) \in Request
    BY <2>1, CopyingTyped DEF Request
  <2>3. TypeOK'
    BY <1>4, <2>1, <2>2 DEF TypeOK, CopyFile
  <2>4. CopyProgress'
    BY <1>4, <2>1 DEF TypeOK, CopyProgress, CopyFile, Copying
  <2> QED
    BY <2>3, <2>4
<1>5. ASSUME NEW h \in Handlers, CopyFails(h)
      PROVE  TypeInv'
  <2>1. At("failing", req[h].on) \in Request
    BY <1>5, CopyingTyped DEF CopyFails, Request
  <2>2. TypeOK'
    BY <1>5, <2>1 DEF TypeOK, CopyFails
  <2>3. CopyProgress'
    BY <1>5 DEF TypeOK, CopyProgress, CopyFails, At
  <2> QED
    BY <2>2, <2>3
<1>6. ASSUME NEW h \in Handlers, ApproveWrite(h) \/ ErrorWrite(h) \/ RejectWrite(h)
      PROVE  TypeInv'
  <2>1. Idle \in Request
    BY DEF Request
  <2>2. TypeOK'
    BY <1>6, <2>1 DEF TypeOK, ApproveWrite, ErrorWrite, RejectWrite, Resolved
  <2>3. CopyProgress'
    BY <1>6 DEF TypeOK, CopyProgress, ApproveWrite, ErrorWrite, RejectWrite, Idle
  <2> QED
    BY <2>2, <2>3
<1>7. ASSUME NEW S \in SUBSET Handlers, Dies(S)
      PROVE  TypeInv'
  <2>1. Idle \in Request
    BY DEF Request
  <2>2. TypeOK'
    BY <1>7, <2>1 DEF TypeOK, Dies
  <2>3. CopyProgress'
    BY <1>7 DEF TypeOK, CopyProgress, Dies, Idle
  <2> QED
    BY <2>2, <2>3
<1>8. CASE UNCHANGED vars
  BY <1>8 DEF TypeOK, CopyProgress, vars
<1>9. ASSUME NEW h \in Handlers, WalkEnds(h)
      PROVE  TypeInv'
  <2>1. Copying(req[h].on, {}) \in Request
    BY <1>9, CopyingTyped DEF WalkEnds, Request
  <2>2. TypeOK'
    BY <1>9, <2>1 DEF TypeOK, WalkEnds
  <2>3. CopyProgress'
    BY <1>9 DEF TypeOK, CopyProgress, WalkEnds, Copying
  <2> QED
    BY <2>2, <2>3
<1> QED
  BY <1>1, <1>2, <1>3, <1>4, <1>5, <1>6, <1>7, <1>8, <1>9 DEF Next, HandlerDies, Restart

LEMMA TypeInvariant == Spec => []TypeInv
<1>1. Init => TypeInv
  BY DEF Init, TypeInv, TypeOK, CopyProgress, Request, Idle
<1> QED
  BY <1>1, TypeStep, PTL DEF Spec

\* TypeOK holds of every reachable state.
THEOREM TypeCorrect == Spec => []TypeOK
BY TypeInvariant, PTL DEF TypeInv

\* An applied record is true of its proposal (AppliedIsComplete).
THEOREM AppliedMeansCopied == Spec => []AppliedIsComplete
<1>1. Init => AppliedIsComplete
  BY DEF Init, AppliedIsComplete
<1>2. ASSUME TypeInv, AppliedIsComplete, [Next]_vars
      PROVE  AppliedIsComplete'
  <2> USE <1>2 DEF TypeInv
  <2>1. ASSUME NEW h \in Handlers, ApproveWrite(h)
        PROVE  AppliedIsComplete'
    BY <2>1, CopyingTyped DEF TypeOK, CopyProgress, AppliedIsComplete, ApproveWrite
  <2>2. ASSUME NEW h \in Handlers, NEW f \in Files, CopyFile(h, f)
        PROVE  AppliedIsComplete'
    BY <2>2, CopyingTyped DEF TypeOK, CopyProgress, AppliedIsComplete, CopyFile
  <2>3. ASSUME NEW p \in Promotions, Create(p)
        PROVE  AppliedIsComplete'
    BY <2>3 DEF TypeOK, AppliedIsComplete, Create
  <2>4. ASSUME NEW h \in Handlers, ErrorWrite(h) \/ RejectWrite(h)
        PROVE  AppliedIsComplete'
    BY <2>4, EndingTyped DEF TypeOK, AppliedIsComplete, ErrorWrite, RejectWrite
  <2>5. CASE sources' \subseteq sources /\ UNCHANGED <<state, copied>>
    BY <2>5 DEF AppliedIsComplete
  <2> QED
    BY <2>1, <2>2, <2>3, <2>4, <2>5 DEF Next, vars, RemoveSource, ApproveRead, RejectRead,
       WalkEnds, CopyFails, HandlerDies, Restart, Dies
<1> QED
  BY <1>1, <1>2, TypeInvariant, PTL DEF Spec

(***************************************************************************)
(* Where nothing has raced, a promotion is decided on by one request, and  *)
(* its record is pending all the while.                                    *)
(***************************************************************************)
Alone ==
  \A p \in Promotions \ raced : \A h \in Handlers : Deciding(h, p) =>
    /\ state[p] = "pending"
    /\ \A g \in Handlers : Deciding(g, p) => g = h

\* A request begins: it is alone, or the promotion has raced.
LEMMA AloneBegins ==
  ASSUME Alone, NEW h \in Handlers, NEW p \in Promotions, state[p] = "pending", Races(p),
         UNCHANGED state, NEW r, r.on = p, req[h] = Idle, req' = [req EXCEPT ![h] = r],
         req \in [Handlers -> Request]
  PROVE  Alone'
BY DEF Alone, Races, Deciding

\* A request ends, or goes on; records of other promotions stay as they are.
LEMMA AloneGoesOn ==
  ASSUME Alone, NEW h \in Handlers, NEW r, req' = [req EXCEPT ![h] = r],
         req[h] # Idle, req[h].on \in Promotions, req \in [Handlers -> Request],
         \/ r = Idle /\ \A q \in Promotions \ {req[h].on} : state'[q] = state[q]
         \/ r.on = req[h].on /\ UNCHANGED state,
         UNCHANGED raced
  PROVE  Alone'
BY DEF Alone, Deciding

LEMMA AloneStep ==
  ASSUME TypeOK, Alone, [Next]_vars
  PROVE  Alone'
<1>1. ASSUME NEW p \in Promotions, Create(p)
      PROVE  Alone'
  BY <1>1 DEF TypeOK, Alone, Deciding, Create
<1>2. ASSUME NEW h \in Handlers, NEW p \in Promotions, ApproveRead(h, p)
      PROVE  Alone'
  BY <1>2, AloneBegins DEF TypeOK, ApproveRead, Copying
<1>3. ASSUME NEW h \in Handlers, NEW p \in Promotions, RejectRead(h, p)
      PROVE  Alone'
  BY <1>3, AloneBegins DEF TypeOK, RejectRead, At
<1>4. ASSUME NEW h \in Handlers, NEW f \in Files, CopyFile(h, f)
      PROVE  Alone'
  <2>1. /\ req[h] # Idle
        /\ req[h].on \in Promotions
        /\ req' = [req EXCEPT ![h] = Copying(req[h].on, req[h].left \ {f})]
        /\ UNCHANGED <<state, raced>>
    BY <1>4, CopyingTyped DEF CopyFile
  <2> QED
    BY <2>1, AloneGoesOn DEF TypeOK, Copying
<1>5. ASSUME NEW h \in Handlers, CopyFails(h)
      PROVE  Alone'
  BY <1>5, CopyingTyped, AloneGoesOn DEF TypeOK, CopyFails, At
<1>9. ASSUME NEW h \in Handlers, WalkEnds(h)
      PROVE  Alone'
  BY <1>9, CopyingTyped, AloneGoesOn DEF TypeOK, WalkEnds, Copying
<1>6. ASSUME NEW h \in Handlers, ApproveWrite(h) \/ ErrorWrite(h) \/ RejectWrite(h)
      PROVE  Alone'
  <2>1. /\ req[h] # Idle
        /\ req[h].on \in Promotions
        /\ req' = [req EXCEPT ![h] = Idle]
        /\ \A q \in Promotions \ {req[h].on} : state'[q] = state[q]
        /\ UNCHANGED raced
    BY <1>6, CopyingTyped, EndingTyped DEF TypeOK, ApproveWrite, ErrorWrite, RejectWrite
  <2> QED
    BY <2>1, AloneGoesOn DEF TypeOK
<1>7. ASSUME NEW S \in SUBSET Handlers, Dies(S)
      PROVE  Alone'
  BY <1>7 DEF Alone, Deciding, Dies
<1>8. CASE UNCHANGED <<state, req, raced>>
  BY <1>8 DEF Alone, Deciding
<1> QED
  BY <1>1, <1>2, <1>3, <1>4, <1>5, <1>6, <1>7, <1>8, <1>9 DEF Next, vars, RemoveSource, HandlerDies, Restart

LEMMA AloneInvariant == Spec => []Alone
<1>1. Init => Alone
  BY DEF Init, Alone, Deciding
<1> QED
  BY <1>1, AloneStep, TypeCorrect, PTL DEF Spec

\* Requests that do not overlap resolve a promotion once (ResolvedOnce).
THEOREM NobodyResolvesTwice == Spec => ResolvedOnce
<1>1. ASSUME TypeOK, Alone, [Next]_vars, NEW p \in Promotions \ raced', state[p] \in Resolved
      PROVE  state'[p] = state[p]
  <2> USE <1>1
  <2>1. p \notin raced
    BY DEF Next, vars, Create, RemoveSource, ApproveRead, RejectRead, Races, CopyFile, WalkEnds, CopyFails,
           ApproveWrite, ErrorWrite, RejectWrite, HandlerDies, Restart, Dies
  <2>2. \A h \in Handlers : ~Deciding(h, p)
    BY <2>1 DEF Alone, Resolved
  <2>3. ASSUME NEW h \in Handlers, ApproveWrite(h) \/ ErrorWrite(h) \/ RejectWrite(h)
        PROVE  state'[p] = state[p]
    BY <2>2, <2>3, CopyingTyped, EndingTyped DEF TypeOK, Deciding, ApproveWrite, ErrorWrite, RejectWrite
  <2>4. ASSUME NEW q \in Promotions, Create(q)
        PROVE  state'[p] = state[p]
    BY <2>4 DEF TypeOK, Create, Resolved
  <2>5. CASE UNCHANGED state
    BY <2>5
  <2> QED
    BY <2>3, <2>4, <2>5 DEF Next, vars, RemoveSource, ApproveRead, RejectRead, CopyFile, WalkEnds, CopyFails,
       HandlerDies, Restart, Dies
<1>2. TypeOK /\ Alone /\ [Next]_vars =>
        [\A p \in Promotions \ raced' : state[p] \in Resolved => state'[p] = state[p]]_vars
  BY <1>1
<1> QED
  BY <1>2, AloneInvariant, TypeCorrect, PTL DEF Spec, ResolvedOnce

(***************************************************************************)
(* What is live.                                                           *)
(***************************************************************************)
LEMMA LiveStep ==
  ASSUME TypeOK, Alone, LiveIsAccountedFor, [Next]_vars
  PROVE  LiveIsAccountedFor'
<1>1. ASSUME NEW p \in Promotions, Create(p) \/ RemoveSource(p)
      PROVE  LiveIsAccountedFor'
  BY <1>1 DEF TypeOK, LiveIsAccountedFor, Deciding, Create, RemoveSource
<1>2. ASSUME NEW h \in Handlers, NEW p \in Promotions, ApproveRead(h, p) \/ RejectRead(h, p)
      PROVE  LiveIsAccountedFor'
  BY <1>2 DEF TypeOK, LiveIsAccountedFor, Deciding, ApproveRead, RejectRead, Races
<1>3. ASSUME NEW h \in Handlers, NEW f \in Files, CopyFile(h, f)
      PROVE  LiveIsAccountedFor'
  <2>1. /\ req[h] # Idle /\ req[h].pc = "copying" /\ req[h].on \in Promotions
        /\ req'[h] = Copying(req[h].on, req[h].left \ {f})
        /\ \A g \in Handlers \ {h} : req'[g] = req[g]
        /\ UNCHANGED <<state, raced, interrupted>>
    BY <1>3, CopyingTyped DEF TypeOK, CopyFile
  <2>2. /\ req'[h] # Idle /\ req'[h].pc = "copying" /\ req'[h].on = req[h].on
    BY <2>1 DEF Copying, Idle
  <2>3. ASSUME NEW k \in Handlers, NEW q, Deciding(k, q), req[k].pc \in {"copying", "failing"}
        PROVE  req'[k] # Idle /\ req'[k].on = q /\ req'[k].pc \in {"copying", "failing"}
    BY <2>1, <2>2, <2>3 DEF Deciding
  <2>4. live' = [live EXCEPT ![f] = req[h].on]
    BY <1>3 DEF CopyFile
  <2> SUFFICES ASSUME NEW g \in Files, live'[g] # None
               PROVE  \/ state'[live'[g]] \in {"applied", "error"}
                      \/ \E k \in Handlers : /\ req'[k] # Idle /\ req'[k].on = live'[g]
                                            /\ req'[k].pc \in {"copying", "failing"}
                      \/ live'[g] \in raced' \cup interrupted'
    BY DEF LiveIsAccountedFor, Deciding
  <2>5. CASE g = f
    BY <2>2, <2>4, <2>5 DEF TypeOK
  <2>6. CASE g # f
    BY <2>1, <2>3, <2>4, <2>6 DEF TypeOK, LiveIsAccountedFor
  <2> QED
    BY <2>5, <2>6
<1>4. ASSUME NEW h \in Handlers, CopyFails(h)
      PROVE  LiveIsAccountedFor'
  BY <1>4 DEF TypeOK, LiveIsAccountedFor, Deciding, CopyFails, At, Idle
<1>9. ASSUME NEW h \in Handlers, WalkEnds(h)
      PROVE  LiveIsAccountedFor'
  BY <1>9 DEF TypeOK, LiveIsAccountedFor, Deciding, WalkEnds, Copying, Idle
<1>5. ASSUME NEW h \in Handlers, ApproveWrite(h) \/ ErrorWrite(h)
      PROVE  LiveIsAccountedFor'
  BY <1>5, CopyingTyped, EndingTyped DEF TypeOK, LiveIsAccountedFor, Deciding, ApproveWrite, ErrorWrite
<1>6. ASSUME NEW h \in Handlers, RejectWrite(h)
      PROVE  LiveIsAccountedFor'
  <2> DEFINE p == req[h].on
  <2>1. p \in Promotions /\ Deciding(h, p) /\ req[h].pc = "rejecting"
    BY <1>6, EndingTyped DEF RejectWrite, Deciding
  <2>2. p \notin raced => /\ state[p] = "pending"
                        /\ \A g \in Handlers : Deciding(g, p) => g = h
    BY <2>1 DEF Alone
  <2>3. /\ \A q \in Promotions \ {p} : state'[q] = state[q]
        /\ \A g \in Handlers \ {h} : req'[g] = req[g]
        /\ UNCHANGED <<live, raced, interrupted>>
    BY <1>6, <2>1 DEF TypeOK, RejectWrite
  <2>4. ASSUME NEW f \in Files, live[f] = p
        PROVE  p \in raced \cup interrupted
    <3>1. live[f] # None
      BY <2>1, <2>4, NoneAssumption
    <3> QED
      BY <2>1, <2>2, <2>4, <3>1 DEF LiveIsAccountedFor
  <2> QED
    BY <2>1, <2>3, <2>4 DEF TypeOK, LiveIsAccountedFor, Deciding
<1>7. ASSUME NEW S \in SUBSET Handlers, Dies(S)
      PROVE  LiveIsAccountedFor'
  BY <1>7 DEF TypeOK, LiveIsAccountedFor, Deciding, Dies, Idle
<1>8. CASE UNCHANGED vars
  BY <1>8 DEF LiveIsAccountedFor, Deciding, vars
<1> QED
  BY <1>1, <1>2, <1>3, <1>4, <1>5, <1>6, <1>7, <1>8, <1>9 DEF Next, HandlerDies, Restart

\* Whatever is live is accounted for by its record (LiveIsAccountedFor).
THEOREM LiveFilesAreAccountedFor == Spec => []LiveIsAccountedFor
<1>1. Init => LiveIsAccountedFor
  BY DEF Init, LiveIsAccountedFor
<1> QED
  BY <1>1, LiveStep, AloneInvariant, TypeCorrect, PTL DEF Spec
===============================================================================
