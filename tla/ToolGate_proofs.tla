--------------------------- MODULE ToolGate_proofs ---------------------------
(***************************************************************************)
(* Proofs about ToolGate, for any tools, however often they are wrapped,   *)
(* any thresholds, and any number of confirmations.                        *)
(***************************************************************************)
EXTENDS ToolGate, SequenceTheorems, FiniteSetTheorems, TLAPS

\* What the detector remembers is again a history, and not too long.
LEMMA RecordedTyped ==
  ASSUME TypeOK, NEW p \in Passage
  PROVE  Recorded(p) \in Seq(Entry) /\ Len(Recorded(p)) <= HistorySize
<1> DEFINE e == [call |-> p.call, at |-> clock, first |-> p.first, ran |-> FALSE]
           h == Append(calls, e)
<1>1. e \in Entry
  BY DEF TypeOK, Passage, Entry
<1>2. h \in Seq(Entry) /\ Len(h) \in Nat
  BY <1>1 DEF TypeOK
<1>3. HistorySize \in Nat \ {0}
  BY NumbersAssumption
<1> DEFINE s == SubSeq(h, Len(h) - HistorySize + 1, Len(h))
<1>4. CASE Len(h) > HistorySize
  <2>1. \A i \in (Len(h) - HistorySize + 1)..Len(h) : h[i] \in Entry
    BY <1>2, <1>3, <1>4
  <2>2. Len(h) - HistorySize + 1 \in Int /\ Len(h) \in Int
    BY <1>2, <1>3
  <2>3. s \in Seq(Entry) /\ Len(s) = HistorySize
    <3> HIDE DEF h
    <3> QED
      BY <1>2, <1>3, <1>4, <2>1, <2>2, SubSeqProperties
  <2>4. Recorded(p) = s
    BY <1>4 DEF Recorded, Latest
  <2> HIDE DEF s
  <2> QED
    BY <1>3, <2>3, <2>4
<1>5. CASE ~(Len(h) > HistorySize)
  <2>1. Recorded(p) = h
    BY <1>5 DEF Recorded, Latest
  <2> QED
    BY <1>2, <1>3, <1>5, <2>1
<1> QED
  BY <1>4, <1>5

\* A call in its gates: the shape of current.
LEMMA PassageTyped ==
  ASSUME TypeOK, current # None
  PROVE  /\ current \in Passage /\ current.call \in Calls
         /\ current.left \in 0..MaxLayers /\ current.first \in BOOLEAN
         /\ High => current.call \in HighCalls
BY DEF TypeOK, Passage, High, Calls, HighCalls, ToolOf

LEMMA NextGateTyped ==
  ASSUME TypeOK, AtGate
  PROVE  /\ NextGate \in Passage
         /\ NextGate.call = current.call /\ NextGate.left = current.left - 1
         /\ NextGate.first = FALSE
<1>1. /\ current # None /\ current.left > 0 /\ current \in Passage
      /\ current.left \in 0..MaxLayers /\ MaxLayers \in Nat
  BY PassageTyped, NumbersAssumption DEF AtGate
<1>2. current.left - 1 \in 0..MaxLayers
  BY <1>1
<1> QED
  BY <1>1, <1>2 DEF NextGate, Passage

\* Giving a confirmation another status leaves it a confirmation of its call.
LEMMA StatusChange ==
  ASSUME NEW c \in Confirmation, NEW st \in Statuses
  PROVE  LET d == [c EXCEPT !.status = st]
         IN  d \in Confirmation /\ d.call = c.call /\ d.queued = c.queued /\ d.status = st
BY DEF Confirmation

LEMMA AgedTyped ==
  ASSUME NEW c \in Confirmation
  PROVE  /\ Aged(c) \in Confirmation /\ Aged(c).call = c.call
         /\ Aged(c).status = "approved" => c.status = "approved"
BY StatusChange DEF Aged, Confirmation, Statuses

(***************************************************************************)
(* Types                                                                   *)
(***************************************************************************)
LEMMA TypeInit ==
  ASSUME Init
  PROVE  TypeOK
<1>1. /\ clock \in 0..MaxClock
      /\ layers \in [Tools -> 1..MaxLayers]
  BY NumbersAssumption DEF Init
<1>2. calls \in Seq(Entry) /\ Len(calls) <= HistorySize
  BY NumbersAssumption DEF Init
<1>3. /\ current \in Passage \cup {None}
      /\ conf \in [Ids -> Confirmation \cup {None}]
      /\ issued \subseteq Ids
  BY DEF Init
<1>4. /\ clicks \in [HighCalls -> Nat]
      /\ spent \in [HighCalls -> Nat]
      /\ ran \in [HighCalls -> Nat]
  BY NumbersAssumption DEF Init
<1> QED
  BY <1>1, <1>2, <1>3, <1>4 DEF TypeOK

\* The steps inside the gates.
LEMMA TypeGates ==
  ASSUME TypeOK,
         \/ GateDenyInjection \/ GateDenyLoop \/ GateAllow
         \/ GateAllowConfirmed \/ GateQueue \/ Run
  PROVE  TypeOK'
<1>1. CASE GateDenyInjection
  BY <1>1 DEF TypeOK, GateDenyInjection, history
<1>2. CASE GateDenyLoop
  BY <1>2, PassageTyped, RecordedTyped DEF TypeOK, GateDenyLoop, AtGate, history
<1>3. CASE GateAllow
  BY <1>3, PassageTyped, NextGateTyped, RecordedTyped
     DEF TypeOK, GateAllow, PassesChecks, AtGate, history
<1>4. CASE GateAllowConfirmed
  <2>1. AtGate /\ High /\ current # None /\ current.call \in HighCalls
    BY <1>4, PassageTyped DEF GateAllowConfirmed, PassesChecks, AtGate
  <2>2. PICK id \in Usable(current.call) : conf' = [conf EXCEPT ![id].status = "consumed"]
    BY <1>4 DEF GateAllowConfirmed
  <2>3. id \in Ids /\ conf[id] \in Confirmation
    BY <2>2 DEF Usable, Live, TypeOK
  <2>4. [conf[id] EXCEPT !.status = "consumed"] \in Confirmation
    BY <2>3, StatusChange DEF Statuses
  <2>5. conf' \in [Ids -> Confirmation \cup {None}]
    BY <2>2, <2>3, <2>4 DEF TypeOK
  <2>6. spent' \in [HighCalls -> Nat]
    BY <1>4, <2>1 DEF TypeOK, GateAllowConfirmed
  <2> QED
    BY <1>4, <2>1, <2>5, <2>6, PassageTyped, NextGateTyped, RecordedTyped
       DEF TypeOK, GateAllowConfirmed
<1>5. CASE GateQueue
  <2>1. current # None /\ current.call \in HighCalls
    BY <1>5, PassageTyped DEF GateQueue, PassesChecks, AtGate
  <2>2. [call |-> current.call, queued |-> clock, status |-> "pending"] \in Confirmation
    BY <2>1 DEF TypeOK, Confirmation, Statuses
  <2>3. conf' \in [Ids -> Confirmation \cup {None}] /\ issued' \subseteq Ids
    BY <1>5, <2>2 DEF TypeOK, GateQueue
  <2> QED
    BY <1>5, <2>1, <2>3, PassageTyped, RecordedTyped DEF TypeOK, GateQueue, history
<1>6. CASE Run
  <2>1. calls' \in Seq(Entry) /\ Len(calls') <= HistorySize
    <3> DEFINE n == Len(calls)
    <3>1. calls \in Seq(Entry) /\ n \in Nat /\ n <= HistorySize /\ HistorySize \in Nat
      BY NumbersAssumption DEF TypeOK
    <3>2. calls' = [calls EXCEPT ![n] = [calls[n] EXCEPT !.ran = TRUE]]
      BY <1>6 DEF Run
    <3>3. CASE n = 0
      <4>1. calls' = calls
        BY <3>1, <3>2, <3>3
      <4> QED
        BY <3>1, <4>1
    <3>4. CASE n > 0
      <4>1. n \in 1..Len(calls) /\ calls[n] \in Entry
        BY <3>1, <3>4
      <4>2. [calls[n] EXCEPT !.ran = TRUE] \in Entry
        BY <4>1 DEF Entry
      <4> QED
        BY <3>1, <3>2, <4>1, <4>2, ExceptSeq
    <3> QED
      BY <3>1, <3>3, <3>4
  <2>2. ran' \in [HighCalls -> Nat]
    <3>1. CASE High
      BY <1>6, <3>1, PassageTyped DEF TypeOK, Run
    <3>2. CASE ~High
      BY <1>6, <3>2 DEF TypeOK, Run
    <3> QED
      BY <3>1, <3>2
  <2> QED
    BY <1>6, <2>1, <2>2 DEF TypeOK, Run
<1> QED
  BY <1>1, <1>2, <1>3, <1>4, <1>5, <1>6

LEMMA TypeStep ==
  ASSUME TypeOK, [Next]_vars
  PROVE  TypeOK'
<1>1. CASE Tick
  BY <1>1, NumbersAssumption DEF TypeOK, Tick, history
<1>2. ASSUME NEW call \in Calls, CallTool(call)
      PROVE  TypeOK'
  <2>1. layers[ToolOf(call)] \in 0..MaxLayers
    BY DEF TypeOK, Calls, ToolOf
  <2>2. [call |-> call, left |-> layers[ToolOf(call)], first |-> TRUE] \in Passage
    BY <2>1 DEF Passage
  <2> QED
    BY <1>2, <2>2 DEF TypeOK, CallTool, history
<1>3. ASSUME NEW id \in Ids, Confirm(id)
      PROVE  TypeOK'
  <2>1. conf[id] \in Confirmation
    BY <1>3 DEF TypeOK, Confirm, Live
  <2>2. [conf[id] EXCEPT !.status = "approved"] \in Confirmation
    BY <2>1, StatusChange DEF Statuses
  <2>3. conf' \in [Ids -> Confirmation \cup {None}]
    BY <1>3, <2>2 DEF TypeOK, Confirm
  <2>4. clicks' \in [HighCalls -> Nat]
    <3>1. conf[id].call \in HighCalls
      BY <2>1 DEF Confirmation
    <3> QED
      BY <1>3, <3>1, NumbersAssumption DEF TypeOK, Confirm
  <2> QED
    BY <1>3, <2>3, <2>4 DEF TypeOK, Confirm
<1>4. ASSUME NEW id \in Ids, ConfirmLate(id) \/ Reject(id) \/ CheckConfirmation(id)
      PROVE  TypeOK'
  <2>1. conf[id] \in Confirmation
    BY <1>4 DEF TypeOK, ConfirmLate, Reject, CheckConfirmation, Live
  <2>2. /\ [conf[id] EXCEPT !.status = "expired"] \in Confirmation
        /\ [conf[id] EXCEPT !.status = "rejected"] \in Confirmation
        /\ Aged(conf[id]) \in Confirmation
    BY <2>1, StatusChange, AgedTyped DEF Statuses
  <2>3. conf' \in [Ids -> Confirmation \cup {None}]
    BY <1>4, <2>2 DEF TypeOK, ConfirmLate, Reject, CheckConfirmation
  <2> QED
    BY <1>4, <2>3 DEF TypeOK, ConfirmLate, Reject, CheckConfirmation, history
<1>5. CASE GetPending
  <2>1. conf' \in [Ids -> Confirmation \cup {None}]
    BY <1>5, AgedTyped DEF TypeOK, GetPending, Live
  <2> QED
    BY <1>5, <2>1 DEF TypeOK, GetPending, history
<1>6. CASE SwitchPersonality
  <2>1. layers' \in [Tools -> 1..MaxLayers]
    BY <1>6, NumbersAssumption DEF TypeOK, SwitchPersonality
  <2> QED
    BY <1>6, <2>1 DEF TypeOK, SwitchPersonality, history
<1>7. CASE Restart
  <2>1. layers' \in [Tools -> 1..MaxLayers]
    BY <1>7, NumbersAssumption DEF TypeOK, Restart
  <2>2. calls' \in Seq(Entry) /\ Len(calls') <= HistorySize
    BY <1>7, NumbersAssumption DEF Restart
  <2> QED
    BY <1>7, <2>1, <2>2 DEF TypeOK, Restart, history
<1>8. CASE UNCHANGED vars
  BY <1>8 DEF TypeOK, vars, history
<1> QED
  BY <1>1, <1>2, <1>3, <1>4, <1>5, <1>6, <1>7, <1>8, TypeGates DEF Next

\* Every variable of the gate keeps its type; in particular the detector's
\* history never outgrows its limit and no call is approved more often than
\* it may be.
THEOREM TypeCorrect == Spec => []TypeOK
<1>1. Init => TypeOK
  BY TypeInit
<1>2. TypeOK /\ [Next]_vars => TypeOK'
  BY TypeStep
<1> QED
  BY <1>1, <1>2, PTL DEF Spec

(***************************************************************************)
(* Approvals                                                               *)
(***************************************************************************)
\* Confirmations of c that stand approved, late ones among them.
Approved(c) ==
  {id \in Ids : conf[id] # None /\ conf[id].call = c /\ conf[id].status = "approved"}

\* Every approval given is standing, or spent, or has been taken back.
SpentWasGiven ==
  \A c \in HighCalls : spent[c] + Cardinality(Approved(c)) <= clicks[c]

\* A call beyond its first gate has spent an approval it has not run with yet.
Between(c) == current # None /\ current.call = c /\ ~current.first

RanWasSpent ==
  /\ current # None /\ current.first => current.left > 0
  /\ \A c \in HighCalls : /\ ran[c] <= spent[c]
                          /\ Between(c) => ran[c] + 1 <= spent[c]

ApprovalInv == TypeOK /\ SpentWasGiven /\ RanWasSpent

LEMMA ApprovedFinite ==
  ASSUME NEW c
  PROVE  IsFiniteSet(Approved(c)) /\ Cardinality(Approved(c)) \in Nat
<1>1. Approved(c) \in SUBSET Ids
  BY DEF Approved
<1> QED
  BY <1>1, IdsAssumption, FS_Subset, FS_CardinalityType

LEMMA ApprovedFinitePrime ==
  ASSUME NEW c
  PROVE  IsFiniteSet(Approved(c)') /\ Cardinality(Approved(c)') \in Nat
<1>1. Approved(c)' \in SUBSET Ids
  BY DEF Approved
<1> QED
  BY <1>1, IdsAssumption, FS_Subset, FS_CardinalityType

\* A step that approves nothing and spends nothing.
LEMMA ApprovalFrame ==
  ASSUME TypeOK, SpentWasGiven, UNCHANGED <<clicks, spent>>,
         \A c \in HighCalls : Approved(c)' \subseteq Approved(c)
  PROVE  SpentWasGiven'
<1> SUFFICES ASSUME NEW c \in HighCalls
             PROVE  spent'[c] + Cardinality(Approved(c)') <= clicks'[c]
  BY DEF SpentWasGiven
<1> DEFINE m == Cardinality(Approved(c))
           n == Cardinality(Approved(c)')
<1>1. m \in Nat /\ n \in Nat /\ n <= m
  BY ApprovedFinite, ApprovedFinitePrime, FS_Subset
<1>2. spent[c] \in Nat /\ clicks[c] \in Nat /\ spent[c] + m <= clicks[c]
  BY NumbersAssumption DEF TypeOK, SpentWasGiven
<1> HIDE DEF m, n
<1>3. spent'[c] + n <= clicks'[c]
  BY <1>1, <1>2
<1> QED
  BY <1>3 DEF n

LEMMA SpentStep ==
  ASSUME TypeOK, SpentWasGiven, [Next]_vars
  PROVE  SpentWasGiven'
<1>1. ASSUME UNCHANGED <<conf, clicks, spent>>
      PROVE  SpentWasGiven'
  BY <1>1, ApprovalFrame DEF Approved
<1>2. CASE GateAllowConfirmed
  <2>1. AtGate /\ High /\ current # None /\ current.call \in HighCalls
    BY <1>2, PassageTyped DEF GateAllowConfirmed, PassesChecks, AtGate
  <2>2. PICK id \in Usable(current.call) : conf' = [conf EXCEPT ![id].status = "consumed"]
    BY <1>2 DEF GateAllowConfirmed
  <2>3. /\ id \in Ids /\ conf[id] \in Confirmation /\ conf[id] # None
        /\ conf[id].call = current.call /\ conf[id].status = "approved"
    BY <2>2 DEF Usable, Live, TypeOK
  <2> DEFINE d == [conf[id] EXCEPT !.status = "consumed"]
  <2>4. d \in Confirmation /\ d.status = "consumed"
    BY <2>3, StatusChange DEF Statuses
  <2>5. conf'[id] = d /\ \A i \in Ids \ {id} : conf'[i] = conf[i]
    BY <2>2, <2>3 DEF TypeOK
  <2>6. /\ spent' = [spent EXCEPT ![current.call] = @ + 1]
        /\ clicks' = clicks
    BY <1>2 DEF GateAllowConfirmed
  <2> HIDE DEF d
  <2> SUFFICES ASSUME NEW c \in HighCalls
               PROVE  spent'[c] + Cardinality(Approved(c)') <= clicks'[c]
    BY DEF SpentWasGiven
  <2> DEFINE m == Cardinality(Approved(c))
             n == Cardinality(Approved(c)')
  <2>7. m \in Nat /\ n \in Nat
    BY ApprovedFinite, ApprovedFinitePrime
  <2>8. spent[c] \in Nat /\ clicks[c] \in Nat /\ spent[c] + m <= clicks[c]
    BY NumbersAssumption DEF TypeOK, SpentWasGiven
  <2>9. Approved(c)' \subseteq Approved(c) \ {id}
    BY <2>3, <2>4, <2>5 DEF Approved
  <2>10. CASE c = current.call
    <3>1. id \in Approved(c)
      BY <2>3, <2>10 DEF Approved
    <3>2. /\ IsFiniteSet(Approved(c) \ {id})
          /\ Cardinality(Approved(c) \ {id}) = m - 1
      BY <3>1, ApprovedFinite, FS_RemoveElement
    <3>3. n <= m - 1
      BY <2>9, <3>2, FS_Subset
    <3>4. spent'[c] = spent[c] + 1
      BY <2>1, <2>6, <2>10 DEF TypeOK
    <3> HIDE DEF m, n
    <3>5. spent'[c] + n <= clicks'[c]
      BY <2>6, <2>7, <2>8, <3>3, <3>4
    <3> QED
      BY <3>5 DEF n
  <2>11. CASE c # current.call
    <3>1. n <= m
      BY <2>9, ApprovedFinite, FS_Subset
    <3>2. spent'[c] = spent[c]
      BY <2>1, <2>6, <2>11 DEF TypeOK
    <3> HIDE DEF m, n
    <3>3. spent'[c] + n <= clicks'[c]
      BY <2>6, <2>7, <2>8, <3>1, <3>2
    <3> QED
      BY <3>3 DEF n
  <2> QED
    BY <2>10, <2>11
<1>3. CASE GateQueue
  <2>1. UNCHANGED <<clicks, spent>>
    BY <1>3 DEF GateQueue, history
  <2>2. \/ \E id \in Ids : conf' = [conf EXCEPT ![id] = [call   |-> current.call,
                                                          queued |-> clock,
                                                          status |-> "pending"]]
        \/ conf' = conf
    BY <1>3 DEF GateQueue
  <2>3. ASSUME NEW id \in Ids, conf' = [conf EXCEPT ![id] = [call   |-> current.call,
                                                            queued |-> clock,
                                                            status |-> "pending"]]
        PROVE  \A c \in HighCalls : Approved(c)' \subseteq Approved(c)
    BY <2>3 DEF TypeOK, Approved
  <2>4. ASSUME conf' = conf
        PROVE  \A c \in HighCalls : Approved(c)' \subseteq Approved(c)
    BY <2>4 DEF Approved
  <2>5. \A c \in HighCalls : Approved(c)' \subseteq Approved(c)
    BY <2>2, <2>3, <2>4
  <2> QED
    BY <2>1, <2>5, ApprovalFrame
<1>4. ASSUME NEW id \in Ids, Confirm(id)
      PROVE  SpentWasGiven'
  <2> DEFINE k == conf[id].call
             d == [conf[id] EXCEPT !.status = "approved"]
  <2>1. conf[id] \in Confirmation /\ conf[id] # None /\ k \in HighCalls
    BY <1>4 DEF TypeOK, Confirm, Live, Confirmation
  <2>2. d \in Confirmation /\ d.call = k
    BY <2>1, StatusChange DEF Statuses
  <2>3. conf'[id] = d /\ \A i \in Ids \ {id} : conf'[i] = conf[i]
    BY <1>4 DEF TypeOK, Confirm
  <2>4. /\ clicks' = [clicks EXCEPT ![k] = @ + 1]
        /\ spent' = spent
    BY <1>4 DEF Confirm
  <2> HIDE DEF d, k
  <2> SUFFICES ASSUME NEW c \in HighCalls
               PROVE  spent'[c] + Cardinality(Approved(c)') <= clicks'[c]
    BY DEF SpentWasGiven
  <2> DEFINE m == Cardinality(Approved(c))
             n == Cardinality(Approved(c)')
  <2>5. m \in Nat /\ n \in Nat
    BY ApprovedFinite, ApprovedFinitePrime
  <2>6. spent[c] \in Nat /\ clicks[c] \in Nat /\ spent[c] + m <= clicks[c]
    BY NumbersAssumption DEF TypeOK, SpentWasGiven
  <2>7. CASE c = k
    <3>1. Approved(c)' \subseteq Approved(c) \cup {id}
      BY <2>3 DEF Approved
    <3>2. /\ IsFiniteSet(Approved(c) \cup {id})
          /\ Cardinality(Approved(c) \cup {id}) = m \/ Cardinality(Approved(c) \cup {id}) = m + 1
      BY ApprovedFinite, FS_AddElement
    <3>3. Cardinality(Approved(c)') <= Cardinality(Approved(c) \cup {id})
      BY <3>1, <3>2, FS_Subset
    <3>4. n <= m + 1
      BY <2>5, <3>2, <3>3
    <3>5. clicks'[c] = clicks[c] + 1
      BY <2>1, <2>4, <2>7 DEF TypeOK
    <3> HIDE DEF m, n
    <3>6. spent'[c] + n <= clicks'[c]
      BY <2>4, <2>5, <2>6, <3>4, <3>5
    <3> QED
      BY <3>6 DEF n
  <2>8. CASE c # k
    <3>1. Approved(c)' \subseteq Approved(c)
      BY <2>2, <2>3, <2>8 DEF Approved
    <3>2. n <= m
      BY <3>1, ApprovedFinite, FS_Subset
    <3>3. clicks'[c] = clicks[c]
      BY <2>1, <2>4, <2>8 DEF TypeOK
    <3> HIDE DEF m, n
    <3>4. spent'[c] + n <= clicks'[c]
      BY <2>4, <2>5, <2>6, <3>2, <3>3
    <3> QED
      BY <3>4 DEF n
  <2> QED
    BY <2>7, <2>8
<1>5. ASSUME NEW id \in Ids, ConfirmLate(id) \/ Reject(id) \/ CheckConfirmation(id)
      PROVE  SpentWasGiven'
  <2>1. UNCHANGED <<clicks, spent>>
    BY <1>5 DEF ConfirmLate, Reject, CheckConfirmation, history
  <2>2. conf[id] \in Confirmation /\ conf[id] # None
    BY <1>5 DEF TypeOK, ConfirmLate, Reject, CheckConfirmation, Live
  <2>3. /\ [conf[id] EXCEPT !.status = "expired"].status = "expired"
        /\ [conf[id] EXCEPT !.status = "rejected"].status = "rejected"
    BY <2>2, StatusChange DEF Statuses
  <2>4. \/ conf' = [conf EXCEPT ![id] = [conf[id] EXCEPT !.status = "expired"]]
        \/ conf' = [conf EXCEPT ![id] = [conf[id] EXCEPT !.status = "rejected"]]
        \/ conf' = [conf EXCEPT ![id] = Aged(conf[id])]
    BY <1>5 DEF ConfirmLate, Reject, CheckConfirmation
  <2>5. \A i \in Ids \ {id} : conf'[i] = conf[i]
    BY <2>4 DEF TypeOK
  <2>6. conf'[id].status = "approved" => conf[id].status = "approved" /\ conf'[id].call = conf[id].call
    BY <2>2, <2>3, <2>4, AgedTyped DEF TypeOK
  <2>7. \A c \in HighCalls : Approved(c)' \subseteq Approved(c)
    BY <2>2, <2>5, <2>6 DEF Approved
  <2> QED
    BY <2>1, <2>7, ApprovalFrame
<1>6. CASE GetPending
  <2>1. UNCHANGED <<clicks, spent>>
    BY <1>6 DEF GetPending, history
  <2>2. \A i \in Ids : conf'[i] = None \/ (conf[i] # None /\ conf'[i] = Aged(conf[i]))
    BY <1>6 DEF GetPending, Live
  <2>3. \A i \in Ids : conf[i] # None => conf[i] \in Confirmation
    BY DEF TypeOK
  <2>4. \A c \in HighCalls : Approved(c)' \subseteq Approved(c)
    BY <2>2, <2>3, AgedTyped DEF Approved
  <2> QED
    BY <2>1, <2>4, ApprovalFrame
<1>7. CASE Restart
  <2>1. UNCHANGED <<clicks, spent>>
    BY <1>7 DEF Restart, history
  <2>2. \A c \in HighCalls : Approved(c)' \subseteq Approved(c)
    BY <1>7 DEF Restart, Approved
  <2> QED
    BY <2>1, <2>2, ApprovalFrame
<1>8. ASSUME \/ Tick \/ GateDenyInjection \/ GateDenyLoop \/ GateAllow \/ Run
             \/ SwitchPersonality \/ (\E call \in Calls : CallTool(call)) \/ UNCHANGED vars
      PROVE  SpentWasGiven'
  <2>1. UNCHANGED <<conf, clicks, spent>>
    BY <1>8 DEF Tick, GateDenyInjection, GateDenyLoop, GateAllow, Run,
                SwitchPersonality, CallTool, vars, history
  <2> QED
    BY <1>1, <2>1
<1> QED
  BY <1>2, <1>3, <1>4, <1>5, <1>6, <1>7, <1>8 DEF Next

\* A step that runs nothing and spends nothing, and ends the call or leaves it.
LEMMA RanFrame ==
  ASSUME RanWasSpent, UNCHANGED <<spent, ran>>, current' = None \/ current' = current
  PROVE  RanWasSpent'
BY DEF RanWasSpent, Between

LEMMA RanStep ==
  ASSUME TypeOK, RanWasSpent, [Next]_vars
  PROVE  RanWasSpent'
<1>1. ASSUME NEW call \in Calls, CallTool(call)
      PROVE  RanWasSpent'
  <2>1. /\ current' = [call |-> call, left |-> layers[ToolOf(call)], first |-> TRUE]
        /\ UNCHANGED <<spent, ran>>
    BY <1>1 DEF CallTool, history
  <2>2. layers[ToolOf(call)] > 0
    BY DEF TypeOK, Calls, ToolOf
  <2>3. \A c \in HighCalls : ~Between(c)'
    BY <2>1 DEF Between
  <2>4. current'.left > 0
    BY <2>1, <2>2
  <2> QED
    BY <2>1, <2>3, <2>4 DEF RanWasSpent
<1>2. CASE GateAllow
  <2>1. /\ AtGate /\ ~High /\ current' = NextGate
        /\ UNCHANGED <<spent, ran>>
    BY <1>2 DEF GateAllow, PassesChecks, history
  <2>2. current'.call = current.call /\ current'.first = FALSE
    BY <2>1, NextGateTyped
  <2>3. \A c \in HighCalls : ~Between(c)'
    BY <2>1, <2>2 DEF Between, High, HighCalls, ToolOf
  <2> QED
    BY <2>1, <2>2, <2>3 DEF RanWasSpent
<1>3. CASE GateAllowConfirmed
  <2>1. /\ AtGate /\ High /\ current # None /\ current.call \in HighCalls
        /\ current' = NextGate /\ ran' = ran
        /\ spent' = [spent EXCEPT ![current.call] = @ + 1]
    BY <1>3, PassageTyped DEF GateAllowConfirmed, PassesChecks, AtGate
  <2>2. current'.call = current.call /\ current'.first = FALSE
    BY <2>1, NextGateTyped
  <2>3. ASSUME NEW c \in HighCalls
        PROVE  ran'[c] <= spent'[c] /\ (Between(c)' => ran'[c] + 1 <= spent'[c])
    <3>1. ran[c] \in Nat /\ spent[c] \in Nat /\ ran[c] <= spent[c]
      BY DEF TypeOK, RanWasSpent
    <3>2. CASE c = current.call
      <4>1. spent'[c] = spent[c] + 1
        BY <2>1, <3>2 DEF TypeOK
      <4> QED
        BY <2>1, <3>1, <4>1
    <3>3. CASE c # current.call
      <4>1. spent'[c] = spent[c] /\ ~Between(c)'
        BY <2>1, <2>2, <3>3 DEF TypeOK, Between
      <4> QED
        BY <2>1, <3>1, <4>1
    <3> QED
      BY <3>2, <3>3
  <2> QED
    BY <2>2, <2>3 DEF RanWasSpent
<1>4. CASE Run
  <2>1. current # None /\ ~(current.left > 0) /\ current' = None /\ spent' = spent
    BY <1>4 DEF Run
  <2>2. ~current.first
    BY <2>1 DEF RanWasSpent
  <2>3. ASSUME NEW c \in HighCalls
        PROVE  ran'[c] <= spent'[c]
    <3>1. ran[c] \in Nat /\ spent[c] \in Nat /\ ran[c] <= spent[c]
      BY DEF TypeOK, RanWasSpent
    <3>2. CASE High /\ c = current.call
      <4>1. ran[c] + 1 <= spent[c]
        BY <2>1, <2>2, <3>2 DEF RanWasSpent, Between
      <4>2. ran'[c] = ran[c] + 1
        BY <1>4, <3>2 DEF Run, TypeOK
      <4> QED
        BY <2>1, <4>1, <4>2
    <3>3. CASE ~(High /\ c = current.call)
      <4>1. ran'[c] = ran[c]
        BY <1>4, <3>3, PassageTyped DEF Run, TypeOK
      <4> QED
        BY <2>1, <3>1, <4>1
    <3> QED
      BY <3>2, <3>3
  <2>4. \A c \in HighCalls : ~Between(c)'
    BY <2>1 DEF Between
  <2> QED
    BY <2>1, <2>3, <2>4 DEF RanWasSpent
<1>5. ASSUME \/ Tick \/ GateDenyInjection \/ GateDenyLoop \/ GateQueue
             \/ (\E id \in Ids :
                   Confirm(id) \/ ConfirmLate(id) \/ Reject(id) \/ CheckConfirmation(id))
             \/ GetPending \/ SwitchPersonality \/ Restart \/ UNCHANGED vars
      PROVE  RanWasSpent'
  <2>1. UNCHANGED <<spent, ran>> /\ (current' = None \/ current' = current)
    BY <1>5 DEF Tick, GateDenyInjection, GateDenyLoop, GateQueue, Confirm,
                ConfirmLate, Reject, CheckConfirmation, GetPending,
                SwitchPersonality, Restart, vars, history
  <2> QED
    BY <2>1, RanFrame
<1> QED
  BY <1>1, <1>2, <1>3, <1>4, <1>5 DEF Next

LEMMA ApprovalInit ==
  ASSUME Init
  PROVE  ApprovalInv
<1>1. \A c \in HighCalls : Approved(c) = {}
  BY DEF Init, Approved
<1>2. \A c \in HighCalls : spent[c] = 0 /\ clicks[c] = 0 /\ ran[c] = 0
  BY DEF Init
<1>3. SpentWasGiven
  BY <1>1, <1>2, FS_EmptySet DEF SpentWasGiven
<1>4. current = None
  BY DEF Init
<1>5. RanWasSpent
  BY <1>2, <1>4 DEF RanWasSpent, Between
<1> QED
  BY <1>3, <1>5, TypeInit DEF ApprovalInv

\* No HIGH tool is reached more often with some arguments than Rob has
\* approved it with them: ran <= spent <= clicks, the approvals still standing
\* and the one a call in its gates carries counted in between.
THEOREM RunsApproved == Spec => []RunsAreApproved
<1>1. Init => ApprovalInv
  BY ApprovalInit
<1>2. ApprovalInv /\ [Next]_vars => ApprovalInv'
  BY TypeStep, SpentStep, RanStep DEF ApprovalInv
<1>3. ApprovalInv => RunsAreApproved
  <2> SUFFICES ASSUME ApprovalInv, NEW c \in HighCalls
               PROVE  ran[c] <= clicks[c]
    BY DEF RunsAreApproved
  <2> DEFINE m == Cardinality(Approved(c))
  <2>1. m \in Nat /\ spent[c] + m <= clicks[c]
    BY ApprovedFinite DEF ApprovalInv, SpentWasGiven
  <2>2. ran[c] \in Nat /\ spent[c] \in Nat /\ clicks[c] \in Nat /\ ran[c] <= spent[c]
    BY NumbersAssumption DEF ApprovalInv, TypeOK, RanWasSpent
  <2> HIDE DEF m
  <2> QED
    BY <2>1, <2>2
<1> QED
  BY <1>1, <1>2, <1>3, PTL DEF Spec

(***************************************************************************)
(* No approval is lost                                                     *)
(***************************************************************************)
\* The HIGH calls whose tool is BOB's own, with a single gate.
Native == {c \in HighCalls : ToolOf(c) \notin McpTools}

OneGate ==
  \A c \in Native :
    /\ layers[ToolOf(c)] = 1
    /\ current # None /\ current.call = c =>
         current.left = IF current.first THEN 1 ELSE 0

\* An approval is spent before the tool is reached, and in no other step.
SpentOrCarried ==
  \A c \in Native : IF Between(c) THEN spent[c] = ran[c] + 1 ELSE spent[c] = ran[c]

CarriedInv == TypeOK /\ OneGate /\ SpentOrCarried

LEMMA NativeCalls ==
  /\ Native \subseteq HighCalls
  /\ \A c \in Native : c \in Calls /\ ToolOf(c) \in Tools \ McpTools /\ ToolOf(c) \in HighTools
BY ToolsAssumption DEF Native, HighCalls, Calls, ToolOf

LEMMA CarriedInit ==
  ASSUME Init
  PROVE  CarriedInv
<1>1. current = None
  BY DEF Init
<1>2. OneGate
  BY <1>1, NativeCalls DEF Init, OneGate
<1>3. \A c \in Native : spent[c] = 0 /\ ran[c] = 0
  BY NativeCalls DEF Init
<1>4. SpentOrCarried
  BY <1>1, <1>3 DEF SpentOrCarried, Between
<1> QED
  BY <1>2, <1>4, TypeInit DEF CarriedInv

\* A step that neither runs nor spends, and ends no call that carries an
\* approval.
LEMMA CarriedFrame ==
  ASSUME CarriedInv, UNCHANGED <<spent, ran>>,
         \A c \in Native : layers'[ToolOf(c)] = layers[ToolOf(c)],
         \/ current' = current
         \/ current' = None /\ \A c \in Native : ~Between(c)
  PROVE  OneGate' /\ SpentOrCarried'
BY DEF CarriedInv, OneGate, SpentOrCarried, Between

LEMMA CarriedStep ==
  ASSUME CarriedInv, [Next]_vars
  PROVE  OneGate' /\ SpentOrCarried'
<1>1. ASSUME NEW call \in Calls, CallTool(call)
      PROVE  OneGate' /\ SpentOrCarried'
  <2>1. /\ current = None
        /\ current' = [call |-> call, left |-> layers[ToolOf(call)], first |-> TRUE]
        /\ UNCHANGED <<layers, spent, ran>>
    BY <1>1 DEF CallTool, history
  <2>2. current'.call = call /\ current'.left = layers[ToolOf(call)] /\ current'.first
    BY <2>1
  <2>3. OneGate'
    BY <2>1, <2>2 DEF CarriedInv, OneGate
  <2>4. \A c \in Native : ~Between(c) /\ ~Between(c)'
    BY <2>1, <2>2 DEF Between
  <2> QED
    BY <2>1, <2>3, <2>4 DEF CarriedInv, SpentOrCarried
<1>2. ASSUME AtGate
      PROVE  \A c \in Native : ~Between(c)
  BY <1>2 DEF AtGate, Between, CarriedInv, OneGate
<1>3. CASE GateAllow
  <2>1. /\ AtGate /\ ~High /\ current' = NextGate
        /\ UNCHANGED <<layers, spent, ran>>
    BY <1>3 DEF GateAllow, PassesChecks, history
  <2>2. current'.call = current.call
    BY <2>1, NextGateTyped DEF CarriedInv
  <2>3. \A c \in Native : current'.call # c
    BY <2>1, <2>2, NativeCalls DEF High
  <2>4. \A c \in Native : ~Between(c) /\ ~Between(c)'
    BY <1>2, <2>1, <2>3 DEF Between
  <2> QED
    BY <2>1, <2>3, <2>4 DEF CarriedInv, OneGate, SpentOrCarried
<1>4. CASE GateAllowConfirmed
  <2>1. /\ AtGate /\ High /\ current # None /\ current.call \in HighCalls
        /\ current' = NextGate /\ UNCHANGED <<layers, ran>>
        /\ spent' = [spent EXCEPT ![current.call] = @ + 1]
    BY <1>4, PassageTyped DEF GateAllowConfirmed, PassesChecks, AtGate, CarriedInv
  <2>2. /\ current'.call = current.call /\ current'.first = FALSE
        /\ current'.left = current.left - 1 /\ current' \in Passage
    BY <2>1, NextGateTyped DEF CarriedInv
  <2>3. OneGate'
    <3> SUFFICES ASSUME NEW c \in Native, current'.call = c
                 PROVE  current'.left = 0
      BY <2>1, <2>2 DEF OneGate, CarriedInv
    <3>1. current.call = c /\ current.left > 0
      BY <2>1, <2>2 DEF AtGate
    <3>2. current.left = 1
      BY <2>1, <3>1 DEF CarriedInv, OneGate
    <3> QED
      BY <2>2, <3>2
  <2>4. ASSUME NEW c \in Native
        PROVE  IF Between(c)' THEN spent'[c] = ran'[c] + 1 ELSE spent'[c] = ran'[c]
    <3>1. c \in HighCalls /\ ran[c] \in Nat /\ spent[c] = ran[c]
      BY <1>2, <2>1, NativeCalls DEF CarriedInv, TypeOK, SpentOrCarried
    <3>2. CASE c = current.call
      <4>1. spent'[c] = ran'[c] + 1
        BY <2>1, <3>1, <3>2 DEF CarriedInv, TypeOK
      <4>2. current' # None
        BY <2>2, NoneAssumption
      <4>3. Between(c)'
        BY <2>2, <3>2, <4>2 DEF Between
      <4> QED
        BY <4>1, <4>3
    <3>3. CASE c # current.call
      <4>1. spent'[c] = ran'[c]
        BY <2>1, <3>1, <3>3 DEF CarriedInv, TypeOK
      <4>2. ~Between(c)'
        BY <2>2, <3>3 DEF Between
      <4> QED
        BY <4>1, <4>2
    <3> QED
      BY <3>2, <3>3
  <2> QED
    BY <2>3, <2>4 DEF SpentOrCarried
<1>5. CASE Run
  <2>1. /\ current # None /\ current.left = 0 /\ current' = None
        /\ UNCHANGED <<layers, spent>>
    BY <1>5 DEF Run
  <2>2. OneGate'
    BY <2>1 DEF CarriedInv, OneGate
  <2>3. ASSUME NEW c \in Native
        PROVE  spent'[c] = ran'[c]
    <3>1. c \in HighCalls /\ ToolOf(c) \in HighTools
      BY NativeCalls
    <3>2. ran[c] \in Nat
      BY <3>1 DEF CarriedInv, TypeOK
    <3>3. CASE c = current.call
      <4>1. ~current.first
        BY <2>1, <3>3 DEF CarriedInv, OneGate
      <4>2. spent[c] = ran[c] + 1
        BY <2>1, <3>3, <4>1 DEF CarriedInv, SpentOrCarried, Between
      <4>3. ran'[c] = ran[c] + 1
        BY <1>5, <3>1, <3>3 DEF Run, High, CarriedInv, TypeOK
      <4> QED
        BY <2>1, <4>2, <4>3
    <3>4. CASE c # current.call
      <4>1. spent[c] = ran[c]
        BY <3>4 DEF CarriedInv, SpentOrCarried, Between
      <4>2. ran'[c] = ran[c]
        BY <1>5, <2>1, <3>1, <3>4, PassageTyped DEF Run, CarriedInv, TypeOK
      <4> QED
        BY <2>1, <4>1, <4>2
    <3> QED
      BY <3>3, <3>4
  <2>4. \A c \in Native : ~Between(c)'
    BY <2>1 DEF Between
  <2> QED
    BY <2>2, <2>3, <2>4 DEF SpentOrCarried
<1>6. CASE GateDenyInjection \/ GateDenyLoop \/ GateQueue
  <2>1. AtGate /\ current' = None /\ UNCHANGED <<layers, spent, ran>>
    BY <1>6 DEF GateDenyInjection, GateDenyLoop, GateQueue, PassesChecks, history
  <2> QED
    BY <1>2, <2>1, CarriedFrame
<1>7. CASE SwitchPersonality \/ Restart
  <2>1. /\ current = None /\ current' = None /\ UNCHANGED <<spent, ran>>
    BY <1>7 DEF SwitchPersonality, Restart, history
  <2>2. \A c \in Native : layers'[ToolOf(c)] = layers[ToolOf(c)]
    BY <1>7, NativeCalls DEF SwitchPersonality, Restart, CarriedInv, OneGate
  <2> QED
    BY <2>1, <2>2, CarriedFrame
<1>8. CASE Tick \/ GetPending \/ UNCHANGED vars
  <2>1. UNCHANGED <<layers, current, spent, ran>>
    BY <1>8 DEF Tick, GetPending, vars, history
  <2> QED
    BY <2>1, CarriedFrame
<1>9. ASSUME NEW id \in Ids,
             Confirm(id) \/ ConfirmLate(id) \/ Reject(id) \/ CheckConfirmation(id)
      PROVE  OneGate' /\ SpentOrCarried'
  <2>1. UNCHANGED <<layers, current, spent, ran>>
    BY <1>9 DEF Confirm, ConfirmLate, Reject, CheckConfirmation, history
  <2> QED
    BY <2>1, CarriedFrame
<1> QED
  BY <1>1, <1>3, <1>4, <1>5, <1>6, <1>7, <1>8, <1>9 DEF Next

\* No approval of a call to one of BOB's own tools is used up by a call that is
\* then refused: between calls, those spent are exactly the runs.
THEOREM NoApprovalLost == Spec => []ApprovalsSpentOnRuns
<1>1. Init => CarriedInv
  BY CarriedInit
<1>2. CarriedInv /\ [Next]_vars => CarriedInv'
  BY TypeStep, CarriedStep DEF CarriedInv
<1>3. CarriedInv => ApprovalsSpentOnRuns
  BY DEF CarriedInv, SpentOrCarried, Between, ApprovalsSpentOnRuns, Native
<1> QED
  BY <1>1, <1>2, <1>3, PTL DEF Spec

(***************************************************************************)
(* Repeated calls.  The detector counts every call it has recorded, the    *)
(* gate lets one go on only below the threshold, and the call that runs is *)
(* the one recorded last, at the same time: what has run is never more     *)
(* than what was counted.                                                  *)
(***************************************************************************)
\* Of the first n calls of h, those that ran as c in the window that ends at t.
Again(h, t, c, n) == {j \in 1..n : h[j].ran /\ h[j].call = c /\ h[j].at >= t - Window}

Repeating(h) ==
  \A i \in DOMAIN h : Cardinality(Again(h, h[i].at, h[i].call, i)) < Threshold

\* So it would be for a call made now.
Quota(h) == \A c \in Calls : Cardinality(Again(h, clock, c, Len(h))) < Threshold

\* A call beyond its first gate is the last one of the history.
JustRecorded ==
  /\ calls # <<>> /\ calls[Len(calls)].call = current.call /\ calls[Len(calls)].at = clock
  /\ Cardinality(InWindow(calls, current.call)) < Threshold

BehindGate == current # None => IF current.first THEN current.left > 0 ELSE JustRecorded

LoopInv == Repeating(calls) /\ Quota(calls) /\ BehindGate

LEMMA AgainFinite ==
  ASSUME NEW h, NEW t, NEW c, NEW n \in Nat
  PROVE  IsFiniteSet(Again(h, t, c, n)) /\ Cardinality(Again(h, t, c, n)) \in Nat
<1>1. IsFiniteSet(1..n) /\ Again(h, t, c, n) \in SUBSET (1..n)
  BY FS_Interval DEF Again
<1> QED
  BY <1>1, FS_Subset, FS_CardinalityType

LEMMA InWindowFinite ==
  ASSUME NEW h \in Seq(Entry), NEW c
  PROVE  IsFiniteSet(InWindow(h, c)) /\ Cardinality(InWindow(h, c)) \in Nat
<1>1. IsFiniteSet(1..Len(h)) /\ InWindow(h, c) \in SUBSET (1..Len(h))
  BY FS_Interval DEF InWindow
<1> QED
  BY <1>1, FS_Subset, FS_CardinalityType

\* Dropping the first calls of a history counts no call twice.
LEMMA Shifted ==
  ASSUME NEW S, IsFiniteSet(S), NEW T, T \subseteq Int, NEW k \in Int,
         \A j \in T : j + k \in S
  PROVE  Cardinality(T) <= Cardinality(S)
<1> DEFINE f == [j \in T |-> j + k]
<1>1. f \in [T -> S]
  OBVIOUS
<1>2. \A i, j \in T : f[i] = f[j] => i = j
  OBVIOUS
<1>3. f \in Injection(T, S)
  BY <1>1, <1>2 DEF Injection, IsInjective
<1> QED
  BY <1>3, FS_Injection

\* What recording leaves of the history, and where.
LEMMA RecordedCalls ==
  ASSUME TypeOK, NEW p \in Passage
  PROVE  \E k \in 0..Len(calls) :
           /\ Len(Recorded(p)) = Len(calls) + 1 - k
           /\ \A i \in 1..(Len(calls) - k) : Recorded(p)[i] = calls[i + k]
           /\ Recorded(p)[Len(Recorded(p))] =
                [call |-> p.call, at |-> clock, first |-> p.first, ran |-> FALSE]
<1> DEFINE e == [call |-> p.call, at |-> clock, first |-> p.first, ran |-> FALSE]
           h == Append(calls, e)
           n == Len(calls)
<1>1. e \in Entry
  BY DEF TypeOK, Passage, Entry
<1>2. calls \in Seq(Entry) /\ n \in Nat /\ HistorySize \in Nat \ {0}
  BY NumbersAssumption DEF TypeOK
<1>3. /\ h \in Seq(Entry) /\ Len(h) = n + 1 /\ h[n + 1] = e
      /\ \A i \in 1..n : h[i] = calls[i]
  BY <1>1, <1>2, AppendProperties
<1>4. Recorded(p) = IF Len(h) > HistorySize
                      THEN SubSeq(h, Len(h) - HistorySize + 1, Len(h)) ELSE h
  BY DEF Recorded, Latest
<1> HIDE DEF h, n, e
<1>5. CASE ~(Len(h) > HistorySize)
  <2>1. Recorded(p) = h
    BY <1>4, <1>5
  <2>2. /\ Len(h) = n + 1 - 0 /\ 0 \in 0..n /\ h[Len(h)] = e
        /\ \A i \in 1..(n - 0) : h[i] = calls[i + 0]
    BY <1>2, <1>3
  <2> QED
    BY <2>1, <2>2 DEF n, e
<1>6. CASE Len(h) > HistorySize
  <2> DEFINE k == n + 1 - HistorySize
             s == SubSeq(h, k + 1, n + 1)
  <2>1. k \in 0..n /\ Recorded(p) = s /\ k + 1 \in 1..(n + 1)
    BY <1>2, <1>3, <1>4, <1>6
  <2>2. \A i \in (k + 1)..(n + 1) : h[i] \in Entry
    BY <1>2, <1>3, <2>1
  <2>3. /\ Len(s) = n + 1 - k
        /\ \A i \in 1..(n + 1 - k) : s[i] = h[k + i]
    <3> HIDE DEF k
    <3>1. k + 1 \in Int /\ n + 1 \in Int /\ k + 1 <= n + 1
      BY <1>2, <2>1
    <3>2. /\ Len(s) = IF k + 1 <= n + 1 THEN (n + 1) - (k + 1) + 1 ELSE 0
          /\ \A i \in 1..((n + 1) - (k + 1) + 1) : s[i] = h[(k + 1) + i - 1]
      BY <2>2, <3>1, SubSeqProperties
    <3> QED
      BY <1>2, <2>1, <3>1, <3>2
  <2> HIDE DEF k, s
  <2>4. /\ \A i \in 1..(n - k) : s[i] = calls[i + k]
        /\ s[Len(s)] = e
    BY <1>2, <1>3, <2>1, <2>3
  <2> QED
    BY <2>1, <2>3, <2>4 DEF n, e
<1> QED
  BY <1>5, <1>6

\* Recording a call counts nothing as run.
LEMMA RecordedKeeps ==
  ASSUME TypeOK, Repeating(calls), Quota(calls), NEW p \in Passage
  PROVE  Repeating(Recorded(p)) /\ Quota(Recorded(p))
<1> DEFINE h == Recorded(p)
           n == Len(calls)
<1>1. h \in Seq(Entry) /\ calls \in Seq(Entry) /\ p.call \in Calls /\ n \in Nat /\ Threshold \in Nat
  BY RecordedTyped, NumbersAssumption DEF TypeOK, Passage
<1>2. PICK k \in 0..n :
        /\ Len(h) = n + 1 - k
        /\ \A i \in 1..(n - k) : h[i] = calls[i + k]
        /\ h[Len(h)] = [call |-> p.call, at |-> clock, first |-> p.first, ran |-> FALSE]
  BY RecordedCalls
<1> HIDE DEF h, n
<1>3. /\ k \in Nat /\ k <= n /\ DOMAIN h = 1..(n + 1 - k)
      /\ h[n + 1 - k].call = p.call /\ h[n + 1 - k].at = clock /\ h[n + 1 - k].ran = FALSE
  BY <1>1, <1>2
\* What is counted up to the old call m was counted before.
<1>4. ASSUME NEW t, NEW c, NEW m \in 0..(n - k), NEW l \in {m, m + 1}, l = m \/ m = n - k
      PROVE  Cardinality(Again(h, t, c, l)) <= Cardinality(Again(calls, t, c, m + k))
  <2>1. m + k \in Nat
    BY <1>1, <1>3
  <2>2. ASSUME NEW j \in Again(h, t, c, l) PROVE j + k \in Again(calls, t, c, m + k)
    <3>1. j \in 1..l /\ h[j].ran /\ h[j].call = c /\ h[j].at >= t - Window
      BY DEF Again
    <3>2. j # n + 1 - k
      BY <1>3, <3>1
    <3>3. j \in 1..m /\ j \in 1..(n - k) /\ j + k \in 1..(m + k)
      BY <1>1, <1>3, <1>4, <3>1, <3>2
    <3>4. h[j] = calls[j + k]
      BY <1>2, <3>3
    <3> QED
      BY <3>1, <3>3, <3>4 DEF Again
  <2>3. Again(h, t, c, l) \subseteq Int /\ k \in Int
    BY <1>3 DEF Again
  <2> QED
    BY <2>1, <2>2, <2>3, AgainFinite, Shifted
<1>5. ASSUME NEW t, NEW c, NEW m \in 0..(n - k), NEW l \in {m, m + 1}, l = m \/ m = n - k
      PROVE  /\ Cardinality(Again(h, t, c, l)) \in Nat
             /\ Cardinality(Again(calls, t, c, m + k)) \in Nat
  BY <1>1, <1>3, AgainFinite
<1>6. ASSUME NEW c \in Calls PROVE Cardinality(Again(h, clock, c, n + 1 - k)) < Threshold
  <2>1. Cardinality(Again(calls, clock, c, n)) < Threshold
    BY DEF Quota, n
  <2>2. n - k \in 0..(n - k) /\ n + 1 - k = (n - k) + 1 /\ (n - k) + k = n
    BY <1>1, <1>3
  <2> QED
    BY <1>1, <1>4, <1>5, <2>1, <2>2
<1>7. ASSUME NEW i \in DOMAIN h PROVE Cardinality(Again(h, h[i].at, h[i].call, i)) < Threshold
  <2>1. CASE i = n + 1 - k
    BY <1>1, <1>3, <1>6, <2>1
  <2>2. CASE i # n + 1 - k
    <3>1. i \in 1..(n - k) /\ i \in 0..(n - k) /\ i + k \in 1..n /\ h[i] = calls[i + k]
      BY <1>1, <1>2, <1>3, <2>2
    <3>2. Cardinality(Again(calls, calls[i + k].at, calls[i + k].call, i + k)) < Threshold
      BY <1>1, <3>1 DEF Repeating, n
    <3> QED
      BY <1>1, <1>4, <1>5, <3>1, <3>2
  <2> QED
    BY <2>1, <2>2
<1> QED
  BY <1>2, <1>3, <1>6, <1>7 DEF Repeating, Quota, h

\* A step that neither calls a tool nor moves the clock.
LEMMA LoopFrame ==
  ASSUME LoopInv, UNCHANGED <<calls, clock>>, current' = None
  PROVE  LoopInv'
BY DEF LoopInv, Repeating, Quota, BehindGate, Again

LEMMA LoopTick ==
  ASSUME TypeOK, LoopInv, Tick
  PROVE  LoopInv'
<1>1. calls' = calls /\ clock' = clock + 1 /\ current' = None /\ clock \in Nat
  BY NumbersAssumption DEF Tick, TypeOK
<1>2. Repeating(calls)' /\ BehindGate'
  BY <1>1 DEF LoopInv, Repeating, Again, BehindGate
<1>3. ASSUME NEW c \in Calls PROVE Cardinality(Again(calls, clock + 1, c, Len(calls))) < Threshold
  <2>1. Len(calls) \in Nat /\ Threshold \in Nat /\ Window \in Nat
    BY NumbersAssumption DEF TypeOK
  <2>2. \A j \in 1..Len(calls) : calls[j] \in Entry /\ calls[j].at \in Int
    <3> SUFFICES ASSUME NEW j \in 1..Len(calls) PROVE calls[j] \in Entry
      BY NumbersAssumption DEF Entry
    <3> QED
      BY DEF TypeOK
  <2>3. Again(calls, clock + 1, c, Len(calls)) \subseteq Again(calls, clock, c, Len(calls))
    BY <1>1, <2>1, <2>2 DEF Again
  <2>4. Cardinality(Again(calls, clock + 1, c, Len(calls))) <= Cardinality(Again(calls, clock, c, Len(calls)))
    BY <2>1, <2>3, AgainFinite, FS_Subset
  <2>5. Cardinality(Again(calls, clock, c, Len(calls))) < Threshold
    BY DEF LoopInv, Quota
  <2> QED
    BY <2>1, <2>4, <2>5, AgainFinite
<1>4. Quota(calls)'
  BY <1>1, <1>3 DEF Quota, Again
<1> QED
  BY <1>2, <1>4 DEF LoopInv

\* A gate that records the call and refuses it, queues it or lets it go on.
LEMMA LoopGate ==
  ASSUME TypeOK, LoopInv, current # None, calls' = Recorded(current), clock' = clock,
         \/ current' = None
         \/ AtGate /\ current' = NextGate /\ ~Repeated(Recorded(current), current.call)
  PROVE  LoopInv'
<1>1. current \in Passage
  BY PassageTyped
<1>2. Repeating(calls') /\ Quota(calls')
  BY <1>1, RecordedKeeps DEF LoopInv
<1>3. Repeating(calls)' /\ Quota(calls)'
  BY <1>2 DEF Repeating, Quota, Again
<1>4. CASE current' = None
  BY <1>3, <1>4 DEF LoopInv, BehindGate
<1>5. CASE AtGate /\ current' = NextGate /\ ~Repeated(Recorded(current), current.call)
  <2>1. current'.call = current.call /\ current'.first = FALSE
    BY <1>5, NextGateTyped
  <2>2. calls' \in Seq(Entry) /\ Threshold \in Nat
    BY <1>1, RecordedTyped, NumbersAssumption
  <2>3. Cardinality(InWindow(calls', current.call)) < Threshold
    BY <1>5, <2>2, InWindowFinite DEF Repeated
  <2>4. InWindow(calls, current.call)' = InWindow(calls', current.call)
    BY <2>1 DEF InWindow
  <2>5. calls' # <<>> /\ calls'[Len(calls')].call = current.call /\ calls'[Len(calls')].at = clock
    <3>1. PICK k \in 0..Len(calls) :
            /\ Len(calls') = Len(calls) + 1 - k
            /\ calls'[Len(calls')] = [call |-> current.call, at |-> clock,
                                      first |-> current.first, ran |-> FALSE]
      BY <1>1, RecordedCalls
    <3>2. Len(calls') > 0 /\ Len(calls') \in Nat
      BY <2>2, <3>1 DEF TypeOK
    <3>3. calls' # <<>>
      BY <2>2, <3>2
    <3> QED
      BY <3>1, <3>3
  <2>6. JustRecorded'
    BY <2>1, <2>3, <2>4, <2>5 DEF JustRecorded
  <2> QED
    BY <1>3, <2>1, <2>6 DEF LoopInv, BehindGate
<1> QED
  BY <1>4, <1>5

\* The call that runs was counted when it was recorded.
LEMMA LoopRun ==
  ASSUME TypeOK, LoopInv, Run
  PROVE  LoopInv'
<1> DEFINE n == Len(calls)
           c0 == current.call
<1>1. /\ current # None /\ current.left = 0 /\ current' = None /\ clock' = clock
      /\ calls' = [calls EXCEPT ![n] = [calls[n] EXCEPT !.ran = TRUE]]
  BY DEF Run
<1>2. JustRecorded
  BY <1>1 DEF LoopInv, BehindGate
<1>3. /\ calls \in Seq(Entry) /\ n \in Nat /\ n > 0 /\ DOMAIN calls = 1..n
      /\ Threshold \in Nat /\ Window \in Nat
      /\ calls[n].call = c0 /\ calls[n].at = clock /\ clock \in Nat
      /\ Cardinality(InWindow(calls, c0)) < Threshold
  BY <1>2, NumbersAssumption DEF TypeOK, JustRecorded
<1>4. calls[n] \in Entry
  BY <1>3
<1> HIDE DEF n, c0
<1>5. /\ DOMAIN calls' = 1..n /\ Len(calls') = n
      /\ calls'[n].call = c0 /\ calls'[n].at = clock
      /\ \A i \in 1..n : i # n => calls'[i] = calls[i]
  <2> DEFINE e == [calls[n] EXCEPT !.ran = TRUE]
  <2>1. e.call = c0 /\ e.at = clock
    BY <1>3, <1>4 DEF Entry
  <2>2. calls' = [calls EXCEPT ![n] = e]
    BY <1>1
  <2> HIDE DEF e
  <2>3. calls'[n].call = c0 /\ calls'[n].at = clock
    BY <1>3, <2>1, <2>2
  <2>4. DOMAIN calls' = 1..n /\ Len(calls') = n
    BY <1>3, <2>2
  <2> QED
    BY <1>3, <2>2, <2>3, <2>4
<1>6. \A i \in 1..n : calls'[i].call = calls[i].call /\ calls'[i].at = calls[i].at
  BY <1>3, <1>5
<1>7. ASSUME NEW t, NEW c, NEW m \in 0..n, m # n \/ c # c0
      PROVE  Again(calls', t, c, m) = Again(calls, t, c, m)
  <2>1. ASSUME NEW j \in 1..m, calls[j].call = c \/ calls'[j].call = c
        PROVE  calls'[j] = calls[j]
    BY <1>3, <1>5, <1>6, <1>7, <2>1
  <2> QED
    BY <2>1 DEF Again
<1>8. Cardinality(Again(calls', clock, c0, n)) < Threshold
  <2>1. Again(calls', clock, c0, n) \subseteq InWindow(calls, c0)
    BY <1>3, <1>6 DEF Again, InWindow
  <2> QED
    BY <1>3, <2>1, InWindowFinite, AgainFinite, FS_Subset
<1>9. ASSUME NEW i \in 1..n
      PROVE  Cardinality(Again(calls', calls'[i].at, calls'[i].call, i)) < Threshold
  <2>1. CASE i = n
    BY <1>5, <1>8, <2>1
  <2>2. CASE i # n
    <3>1. Cardinality(Again(calls, calls[i].at, calls[i].call, i)) < Threshold
      BY <1>3 DEF LoopInv, Repeating
    <3>2. i \in 0..n
      OBVIOUS
    <3> QED
      BY <1>6, <1>7, <2>2, <3>1, <3>2
  <2> QED
    BY <2>1, <2>2
<1>10. ASSUME NEW c \in Calls PROVE Cardinality(Again(calls', clock, c, n)) < Threshold
  <2>1. Cardinality(Again(calls, clock, c, n)) < Threshold
    BY DEF LoopInv, Quota, n
  <2>2. n \in 0..n
    BY <1>3
  <2> QED
    BY <1>7, <1>8, <2>1, <2>2
<1>11. Repeating(calls') /\ \A c \in Calls : Cardinality(Again(calls', clock', c, Len(calls'))) < Threshold
  BY <1>1, <1>5, <1>9, <1>10 DEF Repeating
<1>12. Repeating(calls)' /\ Quota(calls)'
  BY <1>11 DEF Repeating, Quota, Again
<1> QED
  BY <1>1, <1>12 DEF LoopInv, BehindGate

LEMMA NothingAgain ==
  \A t, c : Len(<<>>) = 0 /\ Cardinality(Again(<<>>, t, c, 0)) < Threshold
<1>1. \A t, c : Again(<<>>, t, c, 0) = {}
  BY DEF Again
<1>2. Threshold > 0 /\ Threshold \in Nat
  BY NumbersAssumption
<1> QED
  BY <1>1, <1>2, FS_EmptySet

LEMMA LoopStep ==
  ASSUME TypeOK, LoopInv, [Next]_vars
  PROVE  LoopInv'
<1>1. CASE Tick
  BY <1>1, LoopTick
<1>2. ASSUME NEW call \in Calls, CallTool(call) PROVE LoopInv'
  <2>1. /\ UNCHANGED <<calls, clock>>
        /\ current' = [call |-> call, left |-> layers[ToolOf(call)], first |-> TRUE]
    BY <1>2 DEF CallTool
  <2>2. layers[ToolOf(call)] > 0
    BY NumbersAssumption DEF TypeOK, Calls, ToolOf
  <2>3. BehindGate'
    BY <2>1, <2>2 DEF BehindGate
  <2> QED
    BY <2>1, <2>3 DEF LoopInv, Repeating, Quota, Again
<1>3. CASE GateDenyInjection \/ SwitchPersonality \/ GetPending
  BY <1>3, LoopFrame DEF GateDenyInjection, SwitchPersonality, GetPending
<1>4. ASSUME NEW id \in Ids, Confirm(id) \/ ConfirmLate(id) \/ Reject(id) \/ CheckConfirmation(id)
      PROVE  LoopInv'
  BY <1>4, LoopFrame DEF Confirm, ConfirmLate, Reject, CheckConfirmation
<1>5. CASE GateDenyLoop \/ GateQueue
  BY <1>5, LoopGate DEF GateDenyLoop, GateQueue, PassesChecks, AtGate
<1>6. CASE GateAllow \/ GateAllowConfirmed
  BY <1>6, LoopGate DEF GateAllow, GateAllowConfirmed, PassesChecks, AtGate, Loops
<1>7. CASE Run
  BY <1>7, LoopRun
<1>8. CASE Restart
  <2>1. calls' = <<>> /\ current' = None
    BY <1>8 DEF Restart
  <2>2. Repeating(calls)' /\ Quota(calls)'
    BY <2>1, NothingAgain DEF Repeating, Quota, Again
  <2> QED
    BY <2>1, <2>2 DEF LoopInv, BehindGate
<1>9. CASE UNCHANGED vars
  BY <1>9 DEF vars, LoopInv, Repeating, Quota, Again, BehindGate, JustRecorded, InWindow
<1> QED
  BY <1>1, <1>2, <1>3, <1>4, <1>5, <1>6, <1>7, <1>8, <1>9 DEF Next

\* However often a call is wrapped, refused, confirmed or made again, fewer than
\* the threshold of those the detector remembers ran alike within one window.
THEOREM RepeatsAreBounded == Spec => []RepeatsBounded
<1>1. Init => TypeOK /\ LoopInv
  BY TypeInit, NothingAgain DEF Init, LoopInv, Repeating, Quota, BehindGate
<1>2. TypeOK /\ LoopInv /\ [Next]_vars => (TypeOK /\ LoopInv)'
  BY TypeStep, LoopStep
<1>3. LoopInv => RepeatsBounded
  BY DEF LoopInv, Repeating, Again, RepeatsBounded
<1> QED
  BY <1>1, <1>2, <1>3, PTL DEF Spec
===============================================================================
