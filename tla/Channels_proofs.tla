-------------------------- MODULE Channels_proofs --------------------------
(***************************************************************************)
(* Proofs about the ways into BOB that share no variable: the photos it    *)
(* is sent, the chat requests it admits, and a voice session.  Each        *)
(* theorem is about the specification of its own module, for any photos,   *)
(* users, requests, limits, utterances and sentences.                      *)
(***************************************************************************)
EXTENDS PhotoIntake, ChatAdmission, VoiceSession, FiniteSetTheorems,
        SequenceTheorems, TLAPS

(***************************************************************************)
(* PhotoIntake                                                             *)
(***************************************************************************)
\* A cost added to what has been spent leaves both ledgers typed.
LEMMA RecordedTyped ==
  ASSUME PhotoTypeOK, NEW u \in Users, NEW cost \in 1..MaxCost, Recorded(u, cost)
  PROVE  spent' \in [Users -> Nat] /\ month' \in Nat
BY CapsAssumption DEF PhotoTypeOK, Recorded

LEMMA FaultTyped == ASSUME PhotoTypeOK, Fault PROVE faults' \in 0..MaxFaults
BY CapsAssumption DEF PhotoTypeOK, Fault

LEMMA FlightFinite ==
  ASSUME NEW u, NEW p \in Photos
  PROVE  /\ IsFiniteSet(InFlight(u)) /\ Cardinality(InFlight(u)) \in Nat
         /\ Cardinality(InFlight(u) \cup {p}) \in Nat
<1>1. InFlight(u) \subseteq Photos /\ InFlight(u) \cup {p} \subseteq Photos
  BY DEF InFlight
<1> QED
  BY <1>1, PhotosAssumption, FS_Subset, FS_CardinalityType

LEMMA AdmitTyped ==
  ASSUME PhotoTypeOK, NEW p \in Photos, Admit(p)
  PROVE  upload' \in [Photos -> Stages] /\ peak' \in [Users -> Nat]
<1> DEFINE n == Cardinality(InFlight(sender[p]) \cup {p})
<1>1. n \in Nat
  BY FlightFinite
<1>2. /\ upload' = [upload EXCEPT ![p] = "reading"]
      /\ peak' = [peak EXCEPT ![sender[p]] = IF n > @ THEN n ELSE @]
  BY DEF Admit
<1> HIDE DEF n
<1> QED
  BY <1>1, <1>2 DEF PhotoTypeOK, Stages

\* The rows are where the column says, and a row is one of the two kinds.
LEMMA RowTyped ==
  /\ [place |-> "tmp", persisted |-> FALSE] \in Row
  /\ [place |-> "user", persisted |-> TRUE] \in Row
  /\ [place |-> "tmp", persisted |-> FALSE].persisted = FALSE
  /\ [place |-> "tmp", persisted |-> FALSE].place = "tmp"
  /\ [place |-> "user", persisted |-> TRUE].persisted = TRUE
  /\ [place |-> "user", persisted |-> TRUE].place = "user"
BY DEF Row

\* PhotoTypeOK holds of every reachable state.
THEOREM PhotoTypeCorrect == PhotoSpec => []PhotoTypeOK
<1>1. PhotoInit => PhotoTypeOK
  BY CapsAssumption DEF PhotoInit, PhotoTypeOK, Stages
<1>2. PhotoTypeOK /\ [PhotoNext]_photoVars => PhotoTypeOK'
  <2> SUFFICES ASSUME PhotoTypeOK, [PhotoNext]_photoVars PROVE PhotoTypeOK'
    OBVIOUS
  <2>1. ASSUME NEW p \in Photos, PhotoUpload(p) PROVE PhotoTypeOK'
    BY <2>1, AdmitTyped DEF PhotoUpload, Admit, PhotoTypeOK
  <2>2. ASSUME NEW p \in Photos, PhotoUploadUnseen(p) PROVE PhotoTypeOK'
    <3>1. upload' \in [Photos -> Stages] /\ peak' \in [Users -> Nat]
      BY <2>2, AdmitTyped DEF PhotoUploadUnseen
    <3>2. faults' \in 0..MaxFaults
      BY <2>2, FaultTyped DEF PhotoUploadUnseen
    <3>3. blind' \in [Users -> Nat]
      BY <2>2 DEF PhotoUploadUnseen, PhotoTypeOK
    <3> QED
      BY <2>2, <3>1, <3>2, <3>3 DEF PhotoUploadUnseen, Admit, PhotoTypeOK
  <2>3. ASSUME NEW p \in Photos, BadPhoto(p) PROVE PhotoTypeOK'
    BY <2>3 DEF BadPhoto, PhotoTypeOK, Stages
  <2>4. ASSUME NEW p \in Photos, SaveTemp(p) PROVE PhotoTypeOK'
    BY <2>4 DEF SaveTemp, PhotoTypeOK, Stages
  <2>5. ASSUME NEW p \in Photos, VisionAnswers(p) PROVE PhotoTypeOK'
    <3>1. spent' \in [Users -> Nat] /\ month' \in Nat /\ faults' \in 0..MaxFaults
      BY <2>5, RecordedTyped, FaultTyped DEF VisionAnswers, PhotoTypeOK
    <3>2. /\ photos' \in [Photos -> Row \cup {NoRow}]
          /\ \A q \in Photos : photos'[q] # NoRow =>
               (photos'[q].persisted <=> photos'[q].place = "user")
      BY <2>5, RowTyped DEF VisionAnswers, PhotoTypeOK
    <3> QED
      BY <2>5, <3>1, <3>2 DEF VisionAnswers, PhotoTypeOK, Stages
  <2>6. ASSUME NEW p \in Photos, InsertFails(p) PROVE PhotoTypeOK'
    <3>1. spent' \in [Users -> Nat] /\ month' \in Nat /\ faults' \in 0..MaxFaults
      BY <2>6, RecordedTyped, FaultTyped DEF InsertFails, PhotoTypeOK
    <3> QED
      BY <2>6, <3>1 DEF InsertFails, PhotoTypeOK, Stages
  <2>7. ASSUME NEW p \in Photos, VisionFails(p) PROVE PhotoTypeOK'
    BY <2>7, FaultTyped DEF VisionFails, PhotoTypeOK, Stages
  <2>8. ASSUME NEW p \in Photos, Purge(p) PROVE PhotoTypeOK'
    BY <2>8 DEF Purge, PhotoTypeOK
  <2>9. ASSUME NEW p \in Photos, PurgeFails(p) PROVE PhotoTypeOK'
    BY <2>9, FaultTyped DEF PurgeFails, PhotoTypeOK
  <2>18. ASSUME NEW p \in Photos, PurgeLeaves(p) PROVE PhotoTypeOK'
    BY <2>18, FaultTyped DEF PurgeLeaves, PhotoTypeOK
  <2>10. ASSUME NEW p \in Photos, RememberAgain(p) \/ RememberTooLate(p) PROVE PhotoTypeOK'
    BY <2>10 DEF RememberAgain, RememberTooLate, PhotoTypeOK
  <2>11. ASSUME NEW p \in Photos, Remember(p) PROVE PhotoTypeOK'
    <3>1. /\ photos' \in [Photos -> Row \cup {NoRow}]
          /\ \A q \in Photos : photos'[q] # NoRow =>
               (photos'[q].persisted <=> photos'[q].place = "user")
      BY <2>11, RowTyped DEF Remember, PhotoTypeOK
    <3> QED
      BY <2>11, <3>1 DEF Remember, Moved, PhotoTypeOK
  <2>12. ASSUME NEW p \in Photos, RememberFails(p) PROVE PhotoTypeOK'
    BY <2>12, FaultTyped DEF RememberFails, Moved, PhotoTypeOK
  <2>13. ASSUME NEW p \in Photos, Ask(p) PROVE PhotoTypeOK'
    BY <2>13 DEF Ask, PhotoTypeOK
  <2>14. ASSUME NEW p \in Photos, AskAnswered(p) PROVE PhotoTypeOK'
    <3>1. spent' \in [Users -> Nat] /\ month' \in Nat
      BY <2>14, RecordedTyped, UsersAssumption DEF AskAnswered, PhotoTypeOK
    <3> QED
      BY <2>14, <3>1 DEF AskAnswered, PhotoTypeOK
  <2>15. CASE Midnight
    BY <2>15, CapsAssumption DEF Midnight, PhotoTypeOK
  <2>16. CASE PhotoRestart
    BY <2>16, FaultTyped DEF PhotoRestart, PhotoTypeOK, Stages
  <2>17. CASE UNCHANGED photoVars
    BY <2>17 DEF photoVars, PhotoTypeOK
  <2> QED
    BY <2>1, <2>2, <2>3, <2>4, <2>5, <2>6, <2>7, <2>8, <2>9, <2>10, <2>11, <2>12, <2>13,
       <2>14, <2>15, <2>16, <2>17, <2>18 DEF PhotoNext
<1> QED
  BY <1>1, <1>2, PTL DEF PhotoSpec

(***************************************************************************)
(* Remembering and purging.  Between them stands what the two of them      *)
(* find: a row belongs to a finished upload, and a remembered one has its  *)
(* file where the row says and no longer in the temporary directory.       *)
(***************************************************************************)
RowsAreDone == \A p \in Photos : photos[p] # NoRow => upload[p] = "done"

RememberedIsMoved ==
  \A p \in Photos : photos[p] # NoRow /\ photos[p].persisted =>
    <<p, "user">> \in files /\ <<p, "tmp">> \notin files

KeepInv == PhotoTypeOK /\ RowsAreDone /\ RememberedIsMoved /\ RememberedIsKept /\ TempIsPurged

\* The steps that leave rows, files and promises alone, and let no upload go back.
LEMMA Untouched ==
  ASSUME KeepInv, UNCHANGED <<photos, files, timers, told, noted>>, stranded \subseteq stranded',
         \A p \in Photos : upload[p] \in {"vision", "done"} => upload'[p] = upload[p]
  PROVE  RowsAreDone' /\ RememberedIsMoved' /\ RememberedIsKept' /\ TempIsPurged'
<1>1. RowsAreDone' /\ RememberedIsMoved' /\ RememberedIsKept'
  BY DEF KeepInv, RowsAreDone, RememberedIsMoved, RememberedIsKept, PhotoTypeOK
<1>2. TempIsPurged'
  BY DEF KeepInv, TempIsPurged
<1> QED
  BY <1>1, <1>2

LEMMA UploadKeeps ==
  ASSUME KeepInv, NEW p \in Photos,
         SaveTemp(p) \/ VisionAnswers(p) \/ InsertFails(p) \/ VisionFails(p)
  PROVE  RowsAreDone' /\ RememberedIsMoved' /\ RememberedIsKept' /\ TempIsPurged'
<1> USE DEF KeepInv
<1>1. CASE SaveTemp(p)
  <2>1. photos[p] = NoRow
    BY <1>1 DEF SaveTemp, RowsAreDone
  <2>2. RowsAreDone' /\ RememberedIsMoved'
    BY <1>1, <2>1 DEF SaveTemp, RowsAreDone, RememberedIsMoved, PhotoTypeOK
  <2>3. RememberedIsKept' /\ TempIsPurged'
    BY <1>1 DEF SaveTemp, RememberedIsKept, TempIsPurged, PhotoTypeOK
  <2> QED
    BY <2>2, <2>3
<1>2. CASE VisionAnswers(p)
  <2>1. photos[p] = NoRow /\ p \notin told \cup noted
    BY <1>2, NoRowAssumption, RowTyped DEF VisionAnswers, RowsAreDone, RememberedIsKept
  <2>2. RowsAreDone' /\ RememberedIsMoved'
    BY <1>2, <2>1, RowTyped DEF VisionAnswers, RowsAreDone, RememberedIsMoved, PhotoTypeOK
  <2>3. RememberedIsKept'
    BY <1>2, <2>1 DEF VisionAnswers, RememberedIsKept, PhotoTypeOK
  <2>4. TempIsPurged'
    BY <1>2, NoRowAssumption, RowTyped DEF VisionAnswers, TempIsPurged, PhotoTypeOK
  <2> QED
    BY <2>2, <2>3, <2>4
<1>3. CASE InsertFails(p)
  <2>1. RowsAreDone' /\ RememberedIsMoved' /\ RememberedIsKept'
    BY <1>3 DEF InsertFails, RowsAreDone, RememberedIsMoved, RememberedIsKept, PhotoTypeOK
  <2>2. TempIsPurged'
    BY <1>3 DEF InsertFails, TempIsPurged, PhotoTypeOK
  <2> QED
    BY <2>1, <2>2
<1>4. CASE VisionFails(p)
  <2>1. RowsAreDone' /\ RememberedIsMoved' /\ RememberedIsKept'
    BY <1>4 DEF VisionFails, RowsAreDone, RememberedIsMoved, RememberedIsKept, PhotoTypeOK
  <2>2. TempIsPurged'
    BY <1>4 DEF VisionFails, TempIsPurged, PhotoTypeOK
  <2> QED
    BY <2>1, <2>2
<1> QED
  BY <1>1, <1>2, <1>3, <1>4

LEMMA PurgeKeeps ==
  ASSUME KeepInv, NEW p \in Photos, Purge(p) \/ PurgeLeaves(p) \/ PurgeFails(p)
  PROVE  RowsAreDone' /\ RememberedIsMoved' /\ RememberedIsKept' /\ TempIsPurged'
<1> USE DEF KeepInv
<1>1. CASE Purge(p) /\ (photos[p] = NoRow \/ photos[p].persisted)
  BY <1>1 DEF Purge, RowsAreDone, RememberedIsMoved, RememberedIsKept, TempIsPurged
<1>2. CASE photos[p] # NoRow /\ ~photos[p].persisted
  <2>1. photos[p].place = "tmp"
    BY <1>2 DEF PhotoTypeOK, Row
  <2>2. p \notin told \cup noted
    BY <1>2, RowTyped DEF RememberedIsKept
  <2>3. CASE Purge(p)
    <3>1. /\ photos' = [photos EXCEPT ![p] = NoRow]
          /\ files' = files \ {<<p, "tmp">>} /\ timers' = timers \ {p}
          /\ UNCHANGED <<upload, told, noted, stranded>>
      BY <1>2, <2>1, <2>3 DEF Purge
    <3>2. RowsAreDone' /\ RememberedIsMoved'
      BY <3>1 DEF RowsAreDone, RememberedIsMoved, PhotoTypeOK
    <3>3. RememberedIsKept'
      BY <2>2, <3>1 DEF RememberedIsKept, PhotoTypeOK
    <3>4. TempIsPurged'
      BY <3>1 DEF TempIsPurged, PhotoTypeOK
    <3> QED
      BY <3>2, <3>3, <3>4
  <2>4. CASE PurgeFails(p)
    <3>1. /\ files' = files \/ files' = files \ {<<p, "tmp">>}
          /\ timers' = timers \ {p} /\ stranded' = stranded \cup {p}
          /\ UNCHANGED <<photos, upload, told, noted>>
      BY <2>1, <2>4 DEF PurgeFails
    <3> QED
      BY <3>1 DEF RowsAreDone, RememberedIsMoved, RememberedIsKept, TempIsPurged
  <2>5. CASE PurgeLeaves(p)
    <3>1. /\ photos' = [photos EXCEPT ![p] = NoRow] /\ stranded' = stranded \cup {p}
          /\ timers' = timers \ {p} /\ UNCHANGED <<files, upload, told, noted>>
      BY <2>5 DEF PurgeLeaves
    <3>2. RowsAreDone' /\ RememberedIsMoved'
      BY <3>1 DEF RowsAreDone, RememberedIsMoved, PhotoTypeOK
    <3>3. RememberedIsKept'
      BY <2>2, <3>1 DEF RememberedIsKept, PhotoTypeOK
    <3>4. TempIsPurged'
      BY <3>1 DEF TempIsPurged, PhotoTypeOK
    <3> QED
      BY <3>2, <3>3, <3>4
  <2> QED
    BY <2>3, <2>4, <2>5
<1>3. CASE PurgeFails(p) /\ (photos[p] = NoRow \/ photos[p].persisted)
  BY <1>3 DEF PurgeFails, RowsAreDone, RememberedIsMoved, RememberedIsKept, TempIsPurged
<1> QED
  BY <1>1, <1>2, <1>3 DEF PurgeLeaves

LEMMA RememberKeeps ==
  ASSUME KeepInv, NEW p \in Photos,
         RememberAgain(p) \/ RememberTooLate(p) \/ Remember(p) \/ RememberFails(p)
  PROVE  RowsAreDone' /\ RememberedIsMoved' /\ RememberedIsKept' /\ TempIsPurged'
<1> USE DEF KeepInv
<1>1. CASE RememberAgain(p)
  <2>1. photos[p] = [place |-> "user", persisted |-> TRUE]
    BY <1>1 DEF RememberAgain, PhotoTypeOK, Row
  <2> QED
    BY <1>1, <2>1
    DEF RememberAgain, RowsAreDone, RememberedIsMoved, RememberedIsKept, TempIsPurged
<1>2. CASE photos[p] # NoRow /\ ~photos[p].persisted
  <2>1. photos[p].place = "tmp" /\ upload[p] = "done"
    BY <1>2 DEF PhotoTypeOK, Row, RowsAreDone
  <2>2. p \notin told \cup noted
    BY <1>2, RowTyped DEF RememberedIsKept
  <2>3. CASE RememberTooLate(p)
    <3>1. /\ photos' = [photos EXCEPT ![p] = NoRow] /\ <<p, "tmp">> \notin files
          /\ UNCHANGED <<files, timers, upload, told, noted, stranded>>
      BY <2>1, <2>3 DEF RememberTooLate
    <3>2. RowsAreDone' /\ RememberedIsMoved'
      BY <3>1 DEF RowsAreDone, RememberedIsMoved, PhotoTypeOK
    <3>3. RememberedIsKept' /\ TempIsPurged'
      BY <2>2, <3>1 DEF RememberedIsKept, TempIsPurged, PhotoTypeOK
    <3> QED
      BY <3>2, <3>3
  <2>4. CASE Remember(p)
    <3>1. /\ photos' = [photos EXCEPT ![p] = [place |-> "user", persisted |-> TRUE]]
          /\ files' = Moved(p) /\ told' = told \cup {p} /\ noted' \subseteq noted \cup {p}
          /\ UNCHANGED <<timers, upload, stranded>>
      BY <2>4 DEF Remember
    <3>2. RowsAreDone' /\ RememberedIsMoved'
      BY <2>1, <3>1, RowTyped DEF Moved, RowsAreDone, RememberedIsMoved, PhotoTypeOK
    <3>3. RememberedIsKept'
      BY <3>1 DEF Moved, RememberedIsKept, PhotoTypeOK
    <3>4. TempIsPurged'
      BY <3>1 DEF Moved, TempIsPurged, PhotoTypeOK
    <3> QED
      BY <3>2, <3>3, <3>4
  <2>5. CASE RememberFails(p)
    <3>1. files' = Moved(p) /\ UNCHANGED <<photos, timers, upload, told, noted, stranded>>
      BY <2>5 DEF RememberFails
    <3> QED
      BY <2>1, <2>2, <3>1
      DEF Moved, RowsAreDone, RememberedIsMoved, RememberedIsKept, TempIsPurged
  <2> QED
    BY <1>2, <2>3, <2>4, <2>5 DEF RememberAgain
<1> QED
  BY <1>1, <1>2 DEF RememberTooLate, Remember, RememberFails

LEMMA RestartKeeps ==
  ASSUME KeepInv, PhotoRestart
  PROVE  RowsAreDone' /\ RememberedIsMoved' /\ RememberedIsKept' /\ TempIsPurged'
<1>1. RowsAreDone' /\ RememberedIsMoved' /\ RememberedIsKept'
  BY DEF PhotoRestart, KeepInv, RowsAreDone, RememberedIsMoved, RememberedIsKept, PhotoTypeOK
<1>2. TempIsPurged'
  BY DEF PhotoRestart, TempIsPurged
<1> QED
  BY <1>1, <1>2

LEMMA KeepInvariant == PhotoSpec => []KeepInv
<1>1. PhotoInit => RowsAreDone /\ RememberedIsMoved /\ RememberedIsKept /\ TempIsPurged
  BY DEF PhotoInit, RowsAreDone, RememberedIsMoved, RememberedIsKept, TempIsPurged
<1>2. /\ PhotoTypeOK /\ PhotoTypeOK'
      /\ RowsAreDone /\ RememberedIsMoved /\ RememberedIsKept /\ TempIsPurged
      /\ [PhotoNext]_photoVars
      => RowsAreDone' /\ RememberedIsMoved' /\ RememberedIsKept' /\ TempIsPurged'
  <2> SUFFICES ASSUME KeepInv, [PhotoNext]_photoVars
               PROVE  RowsAreDone' /\ RememberedIsMoved' /\ RememberedIsKept' /\ TempIsPurged'
    BY DEF KeepInv
  <2>1. ASSUME NEW p \in Photos, PhotoUpload(p) \/ PhotoUploadUnseen(p) \/ BadPhoto(p)
        PROVE  RowsAreDone' /\ RememberedIsMoved' /\ RememberedIsKept' /\ TempIsPurged'
    <3>1. UNCHANGED <<photos, files, timers, told, noted, stranded>>
      BY <2>1 DEF PhotoUpload, PhotoUploadUnseen, BadPhoto, Admit
    <3>2. upload[p] \notin {"vision", "done"} /\ \E x : upload' = [upload EXCEPT ![p] = x]
      BY <2>1 DEF PhotoUpload, PhotoUploadUnseen, BadPhoto, Admit
    <3>3. \A q \in Photos : upload[q] \in {"vision", "done"} => upload'[q] = upload[q]
      BY <3>2 DEF KeepInv, PhotoTypeOK
    <3> QED
      BY <3>1, <3>3, Untouched
  <2>2. ASSUME NEW p \in Photos, Ask(p) \/ AskAnswered(p)
        PROVE  UNCHANGED <<photos, files, timers, told, noted, stranded, upload>>
    BY <2>2 DEF Ask, AskAnswered
  <2>3. CASE Midnight \/ UNCHANGED photoVars
    BY <2>3, Untouched DEF Midnight, photoVars
  <2> QED
    BY <2>1, <2>2, <2>3, Untouched, UploadKeeps, PurgeKeeps, RememberKeeps, RestartKeeps
    DEF PhotoNext
<1> QED
  BY <1>1, <1>2, PhotoTypeCorrect, PTL DEF PhotoSpec, KeepInv

\* A photo the user was told is remembered keeps its row and its file.
THEOREM RememberedPhotosAreKept == PhotoSpec => []RememberedIsKept
<1>1. KeepInv => RememberedIsKept
  BY DEF KeepInv
<1> QED
  BY <1>1, KeepInvariant, PTL

\* A temporary file has someone who will remove it, unless a restart, a failing
\* statement or an unlink that raises has taken that away.
THEOREM TemporaryFilesArePurged == PhotoSpec => []TempIsPurged
<1>1. KeepInv => TempIsPurged
  BY DEF KeepInv
<1> QED
  BY <1>1, KeepInvariant, PTL

(***************************************************************************)
(* The budget.  An upload in flight may still cost MaxCost, so it counts   *)
(* as if it had: then what a user has spent grows only when an upload is   *)
(* admitted, and a check admits it while less than the cap has been spent. *)
(***************************************************************************)
Flight(u) == Cardinality(InFlight(u))

Within(u) == spent[u] + MaxCost * Flight(u) < VisionCap + MaxCost * (peak[u] + blind[u])

SpendInv ==
  /\ \A u \in Users : Flight(u) <= peak[u]
  /\ \A u \in Users \ (Bypass \cup {Rob}) : VisionCap > 0 => Within(u)

\* An admission adds the upload to its sender's, and the peak follows.
LEMMA Admitted ==
  ASSUME PhotoTypeOK, SpendInv, NEW p \in Photos, upload[p] = "none", Admit(p), NEW u \in Users
  PROVE  /\ Flight(u)' \in Nat /\ Flight(u)' <= peak'[u] /\ peak[u] <= peak'[u]
         /\ Flight(u)' <= Flight(u) + 1
         /\ u # sender[p] => Flight(u)' = Flight(u)
<1> DEFINE n == Cardinality(InFlight(sender[p]) \cup {p})
<1>1. /\ upload' = [upload EXCEPT ![p] = "reading"]
      /\ peak' = [peak EXCEPT ![sender[p]] = IF n > @ THEN n ELSE @] /\ sender' = sender
  BY DEF Admit
<1>2. IsFiniteSet(InFlight(u)) /\ Flight(u) \in Nat /\ n \in Nat /\ Flight(u) <= peak[u]
  BY FlightFinite DEF Flight, SpendInv
<1>3. CASE u # sender[p]
  <2>1. InFlight(u)' = InFlight(u) /\ peak'[u] = peak[u]
    BY <1>1, <1>3 DEF InFlight, PhotoTypeOK
  <2> QED
    BY <1>2, <2>1 DEF Flight, PhotoTypeOK
<1>4. CASE u = sender[p]
  <2>1. InFlight(u)' = InFlight(u) \cup {p} /\ p \notin InFlight(u)
    BY <1>1, <1>4 DEF InFlight, PhotoTypeOK
  <2>2. Flight(u)' = n /\ n = Flight(u) + 1
    BY <1>2, <1>4, <2>1, FS_AddElement DEF Flight
  <2>3. peak[u] \in Nat /\ peak'[u] = IF n > peak[u] THEN n ELSE peak[u]
    BY <1>1, <1>4 DEF PhotoTypeOK
  <2> HIDE DEF n
  <2> QED
    BY <1>2, <1>4, <2>2, <2>3
<1> QED
  BY <1>3, <1>4

\* An upload that ends leaves its sender's.
LEMMA Landed ==
  ASSUME PhotoTypeOK, NEW p \in Photos, upload[p] \in {"reading", "vision"},
         NEW x \in {"done", "failed"}, upload' = [upload EXCEPT ![p] = x], sender' = sender,
         NEW u \in Users
  PROVE  /\ Flight(u) \in Nat /\ Flight(u)' \in Nat
         /\ u = sender[p] => Flight(u)' + 1 = Flight(u)
         /\ u # sender[p] => Flight(u)' = Flight(u)
<1>1. IsFiniteSet(InFlight(u)) /\ Flight(u) \in Nat
  BY FlightFinite DEF Flight
<1>2. CASE u # sender[p]
  <2>1. InFlight(u)' = InFlight(u)
    BY <1>2 DEF InFlight, PhotoTypeOK
  <2> QED
    BY <1>1, <1>2, <2>1 DEF Flight
<1>3. CASE u = sender[p]
  <2>1. InFlight(u)' = InFlight(u) \ {p} /\ p \in InFlight(u)
    BY <1>3 DEF InFlight, PhotoTypeOK
  <2>2. Flight(u)' = Flight(u) - 1 /\ IsFiniteSet(InFlight(u)')
    BY <1>1, <2>1, FS_RemoveElement DEF Flight
  <2>3. Flight(u)' \in Nat
    BY <2>2, FS_CardinalityType DEF Flight
  <2> QED
    BY <1>1, <1>3, <2>2, <2>3
<1> QED
  BY <1>2, <1>3

\* A step about a user's numbers keeps the invariant for the user.
UserInv(u) == Flight(u) <= peak[u] /\ (u \notin Bypass \cup {Rob} /\ VisionCap > 0 => Within(u))

LEMMA UserStep ==
  ASSUME PhotoTypeOK, PhotoTypeOK', NEW u \in Users, UserInv(u), Flight(u)' \in Nat,
         peak[u] <= peak'[u], Flight(u)' <= peak'[u],
         u \notin Bypass \cup {Rob} /\ VisionCap > 0 =>
           \/ spent'[u] < VisionCap /\ blind'[u] = blind[u]
           \/ spent'[u] <= spent[u] /\ Flight(u)' <= Flight(u) + 1 /\ blind'[u] = blind[u] + 1
           \/ spent'[u] <= spent[u] /\ Flight(u)' <= Flight(u) /\ blind'[u] = blind[u]
           \/ spent'[u] <= spent[u] + MaxCost /\ Flight(u)' + 1 = Flight(u) /\ blind'[u] = blind[u]
  PROVE  UserInv(u)'
<1>1. /\ spent[u] \in Nat /\ spent'[u] \in Nat /\ peak[u] \in Nat /\ peak'[u] \in Nat
      /\ blind[u] \in Nat /\ blind'[u] \in Nat
  BY DEF PhotoTypeOK
<1>2. Flight(u) \in Nat
  <2>1. InFlight(u) \subseteq Photos
    BY DEF InFlight
  <2> QED
    BY <2>1, PhotosAssumption, FS_Subset, FS_CardinalityType DEF Flight
<1>3. u \notin Bypass \cup {Rob} /\ VisionCap > 0 => Within(u)'
  <2> SUFFICES ASSUME u \notin Bypass \cup {Rob}, VisionCap > 0 PROVE Within(u)'
    OBVIOUS
  <2> DEFINE s == spent[u]
             s2 == spent'[u]
             f == Flight(u)
             f2 == Flight(u)'
             k == peak[u]
             k2 == peak'[u]
             b == blind[u]
             b2 == blind'[u]
  <2>1. /\ s \in Nat /\ s2 \in Nat /\ f \in Nat /\ f2 \in Nat
        /\ k \in Nat /\ k2 \in Nat /\ b \in Nat /\ b2 \in Nat
        /\ k <= k2 /\ f2 <= k2
    BY <1>1, <1>2
  <2>2. s + MaxCost * f < VisionCap + MaxCost * (k + b)
    BY DEF UserInv, Within
  <2>3. \/ s2 < VisionCap /\ b2 = b
        \/ s2 <= s /\ f2 <= f + 1 /\ b2 = b + 1
        \/ s2 <= s /\ f2 <= f /\ b2 = b
        \/ s2 <= s + MaxCost /\ f2 + 1 = f /\ b2 = b
    OBVIOUS
  <2>4. Within(u)' <=> s2 + MaxCost * f2 < VisionCap + MaxCost * (k2 + b2)
    BY DEF Within
  <2> HIDE DEF s, s2, f, f2, k, k2, b, b2
  <2>5. s2 + MaxCost * f2 < VisionCap + MaxCost * (k2 + b2)
    <3> USE CapsAssumption
    <3>1. /\ MaxCost * f2 <= MaxCost * k2 /\ MaxCost * k <= MaxCost * k2
          /\ MaxCost * (k2 + b2) = MaxCost * k2 + MaxCost * b2
          /\ MaxCost * (k + b) = MaxCost * k + MaxCost * b
          /\ MaxCost * b \in Nat /\ MaxCost * b2 \in Nat /\ MaxCost * k \in Nat
          /\ MaxCost * k2 \in Nat /\ MaxCost * f \in Nat /\ MaxCost * f2 \in Nat
      BY <2>1
    <3>2. CASE s2 < VisionCap /\ b2 = b
      BY <2>1, <3>1, <3>2
    <3>3. CASE s2 <= s /\ f2 <= f + 1 /\ b2 = b + 1
      <4>1. MaxCost * f2 <= MaxCost * f + MaxCost /\ MaxCost * b2 = MaxCost * b + MaxCost
        BY <2>1, <3>3
      <4> QED
        BY <2>1, <2>2, <3>1, <3>3, <4>1
    <3>4. CASE s2 <= s /\ f2 <= f /\ b2 = b
      <4>1. MaxCost * f2 <= MaxCost * f
        BY <2>1, <3>4
      <4> QED
        BY <2>1, <2>2, <3>1, <3>4, <4>1
    <3>5. CASE s2 <= s + MaxCost /\ f2 + 1 = f /\ b2 = b
      <4>1. MaxCost * f2 + MaxCost = MaxCost * f
        BY <2>1, <3>5
      <4> QED
        BY <2>1, <2>2, <3>1, <3>5, <4>1
    <3> QED
      BY <2>3, <3>2, <3>3, <3>4, <3>5
  <2> QED
    BY <2>4, <2>5
<1> QED
  BY <1>3 DEF UserInv

\* A step that leaves a user's uploads alone and adds nothing to what the user has spent.
LEMMA UserStill ==
  ASSUME PhotoTypeOK, PhotoTypeOK', NEW u \in Users, UserInv(u),
         InFlight(u)' \subseteq InFlight(u), peak' = peak, blind' = blind,
         u # Rob => spent'[u] <= spent[u]
  PROVE  UserInv(u)'
<1>1. InFlight(u) \subseteq Photos
  BY DEF InFlight
<1>2. IsFiniteSet(InFlight(u)) /\ Flight(u) \in Nat
  BY <1>1, PhotosAssumption, FS_Subset, FS_CardinalityType DEF Flight
<1>3. Flight(u)' \in Nat /\ Flight(u)' <= Flight(u)
  BY <1>2, FS_Subset, FS_CardinalityType DEF Flight
<1>4. peak[u] \in Nat /\ blind[u] \in Nat
  BY DEF PhotoTypeOK
<1>5. Flight(u)' <= peak'[u] /\ peak[u] <= peak'[u] /\ blind'[u] = blind[u]
  BY <1>2, <1>3, <1>4 DEF UserInv
<1> QED
  BY <1>3, <1>5, UserStep

LEMMA UploadStep ==
  ASSUME PhotoTypeOK, PhotoTypeOK', SpendInv, NEW p \in Photos,
         PhotoUpload(p) \/ PhotoUploadUnseen(p), NEW u \in Users, UserInv(u)
  PROVE  UserInv(u)'
<1>1. upload[p] = "none" /\ Admit(p) /\ spent' = spent
  BY DEF PhotoUpload, PhotoUploadUnseen, Admit
<1>2. /\ Flight(u)' \in Nat /\ Flight(u)' <= peak'[u] /\ peak[u] <= peak'[u]
      /\ Flight(u)' <= Flight(u) + 1 /\ (u # sender[p] => Flight(u)' = Flight(u))
  BY <1>1, Admitted
<1>3. spent[u] \in Nat /\ sender[p] \in Users /\ blind[u] \in Nat
  BY DEF PhotoTypeOK
<1>4. CASE u # sender[p]
  <2>1. blind'[u] = blind[u]
    BY <1>4 DEF PhotoUpload, PhotoUploadUnseen, PhotoTypeOK
  <2>2. Flight(u)' <= Flight(u) /\ spent'[u] <= spent[u]
    BY <1>1, <1>2, <1>3, <1>4
  <2> QED
    BY <1>2, <2>1, <2>2, UserStep
<1>5. CASE u = sender[p] /\ PhotoUpload(p)
  <2>1. blind'[u] = blind[u]
    BY <1>5 DEF PhotoUpload
  <2>2. u \notin Bypass \cup {Rob} /\ VisionCap > 0 => spent'[u] < VisionCap
    BY <1>1, <1>3, <1>5, CapsAssumption DEF PhotoUpload, WithinVision, Over
  <2> QED
    BY <1>2, <2>1, <2>2, UserStep
<1>6. CASE u = sender[p] /\ PhotoUploadUnseen(p)
  <2>1. blind'[u] = blind[u] + 1 /\ spent'[u] <= spent[u]
    BY <1>1, <1>3, <1>6 DEF PhotoUploadUnseen, PhotoTypeOK
  <2> QED
    BY <1>2, <2>1, UserStep
<1> QED
  BY <1>4, <1>5, <1>6

LEMMA EndStep ==
  ASSUME PhotoTypeOK, PhotoTypeOK', NEW p \in Photos,
         VisionAnswers(p) \/ InsertFails(p) \/ BadPhoto(p) \/ VisionFails(p),
         NEW u \in Users, UserInv(u)
  PROVE  UserInv(u)'
<1> USE CapsAssumption
<1>1. /\ upload[p] \in {"reading", "vision"} /\ sender' = sender /\ peak' = peak /\ blind' = blind
      /\ upload' = [upload EXCEPT ![p] = "done"] \/ upload' = [upload EXCEPT ![p] = "failed"]
      /\ \/ \E cost \in 1..MaxCost : spent' = [spent EXCEPT ![sender[p]] = @ + cost]
         \/ spent' = spent
  BY DEF VisionAnswers, InsertFails, BadPhoto, VisionFails, Recorded
<1>2. /\ Flight(u) \in Nat /\ Flight(u)' \in Nat
      /\ u = sender[p] => Flight(u)' + 1 = Flight(u)
      /\ u # sender[p] => Flight(u)' = Flight(u)
  BY <1>1, Landed
<1>3. spent[u] \in Nat /\ peak[u] \in Nat /\ MaxCost \in Nat
  BY DEF PhotoTypeOK
<1>4. Flight(u)' <= peak'[u] /\ peak[u] <= peak'[u] /\ blind'[u] = blind[u]
  BY <1>1, <1>2, <1>3 DEF UserInv
<1>5. CASE u = sender[p]
  <2>1. spent'[u] <= spent[u] + MaxCost
    BY <1>1, <1>3, <1>5 DEF PhotoTypeOK
  <2> QED
    BY <1>2, <1>4, <1>5, <2>1, UserStep
<1>6. CASE u # sender[p]
  <2>1. spent'[u] <= spent[u]
    BY <1>1, <1>3, <1>6 DEF PhotoTypeOK
  <2> QED
    BY <1>2, <1>4, <1>6, <2>1, UserStep
<1> QED
  BY <1>5, <1>6

\* OvershootBounded of PhotoIntake holds of every reachable state: what a member
\* spends on vision stays below the cap plus what the uploads that overlapped
\* most, and those a failing query has let through, can cost.  SpendInv is why:
\* it counts an upload in flight as if its cost had been recorded.
THEOREM OvershootIsBounded == PhotoSpec => []OvershootBounded
<1>1. PhotoInit => SpendInv
  <2> SUFFICES ASSUME PhotoInit PROVE SpendInv
    OBVIOUS
  <2>1. ASSUME NEW u \in Users
        PROVE  Flight(u) = 0 /\ peak[u] = 0 /\ spent[u] = 0 /\ blind[u] = 0
    <3>1. InFlight(u) = {}
      BY DEF PhotoInit, InFlight
    <3> QED
      BY <3>1, FS_EmptySet DEF PhotoInit, Flight
  <2>2. ASSUME NEW u \in Users, VisionCap > 0 PROVE Within(u)
    BY <2>1, <2>2, CapsAssumption DEF Within
  <2> QED
    BY <2>1, <2>2 DEF SpendInv
<1>2. PhotoTypeOK /\ PhotoTypeOK' /\ SpendInv /\ [PhotoNext]_photoVars => SpendInv'
  <2> SUFFICES ASSUME PhotoTypeOK, PhotoTypeOK', SpendInv, [PhotoNext]_photoVars,
                      NEW u \in Users
               PROVE  UserInv(u)'
    BY DEF SpendInv, UserInv
  <2>1. UserInv(u)
    BY DEF SpendInv, UserInv
  <2>2. ASSUME NEW p \in Photos, PhotoUpload(p) \/ PhotoUploadUnseen(p) PROVE UserInv(u)'
    BY <2>1, <2>2, UploadStep
  <2>3. ASSUME NEW p \in Photos,
               VisionAnswers(p) \/ InsertFails(p) \/ BadPhoto(p) \/ VisionFails(p)
        PROVE  UserInv(u)'
    BY <2>1, <2>3, EndStep
  <2>4. ASSUME InFlight(u)' \subseteq InFlight(u), peak' = peak, blind' = blind, spent' = spent
        PROVE  UserInv(u)'
    <3>1. spent'[u] <= spent[u]
      BY <2>4 DEF PhotoTypeOK
    <3> QED
      BY <2>1, <2>4, <3>1, UserStill
  <2>5. ASSUME NEW p \in Photos, SaveTemp(p) PROVE UserInv(u)'
    <3>1. InFlight(u)' \subseteq InFlight(u)
      BY <2>5 DEF SaveTemp, InFlight, PhotoTypeOK
    <3> QED
      BY <2>4, <2>5, <3>1 DEF SaveTemp
  <2>6. ASSUME upload' = upload, sender' = sender PROVE InFlight(u)' \subseteq InFlight(u)
    BY <2>6 DEF InFlight
  <2>7. ASSUME NEW p \in Photos,
               \/ Purge(p) \/ PurgeLeaves(p) \/ PurgeFails(p)
               \/ RememberAgain(p) \/ RememberTooLate(p)
               \/ Remember(p) \/ RememberFails(p) \/ Ask(p)
        PROVE  UserInv(u)'
    BY <2>4, <2>6, <2>7
    DEF Purge, PurgeLeaves, PurgeFails, RememberAgain, RememberTooLate, Remember,
        RememberFails, Ask
  <2>8. ASSUME NEW p \in Photos, AskAnswered(p) PROVE UserInv(u)'
    <3>1. u # Rob => spent'[u] <= spent[u]
      BY <2>8, UsersAssumption DEF AskAnswered, Recorded, PhotoTypeOK
    <3>2. InFlight(u)' \subseteq InFlight(u) /\ peak' = peak /\ blind' = blind
      BY <2>6, <2>8 DEF AskAnswered
    <3> QED
      BY <2>1, <3>1, <3>2, UserStill
  <2>9. CASE Midnight
    <3>1. spent'[u] <= spent[u]
      BY <2>9 DEF Midnight, PhotoTypeOK
    <3>2. InFlight(u)' \subseteq InFlight(u) /\ peak' = peak /\ blind' = blind
      BY <2>6, <2>9 DEF Midnight
    <3> QED
      BY <2>1, <3>1, <3>2, UserStill
  <2>10. CASE PhotoRestart
    <3>1. InFlight(u)' \subseteq InFlight(u)
      BY <2>10 DEF PhotoRestart, InFlight
    <3> QED
      BY <2>4, <2>10, <3>1 DEF PhotoRestart
  <2>11. CASE UNCHANGED photoVars
    BY <2>4, <2>6, <2>11 DEF photoVars
  <2> QED
    BY <2>2, <2>3, <2>5, <2>7, <2>8, <2>9, <2>10, <2>11 DEF PhotoNext
<1>3. PhotoTypeOK /\ SpendInv => OvershootBounded
  <2> SUFFICES ASSUME PhotoTypeOK, SpendInv, VisionCap > 0,
                      NEW u \in Users \ (Bypass \cup {Rob})
               PROVE  spent[u] < VisionCap + MaxCost * (peak[u] + blind[u])
    BY DEF OvershootBounded
  <2>1. InFlight(u) \subseteq Photos
    BY DEF InFlight
  <2>2. Flight(u) \in Nat
    BY <2>1, PhotosAssumption, FS_Subset, FS_CardinalityType DEF Flight
  <2> DEFINE f == Flight(u)
  <2>3. spent[u] + MaxCost * f < VisionCap + MaxCost * (peak[u] + blind[u]) /\ f \in Nat
    BY <2>2 DEF SpendInv, Within
  <2> HIDE DEF f
  <2>4. MaxCost * f \in Nat
    BY <2>3, CapsAssumption
  <2>5. spent[u] \in Nat /\ MaxCost * (peak[u] + blind[u]) \in Nat
    BY CapsAssumption DEF PhotoTypeOK
  <2> QED
    BY <2>3, <2>4, <2>5, CapsAssumption
<1> QED
  BY <1>1, <1>2, <1>3, PhotoTypeCorrect, PTL DEF PhotoSpec

(***************************************************************************)
(* ChatAdmission                                                           *)
(***************************************************************************)
\* The requests of this process that were given a new thread.
Named == {c \in Chats : chat[c].new /\ chat[c].boot = boots}

\* The counter has counted those, and every new thread carries a count no other
\* one of the same process has, and the time of its request.
Counts ==
  /\ counter = Cardinality(Named)
  /\ \A c \in Chats : chat[c].new =>
       /\ \E k \in Nat : /\ chat[c].thread = <<k, chat[c].at>>
                         /\ chat[c].boot = boots => k <= counter
       /\ \A d \in Chats : d # c /\ chat[d].new /\ chat[d].boot = chat[c].boot =>
            chat[d].thread[1] # chat[c].thread[1]

\* A request is not younger than its process, nor as old as the next one.
Stamps ==
  \A c \in Chats :
    /\ ~Started(c) => ~chat[c].new
    /\ Started(c) => /\ chat[c].boot <= boots /\ chat[c].at <= now
                     /\ chat[c].boot < boots => chat[c].at < now
                     /\ \A d \in Chats : Started(d) /\ chat[c].boot < chat[d].boot =>
                          chat[c].at < chat[d].at

\* What has passed within a window is still in its list.
Tracked ==
  \A tier \in Tiers : \A c \in Passed(boots) :
    chat[c].at > now - Limits[tier].window => c \in slots[tier]

ThreadInv == Counts /\ Stamps

\* The requests of one process that passed within a window that ends at end.
PassedWithin(boot, tier, end) ==
  {c \in Passed(boot) : chat[c].at \in (end - Limits[tier].window + 1)..end}

LEMMA Numbers ==
  ASSUME ChatTypeOK
  PROVE  /\ now \in Nat /\ boots \in Nat /\ counter \in Nat /\ Cardinality(Chats) \in Nat
         /\ \A tier \in Tiers : Limits[tier].max \in Nat \ {0} /\ Limits[tier].window \in Nat \ {0}
         /\ \A c \in Chats : /\ chat[c] \in Request /\ chat[c].at \in Nat /\ chat[c].boot \in Nat
                             /\ chat[c].at <= MaxNow
<1>1. Cardinality(Chats) \in Nat
  BY ChatsAssumption, FS_CardinalityType
<1> QED
  BY <1>1, LimitsAssumption DEF ChatTypeOK, Request

LEMMA ChatsFinite ==
  ASSUME NEW S, S \subseteq Chats
  PROVE  IsFiniteSet(S) /\ Cardinality(S) \in Nat /\ Cardinality(S) <= Cardinality(Chats)
BY ChatsAssumption, FS_Subset, FS_CardinalityType

LEMMA Fewer ==
  ASSUME NEW S, NEW T, T \subseteq Chats, S \subseteq T
  PROVE  Cardinality(S) <= Cardinality(T)
BY ChatsFinite, FS_Subset

(***************************************************************************)
(* A request's steps after it has begun.                                   *)
(***************************************************************************)
\* A request goes on, is answered or is cut off by a restart.
GoOn ==
  \A c \in Chats :
    /\ chat'[c].at = chat[c].at /\ chat'[c].boot = chat[c].boot
    /\ chat'[c].thread = chat[c].thread /\ chat'[c].new = chat[c].new
    /\ chat'[c].pc = chat[c].pc \/ (chat[c].pc \in {"identify", "classify", "invoke"}
                                      /\ chat'[c].pc # "none")

LEMMA WentOn ==
  ASSUME NEW r \in Request, NEW pc \in Pcs
  PROVE  LET s == [r EXCEPT !.pc = pc]
         IN  /\ s \in Request /\ s.at = r.at /\ s.boot = r.boot /\ s.thread = r.thread
             /\ s.new = r.new /\ s.pc = pc
BY DEF Request

LEMMA GoesOn ==
  ASSUME ChatTypeOK, NEW c \in Chats, NEW pc \in Pcs, Goes(c, pc), pc # "none",
         chat[c].pc \in {"identify", "classify", "invoke"}
  PROVE  chat' \in [Chats -> Request] /\ GoOn
<1> DEFINE s == [chat[c] EXCEPT !.pc = pc]
<1>1. /\ s \in Request /\ s.at = chat[c].at /\ s.boot = chat[c].boot
      /\ s.thread = chat[c].thread /\ s.new = chat[c].new /\ s.pc = pc
  BY Numbers, WentOn
<1>2. chat' = [chat EXCEPT ![c] = s]
  BY DEF Goes
<1> HIDE DEF s
<1>3. chat' \in [Chats -> Request]
  BY <1>1, <1>2 DEF ChatTypeOK
<1>4. \A d \in Chats : chat'[d] = IF d = c THEN s ELSE chat[d]
  BY <1>2 DEF ChatTypeOK
<1> QED
  BY <1>1, <1>3, <1>4 DEF GoOn

\* A request begins: it is stamped with the time and the process.
LEMMA StampedTyped ==
  ASSUME ChatTypeOK, NEW c \in Chats, NEW pc \in Pcs
  PROVE  LET s == Stamped(c, pc)
         IN  /\ s \in Request /\ s.at = now /\ s.boot = boots /\ s.thread = chat[c].thread
             /\ s.new = chat[c].new /\ s.pc = pc
BY DEF Stamped, ChatTypeOK, Request

\* c's record becomes r, with or without a new thread.
Begins(c, r) ==
  /\ chat[c].pc = "none" /\ chat' = [chat EXCEPT ![c] = r]
  /\ r \in Request /\ r.at = now /\ r.boot = boots /\ r.pc # "none"
  /\ UNCHANGED <<now, boots>>
  /\ IF r.new THEN r.thread = <<counter + 1, now>> /\ counter' = counter + 1
              ELSE counter' = counter

LEMMA RefusedBegins ==
  ASSUME ChatTypeOK, Stamps, NEW c \in Chats, chat[c].pc = "none", Refused(c)
  PROVE  Begins(c, Stamped(c, "refused"))
<1>1. chat[c].new = FALSE
  BY Numbers DEF Stamps, Started, Request
<1> QED
  BY <1>1, StampedTyped DEF Refused, Begins, Pcs

\* The thread counter has not run out.
LEMMA CounterTyped ==
  ASSUME ChatTypeOK, Counts, Stamps, NEW c \in Chats, chat[c].pc = "none"
  PROVE  /\ counter + 1 \in 1..Cardinality(Chats) /\ <<counter + 1, now>> \in Threads
         /\ c \notin Named /\ IsFiniteSet(Named)
         /\ Cardinality(Named \cup {c}) = counter + 1
<1>1. c \notin Named /\ Named \subseteq Chats /\ Named \cup {c} \subseteq Chats
  BY DEF Named, Stamps, Started
<1>2. IsFiniteSet(Named) /\ Cardinality(Named) \in Nat
      /\ Cardinality(Named \cup {c}) <= Cardinality(Chats)
  BY <1>1, ChatsFinite
<1>3. Cardinality(Named \cup {c}) = Cardinality(Named) + 1
  BY <1>1, <1>2, FS_AddElement
<1>4. counter = Cardinality(Named)
  BY DEF Counts
<1>5. counter + 1 \in 1..Cardinality(Chats)
  BY <1>2, <1>3, <1>4, Numbers
<1>6. <<counter + 1, now>> \in Threads
  BY <1>5 DEF Threads, ChatTypeOK
<1> QED
  BY <1>1, <1>2, <1>3, <1>4, <1>5, <1>6

LEMMA AdmittedBegins ==
  ASSUME ChatTypeOK, Counts, Stamps, NEW c \in Chats, NEW given \in Given \cup {NoThread},
         ChatAdmitted(c, given)
  PROVE  \E r : Begins(c, r) /\ r.pc = "identify"
<1> DEFINE new == given = NoThread
           s == Stamped(c, "identify")
           thread == IF new THEN NewThread ELSE given
           r == [s EXCEPT !.thread = thread, !.new = new]
<1>1. /\ chat[c].pc = "none" /\ chat' = [chat EXCEPT ![c] = r] /\ UNCHANGED <<now, boots>>
      /\ counter' = IF new THEN counter + 1 ELSE counter
  BY DEF ChatAdmitted
<1>2. s \in Request /\ s.at = now /\ s.boot = boots /\ s.pc = "identify"
  BY StampedTyped DEF Pcs
<1>3. thread \in Threads /\ (new => thread = <<counter + 1, now>>)
  BY <1>1, CounterTyped DEF NewThread, Threads
<1>4. new \in BOOLEAN
  OBVIOUS
<1> HIDE DEF new, s, thread
<1>5. /\ r \in Request /\ r.at = now /\ r.boot = boots /\ r.pc = "identify"
      /\ r.thread = thread /\ r.new = new
  BY <1>2, <1>3, <1>4 DEF Request
<1> HIDE DEF r
<1>6. Begins(c, r)
  BY <1>1, <1>3, <1>5 DEF Begins
<1> QED
  BY <1>5, <1>6

\* A request goes on while the clock and the process stand still.
Continues ==
  GoOn /\ chat' \in [Chats -> Request] /\ UNCHANGED <<now, slots, counter, boots>>

\* It begins, counted in some of the windows, or in both when neither is full.
BegunAs(c, r, tiers) ==
  /\ Begins(c, r) /\ Counted(c, tiers)
  /\ \/ r.pc = "refused"
     \/ r.pc = "identify" /\ tiers = Tiers /\ \A tier \in Tiers : Lets(c, tier)

Begun == \E c \in Chats : \E r : \E tiers \in SUBSET Tiers : BegunAs(c, r, tiers)

LEMMA ChatSteps ==
  ASSUME ChatTypeOK, ThreadInv, [ChatNext]_chatVars
  PROVE  Begun \/ Continues \/ ChatTick \/ ChatRestart
<1>1. ASSUME NEW c \in Chats, RefusedByMinute(c) \/ RefusedByHour(c) \/ RefusedByBudget(c)
      PROVE  Begun
  <2>1. Begins(c, Stamped(c, "refused"))
    BY <1>1, RefusedBegins DEF RefusedByMinute, RefusedByHour, RefusedByBudget, ThreadInv
  <2>2. Stamped(c, "refused").pc = "refused"
    BY StampedTyped DEF Pcs
  <2>3. PICK tiers \in SUBSET Tiers : Counted(c, tiers)
    BY <1>1 DEF RefusedByMinute, RefusedByHour, RefusedByBudget, Tiers
  <2>4. PICK r : Begins(c, r) /\ r.pc = "refused"
    BY <2>1, <2>2
  <2>5. BegunAs(c, r, tiers)
    BY <2>3, <2>4 DEF BegunAs
  <2> QED
    BY <2>5 DEF Begun
<1>2. ASSUME NEW c \in Chats, NEW t \in Given \cup {NoThread}, ChatAdmitted(c, t)
      PROVE  Begun
  <2>1. PICK r : Begins(c, r) /\ r.pc = "identify"
    BY <1>2, AdmittedBegins DEF ThreadInv
  <2>2. Counted(c, Tiers) /\ \A tier \in Tiers : Lets(c, tier)
    BY <1>2 DEF ChatAdmitted, Tiers
  <2>3. Tiers \in SUBSET Tiers
    OBVIOUS
  <2>4. BegunAs(c, r, Tiers)
    BY <2>1, <2>2 DEF BegunAs
  <2> QED
    BY <2>3, <2>4 DEF Begun
<1>3. ASSUME NEW c \in Chats, Identified(c) \/ Classified(c) \/ Answered(c)
      PROVE  Continues
  <2>1. PICK pc \in Pcs : Goes(c, pc) /\ pc # "none"
    BY <1>3 DEF Identified, Classified, Answered, Pcs
  <2>2. chat[c].pc \in {"identify", "classify", "invoke"} /\ UNCHANGED <<now, slots, counter, boots>>
    BY <1>3 DEF Identified, Classified, Answered
  <2> QED
    BY <2>1, <2>2, GoesOn DEF Continues
<1>4. ASSUME UNCHANGED <<now, chat, slots, counter, boots>> PROVE Continues
  BY <1>4 DEF Continues, GoOn, ChatTypeOK
<1>5. (\E t \in Given : SessionOpen(t) \/ SessionUpdate(t) \/ SessionClose(t)) \/ ListActive
        \/ UNCHANGED chatVars
      => UNCHANGED <<now, chat, slots, counter, boots>>
  BY DEF SessionOpen, SessionUpdate, SessionClose, ListActive, chatVars
<1> QED
  BY <1>1, <1>2, <1>3, <1>4, <1>5 DEF ChatNext

LEMMA RestartGoesOn ==
  ASSUME ChatTypeOK, ChatRestart
  PROVE  GoOn /\ chat' \in [Chats -> Request]
<1>1. \A c \in Chats : LET s == [chat[c] EXCEPT !.pc = "failed"]
                       IN  /\ s \in Request /\ s.at = chat[c].at /\ s.boot = chat[c].boot
                           /\ s.thread = chat[c].thread /\ s.new = chat[c].new /\ s.pc = "failed"
  BY Numbers, WentOn DEF Pcs
<1> QED
  BY <1>1 DEF ChatRestart, GoOn, ChatTypeOK

(***************************************************************************)
(* Types                                                                   *)
(***************************************************************************)
LEMMA OpenedTyped ==
  ASSUME ChatTypeOK
  PROVE  Opened \in Session /\ Opened # NoSession /\ (Opened.active <=> ~Opened.ended)
<1>1. Opened \in Session /\ (Opened.active <=> ~Opened.ended)
  BY DEF Opened, Session, ChatTypeOK
<1> QED
  BY <1>1, SessionAssumption

Sound(row) == row \in Session /\ (row.active <=> ~row.ended)

LEMMA SessionsTyped ==
  ASSUME ChatTypeOK, [ChatNext]_chatVars
  PROVE  /\ sessions' \in [Threads -> Session \cup {NoSession}]
         /\ \A t \in Threads : sessions'[t] # NoSession =>
              (sessions'[t].active <=> ~sessions'[t].ended)
<1>1. \A t \in Threads : sessions[t] = NoSession \/ Sound(sessions[t])
  BY DEF ChatTypeOK, Sound
<1>2. Sound(Opened)
  BY OpenedTyped DEF Sound
<1>3. \A row : Sound(row) => Sound(Ended(row)) /\ Sound([row EXCEPT !.last = now])
  BY DEF Sound, Ended, Session, ChatTypeOK
<1>4. ASSUME \A t \in Threads : sessions'[t] = NoSession \/ Sound(sessions'[t]),
             \E f : sessions' = [t \in Threads |-> f[t]]
      PROVE  /\ sessions' \in [Threads -> Session \cup {NoSession}]
             /\ \A t \in Threads : sessions'[t] # NoSession =>
                  (sessions'[t].active <=> ~sessions'[t].ended)
  BY <1>4 DEF Sound
<1>5. ASSUME NEW t, NEW row, Sound(row), sessions' = [sessions EXCEPT ![t] = row]
      PROVE  /\ \A u \in Threads : sessions'[u] = NoSession \/ Sound(sessions'[u])
             /\ sessions' = [u \in Threads |-> sessions'[u]]
  BY <1>1, <1>5 DEF ChatTypeOK
<1>6. ASSUME UNCHANGED sessions
      PROVE  /\ \A u \in Threads : sessions'[u] = NoSession \/ Sound(sessions'[u])
             /\ sessions' = [u \in Threads |-> sessions'[u]]
  BY <1>1, <1>6 DEF ChatTypeOK
<1>7. CASE \E c \in Chats : Identified(c)
  BY <1>2, <1>4, <1>5, <1>7 DEF Identified
<1>8. ASSUME NEW t \in Given, SessionOpen(t) \/ SessionUpdate(t) \/ SessionClose(t)
      PROVE  \E row : Sound(row) /\ sessions' = [sessions EXCEPT ![t] = row]
  <2>1. CASE SessionOpen(t)
    BY <1>2, <2>1 DEF SessionOpen
  <2>2. CASE SessionUpdate(t)
    BY <1>1, <1>3, <2>2 DEF SessionUpdate, Threads
  <2>3. CASE SessionClose(t)
    BY <1>1, <1>3, <2>3 DEF SessionClose, Threads
  <2> QED
    BY <1>8, <2>1, <2>2, <2>3
<1>9. CASE ListActive
  <2>1. sessions' = [t \in Threads |-> IF Quiet(t) THEN Ended(sessions[t]) ELSE sessions[t]]
    BY <1>9 DEF ListActive
  <2>2. \A t \in Threads : Quiet(t) => sessions[t] # NoSession
    BY DEF Quiet
  <2>3. \A u \in Threads : sessions'[u] = NoSession \/ Sound(sessions'[u])
    BY <1>1, <1>3, <2>1, <2>2
  <2>4. sessions' = [u \in Threads |-> sessions'[u]]
    BY <2>1
  <2> QED
    BY <1>4, <2>3, <2>4
<1>10. \/ UNCHANGED sessions
       \/ \E c \in Chats : Identified(c)
       \/ \E t \in Given : SessionOpen(t) \/ SessionUpdate(t) \/ SessionClose(t)
       \/ ListActive
  BY DEF ChatNext, chatVars, RefusedByMinute, RefusedByHour, RefusedByBudget, Refused,
         ChatAdmitted, Classified, Answered, ChatTick, ChatRestart
<1>11. CASE UNCHANGED sessions
  BY <1>4, <1>6, <1>11
<1>12. CASE \E t \in Given : SessionOpen(t) \/ SessionUpdate(t) \/ SessionClose(t)
  BY <1>4, <1>5, <1>8, <1>12
<1> QED
  BY <1>7, <1>9, <1>10, <1>11, <1>12

LEMMA ChatTyped ==
  ASSUME ChatTypeOK, ThreadInv, [ChatNext]_chatVars
  PROVE  ChatTypeOK'
<1> SUFFICES /\ now' \in 0..MaxNow /\ boots' \in 0..MaxRestarts
             /\ chat' \in [Chats -> Request] /\ slots' \in [Tiers -> SUBSET Chats]
             /\ counter' \in 0..Cardinality(Chats)
  BY SessionsTyped DEF ChatTypeOK
<1>1. CASE Begun
  <2> PICK c \in Chats : \E r : \E tiers \in SUBSET Tiers : BegunAs(c, r, tiers)
    BY <1>1 DEF Begun
  <2>1. PICK r : \E tiers \in SUBSET Tiers : Begins(c, r) /\ Counted(c, tiers)
    BY DEF BegunAs
  <2>2. chat' \in [Chats -> Request] /\ UNCHANGED <<now, boots>>
    BY <2>1 DEF Begins, ChatTypeOK
  <2>3. slots' \in [Tiers -> SUBSET Chats]
    BY <2>1, Numbers DEF Counted, Recent, ChatTypeOK
  <2>4. counter' \in {counter, counter + 1} /\ counter + 1 \in 1..Cardinality(Chats)
    BY <2>1, CounterTyped DEF Begins, ThreadInv
  <2>5. counter' \in 0..Cardinality(Chats)
    BY <2>4, Numbers
  <2> QED
    BY <2>2, <2>3, <2>5 DEF ChatTypeOK
<1>2. CASE Continues
  BY <1>2 DEF Continues, ChatTypeOK
<1>3. CASE ChatTick
  BY <1>3, LimitsAssumption DEF ChatTick, ChatTypeOK
<1>4. CASE ChatRestart
  <2>1. now' \in 0..MaxNow /\ boots' \in 0..MaxRestarts
    BY <1>4, LimitsAssumption DEF ChatRestart, ChatTypeOK
  <2>2. slots' \in [Tiers -> SUBSET Chats] /\ counter' \in 0..Cardinality(Chats)
    BY <1>4, Numbers DEF ChatRestart
  <2> QED
    BY <1>4, <2>1, <2>2, RestartGoesOn
<1> QED
  BY <1>1, <1>2, <1>3, <1>4, ChatSteps

(***************************************************************************)
(* New threads                                                             *)
(***************************************************************************)
LEMMA StampsBegun ==
  ASSUME ChatTypeOK, Stamps, NEW c \in Chats, NEW r, Begins(c, r)
  PROVE  Stamps'
<1>1. \A d \in Chats : chat'[d] = IF d = c THEN r ELSE chat[d]
  BY DEF Begins, ChatTypeOK
<1>2. now \in Nat /\ boots \in Nat /\ \A d \in Chats : chat[d].at \in Nat /\ chat[d].boot \in Nat
  BY Numbers
<1>3. /\ r.at = now /\ r.boot = boots /\ r.pc # "none" /\ now' = now /\ boots' = boots
  BY DEF Begins
<1> SUFFICES ASSUME NEW d \in Chats
             PROVE  /\ ~Started(d)' => ~chat'[d].new
                    /\ Started(d)' => /\ chat'[d].boot <= boots /\ chat'[d].at <= now
                                      /\ chat'[d].boot < boots => chat'[d].at < now
                                      /\ \A e \in Chats : Started(e)' /\ chat'[d].boot < chat'[e].boot =>
                                           chat'[d].at < chat'[e].at
  BY <1>3 DEF Stamps
<1>4. CASE d = c
  <2>1. \A e \in Chats : Started(e)' => chat'[e].boot <= boots
    BY <1>1, <1>2, <1>3 DEF Stamps, Started
  <2> QED
    BY <1>1, <1>2, <1>3, <1>4, <2>1 DEF Started
<1>5. CASE d # c
  <2>1. \A e \in Chats : e # c => chat'[e] = chat[e]
    BY <1>1
  <2>2. ASSUME NEW e \in Chats, Started(d), Started(e)', chat[d].boot < chat'[e].boot
        PROVE  chat[d].at < chat'[e].at
    BY <1>1, <1>3, <2>1, <2>2 DEF Stamps, Started
  <2> QED
    BY <1>5, <2>1, <2>2 DEF Stamps, Started
<1> QED
  BY <1>4, <1>5

LEMMA CountsBegun ==
  ASSUME ChatTypeOK, Counts, Stamps, NEW c \in Chats, NEW r, Begins(c, r)
  PROVE  Counts'
<1>1. \A d \in Chats : chat'[d] = IF d = c THEN r ELSE chat[d]
  BY DEF Begins, ChatTypeOK
<1>2. /\ r \in Request /\ r.at = now /\ r.boot = boots /\ boots' = boots /\ chat[c].pc = "none"
      /\ r.new = TRUE => r.thread = <<counter + 1, now>> /\ counter' = counter + 1
      /\ r.new = FALSE => counter' = counter
  BY DEF Begins, Request
<1>3. r.new \in BOOLEAN /\ counter \in Nat /\ ~chat[c].new
  BY <1>2, Numbers DEF Request, Stamps, Started
<1>4. counter' = Cardinality(Named')
  <2>1. CASE r.new = TRUE
    <3>1. Named' = Named \cup {c}
      BY <1>1, <1>2, <2>1 DEF Named
    <3> QED
      BY <1>2, <2>1, <3>1, CounterTyped
  <2>2. CASE r.new = FALSE
    <3>1. Named' = Named
      BY <1>1, <1>2, <1>3, <2>2 DEF Named
    <3> QED
      BY <1>2, <2>2, <3>1 DEF Counts
  <2> QED
    BY <1>3, <2>1, <2>2
<1>5. counter' \in Nat /\ counter <= counter'
  BY <1>2, <1>3
<1>6. ASSUME NEW d \in Chats, chat[d].new
      PROVE  /\ d # c /\ chat'[d] = chat[d]
             /\ \E k \in Nat : /\ chat[d].thread = <<k, chat[d].at>>
                               /\ chat[d].boot = boots => k <= counter
  BY <1>1, <1>3, <1>6 DEF Counts
<1>7. ASSUME NEW d \in Chats, chat'[d].new
      PROVE  \E k \in Nat : /\ chat'[d].thread = <<k, chat'[d].at>>
                            /\ chat'[d].boot = boots => k <= counter'
  <2>1. CASE d = c
    BY <1>1, <1>2, <1>3, <1>5, <1>7, <2>1
  <2>2. CASE d # c
    <3>1. chat'[d] = chat[d] /\ chat[d].new
      BY <1>1, <1>7, <2>2
    <3>2. PICK k \in Nat : /\ chat[d].thread = <<k, chat[d].at>>
                           /\ chat[d].boot = boots => k <= counter
      BY <1>6, <3>1
    <3>3. chat[d].boot = boots => k <= counter'
      BY <1>3, <1>5, <3>2
    <3> QED
      BY <3>1, <3>2, <3>3
  <2> QED
    BY <2>1, <2>2
\* No other request of this process has the new thread's count.
<1>8. ASSUME NEW d \in Chats, chat[d].new, chat[d].boot = boots, chat'[c].new
      PROVE  chat[d].thread[1] # chat'[c].thread[1]
  <2>1. PICK k \in Nat : chat[d].thread = <<k, chat[d].at>> /\ k <= counter
    BY <1>6, <1>8
  <2>2. chat'[c].thread = <<counter + 1, now>>
    BY <1>1, <1>2, <1>3, <1>8
  <2>3. chat[d].thread[1] = k /\ chat'[c].thread[1] = counter + 1
    BY <2>1, <2>2
  <2> QED
    BY <1>3, <2>1, <2>3
<1>9. ASSUME NEW d \in Chats, NEW e \in Chats, d # e, chat'[d].new, chat'[e].new,
             chat'[e].boot = chat'[d].boot
      PROVE  chat'[e].thread[1] # chat'[d].thread[1]
  <2>1. CASE d # c /\ e # c
    <3>1. chat'[d] = chat[d] /\ chat'[e] = chat[e]
      BY <1>1, <2>1
    <3> QED
      BY <1>9, <3>1 DEF Counts
  <2>2. CASE d = c
    <3>1. chat'[e] = chat[e] /\ chat'[d].boot = boots
      BY <1>1, <1>2, <1>9, <2>2
    <3> QED
      BY <1>8, <1>9, <2>2, <3>1
  <2>3. CASE e = c
    <3>1. chat'[d] = chat[d] /\ chat'[e].boot = boots
      BY <1>1, <1>2, <1>9, <2>3
    <3> QED
      BY <1>8, <1>9, <2>3, <3>1
  <2> QED
    BY <2>1, <2>2, <2>3
<1> QED
  BY <1>2, <1>4, <1>7, <1>9 DEF Counts

\* What a request was given it keeps.
LEMMA ThreadsKept ==
  ASSUME ChatTypeOK, ThreadInv, GoOn, now' \in {now, now + 1},
         \/ boots' = boots /\ counter' = counter
         \/ boots' = boots + 1 /\ counter' = 0 /\ now' = now + 1
  PROVE  ThreadInv'
<1>1. /\ now \in Nat /\ boots \in Nat /\ counter \in Nat
      /\ \A d \in Chats : chat[d].at \in Nat /\ chat[d].boot \in Nat
  BY Numbers
<1>2. \A d \in Chats : /\ chat'[d].at = chat[d].at /\ chat'[d].boot = chat[d].boot
                       /\ chat'[d].thread = chat[d].thread /\ chat'[d].new = chat[d].new
                       /\ Started(d)' <=> Started(d)
  BY DEF GoOn, Started
<1>3. Stamps'
  BY <1>1, <1>2 DEF ThreadInv, Stamps
<1>4. counter' = Cardinality(Named')
  <2>1. CASE boots' = boots /\ counter' = counter
    <3>1. Named' = Named
      BY <1>2, <2>1 DEF Named
    <3> QED
      BY <2>1, <3>1 DEF ThreadInv, Counts
  <2>2. CASE boots' = boots + 1 /\ counter' = 0
    <3>1. \A d \in Chats : chat[d].new => chat[d].boot <= boots
      BY DEF ThreadInv, Stamps
    <3>2. Named' = {}
      BY <1>1, <1>2, <2>2, <3>1 DEF Named
    <3> QED
      BY <2>2, <3>2, FS_EmptySet
  <2> QED
    BY <2>1, <2>2
<1>5. \A d \in Chats : chat[d].new => chat[d].boot <= boots
  BY DEF ThreadInv, Stamps
<1>6. ASSUME NEW d \in Chats, chat'[d].new
      PROVE  \E k \in Nat : /\ chat'[d].thread = <<k, chat'[d].at>>
                            /\ chat'[d].boot = boots' => k <= counter'
  <2>1. PICK k \in Nat : /\ chat[d].thread = <<k, chat[d].at>>
                         /\ chat[d].boot = boots => k <= counter
    BY <1>2, <1>6 DEF ThreadInv, Counts
  <2>2. chat[d].boot = boots' => k <= counter'
    BY <1>1, <1>2, <1>5, <1>6, <2>1
  <2>3. chat'[d].thread = <<k, chat'[d].at>> /\ (chat'[d].boot = boots' => k <= counter')
    BY <1>2, <2>1, <2>2
  <2> QED
    BY <2>3
<1>7. Counts'
  BY <1>2, <1>4, <1>6 DEF ThreadInv, Counts
<1> QED
  BY <1>3, <1>7 DEF ThreadInv

LEMMA ThreadsStep ==
  ASSUME ChatTypeOK, ThreadInv, [ChatNext]_chatVars
  PROVE  ThreadInv'
<1>1. CASE Begun
  <2>1. PICK c \in Chats : \E r : Begins(c, r)
    BY <1>1 DEF Begun, BegunAs
  <2>2. PICK r : Begins(c, r)
    BY <2>1
  <2> QED
    BY <2>2, StampsBegun, CountsBegun DEF ThreadInv
<1>2. CASE Continues
  BY <1>2, ThreadsKept DEF Continues
<1>3. CASE ChatTick
  <2>1. GoOn
    BY <1>3 DEF ChatTick, GoOn
  <2> QED
    BY <1>3, <2>1, ThreadsKept DEF ChatTick
<1>4. CASE ChatRestart
  BY <1>4, RestartGoesOn, ThreadsKept DEF ChatRestart
<1> QED
  BY <1>1, <1>2, <1>3, <1>4, ChatSteps

LEMMA ChatStart ==
  ASSUME ChatInit
  PROVE  ChatTypeOK /\ ThreadInv /\ \A c \in Chats : ~Started(c)
<1> USE DEF ChatInit
<1>1. \A c \in Chats : ~Started(c) /\ ~chat[c].new
  BY DEF Started
<1>2. Named = {}
  BY <1>1 DEF Named
<1>3. Cardinality(Chats) \in Nat
  BY ChatsAssumption, FS_CardinalityType
<1>4. ChatTypeOK
  BY <1>3, LimitsAssumption DEF ChatTypeOK, Request, Pcs
<1> QED
  BY <1>1, <1>2, <1>4, FS_EmptySet DEF ThreadInv, Counts, Stamps

LEMMA ChatInvariant == ChatSpec => [](ChatTypeOK /\ ThreadInv)
<1>1. ChatInit => ChatTypeOK /\ ThreadInv
  BY ChatStart
<1>2. ChatTypeOK /\ ThreadInv /\ [ChatNext]_chatVars => (ChatTypeOK /\ ThreadInv)'
  BY ChatTyped, ThreadsStep
<1> QED
  BY <1>1, <1>2, PTL DEF ChatSpec

\* The admission keeps the types of its variables; in particular the counter never
\* names a thread outside Threads.
THEOREM ChatTypeCorrect == ChatSpec => []ChatTypeOK
BY ChatInvariant, PTL

\* However requests overlap and however often the process restarts and counts from
\* one again, two messages without a thread are never given the same one.
THEOREM ThreadsAreNotShared == ChatSpec => []NewThreadsAreNew
<1>1. ChatTypeOK /\ ThreadInv => NewThreadsAreNew
  <2> SUFFICES ASSUME ChatTypeOK, ThreadInv, NEW c \in Chats, NEW d \in Chats,
                      c # d, chat[c].new, chat[d].new
               PROVE  chat[c].thread # chat[d].thread
    BY DEF NewThreadsAreNew
  <2>1. PICK k \in Nat : chat[c].thread = <<k, chat[c].at>>
    BY DEF ThreadInv, Counts
  <2>2. PICK l \in Nat : chat[d].thread = <<l, chat[d].at>>
    BY DEF ThreadInv, Counts
  <2>3. CASE chat[c].boot = chat[d].boot
    BY <2>3 DEF ThreadInv, Counts
  <2>4. CASE chat[c].boot # chat[d].boot
    <3>1. Started(c) /\ Started(d)
      BY DEF ThreadInv, Stamps
    <3>2. chat[c].at # chat[d].at
      BY <2>4, <3>1, Numbers DEF ThreadInv, Stamps
    <3> QED
      BY <2>1, <2>2, <3>2
  <2> QED
    BY <2>3, <2>4
<1> QED
  BY <1>1, ChatInvariant, PTL

(***************************************************************************)
(* Rates                                                                   *)
(***************************************************************************)
RateInv == ChatTypeOK /\ Stamps /\ Tracked /\ RateHolds

LEMMA RateIs ==
  RateHolds <=> \A boot \in 0..boots, tier \in Tiers, end \in 0..now :
                  Cardinality(PassedWithin(boot, tier, end)) <= Limits[tier].max
BY DEF RateHolds, PassedWithin

\* A stretch that holds no more than one that was there before.
LEMMA RateFrame ==
  ASSUME ChatTypeOK, RateHolds,
         \A boot \in 0..boots', tier \in Tiers, end \in 0..now' :
           \/ PassedWithin(boot, tier, end)' = {}
           \/ \E b \in 0..boots, e \in 0..now : PassedWithin(boot, tier, end)' \subseteq PassedWithin(b, tier, e)
  PROVE  RateHolds'
<1>1. ASSUME NEW boot \in 0..boots', NEW tier \in Tiers, NEW end \in 0..now'
      PROVE  Cardinality(PassedWithin(boot, tier, end)') <= Limits[tier].max
  <2>1. CASE PassedWithin(boot, tier, end)' = {}
    BY <2>1, Numbers, FS_EmptySet
  <2>2. ASSUME NEW b \in 0..boots, NEW e \in 0..now,
               PassedWithin(boot, tier, end)' \subseteq PassedWithin(b, tier, e)
        PROVE  Cardinality(PassedWithin(boot, tier, end)') <= Limits[tier].max
    <3> DEFINE S == PassedWithin(boot, tier, end)'
               T == PassedWithin(b, tier, e)
    <3>1. T \subseteq Chats /\ S \subseteq T
      BY <2>2 DEF PassedWithin, Passed
    <3> HIDE DEF S, T
    <3>2. Cardinality(S) <= Cardinality(T) /\ Cardinality(S) \in Nat /\ Cardinality(T) \in Nat
      BY <3>1, Fewer, ChatsFinite
    <3>3. Cardinality(T) <= Limits[tier].max
      BY RateIs DEF T
    <3>4. Cardinality(S) <= Limits[tier].max
      BY <3>2, <3>3, Numbers
    <3> QED
      BY <3>4 DEF S
  <2> QED
    BY <2>1, <2>2
<1> QED
  BY <1>1 DEF RateHolds, PassedWithin

\* What has passed in the last window is what the limiter has counted.
LEMMA WithinRecent ==
  ASSUME ChatTypeOK, Tracked, NEW tier \in Tiers
  PROVE  PassedWithin(boots, tier, now) \subseteq Recent(tier)
<1>1. now \in Nat /\ Limits[tier].window \in Nat /\ \A c \in Chats : chat[c].at \in Nat
  BY Numbers
<1> SUFFICES ASSUME NEW c \in PassedWithin(boots, tier, now) PROVE c \in Recent(tier)
  OBVIOUS
<1>2. c \in Passed(boots) /\ c \in Chats /\ chat[c].at \in (now - Limits[tier].window + 1)..now
  BY DEF PassedWithin, Passed
<1>3. chat[c].at > now - Limits[tier].window
  BY <1>1, <1>2
<1> QED
  BY <1>2, <1>3 DEF Tracked, Recent

\* A request that is refused or admitted.
LEMMA RateBegun ==
  ASSUME RateInv, NEW c \in Chats, NEW r, NEW tiers \in SUBSET Tiers, BegunAs(c, r, tiers)
  PROVE  Tracked' /\ RateHolds'
<1>1. \A d \in Chats : chat'[d] = IF d = c THEN r ELSE chat[d]
  BY DEF RateInv, BegunAs, Begins, ChatTypeOK
<1>2. /\ now \in Nat /\ boots \in Nat /\ \A d \in Chats : chat[d].at \in Nat /\ chat[d].boot \in Nat
      /\ \A tier \in Tiers : Limits[tier].max \in Nat /\ Limits[tier].window \in Nat \ {0}
  BY Numbers DEF RateInv
<1>3. /\ r.at = now /\ r.boot = boots /\ now' = now /\ boots' = boots /\ chat[c].pc = "none"
      /\ Counted(c, tiers)
      /\ \/ r.pc = "refused"
         \/ r.pc = "identify" /\ tiers = Tiers /\ \A tier \in Tiers : Lets(c, tier)
  BY DEF BegunAs, Begins
<1> DEFINE passes == r.pc = "identify" /\ c \notin Inside
<1>4. \A b : Passed(b)' = IF b = boots /\ passes THEN Passed(b) \cup {c} ELSE Passed(b)
  BY <1>1, <1>3 DEF Passed
<1>5. \A b : c \notin Passed(b)
  BY <1>3 DEF Passed
<1>6. Tracked'
  <2> SUFFICES ASSUME NEW tier \in Tiers, NEW d \in Passed(boots)',
                      chat'[d].at > now - Limits[tier].window
               PROVE  d \in slots'[tier]
    BY <1>3 DEF Tracked
  <2>1. slots'[tier] = IF tier \in tiers /\ c \notin Inside
                             THEN Recent(tier) \cup {c} ELSE slots[tier]
    BY <1>3 DEF Counted
  <2>2. CASE d = c
    BY <1>3, <1>4, <1>5, <2>1, <2>2
  <2>3. CASE d # c
    <3>1. d \in Passed(boots) /\ d \in Chats /\ chat'[d] = chat[d]
      BY <1>1, <1>3, <1>4, <2>3 DEF Passed
    <3>2. d \in slots[tier] /\ chat[d].at > now - Limits[tier].window
      BY <3>1 DEF RateInv, Tracked
    <3> QED
      BY <2>1, <3>2 DEF Recent
  <2> QED
    BY <2>2, <2>3
<1>7. ASSUME NEW b, NEW tier \in Tiers, NEW end, ~(b = boots /\ passes /\ end = now),
             end \in 0..now
      PROVE  PassedWithin(b, tier, end)' \subseteq PassedWithin(b, tier, end)
  <2> SUFFICES ASSUME NEW d \in PassedWithin(b, tier, end)' PROVE d \in PassedWithin(b, tier, end)
    OBVIOUS
  <2>1. /\ d \in Passed(b)' /\ d \in Chats
        /\ chat'[d].at \in (end - Limits[tier].window + 1)..end
    BY DEF PassedWithin, Passed
  <2>2. d # c
    BY <1>1, <1>2, <1>3, <1>4, <1>5, <1>7, <2>1
  <2> QED
    BY <1>1, <1>4, <2>1, <2>2 DEF PassedWithin
<1>8. CASE ~passes
  <2>1. \A b \in 0..boots, tier \in Tiers, end \in 0..now :
          PassedWithin(b, tier, end)' \subseteq PassedWithin(b, tier, end)
    BY <1>7, <1>8
  <2> QED
    BY <1>3, <1>6, <2>1, RateFrame DEF RateInv
<1>9. CASE passes
  <2>1. ASSUME NEW tier \in Tiers
        PROVE  Cardinality(PassedWithin(boots, tier, now)') <= Limits[tier].max
    <3> DEFINE S == PassedWithin(boots, tier, now)'
               T == Recent(tier)
    <3>1. T \subseteq Chats
      BY DEF Recent, RateInv, ChatTypeOK
    <3>2. S \subseteq PassedWithin(boots, tier, now) \cup {c}
      BY <1>1, <1>3, <1>4 DEF PassedWithin, Passed
    <3>3. S \subseteq T \cup {c} /\ T \cup {c} \subseteq Chats
      BY <3>1, <3>2, WithinRecent DEF RateInv
    <3>4. ~(Cardinality(T) >= Limits[tier].max)
      BY <1>3, <1>9 DEF Full, Lets
    <3> HIDE DEF S, T
    <3>5. /\ Cardinality(S) \in Nat /\ Cardinality(T) \in Nat /\ IsFiniteSet(T)
          /\ Cardinality(S) <= Cardinality(T \cup {c})
      BY <3>1, <3>3, Fewer, ChatsFinite
    <3>6. Cardinality(T \cup {c}) \in {Cardinality(T), Cardinality(T) + 1}
      BY <3>5, FS_AddElement
    <3>7. Cardinality(T \cup {c}) \in Nat
      BY <3>3, ChatsFinite
    <3>8. Cardinality(S) <= Limits[tier].max
      BY <1>2, <3>4, <3>5, <3>6, <3>7
    <3> QED
      BY <3>8 DEF S
  <2>2. ASSUME NEW b \in 0..boots, NEW tier \in Tiers, NEW end \in 0..now,
               ~(b = boots /\ end = now)
        PROVE  Cardinality(PassedWithin(b, tier, end)') <= Limits[tier].max
    <3> DEFINE S == PassedWithin(b, tier, end)'
               T == PassedWithin(b, tier, end)
    <3>1. S \subseteq T /\ T \subseteq Chats
      BY <1>7, <2>2 DEF PassedWithin, Passed
    <3>2. Cardinality(T) <= Limits[tier].max
      BY RateIs DEF RateInv
    <3> HIDE DEF S, T
    <3>3. Cardinality(S) <= Cardinality(T) /\ Cardinality(S) \in Nat /\ Cardinality(T) \in Nat
      BY <3>1, Fewer, ChatsFinite
    <3>4. Cardinality(S) <= Limits[tier].max
      BY <1>2, <3>2, <3>3
    <3> QED
      BY <3>4 DEF S
  <2>3. \A b \in 0..boots, tier \in Tiers, end \in 0..now :
          Cardinality(PassedWithin(b, tier, end)') <= Limits[tier].max
    <3> SUFFICES ASSUME NEW b \in 0..boots, NEW tier \in Tiers, NEW end \in 0..now
                 PROVE  Cardinality(PassedWithin(b, tier, end)') <= Limits[tier].max
      OBVIOUS
    <3>1. CASE b = boots /\ end = now
      <4>1. PassedWithin(b, tier, end)' = PassedWithin(boots, tier, now)'
        BY <1>3, <3>1 DEF PassedWithin
      <4> QED
        BY <2>1, <4>1
    <3>2. CASE ~(b = boots /\ end = now)
      BY <2>2, <3>2
    <3> QED
      BY <3>1, <3>2
  <2>4. RateHolds'
    BY <1>3, <2>3 DEF RateHolds, PassedWithin
  <2> QED
    BY <1>6, <2>4
<1> QED
  BY <1>8, <1>9

\* A request that goes on has passed before, if it still has.
LEMMA PassedBefore ==
  ASSUME GoOn, NEW b
  PROVE  Passed(b)' \subseteq Passed(b)
BY DEF GoOn, Passed

LEMMA RateStep ==
  ASSUME RateInv, ThreadInv, [ChatNext]_chatVars
  PROVE  Tracked' /\ RateHolds'
<1>1. /\ now \in Nat /\ boots \in Nat /\ \A d \in Chats : chat[d].at \in Nat
      /\ \A tier \in Tiers : Limits[tier].window \in Nat
  BY Numbers DEF RateInv
<1>2. CASE Begun
  <2>1. PICK c \in Chats : \E r : \E tiers \in SUBSET Tiers : BegunAs(c, r, tiers)
    BY <1>2 DEF Begun
  <2> QED
    BY <2>1, RateBegun
<1>3. ASSUME GoOn, NEW b, NEW tier \in Tiers, NEW end
      PROVE  PassedWithin(b, tier, end)' \subseteq PassedWithin(b, tier, end)
  BY <1>3, PassedBefore DEF PassedWithin, Passed, GoOn
<1>4. CASE Continues
  <2>1. GoOn /\ UNCHANGED <<now, slots, boots>>
    BY <1>4 DEF Continues
  <2>2. RateHolds'
    BY <1>3, <2>1, RateFrame DEF RateInv
  <2>3. Tracked'
    <3> SUFFICES ASSUME NEW tier \in Tiers, NEW d \in Passed(boots)',
                        chat'[d].at > now - Limits[tier].window
                 PROVE  d \in slots[tier]
      BY <2>1 DEF Tracked
    <3>1. d \in Passed(boots) /\ chat'[d].at = chat[d].at
      BY <2>1, PassedBefore DEF Passed, GoOn
    <3> QED
      BY <3>1 DEF RateInv, Tracked
  <2> QED
    BY <2>2, <2>3
\* The clock moves on: the last window holds what it did or less.
<1>5. ASSUME GoOn, now' = now + 1, NEW b \in 0..boots, NEW tier \in Tiers, NEW end \in 0..(now + 1)
      PROVE  \E e \in 0..now : PassedWithin(b, tier, end)' \subseteq PassedWithin(b, tier, e)
  <2>1. CASE end \in 0..now
    BY <1>3, <1>5, <2>1
  <2>2. CASE end = now + 1
    <3> SUFFICES ASSUME NEW d \in PassedWithin(b, tier, end)' PROVE d \in PassedWithin(b, tier, now)
      BY <1>1
    <3>1. d \in PassedWithin(b, tier, end)
      BY <1>3, <1>5
    <3>2. /\ d \in Passed(b) /\ d \in Chats /\ Started(d)
          /\ chat[d].at \in (end - Limits[tier].window + 1)..end
      BY <3>1 DEF PassedWithin, Passed, Started
    <3>3. chat[d].at <= now
      BY <3>2 DEF RateInv, Stamps
    <3>4. chat[d].at \in (now - Limits[tier].window + 1)..now
      BY <1>1, <2>2, <3>2, <3>3
    <3> QED
      BY <3>2, <3>4 DEF PassedWithin
  <2> QED
    BY <1>1, <2>1, <2>2
<1>6. CASE ChatTick
  <2>1. GoOn /\ now' = now + 1 /\ UNCHANGED <<chat, slots, boots>>
    BY <1>6 DEF ChatTick, GoOn
  <2>2. RateHolds'
    BY <1>5, <2>1, RateFrame DEF RateInv
  <2>3. Tracked'
    <3> SUFFICES ASSUME NEW tier \in Tiers, NEW d \in Passed(boots)',
                        chat'[d].at > now' - Limits[tier].window
                 PROVE  d \in slots[tier]
      BY <2>1 DEF Tracked
    <3>1. d \in Passed(boots) /\ d \in Chats /\ chat'[d].at = chat[d].at
      BY <2>1 DEF Passed
    <3>2. chat[d].at > now - Limits[tier].window
      BY <1>1, <2>1, <3>1
    <3> QED
      BY <3>1, <3>2 DEF RateInv, Tracked
  <2> QED
    BY <2>2, <2>3
<1>7. CASE ChatRestart
  <2>1. GoOn /\ now' = now + 1 /\ boots' = boots + 1
    BY <1>7, RestartGoesOn DEF ChatRestart, RateInv
  <2>2. Passed(boots + 1) = {}
    <3>1. \A d \in Chats : Started(d) => chat[d].boot <= boots
      BY DEF RateInv, Stamps
    <3>2. \A d \in Chats : chat[d].boot = boots + 1 => ~Started(d)
      BY <1>1, <3>1
    <3> QED
      BY <3>2 DEF Passed, Started
  <2>3. Passed(boots)' = {}
    <3>1. PICK b : b = boots + 1
      OBVIOUS
    <3>2. Passed(b)' = {}
      BY <2>1, <2>2, <3>1, PassedBefore
    <3> QED
      BY <2>1, <3>1, <3>2 DEF Passed
  <2>4. Tracked'
    BY <2>3 DEF Tracked
  <2>5. ASSUME NEW b \in 0..boots', NEW tier \in Tiers, NEW end \in 0..now'
        PROVE  \/ PassedWithin(b, tier, end)' = {}
               \/ \E a \in 0..boots, e \in 0..now :
                    PassedWithin(b, tier, end)' \subseteq PassedWithin(a, tier, e)
    <3>1. CASE b = boots + 1
      <4>1. Passed(b)' = {}
        BY <2>1, <2>3, <3>1 DEF Passed
      <4> QED
        BY <4>1 DEF PassedWithin
    <3>2. CASE b # boots + 1
      <4>1. b \in 0..boots /\ end \in 0..(now + 1)
        BY <1>1, <2>1, <3>2
      <4> QED
        BY <1>5, <2>1, <4>1
    <3> QED
      BY <3>1, <3>2
  <2>6. RateHolds'
    BY <2>5, RateFrame DEF RateInv
  <2> QED
    BY <2>4, <2>6
<1> QED
  BY <1>2, <1>4, <1>6, <1>7, ChatSteps DEF RateInv

\* In no stretch as long as a window do more requests of an address outside of
\* _BYPASS_IPS pass than its limit, for any limits, windows and addresses let past,
\* wherever the stretch begins and however requests overlap (RateHolds).
THEOREM RatesHold == ChatSpec => []RateHolds
<1>1. ChatInit => Tracked /\ RateHolds
  <2> SUFFICES ASSUME ChatInit PROVE Tracked /\ RateHolds
    OBVIOUS
  <2>1. ChatTypeOK /\ \A c \in Chats : ~Started(c)
    BY ChatStart
  <2>2. \A b : Passed(b) = {}
    BY <2>1 DEF Passed, Started
  <2>3. \A b, tier, end : PassedWithin(b, tier, end) = {}
    BY <2>2 DEF PassedWithin
  <2>4. ASSUME NEW b, NEW tier \in Tiers, NEW end
        PROVE  Cardinality(PassedWithin(b, tier, end)) <= Limits[tier].max
    <3>1. PassedWithin(b, tier, end) = {}
      BY <2>3
    <3>2. Cardinality(PassedWithin(b, tier, end)) = 0
      BY <3>1, FS_EmptySet
    <3> QED
      BY <2>1, <3>2, Numbers
  <2>5. RateHolds
    BY <2>4, RateIs
  <2> QED
    BY <2>2, <2>5 DEF Tracked
<1>2. ChatTypeOK /\ ThreadInv /\ Tracked /\ RateHolds /\ [ChatNext]_chatVars
        => Tracked' /\ RateHolds'
  BY RateStep DEF RateInv, ThreadInv
<1> QED
  BY <1>1, <1>2, ChatInvariant, PTL DEF ChatSpec

(***************************************************************************)
(* VoiceSession                                                            *)
(***************************************************************************)
(* Types, and that the main loop is in an exchange unless it waits.        *)
VoiceTyped ==
  VoiceTypeOK /\ (stage \notin {"waiting", "closed"} => current \in Exchanges)

\* What is queued came after the current exchange and in the order it was said.
QueueInv ==
  /\ current <= uttered
  /\ \A i \in DOMAIN queue : queue[i] # End => current < queue[i] /\ queue[i] <= uttered
  /\ \A i, j \in DOMAIN queue :
       i < j /\ queue[i] # End /\ queue[j] # End => queue[i] < queue[j]

\* The answers of exchanges to come do not exist; one whose stream has not
\* opened has nothing spoken.
Past ==
  /\ \A e \in broken : e <= current
  /\ \A i \in DOMAIN sent : sent[i][1] <= current
  /\ \A a \in tasks : a[1] <= current /\ a[2] # Whole
  /\ stage \in {"transcribing", "opening", "streaming", "joining", "last"} => current \notin broken

Unspoken ==
  /\ \/ stage \in {"transcribing", "opening"}
     \/ stage \in {"asking", "whole"} /\ current \notin broken
     => /\ \A i \in DOMAIN sent : sent[i][1] # current
        /\ \A a \in tasks : a[1] # current
  /\ stage \in {"asking", "whole"} =>
       \A i \in DOMAIN sent : sent[i] # <<current, Whole>>
  /\ stage \in {"streaming", "joining", "last"} =>
       \A i \in DOMAIN sent : sent[i][1] = current => sent[i][2] \in 1..produced

\* One sentence at a time is being made into speech, the last one produced,
\* but for what broken streams have left.
Making ==
  /\ \A a \in tasks : a[1] \notin broken =>
       /\ a[1] = current /\ stage \in {"streaming", "joining", "closed"}
       /\ stage # "closed" => a[2] <= produced
       /\ \A b \in tasks : b[1] \notin broken => a = b
       /\ \A i \in DOMAIN sent : sent[i][1] = current => sent[i][2] < a[2]

\* Nothing is said twice.
Once ==
  /\ \A i, j \in DOMAIN sent : i # j => sent[i] # sent[j]
  /\ \A i \in DOMAIN sent : sent[i] \notin tasks

\* From the first stop until its speech is over the event stays set.
Stops ==
  /\ \A e \in Exchanges : e > current => stoppedAt[e] = NeverStopped
  /\ stage = "transcribing" => stoppedAt[current] = NeverStopped
  /\ stage \in Speaking /\ stoppedAt[current] # NeverStopped => stop
  /\ \A a \in tasks : a[1] \in broken \/ stoppedAt[a[1]] = NeverStopped \/ stop

VoiceInv == /\ VoiceTyped /\ QueueInv /\ Past /\ Unspoken /\ Making /\ Once
            /\ SpokenInOrder /\ Stops /\ StoppedStaysSilent

\* A piece of speech is of an exchange and has its number in the answer.
LEMMA AudioPairs ==
  ASSUME NEW a \in Audio
  PROVE  /\ a[1] \in Exchanges /\ a[2] \in 0..(MaxSentences + 1) /\ a = <<a[1], a[2]>>
         /\ a[1] \in Nat /\ a[2] \in Nat
  BY VoiceAssumption DEF Audio, Exchanges

LEMMA SpokenPairs ==
  ASSUME VoiceTyped
  PROVE  /\ \A i \in DOMAIN sent : sent[i] \in Audio /\ sent[i][1] \in Nat /\ sent[i][2] \in Nat
         /\ \A a \in tasks : a \in Audio /\ a[1] \in Nat /\ a[2] \in Nat
         /\ DOMAIN sent = 1..Len(sent) /\ Len(sent) \in Nat
<1>1. sent \in Seq(Audio) /\ tasks \subseteq Audio
  BY DEF VoiceTyped, VoiceTypeOK
<1>2. DOMAIN sent = 1..Len(sent) /\ Len(sent) \in Nat /\ \A i \in 1..Len(sent) : sent[i] \in Audio
  BY <1>1
<1>3. QED BY <1>1, <1>2, AudioPairs

\* What has been sent, each once, fits below the mark for "not stopped".
LEMMA SentIsShort ==
  ASSUME VoiceTyped, Once
  PROVE  Len(sent) < NeverStopped /\ NeverStopped \in Nat
<1> DEFINE A == MaxExchanges
           B == MaxSentences + 2
           N == Len(sent)
           S == 0..(MaxSentences + 1)
<1>1. N \in Nat /\ DOMAIN sent = 1..N /\ \A i \in 1..N : sent[i] \in Audio
  BY SpokenPairs
<1>2. IsFiniteSet(Exchanges) /\ Cardinality(Exchanges) = A
  <2>1. IsFiniteSet(1..A) /\ Cardinality(1..A) = IF 1 > A THEN 0 ELSE A - 1 + 1
    BY FS_Interval, VoiceAssumption
  <2>2. QED BY <2>1, VoiceAssumption DEF Exchanges
<1>3. IsFiniteSet(S) /\ Cardinality(S) = B
  <2>1. IsFiniteSet(S) /\ Cardinality(S) = IF 0 > MaxSentences + 1 THEN 0 ELSE MaxSentences + 1 - 0 + 1
    BY FS_Interval, VoiceAssumption
  <2>2. QED BY <2>1, VoiceAssumption
<1>4. IsFiniteSet(Audio) /\ Cardinality(Audio) = A * B
  <2>1. Audio = Exchanges \X S
    BY DEF Audio
  <2> HIDE DEF A, B, S
  <2>2. QED BY <1>2, <1>3, <2>1, FS_Product
<1>5. sent \in Injection(1..N, Audio)
  <2>1. sent \in [1..N -> Audio]
    BY <1>1 DEF VoiceTyped, VoiceTypeOK
  <2>2. QED BY <1>1, <2>1 DEF Once, Injection, IsInjective
<1>6. Cardinality(1..N) <= Cardinality(Audio)
  BY <1>4, <1>5, FS_Injection
<1>7. Cardinality(1..N) = N
  <2>1. Cardinality(1..N) = IF 1 > N THEN 0 ELSE N - 1 + 1
    BY <1>1, FS_Interval
  <2>2. QED BY <1>1, <2>1
<1>8. N <= A * B
  BY <1>4, <1>6, <1>7
<1>9. A * B \in Nat
  BY VoiceAssumption
<1>10. NeverStopped = A * B + 1
  BY DEF NeverStopped
<1> HIDE DEF A, B
<1>11. QED BY <1>1, <1>8, <1>9, <1>10

\* The head of the queue is an exchange to come and the rest come after it.
LEMMA Ahead ==
  ASSUME VoiceTyped, QueueInv, queue # << >>
  PROVE  /\ Head(queue) \in Exchanges \cup {End}
         /\ Head(queue) # End => Head(queue) > current /\ Head(queue) <= uttered
         /\ Tail(queue) \in Seq(Exchanges \cup {End})
         /\ DOMAIN Tail(queue) = 1..(Len(queue) - 1) /\ Len(queue) \in Nat \ {0}
         /\ \A i \in DOMAIN Tail(queue) :
              /\ Tail(queue)[i] = queue[i + 1] /\ i + 1 \in DOMAIN queue
              /\ Tail(queue)[i] \in Exchanges \cup {End}
              /\ Head(queue) # End /\ Tail(queue)[i] # End => Tail(queue)[i] > Head(queue)
<1> DEFINE T == Exchanges \cup {End}
<1>1. queue \in Seq(T)
  BY DEF VoiceTyped, VoiceTypeOK
<1>2. /\ Head(queue) = queue[1] /\ Tail(queue) \in Seq(T) /\ Head(queue) \in T
      /\ Len(queue) \in Nat \ {0} /\ Len(Tail(queue)) = Len(queue) - 1
      /\ DOMAIN queue = 1..Len(queue)
      /\ DOMAIN Tail(queue) = 1..(Len(queue) - 1)
      /\ \A i \in 1..(Len(queue) - 1) : Tail(queue)[i] = queue[i + 1]
  BY <1>1
<1>3. \A i \in DOMAIN Tail(queue) : i + 1 \in DOMAIN queue /\ 1 < i + 1 /\ Tail(queue)[i] \in T
  BY <1>2
<1>4. 1 \in DOMAIN queue
  BY <1>2
<1>5. T \subseteq Nat /\ current \in Nat /\ uttered \in Nat
  BY VoiceAssumption DEF Exchanges, End, VoiceTyped, VoiceTypeOK
<1> HIDE DEF T
<1>6. QED BY <1>2, <1>3, <1>4, <1>5 DEF QueueInv, T

\* A sentence is sent whose turn it is.
LEMMA SaidInOrder ==
  ASSUME VoiceTyped, SpokenInOrder, NEW a \in Audio,
         sent' = Append(sent, a), broken' = broken,
         \A i \in DOMAIN sent :
           \/ sent[i][1] \in broken \/ a[1] \in broken \/ sent[i][1] < a[1]
           \/ sent[i][1] = a[1] /\ sent[i][2] < a[2]
  PROVE  SpokenInOrder'
<1>1. /\ sent \in Seq(Audio) /\ Len(sent) \in Nat /\ DOMAIN sent = 1..Len(sent)
      /\ DOMAIN sent' = 1..(Len(sent) + 1)
      /\ \A i \in 1..Len(sent) : sent'[i] = sent[i]
      /\ sent'[Len(sent) + 1] = a
  BY DEF VoiceTyped, VoiceTypeOK
<1>2. ASSUME NEW i \in DOMAIN sent', NEW j \in DOMAIN sent', i < j
      PROVE  \/ sent'[i][1] \in broken \/ sent'[j][1] \in broken
             \/ sent'[i][1] < sent'[j][1]
             \/ sent'[i][1] = sent'[j][1] /\ sent'[i][2] < sent'[j][2]
  <2>1. i \in DOMAIN sent /\ sent'[i] = sent[i]
    BY <1>1, <1>2
  <2>2. CASE j = Len(sent) + 1
    BY <1>1, <2>1, <2>2
  <2>3. CASE j # Len(sent) + 1
    <3>1. j \in DOMAIN sent /\ sent'[j] = sent[j]
      BY <1>1, <2>3
    <3>2. QED BY <1>2, <2>1, <3>1 DEF SpokenInOrder
  <2>4. QED BY <2>2, <2>3
<1>3. QED BY <1>2 DEF SpokenInOrder

\* A sentence is sent that had not been sent.
LEMMA SaidOnce ==
  ASSUME VoiceTyped, Once, NEW a \in Audio, sent' = Append(sent, a),
         \A i \in DOMAIN sent : sent[i] # a, tasks' \subseteq tasks, a \notin tasks'
  PROVE  Once' /\ sent' \in Seq(Audio)
<1>1. /\ sent \in Seq(Audio) /\ Len(sent) \in Nat /\ DOMAIN sent = 1..Len(sent)
      /\ DOMAIN sent' = 1..(Len(sent) + 1) /\ sent' \in Seq(Audio)
      /\ \A i \in 1..Len(sent) : sent'[i] = sent[i]
      /\ sent'[Len(sent) + 1] = a
  BY DEF VoiceTyped, VoiceTypeOK
<1>2. ASSUME NEW i \in DOMAIN sent'
      PROVE  (i \in DOMAIN sent /\ sent'[i] = sent[i]) \/ (i = Len(sent) + 1 /\ sent'[i] = a)
  BY <1>1
<1>3. QED BY <1>1, <1>2 DEF Once

\* A sentence is sent that no stop was meant for.
LEMMA SaidUnstopped ==
  ASSUME VoiceTyped, Once, StoppedStaysSilent, NEW a \in Audio, sent' = Append(sent, a),
         UNCHANGED <<broken, stoppedAt>>,
         \/ a[1] \in broken \/ a[2] = Whole \/ stoppedAt[a[1]] = NeverStopped
  PROVE  StoppedStaysSilent'
<1>1. /\ sent \in Seq(Audio) /\ Len(sent) \in Nat /\ DOMAIN sent = 1..Len(sent)
      /\ DOMAIN sent' = 1..(Len(sent) + 1)
      /\ \A i \in 1..Len(sent) : sent'[i] = sent[i]
      /\ sent'[Len(sent) + 1] = a
  BY DEF VoiceTyped, VoiceTypeOK
<1>2. Len(sent) < NeverStopped /\ NeverStopped \in Nat
  BY SentIsShort
<1>3. ASSUME NEW i \in DOMAIN sent', i > stoppedAt[sent'[i][1]]
      PROVE  sent'[i][2] = Whole \/ sent'[i][1] \in broken
  <2>1. CASE i \in DOMAIN sent
    BY <1>1, <1>3, <2>1 DEF StoppedStaysSilent
  <2>2. CASE i = Len(sent) + 1
    <3>1. CASE stoppedAt[a[1]] = NeverStopped
      BY <1>1, <1>2, <1>3, <2>2, <3>1
    <3>2. QED BY <1>1, <2>2, <3>1
  <2>3. QED BY <1>1, <2>1, <2>2
<1>4. QED BY <1>3 DEF StoppedStaysSilent


\* What is heard after one more piece is what was heard before, or that piece.
LEMMA Appended ==
  ASSUME VoiceTyped, NEW a \in Audio, sent' = Append(sent, a)
  PROVE  \A i \in DOMAIN sent' : (i \in DOMAIN sent /\ sent'[i] = sent[i]) \/ sent'[i] = a
  BY DEF VoiceTyped, VoiceTypeOK

(* One lemma for each action, one step for each part of VoiceInv: the      *)
(* actions that send something first show what they append.                *)
LEMMA UtterStep ==
  ASSUME VoiceInv, Utter PROVE VoiceInv'
<1> USE VoiceAssumption DEF VoiceInv
<1>1. VoiceTyped'
  BY DEF Utter, client, speech, VoiceTyped, VoiceTypeOK, VoiceStages, Exchanges, End
<1>2. QueueInv'
  BY DEF Utter, client, speech, QueueInv, VoiceTyped, VoiceTypeOK, End, Exchanges
<1>3. Past'
  BY DEF Utter, client, speech, Past, VoiceTyped, VoiceTypeOK
<1>4. Unspoken'
  BY DEF Utter, client, speech, Past, Unspoken, VoiceTyped, VoiceTypeOK
<1>5. Making'
  BY DEF Utter, client, speech, Making, Unspoken, Past
<1>6. Once'
  BY DEF Utter, client, speech, Once
<1>7. SpokenInOrder'
  BY DEF Utter, client, speech, SpokenInOrder
<1>8. Stops'
  BY DEF Utter, client, speech, Stops, Making, VoiceTyped, VoiceTypeOK, Exchanges, Speaking
<1>9. StoppedStaysSilent'
  BY DEF Utter, client, speech, StoppedStaysSilent, VoiceTyped, VoiceTypeOK
<1>10. QED BY <1>1, <1>2, <1>3, <1>4, <1>5, <1>6, <1>7, <1>8, <1>9

LEMMA StopAudioStep ==
  ASSUME VoiceInv, StopAudio PROVE VoiceInv'
<1> USE VoiceAssumption DEF VoiceInv
<1>1. VoiceTyped'
  <2>1. Len(sent) \in 0..NeverStopped
    BY SentIsShort, SpokenPairs
  <2>2. stage \in Speaking => current \in Exchanges
    BY DEF VoiceTyped, Speaking
  <2>3. stoppedAt' \in [Exchanges -> 0..NeverStopped]
    BY <2>1, <2>2 DEF StopAudio, VoiceTyped, VoiceTypeOK
  <2>4. QED BY <2>3 DEF StopAudio, client, speech, VoiceTyped, VoiceTypeOK
<1>2. QueueInv'
  BY DEF StopAudio, client, speech, QueueInv, VoiceTyped, VoiceTypeOK, End, Exchanges
<1>3. Past'
  BY DEF StopAudio, client, speech, Past, VoiceTyped, VoiceTypeOK
<1>4. Unspoken'
  BY DEF StopAudio, client, speech, Past, Unspoken, VoiceTyped, VoiceTypeOK
<1>5. Making'
  BY DEF StopAudio, client, speech, Making, Unspoken, Past
<1>6. Once'
  BY DEF StopAudio, client, speech, Once
<1>7. SpokenInOrder'
  BY DEF StopAudio, client, speech, SpokenInOrder
<1>8. Stops'
  BY DEF StopAudio, client, speech, Stops, Making, VoiceTyped, VoiceTypeOK, Exchanges, Speaking
<1>9. StoppedStaysSilent'
  BY DEF StopAudio, client, speech, StoppedStaysSilent, VoiceTyped, VoiceTypeOK
<1>10. QED BY <1>1, <1>2, <1>3, <1>4, <1>5, <1>6, <1>7, <1>8, <1>9

LEMMA ListenerEndsStep ==
  ASSUME VoiceInv, ListenerEnds PROVE VoiceInv'
<1> USE VoiceAssumption DEF VoiceInv
<1>1. VoiceTyped'
  <2>1. connected' \in BOOLEAN /\ listening' \in BOOLEAN
    BY DEF ListenerEnds, VoiceTyped, VoiceTypeOK
  <2>2. queue' \in Seq(Exchanges \cup {End})
    BY DEF ListenerEnds, VoiceTyped, VoiceTypeOK
  <2>3. QED BY <2>1, <2>2 DEF ListenerEnds, speech, VoiceTyped, VoiceTypeOK
<1>2. QueueInv'
  BY DEF ListenerEnds, client, speech, QueueInv, VoiceTyped, VoiceTypeOK, End, Exchanges
<1>3. Past'
  BY DEF ListenerEnds, client, speech, Past, VoiceTyped, VoiceTypeOK
<1>4. Unspoken'
  BY DEF ListenerEnds, client, speech, Past, Unspoken, VoiceTyped, VoiceTypeOK
<1>5. Making'
  BY DEF ListenerEnds, client, speech, Making, Unspoken, Past
<1>6. Once'
  BY DEF ListenerEnds, client, speech, Once
<1>7. SpokenInOrder'
  BY DEF ListenerEnds, client, speech, SpokenInOrder
<1>8. Stops'
  BY DEF ListenerEnds, client, speech, Stops, Making, VoiceTyped, VoiceTypeOK, Exchanges, Speaking
<1>9. StoppedStaysSilent'
  BY DEF ListenerEnds, client, speech, StoppedStaysSilent, VoiceTyped, VoiceTypeOK
<1>10. QED BY <1>1, <1>2, <1>3, <1>4, <1>5, <1>6, <1>7, <1>8, <1>9

LEMMA TakeStep ==
  ASSUME VoiceInv, Take PROVE VoiceInv'
<1> USE VoiceAssumption DEF VoiceInv
<1>0. /\ \/ current' = current /\ stage' = "waiting"
         \/ current' > current /\ stage' = "transcribing"
      /\ stage = "waiting" /\ current \in Nat /\ current' \in Nat /\ broken \subseteq Exchanges
      /\ current' >= current /\ UNCHANGED <<speech, broken, stop, produced, stoppedAt>>
  <2>1. Head(queue) # End => Head(queue) > current /\ Head(queue) \in Nat
    BY Ahead DEF Take, Exchanges
  <2>2. QED BY <2>1 DEF Take, VoiceTyped, VoiceTypeOK
<1>1. VoiceTyped'
  <2>1. Head(queue) \in Exchanges /\ queue' \in Seq(Exchanges \cup {End})
    BY Ahead DEF Take
  <2>2. current' \in 0..MaxExchanges /\ stage' \in VoiceStages
    BY <2>1 DEF Take, VoiceTyped, VoiceTypeOK, Exchanges, VoiceStages
  <2>3. stage' \notin {"waiting", "closed"} => current' \in Exchanges
    BY <2>1 DEF Take, VoiceTyped
  <2>4. QED BY <2>1, <2>2, <2>3 DEF Take, speech, VoiceTyped, VoiceTypeOK
<1>2. QueueInv'
  <2>1. QueueInv /\ current \in Nat /\ uttered \in Nat
    BY DEF VoiceTyped, VoiceTypeOK
  <2>2. queue # << >> /\ Head(queue) # End /\ queue' = Tail(queue) /\ uttered' = uttered
        /\ current' \in {current, Head(queue)}
    BY DEF Take
  <2>3. QED BY <2>1, <2>2, Ahead DEF QueueInv
<1>3. Past'
  BY <1>0, SpokenPairs DEF Past, speech, Exchanges
<1>4. Unspoken'
  BY <1>0, SpokenPairs DEF Past, Unspoken, speech
<1>5. Making'
  BY DEF Take, client, speech, Making, Unspoken, Past
<1>6. Once'
  BY DEF Take, client, speech, Once
<1>7. SpokenInOrder'
  BY DEF Take, client, speech, SpokenInOrder
<1>8. Stops'
  <2>1. \A a \in tasks : a[1] \in broken
    BY <1>0 DEF Making
  <2>2. current' > current => current' \in Exchanges
    BY <1>1, <1>0 DEF VoiceTyped
  <2>3. QED BY <1>0, <2>1, <2>2 DEF Stops, Speaking, speech, Exchanges
<1>9. StoppedStaysSilent'
  BY DEF Take, client, speech, StoppedStaysSilent, VoiceTyped, VoiceTypeOK
<1>10. QED BY <1>1, <1>2, <1>3, <1>4, <1>5, <1>6, <1>7, <1>8, <1>9

LEMMA TakeEndStep ==
  ASSUME VoiceInv, TakeEnd PROVE VoiceInv'
<1> USE VoiceAssumption DEF VoiceInv
<1>1. VoiceTyped'
  <2>1. queue' \in Seq(Exchanges \cup {End})
    BY Ahead DEF TakeEnd
  <2>2. QED BY <2>1 DEF TakeEnd, Close, speech, VoiceTyped, VoiceTypeOK, VoiceStages
<1>2. QueueInv'
  <2>1. /\ queue # << >> /\ queue' = Tail(queue) /\ UNCHANGED <<current, uttered>>
        /\ current \in Nat /\ uttered \in Nat
    BY DEF TakeEnd, Close, VoiceTyped, VoiceTypeOK
  <2>2. QED BY <2>1, Ahead DEF QueueInv
<1>3. Past'
  BY DEF TakeEnd, Close, client, speech, Past, VoiceTyped, VoiceTypeOK
<1>4. Unspoken'
  BY DEF TakeEnd, Close, client, speech, Past, Unspoken, VoiceTyped, VoiceTypeOK
<1>5. Making'
  BY DEF TakeEnd, Close, client, speech, Making, Unspoken, Past
<1>6. Once'
  BY DEF TakeEnd, Close, client, speech, Once
<1>7. SpokenInOrder'
  BY DEF TakeEnd, Close, client, speech, SpokenInOrder
<1>8. Stops'
  BY DEF TakeEnd, Close, client, speech, Stops, Making, VoiceTyped, VoiceTypeOK, Exchanges, Speaking
<1>9. StoppedStaysSilent'
  BY DEF TakeEnd, Close, client, speech, StoppedStaysSilent, VoiceTyped, VoiceTypeOK
<1>10. QED BY <1>1, <1>2, <1>3, <1>4, <1>5, <1>6, <1>7, <1>8, <1>9

LEMMA MainFailsStep ==
  ASSUME VoiceInv, MainFails PROVE VoiceInv'
<1> USE VoiceAssumption DEF VoiceInv
<1>1. VoiceTyped'
  BY DEF MainFails, Close, client, speech, VoiceTyped, VoiceTypeOK, VoiceStages, Exchanges, End
<1>2. QueueInv'
  BY DEF MainFails, Close, client, speech, QueueInv, VoiceTyped, VoiceTypeOK, End, Exchanges
<1>3. Past'
  BY DEF MainFails, Close, client, speech, Past, VoiceTyped, VoiceTypeOK
<1>4. Unspoken'
  BY DEF MainFails, Close, client, speech, Past, Unspoken, VoiceTyped, VoiceTypeOK
<1>5. Making'
  BY DEF MainFails, Close, client, speech, Making, Unspoken, Past
<1>6. Once'
  BY DEF MainFails, Close, client, speech, Once
<1>7. SpokenInOrder'
  BY DEF MainFails, Close, client, speech, SpokenInOrder
<1>8. Stops'
  BY DEF MainFails, Close, client, speech, Stops, Making, VoiceTyped, VoiceTypeOK, Exchanges, Speaking
<1>9. StoppedStaysSilent'
  BY DEF MainFails, Close, client, speech, StoppedStaysSilent, VoiceTyped, VoiceTypeOK
<1>10. QED BY <1>1, <1>2, <1>3, <1>4, <1>5, <1>6, <1>7, <1>8, <1>9

LEMMA MisheardStep ==
  ASSUME VoiceInv, Misheard PROVE VoiceInv'
<1> USE VoiceAssumption DEF VoiceInv
<1>1. VoiceTyped'
  BY DEF Misheard, client, speech, VoiceTyped, VoiceTypeOK, VoiceStages, Exchanges, End
<1>2. QueueInv'
  BY DEF Misheard, client, speech, QueueInv, VoiceTyped, VoiceTypeOK, End, Exchanges
<1>3. Past'
  BY DEF Misheard, client, speech, Past, VoiceTyped, VoiceTypeOK
<1>4. Unspoken'
  BY DEF Misheard, client, speech, Past, Unspoken, VoiceTyped, VoiceTypeOK
<1>5. Making'
  BY DEF Misheard, client, speech, Making, Unspoken, Past
<1>6. Once'
  BY DEF Misheard, client, speech, Once
<1>7. SpokenInOrder'
  BY DEF Misheard, client, speech, SpokenInOrder
<1>8. Stops'
  BY DEF Misheard, client, speech, Stops, Making, VoiceTyped, VoiceTypeOK, Exchanges, Speaking
<1>9. StoppedStaysSilent'
  BY DEF Misheard, client, speech, StoppedStaysSilent, VoiceTyped, VoiceTypeOK
<1>10. QED BY <1>1, <1>2, <1>3, <1>4, <1>5, <1>6, <1>7, <1>8, <1>9

LEMMA TranscribedStep ==
  ASSUME VoiceInv, Transcribed PROVE VoiceInv'
<1> USE VoiceAssumption DEF VoiceInv
<1>1. VoiceTyped'
  <2>1. produced' \in 0..MaxSentences
    BY DEF Transcribed
  <2>2. failed' \in SUBSET Audio
    BY DEF Transcribed
  <2>3. stop' \in BOOLEAN
    BY DEF Transcribed
  <2>4. stage' \in VoiceStages /\ (stage' \notin {"waiting", "closed"} => current \in Exchanges)
    BY DEF Transcribed, VoiceTyped, VoiceStages
  <2>5. QED BY <2>1, <2>2, <2>3, <2>4 DEF Transcribed, client, VoiceTyped, VoiceTypeOK
<1>2. QueueInv'
  BY DEF Transcribed, client, speech, QueueInv, VoiceTyped, VoiceTypeOK, End, Exchanges
<1>3. Past'
  BY DEF Transcribed, client, speech, Past, VoiceTyped, VoiceTypeOK
<1>4. Unspoken'
  BY DEF Transcribed, client, speech, Past, Unspoken, VoiceTyped, VoiceTypeOK
<1>5. Making'
  BY DEF Transcribed, client, speech, Making, Unspoken, Past
<1>6. Once'
  BY DEF Transcribed, client, speech, Once
<1>7. SpokenInOrder'
  BY DEF Transcribed, client, speech, SpokenInOrder
<1>8. Stops'
  BY DEF Transcribed, client, speech, Stops, Making, VoiceTyped, VoiceTypeOK, Exchanges, Speaking
<1>9. StoppedStaysSilent'
  BY DEF Transcribed, client, speech, StoppedStaysSilent, VoiceTyped, VoiceTypeOK
<1>10. QED BY <1>1, <1>2, <1>3, <1>4, <1>5, <1>6, <1>7, <1>8, <1>9

LEMMA StreamOpensStep ==
  ASSUME VoiceInv, StreamOpens PROVE VoiceInv'
<1> USE VoiceAssumption DEF VoiceInv
<1>1. VoiceTyped'
  BY DEF StreamOpens, client, speech, VoiceTyped, VoiceTypeOK, VoiceStages, Exchanges, End
<1>2. QueueInv'
  BY DEF StreamOpens, client, speech, QueueInv, VoiceTyped, VoiceTypeOK, End, Exchanges
<1>3. Past'
  BY DEF StreamOpens, client, speech, Past, VoiceTyped, VoiceTypeOK
<1>4. Unspoken'
  BY DEF StreamOpens, client, speech, Past, Unspoken, VoiceTyped, VoiceTypeOK
<1>5. Making'
  BY DEF StreamOpens, client, speech, Making, Unspoken, Past
<1>6. Once'
  BY DEF StreamOpens, client, speech, Once
<1>7. SpokenInOrder'
  BY DEF StreamOpens, client, speech, SpokenInOrder
<1>8. Stops'
  BY DEF StreamOpens, client, speech, Stops, Making, VoiceTyped, VoiceTypeOK, Exchanges, Speaking
<1>9. StoppedStaysSilent'
  BY DEF StreamOpens, client, speech, StoppedStaysSilent, VoiceTyped, VoiceTypeOK
<1>10. QED BY <1>1, <1>2, <1>3, <1>4, <1>5, <1>6, <1>7, <1>8, <1>9

LEMMA StreamSentenceStep ==
  ASSUME VoiceInv, StreamSentence PROVE VoiceInv'
<1> USE VoiceAssumption DEF VoiceInv
<1> DEFINE n == <<current, produced + 1>>
<1>0. /\ n \in Audio /\ n[1] = current /\ n[2] = produced + 1 /\ produced \in 0..MaxSentences
      /\ tasks' = tasks \cup {n} /\ current \notin broken /\ current \in Nat /\ stage = "streaming"
      /\ produced' = produced + 1
      /\ UNCHANGED <<client, stage, current, stop, failed, sent, broken, stoppedAt>>
  <2>1. current \in Exchanges /\ produced + 1 \in 1..MaxSentences /\ current \in Nat
    BY DEF StreamSentence, VoiceTyped, VoiceTypeOK
  <2>2. n \in Audio
    BY <2>1 DEF Audio
  <2>3. QED BY <2>1, <2>2 DEF StreamSentence, VoiceTyped, VoiceTypeOK, Past
<1> HIDE DEF n
<1>1. VoiceTyped'
  <2>1. tasks' \in SUBSET Audio
    BY <1>0 DEF VoiceTyped, VoiceTypeOK
  <2>2. produced' \in 0..MaxSentences
    BY DEF StreamSentence, VoiceTyped, VoiceTypeOK
  <2>3. QED BY <1>0, <2>1, <2>2 DEF client, VoiceTyped, VoiceTypeOK
<1>2. QueueInv'
  BY DEF StreamSentence, client, speech, QueueInv, VoiceTyped, VoiceTypeOK, End, Exchanges
<1>3. Past'
  BY <1>0 DEF Past, Whole
<1>4. Unspoken'
  BY <1>0 DEF Unspoken
<1>5. Making'
  <2>1. \A a \in tasks : a[1] \in broken
    BY DEF StreamSentence, Mine, Making
  <2>2. \A i \in DOMAIN sent : sent[i][1] = current => sent[i][2] \in 1..produced
    BY <1>0 DEF Unspoken
  <2>3. \A i \in DOMAIN sent : sent[i][1] = current => sent[i][2] < produced + 1
    BY <1>0, <2>2
  <2>4. QED BY <1>0, <2>1, <2>3 DEF Making
<1>6. Once'
  <2>1. \A i \in DOMAIN sent : sent[i][1] = current => sent[i][2] \in 1..produced
    BY <1>0 DEF Unspoken
  <2>2. \A i \in DOMAIN sent : sent[i] # n
    BY <1>0, <2>1
  <2>3. QED BY <1>0, <2>2 DEF Once
<1>7. SpokenInOrder'
  BY DEF StreamSentence, client, speech, SpokenInOrder
<1>8. Stops'
  <2>1. stoppedAt[current] = NeverStopped
    BY <1>0 DEF StreamSentence, Stops, Speaking
  <2>2. QED BY <1>0, <2>1 DEF Stops
<1>9. StoppedStaysSilent'
  BY DEF StreamSentence, client, speech, StoppedStaysSilent, VoiceTyped, VoiceTypeOK
<1>10. QED BY <1>1, <1>2, <1>3, <1>4, <1>5, <1>6, <1>7, <1>8, <1>9

LEMMA StreamEndsStep ==
  ASSUME VoiceInv, StreamEnds PROVE VoiceInv'
<1> USE VoiceAssumption DEF VoiceInv
<1>1. VoiceTyped'
  BY DEF StreamEnds, client, speech, VoiceTyped, VoiceTypeOK, VoiceStages, Exchanges, End
<1>2. QueueInv'
  BY DEF StreamEnds, client, speech, QueueInv, VoiceTyped, VoiceTypeOK, End, Exchanges
<1>3. Past'
  BY DEF StreamEnds, client, speech, Past, VoiceTyped, VoiceTypeOK
<1>4. Unspoken'
  BY DEF StreamEnds, client, speech, Past, Unspoken, VoiceTyped, VoiceTypeOK
<1>5. Making'
  BY DEF StreamEnds, client, speech, Making, Unspoken, Past
<1>6. Once'
  BY DEF StreamEnds, client, speech, Once
<1>7. SpokenInOrder'
  BY DEF StreamEnds, client, speech, SpokenInOrder
<1>8. Stops'
  BY DEF StreamEnds, client, speech, Stops, Making, VoiceTyped, VoiceTypeOK, Exchanges, Speaking
<1>9. StoppedStaysSilent'
  BY DEF StreamEnds, client, speech, StoppedStaysSilent, VoiceTyped, VoiceTypeOK
<1>10. QED BY <1>1, <1>2, <1>3, <1>4, <1>5, <1>6, <1>7, <1>8, <1>9

LEMMA StreamBreaksStep ==
  ASSUME VoiceInv, StreamBreaks PROVE VoiceInv'
<1> USE VoiceAssumption DEF VoiceInv
<1>1. VoiceTyped'
  BY DEF StreamBreaks, client, speech, VoiceTyped, VoiceTypeOK, VoiceStages, Exchanges, End
<1>2. QueueInv'
  BY DEF StreamBreaks, client, speech, QueueInv, VoiceTyped, VoiceTypeOK, End, Exchanges
<1>3. Past'
  BY DEF StreamBreaks, client, speech, Past, VoiceTyped, VoiceTypeOK
<1>4. Unspoken'
  <2>1. \A i \in DOMAIN sent : sent[i] # <<current, Whole>>
    <3>1. CASE stage = "opening"
      BY <3>1 DEF Unspoken
    <3>2. CASE stage = "streaming"
      <4>1. \A i \in DOMAIN sent : sent[i][1] = current => sent[i][2] \in 1..produced
        BY <3>2 DEF Unspoken
      <4>2. QED BY <4>1 DEF Whole
    <3>3. QED BY <3>1, <3>2 DEF StreamBreaks
  <2>2. QED BY <2>1 DEF StreamBreaks, Unspoken, speech
<1>5. Making'
  BY DEF StreamBreaks, client, speech, Making, Unspoken, Past
<1>6. Once'
  BY DEF StreamBreaks, client, speech, Once
<1>7. SpokenInOrder'
  BY DEF StreamBreaks, client, speech, SpokenInOrder
<1>8. Stops'
  BY DEF StreamBreaks, client, speech, Stops, Making, VoiceTyped, VoiceTypeOK, Exchanges, Speaking
<1>9. StoppedStaysSilent'
  BY DEF StreamBreaks, client, speech, StoppedStaysSilent, VoiceTyped, VoiceTypeOK
<1>10. QED BY <1>1, <1>2, <1>3, <1>4, <1>5, <1>6, <1>7, <1>8, <1>9

LEMMA AskedStep ==
  ASSUME VoiceInv, Asked PROVE VoiceInv'
<1> USE VoiceAssumption DEF VoiceInv
<1>1. VoiceTyped'
  BY DEF Asked, client, speech, VoiceTyped, VoiceTypeOK, VoiceStages, Exchanges, End
<1>2. QueueInv'
  BY DEF Asked, client, speech, QueueInv, VoiceTyped, VoiceTypeOK, End, Exchanges
<1>3. Past'
  BY DEF Asked, client, speech, Past, VoiceTyped, VoiceTypeOK
<1>4. Unspoken'
  BY DEF Asked, client, speech, Past, Unspoken, VoiceTyped, VoiceTypeOK
<1>5. Making'
  BY DEF Asked, client, speech, Making, Unspoken, Past
<1>6. Once'
  BY DEF Asked, client, speech, Once
<1>7. SpokenInOrder'
  BY DEF Asked, client, speech, SpokenInOrder
<1>8. Stops'
  BY DEF Asked, client, speech, Stops, Making, VoiceTyped, VoiceTypeOK, Exchanges, Speaking
<1>9. StoppedStaysSilent'
  BY DEF Asked, client, speech, StoppedStaysSilent, VoiceTyped, VoiceTypeOK
<1>10. QED BY <1>1, <1>2, <1>3, <1>4, <1>5, <1>6, <1>7, <1>8, <1>9

LEMMA JoinFailsStep ==
  ASSUME VoiceInv, JoinFails PROVE VoiceInv'
<1> USE VoiceAssumption DEF VoiceInv
<1>1. VoiceTyped'
  BY DEF JoinFails, Close, client, speech, VoiceTyped, VoiceTypeOK, VoiceStages, Exchanges, End
<1>2. QueueInv'
  BY DEF JoinFails, Close, client, speech, QueueInv, VoiceTyped, VoiceTypeOK, End, Exchanges
<1>3. Past'
  BY DEF JoinFails, Close, client, speech, Past, VoiceTyped, VoiceTypeOK
<1>4. Unspoken'
  BY DEF JoinFails, Close, client, speech, Past, Unspoken, VoiceTyped, VoiceTypeOK
<1>5. Making'
  BY DEF JoinFails, Close, client, speech, Making, Unspoken, Past
<1>6. Once'
  BY DEF JoinFails, Close, client, speech, Once
<1>7. SpokenInOrder'
  BY DEF JoinFails, Close, client, speech, SpokenInOrder
<1>8. Stops'
  BY DEF JoinFails, Close, client, speech, Stops, Making, VoiceTyped, VoiceTypeOK, Exchanges, Speaking
<1>9. StoppedStaysSilent'
  BY DEF JoinFails, Close, client, speech, StoppedStaysSilent, VoiceTyped, VoiceTypeOK
<1>10. QED BY <1>1, <1>2, <1>3, <1>4, <1>5, <1>6, <1>7, <1>8, <1>9

LEMMA JoinedStep ==
  ASSUME VoiceInv, Joined PROVE VoiceInv'
<1> USE VoiceAssumption DEF VoiceInv
<1>1. VoiceTyped'
  BY DEF Joined, client, speech, VoiceTyped, VoiceTypeOK, VoiceStages, Exchanges, End
<1>2. QueueInv'
  BY DEF Joined, client, speech, QueueInv, VoiceTyped, VoiceTypeOK, End, Exchanges
<1>3. Past'
  BY DEF Joined, client, speech, Past, VoiceTyped, VoiceTypeOK
<1>4. Unspoken'
  BY DEF Joined, client, speech, Past, Unspoken, VoiceTyped, VoiceTypeOK
<1>5. Making'
  <2>1. \A a \in tasks : a[1] \in broken
    BY DEF Joined, Mine, Making
  <2>2. QED BY <2>1 DEF Joined, Making, speech
<1>6. Once'
  BY DEF Joined, client, speech, Once
<1>7. SpokenInOrder'
  BY DEF Joined, client, speech, SpokenInOrder
<1>8. Stops'
  BY DEF Joined, client, speech, Stops, Making, VoiceTyped, VoiceTypeOK, Exchanges, Speaking
<1>9. StoppedStaysSilent'
  BY DEF Joined, client, speech, StoppedStaysSilent, VoiceTyped, VoiceTypeOK
<1>10. QED BY <1>1, <1>2, <1>3, <1>4, <1>5, <1>6, <1>7, <1>8, <1>9

LEMMA StoredStep ==
  ASSUME VoiceInv, Stored PROVE VoiceInv'
<1> USE VoiceAssumption DEF VoiceInv
<1>1. VoiceTyped'
  BY DEF Stored, client, speech, VoiceTyped, VoiceTypeOK, VoiceStages, Exchanges, End
<1>2. QueueInv'
  BY DEF Stored, client, speech, QueueInv, VoiceTyped, VoiceTypeOK, End, Exchanges
<1>3. Past'
  BY DEF Stored, client, speech, Past, VoiceTyped, VoiceTypeOK
<1>4. Unspoken'
  BY DEF Stored, client, speech, Past, Unspoken, VoiceTyped, VoiceTypeOK
<1>5. Making'
  BY DEF Stored, client, speech, Making, Unspoken, Past
<1>6. Once'
  BY DEF Stored, client, speech, Once
<1>7. SpokenInOrder'
  BY DEF Stored, client, speech, SpokenInOrder
<1>8. Stops'
  BY DEF Stored, client, speech, Stops, Making, VoiceTyped, VoiceTypeOK, Exchanges, Speaking
<1>9. StoppedStaysSilent'
  BY DEF Stored, client, speech, StoppedStaysSilent, VoiceTyped, VoiceTypeOK
<1>10. QED BY <1>1, <1>2, <1>3, <1>4, <1>5, <1>6, <1>7, <1>8, <1>9

LEMMA SpeakWholeStep ==
  ASSUME VoiceInv, SpeakWhole PROVE VoiceInv'
<1> USE VoiceAssumption DEF VoiceInv
<1> DEFINE w == <<current, Whole>>
<1>0. /\ w \in Audio /\ w[1] = current /\ w[2] = Whole /\ current \in Nat
      /\ stage = "whole" /\ stage' = "storing" /\ sent' = Append(sent, w)
      /\ \A i \in DOMAIN sent : sent[i] # w
      /\ UNCHANGED <<client, current, stop, produced, tasks, failed, broken, stoppedAt>>
  <2>1. current \in Exchanges /\ current \in Nat /\ Whole \in 0..(MaxSentences + 1)
    BY DEF SpeakWhole, VoiceTyped, VoiceTypeOK, Whole
  <2>2. QED BY <2>1 DEF SpeakWhole, Audio, Unspoken
<1> HIDE DEF w
<1>s. Once' /\ sent' \in Seq(Audio)
  <2>1. w \notin tasks
    BY <1>0 DEF Past
  <2>2. QED BY <1>0, <2>1, SaidOnce
<1>a. \A i \in DOMAIN sent' : (i \in DOMAIN sent /\ sent'[i] = sent[i]) \/ sent'[i] = w
  BY <1>0, Appended
<1>1. VoiceTyped'
  BY <1>0, <1>s DEF client, VoiceTyped, VoiceTypeOK, VoiceStages
<1>2. QueueInv'
  BY <1>0 DEF client, QueueInv
<1>3. Past'
  BY <1>0, <1>a, SpokenPairs DEF Past
<1>4. Unspoken'
  BY <1>0 DEF Unspoken
<1>5. Making'
  <2>1. \A a \in tasks : a[1] \in broken
    BY <1>0 DEF Making
  <2>2. QED BY <1>0, <2>1 DEF Making
<1>6. Once'
  BY <1>s
<1>7. SpokenInOrder'
  <2>1. \A i \in DOMAIN sent : w[1] \in broken \/ sent[i][1] < w[1]
    <3>1. \A i \in DOMAIN sent : sent[i][1] \in Nat /\ sent[i][1] <= current
      BY SpokenPairs DEF Past
    <3>2. current \notin broken => \A i \in DOMAIN sent : sent[i][1] # current
      BY <1>0 DEF Unspoken
    <3>3. QED BY <1>0, <3>1, <3>2
  <2>2. QED BY <1>0, <2>1, SaidInOrder
<1>8. Stops'
  BY <1>0 DEF Stops, Speaking
<1>9. StoppedStaysSilent'
  BY <1>0, SaidUnstopped
<1>10. QED BY <1>1, <1>2, <1>3, <1>4, <1>5, <1>6, <1>7, <1>8, <1>9

LEMMA SpeakLastStep ==
  ASSUME VoiceInv, SpeakLast PROVE VoiceInv'
<1> USE VoiceAssumption DEF VoiceInv
<1> DEFINE n == <<current, produced + 1>>
<1>0. /\ n \in Audio /\ n[1] = current /\ n[2] = produced + 1 /\ produced \in Nat
      /\ current \in Nat /\ current \notin broken
      /\ stage = "last" /\ stage' = "storing"
      /\ UNCHANGED <<client, current, stop, produced, tasks, failed, broken, stoppedAt>>
  <2>1. current \in Exchanges /\ produced + 1 \in 0..(MaxSentences + 1) /\ current \in Nat
        /\ produced \in Nat
    BY DEF SpeakLast, VoiceTyped, VoiceTypeOK
  <2>2. n \in Audio
    BY <2>1 DEF Audio
  <2>3. QED BY <2>1, <2>2 DEF SpeakLast, Past
<1>h. (stop /\ sent' = sent) \/ (~stop /\ sent' = Append(sent, n))
  BY DEF SpeakLast
<1> HIDE DEF n
<1>r. \A i \in DOMAIN sent : sent[i][1] \in Nat /\ sent[i][2] \in Nat /\ sent[i][1] <= current
                             /\ (sent[i][1] = current => sent[i][2] < produced + 1)
  <2>1. \A i \in DOMAIN sent : sent[i][1] = current => sent[i][2] \in 1..produced
    BY <1>0 DEF Unspoken
  <2>2. QED BY <1>0, <2>1, SpokenPairs DEF Past
<1>m. \A a \in tasks : a[1] \in broken
  BY <1>0 DEF Making
<1>s. Once' /\ sent' \in Seq(Audio)
  <2>1. n \notin tasks
    BY <1>0, <1>m
  <2>2. \A i \in DOMAIN sent : sent[i] # n
    BY <1>0, <1>r
  <2>3. CASE sent' = sent
    BY <1>0, <2>3 DEF Once, VoiceTyped, VoiceTypeOK
  <2>4. CASE sent' = Append(sent, n)
    BY <1>0, <2>1, <2>2, <2>4, SaidOnce
  <2>5. QED BY <1>h, <2>3, <2>4
<1>a. \A i \in DOMAIN sent' : (i \in DOMAIN sent /\ sent'[i] = sent[i]) \/ sent'[i] = n
  BY <1>0, <1>h, Appended
<1>1. VoiceTyped'
  BY <1>0, <1>s DEF client, VoiceTyped, VoiceTypeOK, VoiceStages
<1>2. QueueInv'
  BY <1>0 DEF client, QueueInv
<1>3. Past'
  BY <1>0, <1>a, <1>r DEF Past
<1>4. Unspoken'
  BY <1>0 DEF Unspoken
<1>5. Making'
  BY <1>0, <1>m DEF Making
<1>6. Once'
  BY <1>s
<1>7. SpokenInOrder'
  <2>1. CASE sent' = sent
    BY <1>0, <2>1 DEF SpokenInOrder
  <2>2. CASE sent' = Append(sent, n)
    <3>1. \A i \in DOMAIN sent : \/ sent[i][1] < n[1]
                                 \/ sent[i][1] = n[1] /\ sent[i][2] < n[2]
      BY <1>0, <1>r
    <3>2. QED BY <1>0, <2>2, <3>1, SaidInOrder
  <2>3. QED BY <1>h, <2>1, <2>2
<1>8. Stops'
  BY <1>0 DEF Stops, Speaking
<1>9. StoppedStaysSilent'
  <2>1. CASE sent' = sent
    BY <1>0, <2>1 DEF StoppedStaysSilent
  <2>2. CASE ~stop /\ sent' = Append(sent, n)
    <3>1. stoppedAt[n[1]] = NeverStopped
      BY <1>0, <2>2 DEF Stops, Speaking
    <3>2. QED BY <1>0, <2>2, <3>1, SaidUnstopped
  <2>3. QED BY <1>h, <2>1, <2>2
<1>10. QED BY <1>1, <1>2, <1>3, <1>4, <1>5, <1>6, <1>7, <1>8, <1>9

LEMMA TaskEndsStep ==
  ASSUME VoiceInv, NEW a \in Audio, TaskEnds(a) PROVE VoiceInv'
<1> USE VoiceAssumption DEF VoiceInv
<1>0. /\ a \in tasks /\ a \in Audio /\ a[1] \in Nat /\ a[2] \in Nat /\ tasks' = tasks \ {a}
      /\ UNCHANGED <<client, stage, current, stop, produced, failed, broken, stoppedAt>>
  BY SpokenPairs DEF TaskEnds
<1>h. (stop /\ sent' = sent) \/ (~stop /\ sent' = Append(sent, a))
  BY DEF TaskEnds
<1>s. Once' /\ sent' \in Seq(Audio)
  <2>1. \A i \in DOMAIN sent : sent[i] # a
    BY <1>0 DEF Once
  <2>2. CASE sent' = sent
    BY <1>0, <2>2 DEF Once, VoiceTyped, VoiceTypeOK
  <2>3. CASE sent' = Append(sent, a)
    BY <1>0, <2>1, <2>3, SaidOnce
  <2>4. QED BY <1>h, <2>2, <2>3
<1>a. \A i \in DOMAIN sent' : (i \in DOMAIN sent /\ sent'[i] = sent[i]) \/ sent'[i] = a
  BY <1>0, <1>h, Appended
<1>r. /\ a[1] <= current /\ a[2] # Whole
      /\ a[1] \notin broken =>
           /\ a[1] = current /\ stage \in {"streaming", "joining", "closed"}
           /\ stage # "closed" => a[2] <= produced
           /\ \A b \in tasks : b[1] \notin broken => a = b
           /\ \A i \in DOMAIN sent : sent[i][1] = current => sent[i][2] < a[2]
  BY <1>0 DEF Past, Making
<1>1. VoiceTyped'
  BY <1>0, <1>s DEF client, VoiceTyped, VoiceTypeOK
<1>2. QueueInv'
  BY <1>0 DEF client, QueueInv
<1>3. Past'
  BY <1>0, <1>a, <1>r DEF Past
<1>4. Unspoken'
  <2>1. stage \in {"transcribing", "opening", "streaming", "joining", "last"} => current \notin broken
    BY DEF Past
  <2>2. a # <<current, Whole>>
    BY <1>r
  <2>3. produced \in Nat
    BY DEF VoiceTyped, VoiceTypeOK
  <2>4. \/ stage \in {"transcribing", "opening"}
        \/ stage \in {"asking", "whole"} /\ current \notin broken
        => a[1] # current
    BY <1>0 DEF Unspoken
  <2>5. stage \in {"streaming", "joining", "last"} /\ a[1] = current => a[2] \in 1..produced
    BY <1>0, <1>r, <2>1, <2>3 DEF Whole
  <2>6. QED BY <1>0, <1>a, <2>2, <2>4, <2>5 DEF Unspoken
<1>5. Making'
  <2> SUFFICES ASSUME NEW b \in tasks', b[1] \notin broken
               PROVE  /\ b[1] = current /\ stage \in {"streaming", "joining", "closed"}
                      /\ stage # "closed" => b[2] <= produced
                      /\ \A c \in tasks' : c[1] \notin broken => b = c
                      /\ \A i \in DOMAIN sent' : sent'[i][1] = current => sent'[i][2] < b[2]
    BY <1>0 DEF Making
  <2>1. b \in tasks /\ b # a
    BY <1>0
  <2>2. a[1] \in broken
    BY <1>r, <2>1
  <2>3. b[1] = current
    BY <2>1 DEF Making
  <2>4. QED BY <1>0, <1>a, <2>1, <2>2, <2>3 DEF Making
<1>6. Once'
  BY <1>s
<1>7. SpokenInOrder'
  <2>1. CASE sent' = sent
    BY <1>0, <2>1 DEF SpokenInOrder
  <2>2. CASE sent' = Append(sent, a)
    <3>1. \A i \in DOMAIN sent : \/ a[1] \in broken \/ sent[i][1] < a[1]
                                 \/ sent[i][1] = a[1] /\ sent[i][2] < a[2]
      <4>1. \A i \in DOMAIN sent : sent[i][1] \in Nat /\ sent[i][1] <= current
        BY SpokenPairs DEF Past
      <4>2. QED BY <1>r, <4>1 DEF VoiceTyped, VoiceTypeOK
    <3>2. QED BY <1>0, <2>2, <3>1, SaidInOrder
  <2>3. QED BY <1>h, <2>1, <2>2
<1>8. Stops'
  BY <1>0 DEF Stops
<1>9. StoppedStaysSilent'
  <2>1. CASE sent' = sent
    BY <1>0, <2>1 DEF StoppedStaysSilent
  <2>2. CASE ~stop /\ sent' = Append(sent, a)
    <3>1. a[1] \in broken \/ stoppedAt[a[1]] = NeverStopped
      BY <1>0, <2>2 DEF Stops
    <3>2. QED BY <1>0, <2>2, <3>1, SaidUnstopped
  <2>3. QED BY <1>h, <2>1, <2>2
<1>10. QED BY <1>1, <1>2, <1>3, <1>4, <1>5, <1>6, <1>7, <1>8, <1>9

LEMMA TaskFailsStep ==
  ASSUME VoiceInv, NEW a \in Audio, TaskFails(a) PROVE VoiceInv'
<1> USE VoiceAssumption DEF VoiceInv
<1>0. /\ a \in tasks /\ a \in Audio /\ tasks' = tasks \ {a} /\ failed' \in {failed, failed \cup {a}}
      /\ UNCHANGED <<client, stage, current, stop, produced, sent, broken, stoppedAt>>
  BY SpokenPairs DEF TaskFails
<1>1. VoiceTyped'
  BY <1>0 DEF client, VoiceTyped, VoiceTypeOK, VoiceStages, Exchanges, End
<1>2. QueueInv'
  BY <1>0 DEF client, QueueInv, VoiceTyped, VoiceTypeOK, End, Exchanges
<1>3. Past'
  BY <1>0 DEF client, Past, VoiceTyped, VoiceTypeOK
<1>4. Unspoken'
  BY <1>0 DEF client, Past, Unspoken, VoiceTyped, VoiceTypeOK
<1>5. Making'
  BY <1>0 DEF client, Making, Unspoken, Past
<1>6. Once'
  BY <1>0 DEF client, Once
<1>7. SpokenInOrder'
  BY <1>0 DEF client, SpokenInOrder
<1>8. Stops'
  BY <1>0 DEF client, Stops, Making, VoiceTyped, VoiceTypeOK, Exchanges, Speaking
<1>9. StoppedStaysSilent'
  BY <1>0 DEF client, StoppedStaysSilent, VoiceTyped, VoiceTypeOK
<1>10. QED BY <1>1, <1>2, <1>3, <1>4, <1>5, <1>6, <1>7, <1>8, <1>9

LEMMA VoiceInitially == VoiceInit => VoiceInv
<1> USE VoiceAssumption
<1> SUFFICES ASSUME VoiceInit PROVE VoiceInv
  OBVIOUS
<1>1. NeverStopped \in Nat
  BY DEF NeverStopped
<1>2. queue \in Seq(Exchanges \cup {End}) /\ sent \in Seq(Audio) /\ DOMAIN queue = {} /\ DOMAIN sent = {}
  BY DEF VoiceInit
<1>3. connected \in BOOLEAN /\ listening \in BOOLEAN /\ stop \in BOOLEAN
  BY DEF VoiceInit
<1>4. stoppedAt \in [Exchanges -> 0..NeverStopped]
  BY <1>1 DEF VoiceInit
<1>5. VoiceTyped
  BY <1>2, <1>3, <1>4 DEF VoiceInit, VoiceTyped, VoiceTypeOK, VoiceStages
<1>6. QueueInv /\ Past /\ Unspoken /\ Making /\ Once
  BY <1>2 DEF VoiceInit, QueueInv, Past, Unspoken, Making, Once
<1>7. SpokenInOrder /\ Stops /\ StoppedStaysSilent
  BY <1>2 DEF VoiceInit, SpokenInOrder, Stops, StoppedStaysSilent, Speaking
<1>8. QED BY <1>5, <1>6, <1>7 DEF VoiceInv

LEMMA VoiceStep == VoiceInv /\ [VoiceNext]_voiceVars => VoiceInv'
<1> SUFFICES ASSUME VoiceInv, [VoiceNext]_voiceVars PROVE VoiceInv'
  OBVIOUS
<1>1. CASE UNCHANGED voiceVars
  BY <1>1 DEF voiceVars, VoiceInv, VoiceTyped, VoiceTypeOK, QueueInv, Past, Unspoken, Making, Once,
              SpokenInOrder, Stops, StoppedStaysSilent
<1>2. CASE Utter \/ StopAudio \/ ListenerEnds
  BY <1>2, UtterStep, StopAudioStep, ListenerEndsStep
<1>3. CASE Take \/ TakeEnd \/ MainFails \/ Misheard \/ Transcribed
  BY <1>3, TakeStep, TakeEndStep, MainFailsStep, MisheardStep, TranscribedStep
<1>4. CASE StreamOpens \/ StreamSentence \/ StreamEnds \/ StreamBreaks
  BY <1>4, StreamOpensStep, StreamSentenceStep, StreamEndsStep, StreamBreaksStep
<1>5. CASE Asked \/ SpeakWhole \/ JoinFails \/ Joined \/ SpeakLast \/ Stored
  BY <1>5, AskedStep, SpeakWholeStep, JoinFailsStep, JoinedStep, SpeakLastStep, StoredStep
<1>6. ASSUME NEW a \in tasks, TaskEnds(a) \/ TaskFails(a) PROVE VoiceInv'
  BY <1>6, SpokenPairs, TaskEndsStep, TaskFailsStep DEF VoiceInv
<1>7. QED BY <1>1, <1>2, <1>3, <1>4, <1>5, <1>6 DEF VoiceNext

\* Queue, tasks, what was sent and the stop event fit each other in every
\* reachable state of a session.
THEOREM VoiceInvHolds == VoiceSpec => []VoiceInv
  BY VoiceInitially, VoiceStep, PTL DEF VoiceSpec

\* Type correctness of a voice session.
THEOREM VoiceTypeCorrect == VoiceSpec => []VoiceTypeOK
<1>1. VoiceInv => VoiceTypeOK
  BY DEF VoiceInv, VoiceTyped
<1>2. QED BY <1>1, VoiceInvHolds, PTL

\* The client hears the sentences in BOB's order, whatever the listener, the
\* main loop and the sentences' tasks do in between, but for broken streams.
THEOREM SentencesInOrder == VoiceSpec => []SpokenInOrder
<1>1. VoiceInv => SpokenInOrder
  BY DEF VoiceInv
<1>2. QED BY <1>1, VoiceInvHolds, PTL

\* Nothing of a stopped answer is heard after the stop: the event stays set
\* until no task of it is left.
THEOREM StopIsHeeded == VoiceSpec => []StoppedStaysSilent
<1>1. VoiceInv => StoppedStaysSilent
  BY DEF VoiceInv
<1>2. QED BY <1>1, VoiceInvHolds, PTL
============================================================================
