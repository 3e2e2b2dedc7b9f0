----------------------------- MODULE PhotoIntake -----------------------------
(***************************************************************************)
(* Photos sent to BOB (bob-orchestrator/app/photo_intake.py, the endpoints *)
(* in main.py) and the budget they are charged to (cost_tracker.py).       *)
(*                                                                         *)
(* An upload is admitted on what has been spent so far, and its own cost   *)
(* is recorded when the vision model has answered, two awaits later.  The  *)
(* file then waits in the temporary directory for _auto_purge, a task that *)
(* lives in the process, or for remember_photo.  Photo uploads and         *)
(* questions about photos are the only calls record_usage is told of, so   *)
(* what a user has spent on vision is all the user has spent.              *)
(***************************************************************************)
EXTENDS Naturals, FiniteSets

CONSTANTS
  Photos,     \* uploads; their number bounds them
  Users,      \* lower-cased names
  Bypass,     \* BUDGET_BYPASS_USERS
  Rob,        \* the user analyze_photo is charged to
  NoRow,      \* a photo without a row in the table
  TotalCap,   \* DAILY_BUDGET_USD_TOTAL
  MonthCap,   \* MONTHLY_BUDGET_USD_TOTAL
  UserCap,    \* DAILY_BUDGET_USD_PER_USER
  VisionCap,  \* DAILY_BUDGET_USD_PER_USER_VISION
  MaxCost,    \* what one vision call costs at most
  MaxDays,    \* bound on the midnights passed
  MaxFaults   \* bound on failing statements and restarts

ASSUME PhotosAssumption == IsFiniteSet(Photos)
ASSUME UsersAssumption  == Bypass \subseteq Users /\ Rob \in Users
ASSUME CapsAssumption   ==
  /\ TotalCap \in Nat /\ MonthCap \in Nat /\ UserCap \in Nat
  /\ VisionCap \in Nat /\ MaxCost \in Nat \ {0}
  /\ MaxDays \in Nat /\ MaxFaults \in Nat

VARIABLES
  upload,    \* [Photos -> where its request stands]
  sender,    \* [Photos -> the user who sends it]
  photos,    \* the table: [Photos -> row or NoRow]
  files,     \* <<photo, directory>>: what lies on the disk
  timers,    \* photos with a sleeping _auto_purge
  asked,     \* [Photos -> a question about it: "no", "asking", "answered"]
  spent,     \* [Users -> cost recorded today]
  month,     \* cost recorded this month
  days,      \* midnights passed
  faults,    \* faults so far
  told,      \* history: photos remember_photo has said yes to
  noted,     \* photos memory.store has been given
  stranded,  \* history: photos whose removal a fault has prevented
  peak,      \* history: [Users -> most uploads in flight at once]
  blind      \* history: [Users -> uploads admitted by a failing query]

photoVars == <<upload, sender, photos, files, timers, asked, spent, month, days,
               faults, told, noted, stranded, peak, blind>>

Stages == {"none", "reading", "vision", "done", "failed"}
Row    == [place : {"tmp", "user"}, persisted : BOOLEAN]

ASSUME NoRowAssumption == NoRow \notin Row

PhotoTypeOK ==
  /\ upload \in [Photos -> Stages] /\ sender \in [Photos -> Users]
  /\ photos \in [Photos -> Row \cup {NoRow}]
  /\ \A p \in Photos : photos[p] # NoRow =>
       (photos[p].persisted <=> photos[p].place = "user")
  /\ files \in SUBSET (Photos \X {"tmp", "user"})
  /\ timers \in SUBSET Photos
  /\ asked \in [Photos -> {"no", "asking", "answered"}]
  /\ spent \in [Users -> Nat] /\ month \in Nat
  /\ days \in 0..MaxDays /\ faults \in 0..MaxFaults
  /\ told \in SUBSET Photos /\ noted \in SUBSET Photos
  /\ stranded \in SUBSET Photos
  /\ peak \in [Users -> Nat] /\ blind \in [Users -> Nat]

PhotoInit ==
  /\ upload = [p \in Photos |-> "none"] /\ sender \in [Photos -> Users]
  /\ photos = [p \in Photos |-> NoRow] /\ files = {}
  /\ timers = {} /\ asked = [p \in Photos |-> "no"]
  /\ spent = [u \in Users |-> 0] /\ month = 0 /\ days = 0 /\ faults = 0
  /\ told = {} /\ noted = {} /\ stranded = {}
  /\ peak = [u \in Users |-> 0] /\ blind = [u \in Users |-> 0]

Fault == faults < MaxFaults /\ faults' = faults + 1

(***************************************************************************)
(* The budget                                                              *)
(***************************************************************************)
\* Mutant: the cap itself may still be spent.
OverByMore(amount, cap) == cap > 0 /\ amount > cap

\* A cap of 0 is no cap.
Over(amount, cap) == cap > 0 /\ amount >= cap

\* get_daily_spend without a user: what the table holds for today.
DailyTotal(s) ==
  LET Sum[U \in SUBSET Users] ==
        IF U = {} THEN 0
        ELSE LET u == CHOOSE x \in U : TRUE IN s[u] + Sum[U \ {u}]
  IN  Sum[Users]

\* check_budget
WithinBudget(u) ==
  /\ ~Over(DailyTotal(spent), TotalCap)
  /\ ~Over(month, MonthCap)
  /\ u \in Bypass \/ ~Over(spent[u], UserCap)

\* check_vision_budget
WithinVision(u) == u \in Bypass \/ ~Over(spent[u], VisionCap)

\* record_usage, or its except clause: the statement fails and the cost is
\* reported all the same.
Recorded(u, cost) ==
  /\ spent' = [spent EXCEPT ![u] = @ + cost]
  /\ month' = month + cost

Midnight ==
  /\ days < MaxDays
  /\ days'  = days + 1
  /\ spent' = [u \in Users |-> 0]
  /\ \E newMonth \in BOOLEAN : month' = IF newMonth THEN 0 ELSE month
  /\ UNCHANGED <<upload, sender, photos, files, timers, asked, faults, told, noted,
                 stranded, peak, blind>>

(***************************************************************************)
(* Uploads                                                                 *)
(***************************************************************************)
InFlight(u) == {p \in Photos : sender[p] = u /\ upload[p] \in {"reading", "vision"}}

Admit(p) ==
  LET u == sender[p]
      n == Cardinality(InFlight(u) \cup {p})
  IN  /\ upload' = [upload EXCEPT ![p] = "reading"]
      /\ peak'   = [peak EXCEPT ![u] = IF n > @ THEN n ELSE @]
      /\ UNCHANGED <<sender, photos, files, timers, asked, spent, month, days, told,
                     noted, stranded>>

\* POST /photos/upload up to the await of the file.  A refusal, by the budget
\* or by the gate, changes nothing here.
PhotoUpload(p) ==
  /\ upload[p] = "none"
  /\ WithinBudget(sender[p]) /\ WithinVision(sender[p])
  /\ Admit(p)
  /\ UNCHANGED <<faults, blind>>

\* The queries' except clauses answer 0.0: the guards fail open.
PhotoUploadUnseen(p) ==
  /\ upload[p] = "none"
  /\ Fault
  /\ blind' = [blind EXCEPT ![sender[p]] = @ + 1]
  /\ Admit(p)

\* Not an image, empty or too large: a 400 before anything is written.
BadPhoto(p) ==
  /\ upload[p] = "reading"
  /\ upload' = [upload EXCEPT ![p] = "failed"]
  /\ UNCHANGED <<sender, photos, files, timers, asked, spent, month, days, faults,
                 told, noted, stranded, peak, blind>>

\* process_photo up to the await of the model.
SaveTemp(p) ==
  /\ upload[p] = "reading"
  /\ upload' = [upload EXCEPT ![p] = "vision"]
  /\ files'  = files \cup {<<p, "tmp">>}
  /\ UNCHANGED <<sender, photos, timers, asked, spent, month, days, faults, told,
                 noted, stranded, peak, blind>>

\* The model has answered: cost, row and timer, without an await between them.
VisionAnswers(p) ==
  /\ upload[p] = "vision"
  /\ upload' = [upload EXCEPT ![p] = "done"]
  /\ photos' = [photos EXCEPT ![p] = [place |-> "tmp", persisted |-> FALSE]]
  /\ timers' = timers \cup {p}
  /\ \/ /\ \E cost \in 1..MaxCost : Recorded(sender[p], cost)
        /\ UNCHANGED faults
     \/ /\ Fault
        /\ UNCHANGED <<spent, month>>
  /\ UNCHANGED <<sender, files, asked, days, told, noted, stranded, peak, blind>>

\* The INSERT raises outside of any try: the cost is recorded, the file stays
\* and no timer is set.
InsertFails(p) ==
  /\ upload[p] = "vision"
  /\ Fault
  /\ \E cost \in 1..MaxCost : Recorded(sender[p], cost)
  /\ upload'   = [upload EXCEPT ![p] = "failed"]
  /\ stranded' = stranded \cup {p}
  /\ UNCHANGED <<sender, photos, files, timers, asked, days, told, noted, peak, blind>>

\* Mutant: the handler lets the exception through at once.
VisionFailsKeeping(p) ==
  /\ upload[p] = "vision"
  /\ upload' = [upload EXCEPT ![p] = "failed"]
  /\ UNCHANGED <<sender, photos, files, timers, asked, spent, month, days, faults,
                 told, noted, stranded, peak, blind>>

\* Both request formats have failed: the file is removed again, and an unlink
\* that raises is passed over.
VisionFails(p) ==
  /\ upload[p] = "vision"
  /\ upload' = [upload EXCEPT ![p] = "failed"]
  /\ \/ /\ files' = files \ {<<p, "tmp">>}
        /\ UNCHANGED <<faults, stranded>>
     \/ /\ Fault
        /\ stranded' = stranded \cup {p}
        /\ UNCHANGED files
  /\ UNCHANGED <<sender, photos, timers, asked, spent, month, days, told, noted,
                 peak, blind>>

(***************************************************************************)
(* Purging and remembering                                                 *)
(***************************************************************************)
\* Mutant: _auto_purge does not look at persisted again when it wakes.
PurgeUnchecked(p) ==
  /\ p \in timers
  /\ timers' = timers \ {p}
  /\ photos' = [photos EXCEPT ![p] = NoRow]
  /\ files'  = IF photos[p] = NoRow THEN files ELSE files \ {<<p, photos[p].place>>}
  /\ UNCHANGED <<upload, sender, asked, spent, month, days, faults, told, noted,
                 stranded, peak, blind>>

\* _auto_purge after its sleep: nothing for a row that is gone or persisted.
Purge(p) ==
  /\ p \in timers
  /\ timers' = timers \ {p}
  /\ IF photos[p] = NoRow \/ photos[p].persisted
       THEN UNCHANGED <<photos, files>>
       ELSE /\ photos' = [photos EXCEPT ![p] = NoRow]
            /\ files'  = files \ {<<p, photos[p].place>>}
  /\ UNCHANGED <<upload, sender, asked, spent, month, days, faults, told, noted,
                 stranded, peak, blind>>

\* Its unlink raises, which is only logged: the row goes, the file stays.
PurgeLeaves(p) ==
  /\ p \in timers
  /\ photos[p] # NoRow /\ ~photos[p].persisted
  /\ Fault
  /\ timers'   = timers \ {p}
  /\ photos'   = [photos EXCEPT ![p] = NoRow]
  /\ stranded' = stranded \cup {p}
  /\ UNCHANGED <<upload, sender, files, asked, spent, month, days, told, noted,
                 peak, blind>>

\* Its SELECT or its DELETE fails, which is only logged; by the DELETE the file
\* is gone.
PurgeFails(p) ==
  /\ p \in timers
  /\ Fault
  /\ timers'   = timers \ {p}
  /\ stranded' = stranded \cup {p}
  /\ \/ UNCHANGED files
     \/ /\ photos[p] # NoRow /\ ~photos[p].persisted
        /\ files' = files \ {<<p, photos[p].place>>}
  /\ UNCHANGED <<upload, sender, photos, asked, spent, month, days, told, noted,
                 peak, blind>>

\* remember_photo for a photo that already is, whoever asks
RememberAgain(p) ==
  /\ photos[p] # NoRow /\ photos[p].persisted
  /\ told' = told \cup {p}
  /\ UNCHANGED <<upload, sender, photos, files, timers, asked, spent, month, days,
                 faults, noted, stranded, peak, blind>>

\* for one whose file is no longer there: the row is deleted.
RememberTooLate(p) ==
  /\ photos[p] # NoRow /\ ~photos[p].persisted
  /\ <<p, photos[p].place>> \notin files
  /\ photos' = [photos EXCEPT ![p] = NoRow]
  /\ UNCHANGED <<upload, sender, files, timers, asked, spent, month, days, faults,
                 told, noted, stranded, peak, blind>>

Moved(p) == (files \ {<<p, "tmp">>}) \cup {<<p, "user">>}

\* for one whose file is moved; the note in memory is best effort.
Remember(p) ==
  /\ photos[p] # NoRow /\ ~photos[p].persisted
  /\ <<p, photos[p].place>> \in files
  /\ files'  = Moved(p)
  /\ photos' = [photos EXCEPT ![p] = [place |-> "user", persisted |-> TRUE]]
  /\ told'   = told \cup {p}
  /\ noted' \in {noted, noted \cup {p}}
  /\ UNCHANGED <<upload, sender, timers, asked, spent, month, days, faults, stranded,
                 peak, blind>>

\* The file has been moved, and the UPDATE fails or the process stops.
RememberFails(p) ==
  /\ photos[p] # NoRow /\ ~photos[p].persisted
  /\ <<p, photos[p].place>> \in files
  /\ Fault
  /\ files' = Moved(p)
  /\ UNCHANGED <<upload, sender, photos, timers, asked, spent, month, days, told,
                 noted, stranded, peak, blind>>

\* analyze_existing, called by BOB's tool: no budget is looked at.  One question a
\* photo is the bound.
Ask(p) ==
  /\ photos[p] # NoRow /\ photos[p].persisted
  /\ <<p, photos[p].place>> \in files
  /\ asked[p] = "no"
  /\ asked' = [asked EXCEPT ![p] = "asking"]
  /\ UNCHANGED <<upload, sender, photos, files, timers, spent, month, days, faults,
                 told, noted, stranded, peak, blind>>

AskAnswered(p) ==
  /\ asked[p] = "asking"
  /\ asked' = [asked EXCEPT ![p] = "answered"]
  /\ \/ \E cost \in 1..MaxCost : Recorded(Rob, cost)
     \/ UNCHANGED <<spent, month>>
  /\ UNCHANGED <<upload, sender, photos, files, timers, days, faults, told, noted,
                 stranded, peak, blind>>

\* Requests and timers are gone; tables and files stay.
PhotoRestart ==
  /\ Fault
  /\ upload'   = [p \in Photos |->
                    IF upload[p] \in {"reading", "vision"} THEN "failed" ELSE upload[p]]
  /\ stranded' = stranded \cup {p \in Photos : <<p, "tmp">> \in files}
  /\ timers' = {}
  /\ asked'  = [p \in Photos |-> IF asked[p] = "asking" THEN "answered" ELSE asked[p]]
  /\ UNCHANGED <<sender, photos, files, spent, month, days, told, noted, peak, blind>>

PhotoNext ==
  \/ \E p \in Photos :
       \/ PhotoUpload(p) \/ PhotoUploadUnseen(p) \/ BadPhoto(p) \/ SaveTemp(p)
       \/ VisionAnswers(p) \/ InsertFails(p) \/ VisionFails(p)
       \/ Purge(p) \/ PurgeLeaves(p) \/ PurgeFails(p)
       \/ RememberAgain(p) \/ RememberTooLate(p) \/ Remember(p) \/ RememberFails(p)
       \/ Ask(p) \/ AskAnswered(p)
  \/ Midnight
  \/ PhotoRestart

PhotoSpec == PhotoInit /\ [][PhotoNext]_photoVars

(***************************************************************************)
(* Properties                                                              *)
(***************************************************************************)
\* The check and the recording of an upload are two awaits apart, so a member
\* may spend more than the cap: never more than the uploads that overlapped,
\* and those a failing query has let through, can cost (check_vision_budget,
\* record_usage).
OvershootBounded ==
  \A u \in Users \ (Bypass \cup {Rob}) : VisionCap > 0 =>
    spent[u] < VisionCap + MaxCost * (peak[u] + blind[u])

\* A photo the user has been told is remembered, or BOB's memory speaks of,
\* keeps its row and its file, whatever timer, second request, failure or
\* restart follows (remember_photo, _auto_purge).
RememberedIsKept ==
  \A p \in told \cup noted :
    /\ photos[p] = [place |-> "user", persisted |-> TRUE]
    /\ <<p, "user">> \in files

\* A file in the temporary directory has someone who will remove it, the
\* request that wrote it or a timer that will find its row.  Exactly four
\* things take that away, and then nobody removes it: a restart, a failing
\* INSERT, a failing statement of _auto_purge, and an unlink that raises in
\* either place (process_photo, _auto_purge).
TempIsPurged ==
  \A p \in Photos : <<p, "tmp">> \in files =>
    \/ upload[p] = "vision"
    \/ p \in timers /\ photos[p] # NoRow
    \/ p \in stranded
=============================================================================
