---------------------------- MODULE MailMonitor ----------------------------
(***************************************************************************)
(* BOB's inbox monitor (gmail_monitor.py) and the list of mails that wait  *)
(* for Rob on the dashboard (main.py).  check_inbox looks at the newest    *)
(* unread mails and returns those it has not returned before, to the poll  *)
(* loop or to BOB's check_email tool, whoever asks first.  It has no await *)
(* in it, so a whole check is one step; the loop awaits each push.         *)
(***************************************************************************)
EXTENDS Naturals, Sequences, SequencesExt

CONSTANTS
  Mails,      \* mails; their number bounds them
  Top,        \* maxResults of a check
  MaxPending, \* how many mails the dashboard keeps
  MailFaults  \* bound on failing calls and restarts

ASSUME MailAssumption == Top \in Nat \ {0} /\ MaxPending \in Nat /\ MailFaults \in Nat

VARIABLES
  priority,   \* [Mails -> what classify_email makes of it]
  inbox,      \* unread mails, the newest first
  arrived,    \* mails that have come
  processed,  \* _processed_ids
  batch,      \* the loop's mails, the first one's push awaited
  pending,    \* _pending_emails
  shown,      \* history: mails that have been on the dashboard
  taken,      \* history: mails check_email has returned
  dropped,    \* history: mails behind a push that failed or a restart
  mailFaults  \* faults so far

mailVars == <<priority, inbox, arrived, processed, batch, pending, shown, taken,
              dropped, mailFaults>>

\* "high" goes the way of "urgent", and "low" is only logged.
Priorities == {"urgent", "default", "low"}
Actionable == {m \in Mails : priority[m] # "low"}
Urgent     == {m \in Mails : priority[m] = "urgent"}

MailTypeOK ==
  /\ priority \in [Mails -> Priorities]
  /\ arrived \in SUBSET Mails /\ processed \in SUBSET arrived
  /\ inbox \in Seq(arrived) /\ batch \in Seq(arrived) /\ pending \in Seq(arrived)
  /\ Len(pending) <= MaxPending
  /\ shown \in SUBSET arrived /\ taken \in SUBSET arrived
  /\ dropped \in SUBSET arrived /\ mailFaults \in 0..MailFaults

MailInit ==
  /\ priority \in [Mails -> Priorities]
  /\ inbox = << >> /\ arrived = {} /\ processed = {} /\ batch = << >>
  /\ pending = << >> /\ shown = {} /\ taken = {} /\ dropped = {} /\ mailFaults = 0

MailFault == mailFaults < MailFaults /\ mailFaults' = mailFaults + 1

(***************************************************************************)
(* The mail box                                                            *)
(***************************************************************************)
Arrive(m) ==
  /\ m \notin arrived
  /\ arrived' = arrived \cup {m}
  /\ inbox'   = <<m>> \o inbox
  /\ UNCHANGED <<priority, processed, batch, pending, shown, taken, dropped, mailFaults>>

\* Rob, at his mail program.  The agent's tool email_mark_read is a plain function,
\* and never gets to mark_as_read (Scheduler.tla says why).
MarkAsRead(m) ==
  /\ \E i \in DOMAIN inbox : inbox[i] = m /\ inbox' = RemoveAt(inbox, i)
  /\ UNCHANGED <<priority, arrived, processed, batch, pending, shown, taken, dropped,
                 mailFaults>>

(***************************************************************************)
(* check_inbox                                                             *)
(***************************************************************************)
Looked == ToSet(SubSeq(inbox, 1, IF Len(inbox) < Top THEN Len(inbox) ELSE Top))

\* Mutant: a mail is marked before it has been fetched.
MarkedLooked(new) == processed \cup Looked

Marked(new) == processed \cup new

\* The new mails, less those whose fetch has failed; the list call itself or the
\* login may fail as well, and then there are none.
Checked(new) ==
  /\ new \subseteq Looked \ processed
  /\ IF new = Looked \ processed THEN UNCHANGED mailFaults ELSE MailFault
  /\ processed' = IF new = {} THEN processed ELSE Marked(new)

\* These mails as a list has them.
InOrder(some, list) ==
  {s \in SetToSeqs(some) : \A i, j \in DOMAIN s : i < j =>
     \E k, l \in DOMAIN list : k < l /\ list[k] = s[i] /\ list[l] = s[j]}

(***************************************************************************)
(* The poll loop                                                           *)
(***************************************************************************)
Newest(list, n) ==
  IF Len(list) > n THEN SubSeq(list, Len(list) - n + 1, Len(list)) ELSE list

\* Mutant: the length is looked at before the mail is added.
KeptLate(list) == Newest(list, MaxPending + 1)

\* add_pending_email: one mail after the other, and beyond the bound the oldest goes.
Kept(list) == Newest(list, MaxPending)

\* The loop goes through its mails as far as the last of these.
UpTo(mails, last) ==
  LET now == ToSet(SubSeq(mails, 1, last)) \cap Actionable IN
  /\ \E list \in InOrder(now, mails) : pending' = Kept(pending \o list)
  /\ shown' = shown \cup now

\* What it does with its mails up to the next push it has to await.
Surfaced(mails) ==
  LET urgent == {i \in DOMAIN mails : mails[i] \in Urgent} IN
  \/ urgent = {} /\ UpTo(mails, Len(mails)) /\ batch' = << >>
  \/ \E first \in urgent :
       /\ \A i \in urgent : first <= i
       /\ UpTo(mails, first) /\ batch' = SubSeq(mails, first, Len(mails))

PollInbox ==
  /\ batch = << >>
  /\ \E new \in SUBSET Looked :
       Checked(new) /\ \E mails \in InOrder(new, inbox) : Surfaced(mails)
  /\ UNCHANGED <<priority, inbox, arrived, taken, dropped>>

PushSent ==
  /\ batch # << >>
  /\ Surfaced(Tail(batch))
  /\ UNCHANGED <<priority, inbox, arrived, processed, taken, dropped, mailFaults>>

\* The push raises out of the loop over the batch.
PushFails ==
  /\ batch # << >> /\ MailFault
  /\ batch'   = << >>
  /\ dropped' = dropped \cup ToSet(Tail(batch))
  /\ UNCHANGED <<priority, inbox, arrived, processed, pending, shown, taken>>

(***************************************************************************)
(* The other callers                                                       *)
(***************************************************************************)
\* check_email, and the same over MCP
CheckEmail ==
  /\ \E new \in SUBSET Looked : Checked(new) /\ taken' = taken \cup new
  /\ UNCHANGED <<priority, inbox, arrived, batch, pending, shown, dropped>>

DismissEmail(m) ==
  /\ \E i \in DOMAIN pending : pending[i] = m /\ pending' = RemoveAt(pending, i)
  /\ UNCHANGED <<priority, inbox, arrived, processed, batch, shown, taken, dropped,
                 mailFaults>>

MailRestart ==
  /\ MailFault
  /\ processed' = {} /\ pending' = << >> /\ batch' = << >>
  /\ dropped'   = dropped \cup ToSet(batch)
  /\ UNCHANGED <<priority, inbox, arrived, shown, taken>>

MailNext ==
  \/ \E m \in Mails : Arrive(m) \/ MarkAsRead(m) \/ DismissEmail(m)
  \/ PollInbox \/ PushSent \/ PushFails \/ CheckEmail \/ MailRestart

MailSpec == MailInit /\ [][MailNext]_mailVars

(***************************************************************************)
(* Properties                                                              *)
(***************************************************************************)
\* A mail that is never looked at again has been on the dashboard if it is
\* actionable, or BOB's tool has taken it, or it is behind a push: one that is
\* awaited, or one that has failed and taken the rest of its batch with it
\* (check_inbox marks a mail before the loop has surfaced it).
UrgentIsSurfaced ==
  \A m \in processed \cap Actionable :
    m \in shown \cup taken \cup dropped \cup ToSet(batch)
=============================================================================
