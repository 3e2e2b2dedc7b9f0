---------------------------- MODULE ChatAdmission ----------------------------
(***************************************************************************)
(* What a message passes on its way to BOB's graph: POST /chat in          *)
(* bob-orchestrator/app/main.py with the rate limiter (rate_limit.py), the *)
(* choice of a thread, the session table (user_sessions.py) and the router *)
(* (router.py).  The limiter and the thread counter live in the process,   *)
(* the session table outlives it.  The limiter keeps addresses apart, so    *)
(* one address that it counts is enough; the requests of Inside come from  *)
(* one of the addresses that it lets through uncounted.  What the day has cost so far is not     *)
(* kept here: /chat reads it and never adds to it, so a refusal by the     *)
(* budget may come at any time.                                            *)
(***************************************************************************)
EXTENDS Integers, FiniteSets

CONSTANTS
  Chats,        \* requests; their number bounds them
  Inside,       \* the requests that come from an address in _BYPASS_IPS
  Given,        \* thread ids that callers bring along, the voice server's too
  NoThread, NoSession,
  Limits,       \* LIMITS: [tier -> [max, window]] of chat and chat_burst
  Stale,        \* ticks after which a quiet session is shown as gone
  MaxRestarts,  \* bound on restarts
  MaxNow        \* bound on the clock

Tiers == {"chat", "chat_burst"}

ASSUME ChatsAssumption  == IsFiniteSet(Chats) /\ Inside \subseteq Chats
ASSUME LimitsAssumption ==
  /\ Limits \in [Tiers -> [max : Nat \ {0}, window : Nat \ {0}]]
  /\ Stale \in Nat /\ MaxRestarts \in Nat /\ MaxNow \in Nat

VARIABLES
  now,        \* the time, in ticks of at least a second
  chat,       \* [Chats -> the request's coroutine]
  slots,      \* _requests: [Tiers -> requests that have been counted]
  counter,    \* _thread_counter
  sessions,   \* the table: [thread -> row or NoSession]
  boots       \* restarts so far

chatVars == <<now, chat, slots, counter, sessions, boots>>

\* f"chat-{counter}-{second}", or what the caller has sent
Threads == ((1..Cardinality(Chats)) \X (0..MaxNow)) \cup Given

ASSUME ThreadAssumption == NoThread \notin Threads

Pcs     == {"none", "identify", "classify", "invoke", "refused", "done", "failed"}
Request == [pc : Pcs, at : 0..MaxNow, boot : 0..MaxRestarts,
            thread : Threads \cup {NoThread}, new : BOOLEAN]
Session == [active : BOOLEAN, last : 0..MaxNow, ended : BOOLEAN]

ASSUME SessionAssumption == NoSession \notin Session

ChatTypeOK ==
  /\ now \in 0..MaxNow /\ boots \in 0..MaxRestarts
  /\ chat \in [Chats -> Request]
  /\ slots \in [Tiers -> SUBSET Chats]
  /\ counter \in 0..Cardinality(Chats)
  /\ sessions \in [Threads -> Session \cup {NoSession}]
  /\ \A t \in Threads : sessions[t] # NoSession =>
       (sessions[t].active <=> ~sessions[t].ended)

ChatInit ==
  /\ now = 0 /\ boots = 0 /\ counter = 0
  /\ chat = [c \in Chats |-> [pc |-> "none", at |-> 0, boot |-> 0,
                              thread |-> NoThread, new |-> FALSE]]
  /\ slots = [tier \in Tiers |-> {}]
  /\ sessions = [t \in Threads |-> NoSession]

Started(c) == chat[c].pc # "none"
Goes(c, pc) == chat' = [chat EXCEPT ![c].pc = pc]

(***************************************************************************)
(* The rate limiter: a sliding window                                      *)
(***************************************************************************)
\* Mutant: the hour is cleaned up with the minute's window.
RecentShort(tier) == {c \in slots[tier] : chat[c].at > now - Limits["chat"].window}

\* _cleanup
Recent(tier) == {c \in slots[tier] : chat[c].at > now - Limits[tier].window}

Full(tier) == Cardinality(Recent(tier)) >= Limits[tier].max

\* An address in _BYPASS_IPS passes before anything is looked at.
Lets(c, tier) == c \in Inside \/ ~Full(tier)

\* check_rate_limit for the minute and, when that has passed, for the hour: a
\* request counts in every window it has passed, also if it is refused later,
\* unless it comes from inside.
Counted(c, tiers) ==
  slots' = [tier \in Tiers |->
              IF tier \in tiers /\ c \notin Inside THEN Recent(tier) \cup {c}
                                                    ELSE slots[tier]]

Stamped(c, pc) == [chat[c] EXCEPT !.pc = pc, !.at = now, !.boot = boots]

Refused(c) ==
  /\ chat' = [chat EXCEPT ![c] = Stamped(c, "refused")]
  /\ UNCHANGED <<now, counter, sessions, boots>>

RefusedByMinute(c) ==
  /\ chat[c].pc = "none" /\ ~Lets(c, "chat")
  /\ Counted(c, {})
  /\ Refused(c)

RefusedByHour(c) ==
  /\ chat[c].pc = "none" /\ Lets(c, "chat") /\ ~Lets(c, "chat_burst")
  /\ Counted(c, {"chat"})
  /\ Refused(c)

RefusedByBudget(c) ==
  /\ chat[c].pc = "none" /\ Lets(c, "chat") /\ Lets(c, "chat_burst")
  /\ Counted(c, Tiers)
  /\ Refused(c)

(***************************************************************************)
(* Threads and sessions                                                    *)
(***************************************************************************)
\* Mutant: the counter alone names the thread.
NewThreadCounted == <<counter + 1, 0>>

NewThread == <<counter + 1, now>>

\* Admitted: the thread is named before the first await.
ChatAdmitted(c, given) ==
  /\ chat[c].pc = "none" /\ Lets(c, "chat") /\ Lets(c, "chat_burst")
  /\ Counted(c, Tiers)
  /\ LET new == given = NoThread IN
     /\ chat' = [chat EXCEPT ![c] =
                   [Stamped(c, "identify") EXCEPT
                      !.thread = IF new THEN NewThread ELSE given, !.new = new]]
     /\ counter' = IF new THEN counter + 1 ELSE counter
  /\ UNCHANGED <<now, sessions, boots>>

\* INSERT OR REPLACE: a session that had ended begins again.
Opened == [active |-> TRUE, last |-> now, ended |-> FALSE]

\* The user is known: session, then /deep without a question or over the Opus
\* budget (refused), a heuristic or /deep (invoke), or the classifier.
Identified(c) ==
  /\ chat[c].pc = "identify"
  /\ sessions' = [sessions EXCEPT ![chat[c].thread] = Opened]
  /\ \E pc \in {"refused", "classify", "invoke"} : Goes(c, pc)
  /\ UNCHANGED <<now, slots, counter, boots>>

\* The classifier's answer, or its failure, which counts as HEAVY.
Classified(c) ==
  /\ chat[c].pc = "classify"
  /\ Goes(c, "invoke")
  /\ UNCHANGED <<now, slots, counter, sessions, boots>>

Answered(c) ==
  /\ chat[c].pc = "invoke"
  /\ \E pc \in {"done", "failed"} : Goes(c, pc)
  /\ UNCHANGED <<now, slots, counter, sessions, boots>>

\* The voice server's calls on the dashboard's session endpoints.
SessionOpen(t) ==
  /\ sessions' = [sessions EXCEPT ![t] = Opened]
  /\ UNCHANGED <<now, chat, slots, counter, boots>>

\* An activity does not bring back a session that has ended.
SessionUpdate(t) ==
  /\ sessions[t] # NoSession
  /\ sessions' = [sessions EXCEPT ![t].last = now]
  /\ UNCHANGED <<now, chat, slots, counter, boots>>

Ended(row) == [row EXCEPT !.active = FALSE, !.ended = TRUE]

SessionClose(t) ==
  /\ sessions[t] # NoSession
  /\ sessions' = [sessions EXCEPT ![t] = Ended(@)]
  /\ UNCHANGED <<now, chat, slots, counter, boots>>

Quiet(t) == sessions[t] # NoSession /\ sessions[t].active /\ sessions[t].last < now - Stale

\* The dashboard's list ends what has been quiet for too long.
ListActive ==
  /\ \E t \in Threads : Quiet(t)
  /\ sessions' = [t \in Threads |-> IF Quiet(t) THEN Ended(sessions[t]) ELSE sessions[t]]
  /\ UNCHANGED <<now, chat, slots, counter, boots>>

ChatTick ==
  /\ now < MaxNow
  /\ now' = now + 1
  /\ UNCHANGED <<chat, slots, counter, sessions, boots>>

\* Starting takes longer than a tick.
ChatRestart ==
  /\ boots < MaxRestarts /\ now < MaxNow
  /\ boots' = boots + 1 /\ now' = now + 1
  /\ chat'  = [c \in Chats |-> IF chat[c].pc \in {"identify", "classify", "invoke"}
                                 THEN [chat[c] EXCEPT !.pc = "failed"] ELSE chat[c]]
  /\ slots' = [tier \in Tiers |-> {}]
  /\ counter' = 0
  /\ UNCHANGED sessions

ChatNext ==
  \/ \E c \in Chats :
       \/ RefusedByMinute(c) \/ RefusedByHour(c) \/ RefusedByBudget(c)
       \/ \E t \in Given \cup {NoThread} : ChatAdmitted(c, t)
       \/ Identified(c) \/ Classified(c) \/ Answered(c)
  \/ \E t \in Given : SessionOpen(t) \/ SessionUpdate(t) \/ SessionClose(t)
  \/ ListActive \/ ChatTick \/ ChatRestart

ChatSpec == ChatInit /\ [][ChatNext]_chatVars

(***************************************************************************)
(* Properties                                                              *)
(***************************************************************************)
\* The counted requests of one process that were not refused by the limiter.
Passed(boot) ==
  {c \in Chats \ Inside :
     /\ chat[c].boot = boot
     /\ chat[c].pc \in {"identify", "classify", "invoke", "done", "failed"}}

\* In no stretch of time as long as a window do more requests of an address
\* outside of _BYPASS_IPS pass than the window's limit, wherever the stretch
\* begins and however the requests overlap, as long as the process lives
\* (check_rate_limit; README: 10 a minute, 60 an hour).
RateHolds ==
  \A boot \in 0..boots, tier \in Tiers, end \in 0..now :
    Cardinality({c \in Passed(boot) :
                   chat[c].at \in (end - Limits[tier].window + 1)..end})
      <= Limits[tier].max

\* A message without a thread starts a conversation of its own: no two of them,
\* of one process or of two, are given the same thread (chat, _thread_counter).
NewThreadsAreNew ==
  \A c, d \in Chats : c # d /\ chat[c].new /\ chat[d].new
                        => chat[c].thread # chat[d].thread
=============================================================================
