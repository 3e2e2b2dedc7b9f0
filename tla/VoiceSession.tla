---------------------------- MODULE VoiceSession ----------------------------
(***************************************************************************)
(* One WebSocket of the voice server (bob-voice-updates/app.py).  Two      *)
(* coroutines share the stop event and the queue: the listener takes what  *)
(* the client sends, the main loop transcribes an utterance, asks BOB,     *)
(* and speaks the answer, a task for each sentence.  BOB's answer is a     *)
(* stream of sentences; when there is no such endpoint, or the stream      *)
(* breaks, the server asks again with /chat and speaks the whole answer.   *)
(* BOB at this commit has no /chat/stream.                                 *)
(***************************************************************************)
EXTENDS Naturals, Sequences

CONSTANTS
  MaxExchanges,  \* bound on the utterances of a client
  MaxSentences   \* bound on the sentences of an answer

ASSUME VoiceAssumption == MaxExchanges \in Nat /\ MaxSentences \in Nat

Exchanges == 1..MaxExchanges
Whole     == 0                    \* the answer spoken in one piece
Audio     == Exchanges \X (0..(MaxSentences + 1))
End       == 0                    \* the None a listener leaves in the queue

VARIABLES
  connected,  \* the client is there
  listening,  \* the listener is running
  uttered,    \* utterances so far
  queue,      \* msg_queue
  stage,      \* where the main loop stands
  current,    \* the exchange it is in
  stop,       \* stop_event
  produced,   \* sentences of the current answer so far
  tasks,      \* speech being made: a subset of Audio
  failed,     \* tasks of the current exchange that have raised
  sent,       \* what the client has been sent, in order
  broken,     \* exchanges whose stream has ended in an exception
  stoppedAt   \* history: [Exchanges -> what had been sent at the first stop, or none]

voiceVars == <<connected, listening, uttered, queue, stage, current, stop, produced,
               tasks, failed, sent, broken, stoppedAt>>

VoiceStages == {"waiting", "transcribing", "opening", "streaming", "asking", "whole",
                "joining", "last", "storing", "closed"}
Speaking    == {"opening", "streaming", "asking", "whole", "joining", "last"}
NeverStopped == MaxExchanges * (MaxSentences + 2) + 1

VoiceTypeOK ==
  /\ connected \in BOOLEAN /\ listening \in BOOLEAN /\ stop \in BOOLEAN
  /\ uttered \in 0..MaxExchanges
  /\ queue \in Seq(Exchanges \cup {End})
  /\ stage \in VoiceStages /\ current \in 0..MaxExchanges
  /\ produced \in 0..MaxSentences
  /\ tasks \in SUBSET Audio /\ failed \in SUBSET Audio
  /\ sent \in Seq(Audio)
  /\ broken \in SUBSET Exchanges
  /\ stoppedAt \in [Exchanges -> 0..NeverStopped]

VoiceInit ==
  /\ connected = TRUE /\ listening = TRUE /\ uttered = 0 /\ queue = << >>
  /\ stage = "waiting" /\ current = 0 /\ stop = FALSE /\ produced = 0
  /\ tasks = {} /\ failed = {} /\ sent = << >>
  /\ broken = {}
  /\ stoppedAt = [e \in Exchanges |-> NeverStopped]

client == <<connected, listening, uttered, queue>>
speech == <<tasks, failed, sent>>

(***************************************************************************)
(* The listener                                                            *)
(***************************************************************************)
Utter ==
  /\ connected /\ listening /\ uttered < MaxExchanges
  /\ uttered' = uttered + 1
  /\ queue'   = Append(queue, uttered + 1)
  /\ UNCHANGED <<connected, listening, stage, current, stop, produced, speech,
                 broken, stoppedAt>>

\* stop_audio, and new_session, which also takes a new thread id
StopAudio ==
  /\ connected /\ listening
  /\ stop' = TRUE
  /\ stoppedAt' = IF stage \in Speaking /\ stoppedAt[current] = NeverStopped
                    THEN [stoppedAt EXCEPT ![current] = Len(sent)] ELSE stoppedAt
  /\ UNCHANGED <<client, stage, current, produced, speech, broken>>

\* The client goes, or sends what is no JSON: the listener leaves the None.
ListenerEnds ==
  /\ listening
  /\ listening' = FALSE
  /\ connected' \in {connected, FALSE}
  /\ queue' = Append(queue, End)
  /\ UNCHANGED <<uttered, stage, current, stop, produced, speech, broken,
                 stoppedAt>>

(***************************************************************************)
(* The main loop                                                           *)
(***************************************************************************)
\* The None, or an exception: the listener is cancelled.
Close ==
  /\ stage' = "closed"
  /\ listening' = FALSE
  /\ UNCHANGED <<connected, uttered, current, stop, produced, speech, broken, stoppedAt>>

TakeEnd ==
  /\ stage = "waiting" /\ queue # << >> /\ Head(queue) = End
  /\ queue' = Tail(queue)
  /\ Close

\* An utterance above the rate limit is dropped.
Take ==
  /\ stage = "waiting" /\ queue # << >> /\ Head(queue) # End
  /\ queue' = Tail(queue)
  /\ \/ UNCHANGED <<stage, current>>
     \/ stage' = "transcribing" /\ current' = Head(queue)
  /\ UNCHANGED <<connected, listening, uttered, stop, produced, speech, broken,
                 stoppedAt>>

\* Speech recognition, the model, storing or sending to a client that has gone
\* raises where nothing catches it but the loop's last except.
MainFails ==
  /\ stage \in {"transcribing", "opening", "asking", "whole", "last", "storing"}
  /\ Close
  /\ UNCHANGED queue

\* Nothing understood
Misheard ==
  /\ stage = "transcribing"
  /\ stage' = "waiting"
  /\ UNCHANGED <<client, current, stop, produced, speech, broken, stoppedAt>>

\* stop_event.clear() comes after the transcription.
Transcribed ==
  /\ stage = "transcribing"
  /\ stage' = "opening" /\ stop' = FALSE /\ produced' = 0 /\ failed' = {}
  /\ UNCHANGED <<client, current, tasks, sent, broken, stoppedAt>>

\* BOB has the message and begins to answer, or has no such endpoint (404).
StreamOpens ==
  /\ stage = "opening"
  /\ stage' \in {"streaming", "asking"}
  /\ UNCHANGED <<client, current, stop, produced, speech, broken, stoppedAt>>

Mine == {a \in tasks : a[1] = current}

\* Mutant: a sentence does not wait for the one before.
StreamSentenceAtOnce ==
  /\ stage = "streaming" /\ ~stop /\ failed = {} /\ produced < MaxSentences
  /\ produced' = produced + 1
  /\ tasks' = tasks \cup {<<current, produced + 1>>}
  /\ UNCHANGED <<client, stage, current, stop, failed, sent, broken, stoppedAt>>

\* A sentence is complete: the task of the one before is awaited first.
StreamSentence ==
  /\ stage = "streaming" /\ ~stop /\ Mine = {} /\ failed = {}
  /\ produced < MaxSentences
  /\ produced' = produced + 1
  /\ tasks' = tasks \cup {<<current, produced + 1>>}
  /\ UNCHANGED <<client, stage, current, stop, failed, sent, broken, stoppedAt>>

\* The stream is done, or the user has stopped it.
StreamEnds ==
  /\ stage = "streaming"
  /\ stage' = "joining"
  /\ UNCHANGED <<client, current, stop, produced, speech, broken, stoppedAt>>

\* The connection breaks, or the awaited task has raised: BOB is asked again,
\* and a task that is still at work is left alone.
StreamBreaks ==
  /\ stage \in {"streaming", "opening"}
  /\ stage'  = "asking"
  /\ broken' = broken \cup {current}
  /\ UNCHANGED <<client, current, stop, produced, speech, stoppedAt>>

\* ask_bob has the whole answer; a stop by now saves the speech.
Asked ==
  /\ stage = "asking"
  /\ stage' = IF stop THEN "storing" ELSE "whole"
  /\ UNCHANGED <<client, current, stop, produced, speech, broken, stoppedAt>>

\* It is sent without another look at the stop event.
SpeakWhole ==
  /\ stage = "whole" /\ connected
  /\ sent'  = Append(sent, <<current, Whole>>)
  /\ stage' = "storing"
  /\ UNCHANGED <<client, current, stop, produced, tasks, failed, broken,
                 stoppedAt>>

\* The last task is awaited, outside of the try, then the rest of the buffer
\* spoken; the event is looked at before the speech is made and again after.
JoinFails ==
  /\ stage = "joining" /\ failed # {}
  /\ Close
  /\ UNCHANGED queue

Joined ==
  /\ stage = "joining" /\ Mine = {} /\ failed = {}
  /\ \/ stage' = "storing"
     \/ stage' = "last" /\ ~stop
  /\ UNCHANGED <<client, current, stop, produced, speech, broken, stoppedAt>>

SpeakLast ==
  /\ stage = "last"
  /\ stage' = "storing"
  /\ IF stop THEN UNCHANGED sent
     ELSE connected /\ sent' = Append(sent, <<current, produced + 1>>)
  /\ UNCHANGED <<client, current, stop, produced, tasks, failed, broken,
                 stoppedAt>>

\* The exchange is stored and shown, and the event cleared.
Stored ==
  /\ stage = "storing" /\ connected
  /\ stage' = "waiting" /\ stop' = FALSE
  /\ UNCHANGED <<client, current, produced, speech, broken, stoppedAt>>

(***************************************************************************)
(* The sentences' tasks                                                    *)
(***************************************************************************)
\* Mutant: the event is looked at before the speech is made only.
TaskEndsUnasked(a) ==
  /\ a \in tasks /\ connected
  /\ tasks' = tasks \ {a}
  /\ sent'  = Append(sent, a)
  /\ UNCHANGED <<client, stage, current, stop, produced, failed, broken,
                 stoppedAt>>

\* tts_and_send has its speech and looks at the event again before it sends.
TaskEnds(a) ==
  /\ a \in tasks /\ (stop \/ connected)
  /\ tasks' = tasks \ {a}
  /\ sent'  = IF stop THEN sent ELSE Append(sent, a)
  /\ UNCHANGED <<client, stage, current, stop, produced, failed, broken,
                 stoppedAt>>

\* The speech service fails or the client has gone.
TaskFails(a) ==
  /\ a \in tasks
  /\ tasks'  = tasks \ {a}
  /\ failed' = IF a[1] = current THEN failed \cup {a} ELSE failed
  /\ UNCHANGED <<client, stage, current, stop, produced, sent, broken, stoppedAt>>

VoiceNext ==
  \/ Utter \/ StopAudio \/ ListenerEnds
  \/ Take \/ TakeEnd \/ MainFails \/ Misheard \/ Transcribed
  \/ StreamOpens \/ StreamSentence \/ StreamEnds \/ StreamBreaks
  \/ Asked \/ SpeakWhole \/ JoinFails \/ Joined \/ SpeakLast \/ Stored
  \/ \E a \in tasks : TaskEnds(a) \/ TaskFails(a)

VoiceSpec == VoiceInit /\ [][VoiceNext]_voiceVars

(***************************************************************************)
(* Properties                                                              *)
(***************************************************************************)
\* The client hears the sentences of an answer in BOB's order and before those
\* of the next answer, except what a stream that broke has left behind
\* (stream_bob_and_speak: the earlier tasks are awaited).
SpokenInOrder ==
  \A i, j \in DOMAIN sent : i < j =>
    \/ sent[i][1] \in broken \/ sent[j][1] \in broken
    \/ sent[i][1] < sent[j][1]
    \/ sent[i][1] = sent[j][1] /\ sent[i][2] < sent[j][2]

\* Once the user has stopped an answer no further sentence of it is heard, not
\* even after the next utterance has cleared the event, unless its stream broke.
\* The answer spoken in one piece is not stopped any more (tts_and_send).
StoppedStaysSilent ==
  \A i \in DOMAIN sent :
    LET e == sent[i][1] IN
    i > stoppedAt[e] => sent[i][2] = Whole \/ e \in broken
=============================================================================
