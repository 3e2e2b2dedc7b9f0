----------------------------- MODULE MCServices -----------------------------
(***************************************************************************)
(* One run over the components that exchange no call with each other and   *)
(* share no variable.  A behaviour of any one of them, with the others     *)
(* standing still, is a behaviour of all, and an invariant about one       *)
(* component holds in the product of all exactly when it holds in these    *)
(* behaviours: so each behaviour picks a component and exercises it alone, *)
(* and the run is as large as the sum of the components and not as their   *)
(* product.                                                                *)
(***************************************************************************)
EXTENDS PhotoIntake, ChatAdmission, VoiceSession, KeyCache, MailMonitor,
        UsageMonitor, SharedMemory, Registry, Workbench, Scheduler, LiveFeed, TLC

CONSTANTS BE    \* the author of all drafts

VARIABLE focus  \* the component this behaviour exercises

Parts == {"photos", "chats", "rates", "voice", "keys", "mails", "usage", "memory",
          "registry", "workbench", "scheduler", "feed"}

(* The minute's limit is one message in two ticks, the hour's two in five,  *)
(* and the clock goes on until a message has left the hour's window.  That  *)
(* takes four requests and six times, so the chats are exercised in two    *)
(* ways: "rates" sees requests up to their admission, where the limiter    *)
(* has done with them, and restarts; "chats" sees fewer of them up to      *)
(* their end, and the sessions.                                            *)
ChatLimits == [tier \in Tiers |-> IF tier = "chat" THEN [max |-> 1, window |-> 2]
                                                   ELSE [max |-> 2, window |-> 5]]
DraftAuthor == [d \in Drafts |-> BE]

(* What the environment chooses at the start is fixed for the components   *)
(* that stand still.                                                       *)
Some(S) == CHOOSE x \in S : TRUE
Still ==
  /\ focus = "photos" \/ sender = Some([Photos -> Users])
  /\ focus = "keys" \/ backend = Some(Backends)
  /\ focus = "mails" \/ priority = Some([Mails -> Priorities])
  /\ focus = "usage" \/ plan
  /\ focus = "memory" \/ (/\ target = Some([Proposals -> Docs])
                          /\ decision = Some([Deciders -> {d \in Decision : d.pc = "none"}]))

ServicesInit ==
  /\ focus \in Parts
  /\ PhotoInit /\ ChatInit /\ VoiceInit /\ KeyInit /\ MailInit /\ UsageInit
  /\ MemoryInit /\ RegistryInit /\ WorkbenchInit /\ SchedulerInit
  /\ FeedInit
  /\ Still

(* The ids of requests, mails, photos, sweeps, connections and drafts are   *)
(* numbers, given out in the order in which they begin; nothing else tells  *)
(* them apart.                                                              *)
FirstOnes(S, T) == \A x \in S : \A y \in T : y < x => y \in S
Numbered ==
  /\ FirstOnes({p \in Photos : upload[p] # "none"}, Photos)
  /\ FirstOnes({c \in Chats \ Inside : Started(c)}, Chats \ Inside)
  /\ FirstOnes({c \in Inside : Started(c)}, Inside)
  /\ FirstOnes({c \in Calls : call[c].pc # "none"}, Calls)
  /\ FirstOnes(arrived, Mails)
  /\ FirstOnes({s \in Sweeps : sweep[s].pc # "none"}, Sweeps)
  /\ FirstOnes({k \in Links : link[k].browser # "none"}, Links)
  /\ FirstOnes({d \in Drafts : draft[d].stage # "new"}, Drafts)

ChatPart ==
  /\ focus = "rates" =>
       /\ \A c \in Chats : chat[c].pc \in {"none", "identify", "refused", "failed"}
       /\ \A t \in Threads : sessions[t] = NoSession
  /\ focus = "chats" => now <= 2 /\ Cardinality({c \in Chats : Started(c)}) <= 3

Rest(frame) == frame /\ UNCHANGED focus /\ Numbered' /\ ChatPart'

ServicesNext ==
  \/ /\ focus = "photos" /\ PhotoNext
     /\ Rest(UNCHANGED <<chatVars, voiceVars, keyVars, mailVars, usageVars,
                      memoryVars, registryVars, workbenchVars, schedulerVars, feedVars>>)
  \/ /\ focus \in {"chats", "rates"} /\ ChatNext
     /\ Rest(UNCHANGED <<photoVars, voiceVars, keyVars, mailVars, usageVars,
                      memoryVars, registryVars, workbenchVars, schedulerVars, feedVars>>)
  \/ /\ focus = "voice" /\ VoiceNext
     /\ Rest(UNCHANGED <<photoVars, chatVars, keyVars, mailVars, usageVars,
                      memoryVars, registryVars, workbenchVars, schedulerVars, feedVars>>)
  \/ /\ focus = "keys" /\ KeyNext
     /\ Rest(UNCHANGED <<photoVars, chatVars, voiceVars, mailVars, usageVars,
                      memoryVars, registryVars, workbenchVars, schedulerVars, feedVars>>)
  \/ /\ focus = "mails" /\ MailNext
     /\ Rest(UNCHANGED <<photoVars, chatVars, voiceVars, keyVars, usageVars,
                      memoryVars, registryVars, workbenchVars, schedulerVars, feedVars>>)
  \/ /\ focus = "usage" /\ UsageNext
     /\ Rest(UNCHANGED <<photoVars, chatVars, voiceVars, keyVars, mailVars,
                      memoryVars, registryVars, workbenchVars, schedulerVars, feedVars>>)
  \/ /\ focus = "memory" /\ MemoryNext
     /\ Rest(UNCHANGED <<photoVars, chatVars, voiceVars, keyVars, mailVars,
                      usageVars, registryVars, workbenchVars, schedulerVars, feedVars>>)
  \/ /\ focus = "registry" /\ RegistryNext
     /\ Rest(UNCHANGED <<photoVars, chatVars, voiceVars, keyVars, mailVars,
                      usageVars, memoryVars, workbenchVars, schedulerVars, feedVars>>)
  \/ /\ focus = "workbench" /\ WorkbenchNext
     /\ Rest(UNCHANGED <<photoVars, chatVars, voiceVars, keyVars, mailVars,
                      usageVars, memoryVars, registryVars, schedulerVars, feedVars>>)
  \/ /\ focus = "scheduler" /\ SchedulerNext
     /\ Rest(UNCHANGED <<photoVars, chatVars, voiceVars, keyVars, mailVars,
                      usageVars, memoryVars, registryVars, workbenchVars, feedVars>>)
  \/ /\ focus = "feed" /\ FeedNext
     /\ Rest(UNCHANGED <<photoVars, chatVars, voiceVars, keyVars, mailVars,
                      usageVars, memoryVars, registryVars, workbenchVars,
                      schedulerVars>>)

servicesVars == <<focus, photoVars, chatVars, voiceVars, keyVars, mailVars, usageVars,
                  memoryVars, registryVars, workbenchVars, schedulerVars, feedVars>>

ServicesSpec == ServicesInit /\ [][ServicesNext]_servicesVars

(* The type invariant of the component in focus; the others are as they    *)
(* were at the start of the behaviour.                                     *)
ServicesTypeOK ==
  CASE focus = "photos" -> PhotoTypeOK
    [] focus \in {"chats", "rates"} -> ChatTypeOK
    [] focus = "voice" -> VoiceTypeOK
    [] focus = "keys" -> KeyTypeOK
    [] focus = "mails" -> MailTypeOK
    [] focus = "usage" -> UsageTypeOK
    [] focus = "memory" -> MemoryTypeOK
    [] focus = "registry" -> RegistryTypeOK
    [] focus = "workbench" -> WorkbenchTypeOK
    [] focus = "scheduler" -> SchedulerTypeOK
    [] focus = "feed" -> FeedTypeOK
============================================================================
