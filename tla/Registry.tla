------------------------------ MODULE Registry ------------------------------
(***************************************************************************)
(* The bus's registry of agents and capabilities (routes/agents.py,        *)
(* database.py) and how an agent gets into it (BaseAgent.start).  All      *)
(* requests share one database connection, hence one transaction: each     *)
(* sees what another has not committed yet, and whoever commits commits    *)
(* for all.  An agent that stops leaves its request at work on the bus,    *)
(* and its next life makes another for the same rows.                      *)
(***************************************************************************)
EXTENDS Naturals

CONSTANTS
  Agents,    \* shorthands
  Declared,  \* how many capabilities an agent declares, each with its own name
  Tries,     \* registration attempts, ten in the code
  Lives,     \* bound on the times an agent is started
  BusStops   \* bound on the restarts of the bus

ASSUME RegistryAssumption ==
  Declared \in Nat /\ Tries \in Nat \ {0} /\ Lives \in Nat \ {0} /\ BusStops \in Nat

VARIABLES
  agent,     \* [Agents -> its process: where it stands, which try, which life]
  rows,      \* the table agents, as every request sees it
  caps,      \* [Agents -> its rows of the table capabilities]
  saved,     \* what has been committed: [rows, caps]
  upsert,    \* [Agents \X lives -> upsert_capabilities of that life]
  busStops,  \* restarts of the bus so far
  cut        \* history: agents whose upsert a restart of the bus has ended

registryVars == <<agent, rows, caps, saved, upsert, busStops, cut>>

AgentStages  == {"down", "registering", "declaring", "subscribing", "polling"}
UpsertStages == {"none", "checked", "inserting", "ended"}
AllCaps == 1..Declared
Requests == Agents \X (1..Lives)

RegistryTypeOK ==
  /\ agent \in [Agents -> [pc : AgentStages, try : 0..Tries, life : 0..Lives]]
  /\ rows \in SUBSET Agents /\ caps \in [Agents -> SUBSET AllCaps]
  /\ saved \in [rows : SUBSET Agents, caps : [Agents -> SUBSET AllCaps]]
  /\ upsert \in [Requests -> [pc : UpsertStages, next : 1..(Declared + 1)]]
  /\ busStops \in 0..BusStops /\ cut \in SUBSET Agents

RegistryInit ==
  /\ agent = [a \in Agents |-> [pc |-> "down", try |-> 0, life |-> 0]]
  /\ rows = {} /\ caps = [a \in Agents |-> {}]
  /\ saved = [rows |-> {}, caps |-> caps]
  /\ upsert = [r \in Requests |-> [pc |-> "none", next |-> 1]]
  /\ busStops = 0 /\ cut = {}

(***************************************************************************)
(* BaseAgent.start                                                         *)
(***************************************************************************)
AgentStart(a) ==
  /\ agent[a].pc = "down" /\ agent[a].life < Lives
  /\ agent' = [agent EXCEPT ![a] = [pc |-> "registering", try |-> 0, life |-> @.life + 1]]
  /\ UNCHANGED <<rows, caps, saved, upsert, busStops, cut>>

Tried(a, done) ==
  agent' = [agent EXCEPT ![a].try = @ + 1,
                         ![a].pc = IF done \/ agent[a].try + 1 = Tries
                                     THEN "declaring" ELSE @]

\* POST /agents: inserted and committed; the answer may get lost.
RegisterAgent(a) ==
  /\ agent[a].pc = "registering"
  /\ rows'  = rows \cup {a}
  /\ saved' = [rows |-> rows \cup {a}, caps |-> caps]
  /\ \E answered \in BOOLEAN : Tried(a, answered)
  /\ UNCHANGED <<caps, upsert, busStops, cut>>

\* The bus is not there, or stops between the statement and its commit. After the
\* last try the agent goes on as if it had registered.
RegisterFails(a) ==
  /\ agent[a].pc = "registering"
  /\ Tried(a, FALSE)
  /\ UNCHANGED <<rows, caps, saved, upsert, busStops, cut>>

Subscribing(a) == agent' = [agent EXCEPT ![a].pc = "subscribing"]

\* set_capabilities, whose one call is answered when its request has ended or not at
\* all; a 404 for an agent without a row is not fatal either.
DeclareCapabilities(a) ==
  LET r == <<a, agent[a].life>> IN
  /\ agent[a].pc = "declaring"
  /\ \/ /\ upsert[r].pc = "none" /\ a \in rows
        /\ upsert' = [upsert EXCEPT ![r].pc = "checked"]
        /\ UNCHANGED agent
     \/ Subscribing(a) /\ UNCHANGED upsert
  /\ UNCHANGED <<rows, caps, saved, busStops, cut>>

\* Each topic once, and a failure is not fatal: BusDelivery has what follows from it.
SubscribeTopics(a) ==
  /\ agent[a].pc = "subscribing"
  /\ agent' = [agent EXCEPT ![a].pc = "polling"]
  /\ UNCHANGED <<rows, caps, saved, upsert, busStops, cut>>

AgentStops(a) ==
  /\ agent[a].pc # "down"
  /\ agent' = [agent EXCEPT ![a].pc = "down"]
  /\ UNCHANGED <<rows, caps, saved, upsert, busStops, cut>>

(***************************************************************************)
(* upsert_capabilities, an await at every statement                        *)
(***************************************************************************)
UpsertDelete(r) ==
  /\ upsert[r].pc = "checked"
  /\ upsert' = [upsert EXCEPT ![r].pc = "inserting"]
  /\ caps'   = [caps EXCEPT ![r[1]] = {}]
  /\ UNCHANGED <<agent, rows, saved, busStops, cut>>

UpsertInsert(r) ==
  LET c == upsert[r].next IN
  /\ upsert[r].pc = "inserting" /\ c <= Declared
  /\ c \notin caps[r[1]]
  /\ upsert' = [upsert EXCEPT ![r].next = c + 1]
  /\ caps'   = [caps EXCEPT ![r[1]] = @ \cup {c}]
  /\ UNCHANGED <<agent, rows, saved, busStops, cut>>

\* Mutant: the failing request rolls back the transaction all of them share.
UpsertClashRolledBack(r) ==
  /\ upsert[r].pc = "inserting" /\ upsert[r].next \in caps[r[1]]
  /\ upsert' = [upsert EXCEPT ![r].pc = "ended"]
  /\ rows' = saved.rows /\ caps' = saved.caps
  /\ UNCHANGED <<agent, saved, busStops, cut>>

\* UNIQUE(agent, name): the statement fails and the request with it, a 500; what it
\* has done stays in the transaction.
UpsertClash(r) ==
  /\ upsert[r].pc = "inserting" /\ upsert[r].next \in caps[r[1]]
  /\ upsert' = [upsert EXCEPT ![r].pc = "ended"]
  /\ UNCHANGED <<agent, rows, caps, saved, busStops, cut>>

UpsertCommit(r) ==
  /\ upsert[r].pc = "inserting" /\ upsert[r].next > Declared
  /\ upsert' = [upsert EXCEPT ![r].pc = "ended"]
  /\ saved'  = [rows |-> rows, caps |-> caps]
  /\ UNCHANGED <<agent, rows, caps, busStops, cut>>

AtWorkFor(a) == {r \in Requests : r[1] = a /\ upsert[r].pc \in {"checked", "inserting"}}

BusStop ==
  /\ busStops < BusStops
  /\ busStops' = busStops + 1
  /\ rows' = saved.rows /\ caps' = saved.caps
  /\ upsert' = [r \in Requests |-> IF upsert[r].pc \in {"checked", "inserting"}
                                     THEN [upsert[r] EXCEPT !.pc = "ended"] ELSE upsert[r]]
  /\ cut' = cut \cup {a \in Agents : AtWorkFor(a) # {} \/ caps[a] # saved.caps[a]}
  /\ UNCHANGED <<agent, saved>>

RegistryNext ==
  \/ \E a \in Agents : \/ AgentStart(a) \/ RegisterAgent(a) \/ RegisterFails(a)
                       \/ DeclareCapabilities(a) \/ SubscribeTopics(a) \/ AgentStops(a)
  \/ \E r \in Requests : \/ UpsertDelete(r) \/ UpsertInsert(r) \/ UpsertClash(r)
                         \/ UpsertCommit(r)
  \/ BusStop

RegistrySpec == RegistryInit /\ [][RegistryNext]_registryVars

(***************************************************************************)
(* Properties                                                              *)
(***************************************************************************)
\* When no request for an agent is at work its capabilities are all there or none
\* has ever been declared, however its requests of two lives interleaved and
\* whichever of them failed, unless the bus stopped in the middle
\* (upsert_capabilities).
CapabilitiesWhole ==
  \A a \in Agents \ cut : AtWorkFor(a) = {} =>
    \/ caps[a] = AllCaps
    \/ \A l \in 1..Lives : upsert[<<a, l>>].pc = "none"
=============================================================================
