------------------------------ MODULE LiveFeed ------------------------------
(***************************************************************************)
(* The live dashboard: the bus pushes its whole state to a set of          *)
(* WebSockets (message-bus/app/routes/system.py), BOB passes the pushes on *)
(* (ws_proxy in dashboard_api.py), and the page keeps one socket and opens *)
(* another when it closes (dashboard/src/api/websocket.ts).                *)
(*                                                                         *)
(* broadcast_update has an await at every query and at every send, and is  *)
(* called by every write to the database and, each three seconds, by every *)
(* connection's endpoint: pushes overlap, and dashboards come and go while *)
(* one iterates over the set.  What is pushed is left out: each push       *)
(* carries everything, so that nothing depends on the last one.            *)
(***************************************************************************)
EXTENDS Naturals, FiniteSets

CONSTANTS
  Tabs,       \* pages with a WsManager
  Links,      \* browser - BOB - bus connections; their number bounds them
  NoLink,     \* a page without a socket
  Writer,     \* a request that writes, as the owner of a push
  Pushes,     \* pushes at a time; their number bounds them
  FeedFaults  \* bound on broken connections and restarts

ASSUME FeedAssumption ==
  NoLink \notin Links /\ Writer \notin Links /\ FeedFaults \in Nat

VARIABLES
  tab,        \* [Tabs -> its socket and the state it shows]
  link,       \* [Links -> its two halves]
  endpoint,   \* [Links -> websocket_endpoint on the bus]
  conns,      \* _connections
  push,       \* [Pushes -> a call of broadcast_update]
  feedFaults  \* faults so far

feedVars == <<tab, link, endpoint, conns, push, feedFaults>>

Halves == {"none", "opening", "open", "closed"}
Tab    == [ws : Links \cup {NoLink}, state : {"disconnected", "connecting", "connected"}]
Push   == [pc : {"idle", "reading", "sending"}, by : Links \cup {Writer},
           begin : SUBSET Links, sent : SUBSET Links, dead : SUBSET Links]
NoPush == [pc |-> "idle", by |-> Writer, begin |-> {}, sent |-> {}, dead |-> {}]
Alone  == [ws |-> NoLink, state |-> "disconnected"]

FeedTypeOK ==
  /\ tab \in [Tabs -> Tab]
  /\ link \in [Links -> [browser : Halves, bus : Halves]]
  /\ endpoint \in [Links -> {"none", "sleeping", "pushing", "ended"}]
  /\ conns \in SUBSET Links
  /\ push \in [Pushes -> Push]
  /\ feedFaults \in 0..FeedFaults

FeedInit ==
  /\ tab = [t \in Tabs |-> Alone]
  /\ link = [k \in Links |-> [browser |-> "none", bus |-> "none"]]
  /\ endpoint = [k \in Links |-> "none"]
  /\ conns = {} /\ push = [p \in Pushes |-> NoPush] /\ feedFaults = 0

FeedFault == feedFaults < FeedFaults /\ feedFaults' = feedFaults + 1

(***************************************************************************)
(* The page                                                                *)
(***************************************************************************)
\* connect: on load, or when the timer of onclose has run out.
Connect(t, k) ==
  /\ tab[t].ws = NoLink /\ link[k].browser = "none"
  /\ tab'  = [tab EXCEPT ![t] = [ws |-> k, state |-> "connecting"]]
  /\ link' = [link EXCEPT ![k].browser = "opening"]
  /\ UNCHANGED <<endpoint, conns, push, feedFaults>>

\* onclose of every page whose socket is among ks
Closed(ks) == [t \in Tabs |-> IF tab[t].ws \in ks THEN Alone ELSE tab[t]]

\* The page is left or loses its network: the proxy's receiving half ends, the
\* other one waits for the bus.
BrowserCloses(k) ==
  /\ link[k].browser \in {"opening", "open"} /\ FeedFault
  /\ link' = [link EXCEPT ![k].browser = "closed"]
  /\ tab'  = Closed({k})
  /\ UNCHANGED <<endpoint, conns, push>>

(***************************************************************************)
(* ws_proxy                                                                *)
(***************************************************************************)
\* The browser is accepted, and shows Live, before the bus is asked.
ProxyAccepts(k) ==
  /\ link[k].browser = "opening"
  /\ link' = [link EXCEPT ![k] = [browser |-> "open", bus |-> "opening"]]
  /\ tab'  = [t \in Tabs |-> IF tab[t].ws = k THEN [tab[t] EXCEPT !.state = "connected"]
                                            ELSE tab[t]]
  /\ UNCHANGED <<endpoint, conns, push, feedFaults>>

\* No connection to the bus: the browser's is closed as well.
BusRefuses(k) ==
  /\ link[k].bus = "opening" /\ FeedFault
  /\ link' = [link EXCEPT ![k] = [browser |-> "closed", bus |-> "closed"]]
  /\ tab'  = Closed({k})
  /\ UNCHANGED <<endpoint, conns, push>>

\* The connection to the bus ends: bus_to_browser returns, but gather waits for
\* browser_to_bus, which waits for a browser that never says anything.
Unfed(ks) == [k \in Links |-> IF k \in ks /\ link[k].bus \in {"opening", "open"}
                                THEN [link[k] EXCEPT !.bus = "closed"] ELSE link[k]]

BusSideBreaks(k) ==
  /\ link[k].bus = "open" /\ FeedFault
  /\ link' = Unfed({k})
  /\ UNCHANGED <<tab, endpoint, conns, push>>

ProxyRestart ==
  /\ FeedFault
  /\ link' = [k \in Links |-> [browser |-> IF link[k].browser = "none" THEN "none" ELSE "closed",
                               bus     |-> IF link[k].bus = "none" THEN "none" ELSE "closed"]]
  /\ tab'  = Closed(Links)
  /\ UNCHANGED <<endpoint, conns, push>>

(***************************************************************************)
(* The bus: websocket_endpoint                                             *)
(***************************************************************************)
\* accept, and a place in the set
BusAccepts(k) ==
  /\ link[k].bus = "opening"
  /\ link'     = [link EXCEPT ![k].bus = "open"]
  /\ endpoint' = [endpoint EXCEPT ![k] = "sleeping"]
  /\ conns'    = conns \cup {k}
  /\ UNCHANGED <<tab, push, feedFaults>>

\* A push at once, and again after each sleep as long as the socket is in the
\* set.  The loop itself has no end.
Wake(k, p) ==
  /\ endpoint[k] = "sleeping" /\ k \in conns
  /\ push[p].pc = "idle"
  /\ endpoint' = [endpoint EXCEPT ![k] = "pushing"]
  /\ push'     = [push EXCEPT ![p] = [NoPush EXCEPT !.pc = "reading", !.by = k]]
  /\ UNCHANGED <<tab, link, conns, feedFaults>>

\* _notify_change of a write; without a dashboard it returns at once.
WritePushes(p) ==
  /\ push[p].pc = "idle" /\ conns # {}
  /\ push' = [push EXCEPT ![p] = [NoPush EXCEPT !.pc = "reading"]]
  /\ UNCHANGED <<tab, link, endpoint, conns, feedFaults>>

(***************************************************************************)
(* The bus: broadcast_update                                               *)
(***************************************************************************)
\* The queries have been answered: the iteration begins on the set as it is now.
BeginSending(p) ==
  /\ push[p].pc = "reading"
  /\ push' = [push EXCEPT ![p].pc = "sending", ![p].begin = conns]
  /\ UNCHANGED <<tab, link, endpoint, conns, feedFaults>>

Iterates(p) == push[p].pc = "sending" /\ Cardinality(conns) = Cardinality(push[p].begin)

\* A socket that cannot be sent to is noted.  One that can, but leads to a page
\* that has gone, is the last thing its proxy does.
PushSend(p, k) ==
  /\ Iterates(p)
  /\ k \in conns \ push[p].sent
  /\ push' = [push EXCEPT ![p].sent = @ \cup {k},
                          ![p].dead = IF link[k].bus = "open" THEN @ ELSE @ \cup {k}]
  /\ link' = IF link[k].browser = "open" THEN link ELSE Unfed({k})
  /\ UNCHANGED <<tab, endpoint, conns, feedFaults>>

Owner(p, stage) ==
  endpoint' = [k \in Links |-> IF k = push[p].by THEN stage ELSE endpoint[k]]

\* Mutant: the set is replaced by what is left of the one that was iterated over.
PushEndsStale(p) ==
  /\ Iterates(p) /\ push[p].begin \cap conns \subseteq push[p].sent
  /\ push'  = [push EXCEPT ![p] = NoPush]
  /\ conns' = push[p].begin \ push[p].dead
  /\ Owner(p, "sleeping")
  /\ UNCHANGED <<tab, link, feedFaults>>

\* All that were there have been sent to, the dead ones leave the set.
PushEnds(p) ==
  /\ Iterates(p) /\ push[p].begin \cap conns \subseteq push[p].sent
  /\ push'  = [push EXCEPT ![p] = NoPush]
  /\ conns' = conns \ push[p].dead
  /\ Owner(p, "sleeping")
  /\ UNCHANGED <<tab, link, feedFaults>>

\* The exception ends the endpoint it happens in, which leaves the set and closes
\* its socket; in a write it is the request's (see BusTasks).
PushRaises(p) ==
  /\ push'  = [push EXCEPT ![p] = NoPush]
  /\ conns' = conns \ {push[p].by}
  /\ link'  = Unfed({push[p].by})
  /\ Owner(p, "ended")
  /\ UNCHANGED tab

\* "Set changed size during iteration"
SetChanged(p) ==
  /\ push[p].pc = "sending" /\ Cardinality(conns) # Cardinality(push[p].begin)
  /\ PushRaises(p)
  /\ UNCHANGED feedFaults

QueryFails(p) ==
  /\ push[p].pc = "reading" /\ FeedFault
  /\ PushRaises(p)

FeedBusRestart ==
  /\ FeedFault
  /\ link' = Unfed(Links) /\ conns' = {}
  /\ endpoint' = [k \in Links |-> IF endpoint[k] = "none" THEN "none" ELSE "ended"]
  /\ push' = [p \in Pushes |-> NoPush]
  /\ UNCHANGED tab

FeedNext ==
  \/ \E k \in Links :
       \/ \E t \in Tabs : Connect(t, k)
       \/ BrowserCloses(k) \/ ProxyAccepts(k) \/ BusRefuses(k) \/ BusSideBreaks(k)
       \/ BusAccepts(k)
       \/ \E p \in Pushes : Wake(k, p) \/ PushSend(p, k)
  \/ \E p \in Pushes : \/ WritePushes(p) \/ BeginSending(p) \/ PushEnds(p)
                       \/ SetChanged(p) \/ QueryFails(p)
  \/ ProxyRestart \/ FeedBusRestart

FeedSpec == FeedInit /\ [][FeedNext]_feedVars

(***************************************************************************)
(* Properties                                                              *)
(***************************************************************************)
\* A page that shows Live is pushed to: its socket is in the bus's set and has an
\* endpoint that pushes again, however pushes overlap and pages come and go, from
\* the moment the bus accepts it, unless the bus's half of its connection has
\* ended, of which the proxy tells the page nothing (broadcast_update, ws_proxy;
\* Header.tsx: Live).  And nobody keeps a socket open that no page shows.
LiveIsFed ==
  /\ \A t \in Tabs : tab[t].state = "connected" =>
       LET k == tab[t].ws IN
       \/ link[k].bus \in {"opening", "closed"}
       \/ k \in conns /\ endpoint[k] \in {"sleeping", "pushing"}
  /\ \A k \in Links : link[k].browser \in {"opening", "open"} => \E t \in Tabs : tab[t].ws = k
=============================================================================
