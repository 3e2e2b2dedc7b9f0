------------------------------ MODULE KeyCache ------------------------------
(***************************************************************************)
(* Who is calling: auth.py of BOB and of the voice server, the same code   *)
(* twice.  The provider's signing keys are fetched once and kept for good; *)
(* a token signed by a key that is not among them makes the server forget  *)
(* them and fetch again, once.  Requests overlap: each may be at its own   *)
(* fetch while others read or forget what is kept.                         *)
(***************************************************************************)
EXTENDS Naturals

CONSTANTS
  Calls,     \* requests with a token; their number bounds them
  MaxGen,    \* bound on the keys the provider signs with, one after the other
  NoKeys     \* the cache before the first fetch

ASSUME KeysAssumption == 
  /\ MaxGen \in Nat \ {0}
  /\ \A keys \in SUBSET (1..MaxGen) : NoKeys # keys

VARIABLES
  backend,   \* BOB_AUTH_BACKEND
  published, \* the provider's keys
  newest,    \* the key it signs with
  cached,    \* _cf_public_keys or _oidc_public_keys
  call       \* [Calls -> where the request stands]

keyVars == <<backend, published, newest, cached, call>>

Backends   == {"cloudflare", "oidc", "shared_secret", "none"}
CallStages == {"none", "asking", "answered", "user", "guest"}
Call == [pc : CallStages, round : {1, 2}, kid : 1..MaxGen, got : SUBSET (1..MaxGen),
         excused : BOOLEAN]
\* excused is history: the token was bad, or the keys did not come.

KeyTypeOK ==
  /\ backend \in Backends
  /\ published \in SUBSET (1..MaxGen) /\ newest \in 1..MaxGen
  /\ cached = NoKeys \/ cached \in SUBSET (1..MaxGen)
  /\ call \in [Calls -> Call]

KeyInit ==
  /\ backend \in Backends
  /\ published = {1} /\ newest = 1 /\ cached = NoKeys
  /\ call = [c \in Calls |-> [pc |-> "none", round |-> 1, kid |-> 1, got |-> {},
                              excused |-> FALSE]]

\* Mutant: the second fetch finds what the first has kept.
ForgottenNot(keys) == keys

\* clear_key_cache; there is no await before the fetch that follows.
Forgotten(keys) == NoKeys

\* What a verified token, or one that has expired or has another audience, is.
Verdicts == {"user", "guest"}

(***************************************************************************)
(* _identify_via_cloudflare, _identify_via_oidc: from the keys at hand in  *)
(* a round to the verdict or to the second fetch.  With no keys at all in  *)
(* the first round the caller is a guest and nothing is forgotten.         *)
(***************************************************************************)
Matched(c, keys, r) ==
  \/ /\ r.kid \in keys
     /\ \E v \in Verdicts :
          call' = [call EXCEPT ![c] = [r EXCEPT !.pc = v,
                                                !.excused = r.excused \/ v = "guest"]]
     /\ cached' = keys
  \/ /\ r.kid \notin keys /\ (keys = {} \/ r.round = 2)
     /\ call'   = [call EXCEPT ![c] = [r EXCEPT !.pc = "guest",
                                               !.excused = @ \/ keys = {}]]
     /\ cached' = keys
  \/ /\ r.kid \notin keys /\ keys # {} /\ r.round = 1
     /\ LET left == Forgotten(keys) IN
        /\ cached' = left
        /\ call'   = [call EXCEPT ![c] =
                        IF left = NoKeys THEN [r EXCEPT !.pc = "asking", !.round = 2]
                                         ELSE [r EXCEPT !.pc = "guest"]]

\* A request with a token of the newest key; its first fetch is saved by the cache.
Identify(c) ==
  /\ call[c].pc = "none" /\ backend \in {"cloudflare", "oidc"}
  /\ LET r == [call[c] EXCEPT !.kid = newest] IN
     IF cached = NoKeys
       THEN call' = [call EXCEPT ![c] = [r EXCEPT !.pc = "asking"]] /\ UNCHANGED cached
       ELSE Matched(c, cached, r)
  /\ UNCHANGED <<backend, published, newest>>

\* A secret, a header that names the user behind Cloudflare, or nobody.
IdentifySecret(c) ==
  /\ call[c].pc = "none"
  /\ \E v \in IF backend = "none" THEN {"guest"} ELSE Verdicts :
       call' = [call EXCEPT ![c].pc = v, ![c].excused = v = "guest"]
  /\ UNCHANGED <<backend, published, newest, cached>>

\* The provider has answered, or it has with an empty set.
KeysSent(c) ==
  /\ call[c].pc = "asking"
  /\ \/ call' = [call EXCEPT ![c].pc = "answered", ![c].got = published]
     \/ call' = [call EXCEPT ![c].pc = "answered", ![c].got = {}, ![c].excused = TRUE]
  /\ UNCHANGED <<backend, published, newest, cached>>

\* The answer is kept, whatever another request has kept in the meantime.
KeysKept(c) ==
  /\ call[c].pc = "answered"
  /\ Matched(c, call[c].got, call[c])
  /\ UNCHANGED <<backend, published, newest>>

\* No answer: [] is what the request goes on with, and nothing is kept.
FetchFails(c) ==
  /\ call[c].pc = "asking"
  /\ call' = [call EXCEPT ![c].pc = "guest", ![c].excused = TRUE]
  /\ UNCHANGED <<backend, published, newest, cached>>

\* A new key, beside the old ones or in their place.
Rotate ==
  /\ newest < MaxGen
  /\ newest' = newest + 1
  /\ published' \in {{newest + 1}, published \cup {newest + 1}}
  /\ UNCHANGED <<backend, cached, call>>

KeyRestart ==
  /\ cached # NoKeys
  /\ cached' = NoKeys
  /\ call' = [c \in Calls |-> IF call[c].pc \in {"asking", "answered"}
                                THEN [call[c] EXCEPT !.pc = "guest", !.excused = TRUE]
                                ELSE call[c]]
  /\ UNCHANGED <<backend, published, newest>>

KeyNext ==
  \/ \E c \in Calls : Identify(c) \/ IdentifySecret(c) \/ KeysSent(c) \/ KeysKept(c)
                      \/ FetchFails(c)
  \/ Rotate \/ KeyRestart

KeySpec == KeyInit /\ [][KeyNext]_keyVars

(***************************************************************************)
(* Properties                                                              *)
(***************************************************************************)
\* A caller whose token is good, signed with a key the provider has had from the
\* request's beginning, is known, whatever is cached and however requests
\* overlap, unless this request's own fetch has failed or the cache holds an
\* empty answer (clear_key_cache: "call if validation fails due to key
\* rotation").
NewKeyAccepted ==
  \A c \in Calls :
    call[c].pc = "guest" /\ call[c].kid \in published /\ backend # "none"
      => call[c].excused
=============================================================================
