----------------------------- MODULE TokenVerifier -----------------------------
(***************************************************************************)
(* Delegated verification of one bearer token (token_verifier.ts), as the  *)
(* auth middleware and the SSE channel use it: look the verdict up in      *)
(* Redis, else ask the configured endpoint, cache what it said with a TTL. *)
(* Requests run concurrently and share nothing but the cache.  Verdicts of *)
(* different tokens have different keys, so one token is the whole state.   *)
(*                                                                         *)
(* Time passes in ticks.  A call to the endpoint is aborted after          *)
(* VerifyTimeout of them; the Redis commands take less than one.            *)
(***************************************************************************)
EXTENDS Naturals

CONSTANTS
  Requests,      \* the requests in flight
  CacheTtl,      \* cacheTtlSeconds
  VerifyTimeout  \* AbortSignal.timeout

(* Redis refuses an EX of 0: a deployment has to configure a TTL. *)
ASSUME TtlIsPositive == CacheTtl \in Nat \ {0}
ASSUME TimeoutIsPositive == VerifyTimeout \in Nat \ {0}

VARIABLES
  valid,    \* what the endpoint would say of the token now
  up,       \* does the endpoint answer within the timeout?
  age,      \* ticks since the token was last valid, up to Stale + 1
  cached,   \* the cached verdict, "none" when there is none
  ttl,      \* what is left of its time to live
  request   \* per request: where it stands

tvars == <<valid, up, age, cached, ttl, request>>

(* How old a verdict may be when it lets a request through.                *)
Stale == CacheTtl + VerifyTimeout

(* "get", "call", "heard" and "set" are the awaits of verify; "heard" is a *)
(* verdict on its way back from the endpoint.                               *)
Pcs == {"idle", "get", "call", "heard", "set"}
Replies == {"none", "allowed", "denied", "error"}
RequestStates == [pc : Pcs, elapsed : 0..VerifyTimeout, ok : BOOLEAN, reply : Replies]

Fresh == [pc |-> "idle", elapsed |-> 0, ok |-> FALSE, reply |-> "none"]

Init ==
  /\ valid \in BOOLEAN
  /\ up \in BOOLEAN
  /\ age = IF valid THEN 0 ELSE Stale + 1
  /\ cached = "none"
  /\ ttl = 0
  /\ request = [r \in Requests |-> Fresh]

At(r, pc) == request[r].pc = pc
Becomes(r, state) == request' = [request EXCEPT ![r] = state]
Replied(reply) == [Fresh EXCEPT !.reply = reply]
Answer(ok) == Replied(IF ok THEN "allowed" ELSE "denied")

-------------------------------------------------------------------------------
(* A request arrives; without a bearer token nothing is verified.  Bound:   *)
(* a requester comes back in a later tick.                                  *)
Arrive(r) ==
  /\ request[r] = Fresh
  /\ \E bearer \in BOOLEAN :
       Becomes(r, IF bearer THEN [Fresh EXCEPT !.pc = "get"] ELSE Replied("denied"))
  /\ UNCHANGED <<valid, up, age, cached, ttl>>

(* Faulty: a hit renews the entry. *)
Renewed == IF cached = "none" THEN ttl ELSE CacheTtl

AfterHit == ttl

GetCached(r) ==
  /\ At(r, "get")
  /\ Becomes(r, IF cached = "none" THEN [request[r] EXCEPT !.pc = "call"]
                ELSE Answer(cached = "valid"))
  /\ ttl' = AfterHit
  /\ UNCHANGED <<valid, up, age, cached>>

(* The endpoint decides; its answer has still to come back. *)
Decide(r) ==
  /\ At(r, "call")
  /\ Becomes(r, [request[r] EXCEPT !.pc = "heard", !.ok = valid])
  /\ UNCHANGED <<valid, up, age, cached, ttl>>

HearVerdict(r) ==
  /\ At(r, "heard")
  /\ Becomes(r, [request[r] EXCEPT !.pc = "set", !.elapsed = 0])
  /\ UNCHANGED <<valid, up, age, cached, ttl>>

(* A network error, or the abort, is a denial. *)
CallFails(r) ==
  /\ ~up
  /\ request[r].pc \in {"call", "heard"}
  /\ Becomes(r, [request[r] EXCEPT !.pc = "set", !.elapsed = 0, !.ok = FALSE])
  /\ UNCHANGED <<valid, up, age, cached, ttl>>

(* Faulty: a denial is kept longer than an allowance. *)
TtlOfDenied(ok) == IF ok THEN CacheTtl ELSE CacheTtl + 1

TtlOf(ok) == CacheTtl

(* redis.set ... EX: allowed or denied, the verdict is cached. *)
SetCached(r) ==
  /\ At(r, "set")
  /\ cached' = IF request[r].ok THEN "valid" ELSE "invalid"
  /\ ttl' = TtlOf(request[r].ok)
  /\ Becomes(r, Answer(request[r].ok))
  /\ UNCHANGED <<valid, up, age>>

(* A Redis command that throws is an error, whatever the endpoint said.    *)
RedisFails(r) ==
  /\ request[r].pc \in {"get", "set"}
  /\ Becomes(r, Replied("error"))
  /\ UNCHANGED <<valid, up, age, cached, ttl>>

-------------------------------------------------------------------------------
(* The environment. *)

(* The issuer grants or revokes the token. *)
ChangeValidity ==
  /\ valid' = ~valid
  /\ age' = 0
  /\ UNCHANGED <<up, cached, ttl, request>>

ChangeReachability ==
  /\ up' = ~up
  /\ UNCHANGED <<valid, age, cached, ttl, request>>

Calling(r) == request[r].pc \in {"call", "heard"}

(* A tick, once nothing is due: no Redis command in flight, no call at its *)
(* timeout.                                                                  *)
Tick ==
  /\ \A r \in Requests : ~At(r, "get") /\ ~At(r, "set")
  /\ \A r \in Requests : Calling(r) => request[r].elapsed < VerifyTimeout
  /\ age' = IF valid THEN 0 ELSE IF age > Stale THEN age ELSE age + 1
  /\ ttl' = IF ttl = 0 THEN 0 ELSE ttl - 1
  /\ cached' = IF ttl' = 0 THEN "none" ELSE cached
  /\ request' = [r \in Requests |-> IF Calling(r)
                                    THEN [request[r] EXCEPT !.elapsed = @ + 1]
                                    ELSE Fresh]
  /\ UNCHANGED <<valid, up>>

Serve(r) == GetCached(r) \/ Decide(r) \/ HearVerdict(r) \/ CallFails(r)
              \/ SetCached(r)

Next ==
  \/ \E r \in Requests : Arrive(r) \/ Serve(r) \/ RedisFails(r)
  \/ ChangeValidity \/ ChangeReachability \/ Tick

Spec == Init /\ [][Next]_tvars

(* Time passes, the endpoint or the abort settles every call, and Redis     *)
(* answers or throws.                                                       *)
FairSpec == Spec /\ WF_tvars(Tick) /\ \A r \in Requests : WF_tvars(Serve(r))
-------------------------------------------------------------------------------
TypeOK ==
  /\ valid \in BOOLEAN
  /\ up \in BOOLEAN
  /\ age \in 0..(Stale + 1)
  /\ cached \in {"none", "valid", "invalid"}
  /\ ttl \in 0..CacheTtl
  /\ request \in [Requests -> RequestStates]

(* A request that is let through has a token that was valid at most        *)
(* CacheTtl + VerifyTimeout ago - revoked tokens do not live on in the     *)
(* cache, whatever slow verdicts other requests store meanwhile            *)
(* (token_verifier.ts:11-14, "cached briefly").                             *)
LetsThrough(r) == At(r, "get") \/ At(r, "set")
AllowedIsFresh ==
  [][\A r \in Requests :
       LetsThrough(r) /\ request'[r].reply = "allowed" => age < Stale \/ valid]_tvars

(* A cached denial passes: once the token stays valid and the endpoint     *)
(* reachable, requests that carry it are refused no more                    *)
(* (token_verifier.ts:14, "any network error is a denial").                 *)
Denies(r) == LetsThrough(r) /\ request'[r].reply = "denied"
DenialPasses ==
  <>[](valid /\ up) => <>[][\A r \in Requests : ~Denies(r)]_tvars

(* Why: what the cache and the requests in flight know is recent enough.   *)
VerdictsAreRecent ==
  /\ cached = "valid" => age + ttl <= Stale
  /\ cached # "none" => ttl > 0
  /\ \A r \in Requests :
       /\ At(r, "heard") /\ request[r].ok => age <= request[r].elapsed
       /\ At(r, "set") /\ request[r].ok => age <= VerifyTimeout
===============================================================================
