------------------------------ MODULE TokenProofs ------------------------------
(***************************************************************************)
(* How old an allowed verdict can be, for every number of requests and     *)
(* every choice of the two durations.                                       *)
(***************************************************************************)
EXTENDS TokenVerifier, TLAPS

(* VerdictsAreRecent is inductive with the types, what "age" counts and    *)
(* that only a request that is over has its answer.                         *)
Counted == valid => age = 0
Answered == \A r \in Requests : request[r].reply # "none" => At(r, "idle")
IInv == TypeOK /\ Counted /\ Answered /\ VerdictsAreRecent

LEMMA ZeroElapsed == 0 \in 0..VerifyTimeout
BY TimeoutIsPositive

LEMMA Durations == CacheTtl \in Nat /\ VerifyTimeout \in Nat /\ CacheTtl > 0
                     /\ Stale = CacheTtl + VerifyTimeout /\ Stale \in Nat
BY TtlIsPositive, TimeoutIsPositive DEF Stale

LEMMA InitRecent == Init => IInv
<1> SUFFICES ASSUME Init PROVE IInv
  OBVIOUS
<1>1. TypeOK
  BY Durations DEF Init, TypeOK, RequestStates, Pcs, Replies, Fresh
<1>2. VerdictsAreRecent /\ Counted /\ Answered
  BY DEF Init, VerdictsAreRecent, Counted, Answered, At, Fresh
<1> QED BY <1>1, <1>2 DEF IInv

LEMMA BecomesType ==
  ASSUME TypeOK, NEW r \in Requests, NEW state \in RequestStates, Becomes(r, state)
  PROVE  request' \in [Requests -> RequestStates]
BY DEF TypeOK, Becomes

LEMMA FreshType ==
  /\ Fresh \in RequestStates
  /\ [Fresh EXCEPT !.pc = "get"] \in RequestStates
  /\ \A reply \in Replies : Replied(reply) \in RequestStates
  /\ \A ok \in BOOLEAN : Answer(ok) \in RequestStates
<1>1. Fresh \in RequestStates
  BY Durations DEF Fresh, RequestStates, Pcs, Replies
<1>2. \A reply \in Replies : Replied(reply) \in RequestStates
  BY <1>1 DEF Replied, RequestStates
<1>3. [Fresh EXCEPT !.pc = "get"] \in RequestStates
  BY <1>1 DEF RequestStates, Pcs
<1> QED BY <1>1, <1>2, <1>3 DEF Answer, Replies

LEMMA TypeNext == TypeOK /\ [Next]_tvars => TypeOK'
<1> SUFFICES ASSUME TypeOK, [Next]_tvars PROVE TypeOK'
  OBVIOUS
<1>0. \A r \in Requests : request[r] \in RequestStates
  BY DEF TypeOK
<1>1. ASSUME NEW r \in Requests, Arrive(r) PROVE TypeOK'
  <2>1. request' \in [Requests -> RequestStates]
    BY <1>1, FreshType, BecomesType DEF Arrive, Replies
  <2> QED BY <1>1, <2>1 DEF Arrive, TypeOK
<1>2. ASSUME NEW r \in Requests, Serve(r) PROVE TypeOK'
  <2>1. CASE GetCached(r)
    <3>1. [request[r] EXCEPT !.pc = "call"] \in RequestStates
      BY <1>0 DEF RequestStates, Pcs
    <3>2. request' \in [Requests -> RequestStates]
      BY <2>1, <3>1, FreshType, BecomesType DEF GetCached
    <3> QED BY <2>1, <3>2 DEF GetCached, AfterHit, TypeOK
  <2>2. CASE Decide(r)
    <3>1. [request[r] EXCEPT !.pc = "heard", !.ok = valid] \in RequestStates
      BY <1>0 DEF RequestStates, Pcs, TypeOK
    <3>2. request' \in [Requests -> RequestStates]
      BY <2>2, <3>1, BecomesType DEF Decide
    <3> QED BY <2>2, <3>2 DEF Decide, TypeOK
  <2>3. CASE HearVerdict(r)
    <3>1. [request[r] EXCEPT !.pc = "set", !.elapsed = 0] \in RequestStates
      BY <1>0, ZeroElapsed DEF RequestStates, Pcs
    <3>2. request' \in [Requests -> RequestStates]
      BY <2>3, <3>1, BecomesType DEF HearVerdict
    <3> QED BY <2>3, <3>2 DEF HearVerdict, TypeOK
  <2>4. CASE CallFails(r)
    <3>1. [request[r] EXCEPT !.pc = "set", !.elapsed = 0, !.ok = FALSE] \in RequestStates
      BY <1>0, ZeroElapsed DEF RequestStates, Pcs
    <3>2. request' \in [Requests -> RequestStates]
      BY <2>4, <3>1, BecomesType DEF CallFails
    <3> QED BY <2>4, <3>2 DEF CallFails, TypeOK
  <2>5. CASE SetCached(r)
    <3>1. request[r].ok \in BOOLEAN
      BY <1>0 DEF RequestStates
    <3>2. request' \in [Requests -> RequestStates]
      BY <2>5, <3>1, FreshType, BecomesType DEF SetCached
    <3> QED BY <2>5, <3>2, Durations DEF SetCached, TtlOf, TypeOK
  <2> QED BY <1>2, <2>1, <2>2, <2>3, <2>4, <2>5 DEF Serve
<1>3. ASSUME NEW r \in Requests, RedisFails(r) PROVE TypeOK'
  <2>1. request' \in [Requests -> RequestStates]
    BY <1>3, FreshType, BecomesType DEF RedisFails, Replies
  <2> QED BY <1>3, <2>1 DEF RedisFails, TypeOK
<1>4. CASE ChangeValidity \/ ChangeReachability
  <2>1. valid' \in BOOLEAN /\ up' \in BOOLEAN
    BY <1>4, Zenon DEF ChangeValidity, ChangeReachability, TypeOK
  <2>2. age' \in 0..(Stale + 1)
    BY <1>4, Durations DEF ChangeValidity, ChangeReachability, TypeOK
  <2> QED BY <1>4, <2>1, <2>2 DEF ChangeValidity, ChangeReachability, TypeOK
<1>5. CASE Tick
  <2>1. age' \in 0..(Stale + 1) /\ ttl' \in 0..CacheTtl
    BY <1>5, Durations DEF Tick, TypeOK
  <2>2. ASSUME NEW r \in Requests
        PROVE  request'[r] \in RequestStates
    <3>1. CASE Calling(r)
      <4>1. request[r].elapsed \in 0..VerifyTimeout /\ request[r].elapsed < VerifyTimeout
        BY <1>0, <1>5, <3>1 DEF Tick, RequestStates
      <4>2. request[r].elapsed + 1 \in 0..VerifyTimeout
        BY <4>1, Durations
      <4>3. request'[r] = [request[r] EXCEPT !.elapsed = @ + 1]
        BY <1>5, <3>1 DEF Tick
      <4> QED BY <1>0, <4>2, <4>3 DEF RequestStates
    <3>2. CASE ~Calling(r)
      BY <1>5, <3>2, FreshType DEF Tick
    <3> QED BY <3>1, <3>2
  <2>3. request' \in [Requests -> RequestStates]
    BY <1>5, <2>2 DEF Tick
  <2> QED BY <1>5, <2>1, <2>3 DEF Tick, TypeOK
<1>6. CASE UNCHANGED tvars
  BY <1>6 DEF tvars, TypeOK
<1> QED BY <1>1, <1>2, <1>3, <1>4, <1>5, <1>6 DEF Next

LEMMA RecentNext == IInv /\ [Next]_tvars => Counted' /\ Answered' /\ VerdictsAreRecent'
<1> SUFFICES ASSUME IInv, [Next]_tvars PROVE Counted' /\ Answered' /\ VerdictsAreRecent'
  OBVIOUS
<1> USE Durations DEF IInv, TypeOK, Counted, Answered, VerdictsAreRecent, RequestStates, At, Becomes
<1>1. ASSUME NEW r \in Requests, Arrive(r) PROVE Counted' /\ Answered' /\ VerdictsAreRecent'
  BY <1>1 DEF Arrive, Replied, Fresh
<1>2. ASSUME NEW r \in Requests, Serve(r) PROVE Counted' /\ Answered' /\ VerdictsAreRecent'
  <2>1. CASE GetCached(r)
    BY <2>1 DEF GetCached, Replied, Answer, AfterHit, Fresh
  <2>2. CASE Decide(r)
    BY <2>2 DEF Decide
  <2>3. CASE HearVerdict(r)
    BY <2>3 DEF HearVerdict
  <2>4. CASE CallFails(r)
    BY <2>4 DEF CallFails
  <2>5. CASE SetCached(r)
    <3>1. request'[r].pc = "idle"
      BY <2>5 DEF SetCached, Replied, Answer, Fresh
    <3>2. cached' = "valid" => age' + ttl' <= Stale
      BY <2>5 DEF SetCached, TtlOf
    <3> QED BY <2>5, <3>1, <3>2 DEF SetCached, TtlOf
  <2> QED BY <1>2, <2>1, <2>2, <2>3, <2>4, <2>5 DEF Serve
<1>3. ASSUME NEW r \in Requests, RedisFails(r) PROVE Counted' /\ Answered' /\ VerdictsAreRecent'
  BY <1>3 DEF RedisFails, Replied, Fresh
<1>4. CASE ChangeValidity \/ ChangeReachability
  BY <1>4 DEF ChangeValidity, ChangeReachability
<1>5. CASE Tick
  <2>1. ASSUME NEW r \in Requests
        PROVE  /\ request'[r].pc # "set"
               /\ request'[r].pc = "heard" /\ request'[r].ok => age' <= request'[r].elapsed
    BY <1>5 DEF Tick, Calling, Fresh
  <2>2. Counted' /\ Answered'
    BY <1>5 DEF Tick, Calling, Fresh
  <2>3. cached' = "valid" => age' + ttl' <= Stale
    BY <1>5 DEF Tick
  <2>4. cached' # "none" => ttl' > 0
    BY <1>5 DEF Tick
  <2> QED BY <2>1, <2>2, <2>3, <2>4
<1>6. CASE UNCHANGED tvars
  BY <1>6 DEF tvars
<1> QED BY <1>1, <1>2, <1>3, <1>4, <1>5, <1>6 DEF Next

LEMMA Recent == Spec => []IInv
<1>1. IInv /\ [Next]_tvars => IInv'
  BY TypeNext, RecentNext DEF IInv
<1> QED BY <1>1, InitRecent, PTL DEF Spec

(* What the cache and the requests in flight know of the token is recent   *)
(* enough for whatever they do with it next (token_verifier.ts:16-25).      *)
THEOREM VerdictsStayRecent == Spec => []VerdictsAreRecent
<1>1. IInv => VerdictsAreRecent
  BY DEF IInv
<1> QED BY <1>1, Recent, PTL

(* A revoked token opens nothing once CacheTtl + VerifyTimeout have passed *)
(* (token_verifier.ts:11-14).                                               *)
THEOREM RevokedTokensAge == Spec => AllowedIsFresh
<1>1. IInv /\ [Next]_tvars =>
        [\A r \in Requests :
           LetsThrough(r) /\ request'[r].reply = "allowed" => age < Stale \/ valid]_tvars
  <2> SUFFICES ASSUME IInv, Next, NEW r \in Requests,
                      LetsThrough(r), request'[r].reply = "allowed"
               PROVE  age < Stale
    BY DEF tvars
  <2> USE Durations DEF IInv, TypeOK, Answered, VerdictsAreRecent, RequestStates, At,
                        Becomes, LetsThrough
  <2>1. CASE At(r, "get") /\ cached = "valid"
    BY <2>1
  <2>2. CASE At(r, "set") /\ request[r].ok
    BY <2>2
  <2>3. request[r].reply = "none"
    BY DEF Replies
  <2>4. \/ GetCached(r) \/ SetCached(r) \/ RedisFails(r)
        \/ request'[r] \in {request[r], Fresh}
    <3>1. ASSUME NEW q \in Requests, Arrive(q) \/ Decide(q) \/ HearVerdict(q) \/ CallFails(q)
          PROVE  request'[r] = request[r]
      <4>1. q # r
        BY <3>1 DEF Arrive, Decide, HearVerdict, CallFails, Fresh
      <4> QED BY <3>1, <4>1 DEF Arrive, Decide, HearVerdict, CallFails
    <3>2. ASSUME NEW q \in Requests, GetCached(q) \/ SetCached(q) \/ RedisFails(q), q # r
          PROVE  request'[r] = request[r]
      BY <3>2 DEF GetCached, SetCached, RedisFails
    <3>3. CASE ChangeValidity \/ ChangeReachability \/ Tick
      BY <3>3 DEF ChangeValidity, ChangeReachability, Tick, Calling
    <3> QED BY <3>1, <3>2, <3>3 DEF Next, Serve
  <2>5. ~ RedisFails(r) /\ request'[r] \notin {request[r], Fresh}
    BY <2>3 DEF RedisFails, Replied, Fresh
  <2>6. CASE GetCached(r)
    BY <2>1, <2>3, <2>6 DEF GetCached, Answer, Replied, Fresh
  <2>7. CASE SetCached(r)
    BY <2>2, <2>7 DEF SetCached, Answer, Replied, Fresh
  <2> QED BY <2>4, <2>5, <2>6, <2>7
<1> QED BY <1>1, Recent, PTL DEF Spec, AllowedIsFresh
===============================================================================
