----------------------------- MODULE RequestGate -----------------------------
(***************************************************************************)
(* services/commitChecks/requestGate.ts: the gate in front of one check    *)
(* provider.  It runs a few requests at a time, keeps their starts within  *)
(* a budget per rolling window, and stays shut while a cooldown that a     *)
(* response asked for, or a spent budget, is on.  A change of credentials  *)
(* resets it under the requests in flight.                                 *)
(*                                                                         *)
(* Header values arrive parsed: instants are multiples of the clock's unit *)
(* and an absent or unusable header is Absent (0 for an instant).          *)
(***************************************************************************)
EXTENDS RequestGateState

Init ==
  /\ now = 0
  /\ provider \in Provider
  /\ phase = [t \in Task |-> "new"]
  /\ taskGeneration = [t \in Task |-> 0]
  /\ answer = [t \in Task |-> Absent]
  /\ active = 0 /\ waiters = <<>> /\ gateGeneration = 0
  /\ cooldownUntil = 0 /\ cooldownFrom = 0
  /\ rateLimit = 0 /\ rateRemaining = Absent /\ rateResetAt = 0 /\ hasObservedQuota = FALSE
  /\ startedAt = <<>> /\ started = <<>> /\ advertised = {}

-----------------------------------------------------------------------------
CeilTenth(n) == (n + 9) \div 10

\* pruneStartedAt: starts leave from the front, up to the first that still counts.
FirstFresh ==
  CHOOSE i \in 1..(Len(startedAt) + 1) :
    /\ \A j \in 1..(i - 1) : ~Fresh(startedAt[j])
    /\ i <= Len(startedAt) => Fresh(startedAt[i])

Pruned == SubSeq(startedAt, FirstFresh, Len(startedAt))

automaticRequestCeiling ==
  IF hasObservedQuota /\ rateResetAt > now
  THEN Larger(Fallback, Smaller(rateLimit, Ceiling))
  ELSE Fallback

clampCooldown(instant) ==
  IF instant <= now THEN 0 ELSE Smaller(instant, now + Window)

withinResetHorizon(instant) == IF instant <= now + Horizon THEN instant ELSE 0

\* r.retry counts from the reading, r.reset is an instant.
readCooldownUntil(r) ==
  LET retryAfter == clampCooldown(now + r.retry)
      resetAt == clampCooldown(r.reset)
  IN IF retryAfter > now THEN retryAfter
     ELSE IF resetAt > now /\ (r.status = 429 \/ (provider # "gitlab" /\ r.remaining = 0)) THEN resetAt
     ELSE IF r.status = 429 THEN now + Pause
     ELSE 0

\* activateGenericCooldown and rememberCooldown: a cooldown is only ever extended.
CoolDown(until, from) ==
  /\ cooldownUntil' = Larger(cooldownUntil, until)
  /\ cooldownFrom' = IF until > cooldownUntil THEN from ELSE cooldownFrom

\* throwIfCoolingDown, throwIfRequestBudgetExhausted.
Blocked == now < cooldownUntil \/ Len(Pruned) >= automaticRequestCeiling

\* A spent budget leaves a cooldown until the oldest start leaves the window.
BlockedCooldown ==
  IF now < cooldownUntil THEN UNCHANGED cooldownVars
  ELSE CoolDown(Pruned[1] + Window, gateGeneration)

\* release: the slot goes to the first waiter.
Release(t) ==
  IF waiters = <<>>
  THEN /\ phase' = [phase EXCEPT ![t] = "over"]
       /\ active' = active - 1
       /\ UNCHANGED waiters
  ELSE /\ phase' = [phase EXCEPT ![t] = "over", ![Head(waiters)] = "admitted"]
       /\ waiters' = Tail(waiters)
       /\ UNCHANGED active

-----------------------------------------------------------------------------
\* run, up to the await of acquire.
Enter(t) ==
  /\ phase[t] = "new"
  /\ startedAt' = Pruned
  /\ \/ /\ Blocked
        /\ BlockedCooldown
        /\ phase' = [phase EXCEPT ![t] = "over"]
        /\ UNCHANGED <<active, waiters>>
     \/ /\ ~Blocked /\ active < Limit
        /\ active' = active + 1
        /\ phase' = [phase EXCEPT ![t] = "admitted"]
        /\ UNCHANGED <<waiters, cooldownVars>>
     \/ /\ ~Blocked /\ active = Limit
        /\ waiters' = Append(waiters, t)
        /\ phase' = [phase EXCEPT ![t] = "waiting"]
        /\ UNCHANGED <<active, cooldownVars>>
  /\ UNCHANGED <<now, provider, taskGeneration, answer, gateGeneration, started, quotaVars>>

\* Mutant: what was checked before the wait is not checked again.
BeginUnchecked(t) ==
  /\ phase[t] = "admitted"
  /\ startedAt' = Append(Pruned, now)
  /\ started' = Append(started, now)
  /\ taskGeneration' = [taskGeneration EXCEPT ![t] = gateGeneration]
  /\ phase' = [phase EXCEPT ![t] = "running"]
  /\ UNCHANGED <<active, waiters, cooldownVars>>
  /\ UNCHANGED <<now, provider, answer, gateGeneration, quotaVars>>

\* run, with a slot: the gate may have shut meanwhile.
Begin(t) ==
  /\ phase[t] = "admitted"
  /\ \/ /\ Blocked
        /\ BlockedCooldown
        /\ Release(t)
        /\ startedAt' = Pruned
        /\ UNCHANGED <<started, taskGeneration>>
     \/ /\ ~Blocked
        /\ startedAt' = Append(Pruned, now)
        /\ started' = Append(started, now)
        /\ taskGeneration' = [taskGeneration EXCEPT ![t] = gateGeneration]
        /\ phase' = [phase EXCEPT ![t] = "running"]
        /\ UNCHANGED <<active, waiters, cooldownVars>>
  /\ UNCHANGED <<now, provider, answer, gateGeneration, quotaVars>>

-----------------------------------------------------------------------------
Usable(r) == r.limit \notin {Absent, 0} /\ r.remaining # Absent /\ withinResetHorizon(r.reset) > now

Advertise(r) ==
  advertised' = IF Usable(r) THEN advertised \cup {<<r.limit, r.reset>>} ELSE advertised

\* observeGitHubResponse: the quota is judged on this response alone, the brake
\* on what responses have left behind.
ObserveGitHub(r) ==
  /\ rateLimit' = IF r.limit # Absent THEN r.limit ELSE rateLimit
  /\ rateRemaining' = IF r.remaining # Absent THEN r.remaining ELSE rateRemaining
  /\ rateResetAt' = IF withinResetHorizon(r.reset) > 0 THEN r.reset ELSE rateResetAt
  /\ hasObservedQuota' = Usable(r)
  /\ IF /\ rateRemaining' # Absent /\ rateResetAt' > now
        /\ rateRemaining' <= Larger(Reserve, CeilTenth(rateLimit'))
     THEN CoolDown(clampCooldown(rateResetAt'), gateGeneration)
     ELSE UNCHANGED cooldownVars

ObserveGitLab(r) ==
  /\ rateLimit' = IF r.limit # Absent THEN r.limit ELSE rateLimit
  /\ rateResetAt' = IF withinResetHorizon(r.reset) > 0 THEN r.reset ELSE rateResetAt
  /\ hasObservedQuota' = Usable(r)
  /\ UNCHANGED rateRemaining
  /\ IF /\ r.limit # Absent /\ r.remaining # Absent /\ withinResetHorizon(r.reset) > now
        /\ r.remaining <= Larger(1, CeilTenth(r.limit))
     THEN CoolDown(clampCooldown(r.reset), gateGeneration)
     ELSE UNCHANGED cooldownVars

\* Mutant: the response of a request from before a reset counts.
IgnoredNever(t, r) == r.status = 403 /\ provider # "github"

Ignored(t, r) ==
  \/ taskGeneration[t] # gateGeneration
  \/ r.status = 403 /\ provider # "github"

\* observeResponse
Observe(t, r) ==
  IF Ignored(t, r) THEN UNCHANGED <<quotaVars, cooldownVars>>
  ELSE IF r.status = 429
  THEN /\ CoolDown(readCooldownUntil(r), taskGeneration[t])
       /\ UNCHANGED quotaVars
  ELSE CASE provider = "github" -> ObserveGitHub(r) /\ Advertise(r)
         [] provider = "gitlab" -> ObserveGitLab(r) /\ Advertise(r)
         [] provider = "bitbucket-cloud" /\ r.near ->
              CoolDown(now + Window, taskGeneration[t]) /\ UNCHANGED quotaVars
         [] OTHER -> UNCHANGED <<quotaVars, cooldownVars>>

\* A response arrives and is shown to the observer.
Respond(t) ==
  /\ phase[t] = "running"
  /\ phase' = [phase EXCEPT ![t] = "answered"]
  /\ \E sent \in Response :
       LET r == [sent EXCEPT !.reset = IF @ = 0 THEN 0 ELSE now + @] IN
       /\ answer' = [answer EXCEPT ![t] = r]
       /\ Observe(t, r)
  /\ UNCHANGED <<now, provider, taskGeneration, active, waiters, startedAt, gateGeneration, started>>

\* isCooldownError
AsksCooldown(r) == r.status = 429 \/ (r.status = 403 /\ provider = "github")

\* run ends: with the response, or with a transport error and no response.
Settle(t) ==
  /\ phase[t] \in {"running", "answered"}
  /\ Release(t)
  /\ answer' = [answer EXCEPT ![t] = Absent]
  /\ IF phase[t] = "answered" /\ taskGeneration[t] = gateGeneration /\ AsksCooldown(answer[t])
     THEN CoolDown(readCooldownUntil(answer[t]), taskGeneration[t])
     ELSE UNCHANGED cooldownVars
  /\ UNCHANGED <<now, provider, taskGeneration, startedAt, gateGeneration, started, quotaVars>>

\* The registry's reset: an idle gate is dropped, the next request makes a new one.
Reset ==
  /\ LET idle == active = 0 /\ waiters = <<>> IN
     gateGeneration' = IF idle THEN 0 ELSE gateGeneration + 1
  /\ gateGeneration' <= MaxResets
  /\ cooldownUntil' = 0 /\ cooldownFrom' = 0
  /\ rateLimit' = 0 /\ rateRemaining' = Absent /\ rateResetAt' = 0 /\ hasObservedQuota' = FALSE
  /\ startedAt' = <<>> /\ started' = <<>> /\ advertised' = {}
  /\ UNCHANGED <<now, provider, phase, taskGeneration, answer, active, waiters>>

Tick ==
  /\ now < MaxTime
  /\ now' = now + 1
  /\ UNCHANGED <<provider, phase, taskGeneration, answer, active, waiters, startedAt, gateGeneration,
                 started, quotaVars, cooldownVars>>

Progress(t) == Begin(t) \/ Respond(t) \/ Settle(t)

Next == (\E t \in Task : Enter(t) \/ Progress(t)) \/ Reset \/ Tick

Spec == Init /\ [][Next]_gateVars

\* Responses arrive or time out.
FairSpec == Spec /\ \A t \in Task : WF_gateVars(Progress(t))

-----------------------------------------------------------------------------
\* Every request that enters the gate comes out (requestGate.ts:345-362).
EveryRequestSettles == \A t \in Task : []<>(phase[t] \in {"new", "over"})

=============================================================================
