--------------------------- MODULE RequestGateState ---------------------------
(* The state of the gate of services/commitChecks/requestGate.ts, and what holds  *)
(* of it whatever servers answer.  RequestGate has its steps.                     *)
EXTENDS Integers, Sequences, FiniteSets

CONSTANTS
  Task,     \* requests
  Absent,   \* a header or a response that is not there
  Provider, \* the providers the gate may be for
  Response, \* responses a server may send, resets and retries relative to now
  Limit,    \* requests running at a time
  Window,   \* REQUEST_WINDOW_MS
  Pause,    \* the minute a bare 429 asks for
  Horizon,  \* MAX_RESET_HORIZON_MS
  Fallback, \* MAX_AUTOMATIC_REQUESTS_PER_WINDOW
  Ceiling,  \* MAX_OBSERVED_REQUESTS_PER_WINDOW
  Reserve,  \* MIN_PRIMARY_RESERVE
  MaxTime,  \* bound: the clock
  MaxResets \* bound: resets of a gate that is in use

Answer == [status : {200, 403, 429}, limit : Nat \cup {Absent}, remaining : Nat \cup {Absent},
           reset : Nat, retry : Nat, near : BOOLEAN]

\* At least one request runs, however small a limit is asked for (requestGate.ts:331).
ASSUME GateAssumption ==
  /\ Absent \notin Nat /\ Provider # {} /\ Response \subseteq Answer
  /\ Limit \in Nat \ {0} /\ Window \in Nat \ {0} /\ Pause \in 0..Window /\ Horizon \in Nat
  /\ Fallback \in Nat \ {0} /\ Ceiling \in Nat /\ Reserve \in Nat
  /\ MaxTime \in Nat /\ MaxResets \in Nat

VARIABLES
  now,
  provider,
  phase,         \* where each request is in run
  taskGeneration,\* the generation each task started in
  answer,        \* the response each task has received
  active, waiters, cooldownUntil, startedAt,
  gateGeneration,\* generation
  rateLimit, rateRemaining, rateResetAt, hasObservedQuota,
  started,       \* history: every start of this generation
  advertised,    \* history: quotas this generation saw whole in one response
  cooldownFrom   \* history: the generation the cooldown comes from

quotaVars == <<rateLimit, rateRemaining, rateResetAt, hasObservedQuota, advertised>>
cooldownVars == <<cooldownUntil, cooldownFrom>>
gateVars == <<now, provider, phase, taskGeneration, answer, active, waiters, startedAt,
              gateGeneration, started, quotaVars, cooldownVars>>

Phase == {"new", "waiting", "admitted", "running", "answered", "over"}

GateTypeOK ==
  /\ now \in 0..MaxTime
  /\ provider \in Provider
  /\ phase \in [Task -> Phase]
  /\ taskGeneration \in [Task -> 0..MaxResets]
  /\ answer \in [Task -> Answer \cup {Absent}]
  /\ active \in 0..Limit
  /\ waiters \in Seq(Task)
  /\ cooldownUntil \in Nat
  /\ startedAt \in Seq(0..MaxTime)
  /\ gateGeneration \in 0..MaxResets
  /\ rateLimit \in Nat /\ rateRemaining \in Nat \cup {Absent} /\ rateResetAt \in Nat
  /\ hasObservedQuota \in BOOLEAN

-----------------------------------------------------------------------------
Larger(i, j) == IF i > j THEN i ELSE j
Smaller(i, j) == IF i < j THEN i ELSE j

\* A start still counts against the budget of the rolling window.
Fresh(start) == start + Window > now

InUse == {t \in Task : phase[t] \in {"admitted", "running", "answered"}}

\* The slots counted are the slots in use, and nobody waits while one is free:
\* neither a failure, nor a shut gate, nor a reset loses or duplicates a slot
\* (requestGate.ts:236-238, 345-362, 99).
SlotsMatchTasks ==
  /\ active = Cardinality(InUse)
  /\ {waiters[i] : i \in 1..Len(waiters)} = {t \in Task : phase[t] = "waiting"}
  /\ waiters # <<>> => active = Limit

\* A cooldown is one the present credentials earned: no late answer or failure
\* of a request from before a reset shuts the gate
\* (requestGate.ts:76-77, 234, 242).
CooldownIsCurrent == now < cooldownUntil => cooldownFrom = gateGeneration

\* Whatever a header says, the gate is shut for one window at most
\* (requestGate.ts:485-497).
CooldownWithinWindow == cooldownUntil <= now + Window

\* No failure, shut gate or reset loses or duplicates a slot; a cooldown is one the present
\* credentials earned, and of one window at most (requestGate.ts:76-99, 234-242, 345-362,
\* 485-497).
GateIsCurrent == GateTypeOK /\ SlotsMatchTasks /\ CooldownIsCurrent /\ CooldownWithinWindow

Starts(t) == phase[t] # "running" /\ phase'[t] = "running"

\* A request starts only while the gate is open, however long it has waited
\* (requestGate.ts:58, 226-228).
StartsWhileOpen == [][\A t \in Task : Starts(t) => now >= cooldownUntil]_gateVars

\* The starts of this generation that lie in the present window.
Recent == {i \in 1..Len(started) : Fresh(started[i])}

\* One response of this generation advertised, whole and still running, a quota above n.
Advertised(n) ==
  \E quota \in advertised : quota[2] > now /\ n < Smaller(quota[1], Ceiling)

\* The starts of a window stay within the fallback, unless one response of this
\* generation advertised a larger quota, whole and still running
\* (requestGate.ts:295-305, 407-420).
StartsWithinBudget ==
  [][\A t \in Task : Starts(t) =>
       Cardinality(Recent) < Fallback \/ Advertised(Cardinality(Recent))]_gateVars

\* However long a request has waited, it starts while the gate is open and within the budget of
\* its window, unless a response of this generation advertised a larger quota, whole and still
\* running (requestGate.ts:58, 226-228, 295-305, 407-420).
StartsAreAllowed == StartsWhileOpen /\ StartsWithinBudget

=============================================================================
