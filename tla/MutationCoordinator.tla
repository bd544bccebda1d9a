------------------------- MODULE MutationCoordinator -------------------------
(***************************************************************************)
(* The promise-tail queue of git/mutationCoordinator.ts: a call waits for  *)
(* the tail it found under its key and leaves its own in its place.        *)
(***************************************************************************)
EXTENDS Naturals

CONSTANTS
  Call, \* calls of run, each made once
  Key,  \* normalized repository keys
  None  \* no call

ASSUME NoneAssumption == None \notin Call
ASSUME KeyAssumption == Key # {}

VARIABLES
  tails,    \* the call whose tail the map holds under each key
  previous, \* the call whose tail each call awaits
  keyOf,    \* the key each call was made with
  state,    \* whether a call is waiting, runs its operation, or is over
  ticket,   \* history: the position of each call among all calls made
  calls     \* history: how many calls have been made

queueVars == <<tails, previous, keyOf, state, ticket, calls>>

TypeOK ==
  /\ tails \in [Key -> Call \cup {None}]
  /\ previous \in [Call -> Call \cup {None}]
  /\ keyOf \in [Call -> Key]
  /\ state \in [Call -> {"new", "waiting", "running", "over"}]
  /\ ticket \in [Call -> Nat]
  /\ calls \in Nat

Init ==
  /\ tails = [k \in Key |-> None]
  /\ previous = [c \in Call |-> None]
  /\ keyOf = [c \in Call |-> CHOOSE k \in Key : TRUE]
  /\ state = [c \in Call |-> "new"]
  /\ ticket = [c \in Call |-> 0]
  /\ calls = 0

\* run: up to its await, in one synchronous step.
Register(c, k) ==
  /\ state[c] = "new"
  /\ state' = [state EXCEPT ![c] = "waiting"]
  /\ previous' = [previous EXCEPT ![c] = tails[k]]
  /\ tails' = [tails EXCEPT ![k] = c]
  /\ keyOf' = [keyOf EXCEPT ![c] = k]
  /\ ticket' = [ticket EXCEPT ![c] = calls]
  /\ calls' = calls + 1

Start(c) ==
  /\ state[c] = "waiting"
  /\ previous[c] # None => state[previous[c]] = "over"
  /\ state' = [state EXCEPT ![c] = "running"]
  /\ UNCHANGED <<tails, previous, keyOf, ticket, calls>>

\* Mutant: the finished call clears the key whoever has queued behind it.
FinishClearing(c) ==
  /\ state[c] = "running"
  /\ state' = [state EXCEPT ![c] = "over"]
  /\ tails' = [tails EXCEPT ![keyOf[c]] = None]
  /\ UNCHANGED <<previous, keyOf, ticket, calls>>

\* Mutant: the finished call leaves its tail in the map.
FinishLeaking(c) ==
  /\ state[c] = "running"
  /\ state' = [state EXCEPT ![c] = "over"]
  /\ UNCHANGED <<tails, previous, keyOf, ticket, calls>>

\* The finally block, whether the operation returned or threw: the tail goes
\* only if nobody has queued behind it.
Finish(c) ==
  /\ state[c] = "running"
  /\ state' = [state EXCEPT ![c] = "over"]
  /\ tails' = IF tails[keyOf[c]] = c THEN [tails EXCEPT ![keyOf[c]] = None] ELSE tails
  /\ UNCHANGED <<previous, keyOf, ticket, calls>>

Next ==
  \E c \in Call : (\E k \in Key : Register(c, k)) \/ Start(c) \/ Finish(c)

Spec == Init /\ [][Next]_queueVars

FairSpec == Spec /\ \A c \in Call : WF_queueVars(Start(c)) /\ WF_queueVars(Finish(c))

-----------------------------------------------------------------------------
Registered(c) == state[c] # "new"

\* c queued before d under the same key.
Before(c, d) ==
  Registered(c) /\ Registered(d) /\ keyOf[c] = keyOf[d] /\ ticket[c] < ticket[d]

\* A call runs its operation only when every call made earlier with its key is
\* over, so mutations of one repository neither overlap nor overtake each other
\* (mutationCoordinator.ts:6, 14).
FirstComeFirstServed ==
  \A c, d \in Call : Before(c, d) /\ state[d] \in {"running", "over"} => state[c] = "over"

\* The map names a key exactly while some call with that key is unfinished: it
\* neither forgets a queue nor grows with the repositories ever touched
\* (mutationCoordinator.ts:19).
TailsMatchQueues ==
  \A k \in Key :
    tails[k] = None <=> \A c \in Call : Registered(c) /\ keyOf[c] = k => state[c] = "over"

\* Every call made runs and ends: no wait is left on a promise nobody resolves
\* (mutationCoordinator.ts:14-19).
EveryCallEnds == \A c \in Call : []<>(state[c] \in {"new", "over"})

=============================================================================
