---------------------- MODULE MutationCoordinatorProofs ----------------------
(***************************************************************************)
(* The queue of MutationCoordinator for any number of calls and keys.      *)
(***************************************************************************)
EXTENDS MutationCoordinator, TLAPS

THEOREM TypeCorrect == Spec => []TypeOK
<1>1. Init => TypeOK
  BY KeyAssumption DEF Init, TypeOK
<1>2. TypeOK /\ [Next]_queueVars => TypeOK'
  <2> SUFFICES ASSUME TypeOK, [Next]_queueVars PROVE TypeOK'
    OBVIOUS
  <2> USE DEF TypeOK
  <2>1. ASSUME NEW c \in Call, NEW k \in Key, Register(c, k) PROVE TypeOK'
    BY <2>1 DEF Register
  <2>2. ASSUME NEW c \in Call, Start(c) PROVE TypeOK'
    BY <2>2 DEF Start
  <2>3. ASSUME NEW c \in Call, Finish(c) PROVE TypeOK'
    BY <2>3 DEF Finish
  <2>4. CASE UNCHANGED queueVars
    BY <2>4 DEF queueVars
  <2> QED
    BY <2>1, <2>2, <2>3, <2>4 DEF Next
<1> QED
  BY <1>1, <1>2, PTL DEF Spec

(***************************************************************************)
(* The order behind the promise chain.  Tickets tell registered calls      *)
(* apart; a call's predecessor is the last one registered before it with   *)
(* its key, or every earlier one was over; the map holds the last call     *)
(* while it is unfinished.                                                 *)
(***************************************************************************)
TicketsOrder ==
  /\ \A c \in Call : Registered(c) => ticket[c] < calls
  /\ \A c, d \in Call : Registered(c) /\ Registered(d) /\ ticket[c] = ticket[d] => c = d

Follows ==
  \A c, d \in Call : Before(c, d) =>
    \/ state[c] = "over"
    \/ /\ previous[d] # None
       /\ Registered(previous[d]) /\ keyOf[previous[d]] = keyOf[d]
       /\ ticket[c] <= ticket[previous[d]]

TailIsLast ==
  \A k \in Key :
    /\ tails[k] # None =>
         /\ Registered(tails[k]) /\ keyOf[tails[k]] = k /\ state[tails[k]] # "over"
         /\ \A c \in Call : Registered(c) /\ keyOf[c] = k => ticket[c] <= ticket[tails[k]]
    /\ tails[k] = None => \A c \in Call : Registered(c) /\ keyOf[c] = k => state[c] = "over"

QueueInv == TypeOK /\ TicketsOrder /\ Follows /\ TailIsLast /\ FirstComeFirstServed

LEMMA QueueInvInit == Init => QueueInv
BY KeyAssumption DEF Init, QueueInv, TypeOK, TicketsOrder, Follows, TailIsLast, FirstComeFirstServed,
       Before, Registered

LEMMA RegisterStep ==
  ASSUME QueueInv, TypeOK', NEW c \in Call, NEW k \in Key, Register(c, k)
  PROVE  QueueInv'
<1> USE NoneAssumption DEF QueueInv, Registered
<1>1. /\ ~Registered(c) /\ Registered(c)' /\ keyOf'[c] = k /\ ticket'[c] = calls
      /\ calls' = calls + 1 /\ previous'[c] = tails[k] /\ tails'[k] = c
      /\ state'[c] = "waiting"
      /\ \A j \in Key : j # k => tails'[j] = tails[j]
      /\ \A d \in Call : d # c =>
           /\ state'[d] = state[d] /\ keyOf'[d] = keyOf[d] /\ ticket'[d] = ticket[d]
           /\ previous'[d] = previous[d]
  BY DEF Register, TypeOK
<1>2. TicketsOrder'
  BY <1>1 DEF TicketsOrder, TypeOK
<1>3. \A d, e \in Call : Before(d, e)' => d # c
  BY <1>1 DEF Before, TicketsOrder, TypeOK
<1>4. Follows'
  <2> SUFFICES ASSUME NEW d \in Call, NEW e \in Call, Before(d, e)', state'[d] # "over"
               PROVE  /\ previous'[e] # None
                      /\ Registered(previous[e])' /\ (keyOf[previous[e]] = keyOf[e])'
                      /\ (ticket[d] <= ticket[previous[e]])'
    BY DEF Follows
  <2>1. d # c
    BY <1>3
  <2>2. CASE e = c
    <3>1. Registered(d) /\ keyOf[d] = k /\ state[d] # "over"
      BY <1>1, <2>1, <2>2 DEF Before
    <3>2. /\ tails[k] # None /\ tails[k] \in Call
          /\ Registered(tails[k]) /\ keyOf[tails[k]] = k
          /\ ticket[d] <= ticket[tails[k]]
      BY <3>1 DEF TailIsLast, TypeOK
    <3>3. tails[k] # c
      BY <1>1, <3>2
    <3> QED
      BY <1>1, <2>1, <2>2, <3>2, <3>3
  <2>3. CASE e # c
    <3>1. Before(d, e) /\ state[d] # "over"
      BY <1>1, <2>1, <2>3 DEF Before
    <3>2. /\ previous[e] # None /\ previous[e] \in Call
          /\ Registered(previous[e]) /\ keyOf[previous[e]] = keyOf[e]
          /\ ticket[d] <= ticket[previous[e]]
      BY <3>1 DEF Follows, TypeOK
    <3>3. previous[e] # c
      BY <1>1, <3>2
    <3>4. previous'[e] = previous[e] /\ keyOf'[e] = keyOf[e]
      BY <1>1, <2>3
    <3>5. \A x \in Call : x # c =>
            /\ Registered(x) => Registered(x)'
            /\ keyOf'[x] = keyOf[x] /\ ticket'[x] = ticket[x]
      BY <1>1
    <3>6. /\ Registered(previous[e])' /\ keyOf'[previous[e]] = keyOf[previous[e]]
          /\ ticket'[previous[e]] = ticket[previous[e]] /\ ticket'[d] = ticket[d]
      BY <2>1, <3>2, <3>3, <3>4, <3>5
    <3> HIDE DEF Registered
    <3> QED
      BY <3>2, <3>4, <3>6
  <2> QED
    BY <2>2, <2>3
<1>5. TailIsLast'
  BY <1>1 DEF TailIsLast, TicketsOrder, TypeOK
<1>6. FirstComeFirstServed'
  BY <1>1, <1>3 DEF FirstComeFirstServed, Before
<1> QED
  BY <1>2, <1>4, <1>5, <1>6

LEMMA StartStep ==
  ASSUME QueueInv, TypeOK', NEW c \in Call, Start(c)
  PROVE  QueueInv'
<1> USE NoneAssumption DEF QueueInv, Registered
<1>1. /\ state[c] = "waiting" /\ state'[c] = "running"
      /\ previous[c] # None => state[previous[c]] = "over"
      /\ \A d \in Call : d # c => state'[d] = state[d]
      /\ UNCHANGED <<tails, previous, keyOf, ticket, calls>>
  BY DEF Start, TypeOK
<1>2. \A d, e \in Call : Before(d, e)' <=> Before(d, e)
  BY <1>1 DEF Before
<1>3. \A d \in Call : Before(d, c) => state[d] = "over"
  <2> SUFFICES ASSUME NEW d \in Call, Before(d, c), state[d] # "over" PROVE FALSE
    OBVIOUS
  <2>1. /\ previous[c] # None /\ previous[c] \in Call /\ state[previous[c]] = "over"
        /\ Registered(previous[c]) /\ keyOf[previous[c]] = keyOf[c]
        /\ ticket[d] <= ticket[previous[c]]
    BY <1>1 DEF Follows, TypeOK
  <2>2. d # previous[c]
    BY <2>1
  <2>3. \A x \in Call :
          Registered(x) /\ Registered(d) /\ d # x /\ ticket[d] <= ticket[x] => ticket[d] < ticket[x]
    <3>1. \A x \in Call : ticket[x] \in Nat
      BY DEF TypeOK
    <3>2. \A x \in Call : Registered(x) /\ Registered(d) /\ d # x => ticket[d] # ticket[x]
      BY Zenon DEF TicketsOrder
    <3> QED
      BY <3>1, <3>2
  <2>4. Registered(d) /\ keyOf[d] = keyOf[c]
    BY DEF Before
  <2>5. Before(d, previous[c])
    BY <2>1, <2>2, <2>3, <2>4 DEF Before
  <2> QED
    BY <2>1, <2>5 DEF FirstComeFirstServed
<1>4. TicketsOrder' /\ TailIsLast'
  BY <1>1 DEF TicketsOrder, TailIsLast, TypeOK
<1>5. Follows'
  BY <1>1, <1>2 DEF Follows, TypeOK
<1>6. FirstComeFirstServed'
  BY <1>1, <1>2, <1>3 DEF FirstComeFirstServed, Before, TypeOK
<1> QED
  BY <1>4, <1>5, <1>6

LEMMA FinishStep ==
  ASSUME QueueInv, TypeOK', NEW c \in Call, Finish(c)
  PROVE  QueueInv'
<1> USE NoneAssumption DEF QueueInv, Registered
<1>1. /\ state[c] = "running" /\ state'[c] = "over"
      /\ \A d \in Call : d # c => state'[d] = state[d]
      /\ \A k \in Key : tails'[k] = IF tails[k] = c THEN None ELSE tails[k]
      /\ UNCHANGED <<previous, keyOf, ticket, calls>>
  <2>1. \A k \in Key : tails[k] = c => keyOf[c] = k
    BY DEF TailIsLast, TypeOK
  <2> QED
    BY <2>1 DEF Finish, TypeOK
<1>2. \A d, e \in Call : Before(d, e)' <=> Before(d, e)
  BY <1>1 DEF Before
<1>3. TicketsOrder' /\ Follows'
  BY <1>1, <1>2 DEF TicketsOrder, Follows, TypeOK
<1>4. TailIsLast'
  <2> SUFFICES ASSUME NEW k \in Key
               PROVE  /\ tails'[k] # None =>
                           /\ Registered(tails[k])' /\ (keyOf[tails[k]] = k)'
                           /\ (state[tails[k]] # "over")'
                           /\ \A d \in Call : Registered(d)' /\ keyOf'[d] = k
                                                => (ticket[d] <= ticket[tails[k]])'
                      /\ tails'[k] = None =>
                           \A d \in Call : Registered(d)' /\ keyOf'[d] = k => state'[d] = "over"
    BY DEF TailIsLast
  <2>1. CASE tails[k] = c
    <3>1. \A d \in Call : Registered(d) /\ keyOf[d] = k /\ d # c => Before(d, c)
      BY <1>1, <2>1 DEF TailIsLast, Before, TicketsOrder, TypeOK
    <3> QED
      BY <1>1, <2>1, <3>1 DEF FirstComeFirstServed, TypeOK
  <2>2. CASE tails[k] # c
    BY <1>1, <2>2 DEF TailIsLast, TypeOK
  <2> QED
    BY <2>1, <2>2
<1>5. FirstComeFirstServed'
  BY <1>1, <1>2 DEF FirstComeFirstServed, Before
<1> QED
  BY <1>3, <1>4, <1>5

LEMMA QueueInvAlways == Spec => []QueueInv
<1>1. QueueInv /\ TypeOK' /\ [Next]_queueVars => QueueInv'
  <2>1. ASSUME QueueInv, TypeOK', UNCHANGED queueVars PROVE QueueInv'
    BY <2>1 DEF queueVars, QueueInv, TicketsOrder, Follows, TailIsLast,
                FirstComeFirstServed, Before, Registered
  <2> QED
    BY <2>1, RegisterStep, StartStep, FinishStep DEF Next
<1> QED
  BY <1>1, QueueInvInit, TypeCorrect, PTL DEF Spec

\* Mutations of one repository neither overlap nor overtake each other, whatever
\* the number of calls and repositories (mutationCoordinator.ts:11-21).
THEOREM Fifo == Spec => []FirstComeFirstServed
<1>1. QueueInv => FirstComeFirstServed
  BY DEF QueueInv
<1> QED
  BY <1>1, QueueInvAlways, PTL

\* The map holds a tail under a key exactly while a call with that key is
\* unfinished (mutationCoordinator.ts:19).
THEOREM NoTailLeaksOrIsLost == Spec => []TailsMatchQueues
<1>1. QueueInv => TailsMatchQueues
  BY NoneAssumption DEF QueueInv, TailIsLast, TailsMatchQueues, TypeOK, Registered
<1> QED
  BY <1>1, QueueInvAlways, PTL

=============================================================================
