--------------------------- MODULE ConsumerRotation ---------------------------
(***************************************************************************)
(* How consumers choose among the producers of a queue (includes/          *)
(* concurrent_queue.hpp) while these are added to the list and change      *)
(* hands: attempts without a token, and attempts with a ConsumerToken, by  *)
(* which consumers spread over the producers and move on together.         *)
(*                                                                         *)
(* The elements of a producer are a number here (SubQueue).  An attempt on *)
(* it may get less than there is while another consumer is in a call.      *)
(***************************************************************************)
EXTENDS ProducerList

CONSTANTS
    Consumers,      \* numbered as their tokens were constructed
    Casts,          \* bound: who takes part in a behaviour, how consumers call,
                    \* and how many elements are enqueued
    MaxBatch,       \* bound: elements of one call
    Quota,          \* EXPLICIT_CONSUMER_CONSUMPTION_QUOTA_BEFORE_ROTATE
    Modulus,        \* of std::uint32_t
    Enough          \* producers that are not empty for a scan to stop: 3

ASSUME ConsumerRotationAssumption ==
    /\ Consumers \subseteq Nat
    /\ Casts \subseteq [tokens : SUBSET Tokens, consumers : SUBSET Consumers,
                        kinds : SUBSET {"scan", "walk", "token", "bulk"},
                        elements : Nat]
    /\ MaxBatch \in Nat
    /\ Quota \in Nat \ {0} /\ Enough \in Nat \ {0}
    /\ Modulus \in Nat /\ \A cast \in Casts : cast.elements + 1 < Modulus

VARIABLES
    cast,       \* one of Casts
    size,       \* elements of each producer
    enqueued,   \* elements so far
    globalExplicitConsumerOffset,
    held,       \* the token of each consumer
    call        \* its call

vars == <<listVars, cast, size, enqueued, globalExplicitConsumerOffset, held, call>>

(* The locals of a call.  unasked is history: the producers that were      *)
(* there when the call began and have not appeared empty to it.            *)
Idle ==
    [pc |-> "idle", kind |-> "none", max |-> 0, tail |-> None, ptr |-> None,
     best |-> None, bestSize |-> 0, nonEmptyCount |-> 0, unasked |-> {}]

(* The constructor of ConsumerToken.  producers is history: how many there *)
(* were each time it rotated, 0 at first, -1 if not the same number, or if *)
(* not all that were counted were in the list.                             *)
RotationInit ==
    /\ Init
    /\ cast \in Casts
    /\ size = [p \in Producers |-> 0]
    /\ enqueued = 0
    /\ globalExplicitConsumerOffset = 0
    /\ held = [c \in Consumers |->
          [initialOffset |-> c, lastKnownGlobalOffset |-> Modulus - 1,
           itemsConsumedFromCurrent |-> 0, currentProducer |-> None,
           desiredProducer |-> None, producers |-> 0]]
    /\ call = [c \in Consumers |-> Idle]

-------------------------------------------------------------------------------
(* Somebody enqueues with a token, or is an implicit producer. *)
Enqueue(p) ==
    /\ ~destroyed
    /\ enqueued < cast.elements
    /\ p <= Implicit \/ \E t \in Tokens : state[t] = "alive" /\ producer[t] = p
    /\ size' = [size EXCEPT ![p] = @ + 1]
    /\ enqueued' = enqueued + 1
    /\ UNCHANGED <<listVars, cast, globalExplicitConsumerOffset, held, call>>

Smaller(a, b) == IF a < b THEN a ELSE b

Others(c) == \E d \in Consumers \ {c} : call[d].pc # "idle"

(* c gets n elements of p, by dequeue or dequeue_bulk. *)
Ask(c, p, n) ==
    LET most == Smaller(call[c].max, size[p])
    IN  /\ n \in 0..most
        /\ n = most \/ Others(c)
        /\ size' = [size EXCEPT ![p] = @ - n]
        /\ UNCHANGED <<listVars, cast, enqueued>>

(* What is left of the call when it has got n of p. *)
Unasked(c, p, n) ==
    IF n = call[c].max THEN {} ELSE call[c].unasked \ {p}

Becomes(c, record) == call' = [call EXCEPT ![c] = record]

Return(c, unasked) == Becomes(c, [Idle EXCEPT !.unasked = unasked])

Begin(c, kind, pc, max) ==
    /\ ~destroyed
    /\ kind \in cast.kinds /\ call[c].pc = "idle"
    /\ Becomes(c, [Idle EXCEPT !.kind = kind, !.pc = pc, !.max = max,
                               !.ptr = IF pc \in {"scan", "walk"} THEN producerListTail ELSE None,
                               !.unasked = Linked])
    /\ UNCHANGED <<listVars, cast, size, enqueued, globalExplicitConsumerOffset, held>>

Unmoved == UNCHANGED <<globalExplicitConsumerOffset, held>>

-------------------------------------------------------------------------------
(* try_dequeue without a token: the sizes come first. *)
Scan(c) ==
    LET k == call[c]
        more == size[k.ptr] > k.bestSize
    IN  /\ k.pc = "scan" /\ k.ptr # None /\ k.nonEmptyCount < Enough
        /\ Becomes(c, [k EXCEPT !.ptr = next[@],
                                !.best = IF more THEN k.ptr ELSE @,
                                !.bestSize = IF more THEN size[k.ptr] ELSE @,
                                !.nonEmptyCount = IF size[k.ptr] > 0 THEN @ + 1 ELSE @,
                                !.unasked = IF size[k.ptr] > 0 THEN @ ELSE @ \ {k.ptr}])
        /\ UNCHANGED <<listVars, cast, size, enqueued>> /\ Unmoved

ScanEnds(c) ==
    LET k == call[c]
    IN  /\ k.pc = "scan" /\ (k.ptr = None \/ k.nonEmptyCount = Enough)
        /\ IF k.nonEmptyCount = 0 THEN Return(c, k.unasked)
                                  ELSE Becomes(c, [k EXCEPT !.pc = "best"])
        /\ UNCHANGED <<listVars, cast, size, enqueued>> /\ Unmoved

(* Mutant: of the others those after the best alone. *)
AskBestOnwards(c) ==
    LET k == call[c]
    IN  /\ k.pc = "best"
        /\ \E n \in 0..1 :
              /\ Ask(c, k.best, n)
              /\ IF n = 1 THEN Return(c, {})
                 ELSE Becomes(c, [k EXCEPT !.pc = "rest", !.ptr = next[k.best],
                                           !.unasked = Unasked(c, k.best, n)])
        /\ Unmoved

AskBest(c) ==
    LET k == call[c]
    IN  /\ k.pc = "best"
        /\ \E n \in 0..1 :
              /\ Ask(c, k.best, n)
              /\ IF n = 1 THEN Return(c, {})
                 ELSE Becomes(c, [k EXCEPT !.pc = "rest", !.ptr = producerListTail,
                                           !.unasked = Unasked(c, k.best, n)])
        /\ Unmoved

SkipBest(c) ==
    LET k == call[c]
    IN  /\ k.pc = "rest" /\ k.ptr # None /\ k.ptr = k.best
        /\ Becomes(c, [k EXCEPT !.ptr = next[@]])
        /\ UNCHANGED <<listVars, cast, size, enqueued>> /\ Unmoved

(* Mutant: it starts over when one that is not empty has given nothing. *)
AskNextAllOver(c) ==
    LET k == call[c]
    IN  /\ k.pc \in {"rest", "walk"} /\ k.ptr # None /\ k.ptr # k.best
        /\ \E n \in 0..k.max :
              /\ Ask(c, k.ptr, n)
              /\ IF n = k.max THEN Return(c, {})
                 ELSE Becomes(c, [k EXCEPT !.max = @ - n, !.ptr = IF size[@] > n THEN producerListTail ELSE next[@],
                                           !.unasked = Unasked(c, k.ptr, n)])
        /\ Unmoved

(* The rest of try_dequeue, and all of try_dequeue_non_interleaved and of  *)
(* try_dequeue_bulk without a token.                                       *)
AskNext(c) ==
    LET k == call[c]
    IN  /\ k.pc \in {"rest", "walk"} /\ k.ptr # None /\ k.ptr # k.best
        /\ \E n \in 0..k.max :
              /\ Ask(c, k.ptr, n)
              /\ IF n = k.max THEN Return(c, {})
                 ELSE Becomes(c, [k EXCEPT !.max = @ - n, !.ptr = next[@],
                                           !.unasked = Unasked(c, k.ptr, n)])
        /\ Unmoved

ListEnds(c) ==
    /\ call[c].pc \in {"rest", "walk"} /\ call[c].ptr = None
    /\ Return(c, call[c].unasked)
    /\ UNCHANGED <<listVars, cast, size, enqueued>> /\ Unmoved

-------------------------------------------------------------------------------
(* try_dequeue and try_dequeue_bulk with a token. *)
BeginWithToken(c, kind, max) ==
    LET rotation == held[c].lastKnownGlobalOffset # globalExplicitConsumerOffset
    IN  Begin(c, kind, IF held[c].desiredProducer = None \/ rotation
                       THEN "rotate" ELSE "current", max)

(* update_current_producer_after_rotation begins. *)
LoadTailToRotate(c) ==
    LET k == call[c]
    IN  /\ k.pc = "rotate"
        /\ IF held[c].desiredProducer = None /\ producerListTail = None
           THEN Return(c, {})
           ELSE Becomes(c, [k EXCEPT !.pc = "move", !.tail = producerListTail])
        /\ UNCHANGED <<listVars, cast, size, enqueued>> /\ Unmoved

(* The next producer, after the oldest the newest. *)
After(p, newest) == IF next[p] = None THEN newest ELSE next[p]

Forward(p, n, newest) ==
    LET walk[i \in 0..n] == IF i = 0 THEN p ELSE After(walk[i - 1], newest)
    IN  walk[n]

(* Mutant: it moves on from where it has found elements. *)
RotateFromCurrent(c) ==
    LET k == call[c]
        h == held[c]
        delta == (globalExplicitConsumerOffset - h.lastKnownGlobalOffset) % Modulus
        start == IF h.desiredProducer # None THEN h.currentProducer
                 ELSE Forward(k.tail, producerCount - 1 - (h.initialOffset % producerCount), k.tail)
        desired == Forward(start, delta % producerCount, k.tail)
    IN  /\ k.pc = "move"
        /\ held' = [held EXCEPT ![c] =
              [h EXCEPT !.desiredProducer = desired, !.currentProducer = desired,
                        !.lastKnownGlobalOffset = globalExplicitConsumerOffset,
                        !.itemsConsumedFromCurrent = 0,
                        !.producers = IF h.producers \in {0, producerCount} /\ producerCount = Cardinality(From(k.tail))
                                      THEN producerCount ELSE -1]]
        /\ Becomes(c, [k EXCEPT !.pc = "current", !.tail = None])
        /\ UNCHANGED <<listVars, cast, size, enqueued, globalExplicitConsumerOffset>>

(* It loads producerCount and the global offset, and the token moves on by *)
(* as many producers as there have been rotations.  The first time it is   *)
(* put where the offset it was constructed with says.                      *)
Rotate(c) ==
    LET k == call[c]
        h == held[c]
        delta == (globalExplicitConsumerOffset - h.lastKnownGlobalOffset) % Modulus
        start == IF h.desiredProducer # None THEN h.desiredProducer
                 ELSE Forward(k.tail, producerCount - 1 - (h.initialOffset % producerCount), k.tail)
        desired == Forward(start, delta % producerCount, k.tail)
    IN  /\ k.pc = "move"
        /\ held' = [held EXCEPT ![c] =
              [h EXCEPT !.desiredProducer = desired, !.currentProducer = desired,
                        !.lastKnownGlobalOffset = globalExplicitConsumerOffset,
                        !.itemsConsumedFromCurrent = 0,
                        !.producers = IF h.producers \in {0, producerCount} /\ producerCount = Cardinality(From(k.tail))
                                      THEN producerCount ELSE -1]]
        /\ Becomes(c, [k EXCEPT !.pc = "current", !.tail = None])
        /\ UNCHANGED <<listVars, cast, size, enqueued, globalExplicitConsumerOffset>>

(* The consumer that gets all it wants and reaches its quota makes all     *)
(* others move on.                                                         *)
AskCurrent(c) ==
    LET k == call[c]
        p == held[c].currentProducer
    IN  /\ k.pc = "current"
        /\ \E n \in 0..k.max :
              LET items == held[c].itemsConsumedFromCurrent + n
                  reached == IF k.kind = "token" THEN items = Quota ELSE items >= Quota
              IN  /\ Ask(c, p, n)
                  /\ held' = [held EXCEPT ![c].itemsConsumedFromCurrent = items]
                  /\ IF n = k.max
                     THEN /\ Return(c, {})
                          /\ globalExplicitConsumerOffset' =
                                IF reached THEN globalExplicitConsumerOffset + 1
                                ELSE globalExplicitConsumerOffset
                     ELSE /\ Becomes(c, [k EXCEPT !.pc = "turn", !.max = @ - n,
                                                  !.unasked = Unasked(c, p, n)])
                          /\ UNCHANGED globalExplicitConsumerOffset

(* Then it goes once round all the others. *)
LoadTailToTurn(c) ==
    LET k == call[c]
    IN  /\ k.pc = "turn"
        /\ Becomes(c, [k EXCEPT !.pc = "round", !.tail = producerListTail,
                                !.ptr = After(held[c].currentProducer, producerListTail)])
        /\ UNCHANGED <<listVars, cast, size, enqueued>> /\ Unmoved

AskRound(c) ==
    LET k == call[c]
    IN  /\ k.pc = "round" /\ k.ptr # held[c].currentProducer
        /\ \E n \in 0..k.max :
              /\ Ask(c, k.ptr, n)
              /\ IF n = 0 THEN UNCHANGED held
                 ELSE held' = [held EXCEPT ![c].currentProducer = k.ptr,
                                           ![c].itemsConsumedFromCurrent = n]
              /\ IF n = k.max THEN Return(c, {})
                 ELSE Becomes(c, [k EXCEPT !.max = @ - n, !.ptr = After(@, k.tail),
                                           !.unasked = Unasked(c, k.ptr, n)])
        /\ UNCHANGED globalExplicitConsumerOffset

RoundEnds(c) ==
    /\ call[c].pc = "round" /\ call[c].ptr = held[c].currentProducer
    /\ Return(c, call[c].unasked)
    /\ UNCHANGED <<listVars, cast, size, enqueued>> /\ Unmoved

-------------------------------------------------------------------------------
Attempt(c) ==
    \/ Scan(c) \/ ScanEnds(c) \/ AskBest(c) \/ SkipBest(c) \/ AskNext(c) \/ ListEnds(c)
    \/ LoadTailToRotate(c) \/ Rotate(c) \/ AskCurrent(c)
    \/ LoadTailToTurn(c) \/ AskRound(c) \/ RoundEnds(c)

ListStep ==
    /\ \/ \E t \in cast.tokens : TokenStep(t)
       \/ \E t, u \in cast.tokens : Move(t, u) \/ Swap(t, u)
       \/ DestroyQueue /\ \A c \in Consumers : call[c].pc = "idle"
    /\ UNCHANGED <<cast, size, enqueued, globalExplicitConsumerOffset, held, call>>

RotationNext ==
    \/ ListStep
    \/ \E p \in Producers : Enqueue(p)
    \/ \E c \in cast.consumers :
          \/ Begin(c, "scan", "scan", 1)
          \/ \E m \in 1..MaxBatch : Begin(c, "walk", "walk", m)
          \/ BeginWithToken(c, "token", 1)
          \/ \E m \in 1..MaxBatch : BeginWithToken(c, "bulk", m)
          \/ Attempt(c)

RotationSpec == RotationInit /\ [][RotationNext]_vars

(* A thread in a call runs. *)
FairRotationSpec == RotationSpec /\ \A c \in Consumers : WF_vars(Attempt(c))

-------------------------------------------------------------------------------
(* "Returns false if all producer streams appeared empty at the time they  *)
(* were checked": a call that ends with less than it was to get has asked  *)
(* every producer there was when it began, wherever its token stood and    *)
(* whatever was added meanwhile.                                           *)
AsksAll == \A c \in Consumers : call[c].pc = "idle" => call[c].unasked = {}

(* Consumers spread: while there are as many producers as when they took   *)
(* their places, those that know of the same rotations want the same       *)
(* producer only if there are too few for all.                             *)
Spread ==
    \A c, d \in Consumers :
       /\ c # d
       /\ held[c].producers = held[d].producers /\ held[c].producers > 0
       /\ held[c].lastKnownGlobalOffset = held[d].lastKnownGlobalOffset
       => (held[c].desiredProducer = held[d].desiredProducer <=>
              held[c].initialOffset % held[c].producers = held[d].initialOffset % held[c].producers)

(* Going round a list to which others add comes to an end. *)
CallsEnd == \A c \in Consumers : call[c].pc # "idle" ~> call[c].pc = "idle"
===============================================================================
