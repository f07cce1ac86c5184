-------------------------- MODULE CountingSemaphore --------------------------
(***************************************************************************)
(* What LightweightSemaphore promises its callers: a number of permits     *)
(* that signal() increases and that waits decrease, never below zero, a    *)
(* call taking at most the number of permits it asked for.  Nothing is     *)
(* said of counters, kernel semaphores, spinning or time.                  *)
(***************************************************************************)
EXTENDS Integers

CONSTANTS Threads       \* the threads that share the semaphore

VARIABLES
    permits,    \* permits signalled and not taken yet
    calling,    \* the threads inside a waiting call
    max,        \* most permits the current (or last) call of a thread may take
    granted     \* permits that call has taken

vars == <<permits, calling, max, granted>>

TypeOK ==
    /\ permits \in Nat
    /\ calling \subseteq Threads
    /\ max \in [Threads -> Nat]
    /\ granted \in [Threads -> Nat]

Init ==
    /\ permits = 0
    /\ calling = {}
    /\ max = [t \in Threads |-> 0]
    /\ granted = [t \in Threads |-> 0]

(* signal(count): the permits are available at once, to anybody. *)
Release ==
    /\ permits' \in Nat
    /\ permits' >= permits
    /\ UNCHANGED <<calling, max, granted>>

Call(t) ==
    /\ t \notin calling
    /\ calling' = calling \union {t}
    /\ max'[t] \in Nat
    /\ max' = [max EXCEPT ![t] = max'[t]]
    /\ granted' = [granted EXCEPT ![t] = 0]
    /\ UNCHANGED permits

(* A call takes permits that exist, and may return in the same step. *)
Take(t, n) ==
    /\ t \in calling
    /\ granted[t] + n <= max[t]
    /\ permits' = permits - n
    /\ granted' = [granted EXCEPT ![t] = @ + n]
    /\ calling' \in {calling, calling \ {t}}
    /\ UNCHANGED max

Return(t) ==
    /\ t \in calling
    /\ calling' = calling \ {t}
    /\ UNCHANGED <<permits, max, granted>>

Next ==
    \/ Release
    \/ \E t \in Threads :
          Call(t) \/ Return(t) \/ \E n \in 1..permits : Take(t, n)

Spec == Init /\ [][Next]_vars
==============================================================================
