------------------------- MODULE LightweightSemaphore -------------------------
(***************************************************************************)
(* moodycamel::LightweightSemaphore (includes/lightweight_semaphore.hpp):  *)
(* an atomic count in front of a kernel semaphore.  A waiter that finds no *)
(* permit registers by driving the count below zero and sleeps on the      *)
(* kernel semaphore; signal() posts the kernel semaphore once per          *)
(* registered waiter it has a permit for.  A waiter whose time is up must  *)
(* withdraw its registration unless a post is already meant for it.        *)
(*                                                                         *)
(* One action per atomic access.  A load of m_count followed by a          *)
(* compare-and-swap on the value loaded is one action, the one of the      *)
(* successful swap: a failed attempt changes nothing and is retried.  The  *)
(* load that sends a withdrawing waiter to try_wait() is NOT followed by a *)
(* swap, so it is an action of its own.                                    *)
(***************************************************************************)
EXTENDS Integers, FiniteSets, Totals

CONSTANTS
    Threads,        \* the threads that share the semaphore
    MaxBatch,       \* bound: most permits one wait asks for
    MaxSignal,      \* bound: most permits one signal() adds
    MaxPermits      \* bound: signal() is not called beyond this count

ASSUME ThreadsAssumption == IsFiniteSet(Threads)

ASSUME BoundsAssumption == {MaxBatch, MaxSignal, MaxPermits} \subseteq Nat

VARIABLES
    mCount,     \* m_count
    mSema,      \* value of the kernel semaphore m_sema
    pc,         \* where each thread is
    mode,       \* the timeout of the thread's call: zero, positive, negative
    max,        \* its argument max
    granted,    \* what it has acquired, its result once it has returned
    toRelease   \* kernel posts signal() still has to do

vars == <<mCount, mSema, pc, mode, max, granted, toRelease>>

(* "try" is a call of tryWait or tryWaitMany, which never registers. *)
Modes == {"try", "poll", "timed", "forever"}

Smaller(a, b) == IF a < b THEN a ELSE b

Larger(a, b) == IF a < b THEN b ELSE a

-------------------------------------------------------------------------------
(* Threads that have decremented the count without finding a permit. *)
Registered == {"blocked", "readjust", "tryKernel"}

InCall == {"trying", "spinning", "more"} \union Registered

Waiting == {t \in Threads : pc[t] \in Registered}

(* The kernel posts that signal() has decided on and not made. *)
Pending == Total(toRelease)

(* Permits signalled and not taken, wherever they are: in the count, in    *)
(* the kernel semaphore, or on their way there.                            *)
Permits == mCount + Cardinality(Waiting)

-------------------------------------------------------------------------------
Init ==
    /\ mCount = 0
    /\ mSema = 0
    /\ pc = [t \in Threads |-> "idle"]
    /\ mode = [t \in Threads |-> "try"]
    /\ max = [t \in Threads |-> 0]
    /\ granted = [t \in Threads |-> 0]
    /\ toRelease = [t \in Threads |-> 0]

Call(t, m, timeout) ==
    /\ pc[t] = "idle"
    /\ pc' = [pc EXCEPT ![t] = "trying"]
    /\ mode' = [mode EXCEPT ![t] = timeout]
    /\ max' = [max EXCEPT ![t] = m]
    /\ granted' = [granted EXCEPT ![t] = 0]
    /\ UNCHANGED <<mCount, mSema, toRelease>>

WaitMany(t) ==
    \E m \in 1..MaxBatch, timeout \in Modes \ {"try"} : Call(t, m, timeout)

(* wait() and wait(timeout_usecs) are waitMany for one permit. *)
Wait(t) == \E timeout \in Modes \ {"try"} : Call(t, 1, timeout)

TryWaitMany(t) == \E m \in 1..MaxBatch : Call(t, m, "try")

TryWait(t) == Call(t, 1, "try")

(* Mutant: tryWaitMany(max) after the first permit, not max - 1. *)
GrabForgetsFirst(t) ==
    LET n == Smaller(mCount, max[t])
    IN  /\ mCount > 0
        /\ mCount' = mCount - n
        /\ granted' = [granted EXCEPT ![t] = @ + n]
        /\ pc' = [pc EXCEPT ![t] = "idle"]
        /\ UNCHANGED <<mSema, mode, max, toRelease>>

(* Take what is there, at most what is still wanted, and return. *)
Grab(t) ==
    LET n == Smaller(mCount, max[t] - granted[t])
    IN  /\ mCount > 0
        /\ mCount' = mCount - n
        /\ granted' = [granted EXCEPT ![t] = @ + n]
        /\ pc' = [pc EXCEPT ![t] = "idle"]
        /\ UNCHANGED <<mSema, mode, max, toRelease>>

TryTake(t) == pc[t] \in {"trying", "more"} /\ Grab(t)

TryMiss(t) ==
    /\ pc[t] \in {"trying", "more"}
    /\ mCount <= 0
    /\ pc' = [pc EXCEPT ![t] =
                 IF @ = "trying" /\ mode[t] # "try" THEN "spinning" ELSE "idle"]
    /\ UNCHANGED <<mCount, mSema, mode, max, granted, toRelease>>

-------------------------------------------------------------------------------
(* One permit is won; the rest of the batch is only tried for. *)
Win(t) ==
    /\ granted' = [granted EXCEPT ![t] = 1]
    /\ pc' = [pc EXCEPT ![t] = IF max[t] > 1 THEN "more" ELSE "idle"]

SpinTake(t) == pc[t] = "spinning" /\ Grab(t)

(* The spins are used up, whatever the count is now. *)
FetchSub(t) ==
    /\ pc[t] = "spinning"
    /\ mCount' = mCount - 1
    /\ \/ mCount > 0 /\ Win(t)
       \/ /\ mCount <= 0
          /\ pc' = [pc EXCEPT ![t] =
                       IF mode[t] = "poll" THEN "readjust" ELSE "blocked"]
          /\ UNCHANGED granted
    /\ UNCHANGED <<mSema, mode, max, toRelease>>

TakePost(t) ==
    /\ mSema > 0
    /\ mSema' = mSema - 1
    /\ Win(t)
    /\ UNCHANGED <<mCount, mode, max, toRelease>>

Wake(t) == pc[t] = "blocked" /\ TakePost(t)

(* Mutant: an interrupted sem_wait (EINTR) is taken for a timeout. *)
TimeOutInterrupted(t) ==
    /\ pc[t] = "blocked"
    /\ pc' = [pc EXCEPT ![t] = "readjust"]
    /\ UNCHANGED <<mCount, mSema, mode, max, granted, toRelease>>

(* The kernel may report a timeout even when a post has just been made. *)
TimeOut(t) ==
    /\ pc[t] = "blocked"
    /\ mode[t] = "timed"
    /\ pc' = [pc EXCEPT ![t] = "readjust"]
    /\ UNCHANGED <<mCount, mSema, mode, max, granted, toRelease>>

(* The count covers every registered waiter: a post is due to this one. *)
LoadCovered(t) ==
    /\ pc[t] = "readjust"
    /\ mCount >= 0
    /\ pc' = [pc EXCEPT ![t] = "tryKernel"]
    /\ UNCHANGED <<mCount, mSema, mode, max, granted, toRelease>>

TryKernel(t) ==
    /\ pc[t] = "tryKernel"
    /\ \/ TakePost(t)
       \/ /\ mSema = 0
          /\ pc' = [pc EXCEPT ![t] = "readjust"]
          /\ UNCHANGED <<mCount, mSema, mode, max, granted, toRelease>>

(* Mutant: the registration is withdrawn though a post is due. *)
WithdrawUnchecked(t) ==
    /\ pc[t] = "readjust"
    /\ mCount' = mCount + 1
    /\ pc' = [pc EXCEPT ![t] = "idle"]
    /\ UNCHANGED <<mSema, mode, max, granted, toRelease>>

Withdraw(t) ==
    /\ pc[t] = "readjust"
    /\ mCount < 0
    /\ mCount' = mCount + 1
    /\ pc' = [pc EXCEPT ![t] = "idle"]
    /\ UNCHANGED <<mSema, mode, max, granted, toRelease>>

Readjust(t) == LoadCovered(t) \/ TryKernel(t) \/ Withdraw(t)

WaitManyWithPartialSpinning(t) ==
    SpinTake(t) \/ FetchSub(t) \/ Wake(t) \/ TimeOut(t) \/ Readjust(t)

-------------------------------------------------------------------------------
(* Mutant: the release is computed from the count after the addition. *)
SignalNewCount(t, count) ==
    LET release == Smaller(-(mCount + count), count)
    IN  /\ pc[t] = "idle"
        /\ mCount + count <= MaxPermits
        /\ mCount' = mCount + count
        /\ IF release > 0
              THEN /\ toRelease' = [toRelease EXCEPT ![t] = release]
                   /\ pc' = [pc EXCEPT ![t] = "posting"]
              ELSE UNCHANGED <<toRelease, pc>>
        /\ UNCHANGED <<mSema, mode, max, granted>>

(* Mutant: no test that there is something to release. *)
SignalAlways(t, count) ==
    /\ pc[t] = "idle"
    /\ mCount + count <= MaxPermits
    /\ mCount' = mCount + count
    /\ toRelease' = [toRelease EXCEPT ![t] = Smaller(-mCount, count)]
    /\ pc' = [pc EXCEPT ![t] = "posting"]
    /\ UNCHANGED <<mSema, mode, max, granted>>

Signal(t, count) ==
    LET release == Smaller(-mCount, count)
    IN  /\ pc[t] = "idle"
        /\ mCount + count <= MaxPermits
        /\ mCount' = mCount + count
        /\ IF release > 0
              THEN /\ toRelease' = [toRelease EXCEPT ![t] = release]
                   /\ pc' = [pc EXCEPT ![t] = "posting"]
              ELSE UNCHANGED <<toRelease, pc>>
        /\ UNCHANGED <<mSema, mode, max, granted>>

(* Mutant: one sem_post for the whole count. *)
PostOnce(t) ==
    /\ pc[t] = "posting"
    /\ mSema' = mSema + 1
    /\ toRelease' = [toRelease EXCEPT ![t] = 0]
    /\ pc' = [pc EXCEPT ![t] = "idle"]
    /\ UNCHANGED <<mCount, mode, max, granted>>

(* Mutant: a post too many, as `count-- >= 0` makes. *)
PostTooMany(t) ==
    /\ pc[t] = "posting"
    /\ mSema' = mSema + 1
    /\ toRelease' = [toRelease EXCEPT ![t] = IF @ = 0 THEN 0 ELSE @ - 1]
    /\ pc' = [pc EXCEPT ![t] = IF toRelease[t] = 0 THEN "idle" ELSE "posting"]
    /\ UNCHANGED <<mCount, mode, max, granted>>

(* sem_post is called once per permit, not once for the whole count. *)
Post(t) ==
    /\ pc[t] = "posting"
    /\ mSema' = mSema + 1
    /\ toRelease' = [toRelease EXCEPT ![t] = @ - 1]
    /\ pc' = [pc EXCEPT ![t] = IF toRelease[t] = 1 THEN "idle" ELSE "posting"]
    /\ UNCHANGED <<mCount, mode, max, granted>>

-------------------------------------------------------------------------------
(* What a thread does on its own once it is in a call or in signal(). *)
Step(t) ==
    TryTake(t) \/ TryMiss(t) \/ WaitManyWithPartialSpinning(t) \/ Post(t)

Next ==
    \E t \in Threads :
        \/ WaitMany(t) \/ Wait(t) \/ TryWaitMany(t) \/ TryWait(t)
        \/ \E count \in 0..MaxSignal : Signal(t, count)
        \/ Step(t)

Spec == Init /\ [][Next]_vars

(* Threads are scheduled: one that can take a step of its call does so.    *)
(* Nobody is obliged to call.                                              *)
FairSpec == Spec /\ \A t \in Threads : WF_vars(Step(t))

-------------------------------------------------------------------------------
(* Type correctness of the semaphore object and of its callers' locals. *)
TypeOK ==
    /\ mCount \in Int
    /\ mSema \in Nat
    /\ pc \in [Threads -> InCall \union {"idle", "posting"}]
    /\ mode \in [Threads -> Modes]
    /\ max \in [Threads -> Nat]
    /\ granted \in [Threads -> Nat]
    /\ toRelease \in [Threads -> Nat]

(* The registered waiters are those the count is in debt for and those a   *)
(* post has been made or decided for: fetch_add in signal() and the        *)
(* re-adjustment after a timeout never disagree on who releases whom.      *)
Accounting ==
    Cardinality(Waiting) = Larger(-mCount, 0) + mSema + Pending

(* The locals of the calls in progress: signal() owes a post as long as it *)
(* posts, a wait holds no permit while it waits for its first and one      *)
(* while it tries for more, and only timeouts lead to the re-adjustment.   *)
LocalsOf(t) ==
    /\ toRelease[t] > 0 <=> pc[t] = "posting"
    /\ granted[t] <= max[t]
    /\ pc[t] \in InCall \ {"more"} => granted[t] = 0 /\ max[t] > 0
    /\ pc[t] = "more" => granted[t] = 1 /\ max[t] > 1
    /\ mode[t] = "forever" => pc[t] \notin {"readjust", "tryKernel"}

Locals == \A t \in Threads : LocalsOf(t)

(* Accounting needs Locals to be inductive, and both need the types. *)
IInv == TypeOK /\ Locals /\ Accounting

(* A thread sleeps on the kernel semaphore in vain only if there is no     *)
(* permit: when every other call has ended, no wakeup has been lost.       *)
NoLostWakeup ==
    (/\ \A t \in Threads : pc[t] \in {"idle", "blocked"}
     /\ Waiting # {}
     /\ mSema = 0)
    => Permits = 0

(* "Acquires at least one": the comment over waitMany, and the assertion   *)
(* of its overload without a timeout, when kernel posts are shared by      *)
(* threads that time out.                                                  *)
ForeverAcquires ==
    [][\A t \in Threads :
          (pc[t] \in InCall /\ pc'[t] = "idle" /\ mode[t] = "forever")
          => granted'[t] >= 1]_vars

(* The object is a counting semaphore: signals are never lost or doubled,  *)
(* even by a timeout that races a post, and no call takes more than max.   *)
Abstract == INSTANCE CountingSemaphore WITH
    permits <- Permits,
    calling <- {t \in Threads : pc[t] \in InCall}

Refinement == Abstract!Spec

(* Nobody can take another step of a call, but for want of a permit. *)
Quiet ==
    \A t \in Threads :
        \/ pc[t] = "idle"
        \/ pc[t] = "blocked" /\ mode[t] = "forever" /\ Permits = 0

(* Some call always ends unless everybody waits for a permit in vain: a    *)
(* post reaches a sleeper, the re-adjustment loop of a timed wait ends.    *)
LockFree ==
    <>[]~Quiet
    => []<><<\E t \in Threads : pc[t] # "idle" /\ pc'[t] = "idle">>_vars
===============================================================================
