---------------------------- MODULE TaskLifecycle ----------------------------
(***************************************************************************)
(* What the thread pool promises about a task, whatever its workers and    *)
(* its queue are: it runs at most once and only while the pool exists; a   *)
(* task a worker has claimed is run before the pool goes away; a task no   *)
(* worker has claimed by then is dropped.                                  *)
(***************************************************************************)

CONSTANT Tasks

VARIABLES
    state,  \* what has become of each task
    open    \* the pool has not been destroyed

vars == <<state, open>>

States == {"new", "rejected", "queued", "claimed", "running",
           "returned", "threw", "dropped"}

TypeOK == state \in [Tasks -> States] /\ open \in BOOLEAN

In(s) == {t \in Tasks : state[t] = s}

Move(T, s) == state' = [t \in Tasks |-> IF t \in T THEN s ELSE state[t]]

Init == state = [t \in Tasks |-> "new"] /\ open = TRUE

Change(T, from, to) ==
    /\ open
    /\ T \subseteq In(from)
    /\ Move(T, to)
    /\ UNCHANGED open

Submit(T) == Change(T, "new", "queued") \/ Change(T, "new", "rejected")

Claim(T) == Change(T, "queued", "claimed")

Start(t) == Change({t}, "claimed", "running")

Finish(t) == \E result \in {"returned", "threw"} : Change({t}, "running", result)

Close ==
    /\ open
    /\ In("claimed") \union In("running") = {}
    /\ Move(In("queued"), "dropped")
    /\ open' = FALSE

Next ==
    \/ \E T \in SUBSET Tasks : Submit(T) \/ Claim(T)
    \/ \E t \in Tasks : Start(t) \/ Finish(t)
    \/ Close

Spec == Init /\ [][Next]_vars
===============================================================================
