-------------------------- MODULE ConfigLifecycle --------------------------
(***************************************************************************)
(* What agentic_config_table promises: a row is stored, hidden by a soft   *)
(* delete that keeps its content, possibly stored again, and forgotten     *)
(* only after it has been hidden for longer than the retention.            *)
(***************************************************************************)
EXTENDS Integers

CONSTANTS ConfigIds, Configs, Retention, MaxTime, None

VARIABLES now, configs, deletedAt

vars == <<now, configs, deletedAt>>

NotDeleted == -1

Init ==
    /\ now = 0
    /\ configs = [id \in ConfigIds |-> None]
    /\ deletedAt = [id \in ConfigIds |-> NotDeleted]

\* The row of id becomes visible, with configuration c.
Store(id, c) ==
    /\ configs' = [configs EXCEPT ![id] = c]
    /\ deletedAt' = [deletedAt EXCEPT ![id] = NotDeleted]
    /\ UNCHANGED now

\* A visible row is hidden; the time of the deletion may lag the clock.
Hide(id) ==
    /\ configs[id] # None
    /\ deletedAt[id] = NotDeleted
    /\ \E time \in 0..now : deletedAt' = [deletedAt EXCEPT ![id] = time]
    /\ UNCHANGED <<now, configs>>

\* Rows hidden for longer than the retention are removed for good.
Forget(ids) ==
    /\ \A id \in ids : /\ configs[id] # None
                       /\ deletedAt[id] # NotDeleted
                       /\ deletedAt[id] + Retention < now
    /\ configs' = [id \in ConfigIds |-> IF id \in ids THEN None ELSE configs[id]]
    /\ deletedAt' = [id \in ConfigIds |-> IF id \in ids THEN NotDeleted ELSE deletedAt[id]]
    /\ UNCHANGED now

Tick ==
    /\ now < MaxTime
    /\ now' = now + 1
    /\ UNCHANGED <<configs, deletedAt>>

Next ==
    \/ \E id \in ConfigIds, c \in Configs : Store(id, c)
    \/ \E id \in ConfigIds : Hide(id)
    \/ \E ids \in SUBSET ConfigIds : Forget(ids)
    \/ Tick

Spec == Init /\ [][Next]_vars

===========================================================================
