------------------------------- MODULE Workbench -------------------------------
(***************************************************************************)
(* What the two controllers and the webhook together promise the user of a *)
(* workbench, without caches, queues, versions or conflicts.               *)
(***************************************************************************)

VARIABLES
    want,      \* what the Notebook asks for
    prepared,  \* the objects the workbench needs have been provided
    forced,    \* the user started it without waiting for them
    locking,   \* the first reconciliation has yet to hand it over
    touched,   \* the user has stopped, started, restarted or edited it
    unmounted, \* the CA certificates were found missing and taken out of it
    running    \* the pod exists

abstract == <<want, prepared, forced, locking, touched, unmounted, running>>

Init ==
    /\ want = "absent"
    /\ prepared = FALSE /\ forced = FALSE /\ locking = FALSE
    /\ touched = FALSE /\ unmounted = FALSE /\ running = FALSE

\* A new workbench is locked.
Create ==
    /\ want = "absent"
    /\ want' = "locked" /\ locking' = TRUE
    /\ UNCHANGED <<prepared, forced, touched, unmounted, running>>

Provide ==
    /\ want # "absent"
    /\ prepared' = TRUE
    /\ UNCHANGED <<want, forced, locking, touched, unmounted, running>>

\* The first reconciliation hands the workbench over, once everything is
\* provided.  A stop the user asked for before that is lost with the lock.
Release ==
    /\ locking /\ prepared /\ want # "absent"
    /\ want' = "started"
    /\ locking' \in BOOLEAN
    /\ UNCHANGED <<prepared, forced, touched, unmounted, running>>

\* The hand-over is finished, or overtaken by the user.
Settle ==
    /\ locking /\ want # "locked"
    /\ locking' = FALSE
    /\ UNCHANGED <<want, prepared, forced, touched, unmounted, running>>

\* The user stops the workbench, starts it (over the lock, perhaps), asks for
\* a restart or edits it.
UserActs ==
    /\ want # "absent"
    /\ touched' = TRUE
    /\ want' \in {want, "stopped", "started"}
    /\ IF want' = "started" /\ want # "started" /\ ~prepared
       THEN forced' = TRUE ELSE UNCHANGED forced
    /\ locking' \in {locking, want' = "locked"}
    /\ UNCHANGED <<prepared, unmounted, running>>

\* A reconciliation does not find the CA certificates and takes them out of
\* the workbench, whether it runs or not.
Unmount ==
    /\ want # "absent"
    /\ unmounted' = TRUE
    /\ UNCHANGED <<want, prepared, forced, locking, touched, running>>

\* Nothing runs before it is released, and what runs is taken down only if
\* the user has acted or the CA certificates were taken out.
PodUp ==
    /\ ~running /\ (prepared \/ forced)
    /\ running' = TRUE
    /\ UNCHANGED <<want, prepared, forced, locking, touched, unmounted>>

PodDown ==
    /\ running /\ (touched \/ unmounted)
    /\ running' = FALSE
    /\ UNCHANGED <<want, prepared, forced, locking, touched, unmounted>>

Next == Create \/ Provide \/ Release \/ Settle \/ UserActs \/ Unmount
            \/ PodUp \/ PodDown

Spec == Init /\ [][Next]_abstract
================================================================================
