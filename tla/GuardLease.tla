------------------------------ MODULE GuardLease -------------------------------
(***************************************************************************)
(* The guard of MemoryGuard keeps the promise of WatchLease.               *)
(***************************************************************************)
EXTENDS MemoryGuard

FiringPc == {"inspect", "kill", "confirm"}

(* The watch that the guards of a node, at these places, keep up.          *)
WatchOf(pcs) ==
    IF \E p \in Pid : pcs[p] = "poll" THEN "on"
    ELSE IF \E p \in Pid : pcs[p] \in FiringPc THEN "firing" ELSE "off"

watchBar == [h \in Host |-> WatchOf(gpc[h])]

(* A 'triggered' whose container_state is Running is a failure already;    *)
(* that the container is absent is no more than a guess where docker fails.*)
VerdictOf(phase, running, p) ==
    IF phase = "disarmed" THEN "released"
    ELSE IF phase = "error" \/ (phase = "triggered" /\ running) THEN "failed"
    ELSE IF phase = "triggered_container_absent" /\ DockerFails(p) THEN "missed"
    ELSE IF phase \in Fired THEN "fired" ELSE "none"

verdictBar == [h \in Host |-> VerdictOf(file[h].phase, file[h].up, file[h].pid)]
upBar      == [h \in Host |-> Running(h)]
causeBar   == [h \in Host |-> low[h] \/ overdue[h] # {}]

Lease == INSTANCE WatchLease WITH
    watch <- watchBar, verdict <- verdictBar, up <- upBar, asked <- done, cause <- causeBar

(***************************************************************************)
(* Each step of the guard, of docker and of the node is a step of the      *)
(* lease or leaves it alone; in particular a guard reports a container it  *)
(* stopped, or found stopped, only at a moment when nothing runs under     *)
(* NAME on its node, and that it was released only when it was told so.    *)
(* 'triggered_container_absent' says as much only of a guard whose docker  *)
(* calls do not fail: any failing inspection ends in that phase.           *)
(***************************************************************************)
KeepsLease == Lease!Spec
================================================================================
