---------------------------- MODULE RequestDeadline ----------------------------
(***************************************************************************)
(* probes.request_deadline: the one-hour limit of a request, set with the  *)
(* same SIGALRM timer that carries the deadline of the whole campaign.     *)
(*                                                                         *)
(* A process has one ITIMER_REAL and one handler.  The context manager     *)
(* saves both, installs its own for at most `Limit`, and on leaving turns  *)
(* the timer off, restores the handler, and sets the timer to what remains *)
(* of the saved one.  The timer may fire between any two of these steps.   *)
(* The campaign makes requests in turn; an exception that leaves a request *)
(* fails a trial, which is survived, or the campaign, which ends it.       *)
(***************************************************************************)
EXTENDS Integers

CONSTANTS
    Deadline,    \* when the campaign's alarm is due (signal.alarm(17400))
    Limit,       \* seconds of a request (3600)
    MaxTime,     \* time the model looks at (bound)
    Preemptible  \* time may pass inside the bookkeeping as well

ASSUME DeadlineAssumption == Deadline \in Nat \ {0}
ASSUME LimitAssumption == Limit \in Nat \ {0}
ASSUME MaxTimeAssumption == MaxTime \in Nat
ASSUME PreemptibleAssumption == Preemptible \in BOOLEAN

VARIABLES
    now,        \* time.monotonic()
    alarm,      \* when the timer fires; Off when it is not set
    handler,    \* the SIGALRM handler: "campaign" or "request"
    pc,         \* where the process is in the context manager
    saved,      \* previous_timer[0]; Off when no timer was set
    savedBy,    \* previous_handler
    started,    \* started
    delivered   \* the campaign's handler has run

vars == <<now, alarm, handler, pc, saved, savedBy, started, delivered>>
held == <<saved, savedBy, started>>

Off == 0

(* "out" of any request; "over": the campaign has ended. *)
Pc == {"out", "entered", "installed", "body", "cancel", "restore", "rearm", "over"}

TypeOK ==
    /\ now \in 0..MaxTime
    /\ alarm \in Nat
    /\ {handler, savedBy} \subseteq {"campaign", "request"}
    /\ pc \in Pc
    /\ saved \in Nat
    /\ started \in 0..MaxTime
    /\ delivered \in BOOLEAN

Init ==
    /\ now = 0 /\ alarm = Deadline /\ handler = "campaign"
    /\ pc = "out" /\ saved = Off /\ savedBy = "campaign" /\ started = 0
    /\ delivered = FALSE

(* The timer is due: its signal is handled before anything else happens,   *)
(* unless the process is preempted just there.                             *)
Due == alarm # Off /\ now >= alarm
Undisturbed == Preemptible \/ ~Due

BugDuration == Limit                   \* faulty: the saved timer is not regarded
Duration == IF saved = Off \/ saved > Limit THEN Limit ELSE saved

--------------------------------------------------------------------------------

(* getsignal, getitimer, monotonic *)
Enters ==
    /\ pc = "out" /\ Undisturbed
    /\ pc' = "entered"
    /\ saved' = IF alarm = Off THEN Off ELSE IF alarm > now THEN alarm - now ELSE 1
    /\ savedBy' = handler
    /\ started' = now
    /\ UNCHANGED <<now, alarm, handler, delivered>>

BugInstalls ==                         \* faulty: the handler stays the campaign's
    /\ pc = "entered" /\ Undisturbed
    /\ pc' = "installed"
    /\ UNCHANGED <<now, alarm, handler, held, delivered>>

Installs ==
    /\ pc = "entered" /\ Undisturbed
    /\ pc' = "installed"
    /\ handler' = "request"
    /\ UNCHANGED <<now, alarm, held, delivered>>

SetsTimer ==
    /\ pc = "installed" /\ Undisturbed
    /\ pc' = "body"
    /\ alarm' = now + Duration
    /\ UNCHANGED <<now, handler, held, delivered>>

(* The answer is complete, or reading it failed. *)
BodyEnds ==
    /\ pc = "body" /\ Undisturbed
    /\ pc' = "cancel"
    /\ UNCHANGED <<now, alarm, handler, held, delivered>>

Cancels ==
    /\ pc = "cancel" /\ Undisturbed
    /\ pc' = "restore"
    /\ alarm' = Off
    /\ UNCHANGED <<now, handler, held, delivered>>

Restores ==
    /\ pc = "restore"
    /\ pc' = "rearm"
    /\ handler' = savedBy
    /\ UNCHANGED <<now, alarm, held, delivered>>

BugRemaining == saved                  \* faulty: the request's own time is not deducted
Remaining == saved - (now - started)

Rearms ==
    /\ pc = "rearm"
    /\ pc' \in {"out", "over"}
    /\ alarm' = IF saved # Off /\ Remaining > 0 THEN now + Remaining ELSE alarm
    /\ UNCHANGED <<now, handler, held, delivered>>

(***************************************************************************)
(* The signal: the handler raises wherever the process is.  In the body    *)
(* the finally clause follows; anywhere else the request is left at once.  *)
(***************************************************************************)
Fires ==
    /\ Due
    /\ pc # "over"
    /\ alarm' = Off
    /\ delivered' = (delivered \/ handler = "campaign")
    /\ IF pc = "body" THEN pc' = "cancel" ELSE pc' \in {"out", "over"}
    /\ UNCHANGED <<now, handler, held>>

(* Time passes, in a request and between requests. *)
Tick ==
    /\ now < MaxTime
    /\ pc \in {"out", "body"} \/ (Preemptible /\ pc # "over")
    /\ ~Due
    /\ now' = now + 1
    /\ UNCHANGED <<alarm, handler, pc, held, delivered>>

Next ==
    \/ Enters \/ Installs \/ SetsTimer \/ BodyEnds
    \/ Cancels \/ Restores \/ Rearms \/ Fires \/ Tick

Spec == Init /\ [][Next]_vars

--------------------------------------------------------------------------------

(***************************************************************************)
(* Until it is reached the campaign's deadline survives every request,     *)
(* whether it is answered, fails or is cut off by its own limit: out of    *)
(* requests the timer is set for exactly that moment, with the handler of  *)
(* the campaign.                                                           *)
(***************************************************************************)
DeadlineIsKept ==
    pc = "out" /\ now < Deadline => alarm = Deadline /\ handler = "campaign"

(***************************************************************************)
(* No request outlives its limit or the campaign's deadline, as long as    *)
(* that deadline is ahead when it begins.                                  *)
(***************************************************************************)
RequestsAreBounded ==
    pc = "body" /\ started < Deadline =>
        now <= started + Limit /\ now <= Deadline

(* The campaign's handler never runs early, on account of a request's limit. *)
NeverEarly == delivered => now >= Deadline

(***************************************************************************)
(* "Hard wall deadline while preserving an earlier campaign deadline"      *)
(* (probes.py, line 13): a process that is still at work after the         *)
(* campaign's deadline has got the campaign's signal.                      *)
(***************************************************************************)
DeadlineIsDelivered == now > Deadline => pc = "over" \/ delivered
================================================================================
