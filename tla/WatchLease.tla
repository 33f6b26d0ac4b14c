------------------------------ MODULE WatchLease -------------------------------
(***************************************************************************)
(* What a guard promises to the campaign, without saying how: a watch on a *)
(* node begins, and ends in exactly one way.  It is released when it was   *)
(* asked to be; or, for a cause, it fires, and says so only when nothing   *)
(* runs under the watched name; or it misses what it should stop, and says *)
(* that it saw nothing; or it fails and says so; or it is lost without a   *)
(* word.                                                                   *)
(***************************************************************************)
CONSTANT Host

VARIABLES
    watch,     \* watch[h]: "off", "on", or "firing" once the guard has decided
    verdict,   \* verdict[h]: what the last watch said, "none" if nothing yet
    up,        \* up[h]: a container runs under the watched name
    asked,     \* asked[h]: the guard has been told that it is done
    cause      \* cause[h]: there is a reason to stop the container

leaseVars == <<watch, verdict, up, asked, cause>>

LeaseTypeOK ==
    /\ watch \in [Host -> {"off", "on", "firing"}]
    /\ verdict \in [Host -> {"none", "released", "fired", "missed", "failed"}]
    /\ up \in [Host -> BOOLEAN]
    /\ asked \in [Host -> BOOLEAN]
    /\ cause \in [Host -> BOOLEAN]

Init ==
    /\ LeaseTypeOK
    /\ watch = [h \in Host |-> "off"]
    /\ cause = [h \in Host |-> FALSE]

Becomes(h, w, v) ==
    /\ watch' = [watch EXCEPT ![h] = w]
    /\ verdict' = [verdict EXCEPT ![h] = v]
    /\ UNCHANGED <<up, asked, cause>>

Begin(h)   == watch[h] = "off" /\ Becomes(h, "on", "none")
Release(h) == watch[h] = "on" /\ asked[h] /\ Becomes(h, "off", "released")
Decide(h)  == watch[h] = "on" /\ ~asked[h] /\ cause[h] /\ Becomes(h, "firing", verdict[h])
Fire(h)    == watch[h] = "firing" /\ ~up[h] /\ Becomes(h, "off", "fired")
Miss(h)    == watch[h] = "firing" /\ Becomes(h, "off", "missed")
Fail(h)    == watch[h] = "firing" /\ Becomes(h, "off", "failed")
Lose(h)    == watch[h] # "off" /\ Becomes(h, "off", verdict[h])

(* The workload, the operator and the node, one at a time.                 *)
Around(h) ==
    /\ \/ up' = [up EXCEPT ![h] = ~@] /\ UNCHANGED <<asked, cause>>
       \/ asked' = [asked EXCEPT ![h] = ~@] /\ UNCHANGED <<up, cause>>
       \/ cause' = [cause EXCEPT ![h] = ~@] /\ UNCHANGED <<up, asked>>
    /\ UNCHANGED <<watch, verdict>>

Next ==
    \E h \in Host :
        Begin(h) \/ Release(h) \/ Decide(h) \/ Fire(h) \/ Miss(h) \/ Fail(h)
        \/ Lose(h) \/ Around(h)

Spec == Init /\ [][Next]_leaseVars
================================================================================
