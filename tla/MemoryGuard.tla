------------------------------ MODULE MemoryGuard ------------------------------
(***************************************************************************)
(* memory_guard.py: the watchdog that runs on every node of the pair, and  *)
(* the docker container it watches.                                        *)
(*                                                                         *)
(* A guard process publishes its phase in memory-guard-state.json (`file`) *)
(* and leaves its loop when the marker memory-guard.done exists, when the  *)
(* node's available memory is below the floor, or when its own deadline    *)
(* has passed.  In the last two cases it stops the container, which it     *)
(* finds by NAME, checks by label and kills by id.  Everything else here   *)
(* is the guard's environment: docker, the memory of the node, the passing *)
(* of time, and the operator or controller that starts guards.             *)
(*                                                                         *)
(* A node may see several guards, one after the other, hence Pid.          *)
(***************************************************************************)
EXTENDS Naturals

CONSTANTS
    Host,         \* the nodes of the pair
    MaxPid,       \* guard processes a node may see (bound)
    MaxId,        \* containers ever created under NAME on a node (bound)
    GuardFaults,  \* what may go wrong in a guard: "docker", "sigkill", "stall"
    Flaky         \* the guards in which it may go wrong (bound)

ASSUME MaxPidAssumption == MaxPid \in Nat
ASSUME MaxIdAssumption == MaxId \in Nat \ {0}
ASSUME GuardFaultsAssumption ==
    GuardFaults \subseteq {"docker", "sigkill", "stall"} /\ Flaky \subseteq Nat

Pid == 1..MaxPid
Id  == 1..MaxId
NoPid == 0
NoId  == 0

VARIABLES
    gpc,      \* gpc[h][p]: where guard process p of node h is
    target,   \* target[h][p]: id of the container guard p decided to kill
    file,     \* file[h]: memory-guard-state.json
    done,     \* done[h]: memory-guard.done exists
    overdue,  \* overdue[h]: the guards whose DEADLINE has passed
    low,      \* low[h]: MemAvailable < FLOOR
    box       \* box[h]: the container docker knows under NAME

guardVars == <<gpc, target, file>>
nodeVars  == <<done, overdue, low>>
vars      == <<gpc, target, file, done, overdue, low, box>>

GuardPc  == {"none", "boot", "poll", "inspect", "kill", "confirm", "assert", "ended"}
Fired    == {"triggered", "triggered_container_absent", "triggered_already_stopped"}
Verdicts == Fired \union {"disarmed", "error"}
Phase    == Verdicts \union {"absent", "armed"}
BoxState == {"absent", "running", "exited"}

(* A guard process that exists: os.kill(pid, 0) succeeds. *)
LivePc      == GuardPc \ {"none", "ended"}
Alive(h, p) == p \in Pid /\ gpc[h][p] \in LivePc

(* The container is up, and it carries this project's wesche.task label. *)
Running(h)    == box[h].st = "running"
RunningOwn(h) == Running(h) /\ box[h].own

StateFile == [phase : Phase, pid : Pid \union {NoPid}, fresh : BOOLEAN, up : BOOLEAN]
Box       == [id : Id \union {NoId}, st : BoxState, own : BOOLEAN]

TypeOK ==
    /\ gpc \in [Host -> [Pid -> GuardPc]]
    /\ target \in [Host -> [Pid -> Id \union {NoId}]]
    /\ file \in [Host -> StateFile]
    /\ done \in [Host -> BOOLEAN]
    /\ overdue \in [Host -> SUBSET Pid]
    /\ low \in [Host -> BOOLEAN]
    /\ box \in [Host -> Box]

(***************************************************************************)
(* Earlier campaigns may have left a state file, a done marker and a       *)
(* container behind; their guards (NoPid) are gone.                        *)
(***************************************************************************)
LeftoverBox ==
    {[id |-> NoId, st |-> "absent", own |-> TRUE]} \union
    [id : {1}, st : {"running", "exited"}, own : BOOLEAN]

Init ==
    /\ gpc = [h \in Host |-> [p \in Pid |-> "none"]]
    /\ target = [h \in Host |-> [p \in Pid |-> NoId]]
    /\ file \in [Host -> [phase : {"absent", "armed", "disarmed", "error"},
                          pid : {NoPid}, fresh : {FALSE}, up : {FALSE}]]
    /\ done \in [Host -> BOOLEAN]
    /\ overdue = [h \in Host |-> {}]
    /\ low = [h \in Host |-> FALSE]
    /\ box \in [Host -> LeftoverBox]

--------------------------------------------------------------------------------
(* The guard process. *)

(***************************************************************************)
(* save(): the file is replaced atomically, with the epoch of now.  `up`   *)
(* is the Running of the container_state that a 'triggered' file carries.  *)
(***************************************************************************)
BugSaveStateUp(h, p, phase, up) ==     \* faulty: the state after the kill is not looked at
    file' = [file EXCEPT ![h] = [phase |-> phase, pid |-> p, fresh |-> TRUE, up |-> FALSE]]

SaveState(h, p, phase, up) ==
    file' = [file EXCEPT ![h] = [phase |-> phase, pid |-> p, fresh |-> TRUE, up |-> up]]

Save(h, p, phase) == SaveState(h, p, phase, FALSE)

Goto(h, p, pc) == gpc' = [gpc EXCEPT ![h][p] = pc]

BugEndLoops(h, p, verdict) ==          \* faulty: no return after stop_owned
    Goto(h, p, "poll") /\ Save(h, p, verdict)
End(h, p, verdict) == Goto(h, p, "ended") /\ Save(h, p, verdict)

GuardArms(h, p) ==
    /\ gpc[h][p] = "boot"
    /\ Goto(h, p, "poll")
    /\ Save(h, p, "armed")
    /\ UNCHANGED <<target, nodeVars, box>>

GuardSeesDone(h, p) ==
    /\ gpc[h][p] = "poll"
    /\ done[h]
    /\ End(h, p, "disarmed")
    /\ UNCHANGED <<target, nodeVars, box>>

BugMustStopLow(h, p) == low[h]         \* faulty: no deadline of its own

MustStop(h, p) == low[h] \/ p \in overdue[h]

GuardHeartbeat(h, p) ==
    /\ gpc[h][p] = "poll"
    /\ ~done[h]
    /\ ~MustStop(h, p)
    /\ Save(h, p, "armed")
    /\ UNCHANGED <<gpc, target, nodeVars, box>>

GuardTriggers(h, p) ==
    /\ gpc[h][p] = "poll"
    /\ ~done[h]
    /\ MustStop(h, p)
    /\ Goto(h, p, "inspect")
    /\ UNCHANGED <<target, file, nodeVars, box>>

(* A docker call of this guard may fail: the daemon, not the container.    *)
DockerFails(p) == "docker" \in GuardFaults /\ p \in Flaky

(* docker inspect NAME, and the branch on what it shows.  Any failure of   *)
(* the call is taken for an absent container, also while one is running.   *)
GuardInspects(h, p) ==
    /\ gpc[h][p] = "inspect"
    /\ \/ /\ box[h].st = "absent" \/ DockerFails(p)
          /\ End(h, p, "triggered_container_absent")
          /\ UNCHANGED target
       \/ /\ box[h].st # "absent"
          /\ ~box[h].own                            \* the label assertion
          /\ End(h, p, "error")
          /\ UNCHANGED target
       \/ /\ RunningOwn(h)
          /\ target' = [target EXCEPT ![h][p] = box[h].id]
          /\ Goto(h, p, "kill")
          /\ UNCHANGED file
       \/ /\ box[h].st = "exited"
          /\ box[h].own
          /\ End(h, p, "triggered_already_stopped")
          /\ UNCHANGED target
    /\ UNCHANGED <<nodeVars, box>>

(* docker kill <id>: without effect on any other container of that name.  *)
BugKillByName(h, p) ==                 \* faulty: docker kill NAME
    IF Running(h) THEN box' = [box EXCEPT ![h].st = "exited"] ELSE UNCHANGED box
BugKillNothing(h, p) == UNCHANGED box  \* faulty: the id of another container

KillTarget(h, p) ==
    IF Running(h) /\ box[h].id = target[h][p]
    THEN box' = [box EXCEPT ![h].st = "exited"]
    ELSE UNCHANGED box

GuardKills(h, p) ==
    /\ gpc[h][p] = "kill"
    /\ \/ KillTarget(h, p)
       \/ DockerFails(p) /\ UNCHANGED box          \* nonzero kill_returncode
    /\ Goto(h, p, "confirm")
    /\ UNCHANGED <<target, file, nodeVars>>

(***************************************************************************)
(* docker inspect <id>.  The state it shows is saved with 'triggered', and *)
(* a container that is still up then fails the assertion; one that has     *)
(* been removed fails json.loads(...)[0].  Both end in 'error'.            *)
(***************************************************************************)
GuardConfirms(h, p) ==
    /\ gpc[h][p] = "confirm"
    /\ \/ /\ box[h].id = target[h][p]
          /\ Running(h)
          /\ Goto(h, p, "assert")
          /\ SaveState(h, p, "triggered", TRUE)
       \/ /\ box[h].id = target[h][p]
          /\ box[h].st = "exited"
          /\ End(h, p, "triggered")
       \/ /\ box[h].id # target[h][p] \/ box[h].st = "absent"
          /\ End(h, p, "error")
    /\ UNCHANGED <<target, nodeVars, box>>

GuardAsserts(h, p) ==
    /\ gpc[h][p] = "assert"
    /\ End(h, p, "error")
    /\ UNCHANGED <<target, nodeVars, box>>

(* A docker call of stop_owned times out, or the confirmation fails, and   *)
(* main's handler saves 'error'.                                           *)
GuardDockerTimeout(h, p) ==
    /\ DockerFails(p)
    /\ gpc[h][p] \in {"inspect", "kill", "confirm"}
    /\ End(h, p, "error")
    /\ UNCHANGED <<target, nodeVars, box>>

(* The process is killed (the OOM killer may choose it): no verdict.       *)
GuardKilled(h, p) ==
    /\ "sigkill" \in GuardFaults /\ p \in Flaky
    /\ gpc[h][p] \in LivePc
    /\ Goto(h, p, "ended")
    /\ UNCHANGED <<target, file, nodeVars, box>>

GuardStep(h, p) ==
    \/ GuardArms(h, p) \/ GuardSeesDone(h, p) \/ GuardHeartbeat(h, p)
    \/ GuardTriggers(h, p) \/ GuardInspects(h, p) \/ GuardKills(h, p)
    \/ GuardConfirms(h, p) \/ GuardAsserts(h, p)

GuardFault(h, p) == GuardDockerTimeout(h, p) \/ GuardKilled(h, p)

--------------------------------------------------------------------------------
(* Time and memory. *)

(***************************************************************************)
(* 20 seconds without a save make the heartbeat stale.  A polling guard    *)
(* saves every 3 seconds unless the node stalls.                           *)
(***************************************************************************)
HeartbeatAges(h) ==
    /\ file[h].fresh
    /\ \/ ~\E p \in Pid : gpc[h][p] = "poll"
       \/ "stall" \in GuardFaults
    /\ file' = [file EXCEPT ![h].fresh = FALSE]
    /\ UNCHANGED <<gpc, target, nodeVars, box>>

DeadlinePasses(h, p) ==
    /\ gpc[h][p] \in LivePc
    /\ p \notin overdue[h]
    /\ overdue' = [overdue EXCEPT ![h] = @ \union {p}]
    /\ UNCHANGED <<guardVars, done, low, box>>

MemoryDrops(h) ==
    /\ RunningOwn(h)
    /\ low' = [low EXCEPT ![h] = TRUE]
    /\ UNCHANGED <<guardVars, done, overdue, box>>

MemoryRecovers(h) ==
    /\ low[h]
    /\ low' = [low EXCEPT ![h] = FALSE]
    /\ UNCHANGED <<guardVars, done, overdue, box>>

--------------------------------------------------------------------------------
(* Docker, as the launcher and the operator use it. *)

BoxStarts(h, own) ==
    /\ box[h].st = "absent"
    /\ box[h].id < MaxId
    /\ box' = [box EXCEPT ![h] = [id |-> @.id + 1, st |-> "running", own |-> own]]

(* A container of ours that crashes or exits; --restart no.                *)
BoxExits(h) ==
    /\ RunningOwn(h)
    /\ box' = [box EXCEPT ![h].st = "exited"]

(* docker stop; docker rm.                                                 *)
BoxStops(h)   == Running(h) /\ box' = [box EXCEPT ![h].st = "exited"]
BoxRemoved(h) == box[h].st = "exited" /\ box' = [box EXCEPT ![h].st = "absent"]

(* A guard process is started; the previous one has ended.                 *)
SpawnGuard(h, p) ==
    /\ gpc[h][p] = "none"
    /\ \A q \in Pid : q < p => gpc[h][q] # "none"
    /\ gpc' = [gpc EXCEPT ![h][p] = "boot"]

--------------------------------------------------------------------------------
(***************************************************************************)
(* The guard on its own, in an environment that starts one guard at a      *)
(* time with no done marker left, and uses docker as it likes.             *)
(***************************************************************************)
OperatorSpawns(h, p) ==
    /\ \A q \in Pid : gpc[h][q] \in {"none", "ended"}
    /\ SpawnGuard(h, p)
    /\ done' = [done EXCEPT ![h] = FALSE]
    /\ UNCHANGED <<target, file, overdue, low, box>>

OperatorTouchesDone(h) ==
    /\ done' = [done EXCEPT ![h] = TRUE]
    /\ UNCHANGED <<guardVars, overdue, low, box>>

DockerStep(h) ==
    /\ \/ \E own \in BOOLEAN : BoxStarts(h, own)
       \/ BoxExits(h)
       \/ box[h].own /\ BoxStops(h)
       \/ BoxRemoved(h)
    /\ UNCHANGED <<guardVars, nodeVars>>

NodeStep(h) == HeartbeatAges(h) \/ MemoryDrops(h) \/ MemoryRecovers(h)

Next ==
    \E h \in Host :
        \/ \E p \in Pid : GuardStep(h, p) \/ GuardFault(h, p)
                          \/ DeadlinePasses(h, p) \/ OperatorSpawns(h, p)
        \/ OperatorTouchesDone(h)
        \/ DockerStep(h)
        \/ NodeStep(h)

(***************************************************************************)
(* A live process keeps running, and time passes; nothing else is owed.    *)
(***************************************************************************)
Fairness ==
    \A h \in Host : \A p \in Pid : WF_vars(GuardStep(h, p)) /\ WF_vars(DeadlinePasses(h, p))

Spec     == Init /\ [][Next]_vars
FairSpec == Spec /\ Fairness

--------------------------------------------------------------------------------
(* Safety. *)

(***************************************************************************)
(* The id a guard recorded for the container in the file: the guard's own  *)
(* target, none for the file of an earlier campaign.                       *)
(***************************************************************************)
Reported(h) == IF file[h].pid \in Pid THEN target[h][file[h].pid] ELSE NoId

(***************************************************************************)
(* A 'triggered' verdict that shows a stopped container is true for good:  *)
(* the container the guard killed is not running, whatever the launcher,   *)
(* docker or another campaign did since.  It fails if the verdict can be   *)
(* saved for a container the kill did not stop, or be about a container    *)
(* started later under the same name.                                      *)
(***************************************************************************)
TriggeredMeansStopped ==
    \A h \in Host :
        file[h].phase = "triggered" /\ ~file[h].up
        => ~(Running(h) /\ box[h].id = Reported(h))

(***************************************************************************)
(* The guard never stops somebody else's container, even one that took     *)
(* the name between its inspection and its kill ("Never kill a process or  *)
(* container based only on its name").                                     *)
(***************************************************************************)
ForeignUntouched ==
    [][\A h \in Host : Running(h) /\ ~box[h].own => box'[h] = box[h]]_vars

(***************************************************************************)
(* A guard's verdict is its last word: the file changes its phase again    *)
(* only when a later guard arms, or when the assertion turns a 'triggered' *)
(* that shows a container still up into an 'error'.                        *)
(***************************************************************************)
VerdictIsFinal ==
    [][\A h \in Host :
          file[h].phase \in Verdicts /\ file'[h].phase # file[h].phase
          => \/ file'[h].phase = "armed" /\ file'[h].pid > file[h].pid
             \/ file[h].up /\ file'[h].phase = "error"]_vars

--------------------------------------------------------------------------------
(* Liveness. *)

(***************************************************************************)
(* Every guard process ends by itself: forgotten by its controller, it     *)
(* meets its own deadline.                                                 *)
(***************************************************************************)
GuardEnds ==
    \A h \in Host : \A p \in Pid : gpc[h][p] = "boot" ~> gpc[h][p] = "ended"

(***************************************************************************)
(* Memory pressure under an armed guard gets the running container         *)
(* stopped, unless the pressure passes or the guard was told it is done,   *)
(* also where an earlier guard failed.  A guard whose docker calls fail,   *)
(* or that is killed itself, is best effort: nothing is said of it.        *)
(***************************************************************************)
PressureIsAnswered ==
    \A h \in Host : \A p \in Pid \ Flaky : \A i \in Id :
        (gpc[h][p] = "poll" /\ low[h] /\ RunningOwn(h) /\ box[h].id = i)
        ~> (~low[h] \/ done[h] \/ ~(Running(h) /\ box[h].id = i))
================================================================================
