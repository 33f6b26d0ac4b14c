------------------------------- MODULE Campaign --------------------------------
(***************************************************************************)
(* The guarded campaign of retry_text128.py: the controller of             *)
(* workflow.main, the launch_node.py processes it starts over ssh on both  *)
(* nodes, the guards of GuardArming, and the containers.                   *)
(*                                                                         *)
(* The controller arms both guards, then for each speculative depth stops  *)
(* the pair, launches it (last host first), waits until it serves, probes  *)
(* it and records a run; selects a winner, launches it again if another    *)
(* depth is running, reads everything back, and disarms.  A failure of a   *)
(* speculative trial is recorded; any other failure leads to the cleanup:  *)
(* stop the pair, disarm.  An ssh client that dies (a signal, a timeout)   *)
(* does not take the process on the node with it.                          *)
(***************************************************************************)
EXTENDS GuardArming, Sequences

CONSTANTS
    HostOrder,     \* HOSTS
    Arms,          \* the depths to measure: <<0, 7, 3>>, or <<7, 3>> on a resume
    Resumed,       \* --resume-baseline: a saved baseline is the first run
    MaxMishaps,    \* signals, failing ssh calls and troubles of a node, together (bound)
    Crashes,       \* the controller may be killed outright
    LongDeadline   \* guards outlive the campaign: 18000 s against 17400 s

ASSUME HostOrderAssumption ==
    /\ HostOrder \in Seq(Host) /\ Len(HostOrder) > 0
    /\ \A h \in Host : \E i \in 1..Len(HostOrder) : HostOrder[i] = h
ASSUME ArmsAssumption == Arms \in Seq(Nat) /\ Len(Arms) > 0
ASSUME FlagsAssumption == {Resumed, Crashes, LongDeadline} \subseteq BOOLEAN
ASSUME BoundsAssumption == MaxMishaps \in Nat

VARIABLES
    pc,         \* where the controller is
    at,         \* index of the host its loop is at
    seen,       \* guarded_inspect has read the guard of that host
    late,       \* launch's 30-minute deadline has passed
    trial,      \* index of the arm; one more is the relaunch of the winner
    runs,       \* the records of comparison.json
    winner,     \* the selected depth
    semantic,   \* semantic_checks_passed of the trial just probed
    outcome,    \* the final phase of text128-status.json
    signals,    \* signals delivered so far
    faults,     \* ssh failures so far
    troubles,   \* failures of guards, memory, containers and docker so far
    unstopped,  \* the hosts where docker failed the cleanup's stop (history)
    blind,      \* a guard had lapsed when the current launch began (history)
    job,        \* job[h][s]: a launch_node.py process on h
    served      \* served[h]: depth of the container last started on h

ctlVars == <<pc, at, seen, late, trial, runs, winner, semantic, outcome, blind>>
envVars == <<signals, faults, troubles, unstopped>>
jobVars == <<job, served>>
campaignVars == <<allVars, ctlVars, envVars, jobVars>>

N       == Len(HostOrder)
Here    == HostOrder[at]
NoDepth == 99
Depths  == {0, NoDepth} \union {Arms[i] : i \in 1..Len(Arms)}
Relaunching == trial > Len(Arms)
Depth   == IF Relaunching THEN winner ELSE Arms[trial]

(***************************************************************************)
(* Cur is the process the controller waits for, the others are those it    *)
(* left: it leaves at most one with each mishap, and one when it is killed.*)
(***************************************************************************)
Slot  == 0..MaxMishaps + 1
Cur   == 0
Stray == signals + faults + troubles + 1
Idle == [op |-> "none", step |-> "idle", depth |-> NoDepth]
Finished(j) == j.step \in {"ok", "bad"}
Active(j)   == j.op # "none" /\ ~Finished(j)

CtlPc == {"arm", "preflight", "next", "stop", "launch", "look", "poll", "api", "probe",
          "collect", "armfail", "readback", "sum", "fail", "failstop", "disarm", "end", "dead"}
Run == [depth : Depths, ok : BOOLEAN, sem : BOOLEAN]

CampaignTypeOK ==
    /\ ArmTypeOK
    /\ pc \in CtlPc /\ at \in 1..N
    /\ trial \in 1..Len(Arms) + 1
    /\ runs \in Seq(Run) /\ Len(runs) <= Len(Arms) + 1
    /\ winner \in Depths
    /\ {seen, late, semantic, blind} \subseteq BOOLEAN
    /\ outcome \in {"none", "complete", "failed_or_interrupted"}
    /\ {signals, faults, troubles} \subseteq Nat /\ signals + faults + troubles <= MaxMishaps
    /\ unstopped \subseteq Host
    /\ job \in [Host -> [Slot -> [op : {"none", "launch", "stop"},
                                  step : {"idle", "checks", "run", "report", "inspect",
                                          "stop", "rm", "ok", "bad"},
                                  depth : Depths]]]
    /\ served \in [Host -> Depths]

(* Nodes without leftovers: those are the subject of GuardArming.          *)
CampaignInit ==
    /\ ArmInit
    /\ \A h \in Host : box[h].st = "absent" /\ ~done[h] /\ file[h].phase = "absent"
    /\ pc = "arm" /\ at = 1 /\ seen = FALSE /\ late = FALSE
    /\ trial = 1 /\ runs = <<>> /\ winner = NoDepth /\ semantic = FALSE
    /\ outcome = "none" /\ signals = 0 /\ faults = 0 /\ troubles = 0 /\ unstopped = {}
    /\ blind = FALSE
    /\ job = [h \in Host |-> [s \in Slot |-> Idle]]
    /\ served = [h \in Host |-> NoDepth]

--------------------------------------------------------------------------------
(* launch_node.py on a node: a launch. *)

StepJob(h, s, step) == job' = [job EXCEPT ![h][s].step = step]

(***************************************************************************)
(* Download receipt, swappiness, no running container, no GPU process, a   *)
(* bindable port, the draft's config.  Any of them may fail.               *)
(***************************************************************************)
JobChecks(h, s) ==
    /\ job[h][s].step = "checks"
    /\ \/ ~Running(h) /\ StepJob(h, s, "run")
       \/ StepJob(h, s, "bad")
    /\ UNCHANGED <<box, served>>

(* docker run --name NAME fails if any container has that name.            *)
JobRuns(h, s) ==
    /\ job[h][s].step = "run"
    /\ \/ /\ BoxStarts(h, TRUE)
          /\ served' = [served EXCEPT ![h] = job[h][s].depth]
          /\ StepJob(h, s, "report")
       \/ StepJob(h, s, "bad") /\ UNCHANGED <<box, served>>

JobReports(h, s) ==
    /\ job[h][s].step = "report"
    /\ StepJob(h, s, IF box[h].st = "absent" THEN "bad" ELSE "ok")
    /\ UNCHANGED <<box, served>>

(* launch_node.py --stop: label check, docker stop, docker rm. *)
JobInspects(h, s) ==
    /\ job[h][s].step = "inspect"
    /\ StepJob(h, s, IF box[h].st = "absent" THEN "ok" ELSE IF box[h].own THEN "stop" ELSE "bad")
    /\ UNCHANGED <<box, served>>

JobStops(h, s) ==
    /\ job[h][s].step = "stop"
    /\ \/ BoxStops(h) /\ StepJob(h, s, "rm")
       \/ box[h].st = "exited" /\ StepJob(h, s, "rm") /\ UNCHANGED box
       \/ box[h].st = "absent" /\ StepJob(h, s, "bad") /\ UNCHANGED box
    /\ UNCHANGED served

JobRemoves(h, s) ==
    /\ job[h][s].step = "rm"
    /\ \/ BoxRemoved(h) /\ StepJob(h, s, "ok")
       \/ box[h].st # "exited" /\ StepJob(h, s, "bad") /\ UNCHANGED box
    /\ UNCHANGED served

(***************************************************************************)
(* docker itself fails, or is cut by a timeout: --stop takes an inspection *)
(* that fails for an absent container, and ends well; a stop, a removal, a *)
(* run or the inspection after it ends the process, with or without its    *)
(* effect.  stop_pair ignores the return code and the disarming follows.   *)
(***************************************************************************)
JobDockerFails(h, s) ==
    /\ \/ job[h][s].step = "inspect" /\ StepJob(h, s, "ok") /\ UNCHANGED <<box, served>>
       \/ /\ job[h][s].step \in {"stop", "rm", "run", "report"}
          /\ StepJob(h, s, "bad")
          /\ UNCHANGED <<box, served>>
       \/ job[h][s].step = "stop" /\ StepJob(h, s, "bad") /\ BoxStops(h) /\ UNCHANGED served
       \/ job[h][s].step = "rm" /\ StepJob(h, s, "bad") /\ BoxRemoved(h) /\ UNCHANGED served
       \/ /\ job[h][s].step = "run"
          /\ StepJob(h, s, "bad")
          /\ BoxStarts(h, TRUE)
          /\ served' = [served EXCEPT ![h] = job[h][s].depth]
    /\ unstopped' = IF pc = "failstop" /\ s = Cur THEN unstopped \union {h} ELSE unstopped

JobStep(h, s) ==
    /\ \/ JobChecks(h, s) \/ JobRuns(h, s) \/ JobReports(h, s)
       \/ JobInspects(h, s) \/ JobStops(h, s) \/ JobRemoves(h, s)
    /\ UNCHANGED <<guardVars, nodeVars, armVars, ctlVars, envVars>>

--------------------------------------------------------------------------------
(* The controller: loops, calls and exceptions. *)

Issue(op, step, depth) ==
    job' = [job EXCEPT ![Here][Cur] = [op |-> op, step |-> step, depth |-> depth]]
Reap == job' = [job EXCEPT ![Here][Cur] = Idle]

(* The process on the node that the controller stops waiting for.          *)
Abandon ==
    job' = IF Active(job[Here][Cur])
           THEN [job EXCEPT ![Here][Cur] = Idle, ![Here][Stray] = job[Here][Cur]]
           ELSE [job EXCEPT ![Here][Cur] = Idle]

GoTo(where, i) == pc' = where /\ at' = i /\ seen' = FALSE

(***************************************************************************)
(* An exception: the arm's handler inside main's try, the finally of the   *)
(* cleanup, or the handler of the whole campaign.                          *)
(***************************************************************************)
TryPc == {"launch", "look", "poll", "api", "probe", "collect"}
Handler ==
    IF pc \in TryPc /\ ~Relaunching THEN "armfail"
    ELSE IF pc = "failstop" THEN "disarm" ELSE "fail"
Raise == GoTo(Handler, 1)

Rest == <<late, trial, runs, winner, semantic, outcome, blind>>
NodeFrame == <<vars, armVars, served>>

(* Arming: prepare_guard on each host in turn. *)
BugArmHost ==                          \* faulty: goes on without waiting for the guard
    /\ pc = "arm"
    /\ \/ /\ ArmInspects(Here) \/ ArmChecksOld(Here) \/ ArmSpawns(Here) \/ ArmRecords(Here)
          /\ UNCHANGED <<pc, at, seen>>
       \/ ArmRaises(Here) /\ UNCHANGED <<pc, at, seen>>
       \/ /\ arm[Here] \in {"waiting", "held"}
          /\ IF at < N THEN GoTo("arm", at + 1) ELSE GoTo("preflight", 1)
          /\ UNCHANGED allVars
       \/ arm[Here] = "refused" /\ Raise /\ UNCHANGED allVars
    /\ UNCHANGED <<Rest, envVars, jobVars>>

ArmHost ==
    /\ pc = "arm"
    /\ \/ /\ ArmInspects(Here) \/ ArmChecksOld(Here) \/ ArmSpawns(Here)
             \/ ArmRecords(Here) \/ ArmSeesArmed(Here)
          /\ UNCHANGED <<pc, at, seen>>
       \/ ArmRaises(Here) /\ UNCHANGED <<pc, at, seen>>
       \/ /\ arm[Here] = "held"
          /\ IF at < N THEN GoTo("arm", at + 1) ELSE GoTo("preflight", 1)
          /\ UNCHANGED allVars
       \/ arm[Here] = "refused" /\ Raise /\ UNCHANGED allVars
    /\ UNCHANGED <<Rest, envVars, jobVars>>

(* wait_downloads(), preflight(), and the saved baseline of a resume.      *)
Preflight ==
    /\ pc = "preflight"
    /\ \/ /\ GoTo("next", 1)
          /\ \E b \in BOOLEAN :
                runs' = IF Resumed THEN <<[depth |-> 0, ok |-> TRUE, sem |-> b]>> ELSE <<>>
       \/ Raise /\ UNCHANGED runs
    /\ UNCHANGED <<late, trial, winner, semantic, outcome, blind, envVars, job, NodeFrame>>

(* The guard of h has saved a verdict, or no heartbeat for 20 seconds.     *)
Lapsed(h) == file[h].phase \in Verdicts \/ ~file[h].fresh
SomeGuardLapsed == \E h \in Host : Lapsed(h)

NextTrial ==
    /\ pc = "next"
    /\ ~Relaunching
    /\ IF runs # <<>>
       THEN GoTo("stop", 1) /\ UNCHANGED blind
       ELSE GoTo("launch", N) /\ blind' = SomeGuardLapsed
    /\ UNCHANGED <<late, trial, runs, winner, semantic, outcome, envVars, job, NodeFrame>>

(***************************************************************************)
(* The winner is one of the runs that passed the semantic checks (which    *)
(* one, Selection says), or the first run if none did.                     *)
(***************************************************************************)
Qualified == {i \in 1..Len(runs) : runs[i].ok /\ runs[i].sem}
Winners   == IF Qualified = {} THEN {1} ELSE Qualified

BugMustRelaunch(r) == FALSE            \* faulty: whatever runs is the winner
MustRelaunch(r) == r.depth # runs[Len(runs)].depth \/ ~runs[Len(runs)].ok

Select ==
    /\ pc = "next"
    /\ Relaunching
    /\ \E i \in Winners :
          /\ winner' = runs[i].depth
          /\ IF MustRelaunch(runs[i]) THEN GoTo("stop", 1) ELSE GoTo("readback", 1)
    /\ UNCHANGED <<late, trial, runs, semantic, outcome, blind, envVars, job, NodeFrame>>

(***************************************************************************)
(* stop_pair(): one host after the other, whatever the return codes; in    *)
(* the cleanup the disarming comes next, before a trial the launch.        *)
(***************************************************************************)
StopNext ==
    /\ IF at < N THEN GoTo(pc, at + 1)
       ELSE IF pc = "failstop" THEN GoTo("disarm", 1) ELSE GoTo("launch", N)
    /\ blind' = IF at = N /\ pc = "stop" THEN SomeGuardLapsed ELSE blind

StopPair ==
    /\ pc \in {"stop", "failstop"}
    /\ \/ /\ job[Here][Cur] = Idle
          /\ Issue("stop", "inspect", NoDepth)
          /\ UNCHANGED <<pc, at, seen, blind>>
       \/ /\ Finished(job[Here][Cur])
          /\ Reap
          /\ StopNext
    /\ UNCHANGED <<late, trial, runs, winner, semantic, outcome, envVars, NodeFrame>>

(* launch(): the processes are started from the last host to the first.    *)
BugLaunchHost ==                       \* faulty: check=False for the launcher
    /\ pc = "launch"
    /\ \/ /\ job[Here][Cur] = Idle
          /\ Issue("launch", "checks", Depth)
          /\ UNCHANGED <<pc, at, seen>>
       \/ Finished(job[Here][Cur]) /\ Reap /\ GoTo("look", at)
    /\ UNCHANGED <<Rest, envVars, NodeFrame>>

LaunchHost ==
    /\ pc = "launch"
    /\ \/ /\ job[Here][Cur] = Idle
          /\ Issue("launch", "checks", Depth)
          /\ UNCHANGED <<pc, at, seen>>
       \/ job[Here][Cur].step = "ok" /\ Reap /\ GoTo("look", at)
       \/ job[Here][Cur].step = "bad" /\ Reap /\ Raise
    /\ UNCHANGED <<Rest, envVars, NodeFrame>>

(***************************************************************************)
(* guarded_inspect(): the state of the guard, then the container.  (At the *)
(* summary the containers are asserted after the last of them is read: one *)
(* that is missing ends the campaign in either order.)                     *)
(***************************************************************************)
LookPc == {"look", "poll", "sum"}
BugGuardOk(h) == file[h].fresh         \* faulty: the phase is not asserted
GuardOk(h) == file[h].phase = "armed" /\ file[h].fresh

ReadsGuard ==
    /\ pc \in LookPc
    /\ ~seen
    /\ IF GuardOk(Here) THEN seen' = TRUE /\ UNCHANGED <<pc, at>> ELSE Raise
    /\ UNCHANGED <<Rest, envVars, job, NodeFrame>>

FindsNoBox ==
    /\ pc \in LookPc
    /\ seen
    /\ ~Running(Here)
    /\ Raise
    /\ UNCHANGED <<Rest, envVars, job, NodeFrame>>

FindsBox ==
    /\ pc \in LookPc
    /\ seen
    /\ Running(Here)
    /\ \/ pc = "look" /\ at > 1 /\ GoTo("launch", at - 1) /\ UNCHANGED <<late, outcome>>
       \/ pc = "look" /\ at = 1 /\ GoTo("poll", 1) /\ late' = FALSE /\ UNCHANGED outcome
       \/ pc # "look" /\ at < N /\ GoTo(pc, at + 1) /\ UNCHANGED <<late, outcome>>
       \/ pc = "poll" /\ at = N /\ GoTo("api", 1) /\ UNCHANGED <<late, outcome>>
       \/ pc = "sum" /\ at = N /\ GoTo("disarm", 1) /\ outcome' = "complete" /\ UNCHANGED late
    /\ UNCHANGED <<trial, runs, winner, semantic, blind, envVars, job, NodeFrame>>

(* /v1/models answers, or not yet: until the startup deadline.             *)
BugAsksApi ==                          \* faulty: no startup deadline
    /\ pc = "api"
    /\ \/ Running(HostOrder[1]) /\ GoTo("probe", 1)
       \/ GoTo("poll", 1)
    /\ UNCHANGED <<Rest, envVars, job, NodeFrame>>

AsksApi ==
    /\ pc = "api"
    /\ \/ Running(HostOrder[1]) /\ GoTo("probe", 1)
       \/ ~late /\ GoTo("poll", 1)
       \/ late /\ Raise
    /\ UNCHANGED <<Rest, envVars, job, NodeFrame>>

StartupDeadline ==
    /\ pc \in {"poll", "api"}
    /\ ~late
    /\ late' = TRUE
    /\ UNCHANGED <<pc, at, seen, trial, runs, winner, semantic, outcome, blind,
                   envVars, job, NodeFrame>>

(* Throughput, context and quality probes; final-health after a relaunch.  *)
Probes ==
    /\ pc = "probe"
    /\ \/ /\ \A h \in Host : Running(h)
          /\ IF Relaunching THEN GoTo("readback", 1) /\ UNCHANGED semantic
             ELSE GoTo("collect", 1) /\ semantic' \in BOOLEAN
       \/ Raise /\ UNCHANGED semantic
    /\ UNCHANGED <<late, trial, runs, winner, outcome, blind, envVars, job, NodeFrame>>

(* The summary: the models of the other endpoint, ours, and /health.       *)
ReadsBack ==
    /\ pc = "readback"
    /\ (Running(HostOrder[1]) /\ GoTo("sum", 1)) \/ Raise
    /\ UNCHANGED <<Rest, envVars, job, NodeFrame>>

AddRun(ok, sem) ==
    /\ runs' = Append(runs, [depth |-> Depth, ok |-> ok, sem |-> sem])
    /\ trial' = trial + 1
    /\ semantic' = FALSE
    /\ GoTo("next", 1)

(* collect(), the speculative counters, and the record of a passed trial.  *)
Records ==
    /\ pc = "collect"
    /\ \/ AddRun(TRUE, semantic)
       \/ Raise /\ UNCHANGED <<runs, trial, semantic>>
    /\ UNCHANGED <<late, winner, outcome, blind, envVars, job, NodeFrame>>

(* The arm's handler: only the baseline's failure is raised again.         *)
RecordsFailure ==
    /\ pc = "armfail"
    /\ IF Depth = 0 THEN Raise /\ UNCHANGED <<runs, trial, semantic>> ELSE AddRun(FALSE, FALSE)
    /\ UNCHANGED <<late, winner, outcome, blind, envVars, job, NodeFrame>>

(* The campaign's handler: status, collect, then stop_pair and disarm.     *)
BugFails ==                            \* faulty: the guards go before the containers
    /\ pc = "fail"
    /\ outcome' = "failed_or_interrupted"
    /\ GoTo("disarm", 1)
    /\ UNCHANGED <<late, trial, runs, winner, semantic, blind, envVars, job, NodeFrame>>

Fails ==
    /\ pc = "fail"
    /\ outcome' = "failed_or_interrupted"
    /\ GoTo("failstop", 1)
    /\ UNCHANGED <<late, trial, runs, winner, semantic, blind, envVars, job, NodeFrame>>

DisarmNext == IF at < N THEN GoTo("disarm", at + 1) ELSE GoTo("end", 1)

BugDisarms ==                          \* faulty: also where no guard was started
    /\ pc = "disarm"
    /\ done' = [done EXCEPT ![Here] = TRUE]
    /\ DisarmNext
    /\ UNCHANGED <<guardVars, overdue, low, box, armVars, Rest, envVars, jobVars>>

Disarms ==
    /\ pc = "disarm"
    /\ \/ DisarmTouches(Here)
       \/ ~armed[Here] /\ UNCHANGED allVars
    /\ DisarmNext
    /\ UNCHANGED <<Rest, envVars, jobVars>>

Controller ==
    \/ ArmHost \/ Preflight \/ NextTrial \/ Select \/ StopPair \/ LaunchHost
    \/ ReadsGuard \/ FindsNoBox \/ FindsBox \/ AsksApi \/ Probes \/ ReadsBack \/ Records
    \/ RecordsFailure \/ Fails \/ Disarms

--------------------------------------------------------------------------------
(* Signals, ssh and crashes. *)

Mishap == signals + faults + troubles < MaxMishaps

(***************************************************************************)
(* interrupted() raises an InterruptedError, an OSError, wherever the      *)
(* controller is: launch's wait for the API and collect swallow it, and    *)
(* so does the try of each host in disarm.                                 *)
(***************************************************************************)
Signal ==
    /\ Mishap
    /\ pc \notin {"end", "dead"}
    /\ signals' = signals + 1
    /\ \/ /\ pc \in {"api", "collect", "armfail", "fail"}
          /\ UNCHANGED <<pc, at, seen, arm, job>>
       \/ pc = "disarm" /\ DisarmNext /\ UNCHANGED <<arm, job>>
       \/ pc \in {"fail", "disarm"} /\ GoTo("dead", 1) /\ UNCHANGED <<arm, job>>
       \/ /\ pc = "arm"
          /\ arm' = [arm EXCEPT ![Here] = IF @ = "held" THEN @ ELSE "refused"]
          /\ Raise /\ UNCHANGED job
       \/ /\ pc \notin {"arm", "fail", "disarm"}
          /\ Raise /\ Abandon /\ UNCHANGED arm
    /\ UNCHANGED <<vars, launched, armed, campaigns, released, Rest, faults, troubles, unstopped,
                   served>>

(***************************************************************************)
(* ssh: a call that cannot connect (code 255: ignored by stop_pair, raised *)
(* or swallowed elsewhere), or a client that times out while the process   *)
(* on the node goes on (TimeoutExpired: raised in stop_pair too).          *)
(***************************************************************************)
SshFails ==
    /\ Mishap
    /\ faults' = faults + 1
    /\ \/ /\ pc \in {"stop", "failstop"} /\ job[Here][Cur] = Idle
          /\ StopNext /\ UNCHANGED job
       \/ /\ pc \in {"stop", "failstop", "launch"} /\ Active(job[Here][Cur])
          /\ Raise /\ Abandon /\ UNCHANGED blind
       \/ /\ (pc = "launch" /\ job[Here][Cur] = Idle) \/ pc \in LookPc
          /\ Raise /\ UNCHANGED <<job, blind>>
       \/ pc = "disarm" /\ DisarmNext /\ UNCHANGED <<job, blind>>
    /\ UNCHANGED <<late, trial, runs, winner, semantic, outcome, signals, troubles,
                   unstopped, NodeFrame>>

(* SIGKILL or power: nothing is cleaned up.                                *)
Crash ==
    /\ Crashes
    /\ pc \notin {"end", "dead"}
    /\ GoTo("dead", 1)
    /\ Abandon
    /\ UNCHANGED <<Rest, envVars, NodeFrame>>

(* The nodes: guards, memory, and containers that exit by themselves.      *)
JobsQuiet == \A h \in Host, s \in Slot : ~Active(job[h][s])
NodeMove(h) ==
    /\ \/ \E p \in Pid :
             \/ GuardStep(h, p)
             \/ (LongDeadline => pc \in {"end", "dead"} /\ JobsQuiet) /\ DeadlinePasses(h, p)
       \/ HeartbeatAges(h)
       \/ MemoryRecovers(h)
    /\ UNCHANGED <<armVars, ctlVars, envVars, jobVars>>

NodeTrouble(h) ==
    /\ Mishap
    /\ troubles' = troubles + 1
    /\ \/ \E p \in Pid : GuardFault(h, p)
       \/ BoxExits(h) /\ UNCHANGED <<guardVars, nodeVars>>
       \/ MemoryDrops(h)
    /\ UNCHANGED <<armVars, ctlVars, signals, faults, unstopped, jobVars>>

(* docker fails a launch_node.py process, or inspect(): it returns None.   *)
DockerTrouble(h) ==
    /\ Mishap
    /\ troubles' = troubles + 1
    /\ \/ \E s \in Slot : JobDockerFails(h, s) /\ UNCHANGED <<pc, at, seen>>
       \/ h = Here /\ pc \in LookPc /\ seen /\ Raise /\ UNCHANGED <<job, box, served, unstopped>>
    /\ UNCHANGED <<guardVars, nodeVars, armVars, Rest, signals, faults>>

CampaignNext ==
    \/ Controller \/ Signal \/ SshFails \/ Crash \/ StartupDeadline
    \/ \E h \in Host :
          NodeMove(h) \/ NodeTrouble(h) \/ DockerTrouble(h) \/ \E s \in Slot : JobStep(h, s)

(***************************************************************************)
(* The controller and the processes on the nodes keep running, and time    *)
(* passes; no call, probe or download is owed a success.                   *)
(***************************************************************************)
CampaignFairness ==
    /\ WF_campaignVars(Controller)
    /\ WF_campaignVars(StartupDeadline)
    /\ \A h \in Host :
          /\ \A s \in Slot : WF_campaignVars(JobStep(h, s))
          /\ WF_campaignVars(NodeMove(h) /\ \E p \in Pid : GuardStep(h, p))
          /\ WF_campaignVars(NodeMove(h) /\ \E p \in Pid : DeadlinePasses(h, p))

CampaignSpec == CampaignInit /\ [][CampaignNext]_campaignVars
FairCampaign == CampaignSpec /\ CampaignFairness

--------------------------------------------------------------------------------
(* Safety. *)

Measuring == pc \in {"probe", "collect"} /\ ~Relaunching

(***************************************************************************)
(* What is measured under a depth is a pair serving that depth: no node    *)
(* still runs the container of an earlier trial, or one that a launcher    *)
(* left behind by an interrupted trial started in the meantime.            *)
(***************************************************************************)
MeasuredPairIsTheTrial ==
    Measuring => \A h \in Host : Running(h) => served[h] = Depth

(***************************************************************************)
(* A campaign reported complete leaves the winner on both nodes, unless a  *)
(* container stopped since.                                                *)
(***************************************************************************)
CompleteServesWinner ==
    outcome = "complete" => \A h \in Host : Running(h) => served[h] = winner

(***************************************************************************)
(* A trial whose launch began when a guard had saved a verdict, or had not *)
(* saved its heartbeat for 20 seconds, is never measured, selected into    *)
(* the summary, or reported complete: it does not survive guarded_inspect. *)
(* (A guard that was killed is trusted until its heartbeat is 20 seconds   *)
(* old, and what is measured meanwhile is measured.  A guard that stalls   *)
(* and goes on may lapse and recover: checked without stalls.)             *)
(***************************************************************************)
BlindTrialIsNotMeasured ==
    blind => pc \notin {"api", "probe", "collect"} /\ outcome # "complete"

(***************************************************************************)
(* When the cleanup of a failed campaign has run its course nothing of     *)
(* ours runs on either node, provided that ssh worked and no signal cut    *)
(* a launch short (see SignalCleansUp), except on a node where docker      *)
(* failed that very cleanup: stop_pair ignores the return code of --stop,  *)
(* which is 0 where the inspection fails, and the disarming follows.       *)
(***************************************************************************)
CleanupStops ==
    pc = "end" /\ outcome = "failed_or_interrupted" /\ signals + faults = 0 =>
        \A h \in Host \ unstopped : ~RunningOwn(h)

(***************************************************************************)
(* A controller that dies without having finished its cleanup (killed, or  *)
(* by a signal in the handler itself) leaves its guards at work where a    *)
(* container of its own is still up: guards are released after the         *)
(* containers are stopped.  Its death is the only interruption (for a      *)
(* launcher that an earlier one left behind see SignalCleansUp), and the   *)
(* node is not one where docker failed the cleanup's stop: its guard is    *)
(* released all the same.                                                  *)
(***************************************************************************)
OneInterruption == signals + faults = 0 \/ (~Crashes /\ signals + faults = 1)

DeadLeavesGuards ==
    pc = "dead" /\ outcome # "complete" /\ OneInterruption =>
        \A h \in Host \ unstopped : RunningOwn(h) => ~done[h]

(***************************************************************************)
(* The campaign starts one guard per node, and a node with a container of  *)
(* ours has a guard, dead or alive, that the campaign knows of and will    *)
(* disarm: no container precedes its guard's first heartbeat.              *)
(***************************************************************************)
ContainersFollowGuards ==
    \A h \in Host : box[h].st # "absent" => \A g \in Host : arm[g] \in {"held", "touched"}

(***************************************************************************)
(* The campaign uses guards, markers and containers only as GuardArming    *)
(* says, so that what holds there of successive campaigns holds of this    *)
(* one among them: whatever fails, it never touches the done marker of a   *)
(* guard it did not start, nor starts two on a node.                       *)
(***************************************************************************)
ArmingIsRespected == ArmSpec

--------------------------------------------------------------------------------
(* What the documentation and the comments say, and the code does not do.  *)

(***************************************************************************)
(* "a global deadline, and signal-triggered scoped cleanup" (EXPERIMENT.md *)
(* line 88): a campaign that got a signal does not go on to completion.    *)
(***************************************************************************)
SignalEndsCampaign == signals > 0 => outcome # "complete"

(***************************************************************************)
(* The same sentence: after the cleanup that a signal triggers, nothing of *)
(* ours runs unguarded.                                                    *)
(***************************************************************************)
SignalCleansUp ==
    pc = "end" /\ signals > 0 /\ outcome = "failed_or_interrupted" /\ JobsQuiet
        => \A h \in Host : RunningOwn(h) => \E p \in Pid : gpc[h][p] \in WatchPc

--------------------------------------------------------------------------------
(* Liveness. *)

(* Every campaign ends, whatever fails: all waits have deadlines.          *)
CampaignEnds == <>(pc \in {"end", "dead"})

(***************************************************************************)
(* If the controller dies before it reports completion, the guards stop    *)
(* what it left running: they meet their own deadline.  Checked without    *)
(* guard faults.  (Dying between the two disarms of a complete campaign    *)
(* leaves one node serving and the other with a guard that will stop it.)  *)
(***************************************************************************)
CrashedPairIsStopped ==
    [](pc = "dead" /\ outcome # "complete" => <>(\A h \in Host : ~RunningOwn(h)))
================================================================================
