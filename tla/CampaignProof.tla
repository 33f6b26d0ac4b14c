----------------------------- MODULE CampaignProof ------------------------------
(***************************************************************************)
(* One campaign, for every number of nodes, trials, guards and mishaps,    *)
(* and whatever docker answers: it uses the guards as GuardArming allows,  *)
(* what it measures and announces is what runs, a trial launched behind a  *)
(* guard that had lapsed is not measured, and its cleanup comes before the *)
(* guards are released: it clears every node where docker does not fail    *)
(* its stop.                                                               *)
(*                                                                         *)
(* The invariant is built in layers, each kept by every step under those   *)
(* before it: the types; what the nodes know of their guards; where the    *)
(* controller can be with them; where processes can be left; and on these  *)
(* what the trial, the verdicts and the cleanup rely on.                   *)
(***************************************************************************)
EXTENDS Campaign, GuardProof

Body    == {"preflight", "next", "stop", "launch", "look", "poll", "api", "probe",
            "collect", "armfail", "readback", "sum"}
Cleanup == {"fail", "failstop", "disarm", "end", "dead"}

(***************************************************************************)
(* What a failing docker does: to a process on a node, which then makes    *)
(* one of two kinds of step, or to guarded_inspect.                        *)
(***************************************************************************)
JobDocker(h, s) ==
    /\ JobDockerFails(h, s)
    /\ Mishap /\ troubles' = troubles + 1
    /\ UNCHANGED <<guardVars, nodeVars, armVars, ctlVars, signals, faults>>

JobMoves(h, s) == JobStep(h, s) \/ JobDocker(h, s)

DockerLook ==
    /\ pc \in LookPc /\ Raise
    /\ Mishap /\ troubles' = troubles + 1
    /\ UNCHANGED <<vars, armVars, jobVars, Rest, signals, faults, unstopped>>

LEMMA DockerSplits ==
    ASSUME NEW h \in Host, DockerTrouble(h)
    PROVE  (\E s \in Slot : JobDocker(h, s)) \/ DockerLook
<1>1. CASE \E s \in Slot : JobDockerFails(h, s) /\ UNCHANGED <<pc, at, seen>>
  BY <1>1 DEF DockerTrouble, JobDocker, ctlVars, Rest
<1>2. CASE pc \in LookPc /\ Raise /\ UNCHANGED <<job, box, served, unstopped>>
  BY <1>2 DEF DockerTrouble, DockerLook, vars, guardVars, nodeVars, jobVars
<1> QED
  BY <1>1, <1>2 DEF DockerTrouble

LEMMA NextSplits ==
    ASSUME [CampaignNext]_campaignVars
    PROVE  \/ Controller \/ Signal \/ SshFails \/ Crash \/ StartupDeadline \/ DockerLook
           \/ \E h \in Host :
                 NodeMove(h) \/ NodeTrouble(h) \/ \E s \in Slot : JobMoves(h, s)
           \/ UNCHANGED campaignVars
  BY DockerSplits DEF CampaignNext, JobMoves

LaunchSteps == {"checks", "run", "report"}
StopSteps   == {"inspect", "stop", "rm"}

(***************************************************************************)
(* A node sees one guard at most, started after `checked`, and every       *)
(* container is the campaign's own.                                        *)
(***************************************************************************)
NodeKnows(h) ==
    /\ arm[h] \in {"out", "clear", "checked"} => \A p \in Pid : gpc[h][p] = "none"
    /\ \A p, q \in Pid : gpc[h][p] # "none" /\ gpc[h][q] # "none" => p = q
    /\ arm[h] \in {"spawned", "waiting"} => launched[h] \in Pid
    /\ armed[h] => launched[h] # NoPid
    /\ arm[h] = "held" => \E p \in Pid : gpc[h][p] \notin {"none", "boot"}

Owned == \A h \in Host : box[h].own

(* Where the controller is tells how far it is with the guards.            *)
Guarded == \A h \in Host : arm[h] \in {"held", "touched"}

GuardsPlaced ==
    /\ pc = "arm" => \A i \in 1..N : i < at => arm[HostOrder[i]] = "held"
    /\ pc \in Body => \A h \in Host : arm[h] = "held"
    /\ pc \notin {"disarm", "end", "dead"} => \A h \in Host : arm[h] # "touched" /\ ~done[h]
    /\ \/ Guarded
       \/ \A h \in Host : /\ box[h].st = "absent"
                          /\ \A s \in Slot : job[h][s].step \notin LaunchSteps

(* A trial adds a run; the saved baseline is one more.                     *)
RunsCounted ==
    /\ trial - 1 <= Len(runs) /\ Len(runs) <= trial
    /\ pc \in {"arm", "preflight"} => trial = 1
    /\ pc \in {"collect", "armfail"} => ~Relaunching

(***************************************************************************)
(* The controller waits for one process, on the host it is at; a process   *)
(* that stops containers outlives the controller's wait only if the        *)
(* campaign is already in its cleanup.                                     *)
(***************************************************************************)
JobShape(j) == j = Idle \/ (j.op # "none" /\ j.step # "idle")

Awaited(h) ==
    \/ job[h][Cur] = Idle
    \/ /\ h = Here
       /\ \/ pc = "launch" /\ job[h][Cur].step \notin StopSteps /\ job[h][Cur].depth = Depth
          \/ pc \in {"stop", "failstop"} /\ job[h][Cur].step \notin LaunchSteps

JobsPlaced ==
    /\ \A h \in Host : Awaited(h)
    /\ \A h \in Host, s \in Slot :
          /\ JobShape(job[h][s])
          /\ job[h][s].step \in StopSteps => pc \in Cleanup \/ (s = Cur /\ pc = "stop")

(* A guard whose heartbeat is stale is not polling, unless guards stall.   *)
NoStalls == "stall" \notin GuardFaults

HeartKnows ==
    NoStalls => \A h \in Host : ~file[h].fresh => \A p \in Pid : gpc[h][p] # "poll"

(* A guard that had lapsed before the launch is found out on the way.      *)
BlindKnows ==
    NoStalls /\ blind =>
        /\ pc \notin {"arm", "poll", "api", "probe", "collect"} /\ outcome # "complete"
        /\ pc \in Body => \E h \in Host : Lapsed(h)
        /\ pc = "launch" => \E i \in 1..N : i <= at /\ Lapsed(HostOrder[i])
        /\ pc = "look" => \E i \in 1..N : i <= at /\ (seen => i < at) /\ Lapsed(HostOrder[i])
        /\ pc = "sum" => \E i \in 1..N : i >= at /\ (seen => i > at) /\ Lapsed(HostOrder[i])

(***************************************************************************)
(* The containers of the trial: those on the hosts the launch has passed,  *)
(* all of them once it is through, and those of the last run until the     *)
(* next stop_pair().  Up or exited: nobody removes one meanwhile, so that  *)
(* no process left behind can start another in its place.                  *)
(***************************************************************************)
Placed(h, d) == box[h].st # "absent" /\ served[h] = d

TrialServes ==
    /\ pc = "launch" =>
          /\ job[Here][Cur].step \in {"report", "ok"} => Placed(Here, Depth)
          /\ \A i \in 1..N : i > at => Placed(HostOrder[i], Depth)
    /\ pc = "look" => \A i \in 1..N : i >= at => Placed(HostOrder[i], Depth)
    /\ pc \in {"poll", "api", "probe", "collect"} => \A h \in Host : Placed(h, Depth)
    /\ pc = "next" /\ trial > 1 /\ runs[Len(runs)].ok =>
          \A h \in Host : Placed(h, runs[Len(runs)].depth)
    /\ pc \in {"readback", "sum"} => \A h \in Host : Placed(h, winner)
    /\ outcome = "complete" =>
          /\ pc \in {"disarm", "end", "dead"}
          /\ \A h \in Host, s \in Slot : job[h][s].step \notin StopSteps
          /\ \A h \in Host : Placed(h, winner)

(***************************************************************************)
(* Without an interruption no process is left behind, and the cleanup      *)
(* takes the pair down, one host after the other, but where docker failed. *)
(***************************************************************************)
OutcomeKnown ==
    /\ pc = "failstop" => outcome = "failed_or_interrupted"
    /\ pc \in {"disarm", "end"} => outcome # "none"

StraysIdle ==
    signals + faults = 0 /\ pc # "dead" =>
        \A h \in Host, s \in Slot : s # Cur => job[h][s] = Idle

Cleared(h) == h \in unstopped \/ ~Running(h)

PairDown ==
    signals + faults = 0 =>
        /\ pc = "failstop" =>
              /\ \A i \in 1..N : i < at => Cleared(HostOrder[i])
              /\ job[Here][Cur].step \in {"rm", "ok", "bad"} => Cleared(Here)
        /\ pc \in {"disarm", "end"} /\ outcome = "failed_or_interrupted" =>
              \A h \in Host : Cleared(h)

CleanupClears == OutcomeKnown /\ StraysIdle /\ PairDown

(* Death finds the guards at work, or the nodes cleared.                   *)
DeathKnows ==
    pc = "dead" /\ outcome # "complete" /\ OneInterruption =>
        \/ \A h \in Host : ~done[h]
        \/ \A h \in Host : /\ Cleared(h)
                           /\ \A s \in Slot : job[h][s].step \notin LaunchSteps

CampaignInv ==
    /\ CampaignTypeOK
    /\ GuardInv
    /\ \A h \in Host : NodeKnows(h)
    /\ Owned
    /\ GuardsPlaced
    /\ RunsCounted
    /\ JobsPlaced
    /\ HeartKnows
    /\ BlindKnows
    /\ TrialServes
    /\ CleanupClears
    /\ DeathKnows


--------------------------------------------------------------------------------
(* The types. *)

Job == [op : {"none", "launch", "stop"},
        step : {"idle", "checks", "run", "report", "inspect", "stop", "rm", "ok", "bad"},
        depth : Depths]

ControlTypes ==
    /\ pc \in CtlPc /\ at \in 1..N
    /\ trial \in 1..Len(Arms) + 1
    /\ runs \in Seq(Run) /\ Len(runs) <= Len(Arms) + 1
    /\ winner \in Depths
    /\ outcome \in {"none", "complete", "failed_or_interrupted"}

FlagTypes   == {seen, late, semantic, blind} \subseteq BOOLEAN
MishapTypes ==
    /\ {signals, faults, troubles} \subseteq Nat /\ signals + faults + troubles <= MaxMishaps
    /\ unstopped \subseteq Host
JobTypes    == job \in [Host -> [Slot -> Job]] /\ served \in [Host -> Depths]

LEMMA TypeParts ==
    CampaignTypeOK <=> ArmTypeOK /\ ControlTypes /\ FlagTypes /\ MishapTypes /\ JobTypes
  BY DEF CampaignTypeOK, ControlTypes, FlagTypes, MishapTypes, JobTypes, Job

LEMMA TypePartsNext ==
    CampaignTypeOK' <=> ArmTypeOK' /\ ControlTypes' /\ FlagTypes' /\ MishapTypes' /\ JobTypes'
  BY DEF CampaignTypeOK, ControlTypes, FlagTypes, MishapTypes, JobTypes, Job

LEMMA HostFact ==
    /\ N \in Nat \ {0}
    /\ \A i \in 1..N : HostOrder[i] \in Host
    /\ \A h \in Host : \E i \in 1..N : HostOrder[i] = h
  BY HostOrderAssumption DEF N

LEMMA HereFact == ASSUME ControlTypes PROVE Here \in Host
  BY HostFact DEF ControlTypes, Here

LEMMA DepthFact == ASSUME ControlTypes PROVE Depth \in Depths
<1>1. \A i \in 1..Len(Arms) : Arms[i] \in Depths
  BY DEF Depths
<1>2. Len(Arms) \in Nat
  BY ArmsAssumption
<1> QED
  BY <1>1, <1>2 DEF ControlTypes, Depth, Relaunching

LEMMA SlotFact == Cur \in Slot /\ Slot \subseteq Nat
  BY BoundsAssumption DEF Cur, Slot

LEMMA StrayFact ==
    ASSUME MishapTypes
    PROVE  Stray \in Slot \ {Cur}
  BY BoundsAssumption DEF MishapTypes, Stray, Slot, Cur

LEMMA IdleFact ==
    /\ Idle \in Job /\ Idle.step = "idle" /\ Idle.op = "none"
    /\ ~Active(Idle) /\ ~Finished(Idle)
  BY DEF Idle, Job, Depths, Active, Finished

(* One process of one host changes.                                        *)
LEMMA SetJobFact ==
    ASSUME JobTypes, NEW h \in Host, NEW s \in Slot, NEW j \in Job,
           job' = [job EXCEPT ![h][s] = j]
    PROVE  /\ job' \in [Host -> [Slot -> Job]]
           /\ \A g \in Host : \A r \in Slot :
                  job'[g][r] = IF g = h /\ r = s THEN j ELSE job[g][r]
<1>1. [job[h] EXCEPT ![s] = j] \in [Slot -> Job]
  BY DEF JobTypes
<1>2. job' = [job EXCEPT ![h] = [job[h] EXCEPT ![s] = j]]
  OBVIOUS
<1> HIDE DEF Job
<1> QED
  BY <1>1, <1>2 DEF JobTypes

LEMMA StepJobFact ==
    ASSUME JobTypes, NEW h \in Host, NEW s \in Slot,
           NEW step \in {"run", "report", "stop", "rm", "ok", "bad"}, StepJob(h, s, step)
    PROVE  /\ job' \in [Host -> [Slot -> Job]]
           /\ \A g \in Host : \A r \in Slot : ~(g = h /\ r = s) => job'[g][r] = job[g][r]
           /\ job'[h][s].step = step
           /\ job'[h][s].op = job[h][s].op
           /\ job'[h][s].depth = job[h][s].depth
<1>1. job[h][s] \in Job
  BY DEF JobTypes
<1> DEFINE j == [job[h][s] EXCEPT !.step = step]
<1>2. j \in Job /\ j.step = step /\ j.op = job[h][s].op /\ j.depth = job[h][s].depth
  BY <1>1 DEF Job
<1>3. job' = [job EXCEPT ![h][s] = j]
  BY DEF StepJob
<1> HIDE DEF j
<1>4. /\ job' \in [Host -> [Slot -> Job]]
      /\ \A g \in Host : \A r \in Slot :
             job'[g][r] = IF g = h /\ r = s THEN j ELSE job[g][r]
  BY <1>2, <1>3, SetJobFact
<1> QED
  BY <1>2, <1>4

LEMMA ReapFact ==
    ASSUME JobTypes, ControlTypes, Reap
    PROVE  /\ job' \in [Host -> [Slot -> Job]]
           /\ \A g \in Host : \A r \in Slot :
                  job'[g][r] = IF g = Here /\ r = Cur THEN Idle ELSE job[g][r]
  BY HereFact, SlotFact, IdleFact, SetJobFact DEF Reap

LEMMA CurJobFact ==
    ASSUME JobTypes, ControlTypes, NEW j \in Job, job' = [job EXCEPT ![Here][Cur] = j]
    PROVE  /\ job' \in [Host -> [Slot -> Job]]
           /\ \A g \in Host : \A r \in Slot :
                  ~(g = Here /\ r = Cur) => job'[g][r] = job[g][r]
           /\ job'[Here][Cur] = j
<1>1. /\ job' \in [Host -> [Slot -> Job]]
      /\ \A g \in Host : \A r \in Slot :
             job'[g][r] = IF g = Here /\ r = Cur THEN j ELSE job[g][r]
  BY HereFact, SlotFact, SetJobFact
<1> QED
  BY <1>1, HereFact, SlotFact

LEMMA IssueFact ==
    ASSUME JobTypes, ControlTypes, NEW op \in {"launch", "stop"},
           NEW step \in {"checks", "inspect"}, NEW d \in Depths, Issue(op, step, d)
    PROVE  /\ job' \in [Host -> [Slot -> Job]]
           /\ \A g \in Host : \A r \in Slot :
                  ~(g = Here /\ r = Cur) => job'[g][r] = job[g][r]
           /\ job'[Here][Cur] = [op |-> op, step |-> step, depth |-> d]
<1>1. [op |-> op, step |-> step, depth |-> d] \in Job
  BY DEF Job
<1> QED
  BY <1>1, CurJobFact DEF Issue

(* The process the controller leaves moves aside, the place it left is free.*)
LEMMA AbandonFact ==
    ASSUME JobTypes, ControlTypes, MishapTypes, Abandon
    PROVE  /\ job' \in [Host -> [Slot -> Job]]
           /\ \A g \in Host : \A r \in Slot :
                  job'[g][r] = IF g = Here /\ r = Cur THEN Idle
                               ELSE IF g = Here /\ r = Stray /\ Active(job[Here][Cur])
                                    THEN job[Here][Cur] ELSE job[g][r]
<1>0. Here \in Host /\ Cur \in Slot /\ Stray \in Slot \ {Cur}
  BY HereFact, SlotFact, StrayFact
<1> DEFINE h == Here
           x == Stray
<1>1. Idle \in Job /\ job[h][Cur] \in Job /\ job[h] \in [Slot -> Job]
  BY <1>0, IdleFact DEF JobTypes
<1>2. CASE Active(job[h][Cur])
  <2>1. job' = [job EXCEPT ![h] = [[job[h] EXCEPT ![Cur] = Idle] EXCEPT ![x] = job[h][Cur]]]
    BY <1>0, <1>2 DEF Abandon, JobTypes
  <2>2. [[job[h] EXCEPT ![Cur] = Idle] EXCEPT ![x] = job[h][Cur]] \in [Slot -> Job]
    BY <1>1
  <2> HIDE DEF h, x
  <2>3. /\ job' \in [Host -> [Slot -> Job]]
        /\ job'[h] = [[job[h] EXCEPT ![Cur] = Idle] EXCEPT ![x] = job[h][Cur]]
        /\ \A g \in Host : g # h => job'[g] = job[g]
    BY <1>0, <2>1, <2>2 DEF JobTypes, h
  <2>4. \A r \in Slot : job'[h][r] = IF r = Cur THEN Idle ELSE IF r = x THEN job[h][Cur] ELSE job[h][r]
    BY <1>0, <1>1, <2>3 DEF x
  <2> QED
    BY <1>2, <2>3, <2>4 DEF h, x
<1>3. CASE ~Active(job[h][Cur])
  <2>1. Reap
    BY <1>3 DEF Abandon, Reap
  <2> QED
    BY <1>3, <2>1, ReapFact
<1> QED
  BY <1>2, <1>3

--------------------------------------------------------------------------------
(***************************************************************************)
(* The control: from where to where a step may go.  Nothing leads back     *)
(* from the cleanup, nor to the arming.                                    *)
(***************************************************************************)
Ways ==
    /\ pc' \in CtlPc /\ at' \in 1..N
    /\ outcome' \in {"none", "complete", "failed_or_interrupted"}
    /\ pc' = "arm" => pc = "arm"
    /\ pc' = "preflight" => pc \in {"arm", "preflight"}
    /\ pc' = "collect" => pc = "collect" \/ (pc = "probe" /\ ~Relaunching)
    /\ pc' = "armfail" => pc = "armfail" \/ (pc \in TryPc /\ ~Relaunching)
    /\ pc' \in Body => pc \in Body \union {"arm"}
    /\ pc' \notin {"disarm", "end", "dead"} => pc \notin {"disarm", "end", "dead"}
    /\ pc \in Cleanup => pc' \in Cleanup
    /\ pc' = "stop" => pc \in {"stop", "next"}

LEMMA RaiseFact ==
    ASSUME Raise
    PROVE  /\ at' = 1 /\ seen' = FALSE
           /\ pc \in TryPc /\ ~Relaunching => pc' = "armfail"
           /\ ~(pc \in TryPc /\ ~Relaunching) =>
                 pc' = IF pc = "failstop" THEN "disarm" ELSE "fail"
  BY DEF Raise, GoTo, Handler

LEMMA CtlPcFact ==
    CtlPc = {"arm"} \union Body \union Cleanup
  BY DEF CtlPc, Body, Cleanup

LEMMA RaiseWays ==
    ASSUME ControlTypes, Raise, outcome' = outcome, pc \notin {"fail", "disarm", "end", "dead"}
    PROVE  Ways
  BY HostFact, RaiseFact, CtlPcFact DEF ControlTypes, Ways, Body, Cleanup, TryPc, CtlPc

LEMMA StaysWays ==
    ASSUME ControlTypes, pc' = pc, at' = at, outcome' = outcome
    PROVE  Ways
  BY DEF ControlTypes, Ways

LEMMA WaysStep == ASSUME ControlTypes, [CampaignNext]_campaignVars PROVE Ways
<1> USE DEF Rest
<1>0. 1 \in 1..N /\ N \in 1..N /\ (at < N => at + 1 \in 1..N) /\ (at > 1 => at - 1 \in 1..N)
  BY HostFact DEF ControlTypes
<1>1. CASE ArmHost
  <2>1. CASE UNCHANGED <<pc, at>>
    BY <1>1, <2>1, StaysWays DEF ArmHost
  <2>2. CASE Raise
    BY <1>1, <2>2, RaiseWays DEF ArmHost
  <2>3. ASSUME ~(UNCHANGED <<pc, at>>), ~Raise PROVE Ways
    <3>1. pc = "arm" /\ pc' \in {"arm", "preflight"} /\ at' \in 1..N /\ outcome' = outcome
      BY <1>0, <1>1, <2>3 DEF ArmHost, GoTo
    <3> QED
      BY <3>1 DEF Ways, ControlTypes, CtlPc, Body, Cleanup
  <2> QED
    BY <2>1, <2>2, <2>3
<1>2. CASE Preflight
  <2>1. CASE Raise
    BY <1>2, <2>1, RaiseWays DEF Preflight
  <2>2. CASE GoTo("next", 1)
    BY <1>0, <1>2, <2>2 DEF Preflight, GoTo, Ways, ControlTypes, CtlPc, Body, Cleanup
  <2> QED
    BY <1>2, <2>1, <2>2 DEF Preflight
<1>3. CASE NextTrial
  BY <1>0, <1>3 DEF NextTrial, GoTo, Ways, ControlTypes, CtlPc, Body, Cleanup
<1>4. CASE Select
  BY <1>0, <1>4 DEF Select, GoTo, Ways, ControlTypes, CtlPc, Body, Cleanup
<1>5. ASSUME StopNext, pc \in {"stop", "failstop"}, outcome' = outcome PROVE Ways
  BY <1>0, <1>5 DEF StopNext, GoTo, Ways, ControlTypes, CtlPc, Body, Cleanup
<1>6. CASE StopPair
  BY <1>5, <1>6, StaysWays DEF StopPair
<1>7. CASE LaunchHost
  <2>1. CASE Raise
    BY <1>7, <2>1, RaiseWays DEF LaunchHost
  <2>2. CASE GoTo("look", at)
    BY <1>7, <2>2 DEF LaunchHost, GoTo, Ways, ControlTypes, CtlPc, Body, Cleanup
  <2> QED
    BY <1>7, <2>1, <2>2, StaysWays DEF LaunchHost
<1>8. CASE ReadsGuard
  BY <1>8, StaysWays, RaiseWays DEF ReadsGuard, LookPc
<1>9. CASE FindsNoBox
  BY <1>9, RaiseWays DEF FindsNoBox, LookPc
<1>10. CASE FindsBox
  BY <1>0, <1>10 DEF FindsBox, LookPc, GoTo, Ways, ControlTypes, CtlPc, Body, Cleanup
<1>11. CASE AsksApi
  <2>1. CASE Raise
    BY <1>11, <2>1, RaiseWays DEF AsksApi
  <2>2. CASE ~Raise
    BY <1>0, <1>11, <2>2 DEF AsksApi, GoTo, Ways, ControlTypes, CtlPc, Body, Cleanup
  <2> QED
    BY <2>1, <2>2
<1>12. CASE StartupDeadline
  BY <1>12, StaysWays DEF StartupDeadline
<1>13. CASE Probes
  <2>1. CASE Raise
    BY <1>13, <2>1, RaiseWays DEF Probes
  <2>2. CASE ~Raise
    BY <1>0, <1>13, <2>2 DEF Probes, GoTo, Ways, ControlTypes, CtlPc, Body, Cleanup
  <2> QED
    BY <2>1, <2>2
<1>14. CASE Records
  <2>1. CASE Raise
    BY <1>14, <2>1, RaiseWays DEF Records
  <2>2. CASE ~Raise
    BY <1>0, <1>14, <2>2 DEF Records, AddRun, GoTo, Ways, ControlTypes, CtlPc, Body, Cleanup
  <2> QED
    BY <2>1, <2>2
<1>15. CASE RecordsFailure
  <2>1. CASE Raise
    BY <1>15, <2>1, RaiseWays DEF RecordsFailure
  <2>2. CASE ~Raise
    BY <1>0, <1>15, <2>2 DEF RecordsFailure, AddRun, GoTo, Ways, ControlTypes, CtlPc, Body, Cleanup
  <2> QED
    BY <2>1, <2>2
<1>16. CASE Fails
  BY <1>0, <1>16 DEF Fails, GoTo, Ways, ControlTypes, CtlPc, Body, Cleanup
<1>17. ASSUME pc = "disarm", DisarmNext, outcome' = outcome PROVE Ways
  BY <1>0, <1>17 DEF DisarmNext, GoTo, Ways, ControlTypes, CtlPc, Body, Cleanup
<1>18. CASE Disarms
  BY <1>17, <1>18 DEF Disarms
<1>19. ASSUME GoTo("dead", 1), outcome' = outcome PROVE Ways
  BY <1>0, <1>19 DEF GoTo, Ways, ControlTypes, CtlPc, Body, Cleanup
<1>20. CASE Signal
  BY <1>17, <1>19, <1>20, StaysWays, RaiseWays DEF Signal
<1>21. CASE SshFails
  BY <1>5, <1>17, <1>21, RaiseWays DEF SshFails, LookPc
<1>22. CASE Crash
  BY <1>19, <1>22 DEF Crash
<1>26. CASE DockerLook
  BY <1>26, RaiseWays DEF DockerLook, LookPc
<1>27. CASE ReadsBack
  <2>1. CASE Raise
    BY <1>27, <2>1, RaiseWays DEF ReadsBack
  <2>2. CASE ~Raise
    BY <1>0, <1>27, <2>2 DEF ReadsBack, GoTo, Ways, ControlTypes, CtlPc, Body, Cleanup
  <2> QED
    BY <2>1, <2>2
<1>23. ASSUME NEW h \in Host, NodeMove(h) \/ NodeTrouble(h) PROVE Ways
  BY <1>23, StaysWays DEF NodeMove, NodeTrouble, ctlVars
<1>24. ASSUME NEW h \in Host, NEW s \in Slot, JobMoves(h, s) PROVE Ways
  BY <1>24, StaysWays DEF JobMoves, JobStep, JobDocker, ctlVars
<1>25. CASE UNCHANGED campaignVars
  BY <1>25, StaysWays DEF campaignVars, ctlVars
<1> QED
  BY <1>1, <1>2, <1>3, <1>4, <1>6, <1>7, <1>8, <1>9, <1>10, <1>11, <1>12, <1>13, <1>14,
     <1>15, <1>16, <1>18, <1>20, <1>21, <1>22, <1>23, <1>24, <1>25,
     <1>26, <1>27, NextSplits DEF Controller

--------------------------------------------------------------------------------
(* The types are kept, and the runs are counted. *)

LEMMA RunsFrame ==
    ASSUME ControlTypes, RunsCounted, Ways, UNCHANGED <<trial, runs, winner>>
    PROVE  ControlTypes' /\ RunsCounted'
<1>1. ControlTypes'
  BY DEF ControlTypes, Ways, N
<1>2. RunsCounted'
  BY DEF RunsCounted, Ways, Relaunching
<1> QED
  BY <1>1, <1>2

LEMMA AddRunTypes ==
    ASSUME ControlTypes, RunsCounted, NEW ok \in BOOLEAN, NEW sem \in BOOLEAN,
           AddRun(ok, sem), pc \in {"collect", "armfail"}, UNCHANGED <<winner, outcome>>
    PROVE  ControlTypes' /\ RunsCounted'
<1>1. runs \in Seq(Run) /\ Len(runs) \in Nat /\ trial \in 1..Len(Arms) /\ Len(Arms) \in Nat
  BY ArmsAssumption DEF ControlTypes, RunsCounted, Relaunching
<1>2. [depth |-> Depth, ok |-> ok, sem |-> sem] \in Run
  BY DepthFact DEF Run
<1> DEFINE r == [depth |-> Depth, ok |-> ok, sem |-> sem]
<1>3. runs' = Append(runs, r) /\ trial' = trial + 1 /\ pc' = "next" /\ at' = 1
  BY DEF AddRun, GoTo
<1> HIDE DEF r
<1>4. runs' \in Seq(Run) /\ Len(runs') = Len(runs) + 1
  BY <1>1, <1>2, <1>3 DEF r
<1>5. Len(runs) <= trial /\ trial - 1 <= Len(runs)
  BY DEF RunsCounted
<1>6. RunsCounted'
  BY <1>1, <1>3, <1>4, <1>5 DEF RunsCounted
<1>7. ControlTypes'
  BY <1>1, <1>3, <1>4, <1>5, HostFact DEF ControlTypes, CtlPc, N
<1> QED
  BY <1>6, <1>7

LEMMA PreflightTypes ==
    ASSUME ControlTypes, RunsCounted, Preflight, Ways PROVE ControlTypes' /\ RunsCounted'
<1>1. trial = 1 /\ UNCHANGED <<trial, winner>> /\ Len(Arms) \in Nat \ {0}
  BY ArmsAssumption DEF RunsCounted, Preflight
<1>2. CASE runs' = runs
  BY <1>1, <1>2, RunsFrame
<1>3. ASSUME GoTo("next", 1), runs' \in Seq(Run), NEW n \in {0, 1}, Len(runs') = n
      PROVE  ControlTypes' /\ RunsCounted'
  <2>1. pc' = "next" /\ trial' = 1
    BY <1>1, <1>3 DEF GoTo
  <2>2. ControlTypes'
    BY <1>1, <1>3, <2>1 DEF ControlTypes, Ways, N
  <2>3. RunsCounted'
    BY <1>3, <2>1 DEF RunsCounted
  <2> QED
    BY <2>2, <2>3
<1>4. CASE GoTo("next", 1) /\ runs' = <<>>
  BY <1>3, <1>4
<1>5. ASSUME NEW b \in BOOLEAN, GoTo("next", 1),
             runs' = <<[depth |-> 0, ok |-> TRUE, sem |-> b]>>
      PROVE  ControlTypes' /\ RunsCounted'
  <2>1. [depth |-> 0, ok |-> TRUE, sem |-> b] \in Run
    BY DEF Run, Depths
  <2> QED
    BY <1>3, <1>5, <2>1
<1> QED
  BY <1>2, <1>4, <1>5 DEF Preflight

LEMMA SelectTypes ==
    ASSUME ControlTypes, RunsCounted, Select, Ways
    PROVE  /\ ControlTypes' /\ RunsCounted'
           /\ runs # <<>> /\ trial > 1
           /\ \E i \in 1..Len(runs) :
                 /\ winner' = runs[i].depth
                 /\ IF MustRelaunch(runs[i]) THEN GoTo("stop", 1) ELSE GoTo("readback", 1)
<1>1. /\ trial \in Nat /\ trial > 1 /\ Len(runs) \in Nat /\ Len(runs) >= 1 /\ runs \in Seq(Run)
      /\ pc = "next" /\ UNCHANGED <<trial, runs>>
  BY ArmsAssumption DEF Select, Relaunching, ControlTypes, RunsCounted
<1>2. Winners \subseteq 1..Len(runs)
  BY <1>1 DEF Winners, Qualified
<1>3. PICK i \in 1..Len(runs) :
          /\ winner' = runs[i].depth
          /\ IF MustRelaunch(runs[i]) THEN GoTo("stop", 1) ELSE GoTo("readback", 1)
  BY <1>2 DEF Select
<1>4. runs[i] \in Run
  BY <1>1
<1>5. winner' \in Depths
  BY <1>3, <1>4 DEF Run
<1>6. ControlTypes'
  BY <1>1, <1>5 DEF ControlTypes, Ways, N
<1>7. RunsCounted'
  BY <1>1, <1>3 DEF RunsCounted, GoTo
<1>8. runs # <<>>
  BY <1>1
<1> QED
  BY <1>1, <1>3, <1>6, <1>7, <1>8

LEMMA ControlStep ==
    ASSUME ControlTypes, FlagTypes, RunsCounted, [CampaignNext]_campaignVars
    PROVE  ControlTypes' /\ RunsCounted'
<1>1. Ways
  BY WaysStep
<1>2. CASE UNCHANGED <<trial, runs, winner>>
  BY <1>1, <1>2, RunsFrame
<1>3. CASE Preflight
  BY <1>1, <1>3, PreflightTypes
<1>4. CASE Select
  BY <1>1, <1>4, SelectTypes
<1>5. CASE Records
  <2>1. semantic \in BOOLEAN
    BY DEF FlagTypes
  <2> QED
    BY <1>2, <1>5, <2>1, AddRunTypes DEF Records
<1>6. CASE RecordsFailure
  BY <1>2, <1>6, AddRunTypes DEF RecordsFailure
<1>7. ASSUME ~Preflight, ~Select, ~Records, ~RecordsFailure
      PROVE  UNCHANGED <<trial, runs, winner>>
  <2>1. CASE Controller
    BY <1>7, <2>1 DEF Controller, ArmHost, NextTrial, StopPair, LaunchHost, ReadsGuard,
       FindsNoBox, FindsBox, AsksApi, Probes, ReadsBack, Fails, Disarms, Rest
  <2>2. CASE Signal \/ SshFails \/ Crash \/ StartupDeadline \/ DockerLook
    BY <2>2 DEF Signal, SshFails, Crash, StartupDeadline, DockerLook, Rest
  <2>3. ASSUME NEW h \in Host, NodeMove(h) \/ NodeTrouble(h) \/ \E s \in Slot : JobMoves(h, s)
        PROVE  UNCHANGED <<trial, runs, winner>>
    BY <2>3 DEF NodeMove, NodeTrouble, JobMoves, JobStep, JobDocker, ctlVars
  <2>4. CASE UNCHANGED campaignVars
    BY <2>4 DEF campaignVars, ctlVars
  <2> QED
    BY <2>1, <2>2, <2>3, <2>4, NextSplits
<1> QED
  BY <1>2, <1>3, <1>4, <1>5, <1>6, <1>7

LEMMA FlagFrame ==
    ASSUME FlagTypes, seen' \in BOOLEAN, late' \in BOOLEAN, semantic' \in BOOLEAN,
           blind' \in BOOLEAN
    PROVE  FlagTypes'
  BY DEF FlagTypes

LEMMA SomeLapsedBoolean == SomeGuardLapsed \in BOOLEAN
  BY Zenon DEF SomeGuardLapsed

LEMMA FlagStep ==
    ASSUME FlagTypes, [CampaignNext]_campaignVars
    PROVE  FlagTypes'
<1> USE DEF Rest
<1>0. seen \in BOOLEAN /\ late \in BOOLEAN /\ semantic \in BOOLEAN /\ blind \in BOOLEAN
  BY DEF FlagTypes
<1>1. seen' \in {seen, TRUE, FALSE}
  <2>1. CASE Controller
    <3>1. ASSUME Raise PROVE seen' = FALSE
      BY <3>1, RaiseFact
    <3> QED
      BY <2>1, <3>1 DEF Controller, ArmHost, Preflight, NextTrial, Select, StopPair, StopNext,
         LaunchHost, ReadsGuard, FindsNoBox, FindsBox, AsksApi, Probes, ReadsBack, Records, AddRun,
         RecordsFailure, Fails, Disarms, DisarmNext, GoTo
  <2>2. CASE Signal \/ SshFails \/ Crash \/ StartupDeadline \/ DockerLook
    BY <2>2, RaiseFact DEF Signal, SshFails, Crash, StartupDeadline, DockerLook, StopNext, DisarmNext, GoTo
  <2>3. ASSUME NEW h \in Host, NodeMove(h) \/ NodeTrouble(h) \/ \E s \in Slot : JobMoves(h, s)
        PROVE  seen' = seen
    BY <2>3 DEF NodeMove, NodeTrouble, JobMoves, JobStep, JobDocker, ctlVars
  <2>4. CASE UNCHANGED campaignVars
    BY <2>4 DEF campaignVars, ctlVars
  <2> QED
    BY <2>1, <2>2, <2>3, <2>4, NextSplits
<1>2. late' \in {late, TRUE, FALSE} /\ (semantic' = semantic \/ semantic' \in BOOLEAN)
  <2>1. CASE Controller
    BY <2>1 DEF Controller, ArmHost, Preflight, NextTrial, Select, StopPair,
         LaunchHost, ReadsGuard, FindsNoBox, FindsBox, AsksApi, Probes, ReadsBack, Records, AddRun,
         RecordsFailure, Fails, Disarms
  <2>2. CASE Signal \/ SshFails \/ Crash \/ StartupDeadline \/ DockerLook
    BY <2>2 DEF Signal, SshFails, Crash, StartupDeadline, DockerLook
  <2>3. ASSUME NEW h \in Host, NodeMove(h) \/ NodeTrouble(h) \/ \E s \in Slot : JobMoves(h, s)
        PROVE  late' = late /\ semantic' = semantic
    BY <2>3 DEF NodeMove, NodeTrouble, JobMoves, JobStep, JobDocker, ctlVars
  <2>4. CASE UNCHANGED campaignVars
    BY <2>4 DEF campaignVars, ctlVars
  <2> QED
    BY <2>1, <2>2, <2>3, <2>4, NextSplits
<1>3. blind' = blind \/ blind' = SomeGuardLapsed
  <2>1. CASE Controller
    BY <2>1 DEF Controller, ArmHost, Preflight, NextTrial, Select, StopPair, StopNext,
         LaunchHost, ReadsGuard, FindsNoBox, FindsBox, AsksApi, Probes, ReadsBack, Records,
         RecordsFailure, Fails, Disarms
  <2>2. CASE Signal \/ SshFails \/ Crash \/ StartupDeadline \/ DockerLook
    BY <2>2 DEF Signal, SshFails, Crash, StartupDeadline, DockerLook, StopNext
  <2>3. ASSUME NEW h \in Host, NodeMove(h) \/ NodeTrouble(h) \/ \E s \in Slot : JobMoves(h, s)
        PROVE  blind' = blind
    BY <2>3 DEF NodeMove, NodeTrouble, JobMoves, JobStep, JobDocker, ctlVars
  <2>4. CASE UNCHANGED campaignVars
    BY <2>4 DEF campaignVars, ctlVars
  <2> QED
    BY <2>1, <2>2, <2>3, <2>4, NextSplits
<1>4. seen' \in BOOLEAN
  BY <1>0, <1>1
<1>5. late' \in BOOLEAN /\ semantic' \in BOOLEAN
  BY <1>0, <1>2
<1>6. blind' \in BOOLEAN
  BY <1>0, <1>3, SomeLapsedBoolean, Zenon
<1> QED
  BY <1>4, <1>5, <1>6, FlagFrame

LEMMA MishapStep ==
    ASSUME MishapTypes, [CampaignNext]_campaignVars
    PROVE  /\ MishapTypes'
           /\ signals' + faults' >= signals + faults
<1> USE BoundsAssumption DEF MishapTypes, envVars
<1>1. CASE UNCHANGED envVars
  BY <1>1
<1>2. CASE Signal
  BY <1>2 DEF Signal, Mishap
<1>3. CASE SshFails
  BY <1>3 DEF SshFails, Mishap
<1>4. ASSUME NEW h \in Host, NodeTrouble(h)
      PROVE  MishapTypes' /\ signals' + faults' >= signals + faults
  BY <1>4 DEF NodeTrouble, Mishap
<1>8. CASE DockerLook
  BY <1>8 DEF DockerLook, Mishap
<1>9. ASSUME NEW h \in Host, NEW s \in Slot, JobDocker(h, s)
      PROVE  MishapTypes' /\ signals' + faults' >= signals + faults
  <2>1. unstopped' \subseteq Host
    BY <1>9 DEF JobDocker, JobDockerFails
  <2> QED
    BY <1>9, <2>1 DEF JobDocker, Mishap
<1>5. CASE Controller
  <2>1. UNCHANGED envVars
    BY <1>5 DEF Controller, ArmHost, Preflight, NextTrial, Select, StopPair,
         LaunchHost, ReadsGuard, FindsNoBox, FindsBox, AsksApi, Probes, ReadsBack, Records,
         RecordsFailure, Fails, Disarms
  <2> QED
    BY <1>1, <2>1
<1>6. CASE Crash \/ StartupDeadline
  BY <1>1, <1>6 DEF Crash, StartupDeadline
<1>7. ASSUME NEW h \in Host, NodeMove(h) \/ \E s \in Slot : JobStep(h, s)
      PROVE  UNCHANGED envVars
  BY <1>7 DEF NodeMove, JobStep
<1> QED
  BY <1>1, <1>2, <1>3, <1>4, <1>5, <1>6, <1>7, <1>8, <1>9, NextSplits DEF campaignVars, JobMoves

(***************************************************************************)
(* What the controller does to the processes: it starts one, forgets the   *)
(* one that finished, or leaves the one that did not.                      *)
(***************************************************************************)
JobIssue ==
    /\ job[Here][Cur] = Idle
    /\ \/ pc = "launch" /\ Issue("launch", "checks", Depth)
       \/ pc \in {"stop", "failstop"} /\ Issue("stop", "inspect", NoDepth)
    /\ UNCHANGED <<pc, at, trial, winner>>

JobLeave ==
    \/ UNCHANGED job /\ (pc \in {"launch", "stop", "failstop"} => job[Here][Cur] = Idle)
    \/ Reap
    \/ /\ Abandon
       /\ signals' + faults' > 0 \/ pc' = "dead"
       /\ pc = "stop" => pc' \in Cleanup

JobMove == JobIssue \/ JobLeave

LEMMA ControllerMoves ==
    ASSUME ControlTypes, MishapTypes, Controller \/ Signal \/ SshFails \/ Crash \/ StartupDeadline \/ DockerLook
    PROVE  JobMove /\ served' = served
<1> USE DEF jobVars, NodeFrame, Rest
<1>0. ASSUME Raise, pc = "stop" PROVE pc' \in Cleanup
  BY <1>0, RaiseFact DEF TryPc, Cleanup
<1>1. CASE StopPair
  BY <1>1 DEF StopPair, JobMove, JobIssue, JobLeave
<1>2. CASE LaunchHost
  BY <1>2 DEF LaunchHost, JobMove, JobIssue, JobLeave
<1>3. CASE Signal
  <2>1. signals' + faults' > 0
    BY <1>3 DEF Signal, MishapTypes
  <2>2. CASE UNCHANGED job /\ pc \notin {"launch", "stop", "failstop"}
    BY <1>3, <2>2 DEF Signal, JobMove, JobIssue, JobLeave
  <2>3. CASE Raise /\ Abandon
    BY <1>0, <1>3, <2>1, <2>3 DEF Signal, JobMove, JobIssue, JobLeave
  <2> QED
    BY <1>3, <2>2, <2>3 DEF Signal
<1>4. CASE SshFails
  <2>1. signals' + faults' > 0
    BY <1>4 DEF SshFails, MishapTypes
  <2> QED
    BY <1>0, <1>4, <2>1 DEF SshFails, JobMove, JobIssue, JobLeave, LookPc
<1>5. CASE Crash
  BY <1>5 DEF Crash, JobMove, JobIssue, JobLeave, GoTo, Cleanup
<1>6. CASE StartupDeadline
  BY <1>6 DEF StartupDeadline, JobMove, JobIssue, JobLeave
<1>8. CASE DockerLook
  BY <1>8 DEF DockerLook, JobMove, JobLeave, LookPc
<1>7. CASE Controller /\ ~StopPair /\ ~LaunchHost
  BY <1>7 DEF Controller, JobMove, JobIssue, JobLeave, ArmHost, Preflight, NextTrial, Select, ReadsGuard, FindsNoBox,
     FindsBox, AsksApi, Probes, ReadsBack, Records, RecordsFailure, Fails, Disarms, LookPc
<1> QED
  BY <1>1, <1>2, <1>3, <1>4, <1>5, <1>6, <1>7, <1>8

LEMMA NoDepthFact == NoDepth \in Depths
  BY DEF Depths

LEMMA IssueStopFact ==
    ASSUME JobTypes, ControlTypes, Issue("stop", "inspect", NoDepth)
    PROVE  /\ job' \in [Host -> [Slot -> Job]]
           /\ \A g \in Host : \A r \in Slot :
                  ~(g = Here /\ r = Cur) => job'[g][r] = job[g][r]
           /\ job'[Here][Cur].step = "inspect" /\ job'[Here][Cur].op = "stop"
<1>1. "stop" \in {"launch", "stop"} /\ "inspect" \in {"checks", "inspect"}
  OBVIOUS
<1>2. job'[Here][Cur] = [op |-> "stop", step |-> "inspect", depth |-> NoDepth]
  BY <1>1, NoDepthFact, IssueFact
<1> QED
  BY <1>1, <1>2, NoDepthFact, IssueFact

LEMMA IssueLaunchFact ==
    ASSUME JobTypes, ControlTypes, Issue("launch", "checks", Depth)
    PROVE  /\ job' \in [Host -> [Slot -> Job]]
           /\ \A g \in Host : \A r \in Slot :
                  ~(g = Here /\ r = Cur) => job'[g][r] = job[g][r]
           /\ job'[Here][Cur].step = "checks" /\ job'[Here][Cur].op = "launch"
           /\ job'[Here][Cur].depth = Depth
<1>1. "launch" \in {"launch", "stop"} /\ "checks" \in {"checks", "inspect"}
  OBVIOUS
<1>2. job'[Here][Cur] = [op |-> "launch", step |-> "checks", depth |-> Depth]
  BY <1>1, DepthFact, IssueFact
<1> QED
  BY <1>1, <1>2, DepthFact, IssueFact

LEMMA JobMoveTypes ==
    ASSUME ControlTypes, MishapTypes, JobTypes, JobMove, served' = served
    PROVE  JobTypes'
<1>1. job' \in [Host -> [Slot -> Job]]
  <2>1. CASE UNCHANGED job
    BY <2>1 DEF JobTypes
  <2>2. CASE Issue("launch", "checks", Depth)
    BY <2>2, IssueLaunchFact
  <2>3. CASE Issue("stop", "inspect", NoDepth)
    BY <2>3, IssueStopFact
  <2>4. CASE Reap
    BY <2>4, ReapFact
  <2>5. CASE Abandon
    BY <2>5, AbandonFact
  <2> QED
    BY <2>1, <2>2, <2>3, <2>4, <2>5 DEF JobMove, JobIssue, JobLeave
<1> QED
  BY <1>1 DEF JobTypes

LEMMA JobStepTypes ==
    ASSUME JobTypes, NEW h \in Host, NEW s \in Slot, JobMoves(h, s)
    PROVE  JobTypes'
<1>1. job' \in [Host -> [Slot -> Job]]
  BY StepJobFact DEF JobMoves, JobStep, JobDocker, JobDockerFails, JobChecks, JobRuns, JobReports, JobInspects, JobStops, JobRemoves
<1>2. served' \in [Host -> Depths]
  <2>1. job[h][s].depth \in Depths
    BY DEF JobTypes, Job
  <2>2. served' = served \/ served' = [served EXCEPT ![h] = job[h][s].depth]
    BY DEF JobMoves, JobStep, JobDocker, JobDockerFails, JobChecks, JobRuns, JobReports, JobInspects, JobStops, JobRemoves
  <2> QED
    BY <2>1, <2>2 DEF JobTypes
<1> QED
  BY <1>1, <1>2 DEF JobTypes

LEMMA JobTypesStep ==
    ASSUME ControlTypes, MishapTypes, JobTypes, [CampaignNext]_campaignVars
    PROVE  JobTypes'
<1>1. CASE Controller \/ Signal \/ SshFails \/ Crash \/ StartupDeadline \/ DockerLook
  BY <1>1, ControllerMoves, JobMoveTypes
<1>2. ASSUME NEW h \in Host, NEW s \in Slot, JobMoves(h, s) PROVE JobTypes'
  BY <1>2, JobStepTypes
<1>3. CASE UNCHANGED jobVars
  BY <1>3 DEF jobVars, JobTypes
<1>4. ASSUME NEW h \in Host, NodeMove(h) \/ NodeTrouble(h) PROVE UNCHANGED jobVars
  BY <1>4 DEF NodeMove, NodeTrouble
<1> QED
  BY <1>1, <1>2, <1>3, <1>4, NextSplits DEF campaignVars

--------------------------------------------------------------------------------
(* The guards and the containers. *)

LEMMA TypesGive ==
    ASSUME CampaignTypeOK
    PROVE  ControlTypes /\ FlagTypes /\ MishapTypes /\ JobTypes /\ ArmTypeOK /\ ArmTypes /\ TypeOK
  BY TypeParts DEF ArmTypeOK, ArmTypes

(* What happens to the container of a node by itself, or by its guard.     *)
LEMMA GuardBox ==
    ASSUME TypeOK, NEW h \in Host, NEW p \in Pid, GuardStep(h, p) \/ GuardFault(h, p)
    PROVE  \/ box' = box
           \/ Running(h) /\ box' = [box EXCEPT ![h].st = "exited"]
<1> USE DEF guardVars, nodeVars
<1>1. CASE GuardKills(h, p)
  BY <1>1 DEF GuardKills, KillTarget
<1> QED
  BY <1>1 DEF GuardStep, GuardFault, GuardArms, GuardSeesDone, GuardHeartbeat, GuardTriggers,
     GuardInspects, GuardConfirms, GuardAsserts, GuardDockerTimeout, GuardKilled

LEMMA NodeBox ==
    ASSUME TypeOK, NEW h \in Host, NodeMove(h) \/ NodeTrouble(h), NEW g \in Host
    PROVE  /\ box'[g].own = box[g].own
           /\ box'[g].st = box[g].st \/ (box[g].st = "running" /\ box'[g].st = "exited")
<1>1. \/ box' = box
      \/ Running(h) /\ box' = [box EXCEPT ![h].st = "exited"]
  BY GuardBox DEF NodeMove, NodeTrouble, DeadlinePasses, HeartbeatAges, MemoryRecovers,
     MemoryDrops, BoxExits, RunningOwn
<1>2. CASE Running(h) /\ box' = [box EXCEPT ![h].st = "exited"]
  BY <1>2, BoxFact DEF Running
<1> QED
  BY <1>1, <1>2

(***************************************************************************)
(* What a process on a node does to its container: nothing, start one      *)
(* where there is none, or stop or remove the one that is there.           *)
(***************************************************************************)
LEMMA JobBox ==
    ASSUME TypeOK, JobTypes, NEW h \in Host, NEW s \in Slot, JobMoves(h, s)
    PROVE  /\ \A g \in Host : g # h => box'[g] = box[g] /\ served'[g] = served[g]
           /\ \/ box'[h] = box[h] /\ served'[h] = served[h]
              \/ /\ job[h][s].step = "run"
                 /\ box[h].st = "absent"
                 /\ box'[h].st = "running" /\ box'[h].own
                 /\ served'[h] = job[h][s].depth
              \/ /\ job[h][s].step \in {"stop", "rm"}
                 /\ box[h].st # "absent"
                 /\ box'[h].st # "running" /\ box'[h].own = box[h].own
                 /\ served'[h] = served[h]
<1>1. CASE UNCHANGED <<box, served>>
  BY <1>1
<1>2. CASE /\ job[h][s].step = "run" /\ BoxStarts(h, TRUE)
           /\ served' = [served EXCEPT ![h] = job[h][s].depth]
  <2>1. /\ box[h].st = "absent" /\ box'[h].st = "running" /\ box'[h].own
        /\ \A g \in Host : g # h => box'[g] = box[g]
    BY <1>2 DEF BoxStarts, TypeOK
  <2>2. /\ served'[h] = job[h][s].depth
        /\ \A g \in Host : g # h => served'[g] = served[g]
    BY <1>2 DEF JobTypes
  <2> QED
    BY <1>2, <2>1, <2>2
<1>3. ASSUME NEW st \in {"exited", "absent"}, box' = [box EXCEPT ![h].st = st]
      PROVE  /\ box'[h].st # "running" /\ box'[h].own = box[h].own
             /\ \A g \in Host : g # h => box'[g] = box[g]
  BY <1>3, BoxFact
<1>4. CASE job[h][s].step = "stop" /\ BoxStops(h) /\ UNCHANGED served
  BY <1>3, <1>4 DEF BoxStops, Running
<1>5. CASE job[h][s].step = "rm" /\ BoxRemoved(h) /\ UNCHANGED served
  BY <1>3, <1>5 DEF BoxRemoved
<1>6. \/ UNCHANGED <<box, served>>
      \/ /\ job[h][s].step = "run" /\ BoxStarts(h, TRUE)
         /\ served' = [served EXCEPT ![h] = job[h][s].depth]
      \/ job[h][s].step = "stop" /\ BoxStops(h) /\ UNCHANGED served
      \/ job[h][s].step = "rm" /\ BoxRemoved(h) /\ UNCHANGED served
  BY DEF JobMoves, JobStep, JobDocker, JobDockerFails, JobChecks, JobRuns, JobReports, JobInspects,
         JobStops, JobRemoves
<1> QED
  BY <1>1, <1>2, <1>4, <1>5, <1>6

ArmObtains(h) ==
    \/ ArmInspects(h) \/ ArmChecksOld(h) \/ ArmSpawns(h) \/ ArmRecords(h)
    \/ ArmSeesArmed(h) \/ ArmRaises(h)

(* What a step of the campaign is for GuardArming.                         *)
ArmKind ==
    \/ UNCHANGED allVars
    \/ pc = "arm" /\ ArmObtains(Here)
    \/ pc = "disarm" /\ DisarmTouches(Here)
    \/ \E h \in Host : NodeMoves(h)

LEMMA JobStepMoves ==
    ASSUME Owned, NEW h \in Host, NEW s \in Slot, JobMoves(h, s)
    PROVE  ArmKind
<1> USE DEF guardVars, nodeVars, armVars, allVars, vars
<1>1. CASE UNCHANGED box
  BY <1>1 DEF JobMoves, JobStep, JobDocker, ArmKind
<1>2. CASE ~UNCHANGED box
  <2>1. BoxStarts(h, TRUE) \/ BoxStops(h) \/ BoxRemoved(h)
    BY <1>2 DEF JobMoves, JobStep, JobDocker, JobDockerFails, JobChecks, JobRuns, JobReports, JobInspects, JobStops, JobRemoves
  <2>2. DockerStep(h)
    <3>1. TRUE \in BOOLEAN /\ box[h].own
      BY DEF Owned
    <3> QED
      BY <2>1, <3>1 DEF DockerStep, JobMoves, JobStep, JobDocker
  <2> QED
    BY <2>2 DEF NodeMoves, ArmKind, JobMoves, JobStep, JobDocker
<1> QED
  BY <1>1, <1>2

LEMMA SignalArms ==
    ASSUME ControlTypes, ArmTypes, GuardsPlaced, Signal
    PROVE  ArmKind
<1>0. Here \in Host
  BY HereFact
<1>1. CASE UNCHANGED arm
  BY <1>1 DEF Signal, ArmKind, allVars, armVars
<1>2. CASE pc = "arm" /\ arm' = [arm EXCEPT ![Here] = IF @ = "held" THEN @ ELSE "refused"]
  <2>1. arm[Here] \in ArmPc /\ arm[Here] # "touched"
    BY <1>0, <1>2 DEF ArmTypes, GuardsPlaced
  <2>2. CASE arm[Here] \in {"held", "refused"}
    <3>1. arm' = arm
      BY <1>0, <1>2, <2>2 DEF ArmTypes
    <3> QED
      BY <1>1, <3>1
  <2>3. CASE arm[Here] \notin {"held", "refused"}
    <3>1. ArmRaises(Here)
      BY <1>2, <2>1, <2>3 DEF Signal, ArmRaises, ArmTo, ArmPc
    <3> QED
      BY <1>2, <3>1 DEF ArmKind, ArmObtains
  <2> QED
    BY <2>2, <2>3
<1> QED
  BY <1>1, <1>2 DEF Signal

LEMMA ArmKinds ==
    ASSUME ControlTypes, ArmTypes, GuardsPlaced, Owned, [CampaignNext]_campaignVars
    PROVE  ArmKind
<1>1. CASE Signal
  BY <1>1, SignalArms
<1>2. ASSUME NEW h \in Host, NEW s \in Slot, JobMoves(h, s) PROVE ArmKind
  BY <1>2, JobStepMoves
<1>3. ASSUME NEW h \in Host, NodeMove(h) PROVE ArmKind
  BY <1>3 DEF NodeMove, NodeMoves, NodeStep, ArmKind
<1>4. ASSUME NEW h \in Host, NodeTrouble(h) PROVE ArmKind
  BY <1>4 DEF NodeTrouble, NodeMoves, NodeStep, DockerStep, ArmKind
<1>5. CASE ArmHost
  BY <1>5 DEF ArmHost, ArmKind, ArmObtains
<1>6. CASE Disarms
  BY <1>6 DEF Disarms, ArmKind
<1>7. CASE Controller /\ ~ArmHost /\ ~Disarms
  BY <1>7 DEF Controller, Preflight, NextTrial, Select, StopPair, LaunchHost, ReadsGuard, FindsNoBox,
     FindsBox, AsksApi, Probes, ReadsBack, Records, RecordsFailure, Fails, NodeFrame, ArmKind, allVars
<1>8. CASE SshFails \/ Crash \/ StartupDeadline \/ DockerLook
  BY <1>8 DEF SshFails, Crash, StartupDeadline, DockerLook, NodeFrame, ArmKind, allVars
<1>9. CASE UNCHANGED campaignVars
  BY <1>9 DEF campaignVars, ArmKind
<1> QED
  BY <1>1, <1>2, <1>3, <1>4, <1>5, <1>6, <1>7, <1>8, <1>9, NextSplits DEF Controller

LEMMA KindIsArmNext == ASSUME ControlTypes, ArmKind PROVE [ArmNext]_allVars
  BY HereFact DEF ArmKind, ArmObtains, ArmNext, ArmStep

(* No other guard is there when the campaign starts its own.               *)
LEMMA KindIsNext ==
    ASSUME ControlTypes, \A h \in Host : NodeKnows(h), ArmKind
    PROVE  [Next]_vars
<1>0. Here \in Host
  BY HereFact
<1>1. CASE UNCHANGED allVars
  BY <1>1 DEF allVars
<1>2. ASSUME NEW h \in Host, NodeMoves(h) PROVE [Next]_vars
  BY <1>2 DEF NodeMoves, Next
<1>3. CASE DisarmTouches(Here)
  BY <1>0, <1>3 DEF DisarmTouches, OperatorTouchesDone, Next
<1>4. CASE ArmSpawns(Here)
  <2>1. \A p \in Pid : gpc[Here][p] \in {"none", "ended"}
    BY <1>0, <1>4 DEF ArmSpawns, NodeKnows
  <2>2. \E p \in Pid : OperatorSpawns(Here, p)
    BY <1>4, <2>1 DEF ArmSpawns, OperatorSpawns
  <2> QED
    BY <1>0, <2>2 DEF Next
<1>5. CASE ArmInspects(Here)
  <2>1. BoxRemoved(Here) \/ UNCHANGED box
    BY <1>5 DEF ArmInspects
  <2>2. UNCHANGED <<guardVars, nodeVars>>
    BY <1>5 DEF ArmInspects
  <2>3. CASE BoxRemoved(Here)
    BY <1>0, <2>2, <2>3 DEF Next, DockerStep
  <2>4. CASE UNCHANGED box
    BY <2>2, <2>4 DEF guardVars, nodeVars, vars
  <2> QED
    BY <2>1, <2>3, <2>4
<1>6. CASE ArmChecksOld(Here) \/ ArmRecords(Here) \/ ArmSeesArmed(Here) \/ ArmRaises(Here)
  BY <1>6 DEF ArmChecksOld, ArmRecords, ArmSeesArmed, ArmRaises
<1> QED
  BY <1>1, <1>2, <1>3, <1>4, <1>5, <1>6 DEF ArmKind, ArmObtains

LEMMA NodesFrame ==
    ASSUME NEW g \in Host, NodeKnows(g),
           gpc'[g] = gpc[g], arm'[g] = arm[g], launched'[g] = launched[g], armed'[g] = armed[g]
    PROVE  NodeKnows(g)'
  BY DEF NodeKnows

LEMMA ArmObtainsKnows ==
    ASSUME TypeOK, ArmTypes, FileOfGuard, NEW h \in Host, ArmObtains(h) \/ DisarmTouches(h),
           NEW g \in Host, NodeKnows(h), NodeKnows(g)
    PROVE  NodeKnows(g)'
<1> USE DEF vars, guardVars, nodeVars
<1>0. {"out", "clear", "checked", "spawned", "waiting", "held", "refused", "touched"} \subseteq ArmPc
  BY DEF ArmPc
<1>1. ASSUME NEW to \in {"clear", "checked", "refused", "touched"}, ArmTo(h, to),
             UNCHANGED <<gpc, launched, armed>>,
             to \in {"clear", "checked"} => arm[h] \in {"out", "clear"}
      PROVE  NodeKnows(g)'
  <2>1. arm'[g] = IF g = h THEN to ELSE arm[g]
    BY <1>0, <1>1, ArmToFact
  <2> QED
    BY <1>1, <2>1 DEF NodeKnows
<1>2. CASE ArmInspects(h)
  BY <1>1, <1>2 DEF ArmInspects
<1>3. CASE ArmChecksOld(h)
  BY <1>1, <1>3 DEF ArmChecksOld
<1>4. CASE ArmRaises(h)
  BY <1>1, <1>4 DEF ArmRaises
<1>5. CASE DisarmTouches(h)
  BY <1>1, <1>5 DEF DisarmTouches
<1>6. CASE ArmSpawns(h)
  <2>1. PICK p \in Pid : SpawnGuard(h, p) /\ launched' = [launched EXCEPT ![h] = p]
    BY <1>6 DEF ArmSpawns
  <2>2. \A f \in Host : \A q \in Pid :
            gpc'[f][q] = IF f = h /\ q = p THEN "boot" ELSE gpc[f][q]
    <3>1. Goto(h, p, "boot")
      BY <2>1 DEF SpawnGuard, Goto
    <3> QED
      BY <3>1, GotoFact
  <2>3. arm'[g] = IF g = h THEN "spawned" ELSE arm[g]
    BY <1>0, <1>6, ArmToFact DEF ArmSpawns
  <2>4. launched'[g] = IF g = h THEN p ELSE launched[g]
    BY <2>1 DEF ArmTypes
  <2>5. arm[h] = "checked" /\ armed' = armed
    BY <1>6 DEF ArmSpawns
  <2>6. \A q \in Pid : gpc[h][q] = "none"
    BY <2>5 DEF NodeKnows
  <2>7. p # NoPid
    BY DEF Pid, NoPid
  <2> QED
    BY <2>2, <2>3, <2>4, <2>5, <2>6, <2>7 DEF NodeKnows
<1>7. CASE ArmRecords(h)
  <2>1. arm'[g] = IF g = h THEN "waiting" ELSE arm[g]
    BY <1>0, <1>7, ArmToFact DEF ArmRecords
  <2>2. armed'[g] = IF g = h THEN TRUE ELSE armed[g]
    BY <1>7 DEF ArmRecords, ArmTypes
  <2>3. arm[h] = "spawned" /\ UNCHANGED <<gpc, launched>>
    BY <1>7 DEF ArmRecords
  <2>4. NoPid \notin Pid
    BY DEF Pid, NoPid
  <2> QED
    BY <2>1, <2>2, <2>3, <2>4 DEF NodeKnows
<1>8. CASE ArmSeesArmed(h)
  <2>1. arm'[g] = IF g = h THEN "held" ELSE arm[g]
    BY <1>0, <1>8, ArmToFact DEF ArmSeesArmed
  <2>2. launched[h] \in Pid /\ file[h].pid = launched[h] /\ UNCHANGED <<gpc, launched, armed>>
    BY <1>8 DEF ArmSeesArmed, NodeKnows
  <2>3. gpc[h][launched[h]] \notin {"none", "boot"}
    <3>1. launched[h] \in Nat
      BY <2>2 DEF Pid
    <3> QED
      BY <2>2, <3>1 DEF FileOfGuard
  <2> QED
    BY <2>1, <2>2, <2>3 DEF NodeKnows
<1> QED
  BY <1>2, <1>3, <1>4, <1>5, <1>6, <1>7, <1>8 DEF ArmObtains

LEMMA MovesKnow ==
    ASSUME TypeOK, NEW h \in Host, NodeMoves(h), NEW g \in Host, NodeKnows(g)
    PROVE  NodeKnows(g)'
<1> USE DEF guardVars, nodeVars, armVars
<1>1. CASE UNCHANGED gpc
  BY <1>1 DEF NodeMoves, NodeKnows
<1>2. ASSUME NEW p \in Pid, GuardStep(h, p) \/ GuardFault(h, p) PROVE NodeKnows(g)'
  <2>1. gpc[h][p] \in LivePc
    BY <1>2, GuardChanges
  <2>2. PICK to \in GuardPc \ {"none", "boot"} :
            \A f \in Host : \A q \in Pid :
                gpc'[f][q] = IF f = h /\ q = p THEN to ELSE gpc[f][q]
    BY <1>2, GuardChanges
  <2>3. gpc[h][p] # "none"
    BY <2>1 DEF LivePc
  <2> QED
    BY <2>2, <2>3 DEF NodeMoves, NodeKnows
<1> QED
  BY <1>1, <1>2 DEF NodeMoves, DeadlinePasses, DockerStep, NodeStep, HeartbeatAges, MemoryDrops,
     MemoryRecovers

LEMMA NodesKnowStep ==
    ASSUME TypeOK, ArmTypes, ControlTypes, FileOfGuard, \A h \in Host : NodeKnows(h), ArmKind
    PROVE  \A h \in Host : NodeKnows(h)'
<1> TAKE g \in Host
<1>0. Here \in Host
  BY HereFact
<1>1. CASE UNCHANGED allVars
  BY <1>1 DEF allVars, vars, armVars, NodeKnows
<1>2. CASE ArmObtains(Here) \/ DisarmTouches(Here)
  BY <1>0, <1>2, ArmObtainsKnows
<1>3. ASSUME NEW h \in Host, NodeMoves(h) PROVE NodeKnows(g)'
  BY <1>3, MovesKnow
<1> QED
  BY <1>1, <1>2, <1>3 DEF ArmKind

LEMMA OwnedFrame == ASSUME Owned, UNCHANGED box PROVE Owned'
  BY DEF Owned

(* Only the arming and the processes on the nodes, and the nodes           *)
(* themselves, do anything to a container.                                 *)
LEMMA ControllerBox ==
    ASSUME Controller \/ Signal \/ SshFails \/ Crash \/ StartupDeadline \/ DockerLook
    PROVE  \/ UNCHANGED box
           \/ pc = "arm" /\ ArmInspects(Here)
<1> USE DEF NodeFrame, allVars, vars, guardVars, nodeVars
<1>1. CASE ArmHost
  BY <1>1 DEF ArmHost, ArmChecksOld, ArmSpawns, ArmRecords, ArmSeesArmed, ArmRaises
<1>2. CASE Disarms
  BY <1>2 DEF Disarms, DisarmTouches
<1>3. CASE Controller /\ ~ArmHost /\ ~Disarms
  BY <1>3 DEF Controller, Preflight, NextTrial, Select, StopPair, LaunchHost, ReadsGuard, FindsNoBox,
     FindsBox, AsksApi, Probes, ReadsBack, Records, RecordsFailure, Fails
<1>4. CASE Signal \/ SshFails \/ Crash \/ StartupDeadline \/ DockerLook
  BY <1>4 DEF Signal, SshFails, Crash, StartupDeadline, DockerLook
<1> QED
  BY <1>1, <1>2, <1>3, <1>4

LEMMA OwnedStep ==
    ASSUME TypeOK, ControlTypes, JobTypes, Owned, [CampaignNext]_campaignVars
    PROVE  Owned'
<1>1. CASE Controller \/ Signal \/ SshFails \/ Crash \/ StartupDeadline \/ DockerLook
  <2>1. CASE ArmInspects(Here)
    <3>1. UNCHANGED box \/ box' = [box EXCEPT ![Here].st = "absent"]
      BY <2>1 DEF ArmInspects, BoxRemoved
    <3>2. CASE box' = [box EXCEPT ![Here].st = "absent"]
      BY <3>2, HereFact, BoxFact DEF Owned
    <3> QED
      BY <3>1, <3>2, OwnedFrame
  <2> QED
    BY <1>1, <2>1, ControllerBox, OwnedFrame
<1>2. ASSUME NEW h \in Host, NodeMove(h) \/ NodeTrouble(h) PROVE Owned'
  BY <1>2, NodeBox DEF Owned
<1>3. ASSUME NEW h \in Host, NEW s \in Slot, JobMoves(h, s) PROVE Owned'
  <2>1. \A g \in Host : box'[g].own = box[g].own \/ box'[g].own
    BY <1>3, JobBox
  <2> QED
    BY <2>1 DEF Owned
<1>4. CASE UNCHANGED campaignVars
  BY <1>4, OwnedFrame DEF campaignVars, allVars, vars
<1> QED
  BY <1>1, <1>2, <1>3, <1>4, NextSplits

(* The processes go forward; one that stops never turns to launching.      *)
LEMMA JobSteps ==
    ASSUME JobTypes, NEW h \in Host, NEW s \in Slot, JobMoves(h, s)
    PROVE  /\ \A g \in Host : \A r \in Slot : ~(g = h /\ r = s) => job'[g][r] = job[g][r]
           /\ job'[h][s].op = job[h][s].op /\ job'[h][s].depth = job[h][s].depth
           /\ job[h][s].step # "idle" /\ job'[h][s].step # "idle"
           /\ job'[h][s].step \in LaunchSteps => job[h][s].step \in LaunchSteps
           /\ job'[h][s].step \in StopSteps => job[h][s].step \in StopSteps
<1>1. \E step \in {"run", "report", "stop", "rm", "ok", "bad"} :
          /\ StepJob(h, s, step)
          /\ step \in LaunchSteps => job[h][s].step \in LaunchSteps
          /\ step \in StopSteps => job[h][s].step \in StopSteps
          /\ job[h][s].step # "idle"
  BY DEF JobMoves, JobStep, JobDocker, JobDockerFails, JobChecks, JobRuns, JobReports, JobInspects, JobStops, JobRemoves,
         LaunchSteps, StopSteps
<1>2. PICK step \in {"run", "report", "stop", "rm", "ok", "bad"} :
          /\ StepJob(h, s, step)
          /\ step \in LaunchSteps => job[h][s].step \in LaunchSteps
          /\ step \in StopSteps => job[h][s].step \in StopSteps
          /\ job[h][s].step # "idle"
  BY <1>1
<1> QED
  BY <1>2, StepJobFact

(* A process is starting a container only where one was launching before,  *)
(* or where the controller has just issued the launch.                     *)
LEMMA LaunchesFollow ==
    ASSUME ControlTypes, MishapTypes, JobTypes, [CampaignNext]_campaignVars,
           pc # "launch", NEW h \in Host, \A s \in Slot : job[h][s].step \notin LaunchSteps
    PROVE  \A s \in Slot : job'[h][s].step \notin LaunchSteps
<1>0. Here \in Host /\ Cur \in Slot /\ Idle.step \notin LaunchSteps
  BY HereFact, SlotFact, IdleFact DEF LaunchSteps
<1>1. CASE Controller \/ Signal \/ SshFails \/ Crash \/ StartupDeadline \/ DockerLook
  <2>1. JobMove
    BY <1>1, ControllerMoves
  <2>2. CASE UNCHANGED job
    BY <2>2
  <2>3. CASE Issue("stop", "inspect", NoDepth)
    BY <2>3, IssueStopFact DEF LaunchSteps
  <2>4. CASE Reap
    BY <1>0, <2>4, ReapFact
  <2>5. CASE Abandon
    BY <1>0, <2>5, AbandonFact
  <2> QED
    BY <2>1, <2>2, <2>3, <2>4, <2>5 DEF JobMove, JobIssue, JobLeave
<1>2. ASSUME NEW g \in Host, NEW r \in Slot, JobMoves(g, r)
      PROVE  \A s \in Slot : job'[h][s].step \notin LaunchSteps
  BY <1>2, JobSteps
<1>3. CASE UNCHANGED job
  BY <1>3
<1>4. ASSUME NEW g \in Host, NodeMove(g) \/ NodeTrouble(g) PROVE UNCHANGED job
  BY <1>4 DEF NodeMove, NodeTrouble, jobVars
<1>5. CASE UNCHANGED campaignVars
  BY <1>3, <1>5 DEF campaignVars, jobVars
<1> QED
  BY <1>1, <1>2, <1>3, <1>4, <1>5, NextSplits

(* And a container appears only where a process was starting one.          *)
LEMMA BoxesFollow ==
    ASSUME TypeOK, ControlTypes, JobTypes, [CampaignNext]_campaignVars, NEW h \in Host,
           box[h].st = "absent", \A s \in Slot : job[h][s].step \notin LaunchSteps
    PROVE  box'[h].st = "absent"
<1>1. CASE Controller \/ Signal \/ SshFails \/ Crash \/ StartupDeadline \/ DockerLook
  <2>1. CASE UNCHANGED box
    BY <2>1
  <2>2. CASE ArmInspects(Here)
    <3>1. UNCHANGED box \/ (box' = [box EXCEPT ![Here].st = "absent"])
      BY <2>2 DEF ArmInspects, BoxRemoved
    <3> QED
      BY <2>1, <3>1, HereFact, BoxFact
  <2> QED
    BY <1>1, <2>1, <2>2, ControllerBox
<1>2. ASSUME NEW g \in Host, NodeMove(g) \/ NodeTrouble(g) PROVE box'[h].st = "absent"
  BY <1>2, NodeBox
<1>3. ASSUME NEW g \in Host, NEW r \in Slot, JobMoves(g, r) PROVE box'[h].st = "absent"
  <2>1. "run" \in LaunchSteps
    BY DEF LaunchSteps
  <2> QED
    BY <1>3, <2>1, JobBox
<1>4. CASE UNCHANGED campaignVars
  BY <1>4 DEF campaignVars, allVars, vars
<1> QED
  BY <1>1, <1>2, <1>3, <1>4, NextSplits

(* What a step does to arm and done.                                       *)
LEMMA KindArms ==
    ASSUME TypeOK, ArmTypes, ControlTypes, ArmKind
    PROVE  \/ UNCHANGED <<arm, done>>
           \/ /\ pc = "arm" /\ arm[Here] \notin {"held", "touched", "refused"}
              /\ arm'[Here] # "touched" /\ \A h \in Host : h # Here => arm'[h] = arm[h]
              /\ \A h \in Host : ~done[h] => ~done'[h]
           \/ /\ pc = "disarm"
              /\ arm'[Here] = "touched" /\ \A h \in Host : h # Here => arm'[h] = arm[h]
<1>0. /\ Here \in Host
      /\ {"out", "clear", "checked", "spawned", "waiting", "held", "refused", "touched"} \subseteq ArmPc
  BY HereFact DEF ArmPc
<1>1. CASE UNCHANGED allVars
  BY <1>1 DEF allVars, vars, armVars
<1>2. ASSUME NEW h \in Host, NodeMoves(h) PROVE UNCHANGED <<arm, done>>
  <2>1. UNCHANGED arm
    BY <1>2 DEF NodeMoves, armVars
  <2>2. UNCHANGED done
    BY <1>2, GuardChanges DEF NodeMoves, DeadlinePasses, DockerStep, NodeStep, HeartbeatAges,
       MemoryDrops, MemoryRecovers, nodeVars
  <2> QED
    BY <2>1, <2>2
<1>3. CASE pc = "disarm" /\ DisarmTouches(Here)
  BY <1>0, <1>3, ArmToFact DEF DisarmTouches
<1>4. CASE pc = "arm" /\ ArmObtains(Here)
  <2>1. arm[Here] \notin {"held", "touched", "refused"}
    BY <1>4 DEF ArmObtains, ArmInspects, ArmChecksOld, ArmSpawns, ArmRecords, ArmSeesArmed, ArmRaises
  <2>2. \E to \in {"clear", "refused", "checked", "spawned", "waiting", "held"} : ArmTo(Here, to)
    BY <1>4 DEF ArmObtains, ArmInspects, ArmChecksOld, ArmSpawns, ArmRecords, ArmSeesArmed, ArmRaises
  <2>3. arm'[Here] # "touched" /\ \A h \in Host : h # Here => arm'[h] = arm[h]
    BY <1>0, <2>2, ArmToFact
  <2>4. UNCHANGED done \/ done' = [done EXCEPT ![Here] = FALSE]
    BY <1>4 DEF ArmObtains, ArmInspects, ArmChecksOld, ArmSpawns, ArmRecords, ArmSeesArmed, ArmRaises,
       vars, nodeVars
  <2>5. \A h \in Host : ~done[h] => ~done'[h]
    BY <1>0, <2>4 DEF TypeOK
  <2> QED
    BY <1>4, <2>1, <2>3, <2>5
<1> QED
  BY <1>1, <1>2, <1>3, <1>4 DEF ArmKind

(* A controller that is still arming has all guards up to the host it is at.*)
LEMMA ArmingOn ==
    ASSUME ControlTypes, GuardsPlaced, pc = "arm", [CampaignNext]_campaignVars
    PROVE  \/ pc' \notin Body /\ pc' # "arm"
           \/ pc' = "arm" /\ at' = at
           \/ /\ arm[Here] = "held" /\ UNCHANGED arm
              /\ at < N => pc' = "arm" /\ at' = at + 1
              /\ at = N => pc' # "arm"
<1> USE DEF Body
<1>0. at \in Nat /\ at <= N /\ N \in Nat
  BY HostFact DEF ControlTypes
<1>1. ASSUME Raise PROVE pc' = "fail"
  BY <1>1, RaiseFact DEF TryPc
<1>2. CASE ArmHost
  BY <1>0, <1>1, <1>2 DEF ArmHost, GoTo, allVars, armVars
<1>3. CASE Signal
  BY <1>1, <1>3 DEF Signal
<1>4. CASE SshFails \/ StartupDeadline \/ DockerLook \/ (Controller /\ ~ArmHost)
  BY <1>4 DEF SshFails, StartupDeadline, DockerLook, LookPc, Controller, Preflight, NextTrial, Select, StopPair,
     LaunchHost, ReadsGuard, FindsNoBox, FindsBox, AsksApi, Probes, ReadsBack, Records, RecordsFailure, Fails,
     Disarms
<1>5. CASE Crash
  BY <1>5 DEF Crash, GoTo
<1>6. ASSUME NEW h \in Host, NodeMove(h) \/ NodeTrouble(h) \/ \E s \in Slot : JobMoves(h, s)
      PROVE  pc' = "arm" /\ at' = at
  BY <1>6 DEF NodeMove, NodeTrouble, JobMoves, JobStep, JobDocker, ctlVars
<1>7. CASE UNCHANGED campaignVars
  BY <1>7 DEF campaignVars, ctlVars
<1> QED
  BY <1>2, <1>3, <1>4, <1>5, <1>6, <1>7, NextSplits DEF Controller

LEMMA GuardsPlacedStep ==
    ASSUME TypeOK, ArmTypes, ControlTypes, ControlTypes', MishapTypes, JobTypes, Owned, GuardsPlaced,
           [CampaignNext]_campaignVars
    PROVE  GuardsPlaced'
<1>0. Ways /\ Here \in Host /\ at \in Nat /\ N \in Nat /\ 1 <= at /\ at <= N /\ ArmKind
  BY WaysStep, HereFact, HostFact, ArmKinds DEF ControlTypes
<1>1. ASSUME pc' = "arm" PROVE \A i \in 1..N : i < at' => arm'[HostOrder[i]] = "held"
  <2>1. pc = "arm" /\ \A i \in 1..N : i < at => arm[HostOrder[i]] = "held"
    BY <1>0, <1>1 DEF Ways, GuardsPlaced
  <2>2. CASE at' = at
    <3>1. UNCHANGED arm \/ (arm[Here] # "held" /\ \A h \in Host : h # Here => arm'[h] = arm[h])
      BY <1>0, <2>1, KindArms
    <3> QED
      BY <2>1, <2>2, <3>1, HostFact
  <2>3. CASE at' # at
    <3>1. at < N /\ arm[Here] = "held" /\ UNCHANGED arm /\ at' = at + 1
      BY <1>0, <1>1, <2>1, <2>3, ArmingOn
    <3>2. \A i \in 1..N : i < at + 1 => i < at \/ i = at
      BY <1>0
    <3> QED
      BY <2>1, <3>1, <3>2 DEF Here
  <2> QED
    BY <2>2, <2>3
<1>2. ASSUME pc' \in Body PROVE \A h \in Host : arm'[h] = "held"
  <2>1. CASE pc \in Body
    <3>1. \A h \in Host : arm[h] = "held"
      BY <2>1 DEF GuardsPlaced
    <3>2. UNCHANGED arm
      BY <1>0, <2>1, KindArms DEF Body
    <3> QED
      BY <3>1, <3>2
  <2>2. CASE pc = "arm"
    <3>1. arm[Here] = "held" /\ UNCHANGED arm /\ at = N
      BY <1>0, <1>2, <2>2, ArmingOn DEF Body
    <3>2. \A i \in 1..N : i < N \/ i = N
      BY <1>0
    <3>3. \A i \in 1..N : arm[HostOrder[i]] = "held"
      BY <2>2, <3>1, <3>2 DEF GuardsPlaced, Here
    <3> QED
      BY <3>1, <3>3, HostFact
  <2> QED
    BY <1>0, <1>2, <2>1, <2>2 DEF Ways
<1>3. ASSUME pc' \notin {"disarm", "end", "dead"}
      PROVE  \A h \in Host : arm'[h] # "touched" /\ ~done'[h]
  <2>1. pc \notin {"disarm", "end", "dead"}
    BY <1>0, <1>3 DEF Ways
  <2> QED
    BY <1>0, <2>1, KindArms DEF GuardsPlaced
<1>4. ASSUME Guarded PROVE Guarded'
  BY <1>0, <1>4, KindArms DEF Guarded
<1>5. ASSUME ~Guarded
      PROVE  \A h \in Host : /\ box'[h].st = "absent"
                             /\ \A s \in Slot : job'[h][s].step \notin LaunchSteps
  <2>1. \A h \in Host : /\ box[h].st = "absent"
                        /\ \A s \in Slot : job[h][s].step \notin LaunchSteps
    BY <1>5 DEF GuardsPlaced
  <2>2. pc # "launch"
    BY <1>5 DEF GuardsPlaced, Guarded, Body
  <2> QED
    BY <2>1, <2>2, LaunchesFollow, BoxesFollow
<1> QED
  BY <1>1, <1>2, <1>3, <1>4, <1>5 DEF GuardsPlaced, Guarded

--------------------------------------------------------------------------------
(* Where processes are left. *)

(* Whenever the controller goes on, it waits for nothing.                  *)
LEMMA NothingAwaited ==
    ASSUME ControlTypes, MishapTypes, JobTypes, JobsPlaced, JobLeave
    PROVE  \A h \in Host : job'[h][Cur] = Idle
<1>0. /\ Here \in Host /\ Cur \in Slot
      /\ \A h \in Host : h # Here => job[h][Cur] = Idle
      /\ pc \notin {"launch", "stop", "failstop"} => \A h \in Host : job[h][Cur] = Idle
  BY HereFact, SlotFact DEF JobsPlaced, Awaited
<1>1. CASE UNCHANGED job /\ (pc \in {"launch", "stop", "failstop"} => job[Here][Cur] = Idle)
  BY <1>0, <1>1
<1>2. CASE Reap
  BY <1>0, <1>2, ReapFact
<1>3. CASE Abandon
  BY <1>0, <1>3, AbandonFact
<1> QED
  BY <1>1, <1>2, <1>3 DEF JobLeave

LEMMA SameDepth == ASSUME UNCHANGED <<pc, at, trial, winner>> PROVE Here' = Here /\ Depth' = Depth
  BY DEF Here, Depth, Relaunching

(* The processes, one by one, when one is issued.                          *)
LEMMA IssuedJobs ==
    ASSUME ControlTypes, JobTypes, JobIssue
    PROVE  /\ UNCHANGED <<pc, at, trial, winner>> /\ Here' = Here /\ Depth' = Depth
           /\ \A h \in Host : \A s \in Slot : ~(h = Here /\ s = Cur) => job'[h][s] = job[h][s]
           /\ \/ /\ pc = "launch" /\ job'[Here][Cur].op = "launch"
                 /\ job'[Here][Cur].step = "checks" /\ job'[Here][Cur].depth = Depth
              \/ /\ pc \in {"stop", "failstop"} /\ job'[Here][Cur].op = "stop"
                 /\ job'[Here][Cur].step = "inspect"
  BY IssueLaunchFact, IssueStopFact, SameDepth DEF JobIssue

(* And when the controller goes on.                                        *)
LEMMA LeftJobs ==
    ASSUME ControlTypes, MishapTypes, JobTypes, JobsPlaced, JobLeave, NEW h \in Host, NEW s \in Slot
    PROVE  \/ job'[h][s] = Idle
           \/ s # Cur /\ job'[h][s] = job[h][s]
           \/ /\ s # Cur /\ h = Here /\ Active(job[h][Cur]) /\ job'[h][s] = job[h][Cur]
              /\ pc = "stop" => pc' \in Cleanup
              /\ signals' + faults' > 0 \/ pc' = "dead"
<1>0. Here \in Host /\ Cur \in Slot
  BY HereFact, SlotFact
<1>1. CASE s = Cur
  BY <1>1, NothingAwaited
<1>2. CASE s # Cur /\ UNCHANGED job
  BY <1>2
<1>3. CASE s # Cur /\ Reap
  BY <1>0, <1>3, ReapFact
<1>4. CASE s # Cur /\ /\ Abandon
                      /\ signals' + faults' > 0 \/ pc' = "dead"
                      /\ pc = "stop" => pc' \in Cleanup
  BY <1>0, <1>4, AbandonFact
<1> QED
  BY <1>1, <1>2, <1>3, <1>4 DEF JobLeave

LEMMA JobsPlacedIssue ==
    ASSUME ControlTypes, JobTypes, JobsPlaced, JobIssue
    PROVE  JobsPlaced'
<1> USE IssuedJobs, IdleFact DEF LaunchSteps, StopSteps
<1>0. Here \in Host /\ Cur \in Slot
  BY HereFact, SlotFact
<1>1. ASSUME NEW h \in Host PROVE Awaited(h)'
  <2>1. Awaited(h)
    BY DEF JobsPlaced
  <2>2. CASE h # Here
    <3>1. job'[h][Cur] = Idle
      BY <1>0, <2>1, <2>2 DEF Awaited
    <3> QED
      BY <3>1 DEF Awaited
  <2>3. CASE h = Here
    BY <2>3 DEF Awaited
  <2> QED
    BY <2>2, <2>3
<1>2. ASSUME NEW h \in Host, NEW s \in Slot
      PROVE  /\ JobShape(job'[h][s])
             /\ job'[h][s].step \in StopSteps => pc' \in Cleanup \/ (s = Cur /\ pc' = "stop")
  <2>1. CASE ~(h = Here /\ s = Cur)
    BY <2>1 DEF JobsPlaced
  <2>2. CASE h = Here /\ s = Cur
    BY <2>2 DEF JobShape, Cleanup
  <2> QED
    BY <2>1, <2>2
<1> QED
  BY <1>1, <1>2 DEF JobsPlaced

LEMMA JobsPlacedLeave ==
    ASSUME ControlTypes, MishapTypes, JobTypes, JobsPlaced, JobLeave, Ways
    PROVE  JobsPlaced'
<1>1. \A h \in Host : Awaited(h)'
  BY NothingAwaited DEF Awaited
<1>2. ASSUME NEW h \in Host, NEW s \in Slot
      PROVE  /\ JobShape(job'[h][s])
             /\ job'[h][s].step \in StopSteps => pc' \in Cleanup \/ (s = Cur /\ pc' = "stop")
  <2>1. /\ JobShape(job[h][s]) /\ JobShape(job[h][Cur])
        /\ job[h][s].step \in StopSteps => pc \in Cleanup \/ (s = Cur /\ pc = "stop")
        /\ job[h][Cur].step \in StopSteps => pc \in Cleanup \/ pc = "stop"
        /\ pc \in Cleanup => pc' \in Cleanup
    BY SlotFact DEF JobsPlaced, Ways
  <2>2. CASE job'[h][s] = Idle
    BY <2>2, IdleFact DEF JobShape, StopSteps
  <2>3. CASE s # Cur /\ job'[h][s] = job[h][s]
    BY <2>1, <2>3
  <2>4. CASE job'[h][s] = job[h][Cur] /\ (pc = "stop" => pc' \in Cleanup)
    BY <2>1, <2>4
  <2> QED
    BY <2>2, <2>3, <2>4, LeftJobs
<1> QED
  BY <1>1, <1>2 DEF JobsPlaced

LEMMA JobsPlacedStep ==
    ASSUME ControlTypes, MishapTypes, JobTypes, JobsPlaced, [CampaignNext]_campaignVars
    PROVE  JobsPlaced'
<1>1. CASE Controller \/ Signal \/ SshFails \/ Crash \/ StartupDeadline \/ DockerLook
  BY <1>1, WaysStep, ControllerMoves, JobsPlacedIssue, JobsPlacedLeave DEF JobMove
<1>2. CASE UNCHANGED <<job, pc, at, trial, winner>>
  BY <1>2, SameDepth DEF JobsPlaced, Awaited
<1>3. ASSUME NEW g \in Host, NEW r \in Slot, JobMoves(g, r) PROVE JobsPlaced'
  <2>1. UNCHANGED <<pc, at, trial, winner>>
    BY <1>3 DEF JobMoves, JobStep, JobDocker, ctlVars
  <2>2. Here' = Here /\ Depth' = Depth
    BY <2>1, SameDepth
  <2>3. job[g][r] # Idle /\ job'[g][r].op # "none" /\ job'[g][r].step # "idle"
    BY <1>3, JobSteps, IdleFact DEF JobsPlaced, JobShape
  <2>4. ASSUME NEW h \in Host PROVE Awaited(h)'
    <3>1. Awaited(h)
      BY DEF JobsPlaced
    <3>2. CASE h = g /\ r = Cur
      BY <1>3, <2>1, <2>2, <2>3, <3>1, <3>2, JobSteps DEF Awaited
    <3>3. CASE ~(h = g /\ r = Cur)
      <4>1. job'[h][Cur] = job[h][Cur]
        BY <1>3, <3>3, JobSteps, SlotFact
      <4> QED
        BY <2>1, <2>2, <3>1, <4>1 DEF Awaited
    <3> QED
      BY <3>2, <3>3
  <2>5. ASSUME NEW h \in Host, NEW s \in Slot
        PROVE  /\ JobShape(job'[h][s])
               /\ job'[h][s].step \in StopSteps => pc' \in Cleanup \/ (s = Cur /\ pc' = "stop")
    <3>1. CASE h = g /\ s = r
      BY <1>3, <2>1, <2>3, <3>1, JobSteps DEF JobsPlaced, JobShape
    <3>2. CASE ~(h = g /\ s = r)
      <4>1. job'[h][s] = job[h][s]
        BY <1>3, <3>2, JobSteps
      <4> QED
        BY <2>1, <4>1 DEF JobsPlaced
    <3> QED
      BY <3>1, <3>2
  <2> QED
    BY <2>4, <2>5 DEF JobsPlaced
<1>4. ASSUME NEW g \in Host, NodeMove(g) \/ NodeTrouble(g) PROVE UNCHANGED <<job, pc, at, trial, winner>>
  BY <1>4 DEF NodeMove, NodeTrouble, jobVars, ctlVars
<1>5. CASE UNCHANGED campaignVars
  BY <1>2, <1>5 DEF campaignVars, jobVars, ctlVars
<1> QED
  BY <1>1, <1>2, <1>3, <1>4, <1>5, NextSplits

--------------------------------------------------------------------------------
(* A trial launched behind a guard that had lapsed. *)

(* Besides the guards and time nothing writes a state file.                *)
PollsOnly == \A h \in Host : \A p \in Pid : gpc'[h][p] = "poll" => gpc[h][p] = "poll"

LEMMA FileMoves ==
    ASSUME TypeOK, ControlTypes, ArmKind
    PROVE  \/ UNCHANGED file /\ PollsOnly
           \/ \E g \in Host : HeartbeatAges(g)
           \/ \E g \in Host : \E p \in Pid : GuardStep(g, p) \/ GuardFault(g, p)
<1> USE DEF vars, guardVars, nodeVars
<1>0. ASSUME UNCHANGED gpc PROVE PollsOnly
  BY <1>0 DEF PollsOnly
<1>1. ASSUME NEW g \in Host, NodeMoves(g)
      PROVE  \/ UNCHANGED <<file, gpc>>
             \/ HeartbeatAges(g)
             \/ \E p \in Pid : GuardStep(g, p) \/ GuardFault(g, p)
  BY <1>1 DEF NodeMoves, DeadlinePasses, DockerStep, NodeStep, MemoryDrops, MemoryRecovers
<1>2. CASE ArmSpawns(Here)
  <2>1. PICK p \in Pid : SpawnGuard(Here, p)
    BY <1>2 DEF ArmSpawns
  <2>2. Goto(Here, p, "boot")
    BY <2>1 DEF SpawnGuard, Goto
  <2>3. PollsOnly
    BY <2>2, HereFact, GotoFact DEF PollsOnly
  <2> QED
    BY <1>2, <2>3 DEF ArmSpawns
<1>3. CASE (ArmObtains(Here) /\ ~ArmSpawns(Here)) \/ DisarmTouches(Here) \/ UNCHANGED allVars
  BY <1>0, <1>3 DEF ArmObtains, ArmInspects, ArmChecksOld, ArmRecords, ArmSeesArmed, ArmRaises,
     DisarmTouches, allVars
<1> QED
  BY <1>0, <1>1, <1>2, <1>3 DEF ArmKind

LEMMA AgesFact ==
    ASSUME TypeOK, NEW g \in Host, HeartbeatAges(g), NEW h \in Host
    PROVE  /\ file'[h].phase = file[h].phase
           /\ h = g => file'[h].fresh = FALSE
           /\ h # g => file'[h] = file[h]
           /\ UNCHANGED gpc
  BY DEF HeartbeatAges, TypeOK, StateFile, guardVars

(* A guard that saves leaves a fresh file, and once it has stopped polling *)
(* a verdict.                                                              *)
Saved(g, p) ==
    /\ file'[g].fresh = TRUE
    /\ gpc[g][p] \in {"boot", "poll"} \/ file'[g].phase \in Verdicts

LEMMA SavedFact ==
    ASSUME TypeOK, NEW g \in Host, NEW p \in Pid, NEW phase, NEW up, SaveState(g, p, phase, up),
           gpc[g][p] \in {"boot", "poll"} \/ phase \in Verdicts
    PROVE  Saved(g, p)
<1>1. file'[g] = [phase |-> phase, pid |-> p, fresh |-> TRUE, up |-> up]
  BY DEF TypeOK, SaveState
<1> QED
  BY <1>1 DEF Saved

LEMMA GuardSaves ==
    ASSUME TypeOK, NEW g \in Host, NEW p \in Pid, GuardStep(g, p) \/ GuardFault(g, p)
    PROVE  \/ file' = file /\ (gpc'[g][p] = "poll" => gpc[g][p] = "poll")
           \/ Saved(g, p)
<1>0. {"disarmed", "error", "triggered", "triggered_container_absent", "triggered_already_stopped"}
          \subseteq Verdicts
  BY DEF Verdicts, Fired
<1>1. ASSUME NEW verdict \in Verdicts, End(g, p, verdict) PROVE Saved(g, p)
  BY <1>1, SavedFact DEF End, Save
<1>2. ASSUME NEW to \in {"inspect", "kill", "confirm", "ended"}, Goto(g, p, to)
      PROVE  gpc'[g][p] # "poll"
  BY <1>2, GotoFact
<1>3. CASE GuardArms(g, p) \/ GuardHeartbeat(g, p)
  BY <1>3, SavedFact DEF GuardArms, GuardHeartbeat, Save
<1>4. CASE GuardSeesDone(g, p)
  BY <1>0, <1>1, <1>4 DEF GuardSeesDone
<1>5. CASE GuardTriggers(g, p) \/ GuardKills(g, p) \/ GuardKilled(g, p)
  BY <1>2, <1>5 DEF GuardTriggers, GuardKills, GuardKilled
<1>6. CASE GuardInspects(g, p)
  BY <1>0, <1>1, <1>2, <1>6 DEF GuardInspects
<1>7. CASE GuardConfirms(g, p)
  <2>1. CASE SaveState(g, p, "triggered", TRUE)
    BY <1>0, <2>1, SavedFact
  <2> QED
    BY <1>0, <1>1, <1>7, <2>1 DEF GuardConfirms
<1>8. CASE GuardAsserts(g, p) \/ GuardDockerTimeout(g, p)
  BY <1>0, <1>1, <1>8 DEF GuardAsserts, GuardDockerTimeout
<1> QED
  BY <1>3, <1>4, <1>5, <1>6, <1>7, <1>8 DEF GuardStep, GuardFault

LEMMA HeartStep ==
    ASSUME TypeOK, ControlTypes, ArmKind, HeartKnows
    PROVE  HeartKnows'
<1> SUFFICES ASSUME NoStalls, NEW h \in Host, ~file'[h].fresh, NEW q \in Pid, gpc'[h][q] = "poll"
             PROVE  FALSE
  BY DEF HeartKnows, NoStalls
<1>1. ~file[h].fresh => gpc[h][q] # "poll"
  BY DEF HeartKnows
<1>2. CASE UNCHANGED file /\ PollsOnly
  BY <1>1, <1>2 DEF PollsOnly
<1>3. ASSUME NEW g \in Host, HeartbeatAges(g) PROVE FALSE
  <2>1. UNCHANGED gpc /\ (h # g => file'[h] = file[h])
    BY <1>3, AgesFact
  <2>2. gpc[g][q] # "poll"
    BY <1>3 DEF HeartbeatAges, NoStalls
  <2> QED
    BY <1>1, <2>1, <2>2
<1>4. ASSUME NEW g \in Host, NEW p \in Pid, GuardStep(g, p) \/ GuardFault(g, p) PROVE FALSE
  <2>1. /\ h # g => file'[h] = file[h]
        /\ ~(h = g /\ q = p) => gpc'[h][q] = gpc[h][q]
    BY <1>4, GuardChanges
  <2>2. CASE file' = file /\ (gpc'[g][p] = "poll" => gpc[g][p] = "poll")
    BY <1>1, <2>1, <2>2
  <2>3. CASE Saved(g, p)
    <3>1. h # g
      BY <2>3 DEF Saved
    <3> QED
      BY <1>1, <2>1, <3>1
  <2> QED
    BY <1>4, <2>2, <2>3, GuardSaves
<1> QED
  BY <1>2, <1>3, <1>4, FileMoves

(* The lapse of a guard that a campaign holds is for good.                 *)
LEMMA LapsedStays ==
    ASSUME GuardInv, ControlTypes, HeartKnows, NoStalls, ArmKind, NEW h \in Host,
           NodeKnows(h), arm[h] = "held", Lapsed(h)
    PROVE  Lapsed(h)'
<1>0. TypeOK /\ FileOfGuard
  BY DEF GuardInv
<1>1. CASE file'[h] = file[h]
  BY <1>1 DEF Lapsed
<1>2. ASSUME NEW g \in Host, HeartbeatAges(g) PROVE Lapsed(h)'
  BY <1>0, <1>1, <1>2, AgesFact DEF Lapsed
<1>3. ASSUME NEW g \in Host, NEW p \in Pid, GuardStep(g, p) \/ GuardFault(g, p) PROVE Lapsed(h)'
  <2>1. CASE g # h
    BY <1>0, <1>1, <1>3, <2>1, GuardChanges
  <2>2. CASE g = h /\ Saved(h, p)
    <3>1. gpc[h][p] \in LivePc
      BY <1>0, <1>3, <2>2, GuardChanges
    <3>2. gpc[h][p] # "boot"
      BY <3>1 DEF NodeKnows, LivePc
    <3>3. gpc[h][p] # "poll"
      <4>1. ASSUME gpc[h][p] = "poll" PROVE FALSE
        <5>1. file[h].phase = "armed"
          BY <1>0, <4>1 DEF FileOfGuard
        <5>2. ~file[h].fresh
          BY <5>1 DEF Lapsed, Verdicts, Fired
        <5> QED
          BY <4>1, <5>2 DEF HeartKnows
      <4> QED
        BY <4>1
    <3> QED
      BY <2>2, <3>2, <3>3 DEF Saved, Lapsed
  <2> QED
    BY <1>0, <1>1, <1>3, <2>1, <2>2, GuardSaves
<1> QED
  BY <1>0, <1>1, <1>2, <1>3, FileMoves

LapsesStay == NoStalls /\ pc \in Body => \A h \in Host : Lapsed(h) => Lapsed(h)'

LEMMA BlindFrame ==
    ASSUME BlindKnows, LapsesStay, UNCHANGED <<pc, at, seen, outcome, blind>>
    PROVE  BlindKnows'
<1>1. \A i \in 1..N : HostOrder[i] \in Host
  BY HostFact
<1>2. CASE pc \in Body
  BY <1>1, <1>2 DEF BlindKnows, LapsesStay, N
<1>3. CASE pc \notin Body
  BY <1>3 DEF BlindKnows, Body
<1> QED
  BY <1>2, <1>3

LEMMA BlindRaise ==
    ASSUME BlindKnows, LapsesStay, Raise, UNCHANGED <<outcome, blind>>
    PROVE  BlindKnows'
<1>1. CASE pc \in TryPc /\ ~Relaunching
  <2>1. pc' = "armfail" /\ pc \in Body
    BY <1>1, RaiseFact DEF TryPc, Body
  <2> QED
    BY <2>1 DEF BlindKnows, LapsesStay
<1>2. CASE ~(pc \in TryPc /\ ~Relaunching)
  <2>1. pc' \in {"disarm", "fail"}
    BY <1>2, RaiseFact
  <2> QED
    BY <2>1 DEF BlindKnows, Body
<1> QED
  BY <1>1, <1>2

(* Outside the launch and the summary, some guard is enough.               *)
LEMMA BlindGoes ==
    ASSUME BlindKnows, LapsesStay, blind' = blind,
           (pc \in Body /\ pc' \in {"next", "stop", "readback"}) \/ pc' \in Cleanup,
           outcome' = outcome \/ outcome' = "failed_or_interrupted"
    PROVE  BlindKnows'
<1>1. CASE pc' \in Cleanup
  BY <1>1 DEF BlindKnows, Cleanup, Body
<1>2. CASE pc \in Body /\ pc' \in {"next", "stop", "readback"}
  BY <1>2 DEF BlindKnows, LapsesStay
<1> QED
  BY <1>1, <1>2

(* A launch starts at the last host.                                       *)
LEMMA BlindLaunch ==
    ASSUME BlindKnows, LapsesStay, pc \in {"next", "stop"}, GoTo("launch", N),
           blind' = SomeGuardLapsed, outcome' = outcome, outcome # "complete"
    PROVE  BlindKnows'
<1>1. pc' = "launch" /\ at' = N
  BY DEF GoTo
<1>2. ASSUME NoStalls, blind' PROVE \E i \in 1..N : i <= N /\ Lapsed(HostOrder[i])'
  <2>1. PICK h \in Host : Lapsed(h)
    BY <1>2 DEF SomeGuardLapsed
  <2>2. Lapsed(h)'
    BY <1>2, <2>1 DEF LapsesStay, Body
  <2>3. PICK i \in 1..N : HostOrder[i] = h
    BY HostFact
  <2> QED
    BY <2>2, <2>3, HostFact
<1> QED
  BY <1>1, <1>2, HostFact DEF BlindKnows, N

LEMMA BlindStep ==
    ASSUME ControlTypes, FlagTypes, BlindKnows, LapsesStay, [CampaignNext]_campaignVars,
           pc \in Body => outcome # "complete"
    PROVE  BlindKnows'
<1> USE DEF Rest
<1>0. 1 <= at /\ at <= N /\ at \in Nat /\ N \in Nat /\ \A i \in 1..N : HostOrder[i] \in Host
  BY HostFact DEF ControlTypes
<1>1. CASE ArmHost
  BY <1>1 DEF ArmHost, BlindKnows
<1>2. CASE Preflight
  BY <1>2, BlindRaise, BlindGoes DEF Preflight, GoTo, Body
<1>3. CASE NextTrial
  BY <1>3, BlindGoes, BlindLaunch DEF NextTrial, GoTo, Body
<1>4. CASE Select
  <2>1. CASE pc' = "stop"
    BY <1>4, <2>1, BlindGoes DEF Select, Body
  <2>2. CASE pc' = "readback"
    BY <1>4, <2>2, BlindGoes DEF Select, Body
  <2> QED
    BY <1>4, <2>1, <2>2 DEF Select, GoTo
<1>5. ASSUME StopNext, pc \in {"stop", "failstop"}, outcome' = outcome PROVE BlindKnows'
  <2>1. CASE pc = "stop" /\ at = N
    BY <1>0, <1>5, <2>1, BlindLaunch DEF StopNext, Body
  <2>2. CASE ~(pc = "stop" /\ at = N)
    BY <1>0, <1>5, <2>2, BlindGoes DEF StopNext, GoTo, Body, Cleanup
  <2> QED
    BY <2>1, <2>2
<1>6. CASE StopPair
  BY <1>5, <1>6, BlindFrame DEF StopPair
<1>7. CASE LaunchHost
  <2>1. CASE GoTo("look", at)
    BY <1>0, <1>7, <2>1 DEF LaunchHost, GoTo, BlindKnows, LapsesStay, Body, N
  <2> QED
    BY <1>7, <2>1, BlindFrame, BlindRaise DEF LaunchHost
<1>8. CASE ReadsGuard
  <2>1. CASE GuardOk(Here)
    <3>1. ~Lapsed(HostOrder[at])
      BY <2>1 DEF GuardOk, Lapsed, Here, Verdicts, Fired
    <3>2. ~seen /\ UNCHANGED <<pc, at, blind, outcome>>
      BY <1>8, <2>1 DEF ReadsGuard
    <3> QED
      BY <1>0, <1>8, <3>1, <3>2 DEF ReadsGuard, LookPc, BlindKnows, LapsesStay, Body, N
  <2> QED
    BY <1>8, <2>1, BlindRaise DEF ReadsGuard
<1>9. CASE FindsNoBox
  BY <1>9, BlindRaise DEF FindsNoBox
<1>10. CASE FindsBox
  BY <1>0, <1>10 DEF FindsBox, LookPc, GoTo, BlindKnows, LapsesStay, Body, N
<1>22. CASE ReadsBack
  <2>1. CASE Raise
    BY <1>22, <2>1, BlindRaise DEF ReadsBack
  <2>2. CASE ~Raise
    <3>1. /\ pc = "readback" /\ pc' = "sum" /\ at' = 1 /\ seen' = FALSE
          /\ blind' = blind /\ outcome' = outcome
      BY <1>22, <2>2 DEF ReadsBack, GoTo
    <3>2. ASSUME NoStalls, blind PROVE \E i \in 1..N : i >= 1 /\ Lapsed(HostOrder[i])'
      <4>1. \E h \in Host : Lapsed(h)'
        BY <3>1, <3>2 DEF BlindKnows, LapsesStay, Body
      <4> QED
        BY <4>1, HostFact
    <3> QED
      BY <1>0, <3>1, <3>2 DEF BlindKnows, Body, N
  <2> QED
    BY <2>1, <2>2
<1>23. CASE DockerLook
  BY <1>23, BlindRaise DEF DockerLook
<1>11. CASE AsksApi \/ StartupDeadline \/ Probes \/ Records
  BY <1>11, BlindFrame DEF AsksApi, StartupDeadline, Probes, Records, BlindKnows
<1>12. CASE RecordsFailure
  BY <1>12, BlindRaise, BlindGoes DEF RecordsFailure, AddRun, GoTo, Body
<1>13. CASE Fails
  BY <1>13, BlindGoes DEF Fails, GoTo, Cleanup
<1>14. ASSUME DisarmNext, blind' = blind, outcome' = outcome PROVE BlindKnows'
  BY <1>14, BlindGoes DEF DisarmNext, GoTo, Cleanup
<1>15. CASE Disarms
  BY <1>14, <1>15 DEF Disarms
<1>16. ASSUME GoTo("dead", 1), blind' = blind, outcome' = outcome PROVE BlindKnows'
  BY <1>16, BlindGoes DEF GoTo, Cleanup
<1>17. CASE Signal
  BY <1>14, <1>16, <1>17, BlindFrame, BlindRaise DEF Signal
<1>18. CASE SshFails
  BY <1>5, <1>14, <1>18, BlindRaise DEF SshFails
<1>19. CASE Crash
  BY <1>16, <1>19 DEF Crash
<1>20. ASSUME NEW h \in Host, NodeMove(h) \/ NodeTrouble(h) \/ \E s \in Slot : JobMoves(h, s)
      PROVE  BlindKnows'
  BY <1>20, BlindFrame DEF NodeMove, NodeTrouble, JobMoves, JobStep, JobDocker, ctlVars
<1>21. CASE UNCHANGED campaignVars
  BY <1>21, BlindFrame DEF campaignVars, ctlVars
<1> QED
  BY <1>1, <1>2, <1>3, <1>4, <1>6, <1>7, <1>8, <1>9, <1>10, <1>11, <1>12, <1>13, <1>15, <1>17,
     <1>18, <1>19, <1>20, <1>21, <1>22, <1>23, NextSplits DEF Controller

--------------------------------------------------------------------------------
(* The containers of the trial. *)

(* Where nobody stops containers, one that is there remains, up or exited. *)
LEMMA BoxRemains ==
    ASSUME TypeOK, ControlTypes, MishapTypes, JobTypes, [CampaignNext]_campaignVars, pc # "arm",
           NEW h \in Host, \A s \in Slot : job[h][s].step \notin StopSteps, box[h].st # "absent"
    PROVE  box'[h].st # "absent" /\ served'[h] = served[h]
<1>1. CASE Controller \/ Signal \/ SshFails \/ Crash \/ StartupDeadline \/ DockerLook
  BY <1>1, ControllerBox, ControllerMoves
<1>2. ASSUME NEW g \in Host, NodeMove(g) \/ NodeTrouble(g)
      PROVE  box'[h].st # "absent" /\ served'[h] = served[h]
  <2>1. served' = served
    BY <1>2 DEF NodeMove, NodeTrouble, jobVars
  <2> QED
    BY <1>2, <2>1, NodeBox
<1>3. ASSUME NEW g \in Host, NEW r \in Slot, JobMoves(g, r)
      PROVE  box'[h].st # "absent" /\ served'[h] = served[h]
  <2>1. job[h][r].step \notin {"stop", "rm"}
    BY DEF StopSteps
  <2> QED
    BY <1>3, <2>1, JobBox
<1>4. CASE UNCHANGED campaignVars
  BY <1>4 DEF campaignVars, allVars, vars, jobVars
<1> QED
  BY <1>1, <1>2, <1>3, <1>4, NextSplits

Remain == \A h \in Host : box[h].st # "absent" => box'[h].st # "absent" /\ served'[h] = served[h]

LEMMA RemainStep ==
    ASSUME TypeOK, ControlTypes, MishapTypes, JobTypes, JobsPlaced, TrialServes,
           [CampaignNext]_campaignVars,
           outcome = "complete" \/ pc \notin Cleanup \union {"stop", "arm"}
    PROVE  Remain
<1>1. pc # "arm"
  BY DEF TrialServes
<1>2. \A h \in Host : \A s \in Slot : job[h][s].step \notin StopSteps
  BY DEF TrialServes, JobsPlaced
<1> QED
  BY <1>1, <1>2, BoxRemains DEF Remain

(* The launch that the controller waits for has started its container once *)
(* it reports.                                                             *)
LEMMA LaunchReports ==
    ASSUME JobTypes, TypeOK, NEW h \in Host, NEW s \in Slot, JobMoves(h, s),
           job[h][s].step \notin StopSteps, job'[h][s].step \in {"report", "ok"}
    PROVE  \/ job[h][s].step = "report"
           \/ box'[h].st # "absent" /\ served'[h] = job[h][s].depth
<1>1. CASE JobRuns(h, s)
  <2>1. ~StepJob(h, s, "bad")
    BY StepJobFact
  <2>2. BoxStarts(h, TRUE) /\ served' = [served EXCEPT ![h] = job[h][s].depth]
    BY <1>1, <2>1 DEF JobRuns
  <2> QED
    BY <2>2 DEF BoxStarts, TypeOK, JobTypes
<1>2. CASE JobChecks(h, s)
  BY <1>2, StepJobFact DEF JobChecks
<1>3. CASE JobReports(h, s) \/ JobInspects(h, s) \/ JobStops(h, s) \/ JobRemoves(h, s)
  BY <1>3 DEF JobReports, JobInspects, JobStops, JobRemoves, StopSteps
<1>4. CASE JobDocker(h, s)
  <2>1. ~StepJob(h, s, "bad")
    BY StepJobFact
  <2> QED
    BY <1>4, <2>1 DEF JobDocker, JobDockerFails, StopSteps
<1> QED
  BY <1>1, <1>2, <1>3, <1>4 DEF JobMoves, JobStep

LaunchServes ==
    pc = "launch" /\ job[Here][Cur].step \in {"report", "ok"} => Placed(Here, Depth)

(* No clause says anything of these places.                                *)
LEMMA ServesNothing ==
    ASSUME outcome' # "complete",
           pc' \notin {"launch", "look", "poll", "api", "probe", "collect", "next",
                     "readback", "sum"}
    PROVE  TrialServes'
  BY DEF TrialServes

LEMMA ServesFrame ==
    ASSUME TrialServes, outcome # "complete", outcome' = outcome,
           UNCHANGED <<pc, at, trial, winner, runs>>,
           pc \notin Cleanup \union {"stop", "arm"} => Remain, LaunchServes'
    PROVE  TrialServes'
<1>1. Here' = Here /\ Depth' = Depth /\ \A i \in 1..N : HostOrder[i] \in Host
  BY SameDepth, HostFact
<1>2. CASE pc \in Cleanup \union {"stop", "arm", "preflight", "armfail"}
  BY <1>2, ServesNothing DEF Cleanup
<1>3. CASE Remain
  BY <1>1, <1>3 DEF TrialServes, LaunchServes, Remain, Placed, N
<1> QED
  BY <1>2, <1>3

LEMMA ServesRaise ==
    ASSUME Raise, outcome # "complete", outcome' = outcome
    PROVE  TrialServes'
  BY RaiseFact, ServesNothing

(* A launch starts at the last host, with nothing to wait for.             *)
LEMMA ServesLaunch ==
    ASSUME GoTo("launch", N), outcome' # "complete", \A h \in Host : job'[h][Cur] = Idle
    PROVE  TrialServes'
<1>1. pc' = "launch" /\ at' = N /\ HostOrder[N] \in Host /\ N \in Nat
  BY HostFact DEF GoTo
<1>2. Here' = HostOrder[N]
  BY <1>1 DEF Here
<1>3. job'[HostOrder[N]][Cur].step = "idle"
  BY <1>1, IdleFact
<1>4. \A i \in 1..N : ~(i > N)
  BY <1>1
<1> QED
  BY <1>1, <1>2, <1>3, <1>4 DEF TrialServes, N

(* What a campaign reported complete stays in place.                       *)
LEMMA CompleteStays ==
    ASSUME ControlTypes, MishapTypes, JobTypes, JobsPlaced, TrialServes, Remain, Ways,
           [CampaignNext]_campaignVars, outcome = "complete"
    PROVE  TrialServes'
<1>1. pc \in {"disarm", "end", "dead"} /\ pc' \in {"disarm", "end", "dead"}
  BY DEF TrialServes, Ways
<1>2. UNCHANGED <<outcome, winner>>
  <2>1. CASE Controller
    BY <1>1, <2>1 DEF Controller, ArmHost, Preflight, NextTrial, Select, StopPair, LaunchHost,
       ReadsGuard, FindsNoBox, FindsBox, LookPc, AsksApi, Probes, ReadsBack, Records, RecordsFailure, Fails,
       Disarms, Rest
  <2>2. CASE Signal \/ SshFails \/ Crash \/ StartupDeadline \/ DockerLook
    BY <2>2 DEF Signal, SshFails, Crash, StartupDeadline, DockerLook, Rest
  <2>3. ASSUME NEW h \in Host, NodeMove(h) \/ NodeTrouble(h) \/ \E s \in Slot : JobMoves(h, s)
        PROVE  UNCHANGED <<outcome, winner>>
    BY <2>3 DEF NodeMove, NodeTrouble, JobMoves, JobStep, JobDocker, ctlVars
  <2>4. CASE UNCHANGED campaignVars
    BY <2>4 DEF campaignVars, ctlVars
  <2> QED
    BY <2>1, <2>2, <2>3, <2>4, NextSplits
<1>3. ASSUME NEW h \in Host, NEW s \in Slot PROVE job'[h][s].step \notin StopSteps
  <2>0. job[h][s].step \notin StopSteps /\ job[h][Cur].step \notin StopSteps
    BY SlotFact DEF TrialServes
  <2>1. CASE Controller \/ Signal \/ SshFails \/ Crash \/ StartupDeadline \/ DockerLook
    <3>1. JobLeave
      BY <1>1, <2>1, ControllerMoves DEF JobMove, JobIssue
    <3> QED
      BY <2>0, <3>1, LeftJobs, IdleFact DEF StopSteps
  <2>2. ASSUME NEW g \in Host, NEW r \in Slot, JobMoves(g, r) PROVE job'[h][s].step \notin StopSteps
    BY <2>0, <2>2, JobSteps
  <2>3. CASE UNCHANGED job
    BY <2>0, <2>3
  <2>4. ASSUME NEW g \in Host, NodeMove(g) \/ NodeTrouble(g) PROVE UNCHANGED job
    BY <2>4 DEF NodeMove, NodeTrouble, jobVars
  <2> QED
    BY <2>1, <2>2, <2>3, <2>4, NextSplits DEF campaignVars, jobVars
<1>4. \A h \in Host : box'[h].st # "absent" /\ served'[h] = winner
  BY DEF TrialServes, Remain, Placed
<1> QED
  BY <1>1, <1>2, <1>3, <1>4 DEF TrialServes, Placed

(* The launch that the controller waits for, at every step but a start.    *)
LEMMA LaunchServesStep ==
    ASSUME TypeOK, ControlTypes, MishapTypes, JobTypes, JobsPlaced, TrialServes,
           [CampaignNext]_campaignVars, pc = "launch", UNCHANGED <<pc, at, trial, winner>>
    PROVE  LaunchServes'
<1> USE DEF Placed
<1>0. Here \in Host /\ Cur \in Slot /\ Here' = Here /\ Depth' = Depth
  BY HereFact, SlotFact, SameDepth
<1>1. Remain
  BY RemainStep DEF Cleanup
<1>2. CASE job'[Here][Cur] = job[Here][Cur]
  BY <1>0, <1>1, <1>2 DEF LaunchServes, TrialServes, Remain
<1>3. CASE JobIssue
  BY <1>0, <1>3, IssuedJobs DEF LaunchServes
<1>4. CASE JobLeave
  <2>1. job'[Here][Cur] = Idle
    BY <1>0, <1>4, NothingAwaited
  <2> QED
    BY <1>0, <2>1, IdleFact DEF LaunchServes
<1>5. ASSUME NEW h \in Host, NEW s \in Slot, JobMoves(h, s) PROVE LaunchServes'
  <2>1. CASE ~(h = Here /\ s = Cur)
    BY <1>0, <1>2, <1>5, <2>1, JobSteps
  <2>2. CASE h = Here /\ s = Cur
    <3>1. job[Here][Cur].step \notin StopSteps /\ job[Here][Cur].depth = Depth
      <4>1. job[Here][Cur].step # "idle"
        BY <1>5, <2>2, JobSteps
      <4> QED
        BY <1>0, <4>1, IdleFact DEF JobsPlaced, Awaited
    <3>2. ASSUME job'[Here][Cur].step \in {"report", "ok"}
          PROVE  \/ job[Here][Cur].step = "report"
                 \/ box'[Here].st # "absent" /\ served'[Here] = Depth
      BY <1>5, <2>2, <3>1, <3>2, LaunchReports
    <3>3. CASE job[Here][Cur].step = "report"
      BY <1>0, <1>1, <3>3 DEF LaunchServes, TrialServes, Remain
    <3> QED
      BY <1>0, <3>2, <3>3 DEF LaunchServes
  <2> QED
    BY <2>1, <2>2
<1>6. CASE UNCHANGED job
  BY <1>2, <1>6
<1>7. ASSUME NEW h \in Host, NodeMove(h) \/ NodeTrouble(h) PROVE UNCHANGED job
  BY <1>7 DEF NodeMove, NodeTrouble, jobVars
<1>8. CASE Controller \/ Signal \/ SshFails \/ Crash \/ StartupDeadline \/ DockerLook
  BY <1>3, <1>4, <1>8, ControllerMoves DEF JobMove
<1> QED
  BY <1>5, <1>6, <1>7, <1>8, NextSplits DEF campaignVars, jobVars

LEMMA ServesStays ==
    ASSUME TypeOK, ControlTypes, MishapTypes, JobTypes, JobsPlaced, TrialServes,
           [CampaignNext]_campaignVars, outcome # "complete", outcome' = outcome,
           UNCHANGED <<pc, at, trial, winner, runs>>
    PROVE  TrialServes'
<1>1. pc \notin Cleanup \union {"stop", "arm"} => Remain
  BY RemainStep
<1>2. LaunchServes'
  BY LaunchServesStep DEF LaunchServes
<1> QED
  BY <1>1, <1>2, ServesFrame

LEMMA ServesSelect ==
    ASSUME ControlTypes, RunsCounted, TrialServes, Remain, Ways, Select, outcome # "complete"
    PROVE  TrialServes'
<1>0. outcome' = outcome /\ pc = "next"
  BY DEF Select
<1>1. PICK i \in 1..Len(runs) :
          /\ winner' = runs[i].depth
          /\ IF MustRelaunch(runs[i]) THEN GoTo("stop", 1) ELSE GoTo("readback", 1)
  BY SelectTypes
<1>2. CASE MustRelaunch(runs[i])
  BY <1>0, <1>1, <1>2, ServesNothing DEF GoTo
<1>3. CASE ~MustRelaunch(runs[i])
  <2>1. trial > 1 /\ runs[Len(runs)].ok /\ winner' = runs[Len(runs)].depth /\ pc' = "readback"
    BY <1>1, <1>3, SelectTypes DEF MustRelaunch, GoTo
  <2>2. \A h \in Host : box'[h].st # "absent" /\ served'[h] = winner'
    BY <1>0, <2>1 DEF TrialServes, Remain, Placed
  <2> QED
    BY <1>0, <2>1, <2>2 DEF TrialServes, Placed
<1> QED
  BY <1>2, <1>3

LEMMA ServesFinds ==
    ASSUME ControlTypes, JobsPlaced, TrialServes, Remain, Ways, FindsBox, outcome # "complete",
           \A h \in Host : job'[h][Cur] = Idle
    PROVE  TrialServes'
<1> USE DEF Placed, Remain
<1>0. /\ at \in Nat /\ 1 <= at /\ at <= N /\ N \in Nat /\ at' \in 1..N
      /\ \A i \in 1..N : HostOrder[i] \in Host
      /\ \A h \in Host : \E i \in 1..N : HostOrder[i] = h
  BY HostFact DEF ControlTypes, Ways
<1>1. Depth' = Depth /\ UNCHANGED <<trial, runs, winner, job>>
  BY DEF FindsBox, Depth, Relaunching
<1>2. CASE pc = "look" /\ at > 1
  <2>1. pc' = "launch" /\ at' = at - 1 /\ outcome' = outcome
    BY <1>2 DEF FindsBox, GoTo
  <2>2. job'[Here'][Cur].step \notin {"report", "ok"}
    BY <1>0, IdleFact DEF Here
  <2>3. \A i \in 1..N : i > at' => i >= at
    BY <1>0, <2>1
  <2>4. \A i \in 1..N : i > at' => box'[HostOrder[i]].st # "absent" /\ served'[HostOrder[i]] = Depth'
    BY <1>0, <1>1, <1>2, <2>3 DEF TrialServes
  <2> QED
    BY <2>1, <2>2, <2>4 DEF TrialServes, N
<1>3. CASE pc = "look" /\ ~(at > 1)
  <2>1. pc' = "poll" /\ outcome' = outcome /\ at = 1
    BY <1>0, <1>3 DEF FindsBox, GoTo
  <2>2. \A i \in 1..N : i >= at
    BY <2>1
  <2>3. \A h \in Host : box'[h].st # "absent" /\ served'[h] = Depth'
    BY <1>0, <1>1, <1>3, <2>2 DEF TrialServes
  <2> QED
    BY <2>1, <2>3 DEF TrialServes
<1>4. CASE pc = "poll"
  <2>1. pc' \in {"poll", "api"} /\ outcome' = outcome
    BY <1>4 DEF FindsBox, GoTo
  <2>2. \A h \in Host : box'[h].st # "absent" /\ served'[h] = Depth'
    BY <1>1, <1>4 DEF TrialServes
  <2> QED
    BY <2>1, <2>2 DEF TrialServes
<1>5. CASE pc = "sum"
  <2>1. \/ pc' = "sum" /\ outcome' = outcome
        \/ pc' = "disarm" /\ outcome' = "complete"
    BY <1>5 DEF FindsBox, GoTo
  <2>2. \A h \in Host : box'[h].st # "absent" /\ served'[h] = winner'
    BY <1>1, <1>5 DEF TrialServes
  <2>3. \A h \in Host, s \in Slot : job'[h][s].step \notin StopSteps
    BY <1>1, <1>5 DEF JobsPlaced, Cleanup
  <2> QED
    BY <2>1, <2>2, <2>3 DEF TrialServes
<1> QED
  BY <1>2, <1>3, <1>4, <1>5 DEF FindsBox, LookPc

(* The trial that passed is the last of the runs.                          *)
LEMMA ServesRecords ==
    ASSUME ControlTypes, FlagTypes, RunsCounted, TrialServes, Remain, Records, outcome # "complete"
    PROVE  TrialServes'
<1>0. outcome' = outcome /\ pc = "collect"
  BY DEF Records
<1>1. CASE Raise
  BY <1>0, <1>1, ServesRaise
<1>2. CASE AddRun(TRUE, semantic)
  <2> DEFINE r == [depth |-> Depth, ok |-> TRUE, sem |-> semantic]
  <2>1. runs' = Append(runs, r) /\ pc' = "next" /\ r.depth = Depth /\ r \in Run
    BY <1>2, DepthFact DEF AddRun, GoTo, FlagTypes, Run
  <2> HIDE DEF r
  <2>2. runs'[Len(runs')] = r
    BY <2>1 DEF ControlTypes
  <2>3. \A h \in Host : box'[h].st # "absent" /\ served'[h] = Depth
    BY <1>0 DEF TrialServes, Remain, Placed
  <2> QED
    BY <1>0, <2>1, <2>2, <2>3 DEF TrialServes, Placed
<1> QED
  BY <1>1, <1>2 DEF Records

LEMMA ServesStep ==
    ASSUME TypeOK, ControlTypes, FlagTypes, MishapTypes, JobTypes, RunsCounted, JobsPlaced,
           TrialServes, [CampaignNext]_campaignVars
    PROVE  TrialServes'
<1> USE DEF Rest
<1>0. Ways
  BY WaysStep
<1>1. outcome = "complete" \/ pc \notin Cleanup \union {"stop", "arm"} => Remain
  BY RemainStep
<1>2. CASE outcome = "complete"
  BY <1>0, <1>1, <1>2, CompleteStays
<1>3. CASE outcome # "complete" /\ outcome' = outcome /\ UNCHANGED <<pc, at, trial, winner, runs>>
  BY <1>3, ServesStays
<1>4. CASE outcome # "complete" /\ ~(outcome' = outcome /\ UNCHANGED <<pc, at, trial, winner, runs>>)
  <2> USE <1>4
  <2>0. Controller \/ Signal \/ SshFails \/ Crash \/ StartupDeadline \/ DockerLook
    <3>1. ~UNCHANGED campaignVars
      BY DEF campaignVars, ctlVars
    <3>2. ASSUME NEW h \in Host PROVE ~(NodeMove(h) \/ NodeTrouble(h) \/ \E s \in Slot : JobMoves(h, s))
      BY DEF NodeMove, NodeTrouble, JobMoves, JobStep, JobDocker, ctlVars
    <3> QED
      BY <3>1, <3>2, NextSplits
  <2>1. \A h \in Host : job'[h][Cur] = Idle
    <3>1. CASE JobLeave
      BY <3>1, NothingAwaited
    <3>2. CASE JobIssue
      <4>1. job[Here][Cur] = Idle /\ pc \in {"launch", "stop", "failstop"}
            /\ UNCHANGED <<pc, at, trial, winner>>
        BY <3>2 DEF JobIssue
      <4>2. CASE UNCHANGED runs /\ outcome' = outcome
        BY <4>1, <4>2
      <4> QED
        BY <2>0, <4>1, <4>2 DEF Controller, ArmHost, Preflight, NextTrial, Select, StopPair,
           LaunchHost, ReadsGuard, FindsNoBox, FindsBox, LookPc, AsksApi, Probes, ReadsBack, Records,
           RecordsFailure, Fails, Disarms, Signal, SshFails, Crash, StartupDeadline, DockerLook
    <3> QED
      BY <2>0, <3>1, <3>2, ControllerMoves DEF JobMove
  <2>2. CASE ArmHost
    <3>1. outcome' = outcome /\ (pc' \in {"arm", "preflight"} \/ Raise)
      BY <2>2 DEF ArmHost, GoTo
    <3> QED
      BY <3>1, ServesNothing, ServesRaise
  <2>3. CASE Preflight
    <3>1. outcome' = outcome /\ trial' = 1 /\ (pc' = "next" \/ Raise)
      BY <2>3 DEF Preflight, GoTo, RunsCounted
    <3>2. CASE pc' = "next"
      BY <3>1, <3>2 DEF TrialServes
    <3> QED
      BY <3>1, <3>2, ServesRaise
  <2>4. CASE NextTrial
    BY <2>1, <2>4, ServesNothing, ServesLaunch DEF NextTrial, GoTo
  <2>5. CASE Select
    <3>1. Remain
      BY <1>1, <2>5 DEF Select, Cleanup
    <3> QED
      BY <1>0, <2>5, <3>1, ServesSelect
  <2>6. ASSUME StopNext, pc \in {"stop", "failstop"}, outcome' = outcome PROVE TrialServes'
    <3>1. GoTo("launch", N) \/ pc' \in {"stop", "failstop", "disarm"}
      BY <2>6 DEF StopNext, GoTo
    <3> QED
      BY <2>1, <2>6, <3>1, ServesNothing, ServesLaunch
  <2>7. CASE StopPair
    BY <2>6, <2>7 DEF StopPair
  <2>8. CASE LaunchHost
    <3>1. CASE Raise
      BY <2>8, <3>1, ServesRaise DEF LaunchHost
    <3>2. CASE job[Here][Cur].step = "ok" /\ GoTo("look", at)
      <4>1. /\ pc = "launch" /\ pc' = "look" /\ at' = at /\ outcome' = outcome
            /\ Depth' = Depth /\ at \in Nat /\ \A i \in 1..N : HostOrder[i] \in Host
        BY <2>8, <3>2, HostFact DEF LaunchHost, GoTo, Depth, Relaunching, ControlTypes
      <4>2. Remain
        BY <1>1, <4>1 DEF Cleanup
      <4>3. \A i \in 1..N : i >= at => i > at \/ i = at
        BY <4>1
      <4>4. \A i \in 1..N : i >= at => Placed(HostOrder[i], Depth)
        BY <3>2, <4>1, <4>3 DEF TrialServes, Here
      <4>5. \A i \in 1..N : i >= at => /\ box'[HostOrder[i]].st # "absent"
                                       /\ served'[HostOrder[i]] = Depth
        BY <4>1, <4>2, <4>4 DEF Remain, Placed
      <4> QED
        BY <4>1, <4>5 DEF TrialServes, Placed, N
    <3> QED
      BY <2>8, <3>1, <3>2 DEF LaunchHost
  <2>9. CASE ReadsGuard \/ FindsNoBox
    BY <2>9, ServesRaise DEF ReadsGuard, FindsNoBox
  <2>10. CASE FindsBox
    <3>1. Remain
      BY <1>1, <2>10 DEF FindsBox, LookPc, Cleanup
    <3> QED
      BY <1>0, <2>1, <2>10, <3>1, ServesFinds
  <2>11. CASE AsksApi
    <3>1. CASE Raise
      BY <2>11, <3>1, ServesRaise DEF AsksApi
    <3>2. CASE ~Raise
      <4>1. /\ pc = "api" /\ pc' \in {"probe", "poll"} /\ outcome' = outcome
            /\ Depth' = Depth
        BY <2>11, <3>2 DEF AsksApi, GoTo, Depth, Relaunching
      <4>2. Remain
        BY <1>1, <4>1 DEF Cleanup
      <4> QED
        BY <4>1, <4>2 DEF TrialServes, Remain, Placed
    <3> QED
      BY <3>1, <3>2
  <2>12. CASE Probes
    <3>1. CASE Raise
      BY <2>12, <3>1, ServesRaise DEF Probes
    <3>2. CASE ~Raise
      <4>1. /\ pc = "probe" /\ outcome' = outcome /\ Depth' = Depth
            /\ pc' = "collect" \/ (pc' = "readback" /\ Depth = winner /\ winner' = winner)
        BY <2>12, <3>2 DEF Probes, GoTo, Depth, Relaunching
      <4>2. Remain
        BY <1>1, <4>1 DEF Cleanup
      <4> QED
        BY <4>1, <4>2 DEF TrialServes, Remain, Placed
    <3> QED
      BY <3>1, <3>2
  <2>23. CASE ReadsBack
    <3>1. CASE Raise
      BY <2>23, <3>1, ServesRaise DEF ReadsBack
    <3>2. CASE ~Raise
      <4>1. pc = "readback" /\ pc' = "sum" /\ outcome' = outcome /\ winner' = winner
        BY <2>23, <3>2 DEF ReadsBack, GoTo
      <4>2. Remain
        BY <1>1, <4>1 DEF Cleanup
      <4> QED
        BY <4>1, <4>2 DEF TrialServes, Remain, Placed
    <3> QED
      BY <3>1, <3>2
  <2>24. CASE DockerLook
    BY <2>24, ServesRaise DEF DockerLook
  <2>13. CASE Records
    <3>1. Remain
      BY <1>1, <2>13 DEF Records, Cleanup
    <3> QED
      BY <2>13, <3>1, ServesRecords
  <2>14. CASE RecordsFailure
    <3>1. CASE Raise
      BY <2>14, <3>1, ServesRaise DEF RecordsFailure
    <3>2. CASE AddRun(FALSE, FALSE)
      <4> DEFINE r == [depth |-> Depth, ok |-> FALSE, sem |-> FALSE]
      <4>1. runs' = Append(runs, r) /\ pc' = "next" /\ ~r.ok /\ r \in Run
        BY <3>2, DepthFact DEF AddRun, GoTo, Run
      <4> HIDE DEF r
      <4>2. ~runs'[Len(runs')].ok
        BY <4>1 DEF ControlTypes
      <4> QED
        BY <2>14, <4>1, <4>2 DEF TrialServes, RecordsFailure
    <3> QED
      BY <2>14, <3>1, <3>2 DEF RecordsFailure
  <2>15. CASE Fails
    BY <2>15, ServesNothing DEF Fails, GoTo
  <2>16. ASSUME DisarmNext, outcome' = outcome PROVE TrialServes'
    BY <2>16, ServesNothing DEF DisarmNext, GoTo
  <2>17. ASSUME GoTo("dead", 1), outcome' = outcome PROVE TrialServes'
    BY <2>17, ServesNothing DEF GoTo
  <2>18. CASE Disarms
    BY <2>16, <2>18 DEF Disarms
  <2>19. CASE Signal
    BY <2>16, <2>17, <2>19, ServesRaise DEF Signal
  <2>20. CASE SshFails
    BY <2>6, <2>16, <2>20, ServesRaise DEF SshFails
  <2>21. CASE Crash
    BY <2>17, <2>21 DEF Crash
  <2>22. ~StartupDeadline
    BY DEF StartupDeadline
  <2> QED
    BY <2>0, <2>2, <2>3, <2>4, <2>5, <2>7, <2>8, <2>9, <2>10, <2>11, <2>12, <2>13, <2>14, <2>15,
       <2>18, <2>19, <2>20, <2>21, <2>22, <2>23, <2>24 DEF Controller
<1> QED
  BY <1>2, <1>3, <1>4

--------------------------------------------------------------------------------
(* The cleanup. *)

LEMMA OutcomeStep ==
    ASSUME ControlTypes, OutcomeKnown, [CampaignNext]_campaignVars
    PROVE  OutcomeKnown'
<1> USE DEF OutcomeKnown, Rest
<1>1. ASSUME Raise, outcome' = outcome PROVE OutcomeKnown'
  BY <1>1, RaiseFact
<1>2. ASSUME StopNext, pc \in {"stop", "failstop"}, outcome' = outcome PROVE OutcomeKnown'
  BY <1>2 DEF StopNext, GoTo
<1>3. ASSUME DisarmNext, pc = "disarm", outcome' = outcome PROVE OutcomeKnown'
  BY <1>3 DEF DisarmNext, GoTo
<1>4. CASE StopPair
  BY <1>2, <1>4 DEF StopPair
<1>5. CASE Disarms
  BY <1>3, <1>5 DEF Disarms
<1>6. CASE Fails
  BY <1>6 DEF Fails, GoTo
<1>7. CASE FindsBox
  BY <1>7 DEF FindsBox, GoTo, LookPc
<1>8. CASE ArmHost \/ Preflight \/ NextTrial \/ Select \/ LaunchHost
  BY <1>1, <1>8 DEF ArmHost, Preflight, NextTrial, Select, LaunchHost, GoTo
<1>9. CASE ReadsGuard \/ FindsNoBox \/ AsksApi \/ Probes \/ ReadsBack \/ Records \/ RecordsFailure
  BY <1>1, <1>9 DEF ReadsGuard, FindsNoBox, AsksApi, Probes, ReadsBack, Records, RecordsFailure, AddRun, GoTo
<1>10. CASE Signal
  BY <1>1, <1>3, <1>10 DEF Signal, GoTo
<1>11. CASE SshFails
  BY <1>1, <1>2, <1>3, <1>11 DEF SshFails
<1>12. CASE Crash \/ StartupDeadline \/ DockerLook
  BY <1>1, <1>12 DEF Crash, StartupDeadline, DockerLook, GoTo
<1>13. ASSUME NEW h \in Host, NodeMove(h) \/ NodeTrouble(h) \/ \E s \in Slot : JobMoves(h, s)
       PROVE  OutcomeKnown'
  BY <1>13 DEF NodeMove, NodeTrouble, JobMoves, JobStep, JobDocker, ctlVars
<1>14. CASE UNCHANGED campaignVars
  BY <1>14 DEF campaignVars, ctlVars
<1> QED
  BY <1>4, <1>5, <1>6, <1>7, <1>8, <1>9, <1>10, <1>11, <1>12, <1>13, <1>14, NextSplits
  DEF Controller

(* How a campaign that nobody interrupted goes through its cleanup.        *)
CleanupWays ==
    \/ UNCHANGED <<pc, at, outcome>>
    \/ pc = "fail" /\ pc' = "failstop" /\ at' = 1
    \/ /\ pc = "failstop" /\ Finished(job[Here][Cur]) /\ outcome' = outcome
       /\ \/ at < N /\ pc' = "failstop" /\ at' = at + 1
          \/ at = N /\ pc' = "disarm"
    \/ pc' = "disarm" /\ outcome' = "complete"
    \/ pc \in {"disarm", "end"} /\ pc' \in {"disarm", "end"} /\ outcome' = outcome

LEMMA CleanupGoes ==
    ASSUME ControlTypes, MishapTypes, [CampaignNext]_campaignVars, signals' + faults' = 0,
           pc' \in {"failstop", "disarm", "end"}
    PROVE  CleanupWays
<1> USE DEF Rest, CleanupWays
<1>0. at \in Nat /\ at <= N /\ N \in Nat
  BY HostFact DEF ControlTypes
<1>1. ASSUME Raise PROVE pc = "failstop"
  BY <1>1, RaiseFact
<1>2. CASE StopPair
  BY <1>0, <1>2 DEF StopPair, StopNext, GoTo
<1>3. CASE Disarms
  BY <1>3 DEF Disarms, DisarmNext, GoTo
<1>4. CASE Fails
  BY <1>4 DEF Fails, GoTo
<1>5. CASE FindsBox
  BY <1>5 DEF FindsBox, GoTo, LookPc
<1>6. CASE ArmHost \/ Preflight \/ NextTrial \/ Select \/ LaunchHost
  BY <1>1, <1>6 DEF ArmHost, Preflight, NextTrial, Select, LaunchHost, GoTo
<1>7. CASE ReadsGuard \/ FindsNoBox \/ AsksApi \/ Probes \/ ReadsBack \/ Records \/ RecordsFailure
  BY <1>1, <1>7 DEF ReadsGuard, FindsNoBox, LookPc, AsksApi, Probes, ReadsBack, Records, RecordsFailure,
     AddRun, GoTo
<1>8. ~Signal /\ ~SshFails
  BY DEF Signal, SshFails, MishapTypes
<1>9. CASE Crash \/ StartupDeadline \/ DockerLook
  BY <1>1, <1>9 DEF Crash, StartupDeadline, DockerLook, LookPc, GoTo
<1>10. ASSUME NEW h \in Host, NodeMove(h) \/ NodeTrouble(h) \/ \E s \in Slot : JobMoves(h, s)
       PROVE  CleanupWays
  BY <1>10 DEF NodeMove, NodeTrouble, JobMoves, JobStep, JobDocker, ctlVars
<1>11. CASE UNCHANGED campaignVars
  BY <1>11 DEF campaignVars, ctlVars
<1> QED
  BY <1>2, <1>3, <1>4, <1>5, <1>6, <1>7, <1>8, <1>9, <1>10, <1>11, NextSplits DEF Controller

(* Where no process launches, nothing that is down comes up.               *)
LEMMA DownStays ==
    ASSUME TypeOK, ControlTypes, JobTypes, [CampaignNext]_campaignVars, NEW h \in Host,
           box[h].st # "running", \A s \in Slot : job[h][s].step \notin LaunchSteps
    PROVE  box'[h].st # "running"
<1>1. CASE Controller \/ Signal \/ SshFails \/ Crash \/ StartupDeadline \/ DockerLook
  <2>1. CASE UNCHANGED box
    BY <2>1
  <2>2. CASE ArmInspects(Here)
    <3>1. UNCHANGED box \/ (box' = [box EXCEPT ![Here].st = "absent"])
      BY <2>2 DEF ArmInspects, BoxRemoved
    <3> QED
      BY <2>1, <3>1, HereFact, BoxFact
  <2> QED
    BY <1>1, <2>1, <2>2, ControllerBox
<1>2. ASSUME NEW g \in Host, NodeMove(g) \/ NodeTrouble(g) PROVE box'[h].st # "running"
  BY <1>2, NodeBox
<1>3. ASSUME NEW g \in Host, NEW r \in Slot, JobMoves(g, r) PROVE box'[h].st # "running"
  <2>1. "run" \in LaunchSteps
    BY DEF LaunchSteps
  <2> QED
    BY <1>3, <2>1, JobBox
<1>4. CASE UNCHANGED campaignVars
  BY <1>4 DEF campaignVars, allVars, vars
<1> QED
  BY <1>1, <1>2, <1>3, <1>4, NextSplits

(* A process that stops the container is past docker stop only when the    *)
(* container is down.                                                      *)
LEMMA StopTakesDown ==
    ASSUME TypeOK, JobTypes, Owned, NEW h \in Host, NEW s \in Slot, JobStep(h, s),
           job[h][s].step \in StopSteps, job'[h][s].step \in {"rm", "ok", "bad"},
           job[h][s].step = "rm" => box[h].st # "running"
    PROVE  box'[h].st # "running"
<1>1. CASE JobInspects(h, s)
  <2>1. box[h].st = "absent" /\ UNCHANGED box
    <3>1. ~StepJob(h, s, "stop")
      BY StepJobFact
    <3> QED
      BY <1>1, <3>1 DEF JobInspects, Owned
  <2> QED
    BY <2>1
<1>2. CASE JobStops(h, s)
  BY <1>2, BoxFact DEF JobStops, BoxStops
<1>3. CASE JobRemoves(h, s)
  BY <1>3, BoxFact DEF JobRemoves, BoxRemoved
<1>4. ~JobChecks(h, s) /\ ~JobRuns(h, s) /\ ~JobReports(h, s)
  BY DEF JobChecks, JobRuns, JobReports, StopSteps
<1> QED
  BY <1>1, <1>2, <1>3, <1>4 DEF JobStep

LEMMA StraysStep ==
    ASSUME ControlTypes, MishapTypes, JobTypes, JobsPlaced, StraysIdle, [CampaignNext]_campaignVars
    PROVE  StraysIdle'
<1> SUFFICES ASSUME signals' + faults' = 0, pc' # "dead", NEW h \in Host, NEW s \in Slot \ {Cur}
             PROVE  job'[h][s] = Idle
  BY DEF StraysIdle
<1>1. CASE pc = "dead"
  <2>1. UNCHANGED pc
    BY <1>1, NextSplits DEF JobMoves, JobDocker, Controller, ArmHost, Preflight, NextTrial, Select, StopPair, LaunchHost,
       ReadsGuard, FindsNoBox, FindsBox, LookPc, AsksApi, Probes, ReadsBack, Records, RecordsFailure, Fails,
       Disarms, Signal, SshFails, Crash, StartupDeadline, DockerLook, NodeMove, NodeTrouble, JobStep, ctlVars,
       campaignVars
  <2> QED
    BY <1>1, <2>1
<1>2. CASE pc # "dead"
  <2>0. job[h][s] = Idle
    BY <1>2, MishapStep DEF StraysIdle, MishapTypes
  <2>1. CASE Controller \/ Signal \/ SshFails \/ Crash \/ StartupDeadline \/ DockerLook
    <3>1. CASE JobIssue
      BY <2>0, <3>1, IssuedJobs
    <3>2. CASE JobLeave
      BY <2>0, <3>2, LeftJobs
    <3> QED
      BY <2>1, <3>1, <3>2, ControllerMoves DEF JobMove
  <2>2. ASSUME NEW g \in Host, NEW r \in Slot, JobMoves(g, r) PROVE job'[h][s] = Idle
    BY <2>0, <2>2, JobSteps, IdleFact
  <2>3. CASE UNCHANGED job
    BY <2>0, <2>3
  <2>4. ASSUME NEW g \in Host, NodeMove(g) \/ NodeTrouble(g) PROVE UNCHANGED job
    BY <2>4 DEF NodeMove, NodeTrouble, jobVars
  <2> QED
    BY <2>1, <2>2, <2>3, <2>4, NextSplits DEF campaignVars, jobVars
<1> QED
  BY <1>1, <1>2

(* In the cleanup of a campaign that nobody interrupted, nothing launches. *)
LEMMA NothingLaunches ==
    ASSUME JobsPlaced, StraysIdle, signals + faults = 0, pc \in {"failstop", "disarm", "end"}
    PROVE  \A h \in Host : \A s \in Slot : job[h][s].step \notin LaunchSteps
<1> SUFFICES ASSUME NEW h \in Host, NEW s \in Slot PROVE job[h][s].step \notin LaunchSteps
  OBVIOUS
<1>1. CASE s = Cur
  BY <1>1, IdleFact DEF JobsPlaced, Awaited, LaunchSteps
<1>2. CASE s # Cur
  BY <1>2, IdleFact DEF StraysIdle, LaunchSteps
<1> QED
  BY <1>1, <1>2

LEMMA UnstoppedGrows ==
    ASSUME [CampaignNext]_campaignVars
    PROVE  unstopped \subseteq unstopped'
<1>1. CASE Controller
  BY <1>1 DEF Controller, ArmHost, Preflight, NextTrial, Select, StopPair, LaunchHost, ReadsGuard,
     FindsNoBox, FindsBox, AsksApi, Probes, ReadsBack, Records, RecordsFailure, Fails, Disarms, envVars
<1>2. CASE Signal \/ SshFails \/ Crash \/ StartupDeadline \/ DockerLook
  BY <1>2 DEF Signal, SshFails, Crash, StartupDeadline, DockerLook, envVars
<1>3. ASSUME NEW h \in Host, NodeMove(h) \/ NodeTrouble(h) PROVE UNCHANGED unstopped
  BY <1>3 DEF NodeMove, NodeTrouble, envVars
<1>4. ASSUME NEW h \in Host, NEW s \in Slot, JobMoves(h, s) PROVE unstopped \subseteq unstopped'
  <2>1. CASE JobStep(h, s)
    BY <2>1 DEF JobStep, envVars
  <2>2. CASE JobDocker(h, s)
    <3>1. unstopped' = IF pc = "failstop" /\ s = Cur THEN unstopped \union {h} ELSE unstopped
      BY <2>2 DEF JobDocker, JobDockerFails
    <3> QED
      BY <3>1
  <2> QED
    BY <1>4, <2>1, <2>2 DEF JobMoves
<1>5. CASE UNCHANGED campaignVars
  BY <1>5 DEF campaignVars, envVars
<1> QED
  BY <1>1, <1>2, <1>3, <1>4, <1>5, NextSplits

(* A node that the cleanup is done with stays so, while nothing launches.  *)
LEMMA ClearedStays ==
    ASSUME TypeOK, ControlTypes, JobTypes, [CampaignNext]_campaignVars, NEW h \in Host,
           Cleared(h), \A s \in Slot : job[h][s].step \notin LaunchSteps
    PROVE  Cleared(h)'
<1>1. CASE h \in unstopped
  BY <1>1, UnstoppedGrows DEF Cleared
<1>2. CASE ~Running(h)
  BY <1>2, DownStays DEF Cleared, Running
<1> QED
  BY <1>1, <1>2 DEF Cleared

(* The host that the cleanup is at.                                        *)
LEMMA HereGoesDown ==
    ASSUME TypeOK, ControlTypes, MishapTypes, JobTypes, Owned, JobsPlaced, StraysIdle, PairDown,
           [CampaignNext]_campaignVars, signals + faults = 0,
           pc = "failstop", pc' = pc, at' = at, job'[Here][Cur].step \in {"rm", "ok", "bad"}
    PROVE  Here \in unstopped' \/ box'[Here].st # "running"
<1>0. Here \in Host /\ Cur \in Slot
  BY HereFact, SlotFact
<1>1. CASE job[Here][Cur].step \in {"rm", "ok", "bad"}
  <2>1. Cleared(Here)
    BY <1>1 DEF PairDown
  <2>2. \A s \in Slot : job[Here][s].step \notin LaunchSteps
    BY <1>0, NothingLaunches
  <2>3. \A h \in Host : Cleared(h) /\ (\A s \in Slot : job[h][s].step \notin LaunchSteps)
                              => h \in unstopped' \/ box'[h].st # "running"
    BY ClearedStays DEF Cleared, Running
  <2> QED
    BY <1>0, <2>1, <2>2, <2>3
<1>2. CASE job[Here][Cur].step \notin {"rm", "ok", "bad"}
  <2>1. CASE Controller \/ Signal \/ SshFails \/ Crash \/ StartupDeadline \/ DockerLook
    <3>1. CASE JobIssue
      BY <3>1, IssuedJobs
    <3>2. CASE JobLeave
      BY <1>0, <3>2, NothingAwaited, IdleFact
    <3> QED
      BY <2>1, <3>1, <3>2, ControllerMoves DEF JobMove
  <2>2. ASSUME NEW g \in Host, NEW r \in Slot, JobMoves(g, r)
        PROVE  Here \in unstopped' \/ box'[Here].st # "running"
    <3>1. g = Here /\ r = Cur
      BY <1>0, <1>2, <2>2, JobSteps
    <3>2. job[Here][Cur].step \in StopSteps
      <4>1. job[Here][Cur].step # "idle" /\ job[Here][Cur] \in Job
        BY <1>0, <2>2, <3>1, JobSteps DEF JobTypes
      <4>2. job[Here][Cur].step \notin LaunchSteps
        BY <1>0, NothingLaunches
      <4> QED
        BY <1>2, <4>1, <4>2 DEF Job, LaunchSteps, StopSteps
    <3>3. CASE JobDocker(g, r)
      <4>1. unstopped' = unstopped \union {g}
        BY <3>1, <3>3 DEF JobDocker, JobDockerFails
      <4> QED
        BY <3>1, <4>1
    <3>4. CASE JobStep(g, r)
      <4>1. JobStep(Here, Cur)
        BY <3>1, <3>4
      <4> QED
        BY <1>0, <1>2, <3>2, <4>1, StopTakesDown
    <3> QED
      BY <2>2, <3>3, <3>4 DEF JobMoves
  <2>3. ASSUME UNCHANGED job PROVE FALSE
    BY <1>2, <2>3
  <2>4. ASSUME NEW g \in Host, NodeMove(g) \/ NodeTrouble(g) PROVE UNCHANGED job
    BY <2>4 DEF NodeMove, NodeTrouble, jobVars
  <2> QED
    BY <2>1, <2>2, <2>3, <2>4, NextSplits DEF campaignVars, jobVars
<1> QED
  BY <1>1, <1>2

DownNext(h) == h \in unstopped' \/ box'[h].st # "running"

LEMMA PairDownStep ==
    ASSUME TypeOK, ControlTypes, MishapTypes, JobTypes, Owned, JobsPlaced, CleanupClears,
           [CampaignNext]_campaignVars
    PROVE  PairDown'
<1> USE DEF CleanupClears
<1>1. CASE signals' + faults' # 0 \/ pc' \notin {"failstop", "disarm", "end"}
  BY <1>1 DEF PairDown
<1>2. CASE signals' + faults' = 0 /\ pc' \in {"failstop", "disarm", "end"}
  <2>0. /\ signals + faults = 0 /\ CleanupWays
        /\ at \in Nat /\ N \in Nat /\ at <= N /\ \A i \in 1..N : HostOrder[i] \in Host
    BY <1>2, MishapStep, CleanupGoes, HostFact DEF MishapTypes, ControlTypes
  <2>1. ASSUME pc \in {"failstop", "disarm", "end"}, NEW h \in Host, Cleared(h)
        PROVE  DownNext(h)
    BY <2>0, <2>1, NothingLaunches, ClearedStays DEF Cleared, Running, DownNext
  <2>2. CASE UNCHANGED <<pc, at, outcome>>
    <3>1. Here' = Here
      BY <2>2 DEF Here
    <3>2. pc = "failstop" /\ job'[Here][Cur].step \in {"rm", "ok", "bad"} => DownNext(Here)
      BY <2>0, <2>2, HereGoesDown DEF DownNext
    <3>3. pc = "failstop" => \A i \in 1..N : i < at => DownNext(HostOrder[i])
      BY <2>0, <2>1 DEF PairDown
    <3>4. pc \in {"disarm", "end"} /\ outcome = "failed_or_interrupted" =>
              \A h \in Host : DownNext(h)
      BY <2>0, <2>1 DEF PairDown
    <3> QED
      BY <2>2, <3>1, <3>2, <3>3, <3>4 DEF PairDown, Cleared, Running, DownNext, N
  <2>3. ASSUME pc' = "failstop" /\ ~UNCHANGED <<pc, at, outcome>>
        PROVE  job'[Here'][Cur].step = "idle"
    <3>1. Controller \/ Signal \/ SshFails \/ Crash \/ StartupDeadline \/ DockerLook
      <4>1. ~UNCHANGED campaignVars
        BY <2>3 DEF campaignVars, ctlVars
      <4>2. ASSUME NEW h \in Host
            PROVE  ~(NodeMove(h) \/ NodeTrouble(h) \/ \E s \in Slot : JobMoves(h, s))
        BY <2>3 DEF NodeMove, NodeTrouble, JobMoves, JobStep, JobDocker, ctlVars
      <4> QED
        BY <4>1, <4>2, NextSplits
    <3>2. ~JobIssue
      BY <2>0, <2>3 DEF JobIssue, CleanupWays
    <3>3. \A h \in Host : job'[h][Cur] = Idle
      BY <3>1, <3>2, ControllerMoves, NothingAwaited DEF JobMove
    <3>4. Here' \in Host
      BY WaysStep, HostFact DEF Ways, Here
    <3> QED
      BY <3>3, <3>4, IdleFact
  <2>4. CASE pc = "fail" /\ pc' = "failstop" /\ at' = 1
    <3>1. \A i \in 1..N : ~(i < 1)
      OBVIOUS
    <3> QED
      BY <2>3, <2>4, <3>1 DEF PairDown, N
  <2>5. CASE pc = "failstop" /\ Finished(job[Here][Cur]) /\ outcome' = outcome
    <3>1. \A i \in 1..N : i <= at => Cleared(HostOrder[i])
      <4>1. Cleared(Here)
        BY <2>0, <2>5 DEF PairDown, Finished
      <4>2. \A i \in 1..N : i <= at => i < at \/ i = at
        BY <2>0
      <4> QED
        BY <2>0, <2>5, <4>1, <4>2 DEF PairDown, Here
    <3>2. \A i \in 1..N : i <= at => DownNext(HostOrder[i])
      BY <2>0, <2>1, <2>5, <3>1
    <3>3. CASE at < N /\ pc' = "failstop" /\ at' = at + 1
      <4>1. \A i \in 1..N : i < at + 1 => i <= at
        BY <2>0
      <4>2. job'[Here'][Cur].step = "idle"
        BY <2>0, <2>3, <3>3
      <4> QED
        BY <3>2, <3>3, <4>1, <4>2 DEF PairDown, Cleared, Running, DownNext, N
    <3>4. CASE at = N /\ pc' = "disarm"
      <4>1. \A i \in 1..N : i <= N
        BY <2>0
      <4>2. \A h \in Host : DownNext(h)
        BY <3>2, <3>4, <4>1, HostFact
      <4> QED
        BY <3>4, <4>2 DEF PairDown, Cleared, Running, DownNext
    <3>5. CASE UNCHANGED <<pc, at, outcome>>
      BY <2>2, <3>5
    <3> QED
      BY <2>0, <2>5, <3>3, <3>4, <3>5 DEF CleanupWays, OutcomeKnown
  <2>6. CASE pc' = "disarm" /\ outcome' = "complete"
    BY <2>6 DEF PairDown
  <2>7. CASE pc \in {"disarm", "end"} /\ pc' \in {"disarm", "end"} /\ outcome' = outcome
    <3>1. outcome = "failed_or_interrupted" => \A h \in Host : DownNext(h)
      BY <2>0, <2>1, <2>7 DEF PairDown
    <3> QED
      BY <2>7, <3>1 DEF PairDown, Cleared, Running, DownNext
  <2> QED
    BY <2>0, <2>2, <2>4, <2>5, <2>6, <2>7 DEF CleanupWays
<1> QED
  BY <1>1, <1>2

(* The death of the controller. *)
LEMMA DeadStays ==
    ASSUME pc = "dead", [CampaignNext]_campaignVars
    PROVE  UNCHANGED <<pc, outcome>>
<1>1. CASE Controller
  BY <1>1 DEF Controller, ArmHost, Preflight, NextTrial, Select, StopPair, LaunchHost, ReadsGuard,
     FindsNoBox, FindsBox, LookPc, AsksApi, Probes, ReadsBack, Records, RecordsFailure, Fails, Disarms
<1>2. ~Signal /\ ~Crash /\ ~StartupDeadline /\ ~SshFails /\ ~DockerLook
  BY DEF Signal, SshFails, Crash, StartupDeadline, DockerLook, LookPc
<1>3. ASSUME NEW h \in Host, NodeMove(h) \/ NodeTrouble(h) \/ \E s \in Slot : JobMoves(h, s)
      PROVE  UNCHANGED <<pc, outcome>>
  BY <1>3 DEF NodeMove, NodeTrouble, JobMoves, JobStep, JobDocker, ctlVars
<1>4. CASE UNCHANGED campaignVars
  BY <1>4 DEF campaignVars, ctlVars
<1> QED
  BY <1>1, <1>2, <1>3, <1>4, NextSplits

LEMMA DeathComes ==
    ASSUME pc # "dead", pc' = "dead", [CampaignNext]_campaignVars
    PROVE  /\ outcome' = outcome /\ pc # "end"
           /\ \/ Crashes /\ UNCHANGED <<signals, faults>>
              \/ signals' = signals + 1 /\ faults' = faults
<1> USE DEF Rest, envVars
<1>1. ~Raise
  BY RaiseFact
<1>2. CASE Controller
  BY <1>1, <1>2 DEF Controller, ArmHost, Preflight, NextTrial, Select, StopPair, StopNext, LaunchHost,
     ReadsGuard, FindsNoBox, FindsBox, AsksApi, Probes, ReadsBack, Records, RecordsFailure, AddRun, Fails,
     Disarms, DisarmNext, GoTo
<1>3. CASE Signal \/ Crash
  BY <1>3 DEF Signal, Crash
<1>4. CASE SshFails \/ StartupDeadline \/ DockerLook
  BY <1>1, <1>4 DEF SshFails, StartupDeadline, DockerLook, StopNext, DisarmNext, GoTo
<1>5. ASSUME NEW h \in Host, NodeMove(h) \/ NodeTrouble(h) \/ \E s \in Slot : JobMoves(h, s)
      PROVE  FALSE
  BY <1>5 DEF NodeMove, NodeTrouble, JobMoves, JobStep, JobDocker, ctlVars
<1>6. CASE UNCHANGED campaignVars
  BY <1>6 DEF campaignVars, ctlVars
<1> QED
  BY <1>2, <1>3, <1>4, <1>5, <1>6, NextSplits

LEMMA SumFact ==
    ASSUME NEW a \in Nat, NEW b \in {0, 1}, b >= a
    PROVE  a = 0 \/ (a = 1 /\ b # 0)
  OBVIOUS

LEMMA DeathStep ==
    ASSUME TypeOK, ArmTypes, ControlTypes, MishapTypes, JobTypes, Owned, GuardsPlaced, JobsPlaced,
           CleanupClears, DeathKnows, [CampaignNext]_campaignVars
    PROVE  DeathKnows'
<1> SUFFICES ASSUME pc' = "dead", outcome' # "complete", OneInterruption'
             PROVE  \/ \A h \in Host : ~done'[h]
                    \/ \A h \in Host : /\ DownNext(h)
                                       /\ \A s \in Slot : job'[h][s].step \notin LaunchSteps
  BY DEF DeathKnows, Cleared, Running, DownNext
<1>0. signals \in Nat /\ faults \in Nat /\ signals' \in Nat /\ faults' \in Nat
  BY MishapStep DEF MishapTypes
<1>a. signals' + faults' = 0 \/ (~Crashes /\ signals' + faults' = 1)
  BY Zenon DEF OneInterruption
<1>b. /\ signals + faults \in Nat /\ signals' + faults' \in Nat
      /\ signals' + faults' >= signals + faults
  BY MishapStep DEF MishapTypes
<1>1. ASSUME pc # "launch",
             \A h \in Host : /\ Cleared(h)
                             /\ \A s \in Slot : job[h][s].step \notin LaunchSteps
      PROVE  \A h \in Host : /\ DownNext(h)
                             /\ \A s \in Slot : job'[h][s].step \notin LaunchSteps
  <2>1. \A h \in Host : DownNext(h)
    BY <1>1, ClearedStays DEF Cleared, Running, DownNext
  <2> QED
    BY <1>1, <2>1, LaunchesFollow
<1>2. ASSUME pc # "disarm", \A h \in Host : ~done[h] PROVE \A h \in Host : ~done'[h]
  BY <1>2, ArmKinds, KindArms
<1>3. CASE pc = "dead"
  <2>1. outcome # "complete"
    BY <1>3, DeadStays
  <2>2. OneInterruption
    <3>1. signals' + faults' \in {0, 1}
      BY <1>a, Zenon
    <3>2. signals + faults = 0 \/ (signals + faults = 1 /\ signals' + faults' # 0)
      BY <1>b, <3>1, SumFact
    <3> QED
      BY <1>a, <3>2, Zenon DEF OneInterruption
  <2> QED
    BY <1>1, <1>2, <1>3, <2>1, <2>2 DEF DeathKnows
<1>4. CASE pc \notin {"disarm", "end", "dead"}
  BY <1>2, <1>4 DEF GuardsPlaced
<1>5. CASE pc \in {"disarm", "end"}
  <2>0. /\ outcome' = outcome /\ pc # "end"
        /\ \/ Crashes /\ UNCHANGED <<signals, faults>>
           \/ signals' = signals + 1 /\ faults' = faults
    BY <1>5, DeathComes, Zenon
  <2>1. outcome' = outcome /\ pc = "disarm" /\ signals + faults = 0
    <3>1. CASE Crashes /\ UNCHANGED <<signals, faults>>
      <4>1. signals' + faults' = 0
        BY <1>a, <3>1, Zenon
      <4> QED
        BY <1>5, <2>0, <3>1, <4>1
    <3>2. CASE signals' = signals + 1 /\ faults' = faults
      <4>1. signals' + faults' \in {0, 1}
        BY <1>a, Zenon
      <4> QED
        BY <1>0, <1>5, <2>0, <3>2, <4>1
    <3> QED
      BY <2>0, <3>1, <3>2
  <2>2. outcome = "failed_or_interrupted"
    BY <2>1 DEF CleanupClears, OutcomeKnown, ControlTypes
  <2>3. \A h \in Host : Cleared(h)
    BY <2>1, <2>2 DEF CleanupClears, PairDown
  <2>4. \A h \in Host : \A s \in Slot : job[h][s].step \notin LaunchSteps
    BY <2>1, NothingLaunches DEF CleanupClears
  <2> QED
    BY <1>1, <2>1, <2>3, <2>4
<1> QED
  BY <1>3, <1>4, <1>5

--------------------------------------------------------------------------------
(* The invariant. *)

LEMMA CampaignInitInv == CampaignInit => CampaignInv
<1> SUFFICES ASSUME CampaignInit PROVE CampaignInv
  OBVIOUS
<1> USE DEF CampaignInit
<1>1. GuardInv /\ TypeOK
  BY InitInv DEF ArmInit, GuardInv
<1>2. /\ \A h \in Host : /\ box[h].st = "absent" /\ box[h].own /\ ~done[h]
                         /\ arm[h] = "out" /\ ~armed[h]
      /\ \A h \in Host : \A p \in Pid : gpc[h][p] = "none"
  <2>1. \A h \in Host : box[h] \in LeftoverBox /\ box[h].st = "absent"
    BY DEF ArmInit, Init
  <2>2. \A h \in Host : box[h].own
    <3>1. ASSUME NEW b \in LeftoverBox, b.st = "absent" PROVE b.own
      BY <3>1 DEF LeftoverBox
    <3> HIDE DEF CampaignInit
    <3> QED
      BY <2>1, <3>1
  <2>3. /\ \A h \in Host : ~done[h] /\ arm[h] = "out" /\ ~armed[h]
        /\ \A h \in Host : \A p \in Pid : gpc[h][p] = "none"
    BY DEF ArmInit, Init
  <2> QED
    BY <2>1, <2>2, <2>3
<1>3. \A h \in Host : \A s \in Slot : job[h][s] = Idle
  OBVIOUS
<1>4. CampaignTypeOK
  <2>1. ArmTypeOK
    <3>1. 1 \in 0..MaxCampaigns
      BY MaxCampaignsAssumption
    <3> QED
      BY <1>1, <3>1 DEF ArmInit, ArmTypeOK, ArmPc
  <2>2. ControlTypes
    <3>1. 1 \in 1..N /\ 1 \in 1..Len(Arms) + 1 /\ 0 <= Len(Arms) + 1
      BY ArmsAssumption, HostFact
    <3>2. runs = <<>> /\ <<>> \in Seq(Run) /\ Len(<<>>) = 0
      OBVIOUS
    <3>3. pc \in CtlPc /\ outcome = "none" /\ winner \in Depths
      BY NoDepthFact DEF CtlPc
    <3>4. at = 1 /\ trial = 1
      OBVIOUS
    <3> HIDE DEF CampaignInit
    <3> QED
      BY <3>1, <3>2, <3>3, <3>4 DEF ControlTypes
  <2>3. FlagTypes /\ MishapTypes
    <3>1. FlagTypes
      BY DEF FlagTypes
    <3>2. signals = 0 /\ faults = 0 /\ troubles = 0 /\ unstopped = {}
      OBVIOUS
    <3> HIDE DEF CampaignInit
    <3>3. MishapTypes
      BY <3>2, BoundsAssumption DEF MishapTypes
    <3> QED
      BY <3>1, <3>3
  <2>4. JobTypes
    BY IdleFact, NoDepthFact DEF JobTypes
  <2> QED
    BY <2>1, <2>2, <2>3, <2>4, TypeParts
<1>5. (\A h \in Host : NodeKnows(h)) /\ Owned
  BY <1>2 DEF NodeKnows, Owned
<1>6. GuardsPlaced
  <2>1. pc = "arm" /\ at = 1
    OBVIOUS
  <2>2. \A i \in 1..N : ~(i < 1)
    BY HostFact
  <2>3. \A h \in Host : \A s \in Slot : job[h][s].step \notin LaunchSteps
    BY <1>3, IdleFact DEF LaunchSteps
  <2> HIDE DEF CampaignInit
  <2> QED
    BY <1>2, <2>1, <2>2, <2>3 DEF GuardsPlaced, Body
<1>7. RunsCounted
  BY ArmsAssumption DEF RunsCounted, Relaunching
<1>8. JobsPlaced
  BY <1>3, SlotFact, IdleFact DEF JobsPlaced, Awaited, JobShape, StopSteps
<1>9. HeartKnows /\ BlindKnows /\ TrialServes /\ DeathKnows
  BY <1>2 DEF HeartKnows, BlindKnows, TrialServes, DeathKnows
<1>10. CleanupClears
  BY <1>3 DEF CleanupClears, OutcomeKnown, StraysIdle, PairDown
<1> QED
  BY <1>1, <1>4, <1>5, <1>6, <1>7, <1>8, <1>9, <1>10 DEF CampaignInv

LEMMA CampaignStepInv == CampaignInv /\ [CampaignNext]_campaignVars => CampaignInv'
<1> SUFFICES ASSUME CampaignInv, [CampaignNext]_campaignVars PROVE CampaignInv'
  OBVIOUS
<1>0. /\ CampaignTypeOK /\ GuardInv /\ (\A h \in Host : NodeKnows(h)) /\ Owned /\ GuardsPlaced
      /\ RunsCounted /\ JobsPlaced /\ HeartKnows /\ BlindKnows /\ TrialServes /\ CleanupClears
      /\ DeathKnows
  BY DEF CampaignInv
<1>1. /\ ControlTypes /\ FlagTypes /\ MishapTypes /\ JobTypes /\ ArmTypeOK /\ ArmTypes /\ TypeOK
      /\ FileOfGuard
  BY <1>0, TypesGive DEF GuardInv
<1>2. ArmKind
  BY <1>0, <1>1, ArmKinds
<1>3. GuardInv' /\ TypeOK'
  <2>1. [Next]_vars
    BY <1>0, <1>1, <1>2, KindIsNext
  <2>2. GuardInv'
    BY <1>0, <2>1, StepInv
  <2> QED
    BY <2>2 DEF GuardInv
<1>4. ControlTypes' /\ RunsCounted' /\ FlagTypes' /\ MishapTypes' /\ JobTypes'
  BY <1>0, <1>1, ControlStep, FlagStep, MishapStep, JobTypesStep
<1>5. ArmTypeOK'
  <2>1. [ArmNext]_allVars
    BY <1>1, <1>2, KindIsArmNext
  <2>2. ArmTypes'
    <3>1. \A h \in Host : armed[h] => launched[h] # NoPid
      BY <1>0 DEF NodeKnows
    <3> QED
      BY <1>1, <2>1, <3>1, ArmStepTypes
  <2>3. campaigns' = campaigns
    BY <1>2 DEF ArmKind, ArmObtains, ArmInspects, ArmChecksOld, ArmSpawns, ArmRecords,
       ArmSeesArmed, ArmRaises, DisarmTouches, NodeMoves, armVars, allVars
  <2> QED
    BY <1>1, <1>3, <2>2, <2>3 DEF ArmTypeOK, ArmTypes
<1>6. CampaignTypeOK'
  BY <1>4, <1>5, TypePartsNext
<1>7. \A h \in Host : NodeKnows(h)'
  BY <1>0, <1>1, <1>2, NodesKnowStep
<1>8. Owned' /\ GuardsPlaced' /\ JobsPlaced'
  BY <1>0, <1>1, <1>4, OwnedStep, GuardsPlacedStep, JobsPlacedStep
<1>13. HeartKnows'
  BY <1>0, <1>1, <1>2, HeartStep
<1>9. BlindKnows'
  <2>1. LapsesStay
    <3>1. pc \in Body => \A h \in Host : arm[h] = "held"
      BY <1>0 DEF GuardsPlaced
    <3> QED
      BY <1>0, <1>1, <1>2, <3>1, LapsedStays DEF LapsesStay
  <2>2. pc \in Body => outcome # "complete"
    BY <1>0 DEF TrialServes, Body
  <2> QED
    BY <1>0, <1>1, <2>1, <2>2, BlindStep
<1>10. TrialServes'
  BY <1>0, <1>1, ServesStep
<1>11. CleanupClears'
  BY <1>0, <1>1, OutcomeStep, StraysStep, PairDownStep DEF CleanupClears
<1>12. DeathKnows'
  BY <1>0, <1>1, DeathStep
<1> QED
  BY <1>3, <1>4, <1>6, <1>7, <1>8, <1>9, <1>10, <1>11, <1>12, <1>13 DEF CampaignInv

(***************************************************************************)
(* The campaign and its two nodes keep the invariant.                      *)
(***************************************************************************)
THEOREM CampaignInvariant == CampaignSpec => []CampaignInv
<1>1. CampaignInv /\ [CampaignNext]_campaignVars => CampaignInv'
  BY CampaignStepInv
<1> QED
  BY CampaignInitInv, <1>1, PTL DEF CampaignSpec

(***************************************************************************)
(* Every variable of the campaign keeps its type, for any number of trials *)
(* and mishaps: in particular a process that an interruption leaves behind *)
(* always finds a place of its own.                                        *)
(***************************************************************************)
THEOREM CampaignTypes == CampaignSpec => []CampaignTypeOK
<1>1. CampaignInv => CampaignTypeOK
  BY DEF CampaignInv
<1> QED
  BY CampaignInvariant, <1>1, PTL

(***************************************************************************)
(* The campaign is one of the campaigns of GuardArming: every step of the  *)
(* controller, of its processes and of the nodes is a step of ArmNext or   *)
(* leaves the guards alone.                                                *)
(***************************************************************************)
THEOREM RespectsArming == CampaignSpec => ArmingIsRespected
<1>1. CampaignInit => ArmInit
  BY DEF CampaignInit
<1>2. CampaignInv /\ [CampaignNext]_campaignVars => [ArmNext]_allVars
  <2> SUFFICES ASSUME CampaignInv, [CampaignNext]_campaignVars PROVE [ArmNext]_allVars
    OBVIOUS
  <2>1. ControlTypes /\ ArmTypes /\ GuardsPlaced /\ Owned
    BY TypesGive DEF CampaignInv
  <2> QED
    BY <2>1, ArmKinds, KindIsArmNext
<1> QED
  BY CampaignInvariant, <1>1, <1>2, PTL DEF CampaignSpec, ArmingIsRespected, ArmSpec

(***************************************************************************)
(* It is also one of the environments of MemoryGuard, whatever docker      *)
(* answers to it, its processes and its guards: what is proved of the      *)
(* guard holds under it.  GuardArming needs docker to obey for that, since *)
(* its campaigns follow each other.                                        *)
(***************************************************************************)
THEOREM CampaignIsOperator == CampaignSpec => Spec
<1>1. CampaignInit => Init
  BY DEF CampaignInit, ArmInit
<1>2. CampaignInv /\ [CampaignNext]_campaignVars => [Next]_vars
  <2> SUFFICES ASSUME CampaignInv, [CampaignNext]_campaignVars PROVE [Next]_vars
    OBVIOUS
  <2>1. /\ ControlTypes /\ ArmTypes /\ GuardsPlaced /\ Owned
        /\ \A h \in Host : NodeKnows(h)
    BY TypesGive DEF CampaignInv
  <2> QED
    BY <2>1, ArmKinds, KindIsNext
<1> QED
  BY CampaignInvariant, <1>1, <1>2, PTL DEF CampaignSpec, Spec

(***************************************************************************)
(* No container is started before both guards have armed, and both are     *)
(* known to the campaign, which will disarm them.                          *)
(***************************************************************************)
THEOREM GuardsComeFirst == CampaignSpec => []ContainersFollowGuards
<1>1. CampaignInv => ContainersFollowGuards
  BY DEF CampaignInv, GuardsPlaced, Guarded, ContainersFollowGuards
<1> QED
  BY CampaignInvariant, <1>1, PTL

(***************************************************************************)
(* Where no guard stalls: a trial launched behind a guard that had saved a *)
(* verdict, or no heartbeat for 20 seconds, does not get as far as being   *)
(* measured or reported.                                                   *)
(***************************************************************************)
THEOREM BlindTrialIsRefused ==
    ASSUME "stall" \notin GuardFaults
    PROVE  CampaignSpec => []BlindTrialIsNotMeasured
<1>0. NoStalls
  BY DEF NoStalls
<1>1. CampaignInv => BlindTrialIsNotMeasured
  BY <1>0 DEF CampaignInv, BlindKnows, BlindTrialIsNotMeasured
<1> QED
  BY CampaignInvariant, <1>1, PTL

(***************************************************************************)
(* What is measured under a depth is a pair that serves that depth,        *)
(* whatever processes earlier trials left on the nodes.                    *)
(***************************************************************************)
THEOREM MeasuresTheTrial == CampaignSpec => []MeasuredPairIsTheTrial
<1>1. CampaignInv => MeasuredPairIsTheTrial
  BY DEF CampaignInv, TrialServes, Placed, Measuring, MeasuredPairIsTheTrial
<1> QED
  BY CampaignInvariant, <1>1, PTL

(***************************************************************************)
(* A campaign reported complete leaves the winner on every node.           *)
(***************************************************************************)
THEOREM CompleteLeavesWinner == CampaignSpec => []CompleteServesWinner
<1>1. CampaignInv => CompleteServesWinner
  BY DEF CampaignInv, TrialServes, Placed, CompleteServesWinner
<1> QED
  BY CampaignInvariant, <1>1, PTL

(***************************************************************************)
(* The cleanup of a failed campaign that no signal and no ssh failure cut  *)
(* short leaves nothing of ours running, on any node where docker did not  *)
(* fail the stop of that cleanup.                                          *)
(***************************************************************************)
THEOREM CleanupStopsAll == CampaignSpec => []CleanupStops
<1>1. CampaignInv => CleanupStops
  BY DEF CampaignInv, CleanupClears, PairDown, Cleared, Running, CleanupStops, RunningOwn
<1> QED
  BY CampaignInvariant, <1>1, PTL

(***************************************************************************)
(* The death of the controller, if it is the only interruption, leaves no  *)
(* container of ours on a node whose guard has been told to go, unless     *)
(* docker failed the stop there.                                           *)
(***************************************************************************)
THEOREM DeadLeaveGuards == CampaignSpec => []DeadLeavesGuards
<1>1. CampaignInv => DeadLeavesGuards
  BY DEF CampaignInv, DeathKnows, Cleared, Running, DeadLeavesGuards, RunningOwn
<1> QED
  BY CampaignInvariant, <1>1, PTL

(***************************************************************************)
(* A single campaign never has two guards watching a node, and a guard's   *)
(* report that it stopped the container is true, even where docker fails   *)
(* (successive campaigns: OneWatcherAtATime, if docker obeys).             *)
(***************************************************************************)
THEOREM CampaignGuards == CampaignSpec => [](OneWatcher /\ TriggeredMeansStopped)
<1>1. CampaignInv => OneWatcher /\ TriggeredMeansStopped
  <2>1. CampaignInv => OneWatcher
    BY DEF CampaignInv, NodeKnows, OneWatcher, WatchPc
  <2> QED
    BY <2>1 DEF CampaignInv, GuardInv
<1> QED
  BY CampaignInvariant, <1>1, PTL
================================================================================
