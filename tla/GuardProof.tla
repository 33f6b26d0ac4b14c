------------------------------- MODULE GuardProof -------------------------------
(***************************************************************************)
(* The safety of the memory guard for every number of nodes, guards and    *)
(* containers, the proof that it implements WatchLease, and that the       *)
(* campaigns of GuardArming are one of the environments it assumes.        *)
(***************************************************************************)
EXTENDS GuardArming, GuardLease, TLAPS

(* At most one guard of a node is at work, and guards come in order.       *)
OneAtWork ==
    \A h \in Host : \A p, q \in Pid :
        /\ Alive(h, p) /\ Alive(h, q) => p = q
        /\ gpc[h][p] = "none" /\ p < q => gpc[h][q] = "none"

(* What a guard at each place of its loop knows about the state file.      *)
FileOfGuard ==
    \A h \in Host : \A p \in Pid :
        /\ gpc[h][p] \in {"none", "boot"} => file[h].pid < p
        /\ gpc[h][p] \in {"poll", "inspect", "kill", "confirm"} =>
               file[h].pid = p /\ file[h].phase = "armed"
        /\ gpc[h][p] = "assert" =>
               file[h].pid = p /\ file[h].phase = "triggered" /\ file[h].up

(* A target is a container that exists or has existed.                     *)
TargetsKnown ==
    \A h \in Host :
        /\ box[h].st # "absent" => box[h].id \in Id
        /\ \A p \in Pid : target[h][p] <= box[h].id
        /\ \A p \in Pid : gpc[h][p] = "kill" /\ box[h].id = target[h][p] => box[h].own

(* A guard that reported a stopped container has ended, so that its target *)
(* cannot change any more.                                                 *)
ReportIsSettled ==
    \A h \in Host :
        file[h].phase = "triggered" /\ ~file[h].up =>
            /\ file[h].pid \in Pid
            /\ gpc[h][file[h].pid] = "ended"

GuardInv ==
    /\ TypeOK
    /\ OneAtWork
    /\ FileOfGuard
    /\ TargetsKnown
    /\ ReportIsSettled
    /\ TriggeredMeansStopped

USE MaxPidAssumption, MaxIdAssumption DEF Pid, Id, NoPid, NoId

LEMMA InitInv == Init => GuardInv
<1> SUFFICES ASSUME Init PROVE GuardInv
    OBVIOUS
<1> USE DEF Init
<1>a. \A h \in Host : /\ file[h].phase \in {"absent", "armed", "disarmed", "error"}
                      /\ file[h].pid = 0
  OBVIOUS
<1>b. ASSUME NEW h \in Host
      PROVE  /\ box[h] \in Box
             /\ box[h].id \in Id \union {NoId}
             /\ box[h].st # "absent" => box[h].id \in Id
  <2>1. box[h] \in LeftoverBox
    OBVIOUS
  <2>2. CASE box[h] = [id |-> NoId, st |-> "absent", own |-> TRUE]
    BY <2>2 DEF Box, BoxState
  <2>3. CASE box[h] \in [id : {1}, st : {"running", "exited"}, own : BOOLEAN]
    BY <2>3 DEF Box, BoxState
  <2> QED
    BY <2>1, <2>2, <2>3 DEF LeftoverBox
<1>1. TypeOK
  <2>1. file \in [Host -> StateFile]
    BY DEF StateFile, Phase, Verdicts, Fired
  <2>2. box \in [Host -> Box]
    BY <1>b
  <2> QED
    BY <2>1, <2>2 DEF TypeOK, GuardPc
<1>2. OneAtWork
  BY DEF OneAtWork, Alive, LivePc, GuardPc
<1>3. FileOfGuard
  BY <1>a DEF FileOfGuard
<1>4. TargetsKnown
  <2>1. \A h \in Host : \A p \in Pid : gpc[h][p] = "none" /\ target[h][p] = 0
    OBVIOUS
  <2>2. ASSUME NEW h \in Host, NEW p \in Pid PROVE target[h][p] <= box[h].id
    <3> HIDE DEF Init
    <3> QED BY <1>b, <2>1
  <2> QED
    BY <1>b, <2>1, <2>2, Zenon DEF TargetsKnown
<1>5. ReportIsSettled /\ TriggeredMeansStopped
  BY <1>a DEF ReportIsSettled, TriggeredMeansStopped
<1> QED
  BY <1>1, <1>2, <1>3, <1>4, <1>5 DEF GuardInv

(***************************************************************************)
(* One step per action.  An action of node h leaves the other nodes alone, *)
(* so each part of the invariant is shown for h and carried over else-     *)
(* where.                                                                  *)
(***************************************************************************)
LEMMA SaveType ==
    ASSUME TypeOK, NEW h \in Host, NEW p \in Pid, NEW phase \in Phase, NEW up \in BOOLEAN,
           SaveState(h, p, phase, up)
    PROVE  file' \in [Host -> StateFile]
  BY DEF TypeOK, SaveState, StateFile

LEMMA GotoType ==
    ASSUME TypeOK, NEW h \in Host, NEW p \in Pid, NEW pc \in GuardPc, Goto(h, p, pc)
    PROVE  gpc' \in [Host -> [Pid -> GuardPc]]
  BY DEF TypeOK, Goto

LEMMA TargetType ==
    ASSUME TypeOK, NEW h \in Host, NEW p \in Pid, NEW i \in Id \union {NoId},
           target' = [target EXCEPT ![h][p] = i]
    PROVE  target' \in [Host -> [Pid -> Id \union {NoId}]]
<1> HIDE DEF Pid, Id, NoId
<1> QED
  BY DEF TypeOK

LEMMA BoxType ==
    ASSUME TypeOK, NEW h \in Host, NEW st \in BoxState, box' = [box EXCEPT ![h].st = st]
    PROVE  box' \in [Host -> Box]
<1>1. box[h] \in Box
  BY DEF TypeOK
<1>2. [box[h] EXCEPT !.st = st] \in Box
  BY <1>1 DEF Box
<1> QED
  BY <1>2 DEF TypeOK

LEMMA StepType == TypeOK /\ [Next]_vars => TypeOK'
<1> SUFFICES ASSUME TypeOK, [Next]_vars PROVE TypeOK'
    OBVIOUS
<1> USE DEF guardVars, nodeVars
<1>1. ASSUME NEW h \in Host, NEW p \in Pid, GuardStep(h, p) PROVE TypeOK'
  <2>0. /\ {"poll", "inspect", "kill", "confirm", "assert", "ended"} \subseteq GuardPc
        /\ Verdicts \union {"armed"} \subseteq Phase
        /\ Fired \union {"disarmed", "error"} \subseteq Verdicts
        /\ {"triggered", "triggered_container_absent", "triggered_already_stopped"} \subseteq Fired
        /\ "exited" \in BoxState
    BY DEF GuardPc, Phase, Verdicts, Fired, BoxState
  <2> USE <2>0, SaveType, GotoType DEF Save, End
  <2>1. CASE GuardArms(h, p)
    BY <2>1 DEF GuardArms, TypeOK
  <2>2. CASE GuardSeesDone(h, p)
    BY <2>2 DEF GuardSeesDone, TypeOK
  <2>3. CASE GuardHeartbeat(h, p)
    BY <2>3 DEF GuardHeartbeat, TypeOK
  <2>4. CASE GuardTriggers(h, p)
    BY <2>4 DEF GuardTriggers, TypeOK
  <2>5. CASE GuardInspects(h, p)
    <3>1. gpc' \in [Host -> [Pid -> GuardPc]] /\ file' \in [Host -> StateFile]
      BY <2>5 DEF GuardInspects, TypeOK
    <3>2. box[h].id \in Id \union {NoId}
      BY DEF TypeOK, Box
    <3>3. target' \in [Host -> [Pid -> Id \union {NoId}]]
      <4>1. target' = target \/ target' = [target EXCEPT ![h][p] = box[h].id]
        BY <2>5 DEF GuardInspects
      <4> QED
        BY <3>2, <4>1, TargetType DEF TypeOK
    <3>4. UNCHANGED <<done, overdue, low, box>>
      BY <2>5 DEF GuardInspects
    <3> QED
      BY <3>1, <3>3, <3>4 DEF TypeOK
  <2>6. CASE GuardKills(h, p)
    <3>1. box' \in [Host -> Box]
      BY <2>6, BoxType DEF GuardKills, KillTarget, TypeOK
    <3> QED
      BY <2>6, <3>1 DEF GuardKills, TypeOK
  <2>7. CASE GuardConfirms(h, p)
    <3>1. gpc' \in [Host -> [Pid -> GuardPc]] /\ file' \in [Host -> StateFile]
      BY <2>7 DEF GuardConfirms, TypeOK
    <3> QED
      BY <2>7, <3>1 DEF GuardConfirms, TypeOK
  <2>8. CASE GuardAsserts(h, p)
    BY <2>8 DEF GuardAsserts, TypeOK
  <2> QED
    BY <1>1, <2>1, <2>2, <2>3, <2>4, <2>5, <2>6, <2>7, <2>8 DEF GuardStep
<1>2. ASSUME NEW h \in Host, NEW p \in Pid, GuardFault(h, p) PROVE TypeOK'
  <2>1. CASE GuardDockerTimeout(h, p)
    BY <2>1, SaveType, GotoType DEF GuardDockerTimeout, Save, End, TypeOK, GuardPc, Phase, Verdicts
  <2>2. CASE GuardKilled(h, p)
    BY <2>2, GotoType DEF GuardKilled, TypeOK, GuardPc
  <2> QED
    BY <1>2, <2>1, <2>2 DEF GuardFault
<1>3. ASSUME NEW h \in Host, NEW p \in Pid, DeadlinePasses(h, p) PROVE TypeOK'
  BY <1>3 DEF DeadlinePasses, TypeOK
<1>4. ASSUME NEW h \in Host, NEW p \in Pid, OperatorSpawns(h, p) PROVE TypeOK'
  BY <1>4 DEF OperatorSpawns, SpawnGuard, TypeOK, GuardPc
<1>5. ASSUME NEW h \in Host, OperatorTouchesDone(h) PROVE TypeOK'
  BY <1>5 DEF OperatorTouchesDone, TypeOK
<1>6. ASSUME NEW h \in Host, DockerStep(h) PROVE TypeOK'
  <2>1. ASSUME NEW own \in BOOLEAN, BoxStarts(h, own) PROVE box' \in [Host -> Box]
    <3>0. box[h].id \in Id \union {NoId} /\ box[h].id < MaxId
      BY <2>1 DEF BoxStarts, TypeOK, Box
    <3>1. box[h].id + 1 \in Id
      BY <3>0
    <3>2. [id |-> box[h].id + 1, st |-> "running", own |-> own] \in Box
      BY <3>1 DEF Box, BoxState
    <3> QED
      BY <2>1, <3>2 DEF BoxStarts, TypeOK
  <2>2. ASSUME BoxExits(h) \/ BoxStops(h) PROVE box' \in [Host -> Box]
    BY <2>2, "exited" \in BoxState, BoxType DEF BoxExits, BoxStops, BoxState
  <2>3. ASSUME BoxRemoved(h) PROVE box' \in [Host -> Box]
    BY <2>3, "absent" \in BoxState, BoxType DEF BoxRemoved, BoxState
  <2>4. UNCHANGED <<gpc, target, file, done, overdue, low>>
    BY <1>6 DEF DockerStep
  <2>5. box' \in [Host -> Box]
    BY <1>6, <2>1, <2>2, <2>3 DEF DockerStep
  <2> QED
    BY <2>4, <2>5 DEF TypeOK
<1>7. ASSUME NEW h \in Host, NodeStep(h) PROVE TypeOK'
  <2>1. CASE HeartbeatAges(h)
    <3>1. [file[h] EXCEPT !.fresh = FALSE] \in StateFile
      BY DEF TypeOK, StateFile
    <3> QED
      BY <2>1, <3>1 DEF HeartbeatAges, TypeOK
  <2>2. CASE MemoryDrops(h) \/ MemoryRecovers(h)
    BY <2>2 DEF MemoryDrops, MemoryRecovers, TypeOK
  <2> QED
    BY <1>7, <2>1, <2>2 DEF NodeStep
<1>8. CASE UNCHANGED vars
  BY <1>8 DEF vars, TypeOK
<1> QED
  BY <1>1, <1>2, <1>3, <1>4, <1>5, <1>6, <1>7, <1>8 DEF Next
(* What the elementary assignments do, cell by cell.                       *)
LEMMA GotoFact ==
    ASSUME TypeOK, NEW h \in Host, NEW p \in Pid, NEW pc, Goto(h, p, pc)
    PROVE  \A g \in Host : \A q \in Pid :
               gpc'[g][q] = IF g = h /\ q = p THEN pc ELSE gpc[g][q]
  BY DEF TypeOK, Goto

LEMMA SaveFact ==
    ASSUME TypeOK, NEW h \in Host, NEW p \in Pid, NEW phase, NEW up, SaveState(h, p, phase, up)
    PROVE  /\ file'[h].phase = phase /\ file'[h].pid = p /\ file'[h].up = up
           /\ \A g \in Host \ {h} : file'[g] = file[g]
  BY DEF TypeOK, SaveState

LEMMA TargetFact ==
    ASSUME TypeOK, NEW h \in Host, NEW p \in Pid, NEW i,
           target' = [target EXCEPT ![h][p] = i]
    PROVE  \A g \in Host : \A q \in Pid :
               target'[g][q] = IF g = h /\ q = p THEN i ELSE target[g][q]
  BY DEF TypeOK

LEMMA BoxFact ==
    ASSUME TypeOK, NEW h \in Host, NEW st, box' = [box EXCEPT ![h].st = st]
    PROVE  /\ box'[h].st = st /\ box'[h].id = box[h].id /\ box'[h].own = box[h].own
           /\ \A g \in Host \ {h} : box'[g] = box[g]
  BY DEF TypeOK, Box

LEMMA TypeFact ==
    ASSUME TypeOK, NEW h \in Host
    PROVE  /\ box[h].id \in Nat
           /\ box[h].id \in Id \union {NoId}
           /\ box[h].own \in BOOLEAN
           /\ file[h].pid \in Nat
           /\ file[h].pid \in Pid \union {NoPid}
           /\ file[h].up \in BOOLEAN
           /\ \A p \in Pid : gpc[h][p] \in GuardPc /\ target[h][p] \in Nat
  BY DEF TypeOK, Box, StateFile

(* A guard at work moves on; the state file stays as it is.                *)
LEMMA MoveInv ==
    ASSUME GuardInv, NEW h \in Host, NEW p \in Pid,
           NEW pc \in {"inspect", "confirm"},
           gpc[h][p] \in {"poll", "kill"}, Goto(h, p, pc),
           UNCHANGED <<target, file>>
    PROVE  OneAtWork' /\ FileOfGuard'
<1> USE DEF GuardInv
<1>1. \A g \in Host : \A q \in Pid :
          gpc'[g][q] = IF g = h /\ q = p THEN pc ELSE gpc[g][q]
  BY GotoFact
<1>2. OneAtWork'
  BY <1>1 DEF OneAtWork, Alive, LivePc, GuardPc
<1>3. FileOfGuard'
  BY <1>1 DEF FileOfGuard
<1> QED
  BY <1>2, <1>3

(* A guard at work ends with a verdict that names no stopped container.    *)
LEMMA EndInv ==
    ASSUME GuardInv, TypeOK', NEW h \in Host, NEW p \in Pid,
           NEW verdict \in Verdicts \ {"triggered"},
           gpc[h][p] \in {"poll", "inspect", "kill", "confirm", "assert"},
           End(h, p, verdict), UNCHANGED <<target, box>>
    PROVE  GuardInv'
<1> USE DEF GuardInv
<1>1. \A g \in Host : \A q \in Pid :
          gpc'[g][q] = IF g = h /\ q = p THEN "ended" ELSE gpc[g][q]
  BY GotoFact DEF End
<1>2. /\ file'[h].phase = verdict /\ file'[h].pid = p /\ file'[h].up = FALSE
      /\ \A g \in Host \ {h} : file'[g] = file[g]
  BY SaveFact DEF End, Save
<1>3. OneAtWork'
  BY <1>1 DEF OneAtWork, Alive, LivePc, GuardPc
<1>4. FileOfGuard'
  BY <1>1, <1>2 DEF FileOfGuard, OneAtWork, Alive, LivePc, GuardPc
<1>5. TargetsKnown'
  BY <1>1 DEF TargetsKnown
<1>6. ReportIsSettled'
  BY <1>1, <1>2 DEF ReportIsSettled
<1>7. TriggeredMeansStopped'
  BY <1>2 DEF TriggeredMeansStopped, Running, Reported
<1> QED
  BY <1>3, <1>4, <1>5, <1>6, <1>7
LEMMA GuardStepInv ==
    ASSUME GuardInv, TypeOK', NEW h \in Host, NEW p \in Pid, GuardStep(h, p)
    PROVE  GuardInv'
<1> USE DEF guardVars, nodeVars, GuardInv
<1>0. {"disarmed", "error", "triggered_container_absent", "triggered_already_stopped"}
          \subseteq Verdicts \ {"triggered"}
  BY DEF Verdicts, Fired
<1>1. CASE GuardArms(h, p)
  <2>1. \A g \in Host : \A q \in Pid :
            gpc'[g][q] = IF g = h /\ q = p THEN "poll" ELSE gpc[g][q]
    BY <1>1, GotoFact DEF GuardArms
  <2>2. /\ file'[h].phase = "armed" /\ file'[h].pid = p /\ file'[h].up = FALSE
        /\ \A g \in Host \ {h} : file'[g] = file[g]
    BY <1>1, SaveFact DEF GuardArms, Save
  <2>3. gpc[h][p] = "boot" /\ UNCHANGED <<target, box>>
    BY <1>1 DEF GuardArms
  <2>4. OneAtWork'
    BY <2>1, <2>3 DEF OneAtWork, Alive, LivePc, GuardPc
  <2>5. FileOfGuard'
    <3> SUFFICES ASSUME NEW g \in Host, NEW q \in Pid
                 PROVE  /\ gpc'[g][q] \in {"none", "boot"} => file'[g].pid < q
                        /\ gpc'[g][q] \in {"poll", "inspect", "kill", "confirm"} =>
                               file'[g].pid = q /\ file'[g].phase = "armed"
                        /\ gpc'[g][q] = "assert" =>
                               file'[g].pid = q /\ file'[g].phase = "triggered" /\ file'[g].up
      BY DEF FileOfGuard
    <3>1. CASE g # h
      BY <3>1, <2>1, <2>2 DEF FileOfGuard
    <3>2. CASE g = h /\ q = p
      BY <3>2, <2>1, <2>2
    <3>3. CASE g = h /\ q # p
      <4>1. gpc[g][q] \in {"none", "ended"}
        BY <3>3, <2>3, TypeFact DEF OneAtWork, Alive, LivePc, GuardPc
      <4>2. gpc[g][q] = "none" => p < q
        BY <3>3, <2>3 DEF OneAtWork
      <4> QED
        BY <3>3, <4>1, <4>2, <2>1, <2>2
    <3> QED
      BY <3>1, <3>2, <3>3
  <2>6. TargetsKnown'
    BY <2>1, <2>3 DEF TargetsKnown
  <2>7. ReportIsSettled'
    BY <2>1, <2>2, <2>3 DEF ReportIsSettled
  <2>8. TriggeredMeansStopped'
    BY <2>2, <2>3 DEF TriggeredMeansStopped, Running, Reported
  <2> QED
    BY <2>4, <2>5, <2>6, <2>7, <2>8
<1>2. CASE GuardSeesDone(h, p)
  BY <1>0, <1>2, EndInv DEF GuardSeesDone
<1>3. CASE GuardHeartbeat(h, p)
  <2>1. /\ file'[h].phase = "armed" /\ file'[h].pid = p /\ file'[h].up = FALSE
        /\ \A g \in Host \ {h} : file'[g] = file[g]
    BY <1>3, SaveFact DEF GuardHeartbeat, Save
  <2>2. gpc[h][p] = "poll" /\ UNCHANGED <<gpc, target, box>>
    BY <1>3 DEF GuardHeartbeat
  <2>3. file[h].pid = p /\ file[h].phase = "armed"
    BY <2>2 DEF FileOfGuard
  <2>4. OneAtWork' /\ TargetsKnown'
    BY <2>2 DEF OneAtWork, Alive, TargetsKnown
  <2>5. FileOfGuard'
    BY <2>1, <2>2, <2>3 DEF FileOfGuard
  <2>6. ReportIsSettled' /\ TriggeredMeansStopped'
    BY <2>1, <2>2 DEF ReportIsSettled, TriggeredMeansStopped, Running, Reported
  <2> QED
    BY <2>4, <2>5, <2>6
<1>4. CASE GuardTriggers(h, p)
  <2>1. /\ gpc[h][p] = "poll" /\ Goto(h, p, "inspect")
        /\ UNCHANGED <<target, file, box>>
    BY <1>4 DEF GuardTriggers
  <2>2. \A g \in Host : \A q \in Pid :
            gpc'[g][q] = IF g = h /\ q = p THEN "inspect" ELSE gpc[g][q]
    BY <2>1, GotoFact
  <2>3. OneAtWork' /\ FileOfGuard'
    BY <2>1, MoveInv
  <2>4. TargetsKnown'
    BY <2>1, <2>2 DEF TargetsKnown
  <2>5. ReportIsSettled' /\ TriggeredMeansStopped'
    BY <2>1, <2>2 DEF ReportIsSettled, TriggeredMeansStopped, Running, Reported
  <2> QED
    BY <2>3, <2>4, <2>5
<1>5. CASE GuardInspects(h, p)
  <2>1. ASSUME NEW v \in Verdicts \ {"triggered"}, End(h, p, v), UNCHANGED target
        PROVE  GuardInv'
    BY <1>5, <2>1, EndInv DEF GuardInspects
  <2>2. CASE RunningOwn(h) /\ target' = [target EXCEPT ![h][p] = box[h].id]
                          /\ Goto(h, p, "kill") /\ UNCHANGED file
    <3>1. \A g \in Host : \A q \in Pid :
              gpc'[g][q] = IF g = h /\ q = p THEN "kill" ELSE gpc[g][q]
      BY <2>2, GotoFact
    <3>2. \A g \in Host : \A q \in Pid :
              target'[g][q] = IF g = h /\ q = p THEN box[h].id ELSE target[g][q]
      <4>1. target' = [target EXCEPT ![h][p] = box[h].id]
        BY <2>2
      <4> QED
        BY <4>1 DEF TypeOK
    <3>3. gpc[h][p] = "inspect" /\ UNCHANGED <<file, box>>
      BY <1>5, <2>2 DEF GuardInspects
    <3>4. OneAtWork'
      BY <3>1, <3>3 DEF OneAtWork, Alive, LivePc, GuardPc
    <3>5. FileOfGuard'
      BY <3>1, <3>3 DEF FileOfGuard
    <3>6. TargetsKnown'
      BY <2>2, <3>1, <3>2, <3>3, TypeFact DEF TargetsKnown, RunningOwn
    <3>7. file[h].phase = "armed"
      BY <3>3 DEF FileOfGuard
    <3>8. ReportIsSettled'
      BY <3>1, <3>3, <3>7 DEF ReportIsSettled
    <3>9. TriggeredMeansStopped'
      BY <3>2, <3>3, <3>7 DEF TriggeredMeansStopped, Running, Reported
    <3> QED
      BY <3>4, <3>5, <3>6, <3>8, <3>9
  <2> QED
    BY <1>0, <1>5, <2>1, <2>2 DEF GuardInspects
<1>6. CASE GuardKills(h, p)
  <2>1. /\ gpc[h][p] = "kill" /\ Goto(h, p, "confirm") /\ UNCHANGED <<target, file>>
    BY <1>6 DEF GuardKills
  <2>2. \A g \in Host : \A q \in Pid :
            gpc'[g][q] = IF g = h /\ q = p THEN "confirm" ELSE gpc[g][q]
    BY <2>1, GotoFact
  <2>3. OneAtWork' /\ FileOfGuard'
    BY <2>1, MoveInv
  <2>4. \A g \in Host : /\ box'[g].id = box[g].id
                        /\ box'[g].own = box[g].own
                        /\ box[g].st = box'[g].st \/ (box[g].st = "running" /\ box'[g].st = "exited")
    BY <1>6, BoxFact DEF GuardKills, KillTarget, Running
  <2>5. TargetsKnown'
    BY <2>1, <2>2, <2>4 DEF TargetsKnown
  <2>6. ReportIsSettled'
    BY <2>1, <2>2 DEF ReportIsSettled
  <2>7. TriggeredMeansStopped'
    BY <2>1, <2>4 DEF TriggeredMeansStopped, Running, Reported
  <2> QED
    BY <2>3, <2>5, <2>6, <2>7
<1>7. CASE GuardConfirms(h, p)
  <2>1. CASE End(h, p, "error")
    BY <1>0, <1>7, <2>1, EndInv DEF GuardConfirms
  <2>2. ASSUME NEW pc \in {"assert", "ended"}, NEW up \in BOOLEAN, up <=> pc = "assert",
               box[h].id = target[h][p], up <=> Running(h),
               Goto(h, p, pc), SaveState(h, p, "triggered", up)
        PROVE  GuardInv'
    <3>1. \A g \in Host : \A q \in Pid :
              gpc'[g][q] = IF g = h /\ q = p THEN pc ELSE gpc[g][q]
      BY <2>2, GotoFact
    <3>2. /\ file'[h].phase = "triggered" /\ file'[h].pid = p /\ file'[h].up = up
          /\ \A g \in Host \ {h} : file'[g] = file[g]
      BY <2>2, SaveFact
    <3>3. gpc[h][p] = "confirm" /\ UNCHANGED <<target, box>>
      BY <1>7 DEF GuardConfirms
    <3>4. OneAtWork'
      BY <3>1, <3>3 DEF OneAtWork, Alive, LivePc, GuardPc
    <3>5. FileOfGuard'
      BY <2>2, <3>1, <3>2, <3>3 DEF FileOfGuard, OneAtWork, Alive, LivePc, GuardPc
    <3>6. TargetsKnown'
      BY <3>1, <3>3 DEF TargetsKnown
    <3>7. ReportIsSettled'
      BY <2>2, <3>1, <3>2, <3>3 DEF ReportIsSettled
    <3>8. TriggeredMeansStopped'
      BY <2>2, <3>2, <3>3 DEF TriggeredMeansStopped, Running, Reported
    <3> QED
      BY <3>4, <3>5, <3>6, <3>7, <3>8
  <2>3. CASE box[h].id = target[h][p] /\ Running(h) /\ Goto(h, p, "assert")
             /\ SaveState(h, p, "triggered", TRUE)
    BY <2>2, <2>3
  <2>4. CASE box[h].id = target[h][p] /\ box[h].st = "exited" /\ End(h, p, "triggered")
    BY <2>2, <2>4 DEF End, Save, Running
  <2> QED
    BY <1>7, <2>1, <2>3, <2>4 DEF GuardConfirms
<1>8. CASE GuardAsserts(h, p)
  BY <1>0, <1>8, EndInv DEF GuardAsserts
<1> QED
  BY <1>1, <1>2, <1>3, <1>4, <1>5, <1>6, <1>7, <1>8 DEF GuardStep
(* What docker and the node do never brings a reported container back.     *)
LEMMA AroundInv ==
    ASSUME GuardInv, TypeOK', UNCHANGED <<gpc, target>>,
           \A h \in Host : /\ file'[h].phase = file[h].phase
                           /\ file'[h].pid = file[h].pid
                           /\ file'[h].up = file[h].up,
           \A h \in Host : \/ box'[h] = box[h]
                           \/ /\ box'[h].id = box[h].id
                              /\ box'[h].own = box[h].own
                              /\ box[h].st # "absent"
                              /\ box'[h].st # "running"
                           \/ box'[h].id = box[h].id + 1
    PROVE  GuardInv'
<1> USE DEF GuardInv
<1>1. OneAtWork' /\ FileOfGuard' /\ ReportIsSettled'
  BY DEF OneAtWork, Alive, FileOfGuard, ReportIsSettled
<1>2. ASSUME NEW h \in Host
      PROVE  /\ box'[h].st # "absent" => box'[h].id \in Id
             /\ \A p \in Pid : target[h][p] <= box'[h].id
             /\ \A p \in Pid : gpc[h][p] = "kill" /\ box'[h].id = target[h][p] => box'[h].own
  <2>1. CASE box'[h] = box[h]
    BY <2>1 DEF TargetsKnown
  <2>2. CASE box'[h].id = box[h].id /\ box'[h].own = box[h].own /\ box[h].st # "absent"
    BY <2>2 DEF TargetsKnown
  <2>3. CASE box'[h].id = box[h].id + 1
    <3>1. \A p \in Pid : target[h][p] < box'[h].id
      BY <2>3, TypeFact DEF TargetsKnown
    <3>2. box'[h].id \in Id
      BY <2>3, TypeFact DEF TypeOK, Box
    <3> QED
      BY <3>1, <3>2, TypeFact
  <2> QED
    BY <2>1, <2>2, <2>3
<1>3. TargetsKnown'
  BY <1>2 DEF TargetsKnown
<1>4. TriggeredMeansStopped'
  <2> SUFFICES ASSUME NEW h \in Host, file[h].phase = "triggered", ~file[h].up
               PROVE  ~(box'[h].st = "running" /\ box'[h].id = Reported(h))
    BY DEF TriggeredMeansStopped, Running, Reported
  <2>1. ~(box[h].st = "running" /\ box[h].id = Reported(h))
    BY DEF TriggeredMeansStopped, Running
  <2>2. Reported(h) <= box[h].id
    BY DEF ReportIsSettled, TargetsKnown, Reported
  <2>3. Reported(h) \in Nat
    BY TypeFact DEF Reported
  <2> QED
    BY <2>1, <2>2, <2>3, TypeFact
<1> QED
  BY <1>1, <1>3, <1>4

LEMMA FaultInv ==
    ASSUME GuardInv, TypeOK', NEW h \in Host, NEW p \in Pid, GuardFault(h, p)
    PROVE  GuardInv'
<1> USE DEF guardVars, nodeVars, GuardInv
<1>1. CASE GuardDockerTimeout(h, p)
  <2>1. "error" \in Verdicts \ {"triggered"}
    BY DEF Verdicts, Fired
  <2> QED
    BY <1>1, <2>1, EndInv DEF GuardDockerTimeout
<1>2. CASE GuardKilled(h, p)
  <2>1. \A g \in Host : \A q \in Pid :
            gpc'[g][q] = IF g = h /\ q = p THEN "ended" ELSE gpc[g][q]
    BY <1>2, GotoFact DEF GuardKilled
  <2>2. gpc[h][p] \in LivePc /\ UNCHANGED <<target, file, box>>
    BY <1>2 DEF GuardKilled
  <2>3. OneAtWork' /\ FileOfGuard'
    BY <2>1, <2>2 DEF OneAtWork, FileOfGuard, Alive, LivePc, GuardPc
  <2>4. TargetsKnown' /\ ReportIsSettled'
    BY <2>1, <2>2 DEF TargetsKnown, ReportIsSettled
  <2>5. TriggeredMeansStopped'
    BY <2>2 DEF TriggeredMeansStopped, Running, Reported
  <2> QED
    BY <2>3, <2>4, <2>5
<1> QED
  BY <1>1, <1>2 DEF GuardFault

LEMMA SpawnInv ==
    ASSUME GuardInv, TypeOK', NEW h \in Host, NEW p \in Pid, OperatorSpawns(h, p)
    PROVE  GuardInv'
<1> USE DEF GuardInv
<1>1. \A g \in Host : \A q \in Pid :
          gpc'[g][q] = IF g = h /\ q = p THEN "boot" ELSE gpc[g][q]
  BY DEF OperatorSpawns, SpawnGuard, TypeOK
<1>2. /\ UNCHANGED <<target, file, box>>
      /\ gpc[h][p] = "none"
      /\ \A q \in Pid : gpc[h][q] \in {"none", "ended"}
      /\ \A q \in Pid : q < p => gpc[h][q] # "none"
  BY DEF OperatorSpawns, SpawnGuard
<1>3. OneAtWork'
  BY <1>1, <1>2 DEF OneAtWork, Alive, LivePc, GuardPc
<1>4. FileOfGuard'
  BY <1>1, <1>2 DEF FileOfGuard
<1>5. TargetsKnown' /\ ReportIsSettled'
  BY <1>1, <1>2 DEF TargetsKnown, ReportIsSettled
<1>6. TriggeredMeansStopped'
  BY <1>2 DEF TriggeredMeansStopped, Running, Reported
<1> QED
  BY <1>3, <1>4, <1>5, <1>6

LEMMA StepInv == GuardInv /\ [Next]_vars => GuardInv'
<1> SUFFICES ASSUME GuardInv, [Next]_vars PROVE GuardInv'
    OBVIOUS
<1>0. TypeOK /\ TypeOK'
  BY StepType DEF GuardInv
<1> USE <1>0 DEF guardVars, nodeVars
<1>1. ASSUME NEW h \in Host, NEW p \in Pid, GuardStep(h, p) PROVE GuardInv'
  BY <1>1, GuardStepInv
<1>2. ASSUME NEW h \in Host, NEW p \in Pid, GuardFault(h, p) PROVE GuardInv'
  BY <1>2, FaultInv
<1>3. ASSUME NEW h \in Host, NEW p \in Pid, OperatorSpawns(h, p) PROVE GuardInv'
  BY <1>3, SpawnInv
<1>4. ASSUME UNCHANGED <<gpc, target, file, box>> PROVE GuardInv'
  BY <1>4, AroundInv
<1>5. ASSUME NEW h \in Host, DockerStep(h) PROVE GuardInv'
  <2>1. UNCHANGED <<gpc, target, file>>
    BY <1>5 DEF DockerStep
  <2>2. ASSUME NEW own \in BOOLEAN, BoxStarts(h, own) PROVE GuardInv'
    <3>1. box'[h].id = box[h].id + 1 /\ \A g \in Host \ {h} : box'[g] = box[g]
      BY <2>2 DEF BoxStarts, TypeOK
    <3> QED
      BY <2>1, <3>1, AroundInv
  <2>3. ASSUME NEW st \in {"exited", "absent"}, box[h].st # "absent",
               box' = [box EXCEPT ![h].st = st]
        PROVE  GuardInv'
    <3>1. /\ box'[h].st = st /\ box'[h].id = box[h].id /\ box'[h].own = box[h].own
          /\ \A g \in Host \ {h} : box'[g] = box[g]
      BY <2>3, BoxFact
    <3> QED
      BY <2>1, <2>3, <3>1, AroundInv
  <2> QED
    BY <1>5, <2>2, <2>3 DEF DockerStep, BoxExits, BoxStops, BoxRemoved, Running, RunningOwn
<1>6. ASSUME NEW h \in Host, HeartbeatAges(h) PROVE GuardInv'
  <2>1. /\ UNCHANGED <<gpc, target, box>>
        /\ \A g \in Host : /\ file'[g].phase = file[g].phase
                            /\ file'[g].pid = file[g].pid
                            /\ file'[g].up = file[g].up
    BY <1>6 DEF HeartbeatAges, TypeOK, StateFile
  <2> QED
    BY <2>1, AroundInv
<1>7. ASSUME NEW h \in Host,
             \/ OperatorTouchesDone(h) \/ MemoryDrops(h) \/ MemoryRecovers(h)
             \/ \E p \in Pid : DeadlinePasses(h, p)
      PROVE  GuardInv'
  BY <1>4, <1>7 DEF OperatorTouchesDone, MemoryDrops, MemoryRecovers, DeadlinePasses
<1> QED
  BY <1>1, <1>2, <1>3, <1>4, <1>5, <1>6, <1>7 DEF Next, NodeStep, vars

--------------------------------------------------------------------------------
(***************************************************************************)
(* The invariant holds in every state of every behaviour.                  *)
(***************************************************************************)
THEOREM GuardInvariant == Spec => []GuardInv
<1>1. GuardInv /\ [Next]_vars => GuardInv'
  BY StepInv
<1> QED
  BY InitInv, <1>1, PTL DEF Spec

(***************************************************************************)
(* The variables of the guard and its node have their types.               *)
(***************************************************************************)
THEOREM TypeCorrect == Spec => []TypeOK
<1>1. GuardInv => TypeOK
  BY DEF GuardInv
<1> QED
  BY GuardInvariant, <1>1, PTL

(***************************************************************************)
(* A 'triggered' verdict that shows a stopped container stays true.        *)
(***************************************************************************)
THEOREM TriggeredIsTrue == Spec => []TriggeredMeansStopped
<1>1. GuardInv => TriggeredMeansStopped
  BY DEF GuardInv
<1> QED
  BY GuardInvariant, <1>1, PTL
(***************************************************************************)
(* No step of the guard or of its node disturbs a running container that   *)
(* is not this project's: the one step that could, the kill, aims at an id *)
(* whose label was checked.                                                *)
(***************************************************************************)
THEOREM ForeignIsUntouched == Spec => ForeignUntouched
<1> DEFINE Spared == \A h \in Host : Running(h) /\ ~box[h].own => box'[h] = box[h]
<1>1. ASSUME GuardInv, Next PROVE Spared
  <2> USE DEF guardVars, nodeVars
  <2>0. TypeOK /\ TargetsKnown
    BY <1>1 DEF GuardInv
  <2>1. ASSUME NEW h \in Host, NEW p \in Pid, GuardStep(h, p) PROVE Spared
    <3>1. CASE GuardKills(h, p)
      BY <2>0, <3>1, BoxFact DEF GuardKills, KillTarget, TargetsKnown, Running
    <3>2. CASE UNCHANGED box
      BY <3>2
    <3> QED
      BY <2>1, <3>1, <3>2 DEF GuardStep, GuardArms, GuardSeesDone, GuardHeartbeat, GuardTriggers,
         GuardInspects, GuardConfirms, GuardAsserts
  <2>2. ASSUME NEW h \in Host, DockerStep(h) PROVE Spared
    <3>1. \A g \in Host \ {h} : box'[g] = box[g]
      BY <2>0, <2>2 DEF DockerStep, BoxStarts, BoxExits, BoxStops, BoxRemoved, TypeOK
    <3>2. ~(Running(h) /\ ~box[h].own)
      BY <2>2 DEF DockerStep, BoxStarts, BoxExits, BoxStops, BoxRemoved, Running, RunningOwn
    <3> QED
      BY <3>1, <3>2
  <2>3. CASE UNCHANGED box
    BY <2>3
  <2> QED
    BY <1>1, <2>1, <2>2, <2>3 DEF Next, GuardFault, GuardDockerTimeout, GuardKilled,
       DeadlinePasses, OperatorSpawns, OperatorTouchesDone, NodeStep, HeartbeatAges,
       MemoryDrops, MemoryRecovers
<1>2. GuardInv /\ [Next]_vars => [Spared]_vars
  BY <1>1
<1> QED
  BY GuardInvariant, <1>2, PTL DEF Spec, ForeignUntouched

(***************************************************************************)
(* A guard's verdict is its last word, up to the assertion that follows a  *)
(* 'triggered' for a container still up.                                   *)
(***************************************************************************)
THEOREM VerdictsAreFinal == Spec => VerdictIsFinal
<1> DEFINE Kept == \A h \in Host :
             file[h].phase \in Verdicts /\ file'[h].phase # file[h].phase
             => \/ file'[h].phase = "armed" /\ file'[h].pid > file[h].pid
                \/ file[h].up /\ file'[h].phase = "error"
<1>1. ASSUME GuardInv, Next PROVE Kept
  <2> USE DEF guardVars, nodeVars, Save, End
  <2>0. TypeOK /\ FileOfGuard
    BY <1>1 DEF GuardInv
  <2>1. ASSUME NEW h \in Host, NEW p \in Pid,
               gpc[h][p] \in {"poll", "inspect", "kill", "confirm"},
               \A g \in Host \ {h} : file'[g] = file[g]
        PROVE  Kept
    BY <2>0, <2>1 DEF FileOfGuard, Verdicts, Fired
  <2>2. ASSUME NEW h \in Host, NEW p \in Pid, GuardStep(h, p) PROVE Kept
    <3>1. CASE GuardArms(h, p)
      <4>1. /\ file'[h].phase = "armed" /\ file'[h].pid = p
            /\ \A g \in Host \ {h} : file'[g] = file[g]
        BY <2>0, <3>1, SaveFact DEF GuardArms
      <4>2. file[h].pid < p /\ file[h].pid \in Nat
        BY <2>0, <3>1, TypeFact DEF GuardArms, FileOfGuard
      <4> QED
        BY <4>1, <4>2
    <3>2. CASE GuardAsserts(h, p)
      <4>1. /\ file'[h].phase = "error"
            /\ \A g \in Host \ {h} : file'[g] = file[g]
        BY <2>0, <3>2, SaveFact DEF GuardAsserts
      <4>2. file[h].up
        BY <2>0, <3>2 DEF GuardAsserts, FileOfGuard
      <4> QED
        BY <4>1, <4>2
    <3>3. CASE GuardConfirms(h, p) \/ GuardInspects(h, p) \/ GuardSeesDone(h, p)
               \/ GuardHeartbeat(h, p)
      <4>1. \A g \in Host \ {h} : file'[g] = file[g]
        BY <2>0, <3>3 DEF GuardConfirms, GuardInspects, GuardSeesDone, GuardHeartbeat,
           SaveState, TypeOK
      <4>2. gpc[h][p] \in {"poll", "inspect", "kill", "confirm"}
        BY <3>3 DEF GuardConfirms, GuardInspects, GuardSeesDone, GuardHeartbeat
      <4> QED
        BY <2>1, <4>1, <4>2
    <3>4. CASE GuardTriggers(h, p) \/ GuardKills(h, p)
      BY <3>4 DEF GuardTriggers, GuardKills
    <3> QED
      BY <2>2, <3>1, <3>2, <3>3, <3>4 DEF GuardStep
  <2>3. ASSUME NEW h \in Host, NEW p \in Pid, GuardDockerTimeout(h, p) PROVE Kept
    BY <2>0, <2>1, <2>3 DEF GuardDockerTimeout, SaveState, TypeOK
  <2>4. ASSUME NEW h \in Host, HeartbeatAges(h) PROVE Kept
    BY <2>0, <2>4 DEF HeartbeatAges, TypeOK, StateFile
  <2>5. CASE UNCHANGED file
    BY <2>5
  <2> QED
    BY <1>1, <2>2, <2>3, <2>4, <2>5 DEF Next, GuardFault, GuardKilled, DeadlinePasses,
       OperatorSpawns, OperatorTouchesDone, DockerStep, NodeStep, MemoryDrops, MemoryRecovers
<1>2. GuardInv /\ [Next]_vars => [Kept]_vars
  BY <1>1
<1> QED
  BY GuardInvariant, <1>2, PTL DEF Spec, VerdictIsFinal

-----------------------------------------------------------------------------
(* The guard implements WatchLease, for every number of nodes and guards.  *)

HIDE DEF Pid, Id, NoPid, NoId

leaseVarsBar == <<watchBar, verdictBar, upBar, done, causeBar>>

(* When no other guard is at work, the watch is that of one guard.         *)
LEMMA WatchOfOne ==
    ASSUME NEW pcs, NEW p \in Pid, \A q \in Pid \ {p} : pcs[q] \in {"none", "ended"}
    PROVE  WatchOf(pcs) = IF pcs[p] = "poll" THEN "on"
                          ELSE IF pcs[p] \in FiringPc THEN "firing" ELSE "off"
  BY DEF WatchOf, FiringPc

LEMMA OthersRest ==
    ASSUME GuardInv, NEW h \in Host, NEW p \in Pid, gpc[h][p] \in LivePc
    PROVE  \A q \in Pid \ {p} : gpc[h][q] \in {"none", "ended"}
  BY TypeFact DEF GuardInv, OneAtWork, Alive, LivePc, GuardPc

(* The effect of a guard's move on the watch of its node.                  *)
LEMMA MoveWatch ==
    ASSUME GuardInv, NEW h \in Host, NEW p \in Pid, NEW pc \in GuardPc,
           gpc[h][p] \in LivePc, Goto(h, p, pc)
    PROVE  /\ watchBar[h] = IF gpc[h][p] = "poll" THEN "on"
                            ELSE IF gpc[h][p] \in FiringPc THEN "firing" ELSE "off"
           /\ watchBar' = [watchBar EXCEPT ![h] =
                              IF pc = "poll" THEN "on"
                              ELSE IF pc \in FiringPc THEN "firing" ELSE "off"]
<1>1. \A q \in Pid \ {p} : gpc[h][q] \in {"none", "ended"}
  BY OthersRest
<1>2. /\ gpc'[h][p] = pc
      /\ \A q \in Pid \ {p} : gpc'[h][q] \in {"none", "ended"}
      /\ \A g \in Host \ {h} : gpc'[g] = gpc[g]
  BY <1>1 DEF Goto, GuardInv, TypeOK
<1>3. WatchOf(gpc[h]) = IF gpc[h][p] = "poll" THEN "on"
                        ELSE IF gpc[h][p] \in FiringPc THEN "firing" ELSE "off"
  BY <1>1, WatchOfOne
<1>4. WatchOf(gpc'[h]) = IF pc = "poll" THEN "on"
                         ELSE IF pc \in FiringPc THEN "firing" ELSE "off"
  BY <1>2, WatchOfOne
<1> QED
  BY <1>2, <1>3, <1>4 DEF watchBar
(* A guard that may be wrong about the container being absent says so.     *)
Missed(phase, p) == phase = "triggered_container_absent" /\ DockerFails(p)

(* The effect of a save on the verdict of its node.                        *)
LEMMA SaveVerdict ==
    ASSUME TypeOK, NEW h \in Host, NEW p \in Pid, NEW phase, Save(h, p, phase)
    PROVE  /\ phase = "armed" => verdictBar' = [verdictBar EXCEPT ![h] = "none"]
           /\ phase = "disarmed" => verdictBar' = [verdictBar EXCEPT ![h] = "released"]
           /\ phase = "error" => verdictBar' = [verdictBar EXCEPT ![h] = "failed"]
           /\ phase \in Fired /\ ~Missed(phase, p) => verdictBar' = [verdictBar EXCEPT ![h] = "fired"]
           /\ Missed(phase, p) => verdictBar' = [verdictBar EXCEPT ![h] = "missed"]
<1>1. /\ file'[h].phase = phase /\ file'[h].pid = p /\ file'[h].up = FALSE
      /\ \A g \in Host \ {h} : file'[g] = file[g]
  BY SaveFact DEF Save
<1>2. verdictBar' = [verdictBar EXCEPT ![h] = verdictBar'[h]]
  BY <1>1 DEF verdictBar
<1>3. /\ phase = "armed" => verdictBar'[h] = "none"
      /\ phase = "disarmed" => verdictBar'[h] = "released"
      /\ phase = "error" => verdictBar'[h] = "failed"
      /\ phase \in Fired /\ ~Missed(phase, p) => verdictBar'[h] = "fired"
      /\ Missed(phase, p) => verdictBar'[h] = "missed"
  BY <1>1 DEF verdictBar, VerdictOf, Fired, Missed
<1> QED
  BY <1>2, <1>3

LEMMA SaveUp ==
    ASSUME TypeOK, NEW h \in Host, NEW p \in Pid, SaveState(h, p, "triggered", TRUE)
    PROVE  verdictBar' = [verdictBar EXCEPT ![h] = "failed"]
<1>1. /\ file'[h].phase = "triggered" /\ file'[h].up = TRUE
      /\ \A g \in Host \ {h} : file'[g] = file[g]
  BY SaveFact
<1> QED
  BY <1>1 DEF verdictBar, VerdictOf

(* The variables that a guard's own step leaves alone.                     *)
LEMMA Frame ==
    /\ UNCHANGED box => UNCHANGED upBar
    /\ UNCHANGED <<low, overdue>> => UNCHANGED causeBar
    /\ UNCHANGED file => UNCHANGED verdictBar
    /\ UNCHANGED gpc => UNCHANGED watchBar
  BY DEF upBar, causeBar, verdictBar, watchBar, Running

(***************************************************************************)
(* A guard at work ends and saves its verdict: the watch of its node ends. *)
(***************************************************************************)
LEMMA EndLease ==
    ASSUME GuardInv, NEW h \in Host, NEW p \in Pid, gpc[h][p] \in LivePc,
           NEW verdict, End(h, p, verdict),
           UNCHANGED <<nodeVars, box>>
    PROVE  /\ watchBar' = [watchBar EXCEPT ![h] = "off"]
           /\ UNCHANGED <<upBar, done, causeBar>>
           /\ verdict = "disarmed" => verdictBar' = [verdictBar EXCEPT ![h] = "released"]
           /\ verdict = "error" => verdictBar' = [verdictBar EXCEPT ![h] = "failed"]
           /\ verdict \in Fired /\ ~Missed(verdict, p) => verdictBar' = [verdictBar EXCEPT ![h] = "fired"]
           /\ Missed(verdict, p) => verdictBar' = [verdictBar EXCEPT ![h] = "missed"]
<1>1. watchBar' = [watchBar EXCEPT ![h] = "off"]
  BY MoveWatch DEF End, GuardPc, FiringPc
<1>2. TypeOK /\ Save(h, p, verdict)
  BY DEF GuardInv, End
<1> QED
  BY <1>1, <1>2, SaveVerdict, Frame DEF nodeVars

LEMMA GuardStepLease ==
    ASSUME GuardInv, NEW h \in Host, NEW p \in Pid, GuardStep(h, p)
    PROVE  Lease!Next \/ UNCHANGED leaseVarsBar
<1> USE Frame DEF nodeVars
<1>0. /\ TypeOK /\ FileOfGuard
      /\ {"poll", "inspect", "kill", "confirm", "assert", "ended"} \subseteq GuardPc
      /\ FiringPc = {"inspect", "kill", "confirm"}
      /\ {"boot", "poll", "inspect", "kill", "confirm", "assert"} \subseteq LivePc
      /\ Fired = {"triggered", "triggered_container_absent", "triggered_already_stopped"}
      /\ Fired \union {"disarmed", "error"} \subseteq Verdicts
  BY DEF GuardInv, GuardPc, FiringPc, LivePc, Fired, Verdicts
<1>1. CASE GuardArms(h, p)
  <2>1. watchBar[h] = "off" /\ watchBar' = [watchBar EXCEPT ![h] = "on"]
    BY <1>0, <1>1, MoveWatch DEF GuardArms
  <2>2. verdictBar' = [verdictBar EXCEPT ![h] = "none"]
    BY <1>0, <1>1, SaveVerdict DEF GuardArms
  <2>3. UNCHANGED <<upBar, done, causeBar>>
    BY <1>1 DEF GuardArms
  <2>4. Lease!Begin(h)
    BY <2>1, <2>2, <2>3 DEF Lease!Begin, Lease!Becomes
  <2> QED
    BY <2>4 DEF Lease!Next
<1>2. CASE GuardSeesDone(h, p)
  <2>1. Lease!Release(h)
    <3>1. watchBar[h] = "on"
      BY <1>0, <1>2 DEF GuardSeesDone, watchBar, WatchOf
    <3> QED
      BY <1>0, <1>2, <3>1, EndLease DEF GuardSeesDone, Lease!Release, Lease!Becomes
  <2> QED
    BY <2>1 DEF Lease!Next
<1>3. CASE GuardHeartbeat(h, p)
  <2>1. file[h].phase = "armed"
    BY <1>0, <1>3 DEF GuardHeartbeat, FileOfGuard
  <2>2. verdictBar[h] = "none" /\ verdictBar = [verdictBar EXCEPT ![h] = verdictBar[h]]
    BY <2>1 DEF verdictBar, VerdictOf, Fired
  <2>3. verdictBar' = [verdictBar EXCEPT ![h] = "none"]
    BY <1>0, <1>3, SaveVerdict DEF GuardHeartbeat
  <2> QED
    BY <1>3, <2>2, <2>3 DEF GuardHeartbeat, leaseVarsBar
<1>4. CASE GuardTriggers(h, p)
  <2>1. watchBar[h] = "on" /\ watchBar' = [watchBar EXCEPT ![h] = "firing"]
    BY <1>0, <1>4, MoveWatch DEF GuardTriggers
  <2>2. causeBar[h]
    BY <1>4 DEF GuardTriggers, MustStop, causeBar
  <2>3. verdictBar' = [verdictBar EXCEPT ![h] = verdictBar[h]]
    BY <1>4 DEF GuardTriggers, verdictBar
  <2>4. Lease!Decide(h)
    BY <1>4, <2>1, <2>2, <2>3 DEF GuardTriggers, Lease!Decide, Lease!Becomes
  <2> QED
    BY <2>4 DEF Lease!Next
<1>5. CASE GuardInspects(h, p)
  <2>0. gpc[h][p] = "inspect" /\ UNCHANGED <<done, overdue, low, box>>
    BY <1>5 DEF GuardInspects
  <2>1. watchBar[h] = "firing"
    BY <1>0, <2>0, OthersRest, WatchOfOne DEF watchBar
  <2>2. ASSUME NEW v \in Fired \ {"triggered"}, End(h, p, v), ~Missed(v, p) => ~Running(h)
        PROVE  Lease!Next
    <3>1. /\ watchBar' = [watchBar EXCEPT ![h] = "off"]
          /\ UNCHANGED <<upBar, done, causeBar>>
          /\ ~Missed(v, p) => verdictBar' = [verdictBar EXCEPT ![h] = "fired"]
          /\ Missed(v, p) => verdictBar' = [verdictBar EXCEPT ![h] = "missed"]
      BY <1>0, <2>0, <2>2, EndLease
    <3>2. CASE Missed(v, p)
      <4>1. Lease!Miss(h)
        BY <2>1, <3>1, <3>2 DEF Lease!Miss, Lease!Becomes
      <4> QED
        BY <4>1 DEF Lease!Next
    <3>3. CASE ~Missed(v, p)
      <4>1. ~upBar[h]
        BY <2>2, <3>3 DEF upBar
      <4>2. Lease!Fire(h)
        BY <2>1, <3>1, <3>3, <4>1 DEF Lease!Fire, Lease!Becomes
      <4> QED
        BY <4>2 DEF Lease!Next
    <3> QED
      BY <3>2, <3>3
  <2>3. CASE End(h, p, "error")
    <3>1. Lease!Fail(h)
      BY <1>0, <2>0, <2>1, <2>3, EndLease DEF Lease!Fail, Lease!Becomes
    <3> QED
      BY <3>1 DEF Lease!Next
  <2>4. CASE Goto(h, p, "kill") /\ UNCHANGED file
    <3>1. watchBar' = [watchBar EXCEPT ![h] = "firing"]
      BY <1>0, <2>0, <2>4, MoveWatch
    <3>2. watchBar = [watchBar EXCEPT ![h] = "firing"]
      BY <2>1 DEF watchBar
    <3> QED
      BY <2>0, <2>4, <3>1, <3>2 DEF leaseVarsBar
  <2>6. box[h].st = "exited" /\ End(h, p, "triggered_already_stopped") => Lease!Next
    <3>1. "triggered_already_stopped" \in Fired \ {"triggered"}
      BY <1>0
    <3>2. box[h].st = "exited" => ~Running(h)
      BY DEF Running
    <3> QED
      BY <2>2, <3>1, <3>2
  <2>5. CASE box[h].st = "absent" \/ DockerFails(p)
    <3>1. "triggered_container_absent" \in Fired \ {"triggered"}
      BY <1>0
    <3>2. ~Missed("triggered_container_absent", p) /\ box[h].st = "absent" => ~Running(h)
      BY DEF Running
    <3>3. ~Missed("triggered_container_absent", p) => box[h].st = "absent"
      BY <2>5 DEF Missed
    <3>4. End(h, p, "triggered_container_absent") => Lease!Next
      BY <2>2, <3>1, <3>2, <3>3
    <3> QED
      BY <1>5, <2>3, <2>4, <2>6, <3>4 DEF GuardInspects
  <2> QED
    BY <1>5, <2>3, <2>4, <2>5, <2>6 DEF GuardInspects
<1>6. CASE GuardKills(h, p)
  <2>1. UNCHANGED watchBar
    <3>1. watchBar[h] = "firing" /\ watchBar' = [watchBar EXCEPT ![h] = "firing"]
      BY <1>0, <1>6, MoveWatch DEF GuardKills
    <3> QED
      BY <3>1 DEF watchBar
  <2>2. UNCHANGED <<verdictBar, done, causeBar>>
    BY <1>6 DEF GuardKills
  <2>3. CASE UNCHANGED box
    BY <2>1, <2>2, <2>3 DEF leaseVarsBar
  <2>4. CASE Running(h) /\ box' = [box EXCEPT ![h].st = "exited"]
    <3>1. upBar' = [upBar EXCEPT ![h] = ~@]
      <4>1. box'[h].st = "exited" /\ \A g \in Host \ {h} : box'[g] = box[g]
        BY <1>0, <2>4, BoxFact
      <4> QED
        BY <2>4, <4>1 DEF upBar, Running
    <3>2. Lease!Around(h)
      BY <2>1, <2>2, <3>1 DEF Lease!Around
    <3> QED
      BY <3>2 DEF Lease!Next
  <2> QED
    BY <1>6, <2>3, <2>4 DEF GuardKills, KillTarget
<1>7. CASE GuardConfirms(h, p)
  <2>0. gpc[h][p] = "confirm" /\ UNCHANGED <<done, overdue, low, box>>
    BY <1>7 DEF GuardConfirms
  <2>1. watchBar[h] = "firing"
    BY <1>0, <2>0, OthersRest, WatchOfOne DEF watchBar
  <2>2. CASE End(h, p, "error")
    <3>1. Lease!Fail(h)
      BY <1>0, <2>0, <2>1, <2>2, EndLease DEF Lease!Fail, Lease!Becomes
    <3> QED
      BY <3>1 DEF Lease!Next
  <2>3. CASE box[h].st = "exited" /\ End(h, p, "triggered")
    <3>1. watchBar' = [watchBar EXCEPT ![h] = "off"]
      BY <1>0, <2>0, <2>3, MoveWatch DEF End
    <3>2. verdictBar' = [verdictBar EXCEPT ![h] = "fired"]
      BY <1>0, <2>3, SaveVerdict DEF End, Missed
    <3>3. ~upBar[h]
      BY <2>3 DEF upBar, Running
    <3>4. Lease!Fire(h)
      BY <2>0, <2>1, <3>1, <3>2, <3>3 DEF Lease!Fire, Lease!Becomes
    <3> QED
      BY <3>4 DEF Lease!Next
  <2>4. CASE Goto(h, p, "assert") /\ SaveState(h, p, "triggered", TRUE)
    <3>1. watchBar' = [watchBar EXCEPT ![h] = "off"]
      BY <1>0, <2>0, <2>4, MoveWatch
    <3>2. verdictBar' = [verdictBar EXCEPT ![h] = "failed"]
      BY <1>0, <2>4, SaveUp
    <3>3. Lease!Fail(h)
      BY <2>0, <2>1, <3>1, <3>2 DEF Lease!Fail, Lease!Becomes
    <3> QED
      BY <3>3 DEF Lease!Next
  <2> QED
    BY <1>7, <2>2, <2>3, <2>4 DEF GuardConfirms
<1>8. CASE GuardAsserts(h, p)
  <2>1. /\ gpc[h][p] = "assert" /\ End(h, p, "error")
        /\ UNCHANGED <<done, overdue, low, box>>
    BY <1>8 DEF GuardAsserts
  <2>2. watchBar[h] = "off" /\ watchBar = [watchBar EXCEPT ![h] = watchBar[h]]
    BY <1>0, <2>1, OthersRest, WatchOfOne DEF watchBar
  <2>3. verdictBar[h] = "failed" /\ verdictBar = [verdictBar EXCEPT ![h] = verdictBar[h]]
    BY <1>0, <2>1 DEF FileOfGuard, verdictBar, VerdictOf
  <2> QED
    BY <1>0, <2>1, <2>2, <2>3, EndLease DEF leaseVarsBar
<1> QED
  BY <1>1, <1>2, <1>3, <1>4, <1>5, <1>6, <1>7, <1>8 DEF GuardStep
LEMMA FaultLease ==
    ASSUME GuardInv, NEW h \in Host, NEW p \in Pid, GuardFault(h, p)
    PROVE  Lease!Next \/ UNCHANGED leaseVarsBar
<1> USE Frame DEF nodeVars
<1>0. /\ TypeOK /\ "ended" \in GuardPc /\ FiringPc = {"inspect", "kill", "confirm"}
      /\ FiringPc \subseteq LivePc
      /\ LivePc = FiringPc \union {"poll", "boot", "assert"}
  BY DEF GuardInv, GuardPc, FiringPc, LivePc
<1>1. CASE GuardDockerTimeout(h, p)
  <2>1. gpc[h][p] \in FiringPc /\ End(h, p, "error") /\ UNCHANGED <<done, overdue, low, box>>
    BY <1>0, <1>1 DEF GuardDockerTimeout
  <2>2. watchBar[h] = "firing"
    BY <1>0, <2>1, OthersRest, WatchOfOne DEF watchBar
  <2>3. Lease!Fail(h)
    BY <1>0, <2>1, <2>2, EndLease DEF Lease!Fail, Lease!Becomes
  <2> QED
    BY <2>3 DEF Lease!Next
<1>2. CASE GuardKilled(h, p)
  <2>1. /\ gpc[h][p] \in LivePc /\ Goto(h, p, "ended")
        /\ UNCHANGED <<file, done, overdue, low, box>>
    BY <1>2 DEF GuardKilled
  <2>2. watchBar' = [watchBar EXCEPT ![h] = "off"]
    BY <1>0, <2>1, MoveWatch
  <2>3. verdictBar' = [verdictBar EXCEPT ![h] = verdictBar[h]]
    BY <2>1 DEF verdictBar
  <2>4. CASE watchBar[h] = "off"
    <3>1. watchBar' = watchBar
      BY <2>2, <2>4 DEF watchBar
    <3> QED
      BY <2>1, <3>1 DEF leaseVarsBar
  <2>5. CASE watchBar[h] # "off"
    <3>1. Lease!Lose(h)
      BY <2>1, <2>2, <2>3, <2>5 DEF Lease!Lose, Lease!Becomes
    <3> QED
      BY <3>1 DEF Lease!Next
  <2> QED
    BY <2>4, <2>5
<1> QED
  BY <1>1, <1>2 DEF GuardFault

(* One of up, asked and cause changes at one node, or nothing does.        *)
LEMMA AroundLease ==
    ASSUME TypeOK, NEW h \in Host, UNCHANGED <<watchBar, verdictBar>>,
           \/ UNCHANGED <<done, low, overdue>> /\ \A g \in Host \ {h} : box'[g] = box[g]
           \/ UNCHANGED <<box, low, overdue>>
              /\ \E b \in BOOLEAN : done' = [done EXCEPT ![h] = b]
           \/ UNCHANGED <<box, done>>
              /\ \A g \in Host \ {h} : low'[g] = low[g] /\ overdue'[g] = overdue[g]
    PROVE  Lease!Next \/ UNCHANGED leaseVarsBar
<1> USE Frame
<1>1. CASE UNCHANGED <<done, low, overdue>> /\ \A g \in Host \ {h} : box'[g] = box[g]
  <2>1. UNCHANGED upBar \/ upBar' = [upBar EXCEPT ![h] = ~@]
    <3>1. upBar \in [Host -> BOOLEAN] /\ upBar' \in [Host -> BOOLEAN]
      BY DEF upBar, Running
    <3>2. \A g \in Host \ {h} : upBar'[g] = upBar[g]
      BY <1>1 DEF upBar, Running
    <3> QED
      BY <3>1, <3>2
  <2>2. UNCHANGED upBar \/ Lease!Around(h)
    BY <1>1, <2>1 DEF Lease!Around
  <2> QED
    BY <1>1, <2>2 DEF leaseVarsBar, Lease!Next
<1>2. CASE UNCHANGED <<box, low, overdue>> /\ \E b \in BOOLEAN : done' = [done EXCEPT ![h] = b]
  <2>1. UNCHANGED done \/ done' = [done EXCEPT ![h] = ~@]
    BY <1>2 DEF TypeOK
  <2>2. UNCHANGED done \/ Lease!Around(h)
    BY <1>2, <2>1 DEF Lease!Around
  <2> QED
    BY <1>2, <2>2 DEF leaseVarsBar, Lease!Next
<1>3. CASE UNCHANGED <<box, done>>
           /\ \A g \in Host \ {h} : low'[g] = low[g] /\ overdue'[g] = overdue[g]
  <2>1. UNCHANGED causeBar \/ causeBar' = [causeBar EXCEPT ![h] = ~@]
    BY <1>3 DEF causeBar
  <2>2. UNCHANGED causeBar \/ Lease!Around(h)
    BY <1>3, <2>1 DEF Lease!Around
  <2> QED
    BY <1>3, <2>2 DEF leaseVarsBar, Lease!Next
<1> QED
  BY <1>1, <1>2, <1>3

LEMMA LeaseStep == GuardInv /\ [Next]_vars => [Lease!Next]_leaseVarsBar
<1> SUFFICES ASSUME GuardInv, [Next]_vars PROVE Lease!Next \/ UNCHANGED leaseVarsBar
    OBVIOUS
<1>0. TypeOK
  BY DEF GuardInv
<1> USE Frame DEF guardVars, nodeVars
<1>1. ASSUME NEW h \in Host, NEW p \in Pid, GuardStep(h, p) \/ GuardFault(h, p)
      PROVE  Lease!Next \/ UNCHANGED leaseVarsBar
  BY <1>1, GuardStepLease, FaultLease
<1>2. ASSUME NEW h \in Host, NEW p \in Pid, DeadlinePasses(h, p)
      PROVE  Lease!Next \/ UNCHANGED leaseVarsBar
  <2>1. \A g \in Host \ {h} : low'[g] = low[g] /\ overdue'[g] = overdue[g]
    BY <1>0, <1>2 DEF DeadlinePasses, TypeOK
  <2> QED
    BY <1>0, <1>2, <2>1, AroundLease DEF DeadlinePasses
<1>3. ASSUME NEW h \in Host, NEW p \in Pid, OperatorSpawns(h, p)
      PROVE  Lease!Next \/ UNCHANGED leaseVarsBar
  <2>1. UNCHANGED watchBar
    <3>1. /\ \A g \in Host \ {h} : gpc'[g] = gpc[g]
          /\ \A q \in Pid : gpc[h][q] \in {"none", "ended"}
          /\ \A q \in Pid : gpc'[h][q] \in {"none", "boot", "ended"}
      BY <1>0, <1>3 DEF OperatorSpawns, SpawnGuard, TypeOK
    <3>2. WatchOf(gpc[h]) = "off" /\ WatchOf(gpc'[h]) = "off"
      BY <3>1 DEF WatchOf, FiringPc
    <3> QED
      BY <3>1, <3>2 DEF watchBar
  <2> QED
    BY <1>0, <1>3, <2>1, AroundLease DEF OperatorSpawns
<1>4. ASSUME NEW h \in Host, OperatorTouchesDone(h)
      PROVE  Lease!Next \/ UNCHANGED leaseVarsBar
  BY <1>0, <1>4, AroundLease DEF OperatorTouchesDone
<1>5. ASSUME NEW h \in Host, DockerStep(h)
      PROVE  Lease!Next \/ UNCHANGED leaseVarsBar
  <2>1. \A g \in Host \ {h} : box'[g] = box[g]
    BY <1>0, <1>5 DEF DockerStep, BoxStarts, BoxExits, BoxStops, BoxRemoved, TypeOK
  <2> QED
    BY <1>0, <1>5, <2>1, AroundLease DEF DockerStep
<1>6. ASSUME NEW h \in Host, HeartbeatAges(h)
      PROVE  Lease!Next \/ UNCHANGED leaseVarsBar
  <2>1. \A g \in Host : /\ file'[g].phase = file[g].phase /\ file'[g].up = file[g].up
                        /\ file'[g].pid = file[g].pid
    BY <1>0, <1>6 DEF HeartbeatAges, TypeOK, StateFile
  <2>2. UNCHANGED verdictBar
    BY <2>1 DEF verdictBar
  <2> QED
    BY <1>6, <2>2 DEF HeartbeatAges, leaseVarsBar
<1>7. ASSUME NEW h \in Host, MemoryDrops(h) \/ MemoryRecovers(h)
      PROVE  Lease!Next \/ UNCHANGED leaseVarsBar
  <2>1. \A g \in Host \ {h} : low'[g] = low[g] /\ overdue'[g] = overdue[g]
    BY <1>0, <1>7 DEF MemoryDrops, MemoryRecovers, TypeOK
  <2> QED
    BY <1>0, <1>7, <2>1, AroundLease DEF MemoryDrops, MemoryRecovers
<1>8. CASE UNCHANGED vars
  BY <1>8 DEF vars, leaseVarsBar
<1> QED
  BY <1>1, <1>2, <1>3, <1>4, <1>5, <1>6, <1>7, <1>8 DEF Next, NodeStep

LEMMA LeaseInit == Init => Lease!Init
<1> SUFFICES ASSUME Init PROVE Lease!Init
    OBVIOUS
<1>0. TypeOK
  BY InitInv DEF GuardInv
<1>1. watchBar = [h \in Host |-> "off"]
  BY DEF Init, watchBar, WatchOf, FiringPc
<1>2. causeBar = [h \in Host |-> FALSE]
  BY DEF Init, causeBar
<1>3. verdictBar \in [Host -> {"none", "released", "fired", "missed", "failed"}]
  BY DEF verdictBar, VerdictOf
<1>4. upBar \in [Host -> BOOLEAN] /\ done \in [Host -> BOOLEAN]
  BY <1>0 DEF upBar, Running, TypeOK
<1> QED
  BY <1>1, <1>2, <1>3, <1>4 DEF Lease!Init, Lease!LeaseTypeOK

(***************************************************************************)
(* The guard implements the watch lease: a watch ends once, by a release   *)
(* that was asked for, by a shot reported only when nothing runs under the *)
(* watched name, by a report that it saw nothing to stop (which is a shot  *)
(* where docker does not fail), by a reported failure, or without a word.  *)
(***************************************************************************)
THEOREM GuardKeepsLease == Spec => KeepsLease
<1>1. GuardInv /\ [Next]_vars => [Lease!Next]_leaseVarsBar
  BY LeaseStep
<1> QED
  BY GuardInvariant, LeaseInit, <1>1, PTL
  DEF Spec, KeepsLease, Lease!Spec, Lease!leaseVars, leaseVarsBar

--------------------------------------------------------------------------------
(***************************************************************************)
(* Campaigns that follow each other, and crash where they like, use the    *)
(* guards of a node one at a time, for every number of nodes, guards and   *)
(* campaigns, as long as docker does what the guards ask of it.  With that *)
(* they are one of the environments that MemoryGuard assumes, so that all  *)
(* that is proved of the guard holds under them.                           *)
(*                                                                         *)
(* A docker kill that fails leaves a guard that has one more word to say   *)
(* ("assert") while its state file is not armed any more: a campaign that  *)
(* starts just then takes the node for free.                               *)
(***************************************************************************)

(* What a guard was told to kill is stopped when it looks again.           *)
KillsWork ==
    \A h \in Host : \A p \in Pid :
        /\ gpc[h][p] # "assert"
        /\ gpc[h][p] = "confirm" => ~(Running(h) /\ box[h].id = target[h][p])

(* What a campaign knows of the guards of a node, from how far it is.      *)
CampaignKnows(h) ==
    /\ arm[h] \in {"out", "clear", "checked"} => \A p \in Pid : gpc[h][p] # "boot"
    /\ arm[h] = "checked" => \A p \in Pid : gpc[h][p] \in {"none", "ended"}
    /\ arm[h] \in {"spawned", "waiting", "held"} => launched[h] # NoPid /\ ~done[h]
    /\ armed[h] => launched[h] # NoPid
    /\ launched[h] # NoPid =>
          /\ gpc[h][launched[h]] # "none"
          /\ \A p \in Pid : Alive(h, p) => p = launched[h]
    /\ arm[h] = "held" => gpc[h][launched[h]] \notin {"none", "boot"}

(* Nobody but its own campaign has told a guard that it is done.           *)
OnlyOwnersRelease(h) ==
    /\ \A p \in Pid : done[h] /\ Alive(h, p) => p \in released[h]
    /\ file[h].phase = "disarmed" /\ file[h].pid \in Pid => file[h].pid \in released[h]

ArmTypes ==
    /\ arm \in [Host -> ArmPc]
    /\ launched \in [Host -> Pid \union {NoPid}]
    /\ armed \in [Host -> BOOLEAN]
    /\ released \in [Host -> SUBSET Pid]

ArmInv ==
    /\ GuardInv
    /\ ArmTypes
    /\ KillsWork
    /\ \A h \in Host : CampaignKnows(h) /\ OnlyOwnersRelease(h)

USE DEF Pid, NoPid

LEMMA ArmInitInv == ArmInit => ArmInv
<1> SUFFICES ASSUME ArmInit PROVE ArmInv
  OBVIOUS
<1>1. GuardInv
  BY InitInv DEF ArmInit
<1>2. ArmTypes
  BY DEF ArmInit, ArmTypes, ArmPc
<1>3. \A h \in Host : \A p \in Pid : gpc[h][p] = "none"
  BY DEF ArmInit, Init
<1>4. \A h \in Host : arm[h] = "out" /\ launched[h] = NoPid /\ armed[h] = FALSE
  BY DEF ArmInit
<1>5. \A h \in Host : file[h].pid = NoPid
  BY DEF ArmInit, Init
<1>6. KillsWork
  BY <1>3 DEF KillsWork
<1>7. \A h \in Host : CampaignKnows(h)
  BY <1>3, <1>4 DEF CampaignKnows
<1>8. \A h \in Host : OnlyOwnersRelease(h)
  <2>1. NoPid \notin Pid
    OBVIOUS
  <2> HIDE DEF Pid, NoPid
  <2> QED
    BY <1>3, <1>5, <2>1 DEF OnlyOwnersRelease, Alive, LivePc
<1> QED
  BY <1>1, <1>2, <1>6, <1>7, <1>8 DEF ArmInv

(***************************************************************************)
(* What a step of a guard changes: its own place, from a live one to one   *)
(* past boot, and the state file of its node.                              *)
(***************************************************************************)
LEMMA GuardChanges ==
    ASSUME TypeOK, NEW h \in Host, NEW p \in Pid, GuardStep(h, p) \/ GuardFault(h, p)
    PROVE  /\ done' = done /\ gpc[h][p] \in LivePc
           /\ \E pc \in GuardPc \ {"none", "boot"} :
                \A g \in Host : \A q \in Pid :
                    gpc'[g][q] = IF g = h /\ q = p THEN pc ELSE gpc[g][q]
           /\ \A g \in Host : file'[g] # file[g] =>
                 /\ g = h /\ file'[g].pid = p
                 /\ file'[g].phase = "disarmed" => done[g]
<1> USE DEF guardVars, nodeVars
<1>1. CASE GuardArms(h, p)
  <2>1. \A g \in Host : \A q \in Pid : gpc'[g][q] = IF g = h /\ q = p THEN "poll" ELSE gpc[g][q]
    BY <1>1, GotoFact DEF GuardArms
  <2>2. /\ file'[h].phase = "armed" /\ file'[h].pid = p
        /\ \A g \in Host \ {h} : file'[g] = file[g]
    BY <1>1, SaveFact DEF GuardArms, Save
  <2> QED
    BY <1>1, <2>1, <2>2 DEF GuardArms, LivePc, GuardPc
<1>2. ASSUME NEW verdict, End(h, p, verdict), gpc[h][p] \in LivePc, done' = done,
             verdict = "disarmed" => done[h]
      PROVE  /\ done' = done /\ gpc[h][p] \in LivePc
             /\ \E pc \in GuardPc \ {"none", "boot"} :
                  \A g \in Host : \A q \in Pid :
                      gpc'[g][q] = IF g = h /\ q = p THEN pc ELSE gpc[g][q]
             /\ \A g \in Host : file'[g] # file[g] =>
                   /\ g = h /\ file'[g].pid = p
                   /\ file'[g].phase = "disarmed" => done[g]
  <2>1. \A g \in Host : \A q \in Pid : gpc'[g][q] = IF g = h /\ q = p THEN "ended" ELSE gpc[g][q]
    BY <1>2, GotoFact DEF End
  <2>2. /\ file'[h].phase = verdict /\ file'[h].pid = p
        /\ \A g \in Host \ {h} : file'[g] = file[g]
    BY <1>2, SaveFact DEF End, Save
  <2> QED
    BY <1>2, <2>1, <2>2 DEF GuardPc
<1>3. ASSUME NEW pc \in GuardPc \ {"none", "boot"}, Goto(h, p, pc), gpc[h][p] \in LivePc,
             done' = done, file' = file
      PROVE  \E x \in GuardPc \ {"none", "boot"} :
                \A g \in Host : \A q \in Pid :
                    gpc'[g][q] = IF g = h /\ q = p THEN x ELSE gpc[g][q]
  BY <1>3, GotoFact
<1>4. CASE GuardSeesDone(h, p)
  BY <1>2, <1>4 DEF GuardSeesDone, LivePc, GuardPc
<1>5. CASE GuardHeartbeat(h, p)
  <2>1. /\ file'[h].phase = "armed" /\ file'[h].pid = p
        /\ \A g \in Host \ {h} : file'[g] = file[g]
    BY <1>5, SaveFact DEF GuardHeartbeat, Save
  <2> QED
    BY <1>5, <2>1 DEF GuardHeartbeat, LivePc, GuardPc
<1>6. CASE GuardTriggers(h, p)
  BY <1>3, <1>6 DEF GuardTriggers, LivePc, GuardPc
<1>7. CASE GuardInspects(h, p)
  BY <1>2, <1>3, <1>7 DEF GuardInspects, LivePc, GuardPc
<1>8. CASE GuardKills(h, p)
  BY <1>3, <1>8 DEF GuardKills, LivePc, GuardPc
<1>9. CASE GuardConfirms(h, p)
  <2>1. ASSUME Goto(h, p, "assert"), SaveState(h, p, "triggered", TRUE)
        PROVE  /\ \E pc \in GuardPc \ {"none", "boot"} :
                     \A g \in Host : \A q \in Pid :
                         gpc'[g][q] = IF g = h /\ q = p THEN pc ELSE gpc[g][q]
               /\ \A g \in Host : file'[g] # file[g] =>
                     g = h /\ file'[g].pid = p /\ file'[g].phase = "triggered"
    <3>1. /\ file'[h].phase = "triggered" /\ file'[h].pid = p
          /\ \A g \in Host \ {h} : file'[g] = file[g]
      BY <2>1, SaveFact
    <3>2. \A g \in Host : \A q \in Pid :
              gpc'[g][q] = IF g = h /\ q = p THEN "assert" ELSE gpc[g][q]
      BY <2>1, GotoFact
    <3> QED
      BY <3>1, <3>2 DEF GuardPc
  <2>2. gpc[h][p] \in LivePc /\ done' = done
    BY <1>9 DEF GuardConfirms, LivePc, GuardPc
  <2> QED
    BY <1>2, <1>9, <2>1, <2>2 DEF GuardConfirms
<1>10. CASE GuardAsserts(h, p)
  BY <1>2, <1>10 DEF GuardAsserts, LivePc, GuardPc
<1>11. CASE GuardDockerTimeout(h, p)
  BY <1>2, <1>11 DEF GuardDockerTimeout, LivePc, GuardPc
<1>12. CASE GuardKilled(h, p)
  BY <1>3, <1>12 DEF GuardKilled, LivePc, GuardPc
<1> QED
  BY <1>1, <1>4, <1>5, <1>6, <1>7, <1>8, <1>9, <1>10, <1>11, <1>12 DEF GuardStep, GuardFault

--------------------------------------------------------------------------------
(***************************************************************************)
(* A campaign starts a guard only where none is at work: a guard that      *)
(* watches says so in the state file, one that ended with a failed kill is *)
(* excluded by KillsWork, and one that has not saved yet by NextCampaign.  *)
(***************************************************************************)
LEMMA ChecksOldKnows ==
    ASSUME ArmInv, NEW h \in Host, arm[h] = "clear",
           ~(file[h].phase = "armed" /\ Alive(h, file[h].pid))
    PROVE  \A p \in Pid : gpc[h][p] \in {"none", "ended"}
<1> SUFFICES ASSUME NEW p \in Pid, gpc[h][p] \notin {"none", "ended"} PROVE FALSE
  OBVIOUS
<1>1. gpc[h][p] \in GuardPc
  BY TypeFact DEF ArmInv, GuardInv
<1>2. gpc[h][p] \notin {"boot", "assert"}
  BY DEF ArmInv, CampaignKnows, KillsWork
<1>3. file[h].pid = p /\ file[h].phase = "armed"
  BY <1>1, <1>2 DEF ArmInv, GuardInv, FileOfGuard, GuardPc
<1> QED
  BY <1>1, <1>3 DEF Alive, LivePc

LEMMA ArmNextIsNext == ArmInv /\ [ArmNext]_allVars => [Next]_vars
<1> SUFFICES ASSUME ArmInv, [ArmNext]_allVars PROVE [Next]_vars
  OBVIOUS
<1>1. CASE UNCHANGED allVars
  BY <1>1 DEF allVars
<1>2. CASE NextCampaign
  BY <1>2 DEF NextCampaign
<1>3. ASSUME NEW h \in Host, NodeMoves(h) PROVE [Next]_vars
  BY <1>3 DEF NodeMoves, Next
<1>4. ASSUME NEW h \in Host, ArmInspects(h) PROVE [Next]_vars
  <2>1. BoxRemoved(h) \/ UNCHANGED box
    BY <1>4 DEF ArmInspects
  <2>2. UNCHANGED <<guardVars, nodeVars>>
    BY <1>4 DEF ArmInspects
  <2>3. CASE BoxRemoved(h)
    BY <2>2, <2>3 DEF Next, DockerStep
  <2>4. CASE UNCHANGED box
    BY <2>2, <2>4 DEF guardVars, nodeVars, vars
  <2> QED
    BY <2>1, <2>3, <2>4
<1>5. ASSUME NEW h \in Host, ArmSpawns(h) PROVE [Next]_vars
  <2>1. \A p \in Pid : gpc[h][p] \in {"none", "ended"}
    BY <1>5 DEF ArmSpawns, ArmInv, CampaignKnows
  <2>2. \E p \in Pid : OperatorSpawns(h, p)
    BY <1>5, <2>1 DEF ArmSpawns, OperatorSpawns
  <2> QED
    BY <2>2 DEF Next
<1>6. ASSUME NEW h \in Host, DisarmTouches(h) PROVE [Next]_vars
  BY <1>6 DEF DisarmTouches, OperatorTouchesDone, Next
<1>7. ASSUME NEW h \in Host,
             ArmChecksOld(h) \/ ArmRecords(h) \/ ArmSeesArmed(h) \/ ArmRaises(h)
      PROVE  [Next]_vars
  BY <1>7 DEF ArmChecksOld, ArmRecords, ArmSeesArmed, ArmRaises
<1> QED
  BY <1>1, <1>2, <1>3, <1>4, <1>5, <1>6, <1>7 DEF ArmNext, ArmStep

(***************************************************************************)
(* A kill that docker carries out leaves nothing to confirm but a stopped  *)
(* container, and no later container has the id of an earlier one.         *)
(***************************************************************************)
LEMMA KillsWorkStep ==
    ASSUME "docker" \notin GuardFaults, GuardInv, TypeOK', KillsWork, [Next]_vars
    PROVE  KillsWork'
<1> USE DEF guardVars, nodeVars
<1> HIDE DEF Pid, NoPid
<1>0. TypeOK
  BY DEF GuardInv
<1>1. ASSUME NEW h \in Host, NEW p \in Pid, NEW pc \in GuardPc \ {"confirm", "assert"},
             Goto(h, p, pc), UNCHANGED <<target, box>>
      PROVE  KillsWork'
  <2>1. \A g \in Host : \A q \in Pid :
            gpc'[g][q] = IF g = h /\ q = p THEN pc ELSE gpc[g][q]
    BY <1>0, <1>1, GotoFact
  <2> QED
    BY <1>1, <2>1 DEF KillsWork, Running
<1>2. ASSUME UNCHANGED <<gpc, target>>,
             \A h \in Host : \A p \in Pid :
                 Running(h)' /\ box'[h].id = target[h][p] => Running(h) /\ box[h].id = target[h][p]
      PROVE  KillsWork'
  BY <1>2 DEF KillsWork
<1>3. ASSUME NEW h \in Host, NEW p \in Pid, GuardStep(h, p) PROVE KillsWork'
  <2>1. CASE GuardArms(h, p)
    BY <1>1, <2>1 DEF GuardArms, GuardPc
  <2>2. ASSUME NEW verdict, End(h, p, verdict), UNCHANGED <<target, box>> PROVE KillsWork'
    BY <1>1, <2>2 DEF End, GuardPc
  <2>3. CASE GuardSeesDone(h, p)
    BY <2>2, <2>3 DEF GuardSeesDone
  <2>4. CASE GuardHeartbeat(h, p)
    BY <1>2, <2>4 DEF GuardHeartbeat, Running
  <2>5. CASE GuardTriggers(h, p)
    BY <1>1, <2>5 DEF GuardTriggers, GuardPc
  <2>6. CASE GuardInspects(h, p)
    <3>1. ASSUME NEW verdict, End(h, p, verdict), UNCHANGED target PROVE KillsWork'
      BY <2>2, <2>6, <3>1 DEF GuardInspects
    <3>2. ASSUME target' = [target EXCEPT ![h][p] = box[h].id], Goto(h, p, "kill")
          PROVE  KillsWork'
      <4>1. \A g \in Host : \A q \in Pid :
                gpc'[g][q] = IF g = h /\ q = p THEN "kill" ELSE gpc[g][q]
        BY <1>0, <3>2, GotoFact
      <4>2. \A g \in Host : \A q \in Pid :
                target'[g][q] = IF g = h /\ q = p THEN box[h].id ELSE target[g][q]
        BY <1>0, <3>2 DEF TypeOK
      <4>3. UNCHANGED box
        BY <2>6 DEF GuardInspects
      <4> QED
        BY <4>1, <4>2, <4>3 DEF KillsWork, Running
    <3> QED
      BY <2>6, <3>1, <3>2 DEF GuardInspects
  <2>7. CASE GuardKills(h, p)
    <3>1. \A g \in Host : \A q \in Pid :
              gpc'[g][q] = IF g = h /\ q = p THEN "confirm" ELSE gpc[g][q]
      BY <1>0, <2>7, GotoFact DEF GuardKills
    <3>2. KillTarget(h, p) /\ UNCHANGED target
      BY <2>7 DEF GuardKills, DockerFails
    <3>3. CASE Running(h) /\ box[h].id = target[h][p]
      <4>1. /\ box'[h].st = "exited"
            /\ \A g \in Host \ {h} : box'[g] = box[g]
        BY <1>0, <3>2, <3>3, BoxFact DEF KillTarget
      <4> QED
        BY <3>1, <3>2, <4>1 DEF KillsWork, Running
    <3>4. CASE ~(Running(h) /\ box[h].id = target[h][p])
      <4>1. UNCHANGED box
        BY <3>2, <3>4 DEF KillTarget
      <4> QED
        BY <3>1, <3>2, <3>4, <4>1 DEF KillsWork, Running
    <3> QED
      BY <3>3, <3>4
  <2>8. CASE GuardConfirms(h, p)
    <3>1. ~(Running(h) /\ box[h].id = target[h][p])
      BY <2>8 DEF GuardConfirms, KillsWork
    <3> QED
      BY <2>2, <2>8, <3>1 DEF GuardConfirms
  <2>9. CASE GuardAsserts(h, p)
    BY <2>2, <2>9 DEF GuardAsserts
  <2> QED
    BY <1>3, <2>1, <2>3, <2>4, <2>5, <2>6, <2>7, <2>8, <2>9 DEF GuardStep
<1>4. ASSUME NEW h \in Host, NEW p \in Pid, GuardFault(h, p) PROVE KillsWork'
  <2>1. GuardKilled(h, p)
    BY <1>4 DEF GuardFault, GuardDockerTimeout, DockerFails
  <2> QED
    BY <1>1, <2>1 DEF GuardKilled, GuardPc
<1>5. ASSUME NEW h \in Host, NEW p \in Pid, OperatorSpawns(h, p) PROVE KillsWork'
  <2>1. Goto(h, p, "boot") /\ UNCHANGED <<target, box>>
    BY <1>5 DEF OperatorSpawns, SpawnGuard, Goto
  <2> QED
    BY <1>1, <2>1 DEF GuardPc
<1>6. ASSUME NEW h \in Host, DockerStep(h) PROVE KillsWork'
  <2>1. UNCHANGED <<gpc, target>>
    BY <1>6 DEF DockerStep
  <2>2. ASSUME NEW own \in BOOLEAN, BoxStarts(h, own) PROVE KillsWork'
    <3>1. box'[h].id = box[h].id + 1 /\ \A g \in Host \ {h} : box'[g] = box[g]
      BY <1>0, <2>2 DEF BoxStarts, TypeOK
    <3>2. \A p \in Pid : target[h][p] <= box[h].id /\ target[h][p] \in Nat /\ box[h].id \in Nat
      BY <1>0, TypeFact DEF GuardInv, TargetsKnown
    <3>3. \A p \in Pid : box'[h].id # target[h][p]
      BY <3>1, <3>2
    <3> QED
      BY <1>2, <2>1, <3>1, <3>3 DEF Running
  <2>3. ASSUME NEW st \in {"exited", "absent"}, box' = [box EXCEPT ![h].st = st]
        PROVE  KillsWork'
    <3>1. box'[h].st = st /\ \A g \in Host \ {h} : box'[g] = box[g]
      BY <1>0, <2>3, BoxFact
    <3> QED
      BY <1>2, <2>1, <3>1 DEF Running
  <2> QED
    BY <1>6, <2>2, <2>3 DEF DockerStep, BoxExits, BoxStops, BoxRemoved
<1>7. ASSUME UNCHANGED <<gpc, target, box>> PROVE KillsWork'
  BY <1>2, <1>7 DEF Running
<1>8. ASSUME NEW h \in Host, OperatorTouchesDone(h) \/ NodeStep(h) PROVE KillsWork'
  BY <1>7, <1>8 DEF OperatorTouchesDone, NodeStep, HeartbeatAges, MemoryDrops, MemoryRecovers
<1>9. ASSUME NEW h \in Host, NEW p \in Pid, DeadlinePasses(h, p) PROVE KillsWork'
  BY <1>7, <1>9 DEF DeadlinePasses
<1> QED
  BY <1>3, <1>4, <1>5, <1>6, <1>7, <1>8, <1>9 DEF Next, vars

--------------------------------------------------------------------------------
(* What a campaign knows stays true while guards move on.                  *)
LEMMA GuardMovesKnow ==
    ASSUME ArmInv, NEW h \in Host, NEW p \in Pid, GuardStep(h, p) \/ GuardFault(h, p),
           UNCHANGED armVars, NEW g \in Host
    PROVE  CampaignKnows(g)' /\ OnlyOwnersRelease(g)'
<1> HIDE DEF Pid, NoPid
<1>0. TypeOK
  BY DEF ArmInv, GuardInv
<1>1. done' = done /\ gpc[h][p] \in LivePc
  BY <1>0, GuardChanges
<1>2. PICK pc \in GuardPc \ {"none", "boot"} :
          \A f \in Host : \A q \in Pid :
              gpc'[f][q] = IF f = h /\ q = p THEN pc ELSE gpc[f][q]
  BY <1>0, GuardChanges
<1>3. file'[g] # file[g] => /\ g = h /\ file'[g].pid = p
                            /\ file'[g].phase = "disarmed" => done[g]
  BY <1>0, GuardChanges
<1>4. CampaignKnows(g) /\ OnlyOwnersRelease(g)
  BY DEF ArmInv
<1>5. launched[g] \in Pid \union {NoPid}
  BY DEF ArmInv, ArmTypes
<1>6. \A q \in Pid : Alive(g, q)' => Alive(g, q)
  BY <1>1, <1>2 DEF Alive
<1>7. CampaignKnows(g)'
  BY <1>1, <1>2, <1>4, <1>5, <1>6 DEF CampaignKnows, armVars, LivePc
<1>8. OnlyOwnersRelease(g)'
  <2>1. \A q \in Pid : done'[g] /\ Alive(g, q)' => q \in released'[g]
    BY <1>1, <1>4, <1>6 DEF OnlyOwnersRelease, armVars
  <2>2. ASSUME file'[g].phase = "disarmed", file'[g].pid \in Pid
        PROVE  file'[g].pid \in released'[g]
    <3>1. CASE file'[g] = file[g]
      BY <1>4, <2>2, <3>1 DEF OnlyOwnersRelease, armVars
    <3>2. CASE file'[g] # file[g]
      BY <1>1, <1>3, <1>4, <2>2, <3>2 DEF OnlyOwnersRelease, Alive, armVars
    <3> QED
      BY <3>1, <3>2
  <2> QED
    BY <2>1, <2>2 DEF OnlyOwnersRelease
<1> QED
  BY <1>7, <1>8

(* Nor does anything change that only the node and docker see.             *)
LEMMA AroundKnows ==
    ASSUME ArmInv, NEW g \in Host, UNCHANGED <<gpc, done, armVars>>,
           file'[g].phase = file[g].phase /\ file'[g].pid = file[g].pid
    PROVE  CampaignKnows(g)' /\ OnlyOwnersRelease(g)'
<1> HIDE DEF Pid, NoPid
<1>1. CampaignKnows(g) /\ OnlyOwnersRelease(g)
  BY DEF ArmInv
<1>2. CampaignKnows(g)'
  BY <1>1 DEF CampaignKnows, Alive, armVars
<1>3. OnlyOwnersRelease(g)'
  BY <1>1 DEF OnlyOwnersRelease, Alive, armVars
<1> QED
  BY <1>2, <1>3

LEMMA NodeMovesKnow ==
    ASSUME ArmInv, NEW h \in Host, NodeMoves(h), NEW g \in Host
    PROVE  CampaignKnows(g)' /\ OnlyOwnersRelease(g)'
<1> USE DEF guardVars, nodeVars
<1> HIDE DEF Pid, NoPid
<1>0. UNCHANGED armVars /\ TypeOK
  BY DEF NodeMoves, ArmInv, GuardInv
<1>1. ASSUME NEW p \in Pid, GuardStep(h, p) \/ GuardFault(h, p)
      PROVE  CampaignKnows(g)' /\ OnlyOwnersRelease(g)'
  BY <1>0, <1>1, GuardMovesKnow
<1>2. CASE UNCHANGED <<gpc, done, file>>
  BY <1>0, <1>2, AroundKnows
<1>3. CASE HeartbeatAges(h)
  <2>1. file'[g].phase = file[g].phase /\ file'[g].pid = file[g].pid
    BY <1>0, <1>3 DEF HeartbeatAges, TypeOK, StateFile
  <2> QED
    BY <1>0, <1>3, <2>1, AroundKnows DEF HeartbeatAges
<1> QED
  BY <1>1, <1>2, <1>3 DEF NodeMoves, DeadlinePasses, DockerStep, NodeStep, MemoryDrops,
     MemoryRecovers

--------------------------------------------------------------------------------
(* What a step of a campaign does to what it knows of the nodes.           *)
LEMMA ArmToFact ==
    ASSUME ArmTypes, NEW h \in Host, NEW pc \in ArmPc, ArmTo(h, pc)
    PROVE  /\ arm' \in [Host -> ArmPc]
           /\ \A g \in Host : arm'[g] = IF g = h THEN pc ELSE arm[g]
  BY DEF ArmTypes, ArmTo

LEMMA ArmStepTypes ==
    ASSUME ArmTypes, \A h \in Host : armed[h] => launched[h] # NoPid, [ArmNext]_allVars
    PROVE  ArmTypes'
<1> HIDE DEF Pid, NoPid
<1>0. {"out", "clear", "checked", "spawned", "waiting", "held", "refused", "touched"} \subseteq ArmPc
  BY DEF ArmPc
<1>1. ASSUME NEW h \in Host,
             \/ ArmInspects(h) \/ ArmChecksOld(h) \/ ArmSeesArmed(h) \/ ArmRaises(h)
      PROVE  ArmTypes'
  BY <1>0, <1>1, ArmToFact
     DEF ArmTypes, ArmInspects, ArmChecksOld, ArmSeesArmed, ArmRaises
<1>2. ASSUME NEW h \in Host, ArmSpawns(h) PROVE ArmTypes'
  <2>1. arm' \in [Host -> ArmPc]
    BY <1>0, <1>2, ArmToFact DEF ArmSpawns
  <2> QED
    BY <1>2, <2>1 DEF ArmTypes, ArmSpawns
<1>3. ASSUME NEW h \in Host, ArmRecords(h) PROVE ArmTypes'
  <2>1. arm' \in [Host -> ArmPc]
    BY <1>0, <1>3, ArmToFact DEF ArmRecords
  <2> QED
    BY <1>3, <2>1 DEF ArmTypes, ArmRecords
<1>4. ASSUME NEW h \in Host, DisarmTouches(h) PROVE ArmTypes'
  <2>1. arm' \in [Host -> ArmPc]
    BY <1>0, <1>4, ArmToFact DEF DisarmTouches
  <2>2. launched[h] \in Pid
    BY <1>4 DEF DisarmTouches, ArmTypes
  <2> QED
    BY <1>4, <2>1, <2>2 DEF ArmTypes, DisarmTouches
<1>5. CASE NextCampaign
  BY <1>0, <1>5 DEF NextCampaign, ArmTypes
<1>6. CASE UNCHANGED armVars
  BY <1>6 DEF armVars, ArmTypes
<1> QED
  BY <1>1, <1>2, <1>3, <1>4, <1>5, <1>6 DEF ArmNext, ArmStep, NodeMoves, allVars

(* The variables of a campaign, node by node, after each of its steps.     *)
LEMMA CampaignStepKnows ==
    ASSUME ArmInv, NEW h \in Host, ArmStep(h), NEW g \in Host
    PROVE  CampaignKnows(g)' /\ OnlyOwnersRelease(g)'
<1> USE DEF guardVars, nodeVars, vars
<1> HIDE DEF Pid, NoPid
<1>0. /\ ArmTypes /\ TypeOK
      /\ CampaignKnows(h) /\ OnlyOwnersRelease(h)
      /\ CampaignKnows(g) /\ OnlyOwnersRelease(g)
      /\ {"out", "clear", "checked", "spawned", "waiting", "held", "refused", "touched"}
             \subseteq ArmPc
  BY DEF ArmInv, GuardInv, ArmPc
<1>1. ASSUME NEW pc \in {"clear", "checked", "refused", "held"}, ArmTo(h, pc),
             UNCHANGED <<gpc, done, file, launched, armed, released>>,
             pc = "clear" => arm[h] \in {"out", "clear"},
             pc = "checked" => arm[h] = "clear" /\ \A p \in Pid : gpc[h][p] \in {"none", "ended"},
             pc = "held" => arm[h] = "waiting" /\ gpc[h][launched[h]] \notin {"none", "boot"}
      PROVE  CampaignKnows(g)' /\ OnlyOwnersRelease(g)'
  <2>1. arm'[g] = IF g = h THEN pc ELSE arm[g]
    BY <1>0, <1>1, ArmToFact
  <2>2. OnlyOwnersRelease(g)'
    BY <1>0, <1>1 DEF OnlyOwnersRelease, Alive
  <2>3. CampaignKnows(g)'
    BY <1>0, <1>1, <2>1 DEF CampaignKnows, Alive
  <2> QED
    BY <2>2, <2>3
<1>2. CASE ArmInspects(h)
  BY <1>1, <1>2 DEF ArmInspects
<1>3. CASE ArmChecksOld(h)
  BY <1>1, <1>3, ChecksOldKnows DEF ArmChecksOld
<1>4. CASE ArmRaises(h)
  BY <1>1, <1>4 DEF ArmRaises
<1>5. CASE ArmSeesArmed(h)
  <2>1. launched[h] \in Pid
    BY <1>0, <1>5 DEF ArmSeesArmed, ArmTypes, CampaignKnows
  <2>2. file[h].pid = launched[h] /\ file[h].phase = "armed"
    BY <1>5 DEF ArmSeesArmed
  <2>3. ~(gpc[h][launched[h]] \in {"none", "boot"})
    <3>1. launched[h] \in Nat
      BY <1>0, <2>2, TypeFact
    <3>2. \A p \in Pid : gpc[h][p] \in {"none", "boot"} => file[h].pid < p
      BY DEF ArmInv, GuardInv, FileOfGuard
    <3> QED
      BY <2>1, <2>2, <3>1, <3>2
  <2> QED
    BY <1>1, <1>5, <2>3 DEF ArmSeesArmed
<1>6. CASE ArmSpawns(h)
  <2>1. PICK p \in Pid : SpawnGuard(h, p) /\ launched' = [launched EXCEPT ![h] = p]
    BY <1>6 DEF ArmSpawns
  <2>2. \A f \in Host : \A q \in Pid :
            gpc'[f][q] = IF f = h /\ q = p THEN "boot" ELSE gpc[f][q]
    <3>1. Goto(h, p, "boot")
      BY <2>1 DEF SpawnGuard, Goto
    <3> QED
      BY <1>0, <3>1, GotoFact
  <2>3. arm'[g] = IF g = h THEN "spawned" ELSE arm[g]
    BY <1>0, <1>6, ArmToFact DEF ArmSpawns
  <2>4. launched'[g] = IF g = h THEN p ELSE launched[g]
    BY <1>0, <2>1 DEF ArmTypes
  <2>5. done'[g] = IF g = h THEN FALSE ELSE done[g]
    BY <1>0, <1>6 DEF ArmSpawns, TypeOK
  <2>6. \A q \in Pid : gpc[h][q] \in {"none", "ended"}
    BY <1>0, <1>6 DEF ArmSpawns, CampaignKnows
  <2>7. UNCHANGED <<file, armed, released>>
    BY <1>6 DEF ArmSpawns
  <2>8. NoPid \notin Pid
    BY DEF Pid, NoPid
  <2>9. CASE g = h
    <3>1. \A q \in Pid : Alive(h, q)' => q = p
      BY <2>2, <2>6 DEF Alive, LivePc
    <3>2. CampaignKnows(h)'
      BY <2>2, <2>3, <2>4, <2>5, <2>8, <2>9, <3>1 DEF CampaignKnows
    <3>3. OnlyOwnersRelease(h)'
      BY <1>0, <2>5, <2>7, <2>9 DEF OnlyOwnersRelease
    <3> QED
      BY <2>9, <3>2, <3>3
  <2>10. CASE g # h
    <3>1. \A q \in Pid : gpc'[g][q] = gpc[g][q]
      BY <2>2, <2>10
    <3>2. launched'[g] = launched[g] /\ done'[g] = done[g] /\ arm'[g] = arm[g]
      BY <2>3, <2>4, <2>5, <2>10
    <3>3. launched[g] \in Pid \union {NoPid}
      BY <1>0 DEF ArmTypes
    <3>4. CampaignKnows(g)'
      BY <1>0, <2>7, <3>1, <3>2, <3>3 DEF CampaignKnows, Alive
    <3>5. OnlyOwnersRelease(g)'
      BY <1>0, <2>7, <3>1, <3>2 DEF OnlyOwnersRelease, Alive
    <3> QED
      BY <3>4, <3>5
  <2> QED
    BY <2>9, <2>10
<1>7. CASE ArmRecords(h)
  <2>1. arm'[g] = IF g = h THEN "waiting" ELSE arm[g]
    BY <1>0, <1>7, ArmToFact DEF ArmRecords
  <2>2. armed'[g] = IF g = h THEN TRUE ELSE armed[g]
    BY <1>0, <1>7 DEF ArmRecords, ArmTypes
  <2>3. arm[h] = "spawned" /\ UNCHANGED <<gpc, done, file, launched, released>>
    BY <1>7 DEF ArmRecords
  <2>4. CampaignKnows(g)'
    BY <1>0, <2>1, <2>2, <2>3 DEF CampaignKnows, Alive
  <2>5. OnlyOwnersRelease(g)'
    BY <1>0, <2>3 DEF OnlyOwnersRelease, Alive
  <2> QED
    BY <2>4, <2>5
<1>8. CASE DisarmTouches(h)
  <2>1. arm'[g] = IF g = h THEN "touched" ELSE arm[g]
    BY <1>0, <1>8, ArmToFact DEF DisarmTouches
  <2>2. done'[g] = IF g = h THEN TRUE ELSE done[g]
    BY <1>0, <1>8 DEF DisarmTouches, TypeOK
  <2>3. released'[g] = IF g = h THEN released[g] \union {launched[g]} ELSE released[g]
    BY <1>0, <1>8 DEF DisarmTouches, ArmTypes
  <2>4. armed[h] /\ UNCHANGED <<gpc, file, launched, armed>>
    BY <1>8 DEF DisarmTouches
  <2>5. CampaignKnows(g)'
    BY <1>0, <2>1, <2>2, <2>4 DEF CampaignKnows, Alive
  <2>6. OnlyOwnersRelease(g)'
    BY <1>0, <2>2, <2>3, <2>4 DEF OnlyOwnersRelease, CampaignKnows, Alive
  <2> QED
    BY <2>5, <2>6
<1> QED
  BY <1>2, <1>3, <1>4, <1>5, <1>6, <1>7, <1>8 DEF ArmStep

LEMMA NextCampaignKnows ==
    ASSUME ArmInv, NextCampaign, NEW g \in Host
    PROVE  CampaignKnows(g)' /\ OnlyOwnersRelease(g)'
<1> USE DEF guardVars, nodeVars, vars
<1> HIDE DEF Pid, NoPid
<1>1. /\ arm'[g] = "out" /\ launched'[g] = NoPid /\ armed'[g] = FALSE
      /\ \A p \in Pid : gpc[g][p] # "boot"
      /\ UNCHANGED <<gpc, done, file, released>>
  BY DEF NextCampaign
<1>2. CampaignKnows(g)'
  BY <1>1 DEF CampaignKnows
<1>3. OnlyOwnersRelease(g)'
  BY <1>1 DEF OnlyOwnersRelease, Alive, ArmInv
<1> QED
  BY <1>2, <1>3

LEMMA ArmStepInv ==
    "docker" \notin GuardFaults => (ArmInv /\ [ArmNext]_allVars => ArmInv')
<1> SUFFICES ASSUME "docker" \notin GuardFaults, ArmInv, [ArmNext]_allVars PROVE ArmInv'
  OBVIOUS
<1> HIDE DEF Pid, NoPid
<1>1. [Next]_vars
  BY ArmNextIsNext
<1>2. GuardInv'
  BY <1>1, StepInv DEF ArmInv
<1>3. ArmTypes'
  BY ArmStepTypes DEF ArmInv, CampaignKnows
<1>4. KillsWork'
  BY <1>1, <1>2, KillsWorkStep DEF ArmInv, GuardInv
<1>5. ASSUME NEW g \in Host PROVE CampaignKnows(g)' /\ OnlyOwnersRelease(g)'
  <2>1. CASE UNCHANGED allVars
    BY <1>5, <2>1, AroundKnows DEF allVars, vars
  <2>2. CASE ArmNext
    BY <1>5, <2>2, CampaignStepKnows, NodeMovesKnow, NextCampaignKnows DEF ArmNext
  <2> QED
    BY <2>1, <2>2
<1> QED
  BY <1>2, <1>3, <1>4, <1>5 DEF ArmInv

--------------------------------------------------------------------------------
(***************************************************************************)
(* The invariant holds of every sequence of campaigns, where a docker kill *)
(* does not fail.                                                          *)
(***************************************************************************)
THEOREM ArmInvariant ==
    ASSUME "docker" \notin GuardFaults
    PROVE  ArmSpec => []ArmInv
<1>1. ArmInv /\ [ArmNext]_allVars => ArmInv'
  BY ArmStepInv
<1> QED
  BY ArmInitInv, <1>1, PTL DEF ArmSpec

(***************************************************************************)
(* prepare_guard() starts a guard only on a node where none is watching.   *)
(***************************************************************************)
THEOREM OneWatcherAtATime ==
    ASSUME "docker" \notin GuardFaults
    PROVE  ArmSpec => []OneWatcher
<1>1. ArmInv => OneWatcher
  BY DEF ArmInv, GuardInv, OneAtWork, OneWatcher, WatchPc, Alive, LivePc, GuardPc
<1> QED
  BY ArmInvariant, <1>1, PTL

(***************************************************************************)
(* A campaign that holds a node holds it with the guard it started, and no *)
(* done marker is waiting for that guard.                                  *)
(***************************************************************************)
THEOREM HeldWithOwnGuard ==
    ASSUME "docker" \notin GuardFaults
    PROVE  ArmSpec => []HeldByOwnGuard
<1>1. ArmInv => HeldByOwnGuard
  BY DEF ArmInv, ArmTypes, CampaignKnows, HeldByOwnGuard
<1> QED
  BY ArmInvariant, <1>1, PTL

(***************************************************************************)
(* disarm() reaches no guard of another campaign.                          *)
(***************************************************************************)
THEOREM OwnersRelease ==
    ASSUME "docker" \notin GuardFaults
    PROVE  ArmSpec => []ReleasedByOwner
<1>1. ArmInv => ReleasedByOwner
  BY DEF ArmInv, OnlyOwnersRelease, ReleasedByOwner
<1> QED
  BY ArmInvariant, <1>1, PTL

(***************************************************************************)
(* Campaigns are an environment as MemoryGuard assumes one: they start a   *)
(* guard only where no other is alive, and with no done marker left.       *)
(***************************************************************************)
THEOREM CampaignsAreOperators ==
    ASSUME "docker" \notin GuardFaults
    PROVE  ArmSpec => Spec
<1>1. ArmInv /\ [ArmNext]_allVars => [Next]_vars
  BY ArmNextIsNext
<1>2. ArmInit => Init
  BY DEF ArmInit
<1> QED
  BY ArmInvariant, <1>1, <1>2, PTL DEF ArmSpec, Spec

================================================================================
