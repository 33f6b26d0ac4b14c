------------------------------ MODULE GuardArming ------------------------------
(***************************************************************************)
(* prepare_guard() and disarm() of retry_text128.py: how a campaign        *)
(* obtains the guard of a node and gives it back.  The guard outlives the  *)
(* campaign that started it (it is a session of its own on the node), so   *)
(* that a later campaign may meet the guard, the state file and the done   *)
(* marker of one that crashed.                                             *)
(***************************************************************************)
EXTENDS MemoryGuard

CONSTANT MaxCampaigns    \* campaigns started one after the other (bound)

ASSUME MaxCampaignsAssumption == MaxCampaigns \in Nat \ {0}

VARIABLES
    arm,        \* arm[h]: how far the campaign is with the guard of node h
    launched,   \* launched[h]: the pid that Popen returned to it
    armed,      \* armed[h]: h is in ARMED
    campaigns,  \* campaigns started so far
    released    \* released[h]: guards whose own campaign touched the marker (history)

armVars == <<arm, launched, armed, campaigns, released>>
allVars == <<vars, armVars>>

ArmPc == {"out", "clear", "checked", "spawned", "waiting", "held", "refused", "touched"}

ArmTypeOK ==
    /\ TypeOK
    /\ arm \in [Host -> ArmPc]
    /\ launched \in [Host -> Pid \union {NoPid}]
    /\ armed \in [Host -> BOOLEAN]
    /\ campaigns \in 0..MaxCampaigns
    /\ released \in [Host -> SUBSET Pid]

ArmInit ==
    /\ Init
    /\ arm = [h \in Host |-> "out"]
    /\ launched = [h \in Host |-> NoPid]
    /\ armed = [h \in Host |-> FALSE]
    /\ campaigns = 1
    /\ released = [h \in Host |-> {}]

ArmTo(h, pc) == arm' = [arm EXCEPT ![h] = pc]

--------------------------------------------------------------------------------
(* prepare_guard(h). *)

(***************************************************************************)
(* The node must be idle: inspect() finds no container, and it finds none  *)
(* whenever ssh or docker fails, whatever is there.  A stopped container   *)
(* of ours is removed with launch_node.py --stop; anything else in the way *)
(* is an assertion error.                                                  *)
(***************************************************************************)
ArmInspects(h) ==
    /\ arm[h] = "out"
    /\ \/ ArmTo(h, "clear") /\ UNCHANGED box
       \/ box[h].own /\ BoxRemoved(h) /\ ArmTo(h, "clear")
       \/ /\ Running(h) \/ (box[h].st = "exited" /\ ~box[h].own)
          /\ ArmTo(h, "refused")
          /\ UNCHANGED box
    /\ UNCHANGED <<guardVars, nodeVars, launched, armed, campaigns, released>>

(***************************************************************************)
(* An armed state file whose process exists is another live guard; the     *)
(* pid of a dead guard may have been given to some other process.          *)
(***************************************************************************)
BugArmChecksOld(h) ==                  \* faulty: the old state file is not read
    /\ arm[h] = "clear"
    /\ ArmTo(h, "checked")
    /\ UNCHANGED <<vars, launched, armed, campaigns, released>>

ArmChecksOld(h) ==
    /\ arm[h] = "clear"
    /\ \/ file[h].phase = "armed" /\ ArmTo(h, "refused")
       \/ ~(file[h].phase = "armed" /\ Alive(h, file[h].pid)) /\ ArmTo(h, "checked")
    /\ UNCHANGED <<vars, launched, armed, campaigns, released>>

(* The done marker goes first, then the guard is started.                  *)
ArmSpawns(h) ==
    /\ arm[h] = "checked"
    /\ done' = [done EXCEPT ![h] = FALSE]
    /\ \E p \in Pid : SpawnGuard(h, p) /\ launched' = [launched EXCEPT ![h] = p]
    /\ ArmTo(h, "spawned")
    /\ UNCHANGED <<target, file, overdue, low, box, armed, campaigns, released>>

(* The pid has come back over ssh: ARMED.append(host).                     *)
ArmRecords(h) ==
    /\ arm[h] = "spawned"
    /\ armed' = [armed EXCEPT ![h] = TRUE]
    /\ ArmTo(h, "waiting")
    /\ UNCHANGED <<vars, launched, campaigns, released>>

BugArmSeesArmed(h) ==                  \* faulty: the pid is not compared
    /\ arm[h] = "waiting"
    /\ file[h].phase = "armed"
    /\ ArmTo(h, "held")
    /\ UNCHANGED <<vars, launched, campaigns, armed, released>>

ArmSeesArmed(h) ==
    /\ arm[h] = "waiting"
    /\ file[h].pid = launched[h]
    /\ file[h].phase = "armed"
    /\ ArmTo(h, "held")
    /\ UNCHANGED <<vars, launched, armed, campaigns, released>>

(***************************************************************************)
(* prepare_guard raises at any point: ssh, scp or the copy's checksum      *)
(* fails, a signal arrives, or ten seconds pass without an armed guard.    *)
(***************************************************************************)
ArmRaises(h) ==
    /\ arm[h] \in {"out", "clear", "checked", "spawned", "waiting"}
    /\ ArmTo(h, "refused")
    /\ UNCHANGED <<vars, launched, armed, campaigns, released>>

--------------------------------------------------------------------------------
(* disarm(), for a node of ARMED. *)

BugDisarmTouches(h) ==                 \* faulty: every host, not those of ARMED
    /\ arm[h] \in {"held", "refused"}
    /\ done' = [done EXCEPT ![h] = TRUE]
    /\ released' = [released EXCEPT ![h] = @ \union ({launched[h]} \ {NoPid})]
    /\ ArmTo(h, "touched")
    /\ UNCHANGED <<guardVars, overdue, low, box, launched, armed, campaigns>>

DisarmTouches(h) ==
    /\ armed[h]
    /\ arm[h] \in {"held", "refused"}
    /\ done' = [done EXCEPT ![h] = TRUE]
    /\ released' = [released EXCEPT ![h] = @ \union {launched[h]}]
    /\ ArmTo(h, "touched")
    /\ UNCHANGED <<guardVars, overdue, low, box, launched, armed, campaigns>>

--------------------------------------------------------------------------------
(* Campaigns on their own: each obtains the guards, works, disarms, ends.  *)

(***************************************************************************)
(* The next campaign starts when the last one is over, or has crashed and  *)
(* left its guards alone.  Assumed: nobody restarts a campaign faster than *)
(* a guard process reaches its first save.                                 *)
(***************************************************************************)
NextCampaign ==
    /\ campaigns < MaxCampaigns
    /\ \A h \in Host, p \in Pid : gpc[h][p] # "boot"
    /\ campaigns' = campaigns + 1
    /\ arm' = [h \in Host |-> "out"]
    /\ launched' = [h \in Host |-> NoPid]
    /\ armed' = [h \in Host |-> FALSE]
    /\ UNCHANGED <<vars, released>>

ArmStep(h) ==
    \/ ArmInspects(h) \/ ArmChecksOld(h) \/ ArmSpawns(h) \/ ArmRecords(h)
    \/ ArmSeesArmed(h) \/ ArmRaises(h) \/ DisarmTouches(h)

NodeMoves(h) ==
    /\ \/ \E p \in Pid : GuardStep(h, p) \/ GuardFault(h, p) \/ DeadlinePasses(h, p)
       \/ DockerStep(h)
       \/ NodeStep(h)
    /\ UNCHANGED armVars

ArmNext ==
    \/ \E h \in Host : ArmStep(h) \/ NodeMoves(h)
    \/ NextCampaign

ArmSpec == ArmInit /\ [][ArmNext]_allVars

--------------------------------------------------------------------------------
WatchPc == {"poll", "inspect", "kill", "confirm"}

(***************************************************************************)
(* Two guards never watch one node at the same time, however campaigns     *)
(* crash and follow each other: the second would be disarmed with the      *)
(* first, and would overwrite its state file.                              *)
(***************************************************************************)
OneWatcher ==
    \A h \in Host : \A p, q \in Pid :
        gpc[h][p] \in WatchPc /\ gpc[h][q] \in WatchPc => p = q

(***************************************************************************)
(* A campaign that holds a node holds it with its own guard: that guard    *)
(* did arm, and no done marker of an earlier campaign can turn it off.     *)
(***************************************************************************)
HeldByOwnGuard ==
    \A h \in Host : arm[h] = "held" =>
        /\ launched[h] \in Pid
        /\ gpc[h][launched[h]] \notin {"none", "boot"}
        /\ ~done[h]

(***************************************************************************)
(* Only the campaign that started a guard releases it: a campaign refused  *)
(* because of another live guard does not disarm that guard in its cleanup.*)
(***************************************************************************)
ReleasedByOwner ==
    \A h \in Host :
        file[h].phase = "disarmed" /\ file[h].pid \in Pid => file[h].pid \in released[h]
================================================================================
