----------------------------- MODULE CacheTransfer -----------------------------
(***************************************************************************)
(* cache_ready_retry.py: the kernels compiled by a diagnostic on the first *)
(* node (kernel_probe.py, in a container that removes itself) are hashed,  *)
(* copied to the second node and validated there by the same diagnostic,   *)
(* before the guarded campaign is started.                                 *)
(*                                                                         *)
(* The controller knows the diagnostic by two things it reads separately:  *)
(* its receipt, a file rewritten in place at every stage, and whether its  *)
(* container exists.  A receipt may be left over from an earlier run.      *)
(***************************************************************************)
EXTENDS Naturals

CONSTANTS
    Kernels,     \* compilations a diagnostic needs (bound on cache versions)
    MaxPolls,    \* polls for the diagnostic to exit: 10
    Leftovers,   \* receipts an earlier run may have left: subset of Receipt
    Alarmed      \* the 1500-second alarm may strike at any point

ASSUME KernelsAssumption == Kernels \in Nat \ {0}
ASSUME MaxPollsAssumption == MaxPolls \in Nat \ {0}
ASSUME AlarmedAssumption == Alarmed \in BOOLEAN

SOURCE == "source"
DEST   == "dest"
Nodes  == {SOURCE, DEST}

(* "torn" is a file that write_text has truncated and not yet written.     *)
Receipt == {"none", "progress", "complete", "failed", "torn"}
ASSUME LeftoversAssumption == Leftovers \subseteq Receipt \ {"torn"}

VARIABLES
    probe,     \* probe[h]: the diagnostic's container on h
    writes,    \* writes[h]: the stage it is about to record
    receipt,   \* receipt[h]: kernel-probe-result.json
    own,       \* own[h]: the receipt was written by the latest diagnostic
    cache,     \* cache[h]: kernels in the cache of h
    pc,        \* where the controller is
    polls,     \* polls of the exit so far
    late,      \* the 950-second deadline has passed
    manifest,  \* what was hashed on the source
    archive,   \* what was copied
    struck,    \* the alarm has struck
    missed     \* history: nodes where a call failed that was to find or stop the diagnostic

probeVars == <<probe, writes, receipt, own, cache>>
ctlVars   == <<pc, polls, late, manifest, archive, struck, missed>>
vars      == <<probeVars, ctlVars>>

(* The diagnostic has been started on the source; the caches are empty or  *)
(* what earlier runs left.                                                 *)
Init ==
    /\ probe = [h \in Nodes |-> IF h = SOURCE THEN "working" ELSE "absent"]
    /\ writes = [h \in Nodes |-> "progress"]
    /\ receipt \in [Nodes -> Leftovers]
    /\ own = [h \in Nodes |-> FALSE]
    /\ cache \in [Nodes -> 0..Kernels]
    /\ pc = "poll" /\ polls = 0 /\ late = FALSE
    /\ manifest = 0 /\ archive = 0 /\ struck = FALSE /\ missed = {}

--------------------------------------------------------------------------------
(* kernel_probe.py on node h. *)

ProbeTo(h, st) == probe' = [probe EXCEPT ![h] = st]
Write(h, what) ==
    /\ receipt' = [receipt EXCEPT ![h] = what]
    /\ own' = [own EXCEPT ![h] = TRUE]

(* docker has created the container. *)
ProbeStarts(h) ==
    /\ probe[h] = "starting"
    /\ ProbeTo(h, "working")
    /\ UNCHANGED <<writes, receipt, own, cache>>

(* A stage is over, with a kernel more in the cache or without, and record *)
(* truncates the receipt.                                                  *)
Truncates(h, stage) ==
    /\ probe[h] = "working"
    /\ writes' = [writes EXCEPT ![h] = stage]
    /\ Write(h, "torn")
    /\ ProbeTo(h, "truncated")

ProbeCompiles(h) ==
    /\ cache' \in {cache, [cache EXCEPT ![h] = IF @ < Kernels THEN @ + 1 ELSE @]}
    /\ Truncates(h, IF cache'[h] = Kernels THEN "complete" ELSE "progress")

(* An assertion or an error of the GPU, or the diagnostic's own alarm.     *)
ProbeFails(h) == Truncates(h, "failed") /\ UNCHANGED cache

(* record(): OUT.write_text, whose truncation came first. *)
ProbeRecords(h) ==
    /\ probe[h] = "truncated"
    /\ Write(h, writes[h])
    /\ ProbeTo(h, IF writes[h] = "complete" THEN "passed"
                  ELSE IF writes[h] = "failed" THEN "broken" ELSE "working")
    /\ UNCHANGED <<writes, cache>>

(* --rm: the container of a process that has ended is gone.                *)
ProbeExits(h) ==
    /\ probe[h] \in {"passed", "broken"}
    /\ ProbeTo(h, "absent")
    /\ UNCHANGED <<writes, receipt, own, cache>>

(* The process is killed, for its memory or by the timeout on its command. *)
ProbeKilled(h) ==
    /\ probe[h] \in {"working", "truncated"}
    /\ ProbeTo(h, "absent")
    /\ UNCHANGED <<writes, receipt, own, cache>>

ProbeStep(h) ==
    /\ \/ ProbeStarts(h) \/ ProbeCompiles(h) \/ ProbeFails(h)
       \/ ProbeRecords(h) \/ ProbeExits(h) \/ ProbeKilled(h)
    /\ UNCHANGED ctlVars

--------------------------------------------------------------------------------
(* The controller. *)

Listed(h) == probe[h] \notin {"absent", "starting"}     \* docker ps

GoTo(where) == pc' = where
Raise == GoTo("stopsource")
Keep == UNCHANGED <<polls, late, manifest, archive, struck, missed, probeVars>>

(* An ssh, a scp or the command it carries fails, up to docker run.        *)
Fails ==
    /\ pc \in {"poll", "look", "settle", "idle", "hash", "tar", "extract", "compare", "run", "read"}
    /\ Raise
    /\ Keep

(* result(SOURCE) and the stage of its last row. *)
Polls ==
    /\ pc = "poll"
    /\ \/ late /\ Raise
       \/ ~late /\ receipt[SOURCE] = "complete" /\ GoTo("settle")
       \/ ~late /\ receipt[SOURCE] \in {"failed", "torn"} /\ Raise
       \/ ~late /\ receipt[SOURCE] \in {"none", "progress"} /\ GoTo("look")
    /\ Keep

(* assert NAME in live.splitlines() *)
Looks ==
    /\ pc = "look"
    /\ IF Listed(SOURCE) THEN GoTo("poll") ELSE Raise
    /\ Keep

BugSettles ==                          \* faulty: the producer is not waited for
    /\ pc = "settle"
    /\ GoTo("idle")
    /\ Keep
(* The producer must exit before its cache is hashed and copied. *)
Settles ==
    /\ pc = "settle"
    /\ \/ ~Listed(SOURCE) /\ GoTo("idle") /\ UNCHANGED polls
       \/ /\ Listed(SOURCE) /\ polls < MaxPolls
          /\ polls' = polls + 1 /\ UNCHANGED pc
       \/ Listed(SOURCE) /\ polls = MaxPolls /\ Raise /\ UNCHANGED polls
    /\ UNCHANGED <<late, manifest, archive, struck, missed, probeVars>>

(* No container and no GPU process on the second node. *)
ChecksIdle ==
    /\ pc = "idle"
    /\ IF Listed(DEST) THEN Raise ELSE GoTo("hash")
    /\ Keep

Hashes ==
    /\ pc = "hash"
    /\ manifest' = cache[SOURCE]
    /\ IF cache[SOURCE] > 0 THEN GoTo("tar") ELSE Raise
    /\ UNCHANGED <<polls, late, archive, struck, missed, probeVars>>

Archives ==
    /\ pc = "tar"
    /\ archive' = cache[SOURCE]
    /\ GoTo("extract")
    /\ UNCHANGED <<polls, late, manifest, struck, missed, probeVars>>

(* Files of the archive overwrite or join those of the second node; a copy *)
(* or an extraction that fails leaves it as it was, or half overwritten.   *)
Extracts ==
    /\ pc = "extract"
    /\ \/ /\ cache' = [cache EXCEPT ![DEST] = IF archive > @ THEN archive ELSE @]
          /\ GoTo("compare")
       \/ /\ \E n \in 0..Kernels : cache' = [cache EXCEPT ![DEST] = n]
          /\ Raise
    /\ UNCHANGED <<polls, late, manifest, archive, struck, missed, probe, writes, receipt, own>>

(* Every file of the manifest is there with its hash. *)
Compares ==
    /\ pc = "compare"
    /\ IF manifest <= cache[DEST] THEN GoTo("run") ELSE Raise
    /\ Keep

(* docker run --rm of the diagnostic on the second node, and its wait. *)
RunsProbe ==
    /\ pc = "run"
    /\ probe[DEST] = "absent"
    /\ ProbeTo(DEST, "starting")
    /\ GoTo("wait")
    /\ UNCHANGED <<writes, receipt, own, cache, polls, late, manifest, archive, struck, missed>>

BugAwaitsProbe ==                      \* faulty: check=False
    /\ pc = "wait"
    /\ probe[DEST] = "absent" /\ GoTo("read")
    /\ Keep
BugAwaitsPass ==                       \* faulty: waits for the receipt instead
    /\ pc = "wait"
    /\ probe[DEST] = "absent" /\ own[DEST] /\ receipt[DEST] = "complete"
    /\ GoTo("read")
    /\ Keep

(* check=True: the exit code is that of the process in the container or of *)
(* the timeouts around it, when docker has created it; an ssh that breaks  *)
(* earlier leaves docker about to create it.                               *)
AwaitsProbe ==
    /\ pc = "wait"
    /\ \/ /\ probe[DEST] = "absent" /\ own[DEST] /\ receipt[DEST] = "complete"
          /\ GoTo("read") /\ UNCHANGED missed
       \/ probe[DEST] # "starting" /\ Raise /\ UNCHANGED missed
       \/ probe[DEST] = "starting" /\ Raise /\ missed' = missed \union {DEST}
    /\ UNCHANGED <<polls, late, manifest, archive, struck, probeVars>>

ReadsReceipt ==
    /\ pc = "read"
    /\ IF receipt[DEST] = "complete" THEN GoTo("exec") ELSE Raise
    /\ Keep

(* stop_probe(): docker rm -f of the labelled container, verified; or the  *)
(* ssh or docker rm fails, which is printed and no more, or an inspection  *)
(* that fails is taken for an absent container.                            *)
StopsProbe(h, at, next) ==
    /\ pc = at
    /\ \/ /\ IF Listed(h) THEN ProbeTo(h, "absent") ELSE UNCHANGED probe
          /\ UNCHANGED missed
       \/ /\ UNCHANGED probe \/ (Listed(h) /\ ProbeTo(h, "absent"))
          /\ missed' = missed \union {h}
    /\ GoTo(next)
    /\ UNCHANGED <<writes, receipt, own, cache, polls, late, manifest, archive, struck>>

BugCleanup ==                          \* faulty: what fails on the first node ends it
    \/ StopsProbe(SOURCE, "stopsource", "stopdest") /\ missed' = missed
    \/ StopsProbe(SOURCE, "stopsource", "failed") /\ missed' # missed
    \/ StopsProbe(DEST, "stopdest", "failed")
Cleanup == StopsProbe(SOURCE, "stopsource", "stopdest") \/ StopsProbe(DEST, "stopdest", "failed")

Controller ==
    \/ Fails \/ Polls \/ Looks \/ Settles \/ ChecksIdle \/ Hashes \/ Archives \/ Extracts
    \/ Compares \/ RunsProbe \/ AwaitsProbe \/ ReadsReceipt \/ Cleanup

DeadlinePasses ==
    /\ pc \in {"poll", "look"}
    /\ ~late
    /\ late' = TRUE
    /\ UNCHANGED <<pc, polls, manifest, archive, struck, missed, probeVars>>

(* The alarm: an exception in main; in the cleanup of a node, the end of   *)
(* that; in the handler before the cleanup, the end of everything.         *)
AlarmStrikes ==
    /\ Alarmed /\ ~struck
    /\ pc \notin {"exec", "failed"}
    /\ struck' = TRUE
    /\ \/ pc \notin {"stopsource", "stopdest"} /\ Raise
       \/ pc = "stopsource" /\ pc' \in {"stopdest", "failed"}
       \/ pc = "stopdest" /\ GoTo("failed")
    /\ UNCHANGED <<polls, late, manifest, archive, missed, probeVars>>

Next == Controller \/ DeadlinePasses \/ AlarmStrikes \/ \E h \in Nodes : ProbeStep(h)

(* The diagnostic has an alarm of its own (900 s), the waits deadlines.    *)
Fairness ==
    /\ WF_vars(Controller) /\ WF_vars(DeadlinePasses)
    /\ \A h \in Nodes : WF_vars(ProbeStep(h)) /\ SF_vars(ProbeFails(h) /\ UNCHANGED ctlVars)

Spec     == Init /\ [][Next]_vars
FairSpec == Spec /\ Fairness

--------------------------------------------------------------------------------

(***************************************************************************)
(* The campaign is started only after the diagnostic has passed on the     *)
(* second node in this run, with every kernel hashed on the first one: a   *)
(* receipt that an earlier run left there does not count.                  *)
(***************************************************************************)
ExecMeansValidated ==
    pc = "exec" => /\ receipt[DEST] = "complete" /\ own[DEST]
                   /\ cache[DEST] = Kernels
                   /\ manifest > 0 /\ manifest <= cache[DEST]

(***************************************************************************)
(* "Require the producer to exit before hashing/copying its cache": what   *)
(* is archived is what was hashed, also when the controller went by an     *)
(* earlier run's receipt while the diagnostic was still compiling.         *)
(***************************************************************************)
CopiesWhatItHashed ==
    pc \in {"extract", "compare", "run", "wait", "read", "exec"} => archive = manifest

(***************************************************************************)
(* A failed preparation leaves a diagnostic on a node only if a call to    *)
(* that very node failed: the cleanup there, an inspection taken for its   *)
(* absence, or the ssh of docker run before there was a container.  What   *)
(* fails on one node never costs the other its cleanup, unless the alarm   *)
(* strikes, which it may do in the cleanup itself.                         *)
(***************************************************************************)
NoProbeLeft ==
    pc = "failed" /\ ~struck => \A h \in Nodes \ missed : probe[h] = "absent"

(* Every preparation ends, in the campaign or in its cleanup. *)
PreparationEnds == <>(pc \in {"exec", "failed"})
================================================================================
