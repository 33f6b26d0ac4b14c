-------------------------------- MODULE Download -------------------------------
(***************************************************************************)
(* Getting the checkpoint onto both nodes: download_node.py on each node,  *)
(* download/controller.py that starts it there over ssh, and the gate of   *)
(* the campaign, workflow.wait_downloads, that reads the status files.     *)
(*                                                                         *)
(* A downloader outlives the ssh client that started it, so a controller   *)
(* run again may start a second one beside it.  Both write the same status *)
(* file, through the same temporary file.                                  *)
(***************************************************************************)
EXTENDS Naturals, Sequences

CONSTANTS
    HostSeq,   \* HOSTS, in the order the gate reads them
    File,      \* the files of the checkpoint
    MaxRuns    \* downloaders started on a node (bound)

Host == {HostSeq[i] : i \in 1..Len(HostSeq)}

ASSUME HostSeqAssumption == HostSeq \in Seq(Host) /\ Len(HostSeq) > 0
ASSUME MaxRunsAssumption == MaxRuns \in Nat \ {0}

Proc == 1..MaxRuns
None == "none"

VARIABLES
    dl,        \* dl[h][p]: where downloader p of node h is
    goal,      \* goal[h][p]: the phase it is about to publish
    hashing,   \* hashing[h][p]: the file it is reading
    verified,  \* verified[h][p]: the files it has verified
    disk,      \* disk[h][f]: the file on the node
    tmp,       \* tmp[h]: the phase in the temporary status file, or None
    st,        \* st[h]: the phase in nvidia-glm53-download-status.json
    ctl,       \* ctl[h]: the controller's thread for h
    child,     \* child[h]: the downloader that thread waits for
    gate,      \* wait_downloads: "waiting", "passed", "refused"
    states,    \* what it has read in this round
    late       \* its deadline has passed

nodeVars == <<dl, goal, hashing, verified, disk, tmp, st>>
ctlVars  == <<ctl, child>>
gateVars == <<gate, states, late>>
vars     == <<nodeVars, ctlVars, gateVars>>

(* "empty" is a file that write_text has truncated and not yet written,    *)
(* "garbled" one whose text was written over a longer one.                 *)
Unreadable == {None, "empty", "garbled"}
Phase == Unreadable \union {"downloading", "verifying", "complete_verified", "failed"}
(* A file: not there, of the wrong size, of the right size with the right  *)
(* or a wrong content.                                                     *)
Content == {"absent", "partial", "good", "bad"}
(* "flush" has opened the temporary file; once another downloader has      *)
(* renamed that file it is the status file, and then no file at all.       *)
DlPc == {"none", "manifest", "write", "flush", "flushstatus", "flushlost", "replace",
         "fetch", "pick", "hash", "done", "dead"}

TypeOK ==
    /\ dl \in [Host -> [Proc -> DlPc]]
    /\ goal \in [Host -> [Proc -> Phase]]
    /\ hashing \in [Host -> [Proc -> File \union {None}]]
    /\ verified \in [Host -> [Proc -> SUBSET File]]
    /\ disk \in [Host -> [File -> Content]]
    /\ tmp \in [Host -> Phase] /\ st \in [Host -> Phase]
    /\ ctl \in [Host -> {"start", "wait", "readback", "ok", "error"}]
    /\ child \in [Host -> Proc \union {0}]
    /\ gate \in {"waiting", "passed", "refused"}
    /\ states \in Seq(Phase) /\ Len(states) <= Len(HostSeq)
    /\ late \in BOOLEAN

(* An earlier attempt may have left files and a status, but no false       *)
(* certificate: what it called verified it had verified.                   *)
Init ==
    /\ dl = [h \in Host |-> [p \in Proc |-> "none"]]
    /\ goal = [h \in Host |-> [p \in Proc |-> None]]
    /\ hashing = [h \in Host |-> [p \in Proc |-> None]]
    /\ verified = [h \in Host |-> [p \in Proc |-> {}]]
    /\ disk \in [Host -> [File -> Content]]
    /\ tmp = [h \in Host |-> None]
    /\ st \in [Host -> Phase]
    /\ \A h \in Host : st[h] = "complete_verified" => \A f \in File : disk[h][f] = "good"
    /\ ctl = [h \in Host |-> "start"]
    /\ child = [h \in Host |-> 0]
    /\ gate = "waiting" /\ states = <<>> /\ late = FALSE

--------------------------------------------------------------------------------
(* download_node.py: process p of node h. *)

To(h, p, pc) == dl' = [dl EXCEPT ![h][p] = pc]

(* status(phase): the temporary file, then its rename. *)
Publish(h, p, phase) == To(h, p, "write") /\ goal' = [goal EXCEPT ![h][p] = phase]

(***************************************************************************)
(* The manifest, the destination, the disk space; anything raised here or  *)
(* later makes main's handler publish 'failed'.                            *)
(***************************************************************************)
ReadsManifest(h, p) ==
    /\ dl[h][p] = "manifest"
    /\ \/ Publish(h, p, "downloading")
       \/ Publish(h, p, "failed")
    /\ UNCHANGED <<hashing, verified, disk, tmp, st>>

(* tmp.write_text: the file is truncated, *)
OpensTmp(h, p) ==
    /\ dl[h][p] = "write"
    /\ tmp' = [tmp EXCEPT ![h] = "empty"]
    /\ To(h, p, "flush")
    /\ UNCHANGED <<goal, hashing, verified, disk, st>>

(* and written; what the other downloader wrote there may be longer.       *)
Written(old, phase) == IF old = "empty" THEN {phase} ELSE {phase, "garbled"}
WritesTmp(h, p) ==
    /\ \/ /\ dl[h][p] = "flush"
          /\ \E text \in Written(tmp[h], goal[h][p]) : tmp' = [tmp EXCEPT ![h] = text]
          /\ UNCHANGED st
       \/ /\ dl[h][p] = "flushstatus"
          /\ \E text \in Written(st[h], goal[h][p]) : st' = [st EXCEPT ![h] = text]
          /\ UNCHANGED tmp
       \/ dl[h][p] = "flushlost" /\ UNCHANGED <<tmp, st>>
    /\ To(h, p, "replace")
    /\ UNCHANGED <<goal, hashing, verified, disk>>

AfterStatus(phase) ==
    IF phase = "downloading" THEN "fetch"
    ELSE IF phase = "verifying" THEN "pick"
    ELSE IF phase = "complete_verified" THEN "done" ELSE "dead"

(* What a rename makes of the file that another downloader has opened.     *)
Moved(pc) ==
    CASE pc = "flush" -> "flushstatus" [] pc = "flushstatus" -> "flushlost" [] OTHER -> pc

(* The other downloader may have renamed the temporary file: an exception. *)
ReplacesStatus(h, p) ==
    /\ dl[h][p] = "replace"
    /\ \/ /\ tmp[h] # None
          /\ st' = [st EXCEPT ![h] = tmp[h]]
          /\ tmp' = [tmp EXCEPT ![h] = None]
          /\ dl' = [dl EXCEPT ![h] = [q \in Proc |-> IF q = p THEN AfterStatus(goal[h][p])
                                                   ELSE Moved(dl[h][q])]]
          /\ UNCHANGED goal
       \/ /\ tmp[h] = None
          /\ IF goal[h][p] = "failed" THEN To(h, p, "dead") /\ UNCHANGED goal
             ELSE Publish(h, p, "failed")
          /\ UNCHANGED <<tmp, st>>
    /\ UNCHANGED <<hashing, verified, disk>>

(***************************************************************************)
(* snapshot_download (huggingface_hub): fetches what it believes missing.  *)
(* A file of the right size may be taken for present, whatever it holds.   *)
(***************************************************************************)
Fetches(h, p) ==
    /\ dl[h][p] = "fetch"
    /\ \/ \E f \in File :
             /\ disk[h][f] # "good"
             /\ disk' = [disk EXCEPT ![h][f] = "good"]
             /\ UNCHANGED <<dl, goal>>
       \/ /\ \A f \in File : disk[h][f] \in {"good", "bad"}
          /\ Publish(h, p, "verifying")
          /\ UNCHANGED disk
       \/ Publish(h, p, "failed") /\ UNCHANGED disk
    /\ UNCHANGED <<hashing, verified, tmp, st>>

(* The next file: its size against the manifest's. *)
PicksFile(h, p) ==
    /\ dl[h][p] = "pick"
    /\ \/ \E f \in File \ verified[h][p] :
             IF disk[h][f] \in {"good", "bad"}
             THEN /\ hashing' = [hashing EXCEPT ![h][p] = f]
                  /\ To(h, p, "hash") /\ UNCHANGED goal
             ELSE Publish(h, p, "failed") /\ UNCHANGED hashing
       \/ /\ verified[h][p] = File
          /\ Publish(h, p, "complete_verified")
          /\ UNCHANGED hashing
    /\ UNCHANGED <<verified, disk, tmp, st>>

BugHashesFile(h, p) ==                 \* faulty: the digest is not compared
    /\ dl[h][p] = "hash"
    /\ verified' = [verified EXCEPT ![h][p] = @ \union {hashing[h][p]}]
    /\ To(h, p, "pick")
    /\ hashing' = [hashing EXCEPT ![h][p] = None]
    /\ UNCHANGED <<goal, disk, tmp, st>>

(* Its digest and identity, within 110 seconds. *)
HashesFile(h, p) ==
    /\ dl[h][p] = "hash"
    /\ \/ /\ disk[h][hashing[h][p]] = "good"
          /\ verified' = [verified EXCEPT ![h][p] = @ \union {hashing[h][p]}]
          /\ To(h, p, "pick") /\ UNCHANGED goal
       \/ Publish(h, p, "failed") /\ UNCHANGED verified
    /\ hashing' = [hashing EXCEPT ![h][p] = None]
    /\ UNCHANGED <<disk, tmp, st>>

Live(h, p) == dl[h][p] \notin {"none", "done", "dead"}

(* SIGTERM of the 10800-second timeout, or worse: no status is written.    *)
DlKilled(h, p) ==
    /\ Live(h, p)
    /\ To(h, p, "dead")
    /\ hashing' = [hashing EXCEPT ![h][p] = None]
    /\ UNCHANGED <<goal, verified, disk, tmp, st>>

DlStep(h, p) ==
    /\ \/ ReadsManifest(h, p) \/ OpensTmp(h, p) \/ WritesTmp(h, p) \/ ReplacesStatus(h, p)
       \/ Fetches(h, p) \/ PicksFile(h, p) \/ HashesFile(h, p)
    /\ UNCHANGED <<ctlVars, gateVars>>

DlDies(h, p) == DlKilled(h, p) /\ UNCHANGED <<ctlVars, gateVars>>

--------------------------------------------------------------------------------
(* download/controller.py: the thread of node h. *)

(* The copy of the program fails, or it is started. *)
CtlStarts(h) ==
    /\ ctl[h] = "start"
    /\ \/ /\ \E p \in Proc :
                /\ dl[h][p] = "none" /\ \A q \in Proc : q < p => dl[h][q] # "none"
                /\ To(h, p, "manifest")
                /\ child' = [child EXCEPT ![h] = p]
          /\ ctl' = [ctl EXCEPT ![h] = "wait"]
       \/ /\ ctl' = [ctl EXCEPT ![h] = "error"]
          /\ UNCHANGED <<dl, child>>
    /\ UNCHANGED <<goal, hashing, verified, disk, tmp, st, gateVars>>

(* The exit code, or 10840 seconds without one: then only ssh is killed.   *)
CtlWaits(h) ==
    /\ ctl[h] = "wait"
    /\ \/ dl[h][child[h]] = "done" /\ ctl' = [ctl EXCEPT ![h] = "readback"]
       \/ ctl' = [ctl EXCEPT ![h] = "error"]
    /\ UNCHANGED <<nodeVars, child, gateVars>>

(* The separate readback of the status file. *)
CtlReadsBack(h) ==
    /\ ctl[h] = "readback"
    /\ ctl' = [ctl EXCEPT ![h] = IF st[h] = "complete_verified" THEN "ok" ELSE "error"]
    /\ UNCHANGED <<nodeVars, child, gateVars>>

(* The operator runs the controller again, both threads of it. *)
CtlAgain ==
    /\ \A h \in Host : ctl[h] \in {"ok", "error"}
    /\ \E h \in Host : ctl[h] = "error"
    /\ \A h \in Host : dl[h][MaxRuns] = "none"
    /\ ctl' = [h \in Host |-> "start"]
    /\ UNCHANGED <<nodeVars, child, gateVars>>

--------------------------------------------------------------------------------
(* workflow.wait_downloads *)

GateReads ==
    /\ gate = "waiting"
    /\ Len(states) < Len(HostSeq)
    /\ states' = Append(states, st[HostSeq[Len(states) + 1]])
    /\ UNCHANGED <<nodeVars, ctlVars, gate, late>>

Read == {states[i] : i \in 1..Len(states)}

BugDecisionEarly ==                    \* faulty: verifying is taken for downloaded
    IF ({"failed"} \union Unreadable) \intersect Read # {} THEN "refused"
    ELSE IF "downloading" \notin Read THEN "passed"
    ELSE IF late THEN "refused" ELSE "waiting"
BugDecisionEver ==                     \* faulty: no deadline
    IF ({"failed"} \union Unreadable) \intersect Read # {} THEN "refused"
    ELSE IF Read = {"complete_verified"} THEN "passed" ELSE "waiting"

(* A status file that is missing or torn cannot be read: an exception. *)
Decision ==
    IF ({"failed"} \union Unreadable) \intersect Read # {} THEN "refused"
    ELSE IF Read = {"complete_verified"} THEN "passed"
    ELSE IF late THEN "refused" ELSE "waiting"

GateDecides ==
    /\ gate = "waiting"
    /\ Len(states) = Len(HostSeq)
    /\ states' = <<>>
    /\ gate' = Decision
    /\ UNCHANGED <<nodeVars, ctlVars, late>>

GateDeadline ==
    /\ gate = "waiting" /\ ~late
    /\ late' = TRUE
    /\ UNCHANGED <<nodeVars, ctlVars, gate, states>>

Next ==
    \/ \E h \in Host :
          \/ \E p \in Proc : DlStep(h, p) \/ DlDies(h, p)
          \/ CtlStarts(h) \/ CtlWaits(h) \/ CtlReadsBack(h)
    \/ CtlAgain \/ GateReads \/ GateDecides \/ GateDeadline

Fairness ==
    /\ WF_vars(GateReads) /\ WF_vars(GateDecides) /\ WF_vars(GateDeadline)
    /\ \A h \in Host :
          /\ WF_vars(CtlStarts(h)) /\ WF_vars(CtlWaits(h)) /\ WF_vars(CtlReadsBack(h))
          /\ \A p \in Proc : WF_vars(DlStep(h, p))

Spec     == Init /\ [][Next]_vars
FairSpec == Spec /\ Fairness

--------------------------------------------------------------------------------

(***************************************************************************)
(* A node whose status says complete_verified holds every file with the    *)
(* content of the manifest, whichever downloader wrote that status, and    *)
(* whatever became of the others.                                          *)
(***************************************************************************)
CompleteMeansGood ==
    \A h \in Host : st[h] = "complete_verified" => \A f \in File : disk[h][f] = "good"

(***************************************************************************)
(* The campaign passes its gate only with the checkpoint whole on every    *)
(* node, although it reads the nodes one after the other.                  *)
(***************************************************************************)
GateMeansGood == gate = "passed" => \A h \in Host, f \in File : disk[h][f] = "good"

(* The gate opens or refuses in the end: it does not wait forever for a    *)
(* downloader that was killed and left 'downloading' behind.               *)
GateEnds == <>(gate # "waiting")
================================================================================
