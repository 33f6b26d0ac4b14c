----------------------------- MODULE DownloadProof -----------------------------
(***************************************************************************)
(* What the status files certify, for every number of nodes, files and     *)
(* downloaders.  A file that has been verified keeps its content, since    *)
(* nothing in the model writes over a good file; so whatever says          *)
(* "complete" (a downloader's next phase, the temporary file, the status   *)
(* file, what the gate has read of it) says so of files that stay good.    *)
(***************************************************************************)
EXTENDS Download, TLAPS

Good(h) == \A f \in File : disk[h][f] = "good"

(* Whoever is about to say, or has said, that a node is complete is right. *)
Certificates ==
    /\ \A h \in Host : \A p \in Proc :
          /\ \A f \in verified[h][p] : disk[h][f] = "good"
          /\ goal[h][p] = "complete_verified" => Good(h)
    /\ \A h \in Host : tmp[h] = "complete_verified" \/ st[h] = "complete_verified" => Good(h)
    /\ \A i \in 1..Len(states) : states[i] = "complete_verified" => Good(HostSeq[i])
    /\ gate = "passed" => \A h \in Host : Good(h)

(* A file that is being hashed is one of the checkpoint.                   *)
HashesAFile == \A h \in Host : \A p \in Proc : dl[h][p] = "hash" => hashing[h][p] \in File

DownloadInv == TypeOK /\ HashesAFile /\ Certificates

LEMMA SeqFact ==
    /\ Len(HostSeq) \in Nat \ {0}
    /\ \A i \in 1..Len(HostSeq) : HostSeq[i] \in Host
  BY HostSeqAssumption DEF Host

LEMMA DownloadInit == Init => DownloadInv
<1> SUFFICES ASSUME Init PROVE DownloadInv
  OBVIOUS
<1> USE DEF Init
<1>1. TypeOK
  <2>1. states \in Seq(Phase) /\ Len(states) <= Len(HostSeq)
    BY SeqFact
  <2> QED
    BY <2>1 DEF TypeOK, DlPc, Phase, Unreadable
<1>2. HashesAFile
  BY DEF HashesAFile
<1>3. Certificates
  BY DEF Certificates, Good, None
<1> QED
  BY <1>1, <1>2, <1>3 DEF DownloadInv

--------------------------------------------------------------------------------
(* What the elementary assignments do.                                     *)
LEMMA ToFact ==
    ASSUME TypeOK, NEW h \in Host, NEW p \in Proc, NEW pc \in DlPc, To(h, p, pc)
    PROVE  /\ dl' \in [Host -> [Proc -> DlPc]]
           /\ \A g \in Host : \A q \in Proc :
                  dl'[g][q] = IF g = h /\ q = p THEN pc ELSE dl[g][q]
  BY DEF TypeOK, To

LEMMA PublishFact ==
    ASSUME TypeOK, NEW h \in Host, NEW p \in Proc, NEW phase \in Phase, Publish(h, p, phase)
    PROVE  /\ goal' \in [Host -> [Proc -> Phase]]
           /\ \A g \in Host : \A q \in Proc :
                  goal'[g][q] = IF g = h /\ q = p THEN phase ELSE goal[g][q]
           /\ To(h, p, "write")
  BY DEF TypeOK, Publish

LEMMA DiskFact ==
    ASSUME TypeOK, NEW h \in Host, NEW f \in File, disk' = [disk EXCEPT ![h][f] = "good"]
    PROVE  /\ disk' \in [Host -> [File -> Content]]
           /\ \A g \in Host : \A k \in File :
                  disk'[g][k] = IF g = h /\ k = f THEN "good" ELSE disk[g][k]
  BY DEF TypeOK, Content

LEMMA PhaseFact ==
    /\ {"downloading", "verifying", "complete_verified", "failed", None, "empty", "garbled"}
          \subseteq Phase
    /\ {"manifest", "write", "flush", "flushstatus", "flushlost", "replace", "fetch", "pick",
        "hash", "done", "dead"} \subseteq DlPc
  BY DEF Phase, Unreadable, DlPc

LEMMA AfterStatusFact == \A phase : AfterStatus(phase) \in DlPc \ {"hash"}
  BY DEF AfterStatus, DlPc

LEMMA MovedFact ==
    ASSUME NEW pc \in DlPc
    PROVE  Moved(pc) \in DlPc /\ (Moved(pc) = "hash" => pc = "hash")
<1>1. CASE pc = "flush"
  BY <1>1 DEF Moved, DlPc
<1>2. CASE pc = "flushstatus"
  BY <1>2 DEF Moved, DlPc
<1>3. CASE pc # "flush" /\ pc # "flushstatus"
  BY <1>3 DEF Moved
<1> QED
  BY <1>1, <1>2, <1>3

--------------------------------------------------------------------------------
(* One step of a downloader.                                               *)

(* It goes elsewhere, or publishes, and touches nothing else.              *)
LEMMA GoesInv ==
    ASSUME DownloadInv, NEW h \in Host, NEW p \in Proc,
           NEW pc \in DlPc \ {"hash"}, To(h, p, pc),
           hashing' \in [Host -> [Proc -> File \union {None}]],
           \A g \in Host : \A q \in Proc : g # h \/ q # p => hashing'[g][q] = hashing[g][q],
           UNCHANGED <<goal, verified, disk, tmp, st, ctlVars, gateVars>>
    PROVE  DownloadInv'
<1> USE DEF DownloadInv, ctlVars, gateVars
<1>1. dl' \in [Host -> [Proc -> DlPc]]
      /\ \A g \in Host : \A q \in Proc : dl'[g][q] = IF g = h /\ q = p THEN pc ELSE dl[g][q]
  BY ToFact
<1>2. TypeOK'
  BY <1>1 DEF TypeOK
<1>3. HashesAFile'
  BY <1>1 DEF HashesAFile
<1>4. Certificates'
  BY DEF Certificates, Good
<1> QED
  BY <1>2, <1>3, <1>4

LEMMA PublishInv ==
    ASSUME DownloadInv, NEW h \in Host, NEW p \in Proc,
           NEW phase \in Phase, Publish(h, p, phase), phase = "complete_verified" => Good(h),
           hashing' \in [Host -> [Proc -> File \union {None}]],
           \A g \in Host : \A q \in Proc : g # h \/ q # p => hashing'[g][q] = hashing[g][q],
           UNCHANGED <<verified, disk, tmp, st, ctlVars, gateVars>>
    PROVE  DownloadInv'
<1> USE DEF DownloadInv, ctlVars, gateVars
<1>1. /\ goal' \in [Host -> [Proc -> Phase]]
      /\ \A g \in Host : \A q \in Proc :
             goal'[g][q] = IF g = h /\ q = p THEN phase ELSE goal[g][q]
      /\ To(h, p, "write")
  BY PublishFact
<1>2. dl' \in [Host -> [Proc -> DlPc]]
      /\ \A g \in Host : \A q \in Proc : dl'[g][q] = IF g = h /\ q = p THEN "write" ELSE dl[g][q]
  BY <1>1, PhaseFact, ToFact
<1>3. TypeOK'
  BY <1>1, <1>2 DEF TypeOK
<1>4. HashesAFile'
  BY <1>2 DEF HashesAFile
<1>5. Certificates'
  BY <1>1 DEF Certificates, Good
<1> QED
  BY <1>3, <1>4, <1>5

(* The typing of what a step of (h, p) does to its own cell of hashing.    *)
LEMMA HashingFact ==
    ASSUME TypeOK, NEW h \in Host, NEW p \in Proc, NEW f \in File \union {None},
           hashing' = [hashing EXCEPT ![h][p] = f]
    PROVE  /\ hashing' \in [Host -> [Proc -> File \union {None}]]
           /\ \A g \in Host : \A q \in Proc :
                  hashing'[g][q] = IF g = h /\ q = p THEN f ELSE hashing[g][q]
  BY DEF TypeOK

LEMMA SameHashing ==
    ASSUME TypeOK, UNCHANGED hashing
    PROVE  /\ hashing' \in [Host -> [Proc -> File \union {None}]]
           /\ \A g \in Host : \A q \in Proc : hashing'[g][q] = hashing[g][q]
  BY DEF TypeOK

(* It writes into a file, the temporary one or what has become the status. *)
LEMMA TextInv ==
    ASSUME DownloadInv, NEW h \in Host, NEW p \in Proc,
           NEW pc \in DlPc \ {"hash"}, To(h, p, pc),
           NEW text \in {goal[h][p], "garbled", "empty"},
           \/ tmp' = [tmp EXCEPT ![h] = text] /\ UNCHANGED st
           \/ st' = [st EXCEPT ![h] = text] /\ UNCHANGED tmp,
           UNCHANGED <<goal, hashing, verified, disk, ctlVars, gateVars>>
    PROVE  DownloadInv'
<1> USE DEF DownloadInv, ctlVars, gateVars
<1>1. /\ dl' \in [Host -> [Proc -> DlPc]]
      /\ \A g \in Host : \A q \in Proc : dl'[g][q] = IF g = h /\ q = p THEN pc ELSE dl[g][q]
  BY ToFact
<1>2. text \in Phase /\ (text = "complete_verified" => Good(h))
  BY PhaseFact DEF TypeOK, Certificates
<1>3. /\ tmp' \in [Host -> Phase] /\ st' \in [Host -> Phase]
      /\ \A g \in Host : tmp'[g] = tmp[g] \/ (g = h /\ tmp'[g] = text)
      /\ \A g \in Host : st'[g] = st[g] \/ (g = h /\ st'[g] = text)
  BY <1>2 DEF TypeOK
<1>4. TypeOK'
  BY <1>1, <1>3 DEF TypeOK
<1>5. HashesAFile'
  BY <1>1 DEF HashesAFile
<1>6. Certificates'
  BY <1>2, <1>3 DEF Certificates, Good
<1> QED
  BY <1>4, <1>5, <1>6

LEMMA OpensTmpInv ==
    ASSUME DownloadInv, NEW h \in Host, NEW p \in Proc, OpensTmp(h, p),
           UNCHANGED <<ctlVars, gateVars>>
    PROVE  DownloadInv'
<1>1. /\ To(h, p, "flush") /\ "flush" \in DlPc \ {"hash"}
      /\ tmp' = [tmp EXCEPT ![h] = "empty"] /\ UNCHANGED <<goal, hashing, verified, disk, st>>
  BY PhaseFact DEF OpensTmp
<1> QED
  BY <1>1, TextInv

LEMMA WritesTmpInv ==
    ASSUME DownloadInv, NEW h \in Host, NEW p \in Proc, WritesTmp(h, p),
           UNCHANGED <<ctlVars, gateVars>>
    PROVE  DownloadInv'
<1>1. To(h, p, "replace") /\ UNCHANGED <<goal, hashing, verified, disk>>
  BY DEF WritesTmp
<1>2. "replace" \in DlPc \ {"hash"}
  BY PhaseFact
<1>3. \A old : Written(old, goal[h][p]) \subseteq {goal[h][p], "garbled", "empty"}
  BY DEF Written
<1>4. CASE \E text \in Written(tmp[h], goal[h][p]) : tmp' = [tmp EXCEPT ![h] = text]
           /\ UNCHANGED st
  BY <1>1, <1>2, <1>3, <1>4, TextInv
<1>5. CASE \E text \in Written(st[h], goal[h][p]) : st' = [st EXCEPT ![h] = text]
           /\ UNCHANGED tmp
  BY <1>1, <1>2, <1>3, <1>5, TextInv
<1>6. CASE UNCHANGED <<tmp, st>>
  BY <1>1, <1>2, <1>6, SameHashing, GoesInv DEF DownloadInv
<1> QED
  BY <1>4, <1>5, <1>6 DEF WritesTmp

LEMMA ReplacesStatusInv ==
    ASSUME DownloadInv, NEW h \in Host, NEW p \in Proc, ReplacesStatus(h, p),
           UNCHANGED <<ctlVars, gateVars>>
    PROVE  DownloadInv'
<1> USE DEF DownloadInv
<1>1. UNCHANGED <<hashing, verified, disk>>
  BY DEF ReplacesStatus
<1>2. ASSUME st' = [st EXCEPT ![h] = tmp[h]], tmp' = [tmp EXCEPT ![h] = None],
             dl' = [dl EXCEPT ![h] = [q \in Proc |-> IF q = p THEN AfterStatus(goal[h][p])
                                                     ELSE Moved(dl[h][q])]],
             UNCHANGED goal
      PROVE  DownloadInv'
  <2> USE DEF ctlVars, gateVars
  <2>1. \A g \in Host : \A q \in Proc : dl[g][q] \in DlPc
    BY DEF TypeOK
  <2>2. /\ dl' \in [Host -> [Proc -> DlPc]]
        /\ \A g \in Host : \A q \in Proc : dl'[g][q] = "hash" => dl[g][q] = "hash"
    <3> DEFINE row == [q \in Proc |-> IF q = p THEN AfterStatus(goal[h][p]) ELSE Moved(dl[h][q])]
    <3>1. row \in [Proc -> DlPc] /\ \A q \in Proc : row[q] = "hash" => dl[h][q] = "hash"
      BY <2>1, AfterStatusFact, MovedFact
    <3>2. dl' = [dl EXCEPT ![h] = row]
      BY <1>2
    <3> HIDE DEF row
    <3> QED
      BY <3>1, <3>2 DEF TypeOK
  <2>3. st' \in [Host -> Phase] /\ \A g \in Host : st'[g] = IF g = h THEN tmp[h] ELSE st[g]
    BY <1>2 DEF TypeOK
  <2>4. tmp' \in [Host -> Phase] /\ \A g \in Host : tmp'[g] = IF g = h THEN None ELSE tmp[g]
    BY <1>2, PhaseFact DEF TypeOK
  <2>5. TypeOK'
    BY <1>1, <1>2, <2>2, <2>3, <2>4 DEF TypeOK
  <2>6. HashesAFile'
    BY <1>1, <2>2 DEF HashesAFile
  <2>7. Certificates'
    BY <1>1, <1>2, <2>3, <2>4 DEF Certificates, Good, None
  <2> QED
    BY <2>5, <2>6, <2>7
<1>3. ASSUME To(h, p, "dead"), UNCHANGED <<goal, tmp, st>> PROVE DownloadInv'
  BY <1>1, <1>3, SameHashing, GoesInv, PhaseFact
<1>4. ASSUME Publish(h, p, "failed"), UNCHANGED <<tmp, st>> PROVE DownloadInv'
  BY <1>1, <1>4, SameHashing, PublishInv, PhaseFact
<1> QED
  BY <1>2, <1>3, <1>4 DEF ReplacesStatus

LEMMA FetchesInv ==
    ASSUME DownloadInv, NEW h \in Host, NEW p \in Proc, Fetches(h, p),
           UNCHANGED <<ctlVars, gateVars>>
    PROVE  DownloadInv'
<1> USE DEF DownloadInv
<1>1. UNCHANGED <<hashing, verified, tmp, st>>
  BY DEF Fetches
<1>2. ASSUME NEW f \in File, disk' = [disk EXCEPT ![h][f] = "good"], UNCHANGED <<dl, goal>>
      PROVE  DownloadInv'
  <2> USE DEF ctlVars, gateVars
  <2>1. /\ disk' \in [Host -> [File -> Content]]
        /\ \A g \in Host : \A k \in File :
               disk'[g][k] = IF g = h /\ k = f THEN "good" ELSE disk[g][k]
    BY <1>2, DiskFact
  <2>2. TypeOK'
    BY <1>1, <1>2, <2>1 DEF TypeOK
  <2>3. HashesAFile'
    BY <1>1, <1>2 DEF HashesAFile
  <2>4. \A g \in Host : Good(g) => Good(g)'
    BY <2>1 DEF Good
  <2>5. \A g \in Host : \A q \in Proc : \A k \in verified[g][q] : disk'[g][k] = "good"
    BY <2>1 DEF Certificates, TypeOK
  <2>6. Certificates'
    BY <1>1, <1>2, <2>4, <2>5, SeqFact DEF Certificates, TypeOK
  <2> QED
    BY <2>2, <2>3, <2>6
<1>3. ASSUME NEW phase \in {"verifying", "failed"}, Publish(h, p, phase), UNCHANGED disk
      PROVE  DownloadInv'
  BY <1>1, <1>3, SameHashing, PublishInv, PhaseFact
<1> QED
  BY <1>2, <1>3 DEF Fetches

LEMMA PicksFileInv ==
    ASSUME DownloadInv, NEW h \in Host, NEW p \in Proc, PicksFile(h, p),
           UNCHANGED <<ctlVars, gateVars>>
    PROVE  DownloadInv'
<1> USE DEF DownloadInv
<1>1. UNCHANGED <<verified, disk, tmp, st>>
  BY DEF PicksFile
<1>2. ASSUME NEW f \in File, hashing' = [hashing EXCEPT ![h][p] = f], To(h, p, "hash"),
             UNCHANGED goal
      PROVE  DownloadInv'
  <2> USE DEF ctlVars, gateVars
  <2>1. /\ dl' \in [Host -> [Proc -> DlPc]]
        /\ \A g \in Host : \A q \in Proc : dl'[g][q] = IF g = h /\ q = p THEN "hash" ELSE dl[g][q]
    BY <1>2, PhaseFact, ToFact
  <2>2. /\ hashing' \in [Host -> [Proc -> File \union {None}]]
        /\ \A g \in Host : \A q \in Proc :
               hashing'[g][q] = IF g = h /\ q = p THEN f ELSE hashing[g][q]
    BY <1>2, HashingFact
  <2>3. TypeOK'
    BY <1>1, <1>2, <2>1, <2>2 DEF TypeOK
  <2>4. HashesAFile'
    BY <2>1, <2>2 DEF HashesAFile
  <2>5. Certificates'
    BY <1>1, <1>2 DEF Certificates, Good
  <2> QED
    BY <2>3, <2>4, <2>5
<1>3. ASSUME Publish(h, p, "failed"), UNCHANGED hashing PROVE DownloadInv'
  BY <1>1, <1>3, SameHashing, PublishInv, PhaseFact
<1>4. ASSUME verified[h][p] = File, Publish(h, p, "complete_verified"), UNCHANGED hashing
      PROVE  DownloadInv'
  <2>1. Good(h)
    BY <1>4 DEF Certificates, Good
  <2> QED
    BY <1>1, <1>4, <2>1, SameHashing, PublishInv, PhaseFact
<1> QED
  BY <1>2, <1>3, <1>4 DEF PicksFile

LEMMA HashesFileInv ==
    ASSUME DownloadInv, NEW h \in Host, NEW p \in Proc, HashesFile(h, p),
           UNCHANGED <<ctlVars, gateVars>>
    PROVE  DownloadInv'
<1> USE DEF DownloadInv
<1>1. UNCHANGED <<disk, tmp, st>> /\ dl[h][p] = "hash"
  BY DEF HashesFile
<1>2. /\ hashing' \in [Host -> [Proc -> File \union {None}]]
      /\ \A g \in Host : \A q \in Proc :
             hashing'[g][q] = IF g = h /\ q = p THEN None ELSE hashing[g][q]
  BY HashingFact DEF HashesFile
<1>3. ASSUME disk[h][hashing[h][p]] = "good", To(h, p, "pick"), UNCHANGED goal,
             verified' = [verified EXCEPT ![h][p] = @ \union {hashing[h][p]}]
      PROVE  DownloadInv'
  <2> USE DEF ctlVars, gateVars
  <2>1. /\ dl' \in [Host -> [Proc -> DlPc]]
        /\ \A g \in Host : \A q \in Proc : dl'[g][q] = IF g = h /\ q = p THEN "pick" ELSE dl[g][q]
    BY <1>3, PhaseFact, ToFact
  <2>2. hashing[h][p] \in File
    BY <1>1 DEF HashesAFile
  <2>3. /\ verified' \in [Host -> [Proc -> SUBSET File]]
        /\ \A g \in Host : \A q \in Proc :
               verified'[g][q] = IF g = h /\ q = p THEN verified[h][p] \union {hashing[h][p]}
                                 ELSE verified[g][q]
    BY <1>3, <2>2 DEF TypeOK
  <2>4. TypeOK'
    BY <1>1, <1>2, <1>3, <2>1, <2>3 DEF TypeOK
  <2>5. HashesAFile'
    BY <1>2, <2>1 DEF HashesAFile
  <2>6. Certificates'
    BY <1>1, <1>3, <2>3 DEF Certificates, Good
  <2> QED
    BY <2>4, <2>5, <2>6
<1>4. ASSUME Publish(h, p, "failed"), UNCHANGED verified PROVE DownloadInv'
  BY <1>1, <1>2, <1>4, PublishInv, PhaseFact
<1> QED
  BY <1>3, <1>4 DEF HashesFile

LEMMA ProcessInv ==
    ASSUME DownloadInv, NEW h \in Host, NEW p \in Proc, DlStep(h, p) \/ DlDies(h, p)
    PROVE  DownloadInv'
<1> USE DEF DownloadInv
<1>0. UNCHANGED <<ctlVars, gateVars>>
  BY DEF DlStep, DlDies
<1>1. CASE ReadsManifest(h, p)
  <2>1. ASSUME NEW phase \in {"downloading", "failed"}, Publish(h, p, phase) PROVE DownloadInv'
    BY <1>0, <1>1, <2>1, SameHashing, PublishInv, PhaseFact DEF ReadsManifest
  <2> QED
    BY <1>1, <2>1 DEF ReadsManifest
<1>2. CASE DlKilled(h, p)
  <2>1. /\ hashing' \in [Host -> [Proc -> File \union {None}]]
        /\ \A g \in Host : \A q \in Proc :
               hashing'[g][q] = IF g = h /\ q = p THEN None ELSE hashing[g][q]
    BY <1>2, HashingFact DEF DlKilled
  <2> QED
    BY <1>0, <1>2, <2>1, GoesInv, PhaseFact DEF DlKilled
<1> QED
  BY <1>0, <1>1, <1>2, OpensTmpInv, WritesTmpInv, ReplacesStatusInv, FetchesInv, PicksFileInv, HashesFileInv
     DEF DlStep, DlDies

--------------------------------------------------------------------------------
(* The controller's threads and the gate.                                  *)
LEMMA ControllerInv ==
    ASSUME DownloadInv, NEW h \in Host, CtlStarts(h) \/ CtlWaits(h) \/ CtlReadsBack(h) \/ CtlAgain
    PROVE  DownloadInv'
<1> USE DEF DownloadInv, gateVars, nodeVars
<1>1. ASSUME CtlStarts(h), ctl' = [ctl EXCEPT ![h] = "wait"] PROVE DownloadInv'
  <2>0. "wait" # "error" /\ ctl'[h] = "wait"
    BY <1>1 DEF TypeOK
  <2>1. PICK p \in Proc : To(h, p, "manifest") /\ child' = [child EXCEPT ![h] = p]
    BY <1>1, <2>0 DEF CtlStarts, TypeOK
  <2>2. /\ dl' \in [Host -> [Proc -> DlPc]]
        /\ \A g \in Host : \A q \in Proc :
               dl'[g][q] = IF g = h /\ q = p THEN "manifest" ELSE dl[g][q]
    BY <2>1, PhaseFact, ToFact
  <2>3. UNCHANGED <<goal, hashing, verified, disk, tmp, st, gateVars>>
    BY <1>1 DEF CtlStarts
  <2>4. TypeOK'
    BY <1>1, <2>1, <2>2, <2>3 DEF TypeOK
  <2>5. HashesAFile'
    BY <2>2, <2>3 DEF HashesAFile
  <2>6. Certificates'
    BY <2>3 DEF Certificates, Good
  <2> QED
    BY <2>4, <2>5, <2>6
<1>3. ASSUME UNCHANGED <<nodeVars, child, gateVars>>,
             ctl' \in [Host -> {"start", "wait", "readback", "ok", "error"}]
      PROVE  DownloadInv'
  <2>1. TypeOK'
    BY <1>3 DEF TypeOK
  <2>2. HashesAFile' /\ Certificates'
    BY <1>3 DEF HashesAFile, Certificates, Good
  <2> QED
    BY <2>1, <2>2
<1>4. CASE CtlStarts(h)
  <2>1. CASE ctl' = [ctl EXCEPT ![h] = "error"] /\ UNCHANGED <<dl, child>>
    BY <1>3, <1>4, <2>1 DEF CtlStarts, TypeOK
  <2> QED
    BY <1>1, <1>4, <2>1 DEF CtlStarts
<1>2. CASE CtlWaits(h) \/ CtlReadsBack(h) \/ CtlAgain
  <2>1. UNCHANGED <<nodeVars, child, gateVars>>
    BY <1>2 DEF CtlWaits, CtlReadsBack, CtlAgain
  <2>2. ctl' \in [Host -> {"start", "wait", "readback", "ok", "error"}]
    BY <1>2 DEF CtlWaits, CtlReadsBack, CtlAgain, TypeOK
  <2> QED
    BY <1>3, <2>1, <2>2
<1> QED
  BY <1>2, <1>4

LEMMA GateInv ==
    ASSUME DownloadInv, GateReads \/ GateDecides \/ GateDeadline
    PROVE  DownloadInv'
<1> USE DEF DownloadInv
<1>0. states \in Seq(Phase) /\ Len(states) \in Nat /\ Len(states) <= Len(HostSeq)
  BY DEF TypeOK
<1>1. CASE GateReads
  <2>1. UNCHANGED <<nodeVars, ctlVars, gate, late>>
    BY <1>1 DEF GateReads
  <2> DEFINE n == Len(states) + 1
  <2>2. n \in 1..Len(HostSeq) /\ HostSeq[n] \in Host
    BY <1>0, <1>1, SeqFact DEF GateReads
  <2>3. st[HostSeq[n]] \in Phase
    BY <2>2 DEF TypeOK
  <2>4. states' = Append(states, st[HostSeq[n]])
    BY <1>1 DEF GateReads
  <2>5. /\ states' \in Seq(Phase) /\ Len(states') = n
        /\ \A i \in 1..Len(states) : states'[i] = states[i]
        /\ states'[n] = st[HostSeq[n]]
    BY <1>0, <2>3, <2>4
  <2>6. TypeOK'
    BY <2>1, <2>2, <2>5 DEF TypeOK, nodeVars, ctlVars
  <2>7. HashesAFile'
    BY <2>1 DEF HashesAFile, nodeVars
  <2>8. ASSUME NEW i \in 1..Len(states'), states'[i] = "complete_verified" PROVE Good(HostSeq[i])
    <3>1. CASE i = n
      BY <2>2, <2>5, <2>8, <3>1 DEF Certificates
    <3>2. CASE i \in 1..Len(states)
      BY <2>5, <2>8, <3>2 DEF Certificates
    <3> QED
      BY <1>0, <2>5, <3>1, <3>2
  <2>9. Certificates'
    BY <2>1, <2>8 DEF Certificates, Good, nodeVars
  <2> QED
    BY <2>6, <2>7, <2>9
<1>2. CASE GateDecides
  <2>1. UNCHANGED <<nodeVars, ctlVars, late>> /\ states' = <<>> /\ gate' = Decision
        /\ Len(states) = Len(HostSeq)
    BY <1>2 DEF GateDecides
  <2>2. gate' \in {"waiting", "passed", "refused"}
    BY <2>1 DEF Decision
  <2>3. ASSUME gate' = "passed", NEW h \in Host PROVE Good(h)
    <3>1. PICK i \in 1..Len(HostSeq) : h = HostSeq[i]
      BY DEF Host
    <3>2. states[i] = "complete_verified"
      BY <2>1, <2>3, <3>1 DEF Decision, Read
    <3> QED
      BY <2>1, <3>1, <3>2 DEF Certificates
  <2>4. TypeOK'
    BY <2>1, <2>2, SeqFact DEF TypeOK, nodeVars, ctlVars
  <2>5. HashesAFile'
    BY <2>1 DEF HashesAFile, nodeVars
  <2>6. Certificates'
    BY <2>1, <2>3 DEF Certificates, Good, nodeVars
  <2> QED
    BY <2>4, <2>5, <2>6
<1>3. CASE GateDeadline
  <2>1. UNCHANGED <<nodeVars, ctlVars, gate, states>> /\ late' = TRUE
    BY <1>3 DEF GateDeadline
  <2>2. TypeOK'
    BY <2>1 DEF TypeOK, nodeVars, ctlVars
  <2>3. HashesAFile' /\ Certificates'
    BY <2>1 DEF HashesAFile, Certificates, Good, nodeVars
  <2> QED
    BY <2>2, <2>3
<1> QED
  BY <1>1, <1>2, <1>3

LEMMA DownloadStep == DownloadInv /\ [Next]_vars => DownloadInv'
<1> SUFFICES ASSUME DownloadInv, [Next]_vars PROVE DownloadInv'
  OBVIOUS
<1>1. CASE UNCHANGED vars
  <2> USE <1>1 DEF DownloadInv, vars, nodeVars, ctlVars, gateVars
  <2>1. TypeOK'
    BY DEF TypeOK
  <2>2. HashesAFile' /\ Certificates'
    BY DEF HashesAFile, Certificates, Good
  <2> QED
    BY <2>1, <2>2
<1>2. CASE CtlAgain
  <2>1. HostSeq[1] \in Host
    BY SeqFact
  <2> QED
    BY <1>2, <2>1, ControllerInv
<1> QED
  BY <1>1, <1>2, ProcessInv, ControllerInv, GateInv DEF Next

--------------------------------------------------------------------------------
(***************************************************************************)
(* The variables of the download have their types.                         *)
(***************************************************************************)
THEOREM DownloadTypes == Spec => []TypeOK
<1>1. DownloadInv => TypeOK
  BY DEF DownloadInv
<1> QED
  BY DownloadInit, DownloadStep, <1>1, PTL DEF Spec

(***************************************************************************)
(* The status "complete_verified" is true, however many downloaders share  *)
(* the status file of a node.                                              *)
(***************************************************************************)
THEOREM CompleteIsGood == Spec => []CompleteMeansGood
<1>1. DownloadInv => CompleteMeansGood
  BY DEF DownloadInv, Certificates, Good, CompleteMeansGood
<1> QED
  BY DownloadInit, DownloadStep, <1>1, PTL DEF Spec

(***************************************************************************)
(* A gate that passes does so with the checkpoint whole on every node.     *)
(***************************************************************************)
THEOREM GatePassesGood == Spec => []GateMeansGood
<1>1. DownloadInv => GateMeansGood
  BY DEF DownloadInv, Certificates, Good, GateMeansGood
<1> QED
  BY DownloadInit, DownloadStep, <1>1, PTL DEF Spec
================================================================================
