--------------------------- MODULE CacheTransferProof --------------------------
(***************************************************************************)
(* The preparation of the kernel caches for every number of kernels and of *)
(* polls, every receipt an earlier run may have left, and an alarm at any  *)
(* point.                                                                  *)
(***************************************************************************)
EXTENDS CacheTransfer, TLAPS

ProbeSt == {"absent", "starting", "working", "truncated", "passed", "broken"}
CtlPc == {"poll", "look", "settle", "idle", "hash", "tar", "extract", "compare", "run", "wait",
          "read", "exec", "stopsource", "stopdest", "failed"}

Types ==
    /\ probe \in [Nodes -> ProbeSt]
    /\ writes \in [Nodes -> {"progress", "complete", "failed"}]
    /\ receipt \in [Nodes -> Receipt]
    /\ own \in [Nodes -> BOOLEAN]
    /\ cache \in [Nodes -> 0..Kernels]
    /\ pc \in CtlPc
    /\ manifest \in 0..Kernels /\ archive \in 0..Kernels

(* A diagnostic that passes, and the receipt of one, mean a whole cache.   *)
ReceiptsAreTrue ==
    \A h \in Nodes :
        /\ probe[h] = "truncated" /\ writes[h] = "complete" => cache[h] = Kernels
        /\ own[h] /\ receipt[h] = "complete" => cache[h] = Kernels

(* From the exit of the producer on, nothing adds to the first node's      *)
(* cache.                                                                  *)
AfterProducer ==
    {"idle", "hash", "tar", "extract", "compare", "run", "wait", "read", "exec"}
SourceRests ==
    /\ probe[SOURCE] # "starting"
    /\ pc \in AfterProducer => probe[SOURCE] = "absent"

(* The second node's diagnostic is of this run, and is started late.       *)
BeforeDest == {"poll", "look", "settle", "idle", "hash", "tar", "extract", "compare", "run"}
DestWaits ==
    /\ pc \in BeforeDest => probe[DEST] = "absent" /\ own[DEST] = FALSE
    /\ pc \in {"read", "exec"} =>
          probe[DEST] = "absent" /\ own[DEST] /\ receipt[DEST] = "complete"

(* What has been hashed, then copied, then compared.                       *)
Copied ==
    /\ pc \in {"tar", "extract", "compare", "run", "wait", "read", "exec"} =>
          manifest = cache[SOURCE] /\ manifest > 0
    /\ pc \in {"extract", "compare", "run", "wait", "read", "exec"} => archive = manifest
    /\ pc \in {"run", "wait", "read", "exec"} => manifest <= cache[DEST]

(* How far the cleanup is, unless the alarm struck, where no call failed.  *)
CleansUp ==
    ~struck =>
        /\ pc \in {"stopsource", "stopdest", "failed"} /\ DEST \notin missed =>
              probe[DEST] # "starting"
        /\ pc \in {"stopdest", "failed"} /\ SOURCE \notin missed => probe[SOURCE] = "absent"
        /\ pc = "failed" /\ DEST \notin missed => probe[DEST] = "absent"

TransferInv ==
    Types /\ ReceiptsAreTrue /\ SourceRests /\ DestWaits /\ Copied /\ CleansUp

USE KernelsAssumption, LeftoversAssumption DEF SOURCE, DEST, Nodes

LEMMA TransferInit == Init => TransferInv
<1> SUFFICES ASSUME Init PROVE TransferInv
  OBVIOUS
<1> USE DEF Init
<1>1. Types
  <2>1. receipt \in [Nodes -> Receipt]
    OBVIOUS
  <2>2. probe \in [Nodes -> ProbeSt] /\ writes \in [Nodes -> {"progress", "complete", "failed"}]
    BY DEF ProbeSt
  <2>3. own \in [Nodes -> BOOLEAN] /\ cache \in [Nodes -> 0..Kernels]
    OBVIOUS
  <2>4. pc \in CtlPc /\ manifest \in 0..Kernels /\ archive \in 0..Kernels
    BY DEF CtlPc
  <2> QED
    BY <2>1, <2>2, <2>3, <2>4 DEF Types
<1>2. ReceiptsAreTrue
  BY DEF ReceiptsAreTrue
<1>3. SourceRests /\ DestWaits /\ Copied /\ CleansUp
  BY DEF SourceRests, DestWaits, Copied, CleansUp, AfterProducer, BeforeDest
<1> QED
  BY <1>1, <1>2, <1>3 DEF TransferInv

--------------------------------------------------------------------------------
(* A step of a diagnostic. *)
LEMMA ProbeFact ==
    ASSUME Types, NEW h \in Nodes, NEW x \in ProbeSt, ProbeTo(h, x)
    PROVE  /\ probe' \in [Nodes -> ProbeSt]
           /\ probe'[h] = x /\ \A g \in Nodes \ {h} : probe'[g] = probe[g]
  BY DEF Types, ProbeTo

LEMMA WriteFact ==
    ASSUME Types, NEW h \in Nodes, NEW x \in Receipt, Write(h, x)
    PROVE  /\ receipt' \in [Nodes -> Receipt] /\ own' \in [Nodes -> BOOLEAN]
           /\ receipt'[h] = x /\ own'[h] = TRUE
           /\ \A g \in Nodes \ {h} : receipt'[g] = receipt[g] /\ own'[g] = own[g]
  BY DEF Types, Write

LEMMA WritesFact ==
    ASSUME Types, NEW h \in Nodes, NEW x \in {"progress", "complete", "failed"},
           writes' = [writes EXCEPT ![h] = x]
    PROVE  /\ writes' \in [Nodes -> {"progress", "complete", "failed"}]
           /\ writes'[h] = x /\ \A g \in Nodes \ {h} : writes'[g] = writes[g]
  BY DEF Types

LEMMA CacheFact ==
    ASSUME Types, NEW h \in Nodes, NEW n \in 0..Kernels, cache' = [cache EXCEPT ![h] = n]
    PROVE  /\ cache' \in [Nodes -> 0..Kernels]
           /\ cache'[h] = n /\ \A g \in Nodes \ {h} : cache'[g] = cache[g]
  BY DEF Types

(* A diagnostic at work moves, and the other node sees nothing of it.      *)
LEMMA ProbeMovesInv ==
    ASSUME TransferInv, NEW h \in Nodes, probe[h] # "absent", UNCHANGED ctlVars,
           Types', probe'[h] # "starting",
           \A g \in Nodes \ {h} :
               /\ probe'[g] = probe[g] /\ writes'[g] = writes[g] /\ receipt'[g] = receipt[g]
               /\ own'[g] = own[g] /\ cache'[g] = cache[g],
           cache[h] <= cache'[h],
           probe'[h] = "truncated" /\ writes'[h] = "complete" => cache'[h] = Kernels,
           own'[h] /\ receipt'[h] = "complete" => cache'[h] = Kernels
    PROVE  TransferInv'
<1> USE DEF TransferInv, ctlVars
<1>1. ReceiptsAreTrue'
  BY DEF ReceiptsAreTrue
<1>2. h = SOURCE => pc \notin AfterProducer
  BY DEF SourceRests
<1>3. h = DEST => pc \notin BeforeDest \union {"read", "exec"}
  BY DEF DestWaits
<1>4. SourceRests'
  BY <1>2 DEF SourceRests
<1>5. DestWaits'
  BY <1>3 DEF DestWaits
<1>6. Copied'
  <2>1. \A g \in Nodes : cache[g] <= cache'[g] /\ cache[g] \in Nat /\ cache'[g] \in Nat
    BY DEF Types
  <2>2. manifest \in Nat /\ manifest' = manifest /\ archive' = archive /\ pc' = pc
    BY DEF Types
  <2>3. pc \in AfterProducer => cache'[SOURCE] = cache[SOURCE]
    BY <1>2
  <2> QED
    BY <2>1, <2>2, <2>3 DEF Copied, AfterProducer
<1>7. CleansUp'
  BY DEF CleansUp
<1> QED
  BY <1>1, <1>4, <1>5, <1>6, <1>7

LEMMA TruncatesInv ==
    ASSUME TransferInv, NEW h \in Nodes, NEW stage \in {"progress", "complete", "failed"},
           Truncates(h, stage), UNCHANGED ctlVars,
           cache' \in [Nodes -> 0..Kernels], cache[h] <= cache'[h],
           \A g \in Nodes \ {h} : cache'[g] = cache[g],
           stage = "complete" => cache'[h] = Kernels
    PROVE  TransferInv'
<1>0. Types
  BY DEF TransferInv
<1>1. "truncated" \in ProbeSt /\ "torn" \in Receipt
  BY DEF ProbeSt, Receipt
<1>2. probe[h] = "working" /\ ProbeTo(h, "truncated") /\ Write(h, "torn")
      /\ writes' = [writes EXCEPT ![h] = stage]
  BY DEF Truncates
<1>3. /\ probe' \in [Nodes -> ProbeSt]
      /\ probe'[h] = "truncated" /\ \A g \in Nodes \ {h} : probe'[g] = probe[g]
  BY <1>0, <1>1, <1>2, ProbeFact
<1>4. /\ receipt' \in [Nodes -> Receipt] /\ own' \in [Nodes -> BOOLEAN]
      /\ receipt'[h] = "torn"
      /\ \A g \in Nodes \ {h} : receipt'[g] = receipt[g] /\ own'[g] = own[g]
  BY <1>0, <1>1, <1>2, WriteFact
<1>5. /\ writes' \in [Nodes -> {"progress", "complete", "failed"}]
      /\ writes'[h] = stage /\ \A g \in Nodes \ {h} : writes'[g] = writes[g]
  BY <1>0, <1>2, WritesFact
<1>6. Types'
  BY <1>0, <1>3, <1>4, <1>5 DEF Types, ctlVars
<1> QED
  BY <1>2, <1>3, <1>4, <1>5, <1>6, ProbeMovesInv

LEMMA ProbeStepInv ==
    ASSUME TransferInv, NEW h \in Nodes, ProbeStep(h)
    PROVE  TransferInv'
<1>0. Types /\ UNCHANGED ctlVars
  BY DEF TransferInv, ProbeStep
<1>1. ASSUME NEW x \in ProbeSt \ {"starting"}, ProbeTo(h, x), probe[h] # "absent",
             x = "truncated" => probe[h] = "truncated",
             UNCHANGED <<writes, receipt, own, cache>>
      PROVE  TransferInv'
  <2>1. /\ probe' \in [Nodes -> ProbeSt]
        /\ probe'[h] = x /\ \A g \in Nodes \ {h} : probe'[g] = probe[g]
    BY <1>0, <1>1, ProbeFact
  <2>2. Types'
    BY <1>0, <1>1, <2>1 DEF Types, ctlVars
  <2>3. cache[h] \in Nat
    BY <1>0 DEF Types
  <2> QED
    BY <1>0, <1>1, <2>1, <2>2, <2>3, ProbeMovesInv DEF TransferInv, ReceiptsAreTrue
<1>2. CASE ProbeStarts(h) \/ ProbeExits(h) \/ ProbeKilled(h)
  BY <1>1, <1>2 DEF ProbeStarts, ProbeExits, ProbeKilled, ProbeSt
<1>3. CASE ProbeCompiles(h)
  <2>1. PICK stage \in {"progress", "complete"} :
            Truncates(h, stage) /\ (stage = "complete" <=> cache'[h] = Kernels)
    BY <1>3 DEF ProbeCompiles
  <2>2. cache[h] \in 0..Kernels
    BY <1>0 DEF Types
  <2>3. CASE cache' = cache
    BY <1>0, <2>1, <2>2, <2>3, TruncatesInv DEF Types
  <2>4. CASE cache' = [cache EXCEPT ![h] = IF @ < Kernels THEN @ + 1 ELSE @]
    <3> DEFINE m == IF cache[h] < Kernels THEN cache[h] + 1 ELSE cache[h]
    <3>0. m \in 0..Kernels /\ m >= cache[h] /\ cache' = [cache EXCEPT ![h] = m]
      BY <2>2, <2>4
    <3> HIDE DEF m
    <3>1. PICK n \in 0..Kernels : n >= cache[h] /\ cache' = [cache EXCEPT ![h] = n]
      BY <3>0
    <3>2. cache' \in [Nodes -> 0..Kernels] /\ cache'[h] = n
          /\ \A g \in Nodes \ {h} : cache'[g] = cache[g]
      BY <1>0, <3>1, CacheFact
    <3> QED
      BY <1>0, <2>1, <2>2, <3>1, <3>2, TruncatesInv
  <2> QED
    BY <1>3, <2>3, <2>4 DEF ProbeCompiles
<1>4. CASE ProbeFails(h)
  <2>1. cache' = cache /\ cache[h] \in Nat
    BY <1>0, <1>4 DEF ProbeFails, Types
  <2> QED
    BY <1>0, <1>4, <2>1, TruncatesInv DEF ProbeFails, Types
<1>5. CASE ProbeRecords(h)
  <2>1. probe[h] = "truncated" /\ Write(h, writes[h]) /\ UNCHANGED <<writes, cache>>
    BY <1>5 DEF ProbeRecords
  <2>2. PICK x \in {"passed", "broken", "working"} : ProbeTo(h, x)
    BY <1>5 DEF ProbeRecords
  <2>3. x \in ProbeSt /\ writes[h] \in Receipt /\ cache[h] \in Nat
    BY <1>0 DEF Types, Receipt, ProbeSt
  <2>4. /\ probe' \in [Nodes -> ProbeSt]
        /\ probe'[h] = x /\ \A g \in Nodes \ {h} : probe'[g] = probe[g]
    BY <1>0, <2>2, <2>3, ProbeFact
  <2>5. /\ receipt' \in [Nodes -> Receipt] /\ own' \in [Nodes -> BOOLEAN]
        /\ receipt'[h] = writes[h]
        /\ \A g \in Nodes \ {h} : receipt'[g] = receipt[g] /\ own'[g] = own[g]
    BY <1>0, <2>1, <2>3, WriteFact
  <2>6. Types'
    BY <1>0, <2>1, <2>4, <2>5 DEF Types, ctlVars
  <2>7. writes[h] = "complete" => cache[h] = Kernels
    BY <2>1 DEF TransferInv, ReceiptsAreTrue
  <2> QED
    BY <1>0, <2>1, <2>3, <2>4, <2>5, <2>6, <2>7, ProbeMovesInv
<1> QED
  BY <1>2, <1>3, <1>4, <1>5 DEF ProbeStep

--------------------------------------------------------------------------------
(* The controller, on its way and in its cleanup.                          *)

(* It looks at something and goes on, or gives up.                         *)
LEMMA GoesOnInv ==
    ASSUME TransferInv, UNCHANGED <<probeVars, manifest, archive>>, struck' = struck,
           pc' \in CtlPc,
           \/ pc' = "stopsource" /\ (probe[DEST] # "starting" \/ DEST \in missed')
           \/ /\ pc \in {"poll", "look", "settle"}
              /\ pc' \in {"poll", "look", "settle"} \/ (pc' = "idle" /\ probe[SOURCE] = "absent")
           \/ pc = "idle" /\ pc' = "hash"
           \/ pc = "compare" /\ pc' = "run" /\ manifest <= cache[DEST]
           \/ /\ pc = "wait" /\ pc' = "read"
              /\ probe[DEST] = "absent" /\ own[DEST] /\ receipt[DEST] = "complete"
           \/ pc = "read" /\ pc' = "exec"
    PROVE  TransferInv'
<1> USE DEF TransferInv, probeVars
<1>1. Types' /\ ReceiptsAreTrue'
  BY DEF Types, ReceiptsAreTrue
<1>2. SourceRests'
  BY DEF SourceRests, AfterProducer
<1>3. DestWaits'
  BY DEF DestWaits, BeforeDest
<1>4. Copied'
  BY DEF Copied
<1>5. CleansUp'
  BY DEF CleansUp
<1> QED
  BY <1>1, <1>2, <1>3, <1>4, <1>5

LEMMA ControllerInv ==
    ASSUME TransferInv, Controller
    PROVE  TransferInv'
<1>0. Types
  BY DEF TransferInv
<1>1. pc \in BeforeDest => probe[DEST] = "absent" /\ own[DEST] = FALSE
  BY DEF TransferInv, DestWaits
<1>2. probe[SOURCE] # "starting"
  BY DEF TransferInv, SourceRests
<1>3. CASE Polls \/ Looks \/ Settles \/ ChecksIdle
  <2>1. pc' \in CtlPc /\ UNCHANGED <<probeVars, manifest, archive, struck>>
    BY <1>0, <1>3 DEF Polls, Looks, Settles, ChecksIdle, GoTo, Raise, Keep, CtlPc, Types
  <2>2. pc \in {"poll", "look", "settle", "idle"}
    BY <1>3 DEF Polls, Looks, Settles, ChecksIdle
  <2>3. \/ pc' = "stopsource"
        \/ /\ pc \in {"poll", "look", "settle"}
           /\ pc' \in {"poll", "look", "settle"} \/ (pc' = "idle" /\ ~Listed(SOURCE))
        \/ pc = "idle" /\ pc' = "hash"
    BY <1>3 DEF Polls, Looks, Settles, ChecksIdle, GoTo, Raise, Keep
  <2> QED
    BY <1>1, <1>2, <2>1, <2>2, <2>3, GoesOnInv DEF Listed, BeforeDest
<1>11. CASE Fails
  <2>1. /\ pc \in BeforeDest \union {"read"} /\ pc' = "stopsource" /\ pc' \in CtlPc
        /\ UNCHANGED <<probeVars, manifest, archive, struck>>
    BY <1>11 DEF Fails, GoTo, Raise, Keep, CtlPc, BeforeDest
  <2>2. probe[DEST] # "starting"
    BY <1>1, <2>1 DEF TransferInv, DestWaits
  <2> QED
    BY <2>1, <2>2, GoesOnInv
<1>4. CASE Compares \/ AwaitsProbe \/ ReadsReceipt
  <2>1. pc' \in CtlPc /\ UNCHANGED <<probeVars, manifest, archive, struck>>
    BY <1>4 DEF Compares, AwaitsProbe, ReadsReceipt, GoTo, Raise, Keep, CtlPc
  <2>2. pc = "read" => probe[DEST] = "absent"
    BY DEF TransferInv, DestWaits
  <2>3. pc = "compare" => probe[DEST] = "absent"
    BY <1>1 DEF BeforeDest
  <2> QED
    BY <1>4, <2>1, <2>2, <2>3, GoesOnInv
       DEF Compares, AwaitsProbe, ReadsReceipt, GoTo, Raise, Listed
<1>5. CASE Hashes
  <2>1. /\ pc = "hash" /\ manifest' = cache[SOURCE] /\ cache[SOURCE] \in 0..Kernels
        /\ UNCHANGED <<probeVars, archive, struck>>
        /\ \/ cache[SOURCE] > 0 /\ pc' = "tar"
           \/ pc' = "stopsource"
    BY <1>0, <1>5 DEF Hashes, GoTo, Raise, Types
  <2>2. Types' /\ ReceiptsAreTrue'
    BY <2>1 DEF TransferInv, Types, ReceiptsAreTrue, probeVars, CtlPc
  <2>3. SourceRests' /\ DestWaits' /\ Copied' /\ CleansUp'
    BY <2>1 DEF TransferInv, SourceRests, AfterProducer, DestWaits, BeforeDest, Copied, CleansUp,
       probeVars
  <2> QED
    BY <2>2, <2>3 DEF TransferInv
<1>6. CASE Archives
  <2>1. /\ pc = "tar" /\ cache[SOURCE] \in 0..Kernels
        /\ UNCHANGED <<probeVars, manifest, struck>>
        /\ archive' = cache[SOURCE] /\ pc' = "extract"
    BY <1>0, <1>6 DEF Archives, GoTo, Types
  <2>2. Types' /\ ReceiptsAreTrue'
    BY <2>1 DEF TransferInv, Types, ReceiptsAreTrue, probeVars, CtlPc
  <2>3. SourceRests' /\ DestWaits' /\ Copied' /\ CleansUp'
    BY <2>1 DEF TransferInv, SourceRests, AfterProducer, DestWaits, BeforeDest, Copied, CleansUp,
       probeVars
  <2> QED
    BY <2>2, <2>3 DEF TransferInv
<1>7. CASE Extracts
  <2>1. pc = "extract" /\ UNCHANGED <<manifest, archive, struck, probe, writes, receipt, own>>
    BY <1>7 DEF Extracts
  <2>2. PICK n \in 0..Kernels :
            cache' = [cache EXCEPT ![DEST] = n] /\ (pc' = "compare" \/ pc' = "stopsource")
    <3>1. archive \in 0..Kernels /\ cache[DEST] \in 0..Kernels
      BY <1>0 DEF Types
    <3> QED
      BY <1>7, <3>1 DEF Extracts, GoTo, Raise
  <2>3. /\ cache' \in [Nodes -> 0..Kernels]
        /\ cache'[DEST] = n /\ \A g \in Nodes \ {DEST} : cache'[g] = cache[g]
    BY <1>0, <2>2, CacheFact
  <2>4. probe[DEST] = "absent" /\ own[DEST] = FALSE
    BY <1>1, <2>1 DEF BeforeDest
  <2>5. Types' /\ ReceiptsAreTrue'
    BY <2>1, <2>2, <2>3, <2>4 DEF TransferInv, Types, ReceiptsAreTrue, CtlPc
  <2>6. SourceRests' /\ DestWaits' /\ Copied' /\ CleansUp'
    BY <2>1, <2>2, <2>3, <2>4
       DEF TransferInv, SourceRests, AfterProducer, DestWaits, BeforeDest, Copied, CleansUp
  <2> QED
    BY <2>5, <2>6 DEF TransferInv
<1>8. CASE RunsProbe
  <2>1. /\ pc = "run"
        /\ UNCHANGED <<writes, receipt, own, cache, manifest, archive, struck>>
    BY <1>8 DEF RunsProbe
  <2>2. ProbeTo(DEST, "starting") /\ pc' = "wait"
    BY <1>8 DEF RunsProbe, GoTo
  <2>3. /\ probe' \in [Nodes -> ProbeSt]
        /\ probe'[DEST] = "starting" /\ \A g \in Nodes \ {DEST} : probe'[g] = probe[g]
    BY <1>0, <2>2, ProbeFact, "starting" \in ProbeSt DEF ProbeSt
  <2>4. Types' /\ ReceiptsAreTrue'
    BY <2>1, <2>2, <2>3 DEF TransferInv, Types, ReceiptsAreTrue, CtlPc
  <2>5. SourceRests' /\ DestWaits' /\ Copied' /\ CleansUp'
    BY <2>1, <2>2, <2>3
       DEF TransferInv, SourceRests, AfterProducer, DestWaits, BeforeDest, Copied, CleansUp
  <2> QED
    BY <2>4, <2>5 DEF TransferInv
<1>9. ASSUME NEW h \in Nodes, NEW where, NEW next, StopsProbe(h, where, next),
             \/ h = SOURCE /\ where = "stopsource" /\ next = "stopdest"
             \/ h = DEST /\ where = "stopdest" /\ next = "failed"
      PROVE  TransferInv'
  <2>1. /\ pc = where /\ pc' = next
        /\ UNCHANGED <<writes, receipt, own, cache, manifest, archive, struck>>
    BY <1>9 DEF StopsProbe, GoTo
  <2>2. /\ probe' \in [Nodes -> ProbeSt]
        /\ \A g \in Nodes \ {h} : probe'[g] = probe[g]
        /\ probe'[h] = probe[h] \/ (Listed(h) /\ probe'[h] = "absent")
        /\ Listed(h) /\ probe'[h] = probe[h] => h \in missed'
    <3>1. CASE Listed(h) /\ ProbeTo(h, "absent")
      <4>1. "absent" \in ProbeSt /\ probe[h] # "absent"
        BY <3>1 DEF ProbeSt, Listed
      <4> QED
        BY <1>0, <3>1, <4>1, ProbeFact
    <3>2. CASE UNCHANGED probe /\ (Listed(h) => missed' = missed \union {h})
      BY <1>0, <3>2 DEF Types
    <3> QED
      BY <1>9, <3>1, <3>2 DEF StopsProbe
  <2>3. /\ probe'[h] = "starting" => probe[h] = "starting"
        /\ probe'[h] # "absent" /\ h \notin missed' => probe'[h] = "starting"
        /\ missed \subseteq missed' /\ missed' \subseteq missed \union {h}
    <3>1. missed \subseteq missed' /\ missed' \subseteq missed \union {h}
      BY <1>9 DEF StopsProbe
    <3> QED
      BY <2>2, <3>1 DEF Listed
  <2>4. Types'
    BY <1>0, <1>9, <2>1, <2>2 DEF Types, CtlPc
  <2>5. ReceiptsAreTrue'
    BY <2>1, <2>2, <2>3 DEF TransferInv, ReceiptsAreTrue, Listed
  <2>7. SourceRests' /\ DestWaits' /\ Copied'
    BY <1>2, <1>9, <2>1, <2>2, <2>3
       DEF TransferInv, SourceRests, AfterProducer, DestWaits, BeforeDest, Copied
  <2>8. CleansUp'
    <3>1. CASE h = SOURCE
      BY <1>2, <1>9, <2>1, <2>2, <2>3, <3>1 DEF TransferInv, CleansUp
    <3>2. CASE h = DEST
      BY <1>2, <1>9, <2>1, <2>2, <2>3, <3>2 DEF TransferInv, CleansUp
    <3> QED
      BY <3>1, <3>2
  <2> QED
    BY <2>4, <2>5, <2>7, <2>8 DEF TransferInv
<1>10. CASE Cleanup
  BY <1>9, <1>10 DEF Cleanup
<1> QED
  BY <1>3, <1>4, <1>5, <1>6, <1>7, <1>8, <1>10, <1>11 DEF Controller

LEMMA TransferStep == TransferInv /\ [Next]_vars => TransferInv'
<1> SUFFICES ASSUME TransferInv, [Next]_vars PROVE TransferInv'
  OBVIOUS
<1>1. CASE UNCHANGED <<probeVars, pc, manifest, archive, struck, missed>>
  BY <1>1 DEF TransferInv, Types, ReceiptsAreTrue, SourceRests, DestWaits, Copied, CleansUp, probeVars
<1>2. CASE AlarmStrikes
  <2>1. /\ struck' = TRUE /\ UNCHANGED <<probeVars, manifest, archive>>
        /\ pc' \in {"stopsource", "stopdest", "failed"}
    BY <1>2 DEF AlarmStrikes, GoTo, Raise
  <2>2. Types' /\ ReceiptsAreTrue'
    BY <2>1 DEF TransferInv, Types, ReceiptsAreTrue, probeVars, CtlPc
  <2>3. SourceRests' /\ DestWaits' /\ Copied' /\ CleansUp'
    BY <2>1 DEF TransferInv, SourceRests, AfterProducer, DestWaits, BeforeDest, Copied, CleansUp,
       probeVars
  <2> QED
    BY <2>2, <2>3 DEF TransferInv
<1> QED
  BY <1>1, <1>2, ControllerInv, ProbeStepInv DEF Next, DeadlinePasses, vars, ctlVars

--------------------------------------------------------------------------------
(***************************************************************************)
(* The campaign that follows starts with validated kernels only.           *)
(***************************************************************************)
THEOREM ExecIsValidated == Spec => []ExecMeansValidated
<1>1. TransferInv => ExecMeansValidated
  BY DEF TransferInv, Types, DestWaits, Copied, ReceiptsAreTrue, ExecMeansValidated
<1> QED
  BY TransferInit, TransferStep, <1>1, PTL DEF Spec

(***************************************************************************)
(* The archive holds what the manifest lists: the producer has exited.     *)
(***************************************************************************)
THEOREM CopyIsWhatWasHashed == Spec => []CopiesWhatItHashed
<1>1. TransferInv => CopiesWhatItHashed
  BY DEF TransferInv, Copied, CopiesWhatItHashed
<1> QED
  BY TransferInit, TransferStep, <1>1, PTL DEF Spec

(***************************************************************************)
(* A failed preparation removes its diagnostic from every node on which no *)
(* call failed, whatever failed on the other one, unless the alarm struck. *)
(***************************************************************************)
THEOREM NothingLeftBehind == Spec => []NoProbeLeft
<1>1. TransferInv => NoProbeLeft
  BY DEF TransferInv, CleansUp, NoProbeLeft
<1> QED
  BY TransferInit, TransferStep, <1>1, PTL DEF Spec
================================================================================
