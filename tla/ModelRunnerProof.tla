---------------------------- MODULE ModelRunnerProof ----------------------------
(***************************************************************************)
(* Theorems about ModelRunner, for any requests, slots, blocks, prompts,   *)
(* pool sizes and numbers of drafts.                                       *)
(*                                                                         *)
(* The invariant has four parts, each kept by every step under those       *)
(* before it: StartInv, the start-up; ViewInv, what the scheduler, the     *)
(* host and the device each know of a request; BoundInv, where the         *)
(* requests and the batch under way are; CacheInv, what their blocks of    *)
(* the tail cache hold.                                                    *)
(***************************************************************************)
EXTENDS KpoolTailProof

--------------------------------------------------------------------------------
(* The start-up.                                                           *)

(* What each phase has behind it: a cache is made in two of them, the      *)
(* first one is gone before the second, and the parts follow the last.     *)
StartInv ==
    /\ StartupTypeOK
    /\ phase = "loaded" => made = 0 /\ caches = {} /\ ~hooks /\ ~muted
    /\ phase = "profiling" => made = 0 /\ caches = {}
    /\ phase = "profiled" => made \in 0..1 /\ caches = {}
    /\ phase = "measuring" => made = 1
    /\ phase \in {"profiled", "measuring", "ready", "zeroed", "serving"} => ~hooks /\ ~muted
    /\ phase \in {"ready", "zeroed", "serving"} =>
          made \in 1..2 /\ caches = {made} /\ \A c \in Rebuilt : uses[c] = made
    /\ phase \in {"zeroed", "serving"} => uses["zeroer"] = made

LEMMA StartInit == StartupInit => StartInv
<1> SUFFICES ASSUME StartupInit PROVE StartInv
    OBVIOUS
<1>1. StartupTypeOK
  <2>1. hooks \in BOOLEAN /\ muted \in BOOLEAN
    BY Zenon DEF StartupInit
  <2>2. uses \in [Part -> 0..2]
    BY DEF StartupInit
  <2>3. caches \subseteq 1..made /\ made \in 0..2
    BY DEF StartupInit
  <2> QED
    BY <2>1, <2>2, <2>3, Zenon DEF StartupTypeOK, StartupInit
<1> QED
  BY <1>1 DEF StartupInit, StartInv

LEMMA StartStep == ASSUME StartInv, Startup \/ Shutdown \/ UNCHANGED startupVars PROVE StartInv'
<1> USE DEF StartInv, StartupTypeOK
<1>1. CASE BeginProfile
  BY <1>1 DEF BeginProfile
<1>2. CASE EndProfile
  <2>1. hooks' \in BOOLEAN /\ muted' \in BOOLEAN /\ ~hooks'
    BY <1>2, Zenon DEF EndProfile
  <2>2. phase' = "profiled" => ~muted'
    BY <1>2 DEF EndProfile
  <2>3. phase' \in {"profiled", "dead"} /\ UNCHANGED <<caches, made, uses>>
    BY <1>2 DEF EndProfile
  <2>4. made = 0 /\ caches = {}
    BY <1>2 DEF EndProfile
  <2> QED
    BY <2>1, <2>2, <2>3, <2>4
<1>3. CASE InitMinimal
  <2>0. made = 0 /\ caches = {}
    BY <1>3 DEF InitMinimal
  <2>1. made' = 1 /\ caches' = {1} /\ uses' \in [Part -> 0..2]
    <3>1. made' = 1
      BY <1>3, <2>0 DEF InitMinimal, InitializeKvCache
    <3>2. caches' = {1}
      BY <1>3, <2>0 DEF InitMinimal, InitializeKvCache
    <3>3. uses' \in [Part -> 0..2]
      BY <1>3, <2>0 DEF InitMinimal, InitializeKvCache
    <3> QED
      BY <3>1, <3>2, <3>3
  <2>2. caches' \subseteq 1..made'
    BY <2>1
  <2> QED
    BY <1>3, <2>1, <2>2 DEF InitMinimal
<1>4. CASE Measure
  BY <1>4 DEF Measure, NeedlessCleans, Released, Part
<1>5. CASE InitReal
  <2>0. made \in 0..1 /\ caches = {}
    BY <1>5 DEF InitReal
  <2>1. made' \in 1..2 /\ caches' = {made'} /\ uses' \in [Part -> 0..2]
    <3>1. made' = made + 1
      BY <1>5 DEF InitReal, InitializeKvCache
    <3>2. caches' = {made'}
      BY <1>5, <2>0, <3>1 DEF InitReal, InitializeKvCache
    <3>3. uses' \in [Part -> 0..2]
      BY <1>5, <2>0 DEF InitReal, InitializeKvCache
    <3> QED
      BY <2>0, <3>1, <3>2, <3>3
  <2>2. \A c \in Rebuilt : uses'[c] = made'
    BY <1>5 DEF InitReal, InitializeKvCache, Rebuilt, Part
  <2>3. caches' \subseteq 1..made'
    BY <2>1
  <2> QED
    BY <1>5, <2>1, <2>2, <2>3 DEF InitReal
<1>6. CASE InitZeroMeta
  <2>1. (CHOOSE c \in caches : TRUE) = made
    BY <1>6 DEF InitZeroMeta
  <2>2. \A c \in Rebuilt : uses'[c] = uses[c]
    BY <1>6 DEF InitZeroMeta, Rebuilt, Part
  <2> QED
    BY <1>6, <2>1, <2>2 DEF InitZeroMeta, Part
<1>7. CASE CaptureModel
  BY <1>7 DEF CaptureModel
<1>8. CASE Shutdown
  BY <1>8 DEF Shutdown, Part
<1>9. CASE UNCHANGED startupVars
  BY <1>9 DEF startupVars
<1> QED
  BY <1>1, <1>2, <1>3, <1>4, <1>5, <1>6, <1>7, <1>8, <1>9 DEF Startup

LEMMA StartNext == ASSUME StartInv, [Next]_vars PROVE StartInv'
  BY StartStep DEF Next, vars, ExecuteModel, SampleTokens, Deliver

(***************************************************************************)
(* Requests are served on one cache, on which every part was built, with   *)
(* no hook of the profile run and the connector on.                        *)
(***************************************************************************)
THEOREM OneCache == Spec => []ServesOnOneCache
<1>1. Init => StartInv
  BY StartInit DEF Init
<1>2. StartInv /\ [Next]_vars => StartInv'
  BY StartNext
<1>3. StartInv => ServesOnOneCache
  <2> SUFFICES ASSUME StartInv, phase = "serving" PROVE ServesOnOneCache
    BY DEF ServesOnOneCache
  <2>1. Part = Rebuilt \union {"zeroer"}
    BY DEF Part, Rebuilt
  <2>2. made \in 1..made /\ caches = {made} /\ \A c \in Part : uses[c] = made
    BY <2>1 DEF StartInv
  <2> QED
    BY <2>2 DEF ServesOnOneCache, StartInv
<1> QED
  BY <1>1, <1>2, <1>3, PTL DEF Spec
--------------------------------------------------------------------------------
(* The two counts.                                                         *)

Entry == [st : {"waiting", "running", "done"}, known : Int, seen : Int, late : Nat, preempted : Int]

ViewTypes ==
    /\ sched \in [Req -> Entry]
    /\ index \in [Req -> Slot \union {None}]
    /\ prefill \in [Slot -> Int] /\ host \in [Slot -> Int] /\ device \in [Slot -> Int]

(* A row of the batch under way against the request it is for.             *)
RowInv(row) ==
    /\ row.req \in Running /\ row.slot = index[row.req] /\ row.start = device[row.slot]
    /\ row.n \in Nat /\ row.drafts \in 0..row.n /\ row.right \in 0..row.drafts
    /\ row.drafts > 0 => row.start >= prefill[row.slot]
    /\ row.start + row.n <= row.upper
    /\ row.prefilling <=> row.start < prefill[row.slot]

(* The scheduler is ahead of the device by the batch under way and by what *)
(* it has not yet seen rejected; the latter only once the prompt is done.  *)
CountInv(r) ==
    LET s    == index[r]
        seen == sched[r].seen - sched[r].late
    IN  /\ s \in Slot
        /\ prefill[s] = sched[r].known
        /\ sched[r].late > 0 => device[s] >= prefill[s]
        /\ \A i \in DOMAIN pending : pending[i].req = r => seen = device[s] + pending[i].n
        /\ (\A i \in DOMAIN pending : pending[i].req # r) => seen = device[s]

ViewInv ==
    /\ ViewTypes
    /\ \A r \in Running : CountInv(r)
    /\ \A r, q \in Running : index[r] = index[q] => r = q
    /\ \A r \in Waiting : sched[r].seen = 0 /\ sched[r].late = 0
    /\ \A i \in DOMAIN pending : RowInv(pending[i])
    /\ \A i, k \in DOMAIN pending : pending[i].req = pending[k].req => i = k

USE NoneAssumption

LEMMA ViewInit == Init => ViewInv
<1> SUFFICES ASSUME Init PROVE ViewInv
    OBVIOUS
<1>1. ViewTypes
  BY PromptAssumption, MaxLenAssumption DEF Init, ViewTypes, Entry
<1>2. Running = {} /\ DOMAIN pending = {}
  BY DEF Init, Running
<1>3. \A r \in Waiting : sched[r].seen = 0 /\ sched[r].late = 0
  BY DEF Init, Waiting
<1> QED
  BY <1>1, <1>2, <1>3 DEF ViewInv

(* What the scheduler may ask for.                                         *)
LEMMA StepFact ==
  ASSUME NEW known \in Int, NEW seen \in Int, NEW step \in Scheduled(known, seen)
  PROVE  /\ step.n \in Nat /\ step.drafts \in 0..step.n /\ step.right \in 0..step.drafts
         /\ step.drafts > 0 => seen >= known
<1> USE DepthAssumption
<1>1. CASE seen < known
  <2>1. PICK n \in 1..known - seen : step = [n |-> n, drafts |-> 0, right |-> 0]
    BY <1>1 DEF Scheduled, Chunks
  <2> QED
    BY <2>1
<1>2. CASE ~(seen < known)
  <2>1. PICK x \in (0..Depth) \X (0..Depth) :
            x[2] <= x[1] /\ step = [n |-> 1 + x[1], drafts |-> x[1], right |-> x[2]]
    BY <1>2 DEF Scheduled, Steps
  <2>2. x[1] \in 0..Depth /\ x[2] \in 0..Depth
    BY <2>1
  <2> QED
    BY <1>2, <2>1, <2>2
<1> QED
  BY <1>1, <1>2

LEMMA PlanFact ==
  ASSUME NEW R, NEW new, NEW plan \in Plans(R, new)
  PROVE  /\ DOMAIN plan \subseteq R /\ new \subseteq DOMAIN plan
         /\ \A r \in DOMAIN plan : plan[r] \in Scheduled(sched[r].known, sched[r].seen)
  BY DEF Plans

LEMMA OrderFact ==
  ASSUME NEW plan, NEW ids \in SortBatchReqIds(plan)
  PROVE  /\ \A i \in DOMAIN ids : ids[i] \in DOMAIN plan
         /\ \A i, k \in DOMAIN ids : ids[i] = ids[k] => i = k
         /\ \A r \in DOMAIN plan : \E i \in DOMAIN ids : ids[i] = r
<1>1. ids \in Bijection(1..Cardinality(DOMAIN plan), DOMAIN plan)
  BY DEF SortBatchReqIds
<1> QED
  BY <1>1 DEF Bijection, Injection, Surjection, IsInjective

LEMMA AtFact ==
  ASSUME NEW S, NEW T, NEW at \in Injection(S, T)
  PROVE  at \in [S -> T] /\ \A r, q \in S : at[r] = at[q] => r = q
  BY DEF Injection, IsInjective

(* AddTo writes the slots of the new requests and no other.                *)
LEMMA AddToFact ==
  ASSUME NEW f, NEW S, NEW at \in [S -> Slot], \A r, q \in S : at[r] = at[q] => r = q, NEW value
  PROVE  /\ \A r \in S : AddTo(f, at, value)[at[r]] = value[r]
         /\ \A s \in Slot : (\A r \in S : at[r] # s) => AddTo(f, at, value)[s] = f[s]
<1>1. DOMAIN at = S
  OBVIOUS
<1>2. \A r \in S : (CHOOSE q \in DOMAIN at : at[q] = at[r]) = r
  BY <1>1
<1> QED
  BY <1>1, <1>2 DEF AddTo

LEMMA AddToType ==
  ASSUME NEW V, NEW f \in [Slot -> V], NEW S, NEW at \in [S -> Slot],
         NEW value, \A r \in S : value[r] \in V
  PROVE  AddTo(f, at, value) \in [Slot -> V]
<1>1. DOMAIN at = S
  OBVIOUS
<1> QED
  BY <1>1 DEF AddTo

LEMMA EntryDone ==
  ASSUME NEW e \in Entry, NEW f, f = [e EXCEPT !.st = "done"]
  PROVE  f \in Entry /\ f.st = "done"
  BY DEF Entry

Planned(e, n) == [e EXCEPT !.st = "running", !.seen = @ + n]

LEMMA EntryPlanned ==
  ASSUME NEW e \in Entry, NEW n \in Nat, NEW f, f = Planned(e, n)
  PROVE  /\ f \in Entry /\ f.st = "running" /\ f.seen = e.seen + n
         /\ f.late = e.late /\ f.known = e.known
<1>1. PICK g : g = [e EXCEPT !.st = "running"]
  OBVIOUS
<1>2. g \in Entry /\ g.st = "running" /\ g.seen = e.seen /\ g.late = e.late /\ g.known = e.known
  BY <1>1 DEF Entry
<1>3. f = [g EXCEPT !.seen = @ + n]
  BY <1>1, Zenon DEF Planned
<1>4. f = [g EXCEPT !.seen = e.seen + n]
  BY <1>2, <1>3, Zenon
<1> QED
  BY <1>2, <1>4 DEF Entry

(* Those that go on, where they stay, and where a new request goes.        *)
Stay(fin, pre) == Running \ (fin \union pre)

Kept(r) ==
    /\ index'[r] = index[r] /\ index[r] \in Slot
    /\ device'[index[r]] = device[index[r]] /\ prefill'[index[r]] = prefill[index[r]]
    /\ table'[index[r]] = table[index[r]]

Added(r, at, home) ==
    /\ index'[r] = at[r] /\ at[r] \in Slot
    /\ device'[at[r]] = 0 /\ prefill'[at[r]] = sched[r].known /\ table'[at[r]] = home[r]

(* One call of execute_model, and what it does to the requests and to the   *)
(* batch.                                                                  *)
Call(fin, new, pre, at, home, plan, ids) ==
    /\ fin \in SUBSET Running /\ new \in SUBSET Waiting
    /\ pre \in SUBSET {r \in Running \ fin : sched[r].late = 0 /\ device[index[r]] < MaxLen}
    /\ at \in Injection(new, Slot \ {index[r] : r \in Stay(fin, pre)})
    /\ home \in Injection(new, Block \ {table[index[r]] : r \in Stay(fin, pre)})
    /\ plan \in Plans(Stay(fin, pre) \union new, new)
    /\ ids \in SortBatchReqIds(plan)
    /\ Execute(fin, pre, new, at, home, plan, ids)

Called(fin, new, pre, at, home, plan, ids) ==
    /\ Running' = Stay(fin, pre) \union new
    /\ DOMAIN plan \subseteq Stay(fin, pre) \union new /\ new \subseteq DOMAIN plan
    /\ \A r \in DOMAIN plan : plan[r] \in Scheduled(sched[r].known, sched[r].seen)
    /\ \A r \in Stay(fin, pre) : Kept(r)
    /\ \A r \in new : Added(r, at, home)
    /\ \A r \in DOMAIN plan : host'[index'[r]] = IF r \in new THEN 0 ELSE sched[r].seen
    /\ prefill' \in [Slot -> Int] /\ host' \in [Slot -> Int] /\ device' \in [Slot -> Int]
    /\ index' \in [Req -> Slot \union {None}]
    /\ \A r, q \in Running' : index'[r] = index'[q] => r = q
    /\ sched' \in [Req -> Entry]
    /\ \A r \in fin : sched'[r].st = "done"
    /\ \A r \in pre : sched'[r].st = "waiting" /\ sched'[r].seen = 0 /\ sched'[r].late = 0
    /\ \A r \in DOMAIN plan : /\ sched'[r].st = "running" /\ sched'[r].known = sched[r].known
                             /\ sched'[r].late = sched[r].late
                             /\ sched'[r].seen = sched[r].seen + plan[r].n
    /\ \A r \in Req \ (fin \union pre \union DOMAIN plan) : sched'[r] = sched[r]
    /\ DOMAIN pending' = DOMAIN ids
    /\ \A i \in DOMAIN ids :
          LET r == ids[i]
              s == index'[r]
          IN  r \in DOMAIN plan /\ pending'[i] = Row(r, plan[r], s, device'[s], host'[s], prefill'[s], table'[s])

LEMMA ExecuteFacts ==
  ASSUME ViewInv, pending = << >>, NEW fin, NEW new, NEW pre, NEW at, NEW home, NEW plan, NEW ids,
         Call(fin, new, pre, at, home, plan, ids)
  PROVE  Called(fin, new, pre, at, home, plan, ids)
<1> /\ fin \in SUBSET Running /\ new \in SUBSET Waiting
    /\ pre \in SUBSET {r \in Running \ fin : sched[r].late = 0 /\ device[index[r]] < MaxLen}
    /\ at \in Injection(new, Slot \ {index[r] : r \in Running \ (fin \union pre)})
    /\ plan \in Plans((Running \ (fin \union pre)) \union new, new)
    /\ ids \in SortBatchReqIds(plan)
    /\ Execute(fin, pre, new, at, home, plan, ids)
  BY Zenon DEF Call, Stay
<1> DEFINE stay == Running \ (fin \union pre)
           idx  == AddRequests(FinishRequests(fin \union pre), at)
           zero == [r \in new |-> 0]
           plen == AddTo(prefill, at, [r \in new |-> sched[r].known])
           dev  == AddTo(device, at, zero)
           h0   == AddTo(host, at, zero)
           h    == UpdateRequests(h0, idx, DOMAIN plan \ new)
           tab  == AddTo(table, at, home)
<1> HIDE DEF stay, idx, zero, plen, dev, h0, h, tab
<1>t. ViewTypes
  BY DEF ViewInv
<1>1. index' = idx /\ prefill' = plen /\ device' = dev /\ host' = h /\ table' = tab
  BY DEF Execute, idx, plen, dev, h, h0, zero, tab
<1>2. pending' = [i \in DOMAIN ids |->
                    LET r == ids[i]
                        s == idx[r]
                    IN  Row(r, plan[r], s, dev[s], h[s], plen[s], tab[s])]
  BY DEF Execute, idx, plen, dev, h, h0, zero, tab
<1>3. sched' = [r \in Req |->
             IF r \in fin THEN [sched[r] EXCEPT !.st = "done"]
             ELSE IF r \in pre
             THEN [st |-> "waiting", seen |-> 0, late |-> 0, preempted |-> sched[r].preempted + 1,
                   known |-> IF device[index[r]] < sched[r].known THEN sched[r].known
                             ELSE device[index[r]] + 1]
             ELSE IF r \in DOMAIN plan
             THEN [sched[r] EXCEPT !.st = "running", !.seen = @ + plan[r].n]
             ELSE sched[r]]
  BY DEF Execute
\* The sets involved.
<1>4. /\ fin \subseteq Running /\ pre \subseteq Running \ fin /\ stay \subseteq Running
      /\ new \subseteq Waiting /\ Running \subseteq Req /\ Waiting \subseteq Req
      /\ Running \intersect Waiting = {}
  BY DEF Running, Waiting, stay
<1>5. /\ DOMAIN plan \subseteq stay \union new /\ new \subseteq DOMAIN plan
      /\ \A r \in DOMAIN plan : plan[r] \in Scheduled(sched[r].known, sched[r].seen)
  BY PlanFact DEF stay
<1>6. at \in [new -> Slot \ {index[r] : r \in stay}] /\ \A r, q \in new : at[r] = at[q] => r = q
  BY AtFact DEF stay
<1>6a. at \in [new -> Slot] /\ \A r \in new, q \in stay : at[r] # index[q]
  BY <1>6
<1>7. \A r \in DOMAIN plan : /\ plan[r].n \in Nat /\ plan[r].drafts \in 0..plan[r].n
                             /\ plan[r].right \in 0..plan[r].drafts
                             /\ plan[r].drafts > 0 => sched[r].seen >= sched[r].known
  <2>1. SUFFICES ASSUME NEW r \in DOMAIN plan
                 PROVE  /\ plan[r].n \in Nat /\ plan[r].drafts \in 0..plan[r].n
                        /\ plan[r].right \in 0..plan[r].drafts
                        /\ plan[r].drafts > 0 => sched[r].seen >= sched[r].known
    OBVIOUS
  <2>2. sched[r].known \in Int /\ sched[r].seen \in Int
    BY <1>t, <1>4, <1>5 DEF ViewTypes, Entry
  <2> QED
    BY <1>5, <2>2, StepFact
\* Where everything is afterwards.
<1>8. /\ \A r \in new : idx[r] = at[r]
      /\ \A r \in stay : idx[r] = index[r]
      /\ idx \in [Req -> Slot \union {None}]
  BY <1>t, <1>4, <1>6a DEF idx, AddRequests, FinishRequests, ViewTypes, stay
<1>9. /\ \A r \in stay : index[r] \in Slot
      /\ \A r, q \in stay : index[r] = index[q] => r = q
  BY <1>4 DEF ViewInv, CountInv
<1>10. /\ \A r \in stay \union new : idx[r] \in Slot
       /\ \A r, q \in stay \union new : idx[r] = idx[q] => r = q
  BY <1>6, <1>6a, <1>8, <1>9
<1>11. /\ \A r \in new : plen[idx[r]] = sched[r].known /\ dev[idx[r]] = 0 /\ h0[idx[r]] = 0
       /\ \A r \in stay : plen[idx[r]] = prefill[index[r]] /\ dev[idx[r]] = device[index[r]]
       /\ \A r \in new : tab[idx[r]] = home[r]
       /\ \A r \in stay : tab[idx[r]] = table[index[r]]
  <2>1. /\ \A r \in new : plen[at[r]] = [q \in new |-> sched[q].known][r]
        /\ \A s \in Slot : (\A r \in new : at[r] # s) => plen[s] = prefill[s]
    BY <1>6, <1>6a, AddToFact DEF plen
  <2>2. /\ \A r \in new : dev[at[r]] = zero[r]
        /\ \A s \in Slot : (\A r \in new : at[r] # s) => dev[s] = device[s]
    BY <1>6, <1>6a, AddToFact DEF dev
  <2>3. /\ \A r \in new : h0[at[r]] = zero[r]
        /\ \A s \in Slot : (\A r \in new : at[r] # s) => h0[s] = host[s]
    BY <1>6, <1>6a, AddToFact DEF h0
  <2>4. \A r \in new : zero[r] = 0
    BY DEF zero
  <2>5. /\ \A r \in new : tab[at[r]] = home[r]
        /\ \A s \in Slot : (\A r \in new : at[r] # s) => tab[s] = table[s]
    BY <1>6, <1>6a, AddToFact DEF tab
  <2> QED
    BY <2>4, <1>6a, <1>8, <1>9, <2>1, <2>2, <2>3, <2>5
<1>12. plen \in [Slot -> Int] /\ dev \in [Slot -> Int] /\ h0 \in [Slot -> Int]
  <2>0. \A r \in new : zero[r] \in Int
    BY DEF zero
  <2>1. \A r \in new : sched[r].known \in Int
    BY <1>t, <1>4 DEF ViewTypes, Entry
  <2>2. plen \in [Slot -> Int]
    BY <1>t, <1>6, <1>6a, <2>1, AddToType DEF plen, ViewTypes
  <2>3. dev \in [Slot -> Int]
    BY <1>t, <1>6, <1>6a, <2>0, AddToType DEF dev, ViewTypes
  <2>4. h0 \in [Slot -> Int]
    BY <1>t, <1>6, <1>6a, <2>0, AddToType DEF h0, ViewTypes
  <2> QED
    BY <2>2, <2>3, <2>4
<1>13. /\ h \in [Slot -> Int]
       /\ \A r \in DOMAIN plan : h[idx[r]] = IF r \in new THEN 0 ELSE sched[r].seen
  <2>1. \A r \in DOMAIN plan \ new :
           (CHOOSE q \in DOMAIN plan \ new : idx[q] = idx[r]) = r
    BY <1>5, <1>10
  <2>2. \A r \in new : ~\E q \in DOMAIN plan \ new : idx[q] = idx[r]
    BY <1>5, <1>10
  <2>3. \A r \in Req : sched[r].seen \in Int
    BY <1>t DEF ViewTypes, Entry
  <2>4. h \in [Slot -> Int]
    BY <1>4, <1>5, <1>12, <2>3 DEF h, UpdateRequests
  <2>5. \A r \in DOMAIN plan \ new : h[idx[r]] = sched[r].seen
    BY <1>5, <1>10, <2>1 DEF h, UpdateRequests
  <2>6. \A r \in new : h[idx[r]] = 0
    BY <1>10, <1>11, <2>2 DEF h, UpdateRequests
  <2> QED
    BY <2>4, <2>5, <2>6
\* The requests afterwards.
<1>14. \A r \in Req : sched[r] \in Entry
  BY <1>t DEF ViewTypes
<1>15a. \A r \in fin : sched'[r] \in Entry /\ sched'[r].st = "done"
  <2> SUFFICES ASSUME NEW r \in fin PROVE sched'[r] \in Entry /\ sched'[r].st = "done"
    OBVIOUS
  <2>1. sched'[r] = [sched[r] EXCEPT !.st = "done"]
    BY <1>3, <1>4, Zenon
  <2>2. sched[r] \in Entry
    BY <1>4, <1>14
  <2> HIDE <1>3
  <2> QED
    BY <2>1, <2>2, EntryDone
<1>15b. \A r \in pre : /\ sched'[r] \in Entry /\ sched'[r].st = "waiting"
                      /\ sched'[r].seen = 0 /\ sched'[r].late = 0
  <2> SUFFICES ASSUME NEW r \in pre
               PROVE  /\ sched'[r] \in Entry /\ sched'[r].st = "waiting"
                      /\ sched'[r].seen = 0 /\ sched'[r].late = 0
    OBVIOUS
  <2>1. r \in Req /\ r \in Running /\ r \notin fin
    BY <1>4
  <2>2. sched'[r] = [st |-> "waiting", seen |-> 0, late |-> 0, preempted |-> sched[r].preempted + 1,
                     known |-> IF device[index[r]] < sched[r].known THEN sched[r].known
                               ELSE device[index[r]] + 1]
    BY <1>3, <2>1, Zenon
  <2>3. index[r] \in Slot /\ device[index[r]] \in Int
    BY <1>t, <2>1 DEF ViewInv, CountInv, ViewTypes
  <2>4. sched[r].known \in Int /\ sched[r].preempted \in Int
    BY <1>14, <2>1 DEF Entry
  <2> QED
    BY <2>2, <2>3, <2>4 DEF Entry
<1>15c. \A r \in DOMAIN plan : /\ sched'[r] \in Entry /\ sched'[r].st = "running"
                              /\ sched'[r].seen = sched[r].seen + plan[r].n
                              /\ sched'[r].late = sched[r].late /\ sched'[r].known = sched[r].known
  <2> SUFFICES ASSUME NEW r \in DOMAIN plan
               PROVE  /\ sched'[r] \in Entry /\ sched'[r].st = "running"
                      /\ sched'[r].seen = sched[r].seen + plan[r].n
                      /\ sched'[r].late = sched[r].late /\ sched'[r].known = sched[r].known
    OBVIOUS
  <2>1. r \in Req /\ r \notin fin /\ r \notin pre
    BY <1>4, <1>5 DEF stay
  <2>2. sched'[r] = Planned(sched[r], plan[r].n)
    BY <1>3, <2>1, Zenon DEF Planned
  <2>3. sched[r] \in Entry /\ plan[r].n \in Nat
    BY <1>7, <1>14, <2>1
  <2> QED
    BY <2>2, <2>3, EntryPlanned
<1>15d. \A r \in Req \ (fin \union pre \union DOMAIN plan) : sched'[r] = sched[r]
  BY <1>3, Zenon
<1>15. \A r \in stay \union new :
          IF r \in DOMAIN plan
          THEN /\ sched'[r].st = "running" /\ sched'[r].known = sched[r].known
               /\ sched'[r].late = sched[r].late /\ sched'[r].seen = sched[r].seen + plan[r].n
          ELSE sched'[r] = sched[r]
  <2>1. \A r \in stay \union new : r \in Req /\ r \notin fin /\ r \notin pre
    BY <1>4 DEF stay
  <2> QED
    BY <1>15c, <1>15d, <2>1
<1>16. Running' = stay \union new
  <2>1. \A r \in stay \union new : sched'[r].st = "running"
    BY <1>4, <1>5, <1>15 DEF stay, Running
  <2>2. \A r \in fin \union pre : sched'[r].st # "running"
    BY <1>15a, <1>15b
  <2>3. \A r \in Req \ (Running \union new) : sched'[r] = sched[r]
    BY <1>4, <1>5, <1>15d
  <2> QED
    BY <1>4, <2>1, <2>2, <2>3 DEF Running, stay
<1>18. sched' \in [Req -> Entry]
  <2>1. DOMAIN sched' = Req /\ sched' = [r \in Req |-> sched'[r]]
    BY <1>3
  <2>2. \A r \in Req : sched'[r] \in Entry
    BY <1>14, <1>15a, <1>15b, <1>15c, <1>15d
  <2> QED
    BY <2>1, <2>2
\* The batch.
<1>20. DOMAIN pending' = DOMAIN ids /\ \A i \in DOMAIN ids :
         /\ ids[i] \in DOMAIN plan
         /\ pending'[i] = Row(ids[i], plan[ids[i]], idx[ids[i]], dev[idx[ids[i]]], h[idx[ids[i]]],
                              plen[idx[ids[i]]], tab[idx[ids[i]]])
  BY <1>2, OrderFact
<1>21. \A r \in stay : Kept(r)
  BY <1>1, <1>8, <1>9, <1>11 DEF Kept
<1>22. \A r \in new : Added(r, at, home)
  BY <1>1, <1>6a, <1>8, <1>11 DEF Added
<1>23. \A r, q \in Running' : index'[r] = index'[q] => r = q
  BY <1>1, <1>10, <1>16
<1>24. \A i \in DOMAIN ids :
         LET r == ids[i]
             s == index'[r]
         IN  r \in DOMAIN plan /\ pending'[i] = Row(r, plan[r], s, device'[s], host'[s], prefill'[s], table'[s])
  BY <1>1, <1>20
<1>25. \A r \in DOMAIN plan : host'[index'[r]] = IF r \in new THEN 0 ELSE sched[r].seen
  BY <1>1, <1>13
<1> QED
  BY <1>1, <1>5, <1>8, <1>12, <1>13, <1>15a, <1>15b, <1>15c, <1>15d, <1>16, <1>18, <1>20,
     <1>21, <1>22, <1>23, <1>24, <1>25 DEF stay, Stay, Called

LEMMA ExecuteStep ==
  ASSUME ViewInv, pending = << >>, NEW fin, NEW new, NEW pre, NEW at, NEW home, NEW plan, NEW ids,
         Call(fin, new, pre, at, home, plan, ids)
  PROVE  ViewInv'
<1>0. Called(fin, new, pre, at, home, plan, ids)
  BY ExecuteFacts
<1> DEFINE stay == Stay(fin, pre)
           idx  == index'
           plen == prefill'
           dev  == device'
           h    == host'
<1>t. ViewTypes
  BY DEF ViewInv
<1>1. index' = idx /\ prefill' = plen /\ device' = dev /\ host' = h
  OBVIOUS
<1>2. /\ Running' = stay \union new
      /\ DOMAIN plan \subseteq stay \union new /\ new \subseteq DOMAIN plan
      /\ \A r \in DOMAIN plan : plan[r] \in Scheduled(sched[r].known, sched[r].seen)
      /\ \A r \in stay : Kept(r)
      /\ \A r \in new : Added(r, at, home)
      /\ \A r, q \in Running' : idx[r] = idx[q] => r = q
  BY <1>0 DEF Called
<1>3. /\ plen \in [Slot -> Int] /\ h \in [Slot -> Int] /\ dev \in [Slot -> Int]
      /\ idx \in [Req -> Slot \union {None}] /\ sched' \in [Req -> Entry]
  BY <1>0 DEF Called
<1>3a. \A r \in DOMAIN plan : h[idx[r]] = IF r \in new THEN 0 ELSE sched[r].seen
  BY <1>0 DEF Called
<1>15. /\ \A r \in fin : sched'[r].st = "done"
       /\ \A r \in pre : sched'[r].st = "waiting" /\ sched'[r].seen = 0 /\ sched'[r].late = 0
       /\ \A r \in DOMAIN plan : /\ sched'[r].st = "running" /\ sched'[r].known = sched[r].known
                                /\ sched'[r].late = sched[r].late
                                /\ sched'[r].seen = sched[r].seen + plan[r].n
       /\ \A r \in Req \ (fin \union pre \union DOMAIN plan) : sched'[r] = sched[r]
  BY <1>0 DEF Called
<1>20. /\ DOMAIN pending' = DOMAIN ids
       /\ \A i \in DOMAIN ids :
            /\ ids[i] \in DOMAIN plan
            /\ pending'[i] = Row(ids[i], plan[ids[i]], idx[ids[i]], dev[idx[ids[i]]],
                                 h[idx[ids[i]]], plen[idx[ids[i]]], table'[idx[ids[i]]])
  BY <1>0 DEF Called
<1> HIDE DEF idx, plen, dev, h
<1>4. /\ fin \subseteq Running /\ pre \subseteq Running \ fin /\ stay \subseteq Running
      /\ new \subseteq Waiting /\ Running \subseteq Req /\ Waiting \subseteq Req
      /\ Running \intersect Waiting = {}
  BY DEF Running, Waiting, Stay, Call
<1>4b. ids \in SortBatchReqIds(plan)
  BY Zenon DEF Call
<1>4a. \A r \in stay \union new : r \in Req \ (fin \union pre)
  BY <1>4 DEF Stay
<1> HIDE DEF stay
<1>7. \A r \in DOMAIN plan : /\ plan[r].n \in Nat /\ plan[r].drafts \in 0..plan[r].n
                             /\ plan[r].right \in 0..plan[r].drafts
                             /\ plan[r].drafts > 0 => sched[r].seen >= sched[r].known
  <2>1. SUFFICES ASSUME NEW r \in DOMAIN plan
                 PROVE  /\ plan[r].n \in Nat /\ plan[r].drafts \in 0..plan[r].n
                        /\ plan[r].right \in 0..plan[r].drafts
                        /\ plan[r].drafts > 0 => sched[r].seen >= sched[r].known
    OBVIOUS
  <2>2. sched[r].known \in Int /\ sched[r].seen \in Int
    BY <1>t, <1>2, <1>4 DEF ViewTypes, Entry
  <2> QED
    BY <1>2, <2>2, StepFact
<1>10. /\ \A r \in stay \union new : idx[r] \in Slot
       /\ \A r, q \in stay \union new : idx[r] = idx[q] => r = q
  BY <1>1, <1>2 DEF Kept, Added
<1>11. /\ \A r \in new : plen[idx[r]] = sched[r].known /\ dev[idx[r]] = 0
       /\ \A r \in stay : plen[idx[r]] = prefill[index[r]] /\ dev[idx[r]] = device[index[r]]
  BY <1>1, <1>2 DEF Kept, Added
<1>17. \A r \in Waiting' : sched'[r].seen = 0 /\ sched'[r].late = 0
  <2>1. SUFFICES ASSUME NEW r \in Req, sched'[r].st = "waiting"
                 PROVE  sched'[r].seen = 0 /\ sched'[r].late = 0
    BY DEF Waiting
  <2>2. r \notin fin /\ r \notin DOMAIN plan
    BY <1>15, <2>1
  <2>3. r \notin pre => sched'[r] = sched[r]
    BY <1>15, <2>1, <2>2
  <2> QED
    BY <1>15, <2>1, <2>3 DEF ViewInv, Waiting
<1>19. ViewTypes'
  BY <1>1, <1>3 DEF ViewTypes
<1>21. \A r \in stay \union new :
         /\ sched[r].seen - sched[r].late = dev[idx[r]] /\ sched[r].late \in Nat
         /\ sched[r].late > 0 => dev[idx[r]] >= plen[idx[r]]
         /\ plen[idx[r]] = sched[r].known
  <2>1. CASE TRUE
    <3>1. \A r \in stay : /\ sched[r].seen - sched[r].late = device[index[r]]
                          /\ sched[r].late > 0 => device[index[r]] >= prefill[index[r]]
                          /\ prefill[index[r]] = sched[r].known
      BY <1>4 DEF ViewInv, CountInv
    <3>2. \A r \in new : sched[r].seen = 0 /\ sched[r].late = 0
      BY <1>4 DEF ViewInv
    <3>3. \A r \in stay \union new : sched[r].late \in Nat
      BY <1>t, <1>4 DEF ViewTypes, Entry
    <3> QED
      BY <1>11, <3>1, <3>2, <3>3
  <2> QED
    BY <2>1
<1>22. \A r \in DOMAIN plan :
         /\ dev[idx[r]] \in Int /\ plen[idx[r]] \in Int /\ h[idx[r]] \in Int
         /\ h[idx[r]] = sched[r].seen /\ dev[idx[r]] <= h[idx[r]]
         /\ h[idx[r]] < plen[idx[r]] <=> dev[idx[r]] < plen[idx[r]]
         /\ plan[r].drafts > 0 => dev[idx[r]] >= plen[idx[r]]
  <2>1. SUFFICES ASSUME NEW r \in DOMAIN plan
                 PROVE  /\ dev[idx[r]] \in Int /\ plen[idx[r]] \in Int /\ h[idx[r]] \in Int
                        /\ h[idx[r]] = sched[r].seen /\ dev[idx[r]] <= h[idx[r]]
                        /\ h[idx[r]] < plen[idx[r]] <=> dev[idx[r]] < plen[idx[r]]
                        /\ plan[r].drafts > 0 => dev[idx[r]] >= plen[idx[r]]
    OBVIOUS
  <2>2. r \in stay \union new /\ idx[r] \in Slot
    BY <1>2, <1>10
  <2>3. dev[idx[r]] \in Int /\ plen[idx[r]] \in Int /\ h[idx[r]] \in Int
    BY <1>3, <2>2
  <2>4. h[idx[r]] = sched[r].seen
    BY <1>3a, <1>4, <2>2 DEF ViewInv
  <2>5. plan[r].drafts > 0 => sched[r].seen >= sched[r].known
    BY <1>7
  <2> QED
    BY <1>21, <2>2, <2>3, <2>4, <2>5
<1>23. \A i \in DOMAIN pending' : RowInv(pending[i])'
  <2>1. SUFFICES ASSUME NEW i \in DOMAIN ids PROVE RowInv(pending[i])'
    BY <1>20
  <2> DEFINE r == ids[i]
  <2>2. r \in DOMAIN plan /\ r \in stay \union new
    BY <1>2, <1>20
  <2>3. /\ pending'[i].req = r /\ pending'[i].slot = idx[r] /\ pending'[i].start = dev[idx[r]]
        /\ pending'[i].n = plan[r].n /\ pending'[i].drafts = plan[r].drafts
        /\ pending'[i].right = plan[r].right /\ pending'[i].upper = h[idx[r]] + plan[r].n
    BY <1>20 DEF Row
  <2>4. pending'[i].prefilling <=> h[idx[r]] < plen[idx[r]]
    <3> DEFINE least == IF h[idx[r]] < plen[idx[r]] THEN h[idx[r]] ELSE plen[idx[r]]
    <3>1. pending'[i].prefilling = (least < plen[idx[r]])
      BY <1>20 DEF Row
    <3>2. least < plen[idx[r]] <=> h[idx[r]] < plen[idx[r]]
      BY <1>22, <2>2
    <3> HIDE DEF least
    <3> QED
      BY <3>1, <3>2, Zenon
  <2>5. plan[r].n \in Nat /\ plan[r].drafts \in 0..plan[r].n /\ plan[r].right \in 0..plan[r].drafts
    BY <1>7, <2>2
  <2> HIDE DEF r
  <2>6. dev[idx[r]] + plan[r].n <= h[idx[r]] + plan[r].n
    BY <1>22, <2>2, <2>5
  <2>7. r \in Running'
    BY <1>2, <2>2
  <2> QED
    BY <1>1, <1>22, <2>2, <2>3, <2>4, <2>5, <2>6, <2>7 DEF RowInv
<1>24. \A i, k \in DOMAIN pending' : pending'[i].req = pending'[k].req => i = k
  <2>1. \A i \in DOMAIN ids : pending'[i].req = ids[i]
    BY <1>20 DEF Row
  <2> QED
    BY <1>20, <2>1, <1>4b, OrderFact
<1>25. \A r \in Running' : CountInv(r)'
  <2>1. SUFFICES ASSUME NEW r \in stay \union new PROVE CountInv(r)'
    BY <1>2
  <2>2. idx[r] \in Slot /\ dev[idx[r]] \in Int
    BY <1>3, <1>10
  <2>3. sched[r].seen \in Int /\ sched[r].late \in Nat
    BY <1>t, <1>4, <2>1 DEF ViewTypes, Entry
  <2>4. \A i \in DOMAIN ids : pending'[i].req = ids[i] /\ pending'[i].n = plan[ids[i]].n
    BY <1>20 DEF Row
  <2>5. CASE r \in DOMAIN plan
    <3>1. ~\A i \in DOMAIN pending' : pending'[i].req # r
      BY <1>20, <2>4, <2>5, <1>4b, OrderFact
    <3>2. plan[r].n \in Nat
      BY <1>7, <2>5
    <3>3. sched'[r].seen - sched'[r].late = dev[idx[r]] + plan[r].n
      BY <1>15, <1>21, <2>2, <2>3, <2>5, <3>2
    <3>4. \A i \in DOMAIN pending' : pending'[i].req = r =>
             sched'[r].seen - sched'[r].late = dev[idx[r]] + pending'[i].n
      BY <1>20, <2>4, <3>3
    <3> QED
      BY <1>1, <1>15, <1>21, <2>2, <2>5, <3>1, <3>4 DEF CountInv
  <2>6. CASE r \notin DOMAIN plan
    <3>1. \A i \in DOMAIN pending' : pending'[i].req # r
      BY <1>20, <2>4, <2>6
    <3> QED
      BY <1>1, <1>4a, <1>15, <1>21, <2>2, <2>6, <3>1 DEF CountInv
  <2> QED
    BY <2>5, <2>6
<1>26. \A r, q \in Running' : index'[r] = index'[q] => r = q
  BY <1>1, <1>2
<1> QED
  BY <1>17, <1>19, <1>23, <1>24, <1>25, <1>26 DEF ViewInv

LEMMA Delivered ==
  ASSUME NEW e \in Entry, NEW d \in Nat, NEW f, f = Seen(e, d)
  PROVE  /\ f \in Entry /\ f.st = e.st /\ f.known = e.known
         /\ f.seen = e.seen - e.late /\ f.late = d
<1>1. PICK g : g = [e EXCEPT !.seen = e.seen - e.late]
  OBVIOUS
<1>2. /\ g \in Entry /\ g.st = e.st /\ g.known = e.known
      /\ g.seen = e.seen - e.late /\ g.late = e.late
  BY <1>1 DEF Entry
<1>3. f = [g EXCEPT !.late = d]
  BY <1>1, Zenon DEF Seen
<1> QED
  BY <1>2, <1>3 DEF Entry

(* What sample_tokens does to the requests, row by row.                    *)
Sampled(row) ==
    LET r == row.req
        s == index[r]
    IN  /\ r \in Running /\ s \in Slot /\ row.slot = s
        /\ device'[s] = device[s] + Advance(row)
        /\ sched'[r] = Seen(sched[r], Rejected(row))

LEMMA SampleFacts ==
  ASSUME ViewInv, SampleTokens
  PROVE  /\ DOMAIN pending' = {} /\ UNCHANGED <<index, prefill, host, table>>
         /\ \A i \in DOMAIN pending :
               /\ Sampled(pending[i])
               /\ Advance(pending[i]) \in Nat /\ Rejected(pending[i]) \in Nat
               /\ Advance(pending[i]) = pending[i].n - Rejected(pending[i])
               /\ Rejected(pending[i]) <= pending[i].drafts
         /\ \A r \in Req : (\A i \in DOMAIN pending : pending[i].req # r) => sched'[r] = sched[r]
         /\ \A r \in Running : (\A i \in DOMAIN pending : pending[i].req # r) =>
               device'[index[r]] = device[index[r]]
         /\ \A s \in Slot : (\A i \in DOMAIN pending : pending[i].slot # s) => device'[s] = device[s]
         /\ sched' = [r \in Req |-> sched'[r]] /\ device' \in [Slot -> Int]
<1> DEFINE rows    == ToSet(pending)
           slots   == {row.slot : row \in rows}
           RowAt(s) == CHOOSE row \in rows : row.slot = s
<1>t. ViewTypes /\ \A r \in Req : sched[r] \in Entry
  BY DEF ViewInv, ViewTypes
<1>0. rows = {pending[i] : i \in DOMAIN pending}
  BY DEF ToSet
<1>1. device' = [s \in Slot |-> IF s \in slots THEN device[s] + Advance(RowAt(s)) ELSE device[s]]
  BY DEF SampleTokens
<1>1a. sched' = [r \in Req |-> IF \E s \in slots : RowAt(s).req = r
                            THEN Seen(sched[r], Rejected(RowAt(index[r]))) ELSE sched[r]]
  BY DEF SampleTokens
<1>1b. DOMAIN pending' = {} /\ UNCHANGED <<index, prefill, host, table>>
  <2>1. pending' = << >>
    BY Zenon DEF SampleTokens
  <2>2. UNCHANGED <<index, prefill, host, table>>
    BY Zenon DEF SampleTokens
  <2> QED
    BY <2>1, <2>2
<1>2. \A i \in DOMAIN pending : RowInv(pending[i])
  BY DEF ViewInv
<1>3. \A i \in DOMAIN pending : pending[i].slot \in slots /\ RowAt(pending[i].slot) = pending[i]
  <2> SUFFICES ASSUME NEW i \in DOMAIN pending
               PROVE  pending[i].slot \in slots /\ RowAt(pending[i].slot) = pending[i]
    OBVIOUS
  <2>1. ASSUME NEW k \in DOMAIN pending, pending[k].slot = pending[i].slot PROVE k = i
    <3>1. /\ pending[i].req \in Running /\ pending[i].slot = index[pending[i].req]
          /\ pending[k].req \in Running /\ pending[k].slot = index[pending[k].req]
      BY <1>2 DEF RowInv
    <3>2. pending[i].req = pending[k].req
      BY <2>1, <3>1 DEF ViewInv
    <3> QED
      BY <3>2 DEF ViewInv
  <2>2. \A row \in rows : row.slot = pending[i].slot => row = pending[i]
    BY <1>0, <2>1
  <2>3. pending[i] \in rows
    BY <1>0
  <2> QED
    BY <2>2, <2>3
<1> HIDE DEF RowAt
<1>4. \A s \in slots : \E i \in DOMAIN pending : s = pending[i].slot /\ RowAt(s) = pending[i]
  BY <1>0, <1>3
<1> HIDE DEF slots, rows
<1>5. \A i \in DOMAIN pending : /\ Advance(pending[i]) \in Nat /\ Rejected(pending[i]) \in Nat
                                /\ Advance(pending[i]) = pending[i].n - Rejected(pending[i])
                                /\ Rejected(pending[i]) <= pending[i].drafts
  BY <1>2 DEF RowInv, Advance, Rejected
<1>6. device' \in [Slot -> Int]
  <2>1. \A s \in slots : Advance(RowAt(s)) \in Int
    BY <1>4, <1>5
  <2>2. \A s \in Slot : device'[s] \in Int
    BY <1>t, <1>1, <2>1 DEF ViewTypes
  <2> QED
    BY <1>1, <2>2
\* A request with a row, and one without.
<1>7. ASSUME NEW i \in DOMAIN pending
      PROVE  Sampled(pending[i])
  <2> DEFINE r == pending[i].req
             s == index[r]
  <2>1. r \in Running /\ r \in Req /\ sched[r].st = "running" /\ pending[i].slot = s
    BY <1>2 DEF RowInv, Running
  <2>2. s \in Slot
    BY <2>1 DEF ViewInv, CountInv
  <2>3. s \in slots /\ RowAt(s) = pending[i]
    BY <1>3, <2>1
  <2>4. device'[s] = device[s] + Advance(pending[i])
    BY <1>1, <2>2, <2>3
  <2>5. sched'[r] = Seen(sched[r], Rejected(pending[i]))
    BY <1>1a, <2>1, <2>3
  <2> QED
    BY <2>1, <2>2, <2>4, <2>5 DEF Sampled
<1>8. ASSUME NEW r \in Req, \A i \in DOMAIN pending : pending[i].req # r
      PROVE  sched'[r] = sched[r]
  <2>1. ~\E s \in slots : RowAt(s).req = r
    BY <1>4, <1>8
  <2> QED
    BY <1>1a, <2>1
<1>9. ASSUME NEW r \in Running, \A i \in DOMAIN pending : pending[i].req # r
      PROVE  device'[index[r]] = device[index[r]]
  <2>1. index[r] \in Slot
    BY DEF ViewInv, CountInv
  <2>2. index[r] \notin slots
    <3>1. ASSUME NEW i \in DOMAIN pending, pending[i].slot = index[r] PROVE FALSE
      BY <1>2, <1>9, <3>1 DEF RowInv, ViewInv
    <3> QED
      BY <1>4, <3>1
  <2> QED
    BY <1>1, <2>1, <2>2
<1>10. \A s \in Slot : (\A i \in DOMAIN pending : pending[i].slot # s) => device'[s] = device[s]
  BY <1>1, <1>4
<1>11. sched' = [r \in Req |-> sched'[r]]
  BY <1>1a
<1> QED
  BY <1>1b, <1>5, <1>6, <1>7, <1>8, <1>9, <1>10, <1>11

LEMMA SampleStep == ASSUME ViewInv, SampleTokens PROVE ViewInv'
<1>t. ViewTypes /\ \A r \in Req : sched[r] \in Entry
  BY DEF ViewInv, ViewTypes
<1>1b. DOMAIN pending' = {} /\ UNCHANGED <<index, prefill, host>>
  BY SampleFacts
<1>2. \A i \in DOMAIN pending : RowInv(pending[i])
  BY DEF ViewInv
<1>5. \A i \in DOMAIN pending : /\ Advance(pending[i]) \in Nat /\ Rejected(pending[i]) \in Nat
                                /\ Advance(pending[i]) = pending[i].n - Rejected(pending[i])
                                /\ Rejected(pending[i]) > 0 => pending[i].drafts > 0
  <2>1. \A i \in DOMAIN pending : pending[i].drafts \in Nat
    BY <1>2 DEF RowInv
  <2> QED
    BY <2>1, SampleFacts
<1>6. device' \in [Slot -> Int]
  BY SampleFacts
<1>7. ASSUME NEW i \in DOMAIN pending
      PROVE  LET r == pending[i].req
                 s == index[r]
             IN  /\ r \in Running /\ s \in Slot /\ pending[i].slot = s
                 /\ device'[s] = device[s] + Advance(pending[i])
                 /\ sched'[r] \in Entry /\ sched'[r].st = "running" /\ sched'[r].known = sched[r].known
                 /\ sched'[r].seen = sched[r].seen - sched[r].late
                 /\ sched'[r].late = Rejected(pending[i])
  <2> DEFINE r == pending[i].req
             s == index[r]
  <2>1. /\ r \in Running /\ s \in Slot /\ pending[i].slot = s
        /\ device'[s] = device[s] + Advance(pending[i])
        /\ sched'[r] = Seen(sched[r], Rejected(pending[i]))
    BY SampleFacts DEF Sampled
  <2>2. sched[r] \in Entry /\ Rejected(pending[i]) \in Nat /\ sched[r].st = "running"
    BY <1>t, <1>5, <2>1 DEF Running
  <2> HIDE DEF r, s
  <2>3. /\ sched'[r] \in Entry /\ sched'[r].st = sched[r].st /\ sched'[r].known = sched[r].known
        /\ sched'[r].seen = sched[r].seen - sched[r].late
        /\ sched'[r].late = Rejected(pending[i])
    BY <2>1, <2>2, Delivered
  <2> QED
    BY <2>1, <2>2, <2>3 DEF r, s
<1>8. ASSUME NEW r \in Req, \A i \in DOMAIN pending : pending[i].req # r
      PROVE  sched'[r] = sched[r]
  BY <1>8, SampleFacts
<1>9. ASSUME NEW r \in Running, \A i \in DOMAIN pending : pending[i].req # r
      PROVE  device'[index[r]] = device[index[r]]
  BY <1>9, SampleFacts
<1>10. sched' \in [Req -> Entry]
  <2>1. \A r \in Req : sched'[r] \in Entry
    BY <1>t, <1>7, <1>8
  <2>2. sched' = [r \in Req |-> sched'[r]]
    BY SampleFacts
  <2> QED
    BY <2>1, <2>2
<1>11. \A r \in Req : sched'[r].st = sched[r].st
  BY <1>7, <1>8 DEF Running
<1>12. Running' = Running /\ Waiting' = Waiting
  BY <1>11 DEF Running, Waiting
<1>13. ViewTypes'
  BY <1>t, <1>1b, <1>6, <1>10 DEF ViewTypes
<1>14. \A r \in Running : CountInv(r)'
  <2> SUFFICES ASSUME NEW r \in Running PROVE CountInv(r)'
    OBVIOUS
  <2>1. /\ r \in Req /\ index[r] \in Slot /\ CountInv(r)
        /\ device[index[r]] \in Int /\ prefill[index[r]] \in Int
        /\ sched[r].seen \in Int /\ sched[r].late \in Nat
    BY <1>t DEF Running, ViewInv, CountInv, ViewTypes, Entry
  <2>2. DOMAIN pending' = {}
    BY <1>1b
  <2>3. CASE \E i \in DOMAIN pending : pending[i].req = r
    <3>1. PICK i \in DOMAIN pending : pending[i].req = r
      BY <2>3
    <3>2. /\ device'[index[r]] = device[index[r]] + Advance(pending[i])
          /\ sched'[r].known = sched[r].known
          /\ sched'[r].seen = sched[r].seen - sched[r].late
          /\ sched'[r].late = Rejected(pending[i])
      BY <1>7, <3>1
    <3>3. /\ pending[i].start = device[index[r]] /\ pending[i].n \in Nat
          /\ pending[i].drafts > 0 => device[index[r]] >= prefill[index[r]]
      BY <1>2, <3>1 DEF RowInv
    <3>4. sched[r].seen - sched[r].late = device[index[r]] + pending[i].n
      BY <2>1, <3>1 DEF CountInv
    <3>5. sched'[r].seen - sched'[r].late = device'[index[r]]
      BY <1>5, <2>1, <3>2, <3>3, <3>4
    <3>6. sched'[r].late > 0 => device'[index[r]] >= prefill[index[r]]
      BY <1>5, <2>1, <3>2, <3>3
    <3> QED
      BY <1>1b, <2>1, <2>2, <3>2, <3>5, <3>6 DEF CountInv
  <2>4. CASE \A i \in DOMAIN pending : pending[i].req # r
    BY <1>1b, <1>8, <1>9, <2>1, <2>2, <2>4 DEF CountInv
  <2> QED
    BY <2>3, <2>4
<1>15. \A r \in Waiting : sched'[r] = sched[r]
  <2>1. \A r \in Waiting : r \in Req /\ r \notin Running
    BY DEF Waiting, Running
  <2> QED
    BY <1>2, <1>8, <2>1 DEF RowInv
<1> QED
  BY <1>1b, <1>12, <1>13, <1>14, <1>15 DEF ViewInv

LEMMA DeliverStep == ASSUME ViewInv, NEW r \in Req, Deliver(r) PROVE ViewInv'
<1>t. ViewTypes /\ sched[r] \in Entry
  BY DEF ViewInv, ViewTypes
<1>1. sched[r].late > 0 /\ UNCHANGED <<index, prefill, host, device, pending>>
  BY Zenon DEF Deliver
<1>1a. sched' = [sched EXCEPT ![r] = Seen(sched[r], 0)]
  BY DEF Deliver
<1>2. sched'[r] = Seen(sched[r], 0)
  BY <1>t, <1>1a DEF ViewTypes
<1>3. /\ sched'[r] \in Entry /\ sched'[r].st = sched[r].st /\ sched'[r].known = sched[r].known
      /\ sched'[r].seen = sched[r].seen - sched[r].late /\ sched'[r].late = 0
  BY <1>t, <1>2, Delivered
<1>4. \A q \in Req \ {r} : sched'[q] = sched[q]
  BY <1>t, <1>1a DEF ViewTypes
<1>5. sched' \in [Req -> Entry]
  <2>1. DOMAIN sched' = Req /\ sched' = [q \in Req |-> sched'[q]]
    BY <1>t, <1>1a DEF ViewTypes
  <2>2. \A q \in Req : sched'[q] \in Entry
    BY <1>t, <1>3, <1>4 DEF ViewTypes
  <2> QED
    BY <2>1, <2>2
<1>6. Running' = Running /\ Waiting' = Waiting
  BY <1>3, <1>4 DEF Running, Waiting
<1>7. r \notin Waiting
  BY <1>1 DEF ViewInv
<1>8. \A q \in Running : CountInv(q)'
  <2>1. \A q \in Running : q \in Req /\ CountInv(q)
    BY DEF ViewInv, Running
  <2>2. \A q \in Running : /\ sched'[q].known = sched[q].known
                           /\ sched'[q].seen - sched'[q].late = sched[q].seen - sched[q].late
                           /\ sched'[q].late > 0 => sched[q].late > 0
    BY <1>t, <1>3, <1>4, <2>1 DEF Entry
  <2> QED
    BY <1>1, <2>1, <2>2 DEF CountInv
<1>9. \A i \in DOMAIN pending' : RowInv(pending[i])'
  BY <1>1, <1>6 DEF ViewInv, RowInv
<1>10. ViewTypes'
  BY <1>t, <1>1, <1>5 DEF ViewTypes
<1>11. \A q \in Waiting : sched'[q].seen = 0 /\ sched'[q].late = 0
  BY <1>4, <1>7 DEF ViewInv, Waiting
<1>12. \A p, q \in Running : index'[p] = index'[q] => p = q
  BY <1>1 DEF ViewInv
<1> QED
  BY <1>1, <1>6, <1>8, <1>9, <1>10, <1>11, <1>12 DEF ViewInv

LEMMA ExecuteCalls ==
  ASSUME ExecuteModel
  PROVE  \E fin, new, pre, at, home, plan, ids : Call(fin, new, pre, at, home, plan, ids)
<1> SUFFICES ASSUME \A fin, new, pre, at, home, plan, ids : ~Call(fin, new, pre, at, home, plan, ids)
             PROVE  FALSE
    OBVIOUS
<1>1. ASSUME NEW fin \in SUBSET Running, NEW new \in SUBSET Waiting,
             NEW pre \in SUBSET {r \in Running \ fin : sched[r].late = 0 /\ device[index[r]] < MaxLen},
             NEW at \in Injection(new, Slot \ {index[r] : r \in Running \ (fin \union pre)}),
             NEW home \in Injection(new, Block \ {table[index[r]] : r \in Running \ (fin \union pre)}),
             NEW plan \in Plans((Running \ (fin \union pre)) \union new, new),
             NEW ids \in SortBatchReqIds(plan)
      PROVE  ~Execute(fin, pre, new, at, home, plan, ids)
  BY Zenon DEF Call, Stay
<1> QED
  BY <1>1 DEF ExecuteModel

LEMMA ViewNext == ASSUME ViewInv, [Next]_vars PROVE ViewInv'
<1>1. CASE ExecuteModel
  <2>1. PICK fin, new, pre, at, home, plan, ids : Call(fin, new, pre, at, home, plan, ids)
    BY <1>1, ExecuteCalls
  <2> QED
    BY <1>1, <2>1, ExecuteStep DEF ExecuteModel
<1>2. CASE SampleTokens
  BY <1>2, SampleStep
<1>3. ASSUME NEW r \in Req, Deliver(r) PROVE ViewInv'
  BY <1>3, DeliverStep
<1>4. CASE UNCHANGED serveVars
  <2>1. UNCHANGED <<sched, index, prefill, host, device, pending>>
    BY <1>4 DEF serveVars
  <2>2. Running' = Running /\ Waiting' = Waiting
    BY <2>1 DEF Running, Waiting
  <2>3. ViewTypes'
    BY <2>1 DEF ViewInv, ViewTypes
  <2>4. \A r \in Running : CountInv(r)'
    BY <2>1 DEF ViewInv, CountInv
  <2>5. \A i \in DOMAIN pending : RowInv(pending[i])'
    BY <2>1, <2>2 DEF ViewInv, RowInv
  <2> QED
    BY <2>1, <2>2, <2>3, <2>4, <2>5 DEF ViewInv
<1> QED
  BY <1>1, <1>2, <1>3, <1>4 DEF Next, vars

(***************************************************************************)
(* The bound that the host sends with a batch holds although the host runs *)
(* ahead of the device, and the two agree on which rows are in their       *)
(* prompt (update_requests, gather_batch_req_state, post_update).          *)
(***************************************************************************)
THEOREM HostView == Spec => []HostViewIsSafe
<1>1. ViewInv /\ [Next]_vars => ViewInv'
  BY ViewNext
<1>2. ViewInv => HostViewIsSafe
  BY DEF ViewInv, RowInv, HostViewIsSafe, ToSet
<1> QED
  BY ViewInit, <1>1, <1>2, PTL DEF Spec

--------------------------------------------------------------------------------
(* The bounds, the homes of the requests and the batch.                    *)

BoundEntry ==
    {e \in [st : {"waiting", "running", "done"}, known : 0..MaxLen,
            seen : 0..MaxLen, late : 0..Depth, preempted : Nat] : e.late <= e.seen}

BoundTypes ==
    /\ sched \in [Req -> BoundEntry]
    /\ prefill \in [Slot -> 0..MaxLen] /\ host \in [Slot -> 0..MaxLen]
    /\ device \in [Slot -> 0..MaxLen]
    /\ table \in [Slot -> Block \union {None}]
    /\ lost \in [Block -> SUBSET PoolId]

(* Exactly the running requests have a slot, each with a block of its own. *)
HomeInv ==
    /\ \A r \in Req : (r \in Running) <=> (index[r] # None)
    /\ \A r \in Running : table[index[r]] \in Block
    /\ \A r, q \in Running : table[index[r]] = table[index[q]] => r = q

BatchRow(row) ==
    /\ row.block = table[row.slot] /\ row.start + row.n <= MaxLen /\ row.n >= 1
    /\ row.drafts > 0 => row.n = 1 + row.drafts /\ row.drafts <= Depth

(* Decodes with drafts come first.                                         *)
BatchInv ==
    /\ pending \in Seq(ToSet(pending))
    /\ \A i \in DOMAIN pending : BatchRow(pending[i])
    /\ \A i, k \in DOMAIN pending : i < k /\ pending[k].drafts > 0 => pending[i].drafts > 0

BoundInv == BoundTypes /\ HomeInv /\ BatchInv


USE MaxLenAssumption, DepthAssumption, KpoolAssumption

LEMMA BoundInit == Init => BoundInv
<1> SUFFICES ASSUME Init PROVE BoundInv
    OBVIOUS
<1>1. BoundTypes
  <2>1. sched \in [Req -> BoundEntry]
    BY PromptAssumption DEF Init, BoundEntry
  <2> QED
    BY <2>1 DEF Init, BoundTypes
<1>2. Running = {} /\ pending = << >> /\ \A r \in Req : index[r] = None
  BY DEF Init, Running
<1>3. BatchInv
  BY <1>2 DEF BatchInv, ToSet
<1> QED
  BY <1>1, <1>2, <1>3 DEF BoundInv, HomeInv

(* What the scheduler may ask for stays within max_model_len.              *)
LEMMA StepBound ==
  ASSUME NEW known \in Int, known <= MaxLen, NEW seen \in Int, NEW step \in Scheduled(known, seen)
  PROVE  /\ step.n \in Nat /\ step.n >= 1 /\ seen + step.n <= MaxLen
         /\ step.drafts > 0 => step.n = 1 + step.drafts /\ step.drafts <= Depth
         /\ step.drafts \in Nat
<1>1. CASE seen < known
  <2>1. PICK n \in 1..known - seen : step = [n |-> n, drafts |-> 0, right |-> 0]
    BY <1>1 DEF Scheduled, Chunks
  <2> QED
    BY <2>1
<1>2. CASE ~(seen < known)
  <2>1. PICK x \in (0..Depth) \X (0..Depth) :
            seen + 1 + x[1] <= MaxLen /\ step = [n |-> 1 + x[1], drafts |-> x[1], right |-> x[2]]
    BY <1>2 DEF Scheduled, Steps
  <2>2. x[1] \in 0..Depth /\ x[2] \in 0..Depth
    BY <2>1
  <2> QED
    BY <1>2, <2>1, <2>2
<1> QED
  BY <1>1, <1>2

LEMMA SortFact ==
  ASSUME NEW plan, NEW ids \in SortBatchReqIds(plan), IsFiniteSet(DOMAIN plan),
         \A r \in DOMAIN plan : /\ plan[r].n \in Nat /\ plan[r].drafts \in Nat
                                /\ plan[r].drafts > 0 => plan[r].n = 1 + plan[r].drafts
  PROVE  /\ \E n \in Nat : DOMAIN ids = 1..n
         /\ \A i, k \in DOMAIN ids : i < k /\ plan[ids[k]].drafts > 0 => plan[ids[i]].drafts > 0
<1>1. /\ ids \in Bijection(1..Cardinality(DOMAIN plan), DOMAIN plan)
      /\ \A i, k \in DOMAIN ids : i < k =>
            LET a == plan[ids[i]]
                b == plan[ids[k]]
            IN  \/ SortClass(a) < SortClass(b)
                \/ SortClass(a) = SortClass(b) /\ a.n <= b.n
  BY DEF SortBatchReqIds
<1>2. ids \in [1..Cardinality(DOMAIN plan) -> DOMAIN plan]
  BY <1>1 DEF Bijection, Injection
<1>3. Cardinality(DOMAIN plan) \in Nat
  BY FS_CardinalityType
<1>4. ASSUME NEW i \in DOMAIN ids, NEW k \in DOMAIN ids, i < k, plan[ids[k]].drafts > 0,
             ~(plan[ids[i]].drafts > 0)
      PROVE  FALSE
  <2>1. SortClass(plan[ids[k]]) \in {0, 1} /\ SortClass(plan[ids[i]]) \in {2, 3}
    BY <1>4 DEF SortClass
  <2>2. \/ SortClass(plan[ids[i]]) < SortClass(plan[ids[k]])
        \/ SortClass(plan[ids[i]]) = SortClass(plan[ids[k]])
    BY <1>1, <1>4
  <2> QED
    BY <2>1, <2>2
<1> QED
  BY <1>2, <1>3, <1>4

LEMMA BoundDone ==
  ASSUME NEW e \in BoundEntry, NEW f, f = [e EXCEPT !.st = "done"]
  PROVE  f \in BoundEntry
  BY DEF BoundEntry

LEMMA BoundPlanned ==
  ASSUME NEW e \in BoundEntry, NEW n \in Nat, e.seen + n <= MaxLen, NEW f, f = Planned(e, n)
  PROVE  f \in BoundEntry
<1>1. PICK g : g = [e EXCEPT !.st = "running"]
  OBVIOUS
<1>2. g \in BoundEntry /\ g.seen = e.seen
  BY <1>1 DEF BoundEntry
<1>3. f = [g EXCEPT !.seen = @ + n]
  BY <1>1, Zenon DEF Planned
<1>4. f = [g EXCEPT !.seen = e.seen + n]
  BY <1>2, <1>3, Zenon
<1>5. e.seen + n \in 0..MaxLen
  BY DEF BoundEntry
<1> QED
  BY <1>2, <1>4, <1>5 DEF BoundEntry

LEMMA SplitsBound ==
  ASSUME NEW row, row.start \in Nat, row.n \in Nat, row.start + row.n <= MaxLen
  PROVE  Splits(row) \subseteq PoolId
<1> DEFINE j == row.start \div Kpool
<1>1. j \in Nat /\ j <= MaxLen \div Kpool
  <2>1. row.start <= MaxLen /\ Kpool \in Nat \ {0}
    OBVIOUS
  <2>2. row.start \div Kpool <= MaxLen \div Kpool
    BY <2>1, DivGrows
  <2>3. row.start \div Kpool \in Nat /\ MaxLen \div Kpool \in Nat
    BY <2>1
  <2> QED
    BY <2>2, <2>3
<1> HIDE DEF j
<1>2. Splits(row) \subseteq {j}
  BY DEF Splits, j
<1> QED
  BY <1>1, <1>2 DEF PoolId

LEMMA ExecuteBoundTypes ==
  ASSUME ViewInv, BoundInv, pending = << >>, NEW fin, NEW new, NEW pre, NEW at, NEW home, NEW plan, NEW ids,
         Call(fin, new, pre, at, home, plan, ids)
  PROVE  /\ sched' \in [Req -> BoundEntry]
         /\ prefill' \in [Slot -> 0..MaxLen] /\ host' \in [Slot -> 0..MaxLen]
         /\ device' \in [Slot -> 0..MaxLen]
         /\ table' \in [Slot -> Block \union {None}]
<1> DEFINE idx == AddRequests(FinishRequests(fin \union pre), at)
<1>0. Called(fin, new, pre, at, home, plan, ids)
  BY ExecuteFacts
<1>1. /\ fin \subseteq Running /\ pre \subseteq Running \ fin /\ new \subseteq Waiting
      /\ Running \subseteq Req /\ Waiting \subseteq Req /\ Stay(fin, pre) \subseteq Running
      /\ \A r \in pre : device[index[r]] < MaxLen
  BY DEF Call, Running, Waiting, Stay
<1>2. at \in [new -> Slot] /\ home \in [new -> Block]
  <2>1. at \in [new -> Slot \ {index[r] : r \in Stay(fin, pre)}]
    BY AtFact DEF Call
  <2>2. home \in [new -> Block \ {table[index[r]] : r \in Stay(fin, pre)}]
    BY AtFact DEF Call
  <2> QED
    BY <2>1, <2>2
<1>3. \A r \in Req : sched[r] \in BoundEntry
  BY DEF BoundInv, BoundTypes
<1>3a. \A r \in Req : sched[r].known \in 0..MaxLen /\ sched[r].seen \in 0..MaxLen /\ sched[r].preempted \in Nat
  BY <1>3 DEF BoundEntry
<1>4. \A r \in DOMAIN plan : /\ r \in Req /\ plan[r].n \in Nat /\ sched[r].seen + plan[r].n <= MaxLen
  <2> SUFFICES ASSUME NEW r \in DOMAIN plan
               PROVE  r \in Req /\ plan[r].n \in Nat /\ sched[r].seen + plan[r].n <= MaxLen
    OBVIOUS
  <2>1. r \in Req /\ plan[r] \in Scheduled(sched[r].known, sched[r].seen)
    BY <1>0, <1>1 DEF Called
  <2> QED
    BY <1>3a, <2>1, StepBound
<1>5. Execute(fin, pre, new, at, home, plan, ids)
  BY Zenon DEF Call
<1>6. sched' = [r \in Req |->
             IF r \in fin THEN [sched[r] EXCEPT !.st = "done"]
             ELSE IF r \in pre
             THEN [st |-> "waiting", seen |-> 0, late |-> 0, preempted |-> sched[r].preempted + 1,
                   known |-> IF device[index[r]] < sched[r].known THEN sched[r].known
                             ELSE device[index[r]] + 1]
             ELSE IF r \in DOMAIN plan
             THEN [sched[r] EXCEPT !.st = "running", !.seen = @ + plan[r].n]
             ELSE sched[r]]
  BY <1>5 DEF Execute
<1>7. \A r \in Req : sched'[r] \in BoundEntry
  <2> SUFFICES ASSUME NEW r \in Req PROVE sched'[r] \in BoundEntry
    OBVIOUS
  <2>1. CASE r \in fin
    <3>1. sched'[r] = [sched[r] EXCEPT !.st = "done"]
      BY <1>6, <2>1, Zenon
    <3> QED
      BY <1>3, <3>1, BoundDone
  <2>2. CASE r \in pre
    <3>1. sched'[r] = [st |-> "waiting", seen |-> 0, late |-> 0, preempted |-> sched[r].preempted + 1,
                   known |-> IF device[index[r]] < sched[r].known THEN sched[r].known
                             ELSE device[index[r]] + 1]
      BY <1>1, <1>6, <2>2, Zenon
    <3>2. index[r] \in Slot
      BY <1>1, <2>2 DEF ViewInv, CountInv
    <3>3. device[index[r]] \in 0..MaxLen /\ device[index[r]] < MaxLen
      BY <1>1, <2>2, <3>2 DEF BoundInv, BoundTypes
    <3> QED
      BY <1>3a, <3>1, <3>3 DEF BoundEntry
  <2>3. CASE r \in DOMAIN plan /\ r \notin fin /\ r \notin pre
    <3>1. sched'[r] = Planned(sched[r], plan[r].n)
      BY <1>6, <2>3, Zenon DEF Planned
    <3> QED
      BY <1>3, <1>4, <2>3, <3>1, BoundPlanned
  <2>4. CASE r \notin DOMAIN plan /\ r \notin fin /\ r \notin pre
    BY <1>3, <1>6, <2>4, Zenon
  <2> QED
    BY <2>1, <2>2, <2>3, <2>4
<1>8. sched' \in [Req -> BoundEntry]
  <2>1. sched' = [r \in Req |-> sched'[r]]
    BY <1>6
  <2> QED
    BY <1>7, <2>1
<1>9. /\ prefill' = AddTo(prefill, at, [r \in new |-> sched[r].known])
      /\ device' = AddTo(device, at, [r \in new |-> 0])
      /\ table' = AddTo(table, at, home)
      /\ host' = UpdateRequests(AddTo(host, at, [r \in new |-> 0]), idx, DOMAIN plan \ new)
  BY <1>5 DEF Execute
<1>10. prefill' \in [Slot -> 0..MaxLen]
  <2>1. \A r \in new : [q \in new |-> sched[q].known][r] \in 0..MaxLen
    BY <1>1, <1>3a
  <2> QED
    BY <1>2, <1>9, <2>1, AddToType DEF BoundInv, BoundTypes
<1>z. \A r \in new : [q \in new |-> 0][r] \in 0..MaxLen
  OBVIOUS
<1>11. device' \in [Slot -> 0..MaxLen]
  BY <1>2, <1>9, <1>z, AddToType DEF BoundInv, BoundTypes
<1>12. host' \in [Slot -> 0..MaxLen]
  <2> DEFINE h0 == AddTo(host, at, [r \in new |-> 0])
  <2>1. h0 \in [Slot -> 0..MaxLen]
    BY <1>2, <1>z, AddToType DEF BoundInv, BoundTypes
  <2> HIDE DEF h0, idx
  <2>2. \A r \in DOMAIN plan : sched[r].seen \in 0..MaxLen
    BY <1>3a, <1>4
  <2>3. UpdateRequests(h0, idx, DOMAIN plan \ new) \in [Slot -> 0..MaxLen]
    BY <2>1, <2>2 DEF UpdateRequests
  <2> QED
    BY <1>9, <2>3 DEF h0
<1>13. table' \in [Slot -> Block \union {None}]
  <2>1. \A r \in new : home[r] \in Block \union {None}
    BY <1>2
  <2> QED
    BY <1>2, <1>9, <2>1, AddToType DEF BoundInv, BoundTypes
<1> QED
  BY <1>8, <1>10, <1>11, <1>12, <1>13

LEMMA ExecuteHome ==
  ASSUME ViewInv, BoundInv, pending = << >>, NEW fin, NEW new, NEW pre, NEW at, NEW home, NEW plan, NEW ids,
         Call(fin, new, pre, at, home, plan, ids)
  PROVE  HomeInv'
<1> DEFINE stay == Stay(fin, pre)
<1>0. Called(fin, new, pre, at, home, plan, ids)
  BY ExecuteFacts
<1>1. /\ Running' = stay \union new
      /\ \A r \in stay : Kept(r)
      /\ \A r \in new : Added(r, at, home)
  BY <1>0 DEF Called
<1>2. /\ fin \subseteq Running /\ pre \subseteq Running /\ new \subseteq Waiting
      /\ Running \subseteq Req /\ Waiting \subseteq Req /\ Running = stay \union fin \union pre
      /\ stay \intersect (fin \union pre) = {} /\ Running \intersect Waiting = {}
  BY DEF Call, Running, Waiting, Stay
<1> HIDE DEF stay
<1>3. home \in [new -> Block \ {table[index[r]] : r \in stay}] /\ \A r, q \in new : home[r] = home[q] => r = q
  BY AtFact DEF Call, stay
<1>3a. at \in [new -> Slot]
  <2>1. at \in [new -> Slot \ {index[r] : r \in stay}]
    BY AtFact DEF Call, stay
  <2> QED
    BY <2>1
<1>4. index' = [r \in Req |-> IF r \in new THEN at[r]
                              ELSE IF r \in fin \union pre THEN None ELSE index[r]]
  <2>1. Execute(fin, pre, new, at, home, plan, ids)
    BY Zenon DEF Call
  <2>2. index' = AddRequests(FinishRequests(fin \union pre), at)
    BY <2>1 DEF Execute
  <2>3. DOMAIN at = new
    BY <1>3a
  <2> QED
    BY <2>2, <2>3 DEF AddRequests, FinishRequests
<1>5. ASSUME NEW r \in Req PROVE (r \in Running') <=> (index'[r] # None)
  <2>1. CASE r \in new
    BY <1>1, <1>3a, <1>4, <2>1
  <2>2. CASE r \in fin \union pre
    <3>1. r \notin new /\ r \notin stay
      BY <1>2, <2>2
    <3> QED
      BY <1>1, <1>4, <2>2, <3>1
  <2>3. CASE r \in stay
    <3>1. r \notin new /\ r \notin fin \union pre /\ r \in Running
      BY <1>2, <2>3
    <3>2. index[r] # None
      BY <3>1 DEF BoundInv, HomeInv
    <3> QED
      BY <1>1, <1>4, <2>3, <3>1, <3>2
  <2>4. CASE r \notin Running /\ r \notin new
    <3>1. r \notin stay /\ r \notin fin \union pre
      BY <1>2, <2>4
    <3>2. index[r] = None
      BY <2>4 DEF BoundInv, HomeInv
    <3> QED
      BY <1>1, <1>4, <2>4, <3>1, <3>2
  <2> QED
    BY <1>2, <2>1, <2>2, <2>3, <2>4
<1>6. \A r \in stay : table'[index'[r]] = table[index[r]] /\ table[index[r]] \in Block
  BY <1>1, <1>2 DEF Kept, BoundInv, HomeInv
<1>7. \A r \in new : table'[index'[r]] = home[r] /\ home[r] \in Block
  BY <1>1, <1>3 DEF Added
<1>8. \A r \in Running' : table'[index'[r]] \in Block
  BY <1>1, <1>6, <1>7
<1>9. ASSUME NEW r \in Running', NEW q \in Running', table'[index'[r]] = table'[index'[q]]
      PROVE  r = q
  <2>1. CASE r \in stay /\ q \in stay
    BY <1>2, <1>6, <1>9, <2>1 DEF BoundInv, HomeInv
  <2>2. CASE r \in new /\ q \in new
    BY <1>3, <1>7, <1>9, <2>2
  <2>3. CASE r \in stay /\ q \in new
    BY <1>3, <1>6, <1>7, <1>9, <2>3
  <2>4. CASE r \in new /\ q \in stay
    BY <1>3, <1>6, <1>7, <1>9, <2>4
  <2> QED
    BY <1>1, <2>1, <2>2, <2>3, <2>4
<1> QED
  BY <1>5, <1>8, <1>9 DEF HomeInv

LEMMA ExecuteBatch ==
  ASSUME ViewInv, BoundInv, pending = << >>, NEW fin, NEW new, NEW pre, NEW at, NEW home, NEW plan, NEW ids,
         Call(fin, new, pre, at, home, plan, ids)
  PROVE  /\ BatchInv'
         /\ \A i \in DOMAIN pending' : /\ pending'[i].start \in Nat /\ pending'[i].n \in Nat
                                       /\ pending'[i].start + pending'[i].n <= MaxLen
<1>0. Called(fin, new, pre, at, home, plan, ids)
  BY ExecuteFacts
<1>1. ViewInv'
  BY ExecuteStep
<1>2. /\ Stay(fin, pre) \subseteq Req /\ new \subseteq Req /\ ids \in SortBatchReqIds(plan)
  BY DEF Call, Running, Waiting, Stay
<1>3. /\ DOMAIN plan \subseteq Stay(fin, pre) \union new
      /\ \A r \in DOMAIN plan : plan[r] \in Scheduled(sched[r].known, sched[r].seen)
      /\ DOMAIN pending' = DOMAIN ids
      /\ \A i \in DOMAIN ids :
            /\ ids[i] \in DOMAIN plan
            /\ pending'[i] = Row(ids[i], plan[ids[i]], index'[ids[i]], device'[index'[ids[i]]],
                                 host'[index'[ids[i]]], prefill'[index'[ids[i]]], table'[index'[ids[i]]])
  BY <1>0 DEF Called
<1>4. \A i \in DOMAIN ids : /\ pending'[i].block = table'[pending'[i].slot] /\ pending'[i].req = ids[i]
                            /\ pending'[i].n = plan[ids[i]].n /\ pending'[i].drafts = plan[ids[i]].drafts
  BY <1>3 DEF Row
<1>5. \A r \in DOMAIN plan : /\ plan[r].n \in Nat /\ plan[r].n >= 1 /\ plan[r].drafts \in Nat
                             /\ plan[r].drafts > 0 => plan[r].n = 1 + plan[r].drafts /\ plan[r].drafts <= Depth
  <2> SUFFICES ASSUME NEW r \in DOMAIN plan
      PROVE  /\ plan[r].n \in Nat /\ plan[r].n >= 1 /\ plan[r].drafts \in Nat
             /\ plan[r].drafts > 0 => plan[r].n = 1 + plan[r].drafts /\ plan[r].drafts <= Depth
    OBVIOUS
  <2>1. sched[r] \in BoundEntry /\ plan[r] \in Scheduled(sched[r].known, sched[r].seen)
    BY <1>2, <1>3 DEF BoundInv, BoundTypes
  <2>2. sched[r].known \in Int /\ sched[r].known <= MaxLen /\ sched[r].seen \in Int
    BY <2>1 DEF BoundEntry
  <2> QED
    BY <2>1, <2>2, StepBound
<1>6. IsFiniteSet(DOMAIN plan)
  BY <1>2, <1>3, ReqAssumption, FS_Subset
<1>7. /\ \E n \in Nat : DOMAIN ids = 1..n
      /\ \A i, k \in DOMAIN ids : i < k /\ plan[ids[k]].drafts > 0 => plan[ids[i]].drafts > 0
  BY <1>2, <1>5, <1>6, SortFact
<1>8. pending' \in Seq(ToSet(pending'))
  <2>1. PICK n \in Nat : DOMAIN pending' = 1..n
    BY <1>3, <1>7
  <2>2. Execute(fin, pre, new, at, home, plan, ids)
    BY Zenon DEF Call
  <2>3. \E f : pending' = [i \in DOMAIN ids |-> f[i]]
    <3>1. pending' = [i \in DOMAIN ids |-> pending'[i]]
      BY <2>2 DEF Execute
    <3> QED
      BY <3>1
  <2>4. pending' = [i \in 1..n |-> pending'[i]]
    BY <1>3, <2>1, <2>3
  <2>5. \A i \in 1..n : pending'[i] \in ToSet(pending')
    BY <2>1 DEF ToSet
  <2>6. pending' \in [1..n -> ToSet(pending')]
    BY <2>4, <2>5
  <2> QED
    BY <2>6
<1>9. ASSUME NEW i \in DOMAIN pending'
      PROVE  pending'[i].start \in Nat /\ pending'[i].start + pending'[i].n <= MaxLen
  <2> DEFINE r == ids[i]
  <2>1. RowInv(pending[i])' /\ r \in Running' /\ pending'[i].req = r /\ r \in Req
    BY <1>1, <1>2, <1>3, <1>4, <1>9 DEF ViewInv, RowInv
  <2>2. CountInv(r)'
    BY <1>1, <2>1 DEF ViewInv
  <2>3. sched'[r] \in BoundEntry
    BY <2>1, ExecuteBoundTypes
  <2>4. device'[index'[r]] \in 0..MaxLen
    <3>1. index'[r] \in Slot
      BY <2>2 DEF CountInv
    <3> QED
      BY <3>1, ExecuteBoundTypes
  <2>5. pending'[i].start = device'[index'[r]]
    BY <2>1 DEF RowInv
  <2>6. sched'[r].seen - sched'[r].late = device'[index'[r]] + pending'[i].n
    BY <1>9, <2>1, <2>2 DEF CountInv
  <2>7. sched'[r].seen \in 0..MaxLen /\ sched'[r].late \in Nat /\ pending'[i].n \in Nat
    <3>1. pending'[i].n \in Nat
      BY <2>1 DEF RowInv
    <3> QED
      BY <2>3, <3>1 DEF BoundEntry
  <2> QED
    BY <2>4, <2>5, <2>6, <2>7
<1>10. \A i \in DOMAIN pending' : BatchRow(pending[i])'
  BY <1>3, <1>4, <1>5, <1>9 DEF BatchRow
<1>11. \A i \in DOMAIN pending' : pending'[i].n \in Nat
  BY <1>3, <1>4, <1>5
<1>12. \A i, k \in DOMAIN pending' : i < k /\ pending'[k].drafts > 0 => pending'[i].drafts > 0
  BY <1>3, <1>4, <1>7
<1> QED
  BY <1>8, <1>9, <1>10, <1>11, <1>12 DEF BatchInv

LEMMA ExecuteBound ==
  ASSUME ViewInv, BoundInv, pending = << >>, NEW fin, NEW new, NEW pre, NEW at, NEW home, NEW plan, NEW ids,
         Call(fin, new, pre, at, home, plan, ids)
  PROVE  BoundInv'
<1>1. /\ HomeInv' /\ BatchInv'
      /\ \A i \in DOMAIN pending' : /\ pending'[i].start \in Nat /\ pending'[i].n \in Nat
                                    /\ pending'[i].start + pending'[i].n <= MaxLen
  BY ExecuteHome, ExecuteBatch
<1>2. /\ sched' \in [Req -> BoundEntry]
      /\ prefill' \in [Slot -> 0..MaxLen] /\ host' \in [Slot -> 0..MaxLen]
      /\ device' \in [Slot -> 0..MaxLen]
      /\ table' \in [Slot -> Block \union {None}]
  BY ExecuteBoundTypes
<1> DEFINE pre2 == Prefills(pending')
           split(b) == UNION {Splits(row) : row \in {x \in ToSet(pre2) : x.block = b}}
<1>3. lost' = [b \in Block |-> (IF \E r \in new : home[r] = b THEN {} ELSE lost[b]) \union split(b)]
  <2>1. Execute(fin, pre, new, at, home, plan, ids)
    BY Zenon DEF Call
  <2> QED
    BY <2>1 DEF Execute
<1>4. \A row \in ToSet(pre2) : Splits(row) \subseteq PoolId
  <2>1. pending' \in Seq(ToSet(pending'))
    BY <1>1 DEF BatchInv
  <2>2. pre2 \in Seq(ToSet(pending'))
    BY <2>1, PartsFact
  <2>3. ToSet(pre2) \subseteq ToSet(pending')
    <3> HIDE DEF pre2
    <3>1. \A i \in DOMAIN pre2 : pre2[i] \in ToSet(pending')
      BY <2>2
    <3> QED
      BY <3>1 DEF ToSet
  <2>4. \A row \in ToSet(pending') : row.start \in Nat /\ row.n \in Nat /\ row.start + row.n <= MaxLen
    BY <1>1 DEF ToSet
  <2> HIDE DEF pre2
  <2> QED
    BY <2>3, <2>4, SplitsBound
<1>5. \A b \in Block : split(b) \subseteq PoolId
  <2> HIDE DEF pre2
  <2> QED
    BY <1>4
<1>6. lost' \in [Block -> SUBSET PoolId]
  <2> HIDE DEF split
  <2>1. \A b \in Block : lost[b] \subseteq PoolId
    BY DEF BoundInv, BoundTypes
  <2> QED
    BY <1>3, <1>5, <2>1
<1> QED
  BY <1>1, <1>2, <1>6 DEF BoundInv, BoundTypes

LEMMA BoundSeen ==
  ASSUME NEW e \in BoundEntry, NEW d \in 0..Depth, d <= e.seen - e.late, NEW f, f = Seen(e, d)
  PROVE  f \in BoundEntry
<1>1. PICK g : g = [e EXCEPT !.seen = e.seen - e.late]
  OBVIOUS
<1>2. e.seen - e.late \in 0..MaxLen
  BY DEF BoundEntry
<1>3. f = [g EXCEPT !.late = d]
  BY <1>1, Zenon DEF Seen
<1>4. f = [e EXCEPT !.seen = e.seen - e.late, !.late = d]
  BY <1>1, <1>3
<1> QED
  BY <1>2, <1>4 DEF BoundEntry

LEMMA OverrunsBound ==
  ASSUME NEW row, row.start \in Nat, row.n \in Nat, row.start + row.n <= MaxLen,
         Advance(row) \in 0..row.n
  PROVE  Overruns(row) \subseteq PoolId
<1> DEFINE j == (row.start + Advance(row)) \div Kpool
<1>1. j \in Nat /\ j <= MaxLen \div Kpool
  <2>1. row.start + Advance(row) \in Nat /\ row.start + Advance(row) <= MaxLen /\ Kpool \in Nat \ {0}
    OBVIOUS
  <2>2. (row.start + Advance(row)) \div Kpool <= MaxLen \div Kpool
    BY <2>1, DivGrows
  <2>3. (row.start + Advance(row)) \div Kpool \in Nat /\ MaxLen \div Kpool \in Nat
    BY <2>1
  <2> QED
    BY <2>2, <2>3
<1> HIDE DEF j
<1>2. Overruns(row) \subseteq {j}
  BY DEF Overruns, j
<1> QED
  BY <1>1, <1>2 DEF PoolId

LEMMA SampleBound == ASSUME ViewInv, BoundInv, SampleTokens PROVE BoundInv'
<1>1. /\ DOMAIN pending' = {} /\ UNCHANGED <<index, prefill, host, table>>
      /\ sched' = [r \in Req |-> sched'[r]] /\ device' \in [Slot -> Int]
  BY SampleFacts
<1>1a. pending' = << >>
  BY Zenon DEF SampleTokens
<1>2. \A i \in DOMAIN pending :
         /\ Sampled(pending[i]) /\ RowInv(pending[i]) /\ BatchRow(pending[i])
         /\ Advance(pending[i]) \in Nat /\ Rejected(pending[i]) \in Nat
         /\ Advance(pending[i]) = pending[i].n - Rejected(pending[i])
         /\ Rejected(pending[i]) <= pending[i].drafts
  BY SampleFacts DEF ViewInv, BoundInv, BatchInv
<1>3. \A i \in DOMAIN pending :
         /\ pending[i].start \in Nat /\ pending[i].n \in Nat /\ pending[i].start + pending[i].n <= MaxLen
         /\ Advance(pending[i]) \in 0..pending[i].n /\ Rejected(pending[i]) \in 0..Depth
         /\ pending[i].start = device[index[pending[i].req]]
  <2> SUFFICES ASSUME NEW i \in DOMAIN pending
      PROVE  /\ pending[i].start \in Nat /\ pending[i].n \in Nat /\ pending[i].start + pending[i].n <= MaxLen
             /\ Advance(pending[i]) \in 0..pending[i].n /\ Rejected(pending[i]) \in 0..Depth
             /\ pending[i].start = device[index[pending[i].req]]
    OBVIOUS
  <2>1. /\ pending[i].n \in Nat /\ pending[i].drafts \in Nat
        /\ pending[i].start = device[pending[i].slot] /\ pending[i].slot \in Slot
        /\ pending[i].slot = index[pending[i].req]
    BY <1>2 DEF RowInv, Sampled
  <2>2. pending[i].start \in Nat
    BY <2>1 DEF BoundInv, BoundTypes
  <2>3. pending[i].start + pending[i].n <= MaxLen /\ pending[i].drafts <= Depth
    BY <1>2, <2>1 DEF BatchRow
  <2> QED
    BY <1>2, <2>1, <2>2, <2>3
<1>4. \A r \in Req : sched'[r] \in BoundEntry /\ sched'[r].st = sched[r].st
  <2> SUFFICES ASSUME NEW r \in Req PROVE sched'[r] \in BoundEntry /\ sched'[r].st = sched[r].st
    OBVIOUS
  <2>0. sched[r] \in BoundEntry /\ sched[r] \in Entry
    BY DEF BoundInv, BoundTypes, ViewInv, ViewTypes
  <2>1. CASE \E i \in DOMAIN pending : pending[i].req = r
    <3>1. PICK i \in DOMAIN pending : pending[i].req = r
      BY <2>1
    <3>2. sched'[r] = Seen(sched[r], Rejected(pending[i])) /\ r \in Running
      BY <1>2, <3>1 DEF Sampled
    <3>3. Rejected(pending[i]) \in 0..Depth /\ Rejected(pending[i]) \in Nat
      BY <1>2, <1>3
    <3>4. Rejected(pending[i]) <= sched[r].seen - sched[r].late
      <4>1. sched[r].seen - sched[r].late = device[index[r]] + pending[i].n
        BY <3>1, <3>2 DEF ViewInv, CountInv
      <4>2. device[index[r]] \in Nat /\ pending[i].n \in Nat /\ Rejected(pending[i]) <= pending[i].n
        BY <1>2, <1>3, <3>1
      <4> QED
        BY <3>3, <4>1, <4>2
    <3>5. sched'[r] \in BoundEntry
      BY <2>0, <3>2, <3>3, <3>4, BoundSeen
    <3>6. sched'[r].st = sched[r].st
      BY <2>0, <3>2, <3>3, Delivered
    <3> QED
      BY <3>5, <3>6
  <2>2. CASE \A i \in DOMAIN pending : pending[i].req # r
    <3>1. sched'[r] = sched[r]
      BY <2>2, SampleFacts
    <3> QED
      BY <2>0, <3>1
  <2> QED
    BY <2>1, <2>2
<1>5. Running' = Running /\ sched' \in [Req -> BoundEntry]
  BY <1>1, <1>4 DEF Running
<1>6. \A s \in Slot : device'[s] \in 0..MaxLen
  <2> SUFFICES ASSUME NEW s \in Slot PROVE device'[s] \in 0..MaxLen
    OBVIOUS
  <2>0. device[s] \in 0..MaxLen
    BY DEF BoundInv, BoundTypes
  <2>1. CASE \E i \in DOMAIN pending : pending[i].slot = s
    <3>1. PICK i \in DOMAIN pending : pending[i].slot = s
      BY <2>1
    <3>2. s = index[pending[i].req] /\ device'[s] = device[s] + Advance(pending[i])
      BY <1>2, <3>1 DEF Sampled
    <3>3. pending[i].start = device[s]
      BY <1>3, <3>2
    <3> QED
      BY <1>3, <2>0, <3>2, <3>3
  <2>2. CASE \A i \in DOMAIN pending : pending[i].slot # s
    BY <2>0, <2>2, SampleFacts
  <2> QED
    BY <2>1, <2>2
<1>7. device' \in [Slot -> 0..MaxLen]
  BY <1>1, <1>6
<1> DEFINE over(b) == UNION {Overruns(row) : row \in {x \in ToSet(pending) : x.block = b}}
<1>8. lost' = [b \in Block |-> lost[b] \union over(b)]
  BY DEF SampleTokens
<1>9. \A row \in ToSet(pending) : Overruns(row) \subseteq PoolId
  BY <1>3, OverrunsBound DEF ToSet
<1>10. \A b \in Block : over(b) \subseteq PoolId
  BY <1>9
<1>11. lost' \in [Block -> SUBSET PoolId]
  <2> HIDE DEF over
  <2>1. \A b \in Block : lost[b] \subseteq PoolId
    BY DEF BoundInv, BoundTypes
  <2> QED
    BY <1>8, <1>10, <2>1
<1>12. BoundTypes'
  BY <1>1, <1>5, <1>7, <1>11 DEF BoundInv, BoundTypes
<1>13. HomeInv'
  BY <1>1, <1>5 DEF BoundInv, HomeInv
<1>14. BatchInv'
  BY <1>1a DEF BatchInv, ToSet
<1> QED
  BY <1>12, <1>13, <1>14 DEF BoundInv

LEMMA DeliverBound == ASSUME ViewInv, BoundInv, NEW r \in Req, Deliver(r) PROVE BoundInv'
<1>1. sched[r].late > 0 /\ UNCHANGED <<index, prefill, host, device, table, pending, cache, lost>>
  BY Zenon DEF Deliver
<1>1a. sched' = [sched EXCEPT ![r] = Seen(sched[r], 0)]
  BY DEF Deliver
<1>t. sched \in [Req -> BoundEntry] /\ sched[r] \in BoundEntry /\ sched[r] \in Entry
  BY DEF BoundInv, BoundTypes, ViewInv, ViewTypes
<1>2. sched'[r] = Seen(sched[r], 0) /\ \A q \in Req \ {r} : sched'[q] = sched[q]
  BY <1>t, <1>1a
<1>3. 0 <= sched[r].seen - sched[r].late /\ 0 \in 0..Depth
  BY <1>t DEF BoundEntry
<1>4. sched'[r] \in BoundEntry /\ sched'[r].st = sched[r].st
  BY <1>t, <1>2, <1>3, BoundSeen, Delivered
<1>5. sched' \in [Req -> BoundEntry] /\ Running' = Running
  <2>1. sched' = [q \in Req |-> sched'[q]]
    BY <1>t, <1>1a
  <2>2. \A q \in Req : sched'[q] \in BoundEntry /\ sched'[q].st = sched[q].st
    BY <1>t, <1>2, <1>4
  <2> QED
    BY <2>1, <2>2 DEF Running
<1> QED
  BY <1>1, <1>5 DEF BoundInv, BoundTypes, HomeInv, BatchInv, BatchRow

LEMMA BoundNext == ASSUME ViewInv, BoundInv, [Next]_vars PROVE BoundInv'
<1>1. CASE ExecuteModel
  <2>1. PICK fin, new, pre, at, home, plan, ids : Call(fin, new, pre, at, home, plan, ids)
    BY <1>1, ExecuteCalls
  <2> QED
    BY <1>1, <2>1, ExecuteBound DEF ExecuteModel
<1>2. CASE SampleTokens
  BY <1>2, SampleBound
<1>3. ASSUME NEW r \in Req, Deliver(r) PROVE BoundInv'
  BY <1>3, DeliverBound
<1>4. CASE UNCHANGED serveVars
  BY <1>4 DEF serveVars, BoundInv, BoundTypes, HomeInv, BatchInv, BatchRow, Running
<1> QED
  BY <1>1, <1>2, <1>3, <1>4 DEF Next, vars

(* What a query of the batch attends to.                                   *)
LEMMA PosFact ==
  ASSUME NEW R, NEW rows \in Seq(R), \A row \in R : row.n \in Nat /\ row.start \in Nat,
         NEW i \in DOMAIN Tokens(rows)
  PROVE  Tokens(rows)[i].pos \in Nat
<1>1. PICK r \in 1..Len(rows) : \E t \in 1..rows[r].n : i = Place(rows, r, t)
  BY TokensFact
<1>2. PICK t \in 1..rows[r].n : i = Place(rows, r, t)
  BY <1>1
<1>3. Tokens(rows)[i] = TokenOf(rows[r], t)
  BY <1>1, <1>2, TokensFact
<1>4. rows[r] \in R
  BY <1>1
<1>5. rows[r].start \in Nat /\ rows[r].n \in Nat
  BY <1>4
<1>6. rows[r].start + t - 1 \in Nat
  BY <1>2, <1>5
<1> QED
  BY <1>3, <1>6 DEF TokenOf

LEMMA AttendsOwn ==
  ASSUME ViewInv, BoundInv
  PROVE  RowsAttendOwnContext
<1> DEFINE R == ToSet(pending)
<1>1. pending \in Seq(R)
  BY DEF BoundInv, BatchInv
<1>2. \A row \in R : row.n \in 0..MaxLen + 1 /\ row.n \in Nat /\ row.start \in Nat /\ row.start \in Int
  <2> SUFFICES ASSUME NEW i \in DOMAIN pending
      PROVE  pending[i].n \in Nat /\ pending[i].n <= MaxLen /\ pending[i].start \in Nat
    BY DEF ToSet
  <2>1. RowInv(pending[i]) /\ BatchRow(pending[i])
    BY DEF ViewInv, BoundInv, BatchInv
  <2>2. pending[i].slot \in Slot /\ pending[i].start = device[pending[i].slot]
    BY <2>1 DEF RowInv, ViewInv, CountInv
  <2>3. pending[i].start \in Nat
    BY <2>2 DEF BoundInv, BoundTypes
  <2> QED
    BY <2>1, <2>3 DEF RowInv, BatchRow
<1> HIDE DEF R
<1>3. Decodes(pending) \in Seq(R) /\ Prefills(pending) \in Seq(R)
  BY <1>1, PartsFact
<1>4. ASSUME NEW i \in DOMAIN Tokens(Decodes(pending)), NEW flatten \in BOOLEAN,
             NEW A \in DecodeContexts(Decodes(pending), i, flatten)
      PROVE  OwnContext(A, Tokens(Decodes(pending))[i].pos)
  <2> DEFINE rows == Decodes(pending)
             p == Tokens(rows)[i].pos
  <2>1. SeqLenUsed(rows, i, flatten) = p + 1
    <3>1. MaxLen + 1 \in Nat \ {0}
      OBVIOUS
    <3> QED
      BY <1>2, <1>3, <3>1, SeqLenFact
  <2>2. p \in Nat
    BY <1>2, <1>3, PosFact
  <2>3. PICK S \in Selections((p + 1) \div Kpool) : A = Expand(S, p + 1)
    BY <2>1 DEF DecodeContexts
  <2> QED
    BY <2>2, <2>3, ExpandFact
<1>5. ASSUME NEW i \in DOMAIN Tokens(Prefills(pending)), NEW A \in PrefillContexts(Prefills(pending), i)
      PROVE  OwnContext(A, Tokens(Prefills(pending))[i].pos)
  <2> DEFINE rows == Prefills(pending)
             p == Tokens(rows)[i].pos
  <2>1. p \in Nat
    BY <1>2, <1>3, PosFact
  <2> HIDE DEF p
  <2>2. CASE ShortPrefill(rows)
    <3>1. A = 0..p
      BY <2>2 DEF PrefillContexts, p
    <3>2. ((p + 1) \div Kpool) * Kpool \in Nat
      BY <2>1, PoolsFact
    <3>3. ((p + 1) \div Kpool) * Kpool..p \subseteq 0..p
      BY <2>1, <3>2
    <3> QED
      BY <3>1, <3>3 DEF OwnContext, p
  <2>3. CASE ~ShortPrefill(rows)
    <3>1. PICK S \in Selections((p + 1) \div Kpool) : A = Expand(S, p + 1)
      BY <2>3 DEF PrefillContexts, p
    <3> QED
      BY <2>1, <3>1, ExpandFact DEF p
  <2> QED
    BY <2>2, <2>3
<1> QED
  BY <1>4, <1>5 DEF RowsAttendOwnContext, OwnContext

(***************************************************************************)
(* In every batch a query attends to nothing after its own token, to the   *)
(* whole pool in progress, and to everything while the context is short,   *)
(* whichever layout the decode part has and whether the prefill part takes *)
(* the fast path or not (_decode_topk_seq_lens, short_prefill).            *)
(***************************************************************************)
THEOREM RowsAttend == Spec => []RowsAttendOwnContext
<1>1. Init => ViewInv /\ BoundInv
  BY ViewInit, BoundInit
<1>2. ViewInv /\ BoundInv /\ [Next]_vars => (ViewInv /\ BoundInv)'
  BY ViewNext, BoundNext
<1>3. ViewInv /\ BoundInv => RowsAttendOwnContext
  BY AttendsOwn
<1> QED
  BY <1>1, <1>2, <1>3, PTL DEF Spec

--------------------------------------------------------------------------------
(* The cache between the calls: good for every running request, as far as  *)
(* it got, or as far as the batch under way will take it.                  *)

Idle(r) == \A i \in DOMAIN pending : pending[i].req # r

CacheInv ==
    /\ cache \in CacheType
    /\ \A r \in Running : Idle(r) =>
          Good(cache[table[index[r]]], r, device[index[r]], lost[table[index[r]]])
    /\ \A i \in DOMAIN pending :
          LET row == pending[i]
          IN  Good(cache[row.block], row.req, row.start + Advance(row), lost[row.block] \union Overruns(row))

LEMMA CacheInit == Init => CacheInv
<1> SUFFICES ASSUME Init PROVE CacheInv
    OBVIOUS
<1>1. Running = {} /\ DOMAIN pending = {}
  BY DEF Init, Running
<1>2. NoKey \in KeyType
  BY DEF NoKey, Key, KeyType
<1>3. EmptyBlock \in BlockType
  BY <1>2 DEF EmptyBlock, BlockType
<1>4. cache \in CacheType
  BY <1>3 DEF Init, CacheType
<1> QED
  BY <1>1, <1>4 DEF CacheInv

(* The batch under way, as the write sees it.                              *)
PendingGood ==
    /\ GoodRows(pending)
    /\ \A i \in DOMAIN pending :
          /\ pending[i].req \in Running
          /\ pending[i].block = table[index[pending[i].req]]
          /\ pending[i].start = device[index[pending[i].req]]

LEMMA PendingFact == ViewInv /\ BoundInv => PendingGood
<1> SUFFICES ASSUME ViewInv, BoundInv PROVE PendingGood
    OBVIOUS
<1>1. pending \in Seq(ToSet(pending)) /\ DOMAIN pending = 1..Len(pending)
  <2>1. pending \in Seq(ToSet(pending))
    BY DEF BoundInv, BatchInv
  <2> QED
    BY <2>1
<1>2. ASSUME NEW i \in DOMAIN pending
      PROVE  /\ GoodRow(pending[i]) /\ pending[i].req \in Running
             /\ pending[i].block = table[index[pending[i].req]]
             /\ pending[i].start = device[index[pending[i].req]]
  <2>1. RowInv(pending[i]) /\ BatchRow(pending[i])
    BY DEF ViewInv, BoundInv, BatchInv
  <2>2. /\ pending[i].req \in Running /\ pending[i].slot = index[pending[i].req]
        /\ pending[i].start = device[pending[i].slot] /\ pending[i].block = table[pending[i].slot]
        /\ pending[i].n \in Nat /\ pending[i].drafts \in 0..pending[i].n
        /\ pending[i].right \in 0..pending[i].drafts /\ pending[i].start + pending[i].n <= MaxLen
    BY <2>1 DEF RowInv, BatchRow
  <2>3. pending[i].slot \in Slot
    BY <2>2 DEF ViewInv, CountInv
  <2>4. pending[i].start \in Nat
    BY <2>2, <2>3 DEF BoundInv, BoundTypes
  <2>5. pending[i].block \in Block
    BY <2>2 DEF BoundInv, HomeInv
  <2>6. pending[i].req \in Req
    BY <2>2 DEF Running
  <2> QED
    BY <2>2, <2>4, <2>5, <2>6 DEF GoodRow
<1>3. ASSUME NEW i \in DOMAIN pending, NEW k \in DOMAIN pending, pending[i].block = pending[k].block
      PROVE  i = k
  <2>1. pending[i].req = pending[k].req
    BY <1>2, <1>3 DEF BoundInv, HomeInv
  <2> QED
    BY <2>1 DEF ViewInv
<1> QED
  BY <1>1, <1>2, <1>3 DEF GoodRows, PendingGood

(* The same of the next state.                                             *)
LEMMA PendingNext == (ViewInv /\ BoundInv => PendingGood)'
  BY PendingFact, PTL

(* execute_model writes the batch; sample_tokens makes it the past.        *)
LEMMA ExecuteCache ==
  ASSUME ViewInv, BoundInv, CacheInv, pending = << >>, NEW fin, NEW new, NEW pre, NEW at, NEW home, NEW plan, NEW ids,
         Call(fin, new, pre, at, home, plan, ids)
  PROVE  CacheInv'
<1> DEFINE stay == Stay(fin, pre)
           n == Len(pending')
<1>1. ViewInv' /\ BoundInv'
  BY ExecuteStep, ExecuteBound
<1>2. PendingGood'
  BY <1>1, PendingNext
<1>3. Called(fin, new, pre, at, home, plan, ids)
  BY ExecuteFacts
<1>4. Execute(fin, pre, new, at, home, plan, ids)
  BY Zenon DEF Call
<1>5. /\ Running' = stay \union new /\ new \subseteq DOMAIN plan
      /\ \A r \in stay : Kept(r)
      /\ \A r \in new : Added(r, at, home)
      /\ DOMAIN pending' = DOMAIN ids
      /\ \A i \in DOMAIN ids : pending'[i].req = ids[i]
  <2>2. ASSUME NEW i \in DOMAIN ids PROVE pending'[i].req = ids[i]
    <3>1. pending'[i] = Row(ids[i], plan[ids[i]], index'[ids[i]], device'[index'[ids[i]]],
                            host'[index'[ids[i]]], prefill'[index'[ids[i]]], table'[index'[ids[i]]])
      BY <1>3 DEF Called
    <3> QED
      BY <3>1 DEF Row
  <2> QED
    BY <1>3, <2>2 DEF Called
<1>6. /\ stay \subseteq Running /\ new \subseteq Waiting /\ ids \in SortBatchReqIds(plan)
      /\ stay \subseteq Req /\ new \subseteq Req
  BY DEF Call, Stay, Running, Waiting
<1>7. /\ home \in [new -> Block \ {table[index[r]] : r \in stay}]
      /\ \A r, q \in new : home[r] = home[q] => r = q
  BY AtFact DEF Call
<1>8. \A r \in new : \E i \in DOMAIN pending' : pending'[i].req = r
  <2>1. \A r \in DOMAIN plan : \E i \in DOMAIN ids : ids[i] = r
    BY <1>6, OrderFact
  <2> QED
    BY <1>5, <2>1
<1>9. /\ GoodRows(pending') /\ n \in Nat /\ DOMAIN pending' = 1..n
      /\ \A i \in DOMAIN pending' :
          /\ pending'[i].req \in Running'
          /\ pending'[i].block = table'[index'[pending'[i].req]]
          /\ pending'[i].start = device'[index'[pending'[i].req]]
          /\ GoodRow(pending'[i])
  <2>1. GoodRows(pending')
    BY <1>2 DEF PendingGood, GoodRows, GoodRow
  <2>2. n \in Nat /\ DOMAIN pending' = 1..n
    BY <2>1, GoodRowsFact
  <2> QED
    BY <1>2, <2>1, <2>2 DEF PendingGood, GoodRows
<1>10. /\ \A r \in Running : Good(cache[table[index[r]]], r, device[index[r]], lost[table[index[r]]])
       /\ cache \in CacheType
  BY DEF CacheInv, Idle
<1>11. \A r, q \in Running' : table'[index'[r]] = table'[index'[q]] => r = q
  BY <1>1 DEF BoundInv, HomeInv
<1>11a. \A r \in Running' : table'[index'[r]] \in Block
  BY <1>1 DEF BoundInv, HomeInv
<1> HIDE DEF stay, n
<1>12. cache' = IndexerWrite(cache, pending')
  <2>1. \E rows : pending' = rows /\ cache' = IndexerWrite(cache, rows)
    BY <1>4, Zenon DEF Execute
  <2> QED
    BY <2>1, Zenon
<1>13. /\ cache' \in CacheType /\ OthersKept(cache, cache', pending', n)
       /\ \A i \in 1..n : After(cache[pending'[i].block], cache'[pending'[i].block], pending'[i],
                                EndOf(pending'[i]), Missed(pending', i))
  <2>1. LET x == IndexerWrite(cache, pending')
        IN  /\ x \in CacheType /\ OthersKept(cache, x, pending', Len(pending'))
            /\ \A i \in 1..Len(pending') :
                  After(cache[pending'[i].block], x[pending'[i].block], pending'[i], EndOf(pending'[i]), Missed(pending', i))
    BY <1>9, <1>10, IndexerWritten
  <2> QED
    BY <1>12, <2>1, Zenon DEF n
<1> DEFINE split(b) == UNION {Splits(row) : row \in {x \in ToSet(Prefills(pending')) : x.block = b}}
<1>14. \A b \in Block : lost'[b] = (IF \E r \in new : home[r] = b THEN {} ELSE lost[b]) \union split(b)
  <2>1. lost' = [b \in Block |-> (IF \E r \in new : home[r] = b THEN {} ELSE lost[b]) \union split(b)]
    BY <1>4 DEF Execute
  <2> HIDE DEF split
  <2> QED
    BY <2>1
<1>15. \A i \in 1..n : Missed(pending', i) \subseteq split(pending'[i].block)
  <2> SUFFICES ASSUME NEW i \in 1..n PROVE Missed(pending', i) \subseteq split(pending'[i].block)
    OBVIOUS
  <2> DEFINE m == NumDecodes(pending')
             P == Prefills(pending')
  <2>1. /\ m \in 0..n /\ GoodRows(P) /\ Len(P) = n - m
        /\ \A k \in 1..n - m : P[k] = pending'[m + k]
    BY <1>9, GoodParts DEF n
  <2>2. CASE i <= m
    BY <2>2 DEF Missed
  <2>3. CASE ~(i <= m)
    <3>1. i - m \in 1..n - m /\ m + (i - m) = i
      BY <1>9, <2>1, <2>3
    <3>2. P[i - m] = pending'[i]
      BY <2>1, <3>1
    <3>3. \A k \in 1..Len(P) : P[k] \in ToSet(P)
      BY <2>1, GoodRowsFact
    <3>4. pending'[i] \in ToSet(P)
      BY <2>1, <3>1, <3>2, <3>3
    <3>5. Missed(pending', i) = Splits(pending'[i])
      BY <2>3 DEF Missed
    <3> HIDE DEF P
    <3> QED
      BY <3>4, <3>5 DEF P
  <2> QED
    BY <2>2, <2>3
<1> HIDE DEF split
<1>16. ASSUME NEW r \in stay
       PROVE  /\ Good(cache[table[index[r]]], r, device[index[r]], lost[table[index[r]]])
              /\ table'[index'[r]] = table[index[r]] /\ device'[index'[r]] = device[index[r]]
              /\ table[index[r]] \in Block
              /\ lost[table[index[r]]] \subseteq lost'[table[index[r]]]
  <2>1. Kept(r) /\ r \in Running /\ r \in Running'
    BY <1>5, <1>6
  <2>2. table'[index'[r]] = table[index[r]] /\ device'[index'[r]] = device[index[r]]
    BY <2>1 DEF Kept
  <2>3. table[index[r]] \in Block
    BY <1>11a, <2>1, <2>2
  <2>4. ~(\E q \in new : home[q] = table[index[r]])
    BY <1>7
  <2>5. lost[table[index[r]]] \subseteq lost'[table[index[r]]]
    BY <1>14, <2>3, <2>4
  <2> QED
    BY <1>10, <2>1, <2>2, <2>3, <2>5
<1>17. ASSUME NEW r \in Running', Idle(r)'
       PROVE  Good(cache'[table'[index'[r]]], r, device'[index'[r]], lost'[table'[index'[r]]])
  <2> DEFINE b == table[index[r]]
  <2>1. \A i \in DOMAIN pending' : pending'[i].req # r
    BY <1>17 DEF Idle
  <2>2. r \in stay
    BY <1>5, <1>8, <2>1
  <2>3. \A i \in 1..n : pending'[i].block # b
    BY <1>9, <1>11, <1>16, <2>1, <2>2
  <2>4. cache'[b] = cache[b]
    BY <1>13, <1>16, <2>2, <2>3 DEF OthersKept
  <2>5. Good(cache[b], r, device[index[r]], lost'[b])
    BY <1>16, <2>2, GoodGrows
  <2> QED
    BY <1>16, <2>2, <2>4, <2>5
<1>18. ASSUME NEW i \in DOMAIN pending'
       PROVE  LET row == pending'[i]
              IN  Good(cache'[row.block], row.req, row.start + Advance(row), lost'[row.block] \union Overruns(row))
  <2> DEFINE row == pending'[i]
             b == row.block
             L == lost'[b] \union Overruns(row)
             miss == Missed(pending', i)
  <2>1. /\ GoodRow(row) /\ row.req \in Running' /\ b = table'[index'[row.req]]
        /\ row.start = device'[index'[row.req]] /\ b \in Block /\ i \in 1..n
    BY <1>9, <1>11a
  <2>2. After(cache[b], cache'[b], row, EndOf(row), miss)
    BY <1>13, <2>1
  <2>3. split(b) \subseteq lost'[b]
    BY <1>14, <2>1
  <2>4. miss \subseteq L /\ Overruns(row) \subseteq L
    BY <1>15, <2>1, <2>3
  <2>5. \E L0 : L0 \subseteq L /\ Good(cache[b], row.req, row.start, L0)
    <3>1. CASE row.req \in stay
      <4>1. /\ Good(cache[b], row.req, row.start, lost[b]) /\ lost[b] \subseteq lost'[b]
        <5> HIDE DEF row, b
        <5>1. b = table[index[row.req]] /\ row.start = device[index[row.req]]
          BY <1>16, <2>1, <3>1
        <5> QED
          BY <1>16, <3>1, <5>1
      <4> HIDE DEF row, b
      <4> QED
        BY <4>1
    <3>2. CASE row.req \in new
      <4>1. row.start = 0
        BY <1>5, <2>1, <3>2 DEF Added
      <4>2. Good(cache[b], row.req, row.start, {})
        BY <4>1, GoodAtStart
      <4> HIDE DEF row, b, L
      <4>3. {} \subseteq L
        OBVIOUS
      <4> QED
        BY <4>2, <4>3
    <3> QED
      BY <1>5, <2>1, <3>1, <3>2
  <2> HIDE DEF row, b, L, miss
  <2>6. PICK L0 : L0 \subseteq L /\ Good(cache[b], row.req, row.start, L0)
    BY <2>5
  <2>7. Good(cache'[b], row.req, row.start + Advance(row), L)
    BY <2>1, <2>2, <2>4, <2>6, AfterGood
  <2> QED
    BY <2>7, Zenon DEF row, b, L
<1> QED
  BY <1>13, <1>17, <1>18, Zenon DEF CacheInv, Idle

LEMMA SampleCache == ASSUME ViewInv, BoundInv, CacheInv, SampleTokens PROVE CacheInv'
<1>1. /\ DOMAIN pending' = {} /\ UNCHANGED <<index, table>> /\ cache' = cache
      /\ \A i \in DOMAIN pending : Sampled(pending[i])
      /\ \A r \in Running : (\A i \in DOMAIN pending : pending[i].req # r) =>
            device'[index[r]] = device[index[r]]
  <2>1. cache' = cache
    BY Zenon DEF SampleTokens
  <2> QED
    BY <2>1, SampleFacts
<1>2. Running' = Running
  <2>1. BoundInv'
    BY SampleBound
  <2>2. (\A r \in Req : (r \in Running') <=> (index'[r] # None)) /\ \A r \in Req : (r \in Running) <=> (index[r] # None)
    BY <2>1 DEF BoundInv, HomeInv
  <2>3. Running \subseteq Req /\ Running' \subseteq Req
    BY DEF Running
  <2> QED
    BY <1>1, <2>2, <2>3
<1>3. PendingGood
  BY PendingFact
<1> DEFINE over(b) == UNION {Overruns(row) : row \in {x \in ToSet(pending) : x.block = b}}
<1>4. \A b \in Block : lost'[b] = lost[b] \union over(b)
  <2>1. lost' = [b \in Block |-> lost[b] \union over(b)]
    BY DEF SampleTokens
  <2> HIDE DEF over
  <2> QED
    BY <2>1
<1>5. \A i \in DOMAIN pending : Overruns(pending[i]) \subseteq over(pending[i].block)
  <2>1. \A i \in DOMAIN pending : pending[i] \in ToSet(pending)
    BY DEF ToSet
  <2> QED
    BY <2>1
<1> HIDE DEF over
<1>6. ASSUME NEW r \in Running
      PROVE  Good(cache[table[index[r]]], r, device'[index[r]], lost'[table[index[r]]])
  <2> DEFINE b == table[index[r]]
  <2>1. b \in Block
    BY DEF BoundInv, HomeInv
  <2>2. CASE Idle(r)
    <3>1. device'[index[r]] = device[index[r]]
      BY <1>1, <2>2 DEF Idle
    <3>2. Good(cache[b], r, device[index[r]], lost[b]) /\ lost[b] \subseteq lost'[b]
      BY <1>4, <2>1, <2>2 DEF CacheInv
    <3> HIDE DEF b
    <3>3. Good(cache[b], r, device[index[r]], lost'[b])
      BY <3>2, GoodGrows
    <3> QED
      BY <3>1, <3>3 DEF b
  <2>3. CASE ~Idle(r)
    <3>1. PICK i \in DOMAIN pending : pending[i].req = r
      BY <2>3 DEF Idle
    <3> DEFINE row == pending[i]
    <3>2. row.block = b /\ row.start = device[index[r]] /\ device'[index[r]] = device[index[r]] + Advance(row)
      BY <1>1, <1>3, <3>1 DEF PendingGood, Sampled
    <3>3. Good(cache[row.block], row.req, row.start + Advance(row), lost[row.block] \union Overruns(row))
      BY DEF CacheInv
    <3>4. lost[b] \union Overruns(row) \subseteq lost'[b]
      BY <1>4, <1>5, <2>1, <3>2
    <3> HIDE DEF b, row
    <3>5. Good(cache[b], r, device'[index[r]], lost[b] \union Overruns(row))
      BY <3>1, <3>2, <3>3 DEF row
    <3>6. Good(cache[b], r, device'[index[r]], lost'[b])
      BY <3>4, <3>5, GoodGrows
    <3> QED
      BY <3>6 DEF b
  <2> QED
    BY <2>2, <2>3
<1> QED
  BY <1>1, <1>2, <1>6 DEF CacheInv, Idle

(* The other steps leave the cache and who is running.                     *)
LEMMA CacheStays ==
  ASSUME CacheInv, Running' = Running, UNCHANGED <<index, device, table, pending, cache, lost>>
  PROVE  CacheInv'
<1>1. \A r : Idle(r)' <=> Idle(r)
  BY DEF Idle
<1>2. \A r \in Running' : Idle(r)' =>
          Good(cache[table[index[r]]], r, device[index[r]], lost[table[index[r]]])
  BY <1>1 DEF CacheInv
<1> QED
  BY <1>2 DEF CacheInv

LEMMA CacheNext == ASSUME ViewInv, BoundInv, CacheInv, [Next]_vars PROVE CacheInv'
<1>1. CASE ExecuteModel
  <2>1. PICK fin, new, pre, at, home, plan, ids : Call(fin, new, pre, at, home, plan, ids)
    BY <1>1, ExecuteCalls
  <2>2. pending = << >>
    BY <1>1, Zenon DEF ExecuteModel
  <2> QED
    BY <2>1, <2>2, ExecuteCache
<1>2. CASE SampleTokens
  BY <1>2, SampleCache
<1>3. ASSUME NEW r \in Req, Deliver(r) PROVE CacheInv'
  <2>1. UNCHANGED <<index, device, table, pending, cache, lost>>
    BY <1>3, Zenon DEF Deliver
  <2>2. BoundInv'
    BY <1>3, DeliverBound
  <2>3. (\A q \in Req : (q \in Running') <=> (index'[q] # None)) /\ \A q \in Req : (q \in Running) <=> (index[q] # None)
    BY <2>2 DEF BoundInv, HomeInv
  <2>4. Running' = Running
    <3>1. Running \subseteq Req /\ Running' \subseteq Req
      BY DEF Running
    <3> QED
      BY <2>1, <2>3, <3>1
  <2> QED
    BY <2>1, <2>4, CacheStays
<1>4. CASE UNCHANGED serveVars
  <2>1. UNCHANGED <<index, device, table, pending, cache, lost>> /\ sched' = sched
    BY <1>4 DEF serveVars
  <2>2. Running' = Running
    BY <2>1 DEF Running
  <2> QED
    BY <2>1, <2>2, CacheStays
<1> QED
  BY <1>1, <1>2, <1>3, <1>4 DEF Next, vars

(* The property is read off the invariant.                                 *)
LEMMA CacheHolds ==
  ASSUME ViewInv, BoundInv, CacheInv
  PROVE  CacheIsTrue
<1> SUFFICES ASSUME NEW r \in Running
    PROVE  LET b == table[index[r]]
               done == device[index[r]]
               now == done \div Kpool
           IN  /\ \A j \in (0..now - 1) \ lost[b] :
                     cache[b].pools[j] = [o \in Ring |-> Key(r, j * Kpool + o, TRUE)]
               /\ pending = << >> /\ now \notin lost[b] =>
                     \A p \in now * Kpool..done - 1 : cache[b].ring[p % Kpool] = Key(r, p, TRUE)
  BY DEF CacheIsTrue
<1> DEFINE b == table[index[r]]
           done == device[index[r]]
           now == done \div Kpool
<1>1. index[r] \in Slot /\ b \in Block /\ done \in 0..MaxLen /\ done \in Nat
  <2>1. index[r] \in Slot
    BY DEF ViewInv, CountInv
  <2>2. b \in Block
    BY DEF BoundInv, HomeInv
  <2>3. done \in 0..MaxLen
    BY <2>1 DEF BoundInv, BoundTypes
  <2> QED
    BY <2>1, <2>2, <2>3
<1>2. cache[b].pools \in [PoolId -> [Ring -> KeyType]]
  BY <1>1 DEF CacheInv, CacheType, BlockType
<1> HIDE DEF b, done
<1>3. now \in PoolId /\ now \in Nat /\ now * Kpool \in Nat /\ now * Kpool <= done
  BY <1>1, PoolOf, PoolSpan
<1>4. \A j \in 0..now - 1 : j \in PoolId /\ (j * Kpool) + Kpool <= now * Kpool /\ (j * Kpool) + Kpool <= done
  <2> SUFFICES ASSUME NEW j \in 0..now - 1
               PROVE  j \in PoolId /\ (j * Kpool) + Kpool <= now * Kpool /\ (j * Kpool) + Kpool <= done
    OBVIOUS
  <2>1. j \in PoolId
    BY <1>3 DEF PoolId
  <2>2. (j + 1) * Kpool <= now * Kpool
    <3> HIDE DEF now
    <3>1. j + 1 <= now /\ j + 1 \in Nat
      BY <1>3
    <3> QED
      BY <1>3, <3>1
  <2>3. (j + 1) * Kpool = (j * Kpool) + Kpool /\ j * Kpool \in Nat
    BY <1>3
  <2> HIDE DEF now
  <2> DEFINE x == j * Kpool
             y == now * Kpool
             z == (j + 1) * Kpool
  <2>4. z <= y /\ z = x + Kpool /\ x \in Nat /\ y \in Nat /\ y <= done
    BY <1>3, <2>2, <2>3
  <2> HIDE DEF x, y, z
  <2>5. x + Kpool <= y /\ x + Kpool <= done
    BY <1>1, <2>4
  <2> QED
    BY <2>1, <2>5 DEF x, y
<1> HIDE DEF now
<1>5. \E L : /\ \A j \in 0..now - 1 : j \in L => j \in lost[b]
             /\ \E d \in Nat : d >= done /\ GoodPools(cache[b], r, d, L)
  <2>1. CASE Idle(r)
    <3>1. GoodPools(cache[b], r, done, lost[b])
      BY <2>1 DEF CacheInv, Good, b, done
    <3> QED
      BY <1>1, <3>1
  <2>2. CASE ~Idle(r)
    <3>1. PICK i \in DOMAIN pending : pending[i].req = r
      BY <2>2 DEF Idle
    <3> DEFINE row == pending[i]
               d == row.start + Advance(row)
    <3>2. /\ row.block = b /\ row.start = done /\ row.req = r
          /\ GoodRow(row)
      <4>1. PendingGood
        BY PendingFact
      <4>2. GoodRows(pending) /\ i \in 1..Len(pending)
        BY <4>1, GoodRowsFact DEF PendingGood
      <4> QED
        BY <3>1, <4>1, <4>2 DEF PendingGood, GoodRows, b, done
    <3>3. GoodPools(cache[b], r, d, lost[b] \union Overruns(row))
      <4>1. Good(cache[row.block], row.req, row.start + Advance(row), lost[row.block] \union Overruns(row))
        BY DEF CacheInv
      <4> QED
        BY <3>2, <4>1 DEF Good
    <3>4. d \in Nat /\ d >= done
      BY <1>1, <3>2 DEF GoodRow, Advance, Rejected
    <3>5. Overruns(row) \subseteq {d \div Kpool}
      BY DEF Overruns
    <3> HIDE DEF row, d
    <3>6. now <= d \div Kpool /\ d \div Kpool \in Nat
      <4>1. done \div Kpool <= d \div Kpool
        BY <1>1, <3>4, DivGrows
      <4> QED
        BY <3>4, <4>1 DEF now
    <3>7. \A j \in 0..now - 1 : j \in lost[b] \union Overruns(row) => j \in lost[b]
      BY <1>3, <3>5, <3>6
    <3> QED
      BY <3>3, <3>4, <3>7
  <2> QED
    BY <2>1, <2>2
<1>6. ASSUME NEW j \in (0..now - 1) \ lost[b]
      PROVE  cache[b].pools[j] = [o \in Ring |-> Key(r, j * Kpool + o, TRUE)]
  <2>1. PICK L : /\ \A k \in 0..now - 1 : k \in L => k \in lost[b]
                 /\ \E d \in Nat : d >= done /\ GoodPools(cache[b], r, d, L)
    BY <1>5
  <2>2. PICK d \in Nat : d >= done /\ GoodPools(cache[b], r, d, L)
    BY <2>1
  <2> DEFINE m == j * Kpool
  <2>3. j \in PoolId \ L /\ m + Kpool <= done /\ m \in Nat
    <3>1. m \in Nat
      BY <1>3
    <3> QED
      BY <1>4, <2>1, <3>1
  <2>4. m + Kpool <= d
    <3> HIDE DEF m
    <3> QED
      BY <1>1, <2>2, <2>3
  <2>5. \A o \in Ring : cache[b].pools[j][o] = Key(r, m + o, TRUE)
    BY <2>2, <2>3, <2>4 DEF GoodPools
  <2>6. cache[b].pools[j] = [o \in Ring |-> cache[b].pools[j][o]]
    BY <1>2, <2>3
  <2> QED
    BY <2>5, <2>6
<1>7. ASSUME pending = << >>, now \notin lost[b]
      PROVE  \A p \in now * Kpool..done - 1 : cache[b].ring[p % Kpool] = Key(r, p, TRUE)
  <2>1. Idle(r)
    BY <1>7 DEF Idle
  <2>2. GoodRing(cache[b], r, done, lost[b])
    BY <2>1 DEF CacheInv, Good, b, done
  <2> QED
    BY <1>7, <2>2 DEF GoodRing, now
<1> QED
  BY <1>6, <1>7, Zenon DEF b, done, now

(***************************************************************************)
(* The complete pools of a running request are made of its own accepted    *)
(* tokens and the ring holds those of the pool in progress, whatever chunks*)
(* and drafts brought them and whatever the block held before, but for the *)
(* pools of `lost` (_kpool_compress_insert, kpool_seed_tail_cache and the  *)
(* decode write).                                                          *)
(***************************************************************************)
THEOREM CacheTrue == Spec => []CacheIsTrue
<1>1. Init => ViewInv /\ BoundInv /\ CacheInv
  BY ViewInit, BoundInit, CacheInit
<1>2. ViewInv /\ BoundInv /\ CacheInv /\ [Next]_vars => (ViewInv /\ BoundInv /\ CacheInv)'
  BY ViewNext, BoundNext, CacheNext
<1>3. ViewInv /\ BoundInv /\ CacheInv => CacheIsTrue
  BY CacheHolds
<1> QED
  BY <1>1, <1>2, <1>3, PTL DEF Spec

(***************************************************************************)
(* Types; every running request has one slot of RequestState and one block *)
(* of the tail cache, and shares neither (add_requests, finish_requests).  *)
(***************************************************************************)
THEOREM RunnerTypes == Spec => []RunnerTypeOK
<1>1. Init => StartInv /\ ViewInv /\ BoundInv /\ CacheInv
  BY StartInit, ViewInit, BoundInit, CacheInit DEF Init
<1>2. StartInv /\ ViewInv /\ BoundInv /\ CacheInv /\ [Next]_vars => (StartInv /\ ViewInv /\ BoundInv /\ CacheInv)'
  BY StartNext, ViewNext, BoundNext, CacheNext
<1>3. StartInv /\ ViewInv /\ BoundInv /\ CacheInv => RunnerTypeOK
  <2> SUFFICES ASSUME StartInv, ViewInv, BoundInv, CacheInv PROVE RunnerTypeOK
    OBVIOUS
  <2>1. StartupTypeOK
    BY DEF StartInv
  <2>2. sched \in [Req -> [st : {"waiting", "running", "done"}, known : 0..MaxLen,
                          seen : 0..MaxLen, late : 0..Depth, preempted : Nat]]
    BY DEF BoundInv, BoundTypes, BoundEntry
  <2>3. index \in [Req -> Slot \union {None}]
    BY DEF ViewInv, ViewTypes
  <2>4. /\ prefill \in [Slot -> 0..MaxLen]
        /\ host \in [Slot -> 0..MaxLen] /\ device \in [Slot -> 0..MaxLen]
        /\ table \in [Slot -> Block \union {None}]
        /\ lost \in [Block -> SUBSET PoolId]
    BY DEF BoundInv, BoundTypes
  <2>5. cache \in [Block -> [ring : [Ring -> KeyType], pools : [PoolId -> [Ring -> KeyType]]]]
    BY DEF CacheInv, CacheType, BlockType
  <2>6. \A r \in Req : (r \in Running) <=> (index[r] # None)
    BY DEF BoundInv, HomeInv
  <2>7. \A r, q \in Running : r # q => index[r] # index[q] /\ table[index[r]] # table[index[q]]
    BY DEF BoundInv, HomeInv, ViewInv
  <2> QED
    BY <2>1, <2>2, <2>3, <2>4, <2>5, <2>6, <2>7 DEF RunnerTypeOK
<1> QED
  BY <1>1, <1>2, <1>3, PTL DEF Spec

================================================================================
