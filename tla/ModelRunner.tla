------------------------------ MODULE ModelRunner ------------------------------
(***************************************************************************)
(* The model runner while it serves, docker/model_runner_profile_trace.py: *)
(* execute_model takes the scheduler's output, updates the requests,       *)
(* builds the batch and runs the model, whose indexer layers write their   *)
(* cache (KpoolTail); sample_tokens verifies the drafts and moves the      *)
(* requests on.                                                            *)
(*                                                                         *)
(* Two counts are kept per request.  The one on the device is exact: the   *)
(* rejected drafts are taken off after every step.  The one on the host    *)
(* comes from the scheduler, which may run ahead of the outputs: it counts *)
(* every scheduled token until it has seen what was rejected.              *)
(*                                                                         *)
(* The scheduler is external; it gives a request its block of the tail     *)
(* cache for as long as it runs, schedules drafts only once the prompt is  *)
(* done, and preempts a request only when it has seen its outputs.         *)
(***************************************************************************)
EXTENDS KpoolTail, RunnerStartup, Functions

CONSTANTS
    Req,      \* requests
    Prompt,   \* Prompt[r]: the length of the prompt of r
    Slot,     \* the indices of RequestState
    Block,    \* the blocks of the tail cache
    Cuts,     \* where a prompt may be cut
    MaxLen,   \* max_model_len (bound)
    Preempts  \* preemptions (bound)

ASSUME ReqAssumption == IsFiniteSet(Req)
ASSUME PromptAssumption == Prompt \in [Req -> 1..MaxLen]
ASSUME MaxLenAssumption == MaxLen \in Nat
ASSUME PreemptsAssumption == Preempts \in Nat

None == "none"
ASSUME NoneAssumption == None \notin Slot

VARIABLES
    sched,     \* the scheduler's view of every request
    index,     \* req_states.req_id_to_index
    prefill,   \* req_states.prefill_len, per slot
    host,      \* req_states.num_computed_tokens_np, per slot
    device,    \* req_states.num_computed_tokens.gpu, per slot
    table,     \* block_tables: the tail block of a slot
    pending,   \* execute_model_state: the batch, or << >>
    cache,     \* the index and tail caches of a layer, per block
    lost       \* per block the pools that miss a token (history)

serveVars == <<sched, index, prefill, host, device, table, pending, cache, lost>>
vars == <<startupVars, serveVars>>

NoKey == Key(None, 0, FALSE)
Ring == 0..Kpool - 1
PoolId == 0..MaxLen \div Kpool
EmptyBlock == [ring |-> [o \in Ring |-> NoKey], pools |-> [j \in PoolId |-> [o \in Ring |-> NoKey]]]

Running == {r \in Req : sched[r].st = "running"}
Waiting == {r \in Req : sched[r].st = "waiting"}

Init ==
    /\ StartupInit
    /\ sched = [r \in Req |-> [st |-> "waiting", known |-> Prompt[r], seen |-> 0, late |-> 0,
                         preempted |-> 0]]
    /\ index = [r \in Req |-> None]
    /\ prefill = [s \in Slot |-> 0] /\ host = [s \in Slot |-> 0] /\ device = [s \in Slot |-> 0]
    /\ table = [s \in Slot |-> None]
    /\ pending = << >>
    /\ cache = [b \in Block |-> EmptyBlock]
    /\ lost = [b \in Block |-> {}]

-----------------------------------------------------------------------------
(* The scheduler's output.                                                 *)

(* What it may schedule for a request of which it has seen `seen` computed *)
(* tokens and knows `known`: a chunk of the prompt, or the token sampled   *)
(* last and drafts after it, of which `right` will be accepted.            *)
Chunks(known, seen) ==
    {[n |-> n, drafts |-> 0, right |-> 0] :
        n \in {m \in 1..known - seen : m = known - seen \/ seen + m \in Cuts}}
Steps(seen) ==
    {[n |-> 1 + x[1], drafts |-> x[1], right |-> x[2]] :
        x \in {y \in (0..Depth) \X (0..Depth) : y[2] <= y[1] /\ seen + 1 + y[1] <= MaxLen}}
Scheduled(known, seen) == IF seen < known THEN Chunks(known, seen) ELSE Steps(seen)

(* The plans for the requests of R; those it leaves out are not scheduled, *)
(* but a new request always is.                                            *)
Plans(R, new) ==
    LET Known(r) == sched[r].known
        Seen(r)  == sched[r].seen
        Each(P)  == {p \in [P -> UNION {Scheduled(Known(r), Seen(r)) : r \in P}] :
                        \A r \in P : p[r] \in Scheduled(Known(r), Seen(r))}
    IN  UNION {Each(P) : P \in {Q \in SUBSET R : new \subseteq Q}}

-----------------------------------------------------------------------------
(* execute_model                                                           *)

(* finish_requests: _remove_request for the finished and the preempted.    *)
BugFinishRequests(gone) == index    \* faulty: a preempted request keeps its slot
FinishRequests(gone) == [r \in Req |-> IF r \in gone THEN None ELSE index[r]]

(* add_requests: slot at[r], block home[r], all its state written anew.    *)
AddTo(f, at, value) ==
    [s \in Slot |-> IF \E r \in DOMAIN at : at[r] = s
                    THEN value[CHOOSE r \in DOMAIN at : at[r] = s] ELSE f[s]]
AddRequests(idx, at) == [r \in Req |-> IF r \in DOMAIN at THEN at[r] ELSE idx[r]]

(* update_requests: the host's count is the scheduler's for the scheduled  *)
(* requests that are not new.                                              *)
BugUpdateRequests(h, idx, cached) == h    \* faulty: the host's count is left alone
UpdateRequests(h, idx, cached) ==
    [s \in Slot |-> IF \E r \in cached : idx[r] = s
                    THEN sched[CHOOSE r \in cached : idx[r] = s].seen ELSE h[s]]

(* prepare_inputs: positions from the device's count, the upper bound of   *)
(* the length and the prefilling flag from the host's.                     *)
Row(r, step, s, start, h, plen, b) ==
    [req |-> r, slot |-> s, block |-> b, start |-> start,
     n |-> step.n, drafts |-> step.drafts, right |-> step.right,
     upper |-> h + step.n, prefilling |-> (IF h < plen THEN h ELSE plen) < plen]

(* sort_batch_req_ids: those with drafts first, full decodes before other  *)
(* lengths, the shorter ones first.                                        *)
SortClass(step) == (IF step.drafts > 0 THEN 0 ELSE 2) + (IF step.n = 1 + Depth THEN 0 ELSE 1)
SortBatchReqIds(plan) ==
    {ids \in Bijection(1..Cardinality(DOMAIN plan), DOMAIN plan) :
        \A i, k \in DOMAIN ids : i < k =>
            LET a == plan[ids[i]]
                b == plan[ids[k]]
            IN  \/ SortClass(a) < SortClass(b)
                \/ SortClass(a) = SortClass(b) /\ a.n <= b.n}

(* A pool across the start of a prefill row is made of what stands before  *)
(* the row in the batch: "Assumes pool-aligned chunk starts".              *)
Splits(row) ==
    LET j == row.start \div Kpool
    IN  IF row.start % Kpool # 0 /\ (j + 1) * Kpool <= row.start + row.n THEN {j} ELSE {}

(* One call, for the requests that finish, are preempted and are new; a    *)
(* new one gets slot at[r] and block home[r].                              *)
Execute(fin, pre, new, at, home, plan, ids) ==
    LET idx  == AddRequests(FinishRequests(fin \union pre), at)
        tab  == AddTo(table, at, home)
        plen == AddTo(prefill, at, [r \in new |-> sched[r].known])
        dev  == AddTo(device, at, [r \in new |-> 0])
        h    == UpdateRequests(AddTo(host, at, [r \in new |-> 0]), idx, DOMAIN plan \ new)
        rows == [i \in DOMAIN ids |->
                   LET r == ids[i]
                       s == idx[r]
                   IN  Row(r, plan[r], s, dev[s], h[s], plen[s], tab[s])]
    IN  /\ index' = idx /\ table' = tab /\ prefill' = plen /\ device' = dev /\ host' = h
        /\ lost' = [b \in Block |->
             (IF \E r \in new : home[r] = b THEN {} ELSE lost[b]) \union
                UNION {Splits(row) : row \in {x \in ToSet(Prefills(rows)) : x.block = b}}]
        /\ sched' = [r \in Req |->
             IF r \in fin THEN [sched[r] EXCEPT !.st = "done"]
             ELSE IF r \in pre
             THEN [st |-> "waiting", seen |-> 0, late |-> 0, preempted |-> sched[r].preempted + 1,
                   known |-> IF device[index[r]] < sched[r].known THEN sched[r].known
                             ELSE device[index[r]] + 1]
             ELSE IF r \in DOMAIN plan
             THEN [sched[r] EXCEPT !.st = "running", !.seen = @ + plan[r].n]
             ELSE sched[r]]
        /\ pending' = rows
        /\ cache' = IndexerWrite(cache, rows)

ExecuteModel ==
    /\ phase = "serving" /\ pending = << >>
    /\ \E fin \in SUBSET Running, new \in SUBSET Waiting :
       \E pre \in SUBSET {r \in Running \ fin : sched[r].late = 0 /\ device[index[r]] < MaxLen} :
       LET stay == Running \ (fin \union pre)
       IN  /\ MapThenSumSet(LAMBDA r : sched[r].preempted, Req) + Cardinality(pre) <= Preempts
           /\ \E at \in Injection(new, Slot \ {index[r] : r \in stay}),
                home \in Injection(new, Block \ {table[index[r]] : r \in stay}) :
              \E plan \in Plans(stay \union new, new) : \E ids \in SortBatchReqIds(plan) :
                 /\ fin \union pre \union DOMAIN plan # {}
                 /\ Execute(fin, pre, new, at, home, plan, ids)
    /\ UNCHANGED startupVars

-----------------------------------------------------------------------------
(* sample_tokens: sample and postprocess_sampled.                          *)

Rejected(row) == row.drafts - row.right
Advance(row) == row.n - Rejected(row)

(* The pool in progress after the step, if a rejected draft was stashed    *)
(* where one of its tokens was.                                            *)
Overruns(row) ==
    LET next == row.start + Advance(row)
        j    == next \div Kpool
    IN  IF \E p \in j * Kpool..next - 1 : p + Kpool < row.start + row.n THEN {j} ELSE {}

(* The scheduler has seen what was rejected before; `rejected` is to come. *)
Seen(entry, rejected) == [entry EXCEPT !.seen = @ - entry.late, !.late = rejected]

SampleTokens ==
    /\ phase = "serving" /\ pending # << >>
    /\ LET RowAt(s) == CHOOSE row \in ToSet(pending) : row.slot = s
           slots == {row.slot : row \in ToSet(pending)}
       IN  /\ device' = [s \in Slot |-> IF s \in slots THEN device[s] + Advance(RowAt(s)) ELSE device[s]]
           /\ lost' = [b \in Block |-> lost[b] \union
                            UNION {Overruns(row) : row \in {x \in ToSet(pending) : x.block = b}}]
           /\ sched' = [r \in Req |-> IF \E s \in slots : RowAt(s).req = r
                            THEN Seen(sched[r], Rejected(RowAt(index[r])))
                            ELSE sched[r]]
    /\ pending' = << >>
    /\ UNCHANGED <<startupVars, index, prefill, host, table, cache>>

(* The scheduler (external) sees what was rejected: at once, or while the  *)
(* next step runs.                                                         *)
Deliver(r) ==
    /\ phase = "serving" /\ sched[r].late > 0
    /\ sched' = [sched EXCEPT ![r] = Seen(sched[r], 0)]
    /\ UNCHANGED <<startupVars, index, prefill, host, device, table, pending, cache, lost>>

Next ==
    \/ Startup /\ UNCHANGED serveVars
    \/ Shutdown /\ pending = << >> /\ UNCHANGED serveVars
    \/ ExecuteModel
    \/ SampleTokens
    \/ \E r \in Req : Deliver(r)

Spec == Init /\ [][Next]_vars

-----------------------------------------------------------------------------
(* Properties.                                                             *)

KeyType == [req : Req \union {None}, pos : 0..MaxLen, ok : BOOLEAN]

(* Types; no two running requests share a slot or a block.                 *)
RunnerTypeOK ==
    /\ StartupTypeOK
    /\ sched \in [Req -> [st : {"waiting", "running", "done"}, known : 0..MaxLen,
                          seen : 0..MaxLen, late : 0..Depth, preempted : Nat]]
    /\ index \in [Req -> Slot \union {None}]
    /\ prefill \in [Slot -> 0..MaxLen]
    /\ host \in [Slot -> 0..MaxLen] /\ device \in [Slot -> 0..MaxLen]
    /\ table \in [Slot -> Block \union {None}]
    /\ cache \in [Block -> [ring : [Ring -> KeyType], pools : [PoolId -> [Ring -> KeyType]]]]
    /\ lost \in [Block -> SUBSET PoolId]
    /\ \A r \in Req : (r \in Running) <=> (index[r] # None)
    /\ \A r, q \in Running : r # q =>
          index[r] # index[q] /\ table[index[r]] # table[index[q]]

(* Every complete pool of a running request was compressed from its own    *)
(* accepted tokens, and between steps the ring holds those of the pool in  *)
(* progress: whatever the batches, the blocks used before and the drafts   *)
(* rejected.  Excepted are the pools of `lost`: those a prefill chunk has  *)
(* begun within, and those of which a rejected draft has overwritten a     *)
(* token, which a ring of Kpool slots cannot give back                     *)
(* (_kpool_compress_insert, kpool_seed_tail_cache, the decode write).      *)
CacheIsTrue ==
    phase = "serving" => \A r \in Running :
        LET b == table[index[r]]
            done == device[index[r]]
            now  == done \div Kpool
        IN  /\ \A j \in (0..now - 1) \ lost[b] :
                  cache[b].pools[j] = [o \in Ring |-> Key(r, j * Kpool + o, TRUE)]
            /\ pending = << >> /\ now \notin lost[b] =>
                  \A p \in now * Kpool..done - 1 : cache[b].ring[p % Kpool] = Key(r, p, TRUE)

(* A query attends to nothing after its own token, to the whole pool in    *)
(* progress, and to everything while the context is short: in padded, in   *)
(* reshaped and in flattened batches, on the fast path and on the other    *)
(* (_decode_topk_seq_lens, short_prefill).                                 *)
RowsAttendOwnContext ==
    LET decodes  == Decodes(pending)
        prefills == Prefills(pending)
        Own(A, p) == /\ A \subseteq 0..p
                     /\ ((p + 1) \div Kpool) * Kpool..p \subseteq A
                     /\ p + 1 <= TopK => A = 0..p
    IN  /\ decodes # << >> => \A i \in DOMAIN Tokens(decodes), flatten \in BOOLEAN :
              \A A \in DecodeContexts(decodes, i, flatten) : Own(A, Tokens(decodes)[i].pos)
        /\ prefills # << >> => \A i \in DOMAIN Tokens(prefills) :
              \A A \in PrefillContexts(prefills, i) : Own(A, Tokens(prefills)[i].pos)

(* Although the host runs ahead of the device, its bound on the length     *)
(* holds, and it agrees with the device on which rows are still in their   *)
(* prompt (update_requests, gather_batch_req_state, post_update).          *)
HostViewIsSafe ==
    \A row \in ToSet(pending) :
        /\ row.start + row.n <= row.upper
        /\ row.prefilling <=> row.start < prefill[row.slot]
================================================================================
