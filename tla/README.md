# TLA+ models of the two-node campaign

The repository measures a quantised model on a pair of DGX Spark nodes:
a controller downloads the checkpoint onto both nodes, prepares the kernel
cache, arms a memory guard on each node, launches the server pair with
different speculative depths, probes and grades it, and leaves the best
configuration serving. Two patched files of the server come with it. The
modules here model the parts whose correctness depends on the order of things,
check them with TLC on small instances and, for the guard and its campaigns,
the request deadline and the evidence, the kernel caches, the download and the
counts of the runner, prove them with TLAPS for all values of the constants.

## The system

| component | source | state | operations | what makes it hard |
|---|---|---|---|---|
| memory guard | `memory_guard.py` | its place in the loop, `memory-guard-state.json`, `memory-guard.done`, the container under `NAME` | arm, heartbeat, stop the container, verdicts | inspects by name and kills by id, docker may hang or fail and its failure counts as absence, OOM killer, a later guard on the same files |
| arming | `retry_text128.py` `prepare_guard`, `guarded_inspect`, `disarm` | `ARMED`, the pid it started, the files of the guard | start a guard, wait for its heartbeat, trust it, release it | files and guards left by a campaign that crashed |
| controller | `workflow.py`, `retry_text128.py` `__main__` | the trial, the records, `text128-status.json` | `stop_pair`, `launch`, polls, `collect`, selection, relaunch, cleanup | signals and the global alarm at any point, ssh failing, nodes failing |
| launcher | `launch_node.py` | a process on a node, its container | checks, `docker run`, `--stop` | it outlives the ssh client that started it; `--stop` takes a failing inspection for an absent container, and nobody looks at its return code |
| probes | `probes.py` | the one timer of the process; the request, stream and result file of every sample, `long-context-passed.json` | `request_deadline`, `stream`, the suites | two deadlines on one timer, files that are cut between two writes and written again |
| verification | `verify_saved_results.py` | none: it reads the evidence | `verify_sample`, `verify_campaign` | files of several processes side by side, which carry no number of theirs |
| preparation | `prepare.py`, `workflow.preflight`, `retry_text128.py` | copies of the recipe on the nodes, the overlay, `prepared.json` | two threads, copies host by host | each program carries some of the files, and may stop between two nodes |
| selection | `workflow.py` `evaluate_quality`, `load_saved_baseline`, `main` | reports, `quality-passed.json`, `comparison.json`, a saved baseline | merge, record, reuse, select | stale markers, empty and tied lists, a baseline of other inputs, files of two campaigns side by side |
| kernel cache | `cache_ready_retry.py`, `kernel_probe.py` | diagnostics on both nodes, receipts, caches | poll, settle, hash, copy, read back, clean up | receipts of earlier runs, files in the middle of being written, the alarm, a cleanup that fails on a node |
| download | `download/*.py`, `workflow.wait_downloads` | files, status file and its temporary, gate | fetch, verify, publish, poll | two downloaders on the same files |
| model runner | `docker/model_runner_profile_trace.py` | request slots, counts on host and device, `execute_model_state`, caches | start-up, `execute_model`, `sample_tokens` | the host runs ahead of the device; state by slot that is used again |
| indexer | `docker/sparse_attn_indexer_kpool_sm121.py` | pools and tail rings | prefill and decode writes, top-k | speculative tokens in a ring, three batch layouts |
| the rest | tests, template, evidence | | | data; not modelled |

The controller talks to the nodes over ssh only: it starts launchers, guards
and downloaders there, and reads files and docker. All of these outlive their
ssh client, which is where most of the hazards come from. The guard and the
campaign share three things per node: the state file, the done marker and the
container. The probes share the process, hence the timer, with the controller.
A campaign and the preparation before it share the files on the nodes, and two
campaigns share the directory of the results.
The runner drives the indexer: its count on the device gives the positions,
and the acceptance of drafts says which of the keys written were right.

## Modules

| module | what it is |
|---|---|
| `MemoryGuard` | the guard process, docker, memory and time on a node; one action per step of `main` and `stop_owned`, `GuardFault` for what can hit it |
| `WatchLease` | the abstract promise of a guard: a watch ends by release, by firing with nothing left running, by missing what it saw nothing of, by failing, or is lost |
| `GuardLease` | the refinement mapping from `MemoryGuard` to `WatchLease` |
| `GuardArming` | extends `MemoryGuard` with campaigns that follow each other and may crash |
| `Campaign` | extends `GuardArming` with the controller and the launcher processes |
| `RequestDeadline` | `request_deadline`, the timer and the two handlers |
| `StreamRecord` | extends `RequestDeadline` with `stream`, `speed`, `long_context` and their files, processes that follow each other, and the verification as operators on the files |
| `Selection` | grading, records and the choice of the winner; `WinnerIsBest` is a reference definition |
| `Recipe` | extends `Selection` with the versions of the recipe's files, the programs that carry them, the pair that is launched from them, what stands in `OUT` (`comparison.json`, launch metadata, marker: each written at its own time) and the baseline that is reused |
| `CacheTransfer` | the controller of the kernel cache and the diagnostic on either node |
| `Download` | downloaders, controller and gate |
| `KpoolTail` | the writes and reads of the indexer, as operators on its cache |
| `RunnerStartup` | the runner up to its first request |
| `ModelRunner` | extends both with requests, batches and the two counts |
| `*Proof` | theorems about the module they are named after; `GuardProof` is about `MemoryGuard`, `GuardLease` and `GuardArming`, and `StreamRecordProof` about `RequestDeadline` as well |
| `MC*` | instances for TLC |

`Campaign` takes every step of `GuardArming` and `MemoryGuard` as it is, so the
three share their state. The launchers of a node are numbered: `Cur` is the one
whose ssh client the controller waits for, `Stray` the place of one whose
client has gone. `ArmingIsRespected` shows that the campaign uses
guards only as `GuardArming` allows. `StreamRecord` takes every step of
`RequestDeadline`, and `Recipe` those of `Selection`, in the same way.
Operators whose name begins with `Bug` are the plausible mistakes against which
each property is tried; no specification uses them.

How state corresponds to code: the variables of `MemoryGuard` are the files and
processes of a node (`file[h]` is `memory-guard-state.json`, written by
`Save`); `pc` of `Campaign` names the function the controller is in, `at` the
index of its loop over `HOSTS`, `job` the launcher processes; in `ModelRunner`,
`host` and `device` are `num_computed_tokens_np` and `num_computed_tokens.gpu`,
`table` is the tail group of `block_tables`, `pending` is
`execute_model_state`. In `StreamRecord` a file says by which process it was
written and about which version of the prompts, which the code's files do not:
`VerifySample` may look only at what the code looks at, the properties at the
rest. In `Recipe` a file is its version, `node[h]` holds the copies of a node,
`record` and `metadata` are `comparison.json` and the `<host>-launch.txt` of the
baseline in `OUT`, and `made` remembers what each record was measured with.
History variables, of which the code knows nothing: `unstopped` (the nodes where
docker failed the stop of the cleanup), `blind` (a guard had lapsed when the
launch began), `missed` (nodes where a call to the diagnostic failed), `overrun`
(a later baseline was launched over the record), `made` and `lost`. A property
that excepts something names it by one of these. A key in the cache of `KpoolTail` is the token it was
computed from, with a flag that says whether the token was accepted.

## Runs

| run | instance | what it shows |
|---|---|---|
| `MemoryGuard` | one node, two guards in turn of which the first may fail in every way, its docker calls included, three containers | a `triggered` verdict that shows a stopped container is true (`TriggeredMeansStopped`); foreign containers are left alone; verdicts are final; the guard implements the lease, in which an inspection that fails is a miss; every guard ends; memory pressure gets the container stopped |
| `GuardArming` | three campaigns, three guards, inspections of the campaign that fail | at most one guard watches a node; a campaign holds its own guard; only the owner releases it |
| `Campaign_mishap` | two nodes, two trials on a saved baseline, one mishap, which may be a docker call that fails | what is measured is the trial, what is complete serves the winner, a blind trial is not measured, the cleanup stops the pair but where docker fails its stop, a controller that dies leaves guards at work, containers follow guards |
| `Campaign_live` | two nodes, a baseline and a trial, the controller may be killed | the campaign ends; what a dead controller left is stopped by the guards |
| `Campaign_swallowed` | one mishap | violation: a signal becomes a failed trial |
| `Campaign_stray` | one mishap | violation: a launcher left behind starts a container after the cleanup |
| `StreamRecord` | deadline 3, limit 2, 4 ticks; two directories of a speed and a long-context sample, two processes, two versions of the prompts | the deadline survives requests, bounds them, and never comes early; an accepted sample is one request of one process; what a process measured is its own, and accepted if answered to a stop |
| `RequestDeadline_lost` | deadline 8, limit 3 | violation: a deadline that falls into a request is only that request's failure |
| `Recipe` | trials of depth 0 and 7, two rates, three files edited, five programs and edits, two failures | the nodes of a pair are alike; what is compared was measured alike; what serves is what was measured; the winner against its definition; the marker |
| `CacheTransfer` | two kernels, any leftover receipts, any call that fails, the alarm at any point | only a validated copy starts the campaign; what is copied is what was hashed; a diagnostic is left only where a call to its node failed; it ends |
| `Download` | one node, two downloaders, two files | no false certificate; the gate ends |
| `ModelRunner` | two requests, pools of two, two drafts, up to six tokens, prompts cut at 1 or 4, one preemption | pools and rings, contexts, the host's bound, one cache |

Bounds. Guards, containers and campaigns are numbered and never used again, so
two or three of each show every meeting of an old one with a new one. One
mishap per campaign is enough to reach every handler; two would add the failure
of a handler, of which `DeadLeavesGuards` sees the case of a signal. In
`Campaign_mishap` the controller is not killed as well, for the time that takes;
`Campaign_live` has the crashes without mishaps, and the theorems both at once
and any number of them. Nodes are
symmetric but for the order of the loops, so two show every order. Times are
booleans (`overdue`, `late`) except in `RequestDeadline` and `StreamRecord`, where the values
matter: neither 8 and 3 nor 3 and 2 divide, so that deadlines fall inside,
between and at the end of requests. Two processes and a sample of either kind per directory are
enough for every mixture of an old file with a new one; two directories separate a trial that
was measured from one that was cut. Five programs and edits make the longest story that
matters in `Recipe`: a preparation, a campaign, an edit, another preparation
that may fail on one node, and a campaign that resumes. Two trials are enough there, since with
any more the rest are drafts like the second. In `ModelRunner` a pool of two with two drafts is the smallest
instance in which a rejected draft reaches back into the ring; a preempted
request comes back with a longer prompt, so that both requests are prefilled in
one batch, and prompts of 5 and 2 give chunks on both sides of the decode
threshold; a cut at 1 makes a chunk that begins within a pool. Slots and
blocks are symmetric. Where a type invariant is not in a run, it is
proved, or its parts that matter are in the other invariants of the run.

`CHECK_DEADLOCK FALSE` is set where the system really stops: a campaign, a
gate or a guard that has ended takes no more steps.

## Fairness

Weak fairness on each process that the operating system schedules: the guard,
the controller, the launchers, the downloaders and the gate. Deadlines are
reached (time passes), and docker answers or the call times out. Nothing else
is assumed: no fairness on faults, on memory recovering, on campaigns being
started, or on ssh succeeding. `GuardEnds` needs only the deadline;
`PressureIsAnswered` is stated for guards that are not hit by a fault.
`CampaignEnds` rests on the deadlines of the waits. `CrashedPairIsStopped` is
checked without guard faults, for a guard that dies cannot stop anything.

## Proofs

`GuardProof`, the guard: `TriggeredMeansStopped` is not inductive. `GuardInv` adds
that at most one guard of a node is past `boot`, that the target of a kill is a
container of ours that was running, and what the state file of each guard says
about its place; `InitInv` and `StepInv` show it inductive, one lemma per
process, and the theorems follow. From `GuardInv` the module also shows
that each step maps to a step of `WatchLease` or to a stutter. What the lease can
promise is limited by `memory_guard.py:38`, where any failing inspection ends the
guard as `triggered_container_absent`: of a guard whose docker calls may fail
that verdict maps to `missed`, which promises nothing of the node. Both
hold for any number of nodes, guards and containers, from the named assumptions
of `MemoryGuard`.

`GuardProof`, the arming: `ArmInv` adds to `GuardInv` what a campaign knows of the
guards of a node from how far it is with it (`CampaignKnows`), who may have
touched the done marker (`OnlyOwnersRelease`), and that a guard that has killed
finds its target stopped (`KillsWork`). The key is `ChecksOldKnows`: with no
guard in `boot` or `assert`, the state file tells the truth about every guard
that is alive. Hence `ArmNextIsNext`: every step of a campaign is a step that
`MemoryGuard` allows its environment, `GuardInv` is kept by the first part,
and `CampaignsAreOperators` carries all theorems of the
guard over to campaigns. `OneWatcher`, `HeldByOwnGuard` and `ReleasedByOwner`
follow, for any number of nodes, guards and campaigns. The theorems assume that
no docker call fails (`"docker" \notin GuardFaults`, as in the run). The
assumption is needed: with docker faults TLC finds `OneWatcher` violated. A
guard whose kill failed has saved `triggered` and is about to save `error`; a
campaign that starts in that moment takes the node for free, the `error` of the
old guard then replaces the file of the new one, and a third campaign starts a
second watcher.

`StreamRecordProof`: `RInv` relates the timer, the saved timer and the
deadline at each place of the context manager. The theorems assume
`~Preemptible`, that is, no time between the calls of the bookkeeping itself.
With `Preemptible = TRUE` TLC finds `DeadlineIsKept` violated (the alarm
arrives in the `finally`, before the timer is off, `probes.py:24`) and
`RequestsAreBounded` exceeded by the time that passes before the timer is set;
`NeverEarly` still holds. The second part of the module carries `DeadlineIsKept`
over to the processes that make the requests, and proves the two properties of
the evidence from `FInv`: the three files of a sample are in order, the ones under
way belong to the process that runs, and the samples of a measured directory
were made by it, with a long context that it marked itself if it was right.
`stream` lets every end pass but none at all and `length`, `verify_sample` only
`stop`; `MeasuredIsAccepted` says of which samples the two agree. These two need no assumption about the timer: wherever it
cuts, the files are in order.

`CampaignProof` proves every safety property that the runs of `Campaign`
check, for any number of nodes, guards, trials, signals, faults and troubles,
and whatever docker answers to the guards, to the launchers and to `inspect`. `CampaignInv` is built in layers, each of which
needs those before it:

* `CampaignTypeOK`, with `ControlTypes`: a process that an interrupted ssh
  client leaves behind needs a place of its own (`Stray`), so the places are
  counted by the interruptions so far (`RunsCounted`, `JobsPlaced`).
* `NodeKnows` and `Owned`: what the files, the marker and the guards of a node
  are at each stage of its arming, now for one campaign. Other than in
  `GuardProof` docker may fail here, since no later campaign can meet
  what that leaves.
* `GuardsPlaced`: at which place of the controller which nodes are armed,
  held or released. With it every step is one that `ArmNext` and `Next` allow
  (`ArmKinds`), which gives `RespectsArming` and `CampaignIsOperator`.
* `BlindKnows`: a trial launched when a guard had lapsed (it had saved a verdict,
  or no heartbeat for 20 seconds) ends in `guarded_inspect`. By `HeartKnows`
  no guard is polling behind a stale file, so it stays stale, unless a guard
  stalls and goes on: the theorem assumes that none does. A guard that was killed is trusted until its file is
  20 seconds old, here as in the code, and a trial measured meanwhile counts.
* `TrialServes`: from its launch on, the nodes that are launched hold nothing
  but the depth of the trial, and no launcher that could bring another.
* `CleanupClears`: the handler stops the nodes in their order, and what it has
  stopped stays down while nothing was interrupted. `Cleared` leaves out the
  nodes where docker failed that stop (`unstopped`).
* `DeathKnows`: when the controller is dead, either it has released no guard, or
  nothing runs any more on the nodes that were cleared, and no launcher is under
  way.

None of the properties is inductive: each speaks of one place of the
controller, and the layers say what must hold at the other thirty for it to get
there. `CampaignGuards` shows what a single campaign does not need docker for.
`DeadLeavesGuards` speaks of at most one interruption (`OneInterruption`); a
second one may leave a launcher behind, as in `Campaign_stray`.

`CacheTransferProof`: a receipt of this run that says `complete` means a whole
cache (`ReceiptsAreTrue`); from the exit of the producer on nothing writes to
the first cache (`SourceRests`); the second diagnostic is started late and is
of this run (`DestWaits`); the cleanup has come as far as its place says
unless the alarm struck, or a call to that node failed (`CleansUp`, `missed`).
What fails on one node does not keep the cleanup from the other. Together they are inductive, for any
number of kernels and polls and any leftover receipts.

`DownloadProof`: `Certificates` says that whoever says `complete_verified`, or is
about to (a downloader's next phase, the temporary file, the status, what the
gate has read so far), says so of files that are good, and good files stay
good. `write_text` truncates first, so that a downloader may rename a file that
another has just emptied or is half through writing; such a file certifies
nothing. Hence both invariants, for any number of nodes, files and downloaders,
although the gate reads the nodes one after the other and the run has one node.

`RecipeProof`: `RecipeInv` says which program runs at each place of a campaign
(`Places`), which copies have arrived on the nodes by then (`Arrived`), that the
pair that runs was launched from those copies (`Running`), that every record was
measured with the files that are still there (`Measured`), what the grades
say of a record and its marker (`Graded`), and that a record in `OUT`, or in the
results that were moved away, has its own metadata and marker beside it unless
it was overrun. They are inductive together.
That `min` and `max` find a best record needs an element that nothing precedes
in a finite order; it is proved from the well-foundedness of strict inclusion on
finite sets (`FirstOf`), for the provers cannot do the induction. `RecipeSpec`
includes the grading and the selection, so `WinnerIsBest` and `MarkerIsHonest`
are proved for campaigns that resume, fail and are cut as well, for any trials,
rates, edits and number of programs. `ServedAsMeasured` assumes at least two
trials, as the code has: of a single one that is reused nothing would ever be
launched.

`KpoolTailProof` is about the operators of `KpoolTail`, for batches of any
length, any pool size of at least two, and any top-k and number of drafts.
Three results carry the rest:

* `TopkSeqLens`: the length that `_decode_topk_seq_lens` gives to the row of a
  token is its position plus one, whether the grid is padded or not.
* `ExpandFact`: an expansion of any choice of pools stays in the context of the
  query, contains the pool in progress, and is all of a short context.
* `IndexerWritten`: what a batch makes of the cache, if its rows are `GoodRows`
  (in `KpoolTailProof`: each is a chunk or a decode of a request within its
  block, and no two share a block). `After` says it of one block: a place of the ring holds the last token of the row that falls on
  it, or what it held; a pool that ends within the row is made of tokens of the
  row and, before its start, of what the ring held; the other pools are kept.
  It holds of every row but for the pool of `Missed`, the one a prefill chunk
  begins within, and no block without a row changes. For the decode write it is
  proved along the two folds (`StashStep`, `RowWritten`, `DecodeWritten`); for
  the prefill write from the places that the tokens of a row have in the batch
  (`SeedsFact`, `PooledFact`).

The provers cannot use an induction theorem on an operator, so these proofs
make do with sets of numbers: a counterexample would have a least one
(`Least`, `UpTo`), a partial sum and a fold are the last of a chain of values
(`Sums`, `Chained`), and such chains exist (`SumsExist`, `FoldingExists`).

`ModelRunnerProof` has an invariant of four parts:

* `StartInv` says for each phase of the start-up which caches exist and on which
  one the parts were built; with it `ServesOnOneCache` is proved.
* `ViewInv` ties the two counts together: what the scheduler has counted, less
  what it has not yet seen rejected, is the count on the device plus the batch
  under way, and a rejection is outstanding only once the prompt is done. The
  second half is what makes the host's prefilling flag right while its count is
  too high. From it `HostViewIsSafe` follows.
* `BoundInv` says which request has which slot and block, that no row reaches
  past `max_model_len`, and that decodes with drafts come first in a batch.
  With `ViewInv` and the results on lengths and expansions it gives
  `RowsAttendOwnContext`.
* `CacheInv`: the block of a running request is `Good` for the tokens it has
  computed, or, while a batch is under way, for those it will have accepted. The
  batch is written in `execute_model` and accepted in `sample_tokens`, so the
  invariant has to speak of rows whose outcome is not known to the code yet.
  `AfterGood` is the step: a block that was good before a row, written as
  `After` says, is good for the accepted tokens, since a rejected draft can
  spoil only the pool in progress, which `Overruns` then names. `CacheIsTrue`
  is read off it.

All hold for any finite set of requests, any slots, blocks, prompts and
number of drafts, and for every schedule that the model of the scheduler allows; the assumptions are those of
the modules, that `None` is no slot among them. `RunnerTypeOK` follows from all
four parts.

The theorems state every invariant and every action property that a passing run
checks. Not proved, by TLC only: the liveness properties, for fairness and
`ENABLED` are out of the prover's reach.

## What the code does and the documents do not say

* `Campaign_swallowed`: `interrupted` raises `InterruptedError`, which is an
  `Exception` and an `OSError`; the handlers of a trial take it for a failure
  of the trial and the campaign goes on.
* `Campaign_stray`: a signal ends the ssh client, not the launcher on the node.
* `RequestDeadline_lost`: the campaign's alarm in a request runs the handler of
  the request, and the timer is not set again.
* A container may start after its guard has ended: `workflow.py:103` launches
  first and `guarded_inspect` looks afterwards (`retry_text128.py:102`).
  `BlindTrialIsNotMeasured` shows that such a trial goes no further, once the
  guard's verdict is saved or its heartbeat is 20 seconds old.
* Any `docker inspect` that fails is taken for an absent container: by a guard
  that should stop it (`memory_guard.py:38`), by `launch_node.py --stop` (line
  86, with exit code 0), by `prepare_guard` (`workflow.py:43`), and by the
  cleanup of the diagnostic (`cache_ready_retry.py:45`). A guard then ends as
  `triggered_container_absent` beside a running container, and a cleanup goes
  on to the disarming, for `stop_pair` ignores return codes as well.
  `KeepsLease`, `CleanupStops`, `DeadLeavesGuards` and `NoProbeLeft` except
  exactly the nodes where that happened.
* The receipt of the diagnostic is read before `docker ps`
  (`cache_ready_retry.py:63`): one that passes in between is reported as
  failed. This is a false alarm and never a false success.
* The tail ring has as many slots as a pool has tokens
  (`sparse_attn_indexer_kpool_sm121.py:683`). A rejected draft beyond the end of
  a pool has overwritten a token of that pool, and if the rejection leads back
  into the pool it is compressed with the wrong token. A prefill chunk that
  begins within a pool has the tokens before it in no input of
  `_kpool_compress_insert` (`:69`), and that pool is lost too. `CacheIsTrue`
  excepts exactly those pools (`lost`) and holds for all that follow. The
  first cannot happen without drafts or with one draft, the second not when
  chunks are cut at multiples of the pool size, as the launcher's 128 tokens per
  batch do for one request at a time. The launcher serves depths 3 and 7; what
  the real kernel does is not in this repository, so this is noted here and is
  not a run.
* `verify_sample` compares the record with the stream, and not its prompt with
  the stored request. If the prompts are edited and a rerun is cut between
  writing the request and opening the stream (`probes.py:86`), the old sample
  is accepted although the stored request was never sent. `AcceptedIsOneRequest`
  excepts that case and no other. The verification also trusts `[DONE]`
  and does not look for the reasoning leaks that `stream` looks for.
* `long-context-passed.json` is written by `long_context` and removed by nothing
  (`evaluate_quality` removes `quality-passed.json`). If a campaign is run again
  in the same `OUT` and its long context fails, the mark of the earlier one
  makes `verify_campaign` refuse a campaign whose samples are all in order
  (`verify_saved_results.py:74`). `MeasuredIsAccepted` excepts that case.
* `stream` accepts every finish reason but none and `length` (`probes.py:87`),
  `verify_sample` only `stop`.
* A `comparison.json` may outlive the samples it was made from: a later campaign
  in the same `OUT` writes its own launch metadata with its baseline
  (`workflow.py:105`) and a new `comparison.json` only with its first record.
  If that baseline fails, the old record stands beside the metadata and the
  marker of another launch, and a third campaign may resume it:
  `load_saved_baseline` compares the metadata. `MeasuredAlike`,
  `ServedAsMeasured` and `MarkerIsHonest` except a record that was `overrun` in
  this way, and nothing else.
* `prepared.json` stays when `prepare.py` is run again and fails on a node, and
  the kernel patch is never compared between the nodes. `PairIsAlike` therefore
  speaks of the patch and the overlay only if the last preparation came to its
  end.
* `load_saved_baseline` compares the probes, the command and the template, but
  neither kernel nor runner patch, although it means to reuse a baseline "only
  when inference inputs match". `MeasuredAlike` and `ServedAsMeasured` except
  those files for a baseline that is reused.

## Assumed

* The operator runs one program at a time (`prepare.py` takes no lock), edits
  between programs, stops the pair when a campaign is over, and keeps
  results together with the `probes.py` they were made with. `workflow.lock`
  keeps two campaigns apart.
* Nobody starts a campaign before the guard of the last one has made its first
  save (`NextCampaign`).
* External, and modelled from how the code uses them: docker, ssh, the OOM
  killer, `snapshot_download` (it may take a file of the right size for
  present), the scheduler and the kernels of the server.

## Not modelled

The text of requests and answers and what a probe asks; the parsing of events
beyond whether and how the answer ended; hashes and the tokenizer's proof in
the preflight (an outcome); the docker command line, `--dry-run`, the launch
metadata beyond command and template, image and packages; logging and reports. The tests, the chat template
and the stored evidence are data. In the runner: pipeline, data and context
parallelism, LoRA, encoders, pooling models, adaptive verification, structured
output, prefix caching (off in the launcher) and the numerics. In the indexer:
quantisation, logits, the FP4 cache, the path without a tail cache and
`index_kpool = 1`; which pools are best is any choice.

## Plan

Done: guard, arming, campaign, deadline, evidence and verification, recipe,
selection, cache, download, runner and indexer, and the proofs above. Left, in
this order:

1. `Campaign` with two mishaps, on a smaller instance of its own, and the
   proof of what `DeadLeavesGuards` says when there are two.
2. `ModelRunner` with a second step in flight in the draft handler.
