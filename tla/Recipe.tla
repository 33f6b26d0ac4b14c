--------------------------------- MODULE Recipe ---------------------------------
(***************************************************************************)
(* What a campaign is run with: the files of the recipe on the operator's  *)
(* machine, their copies on the two nodes, and the programs that carry     *)
(* them there: prepare.py, retry_text128's own copy of the model runner,   *)
(* preflight, launch and load_saved_baseline, with the grading and the     *)
(* selection of Selection on top.                                          *)
(*                                                                         *)
(* A file is known by its version.  Not every program carries or compares  *)
(* every file, and none of them can tell what the one before it left half  *)
(* done: prepared.json stays when prepare.py is run again and fails.       *)
(*                                                                         *)
(* The operator runs one program at a time (prepare.py takes no lock) and  *)
(* edits between them; he moves the results away, to resume from, together *)
(* with the probes they were made with, or leaves them in OUT.  There they *)
(* are separate files: the next campaign writes its own launch metadata    *)
(* and markers from its first launch on, but comparison.json only when it  *)
(* has a record to put in it.                                              *)
(***************************************************************************)
EXTENDS Selection

CONSTANTS
    Edited,   \* the files that are edited
    Version,  \* their versions
    Command,  \* the docker command that a version of the launcher makes
    MaxOps,   \* programs and edits (bound)
    MaxFaults \* steps that fail and programs that are cut (bound)

Launcher == "launch_node.py"
Template == "chat_template.jinja"
Indexer  == "sparse_attn_indexer_kpool_sm121.py"
Runner   == "model_runner_profile_trace.py"
Probes   == "probes.py"

File == {Launcher, Template, Indexer, Runner, Probes}
Sent == File \ {Probes}

ASSUME EditedAssumption == Edited \subseteq File
ASSUME VersionAssumption == Version \subseteq Nat \ {0} /\ 1 \in Version
ASSUME CommandAssumption == Command \in [Version -> Nat]
ASSUME MaxOpsAssumption == MaxOps \in Nat /\ MaxFaults \in Nat

VARIABLES
    files,     \* ROOT: the version of every file
    node,      \* the copies on a node
    overlay,   \* its transformers-overlay
    worker,    \* prepare(host): how far the thread is
    prepared,  \* prepared.json is there
    clean,     \* the prepare.py started last has written it (history)
    job,       \* the program that runs, and how far it is
    at,        \* the host of its loop
    resume,    \* --resume-baseline is given
    there,     \* OUT/baseline exists
    metadata,  \* its <host>-launch.txt: launcher and template of each node
    record,    \* the baseline in OUT/comparison.json
    overrun,   \* a later campaign has launched its baseline over it (history)
    saved,     \* the results that were moved away last
    made,      \* what every record of runs was measured with (history)
    pair,      \* the containers that serve, as a pair
    ops,       \* programs and edits so far
    faults     \* failures so far

nodeVars == <<node, overlay, worker, prepared, clean>>
fileVars == <<files, node, overlay, worker, prepared, clean>>
outVars  == <<there, metadata, record, overrun, saved, made>>
allVars  == <<vars, fileVars, job, at, resume, outVars, pair, ops, faults>>

Hosts == 1..2     \* HOSTS, in its order
Missing == 0      \* no copy, or one that was cut

NoCopy == [f \in Sent |-> Missing]
Down == [up |-> FALSE, depth |-> Nothing, clean |-> FALSE,
         on |-> [h \in Hosts |-> NoCopy], lib |-> [h \in Hosts |-> "none"]]
Unmeasured == [probes |-> Missing, long |-> FALSE, pair |-> Down]
NoReceipt == [run |-> NoRun, made |-> Unmeasured]

(* What launch_node prints of itself: its command and the template's hash. *)
Described == {Launcher, Template}
NoMetadata == [h \in Hosts |-> [f \in Described |-> Missing]]

NoResults == [receipt |-> NoReceipt, metadata |-> NoMetadata, passed |-> FALSE,
              overrun |-> FALSE]

RecipeInit ==
    /\ Init /\ marker = {}
    /\ files = [f \in File |-> 1]
    /\ node = [h \in Hosts |-> NoCopy] /\ overlay = [h \in Hosts |-> "none"]
    /\ worker = [h \in Hosts |-> "off"] /\ prepared = FALSE /\ clean = FALSE
    /\ job = "idle" /\ at = 1 /\ resume = FALSE
    /\ there = FALSE /\ metadata = NoMetadata /\ record = NoReceipt /\ overrun = FALSE
    /\ saved = NoResults /\ made = <<>> /\ pair = Down /\ ops = 0 /\ faults = 0

-----------------------------------------------------------------------------
(* The operator.                                                           *)

Acts == job = "idle" /\ pc = "trial" /\ ops < MaxOps /\ ops' = ops + 1 /\ UNCHANGED faults

(* Something fails. *)
Faulty == faults < MaxFaults /\ faults' = faults + 1

Edits ==
    /\ Acts
    /\ \E f \in Edited : \E v \in Version \ {files[f]} : files' = [files EXCEPT ![f] = v]
    /\ UNCHANGED <<vars, nodeVars, job, at, resume, outVars, pair>>

StartsPrepare ==
    /\ Acts /\ job' = "prepare"
    /\ worker' = [h \in Hosts |-> "copy"] /\ clean' = FALSE
    /\ UNCHANGED <<vars, files, node, overlay, prepared, at, resume, outVars, pair>>

(* load_saved_baseline's conditions on the receipt itself. *)
Reusable == record # NoReceipt /\ record.run.ok /\ record.made.long

(***************************************************************************)
(* When a campaign is over he stops the pair, and moves all that is in OUT *)
(* away or leaves it where the next campaign will write its own.           *)
(***************************************************************************)
PutsAway ==
    /\ job = "idle" /\ pc \in {"done", "failed"}
    /\ \/ UNCHANGED <<marker, there, metadata, record, overrun, saved>>
       \/ /\ marker' = {} /\ there' = FALSE /\ metadata' = NoMetadata
          /\ record' = NoReceipt /\ overrun' = FALSE
          /\ saved' = IF Reusable
                      THEN [receipt |-> record, metadata |-> metadata,
                            passed |-> 0 \in marker, overrun |-> overrun]
                      ELSE saved
    /\ pc' = "trial" /\ long' = FALSE /\ short' = Unknown
    /\ runs' = <<>> /\ made' = <<>> /\ winner' = NoRun /\ status' = "none"
    /\ pair' = Down /\ resume' = FALSE
    /\ UNCHANGED <<fileVars, job, at, ops, faults>>

(* retry_text128.py, with --resume-baseline or without. *)
StartsCampaign ==
    /\ Acts /\ job' = "send" /\ resume' \in BOOLEAN
    /\ UNCHANGED <<vars, fileVars, at, outVars, pair>>

-----------------------------------------------------------------------------
(* prepare.py: one thread per host.                                        *)

Working(h, stage) == job = "prepare" /\ worker[h] = stage
Fails(h) == Faulty /\ worker' = [worker EXCEPT ![h] = "failed"]
GoesOn(h, stage) == UNCHANGED faults /\ worker' = [worker EXCEPT ![h] = stage]

CopiesIndexer(h) ==
    /\ Working(h, "copy")
    /\ \/ Fails(h) /\ node' \in {node, [node EXCEPT ![h][Indexer] = Missing]}
       \/ GoesOn(h, "install") /\ node' = [node EXCEPT ![h][Indexer] = files[Indexer]]
    /\ UNCHANGED <<vars, files, overlay, prepared, clean, job, at, resume, outVars, pair, ops>>

(* docker pull if it must be, then pip install --target /overlay.          *)
InstallsOverlay(h) ==
    /\ Working(h, "install")
    /\ overlay' \in {[overlay EXCEPT ![h] = o] : o \in {overlay[h], "partial", "whole"}}
    /\ Fails(h) \/ (overlay'[h] # "none" /\ GoesOn(h, "check"))
    /\ UNCHANGED <<vars, files, node, prepared, clean, job, at, resume, outVars, pair, ops>>

ChecksOverlay(h) ==
    /\ Working(h, "check")
    /\ Fails(h) \/ (overlay[h] = "whole" /\ GoesOn(h, "ready"))
    /\ UNCHANGED <<vars, files, node, overlay, prepared, clean, job, at, resume, outVars, pair, ops>>

(* list(ex.map(prepare, HOSTS)) raises if one of the threads did. *)
BugBothReady == \E h \in Hosts : worker[h] = "ready"    \* faulty: one is enough
BothReady == \A h \in Hosts : worker[h] = "ready"

EndsPrepare ==
    /\ job = "prepare" /\ \A h \in Hosts : worker[h] \in {"ready", "failed"}
    /\ IF BothReady THEN prepared' = TRUE /\ clean' = TRUE ELSE UNCHANGED <<prepared, clean>>
    /\ job' = "idle" /\ worker' = [h \in Hosts |-> "off"]
    /\ UNCHANGED <<vars, files, node, overlay, at, resume, outVars, pair, ops, faults>>

-----------------------------------------------------------------------------
(* The campaign up to its first launch.                                    *)

(* An exception or a signal; the pair is stopped. *)
Ends ==
    /\ Faulty /\ job' = "idle" /\ pc' = "failed" /\ pair' = Down
    /\ UNCHANGED <<long, short, runs, winner, status>>
Raises == Ends /\ UNCHANGED marker

(* Copies of the files in `all`, in this order, to the host: all of them,  *)
(* or those before one at which scp fails.                                 *)
Sends(h, all, n) ==
    node' = [node EXCEPT ![h] = [f \in Sent |->
                IF \E i \in 1..n : all[i] = f THEN files[f]
                ELSE IF n < Len(all) /\ all[n + 1] = f THEN Missing ELSE node[h][f]]]

NextHost(then) ==
    IF at = 2 THEN at' = 1 /\ job' = then ELSE at' = at + 1 /\ job' = job

(* The loop over the hosts of retry_text128: the model runner.             *)
SendsRunner ==
    /\ job = "send"
    /\ \/ Raises /\ at' = 1 /\ (UNCHANGED node \/ Sends(at, <<Runner>>, 0))
       \/ Sends(at, <<Runner>>, 1) /\ NextHost("preflight") /\ UNCHANGED <<vars, pair, faults>>
    /\ UNCHANGED <<files, overlay, worker, prepared, clean, resume, outVars, ops>>

(* preflight, a host at a time; the tokenizer's proof may also fail.       *)
Carried == <<Launcher, Template>>

Preflights ==
    /\ job = "preflight"
    /\ \/ Raises /\ at' = 1
          /\ (UNCHANGED node \/ (prepared /\ \E n \in 0..Len(Carried) : Sends(at, Carried, n)))
       \/ /\ prepared /\ Sends(at, Carried, Len(Carried))
          /\ NextHost(IF resume THEN "load" ELSE "launch") /\ UNCHANGED <<vars, pair, faults>>
    /\ UNCHANGED <<files, overlay, worker, prepared, clean, resume, outVars, ops>>

(***************************************************************************)
(* load_saved_baseline: the probes that were moved away with the results;  *)
(* per host the command and the template in the metadata beside them.      *)
(***************************************************************************)
BugSameInputs(old) ==                  \* faulty: the template may be another one
    /\ old.receipt.made.probes = files[Probes]
    /\ \A h \in Hosts : /\ old.metadata[h][Launcher] # Missing
                        /\ Command[old.metadata[h][Launcher]] = Command[files[Launcher]]
SameInputs(old) ==
    /\ old.receipt.made.probes = files[Probes]
    /\ \A h \in Hosts : /\ old.metadata[h][Launcher] # Missing
                        /\ Command[old.metadata[h][Launcher]] = Command[files[Launcher]]
                        /\ old.metadata[h][Template] = files[Template]

(* shutil.copytree of the directory, and comparison.json; it may be cut.   *)
Copied == IF saved.passed THEN marker \union {0} ELSE marker

LoadsBaseline ==
    /\ job = "load"
    /\ \/ Raises /\ UNCHANGED outVars
       \/ /\ saved # NoResults /\ SameInputs(saved) /\ ~there /\ there' = TRUE
          /\ \/ /\ Ends /\ marker' \in {marker, Copied} /\ metadata' \in {metadata, saved.metadata}
                /\ UNCHANGED <<record, overrun, made>>
             \/ /\ ResumesBaseline /\ runs' = <<saved.receipt.run>> /\ marker' = Copied
                /\ job' = "launch" /\ made' = <<saved.receipt.made>>
                /\ metadata' = saved.metadata /\ record' = saved.receipt
                /\ overrun' = saved.overrun
                /\ UNCHANGED <<pair, faults>>
          /\ UNCHANGED saved
    /\ UNCHANGED <<fileVars, at, resume, ops>>

-----------------------------------------------------------------------------
(* The trials and the selection.                                           *)

(* What launch_node mounts and runs on the two nodes. *)
Launched(depth) ==
    [up |-> TRUE, depth |-> depth, clean |-> clean, on |-> node, lib |-> overlay]

(* launch() writes the output of launch_node per host, the second first.   *)
Writes(hosts) ==
    metadata' = [h \in Hosts |-> IF h \in hosts THEN [f \in Described |-> node[h][f]]
                                ELSE metadata[h]]

(* What a trial leaves in OUT from its launch on: if it is the baseline,   *)
(* a comparison.json that is still there is of another one now.            *)
Enters(hosts) ==
    /\ there' = (there \/ Depth = 0)
    /\ overrun' = (overrun \/ (Depth = 0 /\ record # NoReceipt))
    /\ IF Depth = 0 THEN Writes(hosts) ELSE UNCHANGED metadata

(* stop_pair and launch; the engine answers. *)
Launches ==
    /\ job = "launch" /\ pc = "trial"
    /\ job' = "trial" /\ pair' = Launched(Depth)
    /\ Enters(Hosts)
    /\ UNCHANGED <<vars, fileVars, at, resume, record, saved, made, ops, faults>>

(* comparison.json is written with every record that is appended.          *)
Records(new) ==
    /\ made' = Append(made, new)
    /\ record' = IF runs = <<>> THEN [run |-> runs'[1], made |-> new] ELSE record
    /\ overrun' = (overrun /\ runs # <<>>)

Grading ==
    /\ job = "trial"
    /\ \/ (ProbesLong \/ ProbesShort) /\ UNCHANGED <<job, made, record, overrun>>
       \/ /\ Grades /\ job' = "launch"
          /\ Records([probes |-> files[Probes], long |-> long, pair |-> pair])
    /\ UNCHANGED <<fileVars, at, resume, there, metadata, saved, pair, ops, faults>>

(* While it is launched or measured: whatever is left of the pair then is  *)
(* stopped before the next launch.                                         *)
TrialFails ==
    /\ job \in {"launch", "trial"} /\ Faulty /\ TrialRaises
    /\ pair' = Down
    /\ IF job = "trial" THEN UNCHANGED <<there, metadata, overrun>>
       ELSE \E hosts \in {{}, {2}, Hosts} : Enters(hosts)
    /\ IF pc' = "failed" THEN job' = "idle" /\ UNCHANGED made
       ELSE job' = "launch" /\ made' = Append(made, Unmeasured)
    /\ UNCHANGED <<fileVars, at, resume, record, saved, ops>>

Finishes ==
    /\ job = "launch" /\ Selects
    /\ job' = "idle"
    /\ IF pc' = "failed" THEN Faulty ELSE UNCHANGED faults
    /\ pair' = IF pc' = "failed" THEN Down
               ELSE IF MustRelaunch(winner') THEN Launched(winner'.depth) ELSE pair
    /\ UNCHANGED <<fileVars, at, resume, outVars, ops>>

(* The program is killed. *)
IsCut ==
    /\ job # "idle" /\ Faulty /\ job' = "idle" /\ at' = 1
    /\ worker' = [h \in Hosts |-> "off"]
    /\ IF job = "prepare" THEN UNCHANGED <<vars, pair>>
       ELSE /\ pc' = "failed" /\ pair' = Down
            /\ marker' \in {marker, IF pc = "merge" THEN MarkerAfter ELSE marker}
            /\ UNCHANGED <<long, short, runs, winner, status>>
    /\ UNCHANGED <<files, node, overlay, prepared, clean, resume, outVars, ops>>

RecipeNext ==
    \/ Edits \/ StartsPrepare \/ PutsAway \/ StartsCampaign
    \/ \E h \in Hosts : CopiesIndexer(h) \/ InstallsOverlay(h) \/ ChecksOverlay(h)
    \/ EndsPrepare \/ SendsRunner \/ Preflights \/ LoadsBaseline
    \/ Launches \/ Grading \/ TrialFails \/ Finishes \/ IsCut

RecipeSpec == RecipeInit /\ [][RecipeNext]_allVars

-----------------------------------------------------------------------------
(***************************************************************************)
(* The two halves of a pair run the same thing, whatever the programs      *)
(* before were cut at: the launcher, the template and the model runner,    *)
(* carried by every campaign, always; the indexer and the overlay if the   *)
(* last prepare.py had come to its end when the pair was launched.  (The   *)
(* condition is real: prepared.json is not taken away when prepare.py is   *)
(* run again and fails on one node, and nothing compares the copies.)      *)
(***************************************************************************)
PairIsAlike ==
    pair.up =>
        /\ \A f \in {Launcher, Template, Runner} :
              pair.on[1][f] = pair.on[2][f] /\ pair.on[1][f] # Missing
        /\ pair.clean =>
              /\ pair.on[1][Indexer] = pair.on[2][Indexer] /\ pair.on[1][Indexer] # Missing
              /\ \A h \in Hosts : pair.lib[h] = "whole"

(***************************************************************************)
(* Records that are compared were measured alike: with the same probes,    *)
(* the same command and the same template on both nodes, and if measured   *)
(* by this campaign with the same everything.  ("only when inference       *)
(* inputs match": a baseline that is reused may have been measured with    *)
(* other kernels than the drafts it is compared with.)  Nothing is said of *)
(* a baseline from a comparison.json that a later campaign had overrun: it *)
(* launched its own baseline in the same OUT and failed before it had a    *)
(* record, and what load_saved_baseline compares is the metadata of that   *)
(* launch, whatever the record was measured with.                          *)
(***************************************************************************)
Trusted(i) == i > 1 \/ ~overrun

MeasuredAlike ==
    \A i, j \in DOMAIN runs : runs[i].ok /\ runs[j].ok /\ Trusted(i) /\ Trusted(j) =>
        /\ made[i].probes = made[j].probes
        /\ \A h \in Hosts :
              /\ Command[made[i].pair.on[h][Launcher]] = Command[made[j].pair.on[h][Launcher]]
              /\ made[i].pair.on[h][Template] = made[j].pair.on[h][Template]
        /\ ~resume \/ (i > 1 /\ j > 1) =>
              made[i].pair.on = made[j].pair.on /\ made[i].pair.lib = made[j].pair.lib

(***************************************************************************)
(* What serves in the end is the winner, launched from the very files it   *)
(* was measured with; a reused baseline at least with its command and its  *)
(* template, unless its comparison.json had been overrun.                  *)
(***************************************************************************)
ServedAsMeasured ==
    job = "idle" /\ pc = "done" =>
        LET was == made[WinnerIndex].pair
        IN  /\ pair.up /\ pair.depth = winner.depth
            /\ Trusted(WinnerIndex) => \A h \in Hosts :
                  /\ Command[pair.on[h][Launcher]] = Command[was.on[h][Launcher]]
                  /\ pair.on[h][Template] = was.on[h][Template]
            /\ ~resume \/ WinnerIndex > 1 => pair.on = was.on /\ pair.lib = was.lib

(***************************************************************************)
(* The verdict of a graded trial is that of its failures, merged from a    *)
(* report that may be a stub; and quality-passed.json does not outlive its *)
(* truth: the trial has it exactly if everything passed, also when an      *)
(* earlier campaign left one in the directory, when quality() wrote it     *)
(* before the long context's failure was merged in, and when it was copied *)
(* with a baseline that is reused.  (The marker beside a comparison.json   *)
(* that was overrun is that of the later baseline, which may have passed   *)
(* the short probes and then failed.)                                      *)
(***************************************************************************)
MarkerIsHonest ==
    \A i \in 1..Len(runs) : runs[i].ok =>
        /\ runs[i].quality <=> runs[i].semantic /\ runs[i].strict = 0
        /\ Trusted(i) => (runs[i].quality <=> runs[i].depth \in marker)
================================================================================
