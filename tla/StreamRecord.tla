------------------------------ MODULE StreamRecord ------------------------------
(***************************************************************************)
(* The raw evidence of a campaign: what probes.stream writes for speed and *)
(* long_context, and what verify_saved_results.py accepts of it later.     *)
(*                                                                         *)
(* A sample is three files of a directory: the request, written before it  *)
(* is sent; the stream, emptied and then filled event by event under       *)
(* request_deadline; the result, written when the stream has ended.  The   *)
(* process may be cut between any two of these writes, by its own timer,   *)
(* by an error or by being killed, and a later process may work on the     *)
(* same directories with prompts that were edited meanwhile.  The files    *)
(* carry no number of the process: the verification has to tell from what  *)
(* is in them whether they belong together.  A fourth file marks that the  *)
(* long context was answered right; nothing removes an old one.            *)
(***************************************************************************)
EXTENDS RequestDeadline, Sequences

CONSTANTS
    Arms,      \* how many directories, the baseline's first
    Labels,    \* how many requests speed() makes in each
    MaxRuns,   \* processes that follow each other (bound)
    MaxText    \* versions of the prompts (bound)

ASSUME ArmsAssumption == Arms \in Nat \ {0}
ASSUME LabelsAssumption == Labels \in Nat \ {0}
ASSUME RunsAssumption == MaxRuns \in Nat \ {0} /\ MaxText \in Nat \ {0}

VARIABLES
    run,       \* the number of the process
    text,      \* the prompts of its probes.py
    arm,       \* the directory it works on
    label,     \* the request: those of speed(), then the long one
    step,      \* where it is in stream()
    ended,     \* [DONE] was read
    rows,      \* the directories in its list of measured runs
    request, stream, result,   \* the files of every sample
    passed     \* passed[a]: the process that wrote long-context-passed.json

probeVars == <<run, text, arm, label, step, ended, rows>>
fileVars  == <<request, stream, result, passed>>
allVars   == <<vars, probeVars, fileVars>>

Long   == Labels + 1                   \* long-context-120k
Sample == (1..Arms) \X (1..Long)
Here   == <<arm, label>>

Absent == 0
Torn   == -1    \* emptied by write_text, and not yet written

(* "other" stands for what stream() lets through and verify_sample does    *)
(* not: another reason, or counts of tokens that are not those expected.   *)
Finish == {"stop", "length", "other"}
Step   == {"call", "request", "send", "events", "failed", "answered", "result", "check", "mark"}

StreamTypeOK ==
    /\ TypeOK
    /\ run \in 1..MaxRuns /\ text \in 1..MaxText
    /\ arm \in 1..Arms /\ label \in 1..Long
    /\ step \in Step /\ ended \in BOOLEAN /\ rows \subseteq 1..Arms
    /\ request \in [Sample -> [run : Torn..MaxRuns, text : 0..MaxText]]
    /\ stream \in [Sample -> [run : Absent..MaxRuns, got : {"none", "some"} \union Finish]]
    /\ result \in [Sample -> [run : Torn..MaxRuns, text : 0..MaxText,
                              got : {"none", "some"} \union Finish, done : BOOLEAN,
                              right : BOOLEAN]]
    /\ passed \in [1..Arms -> Absent..MaxRuns]

NoRequest(n) == [run |-> n, text |-> 0]
NoStream == [run |-> Absent, got |-> "none"]
NoResult(n) == [run |-> n, text |-> 0, got |-> "none", done |-> FALSE,
                right |-> FALSE]

Starts ==
    /\ arm = 1 /\ label = 1 /\ step = "call" /\ ended = FALSE /\ rows = {}

StreamInit ==
    /\ Init
    /\ run = 1 /\ text = 1 /\ Starts
    /\ request = [s \in Sample |-> NoRequest(Absent)]
    /\ stream = [s \in Sample |-> NoStream]
    /\ result = [s \in Sample |-> NoResult(Absent)]
    /\ passed = [a \in 1..Arms |-> Absent]

-----------------------------------------------------------------------------
(* How stream() is left.                                                   *)

(* An exception: the baseline's ends the campaign, another's the trial.    *)
Raises ==
    /\ step' = "call" /\ label' = 1 /\ ended' = FALSE
    /\ IF arm \in {1, Arms} THEN pc' = "over" /\ arm' = arm ELSE pc' = "out" /\ arm' = arm + 1
    /\ UNCHANGED <<run, text, rows>>

(* The next request; after the long one, the trial is recorded.            *)
Returns ==
    /\ step' = "call" /\ ended' = FALSE
    /\ IF label < Long
       THEN label' = label + 1 /\ UNCHANGED <<pc, arm, rows>>
       ELSE /\ label' = 1 /\ rows' = rows \union {arm}
            /\ IF arm < Arms THEN arm' = arm + 1 /\ pc' = "out" ELSE arm' = arm /\ pc' = "over"
    /\ UNCHANGED <<run, text>>

timerVars == <<now, alarm, handler, held, delivered>>

(* A step outside of request_deadline, at which the process may raise.     *)
At(here) == pc = "out" /\ Undisturbed /\ step = here
GoesTo(next) == step' = next /\ UNCHANGED <<pc, run, text, arm, label, ended, rows>>

-----------------------------------------------------------------------------
(* stream()                                                                *)

(* /tokenize fails, or the file of the request is opened, which empties it.*)
OpensRequest ==
    /\ At("call")
    /\ \/ Raises /\ UNCHANGED request
       \/ GoesTo("request") /\ request' = [request EXCEPT ![Here] = NoRequest(Torn)]
    /\ UNCHANGED <<timerVars, stream, result, passed>>

WritesRequest ==
    /\ At("request") /\ GoesTo("send")
    /\ request' = [request EXCEPT ![Here] = [run |-> run, text |-> text]]
    /\ UNCHANGED <<timerVars, stream, result, passed>>

EntersDeadline ==
    /\ step = "send" /\ Enters
    /\ UNCHANGED <<probeVars, fileVars>>

Emptied == [run |-> run, got |-> "none"]

(* The deadline is running: open(..., 'w').                                *)
OpensStream ==
    /\ pc = "body" /\ Undisturbed /\ step = "send"
    /\ GoesTo("events")
    /\ stream' = [stream EXCEPT ![Here] = Emptied]
    /\ UNCHANGED <<timerVars, request, result, passed>>

(* The events that hold the answer; the one that says how it finished.     *)
Receives ==
    /\ pc = "body" /\ Undisturbed /\ step = "events"
    /\ \/ stream[Here].got = "none" /\ stream' = [stream EXCEPT ![Here].got = "some"]
       \/ /\ stream[Here].got = "some"
          /\ \E f \in Finish : stream' = [stream EXCEPT ![Here].got = f]
    /\ UNCHANGED <<vars, probeVars, request, result, passed>>

(* [DONE], or the connection is closed without it, or there is an error.   *)
EndsBody ==
    /\ BodyEnds
    /\ \/ step = "events" /\ step' = "answered" /\ ended' \in BOOLEAN
       \/ step' = "failed" /\ ended' = FALSE
    /\ UNCHANGED <<run, text, arm, label, rows, fileVars>>

LeavesDeadline ==
    /\ Rearms
    /\ IF step = "failed" THEN Raises ELSE pc' = "out" /\ UNCHANGED probeVars
    /\ UNCHANGED fileVars

OpensResult ==
    /\ At("answered") /\ GoesTo("result")
    /\ result' = [result EXCEPT ![Here] = NoResult(Torn)]
    /\ UNCHANGED <<timerVars, request, stream, passed>>

WritesResult ==
    /\ At("result") /\ GoesTo("check")
    /\ \E right \in IF label = Long THEN BOOLEAN ELSE {FALSE} :
          result' = [result EXCEPT ![Here] =
                       [run |-> run, text |-> text, got |-> stream[Here].got, done |-> ended,
                        right |-> right]]
    /\ UNCHANGED <<timerVars, request, stream, passed>>

BugNatural ==                          \* faulty: a stream cut before [DONE] is an answer
    result[Here].got \in {"stop", "other"}
Natural == ended /\ result[Here].got \in {"stop", "other"}

(* The assertions on the record; reasoning or markers that leaked into the *)
(* answer fail them as well, and so may the later probes of the trial.  A  *)
(* wrong answer to the long context is recorded, and the trial goes on.    *)
ChecksResult ==
    /\ At("check")
    /\ \/ Natural /\ ~result[Here].right /\ Returns
       \/ Natural /\ result[Here].right /\ GoesTo("mark")
       \/ Raises
    /\ UNCHANGED <<timerVars, fileVars>>

(* long-context-passed.json; the short probes of the trial follow.         *)
MarksLong ==
    /\ At("mark")
    /\ passed' = [passed EXCEPT ![arm] = run]
    /\ Returns \/ Raises
    /\ UNCHANGED <<timerVars, request, stream, result>>

(* The timer: in a request it fails the request, elsewhere what is done.   *)
TimerFires ==
    /\ Fires
    /\ IF pc = "body"
       THEN step' = "failed" /\ ended' = FALSE /\ UNCHANGED <<run, text, arm, label, rows>>
       ELSE Raises
    /\ UNCHANGED fileVars

(***************************************************************************)
(* The process is killed, or is over, and another one is started on the    *)
(* directories it left, with the same prompts or with edited ones.         *)
(***************************************************************************)
NextProcess ==
    /\ run < MaxRuns /\ run' = run + 1
    /\ now' = 0 /\ alarm' = Deadline /\ handler' = "campaign"
    /\ pc' = "out" /\ saved' = Off /\ savedBy' = "campaign" /\ started' = 0
    /\ delivered' = FALSE
    /\ arm' = 1 /\ label' = 1 /\ step' = "call" /\ ended' = FALSE /\ rows' = {}
    /\ text' \in {text, text + 1} \intersect (1..MaxText)
    /\ UNCHANGED fileVars

StreamNext ==
    \/ OpensRequest \/ WritesRequest \/ EntersDeadline \/ OpensStream \/ Receives
    \/ EndsBody \/ LeavesDeadline \/ OpensResult \/ WritesResult \/ ChecksResult
    \/ MarksLong
    \/ TimerFires \/ NextProcess
    \/ (Installs \/ SetsTimer \/ Cancels \/ Restores \/ Tick) /\ UNCHANGED <<probeVars, fileVars>>

StreamSpec == StreamInit /\ [][StreamNext]_allVars

-----------------------------------------------------------------------------
(* verify_saved_results.py                                                 *)

(* first == ttft_s: no two requests have their first token at the same     *)
(* fraction of a second, so this tells the streams of two processes apart  *)
(* although both answers are the same.                                     *)
BugSameTimes(s) == TRUE                \* faulty: timing is not compared
SameTimes(s) == stream[s].run = result[s].run

(* verify_sample, with the request of the baseline as reference.           *)
VerifySample(a, l) ==
    LET s == <<a, l>>
        reference == request[<<1, l>>]
    IN  /\ request[s].run > 0 /\ reference.run > 0 /\ request[s].text = reference.text
        /\ stream[s].run > 0 /\ result[s].run > 0
        /\ stream[s].got = result[s].got /\ result[s].got = "stop"
        /\ result[s].done
        /\ SameTimes(s)

(* The long context is looked at where it is marked as passed.             *)
VerifyLong(a) == passed[a] = Absent \/ (VerifySample(a, Long) /\ result[<<a, Long>>].right)

(* verify_campaign looks at the samples of speed() that have a result.     *)
Speed   == (1..Arms) \X (1..Labels)
Missing == {s \in Speed : result[s].run = Absent}
VerifyCampaign ==
    IF \/ \E s \in Speed \ Missing : ~VerifySample(s[1], s[2])
       \/ \E a \in 1..Arms : ~VerifyLong(a)
    THEN "raises"
    ELSE IF Missing = {} THEN "speed_matrix_verified" ELSE "partial"

-----------------------------------------------------------------------------
(***************************************************************************)
(* A sample that is accepted is one request: a single process got the      *)
(* answer in the stream to its natural end and [DONE], and wrote the       *)
(* result about that answer; and it had sent the request that is stored,   *)
(* unless a later process has written its own and got no further.  (The    *)
(* exception is real: with edited prompts, what is stored then was never   *)
(* answered, and the verification does not compare it with the record.)    *)
(***************************************************************************)
AcceptedIsOneRequest ==
    \A s \in Sample : VerifySample(s[1], s[2]) =>
        /\ stream[s].run = result[s].run
        /\ stream[s].got = "stop" /\ result[s].done
        /\ request[s].run >= result[s].run
        /\ request[s].run = result[s].run => request[s].text = result[s].text

(***************************************************************************)
(* What a process counts as measured is its own work, whatever earlier     *)
(* ones left there, and is accepted where it was answered to a stop.  Once *)
(* all was measured that way the matrix is verified, unless a mark of an   *)
(* earlier process outlived it: that process found the long context        *)
(* answered right, this one did not, and evaluate_quality leaves the mark. *)
(***************************************************************************)
Stopped(s)  == result[s].got = "stop"
Outlived(a) == passed[a] \notin {Absent, run} /\ ~result[<<a, Long>>].right

MeasuredIsAccepted ==
    /\ \A a \in rows, l \in 1..Long :
          /\ result[<<a, l>>].run = run
          /\ Stopped(<<a, l>>) => VerifySample(a, l)
    /\ rows = 1..Arms /\ (\A s \in Sample : Stopped(s)) =>
          VerifyCampaign = "speed_matrix_verified" \/ \E a \in rows : Outlived(a)
================================================================================
