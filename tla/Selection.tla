------------------------------- MODULE Selection -------------------------------
(***************************************************************************)
(* How a campaign grades its trials and selects a winner: evaluate_quality *)
(* and the second half of workflow.main.                                   *)
(*                                                                         *)
(* A trial that ran to its end has a grade, made from two probes that may  *)
(* miss: the long-context one and the short ones.  A miss is a semantic    *)
(* failure; the short probes may also complete with format failures, which *)
(* do not disqualify but count.  Trials that raised have no grade.  What   *)
(* the grades leave on disk is the marker quality-passed.json of a trial's *)
(* directory, which may hold one from an earlier campaign.  (What makes    *)
(* the marker agree with the record is a property of Recipe.)              *)
(***************************************************************************)
EXTENDS Integers, Sequences

CONSTANTS
    Depths,      \* the trials in order: <<0, 7, 3>>
    Speeds,      \* median decode rates to tell apart (bound)
    MaxFormats   \* format failures the short probes can report: 2

ASSUME DepthsAssumption ==
    /\ Depths \in Seq(Nat) /\ Len(Depths) > 0 /\ Depths[1] = 0
    /\ \A i, j \in 1..Len(Depths) : Depths[i] = Depths[j] => i = j
ASSUME SpeedsAssumption == Speeds \subseteq Nat \ {0}
ASSUME MaxFormatsAssumption == MaxFormats \in Nat \ {0}

VARIABLES
    pc,       \* "trial", "short", "merge", "select", "done", "failed"
    long,     \* long_passed of the trial being graded
    short,    \* what its short probes reported
    marker,   \* the depths whose directory holds quality-passed.json
    runs,     \* the records of comparison.json
    winner,   \* the selected record
    status    \* status of summary.json

vars == <<pc, long, short, marker, runs, winner, status>>

Nothing == 99
Unknown == [done |-> FALSE, formats |-> 0]

AllDepths == {Depths[i] : i \in 1..Len(Depths)}
ShortReport == {Unknown} \union [done : {TRUE}, formats : 0..MaxFormats]

(* A trial that raised, and one that was measured and graded. *)
FailedRun(d) == [depth |-> d, ok |-> FALSE, strict |-> 0, semantic |-> FALSE,
                 quality |-> FALSE, speed |-> 0]
NoRun  == FailedRun(Nothing)

Init ==
    /\ pc = "trial" /\ long = FALSE /\ short = Unknown
    /\ marker \in SUBSET AllDepths
    /\ runs = <<>> /\ winner = NoRun /\ status = "none"

--------------------------------------------------------------------------------
(* The trials. *)

Depth == Depths[Len(runs) + 1]

After(n) == IF n = Len(Depths) THEN "select" ELSE "trial"

(***************************************************************************)
(* --resume-baseline: a measured baseline whose long context passed; its   *)
(* directory is copied, to where there was none, with a marker or without. *)
(***************************************************************************)
ResumesBaseline ==
    /\ pc = "trial" /\ runs = <<>>
    /\ 0 \notin marker
    /\ \E n \in 0..MaxFormats, missed \in BOOLEAN, s \in Speeds :
          runs' = <<[depth |-> 0, ok |-> TRUE, strict |-> IF missed THEN 1 ELSE n,
                     semantic |-> ~missed, quality |-> ~missed /\ n = 0, speed |-> s]>>
    /\ marker' \in {marker, marker \union {0}}
    /\ pc' = After(1)
    /\ UNCHANGED <<long, short, winner, status>>

(* launch() has left the pair with this depth; long_context() is graded.   *)
ProbesLong ==
    /\ pc = "trial"
    /\ long' \in BOOLEAN
    /\ pc' = "short"
    /\ UNCHANGED <<short, marker, runs, winner, status>>

(* quality(): its own marker is written when there is no format failure.   *)
ProbesShort ==
    /\ pc = "short"
    /\ short' \in ShortReport
    /\ marker' = IF short'.done /\ short'.formats = 0 THEN marker \union {Depth} ELSE marker
    /\ pc' = "merge"
    /\ UNCHANGED <<long, runs, winner, status>>

Misses  == (IF long THEN 0 ELSE 1) + (IF short.done THEN 0 ELSE 1)
BugQuality == short.done /\ short.formats = 0       \* faulty: the long context is forgotten
Quality == short.done /\ short.formats = 0 /\ long

(* quality-passed.json is unlinked unless everything passed. *)
BugMarkerAfter == marker               \* faulty: no unlink
MarkerAfter == IF Quality THEN marker ELSE marker \ {Depth}

(* The rest of evaluate_quality, and the record that main makes of it.     *)
Grades ==
    /\ pc = "merge"
    /\ \E s \in Speeds :
          runs' = Append(runs, [depth |-> Depth, ok |-> TRUE,
                                strict |-> (IF short.done THEN short.formats ELSE 0) + Misses,
                                semantic |-> long /\ short.done,
                                quality |-> Quality, speed |-> s])
    /\ marker' = MarkerAfter
    /\ pc' = After(Len(runs) + 1)
    /\ long' = FALSE /\ short' = Unknown
    /\ UNCHANGED <<winner, status>>

(* An exception at any point of a trial, also when the marker was looked   *)
(* at but not the record made; the baseline's ends the campaign.           *)
TrialRaises ==
    /\ pc \in {"trial", "short", "merge"}
    /\ IF Depth = 0
       THEN pc' = "failed" /\ UNCHANGED runs
       ELSE pc' = After(Len(runs) + 1) /\ runs' = Append(runs, FailedRun(Depth))
    /\ marker' \in {marker, IF pc = "merge" THEN MarkerAfter ELSE marker}
    /\ long' = FALSE /\ short' = Unknown
    /\ UNCHANGED <<winner, status>>

--------------------------------------------------------------------------------
(* The selection. *)

Passed    == {i \in 1..Len(runs) : runs[i].ok}
Qualified == {i \in Passed : runs[i].semantic}
BugEligible == Qualified               \* faulty: strict failures do not count
Eligible  == {i \in Qualified : \A j \in Qualified : runs[i].strict <= runs[j].strict}

(* max(..., key=speed) of a list: the first of the fastest. *)
FirstFastest(S) ==
    CHOOSE i \in S : \A j \in S :
        runs[j].speed < runs[i].speed \/ (runs[j].speed = runs[i].speed /\ i <= j)

WinnerIndex == IF Eligible = {} THEN 1 ELSE FirstFastest(Eligible)

Last == runs[Len(runs)]

BugMustRelaunch(w) == ~Last.ok         \* faulty: the last pair serves if it works
MustRelaunch(w) == w.depth # Last.depth \/ ~Last.ok

(* The winner is launched again, which may fail, unless it is running.     *)
Selects ==
    /\ pc = "select"
    /\ winner' = runs[WinnerIndex]
    /\ pc' = "done" \/ (MustRelaunch(winner') /\ pc' = "failed")
    /\ status' = IF pc' = "failed" THEN "none"
                 ELSE IF winner'.quality THEN "complete" ELSE "complete_with_quality_caveats"
    /\ UNCHANGED <<long, short, marker, runs>>

Next ==
    \/ ResumesBaseline \/ ProbesLong \/ ProbesShort \/ Grades
    \/ TrialRaises \/ Selects

Spec == Init /\ [][Next]_vars

--------------------------------------------------------------------------------

Done == pc = "done"

(***************************************************************************)
(* The reference: of the records that answered everything, no other has    *)
(* fewer strict failures than the winner, none with as few is faster, and  *)
(* none as good was measured earlier; without any such record, it is the   *)
(* baseline.  Only a winner without any failure makes it 'complete'.       *)
(***************************************************************************)
Better(a, b) == a.strict < b.strict \/ (a.strict = b.strict /\ a.speed > b.speed)

WinnerIsBest ==
    Done => \E w \in 1..Len(runs) :
        /\ winner = runs[w]
        /\ IF \E i \in 1..Len(runs) : runs[i].semantic
           THEN /\ runs[w].semantic
                /\ \A i \in 1..Len(runs) : runs[i].semantic =>
                      ~Better(runs[i], runs[w]) /\ (i < w => Better(runs[w], runs[i]))
           ELSE w = 1
        /\ status = "complete" <=> winner.semantic /\ winner.strict = 0
================================================================================
