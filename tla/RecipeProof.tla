------------------------------ MODULE RecipeProof ------------------------------
(***************************************************************************)
(* What a campaign measured and what it serves, for every list of trials,  *)
(* every number of edits, preparations and campaigns, and wherever they    *)
(* fail or are cut.                                                        *)
(***************************************************************************)
EXTENDS Recipe, FiniteSets, FiniteSetTheorems, WellFoundedInduction, TLAPS

(* The types. *)
Job     == {"idle", "prepare", "send", "preflight", "load", "launch", "trial"}
Stage   == {"off", "copy", "install", "check", "ready", "failed"}
Overlay == {"none", "partial", "whole"}
Place   == {"trial", "short", "merge", "select", "done", "failed"}
Ver     == Version \union {Missing}
Copies  == [Sent -> Ver]
Pair    == [up : BOOLEAN, depth : Nat, clean : BOOLEAN,
            on : [Hosts -> Copies], lib : [Hosts -> Overlay]]
Made    == [probes : Ver, long : BOOLEAN, pair : Pair]
Record  == [depth : Nat, ok : BOOLEAN, strict : Nat, semantic : BOOLEAN,
            quality : BOOLEAN, speed : Nat]

SelectionTypes ==
    /\ pc \in Place /\ long \in BOOLEAN /\ short \in ShortReport
    /\ marker \subseteq AllDepths /\ runs \in Seq(Record) /\ winner \in Record

NodeTypes ==
    /\ files \in [File -> Version]
    /\ node \in [Hosts -> Copies] /\ overlay \in [Hosts -> Overlay]
    /\ worker \in [Hosts -> Stage] /\ prepared \in BOOLEAN /\ clean \in BOOLEAN

Receipt == [run : Record, made : Made]
Told    == [Hosts -> [Described -> Ver]]
Results == [receipt : Receipt, metadata : Told, passed : BOOLEAN, overrun : BOOLEAN]

OutTypes ==
    /\ there \in BOOLEAN /\ metadata \in Told /\ record \in Receipt /\ overrun \in BOOLEAN
    /\ saved \in Results /\ made \in Seq(Made)

OtherTypes ==
    /\ job \in Job /\ at \in Hosts /\ resume \in BOOLEAN /\ pair \in Pair

RecipeTypes == SelectionTypes /\ NodeTypes /\ OutTypes /\ OtherTypes

(* Which program runs where in a campaign, and how many records it has.    *)
Places ==
    /\ job = "idle" => pc \in {"trial", "done", "failed"} /\ (pc = "trial" => runs = <<>>)
    /\ job \in {"prepare", "send", "preflight", "load"} => pc = "trial" /\ runs = <<>>
    /\ job = "launch" => pc \in {"trial", "select"}
    /\ job = "trial" => pc \in {"trial", "short", "merge"}
    /\ job \notin {"send", "preflight"} => at = 1
    /\ job = "load" => resume
    /\ Len(made) = Len(runs)

(* What the grades say of a record. *)
GradedAs(r, depth) ==
    /\ r.depth = depth
    /\ r.quality <=> r.semantic /\ r.strict = 0
    /\ ~r.ok => ~r.semantic

Graded ==
    /\ pc \in {"trial", "short", "merge"} => Len(runs) < Len(Depths)
    /\ pc \in {"select", "done"} => Len(runs) = Len(Depths)
    /\ \A i \in 1..Len(runs) : GradedAs(runs[i], Depths[i])
    /\ Len(runs) <= Len(Depths)
    /\ Len(runs) > 0 => runs[1].ok
    /\ pc = "merge" /\ short.done /\ short.formats = 0 => Depth \in marker
    /\ pc = "done" => winner = runs[WinnerIndex] /\ (status = "complete" <=> winner.quality)

(* And the markers on disk of the records. *)
Marked ==
    \A i \in 1..Len(runs) :
        runs[i].ok /\ Trusted(i) => (runs[i].quality <=> Depths[i] \in marker)

(* Metadata and a marker that are of the receipt beside them. *)
Tells(told, passed, old) ==
    /\ old.run.quality <=> passed
    /\ \A h \in Hosts : \A f \in Described : told[h][f] = old.made.pair.on[h][f]

(***************************************************************************)
(* What is in OUT, and what was moved away from it, belongs together: but  *)
(* where a later baseline was launched over the record of another.         *)
(***************************************************************************)
Kept ==
    /\ record # NoReceipt => there
    /\ record # NoReceipt /\ ~overrun => Tells(metadata, 0 \in marker, record)
    /\ saved # NoResults /\ ~saved.overrun => Tells(saved.metadata, saved.passed, saved.receipt)
    /\ job = "trial" /\ runs = <<>> =>
          /\ there /\ (overrun \/ record = NoReceipt)
          /\ \A h \in Hosts : \A f \in Described : metadata[h][f] = pair.on[h][f]

(* How far the copies are that the running program carries.                *)
Arrived ==
    /\ job # "prepare" => \A h \in Hosts : worker[h] = "off"
    /\ job = "prepare" => ~clean
    /\ \A h \in Hosts :
          /\ worker[h] \in {"install", "check", "ready"} => node[h][Indexer] = files[Indexer]
          /\ worker[h] = "ready" => overlay[h] = "whole"
          /\ job = "send" /\ h < at => node[h][Runner] = files[Runner]
          /\ job = "preflight" /\ h < at =>
                node[h][Launcher] = files[Launcher] /\ node[h][Template] = files[Template]
          /\ job \in {"preflight", "load", "launch", "trial"} \/ pc = "done" =>
                node[h][Runner] = files[Runner]
          /\ job \in {"load", "launch", "trial"} \/ pc = "done" =>
                node[h][Launcher] = files[Launcher] /\ node[h][Template] = files[Template]
          /\ clean => overlay[h] = "whole"
    /\ clean => node[1][Indexer] = node[2][Indexer] /\ node[1][Indexer] # Missing

(* What serves is what was launched last, and the nodes have it still.     *)
Serves(depth) == pair.up /\ pair.depth = depth /\ pair.on = node /\ pair.lib = overlay

Reused == IF resume THEN 1 ELSE 0

Running ==
    /\ PairIsAlike
    /\ job = "trial" => Serves(Depth)
    /\ job = "launch" /\ Len(runs) > Reused /\ Last.ok => Serves(Last.depth)
    /\ pc = "done" /\ Len(Depths) > 1 => Serves(winner.depth)

(* A record that is compared was measured with what is there.              *)
MeasuredAs(old) ==
    /\ old.probes = files[Probes]
    /\ \A h \in Hosts : /\ Command[old.pair.on[h][Launcher]] = Command[files[Launcher]]
                        /\ old.pair.on[h][Template] = files[Template]

Measured ==
    \A i \in 1..Len(runs) : runs[i].ok =>
        /\ Trusted(i) => MeasuredAs(made[i])
        /\ i > Reused => made[i].pair.on = node /\ made[i].pair.lib = overlay

RecipeInv == RecipeTypes /\ Places /\ Graded /\ Marked /\ Kept /\ Arrived /\ Running /\ Measured

-----------------------------------------------------------------------------
(* The constants. *)

LEMMA Names ==
    /\ Launcher \in Sent /\ Template \in Sent /\ Indexer \in Sent /\ Runner \in Sent
    /\ Launcher \in File /\ Template \in File /\ Indexer \in File /\ Runner \in File
    /\ Probes \in File /\ Sent \subseteq File
    /\ Launcher # Template /\ Launcher # Indexer /\ Launcher # Runner
    /\ Template # Indexer /\ Template # Runner /\ Indexer # Runner
  BY DEF File, Sent, Launcher, Template, Indexer, Runner, Probes

LEMMA Trials ==
    /\ Depths \in Seq(Nat) /\ Len(Depths) \in Nat \ {0} /\ Depths[1] = 0
    /\ \A i, j \in 1..Len(Depths) : Depths[i] = Depths[j] => i = j
    /\ \A i \in 1..Len(Depths) : Depths[i] \in Nat /\ Depths[i] \in AllDepths
  BY DepthsAssumption DEF AllDepths

LEMMA DepthFact ==
    ASSUME runs \in Seq(Record), Len(runs) < Len(Depths)
    PROVE  /\ Depth \in Nat /\ Depth \in AllDepths /\ Depth = Depths[Len(runs) + 1]
           /\ \A i \in 1..Len(runs) : Depths[i] # Depth
           /\ Depth = 0 <=> Len(runs) = 0
  BY Trials DEF Depth

LEMMA FailedFact == \A d \in Nat : FailedRun(d) \in Record
  BY DEF FailedRun, Record

LEMMA NoneFact == <<>> \in Seq(Made) /\ <<>> \in Seq(Record)
  OBVIOUS

LEMMA DownFact ==
    NoCopy \in Copies /\ Down \in Pair /\ ~Down.up /\ NoRun \in Record
    /\ Unmeasured \in Made /\ NoReceipt \in Receipt
    /\ NoMetadata \in Told /\ NoResults \in Results
<1>1. NoCopy \in Copies
  BY DEF NoCopy, Copies, Ver
<1>2. Down \in Pair /\ ~Down.up
  BY <1>1 DEF Down, Pair, Overlay, Nothing
<1>3. NoRun \in Record
  BY FailedFact DEF NoRun, Nothing
<1>4. Unmeasured \in Made
  BY <1>2 DEF Unmeasured, Made, Ver
<1>5. NoReceipt \in Receipt
  BY <1>3, <1>4 DEF NoReceipt, Receipt
<1>6. NoMetadata \in Told
  BY DEF NoMetadata, Told, Ver
<1>7. NoResults \in Results
  BY <1>5, <1>6 DEF NoResults, Results
<1> QED
  BY <1>1, <1>2, <1>3, <1>4, <1>5, <1>6, <1>7

-----------------------------------------------------------------------------
(* The choice. *)

(* An order on finitely many has a first. *)
LEMMA FirstOf ==
    ASSUME NEW n \in Nat, NEW T, T \subseteq 1..n, T # {}, NEW B,
           \A x \in T : <<x, x>> \notin B,
           \A x, y, z \in T : <<x, y>> \in B /\ <<y, z>> \in B => <<x, z>> \in B
    PROVE  \E x \in T : \A y \in T : <<y, x>> \notin B
<1> DEFINE Before(x) == {y \in T : <<y, x>> \in B}
           F == {Before(x) : x \in T}
           S == FiniteSubsetsOf(1..n)
           R == StrictSubsetOrdering(1..n)
<1>1. F \subseteq S /\ F # {}
  <2>1. IsFiniteSet(1..n)
    BY FS_Interval
  <2>2. ASSUME NEW x \in T PROVE Before(x) \in SUBSET (1..n) /\ IsFiniteSet(Before(x))
    BY <2>1, FS_Subset
  <2>3. \A x \in T : Before(x) \in FiniteSubsetsOf(1..n)
    <3> HIDE DEF Before
    <3> QED
      BY <2>2 DEF FiniteSubsetsOf
  <2>4. \A x \in T : Before(x) \in F
    OBVIOUS
  <2>5. F \subseteq S
    <3> HIDE DEF Before
    <3> QED
      BY <2>3
  <2>6. F # {}
    <3>1. PICK x \in T : TRUE
      OBVIOUS
    <3>2. Before(x) \in F
      BY <2>4
    <3> HIDE DEF F
    <3> QED
      BY <3>2
  <2> QED
    BY <2>5, <2>6
<1>2. IsWellFoundedOn(R, S)
  BY FS_StrictSubsetOrderingWellFounded
<1>3. \E s \in F : \A t \in F : <<t, s>> \notin R
  <2> HIDE DEF F, R, S
  <2> QED
    BY <1>1, <1>2, WFMin
<1>4. PICK x \in T : \A t \in F : <<t, Before(x)>> \notin R
  BY <1>3
<1>5. ASSUME NEW y \in T, <<y, x>> \in B PROVE FALSE
  <2>1. Before(y) \subseteq Before(x) /\ y \in Before(x) /\ y \notin Before(y)
    BY <1>5
  <2>2. Before(y) \in SUBSET (1..n) /\ Before(x) \in SUBSET (1..n) /\ Before(y) # Before(x)
    BY <2>1
  <2>3. <<Before(y), Before(x)>> \in R
    BY <2>1, <2>2 DEF StrictSubsetOrdering
  <2>4. Before(y) \in F
    BY <1>5
  <2> QED
    BY <2>3, <2>4, <1>4
<1> QED
  BY <1>5

LEMMA RunFact ==
    ASSUME runs \in Seq(Record)
    PROVE  /\ Len(runs) \in Nat
           /\ \A i \in 1..Len(runs) :
                 runs[i] \in Record /\ runs[i].strict \in Nat /\ runs[i].speed \in Nat
<1>1. Len(runs) \in Nat /\ \A i \in 1..Len(runs) : runs[i] \in Record
  OBVIOUS
<1> QED
  BY <1>1 DEF Record

(* Some of the qualified have the fewest failures. *)
LEMMA SomeEligible ==
    ASSUME runs \in Seq(Record), Qualified # {}
    PROVE  Eligible # {}
<1> DEFINE B == {p \in Qualified \X Qualified : runs[p[1]].strict < runs[p[2]].strict}
<1>1. Qualified \subseteq 1..Len(runs) /\ Len(runs) \in Nat
  BY DEF Qualified, Passed
<1>2. \A i \in Qualified : runs[i].strict \in Nat
  BY <1>1, RunFact
<1>3. \A x \in Qualified : <<x, x>> \notin B
  BY <1>2
<1>4. \A x, y, z \in Qualified : <<x, y>> \in B /\ <<y, z>> \in B => <<x, z>> \in B
  BY <1>2
<1>5. \E x \in Qualified : \A y \in Qualified : <<y, x>> \notin B
  <2> HIDE DEF B
  <2> QED
    BY <1>1, <1>3, <1>4, FirstOf
<1>6. PICK x \in Qualified : \A y \in Qualified : <<y, x>> \notin B
  BY <1>5
<1>7. ASSUME NEW y \in Qualified PROVE runs[x].strict <= runs[y].strict
  <2>1. ~(runs[y].strict < runs[x].strict)
    BY <1>6
  <2> QED
    BY <1>2, <2>1
<1> QED
  BY <1>7 DEF Eligible

(* There is a first among the fastest. *)
LEMMA SomeFastest ==
    ASSUME runs \in Seq(Record), NEW S, S \subseteq 1..Len(runs), S # {}
    PROVE  /\ FirstFastest(S) \in S
           /\ \A j \in S :
                 \/ runs[j].speed < runs[FirstFastest(S)].speed
                 \/ runs[j].speed = runs[FirstFastest(S)].speed /\ FirstFastest(S) <= j
<1> DEFINE B == {p \in S \X S : \/ runs[p[1]].speed > runs[p[2]].speed
                                \/ runs[p[1]].speed = runs[p[2]].speed /\ p[1] < p[2]}
<1>1. Len(runs) \in Nat /\ \A i \in S : i \in Nat /\ runs[i].speed \in Nat
  BY RunFact
<1>2. \A x \in S : <<x, x>> \notin B
  BY <1>1
<1>3. \A x, y, z \in S : <<x, y>> \in B /\ <<y, z>> \in B => <<x, z>> \in B
  BY <1>1
<1>4. \E x \in S : \A y \in S : <<y, x>> \notin B
  <2> HIDE DEF B
  <2> QED
    BY <1>1, <1>2, <1>3, FirstOf
<1>5. PICK i \in S : \A j \in S : <<j, i>> \notin B
  BY <1>4
<1>6. ASSUME NEW j \in S
      PROVE  runs[j].speed < runs[i].speed \/ (runs[j].speed = runs[i].speed /\ i <= j)
  <2>1. ~(runs[j].speed > runs[i].speed) /\ ~(runs[j].speed = runs[i].speed /\ j < i)
    BY <1>5
  <2> QED
    BY <1>1, <2>1
<1>7. \E x \in S : \A j \in S :
        runs[j].speed < runs[x].speed \/ (runs[j].speed = runs[x].speed /\ x <= j)
  BY <1>6
<1> QED
  BY <1>7 DEF FirstFastest

LEMMA WinnerFact ==
    ASSUME runs \in Seq(Record), Len(runs) > 0
    PROVE  /\ WinnerIndex \in 1..Len(runs)
           /\ Qualified = {} => WinnerIndex = 1
           /\ Qualified # {} =>
                 /\ WinnerIndex \in Qualified
                 /\ \A j \in Qualified :
                       /\ ~Better(runs[j], runs[WinnerIndex])
                       /\ j < WinnerIndex => Better(runs[WinnerIndex], runs[j])
<1>1. Eligible \subseteq Qualified /\ Qualified \subseteq 1..Len(runs)
  BY DEF Eligible, Qualified, Passed
<1>2. CASE Qualified = {}
  BY <1>1, <1>2 DEF WinnerIndex
<1>3. CASE Qualified # {}
  <2> DEFINE w == FirstFastest(Eligible)
  <2>1. Eligible # {}
    BY <1>3, SomeEligible
  <2>2. /\ w \in Eligible
        /\ \A j \in Eligible :
              runs[j].speed < runs[w].speed \/ (runs[j].speed = runs[w].speed /\ w <= j)
    BY <1>1, <2>1, SomeFastest
  <2>3. WinnerIndex = w
    BY <2>1 DEF WinnerIndex
  <2>4. ASSUME NEW j \in Qualified
        PROVE  runs[j].strict \in Nat /\ runs[j].speed \in Nat /\ j \in Nat
    <3>1. j \in 1..Len(runs)
      BY <1>1
    <3> QED
      BY <3>1, RunFact
  <2> HIDE DEF w
  <2>5. ASSUME NEW j \in Qualified
        PROVE  /\ ~Better(runs[j], runs[w])
               /\ j < w => Better(runs[w], runs[j])
    <3>1. runs[w].strict <= runs[j].strict
      BY <2>2 DEF Eligible
    <3>2. runs[j].strict = runs[w].strict => j \in Eligible
      BY <2>2 DEF Eligible
    <3>3. w \in Qualified
      BY <1>1, <2>2
    <3> QED
      BY <2>2, <2>4, <3>1, <3>2, <3>3 DEF Better
  <2> QED
    BY <1>1, <2>2, <2>3, <2>5
<1> QED
  BY <1>2, <1>3

-----------------------------------------------------------------------------
(* The grading. *)

LEMMA AfterFact ==
    \A n \in Nat :
        /\ After(n) \in {"trial", "select"}
        /\ n < Len(Depths) => After(n) = "trial"
        /\ After(n) = "select" <=> n = Len(Depths)
  BY Trials DEF After

LEMMA SameRecords ==
    ASSUME Graded, UNCHANGED runs
    PROVE  /\ \A i \in 1..Len(runs') : GradedAs(runs'[i], Depths[i])
           /\ Len(runs') <= Len(Depths) /\ (Len(runs') > 0 => runs'[1].ok)
  BY DEF Graded

(* The marker of no other trial is touched. *)
Elsewhere == \A d : d # Depth => (d \in marker' <=> d \in marker)

(* Another record. *)
LEMMA Appends ==
    ASSUME SelectionTypes, Graded, Len(runs) < Len(Depths), NEW r \in Record,
           runs' = Append(runs, r), GradedAs(r, Depth), Len(runs) = 0 => r.ok,
           pc' = After(Len(runs) + 1)
    PROVE  /\ Graded' /\ pc' \in {"trial", "select"}
           /\ runs' \in Seq(Record) /\ Len(runs') = Len(runs) + 1
<1>1. /\ runs' \in Seq(Record) /\ Len(runs) \in Nat /\ Len(runs') = Len(runs) + 1
      /\ runs'[Len(runs) + 1] = r /\ \A i \in 1..Len(runs) : runs'[i] = runs[i]
  BY DEF SelectionTypes
<1>2. /\ pc' \in {"trial", "select"} /\ (pc' = "select" <=> Len(runs) + 1 = Len(Depths))
  BY <1>1, AfterFact
<1>3. ASSUME NEW i \in 1..Len(runs') PROVE GradedAs(runs'[i], Depths[i])
  <2>1. CASE i = Len(runs) + 1
    BY <1>1, <2>1 DEF Depth
  <2>2. CASE i \in 1..Len(runs)
    BY <1>1, <2>2 DEF Graded
  <2> QED
    BY <1>1, <2>1, <2>2
<1>4. Len(runs') > 0 => runs'[1].ok
  BY <1>1 DEF Graded
<1>5. /\ pc' \in {"trial", "short", "merge"} => Len(runs') < Len(Depths)
      /\ pc' \in {"select", "done"} => Len(runs') = Len(Depths)
      /\ Len(runs') <= Len(Depths)
  BY <1>1, <1>2, Trials
<1>6. pc' # "merge" /\ pc' # "done"
  BY <1>2
<1> QED
  BY <1>1, <1>2, <1>3, <1>4, <1>5, <1>6 DEF Graded

LEMMA ProbesLongStep ==
    ASSUME SelectionTypes, Graded, ProbesLong
    PROVE  SelectionTypes' /\ Graded' /\ pc' = "short" /\ UNCHANGED <<runs, marker>>
<1>1. SelectionTypes'
  BY DEF SelectionTypes, ProbesLong, Place
<1>2. Graded'
  BY SameRecords DEF Graded, ProbesLong
<1> QED
  BY <1>1, <1>2 DEF ProbesLong

LEMMA ProbesShortStep ==
    ASSUME SelectionTypes, Graded, ProbesShort
    PROVE  /\ SelectionTypes' /\ Graded' /\ pc' = "merge" /\ UNCHANGED runs
           /\ Elsewhere
<1>1. Len(runs) < Len(Depths)
  BY DEF Graded, ProbesShort
<1>2. Depth \in AllDepths /\ \A i \in 1..Len(runs) : Depths[i] # Depth
  BY <1>1, DepthFact DEF SelectionTypes
<1>3. SelectionTypes'
  BY <1>2 DEF SelectionTypes, ProbesShort, Place
<1>4. \A d : d # Depth => (d \in marker' <=> d \in marker)
  BY DEF ProbesShort
<1>5. ASSUME NEW i \in 1..Len(runs) PROVE GradedAs(runs[i], Depths[i])
  BY DEF Graded
<1>6. short'.done /\ short'.formats = 0 => Depth \in marker'
  BY DEF ProbesShort
<1>7. Depth' = Depth
  BY DEF Depth, ProbesShort
<1>8. pc' = "merge" /\ runs' = runs
  BY DEF ProbesShort
<1> QED
  BY <1>1, <1>3, <1>4, <1>5, <1>6, <1>7, <1>8 DEF Graded, Elsewhere

LEMMA GradesStep ==
    ASSUME SelectionTypes, Graded, Grades
    PROVE  /\ SelectionTypes' /\ Graded' /\ pc' \in {"trial", "select"} /\ Elsewhere
           /\ \E r \in Record :
                 /\ runs' = Append(runs, r) /\ r.ok /\ r.depth = Depth
                 /\ r.quality <=> Depth \in marker'
<1>1. Len(runs) < Len(Depths) /\ pc' = After(Len(runs) + 1)
  BY DEF Graded, Grades
<1>2. Depth \in AllDepths /\ Depth \in Nat
  BY <1>1, DepthFact DEF SelectionTypes
<1>3. PICK s \in Speeds :
          runs' = Append(runs, [depth |-> Depth, ok |-> TRUE,
                                strict |-> (IF short.done THEN short.formats ELSE 0) + Misses,
                                semantic |-> long /\ short.done,
                                quality |-> Quality, speed |-> s])
  BY DEF Grades
<1> DEFINE strict == (IF short.done THEN short.formats ELSE 0) + Misses
           r == [depth |-> Depth, ok |-> TRUE, strict |-> strict,
                 semantic |-> long /\ short.done, quality |-> Quality, speed |-> s]
<1>4. short.done \in BOOLEAN /\ short.formats \in Nat /\ long \in BOOLEAN /\ s \in Nat
  <2>1. s \in Nat /\ long \in BOOLEAN /\ short \in ShortReport
    BY SpeedsAssumption DEF SelectionTypes
  <2>2. 0..MaxFormats \subseteq Nat
    BY MaxFormatsAssumption
  <2>3. CASE short = Unknown
    BY <2>1, <2>3 DEF Unknown
  <2>4. CASE short \in [done : {TRUE}, formats : 0..MaxFormats]
    <3>1. short.done = TRUE /\ short.formats \in 0..MaxFormats
      BY <2>4
    <3> QED
      BY <2>1, <2>2, <3>1
  <2> QED
    BY <2>1, <2>3, <2>4 DEF ShortReport
<1>5. strict \in Nat /\ (Quality <=> long /\ short.done /\ strict = 0)
  BY <1>4 DEF Misses, Quality
<1>6. Quality \in BOOLEAN /\ (long /\ short.done) \in BOOLEAN
  BY <1>4 DEF Quality
<1> HIDE DEF strict
<1>7. r \in Record
  BY <1>2, <1>4, <1>5, <1>6 DEF Record
<1>8. Quality => Depth \in marker
  BY DEF Quality, Graded, Grades
<1>9. /\ Quality <=> Depth \in marker'
      /\ \A d : d # Depth => (d \in marker' <=> d \in marker)
  BY <1>8 DEF Grades, MarkerAfter
<1>10. GradedAs(r, Depth)
  BY <1>5 DEF GradedAs
<1>11. runs' = Append(runs, r) /\ r.ok /\ r.depth = Depth /\ r.quality = Quality
  BY <1>3 DEF strict
<1> HIDE DEF r
<1>12. /\ Graded' /\ pc' \in {"trial", "select"} /\ runs' \in Seq(Record)
  BY <1>1, <1>7, <1>10, <1>11, Appends
<1>13. SelectionTypes'
  BY <1>12 DEF SelectionTypes, Grades, MarkerAfter, Place, ShortReport
<1> QED
  BY <1>7, <1>9, <1>11, <1>12, <1>13 DEF Elsewhere

LEMMA TrialRaisesStep ==
    ASSUME SelectionTypes, Graded, TrialRaises
    PROVE  /\ SelectionTypes' /\ Graded' /\ pc' \in {"failed", "trial", "select"}
           /\ Elsewhere /\ (pc = "trial" => UNCHANGED marker)
           /\ pc' = "failed" <=> runs = <<>>
           /\ pc' = "failed" => UNCHANGED runs
           /\ pc' # "failed" =>
                 \E r \in Record : runs' = Append(runs, r) /\ ~r.ok /\ Len(runs) > 0
<1>1. Len(runs) < Len(Depths)
  BY DEF Graded, TrialRaises
<1>2. /\ Depth \in Nat /\ (Depth = 0 <=> Len(runs) = 0) /\ Len(runs) \in Nat
      /\ Len(runs) = 0 <=> runs = <<>>
  BY <1>1, DepthFact DEF SelectionTypes
<1>3. /\ long' = FALSE /\ short' = Unknown /\ winner' = winner
      /\ marker' = marker \/ (pc = "merge" /\ marker' = MarkerAfter)
  BY DEF TrialRaises
<1>6. Elsewhere /\ marker' \subseteq AllDepths /\ (pc = "trial" => marker' = marker)
  BY <1>3 DEF Elsewhere, MarkerAfter, SelectionTypes
<1>4. CASE Depth = 0
  <2>1. pc' = "failed" /\ runs' = runs
    BY <1>4 DEF TrialRaises
  <2>2. SelectionTypes'
    BY <1>3, <1>6, <2>1 DEF SelectionTypes, Place, ShortReport
  <2>3. Graded'
    BY <1>3, <2>1, SameRecords DEF Graded
  <2> QED
    BY <1>2, <1>4, <1>6, <2>1, <2>2, <2>3
<1>5. CASE Depth # 0
  <2>1. pc' = After(Len(runs) + 1) /\ runs' = Append(runs, FailedRun(Depth))
    BY <1>5 DEF TrialRaises
  <2>2. FailedRun(Depth) \in Record /\ ~FailedRun(Depth).ok
    BY <1>2, FailedFact DEF FailedRun
  <2>3. GradedAs(FailedRun(Depth), Depth)
    BY DEF GradedAs, FailedRun
  <2>4. Graded' /\ pc' \in {"trial", "select"} /\ runs' \in Seq(Record)
    BY <1>1, <1>2, <1>3, <1>5, <2>1, <2>2, <2>3, Appends
  <2>5. SelectionTypes'
    BY <1>3, <1>6, <2>4 DEF SelectionTypes, Place, ShortReport
  <2> QED
    BY <1>2, <1>5, <1>6, <2>1, <2>2, <2>4, <2>5
<1> QED
  BY <1>4, <1>5

LEMMA SelectsStep ==
    ASSUME SelectionTypes, Graded, Selects
    PROVE  /\ SelectionTypes' /\ Graded' /\ pc' \in {"done", "failed"} /\ UNCHANGED runs
           /\ winner' = runs[WinnerIndex] /\ Len(runs) = Len(Depths)
           /\ Last = runs[Len(runs)] /\ Last.ok \in BOOLEAN
<1>1. Len(runs) = Len(Depths) /\ Len(runs) > 0 /\ Len(runs) \in Nat
  BY Trials DEF Graded, Selects
<1>2. WinnerIndex \in 1..Len(runs) /\ runs[WinnerIndex] \in Record
  BY <1>1, WinnerFact, RunFact DEF SelectionTypes
<1>3. /\ winner' = runs[WinnerIndex] /\ pc' \in {"done", "failed"} /\ runs' = runs
      /\ marker' = marker /\ long' = long /\ short' = short
      /\ pc' = "done" => (status' = "complete" <=> winner'.quality)
  BY DEF Selects
<1>4. WinnerIndex' = WinnerIndex
  BY <1>3 DEF WinnerIndex, FirstFastest, Eligible, Qualified, Passed
<1>5. SelectionTypes'
  BY <1>2, <1>3 DEF SelectionTypes, Place
<1>6. Graded'
  BY <1>1, <1>3, <1>4, SameRecords DEF Graded
<1>7. Last = runs[Len(runs)] /\ Last.ok \in BOOLEAN
  BY <1>1, RunFact DEF Last, Record, SelectionTypes
<1> QED
  BY <1>1, <1>3, <1>5, <1>6, <1>7

LEMMA ResumesStep ==
    ASSUME SelectionTypes, Graded, ResumesBaseline
    PROVE  /\ SelectionTypes' /\ Graded' /\ pc' \in {"trial", "select"}
           /\ 0 \notin marker /\ \E r \in Record : runs' = <<r>> /\ runs = <<>>
<1>1. Len(runs) < Len(Depths) /\ pc' = After(1) /\ runs = <<>> /\ 0 \notin marker
  BY DEF Graded, ResumesBaseline
<1>2. Depth = 0
  BY <1>1, DepthFact DEF SelectionTypes
<1>3. PICK n \in 0..MaxFormats, missed \in BOOLEAN, s \in Speeds :
          runs' = <<[depth |-> 0, ok |-> TRUE, strict |-> IF missed THEN 1 ELSE n,
                     semantic |-> ~missed, quality |-> ~missed /\ n = 0, speed |-> s]>>
  BY DEF ResumesBaseline
<1> DEFINE r == [depth |-> 0, ok |-> TRUE, strict |-> IF missed THEN 1 ELSE n,
                 semantic |-> ~missed, quality |-> ~missed /\ n = 0, speed |-> s]
<1>4. r \in Record
  BY MaxFormatsAssumption, SpeedsAssumption DEF Record
<1>5. GradedAs(r, Depth)
  BY <1>2 DEF GradedAs
<1>6. runs' = <<r>> /\ r.ok
  BY <1>3
<1> HIDE DEF r
<1>7. runs' = Append(runs, r) /\ Len(runs) = 0
  BY <1>1, <1>6
<1>8. Graded' /\ pc' \in {"trial", "select"} /\ runs' \in Seq(Record)
  BY <1>1, <1>4, <1>5, <1>6, <1>7, Appends
<1>9. marker' \subseteq AllDepths
  BY <1>1, <1>2, DepthFact DEF SelectionTypes, ResumesBaseline
<1>10. SelectionTypes'
  BY <1>8, <1>9 DEF SelectionTypes, ResumesBaseline, Place
<1> QED
  BY <1>1, <1>4, <1>6, <1>8, <1>10

-----------------------------------------------------------------------------
(* What most steps leave alone. *)

LEMMA SelectionSame ==
    ASSUME SelectionTypes, Graded, UNCHANGED vars
    PROVE  SelectionTypes' /\ Graded'
<1>1. WinnerIndex' = WinnerIndex /\ Depth' = Depth
  BY DEF vars, WinnerIndex, FirstFastest, Eligible, Qualified, Passed, Depth
<1>2. Graded'
  BY <1>1, SameRecords DEF vars, Graded
<1> QED
  BY <1>2 DEF vars, SelectionTypes

LEMMA AlikeSame ==
    ASSUME PairIsAlike, pair' = pair \/ pair' = Down
    PROVE  PairIsAlike'
  BY DownFact DEF PairIsAlike

LEMMA MeasuredSame ==
    ASSUME Measured, UNCHANGED <<runs, made, files, node, overlay, resume, overrun>>
    PROVE  Measured'
  BY DEF Measured, MeasuredAs, Trusted, Reused

LEMMA MeasuredNone == ASSUME runs' = <<>> PROVE Measured'
  BY DEF Measured

(* A trial in progress may touch its own marker. *)
LEMMA Untouched ==
    ASSUME RecipeInv, marker' = marker \/ (job = "trial" /\ Elsewhere),
           UNCHANGED <<runs, outVars>>,
           job' = "trial" => job = "trial" /\ UNCHANGED pair
    PROVE  Marked' /\ Kept' /\ OutTypes'
<1> USE DEF RecipeInv
<1>1. /\ UNCHANGED <<runs, there, metadata, record, overrun, saved, made>>
      /\ \A i : Trusted(i)' <=> Trusted(i)
  BY DEF outVars, Trusted
<1>2. OutTypes'
  BY <1>1 DEF RecipeTypes, OutTypes
<1>3. job' = "trial" /\ runs' = <<>> =>
          /\ there' /\ (overrun' \/ record' = NoReceipt)
          /\ \A h \in Hosts : \A f \in Described : metadata'[h][f] = pair'.on[h][f]
  BY <1>1 DEF Kept
<1>4. CASE marker' = marker
  BY <1>1, <1>2, <1>3, <1>4 DEF Marked, Kept
<1>5. CASE job = "trial" /\ Elsewhere
  <2>1. Len(runs) < Len(Depths) /\ runs \in Seq(Record)
    BY <1>5 DEF Places, Graded, RecipeTypes, SelectionTypes
  <2>2. /\ \A i \in 1..Len(runs) : Depths[i] # Depth
        /\ Depth = 0 <=> Len(runs) = 0
    BY <2>1, DepthFact
  <2>3. \A i \in 1..Len(runs) : Depths[i] \in marker' <=> Depths[i] \in marker
    BY <1>5, <2>2 DEF Elsewhere
  <2>4. Marked'
    BY <1>1, <2>3 DEF Marked
  <2>5. overrun \/ record = NoReceipt \/ (0 \in marker' <=> 0 \in marker)
    <3>1. CASE runs = <<>>
      BY <1>5, <3>1 DEF Kept
    <3>2. CASE runs # <<>>
      BY <1>5, <2>1, <2>2, <3>2 DEF Elsewhere
    <3> QED
      BY <3>1, <3>2
  <2>6. Kept'
    BY <1>1, <1>3, <2>5 DEF Kept, Tells
  <2> QED
    BY <1>2, <2>4, <2>6
<1> QED
  BY <1>4, <1>5

(* Before the first trial. *)
LEMMA Early ==
    ASSUME RecipeInv, runs = <<>>, pc = "trial",
           UNCHANGED <<vars, outVars, pair>>, job' # "trial", resume' \in BOOLEAN
    PROVE  /\ SelectionTypes' /\ Graded' /\ Running' /\ Measured'
           /\ Marked' /\ Kept' /\ OutTypes'
<1> USE DEF RecipeInv
<1>1. runs' = <<>> /\ pc' = "trial" /\ Len(runs') = 0 /\ Reused' \in Nat /\ marker' = marker
  BY DEF vars, Reused
<1>2. PairIsAlike'
  BY AlikeSame DEF Running
<1>3. SelectionTypes' /\ Graded' /\ Running' /\ Measured'
  BY <1>1, <1>2, SelectionSame, MeasuredNone DEF Running, RecipeTypes
<1>4. Marked' /\ Kept' /\ OutTypes'
  BY <1>1, Untouched
<1> QED
  BY <1>3, <1>4

(* A campaign that fails or is cut. *)
LEMMA Stops ==
    ASSUME RecipeInv, job' = "idle", pc' = "failed", pair' = Down,
           marker' \subseteq AllDepths, marker' = marker \/ (job = "trial" /\ Elsewhere),
           UNCHANGED <<long, short, runs, winner, status, outVars>>
    PROVE  SelectionTypes' /\ Graded' /\ Running' /\ Marked' /\ Kept' /\ OutTypes'
<1> USE DEF RecipeInv
<1>1. SelectionTypes'
  BY DEF RecipeTypes, SelectionTypes, Place
<1>2. Graded'
  BY SameRecords DEF Graded
<1>3. Running'
  BY AlikeSame DEF Running
<1>4. Marked' /\ Kept' /\ OutTypes'
  BY Untouched
<1> QED
  BY <1>1, <1>2, <1>3, <1>4

-----------------------------------------------------------------------------
(* The operator. *)

LEMMA EditsStep == ASSUME RecipeInv, Edits PROVE RecipeInv'
<1> USE DEF RecipeInv
<1>1. /\ job = "idle" /\ pc = "trial" /\ runs = <<>> /\ at = 1
      /\ \A h \in Hosts : worker[h] = "off"
  BY DEF Edits, Acts, Places, Arrived
<1>2. UNCHANGED <<vars, nodeVars, job, at, resume, outVars, pair>>
  BY DEF Edits
<1>3. /\ SelectionTypes' /\ Graded' /\ Running' /\ Measured'
      /\ Marked' /\ Kept' /\ OutTypes'
  BY <1>1, <1>2, Early DEF RecipeTypes, OtherTypes
<1>4. NodeTypes'
  <2>1. files' \in [File -> Version]
    BY DEF Edits, RecipeTypes, NodeTypes
  <2> QED
    BY <1>2, <2>1 DEF RecipeTypes, NodeTypes, nodeVars
<1>5. OtherTypes'
  BY <1>2 DEF RecipeTypes, OtherTypes, outVars
<1>6. Places'
  BY <1>1, <1>2, <1>3 DEF Places, vars, outVars
<1>7. Arrived'
  BY <1>1, <1>2 DEF Arrived, nodeVars, vars
<1> QED
  BY <1>3, <1>4, <1>5, <1>6, <1>7 DEF RecipeTypes

LEMMA StartsPrepareStep == ASSUME RecipeInv, StartsPrepare PROVE RecipeInv'
<1> USE DEF RecipeInv
<1>1. job = "idle" /\ pc = "trial" /\ runs = <<>> /\ at = 1
  BY DEF StartsPrepare, Acts, Places
<1>2. /\ UNCHANGED <<vars, files, node, overlay, prepared, at, resume, outVars, pair>>
      /\ job' = "prepare" /\ worker' = [h \in Hosts |-> "copy"] /\ clean' = FALSE
  BY DEF StartsPrepare
<1>3. /\ SelectionTypes' /\ Graded' /\ Running' /\ Measured'
      /\ Marked' /\ Kept' /\ OutTypes'
  BY <1>1, <1>2, Early DEF RecipeTypes, OtherTypes
<1>4. NodeTypes'
  BY <1>2 DEF RecipeTypes, NodeTypes, Stage
<1>5. OtherTypes'
  BY <1>2 DEF RecipeTypes, OtherTypes, outVars, Job
<1>6. Places'
  BY <1>1, <1>2, <1>3 DEF Places, vars, outVars
<1>7. Arrived'
  BY <1>1, <1>2 DEF Arrived, vars
<1> QED
  BY <1>3, <1>4, <1>5, <1>6, <1>7 DEF RecipeTypes

LEMMA StartsCampaignStep == ASSUME RecipeInv, StartsCampaign PROVE RecipeInv'
<1> USE DEF RecipeInv
<1>1. job = "idle" /\ pc = "trial" /\ runs = <<>> /\ at = 1
  BY DEF StartsCampaign, Acts, Places
<1>2. /\ UNCHANGED <<vars, fileVars, at, outVars, pair>>
      /\ job' = "send" /\ resume' \in BOOLEAN
  BY DEF StartsCampaign
<1>3. /\ SelectionTypes' /\ Graded' /\ Running' /\ Measured'
      /\ Marked' /\ Kept' /\ OutTypes'
  BY <1>1, <1>2, Early DEF fileVars
<1>4. NodeTypes'
  BY <1>2 DEF RecipeTypes, NodeTypes, fileVars
<1>5. OtherTypes'
  BY <1>2 DEF RecipeTypes, OtherTypes, outVars, Job
<1>6. Places'
  BY <1>1, <1>2, <1>3 DEF Places, vars, outVars
<1>7. Arrived'
  BY <1>1, <1>2 DEF Arrived, vars, fileVars, Hosts
<1> QED
  BY <1>3, <1>4, <1>5, <1>6, <1>7 DEF RecipeTypes

LEMMA PutsAwayStep == ASSUME RecipeInv, PutsAway PROVE RecipeInv'
<1> USE DEF RecipeInv
<1>1. job = "idle" /\ at = 1 /\ pc \in {"done", "failed"}
  BY DEF PutsAway, Places
<1>2. /\ UNCHANGED <<fileVars, job, at>> /\ pc' = "trial" /\ long' = FALSE
      /\ short' = Unknown /\ runs' = <<>> /\ made' = <<>> /\ winner' = NoRun
      /\ pair' = Down /\ resume' = FALSE
  BY DEF PutsAway
<1>3. marker' \subseteq AllDepths
  BY DEF PutsAway, RecipeTypes, SelectionTypes
<1>4. OutTypes' /\ Marked' /\ Kept'
  <2>1. /\ made' \in Seq(Made) /\ Marked' /\ job' # "trial"
    BY <1>1, <1>2, NoneFact DEF Marked
  <2>2. CASE UNCHANGED <<marker, there, metadata, record, overrun, saved>>
    <3>1. OutTypes'
      BY <2>1, <2>2 DEF RecipeTypes, OutTypes
    <3>2. Kept'
      BY <2>1, <2>2 DEF Kept
    <3> QED
      BY <2>1, <3>1, <3>2
  <2> DEFINE kept == [receipt |-> record, metadata |-> metadata,
                      passed |-> 0 \in marker, overrun |-> overrun]
  <2>3. CASE /\ marker' = {} /\ there' = FALSE /\ metadata' = NoMetadata
             /\ record' = NoReceipt /\ overrun' = FALSE
             /\ saved' = IF Reusable THEN kept ELSE saved
    <3>1. kept \in Results
      BY DEF Results, RecipeTypes, OutTypes
    <3>2. Reusable /\ ~kept.overrun => Tells(kept.metadata, kept.passed, kept.receipt)
      BY DEF Kept, Reusable
    <3> HIDE DEF kept
    <3>3. saved' \in Results
      BY <2>3, <3>1 DEF RecipeTypes, OutTypes
    <3>4. OutTypes'
      BY <2>1, <2>3, <3>3, DownFact DEF OutTypes
    <3>5. ~saved'.overrun /\ saved' # NoResults =>
             Tells(saved'.metadata, saved'.passed, saved'.receipt)
      BY <2>3, <3>2 DEF Kept
    <3>6. Kept'
      BY <2>1, <2>3, <3>5 DEF Kept
    <3> QED
      BY <2>1, <3>4, <3>6
  <2> QED
    BY <2>2, <2>3 DEF PutsAway
<1>5. SelectionTypes'
  <2>1. winner' \in Record /\ runs' \in Seq(Record) /\ marker' \subseteq AllDepths
    BY <1>2, <1>3, DownFact
  <2> QED
    BY <1>2, <2>1 DEF SelectionTypes, Place, ShortReport
<1>6. NodeTypes'
  BY <1>2 DEF RecipeTypes, NodeTypes, fileVars
<1>7. OtherTypes'
  BY <1>2, DownFact DEF RecipeTypes, OtherTypes
<1>8. Graded'
  BY <1>2, Trials DEF Graded
<1>9. Places'
  BY <1>1, <1>2 DEF Places
<1>10. Arrived'
  BY <1>1, <1>2 DEF Arrived, fileVars
<1>11. Running'
  BY <1>1, <1>2, AlikeSame DEF Running
<1>12. Measured'
  BY <1>2, MeasuredNone
<1> QED
  BY <1>4, <1>5, <1>6, <1>7, <1>8, <1>9, <1>10, <1>11, <1>12 DEF RecipeTypes

-----------------------------------------------------------------------------
(* The preparation. *)

(* Steps of a preparation but its end. *)
LEMMA PrepareRest ==
    ASSUME RecipeInv, job = "prepare",
           UNCHANGED <<vars, files, prepared, clean, job, at, resume, outVars, pair>>
    PROVE  /\ SelectionTypes' /\ Graded' /\ Running' /\ Measured' /\ OtherTypes' /\ Places'
           /\ Marked' /\ Kept' /\ OutTypes'
           /\ pc' = "trial" /\ ~clean' /\ job' = "prepare"
<1> USE DEF RecipeInv
<1>1. pc = "trial" /\ runs = <<>> /\ ~clean
  BY DEF Places, Arrived
<1>2. /\ SelectionTypes' /\ Graded' /\ Running' /\ Measured'
      /\ Marked' /\ Kept' /\ OutTypes'
  BY <1>1, Early DEF RecipeTypes, OtherTypes
<1>3. OtherTypes'
  BY DEF RecipeTypes, OtherTypes, outVars
<1>4. Places'
  BY DEF Places, vars, outVars
<1> QED
  BY <1>1, <1>2, <1>3, <1>4 DEF vars

LEMMA CopiesIndexerStep ==
    ASSUME RecipeInv, NEW h \in Hosts, CopiesIndexer(h)
    PROVE  RecipeInv'
<1> USE DEF RecipeInv
<1>1. /\ job = "prepare" /\ worker[h] = "copy"
      /\ UNCHANGED <<vars, files, overlay, prepared, clean, job, at, resume, outVars, pair>>
  BY DEF CopiesIndexer, Working
<1>2. /\ SelectionTypes' /\ Graded' /\ Running' /\ Measured' /\ OtherTypes' /\ Places'
      /\ Marked' /\ Kept' /\ OutTypes'
      /\ pc' = "trial" /\ ~clean' /\ job' = "prepare"
  BY <1>1, PrepareRest
<1>3. PICK v \in Ver, st \in {"failed", "install"} :
          /\ node' = node \/ node' = [node EXCEPT ![h][Indexer] = v]
          /\ worker' = [worker EXCEPT ![h] = st]
          /\ st = "install" => v = files[Indexer] /\ node' = [node EXCEPT ![h][Indexer] = v]
  <2>1. files[Indexer] \in Ver /\ Missing \in Ver
    BY Names DEF RecipeTypes, NodeTypes, Ver
  <2> QED
    BY <2>1 DEF CopiesIndexer, Fails, GoesOn
<1>4. node' \in [Hosts -> Copies] /\ worker' \in [Hosts -> Stage]
  <2>1. node \in [Hosts -> Copies] /\ worker \in [Hosts -> Stage]
    BY DEF RecipeTypes, NodeTypes
  <2>2. [node[h] EXCEPT ![Indexer] = v] \in Copies
    BY <2>1 DEF Copies
  <2> QED
    BY <1>3, <2>1, <2>2 DEF Stage
<1>5. NodeTypes'
  BY <1>1, <1>4 DEF RecipeTypes, NodeTypes
<1>6. /\ worker'[h] = st /\ \A g \in Hosts \ {h} : worker'[g] = worker[g] /\ node'[g] = node[g]
      /\ st = "install" => node'[h][Indexer] = files[Indexer]
  BY <1>3, Names DEF RecipeTypes, NodeTypes, Copies
<1>7. Arrived'
  BY <1>1, <1>2, <1>6 DEF Arrived
<1> QED
  BY <1>2, <1>5, <1>7 DEF RecipeTypes

LEMMA InstallsOverlayStep ==
    ASSUME RecipeInv, NEW h \in Hosts, InstallsOverlay(h)
    PROVE  RecipeInv'
<1> USE DEF RecipeInv
<1>1. /\ job = "prepare" /\ worker[h] = "install"
      /\ UNCHANGED <<vars, files, node, prepared, clean, job, at, resume, outVars, pair>>
  BY DEF InstallsOverlay, Working
<1>2. /\ SelectionTypes' /\ Graded' /\ Running' /\ Measured' /\ OtherTypes' /\ Places'
      /\ Marked' /\ Kept' /\ OutTypes'
      /\ pc' = "trial" /\ ~clean' /\ job' = "prepare"
  BY <1>1, PrepareRest
<1>3. PICK o \in Overlay, st \in {"failed", "check"} :
          overlay' = [overlay EXCEPT ![h] = o] /\ worker' = [worker EXCEPT ![h] = st]
  BY DEF InstallsOverlay, Fails, GoesOn, RecipeTypes, NodeTypes, Overlay
<1>4. overlay' \in [Hosts -> Overlay] /\ worker' \in [Hosts -> Stage]
  BY <1>3 DEF RecipeTypes, NodeTypes, Stage
<1>5. NodeTypes'
  BY <1>1, <1>4 DEF RecipeTypes, NodeTypes
<1>6. /\ worker'[h] = st
      /\ \A g \in Hosts \ {h} : worker'[g] = worker[g] /\ overlay'[g] = overlay[g]
  BY <1>3 DEF RecipeTypes, NodeTypes
<1>7. Arrived'
  BY <1>1, <1>2, <1>6 DEF Arrived
<1> QED
  BY <1>2, <1>5, <1>7 DEF RecipeTypes

LEMMA ChecksOverlayStep ==
    ASSUME RecipeInv, NEW h \in Hosts, ChecksOverlay(h)
    PROVE  RecipeInv'
<1> USE DEF RecipeInv
<1>1. /\ job = "prepare" /\ worker[h] = "check"
      /\ UNCHANGED <<vars, files, node, overlay, prepared, clean, job, at, resume, outVars, pair>>
  BY DEF ChecksOverlay, Working
<1>2. /\ SelectionTypes' /\ Graded' /\ Running' /\ Measured' /\ OtherTypes' /\ Places'
      /\ Marked' /\ Kept' /\ OutTypes'
      /\ pc' = "trial" /\ ~clean' /\ job' = "prepare"
  BY <1>1, PrepareRest
<1>3. PICK st \in {"failed", "ready"} :
          worker' = [worker EXCEPT ![h] = st] /\ (st = "ready" => overlay[h] = "whole")
  BY DEF ChecksOverlay, Fails, GoesOn
<1>4. worker' \in [Hosts -> Stage]
  BY <1>3 DEF RecipeTypes, NodeTypes, Stage
<1>5. NodeTypes'
  BY <1>1, <1>4 DEF RecipeTypes, NodeTypes
<1>6. worker'[h] = st /\ \A g \in Hosts \ {h} : worker'[g] = worker[g]
  BY <1>3 DEF RecipeTypes, NodeTypes
<1>7. Arrived'
  BY <1>1, <1>2, <1>3, <1>6 DEF Arrived
<1> QED
  BY <1>2, <1>5, <1>7 DEF RecipeTypes

LEMMA EndsPrepareStep == ASSUME RecipeInv, EndsPrepare PROVE RecipeInv'
<1> USE DEF RecipeInv
<1>1. /\ job = "prepare" /\ job' = "idle" /\ worker' = [h \in Hosts |-> "off"]
      /\ UNCHANGED <<vars, files, node, overlay, at, resume, outVars, pair>>
      /\ \/ clean' = clean /\ prepared' = prepared
         \/ clean' = TRUE /\ prepared' = TRUE /\ \A h \in Hosts : worker[h] = "ready"
  BY DEF EndsPrepare, BothReady
<1>2. pc = "trial" /\ runs = <<>> /\ ~clean /\ at = 1
  BY <1>1 DEF Places, Arrived
<1>3. /\ SelectionTypes' /\ Graded' /\ Running' /\ Measured'
      /\ Marked' /\ Kept' /\ OutTypes'
  BY <1>1, <1>2, Early DEF RecipeTypes, OtherTypes
<1>4. NodeTypes'
  BY <1>1 DEF RecipeTypes, NodeTypes, Stage
<1>5. OtherTypes'
  BY <1>1 DEF RecipeTypes, OtherTypes, outVars, Job
<1>6. Places'
  BY <1>1, <1>2, <1>3 DEF Places, vars, outVars
<1>7. clean' => /\ \A h \in Hosts : overlay[h] = "whole"
                /\ node[1][Indexer] = node[2][Indexer] /\ node[1][Indexer] # Missing
  <2>1. 1 \in Hosts /\ 2 \in Hosts /\ files[Indexer] # Missing
    BY Names, VersionAssumption DEF Hosts, Missing, RecipeTypes, NodeTypes
  <2> QED
    BY <1>1, <1>2, <2>1 DEF Arrived
<1>8. Arrived'
  BY <1>1, <1>2, <1>7 DEF Arrived, vars
<1> QED
  BY <1>3, <1>4, <1>5, <1>6, <1>7, <1>8 DEF RecipeTypes

-----------------------------------------------------------------------------
(* The campaign up to its first launch. *)

(* What a host has after the copies. *)
LEMMA SendsFact ==
    ASSUME NodeTypes, NEW h \in Hosts, NEW all \in Seq(Sent), NEW n \in 0..Len(all),
           Sends(h, all, n)
    PROVE  /\ node' \in [Hosts -> Copies]
           /\ \A g \in Hosts \ {h} : node'[g] = node[g]
           /\ \A i \in 1..n : node'[h][all[i]] = files[all[i]]
           /\ \A f \in Sent : (\A i \in 1..Len(all) : all[i] # f) => node'[h][f] = node[h][f]
<1> DEFINE copy == [f \in Sent |->
                      IF \E i \in 1..n : all[i] = f THEN files[f]
                      ELSE IF n < Len(all) /\ all[n + 1] = f THEN Missing ELSE node[h][f]]
<1>1. node' = [node EXCEPT ![h] = copy] /\ node \in [Hosts -> Copies]
  BY DEF Sends, NodeTypes
<1>2. copy \in Copies
  <2>1. \A f \in Sent : files[f] \in Ver /\ node[h][f] \in Ver /\ Missing \in Ver
    BY <1>1, Names DEF NodeTypes, Copies, Ver
  <2> QED
    BY <2>1 DEF Copies
<1>3. /\ \A i \in 1..n : copy[all[i]] = files[all[i]]
      /\ \A f \in Sent : (\A i \in 1..Len(all) : all[i] # f) => copy[f] = node[h][f]
  <2>1. \A i \in 1..n : all[i] \in Sent
    OBVIOUS
  <2>2. n < Len(all) => n + 1 \in 1..Len(all)
    OBVIOUS
  <2> QED
    BY <2>1, <2>2
<1> HIDE DEF copy
<1>4. node'[h] = copy
  BY <1>1
<1> QED
  BY <1>1, <1>2, <1>3, <1>4

LEMMA SendsRunnerFact ==
    ASSUME NodeTypes, NEW h \in Hosts, NEW n \in 0..1, Sends(h, <<Runner>>, n)
    PROVE  /\ node' \in [Hosts -> Copies]
           /\ \A g \in Hosts \ {h} : node'[g] = node[g]
           /\ n = 1 => node'[h][Runner] = files[Runner]
           /\ node'[h][Indexer] = node[h][Indexer]
<1>1. <<Runner>> \in Seq(Sent) /\ Len(<<Runner>>) = 1 /\ <<Runner>>[1] = Runner
  BY Names
<1> DEFINE all == <<Runner>>
<1> HIDE DEF all
<1>2. all \in Seq(Sent) /\ Len(all) = 1 /\ all[1] = Runner /\ Sends(h, all, n)
  BY <1>1 DEF all
<1> QED
  BY <1>2, SendsFact, Names

LEMMA SendsCarriedFact ==
    ASSUME NodeTypes, NEW h \in Hosts, NEW n \in 0..Len(Carried), Sends(h, Carried, n)
    PROVE  /\ node' \in [Hosts -> Copies]
           /\ \A g \in Hosts \ {h} : node'[g] = node[g]
           /\ n = Len(Carried) => node'[h][Launcher] = files[Launcher]
                               /\ node'[h][Template] = files[Template]
           /\ node'[h][Indexer] = node[h][Indexer] /\ node'[h][Runner] = node[h][Runner]
<1>1. /\ Carried \in Seq(Sent) /\ Len(Carried) = 2
      /\ Carried[1] = Launcher /\ Carried[2] = Template
  BY Names DEF Carried
<1>2. \A i \in 1..Len(Carried) : Carried[i] # Indexer /\ Carried[i] # Runner
  BY <1>1, Names
<1>3. /\ node' \in [Hosts -> Copies]
      /\ \A g \in Hosts \ {h} : node'[g] = node[g]
      /\ \A i \in 1..n : node'[h][Carried[i]] = files[Carried[i]]
      /\ \A f \in Sent :
            (\A i \in 1..Len(Carried) : Carried[i] # f) => node'[h][f] = node[h][f]
  BY <1>1, SendsFact
<1>4. node'[h][Indexer] = node[h][Indexer] /\ node'[h][Runner] = node[h][Runner]
  BY <1>2, <1>3, Names
<1>5. n = Len(Carried) => node'[h][Launcher] = files[Launcher]
                      /\ node'[h][Template] = files[Template]
  BY <1>1, <1>3
<1> QED
  BY <1>3, <1>4, <1>5

LEMMA SendsRunnerStep == ASSUME RecipeInv, SendsRunner PROVE RecipeInv'
<1> USE DEF RecipeInv
<1>1. /\ job = "send" /\ pc = "trial" /\ runs = <<>>
      /\ UNCHANGED <<files, overlay, worker, prepared, clean, resume, outVars, ops>>
  BY DEF SendsRunner, Places
<1>2. NodeTypes /\ at \in Hosts
  BY DEF RecipeTypes, OtherTypes
<1>3. /\ node' \in [Hosts -> Copies]
      /\ \A g \in Hosts : node'[g][Indexer] = node[g][Indexer]
  <2>1. \/ node' = node
        \/ \E n \in 0..1 : Sends(at, <<Runner>>, n)
    BY DEF SendsRunner
  <2>2. CASE node' = node
    BY <1>2, <2>2 DEF NodeTypes
  <2>3. ASSUME NEW n \in 0..1, Sends(at, <<Runner>>, n)
        PROVE  /\ node' \in [Hosts -> Copies]
               /\ \A g \in Hosts : node'[g][Indexer] = node[g][Indexer]
    BY <1>2, <2>3, SendsRunnerFact
  <2> QED
    BY <2>1, <2>2, <2>3
<1>4. NodeTypes'
  BY <1>1, <1>3 DEF RecipeTypes, NodeTypes
<1>5. Measured'
  BY <1>1, MeasuredNone DEF SendsRunner, Raises, Ends, vars
<1>6. CASE Raises /\ at' = 1
  <2>1. job' = "idle" /\ pc' = "failed" /\ pair' = Down
        /\ UNCHANGED <<long, short, marker, runs, winner, status>>
    BY <1>6 DEF Raises, Ends
  <2>2. SelectionTypes' /\ Graded' /\ Running' /\ Marked' /\ Kept' /\ OutTypes'
    BY <1>1, <2>1, Stops DEF RecipeTypes, SelectionTypes
  <2>3. OtherTypes'
    BY <1>1, <1>6, <2>1, DownFact DEF RecipeTypes, OtherTypes, outVars, Job, Hosts
  <2>4. Places'
    BY <1>1, <1>6, <2>1 DEF Places, outVars
  <2>5. Arrived'
    BY <1>1, <1>3, <2>1 DEF Arrived, Hosts
  <2> QED
    BY <1>4, <1>5, <2>2, <2>3, <2>4, <2>5 DEF RecipeTypes
<1>7. CASE Sends(at, <<Runner>>, 1) /\ NextHost("preflight") /\ UNCHANGED <<vars, pair, faults>>
  <2>1. \/ at = 2 /\ at' = 1 /\ job' = "preflight"
        \/ at = 1 /\ at' = 2 /\ job' = "send"
    BY <1>1, <1>2, <1>7 DEF NextHost, Hosts
  <2>2. SelectionTypes' /\ Graded' /\ Running' /\ Marked' /\ Kept' /\ OutTypes'
    BY <1>1, <1>7, <2>1, Early DEF RecipeTypes, OtherTypes
  <2>3. OtherTypes'
    BY <1>1, <1>7, <2>1 DEF RecipeTypes, OtherTypes, outVars, Job, Hosts
  <2>4. Places'
    BY <1>1, <1>7, <2>1 DEF Places, outVars, vars
  <2>5. /\ node'[at][Runner] = files[Runner]
        /\ \A g \in Hosts \ {at} : node'[g] = node[g]
    BY <1>2, <1>7, SendsRunnerFact
  <2>6. Arrived'
    BY <1>1, <1>2, <1>3, <1>7, <2>1, <2>5 DEF Arrived, Hosts, vars
  <2> QED
    BY <1>4, <1>5, <2>2, <2>3, <2>4, <2>6 DEF RecipeTypes
<1> QED
  BY <1>6, <1>7 DEF SendsRunner

LEMMA PreflightsStep == ASSUME RecipeInv, Preflights PROVE RecipeInv'
<1> USE DEF RecipeInv
<1>1. /\ job = "preflight" /\ pc = "trial" /\ runs = <<>>
      /\ UNCHANGED <<files, overlay, worker, prepared, clean, resume, outVars, ops>>
  BY DEF Preflights, Places
<1>2. NodeTypes /\ at \in Hosts /\ resume \in BOOLEAN
  BY DEF RecipeTypes, OtherTypes
<1>3. /\ node' \in [Hosts -> Copies]
      /\ \A g \in Hosts : node'[g][Indexer] = node[g][Indexer] /\ node'[g][Runner] = node[g][Runner]
  <2>1. \/ node' = node
        \/ \E n \in 0..Len(Carried) : Sends(at, Carried, n)
    BY DEF Preflights, Carried
  <2>2. CASE node' = node
    BY <1>2, <2>2 DEF NodeTypes
  <2>3. ASSUME NEW n \in 0..Len(Carried), Sends(at, Carried, n)
        PROVE  /\ node' \in [Hosts -> Copies]
               /\ \A g \in Hosts :
                     node'[g][Indexer] = node[g][Indexer] /\ node'[g][Runner] = node[g][Runner]
    BY <1>2, <2>3, SendsCarriedFact
  <2> QED
    BY <2>1, <2>2, <2>3
<1>4. NodeTypes'
  BY <1>1, <1>3 DEF RecipeTypes, NodeTypes
<1>5. Measured'
  BY <1>1, MeasuredNone DEF Preflights, Raises, Ends, vars
<1>6. CASE Raises /\ at' = 1
  <2>1. job' = "idle" /\ pc' = "failed" /\ pair' = Down
        /\ UNCHANGED <<long, short, marker, runs, winner, status>>
    BY <1>6 DEF Raises, Ends
  <2>2. SelectionTypes' /\ Graded' /\ Running' /\ Marked' /\ Kept' /\ OutTypes'
    BY <1>1, <2>1, Stops DEF RecipeTypes, SelectionTypes
  <2>3. OtherTypes'
    BY <1>1, <1>6, <2>1, DownFact DEF RecipeTypes, OtherTypes, outVars, Job, Hosts
  <2>4. Places'
    BY <1>1, <1>6, <2>1 DEF Places, outVars
  <2>5. Arrived'
    BY <1>1, <1>3, <2>1 DEF Arrived, Hosts
  <2> QED
    BY <1>4, <1>5, <2>2, <2>3, <2>4, <2>5 DEF RecipeTypes
<1>7. CASE /\ Sends(at, Carried, Len(Carried)) /\ UNCHANGED <<vars, pair, faults>>
           /\ NextHost(IF resume THEN "load" ELSE "launch")
  <2>1. \/ at = 2 /\ at' = 1 /\ job' \in {"load", "launch"} /\ (job' = "load" => resume)
        \/ at = 1 /\ at' = 2 /\ job' = "preflight"
    BY <1>1, <1>2, <1>7 DEF NextHost, Hosts
  <2>2. SelectionTypes' /\ Graded' /\ Running' /\ Marked' /\ Kept' /\ OutTypes'
    BY <1>1, <1>2, <1>7, <2>1, Early
  <2>3. OtherTypes'
    BY <1>1, <1>7, <2>1 DEF RecipeTypes, OtherTypes, outVars, Job, Hosts
  <2>4. Places'
    BY <1>1, <1>7, <2>1 DEF Places, outVars, vars
  <2>5. /\ node'[at][Launcher] = files[Launcher] /\ node'[at][Template] = files[Template]
        /\ \A g \in Hosts \ {at} : node'[g] = node[g]
    <3>1. Len(Carried) \in 0..Len(Carried)
      BY DEF Carried
    <3> QED
      BY <1>2, <1>7, <3>1, SendsCarriedFact
  <2>6. Arrived'
    BY <1>1, <1>2, <1>3, <1>7, <2>1, <2>5 DEF Arrived, Hosts, vars
  <2> QED
    BY <1>4, <1>5, <2>2, <2>3, <2>4, <2>6 DEF RecipeTypes
<1> QED
  BY <1>6, <1>7 DEF Preflights

LEMMA LoadsBaselineStep == ASSUME RecipeInv, LoadsBaseline PROVE RecipeInv'
<1> USE DEF RecipeInv
<1>1. /\ job = "load" /\ pc = "trial" /\ runs = <<>> /\ resume /\ at = 1 /\ Len(made) = Len(runs)
      /\ UNCHANGED <<fileVars, at, resume, ops>>
  BY DEF LoadsBaseline, Places
<1>2. NodeTypes'
  BY <1>1 DEF RecipeTypes, NodeTypes, fileVars
<1>3. CASE Raises /\ UNCHANGED outVars
  <2>1. job' = "idle" /\ pc' = "failed" /\ pair' = Down
        /\ UNCHANGED <<long, short, marker, runs, winner, status>>
    BY <1>3 DEF Raises, Ends
  <2>2. SelectionTypes' /\ Graded' /\ Running' /\ Marked' /\ Kept' /\ OutTypes'
    BY <1>3, <2>1, Stops DEF RecipeTypes, SelectionTypes
  <2>3. OtherTypes'
    BY <1>1, <1>3, <2>1, DownFact DEF RecipeTypes, OtherTypes, outVars, Job
  <2>4. Places'
    BY <1>1, <1>3, <2>1 DEF Places, outVars
  <2>5. Arrived'
    BY <1>1, <2>1 DEF Arrived, fileVars
  <2>6. Measured'
    BY <1>1, <2>1, MeasuredNone
  <2> QED
    BY <1>2, <2>2, <2>3, <2>4, <2>5, <2>6 DEF RecipeTypes
<1> DEFINE receipt == saved.receipt
<1>5. /\ receipt \in Receipt /\ receipt.run \in Record /\ receipt.made \in Made
      /\ saved.metadata \in Told /\ saved.overrun \in BOOLEAN /\ saved \in Results
      /\ 0 \in AllDepths /\ Copied \subseteq AllDepths
  <2>1. saved \in Results /\ marker \subseteq AllDepths
    BY DEF RecipeTypes, OutTypes, SelectionTypes
  <2>2. 0 \in AllDepths
    <3>1. 1 \in 1..Len(Depths)
      BY Trials
    <3> QED
      BY <3>1, Trials
  <2> QED
    BY <2>1, <2>2 DEF Results, Receipt, Copied
<1>6. CASE /\ ~there /\ there' = TRUE /\ Ends /\ UNCHANGED <<record, overrun, made, saved>>
           /\ marker' \in {marker, Copied} /\ metadata' \in {metadata, saved.metadata}
  <2>1. /\ job' = "idle" /\ pc' = "failed" /\ pair' = Down
        /\ UNCHANGED <<long, short, runs, winner, status>>
    BY <1>6 DEF Ends
  <2>2. SelectionTypes' /\ Graded' /\ Running'
    <3>1. SelectionTypes'
      BY <1>5, <1>6, <2>1 DEF RecipeTypes, SelectionTypes, Place
    <3>2. Graded'
      BY <2>1, SameRecords DEF Graded
    <3>3. Running'
      BY <2>1, AlikeSame DEF Running
    <3> QED
      BY <3>1, <3>2, <3>3
  <2>3. OutTypes' /\ Marked' /\ Kept'
    <3>1. OutTypes'
      BY <1>5, <1>6 DEF RecipeTypes, OutTypes
    <3>2. Marked'
      BY <1>1, <2>1 DEF Marked
    <3>3. record = NoReceipt
      BY <1>6 DEF Kept
    <3>4. Kept'
      BY <1>6, <2>1, <3>3 DEF Kept
    <3> QED
      BY <3>1, <3>2, <3>4
  <2>4. OtherTypes'
    BY <1>1, <2>1, DownFact DEF RecipeTypes, OtherTypes, Job
  <2>5. Places'
    BY <1>1, <1>6, <2>1 DEF Places
  <2>6. Arrived'
    BY <1>1, <2>1 DEF Arrived, fileVars
  <2>7. Measured'
    BY <1>1, <2>1, MeasuredNone
  <2> QED
    BY <1>2, <2>2, <2>3, <2>4, <2>5, <2>6, <2>7 DEF RecipeTypes
<1>4. CASE /\ saved # NoResults /\ SameInputs(saved) /\ there' = TRUE
           /\ ResumesBaseline /\ runs' = <<saved.receipt.run>> /\ marker' = Copied
           /\ job' = "launch" /\ made' = <<saved.receipt.made>>
           /\ metadata' = saved.metadata /\ record' = saved.receipt
           /\ overrun' = saved.overrun /\ UNCHANGED <<saved, pair, faults>>
  <2>1. SelectionTypes' /\ Graded' /\ pc' \in {"trial", "select"} /\ 0 \notin marker
    BY <1>4, ResumesStep DEF RecipeTypes
  <2>2. /\ Len(runs') = 1 /\ Len(made') = 1 /\ made'[1] = receipt.made
        /\ runs'[1] = receipt.run /\ made' \in Seq(Made) /\ runs' # <<>>
    BY <1>4, <1>5
  <2>3. 0 \in marker' <=> saved.passed
    BY <1>4, <2>1 DEF Copied
  <2>4. OtherTypes'
    BY <1>1, <1>4 DEF RecipeTypes, OtherTypes, Job
  <2>5. Places'
    BY <1>1, <1>4, <2>1, <2>2 DEF Places
  <2>6. Arrived'
    BY <1>1, <1>4, <2>1 DEF Arrived, fileVars
  <2>7. Reused' = 1
    BY <1>1 DEF Reused
  <2>8. Running'
    BY <1>4, <2>1, <2>2, <2>7, AlikeSame DEF Running
  <2>9. ~saved.overrun => Tells(saved.metadata, saved.passed, receipt)
    BY <1>4 DEF Kept
  <2>10. OutTypes'
    BY <1>4, <1>5, <2>2 DEF RecipeTypes, OutTypes
  <2>11. ~overrun' => Tells(metadata', 0 \in marker', record')
    BY <1>4, <2>3, <2>9 DEF Tells
  <2>12. Kept'
    BY <1>4, <2>2, <2>9, <2>11 DEF Kept
  <2>13. Marked'
    <3>1. Depths[1] = 0 /\ 1..Len(runs') = {1}
      BY <2>2, Trials
    <3>2. ~overrun' => (runs'[1].quality <=> 0 \in marker')
      BY <1>4, <2>2, <2>11 DEF Tells
    <3> QED
      BY <3>1, <3>2 DEF Marked, Trusted
  <2>14. ~overrun' => MeasuredAs(receipt.made)
    <3>1. SameInputs(saved) /\ files' = files
      BY <1>1, <1>4 DEF fileVars
    <3>2. Launcher \in Described /\ Template \in Described
      BY DEF Described
    <3> QED
      BY <1>4, <2>9, <3>1, <3>2 DEF MeasuredAs, SameInputs, Tells
  <2>15. Measured'
    <3>1. files' = files
      BY <1>1 DEF fileVars
    <3>2. ~overrun' => MeasuredAs(made[1])'
      BY <2>2, <2>14, <3>1 DEF MeasuredAs
    <3>3. 1..Len(runs') = {1} /\ ~(1 > Reused')
      BY <2>2, <2>7
    <3> QED
      BY <3>2, <3>3 DEF Measured, Trusted
  <2> QED
    BY <1>2, <2>1, <2>4, <2>5, <2>6, <2>8, <2>10, <2>12, <2>13, <2>15 DEF RecipeTypes
<1> QED
  BY <1>3, <1>4, <1>6 DEF LoadsBaseline

-----------------------------------------------------------------------------
(* The trials and the selection. *)

LEMMA LaunchedFact ==
    ASSUME RecipeInv, NEW depth \in Nat, pair' = Launched(depth),
           UNCHANGED <<node, overlay>>, job \in {"launch", "trial"}
    PROVE  /\ pair' \in Pair /\ PairIsAlike' /\ pair'.up /\ pair'.depth = depth
           /\ pair'.on = node' /\ pair'.lib = overlay'
<1> USE DEF RecipeInv
<1>1. /\ pair'.up /\ pair'.depth = depth /\ pair'.on = node /\ pair'.lib = overlay
      /\ pair'.clean = clean
  BY DEF Launched
<1>2. pair' \in Pair
  BY DEF Launched, Pair, RecipeTypes, NodeTypes
<1>4. \A f \in {Launcher, Template, Runner} :
         node[1][f] = files[f] /\ node[2][f] = files[f] /\ files[f] # Missing
  BY Names, VersionAssumption DEF Arrived, Hosts, Missing, RecipeTypes, NodeTypes
<1>5. clean => /\ node[1][Indexer] = node[2][Indexer] /\ node[1][Indexer] # Missing
               /\ \A h \in Hosts : overlay[h] = "whole"
  BY DEF Arrived
<1>6. PairIsAlike'
  BY <1>1, <1>4, <1>5 DEF PairIsAlike
<1> QED
  BY <1>1, <1>2, <1>6

LEMMA EntersTypes ==
    ASSUME NodeTypes, OutTypes, NEW hosts, Enters(hosts), UNCHANGED <<record, saved, made>>
    PROVE  OutTypes'
<1>1. \A h \in Hosts : [f \in Described |-> node[h][f]] \in [Described -> Ver]
  BY Names DEF NodeTypes, Copies, Described
<1>2. metadata' \in Told
  BY <1>1 DEF Enters, Writes, OutTypes, Told
<1>3. there' \in BOOLEAN /\ overrun' \in BOOLEAN
  BY DEF Enters, OutTypes
<1> QED
  BY <1>2, <1>3 DEF OutTypes

LEMMA LaunchesStep == ASSUME RecipeInv, Launches PROVE RecipeInv'
<1> USE DEF RecipeInv
<1>1. /\ job = "launch" /\ pc = "trial" /\ job' = "trial" /\ pair' = Launched(Depth)
      /\ Enters(Hosts) /\ UNCHANGED <<vars, fileVars, at, resume, record, saved, made>>
  BY DEF Launches
<1>2. /\ Depth \in Nat /\ Depth' = Depth
      /\ Depth = 0 <=> runs = <<>>
  <2>1. runs \in Seq(Record) /\ Len(runs) < Len(Depths)
    BY <1>1 DEF Graded, RecipeTypes, SelectionTypes
  <2>2. Depth' = Depth
    BY <1>1 DEF vars, Depth
  <2>3. Len(runs) = 0 <=> runs = <<>>
    BY <2>1
  <2> QED
    BY <2>1, <2>2, <2>3, DepthFact
<1>3. SelectionTypes' /\ Graded'
  BY <1>1, SelectionSame DEF RecipeTypes
<1>4. NodeTypes'
  BY <1>1 DEF RecipeTypes, NodeTypes, fileVars
<1>5. pair' \in Pair /\ Serves(Depth)' /\ PairIsAlike'
  <2> DEFINE d == Depth
  <2>1. d \in Nat /\ pair' = Launched(d) /\ UNCHANGED <<node, overlay>> /\ job = "launch"
    BY <1>1, <1>2 DEF fileVars
  <2> HIDE DEF d
  <2>2. /\ pair' \in Pair /\ PairIsAlike' /\ pair'.up /\ pair'.depth = d
        /\ pair'.on = node' /\ pair'.lib = overlay'
    BY <2>1, LaunchedFact
  <2> QED
    BY <1>2, <2>2 DEF d, Serves
<1>6. OtherTypes'
  BY <1>1, <1>5 DEF RecipeTypes, OtherTypes, Job
<1>7. Places'
  BY <1>1 DEF Places, vars
<1>8. Arrived'
  BY <1>1 DEF Arrived, vars, fileVars
<1>9. Running'
  BY <1>1, <1>5 DEF Running, vars
<1>10. OutTypes' /\ Marked' /\ Kept' /\ Measured'
  <2>1. runs' = runs /\ marker' = marker
    BY <1>1 DEF vars
  <2>2. OutTypes'
    BY <1>1, EntersTypes DEF RecipeTypes
  <2>3. CASE runs = <<>>
    <3>1. /\ there' = TRUE /\ (record # NoReceipt => overrun')
          /\ metadata' = [h \in Hosts |-> [f \in Described |-> node[h][f]]]
      BY <1>2, <2>3, <1>1 DEF Enters, Writes
    <3>2. \A h \in Hosts : \A f \in Described : metadata'[h][f] = pair'.on[h][f]
      BY <1>1, <3>1 DEF Launched
    <3>3. Kept'
      BY <1>1, <2>1, <3>1, <3>2 DEF Kept
    <3> QED
      BY <2>1, <2>2, <2>3, <3>3, MeasuredNone DEF Marked
  <2>4. CASE runs # <<>>
    <3>1. there' = there /\ overrun' = overrun /\ metadata' = metadata
      BY <1>1, <1>2, <2>4 DEF Enters, RecipeTypes, OutTypes
    <3>2. Kept'
      BY <1>1, <2>1, <2>4, <3>1 DEF Kept
    <3>3. Marked' /\ Measured'
      BY <1>1, <2>1, <3>1, MeasuredSame DEF Marked, Trusted, fileVars
    <3> QED
      BY <2>2, <3>2, <3>3
  <2> QED
    BY <2>3, <2>4
<1> QED
  BY <1>3, <1>4, <1>6, <1>7, <1>8, <1>9, <1>10 DEF RecipeTypes

(* A record of what was measured, or of a trial that failed. *)
LEMMA AppendsMeasured ==
    ASSUME RecipeInv, NEW r \in Record, NEW m \in Made,
           runs' = Append(runs, r), made' = Append(made, m),
           UNCHANGED <<fileVars, resume>>, overrun' = overrun \/ runs = <<>>,
           r.ok => MeasuredAs(m) /\ m.pair.on = node /\ m.pair.lib = overlay
    PROVE  /\ Measured' /\ made' \in Seq(Made) /\ Len(made') = Len(runs')
           /\ Len(runs') = Len(runs) + 1 /\ Last' = r
<1> USE DEF RecipeInv
<1>1. runs \in Seq(Record) /\ made \in Seq(Made) /\ Len(made) = Len(runs) /\ Len(runs) \in Nat
  BY DEF RecipeTypes, SelectionTypes, OutTypes, Places
<1>2. /\ Len(runs') = Len(runs) + 1 /\ Len(made') = Len(runs) + 1 /\ made' \in Seq(Made)
      /\ runs'[Len(runs) + 1] = r /\ made'[Len(runs) + 1] = m
      /\ \A i \in 1..Len(runs) : runs'[i] = runs[i] /\ made'[i] = made[i]
  BY <1>1
<1>3. Last' = r
  BY <1>2 DEF Last
<1>4. files' = files /\ node' = node /\ overlay' = overlay /\ Reused' = Reused
  BY DEF fileVars, Reused
<1>5. ASSUME NEW i \in 1..Len(runs'), runs'[i].ok
      PROVE  /\ Trusted(i)' => MeasuredAs(made'[i])
             /\ i > Reused => made'[i].pair.on = node /\ made'[i].pair.lib = overlay
  <2>1. CASE i = Len(runs) + 1
    BY <1>2, <1>5, <2>1
  <2>2. CASE i \in 1..Len(runs)
    <3>1. runs # <<>> /\ (Trusted(i)' <=> Trusted(i))
      BY <1>1, <2>2 DEF Trusted
    <3> QED
      BY <1>2, <1>5, <2>2, <3>1 DEF Measured
  <2> QED
    BY <1>1, <1>2, <2>1, <2>2
<1>6. ASSUME NEW i \in 1..Len(runs'), runs'[i].ok
      PROVE  /\ Trusted(i)' => MeasuredAs(made[i])'
             /\ i > Reused' => made'[i].pair.on = node' /\ made'[i].pair.lib = overlay'
  BY <1>4, <1>5, <1>6 DEF MeasuredAs
<1>7. Measured'
  BY <1>6 DEF Measured
<1> QED
  BY <1>2, <1>3, <1>7

LEMMA AppendsMarked ==
    ASSUME RecipeInv, NEW r \in Record, Len(runs) < Len(Depths), runs' = Append(runs, r),
           Elsewhere, r.ok => (r.quality <=> Depth \in marker'),
           overrun' = overrun \/ runs = <<>>
    PROVE  Marked'
<1> USE DEF RecipeInv
<1>1. /\ runs \in Seq(Record) /\ Len(runs) \in Nat /\ Len(runs') = Len(runs) + 1
      /\ runs'[Len(runs) + 1] = r /\ \A i \in 1..Len(runs) : runs'[i] = runs[i]
  BY DEF RecipeTypes, SelectionTypes
<1>2. /\ Depth = Depths[Len(runs) + 1] /\ (Depth = 0 <=> Len(runs) = 0)
      /\ \A i \in 1..Len(runs) : Depths[i] # Depth
  BY <1>1, DepthFact
<1>3. ASSUME NEW i \in 1..Len(runs'), runs'[i].ok, Trusted(i)'
      PROVE  runs'[i].quality <=> Depths[i] \in marker'
  <2>1. CASE i = Len(runs) + 1
    BY <1>1, <1>2, <1>3, <2>1
  <2>2. CASE i \in 1..Len(runs)
    <3>1. runs # <<>> /\ Trusted(i) /\ runs'[i] = runs[i]
      BY <1>1, <1>3, <2>2 DEF Trusted
    <3>2. Depths[i] \in marker' <=> Depths[i] \in marker
      BY <1>2, <2>2 DEF Elsewhere
    <3> QED
      BY <1>3, <2>2, <3>1, <3>2 DEF Marked
  <2> QED
    BY <1>1, <2>1, <2>2
<1> QED
  BY <1>3 DEF Marked

LEMMA GradingStep == ASSUME RecipeInv, Grading PROVE RecipeInv'
<1> USE DEF RecipeInv
<1>1. /\ job = "trial" /\ UNCHANGED <<fileVars, at, resume, there, metadata, saved, pair>>
      /\ Serves(Depth)
  BY DEF Grading, Running
<1>2. NodeTypes' /\ pair \in Pair
  BY <1>1 DEF RecipeTypes, NodeTypes, fileVars, OtherTypes
<1>3. PairIsAlike'
  BY <1>1, AlikeSame DEF Running
<1>4. CASE (ProbesLong \/ ProbesShort) /\ UNCHANGED <<job, made, record, overrun>>
  <2>1. /\ SelectionTypes' /\ Graded' /\ pc' \in {"short", "merge"} /\ runs' = runs
        /\ marker' = marker \/ Elsewhere
    BY <1>4, ProbesLongStep, ProbesShortStep DEF RecipeTypes
  <2>8. Marked' /\ Kept' /\ OutTypes'
    BY <1>1, <1>4, <2>1, Untouched DEF outVars
  <2>2. OtherTypes'
    BY <1>1, <1>4 DEF RecipeTypes, OtherTypes
  <2>3. Places'
    BY <1>1, <1>4, <2>1 DEF Places
  <2>4. Arrived'
    BY <1>1, <1>4, <2>1 DEF Arrived, fileVars
  <2>5. Serves(Depth)'
    BY <1>1, <2>1 DEF Serves, Depth, fileVars
  <2>6. Running'
    BY <1>1, <1>3, <1>4, <2>1, <2>5 DEF Running
  <2>7. Measured'
    BY <1>1, <1>4, <2>1, MeasuredSame DEF fileVars
  <2> QED
    BY <1>2, <2>1, <2>2, <2>3, <2>4, <2>6, <2>7, <2>8 DEF RecipeTypes
<1>5. CASE /\ Grades /\ job' = "launch"
           /\ Records([probes |-> files[Probes], long |-> long, pair |-> pair])
  <2>1. /\ SelectionTypes' /\ Graded' /\ pc' \in {"trial", "select"} /\ Elsewhere
        /\ pc = "merge"
    BY <1>5, GradesStep DEF RecipeTypes, Grades
  <2>2. PICK r \in Record :
           /\ runs' = Append(runs, r) /\ r.ok /\ r.depth = Depth
           /\ r.quality <=> Depth \in marker'
    BY <1>5, GradesStep DEF RecipeTypes
  <2> DEFINE m == [probes |-> files[Probes], long |-> long, pair |-> pair]
  <2>3. m \in Made
    BY <1>2, Names DEF Made, Ver, RecipeTypes, SelectionTypes, NodeTypes
  <2>4. /\ m.probes = files[Probes] /\ m.pair = pair /\ made' = Append(made, m)
        /\ record' = IF runs = <<>> THEN [run |-> runs'[1], made |-> m] ELSE record
        /\ overrun' = (overrun /\ runs # <<>>)
    BY <1>5 DEF Records
  <2> HIDE DEF m
  <2>5. /\ Measured' /\ made' \in Seq(Made) /\ Len(made') = Len(runs')
        /\ Len(runs') = Len(runs) + 1 /\ Last' = r
    <3>1. \A h \in Hosts : \A f \in {Launcher, Template} : node[h][f] = files[f]
      BY <1>1 DEF Arrived
    <3>2. m.pair.on = node /\ m.pair.lib = overlay
      BY <1>1, <2>4 DEF Serves
    <3>3. MeasuredAs(m)
      BY <2>4, <3>1, <3>2 DEF MeasuredAs
    <3>4. overrun' = overrun \/ runs = <<>>
      BY <2>4 DEF RecipeTypes, OutTypes
    <3> QED
      BY <1>1, <2>2, <2>3, <2>4, <3>2, <3>3, <3>4, AppendsMeasured
  <2>10. Len(runs) < Len(Depths) /\ runs \in Seq(Record)
    BY <2>1 DEF Graded, RecipeTypes, SelectionTypes
  <2>11. Marked'
    <3>1. overrun' = overrun \/ runs = <<>>
      BY <2>4 DEF RecipeTypes, OutTypes
    <3> QED
      BY <2>1, <2>2, <2>10, <3>1, AppendsMarked
  <2>12. OutTypes' /\ Kept'
    <3>1. runs' # <<>>
      BY <2>2, <2>5, <2>10
    <3>2. CASE runs = <<>>
      <4>1. runs'[1] = r /\ Depth = 0
        BY <2>2, <2>10, <3>2, DepthFact
      <4>2. /\ record' = [run |-> r, made |-> m] /\ overrun' = FALSE
            /\ there /\ \A h \in Hosts : \A f \in Described : metadata[h][f] = pair.on[h][f]
        BY <1>1, <2>4, <3>2, <4>1 DEF Kept
      <4>3. record' \in Receipt
        BY <2>3, <4>2 DEF Receipt
      <4>4. OutTypes'
        BY <1>1, <2>5, <4>2, <4>3 DEF RecipeTypes, OutTypes
      <4>5. Tells(metadata', 0 \in marker', record')
        BY <1>1, <2>2, <2>4, <4>1, <4>2 DEF Tells
      <4>6. Kept'
        BY <1>1, <1>5, <4>2, <4>5 DEF Kept
      <4> QED
        BY <4>4, <4>6
    <3>3. CASE runs # <<>>
      <4>1. record' = record /\ overrun' = overrun
        BY <2>4, <3>3 DEF RecipeTypes, OutTypes
      <4>2. 0 \in marker' <=> 0 \in marker
        BY <2>1, <2>10, <3>3, DepthFact DEF Elsewhere
      <4>3. OutTypes'
        BY <1>1, <2>5, <4>1 DEF RecipeTypes, OutTypes
      <4>4. Kept'
        BY <1>1, <1>5, <4>1, <4>2 DEF Kept, Tells
      <4> QED
        BY <4>3, <4>4
    <3> QED
      BY <3>2, <3>3
  <2>6. OtherTypes'
    BY <1>1, <1>5, <2>5 DEF RecipeTypes, OtherTypes, Job
  <2>7. Places'
    BY <1>1, <1>5, <2>1, <2>5 DEF Places
  <2>8. Arrived'
    BY <1>1, <1>5, <2>1 DEF Arrived, fileVars
  <2>9. Running'
    <3>1. pair' = pair /\ node' = node /\ overlay' = overlay
      BY <1>1 DEF fileVars
    <3>2. Last'.depth = Depth
      BY <2>2, <2>5
    <3>3. Serves(Last.depth)'
      BY <1>1, <3>1, <3>2 DEF Serves
    <3> QED
      BY <1>3, <1>5, <2>1, <3>3 DEF Running
  <2> QED
    BY <1>2, <2>1, <2>5, <2>6, <2>7, <2>8, <2>9, <2>11, <2>12 DEF RecipeTypes
<1> QED
  BY <1>4, <1>5 DEF Grading

LEMMA TrialFailsStep == ASSUME RecipeInv, TrialFails PROVE RecipeInv'
<1> USE DEF RecipeInv
<1>1. /\ job \in {"launch", "trial"} /\ TrialRaises /\ pair' = Down
      /\ UNCHANGED <<fileVars, at, resume, record, saved>> /\ at = 1
      /\ IF job = "trial" THEN UNCHANGED <<there, metadata, overrun>>
         ELSE \E hosts \in {{}, {2}, Hosts} : Enters(hosts)
      /\ IF pc' = "failed" THEN job' = "idle" /\ UNCHANGED made
         ELSE job' = "launch" /\ made' = Append(made, Unmeasured)
  BY DEF TrialFails, Places
<1>2. /\ SelectionTypes' /\ Graded' /\ pc' \in {"failed", "trial", "select"}
      /\ Elsewhere /\ (pc = "trial" => UNCHANGED marker) /\ (pc' = "failed" <=> runs = <<>>)
      /\ pc' = "failed" => UNCHANGED runs
      /\ pc' # "failed" => \E r \in Record : runs' = Append(runs, r) /\ ~r.ok /\ Len(runs) > 0
  BY <1>1, TrialRaisesStep DEF RecipeTypes
<1>3. NodeTypes' /\ pair' \in Pair
  BY <1>1, DownFact DEF RecipeTypes, NodeTypes, fileVars
<1>4. PairIsAlike'
  BY <1>1, AlikeSame DEF Running
<1>5. Arrived'
  BY <1>1, <1>2 DEF Arrived, fileVars
<1>8. runs \in Seq(Record) /\ Len(runs) < Len(Depths)
  BY <1>1 DEF TrialRaises, Graded, RecipeTypes, SelectionTypes
<1>6. CASE pc' = "failed"
  <2>1. job' = "idle" /\ made' = made /\ runs' = runs /\ runs = <<>>
    BY <1>1, <1>2, <1>6
  <2>6. OutTypes' /\ Marked' /\ Kept'
    <3>1. CASE job = "trial"
      BY <1>1, <1>2, <2>1, <3>1, Untouched DEF outVars
    <3>2. CASE job = "launch"
      <4>1. PICK hosts \in {{}, {2}, Hosts} : Enters(hosts)
        BY <1>1, <3>2
      <4>2. OutTypes'
        BY <1>1, <2>1, <4>1, EntersTypes DEF RecipeTypes
      <4>3. Depth = 0
        BY <1>8, <2>1, DepthFact
      <4>4. there' = TRUE /\ (record # NoReceipt => overrun')
        BY <4>1, <4>3 DEF Enters
      <4>5. Kept'
        BY <1>1, <2>1, <4>4 DEF Kept
      <4> QED
        BY <2>1, <4>2, <4>5 DEF Marked
    <3> QED
      BY <1>1, <3>1, <3>2
  <2>2. OtherTypes'
    BY <1>1, <1>3, <2>1 DEF RecipeTypes, OtherTypes, Job
  <2>3. Places'
    BY <1>1, <1>6, <2>1 DEF Places
  <2>4. Running'
    BY <1>4, <1>6, <2>1 DEF Running
  <2>5. Measured'
    BY <2>1, MeasuredNone
  <2> QED
    BY <1>2, <1>3, <1>5, <2>2, <2>3, <2>4, <2>5, <2>6 DEF RecipeTypes
<1>7. CASE pc' # "failed"
  <2>1. job' = "launch" /\ made' = Append(made, Unmeasured) /\ pc' \in {"trial", "select"}
    BY <1>1, <1>2, <1>7
  <2>2. PICK r \in Record : runs' = Append(runs, r) /\ ~r.ok /\ Len(runs) > 0
    BY <1>2, <1>7
  <2>7. runs # <<>> /\ UNCHANGED <<there, metadata, overrun>>
    <3>1. runs # <<>> /\ Depth # 0
      BY <1>2, <1>7, <1>8, DepthFact
    <3> QED
      BY <1>1, <3>1 DEF Enters, RecipeTypes, OutTypes
  <2>3. /\ Measured' /\ made' \in Seq(Made) /\ Len(made') = Len(runs')
        /\ Len(runs') = Len(runs) + 1 /\ Last' = r
    <3>1. UNCHANGED <<fileVars, resume>>
      BY <1>1
    <3> QED
      BY <2>1, <2>2, <2>7, <3>1, DownFact, AppendsMeasured
  <2>8. Marked'
    BY <1>2, <1>8, <2>2, <2>7, AppendsMarked
  <2>9. OutTypes' /\ Kept'
    <3>1. OutTypes'
      BY <1>1, <2>3, <2>7 DEF RecipeTypes, OutTypes
    <3>2. 0 \in marker' <=> 0 \in marker
      BY <1>2, <1>8, <2>7, DepthFact DEF Elsewhere
    <3>3. Kept'
      BY <1>1, <2>1, <2>7, <3>2 DEF Kept, Tells
    <3> QED
      BY <3>1, <3>3
  <2>4. OtherTypes'
    BY <1>1, <1>3, <2>1, <2>3 DEF RecipeTypes, OtherTypes, Job
  <2>5. Places'
    BY <1>1, <2>1, <2>3 DEF Places
  <2>6. Running'
    BY <1>4, <2>1, <2>2, <2>3 DEF Running
  <2> QED
    BY <1>2, <1>3, <1>5, <2>3, <2>4, <2>5, <2>6, <2>8, <2>9 DEF RecipeTypes
<1> QED
  BY <1>6, <1>7

LEMMA FinishesStep == ASSUME RecipeInv, Finishes PROVE RecipeInv'
<1> USE DEF RecipeInv
<1>1. /\ job = "launch" /\ pc = "select" /\ Selects /\ job' = "idle" /\ at = 1
      /\ UNCHANGED <<fileVars, at, resume, outVars>>
      /\ pair' = IF pc' = "failed" THEN Down
                 ELSE IF MustRelaunch(winner') THEN Launched(winner'.depth) ELSE pair
  BY DEF Finishes, Selects, Places
<1>2. /\ SelectionTypes' /\ Graded' /\ pc' \in {"done", "failed"} /\ runs' = runs
      /\ winner' \in Record /\ Len(runs) = Len(Depths)
      /\ Last = runs[Len(runs)]
  BY <1>1, SelectsStep DEF RecipeTypes, SelectionTypes
<1>3. NodeTypes'
  BY <1>1 DEF RecipeTypes, NodeTypes, fileVars
<1>4. pair' \in Pair /\ PairIsAlike' /\ (pc' = "done" /\ Len(Depths) > 1 => Serves(winner.depth)')
  <2>1. CASE pc' = "failed"
    BY <1>1, <2>1, DownFact, AlikeSame DEF Running
  <2>2. CASE pc' = "done" /\ MustRelaunch(winner')
    <3> DEFINE d == winner'.depth
    <3>1. d \in Nat
      BY <1>2 DEF Record
    <3>2. pair' = Launched(d) /\ UNCHANGED <<node, overlay>> /\ job = "launch"
      BY <1>1, <2>2 DEF fileVars
    <3> HIDE DEF d
    <3>3. /\ pair' \in Pair /\ PairIsAlike' /\ pair'.up /\ pair'.depth = d
          /\ pair'.on = node' /\ pair'.lib = overlay'
      BY <3>1, <3>2, LaunchedFact
    <3> QED
      BY <3>3 DEF d, Serves
  <2>3. CASE pc' = "done" /\ ~MustRelaunch(winner')
    <3>1. pair' = pair /\ winner'.depth = Last.depth /\ Last.ok /\ node' = node /\ overlay' = overlay
      BY <1>1, <2>3 DEF MustRelaunch, fileVars
    <3>2. Len(Depths) > 1 => Len(runs) > Reused
      BY <1>2, Trials DEF Reused
    <3>3. Len(Depths) > 1 => Serves(Last.depth)
      BY <1>1, <3>1, <3>2 DEF Running
    <3>4. Len(Depths) > 1 => Serves(winner.depth)'
      BY <3>1, <3>3 DEF Serves
    <3>5. pair' \in Pair /\ PairIsAlike'
      BY <3>1, AlikeSame DEF Running, RecipeTypes, OtherTypes
    <3> QED
      BY <3>4, <3>5
  <2> QED
    BY <1>2, <2>1, <2>2, <2>3
<1>5. OtherTypes'
  BY <1>1, <1>4 DEF RecipeTypes, OtherTypes, Job, outVars
<1>6. Places'
  BY <1>1, <1>2 DEF Places, outVars
<1>7. Arrived'
  BY <1>1, <1>2 DEF Arrived, fileVars
<1>8. Running'
  BY <1>1, <1>4 DEF Running
<1>9. Measured'
  BY <1>1, <1>2, MeasuredSame DEF fileVars, outVars
<1>10. Marked' /\ Kept' /\ OutTypes'
  BY <1>1, <1>2, Untouched DEF Selects
<1> QED
  BY <1>2, <1>3, <1>5, <1>6, <1>7, <1>8, <1>9, <1>10 DEF RecipeTypes

LEMMA IsCutStep == ASSUME RecipeInv, IsCut PROVE RecipeInv'
<1> USE DEF RecipeInv
<1>1. /\ job # "idle" /\ job' = "idle" /\ at' = 1 /\ worker' = [h \in Hosts |-> "off"]
      /\ UNCHANGED <<files, node, overlay, prepared, clean, resume, outVars, ops>>
  BY DEF IsCut
<1>2. NodeTypes'
  BY <1>1 DEF RecipeTypes, NodeTypes, Stage
<1>3. CASE job = "prepare" /\ UNCHANGED <<vars, pair>>
  <2>1. pc = "trial" /\ runs = <<>> /\ at = 1
    BY <1>3 DEF Places
  <2>2. /\ SelectionTypes' /\ Graded' /\ Running' /\ Measured'
        /\ Marked' /\ Kept' /\ OutTypes'
    BY <1>1, <1>3, <2>1, Early DEF RecipeTypes, OtherTypes
  <2>3. OtherTypes'
    BY <1>1, <1>3 DEF RecipeTypes, OtherTypes, outVars, Job, Hosts
  <2>4. Places'
    BY <1>1, <1>3, <2>1 DEF Places, vars, outVars
  <2>5. Arrived'
    BY <1>1, <1>3, <2>1 DEF Arrived, vars
  <2> QED
    BY <1>2, <2>2, <2>3, <2>4, <2>5 DEF RecipeTypes
<1>4. CASE /\ job # "prepare" /\ pc' = "failed" /\ pair' = Down
           /\ marker' \in {marker, IF pc = "merge" THEN MarkerAfter ELSE marker}
           /\ UNCHANGED <<long, short, runs, winner, status>>
  <2>1. SelectionTypes' /\ Graded' /\ Running' /\ Marked' /\ Kept' /\ OutTypes'
    <3>1. marker' = marker \/ (pc = "merge" /\ marker' = MarkerAfter)
      BY <1>4
    <3>2. marker' \subseteq AllDepths
      BY <3>1 DEF MarkerAfter, RecipeTypes, SelectionTypes
    <3>3. pc = "merge" => job = "trial"
      BY DEF Places, RecipeTypes, OtherTypes, Job
    <3>4. marker' = marker \/ (job = "trial" /\ Elsewhere)
      BY <3>1, <3>3 DEF Elsewhere, MarkerAfter
    <3> QED
      BY <1>1, <1>4, <3>2, <3>4, Stops
  <2>2. OtherTypes'
    BY <1>1, <1>4, DownFact DEF RecipeTypes, OtherTypes, outVars, Job, Hosts
  <2>3. Places'
    BY <1>1, <1>4 DEF Places, outVars
  <2>4. Arrived'
    BY <1>1, <1>4 DEF Arrived
  <2>5. Measured'
    BY <1>1, <1>4, MeasuredSame DEF outVars
  <2> QED
    BY <1>2, <2>1, <2>2, <2>3, <2>4, <2>5 DEF RecipeTypes
<1> QED
  BY <1>3, <1>4 DEF IsCut

-----------------------------------------------------------------------------
(* The theorems. *)

LEMMA RecipeInit1 == ASSUME RecipeInit PROVE RecipeInv
<1>1. SelectionTypes
  BY DownFact, NoneFact DEF RecipeInit, Init, SelectionTypes, Place, ShortReport
<1>2. NodeTypes
  BY DownFact, VersionAssumption DEF RecipeInit, NodeTypes, Stage, Overlay
<1>3. OtherTypes /\ OutTypes
  <2>2. made \in Seq(Made) /\ pair \in Pair /\ saved \in Results /\ metadata \in Told
        /\ record \in Receipt
    BY DownFact, NoneFact DEF RecipeInit
  <2>3. /\ job \in Job /\ at \in Hosts /\ resume \in BOOLEAN /\ there \in BOOLEAN
        /\ overrun \in BOOLEAN
    <3>1. job = "idle" /\ at = 1 /\ resume = FALSE /\ there = FALSE /\ overrun = FALSE
      BY Zenon DEF RecipeInit
    <3>2. job \in Job /\ at \in Hosts
      BY <3>1 DEF Job, Hosts
    <3>3. resume \in BOOLEAN /\ there \in BOOLEAN /\ overrun \in BOOLEAN
      BY Zenon, <3>1
    <3> QED
      BY Zenon, <3>2, <3>3
  <2> QED
    BY <2>2, <2>3 DEF OtherTypes, OutTypes
<1>4. Places
  BY DEF RecipeInit, Init, Places
<1>5. Graded
  BY Trials DEF RecipeInit, Init, Graded
<1>6. Arrived
  BY DEF RecipeInit, Init, Arrived
<1>7. Running
  BY DownFact DEF RecipeInit, Init, Running, PairIsAlike
<1>8. Measured /\ Marked
  BY DEF RecipeInit, Init, Measured, Marked
<1>9. Kept
  BY DEF RecipeInit, Kept
<1> QED
  BY <1>1, <1>2, <1>3, <1>4, <1>5, <1>6, <1>7, <1>8, <1>9 DEF RecipeInv, RecipeTypes

LEMMA RecipeStep == ASSUME RecipeInv, [RecipeNext]_allVars PROVE RecipeInv'
<1>1. CASE UNCHANGED allVars
  <2> USE <1>1 DEF RecipeInv, allVars, fileVars, outVars
  <2>1. SelectionTypes' /\ Graded'
    BY SelectionSame DEF RecipeTypes
  <2>2. NodeTypes' /\ OtherTypes' /\ OutTypes'
    BY DEF RecipeTypes, NodeTypes, OtherTypes, OutTypes
  <2>3. Places' /\ Arrived'
    BY DEF vars, Places, Arrived
  <2>4. PairIsAlike' /\ Measured'
    BY AlikeSame, MeasuredSame DEF Running, vars
  <2>6. Marked' /\ Kept'
    BY DEF vars, Marked, Kept, Trusted
  <2>5. Running'
    BY <2>4 DEF Running, vars, Serves, Depth, Last, Reused
  <2> QED
    BY <2>1, <2>2, <2>3, <2>4, <2>5, <2>6 DEF RecipeTypes
<1>2. CASE Edits \/ StartsPrepare \/ PutsAway \/ StartsCampaign
  BY <1>2, EditsStep, StartsPrepareStep, PutsAwayStep, StartsCampaignStep
<1>3. ASSUME NEW h \in Hosts, CopiesIndexer(h) \/ InstallsOverlay(h) \/ ChecksOverlay(h)
      PROVE  RecipeInv'
  BY <1>3, CopiesIndexerStep, InstallsOverlayStep, ChecksOverlayStep
<1>4. CASE EndsPrepare \/ SendsRunner \/ Preflights \/ LoadsBaseline
  BY <1>4, EndsPrepareStep, SendsRunnerStep, PreflightsStep, LoadsBaselineStep
<1>5. CASE Launches \/ Grading \/ TrialFails \/ Finishes \/ IsCut
  BY <1>5, LaunchesStep, GradingStep, TrialFailsStep, FinishesStep, IsCutStep
<1> QED
  BY <1>1, <1>2, <1>3, <1>4, <1>5 DEF RecipeNext

THEOREM RecipeInvariant == RecipeSpec => []RecipeInv
<1>1. RecipeInit => RecipeInv
  BY RecipeInit1
<1>2. RecipeInv /\ [RecipeNext]_allVars => RecipeInv'
  BY RecipeStep
<1> QED
  BY <1>1, <1>2, PTL DEF RecipeSpec

(***************************************************************************)
(* The two halves of a pair that was launched run the same launcher,       *)
(* template and model runner, and after a preparation that came to its end *)
(* also the same indexer with a whole overlay, wherever the programs       *)
(* before were cut (prepare.prepare, workflow.preflight, launch_node).     *)
(***************************************************************************)
THEOREM PairsAreAlike == RecipeSpec => []PairIsAlike
<1>1. RecipeInv => PairIsAlike
  BY DEF RecipeInv, Running
<1> QED
  BY <1>1, RecipeInvariant, PTL

(***************************************************************************)
(* Records that are compared were measured alike: load_saved_baseline lets *)
(* in no baseline with other probes, another command or another template,  *)
(* and nothing changes on the nodes while a campaign runs.  The baseline   *)
(* of a comparison.json that a later campaign had overrun is excepted: the *)
(* metadata that is compared is not that of the record.                    *)
(***************************************************************************)
THEOREM ComparedAlike == RecipeSpec => []MeasuredAlike
<1>1. RecipeInv => MeasuredAlike
  <2> SUFFICES ASSUME RecipeInv, NEW i \in DOMAIN runs, NEW j \in DOMAIN runs,
                      runs[i].ok, runs[j].ok, Trusted(i), Trusted(j)
               PROVE  /\ made[i].probes = made[j].probes
                      /\ \A h \in Hosts :
                            /\ Command[made[i].pair.on[h][Launcher]] = Command[made[j].pair.on[h][Launcher]]
                            /\ made[i].pair.on[h][Template] = made[j].pair.on[h][Template]
                      /\ ~resume \/ (i > 1 /\ j > 1) =>
                            made[i].pair.on = made[j].pair.on /\ made[i].pair.lib = made[j].pair.lib
    BY DEF MeasuredAlike
  <2>1. i \in 1..Len(runs) /\ j \in 1..Len(runs)
    BY DEF RecipeInv, RecipeTypes, SelectionTypes
  <2>2. ~resume \/ (i > 1 /\ j > 1) => i > Reused /\ j > Reused
    BY <2>1 DEF Reused
  <2> QED
    BY <2>1, <2>2 DEF RecipeInv, Measured, MeasuredAs
<1> QED
  BY <1>1, RecipeInvariant, PTL

(***************************************************************************)
(* What serves at the end is what the winner was measured with: of a       *)
(* campaign with more trials than the baseline, as the code's has (with    *)
(* one alone, a reused baseline would never be launched); a baseline from  *)
(* a comparison.json that had been overrun is excepted.                    *)
(***************************************************************************)
THEOREM ServedAsItWasMeasured ==
    ASSUME Len(Depths) > 1
    PROVE  RecipeSpec => []ServedAsMeasured
<1>1. RecipeInv => ServedAsMeasured
  <2> SUFFICES ASSUME RecipeInv, job = "idle", pc = "done"
               PROVE  LET was == made[WinnerIndex].pair
                      IN  /\ pair.up /\ pair.depth = winner.depth
                          /\ Trusted(WinnerIndex) => \A h \in Hosts :
                                /\ Command[pair.on[h][Launcher]] = Command[was.on[h][Launcher]]
                                /\ pair.on[h][Template] = was.on[h][Template]
                          /\ ~resume \/ WinnerIndex > 1 => pair.on = was.on /\ pair.lib = was.lib
    BY DEF ServedAsMeasured
  <2> USE DEF RecipeInv
  <2>1. Serves(winner.depth) /\ Len(runs) = Len(Depths) /\ runs \in Seq(Record)
    BY DEF Running, Graded, RecipeTypes, SelectionTypes
  <2>2. WinnerIndex \in 1..Len(runs) /\ runs[WinnerIndex].ok
    <3>1. Len(runs) > 0 /\ runs[1].ok
      BY <2>1, Trials DEF Graded
    <3>2. WinnerIndex \in 1..Len(runs) /\ (WinnerIndex = 1 \/ WinnerIndex \in Qualified)
      BY <2>1, <3>1, WinnerFact
    <3> QED
      BY <3>1, <3>2 DEF Qualified, Passed
  <2>3. \A h \in Hosts : \A f \in {Launcher, Template} : node[h][f] = files[f]
    BY DEF Arrived
  <2>4. ~resume \/ WinnerIndex > 1 => WinnerIndex > Reused
    BY <2>2 DEF Reused
  <2> QED
    BY <2>1, <2>2, <2>3, <2>4 DEF Serves, Measured, MeasuredAs
<1> QED
  BY <1>1, RecipeInvariant, PTL

(***************************************************************************)
(* quality-passed.json is there exactly for the trials that passed         *)
(* everything (evaluate_quality, and the copy of a reused baseline, unless *)
(* its comparison.json had been overrun by a later baseline's directory).  *)
(***************************************************************************)
THEOREM MarkersAreHonest == RecipeSpec => []MarkerIsHonest
<1>1. RecipeInv => MarkerIsHonest
  BY DEF RecipeInv, Graded, GradedAs, Marked, MarkerIsHonest
<1> QED
  BY <1>1, RecipeInvariant, PTL

(***************************************************************************)
(* main's filters, min and max choose the best of the records.             *)
(***************************************************************************)
THEOREM WinnersAreBest == RecipeSpec => []WinnerIsBest
<1>1. RecipeInv => WinnerIsBest
  <2> SUFFICES ASSUME RecipeInv, Done PROVE WinnerIsBest
    BY DEF WinnerIsBest
  <2> USE DEF RecipeInv
  <2> DEFINE w == WinnerIndex
  <2>1. /\ Len(runs) = Len(Depths) /\ Len(runs) > 0 /\ runs \in Seq(Record)
        /\ winner = runs[w] /\ (status = "complete" <=> winner.quality)
    BY Trials DEF Done, Graded, RecipeTypes, SelectionTypes
  <2>2. \A i \in 1..Len(runs) : runs[i].semantic <=> i \in Qualified
    BY DEF Graded, GradedAs, Qualified, Passed
  <2>3. /\ w \in 1..Len(runs)
        /\ Qualified = {} => w = 1
        /\ Qualified # {} =>
              /\ w \in Qualified
              /\ \A j \in Qualified :
                    ~Better(runs[j], runs[w]) /\ (j < w => Better(runs[w], runs[j]))
    BY <2>1, WinnerFact
  <2> HIDE DEF w
  <2>4. status = "complete" <=> winner.semantic /\ winner.strict = 0
    BY <2>1, <2>3 DEF Graded, GradedAs
  <2>5. IF \E i \in 1..Len(runs) : runs[i].semantic
        THEN /\ runs[w].semantic
             /\ \A i \in 1..Len(runs) : runs[i].semantic =>
                   ~Better(runs[i], runs[w]) /\ (i < w => Better(runs[w], runs[i]))
        ELSE w = 1
    <3>2. CASE Qualified = {}
      BY <2>2, <2>3, <3>2
    <3>3. CASE Qualified # {}
      <4>1. runs[w].semantic /\ w \in 1..Len(runs)
        BY <2>2, <2>3, <3>3
      <4>2. ASSUME NEW i \in 1..Len(runs), runs[i].semantic
            PROVE  ~Better(runs[i], runs[w]) /\ (i < w => Better(runs[w], runs[i]))
        <5>1. i \in Qualified
          BY <2>2, <4>2
        <5>2. \A j \in Qualified : ~Better(runs[j], runs[w]) /\ (j < w => Better(runs[w], runs[j]))
          BY <2>3, <3>3
        <5> QED
          BY Zenon, <5>1, <5>2
      <4> QED
        BY <4>1, <4>2
    <3> QED
      BY <3>2, <3>3
  <2> QED
    BY <2>1, <2>3, <2>4, <2>5 DEF WinnerIsBest
<1> QED
  BY <1>1, RecipeInvariant, PTL
================================================================================
