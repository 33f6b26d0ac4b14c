--------------------------- MODULE StreamRecordProof ----------------------------
(***************************************************************************)
(* For every number of processes, directories and requests: what the       *)
(* verification accepts is one request, and it accepts all that a process  *)
(* has measured.  The timer of StreamRecord is that of RequestDeadline:    *)
(* what is proved of request_deadline first, in its own environment, holds *)
(* of the probes as well.                                                  *)
(***************************************************************************)
EXTENDS StreamRecord, TLAPS

-----------------------------------------------------------------------------
(***************************************************************************)
(* request_deadline: for every campaign deadline and every request limit,  *)
(* as long as its bookkeeping takes no time.                               *)
(***************************************************************************)

Inside == {"entered", "installed", "body", "cancel", "restore", "rearm"}

(* A request that began before the deadline holds it in `saved`.           *)
HoldsDeadline ==
    pc \in Inside /\ started < Deadline =>
        saved = Deadline - started /\ savedBy = "campaign"

(* Where the timer stands at each place, for such a request.               *)
TimerInside ==
    /\ pc \in {"entered", "installed"} /\ started < Deadline =>
          now = started /\ alarm = Deadline
    /\ pc \in {"body", "cancel"} /\ started < Deadline =>
          /\ handler = "request"
          /\ alarm = Off \/ alarm = started + Duration
    /\ pc = "body" /\ started < Deadline => alarm # Off /\ now <= alarm
    /\ pc = "cancel" /\ started < Deadline => ~Due
    /\ pc = "installed" => handler = "request"
    /\ pc \in {"restore", "rearm"} => alarm = Off
    /\ pc = "rearm" => handler = savedBy

RInv ==
    /\ TypeOK
    /\ started <= now
    /\ HoldsDeadline
    /\ TimerInside
    /\ DeadlineIsKept
    /\ NeverEarly

USE DeadlineAssumption, LimitAssumption, MaxTimeAssumption, PreemptibleAssumption

LEMMA RInit == Init => RInv
<1> SUFFICES ASSUME Init PROVE RInv
  OBVIOUS
<1>1. TypeOK
  <2>1. now \in 0..MaxTime /\ alarm \in Nat /\ saved \in Nat /\ started \in 0..MaxTime
    BY DEF Init, Off
  <2>2. {handler, savedBy} \subseteq {"campaign", "request"} /\ pc \in Pc
    BY DEF Init, Pc
  <2>3. delivered \in BOOLEAN
    BY Zenon DEF Init
  <2> QED
    BY <2>1, <2>2, <2>3, Zenon DEF TypeOK
<1>2. started <= now /\ NeverEarly
  BY DEF Init, NeverEarly
<1>3. DeadlineIsKept
  BY DEF Init, DeadlineIsKept
<1>4. HoldsDeadline /\ TimerInside
  BY DEF Init, HoldsDeadline, TimerInside, Inside
<1> QED
  BY <1>1, <1>2, <1>3, <1>4 DEF RInv

(* One step of the process keeps the invariant.                            *)
LEMMA RNext == ASSUME RInv, ~Preemptible, [Next]_vars PROVE RInv'
<1> USE DEF RInv, TypeOK, HoldsDeadline, TimerInside, DeadlineIsKept, NeverEarly,
            Inside, Pc, Off, Due, Undisturbed
<1>1. CASE Enters
  BY <1>1 DEF Enters
<1>2. CASE Installs
  BY <1>2 DEF Installs, held
<1>3. CASE SetsTimer
  <2>1. Duration \in Nat \ {0} /\ Duration' = Duration
    BY <1>3 DEF SetsTimer, held, Duration
  <2>2. /\ pc' = "body" /\ alarm' = now + Duration /\ handler = "request"
        /\ now' = now /\ started' = started /\ saved' = saved
        /\ savedBy' = savedBy /\ handler' = handler /\ delivered' = delivered
    BY <1>3 DEF SetsTimer, held
  <2>3. TypeOK'
    BY <2>1, <2>2
  <2>4. pc = "installed" /\ RInv
    BY <1>3 DEF SetsTimer
  <2>5. started < Deadline => now = started /\ saved = Deadline - started /\ savedBy = "campaign"
    BY <2>4
  <2>6. TimerInside'
    BY <2>1, <2>2, <2>3, <2>5
  <2>7. HoldsDeadline'
    BY <2>2, <2>5
  <2>8. DeadlineIsKept' /\ started' <= now'
    BY <2>2, <2>4
  <2>9. NeverEarly'
    BY <2>2, <2>4
  <2> QED
    BY <2>3, <2>6, <2>7, <2>8, <2>9
<1>4. CASE BodyEnds
  BY <1>4 DEF BodyEnds, held, Duration
<1>5. CASE Cancels
  BY <1>5 DEF Cancels, held
<1>6. CASE Restores
  BY <1>6 DEF Restores, held
<1>7. CASE Rearms
  BY <1>7 DEF Rearms, held, Remaining
<1>8. CASE Fires
  BY <1>8 DEF Fires, held, Duration
<1>9. CASE Tick
  BY <1>9 DEF Tick, held, Duration
<1>10. CASE UNCHANGED vars
  BY <1>10 DEF vars, Duration
<1> QED
  BY <1>1, <1>2, <1>3, <1>4, <1>5, <1>6, <1>7, <1>8, <1>9, <1>10 DEF Next

LEMMA RBounds == RInv => RequestsAreBounded
BY DEF RInv, TypeOK, HoldsDeadline, TimerInside, RequestsAreBounded, Inside, Duration, Off

(***************************************************************************)
(* The campaign's deadline survives every request, for every deadline and  *)
(* limit (probes.request_deadline, its finally clause).                    *)
(***************************************************************************)
THEOREM DeadlineSurvives == ASSUME ~Preemptible PROVE Spec => []DeadlineIsKept
<1>1. RInv => DeadlineIsKept
  BY DEF RInv
<1>2. RInv /\ [Next]_vars => RInv'
  BY RNext
<1> QED
  BY <1>1, <1>2, RInit, PTL DEF Spec

(* Requests end by their limit and by the campaign's deadline. *)
THEOREM RequestsEnd == ASSUME ~Preemptible PROVE Spec => []RequestsAreBounded
<1>1. RInv /\ [Next]_vars => RInv'
  BY RNext
<1> QED
  BY <1>1, RInit, RBounds, PTL DEF Spec

(* A request's limit is never taken for the campaign's deadline. *)
THEOREM NoEarlyInterrupt == ASSUME ~Preemptible PROVE Spec => []NeverEarly
<1>1. RInv => NeverEarly
  BY DEF RInv
<1>2. RInv /\ [Next]_vars => RInv'
  BY RNext
<1> QED
  BY <1>1, <1>2, RInit, PTL DEF Spec

-----------------------------------------------------------------------------
(* The timer of the probes.                                                *)

USE ArmsAssumption, LabelsAssumption, RunsAssumption DEF Long

(* A request that was not entered is given up.                             *)
Quits ==
    /\ pc = "out" /\ pc' \in {"out", "over"}
    /\ UNCHANGED <<now, alarm, handler, held, delivered>>

(* For the timer each step of the probes is a step of request_deadline,    *)
(* ends a request that was not entered, or begins with a new process.      *)
LEMMA TimerSteps == ASSUME [StreamNext]_allVars PROVE [Next]_vars \/ Quits \/ Init'
<1> USE DEF GoesTo, At, Raises, Returns, timerVars, fileVars, probeVars, vars, held
<1>1. CASE OpensRequest
  BY <1>1 DEF OpensRequest, Quits
<1>2. CASE WritesRequest \/ OpensStream \/ OpensResult \/ WritesResult \/ Receives
  BY <1>2 DEF WritesRequest, OpensStream, OpensResult, WritesResult, Receives
<1>3. CASE EntersDeadline \/ EndsBody \/ LeavesDeadline \/ TimerFires
  BY <1>3 DEF EntersDeadline, EndsBody, LeavesDeadline, TimerFires, Next
<1>4. CASE ChecksResult \/ MarksLong
  BY <1>4 DEF ChecksResult, MarksLong, Quits
<1>5. CASE NextProcess
  BY <1>5 DEF NextProcess, Init
<1>6. CASE Installs \/ SetsTimer \/ Cancels \/ Restores \/ Tick
  BY <1>6 DEF Next
<1>7. CASE UNCHANGED allVars
  BY <1>7 DEF allVars
<1> QED
  BY <1>1, <1>2, <1>3, <1>4, <1>5, <1>6, <1>7 DEF StreamNext

LEMMA QuitsKeepsRInv == ASSUME RInv, Quits PROVE RInv'
BY DEF RInv, Quits, TypeOK, HoldsDeadline, TimerInside, DeadlineIsKept, NeverEarly,
       Inside, Pc, Off, Due, Duration, held

LEMMA InitAgain == Init' => RInv'
BY RInit, PTL

LEMMA StreamKeepsRInv == ASSUME ~Preemptible, RInv, [StreamNext]_allVars PROVE RInv'
BY TimerSteps, RNext, QuitsKeepsRInv, InitAgain

(***************************************************************************)
(* stream() itself, with all it does between and inside its requests, and  *)
(* processes that follow each other, keeps the campaign's deadline.        *)
(***************************************************************************)
THEOREM StreamKeepsDeadline == ASSUME ~Preemptible PROVE StreamSpec => []DeadlineIsKept
<1>1. StreamInit => RInv
  BY RInit DEF StreamInit
<1>2. RInv => DeadlineIsKept
  BY DEF RInv
<1>3. RInv /\ [StreamNext]_allVars => RInv'
  BY StreamKeepsRInv
<1> QED
  BY <1>1, <1>2, <1>3, PTL DEF StreamSpec

-----------------------------------------------------------------------------
(* The files.                                                              *)

(* The types of the probes' own state. *)
Got == {"none", "some"} \union Finish

ProbeTypeOK ==
    /\ run \in 1..MaxRuns /\ text \in 1..MaxText
    /\ arm \in 1..Arms /\ label \in 1..Long
    /\ step \in Step /\ ended \in BOOLEAN /\ rows \subseteq 1..Arms
FilesTypeOK ==
    /\ request \in [Sample -> [run : Torn..MaxRuns, text : 0..MaxText]]
    /\ stream \in [Sample -> [run : Absent..MaxRuns, got : Got]]
    /\ result \in [Sample -> [run : Torn..MaxRuns, text : 0..MaxText, got : Got, done : BOOLEAN,
                              right : BOOLEAN]]
    /\ passed \in [1..Arms -> Absent..MaxRuns]

(* Nothing is of a later process; what this one wrote has its prompts; and *)
(* of two processes that wrote a request and its result, the request's is  *)
(* not the earlier one, with the prompts of the result if it is the same.  *)
FilesInOrder ==
    \A s \in Sample :
        /\ request[s].run <= run /\ stream[s].run <= run /\ result[s].run <= run
        /\ result[s].run = run => result[s].text = text
        /\ request[s].run > 0 /\ result[s].run > 0 =>
              /\ request[s].run >= result[s].run
              /\ request[s].run = result[s].run => request[s].text = result[s].text

(* How far the files of the present request are, from the place in stream. *)
RequestWritten == step \in {"send", "events", "failed", "answered", "result", "check", "mark"}
StreamOpened   == step \in {"events", "answered", "result", "check", "mark"}

UnderWay ==
    /\ pc \in Inside => RequestWritten
    /\ RequestWritten => request[Here] = [run |-> run, text |-> text]
    /\ StreamOpened => stream[Here].run = run
    /\ step \in {"check", "mark"} =>
          /\ result[Here].run = run /\ result[Here].text = text
          /\ result[Here].got = stream[Here].got /\ result[Here].done = ended
          /\ result[Here].right => label = Long
    /\ step = "mark" => Natural /\ result[Here].right

(* A sample that this process has finished. *)
Made(s) ==
    /\ request[s] = [run |-> run, text |-> text]
    /\ stream[s].run = run /\ stream[s].got = result[s].got
    /\ result[s].run = run /\ result[s].done = TRUE

(* The long context of a directory that was marked in this process.        *)
Marked(a) == passed[a] = run => result[<<a, Long>>].right

MeasuredAreMade ==
    /\ \A a \in rows : \A l \in 1..Long : Made(<<a, l>>)
    /\ \A l \in 1..label - 1 : Made(<<arm, l>>)
    /\ pc # "over" => \A a \in rows : a < arm
    /\ arm > 1 \/ rows # {} => 1 \in rows

MarksKept ==
    /\ \A a \in rows : Marked(a)
    /\ pc # "over" => \A a \in arm..Arms : passed[a] # run
    /\ \A a \in 1..Arms : passed[a] <= run

FInv == MarksKept /\ ProbeTypeOK /\ FilesTypeOK /\ FilesInOrder /\ UnderWay /\ MeasuredAreMade

LEMMA FInit == StreamInit => FInv
<1> SUFFICES ASSUME StreamInit PROVE FInv
  OBVIOUS
<1> USE DEF StreamInit, Starts, Init
<1>1. ProbeTypeOK
  <2>1. ended \in BOOLEAN
    BY Zenon
  <2>2. run \in 1..MaxRuns /\ text \in 1..MaxText /\ arm \in 1..Arms /\ label \in 1..Long
    OBVIOUS
  <2>3. step \in Step /\ rows \subseteq 1..Arms
    BY DEF Step
  <2> QED
    BY <2>1, <2>2, <2>3, Zenon DEF ProbeTypeOK
<1>2. FilesTypeOK
  BY DEF FilesTypeOK, NoRequest, NoStream, NoResult, Absent, Torn, Got, Sample
<1>3. FilesInOrder
  BY DEF FilesInOrder, NoRequest, NoStream, NoResult, Absent
<1>4. UnderWay
  BY DEF UnderWay, RequestWritten, StreamOpened, Inside
<1>5. MeasuredAreMade
  BY DEF MeasuredAreMade
<1>6. MarksKept
  BY DEF MarksKept, Marked, Absent
<1> QED
  BY <1>1, <1>2, <1>3, <1>4, <1>5, <1>6 DEF FInv

LEMMA HereIsSample == ASSUME ProbeTypeOK PROVE Here \in Sample
BY DEF ProbeTypeOK, Here, Sample

(* The steps that leave the files alone and the process where it is.       *)
LEMMA StaysKeepsFInv ==
    ASSUME FInv, UNCHANGED <<probeVars, fileVars>>, pc # "over" \/ pc' = pc,
           pc' \in Inside => RequestWritten
    PROVE  FInv'
<1> USE DEF probeVars, fileVars
<1>1. ProbeTypeOK' /\ FilesTypeOK'
  BY DEF FInv, ProbeTypeOK, FilesTypeOK
<1>2. FilesInOrder'
  BY DEF FInv, FilesInOrder
<1>3. UnderWay'
  BY DEF FInv, UnderWay, RequestWritten, StreamOpened, Inside, Here, Natural
<1>4. MeasuredAreMade'
  BY DEF FInv, MeasuredAreMade, Made
<1>5. MarksKept'
  BY DEF FInv, MarksKept, Marked
<1> QED
  BY <1>1, <1>2, <1>3, <1>4, <1>5 DEF FInv

(* What was made stays made as long as its files are not touched.          *)
LEMMA MadeStays ==
    ASSUME NEW s, Made(s), UNCHANGED <<run, text>>,
           request'[s] = request[s], stream'[s] = stream[s], result'[s] = result[s]
    PROVE  Made(s)'
BY DEF Made

(* An exception leaves the files to the next request or process.           *)
LEMMA RaisesKeepsFInv ==
    ASSUME FInv, pc # "over", Raises, UNCHANGED <<request, stream, result>>,
           \/ passed' = passed
           \/ passed' = [passed EXCEPT ![arm] = run]
    PROVE  FInv'
<1> USE DEF Raises
<1>1. ProbeTypeOK'
  <2>1. ended' \in BOOLEAN
    BY Zenon
  <2>2. /\ run' \in 1..MaxRuns /\ text' \in 1..MaxText /\ label' \in 1..Long
        /\ rows' \subseteq 1..Arms
    BY DEF FInv, ProbeTypeOK
  <2>3. arm' \in 1..Arms
    BY DEF FInv, ProbeTypeOK
  <2>4. step' \in Step
    BY DEF Step
  <2> QED
    BY <2>1, <2>2, <2>3, <2>4, Zenon DEF ProbeTypeOK
<1>2. FilesTypeOK'
  <2>1. passed \in [1..Arms -> Absent..MaxRuns] /\ run \in Absent..MaxRuns
    BY DEF FInv, FilesTypeOK, ProbeTypeOK, Absent
  <2>2. passed' \in [1..Arms -> Absent..MaxRuns]
    BY <2>1
  <2> QED
    BY <2>2, Zenon DEF FInv, FilesTypeOK
<1>3. FilesInOrder'
  BY DEF FInv, FilesInOrder
<1>4. UnderWay'
  BY DEF UnderWay, RequestWritten, StreamOpened, Inside
<1>5. MeasuredAreMade'
  <2>1. run' = run /\ text' = text /\ rows' = rows /\ label' = 1
        /\ request' = request /\ stream' = stream /\ result' = result
    OBVIOUS
  <2>2. \A a \in rows : a < arm /\ a \in 1..Arms
    BY DEF FInv, MeasuredAreMade, ProbeTypeOK
  <2>3. arm' = arm \/ (arm > 1 /\ arm' = arm + 1)
    BY DEF FInv, ProbeTypeOK
  <2>4. (\A a \in rows : \A l \in 1..Long : Made(<<a, l>>))'
    <3> HIDE DEF Raises
    <3>1. \A a \in rows : \A l \in 1..Long : Made(<<a, l>>)
      BY DEF FInv, MeasuredAreMade
    <3>2. ASSUME NEW s, Made(s) PROVE Made(s)'
      BY <2>1, <3>2, MadeStays
    <3>3. \A a \in rows : \A l \in 1..Long : Made(<<a, l>>)'
      BY <3>1, <3>2, Zenon
    <3>4. rows' = rows
      BY <2>1
    <3> QED
      BY <3>3, <3>4, Zenon
  <2>5. (\A l \in 1..label - 1 : Made(<<arm, l>>))'
    BY <2>1
  <2>6. (\A a \in rows : a < arm)'
    BY <2>1, <2>2, <2>3 DEF FInv, ProbeTypeOK
  <2>7. (arm > 1 \/ rows # {} => 1 \in rows)'
    BY <2>1, <2>3 DEF FInv, MeasuredAreMade
  <2> QED
    BY <2>4, <2>5, <2>6, <2>7 DEF MeasuredAreMade
<1>6. MarksKept'
  <2>1. /\ \A a \in rows : a < arm /\ a \in 1..Arms
        /\ arm \in 1..Arms /\ run \in Nat
        /\ \A a \in 1..Arms : passed[a] <= run /\ (a # arm => passed'[a] = passed[a])
    BY DEF FInv, MeasuredAreMade, ProbeTypeOK, MarksKept, FilesTypeOK
  <2>2. passed'[arm] <= run
    BY <2>1 DEF FInv, FilesTypeOK, ProbeTypeOK
  <2>3. (\A a \in 1..Arms : passed[a] <= run)'
    BY <2>1, <2>2
  <2>4. (\A a \in rows : Marked(a))'
    BY <2>1 DEF FInv, MarksKept, Marked
  <2>5. (pc # "over" => \A a \in arm..Arms : passed[a] # run)'
    BY <2>1 DEF FInv, MarksKept
  <2> QED
    BY <2>3, <2>4, <2>5 DEF MarksKept
<1> QED
  BY <1>1, <1>2, <1>3, <1>4, <1>5, <1>6 DEF FInv

(***************************************************************************)
(* A step of stream() that writes one of the files of its sample: nothing  *)
(* that was measured is touched.                                           *)
(***************************************************************************)
OthersKept ==
    \A s \in Sample \ {Here} :
        request'[s] = request[s] /\ stream'[s] = stream[s] /\ result'[s] = result[s]

LEMMA WritingKeepsMeasured ==
    ASSUME FInv, pc # "over", OthersKept, UNCHANGED <<run, text, arm, label, rows, passed>>
    PROVE  MeasuredAreMade' /\ MarksKept'
<1>1. \A a \in rows : a < arm /\ a \in 1..Arms
  BY DEF FInv, MeasuredAreMade, ProbeTypeOK
<1>2. \A a \in rows : \A l \in 1..Long : <<a, l>> \in Sample \ {Here}
  BY <1>1 DEF Sample, Here, FInv, ProbeTypeOK
<1>3. \A l \in 1..label - 1 : <<arm, l>> \in Sample \ {Here}
  BY DEF Sample, Here, FInv, ProbeTypeOK
<1>4. (\A a \in rows : \A l \in 1..Long : Made(<<a, l>>))'
  <2>1. \A a \in rows : \A l \in 1..Long : Made(<<a, l>>)
    BY DEF FInv, MeasuredAreMade
  <2>2. ASSUME NEW s \in Sample \ {Here}, Made(s) PROVE Made(s)'
    BY <2>2 DEF Made, OthersKept
  <2> QED
    BY <1>2, <2>1, <2>2
<1>5. (\A l \in 1..label - 1 : Made(<<arm, l>>))'
  BY <1>3 DEF FInv, MeasuredAreMade, Made, OthersKept
<1>6. MarksKept'
  BY <1>2 DEF FInv, MarksKept, Marked, OthersKept
<1> QED
  BY <1>1, <1>4, <1>5, <1>6 DEF FInv, MeasuredAreMade

LEMMA GoesOnKeepsType ==
    ASSUME FInv, step' \in Step, ended' \in BOOLEAN, UNCHANGED <<run, text, arm, label, rows>>
    PROVE  ProbeTypeOK'
<1>1. /\ run' \in 1..MaxRuns /\ text' \in 1..MaxText
      /\ arm' \in 1..Arms /\ label' \in 1..Long /\ rows' \subseteq 1..Arms
  BY DEF FInv, ProbeTypeOK
<1> QED
  BY <1>1, Zenon DEF ProbeTypeOK

LEMMA EndedIsBoolean == ASSUME FInv PROVE ended \in BOOLEAN
BY Zenon DEF FInv, ProbeTypeOK

LEMMA OpensRequestKeeps == ASSUME FInv, OpensRequest PROVE FInv'
<1> USE DEF OpensRequest, At, GoesTo, fileVars, timerVars
<1>1. CASE Raises /\ UNCHANGED request
  BY <1>1, RaisesKeepsFInv DEF fileVars
<1>2. ASSUME GoesTo("request"), request' = [request EXCEPT ![Here] = NoRequest(Torn)]
      PROVE  FInv'
  <2>0. Here \in Sample /\ UNCHANGED <<run, text, arm, label, rows, ended, stream, result, passed>>
        /\ step' = "request" /\ Here' = Here
    BY <1>2, HereIsSample DEF FInv, Here
  <2>1. ProbeTypeOK'
    BY <2>0, GoesOnKeepsType, EndedIsBoolean DEF Step
  <2>2. FilesTypeOK'
    BY <1>2, <2>0 DEF FInv, FilesTypeOK, NoRequest, Torn
  <2>3. FilesInOrder'
    BY <1>2, <2>0 DEF FInv, FilesInOrder, FilesTypeOK, NoRequest, Torn, ProbeTypeOK
  <2>4. UnderWay'
    BY <1>2, <2>0 DEF UnderWay, RequestWritten, StreamOpened, Inside
  <2>5. MeasuredAreMade' /\ MarksKept'
    BY <1>2, <2>0, WritingKeepsMeasured DEF OthersKept, FInv, FilesTypeOK
  <2> QED
    BY <2>1, <2>2, <2>3, <2>4, <2>5 DEF FInv
<1> QED
  BY <1>1, <1>2

LEMMA WritesRequestKeeps == ASSUME FInv, WritesRequest PROVE FInv'
<1> USE DEF WritesRequest, At, GoesTo, timerVars
<1>0. Here \in Sample /\ UNCHANGED <<run, text, arm, label, rows, ended, stream, result, passed>>
      /\ step' = "send" /\ Here' = Here
  BY HereIsSample DEF FInv, Here
<1>1. ProbeTypeOK'
  BY <1>0, GoesOnKeepsType, EndedIsBoolean DEF Step
<1>2. FilesTypeOK'
  BY <1>0 DEF FInv, FilesTypeOK, ProbeTypeOK, Torn
<1>3. FilesInOrder'
  <2> SUFFICES ASSUME NEW s \in Sample
               PROVE  /\ request'[s].run <= run /\ stream[s].run <= run /\ result[s].run <= run
                      /\ result[s].run = run => result[s].text = text
                      /\ request'[s].run > 0 /\ result[s].run > 0 =>
                            /\ request'[s].run >= result[s].run
                            /\ request'[s].run = result[s].run => request'[s].text = result[s].text
    BY <1>0 DEF FilesInOrder
  <2>1. /\ request[s].run <= run /\ stream[s].run <= run /\ result[s].run <= run
        /\ result[s].run = run => result[s].text = text
        /\ request[s].run > 0 /\ result[s].run > 0 =>
              /\ request[s].run >= result[s].run
              /\ request[s].run = result[s].run => request[s].text = result[s].text
    BY DEF FInv, FilesInOrder
  <2>2. run \in Int /\ result[s].run \in Int
    BY DEF FInv, FilesTypeOK, ProbeTypeOK, Torn
  <2>3. request' = [request EXCEPT ![Here] = [run |-> run, text |-> text]]
        /\ request \in [Sample -> [run : Torn..MaxRuns, text : 0..MaxText]]
    BY DEF FInv, FilesTypeOK
  <2> HIDE DEF WritesRequest
  <2>4. CASE s = Here
    <3>1. request'[s].run = run /\ request'[s].text = text
      BY <1>0, <2>3, <2>4
    <3> QED
      BY <2>1, <2>2, <3>1
  <2>5. CASE s # Here
    <3>1. request'[s] = request[s]
      BY <2>3, <2>5
    <3> QED
      BY <2>1, <3>1
  <2> QED
    BY <2>4, <2>5
<1>4. UnderWay'
  BY <1>0 DEF FInv, FilesTypeOK, UnderWay, RequestWritten, StreamOpened, Inside
<1>5. MeasuredAreMade' /\ MarksKept'
  BY <1>0, WritingKeepsMeasured DEF OthersKept, FInv, FilesTypeOK
<1> QED
  BY <1>1, <1>2, <1>3, <1>4, <1>5 DEF FInv

LEMMA OpensStreamKeeps == ASSUME FInv, OpensStream PROVE FInv'
<1> USE DEF OpensStream, GoesTo, timerVars
<1>0. Here \in Sample /\ UNCHANGED <<run, text, arm, label, rows, ended, request, result, passed>>
      /\ step = "send" /\ step' = "events" /\ Here' = Here
  BY HereIsSample DEF FInv, Here
<1>1. ProbeTypeOK'
  BY <1>0, GoesOnKeepsType, EndedIsBoolean DEF Step
<1>2. FilesTypeOK'
  BY <1>0 DEF FInv, FilesTypeOK, ProbeTypeOK, Absent, Emptied, Got
<1>3. FilesInOrder'
  BY <1>0 DEF FInv, FilesInOrder, FilesTypeOK, ProbeTypeOK, Torn, Absent, Emptied
<1>4. UnderWay'
  BY <1>0 DEF FInv, FilesTypeOK, UnderWay, RequestWritten, StreamOpened, Inside, Emptied
<1>5. MeasuredAreMade' /\ MarksKept'
  BY <1>0, WritingKeepsMeasured DEF OthersKept, FInv, FilesTypeOK
<1> QED
  BY <1>1, <1>2, <1>3, <1>4, <1>5 DEF FInv

LEMMA ReceivesKeeps == ASSUME FInv, Receives PROVE FInv'
<1>0. Here \in Sample /\ UNCHANGED <<pc, run, text, arm, label, rows, ended, request, result, passed>>
      /\ pc = "body" /\ step = "events" /\ step' = "events" /\ Here' = Here
  BY HereIsSample DEF FInv, Here, Receives, vars, probeVars
<1>1. PICK g \in Got : stream' = [stream EXCEPT ![Here] = [run |-> stream[Here].run, got |-> g]]
  <2>1. stream \in [Sample -> [run : Absent..MaxRuns, got : Got]]
    BY DEF FInv, FilesTypeOK
  <2>2. stream[Here] = [run |-> stream[Here].run, got |-> stream[Here].got]
    BY <2>1, <1>0
  <2>3. PICK g \in Got : stream' = [stream EXCEPT ![Here].got = g]
    BY DEF Receives, Got
  <2>4. [stream[Here] EXCEPT !.got = g] = [run |-> stream[Here].run, got |-> g]
    BY <2>1, <1>0
  <2> QED
    BY <2>3, <2>4
<1>2. ProbeTypeOK'
  BY <1>0, GoesOnKeepsType, EndedIsBoolean DEF Step
<1>3. FilesTypeOK'
  BY <1>0, <1>1 DEF FInv, FilesTypeOK, ProbeTypeOK
<1>4. FilesInOrder'
  BY <1>0, <1>1 DEF FInv, FilesInOrder, FilesTypeOK, ProbeTypeOK, Torn, Absent
<1>5. UnderWay'
  BY <1>0, <1>1 DEF FInv, FilesTypeOK, UnderWay, RequestWritten, StreamOpened, Inside
<1>6. MeasuredAreMade' /\ MarksKept'
  BY <1>0, <1>1, WritingKeepsMeasured DEF OthersKept, FInv, FilesTypeOK
<1> QED
  BY <1>2, <1>3, <1>4, <1>5, <1>6 DEF FInv

LEMMA OpensResultKeeps == ASSUME FInv, OpensResult PROVE FInv'
<1> USE DEF OpensResult, At, GoesTo, timerVars
<1>0. Here \in Sample /\ UNCHANGED <<run, text, arm, label, rows, ended, request, stream, passed>>
      /\ step = "answered" /\ step' = "result" /\ Here' = Here
  BY HereIsSample DEF FInv, Here
<1>1. ProbeTypeOK'
  BY <1>0, GoesOnKeepsType, EndedIsBoolean DEF Step
<1>2. FilesTypeOK'
  BY <1>0 DEF FInv, FilesTypeOK, NoResult, Torn, Got
<1>3. FilesInOrder'
  BY <1>0 DEF FInv, FilesInOrder, FilesTypeOK, ProbeTypeOK, NoResult, Torn
<1>4. UnderWay'
  BY <1>0 DEF FInv, UnderWay, RequestWritten, StreamOpened, Inside
<1>5. MeasuredAreMade' /\ MarksKept'
  BY <1>0, WritingKeepsMeasured DEF OthersKept, FInv, FilesTypeOK
<1> QED
  BY <1>1, <1>2, <1>3, <1>4, <1>5 DEF FInv

LEMMA WritesResultKeeps == ASSUME FInv, WritesResult PROVE FInv'
<1> USE DEF WritesResult, At, GoesTo, timerVars
<1>0. Here \in Sample /\ UNCHANGED <<run, text, arm, label, rows, ended, request, stream, passed>>
      /\ step = "result" /\ step' = "check" /\ Here' = Here
  BY HereIsSample DEF FInv, Here
<1>1. stream[Here].got \in Got /\ ended \in BOOLEAN
  BY <1>0, EndedIsBoolean DEF FInv, FilesTypeOK
<1>8. PICK right \in BOOLEAN :
         /\ right => label = Long
         /\ result' = [result EXCEPT ![Here] =
                        [run |-> run, text |-> text, got |-> stream[Here].got, done |-> ended,
                         right |-> right]]
  OBVIOUS
<1>9. /\ [run |-> run, text |-> text, got |-> stream[Here].got, done |-> ended,
          right |-> right]
            \in [run : Torn..MaxRuns, text : 0..MaxText, got : Got, done : BOOLEAN,
                right : BOOLEAN]
      /\ result \in [Sample -> [run : Torn..MaxRuns, text : 0..MaxText, got : Got,
                                done : BOOLEAN, right : BOOLEAN]]
  BY <1>1 DEF FInv, ProbeTypeOK, FilesTypeOK, Torn
<1>2. ProbeTypeOK'
  BY <1>0, <1>1, GoesOnKeepsType DEF Step
<1> HIDE DEF WritesResult
<1>3. FilesTypeOK'
  <2>1. result' \in [Sample -> [run : Torn..MaxRuns, text : 0..MaxText, got : Got,
                                done : BOOLEAN, right : BOOLEAN]]
    BY <1>0, <1>8, <1>9
  <2> QED
    BY <1>0, <2>1, Zenon DEF FInv, FilesTypeOK
<1>4. request[Here] = [run |-> run, text |-> text] /\ stream[Here].run = run
  BY <1>0 DEF FInv, UnderWay, RequestWritten, StreamOpened, Inside
<1>5. FilesInOrder'
  BY <1>0, <1>4, <1>8 DEF FInv, FilesInOrder, FilesTypeOK, ProbeTypeOK, Torn, Absent
<1>10. /\ result'[Here].run = run /\ result'[Here].text = text
       /\ result'[Here].got = stream[Here].got /\ result'[Here].done = ended
       /\ result'[Here].right = right
  BY <1>0, <1>8, <1>9
<1>11. pc' = "out"
  BY DEF WritesResult
<1>6. UnderWay'
  <2>1. (/\ result[Here].run = run /\ result[Here].text = text
         /\ result[Here].got = stream[Here].got /\ result[Here].done = ended)'
    BY <1>0, <1>10
  <2>2. (result[Here].right => label = Long)'
    BY <1>0, <1>8, <1>10, Zenon
  <2>3. (request[Here] = [run |-> run, text |-> text] /\ stream[Here].run = run)'
    BY <1>0, <1>4
  <2>4. (pc \notin Inside)'
    BY <1>11 DEF Inside
  <2>5. (RequestWritten /\ step # "mark")'
    BY <1>0 DEF RequestWritten
  <2>6. (step = "mark" => Natural /\ result[Here].right)'
    BY <2>5, Zenon
  <2> QED
    BY <2>1, <2>2, <2>3, <2>4, <2>6, Zenon DEF UnderWay
<1>7. MeasuredAreMade' /\ MarksKept'
  <2>1. pc # "over"
    BY DEF WritesResult
  <2>2. OthersKept
    BY <1>0, <1>8, <1>9 DEF OthersKept
  <2> QED
    BY <1>0, <2>1, <2>2, WritingKeepsMeasured
<1> QED
  BY <1>2, <1>3, <1>5, <1>6, <1>7 DEF FInv

(* The body ends: what it has read goes into the record.                   *)
LEMMA EndsBodyKeeps == ASSUME FInv, EndsBody PROVE FInv'
<1>0. UNCHANGED <<run, text, arm, label, rows, fileVars>> /\ pc = "body" /\ Here' = Here
  BY DEF EndsBody, BodyEnds, Here
<1>1. (step = "events" /\ step' = "answered") \/ step' = "failed"
  BY DEF EndsBody
<1>2. step' \in Step
  BY <1>1 DEF Step
<1>3. ended' \in BOOLEAN
  BY Zenon DEF EndsBody
<1>4. ProbeTypeOK'
  BY <1>0, <1>2, <1>3, GoesOnKeepsType
<1>5. FilesTypeOK' /\ FilesInOrder'
  BY <1>0 DEF FInv, FilesTypeOK, FilesInOrder, fileVars
<1>6. UnderWay'
  BY <1>0, <1>1 DEF FInv, UnderWay, RequestWritten, StreamOpened, Inside, fileVars
<1>7. MeasuredAreMade' /\ MarksKept'
  BY <1>0, WritingKeepsMeasured DEF OthersKept, fileVars
<1> QED
  BY <1>4, <1>5, <1>6, <1>7 DEF FInv

(* stream() returns: its sample is made, and marked or not.                *)
LEMMA ReturnsKeeps ==
    ASSUME FInv, pc = "out", step \in {"check", "mark"}, Natural, Returns,
           UNCHANGED <<request, stream, result>>,
           \/ passed' = passed
           \/ passed' = [passed EXCEPT ![arm] = run] /\ label = Long /\ result[Here].right
    PROVE  FInv'
<1>0. Here \in Sample /\ UNCHANGED <<run, text>> /\ step' = "call" /\ pc' \in {"out", "over"}
  BY HereIsSample DEF FInv, Returns
<1>1. Made(Here)
  <2>1. /\ request[Here] = [run |-> run, text |-> text] /\ stream[Here].run = run
        /\ result[Here].run = run /\ result[Here].got = stream[Here].got
        /\ result[Here].done = ended
    BY DEF FInv, UnderWay, RequestWritten, StreamOpened
  <2>2. ended = TRUE
    BY EndedIsBoolean DEF Natural
  <2> QED
    BY <2>1, <2>2 DEF Made
<1>2. FilesInOrder'
  BY <1>0 DEF FInv, FilesInOrder
<1>3. UnderWay'
  BY <1>0 DEF UnderWay, RequestWritten, StreamOpened, Inside
<1>4. ended' \in BOOLEAN
  BY Zenon DEF Returns
<1>5. /\ \A a \in rows : \A l \in 1..Long : Made(<<a, l>>)
      /\ \A l \in 1..label - 1 : Made(<<arm, l>>)
      /\ \A a \in rows : a < arm
      /\ arm > 1 => 1 \in rows
  BY DEF FInv, MeasuredAreMade
<1>6. \A s : Made(s) => Made(s)'
  BY <1>0 DEF Made
<1>7. /\ run \in 1..MaxRuns /\ text \in 1..MaxText
      /\ arm \in 1..Arms /\ label \in 1..Long /\ rows \subseteq 1..Arms
  BY DEF FInv, ProbeTypeOK
<1>8. FilesTypeOK'
  <2>1. passed \in [1..Arms -> Absent..MaxRuns] /\ run \in Absent..MaxRuns
    BY <1>7 DEF FInv, FilesTypeOK, Absent
  <2>2. passed' \in [1..Arms -> Absent..MaxRuns]
    BY <1>7, <2>1
  <2> QED
    BY <2>2 DEF FInv, FilesTypeOK
<1>9. \A a \in 1..Arms :
          passed[a] <= run /\ passed'[a] <= run /\ (a # arm => passed'[a] = passed[a])
  BY <1>7 DEF FInv, FilesTypeOK, MarksKept
<1>10. (\A a \in rows : Marked(a)) /\ \A a \in arm..Arms : passed[a] # run
  BY DEF FInv, MarksKept
<1>11. (\A a \in 1..Arms : passed[a] <= run)'
  BY <1>0, <1>9
<1>12. CASE label < Long
  <2>1. label' = label + 1 /\ arm' = arm /\ rows' = rows /\ pc' = pc
    BY <1>12 DEF Returns
  <2>2. /\ run' \in 1..MaxRuns /\ text' \in 1..MaxText /\ step' \in Step
        /\ arm' \in 1..Arms /\ label' \in 1..Long /\ rows' \subseteq 1..Arms
    BY <1>0, <1>7, <1>12, <2>1 DEF Step
  <2>3. ProbeTypeOK'
    BY <1>4, <2>2, Zenon DEF ProbeTypeOK
  <2>4. \A l \in 1..label : Made(<<arm, l>>)
    BY <1>1, <1>5, <1>7 DEF Here
  <2>5. (\A l \in 1..label - 1 : Made(<<arm, l>>))'
    BY <1>6, <1>7, <2>1, <2>4
  <2>6. (\A a \in rows : \A l \in 1..Long : Made(<<a, l>>))'
    BY <1>5, <1>6, <2>1
  <2>7. MeasuredAreMade'
    BY <1>5, <1>7, <2>1, <2>5, <2>6 DEF MeasuredAreMade, FInv
  <2>8. passed' = passed
    BY <1>7, <1>12
  <2>9. MarksKept'
    BY <1>0, <1>10, <1>11, <2>1, <2>8 DEF MarksKept, Marked
  <2> QED
    BY <1>2, <1>3, <1>8, <2>3, <2>7, <2>9 DEF FInv
<1>13. CASE label = Long
  <2>1. /\ label' = 1 /\ rows' = rows \union {arm}
        /\ arm' = IF arm < Arms THEN arm + 1 ELSE arm
        /\ pc' = IF arm < Arms THEN "out" ELSE "over"
    BY <1>13 DEF Returns
  <2>2. /\ run' \in 1..MaxRuns /\ text' \in 1..MaxText /\ step' \in Step
        /\ arm' \in 1..Arms /\ label' \in 1..Long /\ rows' \subseteq 1..Arms
    BY <1>0, <1>7, <2>1 DEF Step
  <2>3. ProbeTypeOK'
    BY <1>4, <2>2, Zenon DEF ProbeTypeOK
  <2>4. \A l \in 1..Long : Made(<<arm, l>>)
    BY <1>1, <1>5, <1>7, <1>13 DEF Here
  <2>5. (\A l \in 1..label - 1 : Made(<<arm, l>>))'
    BY <2>1
  <2>6. (\A a \in rows : \A l \in 1..Long : Made(<<a, l>>))'
    BY <1>5, <1>6, <2>1, <2>4
  <2>7. (pc # "over" => \A a \in rows : a < arm)'
    BY <1>5, <1>7, <2>1
  <2>8. (arm > 1 \/ rows # {} => 1 \in rows)'
    BY <1>5, <1>7, <2>1
  <2>9. MeasuredAreMade'
    BY <2>5, <2>6, <2>7, <2>8 DEF MeasuredAreMade
  <2>11. (\A a \in rows : Marked(a))'
    <3>1. \A a \in rows : a # arm /\ a \in 1..Arms
      BY <1>5, <1>7
    <3>3. rows' = rows \union {arm}
      BY <2>1
    <3>5. passed'[arm] = run' => result'[<<arm, Long>>].right
      BY <1>0, <1>7, <1>10, <1>13 DEF Here
    <3>6. \A a \in rows : passed'[a] = run' => result'[<<a, Long>>].right
      BY <1>0, <1>9, <1>10, <3>1 DEF Marked
    <3> QED
      BY <3>3, <3>5, <3>6 DEF Marked
  <2>12. (pc # "over" => \A a \in arm..Arms : passed[a] # run)'
    BY <1>0, <1>7, <1>9, <1>10, <2>1
  <2> QED
    BY <1>2, <1>3, <1>8, <1>11, <2>3, <2>9, <2>11, <2>12 DEF FInv, MarksKept
<1> QED
  BY <1>7, <1>12, <1>13

(* The record is checked: the sample is made, or an exception is raised.   *)
LEMMA ChecksResultKeeps == ASSUME FInv, ChecksResult PROVE FInv'
<1>0. pc = "out" /\ step = "check" /\ UNCHANGED fileVars
  BY DEF ChecksResult, At
<1>1. CASE Raises
  BY <1>0, <1>1, RaisesKeepsFInv DEF fileVars
<1>2. CASE Natural /\ Returns
  BY <1>0, <1>2, ReturnsKeeps DEF fileVars
<1>3. ASSUME Natural, result[Here].right, GoesTo("mark") PROVE FInv'
  <2>0. /\ step' = "mark" /\ Here' = Here
        /\ UNCHANGED <<pc, run, text, arm, label, ended, rows, request, stream, result, passed>>
    BY <1>0, <1>3 DEF GoesTo, Here, fileVars
  <2>1. ProbeTypeOK'
    BY <2>0, GoesOnKeepsType, EndedIsBoolean DEF Step
  <2>2. FilesTypeOK' /\ FilesInOrder'
    BY <2>0 DEF FInv, FilesTypeOK, FilesInOrder
  <2>3. UnderWay'
    BY <1>0, <1>3, <2>0
       DEF FInv, UnderWay, RequestWritten, StreamOpened, Inside, Natural
  <2>4. MeasuredAreMade' /\ MarksKept'
    BY <1>0, <2>0, WritingKeepsMeasured DEF OthersKept
  <2> QED
    BY <2>1, <2>2, <2>3, <2>4 DEF FInv
<1> QED
  BY <1>0, <1>1, <1>2, <1>3 DEF ChecksResult

LEMMA MarksLongKeeps == ASSUME FInv, MarksLong PROVE FInv'
<1>1. /\ pc = "out" /\ step = "mark" /\ UNCHANGED <<request, stream, result>>
      /\ passed' = [passed EXCEPT ![arm] = run]
  BY DEF MarksLong, At
<1>2. Natural /\ result[Here].right /\ label = Long
  BY <1>1 DEF FInv, UnderWay
<1> QED
  BY <1>1, <1>2, RaisesKeepsFInv, ReturnsKeeps DEF MarksLong

(* The timer fires: in the body the request fails, elsewhere what is done. *)
LEMMA TimerFiresKeeps == ASSUME FInv, TimerFires PROVE FInv'
<1>0. pc # "over" /\ UNCHANGED fileVars
  BY DEF TimerFires, Fires
<1>1. CASE pc # "body"
  BY <1>0, <1>1, RaisesKeepsFInv DEF TimerFires, fileVars
<1>2. CASE pc = "body"
  <2>0. UNCHANGED <<run, text, arm, label, rows>> /\ step' = "failed" /\ Here' = Here
    BY <1>2 DEF TimerFires, Here
  <2>1. ended' \in BOOLEAN
    BY <1>2, Zenon DEF TimerFires
  <2>2. ProbeTypeOK'
    BY <2>0, <2>1, GoesOnKeepsType DEF Step
  <2>3. FilesTypeOK' /\ FilesInOrder'
    BY <1>0, <2>0 DEF FInv, FilesTypeOK, FilesInOrder, fileVars
  <2>4. UnderWay'
    BY <1>0, <1>2, <2>0 DEF FInv, UnderWay, RequestWritten, StreamOpened, Inside, fileVars
  <2>5. MeasuredAreMade' /\ MarksKept'
    BY <1>0, <2>0, WritingKeepsMeasured DEF OthersKept, fileVars
  <2> QED
    BY <2>2, <2>3, <2>4, <2>5 DEF FInv
<1> QED
  BY <1>1, <1>2

LEMMA LeavesDeadlineKeeps == ASSUME FInv, LeavesDeadline PROVE FInv'
<1>0. pc = "rearm" /\ UNCHANGED fileVars
  BY DEF LeavesDeadline, Rearms
<1>1. CASE step = "failed"
  BY <1>0, <1>1, RaisesKeepsFInv DEF LeavesDeadline, fileVars
<1>2. CASE step # "failed"
  BY <1>0, <1>2, StaysKeepsFInv DEF LeavesDeadline, Inside
<1> QED
  BY <1>1, <1>2

(* Another process finds the files as they are, and none of its own.       *)
LEMMA NextProcessKeeps == ASSUME FInv, NextProcess PROVE FInv'
<1>0. /\ run' = run + 1 /\ run < MaxRuns /\ text' \in 1..MaxText /\ pc' = "out" /\ arm' = 1
      /\ label' = 1 /\ step' = "call" /\ rows' = {} /\ UNCHANGED <<request, stream, result, passed>>
  BY DEF NextProcess, fileVars
<1>1. ended' \in BOOLEAN
  BY Zenon DEF NextProcess
<1>2. /\ run' \in 1..MaxRuns /\ step' \in Step /\ arm' \in 1..Arms
      /\ label' \in 1..Long /\ rows' \subseteq 1..Arms
  BY <1>0 DEF FInv, ProbeTypeOK, Step
<1>3. ProbeTypeOK'
  BY <1>0, <1>1, <1>2, Zenon DEF ProbeTypeOK
<1>4. FilesTypeOK'
  BY <1>0 DEF FInv, FilesTypeOK
<1>5. FilesInOrder'
  BY <1>0 DEF FInv, FilesInOrder, FilesTypeOK, ProbeTypeOK, Torn, Absent
<1>6. UnderWay'
  BY <1>0 DEF UnderWay, RequestWritten, StreamOpened, Inside
<1>7. MeasuredAreMade'
  BY <1>0 DEF MeasuredAreMade
<1>8. MarksKept'
  <2>1. \A a \in 1..Arms : passed[a] \in Int /\ passed[a] <= run /\ run \in Nat
    BY DEF FInv, MarksKept, FilesTypeOK, ProbeTypeOK, Absent
  <2>2. passed' = passed
    BY DEF NextProcess, fileVars
  <2> QED
    BY <1>0, <2>1, <2>2 DEF MarksKept
<1> QED
  BY <1>3, <1>4, <1>5, <1>6, <1>7, <1>8 DEF FInv

LEMMA FNext == ASSUME FInv, [StreamNext]_allVars PROVE FInv'
<1>1. CASE OpensRequest \/ WritesRequest \/ OpensStream \/ Receives
  BY <1>1, OpensRequestKeeps, WritesRequestKeeps, OpensStreamKeeps, ReceivesKeeps
<1>2. CASE EndsBody \/ LeavesDeadline \/ OpensResult \/ WritesResult
  BY <1>2, EndsBodyKeeps, LeavesDeadlineKeeps, OpensResultKeeps, WritesResultKeeps
<1>3. CASE ChecksResult \/ MarksLong \/ TimerFires \/ NextProcess
  BY <1>3, ChecksResultKeeps, MarksLongKeeps, TimerFiresKeeps, NextProcessKeeps
<1>4. CASE EntersDeadline
  BY <1>4, StaysKeepsFInv DEF EntersDeadline, Enters, RequestWritten
<1>5. CASE (Installs \/ SetsTimer \/ Cancels \/ Restores \/ Tick) /\ UNCHANGED <<probeVars, fileVars>>
  <2>1. pc # "over" \/ pc' = pc
    BY <1>5 DEF Installs, SetsTimer, Cancels, Restores, Tick
  <2>2. pc \in Inside \/ pc' = pc
    BY <1>5 DEF Installs, SetsTimer, Cancels, Restores, Tick, Inside
  <2>3. pc' \in Inside => RequestWritten
    BY <2>2 DEF FInv, UnderWay
  <2> QED
    BY <1>5, <2>1, <2>3, StaysKeepsFInv
<1>6. CASE UNCHANGED allVars
  <2>1. UNCHANGED <<probeVars, fileVars>> /\ pc' = pc
    BY <1>6 DEF allVars, vars
  <2>2. pc' \in Inside => RequestWritten
    BY <2>1 DEF FInv, UnderWay
  <2> QED
    BY <2>1, <2>2, StaysKeepsFInv
<1> QED
  BY <1>1, <1>2, <1>3, <1>4, <1>5, <1>6 DEF StreamNext

LEMMA FInvHolds == StreamSpec => []FInv
<1>1. FInv /\ [StreamNext]_allVars => FInv'
  BY FNext
<1> QED
  BY <1>1, FInit, PTL DEF StreamSpec

(***************************************************************************)
(* What verify_sample accepts is one request of one process, whenever and  *)
(* however often processes were cut in stream() and started again.         *)
(***************************************************************************)
THEOREM AcceptedIsOne == StreamSpec => []AcceptedIsOneRequest
<1>1. FInv => AcceptedIsOneRequest
  <2> SUFFICES ASSUME FInv, NEW s \in Sample, VerifySample(s[1], s[2])
               PROVE  /\ stream[s].run = result[s].run
                      /\ stream[s].got = "stop" /\ result[s].done
                      /\ request[s].run >= result[s].run
                      /\ request[s].run = result[s].run => request[s].text = result[s].text
    BY DEF AcceptedIsOneRequest
  <2>1. s = <<s[1], s[2]>>
    BY DEF Sample
  <2>2. /\ request[s].run > 0 /\ result[s].run > 0 /\ stream[s].run = result[s].run
        /\ stream[s].got = "stop"
    BY <2>1 DEF VerifySample, SameTimes
  <2>3. result[s].done
    BY <2>1, Zenon DEF VerifySample
  <2>4. /\ request[s].run >= result[s].run
        /\ request[s].run = result[s].run => request[s].text = result[s].text
    BY <2>2 DEF FInv, FilesInOrder
  <2> QED
    BY <2>2, <2>3, <2>4
<1> QED
  BY <1>1, FInvHolds, PTL

(***************************************************************************)
(* What a process has measured and answered to a stop is accepted, and the *)
(* matrix is verified once all is: of what earlier processes left in the   *)
(* directories, only the mark of a long context that was answered right    *)
(* then and not now can cost verify_campaign a good campaign.              *)
(***************************************************************************)
THEOREM MeasuredAccepted == StreamSpec => []MeasuredIsAccepted
<1>1. FInv => MeasuredIsAccepted
  <2> SUFFICES ASSUME FInv PROVE MeasuredIsAccepted
    OBVIOUS
  <2>1. \A a \in rows : \A l \in 1..Long : Made(<<a, l>>) /\ Made(<<1, l>>)
    BY DEF FInv, MeasuredAreMade
  <2>2. run > 0 /\ \A l \in 1..Labels : l \in 1..Long
    BY DEF FInv, ProbeTypeOK
  <2>3. ASSUME NEW a \in rows, NEW l \in 1..Long
        PROVE  /\ result[<<a, l>>].run = run
               /\ Stopped(<<a, l>>) => VerifySample(a, l)
    <3>1. Made(<<a, l>>) /\ Made(<<1, l>>)
      BY <2>1
    <3> QED
      BY <2>2, <3>1 DEF Made, Stopped, VerifySample, SameTimes
  <2>4. ASSUME rows = 1..Arms, \A s \in Sample : Stopped(s), \A a \in rows : ~Outlived(a)
        PROVE  VerifyCampaign = "speed_matrix_verified"
    <3>1. \A s \in Speed : s[1] \in rows /\ s[2] \in 1..Long /\ s = <<s[1], s[2]>> /\ s \in Sample
      BY <2>2, <2>4 DEF Sample, Speed
    <3>2. \A s \in Speed : VerifySample(s[1], s[2]) /\ result[s].run = run
      BY <2>3, <2>4, <3>1
    <3>3. Missing = {}
      BY <2>2, <3>2 DEF Missing, Absent
    <3>4. ASSUME NEW a \in 1..Arms PROVE VerifyLong(a)
      <4>1. Long \in 1..Long /\ <<a, Long>> \in Sample
        BY DEF Sample
      <4>2. VerifySample(a, Long)
        BY <2>3, <2>4, <4>1
      <4>3. passed[a] \in {Absent, run} \/ result[<<a, Long>>].right
        BY <2>4 DEF Outlived
      <4>4. Marked(a)
        BY <2>4 DEF FInv, MarksKept
      <4> QED
        BY <4>2, <4>3, <4>4 DEF Marked, VerifyLong
    <3> QED
      BY <3>2, <3>3, <3>4 DEF VerifyCampaign
  <2> QED
    BY <2>3, <2>4 DEF MeasuredIsAccepted
<1> QED
  BY <1>1, FInvHolds, PTL

(* Type correctness of the timer, the probes and the files. *)
THEOREM StreamTypes == ASSUME ~Preemptible PROVE StreamSpec => []StreamTypeOK
<1>1. StreamInit => RInv
  BY RInit DEF StreamInit
<1>2. RInv /\ [StreamNext]_allVars => RInv'
  BY StreamKeepsRInv
<1>3. RInv /\ FInv => StreamTypeOK
  BY Zenon DEF RInv, FInv, ProbeTypeOK, FilesTypeOK, StreamTypeOK, Got
<1> QED
  BY <1>1, <1>2, <1>3, FInvHolds, PTL DEF StreamSpec
================================================================================
