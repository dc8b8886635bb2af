-------------------------- MODULE RegressionProofs --------------------------
(***************************************************************************)
(* What a regression reports is what this start of it tested, for every    *)
(* list of tests, every set of bins and any number of aborts and restarts, *)
(* provided the command that searches the logs is installed.               *)
(*                                                                         *)
(* The invariant follows the script: while tests run, the coverage on disk *)
(* is that of the tests run without errors and no test is run twice; while *)
(* the sign-off runs, nothing it has read changes and what it has written  *)
(* was made from it; so what stands between two sign-offs is of one piece. *)
(***************************************************************************)
EXTENDS Regression, FiniteSetTheorems, SequenceTheorems, TLAPS

Phases ==
  {"idle", "generate", "tests", "baseline_report", "baseline", "decide", "targeted_tests",
   "targeted_report", "targeted_random", "merge", "final_report", "completed", "aborted"}

TestPhases == {"tests", "targeted_tests"}

(* Phases that begin with the reports of a sign-off on disk. *)
ReportedPhases == {"baseline", "targeted_random", "completed"}

(* Phases in which this start of the script has results. *)
LivePhases == Phases \ {"idle", "aborted"}

(* Tests before the targeted ones. *)
EarlyTests == Listed \cup UNION {Range(s) : s \in RandomRuns}

HistoryEntry == [name : {"baseline", "targeted_random"}, covered : SUBSET Bins]
ResultLine == [test : RegressionTests, verdict : {"PASS"}]

RegressionTypeOK ==
  /\ phase \in Phases
  /\ phase \in TestPhases => queue \in Seq(RegressionTests)
  /\ phase \in LivePhases =>
       /\ results \in Seq(ResultLine)
       /\ history \in Seq(HistoryEntry)

(* The disk agrees with what was run without errors. *)
CoverageIsClean ==
  phase \in LivePhases =>
    /\ coverage = clean
    /\ DOMAIN clean \subseteq RegressionTests
    /\ \A t \in DOMAIN clean : clean[t] \subseteq Bins
    /\ {results[i].test : i \in DOMAIN results} = DOMAIN clean
    /\ IsFiniteSet(DOMAIN clean)
    /\ Cardinality(DOMAIN clean) = Len(results)

(* No test is run twice, and none that is listed is left out. *)
QueueIsFresh ==
  /\ phase = "generate" => clean = <<>>
  /\ phase \in TestPhases =>
       /\ IsInjective(queue)
       /\ Range(queue) \cap DOMAIN clean = {}
  /\ phase \in {"tests", "baseline_report", "baseline", "decide"} =>
       DOMAIN clean \subseteq EarlyTests
  /\ phase = "tests" =>
       /\ Range(queue) \subseteq EarlyTests
       /\ Listed \subseteq DOMAIN clean \cup Range(queue)
  /\ phase \in LivePhases \ {"generate", "tests"} => Listed \subseteq DOMAIN clean

(* What the sign-off has read, when it has written n reports. *)
Loaded(n) == [Read EXCEPT !.written = n]

Written(n) ==
  \A j \in 1 .. n :
    /\ ReportOrder[j] \in DOMAIN reports
    /\ reports[ReportOrder[j]] = Content(Read, ReportOrder[j])

(* A sign-off writes from what is on disk, which stays as it is. *)
ReportsAreOfOnePiece ==
  /\ phase \in ReportPhases =>
       \/ loaded = Nothing
       \/ \E n \in 0 .. 5 : loaded = Loaded(n) /\ Written(n)
  /\ phase \notin ReportPhases => loaded = Nothing
  /\ phase \in ReportedPhases => Written(5)

HistoryGrows ==
  phase \in LivePhases =>
    /\ \A i \in DOMAIN history : history[i].covered \subseteq Aggregate(clean)
    /\ CoverageNeverShrinks

CodeCoverageKnown ==
  phase \in {"final_report", "completed"} => code_coverage # "absent"

RegressionInv ==
  /\ RegressionTypeOK
  /\ CoverageIsClean
  /\ QueueIsFresh
  /\ ReportsAreOfOnePiece
  /\ HistoryGrows
  /\ CodeCoverageKnown

-----------------------------------------------------------------------------
(* Files, queues and what is added up from them.                           *)
LEMMA PutFacts ==
  ASSUME NEW f, NEW k, NEW v
  PROVE  /\ DOMAIN Put(f, k, v) = DOMAIN f \cup {k}
         /\ Put(f, k, v)[k] = v
         /\ \A x \in DOMAIN f \ {k} : Put(f, k, v)[x] = f[x]
  BY DEF Put

LEMMA AggregatePut ==
  ASSUME NEW f, NEW k, NEW v, k \notin DOMAIN f
  PROVE  Aggregate(f) \subseteq Aggregate(Put(f, k, v))
<1> SUFFICES ASSUME NEW t \in DOMAIN f, NEW bin \in f[t]
             PROVE  bin \in Aggregate(Put(f, k, v))
  BY DEF Aggregate
<1>1. t \in DOMAIN Put(f, k, v) /\ Put(f, k, v)[t] = f[t]
  BY DEF Put
<1> QED
  BY <1>1 DEF Aggregate

LEMMA QueueTail ==
  ASSUME NEW S, NEW q \in Seq(S), q # <<>>, IsInjective(q)
  PROVE  /\ Head(q) \in S /\ Head(q) \in Range(q)
         /\ Tail(q) \in Seq(S)
         /\ IsInjective(Tail(q))
         /\ Range(Tail(q)) = Range(q) \ {Head(q)}
<1>1. /\ Len(q) \in Nat \ {0} /\ DOMAIN q = 1 .. Len(q)
      /\ Head(q) = q[1] /\ q[1] \in S
      /\ Tail(q) \in Seq(S) /\ Len(Tail(q)) = Len(q) - 1
      /\ DOMAIN Tail(q) = 1 .. Len(q) - 1
      /\ \A i \in 1 .. Len(q) - 1 : Tail(q)[i] = q[i + 1]
  BY EmptySeq, HeadTailProperties, LenProperties
<1>2. IsInjective(Tail(q))
  BY <1>1 DEF IsInjective
<1>3. Range(Tail(q)) \subseteq Range(q) \ {Head(q)}
  BY <1>1 DEF IsInjective, Range
<1>4. ASSUME NEW x \in Range(q) \ {Head(q)}
      PROVE  x \in Range(Tail(q))
  <2>1. PICK i \in 1 .. Len(q) : q[i] = x /\ i # 1
    BY <1>1, <1>4 DEF Range
  <2>2. i - 1 \in 1 .. Len(q) - 1 /\ Tail(q)[i - 1] = x
    BY <1>1, <2>1
  <2> QED
    BY <1>1, <2>2 DEF Range
<1>5. Head(q) \in Range(q)
  BY <1>1 DEF Range
<1> QED
  BY <1>1, <1>2, <1>3, <1>4, <1>5

LEMMA QueueConcat ==
  ASSUME NEW S, NEW q \in Seq(S), NEW r \in Seq(S),
         IsInjective(q), IsInjective(r), Range(q) \cap Range(r) = {}
  PROVE  /\ q \o r \in Seq(S)
         /\ IsInjective(q \o r)
         /\ Range(q \o r) = Range(q) \cup Range(r)
<1>1. /\ q \o r \in Seq(S)
      /\ DOMAIN (q \o r) = 1 .. Len(q) + Len(r)
      /\ \A i \in 1 .. Len(q) + Len(r) :
           (q \o r)[i] = IF i <= Len(q) THEN q[i] ELSE r[i - Len(q)]
      /\ Len(q) \in Nat /\ Len(r) \in Nat
      /\ DOMAIN q = 1 .. Len(q) /\ DOMAIN r = 1 .. Len(r)
  BY ConcatProperties, LenProperties
<1>2. ASSUME NEW i \in DOMAIN (q \o r)
      PROVE  \/ i \in DOMAIN q /\ (q \o r)[i] = q[i]
             \/ i - Len(q) \in DOMAIN r /\ i > Len(q) /\ (q \o r)[i] = r[i - Len(q)]
  BY <1>1
<1>3. IsInjective(q \o r)
  <2> SUFFICES ASSUME NEW i \in DOMAIN (q \o r), NEW j \in DOMAIN (q \o r),
                      (q \o r)[i] = (q \o r)[j]
               PROVE  i = j
    BY DEF IsInjective
  <2> DEFINE InQ(n) == n \in DOMAIN q /\ (q \o r)[n] = q[n]
             InR(n) == n - Len(q) \in DOMAIN r /\ (q \o r)[n] = r[n - Len(q)]
  <2>1. i \in Nat /\ j \in Nat /\ (InQ(i) \/ InR(i)) /\ (InQ(j) \/ InR(j))
    BY <1>1, <1>2
  <2>2. CASE InQ(i) /\ InQ(j)
    BY <2>2 DEF IsInjective
  <2>3. CASE InR(i) /\ InR(j)
    <3>1. i - Len(q) = j - Len(q)
      BY <2>3 DEF IsInjective
    <3> QED
      BY <1>1, <2>1, <3>1
  <2>4. ASSUME NEW a, NEW b, InQ(a), InR(b)
        PROVE  (q \o r)[a] # (q \o r)[b]
    BY <2>4 DEF Range
  <2> QED
    BY <2>1, <2>2, <2>3, <2>4
<1>4. Range(q \o r) \subseteq Range(q) \cup Range(r)
  BY <1>2 DEF Range
<1>5. ASSUME NEW i \in DOMAIN q
      PROVE  q[i] \in Range(q \o r)
  BY <1>1, <1>5 DEF Range
<1>6. ASSUME NEW i \in DOMAIN r
      PROVE  r[i] \in Range(q \o r)
  <2>1. /\ i + Len(q) \in DOMAIN (q \o r)
        /\ ~ (i + Len(q) <= Len(q)) /\ i + Len(q) - Len(q) = i
    BY <1>1, <1>6
  <2> QED
    BY <1>1, <2>1 DEF Range
<1> QED
  BY <1>1, <1>3, <1>4, <1>5, <1>6 DEF Range

-----------------------------------------------------------------------------
(* What a phase leaves alone.                                              *)
LEMMA ResultsStay ==
  ASSUME RegressionInv, phase \in LivePhases,
         UNCHANGED <<coverage, results, history, clean>>
  PROVE  CoverageIsClean' /\ HistoryGrows'
<1>1. CoverageIsClean'
  BY DEF RegressionInv, CoverageIsClean
<1>2. Aggregate(clean)' = Aggregate(clean)
  BY DEF Aggregate
<1>3. HistoryGrows'
  BY <1>2 DEF RegressionInv, HistoryGrows, CoverageNeverShrinks
<1> QED
  BY <1>1, <1>3

(* The number of reports written is of no consequence for what is written. *)
LEMMA ContentOfLoaded ==
  ASSUME NEW n, NEW name
  PROVE  Content(Loaded(n), name) = Content(Read, name)
<1>1. /\ Loaded(n).running = Read.running
      /\ Loaded(n).tests = Read.tests /\ Loaded(n).covered = Read.covered
      /\ Loaded(n).total = Read.total /\ Loaded(n).randoms = Read.randoms
      /\ Loaded(n).results = Read.results /\ Loaded(n).history = Read.history
      /\ Loaded(n).code = Read.code
  BY DEF Loaded, Read
<1> QED
  BY <1>1 DEF Content, functional_coverage, Uncovered, MatrixRow, FinalStatus

LEMMA LoadedFields ==
  ASSUME NEW n
  PROVE  Loaded(n).running /\ Loaded(n).written = n /\ Loaded(n) # Nothing
         /\ [Loaded(n) EXCEPT !.written = n + 1] = Loaded(n + 1)
<1>1. Loaded(n).running /\ Loaded(n).written = n
  BY DEF Loaded, Read
<1>2. ~ Nothing.running
  BY DEF Nothing
<1>3. [Loaded(n) EXCEPT !.written = n + 1] = Loaded(n + 1)
  BY DEF Loaded, Read
<1> QED
  BY <1>1, <1>2, <1>3

LEMMA ReadIsLoaded ==
  Read = Loaded(0)
<1> DEFINE fields == {"running", "written", "tests", "covered", "total", "randoms", "results",
                      "history", "code"}
<1>1. Read = [k \in fields |-> Read[k]] /\ Read.written = 0
  BY DEF Read
<1>2. Loaded(0) = [k \in fields |-> IF k = "written" THEN 0 ELSE Read[k]]
  BY <1>1 DEF Loaded
<1> QED
  BY <1>1, <1>2

LEMMA DiskStays ==
  ASSUME NEW n, UNCHANGED <<inputs, reports>>
  PROVE  Written(n)' <=> Written(n)
<1>1. Read' = Read
  BY DEF inputs, Read, Aggregate
<1> QED
  BY <1>1 DEF Written, Content, functional_coverage, Uncovered, MatrixRow, FinalStatus,
     ReportOrder

LEMMA StartKeeps ==
  ASSUME RegressionInv, Start
  PROVE  RegressionInv'
<1>1. /\ phase' = "generate" /\ phase \in AtRest
      /\ coverage' = <<>> /\ clean' = <<>> /\ results' = <<>> /\ history' = <<>>
      /\ loaded' = loaded
  BY DEF Start, CoverageAfterCleaning
<1>2. loaded' = Nothing
  BY <1>1 DEF RegressionInv, ReportsAreOfOnePiece, AtRest, ReportPhases
<1>3. RegressionTypeOK'
  BY <1>1, EmptySeq DEF RegressionTypeOK, Phases, TestPhases
<1>4. DOMAIN <<>> = {} /\ Len(<<>>) = 0
  BY EmptySeq, LenProperties
<1>5. IsFiniteSet({}) /\ Cardinality({}) = 0
  BY FS_EmptySet
<1>6. CoverageIsClean'
  BY <1>1, <1>4, <1>5 DEF CoverageIsClean
<1>7. QueueIsFresh'
  BY <1>1 DEF QueueIsFresh, TestPhases, LivePhases
<1>8. ReportsAreOfOnePiece'
  BY <1>1, <1>2 DEF ReportsAreOfOnePiece, ReportPhases, ReportedPhases
<1>9. HistoryGrows' /\ CodeCoverageKnown'
  BY <1>1, <1>4 DEF HistoryGrows, CoverageNeverShrinks, CodeCoverageKnown
<1> QED
  BY <1>3, <1>6, <1>7, <1>8, <1>9 DEF RegressionInv

LEMMA GenerateKeeps ==
  ASSUME RegressionInv, GenerateAndCompile
  PROVE  RegressionInv'
<1>1. PICK randoms \in RandomRuns : queue' = TestOrder \o randoms
  BY DEF GenerateAndCompile
<1>2. /\ phase = "generate" /\ phase' = "tests"
      /\ UNCHANGED <<coverage, results, history, code_coverage, loaded, reports, clean>>
  BY DEF GenerateAndCompile
<1>3. clean = <<>>
  BY <1>2 DEF RegressionInv, QueueIsFresh
<1>4. /\ TestOrder \in Seq(RegressionTests) /\ randoms \in Seq(RegressionTests)
  <2>1. Range(TestOrder) \subseteq RegressionTests /\ Range(randoms) \subseteq RegressionTests
    BY TestsAssumption DEF RegressionTests
  <2>2. TestOrder \in Seq(Range(TestOrder)) /\ randoms \in Seq(Range(randoms))
    BY TestsAssumption, GeneratedAssumption
  <2> QED
    BY <2>1, <2>2, SeqMonotonic
<1>5. /\ queue' \in Seq(RegressionTests) /\ IsInjective(queue')
      /\ Range(queue') = Listed \cup Range(randoms)
  <2>1. /\ IsInjective(TestOrder) /\ IsInjective(randoms)
        /\ Range(TestOrder) = Listed /\ Range(TestOrder) \cap Range(randoms) = {}
    BY TestsAssumption, GeneratedAssumption
  <2> QED
    BY <1>1, <1>4, <2>1, QueueConcat
<1>6. RegressionTypeOK'
  BY <1>2, <1>5 DEF RegressionInv, RegressionTypeOK, Phases, LivePhases
<1>7. CoverageIsClean' /\ HistoryGrows'
  BY <1>2, ResultsStay DEF LivePhases, Phases
<1>8. DOMAIN clean = {}
  BY <1>3, EmptySeq, LenProperties
<1>9. QueueIsFresh'
  BY <1>2, <1>5, <1>8 DEF QueueIsFresh, LivePhases, EarlyTests
<1>10. ReportsAreOfOnePiece' /\ CodeCoverageKnown'
  BY <1>2 DEF RegressionInv, ReportsAreOfOnePiece, CodeCoverageKnown, ReportPhases,
     ReportedPhases
<1> QED
  BY <1>6, <1>7, <1>9, <1>10 DEF RegressionInv

(* A test that passes reported no error, if the log was really searched.   *)
LEMMA RunOneTestKeeps ==
  ASSUME rg_installed, RegressionInv, RunOneTest
  PROVE  RegressionInv'
<1> DEFINE test == Head(queue)
<1>1. /\ phase \in TestPhases /\ queue # <<>>
      /\ UNCHANGED <<history, code_coverage, loaded, reports>>
  BY DEF RunOneTest, Testing, TestPhases
<1>2. PICK hits \in Hits[test], errors \in BOOLEAN :
        LET line == [test |-> test, verdict |-> Verdict(errors)]
        IN  \/ /\ line.verdict = "PASS"
               /\ coverage' = Put(coverage, test, hits)
               /\ results' = Append(results, line)
               /\ clean' = IF errors THEN clean ELSE Put(clean, test, hits)
               /\ queue' = Tail(queue)
               /\ UNCHANGED phase
            \/ /\ line.verdict = "FAIL"
               /\ phase' = "aborted"
               /\ UNCHANGED <<results, clean, queue>>
  BY DEF RunOneTest
<1>3. CASE phase' = "aborted"
  <2>1. RegressionTypeOK' /\ CoverageIsClean' /\ QueueIsFresh'
    BY <1>3 DEF RegressionTypeOK, CoverageIsClean, QueueIsFresh, Phases, LivePhases, TestPhases
  <2>2. ReportsAreOfOnePiece' /\ HistoryGrows' /\ CodeCoverageKnown'
    BY <1>1, <1>3 DEF RegressionInv, ReportsAreOfOnePiece, HistoryGrows, CodeCoverageKnown,
       LivePhases, TestPhases, ReportPhases, ReportedPhases
  <2> QED
    BY <2>1, <2>2 DEF RegressionInv
<1>4. CASE phase' = phase
  <2>1. ~ errors /\ Verdict(errors) = "PASS"
    BY <1>1, <1>2, <1>4 DEF Verdict, TestPhases
  <2>2. /\ coverage' = Put(coverage, test, hits)
        /\ clean' = Put(clean, test, hits)
        /\ results' = Append(results, [test |-> test, verdict |-> "PASS"])
        /\ queue' = Tail(queue)
    BY <1>1, <1>2, <1>4, <2>1 DEF TestPhases
  <2>3. phase \in LivePhases /\ phase' \in LivePhases
    BY <1>1, <1>4 DEF LivePhases, Phases, TestPhases
  <2>4. /\ queue \in Seq(RegressionTests) /\ IsInjective(queue)
        /\ Range(queue) \cap DOMAIN clean = {}
    BY <1>1 DEF RegressionInv, RegressionTypeOK, QueueIsFresh
  <2>5. /\ test \in RegressionTests /\ test \in Range(queue)
        /\ queue' \in Seq(RegressionTests) /\ IsInjective(queue')
        /\ Range(queue') = Range(queue) \ {test}
    BY <1>1, <2>2, <2>4, QueueTail
  <2>6. test \notin DOMAIN clean
    BY <2>4, <2>5
  <2>7. coverage = clean /\ coverage' = clean'
    BY <2>2, <2>3 DEF RegressionInv, CoverageIsClean
  <2>8. /\ DOMAIN clean' = DOMAIN clean \cup {test}
        /\ clean'[test] = hits
        /\ \A t \in DOMAIN clean : clean'[t] = clean[t]
    BY <2>2, <2>6 DEF Put
  <2>9. hits \subseteq Bins
    BY <2>5, HitsAssumption
  <2>10. /\ results \in Seq(ResultLine)
         /\ results' \in Seq(ResultLine) /\ Len(results') = Len(results) + 1
         /\ DOMAIN results' = 1 .. Len(results) + 1
         /\ \A i \in 1 .. Len(results) : results'[i] = results[i]
         /\ results'[Len(results) + 1].test = test
    <3>1. results \in Seq(ResultLine) /\ [test |-> test, verdict |-> "PASS"] \in ResultLine
      BY <2>3, <2>5 DEF RegressionInv, RegressionTypeOK, ResultLine
    <3> QED
      BY <2>2, <3>1, AppendProperties, LenProperties
  <2>11. {results'[i].test : i \in DOMAIN results'} = {results[i].test : i \in DOMAIN results} \cup {test}
    <3>1. DOMAIN results = 1 .. Len(results) /\ Len(results) \in Nat
      BY <2>10, LenProperties
    <3> QED
      BY <2>10, <3>1
  <2>12. IsFiniteSet(DOMAIN clean') /\ Cardinality(DOMAIN clean') = Cardinality(DOMAIN clean) + 1
    <3>1. IsFiniteSet(DOMAIN clean)
      BY <2>3 DEF RegressionInv, CoverageIsClean
    <3> QED
      BY <2>6, <2>8, <3>1, FS_AddElement
  <2>13. RegressionTypeOK'
    BY <1>1, <1>4, <2>5, <2>10 DEF RegressionInv, RegressionTypeOK, LivePhases
  <2>14. CoverageIsClean'
    BY <2>3, <2>5, <2>7, <2>8, <2>9, <2>10, <2>11, <2>12 DEF RegressionInv, CoverageIsClean
  <2>15. QueueIsFresh'
    <3>1. phase' = "tests" => test \in EarlyTests
      BY <1>4, <2>5 DEF RegressionInv, QueueIsFresh
    <3> QED
      BY <1>1, <1>4, <2>5, <2>8, <3>1 DEF RegressionInv, QueueIsFresh, TestPhases
  <2>16. Aggregate(clean) \subseteq Aggregate(clean')
    BY <2>2, <2>6, AggregatePut
  <2>17. HistoryGrows' /\ CodeCoverageKnown'
    BY <1>1, <1>4, <2>3, <2>16 DEF RegressionInv, HistoryGrows, CoverageNeverShrinks,
       CodeCoverageKnown, TestPhases
  <2>18. ReportsAreOfOnePiece'
    BY <1>1, <1>4 DEF RegressionInv, ReportsAreOfOnePiece, TestPhases, ReportPhases,
       ReportedPhases
  <2> QED
    BY <2>13, <2>14, <2>15, <2>17, <2>18 DEF RegressionInv
<1> QED
  BY <1>2, <1>3, <1>4

LEMMA AbortKeeps ==
  ASSUME RegressionInv, Abort
  PROVE  RegressionInv'
<1>1. phase' = "aborted" /\ loaded' = Nothing
  BY DEF Abort
<1>2. RegressionTypeOK' /\ CoverageIsClean' /\ QueueIsFresh'
  BY <1>1 DEF RegressionTypeOK, CoverageIsClean, QueueIsFresh, Phases, LivePhases, TestPhases
<1>3. ReportsAreOfOnePiece' /\ HistoryGrows' /\ CodeCoverageKnown'
  BY <1>1 DEF ReportsAreOfOnePiece, HistoryGrows, CodeCoverageKnown, LivePhases, ReportPhases,
     ReportedPhases
<1> QED
  BY <1>2, <1>3 DEF RegressionInv

LEMMA TestsDoneKeeps ==
  ASSUME RegressionInv, TestsDone
  PROVE  RegressionInv'
<1>1. /\ queue = <<>>
      /\ \/ phase = "tests" /\ phase' = "baseline_report"
         \/ phase = "targeted_tests" /\ phase' = "targeted_report"
      /\ UNCHANGED <<coverage, results, history, code_coverage, loaded, reports, clean>>
  BY DEF TestsDone, signOffVars, inputs
<1>2. RegressionTypeOK'
  BY <1>1 DEF RegressionInv, RegressionTypeOK, Phases, LivePhases, TestPhases
<1>3. CoverageIsClean' /\ HistoryGrows'
  BY <1>1, ResultsStay DEF LivePhases, Phases
<1>4. Range(queue) = {}
  BY <1>1, EmptySeq, LenProperties DEF Range
<1>5. QueueIsFresh'
  BY <1>1, <1>4 DEF RegressionInv, QueueIsFresh, TestPhases, LivePhases, Phases
<1>6. ReportsAreOfOnePiece' /\ CodeCoverageKnown'
  BY <1>1 DEF RegressionInv, ReportsAreOfOnePiece, CodeCoverageKnown, ReportPhases,
     ReportedPhases
<1> QED
  BY <1>2, <1>3, <1>5, <1>6 DEF RegressionInv

(* The sign-off reads once, writes five times and ends.                    *)
LEMMA ReportKeeps ==
  ASSUME RegressionInv, Report
  PROVE  RegressionInv'
<1>1. /\ phase \in ReportPhases /\ phase \in LivePhases
      /\ UNCHANGED <<inputs, queue, clean>>
      /\ UNCHANGED <<coverage, results, history, code_coverage>>
  BY DEF Report, StartSignOff, WriteReport, EndSignOff, inputs, ReportPhases, LivePhases, Phases
<1>2. phase' = phase \/ (EndSignOff /\ phase' = AfterReport)
  BY DEF Report
<1>3. /\ phase' \in LivePhases \ ({"generate", "decide"} \cup TestPhases)
      /\ phase' = "baseline" => phase = "baseline_report"
      /\ phase' = "baseline_report" => phase = "baseline_report"
      /\ phase' \in {"final_report", "completed"} => phase = "final_report"
  BY <1>1, <1>2 DEF AfterReport, ReportPhases, LivePhases, Phases, TestPhases
<1>4. RegressionTypeOK'
  BY <1>1, <1>3 DEF RegressionInv, RegressionTypeOK, LivePhases
<1>5. CoverageIsClean' /\ HistoryGrows'
  BY <1>1, ResultsStay
<1>6. QueueIsFresh'
  BY <1>1, <1>3 DEF RegressionInv, QueueIsFresh, TestPhases, LivePhases, ReportPhases
<1>7. CodeCoverageKnown'
  BY <1>1, <1>3 DEF RegressionInv, CodeCoverageKnown
<1>8. Read' = Read
  BY <1>1 DEF inputs, Read, Aggregate
<1>9. /\ \A n : Loaded(n)' = Loaded(n)
      /\ \A name : Content(Read, name)' = Content(Read, name)
  BY <1>8 DEF Loaded, Content, functional_coverage, Uncovered, MatrixRow, FinalStatus
<1>10. ReportsAreOfOnePiece'
  <2>1. CASE StartSignOff /\ phase' = phase
    <3>1. loaded' = Loaded(0)
      BY <2>1, ReadIsLoaded DEF StartSignOff
    <3>2. Written(0)'
      BY DEF Written
    <3> QED
      BY <1>1, <1>9, <2>1, <3>1, <3>2 DEF ReportsAreOfOnePiece, ReportPhases, ReportedPhases
  <2>2. CASE WriteReport /\ phase' = phase
    <3>1. PICK n \in 0 .. 5 : loaded = Loaded(n) /\ Written(n)
      BY <1>1, <2>2 DEF RegressionInv, ReportsAreOfOnePiece, WriteReport, Nothing
    <3>2. /\ loaded.written = n /\ n < 5
          /\ Current = ReportOrder[n + 1]
          /\ reports' = Put(reports, Current, Content(loaded, Current))
          /\ loaded' = [loaded EXCEPT !.written = n + 1]
      BY <2>2, <3>1, LoadedFields DEF WriteReport, Current, ReportOrder
    <3>3. loaded' = Loaded(n + 1)
      BY <3>1, <3>2, LoadedFields
    <3>4. ASSUME NEW j \in 1 .. n + 1
          PROVE  /\ ReportOrder[j] \in DOMAIN reports'
                 /\ reports'[ReportOrder[j]] = Content(Read, ReportOrder[j])
      <4>1. CASE j = n + 1
        <5>1. Content(loaded, Current) = Content(Read, Current)
          BY <3>1, ContentOfLoaded
        <5>2. /\ Current \in DOMAIN reports'
              /\ reports'[Current] = Content(loaded, Current)
          BY <3>2 DEF Put
        <5> QED
          BY <3>2, <4>1, <5>1, <5>2
      <4>2. CASE j \in 1 .. n
        <5>1. ReportOrder[j] # ReportOrder[n + 1]
          BY <3>1, <3>2, <4>2 DEF ReportOrder
        <5>2. /\ ReportOrder[j] \in DOMAIN reports
              /\ reports[ReportOrder[j]] = Content(Read, ReportOrder[j])
          BY <3>1, <4>2 DEF Written
        <5> QED
          BY <3>2, <5>1, <5>2 DEF Put
      <4> QED
        BY <3>1, <4>1, <4>2
    <3>5. Written(n + 1)'
      BY <1>9, <3>4 DEF Written, ReportOrder
    <3>6. n + 1 \in 0 .. 5
      BY <3>1, <3>2
    <3> QED
      BY <1>1, <1>9, <2>2, <3>3, <3>5, <3>6 DEF ReportsAreOfOnePiece, ReportPhases, ReportedPhases
  <2>3. CASE EndSignOff /\ phase' = AfterReport
    <3>1. PICK n \in 0 .. 5 : loaded = Loaded(n) /\ Written(n)
      BY <1>1, <2>3 DEF RegressionInv, ReportsAreOfOnePiece, EndSignOff, Nothing
    <3>2. n = 5 /\ loaded' = Nothing /\ reports' = reports
      BY <2>3, <3>1, LoadedFields DEF EndSignOff, ReportOrder
    <3>3. Written(5)'
      BY <1>1, <3>1, <3>2, DiskStays
    <3> QED
      BY <1>1, <2>3, <3>2, <3>3 DEF ReportsAreOfOnePiece, AfterReport, ReportPhases
  <2> QED
    BY <2>1, <2>2, <2>3 DEF Report
<1> QED
  BY <1>4, <1>5, <1>6, <1>7, <1>10 DEF RegressionInv

(* After a sign-off, the aggregate on disk is what was hit without errors. *)
LEMMA AggregateOnDisk ==
  ASSUME RegressionInv, phase \in ReportedPhases
  PROVE  reports["aggregate_bins"].covered = Aggregate(clean)
<1>1. reports["aggregate_bins"] = Content(Read, "aggregate_bins")
  BY DEF RegressionInv, ReportsAreOfOnePiece, Written, ReportOrder
<1>2. coverage = clean
  BY DEF RegressionInv, CoverageIsClean, ReportedPhases, LivePhases, Phases
<1>3. Read.covered = Aggregate(clean)
  BY <1>2, EmptySeq, LenProperties DEF Read, Aggregate
<1> QED
  BY <1>1, <1>3 DEF Content

LEMMA RecordHistoryKeeps ==
  ASSUME RegressionInv, RecordHistory
  PROVE  RegressionInv'
<1> DEFINE entry == [name |-> phase, covered |-> reports["aggregate_bins"].covered]
<1>1. /\ phase \in {"baseline", "targeted_random"}
      /\ history' = Append(history, entry)
      /\ phase' = IF phase = "baseline" THEN "decide" ELSE "merge"
      /\ UNCHANGED <<coverage, results, code_coverage, loaded, reports, queue, clean>>
  BY DEF RecordHistory
<1>2. phase \in LivePhases /\ phase' \in LivePhases /\ phase \in ReportedPhases
  BY <1>1 DEF LivePhases, Phases, ReportedPhases
<1>3. entry.covered = Aggregate(clean) /\ entry.name = phase
  BY <1>2, AggregateOnDisk
<1>4. Aggregate(clean) \subseteq Bins
  BY <1>2 DEF RegressionInv, CoverageIsClean, Aggregate
<1>5. history \in Seq(HistoryEntry) /\ entry \in HistoryEntry
  BY <1>1, <1>2, <1>3, <1>4 DEF RegressionInv, RegressionTypeOK, HistoryEntry
<1>6. /\ history' \in Seq(HistoryEntry)
      /\ DOMAIN history = 1 .. Len(history) /\ Len(history) \in Nat
      /\ DOMAIN history' = 1 .. Len(history) + 1
      /\ \A i \in DOMAIN history : history'[i] = history[i]
      /\ history'[Len(history) + 1] = entry
  <2> HIDE DEF entry
  <2> QED
    BY <1>1, <1>5, AppendProperties, LenProperties
<1>7. RegressionTypeOK'
  BY <1>1, <1>2, <1>6 DEF RegressionInv, RegressionTypeOK, LivePhases, TestPhases
<1>8. CoverageIsClean'
  BY <1>1, <1>2 DEF RegressionInv, CoverageIsClean
<1>9. Aggregate(clean)' = Aggregate(clean)
  BY <1>1 DEF Aggregate
<1>10. \A i \in DOMAIN history : history[i].covered \subseteq Aggregate(clean)
  BY <1>2 DEF RegressionInv, HistoryGrows
<1>11. \A i \in DOMAIN history' : history'[i].covered \subseteq Aggregate(clean)
  BY <1>3, <1>6, <1>10
<1>12. ASSUME NEW i \in DOMAIN history', NEW j \in DOMAIN history', i <= j
      PROVE  history'[i].covered \subseteq history'[j].covered
  <2>1. CASE j \in DOMAIN history
    <3>1. i \in DOMAIN history
      BY <1>6, <1>12, <2>1
    <3> QED
      BY <1>2, <1>6, <1>12, <2>1, <3>1 DEF RegressionInv, HistoryGrows, CoverageNeverShrinks
  <2>2. CASE j = Len(history) + 1
    BY <1>3, <1>6, <1>11, <1>12, <2>2
  <2> QED
    BY <1>6, <2>1, <2>2
<1>13. HistoryGrows'
  BY <1>9, <1>11, <1>12 DEF HistoryGrows, CoverageNeverShrinks
<1>14. QueueIsFresh'
  BY <1>1 DEF RegressionInv, QueueIsFresh, TestPhases, LivePhases, Phases
<1>15. ReportsAreOfOnePiece' /\ CodeCoverageKnown'
  BY <1>1 DEF RegressionInv, ReportsAreOfOnePiece, CodeCoverageKnown, ReportPhases,
     ReportedPhases
<1> QED
  BY <1>7, <1>8, <1>13, <1>14, <1>15 DEF RegressionInv

LEMMA GenerateTargetedKeeps ==
  ASSUME RegressionInv, GenerateTargeted
  PROVE  RegressionInv'
<1>1. PICK randoms \in TargetedRuns :
        \/ queue' = randoms /\ phase' = "targeted_tests"
        \/ phase' = "merge"
  BY DEF GenerateTargeted
<1>2. /\ phase = "decide"
      /\ UNCHANGED <<coverage, results, history, code_coverage, loaded, reports, clean>>
  BY DEF GenerateTargeted
<1>3. phase \in LivePhases /\ phase' \in LivePhases
  BY <1>1, <1>2 DEF LivePhases, Phases
<1>4. randoms \in Seq(RegressionTests) /\ IsInjective(randoms)
  <2>1. Range(randoms) \subseteq RegressionTests
    BY DEF RegressionTests
  <2>2. randoms \in Seq(Range(randoms)) /\ IsInjective(randoms)
    BY GeneratedAssumption
  <2> QED
    BY <2>1, <2>2, SeqMonotonic
<1>5. Range(randoms) \cap EarlyTests = {}
  BY GeneratedAssumption DEF EarlyTests
<1>6. DOMAIN clean \subseteq EarlyTests /\ Listed \subseteq DOMAIN clean
  BY <1>2 DEF RegressionInv, QueueIsFresh, LivePhases, Phases
<1>7. RegressionTypeOK'
  BY <1>1, <1>2, <1>3, <1>4 DEF RegressionInv, RegressionTypeOK, LivePhases, TestPhases
<1>8. CoverageIsClean' /\ HistoryGrows'
  BY <1>2, <1>3, ResultsStay
<1>9. QueueIsFresh'
  BY <1>1, <1>2, <1>4, <1>5, <1>6 DEF QueueIsFresh, TestPhases
<1>10. ReportsAreOfOnePiece' /\ CodeCoverageKnown'
  BY <1>1, <1>2 DEF RegressionInv, ReportsAreOfOnePiece, CodeCoverageKnown, ReportPhases,
     ReportedPhases
<1> QED
  BY <1>7, <1>8, <1>9, <1>10 DEF RegressionInv

LEMMA MergeKeeps ==
  ASSUME RegressionInv, MergeCodeCoverage
  PROVE  RegressionInv'
<1>1. /\ phase = "merge" /\ phase' = "final_report"
      /\ code_coverage' \in {"not_run", "environment_limited", "available"}
      /\ UNCHANGED <<coverage, results, history, loaded, reports, queue, clean>>
  BY DEF MergeCodeCoverage
<1>2. RegressionTypeOK'
  BY <1>1 DEF RegressionInv, RegressionTypeOK, Phases, LivePhases, TestPhases
<1>3. CoverageIsClean' /\ HistoryGrows'
  BY <1>1, ResultsStay DEF LivePhases, Phases
<1>4. QueueIsFresh' /\ CodeCoverageKnown'
  BY <1>1 DEF RegressionInv, QueueIsFresh, CodeCoverageKnown, TestPhases, LivePhases, Phases
<1>5. ReportsAreOfOnePiece'
  BY <1>1 DEF RegressionInv, ReportsAreOfOnePiece, ReportPhases, ReportedPhases
<1> QED
  BY <1>2, <1>3, <1>4, <1>5 DEF RegressionInv

LEMMA StutterKeeps ==
  ASSUME RegressionInv, UNCHANGED regressionVars
  PROVE  RegressionInv'
<1>1. /\ UNCHANGED <<inputs, loaded, reports>> /\ UNCHANGED <<phase, queue, clean>>
      /\ UNCHANGED <<coverage, results, history, code_coverage>>
  BY DEF regressionVars, signOffVars, scriptVars, inputs
<1>2. RegressionTypeOK' /\ QueueIsFresh' /\ CodeCoverageKnown'
  BY <1>1 DEF RegressionInv, RegressionTypeOK, QueueIsFresh, CodeCoverageKnown
<1>3. CoverageIsClean' /\ HistoryGrows'
  <2>1. Aggregate(clean)' = Aggregate(clean)
    BY <1>1 DEF Aggregate
  <2> QED
    BY <1>1, <2>1 DEF RegressionInv, CoverageIsClean, HistoryGrows, CoverageNeverShrinks
<1>4. Read' = Read
  BY <1>1 DEF inputs, Read, Aggregate
<1>5. \A n : (Loaded(n)' = Loaded(n)) /\ (Written(n)' <=> Written(n))
  BY <1>1, <1>4, DiskStays DEF Loaded
<1>6. ReportsAreOfOnePiece'
  BY <1>1, <1>5 DEF RegressionInv, ReportsAreOfOnePiece
<1> QED
  BY <1>2, <1>3, <1>6 DEF RegressionInv

LEMMA RegressionInvInit ==
  ASSUME RegressionInit
  PROVE  RegressionInv
<1>1. phase = "idle" /\ loaded = Nothing
  BY DEF RegressionInit
<1>2. RegressionTypeOK /\ CoverageIsClean /\ QueueIsFresh
  BY <1>1 DEF RegressionTypeOK, CoverageIsClean, QueueIsFresh, Phases, LivePhases, TestPhases
<1>3. ReportsAreOfOnePiece /\ HistoryGrows /\ CodeCoverageKnown
  BY <1>1 DEF ReportsAreOfOnePiece, HistoryGrows, CodeCoverageKnown, LivePhases, ReportPhases,
     ReportedPhases
<1> QED
  BY <1>2, <1>3 DEF RegressionInv

LEMMA RegressionInvStep ==
  ASSUME rg_installed, RegressionInv, [RegressionNext]_regressionVars
  PROVE  RegressionInv'
<1>1. CASE Start
  BY <1>1, StartKeeps
<1>2. CASE GenerateAndCompile
  BY <1>2, GenerateKeeps
<1>3. CASE RunOneTest
  BY <1>3, RunOneTestKeeps
<1>4. CASE TestsDone
  BY <1>4, TestsDoneKeeps
<1>5. CASE Report
  BY <1>5, ReportKeeps
<1>6. CASE RecordHistory
  BY <1>6, RecordHistoryKeeps
<1>7. CASE GenerateTargeted
  BY <1>7, GenerateTargetedKeeps
<1>8. CASE MergeCodeCoverage
  BY <1>8, MergeKeeps
<1>9. CASE Abort
  BY <1>9, AbortKeeps
<1>10. CASE UNCHANGED regressionVars
  BY <1>10, StutterKeeps
<1> QED
  BY <1>1, <1>2, <1>3, <1>4, <1>5, <1>6, <1>7, <1>8, <1>9, <1>10 DEF RegressionNext, Script

(***************************************************************************)
(* The invariant holds for every list of tests, whatever is generated, hit *)
(* or aborted, as long as the logs can be searched.                        *)
(***************************************************************************)
THEOREM RegressionInvariant ==
  ASSUME rg_installed
  PROVE  RegressionSpec => []RegressionInv
<1>1. RegressionInit => RegressionInv
  BY RegressionInvInit
<1>2. RegressionInv /\ [RegressionNext]_regressionVars => RegressionInv'
  BY RegressionInvStep
<1> QED
  BY <1>1, <1>2, PTL DEF RegressionSpec

-----------------------------------------------------------------------------
LEMMA CleanTests ==
  ASSUME RegressionInv
  PROVE  OnlyCleanTestsCount
<1> SUFFICES ASSUME phase \notin AtRest
             PROVE  /\ \A i \in DOMAIN results : results[i].verdict = "PASS"
                    /\ {results[i].test : i \in DOMAIN results} = DOMAIN clean
                    /\ loaded.running => loaded.tests \subseteq DOMAIN clean
  BY DEF OnlyCleanTestsCount
<1>1. phase \in LivePhases
  BY DEF RegressionInv, RegressionTypeOK, LivePhases, AtRest
<1>2. results \in Seq(ResultLine)
  BY <1>1 DEF RegressionInv, RegressionTypeOK
<1>3. \A i \in DOMAIN results : results[i].verdict = "PASS"
  <2>1. \A i \in DOMAIN results : results[i] \in ResultLine
    BY <1>2, ElementOfSeq, LenProperties
  <2> QED
    BY <2>1 DEF ResultLine
<1>4. {results[i].test : i \in DOMAIN results} = DOMAIN clean /\ coverage = clean
  BY <1>1 DEF RegressionInv, CoverageIsClean
<1>5. ASSUME loaded.running
      PROVE  loaded.tests \subseteq DOMAIN clean
  <2>1. PICK n \in 0 .. 5 : loaded = Loaded(n)
    BY <1>5 DEF RegressionInv, ReportsAreOfOnePiece, Nothing
  <2>2. loaded.tests = DOMAIN coverage
    BY <2>1 DEF Loaded, Read
  <2> QED
    BY <1>4, <2>2
<1> QED
  BY <1>3, <1>4, <1>5

(* What the sign-off has read of a regression that came to its end.        *)
LEMMA ReadAtTheEnd ==
  ASSUME RegressionInv, phase = "completed"
  PROVE  /\ \A name \in Range(ReportOrder) : reports[name] = Content(Read, name)
         /\ Listed \subseteq DOMAIN clean
         /\ Read.tests = DOMAIN clean
         /\ Read.covered = Aggregate(clean)
         /\ Read.total = Bins
         /\ Read.results = results /\ Read.history = history
         /\ Read.code = code_coverage
<1>1. /\ coverage = clean /\ Listed \subseteq DOMAIN clean /\ code_coverage # "absent"
      /\ Written(5)
  BY DEF RegressionInv, CoverageIsClean, QueueIsFresh, CodeCoverageKnown, ReportsAreOfOnePiece,
     LivePhases, Phases, ReportedPhases
<1>2. coverage # <<>>
  <2>1. Listed # {}
    BY TestsAssumption, EmptySeq, LenProperties DEF Range
  <2> QED
    BY <1>1, <2>1, EmptySeq, LenProperties
<1>3. \A name \in Range(ReportOrder) : reports[name] = Content(Read, name)
  BY <1>1 DEF Written, Range, ReportOrder
<1> QED
  BY <1>1, <1>2, <1>3 DEF Read

LEMMA AllPassed ==
  ASSUME RegressionInv, phase = "completed"
  PROVE  /\ Len(results) = Cardinality(DOMAIN clean)
         /\ Cardinality(Passed(results)) = Cardinality(DOMAIN clean)
<1>1. /\ results \in Seq(ResultLine) /\ Len(results) = Cardinality(DOMAIN clean)
  BY DEF RegressionInv, RegressionTypeOK, CoverageIsClean, LivePhases, Phases
<1>2. DOMAIN results = 1 .. Len(results) /\ Len(results) \in Nat
  BY <1>1, LenProperties
<1>3. Passed(results) = 1 .. Len(results)
  <2>1. \A i \in DOMAIN results : results[i] \in ResultLine
    BY <1>1, <1>2, ElementOfSeq
  <2> QED
    BY <1>2, <2>1 DEF Passed, ResultLine
<1>4. Cardinality(1 .. Len(results)) = Len(results)
  <2>1. Cardinality(1 .. Len(results))
          = IF 1 > Len(results) THEN 0 ELSE Len(results) - 1 + 1
    BY <1>2, FS_Interval
  <2> QED
    BY <1>2, <2>1
<1> QED
  BY <1>1, <1>3, <1>4

LEMMA ReportsOfThisRun ==
  ASSUME RegressionInv
  PROVE  CompletedReportsOfThisRun
<1> SUFFICES ASSUME phase = "completed"
             PROVE  CompletedReportsOfThisRun
  BY DEF CompletedReportsOfThisRun
<1>1. /\ reports["coverage_summary"] = Content(Read, "coverage_summary")
      /\ reports["aggregate_bins"] = Content(Read, "aggregate_bins")
      /\ reports["coverage_closure"] = Content(Read, "coverage_closure")
      /\ reports["final_verification_summary"] = Content(Read, "final_verification_summary")
  BY ReadAtTheEnd DEF Range, ReportOrder
<1>2. /\ reports["coverage_summary"].tests = DOMAIN clean
      /\ reports["coverage_summary"].covered = Aggregate(clean)
      /\ reports["aggregate_bins"].uncovered = Bins \ Aggregate(clean)
      /\ reports["coverage_closure"].uncovered = Bins \ Aggregate(clean)
      /\ reports["coverage_closure"].history = history
  BY <1>1, ReadAtTheEnd DEF Content, Uncovered
<1>3. CoverageNeverShrinks
  BY DEF RegressionInv, HistoryGrows, LivePhases, Phases
<1>4. /\ reports["final_verification_summary"].entries = Cardinality(DOMAIN clean)
      /\ reports["final_verification_summary"].passed = Cardinality(DOMAIN clean)
      /\ reports["final_verification_summary"].code = code_coverage
  BY <1>1, ReadAtTheEnd, AllPassed DEF Content
<1> QED
  BY <1>2, <1>3, <1>4 DEF CompletedReportsOfThisRun

LEMMA SignedOff ==
  ASSUME RegressionInv
  PROVE  SignedOffWasTested
<1> SUFFICES ASSUME phase = "completed", NEW i \in SIGNOFF_ISA,
                    reports["instruction_verification_matrix"][i].status = "PASS"
             PROVE  /\ \E t \in DOMAIN clean \cap Entries("directed") : i \in Opcodes[t]
                    /\ INSTR_BINS[i] \subseteq Aggregate(clean)
  BY DEF SignedOffWasTested
<1>1. reports["instruction_verification_matrix"]
        = [j \in SIGNOFF_ISA |-> MatrixRow(Read, j)]
  BY ReadAtTheEnd DEF Range, ReportOrder, Content
<1>2. FinalStatus(Read, i) = "PASS"
  BY <1>1 DEF MatrixRow
<1>3. INSTR_BINS[i] \subseteq Read.covered /\ Mentioning(Entries("directed"), i) # {}
  BY <1>2 DEF FinalStatus
<1> QED
  BY <1>3, ReadAtTheEnd DEF Mentioning, Entries

(***************************************************************************)
(* A line of the results, and coverage in a report, exist only for tests   *)
(* of this start of the script whose simulation reported no error.         *)
(***************************************************************************)
THEOREM RegressionOnlyCleanTestsCount ==
  ASSUME rg_installed
  PROVE  RegressionSpec => []OnlyCleanTestsCount
  BY RegressionInvariant, CleanTests, PTL

(***************************************************************************)
(* The reports of a completed regression are those of one state of the     *)
(* disk, the one this start of the script produced.                        *)
(***************************************************************************)
THEOREM RegressionReportsOfThisRun ==
  ASSUME rg_installed
  PROVE  RegressionSpec => []CompletedReportsOfThisRun
  BY RegressionInvariant, ReportsOfThisRun, PTL

(***************************************************************************)
(* What is signed off has passed a directed test in this start of the      *)
(* script, and its bins were hit.                                          *)
(***************************************************************************)
THEOREM RegressionSignedOffWasTested ==
  ASSUME rg_installed
  PROVE  RegressionSpec => []SignedOffWasTested
  BY RegressionInvariant, SignedOff, PTL
-----------------------------------------------------------------------------
(***************************************************************************)
(* That a regression ends.  The phases have an order; in one of them there *)
(* are tests to run or reports to write, and there are only so many.  This *)
(* needs nothing of the logs.                                              *)
(***************************************************************************)
PhasesLeft ==
  CASE phase = "generate"         -> 10
    [] phase = "tests"            -> 9
    [] phase = "baseline_report"  -> 8
    [] phase = "baseline"         -> 7
    [] phase = "decide"           -> 6
    [] phase = "targeted_tests"   -> 5
    [] phase = "targeted_report"  -> 4
    [] phase = "targeted_random"  -> 3
    [] phase = "merge"            -> 2
    [] phase = "final_report"     -> 1
    [] phase \in AtRest           -> 0

WorkLeft ==
  IF phase \in TestPhases THEN Len(queue)
  ELSE IF phase \in ReportPhases
       THEN (IF loaded.running THEN Len(ReportOrder) - loaded.written ELSE 6)
       ELSE 0

WorkOK ==
  /\ phase \in Phases
  /\ phase \in TestPhases => queue \in Seq(RegressionTests)
  /\ loaded.running \in BOOLEAN
  /\ loaded.running => /\ {"running", "written"} \subseteq DOMAIN loaded
                        /\ loaded.written \in 0 .. Len(ReportOrder)

LessLeft ==
  \/ PhasesLeft' < PhasesLeft
  \/ PhasesLeft' = PhasesLeft /\ WorkLeft' < WorkLeft

LEMMA FiveReports == Len(ReportOrder) = 5
  BY DEF ReportOrder

LEMMA WorkStep ==
  ASSUME WorkOK, RegressionNext
  PROVE  WorkOK' /\ (phase \notin AtRest => LessLeft)
<1> USE FiveReports
<1>1. CASE Start
  BY <1>1 DEF Start, WorkOK, AtRest, Phases, TestPhases
<1>2. CASE Abort
  BY <1>2 DEF Abort, WorkOK, AtRest, Phases, TestPhases, LessLeft, PhasesLeft, Nothing
<1>3. CASE GenerateAndCompile
  <2>1. PICK randoms \in RandomRuns : queue' = TestOrder \o randoms
    BY <1>3 DEF GenerateAndCompile
  <2>2. queue' \in Seq(RegressionTests)
    <3>1. /\ TestOrder \in Seq(Listed) /\ randoms \in Seq(Range(randoms))
          /\ Listed \subseteq RegressionTests /\ Range(randoms) \subseteq RegressionTests
      BY <2>1, TestsAssumption, GeneratedAssumption DEF RegressionTests
    <3> QED
      BY <2>1, <3>1
  <2> QED
    BY <1>3, <2>2 DEF GenerateAndCompile, WorkOK, AtRest, Phases, TestPhases, LessLeft, PhasesLeft
<1>4. CASE RunOneTest
  <2>1. /\ phase \in TestPhases /\ queue # <<>> /\ loaded' = loaded
        /\ \/ phase' = phase /\ queue' = Tail(queue)
           \/ phase' = "aborted"
    BY <1>4 DEF RunOneTest, Testing, TestPhases
  <2>2. queue \in Seq(RegressionTests)
    BY <2>1 DEF WorkOK
  <2>3. Tail(queue) \in Seq(RegressionTests) /\ Len(Tail(queue)) < Len(queue)
    BY <2>1, <2>2
  <2>4. CASE phase' = phase /\ queue' = Tail(queue)
    <3>1. WorkLeft' = Len(Tail(queue)) /\ WorkLeft = Len(queue) /\ PhasesLeft' = PhasesLeft
      BY <2>1, <2>4 DEF WorkLeft, PhasesLeft, AtRest
    <3> QED
      BY <2>1, <2>3, <2>4, <3>1 DEF WorkOK, LessLeft
  <2>5. CASE phase' = "aborted"
    BY <2>1, <2>5 DEF WorkOK, AtRest, Phases, TestPhases, LessLeft, PhasesLeft
  <2> QED
    BY <2>1, <2>4, <2>5
<1>5. CASE TestsDone
  BY <1>5 DEF TestsDone, signOffVars, WorkOK, AtRest, Phases, TestPhases, LessLeft, PhasesLeft
<1>6. CASE Report
  <2>1. phase \in ReportPhases
    BY <1>6 DEF Report
  <2>2. CASE StartSignOff /\ phase' = phase
    BY <2>1, <2>2 DEF StartSignOff, Read, WorkOK, AtRest, Phases, TestPhases, ReportPhases, LessLeft,
       PhasesLeft, WorkLeft
  <2>3. CASE WriteReport /\ phase' = phase
    <3>1. /\ loaded'.running = loaded.running /\ loaded'.written = loaded.written + 1
          /\ loaded.running /\ loaded.written < 5
      BY <2>3 DEF WriteReport, WorkOK
    <3>2. /\ "written" \in DOMAIN loaded' /\ "running" \in DOMAIN loaded'
          /\ loaded.written \in 0 .. 5 /\ phase \notin TestPhases
      BY <2>1, <2>3, <3>1 DEF WriteReport, WorkOK, ReportPhases, TestPhases
    <3>3. WorkLeft' = 5 - loaded'.written /\ WorkLeft = 5 - loaded.written /\ PhasesLeft' = PhasesLeft
      BY <2>1, <2>3, <3>1, <3>2 DEF WorkLeft, PhasesLeft, AtRest
    <3>4. loaded'.written \in 0 .. 5 /\ WorkLeft' < WorkLeft
      BY <3>1, <3>2, <3>3
    <3> QED
      BY <2>3, <3>1, <3>2, <3>3, <3>4 DEF WorkOK, LessLeft
  <2>4. CASE EndSignOff /\ phase' = AfterReport
    BY <2>1, <2>4 DEF EndSignOff, AfterReport, Nothing, WorkOK, AtRest, Phases, TestPhases,
       ReportPhases, LessLeft, PhasesLeft
  <2> QED
    BY <1>6, <2>2, <2>3, <2>4 DEF Report
<1>7. CASE RecordHistory
  BY <1>7 DEF RecordHistory, WorkOK, AtRest, Phases, TestPhases, LessLeft, PhasesLeft
<1>8. CASE GenerateTargeted
  <2>1. PICK randoms \in TargetedRuns :
          phase' = "merge" \/ (phase' = "targeted_tests" /\ queue' = randoms)
    BY <1>8 DEF GenerateTargeted
  <2>2. randoms \in Seq(RegressionTests)
    <3>1. randoms \in Seq(Range(randoms)) /\ Range(randoms) \subseteq RegressionTests
      BY <2>1, GeneratedAssumption DEF RegressionTests
    <3> QED
      BY <3>1
  <2> QED
    BY <1>8, <2>1, <2>2 DEF GenerateTargeted, WorkOK, AtRest, Phases, TestPhases, LessLeft,
       PhasesLeft
<1>9. CASE MergeCodeCoverage
  BY <1>9 DEF MergeCodeCoverage, WorkOK, AtRest, Phases, TestPhases, LessLeft, PhasesLeft
<1> QED
  BY <1>1, <1>2, <1>3, <1>4, <1>5, <1>6, <1>7, <1>8, <1>9 DEF RegressionNext, Script

(***************************************************************************)
(* Every step of a regression that was started comes nearer to its end,    *)
(* with every list of tests and whether or not the logs can be searched:   *)
(* no bin that cannot be hit keeps it going.                               *)
(***************************************************************************)
THEOREM RegressionNears ==
  RegressionSpec =>
    /\ [](PhasesLeft \in 0 .. 10 /\ WorkLeft \in Nat)
    /\ [][phase \notin AtRest =>
            \/ PhasesLeft' < PhasesLeft
            \/ PhasesLeft' = PhasesLeft /\ WorkLeft' < WorkLeft]_regressionVars
<1> DEFINE Nears == phase \notin AtRest => LessLeft
<1>1. RegressionInit => WorkOK
  BY DEF RegressionInit, WorkOK, Phases, TestPhases, Nothing
<1>2. WorkOK /\ [RegressionNext]_regressionVars => WorkOK'
  <2>1. ASSUME WorkOK, UNCHANGED regressionVars PROVE WorkOK'
    BY <2>1 DEF WorkOK, regressionVars, signOffVars, scriptVars
  <2> QED
    BY <2>1, WorkStep
<1>3. WorkOK /\ [RegressionNext]_regressionVars => [Nears]_regressionVars
  BY WorkStep
<1>4. WorkOK => PhasesLeft \in 0 .. 10 /\ WorkLeft \in Nat
  BY FiveReports DEF WorkOK, Phases, AtRest, TestPhases, ReportPhases, PhasesLeft, WorkLeft
<1> QED
  BY <1>1, <1>2, <1>3, <1>4, PTL DEF RegressionSpec, LessLeft
=============================================================================
