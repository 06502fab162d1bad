--------------------------- MODULE BehavioralSuite ---------------------------
(***************************************************************************)
(* The behavioral test harness of src/docs/benchmarks/                     *)
(* behavioral_benchmark.py (class BehavioralTester and main) together with *)
(* the subject processes it starts.                                        *)
(*                                                                         *)
(* main() runs one suite per configuration of a fixed list, in order.  A   *)
(* suite loads behavioral_tests.json, starts one `hector serve` process    *)
(* with stdout and stderr connected to pipes, runs every test against it   *)
(* and, in a finally clause, terminates the server, waits up to 5 s and    *)
(* kills it.  Each suite's results are written to a file; after the last  *)
(* suite generate_comparison_report summarises all of them into           *)
(* summary.json.                                                           *)
(*                                                                         *)
(* A subject process is an actor of its own.  Its output goes into a pipe  *)
(* that the harness never reads: when the pipe is full the subject blocks  *)
(* on its next write and answers nothing more.                             *)
(***************************************************************************)
EXTENDS Naturals, Sequences

CONSTANTS
    NC,          \* number of configurations main() runs, in list order
    Criteria,    \* Criteria[t]: len(success_criteria) of test t, or NoList
    NoList,      \* a test definition without a 'success_criteria' key
    CanHang,     \* may a subject process ignore SIGTERM?
    PipeCap      \* pipe capacity, in units of one answer's output

ASSUME ConstantsAssumption ==
    /\ NC \in Nat \ {0}
    /\ Criteria \in Seq(Nat \cup {NoList})
    /\ NoList \notin Nat
    /\ CanHang \in BOOLEAN
    /\ PipeCap \in Nat \ {0}

\* The configurations of main(), in order: 1 is 'Baseline' and 2 is
\* 'Reflection Only'.
Configs == 1 .. NC
BaselineCfg == 1
ReflectionCfg == 2

NT == Len(Criteria)
Tests == 1 .. NT

\* One entry of a suite's results: an execution_failed record, or the
\* dict of evaluate_test.  met and total are passed_criteria and
\* total_criteria; the score is met / total, and 0 when total = 0.
TestRec == [test : Tests, failed : BOOLEAN, passed : BOOLEAN,
            met : Nat, total : Nat]

SubjectStatus == {"starting", "ready", "terminating", "exited"}

HangChoices == IF CanHang THEN BOOLEAN ELSE {FALSE}

PcValues == {"load", "start", "test", "terminate", "stopwait", "save",
             "report", "exit"}

VARIABLES
    pc,          \* where the harness thread is
    c,           \* current configuration
    t,           \* current test of the suite
    srv,         \* srv[i]: status of the i-th subject process started
    hangs,       \* hangs[i]: the i-th subject ignores SIGTERM
    pipe,        \* pipe[i]: unread output of the i-th subject
    suite,       \* results of the running suite
    raised,      \* an exception is leaving the suite's try block
    allResults,  \* all_results of main(); also the per-config result files
    summary,     \* summary.json has been written
    exitCode     \* exit status of the python process once pc = "exit"

vars == <<pc, c, t, srv, hangs, pipe, suite, raised, allResults, summary,
          exitCode>>

Alive(s) == s # "exited"

Current == srv[Len(srv)]

\* The current subject can answer: it has bound its endpoint and is not
\* blocked writing into a full pipe.
Answering == Current = "ready" /\ pipe[Len(pipe)] < PipeCap

-----------------------------------------------------------------------------
Init ==
    /\ pc = "load"
    /\ c = 1
    /\ t = 1
    /\ srv = << >>
    /\ hangs = << >>
    /\ pipe = << >>
    /\ suite = << >>
    /\ raised = FALSE
    /\ allResults = << >>
    /\ summary = FALSE
    /\ exitCode = 0

\* run_behavioral_suite begins with load_behavioral_tests, which opens
\* behavioral_tests.json; an error there is not caught anywhere.
LoadBehavioralTests ==
    /\ pc = "load"
    /\ \/ pc' = "start" /\ UNCHANGED exitCode
       \/ pc' = "exit" /\ exitCode' = 1
    /\ UNCHANGED <<c, t, srv, hangs, pipe, suite, raised, allResults,
                   summary>>

\* start_server: Popen with stdout/stderr=PIPE, then time.sleep(5).  It is
\* called before the try, so a Popen error leaves the program at once.
StartServer ==
    /\ pc = "start"
    /\ \/ /\ \E h \in HangChoices : hangs' = Append(hangs, h)
          /\ srv' = Append(srv, "starting")
          /\ pipe' = Append(pipe, 0)
          /\ pc' = IF NT > 0 THEN "test" ELSE "terminate"
          /\ t' = 1
          /\ suite' = << >>
          /\ UNCHANGED exitCode
       \/ /\ pc' = "exit"
          /\ exitCode' = 1
          /\ UNCHANGED <<srv, hangs, pipe, t, suite>>
    /\ UNCHANGED <<c, raised, allResults, summary>>

\* Mutant: the record names the test by its zero-based index.
EvaluatedZeroBased(met, total) ==
    [test |-> t - 1, failed |-> FALSE, passed |-> met = total,
     met |-> met, total |-> total]

\* The record of evaluate_test when `met` of the `total` criteria match.
Evaluated(met, total) ==
    [test |-> t, failed |-> FALSE, passed |-> met = total,
     met |-> met, total |-> total]

\* The record of a test whose `hector call` failed, timed out or raised.
ExecutionFailed ==
    [test |-> t, failed |-> TRUE, passed |-> FALSE, met |-> 0, total |-> 0]

\* Mutant: the loop stops one test early.
NextTestOffByOne ==
    IF t + 1 < NT THEN pc' = "test" /\ t' = t + 1
    ELSE pc' = "terminate" /\ t' = t

\* The remaining tests of the suite, or the finally clause.
NextTest ==
    IF t < NT THEN pc' = "test" /\ t' = t + 1
    ELSE pc' = "terminate" /\ t' = t

\* One iteration of the test loop of run_behavioral_suite: run_test (a
\* `hector call` under a 60 s timeout, whose errors it turns into a
\* failure), then evaluate_test on a successful run.  A subject that
\* answers writes output into its pipe.  evaluate_test raises KeyError on
\* a test without 'success_criteria'; check_criterion never raises.
RunTest ==
    /\ pc = "test"
    /\ \/ /\ Answering
          /\ \E w \in {0, 1} :
                pipe' = [pipe EXCEPT ![Len(pipe)] = @ + w]
          /\ IF Criteria[t] = NoList
             THEN /\ raised' = TRUE /\ pc' = "terminate"
                  /\ UNCHANGED <<suite, t>>
             ELSE /\ \E met \in 0 .. Criteria[t] :
                       suite' = Append(suite, Evaluated(met, Criteria[t]))
                  /\ NextTest
                  /\ UNCHANGED raised
       \/ /\ suite' = Append(suite, ExecutionFailed)
          /\ NextTest
          /\ UNCHANGED <<pipe, raised>>
    /\ UNCHANGED <<c, srv, hangs, allResults, summary, exitCode>>

\* finally: stop_server calls proc.terminate().
TerminateServer ==
    /\ pc = "terminate"
    /\ srv' = [srv EXCEPT ![Len(srv)] =
                   IF Alive(@) THEN "terminating" ELSE @]
    /\ pc' = "stopwait"
    /\ UNCHANGED <<c, t, hangs, pipe, suite, raised, allResults, summary,
                   exitCode>>

\* Mutant: stop_server swallows TimeoutExpired without proc.kill().
StopWaitNoKill ==
    /\ pc = "stopwait"
    /\ IF raised
       THEN pc' = "exit" /\ exitCode' = 1
       ELSE pc' = "save" /\ UNCHANGED exitCode
    /\ UNCHANGED <<c, t, srv, hangs, pipe, suite, raised, allResults, summary>>

\* Mutant: on TimeoutExpired stop_server sends SIGTERM again and waits
\* again instead of killing.
StopWaitRetryTerminate ==
    /\ pc = "stopwait"
    /\ \/ /\ Current = "exited"
          /\ IF raised
             THEN pc' = "exit" /\ exitCode' = 1
             ELSE pc' = "save" /\ UNCHANGED exitCode
       \/ Alive(Current) /\ pc' = "terminate" /\ UNCHANGED exitCode
    /\ UNCHANGED <<c, t, srv, hangs, pipe, suite, raised, allResults, summary>>

\* Mutant: run_behavioral_suite catches the exception of a test and
\* returns the results gathered so far.
StopWaitSwallowError ==
    /\ pc = "stopwait"
    /\ \/ Current = "exited" /\ UNCHANGED srv
       \/ /\ Alive(Current)
          /\ srv' = [srv EXCEPT ![Len(srv)] = "exited"]
    /\ pc' = "save"
    /\ UNCHANGED <<c, t, hangs, pipe, suite, raised, allResults, summary,
                   exitCode>>

\* finally: proc.wait(timeout=5) returns once the server has exited; when
\* it times out, proc.kill() ends the server.  Then an exception from the
\* loop propagates out of main(), or the suite returns its results.
StopWait ==
    /\ pc = "stopwait"
    /\ \/ Current = "exited" /\ UNCHANGED srv
       \/ /\ Alive(Current)
          /\ srv' = [srv EXCEPT ![Len(srv)] = "exited"]
    /\ IF raised
       THEN pc' = "exit" /\ exitCode' = 1
       ELSE pc' = "save" /\ UNCHANGED exitCode
    /\ UNCHANGED <<c, t, hangs, pipe, suite, raised, allResults, summary>>

\* main() stores the suite's results and json.dumps them into
\* <config>_results.json, then moves to the next configuration.
SaveSuiteResults ==
    /\ pc = "save"
    /\ allResults' = Append(allResults, suite)
    /\ IF c < NC THEN pc' = "load" /\ c' = c + 1
       ELSE pc' = "report" /\ c' = c
    /\ UNCHANGED <<t, srv, hangs, pipe, suite, raised, summary, exitCode>>

\* generate_comparison_report.  It loads behavioral_tests.json again for
\* the feature table.  Its recommendations read
\* reflection_config['avg_score'], a key config_summaries never has: with
\* both 'Baseline' and 'Reflection Only' summarised that raises KeyError
\* before summary.json is written.
GenerateComparisonReport ==
    /\ pc = "report"
    /\ pc' = "exit"
    /\ \/ exitCode' = 1 /\ UNCHANGED summary
       \/ IF BaselineCfg \in DOMAIN allResults
             /\ ReflectionCfg \in DOMAIN allResults
          THEN exitCode' = 1 /\ UNCHANGED summary
          ELSE summary' = TRUE /\ UNCHANGED exitCode
    /\ UNCHANGED <<c, t, srv, hangs, pipe, suite, raised, allResults>>

Harness ==
    \/ LoadBehavioralTests
    \/ StartServer
    \/ RunTest
    \/ TerminateServer
    \/ StopWait
    \/ SaveSuiteResults
    \/ GenerateComparisonReport

-----------------------------------------------------------------------------
(* The subject processes.                                                  *)

SubjectReady(i) ==
    /\ srv[i] = "starting"
    /\ srv' = [srv EXCEPT ![i] = "ready"]
    /\ UNCHANGED <<pc, c, t, hangs, pipe, suite, raised, allResults,
                   summary, exitCode>>

SubjectCrash(i) ==
    /\ srv[i] \in {"starting", "ready"}
    /\ srv' = [srv EXCEPT ![i] = "exited"]
    /\ UNCHANGED <<pc, c, t, hangs, pipe, suite, raised, allResults,
                   summary, exitCode>>

\* The server handles SIGTERM and exits; blocked on a full pipe it cannot
\* finish its graceful shutdown.
SubjectExit(i) ==
    /\ srv[i] = "terminating"
    /\ ~hangs[i]
    /\ pipe[i] < PipeCap
    /\ srv' = [srv EXCEPT ![i] = "exited"]
    /\ UNCHANGED <<pc, c, t, hangs, pipe, suite, raised, allResults,
                   summary, exitCode>>

Subject(i) == SubjectReady(i) \/ SubjectCrash(i) \/ SubjectExit(i)

Terminated ==
    /\ pc = "exit"
    /\ UNCHANGED vars

Next ==
    \/ Harness
    \/ \E i \in 1 .. Len(srv) : Subject(i)
    \/ Terminated

\* The harness thread always runs on; wait(timeout=5) always returns.
Fairness == WF_vars(Harness)

Spec == Init /\ [][Next]_vars /\ Fairness

-----------------------------------------------------------------------------
(* Properties.                                                             *)

TypeOK ==
    /\ pc \in PcValues
    /\ c \in Nat \ {0}
    /\ t \in Nat \ {0}
    /\ srv \in Seq(SubjectStatus)
    /\ hangs \in Seq(BOOLEAN)
    /\ pipe \in Seq(0 .. PipeCap)
    /\ Len(hangs) = Len(srv) /\ Len(pipe) = Len(srv)
    /\ suite \in Seq(TestRec)
    /\ raised \in BOOLEAN
    /\ allResults \in Seq(Seq(TestRec))
    /\ summary \in BOOLEAN
    /\ exitCode \in {0, 1}


\* Only the running suite's server may be alive, and only while its tests
\* run or it is being stopped: stop_server's terminate, wait(timeout=5)
\* and kill end it before main() saves the results, starts the next
\* configuration's server or leaves (spec: one subject process at a time,
\* none left behind), whatever exception ends the test loop.
ServerConfinedToSuite ==
    \A i \in DOMAIN srv :
        Alive(srv[i]) => i = Len(srv) /\ pc \in {"test", "terminate", "stopwait"}

\* The records of s name the tests 1, 2, ... in order.
InOrder(s) == \A j \in DOMAIN s : s[j].test = j

\* A suite's results list every test of behavioral_tests.json once, in
\* file order.
SuiteInOrder(s) == Len(s) = NT /\ InOrder(s)

\* When generate_comparison_report runs, all_results holds one complete
\* suite per configuration of main()'s list.
ResultsComplete ==
    pc = "report" =>
        /\ Len(allResults) = NC
        /\ \A i \in DOMAIN allResults : SuiteInOrder(allResults[i])

\* Each <config>_results.json that main() writes holds the suite of the
\* configuration it is named after, listing every test of
\* behavioral_tests.json once in file order: a suite cut short by an
\* exception in run_test is never written, even when the run later dies
\* before generate_comparison_report.
SavedSuitesComplete ==
    [][allResults' # allResults =>
         /\ Len(allResults') = c
         /\ SuiteInOrder(allResults'[c])]_vars

\* The program ends even when a server ignores SIGTERM or blocks on its
\* full output pipe: wait(timeout=5) bounds the wait and kill() ends it.
Termination == <>(pc = "exit")

\* Every evaluated record ever produced, in the running suite or saved.
Records ==
    {suite[j] : j \in DOMAIN suite} \cup
    UNION {{allResults[i][j] : j \in DOMAIN allResults[i]} :
           i \in DOMAIN allResults}

\* Spec section 8: a scenario with zero declared criteria scores 0 and is
\* not passed.  evaluate_test sets passed to passed_criteria ==
\* total_criteria, which holds for 0 == 0.
ZeroCriteriaNotPassed ==
    \A r \in Records : ~r.failed /\ r.total = 0 => ~r.passed

\* Spec section 4.3: the subject's stdout and stderr are captured to a log
\* file.  start_server connects them to pipes nobody reads, so a pipe
\* fills and the server blocks on its next write.
PipeNeverFull ==
    \A i \in DOMAIN pipe : pipe[i] < PipeCap

\* Spec section 6: a run whose test definitions load writes its
\* summary.json.  Once every configuration's suite is saved,
\* generate_comparison_report should write it.
SummaryWritten ==
    pc = "exit" /\ Len(allResults) = NC => summary

-----------------------------------------------------------------------------
(* The inductive invariant behind ServerConfinedToSuite.                   *)

\* The suite's test index is a test while the loop runs, and a server has
\* been started from the first test until it is stopped.
IndexInv ==
    /\ pc = "test" => t \in Tests
    /\ pc \in {"test", "terminate", "stopwait"} => Len(srv) > 0

IInv == TypeOK /\ IndexInv /\ ServerConfinedToSuite

-----------------------------------------------------------------------------
(* The inductive invariant behind ResultsComplete.  Every saved suite is   *)
(* complete; while configuration c runs, the c - 1 before it are saved;    *)
(* the running suite holds the tests before t, in order; and only an       *)
(* exception that is leaving the suite cuts it short.                      *)

SuiteInv ==
    /\ c \in Configs
    /\ \A i \in DOMAIN allResults : SuiteInOrder(allResults[i])
    /\ pc \in {"load", "start", "test", "terminate", "stopwait", "save"} =>
          Len(allResults) = c - 1
    /\ pc = "report" => Len(allResults) = NC
    /\ InOrder(suite)
    /\ pc = "test" => Len(suite) = t - 1
    /\ pc \in {"load", "start", "test", "save"} => ~raised
    /\ pc \in {"terminate", "stopwait", "save"} /\ ~raised => Len(suite) = NT

=============================================================================
