------------------------ MODULE BehavioralSuiteProofs ------------------------
(***************************************************************************)
(* Proofs about BehavioralSuite for every value of the constants: the      *)
(* inductive invariant IInv, and from it type correctness and             *)
(* ServerConfinedToSuite; the invariant SuiteInv, and from it              *)
(* ResultsComplete and the action property SavedSuitesComplete.          *)
(***************************************************************************)
EXTENDS BehavioralSuite, TLAPS

\* Whether a subject ignores SIGTERM is a Boolean choice.
LEMMA HangChoicesBoolean == HangChoices \subseteq BOOLEAN
<1>1. CASE CanHang
  BY <1>1, ConstantsAssumption DEF HangChoices
<1>2. CASE ~CanHang
  BY <1>2 DEF HangChoices
<1>3. QED
  BY <1>1, <1>2

\* A test's criteria count is a natural number unless its list is missing.
LEMMA CriteriaCount ==
    ASSUME NEW j \in Tests, Criteria[j] # NoList
    PROVE  Criteria[j] \in Nat
BY ConstantsAssumption DEF Tests, NT

\* The record evaluate_test builds for a test of the suite is a result.
LEMMA EvaluatedType ==
    ASSUME NEW met \in Nat, NEW total \in Nat, t \in Tests
    PROVE  Evaluated(met, total) \in TestRec
BY DEF Evaluated, TestRec

\* So is the record of a failed execution.
LEMMA ExecutionFailedType ==
    ASSUME t \in Tests
    PROVE  ExecutionFailed \in TestRec
BY DEF ExecutionFailed, TestRec

\* Every initial state satisfies the inductive invariant.
LEMMA InitIInv == Init => IInv
<1> SUFFICES ASSUME Init PROVE IInv
  OBVIOUS
<1>1. TypeOK
  <2>1. pc \in PcValues /\ c \in Nat \ {0} /\ t \in Nat \ {0}
    BY DEF Init, PcValues
  <2>2. srv \in Seq(SubjectStatus) /\ hangs \in Seq(BOOLEAN)
        /\ pipe \in Seq(0 .. PipeCap)
        /\ Len(hangs) = Len(srv) /\ Len(pipe) = Len(srv)
    BY DEF Init
  <2>3. suite \in Seq(TestRec) /\ allResults \in Seq(Seq(TestRec))
    BY DEF Init
  <2>4. raised \in BOOLEAN /\ summary \in BOOLEAN /\ exitCode \in {0, 1}
    BY DEF Init
  <2>5. QED
    BY <2>1, <2>2, <2>3, <2>4 DEF TypeOK
<1>2. IndexInv /\ ServerConfinedToSuite
  BY DEF Init, IndexInv, ServerConfinedToSuite
<1>3. QED
  BY <1>1, <1>2 DEF IInv

\* The end of an iteration of the test loop leaves the loop index on a
\* test and the harness in the loop or its finally clause.
LEMMA NextTestStep ==
    ASSUME t \in Tests, NextTest
    PROVE  /\ pc' \in {"test", "terminate"}
           /\ t' \in Tests
BY ConstantsAssumption DEF NextTest, Tests, NT

\* An answer of the current subject writes at most one unit into its pipe,
\* which was not full.
LEMMA PipeWrite ==
    ASSUME TypeOK, Len(srv) > 0, Answering, NEW w \in {0, 1}
    PROVE  LET p == [pipe EXCEPT ![Len(pipe)] = @ + w]
           IN  p \in Seq(0 .. PipeCap) /\ Len(p) = Len(pipe)
BY ConstantsAssumption DEF TypeOK, Answering

\* Every step of Next preserves the inductive invariant: one step per
\* action, and under it one per part of IInv that the action can disturb.
LEMMA NextIInv == IInv /\ [Next]_vars => IInv'
<1> SUFFICES ASSUME TypeOK, IndexInv, ServerConfinedToSuite, [Next]_vars
             PROVE IInv'
  BY DEF IInv
<1> USE ConstantsAssumption DEF IInv
<1>1. CASE LoadBehavioralTests
  <2>1. TypeOK'
    BY <1>1 DEF LoadBehavioralTests, TypeOK, PcValues
  <2>2. IndexInv' /\ ServerConfinedToSuite'
    BY <1>1 DEF LoadBehavioralTests, IndexInv, ServerConfinedToSuite
  <2>3. QED
    BY <2>1, <2>2
<1>2. CASE StartServer
  <2>1. CASE /\ \E h \in HangChoices : hangs' = Append(hangs, h)
             /\ srv' = Append(srv, "starting")
             /\ pipe' = Append(pipe, 0)
             /\ pc' = IF NT > 0 THEN "test" ELSE "terminate"
             /\ t' = 1
             /\ suite' = << >>
             /\ UNCHANGED exitCode
    <3>1. PICK h \in HangChoices : hangs' = Append(hangs, h)
      BY <2>1
    <3>2. h \in BOOLEAN
      BY <3>1, HangChoicesBoolean
    <3>3. TypeOK'
      BY <1>2, <2>1, <3>1, <3>2 DEF StartServer, TypeOK, PcValues,
         SubjectStatus
    <3>4. IndexInv'
      BY <2>1 DEF IndexInv, Tests, NT, TypeOK
    <3>5. ServerConfinedToSuite'
      <4>1. pc = "start"
        BY <1>2 DEF StartServer
      <4>2. \A i \in DOMAIN srv : ~Alive(srv[i])
        BY <4>1 DEF ServerConfinedToSuite
      <4>3. \A i \in 1 .. Len(srv) : srv'[i] = srv[i]
        BY <2>1 DEF TypeOK
      <4>4. DOMAIN srv' = 1 .. Len(srv) + 1 /\ Len(srv') = Len(srv) + 1
        BY <2>1 DEF TypeOK
      <4>5. pc' \in {"test", "terminate"}
        BY <2>1
      <4>6. SUFFICES ASSUME NEW i \in DOMAIN srv', Alive(srv'[i])
                     PROVE  i = Len(srv') /\ pc' \in {"test", "terminate", "stopwait"}
        BY DEF ServerConfinedToSuite
      <4>7. i \notin 1 .. Len(srv)
        BY <4>2, <4>3, <4>6 DEF TypeOK
      <4>8. QED
        BY <4>4, <4>5, <4>7 DEF TypeOK
    <3>6. QED
      BY <3>3, <3>4, <3>5
  <2>2. CASE /\ pc' = "exit"
             /\ exitCode' = 1
             /\ UNCHANGED <<srv, hangs, pipe, t, suite>>
    <3>1. TypeOK'
      BY <1>2, <2>2 DEF StartServer, TypeOK, PcValues
    <3>2. IndexInv' /\ ServerConfinedToSuite'
      BY <1>2, <2>2 DEF StartServer, IndexInv, ServerConfinedToSuite
    <3>3. QED
      BY <3>1, <3>2
  <2>3. QED
    BY <1>2, <2>1, <2>2 DEF StartServer
<1>3. CASE RunTest
  <2>1. pc = "test" /\ t \in Tests /\ Len(srv) > 0
        /\ UNCHANGED <<c, srv, hangs, allResults, summary, exitCode>>
    BY <1>3 DEF RunTest, IndexInv
  <2>2. CASE /\ Answering
             /\ \E w \in {0, 1} :
                   pipe' = [pipe EXCEPT ![Len(pipe)] = @ + w]
             /\ Criteria[t] = NoList
             /\ raised' = TRUE /\ pc' = "terminate"
             /\ UNCHANGED <<suite, t>>
    <3>1. pipe' \in Seq(0 .. PipeCap) /\ Len(pipe') = Len(pipe)
      BY <2>1, <2>2, PipeWrite
    <3>2. TypeOK'
      BY <2>1, <2>2, <3>1 DEF TypeOK, PcValues
    <3>3. IndexInv' /\ ServerConfinedToSuite'
      BY <2>1, <2>2 DEF IndexInv, ServerConfinedToSuite
    <3>4. QED
      BY <3>2, <3>3
  <2>3. CASE /\ Answering
             /\ \E w \in {0, 1} :
                   pipe' = [pipe EXCEPT ![Len(pipe)] = @ + w]
             /\ Criteria[t] # NoList
             /\ \E met \in 0 .. Criteria[t] :
                   suite' = Append(suite, Evaluated(met, Criteria[t]))
             /\ NextTest
             /\ UNCHANGED raised
    <3>1. pipe' \in Seq(0 .. PipeCap) /\ Len(pipe') = Len(pipe)
      BY <2>1, <2>3, PipeWrite
    <3>2. Criteria[t] \in Nat
      BY <2>1, <2>3, CriteriaCount
    <3>3. PICK met \in 0 .. Criteria[t] :
                 suite' = Append(suite, Evaluated(met, Criteria[t]))
      BY <2>3
    <3>4. suite' \in Seq(TestRec)
      BY <2>1, <3>2, <3>3, EvaluatedType DEF TypeOK
    <3>5. pc' \in {"test", "terminate"} /\ t' \in Tests
      BY <2>1, <2>3, NextTestStep
    <3>6. TypeOK'
      <4>1. pc' \in PcValues /\ t' \in Nat \ {0}
        BY <3>5 DEF PcValues, Tests
      <4>2. UNCHANGED raised
        BY <2>3
      <4>3. QED
        BY <2>1, <3>1, <3>4, <4>1, <4>2 DEF TypeOK
    <3>7. IndexInv' /\ ServerConfinedToSuite'
      BY <2>1, <3>5 DEF IndexInv, ServerConfinedToSuite
    <3>8. QED
      BY <3>6, <3>7
  <2>4. CASE /\ suite' = Append(suite, ExecutionFailed)
             /\ NextTest
             /\ UNCHANGED <<pipe, raised>>
    <3>1. suite' \in Seq(TestRec)
      BY <2>1, <2>4, ExecutionFailedType DEF TypeOK
    <3>2. pc' \in {"test", "terminate"} /\ t' \in Tests
      BY <2>1, <2>4, NextTestStep
    <3>3. TypeOK'
      BY <2>1, <2>4, <3>1, <3>2 DEF TypeOK, PcValues, Tests
    <3>4. IndexInv' /\ ServerConfinedToSuite'
      BY <2>1, <3>2 DEF IndexInv, ServerConfinedToSuite
    <3>5. QED
      BY <3>3, <3>4
  <2>5. QED
    BY <1>3, <2>2, <2>3, <2>4 DEF RunTest
<1>4. CASE TerminateServer
  <2>1. pc = "stopwait" \/ pc = "terminate"
    BY <1>4 DEF TerminateServer
  <2>2. Len(srv) > 0
    BY <1>4 DEF TerminateServer, IndexInv
  <2>3. TypeOK'
    BY <1>4, <2>2 DEF TerminateServer, TypeOK, PcValues, SubjectStatus,
       Alive
  <2>4. IndexInv'
    BY <1>4, <2>2 DEF TerminateServer, IndexInv
  <2>5. ServerConfinedToSuite'
    BY <1>4, <2>2 DEF TerminateServer, ServerConfinedToSuite, TypeOK, Alive
  <2>6. QED
    BY <2>3, <2>4, <2>5
<1>5. CASE StopWait
  <2>1. Len(srv) > 0 /\ pc = "stopwait"
    BY <1>5 DEF StopWait, IndexInv
  <2>2. srv' \in Seq(SubjectStatus) /\ Len(srv') = Len(srv)
        /\ srv'[Len(srv)] = "exited"
        /\ \A i \in 1 .. Len(srv) - 1 : srv'[i] = srv[i]
    <3>1. CASE Current = "exited" /\ UNCHANGED srv
      BY <2>1, <3>1 DEF Current, TypeOK
    <3>2. CASE Alive(Current) /\ srv' = [srv EXCEPT ![Len(srv)] = "exited"]
      BY <2>1, <3>2 DEF TypeOK, SubjectStatus
    <3>3. QED
      BY <1>5, <3>1, <3>2 DEF StopWait
  <2>3. pc' \in {"exit", "save"}
    BY <1>5 DEF StopWait
  <2>4. TypeOK'
    BY <1>5, <2>2, <2>3 DEF StopWait, TypeOK, PcValues
  <2>5. ServerConfinedToSuite'
    <3>1. \A i \in 1 .. Len(srv) - 1 : ~Alive(srv[i])
      <4>1. SUFFICES ASSUME NEW i \in 1 .. Len(srv) - 1, Alive(srv[i])
                     PROVE  FALSE
        OBVIOUS
      <4>2. i \in DOMAIN srv /\ i # Len(srv)
        BY <2>1 DEF TypeOK
      <4>3. QED
        BY <4>1, <4>2 DEF ServerConfinedToSuite
    <3>2. \A i \in DOMAIN srv' : ~Alive(srv'[i])
      BY <2>1, <2>2, <3>1 DEF Alive
    <3>3. QED
      BY <3>2 DEF ServerConfinedToSuite
  <2>6. IndexInv'
    BY <2>3 DEF IndexInv
  <2>7. QED
    BY <2>4, <2>5, <2>6
<1>6. CASE SaveSuiteResults
  <2>1. TypeOK'
    BY <1>6 DEF SaveSuiteResults, TypeOK, PcValues
  <2>2. IndexInv' /\ ServerConfinedToSuite'
    BY <1>6 DEF SaveSuiteResults, IndexInv, ServerConfinedToSuite
  <2>3. QED
    BY <2>1, <2>2
<1>7. CASE GenerateComparisonReport
  <2>1. TypeOK'
    BY <1>7 DEF GenerateComparisonReport, TypeOK, PcValues
  <2>2. IndexInv' /\ ServerConfinedToSuite'
    BY <1>7 DEF GenerateComparisonReport, IndexInv, ServerConfinedToSuite
  <2>3. QED
    BY <2>1, <2>2
<1>8. ASSUME NEW i \in 1 .. Len(srv), Subject(i) PROVE IInv'
  <2>1. UNCHANGED <<pc, c, t, hangs, pipe, suite, raised, allResults,
                    summary, exitCode>>
    BY <1>8 DEF Subject, SubjectReady, SubjectCrash, SubjectExit
  <2>2. \E st \in SubjectStatus :
           /\ srv' = [srv EXCEPT ![i] = st]
           /\ Alive(st) => Alive(srv[i])
    <3>1. CASE SubjectReady(i)
      BY <3>1 DEF SubjectReady, SubjectStatus, Alive
    <3>2. CASE SubjectCrash(i) \/ SubjectExit(i)
      BY <3>2 DEF SubjectCrash, SubjectExit, SubjectStatus, Alive
    <3>3. QED
      BY <1>8, <3>1, <3>2 DEF Subject
  <2>3. PICK st \in SubjectStatus :
           /\ srv' = [srv EXCEPT ![i] = st]
           /\ Alive(st) => Alive(srv[i])
    BY <2>2
  <2>4. srv' \in Seq(SubjectStatus) /\ Len(srv') = Len(srv)
        /\ DOMAIN srv' = DOMAIN srv
    BY <2>3 DEF TypeOK
  <2>5. TypeOK'
    BY <2>1, <2>4 DEF TypeOK
  <2>6. IndexInv'
    BY <2>1, <2>4 DEF IndexInv
  <2>7. ServerConfinedToSuite'
    <3>1. \A j \in DOMAIN srv' : Alive(srv'[j]) => Alive(srv[j])
      BY <2>3 DEF TypeOK
    <3>2. QED
      BY <2>1, <2>4, <3>1 DEF ServerConfinedToSuite
  <2>8. QED
    BY <2>5, <2>6, <2>7
<1>9. CASE Terminated
  BY <1>9 DEF Terminated, vars, TypeOK, IndexInv, ServerConfinedToSuite
<1>10. CASE UNCHANGED vars
  BY <1>10 DEF vars, TypeOK, IndexInv, ServerConfinedToSuite
<1>11. QED
  BY <1>1, <1>2, <1>3, <1>4, <1>5, <1>6, <1>7, <1>8, <1>9, <1>10
     DEF Next, Harness

\* IInv holds in every reachable state of the behavioral harness.
THEOREM IInvInvariant == Spec => []IInv
BY InitIInv, NextIInv, PTL DEF Spec

\* Every reachable state is well typed, whatever the test file holds.
THEOREM TypeCorrect == Spec => []TypeOK
BY IInvInvariant, PTL DEF IInv

\* For any number of configurations and tests, only the running suite's
\* server is ever alive: stop_server's terminate, wait(timeout=5) and kill
\* end it before the results are saved, the next server starts or the
\* program leaves through an exception.
THEOREM ServerConfinedInvariant == Spec => []ServerConfinedToSuite
BY IInvInvariant, PTL DEF IInv

-----------------------------------------------------------------------------
(* ResultsComplete.  SuiteInv ties all_results to the configuration c and  *)
(* the running suite to the test index t; each record a step appends names *)
(* the test t, at position t.                                              *)

\* Appending the record of the next test keeps a suite in order.
LEMMA InOrderAppend ==
    ASSUME NEW s \in Seq(TestRec), NEW r \in TestRec, r.test = Len(s) + 1,
           InOrder(s)
    PROVE  InOrder(Append(s, r)) /\ Len(Append(s, r)) = Len(s) + 1
BY DEF InOrder

\* The records of RunTest name the current test.
LEMMA RecordsNameTest ==
    ASSUME NEW met, NEW total
    PROVE  Evaluated(met, total).test = t /\ ExecutionFailed.test = t
BY DEF Evaluated, ExecutionFailed

\* The initial state: the first configuration, nothing saved yet.
LEMMA InitSuiteInv == Init => SuiteInv
BY ConstantsAssumption DEF Init, SuiteInv, Configs, InOrder

\* Every step preserves SuiteInv, given IInv: one step per action.
LEMMA NextSuiteInv == IInv /\ SuiteInv /\ [Next]_vars => SuiteInv'
<1> SUFFICES ASSUME TypeOK, IndexInv, SuiteInv, [Next]_vars
             PROVE  SuiteInv'
  BY DEF IInv
<1> USE ConstantsAssumption
<1>1. CASE LoadBehavioralTests
  <2>1. pc = "load" /\ pc' \in {"start", "exit"}
        /\ UNCHANGED <<c, t, suite, raised, allResults>>
    BY <1>1 DEF LoadBehavioralTests
  <2>2. QED
    BY <2>1 DEF SuiteInv
<1>2. CASE StartServer
  <2>1. pc = "start" /\ ~raised /\ Len(allResults) = c - 1
        /\ UNCHANGED <<c, raised, allResults>>
    BY <1>2 DEF StartServer, SuiteInv
  <2>2. CASE pc' = "exit"
    <3>1. UNCHANGED <<t, suite>>
      BY <1>2, <2>2 DEF StartServer
    <3>2. QED
      BY <2>1, <2>2, <3>1 DEF SuiteInv
  <2>3. CASE pc' # "exit"
    <3>1. /\ pc' = IF NT > 0 THEN "test" ELSE "terminate"
          /\ t' = 1 /\ suite' = << >>
      BY <1>2, <2>3 DEF StartServer
    <3>2. NT \in Nat
      BY DEF NT
    <3>3. InOrder(suite') /\ Len(suite') = 0
      BY <3>1 DEF InOrder
    <3>4. QED
      BY <2>1, <3>1, <3>2, <3>3 DEF SuiteInv
  <2>4. QED
    BY <2>2, <2>3
<1>3. CASE RunTest
  <2>1. /\ pc = "test" /\ ~raised /\ t \in Tests /\ Len(suite) = t - 1
        /\ InOrder(suite) /\ c \in Configs /\ Len(allResults) = c - 1
        /\ UNCHANGED <<c, allResults>>
    BY <1>3 DEF RunTest, IndexInv, SuiteInv
  <2>2. t \in Nat /\ NT \in Nat /\ t <= NT
    BY <2>1 DEF Tests, NT
  \* Any record appended for test t keeps the suite in order, and the loop
  \* moves to the next test or to the finally clause.
  <2>3. ASSUME NEW r \in TestRec, r.test = t, suite' = Append(suite, r),
               NextTest, UNCHANGED raised
        PROVE  SuiteInv'
    <3>1. InOrder(suite') /\ Len(suite') = t
      BY <2>1, <2>2, <2>3, InOrderAppend DEF TypeOK
    <3>2. CASE t < NT
      <4>1. pc' = "test" /\ t' = t + 1
        BY <2>3, <3>2 DEF NextTest
      <4>2. QED
        BY <2>1, <2>3, <3>1, <4>1 DEF SuiteInv
    <3>3. CASE ~(t < NT)
      <4>1. pc' = "terminate" /\ t = NT
        BY <2>2, <2>3, <3>3 DEF NextTest
      <4>2. QED
        BY <2>1, <2>3, <3>1, <4>1 DEF SuiteInv
    <3>4. QED
      BY <3>2, <3>3
  \* evaluate_test raises KeyError: the suite stops as it is.
  <2>4. CASE /\ raised' = TRUE /\ pc' = "terminate"
             /\ UNCHANGED <<suite, t>>
    BY <2>1, <2>4 DEF SuiteInv
  <2>5. CASE /\ Criteria[t] # NoList
             /\ \E met \in 0 .. Criteria[t] :
                   suite' = Append(suite, Evaluated(met, Criteria[t]))
             /\ NextTest /\ UNCHANGED raised
    <3>1. Criteria[t] \in Nat
      BY <2>1, <2>5, CriteriaCount
    <3>2. PICK met \in 0 .. Criteria[t] :
                suite' = Append(suite, Evaluated(met, Criteria[t]))
      BY <2>5
    <3>3. Evaluated(met, Criteria[t]) \in TestRec
      BY <2>1, <3>1, EvaluatedType
    <3>4. QED
      BY <2>5, <3>2, <3>3, RecordsNameTest, <2>3
  <2>6. CASE /\ suite' = Append(suite, ExecutionFailed)
             /\ NextTest /\ UNCHANGED raised
    BY <2>1, <2>6, ExecutionFailedType, RecordsNameTest, <2>3
  <2>7. QED
    BY <1>3, <2>4, <2>5, <2>6 DEF RunTest
<1>4. CASE TerminateServer
  <2>1. pc = "terminate" /\ pc' = "stopwait"
        /\ UNCHANGED <<c, t, suite, raised, allResults>>
    BY <1>4 DEF TerminateServer
  <2>2. QED
    BY <2>1 DEF SuiteInv
<1>5. CASE StopWait
  <2>1. pc = "stopwait" /\ UNCHANGED <<c, t, suite, raised, allResults>>
        /\ pc' = IF raised THEN "exit" ELSE "save"
    BY <1>5 DEF StopWait
  <2>2. QED
    BY <2>1 DEF SuiteInv
<1>6. CASE SaveSuiteResults
  <2>1. /\ pc = "save" /\ ~raised /\ c \in Configs /\ Len(allResults) = c - 1
        /\ SuiteInOrder(suite)
        /\ allResults' = Append(allResults, suite)
        /\ UNCHANGED <<t, suite, raised>>
    BY <1>6 DEF SaveSuiteResults, SuiteInv, SuiteInOrder
  <2>2. /\ \A i \in DOMAIN allResults' : SuiteInOrder(allResults'[i])
        /\ Len(allResults') = c
    BY <2>1 DEF SuiteInv, Configs, TypeOK
  <2>3. CASE c < NC
    <3>1. pc' = "load" /\ c' = c + 1
      BY <1>6, <2>3 DEF SaveSuiteResults
    <3>2. c' \in Configs /\ Len(allResults') = c' - 1
      BY <2>1, <2>2, <2>3, <3>1 DEF Configs
    <3>3. QED
      BY <2>1, <2>2, <3>1, <3>2 DEF SuiteInv
  <2>4. CASE ~(c < NC)
    <3>1. pc' = "report" /\ c' = c /\ c = NC
      BY <1>6, <2>1, <2>4 DEF SaveSuiteResults, Configs
    <3>2. QED
      BY <2>1, <2>2, <3>1 DEF SuiteInv
  <2>5. QED
    BY <2>3, <2>4
<1>7. CASE GenerateComparisonReport
  <2>1. pc = "report" /\ pc' = "exit"
        /\ UNCHANGED <<c, t, suite, raised, allResults>>
    BY <1>7 DEF GenerateComparisonReport
  <2>2. QED
    BY <2>1 DEF SuiteInv
<1>8. ASSUME NEW i \in 1 .. Len(srv), Subject(i) PROVE SuiteInv'
  <2>1. UNCHANGED <<pc, c, t, suite, raised, allResults>>
    BY <1>8 DEF Subject, SubjectReady, SubjectCrash, SubjectExit
  <2>2. QED
    BY <2>1 DEF SuiteInv, SuiteInOrder, InOrder
<1>9. CASE Terminated \/ UNCHANGED vars
  <2>1. UNCHANGED <<pc, c, t, suite, raised, allResults>>
    BY <1>9 DEF Terminated, vars
  <2>2. QED
    BY <2>1 DEF SuiteInv, SuiteInOrder, InOrder
<1>10. QED
  BY <1>1, <1>2, <1>3, <1>4, <1>5, <1>6, <1>7, <1>8, <1>9 DEF Next, Harness

\* IInv and SuiteInv hold together in every reachable state.
THEOREM SuiteInvInvariant == Spec => [](IInv /\ SuiteInv)
<1>1. Init => IInv /\ SuiteInv
  BY InitIInv, InitSuiteInv
<1>2. IInv /\ SuiteInv /\ [Next]_vars => (IInv /\ SuiteInv)'
  BY NextIInv, NextSuiteInv
<1>3. QED
  BY <1>1, <1>2, PTL DEF Spec

\* When generate_comparison_report runs, all_results holds one suite per
\* configuration of main()'s list, each with every test of
\* behavioral_tests.json once and in file order: no exception of a suite
\* reaches the report, and no test is skipped or repeated.
THEOREM ResultsCompleteInvariant == Spec => []ResultsComplete
<1>1. SuiteInv => ResultsComplete
  BY DEF SuiteInv, ResultsComplete
<1>2. QED
  BY <1>1, SuiteInvInvariant, PTL

\* Only main()'s save step changes all_results.
LEMMA OnlySaveWrites ==
  [Next]_vars /\ allResults' # allResults => SaveSuiteResults
<1> SUFFICES ASSUME [Next]_vars, allResults' # allResults
             PROVE  SaveSuiteResults
  OBVIOUS
<1>1. ~(LoadBehavioralTests \/ StartServer \/ RunTest \/ TerminateServer
        \/ StopWait \/ GenerateComparisonReport)
  BY DEF LoadBehavioralTests, StartServer, RunTest, TerminateServer,
         StopWait, GenerateComparisonReport
<1>2. ~\E i \in 1 .. Len(srv) : Subject(i)
  BY DEF Subject, SubjectReady, SubjectCrash, SubjectExit
<1>3. ~(Terminated \/ UNCHANGED vars)
  BY DEF Terminated, vars
<1>4. QED
  BY <1>1, <1>2, <1>3 DEF Next, Harness

\* Each <config>_results.json main() writes holds the suite of the
\* configuration it is named after, with every test of
\* behavioral_tests.json once and in file order, even in a run that dies
\* before generate_comparison_report: SuiteInv makes a save reachable only
\* from a suite that raised nothing and ran every test.
THEOREM SavedSuitesCompleteHolds == Spec => SavedSuitesComplete
<1>1. IInv /\ SuiteInv /\ [Next]_vars =>
        [allResults' # allResults =>
           /\ Len(allResults') = c
           /\ SuiteInOrder(allResults'[c])]_vars
  <2> SUFFICES ASSUME IInv, SuiteInv, [Next]_vars, allResults' # allResults
               PROVE  Len(allResults') = c /\ SuiteInOrder(allResults'[c])
    OBVIOUS
  <2>1. SaveSuiteResults
    BY OnlySaveWrites
  <2>2. /\ pc = "save" /\ ~raised /\ Len(allResults) = c - 1
        /\ SuiteInOrder(suite)
        /\ allResults' = Append(allResults, suite)
    BY <2>1 DEF SaveSuiteResults, SuiteInv, SuiteInOrder
  <2>3. Len(allResults') = c /\ allResults'[c] = suite
    BY <2>2 DEF SuiteInv, Configs, TypeOK
  <2>4. QED
    BY <2>2, <2>3
<1>2. QED
  BY <1>1, SuiteInvInvariant, PTL DEF SavedSuitesComplete, Spec

=============================================================================
