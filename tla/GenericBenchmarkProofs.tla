------------------------ MODULE GenericBenchmarkProofs ------------------------
(***************************************************************************)
(* Proofs about GenericBenchmark for every value of the constants: the     *)
(* inductive invariant IInv, and from it type correctness, SingleSubject   *)
(* and NoSubjectLeak; the invariant RecordsInv on top of IInv, and from    *)
(* it RecordsComplete.                                                     *)
(***************************************************************************)
EXTENDS GenericBenchmark, TLAPS

\* The markers of pending are not results, and differ from each other.
LEMMA MarkersNotRecords ==
    /\ Raised \notin Rec
    /\ NoCall \notin Rec
    /\ Raised # NoCall
BY DEF Raised, NoCall, Rec

\* The loop bounds are natural numbers.
LEMMA BoundsNat == NPairs \in Nat /\ NUnits \in Nat
BY CountsAssumption DEF NPairs, NUnits

\* The nondeterministic choices of the harness are Boolean.
LEMMA ChoicesBoolean ==
    /\ HangChoices \subseteq BOOLEAN
    /\ SuccessChoices \subseteq BOOLEAN
<1>1. HangChoices \subseteq BOOLEAN
  <2>1. CASE CanHang
    BY <2>1 DEF HangChoices
  <2>2. CASE ~CanHang
    BY <2>2 DEF HangChoices
  <2>3. QED
    BY <2>1, <2>2
<1>2. SuccessChoices \subseteq BOOLEAN
  <2>1. CASE Current = "ready"
    BY <2>1 DEF SuccessChoices
  <2>2. CASE Current # "ready"
    BY <2>2 DEF SuccessChoices
  <2>3. QED
    BY <2>1, <2>2
<1>3. QED
  BY <1>1, <1>2

\* Every initial state satisfies the inductive invariant.
LEMMA InitIInv == Init => IInv
<1> SUFFICES ASSUME Init PROVE IInv
  OBVIOUS
<1>1. TypeOK
  <2>1. pc \in PcValues /\ k \in Nat \ {0} /\ u \in Nat \ {0}
    BY DEF Init, PcValues
  <2>2. srv \in Seq(SubjectStatus) /\ hangs \in Seq(BOOLEAN)
        /\ Len(hangs) = Len(srv) /\ results \in Seq(Rec)
    BY DEF Init
  <2>3. prepared \subseteq Pairs /\ pending \in Rec \cup {Raised, NoCall}
    BY DEF Init
  <2>4. saved \in BOOLEAN /\ loaded \in BOOLEAN /\ exitCode \in {0, 1}
    BY DEF Init
  <2>5. QED
    BY <2>1, <2>2, <2>3, <2>4 DEF TypeOK
<1>2. LiveOnlyCurrent
  BY DEF Init, LiveOnlyCurrent
<1>3. QED
  BY <1>1, <1>2 DEF Init, IInv, IndexInv

\* Every step of Next preserves the inductive invariant: one step per
\* action, and under it one per part of IInv that the action can disturb.
LEMMA NextIInv == IInv /\ [Next]_vars => IInv'
<1> SUFFICES ASSUME TypeOK, IndexInv, LiveOnlyCurrent, [Next]_vars
             PROVE IInv'
  BY DEF IInv
<1> USE CountsAssumption, BoundsNat DEF IInv
<1>1. CASE LoadTestDefinition
  <2>1. pc = "load" /\ k' = k /\ u' = u /\ prepared' = prepared
        /\ srv' = srv /\ hangs' = hangs /\ pending' = pending
        /\ results' = results /\ saved' = saved
        /\ pc' \in {"prepare", "save", "exit"} /\ loaded' \in BOOLEAN
        /\ exitCode' \in {0, 1}
    BY <1>1 DEF LoadTestDefinition, TypeOK
  <2>2. pc' = "prepare" => NPairs > 0
    BY <1>1 DEF LoadTestDefinition
  <2>3. TypeOK'
    BY <2>1 DEF TypeOK, PcValues
  <2>4. k' = 1
    BY <2>1 DEF IndexInv
  <2>5. IndexInv'
    BY <2>1, <2>2, <2>4, BoundsNat DEF IndexInv, Pairs
  <2>6. LiveOnlyCurrent'
    BY <2>1 DEF LiveOnlyCurrent
  <2>7. QED
    BY <2>3, <2>5, <2>6
<1>2. CASE PrepareVariantConfig
  <2>1. pc = "prepare" /\ k \in Pairs /\ srv' = srv /\ hangs' = hangs
        /\ pending' = pending /\ results' = results /\ saved' = saved
        /\ loaded' = loaded
    BY <1>2 DEF PrepareVariantConfig, IndexInv
  <2>2. /\ prepared' \subseteq Pairs
        /\ exitCode' \in {0, 1}
        /\ pc' \in {"start", "prepare", "save", "exit"}
        /\ k' \in Nat \ {0} /\ u' \in Nat \ {0}
        /\ pc' = "start" => k' \in Pairs /\ u' \in Units
        /\ pc' = "prepare" => k' \in Pairs
    <3>1. CASE /\ prepared' = prepared \cup {k}
               /\ IF NUnits > 0
                  THEN /\ pc' = "start" /\ u' = 1 /\ k' = k
                  ELSE /\ NextPair /\ UNCHANGED u
               /\ UNCHANGED exitCode
      BY <2>1, <3>1, BoundsNat DEF NextPair, TypeOK, Pairs, Units
    <3>2. CASE NextPair /\ UNCHANGED <<prepared, u, exitCode>>
      BY <2>1, <3>2 DEF NextPair, TypeOK, Pairs
    <3>3. CASE pc' = "exit" /\ exitCode' = 1 /\ UNCHANGED <<prepared, k, u>>
      BY <3>3 DEF TypeOK
    <3>4. QED
      BY <1>2, <3>1, <3>2, <3>3 DEF PrepareVariantConfig
  <2>3. TypeOK'
    BY <2>1, <2>2 DEF TypeOK, PcValues
  <2>4. IndexInv'
    BY <2>2 DEF IndexInv
  <2>5. LiveOnlyCurrent'
    BY <2>1 DEF LiveOnlyCurrent
  <2>6. QED
    BY <2>3, <2>4, <2>5
<1>3. CASE StartServer
  <2>1. pc = "start" /\ k' = k /\ u' = u /\ prepared' = prepared
        /\ pending' = pending /\ results' = results /\ saved' = saved
        /\ loaded' = loaded
    BY <1>3 DEF StartServer
  <2>2. CASE pc' = "call"
    <3>1. HangChoices \subseteq BOOLEAN
      BY ChoicesBoolean
    <3>2. PICK h \in HangChoices : hangs' = Append(hangs, h)
      BY <1>3, <2>2 DEF StartServer
    <3>3. srv' = Append(srv, "starting") /\ exitCode' = exitCode
      BY <1>3, <2>2 DEF StartServer
    <3>4. srv' \in Seq(SubjectStatus) /\ hangs' \in Seq(BOOLEAN)
          /\ Len(hangs') = Len(srv') /\ Len(srv') = Len(srv) + 1
      BY <3>1, <3>2, <3>3 DEF TypeOK, SubjectStatus
    <3>5. TypeOK'
      BY <2>1, <2>2, <3>3, <3>4 DEF TypeOK, PcValues
    <3>6. IndexInv'
      BY <2>1, <2>2, <3>4 DEF IndexInv
    <3>7. LiveOnlyCurrent'
      BY <2>1, <2>2, <3>3, <3>4 DEF TypeOK, LiveOnlyCurrent, Alive
    <3>8. QED
      BY <3>5, <3>6, <3>7
  <2>3. CASE pc' = "exit"
    <3>1. srv' = srv /\ hangs' = hangs /\ exitCode' = 1
      BY <1>3, <2>3 DEF StartServer
    <3>2. QED
      BY <2>1, <2>3, <3>1 DEF TypeOK, PcValues, IndexInv, LiveOnlyCurrent
  <2>4. pc' = "call" \/ pc' = "exit"
    BY <1>3 DEF StartServer
  <2>5. QED
    BY <2>2, <2>3, <2>4
<1>4. CASE RunScenarioCall
  <2>1. pc = "call" /\ pc' = "terminate" /\ k' = k /\ u' = u
        /\ prepared' = prepared /\ srv' = srv /\ hangs' = hangs
        /\ results' = results /\ saved' = saved /\ loaded' = loaded
        /\ exitCode' = exitCode
    BY <1>4 DEF RunScenarioCall
  <2>2. k \in Pairs /\ u \in Units /\ Len(srv) > 0
    BY <2>1 DEF IndexInv
  <2>3. pending' \in Rec \cup {Raised}
    <3>1. CASE \E ok \in SuccessChoices :
                 pending' = [pair |-> k, unit |-> u, success |-> ok,
                             timeout |-> FALSE]
      <4>1. PICK ok \in SuccessChoices :
                 pending' = [pair |-> k, unit |-> u, success |-> ok,
                             timeout |-> FALSE]
        BY <3>1
      <4>2. ok \in BOOLEAN
        BY <4>1, ChoicesBoolean
      <4>3. QED
        BY <2>2, <4>1, <4>2 DEF Rec
    <3>2. CASE pending' = [pair |-> k, unit |-> u, success |-> FALSE,
                           timeout |-> TRUE]
      BY <2>2, <3>2 DEF Rec
    <3>3. CASE pending' = Raised
      BY <3>3
    <3>4. QED
      BY <1>4, <3>1, <3>2, <3>3 DEF RunScenarioCall
  <2>4. TypeOK'
    BY <2>1, <2>3 DEF TypeOK, PcValues
  <2>5. IndexInv'
    BY <2>1, <2>2, <2>3, MarkersNotRecords DEF IndexInv
  <2>6. LiveOnlyCurrent'
    BY <2>1 DEF LiveOnlyCurrent
  <2>7. QED
    BY <2>4, <2>5, <2>6
<1>5. CASE TerminateServer
  <2>1. pc = "terminate" /\ pc' = "wait" /\ k' = k /\ u' = u
        /\ prepared' = prepared /\ hangs' = hangs /\ pending' = pending
        /\ results' = results /\ saved' = saved /\ loaded' = loaded
        /\ exitCode' = exitCode
    BY <1>5 DEF TerminateServer
  <2>2. Len(srv) > 0
    BY <2>1 DEF IndexInv
  <2>3. /\ srv' \in Seq(SubjectStatus)
        /\ Len(srv') = Len(srv)
        /\ \A i \in 1 .. Len(srv) - 1 : srv'[i] = srv[i]
    BY <1>5, <2>2 DEF TerminateServer, TypeOK, SubjectStatus, Alive
  <2>4. TypeOK'
    BY <2>1, <2>3 DEF TypeOK, PcValues
  <2>5. IndexInv'
    BY <2>1, <2>2, <2>3 DEF IndexInv
  <2>6. LiveOnlyCurrent'
    BY <2>1, <2>3 DEF LiveOnlyCurrent
  <2>7. QED
    BY <2>4, <2>5, <2>6
<1>6. CASE WaitServer
  <2>1. pc = "wait" /\ Current = "exited" /\ pending' = NoCall
        /\ prepared' = prepared /\ srv' = srv /\ hangs' = hangs
        /\ saved' = saved /\ loaded' = loaded
    BY <1>6 DEF WaitServer
  <2>2. k \in Pairs /\ u \in Units /\ Len(srv) > 0 /\ pending # NoCall
    BY <2>1 DEF IndexInv
  <2>3. \A i \in 1 .. Len(srv) : ~Alive(srv[i])
    BY <2>1, <2>2 DEF LiveOnlyCurrent, Current, Alive
  <2>4. CASE pending = Raised
    <3>1. pc' = "exit" /\ exitCode' = 1 /\ results' = results
          /\ k' = k /\ u' = u
      BY <1>6, <2>4 DEF WaitServer
    <3>2. QED
      BY <2>1, <2>3, <3>1, MarkersNotRecords
         DEF TypeOK, PcValues, IndexInv, LiveOnlyCurrent
  <2>5. CASE pending # Raised
    <3>1. pending \in Rec
      BY <2>2, <2>5 DEF TypeOK
    <3>2. results' = Append(results, pending) /\ exitCode' = exitCode
          /\ NextUnit
      BY <1>6, <2>5 DEF WaitServer
    <3>3. /\ pc' \in {"start", "prepare", "save"}
          /\ k' \in Nat \ {0} /\ u' \in Nat \ {0}
          /\ pc' = "start" => k' \in Pairs /\ u' \in Units
          /\ pc' = "prepare" => k' \in Pairs
      <4>1. CASE u < NUnits
        BY <2>2, <3>2, <4>1 DEF NextUnit, Units, TypeOK
      <4>2. CASE ~(u < NUnits)
        BY <2>2, <3>2, <4>2 DEF NextUnit, NextPair, Pairs, TypeOK
      <4>3. QED
        BY <4>1, <4>2
    <3>4. results' \in Seq(Rec)
      BY <3>1, <3>2 DEF TypeOK
    <3>5. TypeOK'
      BY <2>1, <3>2, <3>3, <3>4, MarkersNotRecords DEF TypeOK, PcValues
    <3>6. IndexInv'
      BY <3>3 DEF IndexInv
    <3>7. LiveOnlyCurrent'
      BY <2>1, <2>3 DEF LiveOnlyCurrent
    <3>8. QED
      BY <3>5, <3>6, <3>7
  <2>6. QED
    BY <2>4, <2>5
<1>7. CASE SaveResults
  <2>1. pc = "save" /\ pc' = "summary" /\ saved' = TRUE
        /\ UNCHANGED <<k, u, prepared, srv, hangs, pending, results, loaded,
                       exitCode>>
    BY <1>7 DEF SaveResults
  <2>2. QED
    BY <2>1 DEF TypeOK, PcValues, IndexInv, LiveOnlyCurrent
<1>8. CASE GenerateSummary
  <2>1. pc = "summary" /\ pc' = "exit" /\ exitCode' \in {0, 1}
        /\ UNCHANGED <<k, u, prepared, srv, hangs, pending, results, saved,
                       loaded>>
    BY <1>8 DEF GenerateSummary
  <2>2. QED
    BY <2>1 DEF TypeOK, PcValues, IndexInv, LiveOnlyCurrent
<1>9. ASSUME NEW i \in 1 .. Len(srv), Subject(i) PROVE IInv'
  <2>1. UNCHANGED <<pc, k, u, prepared, hangs, pending, results, saved,
                    loaded, exitCode>>
    BY <1>9 DEF Subject, SubjectReady, SubjectCrash, SubjectExit
  <2>2. PICK x \in {"ready", "exited"} :
            /\ srv' = [srv EXCEPT ![i] = x]
            /\ x = "ready" => srv[i] = "starting"
    BY <1>9 DEF Subject, SubjectReady, SubjectCrash, SubjectExit
  <2>3. srv' \in Seq(SubjectStatus) /\ Len(srv') = Len(srv)
    BY <2>2 DEF TypeOK, SubjectStatus
  <2>4. TypeOK'
    BY <2>1, <2>3 DEF TypeOK
  <2>5. IndexInv'
    BY <2>1, <2>3 DEF IndexInv
  <2>6. LiveOnlyCurrent'
    BY <2>1, <2>2, <2>3 DEF LiveOnlyCurrent, TypeOK, Alive
  <2>7. QED
    BY <2>4, <2>5, <2>6
<1>10. CASE Terminated
  BY <1>10 DEF Terminated, vars, TypeOK, IndexInv, LiveOnlyCurrent
<1>11. CASE UNCHANGED vars
  BY <1>11 DEF vars, TypeOK, IndexInv, LiveOnlyCurrent
<1>12. QED
  BY <1>1, <1>2, <1>3, <1>4, <1>5, <1>6, <1>7, <1>8, <1>9, <1>10, <1>11
     DEF Next, Harness

\* IInv holds in every reachable state.
THEOREM IInvInvariant == Spec => []IInv
BY InitIInv, NextIInv, PTL DEF Spec

\* Every reachable state is well typed.
THEOREM TypeCorrect == Spec => []TypeOK
BY IInvInvariant, PTL DEF IInv

\* At most one subject process is alive at any time (spec section 5).
THEOREM SingleSubjectInvariant == Spec => []SingleSubject
<1>1. IInv => SingleSubject
  BY DEF IInv, LiveOnlyCurrent, SingleSubject
<1>2. QED
  BY <1>1, IInvInvariant, PTL

\* When the program ends, no subject process it started is alive
\* (spec section 4.3).
THEOREM NoSubjectLeakInvariant == Spec => []NoSubjectLeak
<1>1. IInv => NoSubjectLeak
  BY DEF IInv, LiveOnlyCurrent, NoSubjectLeak
<1>2. QED
  BY <1>1, IInvInvariant, PTL

-----------------------------------------------------------------------------
(* RecordsComplete.  Its strengthening RecordsInv relates all_results to   *)
(* the loop position <<k, u>>: the keys recorded so far are the units of   *)
(* the prepared pairs before that position, in increasing order.  Each     *)
(* step that appends a record appends the one of the position and moves   *)
(* the position past it.                                                   *)

\* Appending a record adds its key to the keys of all_results.
LEMMA AppendKeys ==
    ASSUME NEW rs \in Seq(Rec), NEW r \in Rec
    PROVE  KeysOf(Append(rs, r)) = KeysOf(rs) \cup {Key(r)}
BY DEF KeysOf

\* Precedes is transitive on pairs of naturals.
LEMMA PrecedesTrans ==
    ASSUME NEW a1 \in Nat, NEW a2 \in Nat, NEW b1 \in Nat, NEW b2 \in Nat,
           NEW c1 \in Nat, NEW c2 \in Nat,
           Precedes(<<a1, a2>>, <<b1, b2>>), Precedes(<<b1, b2>>, <<c1, c2>>)
    PROVE  Precedes(<<a1, a2>>, <<c1, c2>>)
BY DEF Precedes

\* Records that all precede a position precede every later position.
LEMMA AllBeforeLater ==
    ASSUME NEW rs \in Seq(Rec), NEW a1 \in Nat, NEW a2 \in Nat,
           NEW b1 \in Nat, NEW b2 \in Nat,
           AllBefore(rs, a1, a2), Precedes(<<a1, a2>>, <<b1, b2>>)
    PROVE  AllBefore(rs, b1, b2)
<1> SUFFICES ASSUME NEW j \in 1 .. Len(rs)
             PROVE  Precedes(<<rs[j].pair, rs[j].unit>>, <<b1, b2>>)
  BY DEF AllBefore, Key
<1>1. rs[j] \in Rec
  OBVIOUS
<1>2. rs[j].pair \in Nat /\ rs[j].unit \in Nat
  <2>1. rs[j].pair \in 1 .. NPairs /\ rs[j].unit \in 1 .. NUnits
    BY <1>1 DEF Rec, Pairs, Units
  <2>2. QED
    BY <2>1, BoundsNat
<1>3. Precedes(<<rs[j].pair, rs[j].unit>>, <<a1, a2>>)
  BY DEF AllBefore, Key
<1>4. QED
  BY <1>2, <1>3, PrecedesTrans

\* Appending the record of a position that every record precedes keeps
\* the keys sorted, and the result precedes every later position.
LEMMA AppendOrdered ==
    ASSUME NEW rs \in Seq(Rec), NEW r \in Rec, NEW b1 \in Nat, NEW b2 \in Nat,
           SortedKeys(rs), AllBefore(rs, r.pair, r.unit),
           Precedes(<<r.pair, r.unit>>, <<b1, b2>>)
    PROVE  SortedKeys(Append(rs, r)) /\ AllBefore(Append(rs, r), b1, b2)
<1>1. r.pair \in Nat /\ r.unit \in Nat
  BY BoundsNat DEF Rec, Pairs, Units
<1>2. AllBefore(rs, b1, b2)
  BY <1>1, AllBeforeLater
<1>3. SortedKeys(Append(rs, r))
  <2> SUFFICES ASSUME NEW j \in 1 .. Len(rs)
               PROVE  Precedes(Key(Append(rs, r)[j]), Key(Append(rs, r)[j + 1]))
    BY DEF SortedKeys
  <2>1. CASE j < Len(rs)
    BY <2>1 DEF SortedKeys
  <2>2. CASE j = Len(rs)
    <3>1. Append(rs, r)[j] = rs[j] /\ Append(rs, r)[j + 1] = r
      BY <2>2
    <3>2. QED
      BY <3>1 DEF AllBefore, Key
  <2>3. QED
    BY <2>1, <2>2
<1>4. AllBefore(Append(rs, r), b1, b2)
  <2> SUFFICES ASSUME NEW j \in 1 .. Len(rs) + 1
               PROVE  Precedes(Key(Append(rs, r)[j]), <<b1, b2>>)
    <3>1. Len(Append(rs, r)) = Len(rs) + 1
      OBVIOUS
    <3>2. QED
      BY <3>1 DEF AllBefore
  <2>1. CASE j <= Len(rs)
    <3>1. j \in 1 .. Len(rs) /\ Append(rs, r)[j] = rs[j]
      BY <2>1
    <3>2. Precedes(Key(rs[j]), <<b1, b2>>)
      BY <1>2, <3>1 DEF AllBefore
    <3>3. QED
      BY <3>1, <3>2
  <2>2. CASE j = Len(rs) + 1
    <3>1. Append(rs, r)[j] = r
      BY <2>2
    <3>2. QED
      BY <3>1 DEF Key
  <2>3. QED
    BY <2>1, <2>2
<1>5. QED
  BY <1>3, <1>4

\* Two sets of pairs are equal when they hold the same pairs.
LEMMA PairSetExt ==
    ASSUME NEW S, NEW T, NEW A \in SUBSET (S \X T), NEW B \in SUBSET (S \X T),
           \A x \in S, y \in T : <<x, y>> \in A <=> <<x, y>> \in B
    PROVE  A = B
<1> SUFFICES ASSUME NEW q \in S \X T PROVE q \in A <=> q \in B
  OBVIOUS
<1>1. PICK x \in S, y \in T : q = <<x, y>>
  OBVIOUS
<1>2. QED
  BY <1>1

\* The units before a position, by their components.
LEMMA BeforeMember ==
    ASSUME NEW P, NEW kk, NEW uu, NEW x \in P, NEW y \in Units
    PROVE  <<x, y>> \in Before(P, kk, uu) <=> (x < kk \/ (x = kk /\ y < uu))
BY DEF Before, Precedes

\* No record precedes the first unit of the first pair.
LEMMA NothingBeforeStart ==
    ASSUME NEW P \in SUBSET Pairs
    PROVE  Before(P, 1, 1) = {}
<1> SUFFICES ASSUME NEW x \in P, NEW y \in Units,
                    <<x, y>> \in Before(P, 1, 1)
             PROVE  FALSE
  BY DEF Before
<1>1. x < 1 \/ (x = 1 /\ y < 1)
  BY BeforeMember
<1>2. QED
  BY <1>1, BoundsNat DEF Pairs, Units

\* The next unit of a pair of P: the position moves past <<kk, uu>>.
LEMMA BeforeNextUnit ==
    ASSUME NEW P \in SUBSET Pairs, NEW kk \in P, NEW uu \in Units
    PROVE  Before(P, kk, uu + 1) = (Before(P, kk, uu) \cup {<<kk, uu>>})
<1>1. ASSUME NEW x \in P, NEW y \in Units
      PROVE  <<x, y>> \in Before(P, kk, uu + 1) <=> <<x, y>> \in (Before(P, kk, uu) \cup {<<kk, uu>>})
  <2>1. <<x, y>> \in Before(P, kk, uu + 1) <=> (x < kk \/ (x = kk /\ y < uu + 1))
    BY BeforeMember
  <2>2. <<x, y>> \in Before(P, kk, uu) <=> (x < kk \/ (x = kk /\ y < uu))
    BY BeforeMember
  <2>3. QED
    BY <2>1, <2>2, BoundsNat DEF Pairs, Units
<1>2. QED
  BY <1>1, PairSetExt DEF Before

\* The last unit of a pair of P: the position moves to the next pair.
LEMMA BeforeNextPair ==
    ASSUME NEW P \in SUBSET Pairs, NEW kk \in P, NUnits \in Units
    PROVE  Before(P, kk + 1, 1) = (Before(P, kk, NUnits) \cup {<<kk, NUnits>>})
<1>1. ASSUME NEW x \in P, NEW y \in Units
      PROVE  <<x, y>> \in Before(P, kk + 1, 1) <=> <<x, y>> \in (Before(P, kk, NUnits) \cup {<<kk, NUnits>>})
  <2>1. <<x, y>> \in Before(P, kk + 1, 1) <=> (x < kk + 1 \/ (x = kk + 1 /\ y < 1))
    BY BeforeMember
  <2>2. <<x, y>> \in Before(P, kk, NUnits) <=> (x < kk \/ (x = kk /\ y < NUnits))
    BY BeforeMember
  <2>3. QED
    BY <2>1, <2>2, BoundsNat DEF Pairs, Units
<1>2. QED
  BY <1>1, PairSetExt DEF Before

\* A pair outside P adds no unit.
LEMMA BeforeSkipPair ==
    ASSUME NEW P \in SUBSET Pairs, NEW kk \in Nat, kk \notin P
    PROVE  Before(P, kk + 1, 1) = Before(P, kk, 1)
<1>1. ASSUME NEW x \in P, NEW y \in Units
      PROVE  <<x, y>> \in Before(P, kk + 1, 1) <=> <<x, y>> \in Before(P, kk, 1)
  <2>1. <<x, y>> \in Before(P, kk + 1, 1) <=> (x < kk + 1 \/ (x = kk + 1 /\ y < 1))
    BY BeforeMember
  <2>2. <<x, y>> \in Before(P, kk, 1) <=> (x < kk \/ (x = kk /\ y < 1))
    BY BeforeMember
  <2>3. QED
    BY <2>1, <2>2, BoundsNat DEF Pairs, Units
<1>2. QED
  BY <1>1, PairSetExt DEF Before

\* Preparing the current pair adds none of its units before its first.
LEMMA BeforeAddCurrent ==
    ASSUME NEW P \in SUBSET Pairs, NEW kk \in Nat
    PROVE  Before(P \cup {kk}, kk, 1) = Before(P, kk, 1)
<1>1. ASSUME NEW x \in P \cup {kk}, NEW y \in Units
      PROVE  <<x, y>> \in Before(P \cup {kk}, kk, 1) <=> x \in P /\ x < kk
  <2>1. <<x, y>> \in Before(P \cup {kk}, kk, 1) <=> (x < kk \/ (x = kk /\ y < 1))
    BY BeforeMember
  <2>2. QED
    BY <2>1, BoundsNat DEF Pairs, Units
<1>2. ASSUME NEW x \in P, NEW y \in Units
      PROVE  <<x, y>> \in Before(P, kk, 1) <=> x < kk
  <2>1. <<x, y>> \in Before(P, kk, 1) <=> (x < kk \/ (x = kk /\ y < 1))
    BY BeforeMember
  <2>2. QED
    BY <2>1, BoundsNat DEF Pairs, Units
<1>3. Before(P \cup {kk}, kk, 1) \subseteq (P \cup {kk}) \X Units
      /\ Before(P, kk, 1) \subseteq P \X Units
  BY DEF Before
<1>4. QED
  BY <1>1, <1>2, <1>3

\* Past the last pair of P, every unit of every pair of P is done.
LEMMA BeforeAll ==
    ASSUME NEW kk \in Nat, NEW P \in SUBSET (1 .. kk)
    PROVE  Before(P, kk + 1, 1) = P \X Units
<1>1. ASSUME NEW x \in P, NEW y \in Units
      PROVE  <<x, y>> \in Before(P, kk + 1, 1) <=> <<x, y>> \in P \X Units
  <2>1. <<x, y>> \in Before(P, kk + 1, 1) <=> (x < kk + 1 \/ (x = kk + 1 /\ y < 1))
    BY BeforeMember
  <2>2. QED
    BY <2>1
<1>2. Before(P, kk + 1, 1) \subseteq P \X Units
  BY DEF Before
<1>3. ASSUME NEW q \in P \X Units PROVE q \in Before(P, kk + 1, 1)
  <2>1. q = <<q[1], q[2]>> /\ q[1] \in P /\ q[2] \in Units
    OBVIOUS
  <2>2. QED
    BY <1>1, <2>1
<1>4. QED
  BY <1>2, <1>3

\* The initial state: nothing is prepared and nothing recorded.
LEMMA InitRecordsInv == Init => RecordsInv
<1> SUFFICES ASSUME Init PROVE RecordsInv
  OBVIOUS
<1>1. Before(prepared, 1, 1) = {}
  BY NothingBeforeStart DEF Init
<1>2. QED
  BY <1>1 DEF Init, RecordsInv, SortedKeys, KeysOf, AllBefore

\* Every step preserves RecordsInv, given IInv: one step per action.
LEMMA NextRecordsInv == IInv /\ RecordsInv /\ [Next]_vars => RecordsInv'
<1> SUFFICES ASSUME TypeOK, IndexInv, RecordsInv, [Next]_vars
             PROVE  RecordsInv'
  BY DEF IInv
<1> USE CountsAssumption, BoundsNat
<1>1. CASE LoadTestDefinition
  <2>1. pc = "load" /\ k = 1 /\ ~saved
        /\ UNCHANGED <<k, u, prepared, pending, results, saved>>
    BY <1>1 DEF LoadTestDefinition, IndexInv, RecordsInv
  <2>2. KeysOf(results) = {} /\ AllBefore(results, 1, 1)
    BY <2>1, NothingBeforeStart DEF RecordsInv, TypeOK
  <2>3. CASE pc' = "save"
    <3>1. NPairs = 0
      BY <1>1, <2>3 DEF LoadTestDefinition
    <3>2. prepared = {}
      BY <3>1 DEF TypeOK, Pairs
    <3>3. QED
      BY <2>1, <2>2, <2>3, <3>2 DEF RecordsInv
  <2>4. CASE pc' # "save"
    <3>1. pc' \in {"prepare", "exit"}
      BY <1>1, <2>4 DEF LoadTestDefinition
    <3>2. QED
      BY <2>1, <3>1 DEF RecordsInv
  <2>5. QED
    BY <2>3, <2>4
<1>2. CASE PrepareVariantConfig
  <2>1. /\ pc = "prepare" /\ k \in Pairs /\ k \notin prepared /\ ~saved
        /\ prepared \subseteq 1 .. k /\ SortedKeys(results)
        /\ KeysOf(results) = Before(prepared, k, 1) /\ AllBefore(results, k, 1)
        /\ UNCHANGED <<pending, results, saved>>
    BY <1>2 DEF PrepareVariantConfig, IndexInv, RecordsInv
  <2>2. k \in Nat /\ k + 1 \in Nat /\ prepared \subseteq Pairs
    BY <2>1 DEF TypeOK, Pairs
  <2>3. AllBefore(results, k + 1, 1)
    BY <2>1, <2>2, AllBeforeLater DEF Precedes, TypeOK
  \* The config is prepared and the pair has units: its first unit starts.
  <2>4. CASE /\ prepared' = prepared \cup {k}
             /\ pc' = "start" /\ u' = 1 /\ k' = k
    <3>1. Before(prepared', k', u') = Before(prepared, k, 1)
      BY <2>1, <2>2, <2>4, BeforeAddCurrent
    <3>2. /\ SortedKeys(results') /\ prepared' \subseteq 1 .. k'
          /\ k' \in prepared' /\ KeysOf(results') = Before(prepared', k', u')
          /\ AllBefore(results', k', u') /\ ~saved'
      BY <2>1, <2>2, <2>4, <3>1 DEF Pairs
    <3>3. QED
      BY <2>4, <3>2 DEF RecordsInv
  \* The config is prepared but the pair has no unit: the loop moves on.
  <2>5. CASE /\ prepared' = prepared \cup {k} /\ ~(NUnits > 0)
             /\ NextPair /\ UNCHANGED u
    <3>1. Units = {}
      BY <2>5 DEF Units
    <3>2. KeysOf(results) = {} /\ prepared' \X Units = {}
      BY <2>1, <3>1 DEF Before
    <3>3. CASE k < NPairs
      <4>1. pc' = "prepare" /\ k' = k + 1
        BY <2>5, <3>3 DEF NextPair
      <4>2. Before(prepared', k', 1) = {}
        BY <3>1 DEF Before
      <4>3. prepared' \subseteq 1 .. k' /\ k' \notin prepared'
        <5>1. prepared \cup {k} \subseteq 1 .. k + 1 /\ k + 1 \notin prepared \cup {k}
          BY <2>1, <2>2 DEF Pairs
        <5>2. QED
          BY <2>5, <4>1, <5>1
      <4>4. /\ SortedKeys(results') /\ KeysOf(results') = Before(prepared', k', 1)
            /\ AllBefore(results', k', 1) /\ ~saved'
        BY <2>1, <2>3, <3>2, <4>1, <4>2
      <4>5. QED
        BY <4>1, <4>3, <4>4 DEF RecordsInv
    <3>4. CASE ~(k < NPairs)
      <4>1. pc' = "save" /\ k' = k
        BY <2>5, <3>4 DEF NextPair
      <4>2. prepared' \subseteq 1 .. k'
        BY <2>1, <2>2, <2>5, <4>1 DEF Pairs
      <4>3. /\ SortedKeys(results') /\ KeysOf(results') = prepared' \X Units
            /\ ~saved'
        BY <2>1, <3>2
      <4>4. QED
        BY <4>1, <4>2, <4>3 DEF RecordsInv
    <3>5. QED
      BY <3>3, <3>4
  \* prepare_variant_config returned None: the pair is skipped.
  <2>6. CASE NextPair /\ UNCHANGED <<prepared, u>>
    <3>1. CASE k < NPairs
      <4>1. pc' = "prepare" /\ k' = k + 1
        BY <2>6, <3>1 DEF NextPair
      <4>2. Before(prepared, k + 1, 1) = Before(prepared, k, 1)
        BY <2>1, <2>2, BeforeSkipPair
      <4>3. /\ SortedKeys(results') /\ prepared' \subseteq 1 .. k'
            /\ k' \notin prepared' /\ KeysOf(results') = Before(prepared', k', 1)
            /\ AllBefore(results', k', 1) /\ ~saved'
        BY <2>1, <2>2, <2>3, <2>6, <4>1, <4>2
      <4>4. QED
        BY <4>1, <4>3 DEF RecordsInv
    <3>2. CASE ~(k < NPairs)
      <4>1. pc' = "save" /\ k' = k
        BY <2>6, <3>2 DEF NextPair
      <4>2. prepared \subseteq 1 .. (k - 1) /\ k - 1 \in Nat
        <5>1. ASSUME NEW x \in prepared PROVE x \in 1 .. (k - 1)
          <6>1. x \in 1 .. k /\ x # k
            BY <2>1
          <6>2. QED
            BY <6>1, <2>2
        <5>2. QED
          BY <5>1, <2>1, <2>2 DEF Pairs
      <4>3. Before(prepared, (k - 1) + 1, 1) = prepared \X Units
        BY <4>2, BeforeAll
      <4>4. /\ SortedKeys(results') /\ prepared' \subseteq 1 .. k'
            /\ KeysOf(results') = prepared' \X Units /\ ~saved'
        BY <2>1, <2>2, <2>6, <4>1, <4>3
      <4>5. QED
        BY <4>1, <4>4 DEF RecordsInv
    <3>3. QED
      BY <3>1, <3>2
  \* An exception leaves run_benchmark before results.json is written.
  <2>7. CASE pc' = "exit" /\ UNCHANGED <<prepared, k, u>>
    BY <2>1, <2>7 DEF RecordsInv
  <2>8. QED
    BY <1>2, <2>4, <2>5, <2>6, <2>7 DEF PrepareVariantConfig
<1>3. CASE StartServer
  <2>1. pc = "start" /\ ~saved /\ pc' \in {"call", "exit"}
        /\ UNCHANGED <<k, u, prepared, pending, results, saved>>
    BY <1>3 DEF StartServer, RecordsInv
  <2>2. QED
    BY <2>1 DEF RecordsInv
<1>4. CASE RunScenarioCall
  <2>1. pc = "call" /\ ~saved /\ pc' = "terminate"
        /\ UNCHANGED <<k, u, prepared, results, saved>>
    BY <1>4 DEF RunScenarioCall, RecordsInv
  <2>2. pending' \in Rec => Key(pending') = <<k, u>>
    BY <1>4, MarkersNotRecords DEF RunScenarioCall, Key
  <2>3. QED
    BY <2>1, <2>2 DEF RecordsInv
<1>5. CASE TerminateServer
  <2>1. pc = "terminate" /\ ~saved /\ pc' = "wait"
        /\ UNCHANGED <<k, u, prepared, pending, results, saved>>
    BY <1>5 DEF TerminateServer, RecordsInv
  <2>2. QED
    BY <2>1 DEF RecordsInv
<1>6. CASE WaitServer
  <2>1. /\ pc = "wait" /\ ~saved /\ k \in Pairs /\ u \in Units
        /\ pending # NoCall /\ prepared \subseteq 1 .. k /\ k \in prepared
        /\ SortedKeys(results)
        /\ KeysOf(results) = Before(prepared, k, u) /\ AllBefore(results, k, u)
        /\ UNCHANGED <<prepared, saved>>
    BY <1>6 DEF WaitServer, IndexInv, RecordsInv
  <2>2. k \in Nat /\ u \in Nat /\ prepared \subseteq Pairs
    BY <2>1 DEF TypeOK, Pairs, Units
  <2>3. CASE pending = Raised
    <3>1. pc' = "exit" /\ UNCHANGED <<k, u, results>>
      BY <1>6, <2>3 DEF WaitServer
    <3>2. QED
      BY <2>1, <3>1 DEF RecordsInv
  <2>4. CASE pending # Raised
    <3>1. pending \in Rec /\ Key(pending) = <<k, u>>
      <4>1. pending \in Rec
        BY <2>1, <2>4 DEF TypeOK
      <4>2. QED
        BY <2>1, <4>1 DEF RecordsInv
    <3>2. pending.pair = k /\ pending.unit = u
      BY <3>1 DEF Key
    <3>3. results' = Append(results, pending) /\ NextUnit
      BY <1>6, <2>4 DEF WaitServer
    <3>4. KeysOf(results') = Before(prepared, k, u) \cup {<<k, u>>}
      BY <2>1, <3>1, <3>3, AppendKeys DEF TypeOK
    <3>5. ASSUME NEW b1 \in Nat, NEW b2 \in Nat, Precedes(<<k, u>>, <<b1, b2>>)
          PROVE  SortedKeys(results') /\ AllBefore(results', b1, b2)
      BY <2>1, <3>1, <3>2, <3>3, <3>5, AppendOrdered DEF TypeOK
    <3>6. CASE u < NUnits
      <4>1. pc' = "start" /\ k' = k /\ u' = u + 1
        BY <3>3, <3>6 DEF NextUnit
      <4>2. Before(prepared, k, u + 1) = Before(prepared, k, u) \cup {<<k, u>>}
        BY <2>1, <2>2, BeforeNextUnit
      <4>3. SortedKeys(results') /\ AllBefore(results', k, u + 1)
        BY <2>2, <3>5 DEF Precedes
      <4>4. QED
        BY <2>1, <3>4, <4>1, <4>2, <4>3 DEF RecordsInv
    <3>7. CASE ~(u < NUnits)
      <4>1. u = NUnits /\ NUnits \in Units
        BY <2>1, <3>7 DEF Units
      <4>2. Before(prepared, k + 1, 1) = Before(prepared, k, u) \cup {<<k, u>>}
        BY <2>1, <2>2, <4>1, BeforeNextPair
      <4>3. SortedKeys(results') /\ AllBefore(results', k + 1, 1)
        BY <2>2, <3>5 DEF Precedes
      <4>4. CASE k < NPairs
        <5>1. pc' = "prepare" /\ k' = k + 1
          BY <3>3, <3>7, <4>4 DEF NextUnit, NextPair
        <5>2. k + 1 \notin prepared /\ prepared \subseteq 1 .. k + 1
          BY <2>1, <2>2
        <5>3. QED
          BY <2>1, <3>4, <4>2, <4>3, <5>1, <5>2 DEF RecordsInv
      <4>5. CASE ~(k < NPairs)
        <5>1. pc' = "save" /\ k' = k
          BY <3>3, <3>7, <4>5 DEF NextUnit, NextPair
        <5>2. Before(prepared, k + 1, 1) = prepared \X Units
          BY <2>1, <2>2, BeforeAll
        <5>3. QED
          BY <2>1, <3>4, <4>2, <4>3, <5>1, <5>2 DEF RecordsInv
      <4>6. QED
        BY <4>4, <4>5
    <3>8. QED
      BY <3>6, <3>7
  <2>5. QED
    BY <2>3, <2>4
<1>7. CASE SaveResults
  <2>1. pc = "save" /\ pc' = "summary" /\ saved' = TRUE
        /\ UNCHANGED <<k, u, prepared, pending, results>>
    BY <1>7 DEF SaveResults
  <2>2. QED
    BY <2>1 DEF RecordsInv
<1>8. CASE GenerateSummary
  <2>1. pc = "summary" /\ pc' = "exit"
        /\ UNCHANGED <<k, u, prepared, pending, results, saved>>
    BY <1>8 DEF GenerateSummary
  <2>2. QED
    BY <2>1 DEF RecordsInv
<1>9. ASSUME NEW i \in 1 .. Len(srv), Subject(i) PROVE RecordsInv'
  <2>1. UNCHANGED <<pc, k, u, prepared, pending, results, saved>>
    BY <1>9 DEF Subject, SubjectReady, SubjectCrash, SubjectExit
  <2>2. QED
    BY <2>1 DEF RecordsInv, SortedKeys, KeysOf, Before, AllBefore
<1>10. CASE Terminated \/ UNCHANGED vars
  <2>1. UNCHANGED <<pc, k, u, prepared, pending, results, saved>>
    BY <1>10 DEF Terminated, vars
  <2>2. QED
    BY <2>1 DEF RecordsInv, SortedKeys, KeysOf, Before, AllBefore
<1>11. QED
  BY <1>1, <1>2, <1>3, <1>4, <1>5, <1>6, <1>7, <1>8, <1>9, <1>10
     DEF Next, Harness

\* RecordsInv holds in every reachable state.
THEOREM RecordsInvInvariant == Spec => [](IInv /\ RecordsInv)
<1>1. Init => IInv /\ RecordsInv
  BY InitIInv, InitRecordsInv
<1>2. IInv /\ RecordsInv /\ [Next]_vars => (IInv /\ RecordsInv)'
  BY NextIInv, NextRecordsInv
<1>3. QED
  BY <1>1, <1>2, PTL DEF Spec

\* When results.json is written it holds one record per unit of every
\* prepared pair and no other, in loop order (spec section 7): no unit of
\* run_benchmark's loops is dropped, repeated or reordered.
THEOREM RecordsCompleteInvariant == Spec => []RecordsComplete
<1>1. IInv /\ RecordsInv => RecordsComplete
  BY DEF RecordsInv, RecordsComplete, KeysOf, SortedKeys
<1>2. QED
  BY <1>1, RecordsInvInvariant, PTL

=============================================================================
