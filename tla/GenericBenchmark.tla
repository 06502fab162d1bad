-------------------------- MODULE GenericBenchmark --------------------------
(***************************************************************************)
(* The A/B benchmark harness of src/docs/benchmarks/generic_benchmark.py   *)
(* (class GenericBenchmark) together with the subject processes it starts. *)
(*                                                                         *)
(* The harness is one sequential thread: run_benchmark loads the test      *)
(* definition, then for every (variant, provider) pair prepares a config   *)
(* and, for every (scenario, iteration) unit, calls run_scenario, which    *)
(* starts a `hector serve` process, sleeps, runs `hector call` with a      *)
(* 60 s timeout and in its finally clause terminates the server and waits  *)
(* for it.  Results are written only after the whole loop.                 *)
(*                                                                         *)
(* Every subject process is an actor of its own: it becomes ready (or      *)
(* crashes) at its own pace, and after SIGTERM it exits, unless it is one  *)
(* that ignores the signal (possible only when CanHang).                   *)
(*                                                                         *)
(* The nested loops over variants x providers and scenarios x iterations   *)
(* are flattened: a pair is an index in 1..NPairs and a unit an index in   *)
(* 1..NUnits, visited in the loops' lexicographic order.                   *)
(***************************************************************************)
EXTENDS Naturals, Sequences

CONSTANTS
    NV,             \* len(test_def['variants'])
    NP,             \* len(providers)
    NS,             \* len(test_def['scenarios'])
    Iterations,     \* test_def.get('iterations', 1)
    PrimaryMetric,  \* test_def.get('metrics', {}).get('primary', 'quality')
    CanHang         \* may a subject process ignore SIGTERM?

ASSUME CountsAssumption ==
    /\ NV \in Nat /\ NP \in Nat /\ NS \in Nat /\ Iterations \in Nat
    /\ CanHang \in BOOLEAN

NPairs == NV * NP
NUnits == NS * Iterations
Pairs == 1 .. NPairs
Units == 1 .. NUnits

\* run_scenario starts one server per unit of every prepared pair.
MaxServers == NPairs * NUnits

\* The objectives for which generate_summary calls max()/min() over variants.
Objectives == {"quality", "cost", "speed"}

\* One result dict of run_scenario, with 'provider' and 'iteration' added by
\* run_benchmark; the pair and the unit identify variant, provider,
\* scenario and iteration.  Tokens, times and output are left out.
Rec == [pair : Pairs, unit : Units, success : BOOLEAN, timeout : BOOLEAN]

\* pending holds what the try block of run_scenario produced: a result, an
\* exception that propagates once the finally clause has run, or nothing.
Raised == [exception |-> TRUE]
NoCall == [exception |-> FALSE]

\* Status of a subject process started by subprocess.Popen.
SubjectStatus == {"starting", "ready", "terminating", "exited"}

\* Whether a new subject process ignores SIGTERM.
HangChoices == IF CanHang THEN BOOLEAN ELSE {FALSE}

PcValues == {"load", "prepare", "start", "call", "terminate", "wait",
             "save", "summary", "exit"}

VARIABLES
    pc,        \* where the harness thread is
    k,         \* current (variant, provider) pair
    u,         \* current (scenario, iteration) unit
    prepared,  \* pairs for which prepare_variant_config returned a path
    srv,       \* srv[i]: status of the i-th subject process started
    hangs,     \* hangs[i]: the i-th subject ignores SIGTERM
    pending,   \* outcome of the current call, consumed after the finally
    results,   \* all_results
    saved,     \* results.json has been written
    loaded,    \* load_test_definition returned True
    exitCode   \* exit status of the python process once pc = "exit"

vars == <<pc, k, u, prepared, srv, hangs, pending, results, saved, loaded,
          exitCode>>

Alive(s) == s # "exited"

\* The subject process run_scenario is currently driving.
Current == srv[Len(srv)]

\* The success flag a completed `hector call` can report: a call to a
\* server that is not ready (or no longer running) exits non-zero.
SuccessChoices == IF Current = "ready" THEN BOOLEAN ELSE {FALSE}

-----------------------------------------------------------------------------
(* Loop control of run_benchmark.                                          *)

\* `continue` to the next (variant, provider) pair, or leave the loops.
NextPair ==
    IF k < NPairs
    THEN /\ k' = k + 1 /\ pc' = "prepare"
    ELSE /\ k' = k /\ pc' = "save"

\* Mutation: the inner loop stops one unit early.
NextUnitOffByOne ==
    IF u + 1 < NUnits
    THEN /\ u' = u + 1 /\ pc' = "start" /\ k' = k
    ELSE /\ u' = u /\ NextPair

\* Next iteration / scenario of the current pair, or the next pair.
NextUnit ==
    IF u < NUnits
    THEN /\ u' = u + 1 /\ pc' = "start" /\ k' = k
    ELSE /\ u' = u /\ NextPair

-----------------------------------------------------------------------------
Init ==
    /\ pc = "load"
    /\ k = 1
    /\ u = 1
    /\ prepared = {}
    /\ srv = << >>
    /\ hangs = << >>
    /\ pending = NoCall
    /\ results = << >>
    /\ saved = FALSE
    /\ loaded = FALSE
    /\ exitCode = 0

\* load_test_definition; on failure run_benchmark returns and main() ends
\* normally, so the process exits 0.
LoadTestDefinition ==
    /\ pc = "load"
    /\ \/ /\ loaded' = TRUE
          /\ IF NPairs > 0 THEN pc' = "prepare" ELSE pc' = "save"
          /\ UNCHANGED exitCode
       \/ /\ pc' = "exit"
          /\ exitCode' = 0
          /\ UNCHANGED loaded
    /\ UNCHANGED <<k, u, prepared, srv, hangs, pending, results, saved>>

\* prepare_variant_config followed by reading the agent name from the
\* prepared file.  It returns a path, returns None (missing file, config
\* neither str nor dict: the pair is skipped), or raises (YAML error, an
\* override through a non-mapping, an empty YAML document), which nothing
\* catches.
PrepareVariantConfig ==
    /\ pc = "prepare"
    /\ \/ /\ prepared' = prepared \cup {k}
          /\ IF NUnits > 0
             THEN /\ pc' = "start" /\ u' = 1 /\ k' = k
             ELSE /\ NextPair /\ UNCHANGED u
          /\ UNCHANGED exitCode
       \/ /\ NextPair
          /\ UNCHANGED <<prepared, u, exitCode>>
       \/ /\ pc' = "exit"
          /\ exitCode' = 1
          /\ UNCHANGED <<prepared, k, u>>
    /\ UNCHANGED <<srv, hangs, pending, results, saved, loaded>>

\* First half of run_scenario: subprocess.Popen of `hector serve`, then
\* time.sleep(3).  A Popen failure happens before the try, so it propagates
\* out of run_benchmark with no server to clean up.
StartServer ==
    /\ pc = "start"
    /\ \/ /\ \E h \in HangChoices :
                hangs' = Append(hangs, h)
          /\ srv' = Append(srv, "starting")
          /\ pc' = "call"
          /\ UNCHANGED exitCode
       \/ /\ pc' = "exit"
          /\ exitCode' = 1
          /\ UNCHANGED <<srv, hangs>>
    /\ UNCHANGED <<k, u, prepared, pending, results, saved, loaded>>

\* Mutation: the record takes the 0-based loop index, without the + 1.
RunScenarioCallZeroBased ==
    /\ pc = "call"
    /\ \/ \E ok \in SuccessChoices :
             pending' = [pair |-> k, unit |-> u - 1, success |-> ok,
                         timeout |-> FALSE]
       \/ pending' = [pair |-> k, unit |-> u - 1, success |-> FALSE,
                      timeout |-> TRUE]
       \/ pending' = Raised
    /\ pc' = "terminate"
    /\ UNCHANGED <<k, u, prepared, srv, hangs, results, saved, loaded,
                   exitCode>>

\* Mutation: the cleanup is not in a finally clause, so an exception of
\* the call leaves run_scenario without stopping the server.
RunScenarioCallNoFinally ==
    /\ pc = "call"
    /\ \/ \E ok \in SuccessChoices :
             /\ pending' = [pair |-> k, unit |-> u, success |-> ok,
                            timeout |-> FALSE]
             /\ pc' = "terminate" /\ UNCHANGED exitCode
       \/ /\ pending' = [pair |-> k, unit |-> u, success |-> FALSE,
                         timeout |-> TRUE]
          /\ pc' = "terminate" /\ UNCHANGED exitCode
       \/ /\ pending' = Raised
          /\ pc' = "exit" /\ exitCode' = 1
    /\ UNCHANGED <<k, u, prepared, srv, hangs, results, saved, loaded>>

\* The try block of run_scenario: `hector call` under a 60 s timeout.  It
\* completes (success iff exit status 0 and every expected keyword is in the
\* output; a call to a server that is not ready fails), times out, or
\* raises something other than TimeoutExpired.
RunScenarioCall ==
    /\ pc = "call"
    /\ \/ \E ok \in SuccessChoices :
             pending' = [pair |-> k, unit |-> u, success |-> ok,
                         timeout |-> FALSE]
       \/ pending' = [pair |-> k, unit |-> u, success |-> FALSE,
                      timeout |-> TRUE]
       \/ pending' = Raised
    /\ pc' = "terminate"
    /\ UNCHANGED <<k, u, prepared, srv, hangs, results, saved, loaded,
                   exitCode>>

\* Mutation: the finally clause waits without calling terminate() first.
TerminateServerNoSignal ==
    /\ pc = "terminate"
    /\ pc' = "wait"
    /\ UNCHANGED <<k, u, prepared, srv, hangs, pending, results, saved,
                   loaded, exitCode>>

\* finally: server_proc.terminate() sends SIGTERM to a live server.
TerminateServer ==
    /\ pc = "terminate"
    /\ srv' = [srv EXCEPT ![Len(srv)] =
                   IF Alive(@) THEN "terminating" ELSE @]
    /\ pc' = "wait"
    /\ UNCHANGED <<k, u, prepared, hangs, pending, results, saved, loaded,
                   exitCode>>

\* Mutation: wait() is only reached on the exception path; a unit that
\* returns a result goes on while its server may still be running.
WaitServerOnlyOnError ==
    /\ pc = "wait"
    /\ pending' = NoCall
    /\ IF pending = Raised
       THEN /\ Current = "exited"
            /\ pc' = "exit" /\ exitCode' = 1
            /\ UNCHANGED <<k, u, results>>
       ELSE /\ results' = Append(results, pending)
            /\ NextUnit
            /\ UNCHANGED exitCode
    /\ UNCHANGED <<prepared, srv, hangs, saved, loaded>>

\* finally: server_proc.wait() blocks, without a timeout, until the server
\* has exited.  Then the exception propagates, or the result is appended
\* by run_benchmark and the loops go on.
WaitServer ==
    /\ pc = "wait"
    /\ Current = "exited"
    /\ pending' = NoCall
    /\ IF pending = Raised
       THEN /\ pc' = "exit" /\ exitCode' = 1
            /\ UNCHANGED <<k, u, results>>
       ELSE /\ results' = Append(results, pending)
            /\ NextUnit
            /\ UNCHANGED exitCode
    /\ UNCHANGED <<prepared, srv, hangs, saved, loaded>>

\* json.dump(all_results) into results.json.
SaveResults ==
    /\ pc = "save"
    /\ saved' = TRUE
    /\ pc' = "summary"
    /\ UNCHANGED <<k, u, prepared, srv, hangs, pending, results, loaded,
                   exitCode>>

\* generate_summary writes summary.json, then picks the best variant with
\* max()/min() over the variants seen in the results: with no result at
\* all and a known objective, that raises ValueError.
GenerateSummary ==
    /\ pc = "summary"
    /\ pc' = "exit"
    /\ exitCode' = IF results = << >> /\ PrimaryMetric \in Objectives
                   THEN 1 ELSE 0
    /\ UNCHANGED <<k, u, prepared, srv, hangs, pending, results, saved,
                   loaded>>

Harness ==
    \/ LoadTestDefinition
    \/ PrepareVariantConfig
    \/ StartServer
    \/ RunScenarioCall
    \/ TerminateServer
    \/ WaitServer
    \/ SaveResults
    \/ GenerateSummary

-----------------------------------------------------------------------------
(* The subject processes.                                                  *)

\* The server has bound its endpoint.
SubjectReady(i) ==
    /\ srv[i] = "starting"
    /\ srv' = [srv EXCEPT ![i] = "ready"]
    /\ UNCHANGED <<pc, k, u, prepared, hangs, pending, results, saved,
                   loaded, exitCode>>

\* The server dies on its own (bind failure, crash).
SubjectCrash(i) ==
    /\ srv[i] \in {"starting", "ready"}
    /\ srv' = [srv EXCEPT ![i] = "exited"]
    /\ UNCHANGED <<pc, k, u, prepared, hangs, pending, results, saved,
                   loaded, exitCode>>

\* The server handles SIGTERM and exits.
SubjectExit(i) ==
    /\ srv[i] = "terminating"
    /\ ~hangs[i]
    /\ srv' = [srv EXCEPT ![i] = "exited"]
    /\ UNCHANGED <<pc, k, u, prepared, hangs, pending, results, saved,
                   loaded, exitCode>>

Subject(i) == SubjectReady(i) \/ SubjectCrash(i) \/ SubjectExit(i)

\* The python process has ended.
Terminated ==
    /\ pc = "exit"
    /\ UNCHANGED vars

Next ==
    \/ Harness
    \/ \E i \in 1 .. Len(srv) : Subject(i)
    \/ Terminated

\* The harness thread always runs on, and a subject that handles SIGTERM
\* eventually exits.
Fairness ==
    /\ WF_vars(Harness)
    /\ \A i \in 1 .. MaxServers : WF_vars(i <= Len(srv) /\ SubjectExit(i))

Spec == Init /\ [][Next]_vars /\ Fairness

-----------------------------------------------------------------------------
(* Properties.                                                             *)

TypeOK ==
    /\ pc \in PcValues
    /\ k \in Nat \ {0}
    /\ u \in Nat \ {0}
    /\ prepared \subseteq Pairs
    /\ srv \in Seq(SubjectStatus)
    /\ hangs \in Seq(BOOLEAN)
    /\ Len(hangs) = Len(srv)
    /\ pending \in Rec \cup {Raised, NoCall}
    /\ results \in Seq(Rec)
    /\ saved \in BOOLEAN
    /\ loaded \in BOOLEAN
    /\ exitCode \in {0, 1}

\* Spec section 5: one subject process is active at a time.  run_scenario
\* starts a server per unit; only the blocking wait() in its finally
\* keeps the previous one from still running when the next is started.
SingleSubject ==
    \A i, j \in 1 .. Len(srv) : Alive(srv[i]) /\ Alive(srv[j]) => i = j

\* Spec section 4.3: no exit path leaks a subject process.  When the
\* python process ends, by return or by an exception out of the call, the
\* prepare step or Popen, every server it started has exited.
NoSubjectLeak ==
    pc = "exit" => \A i \in 1 .. Len(srv) : ~Alive(srv[i])

Key(r) == <<r.pair, r.unit>>
Precedes(a, b) == a[1] < b[1] \/ (a[1] = b[1] /\ a[2] < b[2])

\* Spec section 7: no unit is silently dropped or run twice.  When
\* results.json is written it holds exactly one record for each unit of
\* each pair whose config was prepared, in loop order.
RecordsComplete ==
    saved =>
      /\ {Key(results[j]) : j \in 1 .. Len(results)} = prepared \X Units
      /\ \A j \in 1 .. Len(results) - 1 :
            Precedes(Key(results[j]), Key(results[j + 1]))

\* The benchmark run always comes to an end (every call is bounded by its
\* timeout and every wait() by the server's exit).
Termination == <>(pc = "exit")

\* Spec section 7: only a malformed test definition is fatal to the run;
\* any other failure skips its unit or pair, so a run whose definition
\* loaded ends with results.json written.
FailureIsolation ==
    (pc = "exit" /\ loaded) => saved

-----------------------------------------------------------------------------
(* The inductive invariant behind SingleSubject and NoSubjectLeak.  A      *)
(* subject can be alive only while run_scenario drives it, between Popen   *)
(* and the return of wait(); the loop indices are in range wherever a      *)
(* record is built from them; a result is pending from the call to the     *)
(* wait.                                                                   *)

\* Only the current subject may be alive, and only inside run_scenario.
LiveOnlyCurrent ==
    \A i \in 1 .. Len(srv) :
        Alive(srv[i]) => i = Len(srv) /\ pc \in {"call", "terminate", "wait"}

\* The loop indices and the pending result are defined where used.
IndexInv ==
    /\ pc = "load" => k = 1
    /\ pc = "prepare" => k \in Pairs
    /\ pc \in {"start", "call", "terminate", "wait"} => k \in Pairs /\ u \in Units
    /\ pc \in {"call", "terminate", "wait"} => Len(srv) > 0
    /\ pc \in {"terminate", "wait"} => pending # NoCall

IInv == TypeOK /\ IndexInv /\ LiveOnlyCurrent

-----------------------------------------------------------------------------
(* The inductive invariant behind RecordsComplete.  The records appended   *)
(* so far are, in loop order, exactly the units of the prepared pairs that *)
(* come before the loop position <<k, u>>; the pending record is the one   *)
(* of that position.                                                        *)

KeysOf(rs) == {Key(rs[j]) : j \in 1 .. Len(rs)}

\* The units of the pairs P that the loops have passed before <<kk, uu>>.
Before(P, kk, uu) == {q \in P \X Units : Precedes(q, <<kk, uu>>)}

SortedKeys(rs) ==
    \A j \in 1 .. Len(rs) - 1 : Precedes(Key(rs[j]), Key(rs[j + 1]))

\* Every record precedes the position <<kk, uu>>.
AllBefore(rs, kk, uu) ==
    \A j \in 1 .. Len(rs) : Precedes(Key(rs[j]), <<kk, uu>>)

RecordsInv ==
    /\ SortedKeys(results)
    /\ prepared \subseteq 1 .. k
    /\ pc \in {"load", "prepare"} =>
          /\ k \notin prepared
          /\ KeysOf(results) = Before(prepared, k, 1)
          /\ AllBefore(results, k, 1)
    /\ pc \in {"start", "call", "terminate", "wait"} =>
          /\ k \in prepared
          /\ KeysOf(results) = Before(prepared, k, u)
          /\ AllBefore(results, k, u)
    /\ pc \in {"terminate", "wait"} /\ pending \in Rec => Key(pending) = <<k, u>>
    /\ pc \in {"save", "summary"} \/ saved => KeysOf(results) = prepared \X Units
    /\ saved => pc \in {"summary", "exit"}

=============================================================================
