# TLA+ models of the hector benchmark harness

This directory holds the formal models of the benchmark and behavioral-test harness in `src/docs/benchmarks/`. It also holds the TLC configurations that model-check them and the TLAPS proofs about them.

## The system

Six Python programs make up `src/`:

| file | role | modelled |
|---|---|---|
| `docs/benchmarks/generic_benchmark.py` | config-driven A/B benchmark: loads a test definition, materialises one configuration per (variant, provider), runs a `hector serve` subject per scenario execution, calls it, extracts metrics, saves `results.json`, writes `summary.json` and recommends a variant | `GenericBenchmark` (harness), `ConfigOverlay` (materialiser), `Aggregator` and `SummaryReport` (summary) |
| `docs/benchmarks/behavioral_benchmark.py` | behavioral suite: one `hector serve` per configuration of a fixed list of five, runs every test of `behavioral_tests.json`, scores criteria, writes per-configuration results and `summary.json` | `BehavioralSuite` |
| `docs/benchmarks/compare_providers.py`, `analyze_results.py`, `assess_prompts.py` | read result JSON files and print tables | not modelled (no state beyond the files read) |
| `tools/detect_ineffective_config.py` | greps Go sources for config-field usage, scores each field and prints three reports | `IneffectiveConfig` |

The parts interact through processes and files:
- The harness thread starts a **subject** process (the `hector` binary, a black box) with `subprocess.Popen`.
- It sleeps for a fixed grace period, then issues `hector call` invocations with a 60 s timeout.
- It then stops the subject.
- The subject runs concurrently with the harness. It may become ready or not, crash, honour SIGTERM, or ignore it.
- Results go to JSON files that the report utilities read later.

What makes the harness hard to get right:
- Which exceptions escape which `try`/`finally`.
- Whether a subject is left running.
- Whether a stop can hang.
- Whether every (variant, provider, scenario, iteration) unit ends up recorded.

## Modules

### `GenericBenchmark` (generic_benchmark.py)

**State:**
- `pc`: the harness's position in `run_benchmark`/`run_scenario`.
- `k`: the (variant, provider) pair of the two outer loops, flattened into `1..NV*NP`.
- `u`: the (scenario, iteration) unit of the two inner loops, flattened into `1..NS*Iterations`.
- `prepared`: the pairs whose configuration was materialised.
- `srv` and `hangs`: one entry per subject process started, giving its status and whether it ignores SIGTERM.
- `pending`: the outcome of the current call, or the exception leaving the `try`.
- `results`: `all_results`.
- `saved`: whether `results.json` was written.
- `loaded`: whether the definition loaded.
- `exitCode`.

**Harness actions.** There is one action per step of the code, and each includes every state change of that step:
- `LoadTestDefinition` (34-59, early return at 194).
- `PrepareVariantConfig` (61-105, with its `None` and exception outcomes).
- `StartServer` (Popen and `sleep(3)`, 115-122).
- `RunScenarioCall` (124-168: completion with the keyword check, timeout, other exception).
- `TerminateServer` and `WaitServer` (the `finally` at 169-172). `WaitServer` also appends the record, or propagates the exception.
- `SaveResults` (244-249).
- `GenerateSummary` (254-305). It fails with `ValueError` on `max()` of no variants.

**Subject actions.** `SubjectReady`, `SubjectCrash` and `SubjectExit` model the subject binary. They are modelled from the spec, because the binary is not in `src/`.

### `BehavioralSuite` (behavioral_benchmark.py)

**State:**
- `pc`, the configuration `c` and the test `t`.
- `srv`, `hangs` and `pipe`, where `pipe` is the unread output in each subject's stdout/stderr pipe.
- `suite`: the running suite's results.
- `raised`.
- `allResults`: `all_results` and the per-configuration files.
- `summary`: whether `summary.json` was written.
- `exitCode`.

**Actions:**
- `LoadBehavioralTests`.
- `StartServer`: Popen with `PIPE`, called outside the `try`.
- `RunTest`: `run_test` plus `evaluate_test`. A subject answers only when ready and its pipe is not full. A test without `success_criteria` raises `KeyError`.
- `TerminateServer` and `StopWait`: `stop_server`'s `terminate`, `wait(timeout=5)` and `kill`.
- `SaveSuiteResults`.
- `GenerateComparisonReport`: its second load of the tests, and the `KeyError` on `'avg_score'`.
- The same subject actions as above. A subject blocked on a full pipe cannot finish its shutdown.

**Data abstraction:**
- A test is its number of criteria, or `NoList`.
- An evaluated test keeps its counts of matched and total criteria, so that its score is determined by the record.
- Regular expressions, prompts and output text are not represented. Which criteria match is a nondeterministic choice.

### `ConfigOverlay` (generic_benchmark.py, `prepare_variant_config` and `_set_nested_key`)

`GenericBenchmark` keeps only the outcome of `prepare_variant_config` (a path, `None` or an exception). `ConfigOverlay` models what it computes.

**Data abstraction.** A YAML document is either `NullDoc` (what `yaml.safe_load` returns for an empty file) or a tree. A tree is a function from the paths of its nodes (non-empty key sequences) to a scalar or `MapNode`, and it holds every strict prefix of its paths as `MapNode`. A dotted override key is its path.

**State:**
- The inputs, chosen in `Init`: the kind of `variant['config']` (file, missing file, inline mapping, absent), whether `config_overrides` is present, the base document and the overrides in the dict's order.
- `pc`, the in-memory `cfg`, the override index `k`, the return value `out` and the temp `file`'s content.

**Actions:**
- `PrepareVariantConfig`: the branches of lines 63-98.
- `ApplyOverride`: one `_set_nested_key`, or the exception its `setdefault` raises on `None` or on a scalar.
- `WriteTempConfig`: `yaml.safe_dump` to the temp file.

**Reference.** `Overlay(doc, ovs)` states the overlay node by node. The last override whose path is, lies above or lies below a node decides it (`LastTouching`): its value, a mapping, or nothing. A node no override touches keeps its value.

**Assumption.** `InputsAssumption`: a document other than `NullDoc` is a function on key sequences, and every override's path is a key sequence. TLC evaluates it on every run of `MC_ConfigOverlay`.

### `IneffectiveConfig` (tools/detect_ineffective_config.py)

**Data abstraction.** A line of grep output is a record of what the script's substring tests see in it:
- `'Validate()'` or the literal `'if.*< 0'` or `'if.*=='`;
- `'Validate'`;
- `'SetDefaults()'`;
- `'SetDefaults'`;
- a functional keyword;
- whether it also matches `\.F\s*=`.

The record also holds the function the line is in. The script cannot see that, but it says what the tool means to detect. `SplitLines` appends the empty string that `split('\n')` leaves after grep's last newline. A `yaml:` line of `types.go` is a field name and the shape of its type.

**State:**
- `uses[f]`: the `\.f\b` grep output, chosen in `Init`.
- `i` over the `yaml:` lines.
- the `patterns` dict.
- the classification loop's visited set and the three reports.

**Actions:**
- `AnalyzeLine`: regex match, a new pattern, the three checks, and the dict insert that overwrites a duplicate name.
- `FinishAnalysis`.
- `ClassifyField`: the `if/elif/elif` on the score.
- `PrintReport`.

### `SummaryReport` and `Aggregator` (generic_benchmark.py, `generate_summary`)

**`SummaryReport`** is the contract, in one step per outcome:
- `summary.json` holds, for every variant, its success count, token and time sums and record count, over its own records. The averages are kept as sums over the count, so that they compare exactly.
- The recommendation is a variant that no other variant strictly improves on for the primary metric: success rate for `quality`, tokens for `cost`, time for `speed`.
- A run without records ends in an error.

**`Aggregator`** is the code step by step:
- `CollectVariants`: `list(set(...))` in any order, since Python randomises string hashes per process.
- `SummarizeVariant`: one loop iteration.
- `SaveSummary`.
- `Recommend`: `max`/`min` as a left fold that keeps the first of equal keys (`FirstBest`).
- `EmptyMaxFails` and `NoRecommendation`.

`Aggregator` instantiates `SummaryReport` with a refinement mapping:
- the abstract phase is `start` until the file is written, then `saved`;
- the abstract summary is the content of `summary.json` once written.

The loop steps map to stutters, `SaveSummary` maps to `WriteSummary`, and `Recommend` maps to `Recommend`.

### `SeqFold` (shared helpers)

`SeqFold` defines the three list operations the models share:
- `FoldPrefixes(Op, base, s)`: the function from `j` to the left fold of `Op` over the first `j` elements;
- `FoldSeq`: the fold of the whole list, used for `sum(...)` and for the `max()`/`min()` scan;
- `FilterSeq`: a list comprehension with an `if`, as a fold that appends.

They are the `FoldLeft` of `SequencesExt` and the `SelectSeq` of `Sequences`, rewritten as a recursive function (`LET F[j \in 0 .. Len(s)] == ...`). The library's versions reach a RECURSIVE operator, which tlapm cannot use, or cannot be unfolded by tlapm. With the rewrite, `IneffectiveConfig`, `SummaryReport` and `Aggregator` can all be reasoned about, and TLC computes the same values (the runs reach the same state counts as with the library operators).

## Runs

| run | cfg | result | what it shows |
|---|---|---|---|
| generic_core | `MC_GenericBenchmark.cfg` | pass, 1424 states | `TypeOK`, `SingleSubject`, `NoSubjectLeak`, `RecordsComplete` (on save, the records are exactly prepared pairs × units, in loop order), `Termination` |
| generic_hang | `MC_GenericBenchmark_hang.cfg` | violation | `Termination` fails when a subject ignores SIGTERM: `proc.wait()` has no timeout (line 172) |
| generic_isolation | `MC_GenericBenchmark_isolation.cfg` | violation | `FailureIsolation`: an exception in one unit aborts the run before `results.json` |
| behavioral_core | `MC_BehavioralSuite.cfg` | pass, 11585 states | `TypeOK`, `ServerConfinedToSuite` (only the running suite's server is alive, and only while the suite runs), `ResultsComplete`, `SavedSuitesComplete` (an action property: every `<config>_results.json` written holds its own configuration's complete suite, also in runs that die before the report; the mutant that swallows a test's exception breaks it), `Termination` even when subjects ignore SIGTERM or block on a full pipe |
| behavioral_zero_criteria | `MC_BehavioralSuite_zero.cfg` | violation | `ZeroCriteriaNotPassed`: zero criteria gives `passed = True` |
| behavioral_pipe | `MC_BehavioralSuite_pipe.cfg` | violation | `PipeNeverFull`: the subject's output pipe fills because nobody reads it |
| behavioral_summary | `MC_BehavioralSuite_summary.cfg` | violation | `SummaryWritten`: the `KeyError` on `reflection_config['avg_score']` (line 266) prevents `summary.json` whenever Baseline and Reflection Only both ran, which `main()` always does |
| overlay_core | `MC_ConfigOverlay.cfg` | pass, 246860 states | `FileOverlayCorrect`: for a config file, applying the overrides one by one with `setdefault` and assignment gives `Overlay(base, overrides)`. Missing mappings are created, a later shorter path replaces an earlier subtree, and every other node is kept. |
| overlay_empty_base | `MC_ConfigOverlay_empty.cfg` | violation | `EmptyBaseOverlay` (spec section 8): an inline config never gets its overrides (lines 91-96), and an empty YAML file loads as `None`, so `setdefault` raises |
| ineffective_core | `MC_IneffectiveConfig.cfg` | pass, 12943 states | `TypeOK`, `ReportedAreIneffective`: no reported field passes `is_effective()` |
| aggregator_refines | `MC_Aggregator.cfg` | pass, 164176 states | `AbsSpec`: `generate_summary` implements `SummaryReport`. The statistics are right and the recommendation is optimal, whatever order `list(set(...))` gives. |
| aggregator_empty | `MC_Aggregator_empty.cfg` | violation | `NoValueError`: a run without records crashes in `max()` after `summary.json` is written, although lines 268-271 guard empty input |

**Bounds.**

*Generic model:*
- Two variants, one provider, one scenario and two iterations. That makes two pairs (a second pair after a skipped or prepared first one) and two units per pair (the inner loop's step and its exit).
- Every subject status can occur at each call.
- `CanHang` is FALSE in the passing run, so the run asks whether the code terminates with well-behaved subjects. The hang run sets it to TRUE.

*Overlay model:*
- Keys `a` and `b`. Base documents: every tree of depth up to two with scalar 1, plus the empty file (122 documents).
- Overrides: up to two distinct paths of up to three keys with value 2. A path can be deeper than the base, lie above or below another path, or run into a scalar.
- This reaches every branch of `prepare_variant_config` and both exceptions of `_set_nested_key`.

*Ineffective-config model:*
- Two fields. `f1` is declared twice, so the second pattern overwrites the first. `f2` is declared as a pointer, so the regex skips it.
- Seven representative source lines, among them a value-returning `c.F = c.F.SetDefaults()`, and grep outputs of up to two lines per field.
- Every branch of the classification is reached, the defaults-only list included: a field whose only writes come from the `SetDefaults()` line and whose only reads are outside functional code lands there.

*Aggregator model:*
- Two variants.
- Records with or without success, tokens 0 or 1 and time 1 or 2, so every pair of means can be below, equal or above.
- Up to three records, the empty run included.
- The three objectives and one other metric.
- Ties, variants with no record, and both orders of the variant list all occur.

*Behavioral model:*
- Two configurations, Baseline and Reflection Only: the second server starts after the first is stopped, and the report's `KeyError` condition is met.
- Three tests: zero criteria, one criterion, and no criteria list.
- A pipe capacity of two answers, so a pipe can fill within a suite.

**Fairness.**
- `GenericBenchmark` assumes weak fairness of the harness (one Python thread that always runs) and of `SubjectExit`. A subject that honours SIGTERM does exit, and that is the premise of the hang run's contrast.
- `BehavioralSuite` assumes only weak fairness of the harness. `wait(timeout=5)` always returns, so termination needs nothing from the subjects.
- `ConfigOverlay`, `IneffectiveConfig` and `Aggregator` are sequential functions. Their runs check safety only, and their final states stutter.

Every property of a passing run has a mutant in `PROJECT.json`: a plausible bug in the mapped code that TLC catches with that property.

## Proofs

`GenericBenchmarkProofs` proves the following for all values of the constants, assuming only `CountsAssumption` (the four counts are naturals and `CanHang` is Boolean):
- `Spec => []IInv`
- `TypeCorrect`
- `SingleSubjectInvariant`
- `NoSubjectLeakInvariant`

`SingleSubject` is not inductive by itself: a step of `StartServer` could follow a state in which an earlier subject is still alive. The inductive invariant `IInv` therefore conjoins three parts:
- `TypeOK`;
- `IndexInv`: the loop indices are in range in each `pc`, there is a subject during a call, and there is an outcome once the call has run;
- `LiveOnlyCurrent`: only the last-started subject may be alive, and only while `pc` is `call`, `terminate` or `wait`.

`LiveOnlyCurrent` implies both `SingleSubject` and `NoSubjectLeak`. The proof of `[Next]` preserving `IInv` has one step per action, with a sub-step per disturbed conjunct.

`BehavioralSuiteProofs` proves `IInvInvariant`, `TypeCorrect` and `ServerConfinedInvariant` for every value of the constants, assuming `ConstantsAssumption`:
- `NC` is positive.
- `Criteria` is a sequence of naturals and `NoList`.
- `PipeCap` is positive.

Its inductive invariant adds `IndexInv` to `ServerConfinedToSuite`:
- while the loop runs, `t` is a test;
- from `StartServer` until the server is stopped, there is a server.

Preserving `ServerConfinedToSuite` rests on a few steps:
- `StartServer` runs only when no server is alive, and the server it appends is the last one.
- `StopWait` leaves the last server exited, whichever branch (exit or `kill()`) it takes.
- A subject step never makes a process alive again.

`GenericBenchmarkProofs` also proves `RecordsCompleteInvariant` (`Spec => []RecordsComplete`) for every value of the constants. `RecordsComplete` only speaks of the state after `SaveResults`, so it is not inductive. Its strengthening `RecordsInv` (in `GenericBenchmark`) says where `all_results` stands in each `pc`:
- the keys `<<pair, unit>>` of the records are strictly increasing (`SortedKeys`);
- at `load`/`prepare`, the keys are exactly the units of the prepared pairs before pair `k` (`Before(prepared, k, 1)`), and `k` is not yet prepared;
- from `start` to `wait`, the keys are exactly those before the position `<<k, u>>`, and `k` is prepared;
- every record precedes the current position (`AllBefore`), and the pending record is the one of that position;
- from `save` on, the keys are `prepared \X Units`.

TLC checked `RecordsInv` as an invariant before the proof. The step proof has one case per action; the work is in `WaitServer`, where the appended record moves the position to the next unit, the next pair or the end. Lemmas on `Before` (`BeforeNextUnit`, `BeforeNextPair`, `BeforeSkipPair`, `BeforeAddCurrent`, `BeforeAll`) state each of those moves as a set equality. `AppendKeys` and `AppendOrdered` state what `Append` does to the keys and their order. `Before` takes the set of prepared pairs as a parameter, so that its primed form is the same operator applied to `prepared'`.

`IneffectiveConfigProofs` proves `ReportedIneffectiveInvariant` (`Spec => []ReportedAreIneffective`) for every `types.go` and every grep output, assuming `ConstantsAssumption`. The inductive invariant conjoins `LoopInv` and `ReportedAreIneffective`. `LoopInv` says:
- the reports are subsets of the classified names;
- nothing is classified while the analysis runs;
- the two flags of every stored pattern are Boolean.

The key lemma `LowScoreIneffective` says that a pattern whose score is below 10 has no logic use, no passed use and no method, so `is_effective()` is false. The module also proves `TypeCorrect` (`Spec => []TypeOK`): every stored pattern is a `Pattern`. The filtered grep lines stay lines by `FilterSeqType`, and the lemmas `ValidationUpdateType`, `DefaultsUpdateType` and `LogicUpdateType` show that each of the three checks keeps a pattern a `Pattern`.

`BehavioralSuiteProofs` also proves `ResultsCompleteInvariant` (`Spec => []ResultsComplete`) and the action property `SavedSuitesCompleteHolds` (`Spec => SavedSuitesComplete`). `ResultsComplete` only speaks of the state at `report`, so it is not inductive. Its strengthening `SuiteInv` (in `BehavioralSuite`) ties the saved results and the running suite to the loop indices:
- every saved suite lists the tests `1 .. NT` in order (`SuiteInOrder`);
- while configuration `c` runs, `allResults` holds `c - 1` suites, and `NC` at `report`;
- the running suite lists tests `1, 2, ...` in order (`InOrder`), with `t - 1` of them while the tests run;
- no exception is pending from `load` to `save`, and a suite that raised nothing holds all `NT` tests once the server is being stopped.

TLC checked `SuiteInv` as an invariant before the proof, also with no tests, with a test without criteria, and with one configuration. The lemma `InOrderAppend` says that appending the record of test `Len(s) + 1` keeps a suite in order. `RecordsNameTest` says that both kinds of record `run_test` produces name the current test. For `SavedSuitesComplete`, the lemma `OnlySaveWrites` says that only `SaveSuiteResults` changes `allResults`, and `SuiteInv` gives the saved suite's length and order at `save`.

`ConfigOverlayProofs` proves `FileOverlayCorrectInvariant` (`Spec => []FileOverlayCorrect`) for all keys, values, base documents and overrides, assuming `InputsAssumption`. `Overlay` describes a whole sequence of overrides at once. The override loop is tied to it by the inductive invariant `OverlayInv` (in `ConfigOverlay`): while the loop runs, `cfg` is the overlay of the first `k - 1` overrides on the file's content. TLC checked `OverlayInv` on the `overlay_core` instance before the proof. The induction over the overrides is the induction of the invariant over the loop's steps, so no induction theorem with an operator parameter is needed. The work is in the lemma `OverlayStep`: when `_set_nested_key` gets through (`CanDescend`), `SetNestedKey(Overlay(doc, ovs), o.path, o.value) = Overlay(doc, Append(ovs, o))`. Its proof goes node by node:
- a node that `o` touches has `o` as its last touching override (`TouchingAppend`): it is `o`'s value, a mapping above it, or gone below it; `CanDescend` shows that the mappings above were already mappings;
- any other node keeps its touching overrides, and so its value and membership.

`LastTouching` is defined by CHOOSE. `LastTouchingMax` shows that the chosen index is the greatest touching one. It rests on `MaxExists`, derived from `WFMin` and `NatLessThanWellFounded` of `WellFoundedInduction`, which take no operator parameter. `PrefixShorter` and `BelowOrder` compare path lengths to separate a path, its prefixes and the nodes below it.

`SeqFoldProofs` states the facts about the folds that the other proofs cite:
- `FoldPrefixesFix`: the recursive function exists and satisfies its defining equation, for any `Op`. A partial solution on `0 .. m` exists for every `m`, because the least `m` without one would have one built from `m - 1`.
- `FoldPrefixesBase` and `FoldPrefixesStep`: the equation split into the base and the step, in a form in which tlapm instantiates `Op` with the LAMBDA of a use.
- `FoldPrefixesType` and `FoldSeqType`: a fold of an operator closed on `S` stays in `S`.
- `FilterSeqType`: a filtered list keeps its element type.
- `FilterSeqNonEmpty`: a filtered list is non-empty when some element passes the test. It rests on `AppendsNonEmpty`.

The induction in each of these is a least counterexample (`LeastNat`, from `WFMin`), since the library's induction theorems take an operator parameter.

`AggregatorProofs` proves `Refinement` (`Spec => AbsSpec`): `generate_summary` implements `SummaryReport` for every set of variants, every list of records satisfying `AggregatorAssumption`, and every order of the variant list. The argument:
- **Inductive invariant `IInv`** (TLC checked it on the `aggregator_refines` instance first):
  - from `CollectVariants` on, `order` lists exactly `set(...)`;
  - during the loop, the summary dict holds `VariantStats` for exactly `order[1 .. j-1]` (`Done`);
  - from `SaveSummary` on, `summary.json` holds `Summarize(results)`.
- **Initial states:** `InitRefines`.
- **Steps:** `NextRefines` maps each step:
  - the loop steps are stutters;
  - `SaveSummary` is `WriteSummary`, because at the loop's end `Done` is the whole variant set (`OrderCovers`);
  - `EmptyMaxFails` is `EmptyRunFails`, because an empty list means an empty set;
  - `Recommend` is `Recommend`, by `RecommendOptimal`.
- **The recommendation:** `RecommendOptimal` rests on `FirstBestOptimal` and `ScanOptimal`.
  - After each prefix, the scan of `max()`/`min()` holds a variant that no variant of the prefix improves on.
  - When a later variant replaces it, the earlier ones do not improve on the newcomer, by `ImprovesTrans`.
  - `ImprovesTrans` is transitivity of the cross-multiplied comparison of means (`CrossTrans`). It needs positive counts, and `StatsType` gives them: every variant of `set(...)` has at least one record, by `FilterSeqNonEmpty`.

Only model-checked:
- liveness (`Termination`), because TLAPS does not prove liveness under fairness or ENABLED;
- `EmptyBaseOverlay`, `NoValueError` and the other properties of violation runs, which state what the code does not do.

## Plan

1. Done:
   - `GenericBenchmark` and `BehavioralSuite`, with their runs, mutants and proofs;
   - `ConfigOverlay`, checked against a per-node reference overlay and proved correct;
   - `IneffectiveConfig`, with its proof;
   - `SummaryReport`, implemented by `Aggregator`;
   - the proofs of `RecordsComplete`, `ResultsComplete`, `SavedSuitesComplete` and `FileOverlayCorrect`;
   - the proofs of `TypeOK` of `IneffectiveConfig` and of the refinement of `SummaryReport` by `Aggregator`.
2. Next: model the per-scenario and per-iteration averages of the comparison report, which `SummaryReport` leaves out.
3. Next: prove that `SetNestedKey` keeps a document a tree (every strict prefix of a node is a mapping), so that `Overlay` of a tree is a tree.
4. Next: a refinement of `GenericBenchmark`'s record collection by an abstract "one record per unit" specification.

## Not modelled

- The report utilities (pure reading and printing).
- Text formatting, and YAML and JSON as text: a document is a tree of paths, and a record is the fields the summary reads.
- The regular expressions of metric extraction: a metric is a number or the zero sentinel.
- The subject's internals.
- In `detect_ineffective_config.py`, the regular expression of line 83 and the substring tests of lines 107, 118 and 133-134 are modelled by what they return on a line, not character by character. `read_in_method` and `passed_to_function` are never filled by the script, so they stay empty. Their consequences are listed as hazards: the empty string in `written_to`, and the `Name *T` fields the regular expression misses.
