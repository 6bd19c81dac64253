---------------------------- MODULE Benchmarker ----------------------------
(***************************************************************************)
(* The toolset's main program (run-tests.py, benchmark/benchmarker.py,     *)
(* utils/docker_helper.py, utils/results.py): one test after the other is  *)
(* built, started, verified and benchmarked in Docker containers.          *)
(*                                                                         *)
(* Every call that can fail is a step.  Python exceptions are modelled by  *)
(* Raise, with the try statement of __run_test and the one of main.  A     *)
(* signal runs Benchmarker.stop at any point, and what stop raises         *)
(* surfaces at that point.                                                 *)
(***************************************************************************)
EXTENDS Naturals, Sequences, FiniteSets

CONSTANTS
    NumTests,   \* len(self.tests)
    Types,      \* test types that every test implements
    Modes,      \* values of config.mode to be considered
    MaxSignals  \* bound on the number of SIGINT and SIGTERM

ASSUME BenchmarkerAssumption ==
    /\ NumTests \in Nat \ {0} /\ MaxSignals \in Nat
    /\ IsFiniteSet(Types) /\ Types # {}
    /\ Modes \subseteq {"verify", "benchmark", "debug"}

Tests == 1..NumTests

Kinds == {"app", "db", "wrk"}

Unreadable == [completed |-> <<>>, verify |-> <<>>]  \* json.load refuses it

VARIABLES
    config,     \* mode, exclude, which tests use a database, is_multi_setup
    pc,
    test,       \* index of the current test; 0 before the loop
    exc,        \* "none", "exception" or "exit": raised while in finally
    success,    \* what __run_test is about to return
    running,    \* kinds of containers that run
    dool,       \* number of resource loggers that run
    left,       \* test types still to be benchmarked
    results,    \* self.results: completed and verify
    file,       \* results.json
    io_failed,  \* has a write of results.json failed?
    any_failed,
    signals,    \* how many signals there were
    after_stop, \* was a test started after Benchmarker.stop was called?
    code        \* exit code of the process, NoCode while it runs

vars == <<config, pc, test, exc, success, running, dool, left, results, file,
          io_failed, any_failed, signals, after_stop, code>>

NoCode == 99

NoResults ==
    [completed |-> [t \in Tests |-> "none"],
     verify |-> [t \in Tests |-> [y \in Types |-> "none"]]]

Init ==
    /\ config \in [mode : Modes, exclude : SUBSET Tests, db : SUBSET Tests,
                   multi : BOOLEAN]
    /\ pc = "setup" /\ test = 0
    /\ exc = "none" /\ success = TRUE
    /\ running = {} /\ dool = 0 /\ left = {}
    /\ results = NoResults /\ file = Unreadable /\ io_failed = FALSE
    /\ any_failed = FALSE
    /\ signals = 0 /\ after_stop = FALSE
    /\ code = NoCode

testVars == <<config, test, signals, after_stop>>
dockerVars == <<running, dool>>
resultVars == <<results, file, io_failed>>
exitVars == <<exc, success, any_failed, code>>

-----------------------------------------------------------------------------
(* Exceptions.                                                             *)

InTry == {"database", "dbwait", "build", "run", "accept", "debug", "verify",
          "bench", "wrk", "record", "exit_in_try"}
InExcept == {"except", "exit_in_except"}

\* Out of run and into main, which catches Exception but not SystemExit.
Propagate(e) ==
    IF e = "exit" THEN pc' = "done" /\ code' = 0
                  ELSE pc' = "fatal" /\ UNCHANGED code

\* e ("exception" or "exit") is raised at the current pc.
Raise(e) ==
    \/ /\ pc \in InTry /\ e = "exception"
       /\ pc' = "except" /\ UNCHANGED <<exc, code>>
    \/ /\ (pc \in InTry /\ e = "exit") \/ pc \in InExcept
       /\ pc' = "finally" /\ exc' = e /\ UNCHANGED code
    \/ /\ pc \notin InTry \union InExcept \union {"fatal"}
       /\ Propagate(e) /\ UNCHANGED exc
    \/ /\ pc = "fatal"
       /\ pc' = "done" /\ code' = 1 /\ UNCHANGED exc

\* A call raises an exception and has changed nothing that is modelled.
Fails ==
    /\ Raise("exception")
    /\ UNCHANGED <<testVars, dockerVars, left, resultVars, success, any_failed>>

-----------------------------------------------------------------------------
(* docker_helper.stop: the containers of one host after the other are      *)
(* stopped, and then the hosts are pruned; listing or pruning can raise.   *)

\* What runs after the hosts were visited in order as far as the n-th.
Visited(n) ==
    IF config.multi
    THEN running \ (CASE n = 0 -> {} [] n = 1 -> {"app"}
                      [] n = 2 -> {"app", "db"} [] n = 3 -> Kinds)
    ELSE IF n = 0 THEN running ELSE {}

\* The containers left behind, and whether an exception was raised.
StopOutcomes ==
    {<<Visited(n), TRUE>> : n \in 0..3} \union {<<Visited(3), FALSE>>}

-----------------------------------------------------------------------------
(* results                                                                 *)

\* __write_results: the file is written, or it cannot be opened, or it is
\* truncated and the write fails.
WriteResults ==
    \/ file' = results' /\ UNCHANGED io_failed
    \/ io_failed' = TRUE /\ file' \in {file, Unreadable}

WriteIntermediate(message) ==
    /\ results' = [results EXCEPT !.completed[test] = message]
    /\ WriteResults

-----------------------------------------------------------------------------
(* run, and __run_test up to its try statement                             *)

\* build_wrk and build_databases
Setup ==
    /\ pc = "setup"
    /\ \/ Fails
       \/ /\ pc' = "next"
          /\ UNCHANGED <<testVars, dockerVars, left, resultVars, exitVars>>

\* The next test; one that is excluded is only recorded.
NextTest ==
    /\ pc = "next" /\ test < NumTests
    /\ test' = test + 1
    /\ after_stop' = (signals > 0)
    /\ exc' = "none" /\ success' = TRUE
    /\ pc' = IF test' \in config.exclude THEN "excluded" ELSE "database"
    /\ UNCHANGED <<config, signals, dockerVars, left, resultVars, any_failed, code>>

Excluded ==
    /\ pc = "excluded"
    /\ WriteIntermediate("error")
    /\ success' = FALSE
    /\ pc' = "exit_test"
    /\ UNCHANGED <<testVars, dockerVars, left, exc, any_failed, code>>

-----------------------------------------------------------------------------
(* The try statement of __run_test.                                        *)

\* start_database: the container is started...
StartDatabase ==
    /\ pc = "database"
    /\ \/ /\ test \notin config.db
          /\ pc' = "build" /\ UNCHANGED <<running, exitVars>>
          /\ UNCHANGED <<testVars, dool, left, resultVars>>
       \/ /\ test \in config.db
          /\ running' = running \union {"db"}
          /\ pc' = "dbwait"
          /\ UNCHANGED <<testVars, dool, left, resultVars, exitVars>>
       \/ test \in config.db /\ Fails

\* ... and it accepts connections, or max_sleep is over.
WaitForDatabase ==
    /\ pc = "dbwait"
    /\ pc' = "build"
    /\ UNCHANGED <<testVars, dockerVars, left, resultVars, exitVars>>

\* The test cannot be started or does not accept requests.
GiveUp ==
    /\ WriteIntermediate("error")
    /\ success' = FALSE
    /\ pc' = "exit_in_try"
    /\ UNCHANGED <<testVars, left, dool, exc, any_failed, code>>

\* docker_helper.build
Build ==
    /\ pc = "build"
    /\ \/ GiveUp /\ UNCHANGED running
       \/ /\ pc' = "run"
          /\ UNCHANGED <<testVars, dockerVars, left, resultVars, exitVars>>

\* docker_helper.run
Run ==
    /\ pc = "run"
    /\ \/ GiveUp /\ UNCHANGED running
       \/ /\ running' = running \union {"app"}
          /\ pc' = "accept"
          /\ UNCHANGED <<testVars, dool, left, resultVars, exitVars>>

\* The test accepts requests, or max_time is over, or its container is gone.
Accept ==
    /\ pc = "accept"
    /\ \/ GiveUp /\ UNCHANGED running
       \/ /\ "app" \in running
          /\ pc' = IF config.mode = "debug" THEN "debug" ELSE "verify"
          /\ UNCHANGED <<testVars, dockerVars, left, resultVars, exitVars>>

\* The container of the test ends by itself.
ContainerDies ==
    /\ "app" \in running
    /\ running' = running \ {"app"}
    /\ UNCHANGED <<pc, dool, testVars, left, resultVars, exitVars>>

\* verify_urls, which also tells results, and audit_test_dir.
Verify ==
    /\ pc = "verify"
    /\ \/ Fails
       \/ \E verdict \in [Types -> {"pass", "warn", "fail"}] :
            /\ "app" \notin running => \A y \in Types : verdict[y] = "fail"
            /\ results' = [results EXCEPT !.verify[test] = verdict]
            /\ left' = IF config.mode = "benchmark" THEN Types ELSE {}
            /\ pc' = "bench"
            /\ UNCHANGED <<testVars, dockerVars, file, io_failed, exitVars>>

Passed == \A y \in Types : results.verify[test][y] # "fail"

\* __begin_logging and __end_logging: the process dool.
BeginLogging == dool' = dool + 1
EndLogging == dool' = dool - 1

\* benchmark_type for a type that failed its verification.
SkipType ==
    /\ pc = "bench"
    /\ \E y \in left : results.verify[test][y] = "fail" /\ left' = left \ {y}
    /\ \/ UNCHANGED <<pc, exitVars>>
       \/ Raise("exception") /\ UNCHANGED <<success, any_failed>>
    /\ UNCHANGED <<testVars, dockerVars, resultVars>>

\* benchmark_type up to the start of the wrk container: __begin_logging, and
\* docker_helper.benchmark.
BeginType ==
    /\ pc = "bench"
    /\ \E y \in left : results.verify[test][y] # "fail" /\ left' = left \ {y}
    /\ \/ /\ BeginLogging
          /\ running' = running \union {"wrk"}
          /\ pc' = "wrk"
          /\ UNCHANGED exitVars
       \/ /\ BeginLogging \/ UNCHANGED dool
          /\ Raise("exception")
          /\ UNCHANGED <<running, success, any_failed>>
    /\ UNCHANGED <<testVars, resultVars>>

\* The wrk container ends, __end_logging, and the output is parsed.
EndType ==
    /\ pc = "wrk"
    /\ running' = running \ {"wrk"}
    /\ EndLogging
    /\ \/ pc' = "bench" /\ UNCHANGED exitVars
       \/ Raise("exception") /\ UNCHANGED <<success, any_failed>>
    /\ UNCHANGED <<testVars, left, resultVars>>

EndTypes ==
    /\ pc = "bench" /\ left = {}
    /\ pc' = "record"
    /\ UNCHANGED <<testVars, dockerVars, left, resultVars, exitVars>>

\* Mutant of Record: a failed verification is only logged.
RecordAlways ==
    /\ pc = "record"
    /\ WriteIntermediate("ok")
    /\ pc' = "finally"
    /\ UNCHANGED <<testVars, dockerVars, left, exitVars>>

\* The test is recorded; in mode "verify" it counts as failed if it failed.
Record ==
    /\ pc = "record"
    /\ WriteIntermediate("ok")
    /\ IF config.mode = "verify" /\ ~Passed
       THEN pc' = "exit_in_try" /\ success' = FALSE
       ELSE pc' = "finally" /\ UNCHANGED success
    /\ UNCHANGED <<testVars, dockerVars, left, exc, any_failed, code>>

\* Mutant of Except: the error is logged but not recorded.
ExceptUnrecorded ==
    /\ pc = "except"
    /\ success' = FALSE
    /\ pc' = "exit_in_except"
    /\ UNCHANGED <<testVars, dockerVars, left, resultVars, exc, any_failed, code>>

\* The except clause.
Except ==
    /\ pc = "except"
    /\ WriteIntermediate("error")
    /\ success' = FALSE
    /\ pc' = "exit_in_except"
    /\ UNCHANGED <<testVars, dockerVars, left, exc, any_failed, code>>

\* __exit_test in the try statement: in mode "benchmark" images are removed,
\* which can raise.
ExitInTry ==
    /\ pc \in {"exit_in_try", "exit_in_except"}
    /\ \/ config.mode = "benchmark" /\ Fails
       \/ /\ pc' = "finally"
          /\ UNCHANGED <<testVars, dockerVars, left, resultVars, exitVars>>

\* Mutant of Finally: the containers are stopped only after a failure.
FinallyOnFailure ==
    /\ pc = "finally"
    /\ running' = IF success /\ exc = "none" THEN running ELSE {}
    /\ IF exc # "none" THEN Propagate(exc)
       ELSE pc' = (IF success THEN "exit_test" ELSE "after") /\ UNCHANGED code
    /\ UNCHANGED <<testVars, dool, left, resultVars, exc, success, any_failed>>

\* The finally clause.  What it raises replaces what was raised before.
Finally ==
    /\ pc = "finally"
    /\ \E out \in StopOutcomes :
          /\ running' = out[1]
          /\ IF out[2] THEN Propagate("exception")
             ELSE IF exc # "none" THEN Propagate(exc)
             ELSE pc' = (IF success THEN "exit_test" ELSE "after") /\ UNCHANGED code
    /\ UNCHANGED <<testVars, dool, left, resultVars, exc, success, any_failed>>

\* __exit_test outside of the try statement.
ExitTest ==
    /\ pc = "exit_test"
    /\ \/ config.mode = "benchmark" /\ Fails
       \/ /\ pc' = "after"
          /\ UNCHANGED <<testVars, dockerVars, left, resultVars, exitVars>>

\* Mutant of AfterTest: a test that failed is tried again.
AfterTestRetry ==
    /\ pc = "after"
    /\ test' = IF success THEN test ELSE test - 1
    /\ results' = IF file = Unreadable THEN results ELSE file
    /\ pc' = "next"
    /\ UNCHANGED <<config, signals, after_stop, dockerVars, left, file, io_failed,
                   exitVars>>

\* The rest of the loop in run: any_failed, and results.load.
AfterTest ==
    /\ pc = "after"
    /\ any_failed' = (any_failed \/ ~success)
    /\ results' = IF file = Unreadable THEN results ELSE file
    /\ pc' = "next"
    /\ UNCHANGED <<testVars, dockerVars, left, file, io_failed, exc, success, code>>

\* parse, set_completion_time and finish; the exit code of main.
Finish ==
    /\ pc = "next" /\ test = NumTests
    /\ \/ config.mode = "benchmark" /\ Fails
       \/ /\ UNCHANGED results /\ WriteResults
          /\ pc' = "done"
          /\ code' = IF config.mode = "verify" /\ any_failed THEN 1 ELSE 0
          /\ UNCHANGED <<testVars, dockerVars, left, exc, success, any_failed>>

\* The except clause of main: stop raises SystemExit, or an exception.
Fatal ==
    /\ pc = "fatal"
    /\ \E out \in StopOutcomes : running' = out[1]
    /\ pc' = "done" /\ code' = 1
    /\ UNCHANGED <<testVars, dool, left, resultVars, exc, success, any_failed>>

-----------------------------------------------------------------------------
\* Places from which a bare "except:" is entered: log, test_connection,
\* server_container_exists and __stop_container.
Swallowing == {"setup", "next", "excluded", "dbwait", "build", "run", "accept",
               "verify", "bench", "record", "exit_in_try", "except",
               "exit_in_except", "finally", "exit_test", "fatal"}

\* SIGINT or SIGTERM: Benchmarker.stop is called, and what it raises is
\* raised where the main program is, or is swallowed there.
Signal ==
    /\ pc # "done" /\ signals < MaxSignals
    /\ signals' = signals + 1
    /\ \E out \in StopOutcomes :
          /\ running' = out[1]
          /\ \/ Raise(IF out[2] THEN "exception" ELSE "exit")
             \/ pc \in Swallowing /\ UNCHANGED <<pc, exc, code>>
    /\ UNCHANGED <<config, test, after_stop, dool, left, resultVars, success,
                   any_failed>>

Step ==
    \/ Setup \/ NextTest \/ Excluded \/ StartDatabase \/ WaitForDatabase
    \/ Build \/ Run \/ Accept \/ Verify
    \/ SkipType \/ BeginType \/ EndType \/ EndTypes
    \/ Record \/ Except \/ ExitInTry \/ Finally \/ ExitTest \/ AfterTest
    \/ Finish \/ Fatal

Next == Step \/ ContainerDies \/ Signal

Spec == Init /\ [][Next]_vars

\* Every call of the main program ends: docker's have timeouts.
FairSpec == Spec /\ WF_vars(Step)

-----------------------------------------------------------------------------
(* Properties.                                                             *)

\* "ultimately stops all services started for this test": when the next test
\* is about to start, and when the program ends with code 0, no container of
\* an earlier test runs.
ServicesStopped ==
    pc = "next" \/ (pc = "done" /\ code = 0) => running = {}

\* Continuous integration reads the exit code: 0 in mode "verify" means that
\* every test was run and that no type of it failed, unless the run was
\* interrupted.
CodeMeansVerified ==
    pc = "done" /\ code = 0 /\ config.mode = "verify" /\ signals = 0 /\ ~io_failed
        => \A t \in Tests, y \in Types : results.verify[t][y] \in {"pass", "warn"}

\* Whatever fails on the way, results.json tells what became of every test
\* that was started, when the next one starts and when a run that was not
\* interrupted ends.
AllRecorded ==
    /\ pc = "next" \/ (pc = "done" /\ signals = 0)
    /\ ~io_failed
    => \A t \in 1..test : file # Unreadable /\ file.completed[t] # "none"

\* The main program ends, except in debug mode, which waits for a signal.
EventuallyDone == config.mode # "debug" => <>(pc = "done")

\* "Shutting down (may take a moment)" (benchmarker.py:84): once stop was
\* called, no further test is started.
StopIsFinal == ~after_stop

=============================================================================
