------------------------- MODULE BenchmarkerProofs -------------------------
(***************************************************************************)
(* Proofs about the toolset's main program, for any number of tests, test  *)
(* types and signals: no container outlives its test, results.json tells   *)
(* what became of every test, and exit code 0 of a verification means that *)
(* everything was verified.                                                *)
(***************************************************************************)
EXTENDS Benchmarker, TLAPS

Completions == {"none", "ok", "error"}
Verdicts == {"none", "pass", "warn", "fail"}
Results == [completed : [Tests -> Completions], verify : [Tests -> [Types -> Verdicts]]]

Places == {"setup", "next", "excluded", "exit_test", "after", "fatal", "done", "finally"}
          \union InTry \union InExcept

\* Types, and that there is a current test wherever one is worked on.
TypeInv ==
    /\ config \in [mode : Modes, exclude : SUBSET Tests, db : SUBSET Tests,
                   multi : BOOLEAN]
    /\ pc \in Places
    /\ test \in 0..NumTests
    /\ pc = "setup" => test = 0
    /\ pc \notin {"setup", "next", "fatal", "done"} => test \in Tests
    /\ exc \in {"none", "exception", "exit"} /\ success \in BOOLEAN
    /\ running \in SUBSET Kinds
    /\ left \in SUBSET Types
    /\ results \in Results /\ file \in Results \union {Unreadable}
    /\ io_failed \in BOOLEAN /\ any_failed \in BOOLEAN
    /\ signals \in Nat /\ code \in {NoCode, 0, 1}

\* Outside the try statement of __run_test no container runs, nor after a
\* program that ended with code 0.
Stopped ==
    /\ pc \in {"setup", "next", "excluded", "exit_test", "after"} => running = {}
    /\ pc = "done" /\ code = 0 => running = {}

\* Places at which the current test has its entry in the results.  A signal can
\* lead to finally, and from there to the end, without it.
Settled ==
    \/ pc \in {"exit_in_try", "exit_in_except", "exit_test", "after", "next"}
    \/ pc = "finally" /\ (exc = "none" \/ signals = 0)
    \/ pc \in {"fatal", "done"} /\ signals = 0

\* As long as no write failed: every earlier test has its entry, the file has
\* the entries of the results in memory, and all of the results where the
\* current test is settled.
Recorded ==
    ~io_failed =>
        /\ \A t \in 1..(test - 1) : results.completed[t] # "none"
        /\ file = Unreadable => \A t \in Tests : results.completed[t] = "none"
        /\ file # Unreadable => file.completed = results.completed
        /\ Settled /\ test \in Tests =>
             results.completed[test] # "none" /\ file = results

Fine(t) == \A y \in Types : results.verify[t][y] \in {"pass", "warn"}

\* In mode "verify", as long as no write failed and nobody interrupted: success
\* and any_failed, from which the exit code is made, tell what the verdicts say.
Verified ==
    config.mode = "verify" /\ signals = 0 /\ ~io_failed =>
        /\ ~any_failed => \A t \in 1..(test - 1) : Fine(t)
        /\ pc \in {"bench", "wrk", "record"} =>
             \A y \in Types : results.verify[test][y] # "none"
        /\ pc \in {"exit_in_try", "exit_in_except"} => ~success
        /\ pc \in {"finally", "exit_test", "after"} /\ success => Fine(test)
        /\ pc = "next" /\ ~any_failed /\ test \in Tests => Fine(test)
        /\ exc # "exit"
        /\ pc = "done" /\ code = 0 => \A t \in Tests : Fine(t)

\* The inductive invariant.
IInv == TypeInv /\ Stopped /\ Recorded /\ Verified

-----------------------------------------------------------------------------
(* What the parts of the actions do.                                       *)

\* The program starts with nothing running and nothing recorded.
LEMMA InitIInv == Init => IInv
<1> SUFFICES ASSUME Init PROVE IInv
  OBVIOUS
<1>1. NoResults \in Results
  BY DEF NoResults, Results, Completions, Verdicts
<1>2. TypeInv
  <2>1. test \in 0..NumTests /\ signals \in Nat
    BY BenchmarkerAssumption DEF Init
  <2>2. config \in [mode : Modes, exclude : SUBSET Tests, db : SUBSET Tests, multi : BOOLEAN]
    BY DEF Init
  <2>3. pc = "setup" /\ test = 0 /\ pc \in Places
    BY DEF Init, Places
  <2>4. success \in BOOLEAN /\ io_failed \in BOOLEAN /\ any_failed \in BOOLEAN
    BY DEF Init
  <2>5. exc \in {"none", "exception", "exit"} /\ running \in SUBSET Kinds /\ left \in SUBSET Types
    BY DEF Init
  <2>6. results \in Results /\ file \in Results \union {Unreadable} /\ code \in {NoCode, 0, 1}
    BY <1>1 DEF Init
  <2> QED
    BY <2>1, <2>2, <2>3, <2>4, <2>5, <2>6 DEF TypeInv
<1>3. Stopped /\ Recorded /\ Verified
  BY <1>1, BenchmarkerAssumption
  DEF Init, Stopped, Recorded, Verified, NoResults, Settled, Tests, Fine
<1> QED
  BY <1>2, <1>3 DEF IInv

\* Results that json.load accepts are told apart from what it refuses.
LEMMA ReadableResults ==
  ASSUME NEW x \in Results
  PROVE  /\ x # Unreadable
         /\ x.completed \in [Tests -> Completions]
         /\ x.verify \in [Tests -> [Types -> Verdicts]]
<1>1. 1 \in Tests
  BY BenchmarkerAssumption DEF Tests
<1>2. x.completed \in [Tests -> Completions] /\ x.verify \in [Tests -> [Types -> Verdicts]]
  BY DEF Results
<1>3. x.completed # <<>>
  BY <1>1, <1>2
<1> QED
  BY <1>2, <1>3 DEF Unreadable

\* write_intermediate: only the entry of the current test changes, and unless
\* the write fails the file has the results.
LEMMA WriteFacts ==
  ASSUME TypeInv, test \in Tests, NEW m \in {"ok", "error"}, WriteIntermediate(m)
  PROVE  /\ results' \in Results /\ file' \in Results \union {Unreadable}
         /\ io_failed' \in BOOLEAN
         /\ results'.verify = results.verify
         /\ results'.completed[test] # "none"
         /\ \A t \in Tests : results.completed[t] # "none" => results'.completed[t] # "none"
         /\ ~io_failed' => ~io_failed /\ file' = results' /\ file' # Unreadable
<1>1. results \in Results /\ file \in Results \union {Unreadable} /\ io_failed \in BOOLEAN
  BY DEF TypeInv
<1>2. results' = [results EXCEPT !.completed[test] = m]
  BY DEF WriteIntermediate
<1>3. /\ results' \in Results /\ results'.verify = results.verify
      /\ results'.completed = [results.completed EXCEPT ![test] = m]
  BY <1>1, <1>2 DEF Results, Completions
<1>4. results'.completed[test] = m /\ \A t \in Tests \ {test} : results'.completed[t] = results.completed[t]
  BY <1>1, <1>3 DEF Results
<1>5. results' # Unreadable
  BY <1>3, ReadableResults
<1> QED
  BY <1>1, <1>3, <1>4, <1>5 DEF WriteIntermediate, WriteResults

\* docker_helper.stop leaves a part of what ran, and nothing if it returns.
LEMMA StopFacts ==
  ASSUME TypeInv, NEW out \in StopOutcomes
  PROVE  /\ out[1] \subseteq running
         /\ ~out[2] => out[1] = {}
         /\ out[2] \in BOOLEAN
<1>1. running \subseteq Kinds /\ config.multi \in BOOLEAN
  BY DEF TypeInv
<1>2. ASSUME NEW n \in 0..3 PROVE Visited(n) \subseteq running /\ (n = 3 => Visited(n) = {})
  <2>1. n = 0 \/ n = 1 \/ n = 2 \/ n = 3
    OBVIOUS
  <2> QED
    BY <1>1, <2>1 DEF Visited, Kinds
<1>3. CASE \E n \in 0..3 : out = <<Visited(n), TRUE>>
  <2>1. PICK n \in 0..3 : out = <<Visited(n), TRUE>>
    BY <1>3
  <2>2. out[1] = Visited(n) /\ out[2] = TRUE
    BY <2>1
  <2> QED
    BY <1>2, <2>2
<1>4. CASE out = <<Visited(3), FALSE>>
  <2>1. out[1] = Visited(3) /\ out[2] = FALSE
    BY <1>4
  <2>2. Visited(3) \subseteq running /\ Visited(3) = {}
    BY <1>2
  <2> QED
    BY <2>1, <2>2
<1> QED
  BY <1>3, <1>4 DEF StopOutcomes

\* A test that write_intermediate was called for has its entry.
LEMMA WriteRecorded ==
  ASSUME TypeInv, Recorded, test \in Tests, NEW m \in {"ok", "error"},
         WriteIntermediate(m), UNCHANGED test
  PROVE  Recorded'
<1>1. /\ results'.completed[test] # "none"
      /\ \A t \in Tests : results.completed[t] # "none" => results'.completed[t] # "none"
      /\ ~io_failed' => ~io_failed /\ file' = results' /\ file' # Unreadable
  BY WriteFacts
<1>2. ASSUME ~io_failed', NEW t \in 1..(test - 1)
      PROVE  results'.completed[t] # "none"
  <2>1. t \in Tests
    BY BenchmarkerAssumption DEF Tests
  <2> QED
    BY <1>1, <1>2, <2>1 DEF Recorded
<1> QED
  BY <1>1, <1>2 DEF Recorded

-----------------------------------------------------------------------------
(* One lemma per action.                                                   *)

USE DEF testVars, dockerVars, resultVars, exitVars


\* Building the images for wrk and the databases.
LEMMA SetupStep ==
  ASSUME IInv, Setup
  PROVE  IInv'
<1>0. TypeInv /\ Stopped /\ Recorded /\ Verified
  BY DEF IInv
<1>1. TypeInv'
  BY <1>0, BenchmarkerAssumption
  DEF Setup, Fails, Raise, Propagate, TypeInv, Places, InTry, InExcept, Tests
<1>2. Stopped'
  BY <1>0, BenchmarkerAssumption
  DEF Setup, Fails, Raise, Propagate, TypeInv, Places, InTry, InExcept, Tests,
      Stopped
<1>3. Recorded'
  BY <1>0, BenchmarkerAssumption
  DEF Setup, Fails, Raise, Propagate, TypeInv, Places, InTry, InExcept, Tests,
      Recorded, Settled
<1>4. Verified'
  BY <1>0, BenchmarkerAssumption
  DEF Setup, Fails, Raise, Propagate, TypeInv, Places, InTry, InExcept, Tests,
      Verified, Fine, Settled, Recorded
<1> QED
  BY <1>1, <1>2, <1>3, <1>4 DEF IInv

\* The next test starts.
LEMMA NextTestStep ==
  ASSUME IInv, NextTest
  PROVE  IInv'
<1>0. TypeInv /\ Stopped /\ Recorded /\ Verified
  BY DEF IInv
<1>1. TypeInv'
  BY <1>0, BenchmarkerAssumption DEF NextTest, TypeInv, Places, InTry, InExcept, Tests
<1>2. Stopped'
  BY <1>0, BenchmarkerAssumption
  DEF NextTest, TypeInv, Places, InTry, InExcept, Tests, Stopped
<1>3. Recorded'
  BY <1>0, BenchmarkerAssumption
  DEF NextTest, TypeInv, Places, InTry, InExcept, Tests, Recorded, Settled
<1>4. Verified'
  BY <1>0, BenchmarkerAssumption
  DEF NextTest, TypeInv, Places, InTry, InExcept, Tests, Verified, Fine,
      Settled, Recorded
<1> QED
  BY <1>1, <1>2, <1>3, <1>4 DEF IInv

\* An excluded test is recorded as an error.
LEMMA ExcludedStep ==
  ASSUME IInv, Excluded
  PROVE  IInv'
<1>0. TypeInv /\ Stopped /\ Recorded /\ Verified
  BY DEF IInv
<1>1. test \in Tests
  BY <1>0 DEF Excluded, TypeInv
<1>2. WriteIntermediate("error")
  BY DEF Excluded
<1>3. /\ results' \in Results /\ file' \in Results \union {Unreadable}
      /\ io_failed' \in BOOLEAN
      /\ results'.verify = results.verify
      /\ results'.completed[test] # "none"
      /\ \A t \in Tests : results.completed[t] # "none" => results'.completed[t] # "none"
      /\ ~io_failed' => ~io_failed /\ file' = results' /\ file' # Unreadable
  BY <1>0, <1>1, <1>2, WriteFacts
<1>4. TypeInv'
  BY <1>0, <1>3 DEF Excluded, TypeInv, Places, InTry, InExcept, Tests
<1>5. Stopped'
  BY <1>0 DEF Excluded, TypeInv, Places, InTry, InExcept, Tests, Stopped
<1>6. Recorded'
  BY <1>0, <1>1, <1>2, WriteRecorded DEF Excluded
<1>7. Verified'
  BY <1>0, <1>1, <1>3
  DEF Excluded, TypeInv, Places, InTry, InExcept, Tests, Verified, Fine
<1> QED
  BY <1>4, <1>5, <1>6, <1>7 DEF IInv

\* The database container is started, or cannot be.
LEMMA StartDatabaseStep ==
  ASSUME IInv, StartDatabase
  PROVE  IInv'
<1>0. TypeInv /\ Stopped /\ Recorded /\ Verified
  BY DEF IInv
<1>1. TypeInv'
  BY <1>0, BenchmarkerAssumption
  DEF StartDatabase, Fails, Raise, Propagate, Kinds, TypeInv, Places, InTry,
      InExcept, Tests
<1>2. Stopped'
  BY <1>0, BenchmarkerAssumption
  DEF StartDatabase, Fails, Raise, Propagate, Kinds, TypeInv, Places, InTry,
      InExcept, Tests, Stopped
<1>3. Recorded'
  BY <1>0, BenchmarkerAssumption
  DEF StartDatabase, Fails, Raise, Propagate, Kinds, TypeInv, Places, InTry,
      InExcept, Tests, Recorded, Settled
<1>4. Verified'
  BY <1>0, BenchmarkerAssumption
  DEF StartDatabase, Fails, Raise, Propagate, Kinds, TypeInv, Places, InTry,
      InExcept, Tests, Verified, Fine, Settled, Recorded
<1> QED
  BY <1>1, <1>2, <1>3, <1>4 DEF IInv

\* The database accepts connections, or the time is over.
LEMMA WaitForDatabaseStep ==
  ASSUME IInv, WaitForDatabase
  PROVE  IInv'
<1>0. TypeInv /\ Stopped /\ Recorded /\ Verified
  BY DEF IInv
<1>1. TypeInv'
  BY <1>0, BenchmarkerAssumption
  DEF WaitForDatabase, TypeInv, Places, InTry, InExcept, Tests
<1>2. Stopped'
  BY <1>0, BenchmarkerAssumption
  DEF WaitForDatabase, TypeInv, Places, InTry, InExcept, Tests, Stopped
<1>3. Recorded'
  BY <1>0, BenchmarkerAssumption
  DEF WaitForDatabase, TypeInv, Places, InTry, InExcept, Tests, Recorded,
      Settled
<1>4. Verified'
  BY <1>0, BenchmarkerAssumption
  DEF WaitForDatabase, TypeInv, Places, InTry, InExcept, Tests, Verified, Fine,
      Settled, Recorded
<1> QED
  BY <1>1, <1>2, <1>3, <1>4 DEF IInv

\* A test that cannot be started, or does not accept requests.
LEMMA GiveUpStep ==
  ASSUME IInv, GiveUp, pc \in {"build", "run", "accept"}, UNCHANGED running
  PROVE  IInv'
<1>0. TypeInv /\ Stopped /\ Recorded /\ Verified
  BY DEF IInv
<1>1. test \in Tests
  BY <1>0 DEF GiveUp, TypeInv
<1>2. WriteIntermediate("error")
  BY DEF GiveUp
<1>3. /\ results' \in Results /\ file' \in Results \union {Unreadable}
      /\ io_failed' \in BOOLEAN
      /\ results'.verify = results.verify
      /\ results'.completed[test] # "none"
      /\ \A t \in Tests : results.completed[t] # "none" => results'.completed[t] # "none"
      /\ ~io_failed' => ~io_failed /\ file' = results' /\ file' # Unreadable
  BY <1>0, <1>1, <1>2, WriteFacts
<1>4. TypeInv'
  BY <1>0, <1>3 DEF GiveUp, TypeInv, Places, InTry, InExcept, Tests
<1>5. Stopped'
  BY <1>0 DEF GiveUp, TypeInv, Places, InTry, InExcept, Tests, Stopped
<1>6. Recorded'
  BY <1>0, <1>1, <1>2, WriteRecorded DEF GiveUp
<1>7. Verified'
  BY <1>0, <1>1, <1>3
  DEF GiveUp, TypeInv, Places, InTry, InExcept, Tests, Verified, Fine
<1> QED
  BY <1>4, <1>5, <1>6, <1>7 DEF IInv

\* The image of the test is built, or cannot be.
LEMMA BuildStep ==
  ASSUME IInv, Build
  PROVE  IInv'
<1>0. TypeInv /\ Stopped /\ Recorded /\ Verified
  BY DEF IInv
<1>1. CASE GiveUp /\ UNCHANGED running
  BY <1>1, GiveUpStep DEF Build
<1>2. CASE ~(GiveUp /\ UNCHANGED running)
  <2>1. TypeInv'
    BY <1>0, <1>2 DEF Build, TypeInv, Places, InTry, InExcept, Tests
  <2>2. Stopped' /\ Recorded' /\ Verified'
    BY <1>0, <1>2
    DEF Build, TypeInv, Places, InTry, InExcept, Tests, Stopped, Recorded,
        Settled, Verified, Fine
  <2> QED
    BY <2>1, <2>2 DEF IInv
<1> QED
  BY <1>1, <1>2

\* The container of the test is started, or cannot be.
LEMMA RunStep ==
  ASSUME IInv, Run
  PROVE  IInv'
<1>0. TypeInv /\ Stopped /\ Recorded /\ Verified
  BY DEF IInv
<1>1. CASE GiveUp /\ UNCHANGED running
  BY <1>1, GiveUpStep DEF Run
<1>2. CASE ~(GiveUp /\ UNCHANGED running)
  <2>1. TypeInv'
    BY <1>0, <1>2 DEF Run, Kinds, TypeInv, Places, InTry, InExcept, Tests
  <2>2. Stopped' /\ Recorded' /\ Verified'
    BY <1>0, <1>2
    DEF Run, Kinds, TypeInv, Places, InTry, InExcept, Tests, Stopped,
        Recorded, Settled, Verified, Fine
  <2> QED
    BY <2>1, <2>2 DEF IInv
<1> QED
  BY <1>1, <1>2

\* The test accepts requests, or does not.
LEMMA AcceptStep ==
  ASSUME IInv, Accept
  PROVE  IInv'
<1>0. TypeInv /\ Stopped /\ Recorded /\ Verified
  BY DEF IInv
<1>1. CASE GiveUp /\ UNCHANGED running
  BY <1>1, GiveUpStep DEF Accept
<1>2. CASE ~(GiveUp /\ UNCHANGED running)
  <2>1. TypeInv'
    BY <1>0, <1>2 DEF Accept, TypeInv, Places, InTry, InExcept, Tests
  <2>2. Stopped' /\ Recorded' /\ Verified'
    BY <1>0, <1>2
    DEF Accept, TypeInv, Places, InTry, InExcept, Tests, Stopped, Recorded,
        Settled, Verified, Fine
  <2> QED
    BY <2>1, <2>2 DEF IInv
<1> QED
  BY <1>1, <1>2

\* The verdicts of a test go to its own entry in the results.
LEMMA VerifyStep ==
  ASSUME IInv, Verify
  PROVE  IInv'
<1>0. TypeInv /\ Stopped /\ Recorded /\ Verified
  BY DEF IInv
<1>1. CASE Fails
  <2>1. TypeInv' /\ Stopped'
    BY <1>0, <1>1
    DEF Verify, Fails, Raise, Propagate, TypeInv, Places, InTry, InExcept,
        Stopped
  <2>2. Recorded' /\ Verified'
    BY <1>0, <1>1
    DEF Verify, Fails, Raise, Propagate, TypeInv, InTry, InExcept, Recorded,
        Settled, Verified, Fine
  <2> QED
    BY <2>1, <2>2 DEF IInv
<1>2. ASSUME NEW verdict \in [Types -> {"pass", "warn", "fail"}],
             results' = [results EXCEPT !.verify[test] = verdict],
             left' = IF config.mode = "benchmark" THEN Types ELSE {},
             pc' = "bench",
             UNCHANGED <<testVars, dockerVars, file, io_failed, exitVars>>
      PROVE  IInv'
  <2>1. test \in Tests /\ results \in Results
    BY <1>0 DEF Verify, TypeInv
  <2>2. /\ results' \in Results /\ results'.completed = results.completed
        /\ results'.verify = [results.verify EXCEPT ![test] = verdict]
    BY <1>2, <2>1 DEF Results, Verdicts
  <2>3. results'.verify[test] = verdict
        /\ \A t \in Tests \ {test} : results'.verify[t] = results.verify[t]
    BY <2>1, <2>2 DEF Results
  <2>4. TypeInv' /\ Stopped'
    BY <1>0, <1>2, <2>2 DEF Verify, TypeInv, Places, InTry,
                            InExcept, Stopped
  <2>5. Recorded'
    BY <1>0, <1>2, <2>1, <2>2 DEF Verify, Recorded, Settled
  <2>6. 1..(test - 1) \subseteq Tests \ {test}
    BY <2>1, BenchmarkerAssumption DEF Tests
  <2>7. Verified'
    BY <1>0, <1>2, <2>3, <2>6 DEF Verify, Verified, Fine
  <2> QED
    BY <2>4, <2>5, <2>7 DEF IInv
<1> QED
  BY <1>1, <1>2 DEF Verify

\* A type that failed its verification is not measured.
LEMMA SkipTypeStep ==
  ASSUME IInv, SkipType
  PROVE  IInv'
<1>0. TypeInv /\ Stopped /\ Recorded /\ Verified
  BY DEF IInv
<1>1. TypeInv'
  BY <1>0, BenchmarkerAssumption
  DEF SkipType, Fails, Raise, Propagate, TypeInv, Places, InTry, InExcept, Tests
<1>2. Stopped'
  BY <1>0, BenchmarkerAssumption
  DEF SkipType, Fails, Raise, Propagate, TypeInv, Places, InTry, InExcept,
      Tests, Stopped
<1>3. Recorded'
  BY <1>0, BenchmarkerAssumption
  DEF SkipType, Fails, Raise, Propagate, TypeInv, Places, InTry, InExcept,
      Tests, Recorded, Settled
<1>4. Verified'
  BY <1>0, BenchmarkerAssumption
  DEF SkipType, Fails, Raise, Propagate, TypeInv, Places, InTry, InExcept,
      Tests, Verified, Fine, Settled, Recorded
<1> QED
  BY <1>1, <1>2, <1>3, <1>4 DEF IInv

\* The wrk container is started.
LEMMA BeginTypeStep ==
  ASSUME IInv, BeginType
  PROVE  IInv'
<1>0. TypeInv /\ Stopped /\ Recorded /\ Verified
  BY DEF IInv
<1>1. TypeInv'
  BY <1>0, BenchmarkerAssumption
  DEF BeginType, Fails, Raise, Propagate, Kinds, BeginLogging, TypeInv, Places,
      InTry, InExcept, Tests
<1>2. Stopped'
  BY <1>0, BenchmarkerAssumption
  DEF BeginType, Fails, Raise, Propagate, Kinds, BeginLogging, TypeInv, Places,
      InTry, InExcept, Tests, Stopped
<1>3. Recorded'
  BY <1>0, BenchmarkerAssumption
  DEF BeginType, Fails, Raise, Propagate, Kinds, BeginLogging, TypeInv, Places,
      InTry, InExcept, Tests, Recorded, Settled
<1>4. Verified'
  BY <1>0, BenchmarkerAssumption
  DEF BeginType, Fails, Raise, Propagate, Kinds, BeginLogging, TypeInv, Places,
      InTry, InExcept, Tests, Verified, Fine, Settled, Recorded
<1> QED
  BY <1>1, <1>2, <1>3, <1>4 DEF IInv

\* The wrk container has ended.
LEMMA EndTypeStep ==
  ASSUME IInv, EndType
  PROVE  IInv'
<1>0. TypeInv /\ Stopped /\ Recorded /\ Verified
  BY DEF IInv
<1>1. TypeInv'
  BY <1>0, BenchmarkerAssumption
  DEF EndType, Fails, Raise, Propagate, EndLogging, TypeInv, Places, InTry,
      InExcept, Tests
<1>2. Stopped'
  BY <1>0, BenchmarkerAssumption
  DEF EndType, Fails, Raise, Propagate, EndLogging, TypeInv, Places, InTry,
      InExcept, Tests, Stopped
<1>3. Recorded'
  BY <1>0, BenchmarkerAssumption
  DEF EndType, Fails, Raise, Propagate, EndLogging, TypeInv, Places, InTry,
      InExcept, Tests, Recorded, Settled
<1>4. Verified'
  BY <1>0, BenchmarkerAssumption
  DEF EndType, Fails, Raise, Propagate, EndLogging, TypeInv, Places, InTry,
      InExcept, Tests, Verified, Fine, Settled, Recorded
<1> QED
  BY <1>1, <1>2, <1>3, <1>4 DEF IInv

\* All types are done.
LEMMA EndTypesStep ==
  ASSUME IInv, EndTypes
  PROVE  IInv'
<1>0. TypeInv /\ Stopped /\ Recorded /\ Verified
  BY DEF IInv
<1>1. TypeInv'
  BY <1>0, BenchmarkerAssumption DEF EndTypes, TypeInv, Places, InTry, InExcept, Tests
<1>2. Stopped'
  BY <1>0, BenchmarkerAssumption
  DEF EndTypes, TypeInv, Places, InTry, InExcept, Tests, Stopped
<1>3. Recorded'
  BY <1>0, BenchmarkerAssumption
  DEF EndTypes, TypeInv, Places, InTry, InExcept, Tests, Recorded, Settled
<1>4. Verified'
  BY <1>0, BenchmarkerAssumption
  DEF EndTypes, TypeInv, Places, InTry, InExcept, Tests, Verified, Fine,
      Settled, Recorded
<1> QED
  BY <1>1, <1>2, <1>3, <1>4 DEF IInv

\* The test is recorded, and counts as failed if a type failed.
LEMMA RecordStep ==
  ASSUME IInv, Record
  PROVE  IInv'
<1>0. TypeInv /\ Stopped /\ Recorded /\ Verified
  BY DEF IInv
<1>1. test \in Tests
  BY <1>0 DEF Record, TypeInv
<1>2. WriteIntermediate("ok")
  BY DEF Record
<1>3. /\ results' \in Results /\ file' \in Results \union {Unreadable}
      /\ io_failed' \in BOOLEAN
      /\ results'.verify = results.verify
      /\ results'.completed[test] # "none"
      /\ \A t \in Tests : results.completed[t] # "none" => results'.completed[t] # "none"
      /\ ~io_failed' => ~io_failed /\ file' = results' /\ file' # Unreadable
  BY <1>0, <1>1, <1>2, WriteFacts
<1>4. TypeInv'
  BY <1>0, <1>3 DEF Record, Passed, TypeInv, Places, InTry, InExcept, Tests
<1>5. Stopped'
  BY <1>0 DEF Record, Passed, TypeInv, Places, InTry, InExcept, Tests, Stopped
<1>6. Recorded'
  BY <1>0, <1>1, <1>2, WriteRecorded DEF Record
<1>7. \A t \in Tests : results.verify[t] \in [Types -> Verdicts]
  BY <1>0 DEF TypeInv, Results
<1>8. ASSUME config.mode = "verify", signals = 0, ~io_failed, Passed
      PROVE  Fine(test)
  BY <1>0, <1>1, <1>7, <1>8 DEF Record, Verified, Passed, Fine, Verdicts
<1>9. Fine(test)' <=> Fine(test)
  BY <1>3 DEF Fine, Record
<1>10. Verified'
  BY <1>0, <1>1, <1>3, <1>8, <1>9 DEF Record, TypeInv, Tests, Verified, Fine
<1> QED
  BY <1>4, <1>5, <1>6, <1>10 DEF IInv

\* The except clause records an error.
LEMMA ExceptStep ==
  ASSUME IInv, Except
  PROVE  IInv'
<1>0. TypeInv /\ Stopped /\ Recorded /\ Verified
  BY DEF IInv
<1>1. test \in Tests
  BY <1>0 DEF Except, TypeInv
<1>2. WriteIntermediate("error")
  BY DEF Except
<1>3. /\ results' \in Results /\ file' \in Results \union {Unreadable}
      /\ io_failed' \in BOOLEAN
      /\ results'.verify = results.verify
      /\ results'.completed[test] # "none"
      /\ \A t \in Tests : results.completed[t] # "none" => results'.completed[t] # "none"
      /\ ~io_failed' => ~io_failed /\ file' = results' /\ file' # Unreadable
  BY <1>0, <1>1, <1>2, WriteFacts
<1>4. TypeInv'
  BY <1>0, <1>3 DEF Except, TypeInv, Places, InTry, InExcept, Tests
<1>5. Stopped'
  BY <1>0 DEF Except, TypeInv, Places, InTry, InExcept, Tests, Stopped
<1>6. Recorded'
  BY <1>0, <1>1, <1>2, WriteRecorded DEF Except
<1>7. Verified'
  BY <1>0, <1>1, <1>3
  DEF Except, TypeInv, Places, InTry, InExcept, Tests, Verified, Fine
<1> QED
  BY <1>4, <1>5, <1>6, <1>7 DEF IInv

\* The test is cleaned up inside the try statement.
LEMMA ExitInTryStep ==
  ASSUME IInv, ExitInTry
  PROVE  IInv'
<1>0. TypeInv /\ Stopped /\ Recorded /\ Verified
  BY DEF IInv
<1>1. TypeInv'
  BY <1>0, BenchmarkerAssumption
  DEF ExitInTry, Fails, Raise, Propagate, TypeInv, Places, InTry, InExcept,
      Tests
<1>2. Stopped'
  BY <1>0, BenchmarkerAssumption
  DEF ExitInTry, Fails, Raise, Propagate, TypeInv, Places, InTry, InExcept,
      Tests, Stopped
<1>3. Recorded'
  BY <1>0, BenchmarkerAssumption
  DEF ExitInTry, Fails, Raise, Propagate, TypeInv, Places, InTry, InExcept,
      Tests, Recorded, Settled
<1>4. Verified'
  BY <1>0, BenchmarkerAssumption
  DEF ExitInTry, Fails, Raise, Propagate, TypeInv, Places, InTry, InExcept,
      Tests, Verified, Fine, Settled, Recorded
<1> QED
  BY <1>1, <1>2, <1>3, <1>4 DEF IInv

\* The test is cleaned up outside the try statement.
LEMMA ExitTestStep ==
  ASSUME IInv, ExitTest
  PROVE  IInv'
<1>0. TypeInv /\ Stopped /\ Recorded /\ Verified
  BY DEF IInv
<1>1. TypeInv'
  BY <1>0, BenchmarkerAssumption
  DEF ExitTest, Fails, Raise, Propagate, TypeInv, Places, InTry, InExcept, Tests
<1>2. Stopped'
  BY <1>0, BenchmarkerAssumption
  DEF ExitTest, Fails, Raise, Propagate, TypeInv, Places, InTry, InExcept,
      Tests, Stopped
<1>3. Recorded'
  BY <1>0, BenchmarkerAssumption
  DEF ExitTest, Fails, Raise, Propagate, TypeInv, Places, InTry, InExcept,
      Tests, Recorded, Settled
<1>4. Verified'
  BY <1>0, BenchmarkerAssumption
  DEF ExitTest, Fails, Raise, Propagate, TypeInv, Places, InTry, InExcept,
      Tests, Verified, Fine, Settled, Recorded
<1> QED
  BY <1>1, <1>2, <1>3, <1>4 DEF IInv

\* The container of the test ends by itself.
LEMMA ContainerDiesStep ==
  ASSUME IInv, ContainerDies
  PROVE  IInv'
<1>0. TypeInv /\ Stopped /\ Recorded /\ Verified
  BY DEF IInv
<1>1. TypeInv'
  BY <1>0, BenchmarkerAssumption
  DEF ContainerDies, TypeInv, Places, InTry, InExcept, Tests
<1>2. Stopped'
  BY <1>0, BenchmarkerAssumption
  DEF ContainerDies, TypeInv, Places, InTry, InExcept, Tests, Stopped
<1>3. Recorded'
  BY <1>0, BenchmarkerAssumption
  DEF ContainerDies, TypeInv, Places, InTry, InExcept, Tests, Recorded, Settled
<1>4. Verified'
  BY <1>0, BenchmarkerAssumption
  DEF ContainerDies, TypeInv, Places, InTry, InExcept, Tests, Verified, Fine,
      Settled, Recorded
<1> QED
  BY <1>1, <1>2, <1>3, <1>4 DEF IInv

\* The finally clause: only when docker_helper.stop has returned does the loop
\* go on.
LEMMA FinallyStep ==
  ASSUME IInv, Finally
  PROVE  IInv'
<1>0. TypeInv /\ Stopped /\ Recorded /\ Verified
  BY DEF IInv
<1>1. PICK out \in StopOutcomes :
          /\ running' = out[1]
          /\ IF out[2] THEN Propagate("exception")
             ELSE IF exc # "none" THEN Propagate(exc)
             ELSE pc' = (IF success THEN "exit_test" ELSE "after") /\ UNCHANGED code
  BY DEF Finally
<1>2. /\ pc = "finally" /\ running' \subseteq running /\ (~out[2] => running' = {})
      /\ UNCHANGED <<testVars, dool, left, resultVars, exc, success, any_failed>>
  BY <1>0, <1>1, StopFacts DEF Finally
<1>3. TypeInv'
  BY <1>0, <1>1, <1>2 DEF Propagate, TypeInv, Places, InTry, InExcept
<1>4. Stopped'
  BY <1>0, <1>1, <1>2 DEF Propagate, TypeInv, Stopped
<1>5. Recorded'
  BY <1>0, <1>1, <1>2 DEF Propagate, TypeInv, Recorded, Settled
<1>6. Verified'
  BY <1>0, <1>1, <1>2 DEF Propagate, TypeInv, Verified, Fine
<1> QED
  BY <1>3, <1>4, <1>5, <1>6 DEF IInv

\* results.load: the file has what the results in memory have.
LEMMA AfterTestStep ==
  ASSUME IInv, AfterTest
  PROVE  IInv'
<1>0. TypeInv /\ Stopped /\ Recorded /\ Verified
  BY DEF IInv
<1>1. test \in Tests /\ results \in Results /\ results # Unreadable
  BY <1>0, ReadableResults DEF AfterTest, TypeInv
<1>2. results' \in Results
  BY <1>0, <1>1 DEF AfterTest, TypeInv
<1>3. ~io_failed => results' = results /\ file = results
  BY <1>0, <1>1 DEF AfterTest, Recorded, Settled
<1>4. TypeInv' /\ Stopped'
  BY <1>0, <1>1, <1>2 DEF AfterTest, TypeInv, Places, InTry, InExcept, Stopped
<1>5. Recorded'
  BY <1>0, <1>1, <1>3 DEF AfterTest, TypeInv, Recorded, Settled
<1>6. Verified'
  BY <1>0, <1>1, <1>3 DEF AfterTest, TypeInv, Verified, Fine
<1> QED
  BY <1>4, <1>5, <1>6 DEF IInv

\* The end of a run: the exit code is made of any_failed.
LEMMA FinishStep ==
  ASSUME IInv, Finish
  PROVE  IInv'
<1>0. TypeInv /\ Stopped /\ Recorded /\ Verified
  BY DEF IInv
<1>1. CASE Fails
  <2>1. TypeInv' /\ Stopped'
    BY <1>0, <1>1
    DEF Finish, Fails, Raise, Propagate, TypeInv, Places, InTry, InExcept,
        Stopped
  <2>2. Recorded' /\ Verified'
    BY <1>0, <1>1
    DEF Finish, Fails, Raise, Propagate, TypeInv, InTry, InExcept, Recorded,
        Settled, Verified, Fine
  <2> QED
    BY <2>1, <2>2 DEF IInv
<1>2. CASE ~Fails
  <2>1. /\ pc = "next" /\ test = NumTests /\ pc' = "done" /\ results' = results
        /\ code' = IF config.mode = "verify" /\ any_failed THEN 1 ELSE 0
        /\ WriteResults
        /\ UNCHANGED <<testVars, dockerVars, left, exc, success, any_failed>>
    BY <1>2 DEF Finish
  <2>2. test \in Tests /\ results \in Results /\ results # Unreadable
    BY <1>0, <2>1, ReadableResults, BenchmarkerAssumption DEF TypeInv, Tests
  <2>3. /\ file' \in Results \union {Unreadable} /\ io_failed' \in BOOLEAN
        /\ ~io_failed' => ~io_failed /\ file' = results
    BY <1>0, <2>1, <2>2 DEF WriteResults, TypeInv
  <2>4. TypeInv' /\ Stopped'
    BY <1>0, <2>1, <2>3 DEF TypeInv, Places, InTry, InExcept, Stopped
  <2>5. Recorded'
    BY <1>0, <2>1, <2>2, <2>3 DEF TypeInv, Recorded, Settled
  <2>6. config.mode = "verify" /\ signals = 0 /\ ~io_failed /\ ~any_failed
            => \A t \in Tests : Fine(t)
    <3> SUFFICES ASSUME config.mode = "verify", signals = 0, ~io_failed, ~any_failed,
                        NEW t \in Tests
                 PROVE  Fine(t)
      OBVIOUS
    <3>1. t \in 1..(test - 1) \/ t = test
      BY <2>1, BenchmarkerAssumption DEF Tests
    <3> QED
      BY <1>0, <2>1, <2>2, <3>1 DEF Verified
  <2>7. Verified'
    BY <1>0, <2>1, <2>3, <2>6 DEF TypeInv, Verified, Fine
  <2> QED
    BY <2>4, <2>5, <2>7 DEF IInv
<1> QED
  BY <1>1, <1>2

\* The except clause of main ends the program with code 1.
LEMMA FatalStep ==
  ASSUME IInv, Fatal
  PROVE  IInv'
<1>0. TypeInv /\ Stopped /\ Recorded /\ Verified
  BY DEF IInv
<1>1. running' \subseteq running
  BY <1>0, StopFacts DEF Fatal
<1>2. TypeInv' /\ Stopped'
  BY <1>0, <1>1 DEF Fatal, TypeInv, Places, InTry, InExcept, Stopped
<1>3. Recorded' /\ Verified'
  BY <1>0 DEF Fatal, TypeInv, Recorded, Settled, Verified, Fine
<1> QED
  BY <1>2, <1>3 DEF IInv

\* A signal, at any point: what stop raises surfaces there, or is swallowed.
LEMMA SignalStep ==
  ASSUME IInv, Signal
  PROVE  IInv'
<1>0. TypeInv /\ Stopped /\ Recorded /\ Verified
  BY DEF IInv
<1>1. PICK out \in StopOutcomes :
          /\ running' = out[1]
          /\ \/ Raise(IF out[2] THEN "exception" ELSE "exit")
             \/ pc \in Swallowing /\ UNCHANGED <<pc, exc, code>>
  BY DEF Signal
<1>2. /\ running' \subseteq running /\ (~out[2] => running' = {}) /\ out[2] \in BOOLEAN
      /\ pc # "done" /\ signals' = signals + 1
      /\ UNCHANGED <<config, test, after_stop, dool, left, resultVars, success, any_failed>>
  BY <1>0, <1>1, StopFacts DEF Signal
<1>3. signals' \in Nat /\ signals' # 0
  BY <1>0, <1>2 DEF TypeInv
<1>4. CASE UNCHANGED <<pc, exc, code>>
  <2>1. TypeInv' /\ Stopped'
    BY <1>0, <1>2, <1>3, <1>4 DEF TypeInv, Stopped
  <2>2. Recorded' /\ Verified'
    BY <1>0, <1>2, <1>3, <1>4 DEF TypeInv, Recorded, Settled, Verified
  <2> QED
    BY <2>1, <2>2 DEF IInv
<1>5. ASSUME NEW e \in {"exception", "exit"}, e = "exit" => running' = {}, Raise(e)
      PROVE  IInv'
  <2>1. TypeInv'
    BY <1>0, <1>2, <1>3, <1>5 DEF Raise, Propagate, TypeInv, Places, InTry, InExcept
  <2>2. Stopped'
    BY <1>0, <1>2, <1>5 DEF Raise, Propagate, TypeInv, Stopped, InTry, InExcept
  <2>3. Recorded'
    BY <1>0, <1>2, <1>3, <1>5 DEF Raise, Propagate, TypeInv, Recorded, Settled,
                                  InTry, InExcept
  <2>4. Verified'
    BY <1>3 DEF Verified
  <2> QED
    BY <2>1, <2>2, <2>3, <2>4 DEF IInv
<1>6. CASE Raise(IF out[2] THEN "exception" ELSE "exit")
  BY <1>2, <1>5, <1>6
<1> QED
  BY <1>1, <1>4, <1>6

\* The invariant is kept by every step.
LEMMA NextIInv == IInv /\ [Next]_vars => IInv'
<1> SUFFICES ASSUME IInv, [Next]_vars PROVE IInv'
  OBVIOUS
<1>1. CASE Step
  BY <1>1, SetupStep, NextTestStep, ExcludedStep, StartDatabaseStep, WaitForDatabaseStep,
     BuildStep, RunStep, AcceptStep, VerifyStep, SkipTypeStep, BeginTypeStep, EndTypeStep,
     EndTypesStep, RecordStep, ExceptStep, ExitInTryStep, FinallyStep, ExitTestStep,
     AfterTestStep, FinishStep, FatalStep
  DEF Step
<1>2. CASE UNCHANGED vars
  BY <1>2 DEF vars, IInv, TypeInv, Stopped, Recorded, Settled, Verified, Fine
<1> QED
  BY <1>1, <1>2, ContainerDiesStep, SignalStep DEF Next

-----------------------------------------------------------------------------
(* The theorems.                                                           *)

\* The inductive invariant holds in every reachable state.
THEOREM Invariance == Spec => []IInv
BY InitIInv, NextIInv, PTL DEF Spec

\* No container of a test runs when the next one is about to start, nor after a
\* program that ended with code 0, whatever Docker and signals do.
THEOREM ServicesAlwaysStopped == Spec => []ServicesStopped
<1>1. IInv => ServicesStopped
  BY DEF IInv, Stopped, ServicesStopped
<1> QED
  BY <1>1, Invariance, PTL

\* results.json tells what became of every test that was started.
THEOREM TestsAllRecorded == Spec => []AllRecorded
<1>1. IInv => AllRecorded
  <2> SUFFICES ASSUME IInv, pc = "next" \/ (pc = "done" /\ signals = 0), ~io_failed,
                      NEW t \in 1..test
               PROVE  file # Unreadable /\ file.completed[t] # "none"
    BY DEF AllRecorded
  <2>1. TypeInv /\ Recorded
    BY DEF IInv
  <2>2. test \in Tests /\ (t \in 1..(test - 1) \/ t = test)
    BY <2>1, BenchmarkerAssumption DEF TypeInv, Tests
  <2>3. file = results /\ results.completed[t] # "none"
    BY <2>1, <2>2 DEF Recorded, Settled
  <2> QED
    BY <2>1, <2>3, ReadableResults DEF TypeInv
<1> QED
  BY <1>1, Invariance, PTL

\* Exit code 0 of an uninterrupted verification: no type of any test failed.
THEOREM ExitCodeMeansVerified == Spec => []CodeMeansVerified
<1>1. IInv => CodeMeansVerified
  BY DEF IInv, Verified, Fine, CodeMeansVerified
<1> QED
  BY <1>1, Invariance, PTL

=============================================================================
