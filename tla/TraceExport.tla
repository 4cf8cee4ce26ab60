------------------------------ MODULE TraceExport ------------------------------
(***************************************************************************)
(* scripts/conformance/run.sh with fcr_trace_plugin.py: the tests of the   *)
(* rule run in pytest, each call of run_fast_confirmation is captured as a *)
(* record, and the records of all processes become one trace that          *)
(* check_trace.py and then the evaluation of the model read.               *)
(*                                                                         *)
(* With workers, the main process starts them and runs no test.  A process *)
(* may die at any time; what it has flushed stays in its file.             *)
(***************************************************************************)
EXTENDS TraceRecord, FiniteSets, SequencesExt

CONSTANTS
  MAIN,              \* the main process of pytest
  SCENES,            \* what may be run
  INITIAL_FCR,       \* the rule's variables at the first call of a test
  CALLS(_),          \* the external calls head and rule may make on a store
  GET_HEAD(_),       \* the node get_head answers on a store
  RESULTS(_),        \* the answers an external call may get
  epoch_of(_),       \* the epoch of a slot
  COMMITTEES_PER_SLOT,
  NONE

(* A scene has the worker processes, the tests and the fork of each, the   *)
(* stores a call may find, and the bounds on the calls of the rule in a    *)
(* test and on the external calls of head and rule, in all captures.       *)
ASSUME ExportConstants ==
  \A s \in SCENES :
    /\ MAIN \notin s.workers
    /\ s.max_captures \in Nat
    /\ s.max_external \in Nat

VARIABLES
  scene,       \* what is run
  parallel,    \* MAYBE_PARALLEL is given
  process,     \* off, up, closed, or dead
  item,        \* _current_item of each process
  indices,     \* _call_indices of each process
  hooks,       \* what the names of the externals are bound to in each process
  capture,     \* the call of _capture under way in each process, idle, rule or checks
  buffer,      \* what _writer has been given and not flushed
  file,        \* the trace file of each process
  tests,       \* todo, running, passed or failed
  fcr_store,   \* the rule's variables of each test
  made,        \* the calls of the rule that returned to each test
  asked,       \* external calls of head and rule so far
  run          \* where run.sh is, and what it knows

vars == <<scene, parallel, process, item, indices, hooks, capture, buffer, file, tests, fcr_store, made, asked, run>>

TESTS == scene.tests
Processes == {MAIN} \union scene.workers
Runners == IF parallel THEN scene.workers ELSE {MAIN}
(* Mutant: one of the originals is forgotten.                              *)
three_originals == [f \in EXTERNALS \ {"process_slots"} |-> "original"]
Originals == [f \in EXTERNALS |-> "original"]
Wrappers == [f \in EXTERNALS |-> "wrapper"]
Idle == [at |-> "idle"]

Init ==
  /\ scene \in SCENES
  /\ parallel \in {b \in BOOLEAN : b => scene.workers # {}}
  /\ process = [p \in Processes |-> "off"]
  /\ item = [p \in Processes |-> NONE]
  /\ indices = [p \in Processes |-> [t \in TESTS |-> 0]]
  /\ hooks = [p \in Processes |-> Originals]
  /\ capture = [p \in Processes |-> Idle]
  /\ buffer = [p \in Processes |-> <<>>]
  /\ file = [p \in Processes |-> <<>>]
  /\ tests = [t \in TESTS |-> "todo"]
  /\ fcr_store = [t \in TESTS |-> INITIAL_FCR]
  /\ made = [t \in TESTS |-> 0]
  /\ asked = 0
  /\ run = [phase |-> "pytest", pytest_status |-> 0, out |-> <<>>, exit |-> 0]

-----------------------------------------------------------------------------
(* pytest *)

(* pytest_configure opens the file of the process, empty; with it _writer  *)
(* is set, and run_fast_confirmation is _capture from here on.             *)
Configure(p) ==
  /\ run.phase = "pytest"
  /\ process[p] = "off"
  /\ p # MAIN => parallel /\ process[MAIN] = "up"
  /\ process' = [process EXCEPT ![p] = "up"]
  /\ file' = [file EXCEPT ![p] = <<>>]
  /\ UNCHANGED <<scene, parallel, item, indices, hooks, capture, buffer, tests, fcr_store, made, asked, run>>

StartTest(p, t) ==
  /\ p \in Runners /\ process[p] = "up" /\ process[MAIN] = "up"
  /\ item[p] = NONE
  /\ tests[t] = "todo"
  /\ item' = [item EXCEPT ![p] = t]
  /\ tests' = [tests EXCEPT ![t] = "running"]
  /\ UNCHANGED <<scene, parallel, process, indices, hooks, capture, buffer, file, fcr_store, made, asked, run>>

(* The test is over; pytest_runtest_call forgets the item either way. *)
LeaveTest(p, outcome) ==
  /\ tests' = [tests EXCEPT ![item[p]] = outcome]
  /\ item' = [item EXCEPT ![p] = NONE]

EndTest(p) ==
  /\ item[p] # NONE /\ capture[p] = Idle
  /\ \E outcome \in {"passed", "failed"} : LeaveTest(p, outcome)
  /\ UNCHANGED <<scene, parallel, process, indices, hooks, capture, buffer, file, fcr_store, made, asked, run>>

(* The process dies with what it has not flushed; its test has failed. *)
Crash(p) ==
  /\ p \in Runners /\ process[p] = "up" /\ item[p] # NONE
  /\ process' = [process EXCEPT ![p] = "dead"]
  /\ buffer' = [buffer EXCEPT ![p] = <<>>]
  /\ capture' = [capture EXCEPT ![p] = Idle]
  /\ hooks' = [hooks EXCEPT ![p] = Originals]
  /\ LeaveTest(p, "failed")
  /\ UNCHANGED <<scene, parallel, indices, file, fcr_store, made, asked, run>>

-----------------------------------------------------------------------------
(* _capture *)

(* Mutant: the state is projected after the call has changed it.           *)
answered_late(call, result) ==
  [function |-> call.function, state |-> IF call.function = "process_slots" THEN result ELSE call.state,
   args |-> call.args, result |-> result]

(* A wrapper calls the original, and keeps its answer with the state as it *)
(* was before the call: the two transitions change it in place.            *)
Answered(call, result) ==
  [function |-> call.function, state |-> call.state, args |-> call.args, result |-> result]

(* Head scoring may read the committees of the parent of a boosted block:  *)
(* the count is read, and then each committee.                             *)
FillCount(state, slot) ==
  Answered([function |-> "get_committee_count_per_slot", state |-> state,
            args |-> [epoch |-> epoch_of(slot)]], COMMITTEES_PER_SLOT)
FillCommittee(state, slot, index) ==
  Answered([function |-> "get_beacon_committee", state |-> state,
            args |-> [slot |-> slot, index |-> index]], <<index, index + 2>>)
(* Mutant: the last committee is left out.                                 *)
fill_but_last(state, slot) ==
  <<FillCount(state, slot)>>
    \o [i \in 1..COMMITTEES_PER_SLOT-1 |-> FillCommittee(state, slot, i - 1)]
FillReads(state, slot) ==
  <<FillCount(state, slot)>>
    \o [i \in 1..COMMITTEES_PER_SLOT |-> FillCommittee(state, slot, i - 1)]

BoostFill(store) ==
  IF store.proposer_boost_root = 0 THEN <<>>
  ELSE LET boost == store.blocks[store.proposer_boost_root]
           parent == store.blocks[boost.parent_root]
       IN  IF parent.slot + 1 >= boost.slot
           THEN FillReads(store.block_states[boost.parent_root], parent.slot)
           ELSE <<>>

(* The guards come first, and the index is taken before anything can fail. *)
(* Then the store is projected, the externals are wrapped, and the reads   *)
(* of the boost's parent are made.                                         *)
BeginCapture(p, store) ==
  /\ item[p] # NONE /\ capture[p] = Idle
  /\ indices[p][item[p]] < scene.max_captures
  /\ scene.fork[item[p]] = "gloas"
  /\ indices' = [indices EXCEPT ![p][item[p]] = @ + 1]
  /\ hooks' = [hooks EXCEPT ![p] = Wrappers]
  /\ capture' = [capture EXCEPT ![p] =
       [at |-> "rule", index |-> indices[p][item[p]], store |-> store, calls |-> BoostFill(store)]]
  /\ UNCHANGED <<scene, parallel, process, item, buffer, file, tests, fcr_store, made, asked, run>>

RefuseFork(p) ==
  /\ item[p] # NONE /\ capture[p] = Idle
  /\ scene.fork[item[p]] # "gloas"
  /\ LeaveTest(p, "failed")
  /\ UNCHANGED <<scene, parallel, process, indices, hooks, capture, buffer, file, fcr_store, made, asked, run>>

(* get_head and then on_fast_confirmation call an external.                *)
ExternalCall(p, call, result) ==
  /\ capture[p].at = "rule"
  /\ asked < scene.max_external
  /\ asked' = asked + 1
  /\ capture' = [capture EXCEPT ![p].calls =
       IF hooks[p][call.function] = "wrapper" THEN Append(@, Answered(call, result)) ELSE @]
  /\ UNCHANGED <<scene, parallel, process, item, indices, hooks, buffer, file, tests, fcr_store, made, run>>

(* Mutant: the originals are put back only when the rule returns.          *)
rule_raises_wrapped(p) ==
  /\ capture[p].at = "rule"
  /\ capture' = [capture EXCEPT ![p] = Idle]
  /\ LeaveTest(p, "failed")
  /\ UNCHANGED <<scene, parallel, process, indices, hooks, buffer, file, fcr_store, made, asked, run>>

(* A read of the projection, the head, the rule or an external raises: the *)
(* originals are put back, and the test fails.                             *)
RuleRaises(p) ==
  /\ capture[p].at = "rule"
  /\ hooks' = [hooks EXCEPT ![p] = Originals]
  /\ capture' = [capture EXCEPT ![p] = Idle]
  /\ LeaveTest(p, "failed")
  /\ UNCHANGED <<scene, parallel, process, indices, buffer, file, fcr_store, made, asked, run>>

(* Mutant: the rule's variables are read when the record is built.         *)
fcr_read_late(before, after) == FcrStore(after)

FcrBefore(before, after) == FcrStore(before)

Record(c, test, before, after) ==
  Dict([schema |-> Number(2), source_pin |-> Text(SOURCE_PIN),
        head_before |-> Node(GET_HEAD(c.store)),
        test_id |-> Text(test), fork |-> Text(scene.fork[test]), preset |-> Text("minimal"),
        call_index |-> Number(c.index), config |-> Config, store |-> Store(c.store),
        fcr_before |-> FcrBefore(before, after), fcr_after |-> FcrStore(after),
        safe_execution_block_hash_after |-> 
          Root(c.store.blocks[after.confirmed_root].parent_block_hash),
        externals |-> Dict([f \in EXTERNALS |-> Answers(c.calls, f)])])

(* What keeps a record from being written: the rule has changed a          *)
(* projected field of the store, or the answers do not fit together.       *)
StoreUntouched(before, after) == Store(before) = Store(after)
Refused(c, store_after) ==
  \/ ~StoreUntouched(c.store, store_after)
  \/ ~ReadsConsistent(c.calls)
  \/ ~AnswersUnambiguous(AttachReadViews(Dict([f \in EXTERNALS |-> Answers(c.calls, f)]), c.calls))

RefuseRecord(p, store_after) ==
  /\ capture[p].at = "rule"
  /\ Refused(capture[p], store_after)
  /\ hooks' = [hooks EXCEPT ![p] = Originals]
  /\ capture' = [capture EXCEPT ![p] = Idle]
  /\ LeaveTest(p, "failed")
  /\ UNCHANGED <<scene, parallel, process, indices, buffer, file, fcr_store, made, asked, run>>

(* Mutant: the line is left in the buffer.                                 *)
write_unflushed(p, record) ==
  /\ buffer' = [buffer EXCEPT ![p] = Append(@, record)]
  /\ UNCHANGED file

(* The line is written and flushed.                                        *)
Write(p, record) ==
  /\ file' = [file EXCEPT ![p] = @ \o buffer[p] \o <<record>>]
  /\ buffer' = [buffer EXCEPT ![p] = <<>>]

WriteRecord(p, fcr_after, store_after) ==
  /\ capture[p].at = "rule"
  /\ ~Refused(capture[p], store_after)
  /\ \E record \in {Record(capture[p], item[p], fcr_store[item[p]], fcr_after)} :
       Write(p, EncodeLargeIntegers(AttachReadViews(record, capture[p].calls)))
  /\ hooks' = [hooks EXCEPT ![p] = Originals]
  /\ capture' = [capture EXCEPT ![p] = [at |-> "checks"]]
  /\ fcr_store' = [fcr_store EXCEPT ![item[p]] = fcr_after]
  /\ UNCHANGED <<scene, parallel, process, item, indices, tests, made, asked, run>>

(* With its record written, the call gives the test its own output of the  *)
(* checks and returns; or that raises.                                     *)
CaptureReturns(p) ==
  /\ capture[p].at = "checks"
  /\ capture' = [capture EXCEPT ![p] = Idle]
  /\ made' = [made EXCEPT ![item[p]] = @ + 1]
  /\ UNCHANGED <<scene, parallel, process, item, indices, hooks, buffer, file, tests, fcr_store, asked, run>>

ChecksRaise(p) ==
  /\ capture[p].at = "checks"
  /\ capture' = [capture EXCEPT ![p] = Idle]
  /\ LeaveTest(p, "failed")
  /\ UNCHANGED <<scene, parallel, process, indices, hooks, buffer, file, fcr_store, made, asked, run>>

-----------------------------------------------------------------------------
(* run.sh *)

(* pytest ends when no test is left, or none can be run; each process that *)
(* is up closes its file.                                                  *)
TestsOver ==
  \/ \A t \in TESTS : tests[t] # "todo"
  \/ process[MAIN] = "dead"
  \/ \A p \in Runners : process[p] = "dead"

PytestEnds ==
  /\ run.phase = "pytest"
  /\ process[MAIN] # "off"
  /\ \A p \in Processes : item[p] = NONE
  /\ TestsOver
  /\ file' = [p \in Processes |-> file[p] \o buffer[p]]
  /\ buffer' = [p \in Processes |-> <<>>]
  /\ process' = [p \in Processes |-> IF process[p] = "up" THEN "closed" ELSE process[p]]
  /\ run' = [run EXCEPT !.phase = "collect",
               !.pytest_status = IF \A t \in TESTS : tests[t] = "passed" THEN 0 ELSE 1]
  /\ UNCHANGED <<scene, parallel, item, indices, hooks, capture, tests, fcr_store, made, asked>>

Leave(code) == run' = [run EXCEPT !.phase = "done", !.exit = code]

(* The files are concatenated; without a record the run has failed.        *)
Collect ==
  /\ run.phase = "collect"
  /\ \E out \in {FlattenSeq([i \in 1..Cardinality(Processes) |-> file[SetToSeq(Processes)[i]]])} :
       run' = IF out = <<>> THEN [run EXCEPT !.phase = "done", !.exit = 1]
              ELSE [run EXCEPT !.phase = "check", !.out = out]
  /\ UNCHANGED <<scene, parallel, process, item, indices, hooks, capture, buffer, file, tests, fcr_store, made, asked>>

(* check_trace.py: one record it refuses stops the run.                    *)
TraceAccepted == \A i \in DOMAIN run.out : RecordAccepted(run.out[i])

CheckTrace(export_only) ==
  /\ run.phase = "check"
  /\ IF ~TraceAccepted THEN Leave(1)
     ELSE IF export_only THEN Leave(run.pytest_status)
     ELSE run' = [run EXCEPT !.phase = "replay"]
  /\ UNCHANGED <<scene, parallel, process, item, indices, hooks, capture, buffer, file, tests, fcr_store, made, asked>>

(* Mutant: the run answers for the evaluation alone.                       *)
runner_status_only(pytest_status, runner_status) == runner_status

(* The model's evaluation of the trace answers; pytest's status comes first. *)
ExitCode(pytest_status, runner_status) ==
  IF pytest_status # 0 THEN pytest_status ELSE runner_status
Replay(runner_status) ==
  /\ run.phase = "replay"
  /\ Leave(ExitCode(run.pytest_status, runner_status))
  /\ UNCHANGED <<scene, parallel, process, item, indices, hooks, capture, buffer, file, tests, fcr_store, made, asked>>

(* A store the rule has, or has not, left as it was. *)
After(store) == {store, [store EXCEPT !.unrealized_justified_checkpoint.epoch = @ + 1]}

(* The rule confirms the current head, or keeps what it has confirmed.     *)
FcrAfter(fcr, advanced) ==
  IF advanced THEN [fcr EXCEPT !.confirmed_root = fcr.current_slot_head] ELSE fcr

Next ==
  \/ \E p \in Processes :
       \/ Configure(p)
       \/ \E t \in TESTS : StartTest(p, t)
       \/ EndTest(p)
       \/ Crash(p)
       \/ \E store \in scene.snapshots : BeginCapture(p, store)
       \/ RefuseFork(p)
       \/ capture[p].at = "rule" /\ \E call \in CALLS(capture[p].store) :
            \E result \in RESULTS(call) : ExternalCall(p, call, result)
       \/ RuleRaises(p)
       \/ capture[p].at = "rule" /\ \E store_after \in After(capture[p].store) :
            \/ RefuseRecord(p, store_after)
            \/ \E advanced \in BOOLEAN : WriteRecord(p, FcrAfter(fcr_store[item[p]], advanced), store_after)
       \/ CaptureReturns(p)
       \/ ChecksRaise(p)
  \/ PytestEnds
  \/ Collect
  \/ \E export_only \in BOOLEAN : CheckTrace(export_only)
  \/ \E status \in {0, 1} : Replay(status)

Spec == Init /\ [][Next]_vars

-----------------------------------------------------------------------------
(* Properties. *)

(* Records of a test in the files, in the order they were written; the     *)
(* calls of a test are all made in one process.                            *)
RecordsOf(t) ==
  LET all == FlattenSeq([i \in 1..Cardinality(Processes) |-> file[SetToSeq(Processes)[i]]])
  IN  SelectSeq(all, LAMBDA r : r[2].test_id = Text(t))

Written == UNION {{file[p][i][2] : i \in DOMAIN file[p]} : p \in Processes}

(* Type correctness of the control of the processes and of the run.        *)
ExportTypeOK ==
  /\ process \in [Processes -> {"off", "up", "closed", "dead"}]
  /\ item \in [Processes -> TESTS \union {NONE}]
  /\ indices \in [Processes -> [TESTS -> 0..scene.max_captures]]
  /\ hooks \in [Processes -> [EXTERNALS -> {"original", "wrapper"}]]
  /\ tests \in [TESTS -> {"todo", "running", "passed", "failed"}]
  /\ run.phase \in {"pytest", "collect", "check", "replay", "done"}

(* The specification module is patched only while the rule runs: a         *)
(* rule that raises, or a record that is refused, leaves no wrapper behind *)
(* that would go on answering for the next test of the process.            *)
HooksOnlyWhileCapturing ==
  \A p \in Processes : capture[p].at # "rule" => hooks[p] = Originals

(* Once pytest is over, every call of the rule that returned to its test   *)
(* has exactly one record, numbered from zero in the order of the calls,   *)
(* whatever process ran the test and whether or not it died later on.  One *)
(* call more has a record only where it did not return and the test, hence *)
(* the run, has failed.                                                    *)
ReturnedCallsAreTraced ==
  run.phase # "pytest" => \A t \in TESTS :
    /\ \/ Len(RecordsOf(t)) = made[t]
       \/ Len(RecordsOf(t)) = made[t] + 1 /\ tests[t] = "failed"
    /\ \A i \in DOMAIN RecordsOf(t) : RecordsOf(t)[i][2].call_index = Number(i - 1)

(* Two records of one test are of two calls on one rule store: the second  *)
(* starts from what the first has left.                                    *)
RecordsChain ==
  run.phase # "pytest" => \A t \in TESTS : \A i \in 1..Len(RecordsOf(t))-1 :
    RecordsOf(t)[i + 1][2].fcr_before = RecordsOf(t)[i][2].fcr_after

(* The reader accepts whatever the exporter has written: integers of any   *)
(* size, unset votes, and states with their reads at every depth.          *)
ReaderAcceptsExport == \A r \in Written : RecordAccepted(Dict(r))

(* What a careless exporter could write in place of a record.              *)
With(r, k, v) == Dict([r EXCEPT ![k] = v])
Defects(r) ==
  {With(r, "source_pin", Text("other")), With(r, "schema", Number(1)), With(r, "fork", Text("fulu")),
   With(r, "call_index", Flag(TRUE)), With(r, "fcr_after", r.store),
   With(r, "store", Dict([r.store[2] EXCEPT !.payloads =
     Items({Dict([root |-> Root(1), beacon_block_root |-> Root(2),
                  parent_beacon_block_root |-> Root(1), identity |-> Root(1)])})])),
   With(r, "store", Dict([r.store[2] EXCEPT !.payload_timeliness_vote =
     Items({Dict([root |-> Root(1), votes |-> List([i \in 1..PTC_SIZE + 1 |-> Null])])})])),
   With(r, "store", Dict([r.store[2] EXCEPT !.block_timeliness =
     Items({Dict([root |-> Root(1), timely |-> List(<<Flag(TRUE)>>)])})])),
   Dict([k \in DOMAIN r \ {"head_before"} |-> r[k]])}

(* The reader refuses a record with a defect of the kinds it looks for.    *)
ReaderRefusesDefects == \A r \in Written : \A d \in Defects(r) : ~RecordAccepted(d)

(* The states of a record, with their reads.                               *)
RECURSIVE StatesIn(_)
StatesIn(v) ==
  CASE v[1] = "dict" ->
         (IF "validators" \in DOMAIN v[2] THEN {v[2]} ELSE {})
           \union UNION {StatesIn(v[2][k]) : k \in DOMAIN v[2]}
    [] v[1] \in {"items", "list"} -> UNION {StatesIn(x) : x \in Elements(v)}
    [] OTHER -> {}

(* A read list is a function of the state's identity and of the read's     *)
(* key: the evaluation that looks a read up gets one answer, the same on   *)
(* every copy of the state.                                                *)
ReadsAreFunctions ==
  \A r \in Written : \A a, b \in StatesIn(Dict(r)) : a.id = b.id =>
    /\ a.beacon_committee_reads = b.beacon_committee_reads
    /\ \A x, y \in Elements(a.beacon_committee_reads) :
         x[2].slot = y[2].slot /\ x[2].index = y[2].index => x = y
    /\ a.committee_count_reads = b.committee_count_reads
    /\ \A x, y \in Elements(a.committee_count_reads) : x[2].epoch = y[2].epoch => x = y

(* The reads head scoring may make of the parent of a boosted block are    *)
(* in the record, even when the head's call did not reach them.            *)
BoostReadsPresent ==
  \A p \in Processes : capture[p].at = "rule" =>
    LET store == capture[p].store
    IN  store.proposer_boost_root # 0 =>
          LET boost == store.blocks[store.proposer_boost_root]
              parent == store.blocks[boost.parent_root]
              of == store.block_states[boost.parent_root].id
          IN  parent.slot + 1 >= boost.slot =>
                \E count \in CountReads(capture[p].calls, of) :
                  /\ count.args.epoch = epoch_of(parent.slot)
                  /\ \A index \in 0..count.result-1 :
                       \E read \in CommitteeReads(capture[p].calls, of) :
                         read.args = [slot |-> parent.slot, index |-> index]

(* A transition is recorded with the state it started from, although it    *)
(* changes that state in place.                                            *)
TransitionsStartBefore ==
  \A r \in Written : \A a \in Elements(r.externals[2].process_slots) :
    a[2].state[2].slot[2] < a[2].result[2].slot[2]

(* A run that exits with 0 has a record of every call its tests made, all  *)
(* of them accepted by the reader, and every test has passed.              *)
ExitZeroIsAWholeTrace ==
  run.phase = "done" /\ run.exit = 0 =>
    /\ \A t \in TESTS : tests[t] = "passed"
    /\ run.out # <<>>
    /\ Len(run.out) = FoldSeq(LAMBDA t, n : n + made[t], 0, SetToSeq(TESTS))
    /\ \A i \in DOMAIN run.out : RecordAccepted(run.out[i])

(* What the files of a run hold: no call that returned is missing or in    *)
(* the wrong place, whatever process ran the test or died, and a run that  *)
(* exits with 0 has read all of it.                                        *)
TracesComplete ==
  /\ ExportTypeOK
  /\ ReturnedCallsAreTraced
  /\ RecordsChain
  /\ ExitZeroIsAWholeTrace

(* What a record says: the answers of the call it is of, with the states   *)
(* as they were, in the form the reader asks for and in no other, and no   *)
(* wrapper that outlives its call.  A record once written stays, so all of *)
(* them are read when pytest is over.                                      *)
RecordsSound ==
  /\ HooksOnlyWhileCapturing
  /\ BoostReadsPresent
  /\ run.phase = "collect" =>
       /\ ReaderAcceptsExport
       /\ ReaderRefusesDefects
       /\ ReadsAreFunctions
       /\ TransitionsStartBefore
=============================================================================
