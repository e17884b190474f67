# Formal models of mncs-debug

TLA+ models of the stateful parts of `mncs_debug`, the TLC runs that check them
on small instances, and TLAPS proofs of what matters most for every instance.
`PROJECT.json` lists components, runs, mutants, the map from definitions to
source lines, hazards, findings and theorems; this file explains them.

## 1. The system

`mncs-debug` is a command line tool and library. It keeps all its state in
directories of JSON files that several one-shot processes share without locks,
and in one external process, the VM debug daemon.

| component | state | operations | who it meets |
| --- | --- | --- | --- |
| live sessions, `live.py` | `session.json` (handle with the continuation token), `stops.json`, `finish.json`, `debug.sock` | start, resume, continue, step, terminate, close, remove, attach, inspect, bind/clear stop, pipe | the `mncs-vm debug --serve` daemon over a socket; other clients through the files |
| resident sessions, `session.py` | `session.json`, `witness.json`, `indexes/`, `memo/` | open, attach, query, close, wipe | `analysis.py` to answer queries; other clients through the files |
| retention, `retain.py` | objects and a generation number in a Store | retain, fetch (witness, live evidence) | the external Store; files produced by the two above |
| remediation, `remediate.py` | files of a checkout; the lists of one run | check, order, apply within a budget, account | git, the external toolchain |
| analysis, `analysis.py` | the artifacts and attempted set of one diagnosis | sufficiency, escalation loop, replay, minimization, provenance, slices | native core through `native_core.py`, runtime processes |
| native core, `native/mncs/debug/*.mncs` | none (pure) | classify, decide sufficiency, next operation | called from analysis and runner |
| recording, `runner.py`, `trace.py` | none kept | run a program, normalize, build and truncate a trace, build a witness | external compiler and runtime |
| targets, `targets.py` | none kept | resolve break and watch targets | witness documents |
| command line, `cli.py` | the witness file, the report and exit status of a command | record, replay, minimize, break, diagnose, sufficiency, trace, why, watch, inspect, one at a time | everything above |
| protocol, `protocol.py` | the digest memo in the cache directory | validate, hash, memoize digests | every component |
| capabilities, generated binding, scripts | none | print, transport | - |

What is hard in it, and what therefore should be checked:

* **live sessions**: clients interleave at every file access and daemon call;
  a client may die between any two of them, or give up on an answer the daemon
  then gives; the daemon may die. Correct means: a handle never moves
  backwards, evidence is written once and only for an execution that ended,
  the history is complete and in order, no daemon outlives its handle, commands
  return.
* **resident sessions**: a query reads the handle, the witness and the memo at
  different moments, and writes whole documents back. Correct means: a memo hit
  is an answer about the witness it names, rebuilt indexes belong to the bound
  witness, closed and stale sessions stay so, the memo keeps its bounds.
* **retention**: compare-and-set with one retry; validation of bytes read
  twice, and of bytes that were already given out. Correct means: a fetch that
  succeeds gave out what was asked for, and one rival writer fails no retain.
* **remediation**: checks and repairs are far apart, developers work in
  between, a budget cuts the repairs, some fail half done. Correct means: writes
  stay within the hints, only identities of committed sources are frozen, a
  passed verdict is true, repeated runs settle.
* **recording, replay, minimization, break**: each reads the program and the
  request several times and runs them several times, while a developer edits
  them, a run stalls or the core is out; and a run is judged in two ways, by
  the core when it is recorded and without it when it is repeated. Correct
  means: what is repeated has the signature of what was recorded, from whatever
  copy it is run; a smaller request keeps it; a stop found while recording is
  found again in the witness; what is called complete is the whole run.
* **diagnosis**: a bounded loop that decides anew each time from all documents,
  with an authority that may be out. Correct means: it ends within its budget,
  looks at nothing twice, forgets nothing, and calls sufficient only what is.

`PROJECT.json` lists every hazard at the line where it bites, with the
properties that cover it or the reason why none does.

## 2. Modules

| module | what it is |
| --- | --- |
| `LiveSession` | clients of `live.py` sharing a session directory, and the daemons they spawn |
| `LiveLedger` | what the three files of a live session promise a reader |
| `LiveSessionInv` | the inductive invariant behind the proofs |
| `LiveSessionProofs`, `LiveHistoryProofs` | proofs for any clients: types, token ownership, handle and evidence; history |
| `LiveSoloProofs` | proofs where clients take turns: order, the ledger, whole histories and evidence, no orphan |
| `MCLiveSession` | the instances TLC checks |
| `ResidentSession` | clients of `session.py` sharing a resident session directory |
| `ResidentProofs` | proofs: types; the memo, its bounds and its eviction; states; rebuilt indexes |
| `MCResidentSession` | the instances TLC checks |
| `Remediation` | a run of `remediate.py` over a checkout others work on |
| `RemediationProofs` | proofs: types; hints; reviewed identities; the verdict |
| `MCRemediation` | the instance TLC checks |
| `DebugOutcome` | outcome, classification and signatures of a run, with the core and without |
| `TraceProjection` | traces from the language's event stream or from the older execution document; slices |
| `Provenance` | why, watch, inspect; the targets of stops |
| `Bench` | what the commands share: the report, and the mishaps still to come |
| `Recording`, `Replay`, `Minimization`, `StopTargets` | record, replay, minimize and a recording break, step by step; each extends the one before |
| `EvidenceReducer` | facts and the decision of the native core |
| `Diagnosis` | sufficiency and the escalation loop |
| `Retention` | writers of one store, and fetch |
| `Workbench` | the commands composed, one at a time on one witness file, and the archive |
| `RetentionProofs` | proofs: the archive |
| `WorkbenchProofs` | proofs: its place in the composition; the escalation, the search, that commands return |
| `CommandProofs` | proofs: what replays, diagnoses and breaks answer is true of the run |
| `MCWorkbench` | the instance TLC checks |

Definitions named in a comment as "mutant of X" are never part of a
specification: they are plausible bugs, kept beside the definition they change,
and each property is known to fail when its mutant takes the place of the
original.

### LiveSession

One action per step between two points another process can see: a read or
write of a session file, or a daemon call. `pc[c]` says where client `c` is;
`doc`, `first`, `reply`, `kept`, `todo`, `child`, `closing` are the locals of
the Python helpers and are reset when the helper returns or raises (`Return`).

| code | actions |
| --- | --- |
| `start_session` | `StartCheck`, `StartSpawn` (or `StartSpawnFails`), `StartWaitFails`, `StartCall`/`StartCallFails`, then `StartLive`, `StartHistory` or `StartFinished`, `StartEvidence`, `StartRetire` |
| `_live_document` | `DriveRead` |
| `LiveClient.call` of resume, continue, step, terminate | `DriveCall`, `DriveCallFails`, `AnswerLost` |
| `_absorb_event`, a stop | `AbsorbStop` (session.json), `ReadStops`, `AppendStop` (stops.json) |
| `_absorb_event`, the end | `ReadAllStops`, `FinishHandle`, `FinishEvidence`, `FinishShutdown` |
| `close_session` | `CloseRead`, `CloseReread` (the second read, in `terminate_session`), the drive actions, `CloseMark`, `CloseShutdown` |
| `_wipe_session_dir` | `WipeList`, `WipeOne`, `WipeDone` |
| a client killed | `Crash` |
| the daemon dying | `KillDaemon` |

`resume`, `continue`, `step_*` and the pipe's dispatch share one path
(`_drive_with`), so they are one operation of the model, "advance". The close
document is the one read first (`first`), as in the code. `Fail` is the `except
LiveError` of `close_session`: inside a close any failed call, a refused token
included, leads to `CloseMark`; elsewhere it ends the command.

The daemon is external. `StopAt`, `EndOf`, `Owns` and `Accepts` say what
`live.py` and the docs rely on: a run request needs the token of the newest
stop, answers with the next stop and its token or with the end, a terminal stop
can only be terminated. A token is modelled by the number of its stop. A
request is executed in one step; a client timeout is `DriveCallFails` (request
lost) or `AnswerLost` (request executed) when "lose" is among the faults.
A daemon that is up and refuses a start is in the model only as such a lost
request: the client cannot tell the two apart by what it does next.

Abstractions: unlinking a stale socket, spawning, binding and waiting are one
step, so the finer race of two starts over the socket is out of the model, and
the runs let one client start; a file is written in one step (`_atomic_write`
renames, but all writers share one `.tmp` name); the contents of stops,
outcomes and time stamps are left out.

### ResidentSession

| code | actions |
| --- | --- |
| `open_session` | `OpenRead` (validate, check, read the bytes), `OpenPlace` (witness.json), `WriteIndex` for each index, `OpenCommit` (session.json) |
| `attach_session` | `AttachRead`, `AttachFresh` or `AttachStale`, `AttachOrient` or `AttachRebuild`, `WriteIndex`, `AttachRecord` |
| `query_session` | attach, then `QueryReread` (memo lookup and second read of session.json), `QueryLoad`, `MemoStore`, `QueryCount` |
| `_memo_evict` | `MemoList`, `MemoEvict`, `MemoEvicted` |
| `close_session` | `CloseRead`, `CloseMark`, `WipeScan`, `WipeOne`, `WipeDone` |
| a client killed; the witness exchanged; an index lost | `Crash`, `Tamper`, `LoseIndex` |

A result is known by the witness it was computed from, a digest by the witness
its bytes encode; "tampered" bytes do not validate. The memo maps a key (the
witness and the question) to that provenance, and `recent` orders its files by
age. `missed` holds the files an eviction failed to unlink and still counts.
Abstractions: the counters in session.json; the four index files are read in
one step; lookup and second read are one step (the key is fixed before both,
so only which moment decides a hit differs); modification times are distinct;
`rmtree` removes a subdirectory in one step.

### Remediation

| code | actions |
| --- | --- |
| `remediate`, up to the checks | `Start` |
| `_check_descriptor` | `CheckBroken` or `CheckDescriptor` (reads the file, tests its entries), `Observe` (`_observe_abi` or `abi_cache`), `Judge` (compares, asks git, queues or escalates) |
| `_check_binding` | `CheckBroken` or `CheckBinding`, `Observe`, `Judge` |
| the loop over `ordered` | `DryApply`, or one of `ApplyDead`, `ApplyMissing`, `ApplyIdentity`, `ApplyBinding` (the write), then `Validate` |
| the envelope | `Report` |
| developers; the process killed | `Edit`, `Commit`, `MoveLibrary`, `MoveGenerator`; `Kill` |

`queue` is the union of `run.repairs` and `run.reconciliations`; `Rank` is the
sort key, `First` the next item. `errors` counts the escalations of severity
"error" found by the checks, `failed` those added by repairs. `last` and
`quiet` are history variables: the envelope of the last run if it passed and as
long as nobody touched the checkout, and whether somebody did since the run
began.

The library roots are those of the code, and they differ. A check resolves the
imports of a descriptor with its own entries (`Roots`), and adds the stdlib and
the sibling checkouts (`Siblings`) unless the descriptor is self-sufficient; the
check of the binding adds these to `MNCS_LIBRARY_PATH`, which is the argument
`path` of a run. The repair of the binding puts the stdlib and the siblings in
the place of `MNCS_LIBRARY_PATH` (`RepairRoots`), and needs the generator of
mncs-language, which may be absent for as long as it likes (`generator`,
`MoveGenerator`). So a stale binding may be called repairable by every run and
fail in every run. `Settles` does not say that such a binding is repaired; it
says that all that can be repaired is, though this repair comes first in the
order of every run and fails.

Abstractions: a module's source and its interface identity are one value,
whichever roots resolved its imports; a library is a directory that is there or
not; descriptors are written by remediation only; refusals before any check
change nothing and are left out; of the envelope, the verdict and the arguments
it is about are kept.

### The workbench

`Bench`, `Recording`, `Replay`, `Minimization`, `StopTargets`, `Diagnosis`,
`Retention` and `Workbench` are state machines; `DebugOutcome`,
`TraceProjection`, `Provenance` and `EvidenceReducer` are the functions they
compute with, which have no state in the code either.

| code | actions |
| --- | --- |
| `build_witness` | `Record`, then `Observe` (`observe_request`), `Execute` when no observation came, `IndexStatics`, `ClassifyRun` (the core), `SealWitness` (trace, digests, recipe) |
| `replay_execute`, `_ReplayInputs` | `StartReplay`, `OpenReplay` (recipe, digests, the choice of files or copies), `ValidateReplay`, `ExecuteReplay` (both end in `CompareReplay`) |
| `minimize_witness` | `StartMinimization`, `TryCandidate` for each candidate, `NoReduction` or `Reduce` |
| `record_stop_set` | `StartBreak`, `FetchSourceMap`, the actions of a recording, `FinishBreak` |
| `diagnostic_loop` | `StartDiagnosis`, then `DecideNext` (the core) and `Project` in turn |
| `diagnostic_sufficiency` | `AskSufficiency` |
| `trace_slice`, `provenance_query`, `watch_binding`, `inspect_witness`, `witness_stop_set` | `AskTrace`, `AskWhy`, `AskWatch`, `AskInspect`, `AskStops` |
| `retain_witness`, `retain_live_evidence` | `ReadAndValidate`, `ReadPayload` (witnesses only), `OpenStore`, `Put`, `Reopen` |
| `fetch_witness`, `fetch_live_evidence` | `Fetch` |
| `main` | `Command` starts one when none runs, `CommandStep` goes on with it, `ReadReport` ends it |
| a developer; another command | `Edit` (program or request); `Rewrite` (a file that is being retained) |

A version of a program or a request stands for its bytes and their digest. What
the language does is the constant `runtime`: the result of each program on each
request, the compiler's map, whether there is a source map, whether programs are
short enough to be embedded. The executable is deterministic; what is not is
time and the machine, and that is `trouble`: each edit, stall, outage of the
core and loss of a file or library takes one of a bounded number. A stall is a
run past its deadline (`Killed`).

A result keeps what the two ways of judging it can tell apart: `wrapped` (the
`observe` command knows the program; older executables do not, and then the
execution stands in), `long` (the document is more than the 1024 bytes that a
re-execution keeps), `effect` (the failure's reason names an effect, which the
core sees and a signature does not). `NewWitness` holds what the commands read
later; `ran` is a history field, the files the observed run read, so that
properties can ask whether the witness tells of that run.

Abstractions. The executable or a library that is gone, or has another digest,
is one mishap of a replay or a minimization. A digest of a file and its
embedded copy are of one read. The reduced request of a minimization is
recorded in one step, with the same choices of stalls and outages. Inside a
diagnosis a minimization is the statuses it may end in, and a replay is of the
recorded trace, as in the code. `embeds` says whether the program is short
enough for a copy in the witness; a request always is, so that a minimization
that is refused for want of one (analysis.py:1387) is left out. The values of
older traces are left out, their events are kept. Retained documents are a kind,
an identity and whether they validate.

What an observation keeps is decided by the executable, which is external, from
the options the code gives it: a policy (`Policy`) is `--capture`, the
operations of `--operation`, `--max-events` and `--max-values`. `Observed` takes
the first events of the selection and the first values, as many as the limits
allow, in the order of their capture, and reports what a limit dropped as
truncated. A selection (`Chosen`) filters events, under `selected` only: values
and effects are kept whole, which is how the repository's tests and its pressure P-014 describe a
selected witness; whether the events it leaves out count as truncation is not
said anywhere, so a runtime may do either (`strict`). A break records its own
target's operations with `selected`; a minimization records its reduced request
with the defaults (`DefaultPolicy`). No later command looks at the selection a
witness was made with: a slice of a selected witness is called complete when
nothing of that selection is missing.

## 3. Runs

| run | instance | shows |
| --- | --- | --- |
| `live_single` | 1 client, 2 executions, 3 stops, history bound 2, daemon may die, fair | `HistoryComplete`, `EvidenceComplete`, `StopsAppendOnly`, `CloseRetiresHandle` |
| `live_single_faults` | the same with client crashes and lost answers | `HistoryOrdered`, and `ImplementsLedger`: the files do only what `LiveLedger` allows |
| `live_pair` | 2 clients, 1 execution, 3 stops, no removal, daemon may die, fair | `NoOrphanDaemon`, `CommandsReturn`, `FinishedGetsEvidence`, `CloseRetiresDaemon` |
| `live_pair_faults` | 2 clients, 1 execution, 3 stops, removal, crashes and lost answers | `TypeOK`, `IInv`, `NoStopTwice`, `HistoryNeverAhead`, `EvidenceEarned`, `HandleNeverRegresses`, `EvidenceImmutable` |
| `live_lost_update` | 2 clients, no fault | violated: `StopsAppendOnly` |
| `live_close_race` | 2 clients, no fault | violated: `CloseFinalizes` |
| `resident_single` | 1 client, 2 witnesses, 2 questions, 2 indexes, bounds of 2 entries and 3 bytes, every fault | `MemoSound`, `RetiredStays`, `RebuildFaithful`, `FreshResultKept` |
| `resident_pair` | 2 clients, 1 witness, 3 questions (one larger than the memo), bound of 1 entry, fair | `TypeOK`, `MemoBounded`, `CommandsReturn` |
| `resident_memo_race` | 2 clients, 2 witnesses, no fault | violated: `MemoSound` |
| `remediation` | a self-sufficient descriptor and the binding, in every state; 2 library directories of which the run itself adds one, `MNCS_LIBRARY_PATH` the other, which may be absent, a generator or none, 2 contents, budget 1, 1 disturbance, fair | `TypeOK`, `PassedMeansClean`, `HintsRespected`, `RefreezeReviewed`, `Settles` |
| `remediation_rerun` | the same without disturbance | violated: `RerunsStayQuiet` |
| `workbench` | 4 runtimes, 2 programs, 2 requests, 2 mishaps, or 3 writers of one store and 1 rewrite | `SearchKeepsAccount`, `CompleteMeansWhole`, `StopSetsAgree`, `EscalationBounded`, `SufficientIsEarned`, `FetchNeverLies`, `OvertakenTwice`, `OrdinaryRunsReproduce`, `ReducedKeepsSignature`, `FactsGrow`, `CommandsReturn` |

Bounds. Three stops with a history bound of two reach the truncation of
`stops.json` and a stop after it; two executions in one directory reach a start
after a removal that was cut short; two clients suffice for every race the
code has, each being between one reader and one writer of a file. Bounds on
daemons and stops are part of the guards (`StartSpawnFails` is the code's own
error path when the bound on daemons is used up; an execution whose stops are
used up can only end). Two questions of sizes 1 and 2 over two witnesses pass
either memo bound alone; the third is larger than the whole memo.
`resident_single` permutes the two witnesses (no liveness there).

In `remediation` a run finds up to three items, so a budget of one is cut, and
would be used up by one repair that fails, were failures charged to it. The
content "new" imports from a directory that only an entry of the descriptor or
`MNCS_LIBRARY_PATH` supplies: the binding's check resolves it and its repair does
not. One disturbance (an edit, a commit, a library or the generator that comes
or goes, a toolchain, git or generator failure, a kill) falls between any two
steps, and initial checkouts may hold uncommitted edits.

In `workbench` the four runtimes are: a language with a source map whose run
fails, and returns on a smaller request; an older executable without
observation; one whose failures are of effects, whose returns are long and
whose programs are too large to embed; and one whose runs do not end or run out
of budget, and whose executable calls a selection truncated. The five policies
against runs of 3 and 4 events cut the events and not the values (2 and 8), the
values and not the events (8 and 1), neither (8 and 8, with the capture bounded
and failure-only), or everything but one operation (selected); slices of 1 and 8
cut some traces and not others; attempts of 1 and 8 end a
search inside the candidates of an argument and after the last. The arrays of
the core hold 3 traces, 8 claims and 2 statuses, so five trace and test
observations overflow one. Two mishaps suffice for what one can spoil and
another uncover: an edit while recording and an edit back, a stall of the
observation and of the execution that stands in for it, a recording without the
core and a replay from copies. Three writers let two rivals overtake a third
between its two puts. A behaviour is about the developer or about the archive
(`atWork`, fixed at the start): the two share no state, so their interleavings
would add states and no behaviour.

Three properties name what they leave out. `OrdinaryRunsReproduce` is about
runs whose signature is the same with the core and without: an effect failure,
an unsupported program or a missing document has another class in
`_execution_signature` than the core gives it, and a long document is cut, so
such a witness is reported a mismatch by its own replay. `ReducedKeepsSignature`
and `StopSetsAgree` ask for a behaviour without mishaps: an edit between two
runs is seen by nobody.

Fairness. The workbench has none: that a command returns is `CommandsReturn`,
the variant `StepsLeft` which each of its steps lowers, so it is a safety
property and can be proved. For the others, `FairSpec` asks weak fairness of `Proceed(c)` for each client: a
command that was started keeps running, since every wait in the code has a
timeout and no helper loops on another client. Nothing is assumed of the user,
who need not issue commands, or of faults. Liveness runs have no client
crashes: a dead client does not return. In `Remediation` a run proceeds (every
call has a timeout) and, for `Settles`, somebody runs it over the whole
checkout again and again, as its escalations ask: strong fairness, because
other runs may keep getting in between.

### Disagreements with the documentation

* `live_lost_update`: stops.json is documented as append-only and clients as
  safe to interleave. A drive publishes the new token (session.json) before it
  appends its stop, so a second drive may read stops.json before the first
  append and write it afterwards: a recorded stop is lost or comes out of
  order. In the trace TLC finds, the first of the two is the start, whose stop
  the drive writes away.
* `live_close_race`: a close is documented to terminate a live execution first,
  so that evidence is finalized. When another client drives between the close's
  read of the token and its terminate call, the daemon refuses the old token;
  the close takes this for an unreachable daemon, marks the session closed
  without evidence, and shuts the reachable daemon down.
* `resident_memo_race`: results are documented as memoized by request identity.
  A query whose session is reopened for another witness between its two reads
  of session.json stores the other witness's result under the first one's key,
  where later lookups accept it.

* `remediation_rerun`: an envelope calls its run idempotent, and a test says
  that re-runs stay quiet. The check that finds a missing stdlib entry returns
  before it compares the identity, and the repair only validates that the
  module is admitted: the run passes, and the next one finds a stale identity.

## 4. Proofs

The theorems of `LiveSessionProofs` and `LiveHistoryProofs` are proved for every
number of clients, executions, stops and any history bound, from
`BoundsAssumption` and `ChoicesAssumption` alone.

* `TypeCorrect`: `Spec => []TypeOK`.
* `OwnerAlways` and from it `EvidenceIsEarned`, `HandleForward`,
  `EvidenceWrittenOnce`.
* `Invariant` (`Spec => []IInv`) and from it `NeverTwice`, `NeverAhead`.

The argument. No lock protects the files, so nothing in one file by itself is
inductive. What protects them is the token: the daemon accepts a run request
only with the token of the newest stop, so at any moment at most one client
holds the answer about that stop. `Custody` says that until this client writes
session.json, no handle and no caller has the new token; hence the next writer
of a live handle is always ahead of it (`HandleForward`) whatever other clients
do or wherever they die. `Ends` is the same for the end of an execution: one
client holds it, evidence does not exist yet, so evidence is written once.
`Records` extends the argument to every copy of stops.json in flight: each is
free of repeats, holds only stops that were made and are not ahead of the live
handle, and not the one its owner is about to append; a stale copy that is
written back may lose stops, and does no worse.

What needs a hypothesis on who does what is in `LiveSoloProofs`; each hypothesis
is one of a run that checks the same property. They are needed: clients that
overlap lose updates of stops.json (`live_lost_update`), and a crash between two
writes loses a stop.

* One client, any faults (as in `live_single_faults`): `InOrder`
  (`HistoryOrdered`) and `LedgerImplemented` (`ImplementsLedger`). `SoloInv`
  adds to `IInv` that executions are born in order (`Births`), that the handle
  a drive has read is not older than the newest recorded stop (`Newest`), and
  what each stage of a command knows of the three files (`Starting`, `Driving`,
  `Ending`). The refinement follows step by step: each write is one step of the
  ledger, everything else leaves the files alone.
* One client when only daemons die (`Faults \subseteq {"kill"}`, as in
  `live_single`): `HistoryWhole` (`HistoryComplete`), `EvidenceWhole`
  (`EvidenceComplete`) and `AppendOnly` (`StopsAppendOnly`). `Recorded` says
  which stops are in the file at each stage: all that were made, or all but the
  one still in the client's hand.
* One starter, no close that deletes files, only daemons die, any number of
  other clients (`Disciplined`, as in `live_pair`): `NoOrphan`
  (`NoOrphanDaemon`). `Tending`, in `TendedInv`, says of every daemon that is up
  that the live handle has its newest token or that some client is at a step
  from which it goes on with it.

Only model-checked of live sessions: liveness (`FinishedGetsEvidence`,
`CloseRetiresHandle`, `CloseRetiresDaemon`, `CommandsReturn`), which is out of
the prover's reach like everything about ENABLED and fairness. TLC checked each
of these invariants before its proof.

Resident sessions (`ResidentProofs`), for any witnesses, questions, index files,
memo bounds and faults. For any number of clients: `TypeCorrect`, and
`BoundsHold` (`MemoBounded`) if none dies at work. Clients list, count and
unlink the memo with no lock; `BoundedInv` says that while the memo is over a
bound some client is `Responsible`: it is about to list the files, or has all
of them in its listing. For one client: `OneClientMemo` (`MemoSound`),
`OneClientRetired` (`RetiredStays`), `OneClientRebuild` (`RebuildFaithful`) and
`OneClientKept` (`FreshResultKept`). With two clients these fail in the code: a
query that stores after another client's re-open breaks `MemoSound` (the
counterexample of `resident_memo_race`), and an attach that writes its own copy
of session.json back after another client's close breaks `RetiredStays`. The
inductive invariant `SoundInv` says where a client's copy of session.json is the
file (everywhere except between the writes of an open), and that the witness in
the memo key is the one the result is computed from; the held witness is not
part of it, so the theorems cover every change of it between the digest check
and the load. `KeptInv` says that the file the client stored is the last of its
listing, so that the eviction meets it only when the memo is within its bounds
already. The sizes of a set of files are added up over the set by counting
pairs of a file and one of its units, which can be reasoned about without
induction. `CommandsReturn` of `resident_pair` is liveness and is model-checked
only.

Remediation (`RemediationProofs`), for any descriptors, modules, libraries,
budgets and number of disturbances, from `RemediationAssumption` and
`ContentsApart`: `TypeCorrect`, `WritesHinted` (`HintsRespected`) and
`FreezesReviewed` (`RefreezeReviewed`). A write is far from the checks that
justify it; what carries over is the queue. `HintInv`: its items lie within the
hints of the run. `Reviewed`: while the run is `quiet`, every cached
observation still is the source's, and the identity of every queued item is
that of a committed source. `RefreezeReviewed` needs `quiet`: an edit between
the check and the repair is generated into the binding before its validation
fails, and a source that is edited, observed and reverted before git is asked is
taken for clean. `PassedIsClean` (`PassedMeansClean`): a verdict of the run
that nobody disturbed is about files it has read at different times. `CleanInv`
says that what a descriptor that was `Checked` still lacks is in the queue
(`Coherent`: its shape, its libraries, its frozen identity), so that a run that
ends with nothing undone leaves nothing to repair, and that what was read of the
file in hand still stands (`Looked`). `Settles` is liveness and is
model-checked only.

The archive (`RetentionProofs`), for any writers, documents and number of
rewrites: `FetchesAreTrue` (`FetchNeverLies`) and `GivesUpAfterTwo`
(`OvertakenTwice`). The store does hold wrong documents, since the payload is
read after the validation; what the proof carries is `StoreKeepsKinds`: the
object under a key is of that kind, and live evidence, which fetch does not
compare, carries its own identity because it is stored from the bytes that were
validated (`CarriesItsOwn`). `SeesThePast` orders the generations a retain has
seen, from which the two rivals follow. `ArchiveIsRetention` shows that the
composition implements `RetentionSpec`, so both hold of `Spec` too
(`ArchiveFetchesAreTrue`, `ArchiveGivesUpAfterTwo`).

The workbench, for any runtimes, programs, requests, targets, evidence, bounds
and number of mishaps. `DiagnosesAreBounded` (`EscalationBounded`): the
documents of an escalation are those that were brought, then one for each
projection tried, of different schemas that are all in `attempted`; that
`attempted` holds them all is what makes it inductive (`Underway`).
`SearchesKeepTheirAccount` (`SearchKeepsAccount`): the current request differs
from the recorded one exactly at the arguments of the changes, which is kept
only because changes are in the order of the arguments and each is below the
argument whose turn it is (`Account`). `EveryCommandReturns` (`CommandsReturn`)
needs both and that one command runs at a time (`OneCommand`): a step of one
command leaves what the others have left alone. `CommandInv` is their
conjunction; `CommandsKeepInvariant` states it. `OrdinaryWitnessesReproduce`
(`OrdinaryRunsReproduce`) needs the memory of a witness: `RunsInv` says that
its outcome is that of a run of the files it names, in time or late, with some
verdict of the front end, with the core or without (`Judged`), through every
step of a recording and of a search, and that a replay runs the files or what
the witness kept. From that and an ordinary outcome it follows that the run was
in time, accepted and classified, so that its signature is the one its document
has alone (`OrdinarySignature`). The assumptions are that a candidate of an
input is an input (`InputAssumption`) and that runs give documents with their
fields (`RuntimeAssumption`). Both invariants were checked by TLC before they
were proved.

Four more are about what the commands answer. They speak of selections and
disjunctions over traces and documents. The model states these over sets of
places in a sequence (`Places`, `At`), so that no proof needs induction over
the data.

* `WhatSufficesIsEarned` (`SufficientIsEarned`). `EvidenceInv`: the facts of an
  answer are those of the documents it lists, made of the witness that is still
  there.
* `DecisionsForgetNothing` (`FactsGrow`). `DecisionInv`: the facts an escalation
  holds are those of all its documents but the last, and a further document adds
  to what each array holds (`MoreFacts`). An array that overflows is discarded
  whole, which is why the property excludes it.
* `BreaksAgree` (`StopSetsAgree`). The target is resolved in the map of one run
  of the compiler, and the witness of another is searched. `StopInv`: while no
  mishap was spent, the recording under the break is of the files whose map
  resolved the target, and ends in a witness with that map (`RecordsTarget`);
  what was answered stays true of the witness (`AnswersTarget`), since mishaps
  are never given back.
* `CompleteIsWhole` (`CompleteMeansWhole`). `ShowsInv`: the stream of a recording
  and of a witness is what was observed of the run of the files it names
  (`Shows`), because a process that was killed prints no observation, and its
  trace is that of the stream or refers to nothing (`Projected`). A trace that
  is called complete was cut at no limit (`Limited`), so it has an event for each
  the capture policy asks for, and all values; a slice of it that is called
  complete was asked for all of them. An answer is complete by the status of the
  stream, which says of dropped values what no event shows; an answer that went
  by its events would not be (`AnswerStatusOfEvents`). It holds for any
  selections and limits and whatever happens, edits of the program under a
  recording included: the properties are about the files that ran. It rests on
  what `Observed` says of the executable: that it reports what a limit dropped.
  The assumptions are `PolicyAssumption`, `DefaultAssumption` and
  `SliceAssumption` (the command line refuses other limits) and
  `StreamAssumption` (a stream has its fields, and its events and values are
  sequences).

Only model-checked of the workbench: `ReducedKeepsSignature`, which rests on a
fact of the language that the code does not check: failures of the same identity
have the same reason.

## 5. Plan

Done: live and resident sessions, remediation, the workbench with all the
commands on a witness, and the archive. What could follow, in order:

1. attach, inspect, bind_stop and clear_stop racing the drivers of a live
   session, and the split of a start into unlink, spawn, bind and wait; they
   change no file, but their reports can be out of date when they are read.
2. `_atomic_write` as two steps with its shared `.tmp` name.
3. Proofs: every safety property of a passing run is a theorem but
   `ReducedKeepsSignature`. What is left is to widen the hypotheses: which of the
   one-client properties of `LiveSession` and `ResidentSession` hold of several
   clients that never overlap.

Not modelled, and not planned: document schemas and hashing as such; the digest
memo of `protocol.py`, which annotates and decides nothing, and is started anew
when it does not parse; the generated binding and the framing of the core's
calls; failure lineage and the coherence checks of the core, which no modelled
command calls; compiler phases, imports and exports of documents, the forge
executor; argument parsing and printing; and the external daemon, Store,
toolchain and language beyond what the code relies on.
