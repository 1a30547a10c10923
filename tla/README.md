# oneagentgraph: verification development

`oneagentgraph` runs a graph of agents. Each member is either a one-party
harness process or a two-party conversation between a worker and a supervisor
(`kind: onejudge`). Members have dependencies and some carry a schedule. The
program is a set of threads and processes that talk through files, atomics and
channels. Its tests exercise each part on a few schedules; this development
checks the parts that interleave on every schedule of small instances, and
proves what matters most for every instance.

Sources are named as in the repository; `run.rs` is `src/src/run.rs`, and so on.
`PROJECT.json` has the line range behind every definition (`map`), the hazards
each property is aimed at, and one mutation of the model that breaks each
property.

## 1. Inventory

| Component | Source | State it keeps | Operations | Talks to | Module |
|---|---|---|---|---|---|
| Graph scheduler | `run.rs` | the wave in progress, the record, `failed`, the set of successful members, the count `Foreground::live`, one clock per scheduled member | open, admit, start, hear, record and close a wave; a clock's tick; a firing; its chain; settle | members (a thread each), clocks (a channel, a mutex, an atomic), operators (signal files) | `Scheduler` |
| Graph configuration | `config.rs`, `run.rs` | none (pure) | version gates, overrides of flags and environment, validation, `is_background`, waves | scheduler | `GraphDocument` |
| Invocations, personas | `invoke.rs`, `persona.rs`, `resolve.rs`, `anchor.rs` | what each reference was read as; the files of each member's scratch | resolve, merge, stamp, write a side, record the texts | operator's documents, members | `Invocation` |
| Run directory | `run.rs`, `history.rs` | `record.json`, `events.ndjson`, the lock of one run | mint, claim, record, announce, settle, list | every reader of a run | `RunDirectory` |
| Command line, detached start | `main.rs`, `run.rs`, `smoke.rs` | the handshake of a start; a smoke's attempts | `start`, `run --detach`, `smoke` | run directory | `RunDirectory`, `Smoke` |
| Run scratch and sweep | `scratch.rs`, `sweep.rs` | `owner.lock`, the identity in it, the stamps of processes | claim, keep, drop, launch, adopt, reap, sweep | every process of a run, later runs | `ScratchSweep` |
| One-party harness member | `harness.rs` | the process, its stream, the supervising loop, the control record | fire, spawn, read, condemn, give up, publish | watchdog, heartbeat, operators | `HarnessMember` |
| Member launch, heartbeat | `member.rs`, `liveness.rs`, `clock.rs` | the heartbeat's age | start, beat | scheduler, watchdog | `HarnessMember` |
| Pre-turn hooks | `preturn.rs` | one bounded child and its two pipes | spawn, drain, reap, capture, quote | member | `HarnessMember`, `PreTurnView` |
| Two-party conversation | `judge.rs` | the engine thread, the hold between turns, the abort flag, the supervising loop, the outcome | observe, hold, resume, receive, condemn, tear down, finish | the engine (`onejudge`), the note relay, signal files, watchdog | `Conversation` |
| Event stream | `judge.rs`, `event.rs`, `transcript.rs`, `render.rs` | one stream; one reference per party; the opening that is pending | publish, refer, render | every thread; readers | `TurnJournal` |
| Activity watchdog | `member.rs`, `scratch.rs` | the stamp of the last event, when it was last cleared by work, the last look and its sample | judge, look at the process tree | the sink that stamps, the process table | `Watchdog` |
| Note seam | `note.rs` | offers held and answered, the in-flight and taken counts, the relay thread, a thread per wait | offer, wait, wait until, withdraw, settle, announce, end | callers (a bus), the engine's inbox, the turn's sink | `NoteRelay` |
| Note and interrupt control | `control.rs`, `note.rs` | the address of the open turn; the answers written down | choose a lever, deliver, wait, take back | members, operators | `NoteCaller`, `HarnessMember` |
| Test doubles | `src/src/bin/*` | | | tests only | not modelled |

### What is hard in them, and what makes each correct

*Scheduler.* Three places count a foreground member down (a skip, a wave's
callback, a clock's end), and the run is quiescent when that atomic reaches
zero. Clocks read the count, the stop files, the reset file and the trigger file
one after another while other threads change them. A chain behind a clock
decides eligibility from a set that others grow. Clocks send outcomes through a
channel that is drained once, at the end. *Correct* means: the count is exact,
no turn precedes the success of its dependencies, a clock overruns quiescence or
a stop by at most one turn, the record and exit code tell the truth, and the run
settles when the contract says so.

*Configuration and invocations.* Whether each member's turn ever comes due is
decided by overrides, defaults and an environment variable together. Documents
are read once per reference while an operator may edit them; the judges of a
panel write files side by side in one directory. *Correct* means: what is
accepted is what the scheduler assumes; each side runs what it was written; the
record lists what ran; no persona takes a review bar away.

*Run directory.* A process may die between any two writes; two runs may mint one
id. *Correct* means: no two runs share a directory, the history claims nothing
that did not happen, whoever asked for a run is answered.

*Scratch and sweep.* A sweep races an owner that is starting, over a lock file
that may be unlinked between its opening and its locking; a reap reads a process
three times before it signals its pid, and pids are used again. *Correct* means:
a live owner's directory is not removed; an abandoned one that has a lock file
eventually is; and a process outside the tree is killed only if it was given the
pid between two of those readings (section 6, *Files*).

*Harness member.* The member's thread, its engine, its heartbeat and an operator
race over one firing, and the control record outlives it. *Correct* means: each
firing is told once and whole, and ends but for what the code waits on without a
bound; an interrupt reaches the turn it was addressed to.

*Conversation and its stream.* The engine's answer may sit in the channel while
the supervisor condemns it; the hold makes five reads of what other processes
write in one tick; an abandoned engine goes on publishing. *Correct* means: the
outcome is the one that happened, a stop beats a trigger and always ends the
member, a note ends a hold, a reference resolves to what was said.

*Watchdog.* It judges on stale evidence by design, from a rate that a departing
process distorts, in a loop that comes round when the host lets it. *Correct*
means: a wedged member is condemned; a busy one is not, and the evidence is about
the silence in progress, unless the loop was later than its looks can make up for.

*Note seam.* A deadline, a withdrawal, the engine taking the note, the turn's
probe and the member's end race for one offer; the caller sees all of it through
files that may be torn. *Correct* means: one true answer per offer, published
once and heard by every caller; nothing hangs.

## 2. Modules

```
Quiescence            what a run promises about staying open and settling
    ^ refined by
SchedulerQuiescence   the refinement mapping
    | extends
Scheduler --- GraphShape --- GraphDocument       (the graph, and what yields it)
    ^ extended by                  \
SchedulerProofs                     Preparation --- Invocation
MCScheduler                          ^ MCPreparation, PreparationProofs

Conversation <- ConversationProofs        one paced two-party member (judge.rs)
TurnJournal  \                            what such a member publishes
Watchdog      <- ActivityProofs           Stall and the process readings
  ^ MCConversation, over Conversation and Watchdog
HarnessMember <- HarnessProofs            one harness member over its firings

NotePromise           what the note seam promises of every offer
    ^ refined by
NoteRelay, NoteCaller  <- MCNotes, NotesProofs        both sides of the note seam

RunDirectory, Smoke,                      commands and the run's directory
PreTurnView  <- CommandsProofs, MCCommands            one view before a turn
ScratchSweep <- MCScratchSweep, ScratchProofs         one scratch directory
```

A `Proofs` module extends the modules it is about; `SchedulerProofs` extends
`SchedulerQuiescence` and `NotesProofs` has `NoteRelay`'s mapping, so both have
the theorems about their refinements too. `MC`
modules give constants their values, and where several small modules share a run,
choose which of them a behaviour is of. `Preparation` is a composition: the same
documents and members go through `GraphDocument` and then `Invocation`.

The modules meet at assumptions that one makes and another discharges.

| Assumed | By | Checked or modelled by |
|---|---|---|
| the graph is acyclic and something holds it open | `Scheduler`, via `GraphShape` | `GraphDocument` (`VerdictIsTheSchedulers` states it with the same `GraphShape`) |
| a paced turn ends once stopped, or once a background run is quiet | `Scheduler` (`TurnEnds`, `MayHold`) | `Conversation` (`NothingHoldsIt`) |
| a member may be condemned for silence at any moment | `Conversation`, `HarnessMember`, `TurnJournal` | `Watchdog` has the rule |
| a note offered is then counted | `Conversation` | `NoteRelay` |
| the member's answer is the one its caller reads back | `NoteCaller` | `NoteRelay` (`KeepsItsWord`: `Answers` of `NotePromise`) |
| a view ends, with some outcome | `HarnessMember` | `PreTurnView` |
| a run's turns settle or fail | `RunDirectory` | `Scheduler` |
| the run's directory is its own | `HarnessMember`, `RunDirectory` | `ScratchSweep` |

### Scheduler

| In the module | In the code |
|---|---|
| `phase`, `taken`, `todo[Main]`, `record`, `failed` | locals of `run_announcing` |
| `turn[r][m]` | the turn of `m` that runner `r` started: a thread of `run_wave`, or the clock's own firing |
| `successful` | `successful_members`, shared by the clocks under a mutex |
| `live` | `Foreground::live`, an `AtomicUsize` |
| `clock[c]` | the program counter of `c`'s clock thread, at the reads and writes of shared state in `cron` and `run_cron_chain` |
| `due[c]` | `counting_since.elapsed() >= interval`; time is nothing more here |
| `sent`, `sentFailed` | the channel to `Main`, as what draining it makes of the record |
| `stop`, `halted`, `triggers`, `resets` | files of the run's signal directory |
| `took`, `late`, `defied` | history, read by properties only |

`OpenWave`, `Skip`, `StartWave`, `Hear`, `RecordOutcome`, `CloseWave`, `Settle`
are `run_announcing`, one action between two points another thread can see.
`Wake`, `CheckQuiet`, `CheckReset`, `Fire`/`NotDue`, `FiringFails`/
`FiringSettles`, `Leave` are one tick of `cron`; each of its reads is an action
of its own, because every pair of them can be separated by another process.
`ChainOpens` to `ChainCollected` are `run_cron_chain`. `EndTurn` is
`member::run` returning: settled, or failed for every other outcome, since
`Outcome::is_success` tells only those apart.

`Quiescence` is what `docs/contract.md` promises, with sets instead of counters:
the run is open while a foreground member is unfinished; a clock may begin one
last thing it had already decided on; what is in flight ends; the run settles.
`SchedulerQuiescence` maps the scheduler to it, and `KeepsThePromise` is that
specification, its fairness included, as a property of the scheduler.

### GraphDocument, Invocation, Preparation

`GraphDocument` takes a document through `apply_background_env` and
`apply_overrides` (one `--set` at a time), the refusals of `validate`, and the
waves of `ready_order`, one per action. A document keeps its version, and of each
member its kind, dependencies, schedule and `background`; the other fields count
by the version they came with (`extra`) and by what is wrong with them (`flaws`).
`IsBackground` and `NeverComesDue` are the memos of the code, as recursive
functions. Of the flags, which the code applies one after another, the last that
names a member stands (`LastFlag`).

`Invocation` has one action per call that reads or writes: `LoadPersona`,
`ReadBase`, `ReadConfig`, `StampSide`, `ComposeHarnessJudge`, and so on, with the
operator's `Edit` between any two. `seen` is `Resolver::seen`; `scratch` the files
written so far. A text is a file at a version, and what it says is a record of
what the composition tells apart.

### RunDirectory, Smoke, PreTurnView

`RunDirectory`: `at[r]` is the next write of run `r`; `record[i]` and `stream[i]`
are what a reader of run directory `i` would find, a half-written record
included; `Crash` kills a process, with every run in it, between any two writes.
`told[r]` is what the caller of `start` or `--detach` has heard.

`Smoke`: one action per launch, whose report is any that the comments of
`smoke.rs` allow of `oneharness run`; what was paid is history.

`PreTurnView`: the program prints and exits; two drain threads read blocks into
what they keep; the turn's thread waits out the bound and joins them. `said` is
what has come through each pipe since the program began, `taken` how much of it
the drain has read. Bytes stand for themselves, so that cutting, decoding and
quoting are what they are in the code.

### ScratchSweep

A process is an incarnation (a pid and a start token); two of one pid never live
at one time. A lock file is a number, so that a directory made again has a new
one and an old handle holds the old one. The owner's steps are those of `claim`;
the sweep's are `SweepOpens`, `SweepLocks`, `SweepReads`, `SweepAges`,
`SweepStamps`, `SweepRemoves`, each after one look. A reap reads the environments
(`ReapNames`), then the start token of whoever has each pid by then
(`ReapIdentifies`), then goes through its targets twice, with a grace in between
(`RoundEnds`): `Checks` compares one target's token, and `Signals` is the kill
that follows, to whoever has the pid at that moment. On Windows it ends one job
after another (`EndsJob`). Any process may end, and another be given its pid,
between any two of these. `host` picks between the two; `MCScratchSweep` has sweep
and reap take turns, which the proofs do not need.

### HarnessMember

`phase` is the member's thread, `eng[f]` the engine of firing `f`, `beats` the
heartbeat's, `op` an operator's `interrupt`, which reads the record in one step
and delivers in another. `said[f]` counts what the stream tells of a firing. The
control record (`control`) outlives the firing, and so may its engine. A firing
that has its end joins the heartbeat's thread (`JoinHeartbeat`) before the next
begins; `holder` is a descendant of a view that keeps the view's pipe, and nothing
makes it let go.

### Conversation, TurnJournal

`engine` is the engine thread's place, with the hold's ticks split at each of
their reads (`Tick`, `HearStop`, `HearQuiet`, `HearReset`, `CountNotes`, then
`HoldFires` or `HoldGoesOn`); `watch` is the supervising thread's. `silent`
counts spans since the activity clock was stamped, two being more than the
bound. The turns belong to `onejudge` and are external.

`TurnJournal` has the same two threads with what they publish instead of what
they wait for: `stream` is the run's, `journal` the `TurnJournal` of the code
(one reference per party, attribution, the pending opening), `turns` the turns
with the record of each candidate, and `fell` the part of the telemetry that
names the candidates a chain passed over, in the order it passed over them.
`answer` is what the engine sends: whether it failed, and the records its telemetry
has of the candidates of some invocations (at most `Rows`), which need not be the
last one's. `TurnRecord` takes the latest of those, as `turn_record` does, so a
failure can be judged by an earlier turn's. Contents are compared and never read.

### Watchdog

Discrete time; every instant is an age, capped where no comparison tells further
ages apart. `LoadActivity` and `Judge` are two steps, as in the supervising loop,
which may come round up to `MaxLate` ticks late. `slow` is history: the loop has,
since the present sequence of looks began, been later than `Tolerated`.
The rate's comparison is made on integers without the code's division:
`|change| * 100 > taken * percent` holds exactly when the floor division says so.

### NotePromise, NoteRelay, NoteCaller

`NotePromise` is what `docs/contract.md` (Notes) promises of an offer, with no
inbox, ledger, count or thread: `fate` (not in, open to the turns, or how it
ended), `word` (what was decided to say of it), what the stream says, and what
each caller heard. A note meets one end for good; one word is given of it, which
is that end, or why it was taken back; the stream tells it once; whoever asks
hears the same; and the member is not over while a note has met its end and
there is no word of it. `NoteRelay` implements it (`KeepsItsWord`) under

| In `NotePromise` | In `NoteRelay` |
|---|---|
| `fate` | `note`, with a note that is queued and one a turn has taken both open |
| `word` | `answered`, the written-down answers |
| `stream` | `stream` |
| `heard` | of the replies in `caller`, those that say something of the note (a refusal to wait and "taken" say nothing) |
| `over` | `end` past its drain, when what is queued is answered and the spool closed |

The drain is one step of it, `Closes`: that it comes only after a word for every
note that has its end is what the settling and its bound are for.

`NoteRelay`: `note` is the inbox (external); `custody`, `answered`, `unsaid` the
book with its ledger; `stream` what is published of each offer; `relay`,
`caller`, `engine`, `end` the threads. `NoteCaller`: what one caller reads of the
run's record and of the control record (absent, torn, of an older build), the
lever it picks, the requests it makes and the written-down answer it may find
instead. An answer store that cannot be written is one of its inputs.

## 3. Runs

Every run is explored exhaustively. Where deadlock checking is off, the program
itself stops: a run settles and its process exits, a smoke or a preparation has
its verdict, a member has had its firings.

| Run | Instance | What it shows |
|---|---|---|
| `graph` | `ticker` and `base` before `summary` before `publish`; a foreground, resettable schedule that takes its first turn in the wave; stop, halt, trigger, reset | the count is exact, a stop is defied at most once, the cadence is kept, no turn precedes its dependencies, record and exit code are honest |
| `promise` | `keeper` paced by its own hold; a resettable, deferred background clock with a report behind it; stop, reset; fairness | the scheduler implements `Quiescence`, liveness included; a stop settles the run |
| `conversation` | background, resettable, two notes; stop, quiescence, trigger, reset; or the watchdog with bound 6, probes every 2, a loop up to 8 late | the outcome is the one that happened; a stop opens one turn at most and always ends the member; quiescence and notes end a hold; a hold is not silence; a wedged member is condemned, and a condemned one was idle, on evidence about this silence, unless the loop was too late |
| `notes` | two notes and three requests of any kind, an end at any moment; or one caller by either lever against a member of either build | the relay implements `NotePromise`: one true answer, told once and heard by all; a turn is stamped for its notes; no wait and no end hangs; the caller hears what became of the note |
| `scratch` | two owners one after another, one of them keeping, two workers, a stranger with a worker's pid, both hosts; a sweep or a reap at any moment | a live owner's directory stays; a stranger is killed only if it was given a target's pid in one of two windows; an abandoned directory is reclaimed if it has a lock file, and kept for ever if it has none |
| `member` | two firings, one view, an interrupt at any moment; refused group, starved or refused heartbeat, hung or lost engine | told once and whole; an interrupt reaches its turn; an ungrouped harness never settles; every firing ends, with three exceptions |
| `commands` | two runs by `start` or `--detach` in two milliseconds with crashes; or one smoke of chains of two; or a view of up to three bytes where two are kept | history tells the truth, a handle finds its run, `start` answers; a smoke pays once; a view is what was printed, and ends, with one exception |
| `document` | documents of three members over seven shapes of dependency, every schedule and `background`, the versions where something changes, one flaw each, flags and environment; one of them built with six panels, four persona references, two edits | the verdict is the scheduler's; sides run as written; the inventory is what ran; no persona takes a bar away |
| `journal` | three turns, two candidates or judges, one candidate passed over, one turn with a delivered note, a telemetry of up to two invocations | references resolve to what was said; each turn opened once; little after an outcome; outcomes agree with the records |
| `failure_forgotten`, `detach_names_another`, `cut_unmarked` | the smallest instance that shows it | a statement of the documents or comments that the code does not keep (section 6) |

**Why the bounds are enough.**

- *Scheduler.* A chain of two waves and a descendant with a clocked and an
  unclocked dependency need four members; `graph` has exactly that shape. Three
  suffice for `promise`: a holder, a clock, a descendant. What is proved (section
  5) needs no bound. `late` and `defied` count to "more than one", all a property
  asks.
- *Notes.* Two are the fewest in which one is taken while another waits; three
  requests the fewest in which two waits and a withdrawal race for one offer.
- *Watchdog.* With a bound of 6 and a probe every 2 a silence holds several looks,
  a lateness of 1 is tolerated and 2 is not. `MaxLate` is 8, more than the bound
  and well beyond what is tolerated. `Tolerated` is as wide as it can be here:
  without `~slow` TLC finds `CondemnedOnEvidence` violated, and by a loop that was
  2 late.
- *Scratch.* Two owners with one pid are the fewest in which a lock outlives its
  owner into a successor; a worker and a stranger with one pid the fewest in which
  a pid is read, checked and signalled as another's, in either window.
- *Member.* An address can be stale only from one firing to the next; two suffice.
- *Commands.* Two runs in two milliseconds mint equal or different ids, from one
  process or two. A chain of two has a candidate passed over and one that ran. A
  view of three bytes exceeds pipe, read and limit, with a two-byte character cut
  at each place.
- *Document.* Three members have every cause of refusal and a wave that a
  shortcut could misplace. Two versions of a text and two edits let a document
  change and change back between two reads.
- *Journal.* Three turns are worker, supervisor, worker, the fewest in which a
  stale reference of a party can be carried into its next turn. Two invocations in
  a telemetry are the fewest with one that failed beside an earlier one.

`conversation`, `notes`, `commands` and `document` check several questions of
independent parts in one exploration; no behaviour mixes them, except that `Preparation` orders a
document before its members are built, as the code does.

## 4. Fairness

- **Threads are scheduled.** `Main`, each clock, the supervising loops, the relay
  and each wait, a run's own thread, the drains of a view take a step they can
  take for ever (weak fairness on whole threads; per offer in `NoteRelay`, where
  different threads record and announce).
- **Time passes.** Spans elapse in the scheduler (`Elapse`), bounds pass in
  `HarnessMember`, milliseconds in `RunDirectory`. In `Conversation` they need
  not: its properties hold even if `every` never comes.
- **Turns end**, in the scheduler, unless a paced conversation may hold
  (`TurnEnds`). The watchdog and the heartbeat condemn what does not end, and
  `Conversation` discharges the assumption for the paced ones. Inside
  `Conversation` and `HarnessMember` a turn need not end.
- **An operator sweeps**, in `ScratchSweep`, again and again, and a directory
  grows old between sweeps. `Age` is disabled while a sweep runs, so its fairness
  is strong: the only strong fairness here, and only for `AbandonedIsReclaimed`.
  In `MCScratchSweep` a reap that has begun also goes on to its end.
- **What the code waits on without a bound is not assumed to come.** Nothing makes
  the holder of a view's pipe let go, and nothing makes a host run a starved
  heartbeat's thread again, which a firing joins: `EveryFiringEnds` and `ViewEnds`
  name those as exceptions.
- **Nobody else has to act.** No operator, caller, engine, harness or program is
  fair.

## 5. Theorems

Proved by TLAPS from the modules' named assumptions alone: for a finite acyclic
graph of any size with any kinds and schedules that validation accepts; any
number of notes, offers, callers, firings, views, runs, processes and owners; any
document, texts and edits; any bound, probe interval and lateness of the watchdog's
loop; chains and panels of any length.

| Theorem (of property) | Says |
|---|---|
| *`SchedulerProofs`* | |
| `TypesHold` (TypeOK), `LedgerHolds` (Ledger) | shapes; the shared count is exactly the number of unfinished foreground members, so it never wraps |
| `QuietStaysHolds` | quiescence, once reached, is for ever |
| `LateOnceHolds`, `DefiedOnceHolds` | a clock overruns quiescence, or a stop, by at most one start |
| `CadenceHolds` (CadenceKept) | a foreground schedule's clock stops only when told to |
| `TurnsFollowDepsHolds` | no turn, whoever starts it, precedes the settled turns of its dependencies |
| `SettledIsTheEndHolds` | nothing outlives `graph-settled` |
| `RefinesQuiescence` | the scheduler implements the safety part of `Quiescence` |
| `RecordTellsTheTruthHolds` | the final record and the exit code are what the turns came to |
| *`ConversationProofs`* | |
| `ConversationTypesHold`, `OutcomeMatchesHolds`, `StopOpensOneTurnHolds`, `HoldIsNotSilenceHolds` | the conversation's types and its three safety properties |
| *`ActivityProofs`* | |
| `EvidenceInvHolds`, `CondemnedOnEvidenceHolds` | nobody is condemned who was working, nor on a look older than the silence, unless the loop has been later than `Tolerated` since the looks began |
| `JournalInvHolds`, `RenderedAsSaidHolds` | what an event of the journal refers to was announced before it and reads as what was said |
| `OpeningsAreToldHolds`, `LittleAfterTheOutcomeHolds` | each turn is opened once, before anything else of it; after the outcome comes little, and only of an engine that was given up |
| `OutcomeAgreesWithRecordsHolds` | the candidates passed over are told once, in order; a failure is not published as a death over a billed record its invocation left, nor as a settle over another it left |
| *`HarnessProofs`* | |
| `ToldInvHolds`, `ToldOnceAndWholeHolds` | each firing is told once and whole, whichever end it comes to |
| `InterruptReachesItsTurnHolds` | an interrupt redirects the turn whose address it read |
| `UngroupedNeverSettlesHolds` | no step settles a harness that has no group |
| *`NotesProofs`* | |
| `RelayInvHolds`, `AnswerIsTrueHolds` | what is told, and written down, of an offer is what became of the note |
| `KeepsItsWordHolds` | the relay, the waits, the sink and the end implement `NotePromise` |
| `TurnCountsItsNotesHolds` | a turn is stamped for the notes accepted into it |
| `CallerHearsTheTruthHolds` | whichever lever carried a note, its caller hears what became of it |
| *`CommandsProofs`* | |
| `HistoryTellsTheTruthHolds`, `HandleFindsItsRunHolds` | a listed exit code is the one on that run's stream; a handle names a run that can be read, and no two runs share a directory |
| `PaysOnceHolds` | a smoke pays at most once, whatever its launches answer |
| `ViewIsWhatItPrintedHolds` | a view's text is a prefix of what the program printed, marked as cut exactly when more was printed than is kept, and nothing in it closes the element it is quoted in |
| *`ScratchProofs`* | |
| `ScratchInvHolds`, `LiveScratchStaysHolds`, `ReapSparesStrangersHolds` | a sweep takes no live owner's directory but through the one window it has; a reap ends nothing outside its tree but through the two it has |
| *`PreparationProofs`* | |
| `BuildInvHolds`, `InventoryIsWhatRanHolds`, `NobodyUnjudgedHolds`, `SidesRunAsWrittenHolds` | the texts read for the members that run are those recorded, no persona takes a bar away, and each side runs from a file of its own |
| `OrderInvHolds`, `VerdictIsTheSchedulersHolds` | a document is accepted or refused, and its waves laid, as the scheduler's own view of the graph asks |

### The arguments

None of the invariants is inductive as it stands; each paragraph names what was
missing.

*Ledger.* `live = Cardinality(Unfinished)` is kept only if a member counted down
really was in `Unfinished` and leaves it. `LedgerInv` adds `Shape` and
`WaveOrder`: a member is untouched before its wave is opened, has no clock while
it is still to be handled, and `Main` never waits on a turn it has heard of. With
these, each of `Skip`, `Hear` and `Leave` removes exactly one member from
`Unfinished` when it counts one down and none when it does not; lemma `Tally`
turns that into arithmetic on the count, by the library's facts about
cardinalities. The type invariant's `live \in Nat` follows from `Ledger`, never
the other way round.

*LateOnce, DefiedOnce.* `LateInv` and `DefiedInv` say where a clock can be once
it has started something late: never again between the check that would let it
start another and the start. *CadenceKept* follows from `Ledger`: the member
itself is unfinished while its clock runs, so `CheckQuiet` cannot send a
foreground clock away.

*TurnsFollowDeps.* `FollowInv` adds `Witnessed` (whatever the record, the shared
set or a chain's local set says settled did settle in a turn, and so did the
dependencies of whoever has a clock) and `ChainShape` (a clock between firings
holds no turns; in its firing it holds its own; in its chain, its own success and
the turns of the waves gone by).

*SettledIsTheEnd and the refinement.* `RefInv` is `LedgerInv`, `LateInv` and
`FollowInv` with `Owned` (a running turn belongs to the wave `Main` waits for, to
its clock's firing or to the wave its clock collects), `HandedOver` (outside a
wave a schedule that took its turn has its clock) and `AllOver`. Each action then
maps to `Begin`, `End`, `Finish`, `Settle` of `Quiescence` or to a stutter;
`late` is the grace of a clock.

*RecordTellsTheTruth.* `RecordInv` adds that everything in the books came from a
turn that took place (`BookedTruly`), that a member passed over has no turn
(`PassedOver`), and that until the run settles every turn's outcome is either
booked or on its way: in a turn still held, with a clock, or in the channel
(`Accounted`). When `Main` settles, `RefInv` leaves nothing on its way.

*Conversation.* `OutcomeInv` relates three threads' variables: `Answering`,
`Reason` (a reason is written down only with the end of a hold, and the signal
file it names is still there) and `Verdict` (abort is set only once the
supervising thread has a rule and listens no more). `StopInv` says a turn opened
after the stop leads nowhere but to the read that hears it; `Stamped`, that a
hold has been silent for exactly as long as it has slept since its last tick.

*CondemnedOnEvidence.* `EvidenceInv` relates ages: how old a look may be when the
loop comes round (`LooksInTime`), the clock the loop holds against the clock as
it is (`ClockInTime`), and the looks of one sequence against the silence they are
evidence about (`SequenceInTime`): while none of its rounds was later than
`Tolerated` (`LateIsTold`), the silence is older than the first of its looks,
because each began half a bound into it. `ChargeIsSeen` says that work done since
the last look is in the rate the next one will find, unless a process left; that
the rate is above the floor needs the last part of `Tolerated`. The constants
need only be numbers: the lateness is a variable of the behaviour, and where it
has been too much the property promises nothing.

*The journal.* `JournalInv` puts the four properties on one footing: what is at
each position of the stream. `TelemetryIsTheRecords` says that `fell` lists those
candidates whose record says so, each after the one before it, which is what an
outcome repeats. `AnswerIsOfTheTurns` says that whatever invocations the telemetry
of a failure names, they are the conversation's, with the records they left; the
one that failed is the latest of all, so that if it left a record this is the one
`TurnRecord` finds, and an earlier turn's is found only where it left none.
`OpenedBut` says of every turn but the pending one that its opening is in the
stream with nothing of it before, and of the pending one that only sessions and
fallbacks are. `ReferencesInv` says that each reference is to a candidate whose
history can be read and was announced earlier, and that so are the two the journal
holds, of the party whose turn it is none but the one that runs; without the
second half the next event could refer to anyone. `OutcomeInv` says there is one
outcome, that an engine that was heard says nothing after it, and of one that was
given up where it can still be. Every step is first reduced to what it adds to the
stream and what it does to the turns (`JournalSteps`); each conjunct is then kept
by each of the few shapes this leaves.

*ToldOnceAndWhole.* `ToldInv` says what has been told of every firing, kind by
kind, as a function of where its engine is: nothing before it begins
(`Unbegun`), one end once it is abandoned or heard (`ToldSoFar`). Steps are of
two kinds, those that publish and those that do not, so that most of them need
one lemma together. *InterruptReachesItsTurn* and *UngroupedNeverSettles* follow
with what the operator read, and from what `finish` may publish.

*AnswerIsTrue and its companions.* `RelayInv` gives every request its place
(`DeskInOrder`), every offer its custody, its disposition and what of it is
written down and said (`BookInOrder`), and says that the two counters are
cardinalities of sets of offers: those in the inbox that are counted in or being
so, and those the present turn took (`CountsInOrder`). The offer in the relay's
hands, between the inbox and its count, is the one exception in each of them, and
is named (`InHand`, `Handed`).

*KeepsItsWord.* `PromiseInv` adds to `RelayInv` three things the promise needs and
no property of the relay did: a request that has an answer is done, and only who
offers is told "admitted" (`GotInOrder`, so that nobody is answered twice); a note
is back out of the inbox with the word of it, unless the member's end is still to
give it (`BackInOrder`, without which `Drained` would end a member that has a
withdrawn note and no word of it); and the note that is about to be admitted is in
(`HeldIsIn`). Every action then maps to one of the promise or to none: `Probe` to
`Settles` of all it found, a wait's deadline, a withdrawal and an idle offer of a
member that ends to `TakesBack`, `Drained` to `Closes`.

*CallerHearsTheTruth.* `CallerInv` adds that what is kept and booked is the fate
(`WrittenInOrder`), that a spool is closed only on a note that is booked or left
with one still to be answered (`CloseInOrder`), and that a note taken back stays
so (`WithdrawnInOrder`). The module has no constants; the theorem is about what
TLC also explores in full.

*HistoryTellsTheTruth, HandleFindsItsRun.* The core of `DirectoryInv` is the
lock: who is between the claim and the end of a run is the owner of its directory
(`Locked`), so there is one at a time. What is in a file was then written by a
run that had come that far (`Authored`), in the order of the writes
(`Heralded`): an exit code is on the stream before it is in the record, and who
truncates a stream finds no older run's. A handle's directory is the one whose
name came first; that there is a first one is `LeastElement`, by well-founded
induction over the library's strict inclusion of finite sets.

*PaysOnce.* `SmokeInv` adds that nothing is charged while another launch is still
to be made, and `Answered`, that what was charged agrees with the last report.
`SpentNothingIsProof` is the lemma behind a retry: whatever `spent_nothing`
accepts records nobody who was paid. It rests on `Reports`, what `smoke.rs` says
of an external program.

*ViewIsWhatItPrinted.* `ViewInv` adds that a drain that has ended read all that
came through its pipe, from a program that is over and whose pipe nobody holds
open (`DrainsTell`), and where the thread of the turn is when it joins them
(`Joining`). The rest is about sequences: the text kept is the longest prefix that
decodes, and there is a longest one (`GreatestElement`, by `LeastElement` of the
complement); and what is quoted has the two frames of the element and no third.

*LiveScratchStays, ReapSparesStrangers.* `SweepInv` says there is one claimant at
a time by the only pid (`OneClaimant`), which lock files the live ones have in
hand (`LastFile`), and what each look of the sweep is still good for
(`SweepInOrder`, `FloorInOrder`). `TreeInOrder` and `ReapInOrder` do the same for
a tree: what is named was in it; a target is named, or came by a named pid before
the start tokens were read; what passed the check was a target, and alone had its
pid then (`OneBearer`). So whoever is signalled is of the tree, or came by the pid
in one of the two windows; one that was given it at any other time, the grace
between the rounds included, has another start token and is spared.

*Preparation.* `BuildInv` follows the steps of a member's building in order: what
has been read is what is in `seen` and in the record (`ReadInOrder`), the bar has
been replaced only by another (`BarInOrder`), the judges stamped so far are a
prefix of those asked for (`JudgesInOrder`), and each side's file says what was
composed for it, which needs that no two sides of one member share a file
(`SidesInOrder`). `OrderInv` keeps the edges as the document has them
(`EdgesKept`) and the waves as levels (`WavesInOrder`). Acyclicity is stated as
`NoneInCircles`, over sets that are closed under dependencies, because that is
inductive along the waves. The memos of `IsBackground` and `NeverComesDue`
compute what `GraphShape` defines by reachability: both are fixed points of the
same equations over the edges, and on an acyclic graph there is one only
(`ReachedByEdges`), so no induction over the memo's recursion is needed.

### What the proofs assume

Every constant's assumption is named in the module that declares it and is
evaluated by TLC on each run. Most say that bounds are numbers and sets finite.
The others, and what in the code justifies them:

| Assumption | Says | Because |
|---|---|---|
| `GraphShape`'s | an acyclic graph with something that holds it open | `validate`; `VerdictIsTheSchedulersHolds` discharges it |
| `InvocationAssumption` | at least one member, each once, in an order | a graph without members is refused (`config.rs:1028`), and members are a `BTreeMap` |
| `PlansAssumption` | no judge's label is the name of a member's own file | `is_judge_label`, `config.rs:906`, allows no dot |
| `PreTurnViewAssumption` | what a program prints is a sequence of bytes, each to one of two pipes | it is |
| `ProcsAssumption` | the owners of a directory come under one pid | the directory's name has it (`main.rs:752`) |

### What the attempts found

- `LiveScratchStays` used to say that, where a sweep has a floor, the owner that
  loses its directory had taken it over. With three owners one after another it
  may be the owner before the one that loses it; two owners, as the run has them,
  do not show it. The property now says what the code keeps (section 6, *Files*).
- Two models could not be reasoned about and were changed, to what the code keeps.
  `TurnJournal` folded the candidates passed over from the turns, and now keeps
  them as they are passed over, as the engine's telemetry does (`fell`);
  `PreTurnView` folded what each pipe had carried from what was printed, and now
  keeps it (`said`). TLC explores the same behaviours as before. A literal text is
  nothing to the provers, so which bytes a program can print is a constant.
- The promise of the note seam was first stated of replies alone, and each reply
  agreed with what was written down. As a specification it asks more: that the
  member is not over while it has nothing to say of a note it knows the end of.
  `BackInOrder` is what that rests on, and no property had needed it.
- `CondemnedOnEvidence` holds only while the loop comes round in time, and how
  late it may be is `Tolerated`: less than a quarter of the bound, half of it with
  a probe interval, and a window of at most a hundred ticks, beyond which one
  charged tick is less than the floor of one per cent. The code's intervals
  (`member.rs:687`: an eighth of the bound, at most 15 s; a tick is half a second)
  leave a loop room for that; nothing in the code keeps a loop to it, so it is part
  of the property and not assumed.
- The reap was first modelled with one look and one signal for all targets, of
  which `ReapSparesStrangers` is true without an exception. Of the code it is not:
  each reading is one step, and the two windows are in the property.

## 6. Where the code and its documents disagree

Three have a run whose counterexample is the code's own steps, and a row in
`PROJECT.json` that quotes the line.

1. `failure_forgotten`: a clock keeps and sends only its last outcome, so a
   firing that failed is forgotten once a later one settles, and the run exits 0;
   the notes say a failure among a clock's turns is the run's exit 1.
2. `detach_names_another`: `run --detach` answers with the first listed record
   that was not there before, whoever wrote it, beside its own child's pid.
3. `cut_unmarked`: what a view keeps is cut back to the last byte up to which it
   decodes, without a mark when the program printed less than is kept
   (`preturn.rs:500`); the contract and the module say a cut is always marked.

Smaller observations, met while modelling. Each is how the model behaves, and the
properties that hold are worded to say exactly this much.

*Scheduling.*
- A clock may start one turn after quiescence: it reads the count, then starts;
  the notes read as if it never did (`late`).
- A background paced conversation holds the wave it is in until quiescence, which
  a foreground member of a later wave may prevent; only a stop or a trigger helps.
- A call of `start` that gives up waiting may answer with its error while the run
  it started is about to announce itself; two runs of one process in one
  millisecond mint one id, and the lock refuses the second.

*Conversations and their stream.*
- `seen_offered` moves only when a hold fires (`judge.rs:302`), so a note a live
  turn already took ends the next hold at its first tick.
- An engine the run gave up on may still publish the observation it is in and a
  pending `turn-started`, after `member-died` or `graph-settled`; one that panics
  loses its pending opening.
- A failure whose invocation left no record is judged by the last earlier turn's
  that did (`judge.rs:1387`), and if that was billed the member settles as
  unfinished; the comments there speak of one "for the same turn" (1360) that "is
  the invocation that failed" (1382).

*Silence.*
- Where no process can be enumerated nothing is condemned for its silence; the
  contract says it is, on silence alone.
- A loop that comes round later than `Tolerated` may condemn on looks older than
  the silence, or a tree that has begun to work: it hears of neither in between.
- Of a silence the first half of the bound is not looked at, so a tree that
  appears late in it is condemned after one probe interval; a process that leaves
  can cancel another's work in the rate; an event that lands between the load of
  the clock and the verdict does not save the member.

*Notes.*
- A note the engine takes and answers between `notes.offer` and the relay's count
  is carried by a turn that is not stamped for it; and its answer can be published
  before its `note-admitted`.
- A member's end takes the idle offers and leaves those a wait holds, so its bound
  can be met by a wait without a deadline, and not only by a redirect, as the
  comment on the bound has it. A condemned member's note that a turn still has is
  answered Undelivered once that bound passes, and the turn may yet read it.
- A note to a two-party member that is starting (no record of it, or a torn one)
  goes by the interrupt lever, and a turn-end note is refused (`control.rs:438`).
- A caller whose `oneharness interrupt` answers nothing it can read hears
  Undelivered although the harness may have served it (`control.rs:590`), and one
  whose member cannot write answers down may hear Undelivered of a note withdrawn.

*Views.*
- A view is held past its bound by any descendant that keeps its pipe open: the
  drains are joined without a bound (`preturn.rs:427`), against the module's
  comment that a hook is bounded (31–36).
- Output that starts with a byte that does not decode is called empty.
- The end of a firing joins the heartbeat's thread without a bound
  (`member.rs:212`), so a host that never again runs that thread holds the member.

*Files.*
- On a host that does not tell the cases of file names apart two judges whose
  labels differ in case share a file (`invoke.rs:696`). `SidesRunAsWritten`
  leaves that host out.
- A member whose base gives no review bar, under a persona that gives none, is
  accepted and runs without one. The file of an llmlint judge is not read by this
  program and is not among the record's refs.
- A persona file named by two references is read twice, and may be two texts.
- A sweep that has opened the lock before an owner takes it over may remove the
  directory from under that owner; where the sweep has a floor, only if, while it
  swept, some owner, not always the one that loses, took over a directory that was
  already there.
- An owner that dies between making its directory and opening the lock in it
  (`scratch.rs:158`, `162`) leaves one that every sweep retains (223-229).
- A reap leaves behind what was launched after it looked. A process that is given
  a target's pid after the environment was read and before the start token is
  (736-747), or after the token was compared and before the signal (1009-1015), is
  killed, whosever it is; the comment on `signal` has "only while it is still
  itself" (1001).

## 7. Only model-checked, and not modelled

*Model-checked, not proved.*
- All liveness (the liveness of `KeepsThePromise`, `StopSettles`,
  `NothingHoldsIt`, `WedgedIsCondemned`, `NobodyHangs`, `AbandonedIsReclaimed`,
  `EveryFiringEnds`, `UnconfirmedIsCondemned`, `StartAnswers`, `ViewEnds`): the
  prover does not do liveness under fairness, nor ENABLED.
- Every safety property that a run checks is proved too; of the two refinements,
  the initial states and the steps.

*Not modelled.*
- A member thread that panics (`run.rs:1815`) never reports, and its member is
  never counted down; a turn in `Scheduler` always ends in an outcome. A thread or
  a process the host refuses is modelled for the heartbeat and the harness, not
  for the note seam's waits.
- What `onejudge`, `oneharness` and the bus do inside: they are external, and may
  do whatever the code in `src/` allows for. A member's process that is killed
  while the bus holds a request is the bus's matter.
- Parsing of YAML and of arguments, overrides of fields other than `background`,
  the wording of events and of rendered lines, usage and cost, filters and labels
  of the stream: data the properties do not tell apart.
- Which of two outcomes of one member the final record keeps, where a clock's
  arrives by the channel: `RecordTellsTheTruth` asks only that it is one that came
  to pass.
- The removal of a scratch directory is one step; in the code it is a walk.
- The sweep's walk over several roots and its report; `health`, the `persona` and
  `render` verbs' printing: one-shot reads of files.
- The test doubles are not part of the program.

`PROJECT.json` lists every component with its status and the reason, and under
`hazards` what each property is aimed at.

## 8. Plan

Done: everything the table of section 1 names a module for, with its runs, and
the proofs of section 5, which have every safety property that a run checks and
the two refinements. What is left, in this order:

1. A thread of a member that panics, and what settles a run in spite of it.
2. A wait's thread that the host refuses, in `NoteRelay`.
3. The liveness of the note seam as a part of its promise: that every note that
   is open meets its end once the member ends, as fairness of `NotePromise`.
   `NobodyHangs` checks the part of it that callers and the run wait for.
