# opendbx: a TLA+ verification project

opendbx is a terminal program that lets a language model diagnose a database. The
user types a question; a *diagnose loop* streams the model's answer, executes the
tools it calls and feeds the results back; a *chat application* shows all this in a
scrollback; a *program* and a *frame scheduler* own the terminal, the main loop and
the worker goroutines. Below them are a renderer, providers and adapters for language
models, a database driver, skills, reports, a logger and layered configuration. This
directory models these parts, checks them with TLC and proves the central one with
TLAPS. Paths below are relative to `src/internal/`,
or to `src/internal/app/cli/` where that is clear.

## 1. Inventory

### Modelled

| component | state | operations | how it interacts | what is hard | what makes it correct |
|---|---|---|---|---|---|
| diagnose loop `app/diagnose` | transcript, tool calls of the turn, results, allowed-tools scope, dedup cache, two contexts | `Loop.Run`: turn, stream, tool calls, execution, commit; `dedupCache`, `applyFilter`, the error classifiers | calls the provider, the tools, and the consumer's `emit` | a cancel, a deadline or a failing emit between any two steps; scope and cache interplay | no dangling tool_use; scope binds every call; a replay is fresh; the verdict is true; Run returns |
| token stream `app/cli/render/streaming` | token channel, line buffer, emitted blocks, fence flag, finish reason | `AppendChunk`, `Drain`, `Flush`, `Close` | producer goroutines, main loop | send outside the mutex; close in the middle; buffer cap inside a fence | no token lost or duplicated; fences whole; finish reason kept |
| chat application `app/cli/llmapp` | scrollback, preview, flags of the run, control channel, reader Cmd | `submit`, `makeEmit`, reader Cmd, `handleControl`, `streamDoneMsg`, `handleCancel` | loop goroutine -> ctrl -> worker -> main loop | two paths for the same text; cancel at any time; late cancel Cmd of an old run | order, completeness, tool states, one run at a time, the run ends |
| program `app/cli/program` | quit flag and time, timer, priority channel | `pollEvents`, `EmitMsg`, `handleCtrlC`, Ctrl+\, `quitDisarmMsg` | driver goroutine, timer goroutines, main loop | late timers, drop-oldest, slow frames | quits only on a real double press; the prompt goes away; Ctrl+\ works |
| frame scheduler `app/cli/render/scheduler` | three lanes, jobs, workers, results, lifecycle flags | `ScheduleAt`, `popIf`, `workerLoop`, `runCmd`, `Run`, `Stop`, `runFrame` | any goroutine schedules; workers run Cmds; the main loop dispatches | refusal, drop, panic, shutdown order | at most once; lane order; nothing closed under a sender; Run returns |
| session shutdown (`program`, `scheduler`, `llmapp`) | who is still running | the deferred calls of `Run`, `runCleanup`, `Cleanup` | all of the above wait for each other | quit while a run streams; a lost result; a failed Init | Run returns; no goroutine is left behind; nothing runs afterwards |
| frame buffer `app/cli/render/buffer`, `optimizer` | grids with generations, sub-pools, last frame, the terminal | `Acquire`, `Release`, `SetCell`, `Resize`, `Reset`, `Diff`, `applyPatches` | main loop and poll goroutine share the cached size | wrapped generation, wide cells, panic between two patches, resize in the middle of a frame | no grid in two hands; an acquired grid is blank; the terminal shows the frame |
| scrollback `app/cli/render/scrollback` | nodes, offsets, scroll position, sticky flag, row cache | `Push`, `ScrollBy`, `ScrollToBottom`, `Render` | chat application pushes, program resizes | cache keyed by an index that shifts when old nodes are dropped | what is painted is the document; the reader's position stays |
| flex layout `app/cli/render/layout` | none | `Layout` | the chrome of the program | rounded and truncated shares of fractional weights, shrinking, nesting | the axis is filled to the cell; those that may shrink do so first; children stay inside |
| messages `app/cli/render/block` | none | `wrap`, `scanFenceRanges`, `Message.Render` | scrollback asks for rows | wide runes, nested fences, marks at the right edge | rows fit; no text lost |
| diffs `app/cli/render/block` | parsed lines, `blockCache` | `ParseUnified`, the bare fence as fallback, gutter, cached render | renders share one LRU | body lines that look like headers, blank lines; two renders that both miss | the gutter is the line in the file; cached rows are the fresh ones |
| tool blocks `app/cli/render/block`, `llmapp` | use and result nodes | `ToolUse`, `ToolResult`, state of a use | results come from the loop | ids that come back; results out of order | header agrees with result; failures are seen |
| input line `app/cli/input`, `app/cli/demoapp` | line, cursor, ring, navigation, draft | edit keys, submit, Up, Down | keys from the program | ring wrap, draft, cursor after a recall | cursor in the line; draft comes back |
| skills `app/skills` | files, roots, loaded and resolved skills | scan, load, validate, resolve, `Skill` tool | start-up builds the tool | files change during the scan, or its reading breaks off; names collide | each file accounted for once; strongest root wins |
| report `app/report`, `llmapp` | snapshot, generated report, files | seal, `/report`, `WriteReport` | worker writes, user asks again | ids given to two calls; failing or dying between two steps on the disk | a result stands at its call; no partial report; what the user is told is so |
| llm providers `domain/llm` | partial tool calls, finish | factory, validate, convert, stream adapters | the diagnose loop consumes the chunks | fragments of several calls interleaved; limits | calls come out whole; input is bounded |
| database `domain/db` | connection, pool, closers | choose, resolve, open with ping, query, close | tools query, shutdown closes | failure after the pool exists; concurrent Close; calls that come after it | no pool left behind; closed once |
| logger `platform/logger` | buffers, timer, drain goroutines, spans, sidecar | `Write`, `Flush`, `Dispose`, `Init`, `Close`, spans | every component logs; three ways to exit | write without the lock; Close racing a panic and a signal; debugging switched on after Init | no line lost or doubled; exit flushes; ids increase |
| configuration `platform/config` | layers, values, sources | `Load`, validation | start-up, database | per-field provenance, blame of a rule over two fields | precedence; errors name their source |
| start-up `bootstrap`, `entrypoints`, `src/cmd/opendbx` | command, machine, session, exit code | `PersistentPreRunE`, `RunE`, `ValidateFile`, `LaunchInteractiveTUI`, `newChatModel` | configuration, logger, skills, providers | what fails first; the configuration is loaded twice | diagnostics work with a broken configuration; `validate` and the session judge a file alike |

### Not modelled, and why

`PROJECT.json` lists every component with its status. Left out are: the Markdown walker,
syntax colouring, the welcome box, the compact summary and the painting of chrome (layout
of text, without state or order of events); key translation and styles of the terminal
driver; the truncation of the chat history; HTTP, the fake provider and the Anthropic
conversion of requests; YAML decoding and the admin view of the configuration; redaction
of secrets in the log and names of log files; completion, help and dialogs of the command
line; the registries of error codes and version; the retired main loop of the legacy tui;
repository linters and test harnesses; packages that hold only a `doc.go`.

## 2. Modules

| module | models | notes |
|---|---|---|
| `DiagnoseLoop` | `app/diagnose/loop.go`, `dedup.go`, `scope.go` | one action per stretch of `Run` between two points where something outside may happen |
| `MCDiagnoseLoop`, `MCLayout` | - | the filters of the loop, the trees of the layout |
| `DiagnoseLoopProofs`, `ChatSessionProofs`, `ProgramProofs`, `SchedulerProofs`, `ShutdownProofs`, `LogWriterProofs` | - | the theorems about the module of the same name, see section 5 |
| `PlatformProofs` | - | the theorems about `Config`, `Startup`, `DbConn`, `Skills`, `Logger`, `TraceSpans` and `Report` |
| `RenderProofs` | - | the theorems about `InputLine`, `FrameBuffer`, `ToolBlocks`, `TokenStream`, `Scrollback` and `DiffBlock` |
| `TokenStreamOps` | the mutex-protected part of `stream.go` | operators from stream to stream, used by the next two |
| `TokenStream` | `TokenStream` and its callers | producers, drains, close |
| `ChatSession` | `llmapp/model.go`, `loop_adapter.go` | uses `TokenStreamOps` for the preview path |
| `Program` | `program.go` and `EmitMsg` of `frame.go` | integer time, timers that may be late |
| `CmdExecutor` | the promise of the scheduler | at-most-once execution and dispatch, outcomes may be lost |
| `Scheduler` | `queue.go`, `worker.go`, `Run` of `frame.go` | refines `CmdExecutor` |
| `Shutdown` | `Program.Run`, `FrameScheduler.Run`, workers, run goroutine, poller | composition of the four above, seen from the end of a session |
| `FrameBuffer` | `render/buffer`, `render/optimizer`, `runFrame`, the driver's size | ownership of grids, diff, patches one by one |
| `Scrollback` | `render/scrollback` | viewport and row cache |
| `FlexLayout` | `render/layout/flex.go` | pure functions over small trees, with the rounding of its floats |
| `MessageBlock`, `DiffBlock`, `ToolBlocks` | `render/block` | wrapping and fences; diffs and the block cache; calls and results |
| `InputLine` | `app/cli/input`, keys of `app/cli/demoapp` | line, ring, draft |
| `LogWriter`, `Logger`, `TraceSpans` | `platform/logger` | buffered writer; the process-wide logger; spans and ids |
| `Config`, `Startup`, `DbConn` | `platform/config`, `bootstrap` and `cmd`, `domain/db` | the last two use the operators of `Config` |
| `Llm`, `Skills`, `Report` | `domain/llm`, `app/skills`, `app/report` and `llmapp/snapshot.go` | |
| `MCRender`, `MCPlatform`, `MCLive` | - | put components that share no state into one run, see section 3 |

### DiagnoseLoop

`pc` is the position in `Run`. `ctx` and `total` are the errors of the caller's context
and of the context with the total deadline; `CancelCtx` and `TotalDeadline` change them
at any moment. The provider and the tools are environment: they end a stream or an
execution with any outcome their contexts allow (`StreamErrs`, `CtxErrs`). `emit` may fail
at every call: with ctx's error once it is cancelled, or with an error of the consumer.
Each execution returns a new value (`execs`), so a stale answer can be told from a fresh
one. Message contents are reduced to call identifiers; names, inputs (up to the canonical
hash that keys the cache) and filters are small sets. The transcript starts at the end of
`req.Messages`. A nil registry is `ToolNames = {}`. A provider may report an expired total
deadline as a cancellation, which `classifyTerminal` handles. Two reports are excluded, because
the code takes them at their word and `TruthfulVerdict` would not hold: `context.Canceled` from
a tool whose context was not cancelled (`classifyToolErr`), and `context.Canceled` from a
provider for an expired per-turn deadline while the total one is live (`classifyTerminal`).

### TokenStreamOps, TokenStream

A token is `part` (no newline), `line` (ends with a newline) or `fence` (completes three
backticks); the line buffer's cap counts tokens. `AppendChunk` is two steps, the closed
check and the channel select, because the mutex is not held across the send. Byte-level
UTF-8 repair and a chunk that holds several newlines are not represented.

### ChatSession

The producer is `Loop.Run` with the closure of `makeEmit`: its events come in the order
that `DiagnoseLoop` establishes (text, all calls of the turn, results in order, finish).
Each event becomes a list of control messages (`todo`), sent one by one over `ctrl`. The
consumer is the chain reader Cmd -> handler -> next reader Cmd. A cancel is a Cmd that
runs later on a worker and holds the cancel function of its run. Options are those of the
launcher (`stripThink` on). Rendering, the input line, the history and `/report` are not
in this module; `lastSnapshot` is what `/report` would use.

### Program

`EmitMsg` is three channel operations (send, drop the oldest, retry). Timers fire at or
after their deadline and post `quitDisarmMsg`; `Stop` on a timer that has fired has no
effect. `overflowed` records that a message was dropped.

### Scheduler, CmdExecutor

Cmds are numbered in the order of their push. A frame is: drain the results, submit heads
until the queue is empty or `jobs` is full, render (one step here, `FrameBuffer` has its
insides). The deferred calls of `Run` are separate steps in their order. The refinement
maps a Cmd to `new`, `pending`, `ran`, `dispatched` or `lost`. The priority channel is in
`Program`.

### Shutdown

Program.Run, the deferred calls of the scheduler, the pool, the run goroutine with its
control channel and reader Cmd, and the terminal poller, each reduced to where it stands
and what it waits for. A result may be lost (`MaxDropped`), which leaves a run blocked on
a full channel without a reader. `workers.Stop` waits for a reader Cmd that only the run
itself can release, because the run's context is cancelled after that, by `Cleanup`.

### FrameBuffer

A cell is its rune (narrow or wide); styles are left out. A grid has an array with a
generation per cell, whose counter wraps at `GenLimit`. A grid is named after the frame that
allocated it, so that one which is both in a sub-pool and in use is seen. `ApplyPatch` sends one patch at a time and
`FramePanics` may strike between two. The poll goroutine stores columns and rows in two
steps.

### Scrollback

A node is an identity and a kind; the kind gives a height at each width, 0 standing for a
block that fails to measure. `Render` computes what is painted and updates the LRU, also for
the overscan rows. A push may drop the oldest node, which shifts every index.

### FlexLayout, MessageBlock

Functions with a one-step (layout) or typing (message) state machine around them that
supplies the inputs. Weights of the layout are float64 in the code; only their ratios matter, so
a tree counts them in a unit (quarters in `MCLayout`), and every sum of weights, quotient and
product is rounded to the nearest of the floats with `MantissaBits` significant bits, ties to even
(`Float`, `shareOf`). `FloatAssumption` keeps what the code relies on: a sum of all shares is off by
less than one cell (2^31 cells, 1001 shares, 53 bits). NaN and infinite weights, which
`validateTree` lets pass, are not modelled. Text consists of the runes the code tells apart: a
letter, a wide rune, a space, a newline, a backtick. `Document` in `Scrollback`, the reading of
fence lines in `MessageBlock` and the numbering in `DiffBlock` are reference definitions written
independently of the code's algorithm.

### DiffBlock, ToolBlocks

The tool that writes a diff is external: it records, for every line it writes, which line
of which file it is about. A line is known by its prefix: among the body lines are a removed one
whose text begins with `-- ` and an added one whose text begins with `++ `, which look like file
headers, and an empty kept line that lost its leading space. `classifyMarker` looks at the first
byte and nothing else. Each diff is shown twice, through `NewDiff` and as a bare fence
(`NewDiffFromBareLines`). The text is taken to end with a newline. Renders are split at the cache
mutex: look up, compute, store.
In `ToolBlocks` ids come from a small set and may come back in a later turn; results come in
any order; adapters are those of the registry.

### InputLine

The keys of the demonstrator's model. A line is a sequence of runes; `Up` keeps a draft,
`Down` brings it back, an edit leaves the navigation.

### LogWriter, Logger, TraceSpans

`LogWriter` has the lock, the one-shot timer, at most `MaxDrains` drain goroutines that
write without the lock, and one `Dispose`. I/O errors lose a batch (`MaxFaults`). `Logger`
has the gates of a log call, the slog bridge with its counter of early records, and the
three endings of a process that race for one `Close`. Whether a line is written at once is settled
when `Init` builds the writers (`immediate`: the flag, or `EnableDebugLogging` before `Init`), while
the gate of a log call asks for debugging anew, so that a record may pass the gate and wait in a
buffer. `owed` remembers that a panic struck while debugging was on. `TraceSpans` splits
`StartSpan` at its two draws of an id and the compare-and-swap of a span's state into load and
swap, and has a clock that may go back. The fallback id of `uuid7` (`uuid.go:70-72`) is not
modelled: `go.mod` asks for Go 1.24, whose `crypto/rand.Read` never returns an error.

### Config, Startup, DbConn

A layer is absent, malformed or a function from some of four representative fields to
values; the code keeps a source for every field and one for every section. `Startup` runs a
command on a machine on which one thing may fail. It loads the configuration where the code does:
once for the command, with the working directory and the flags; once more, with empty options, for
the session (`reload`), which therefore ignores `--settings`, `--model` and the files of the
project; and over one file alone for `config validate` (`ValidateFile`), the only read-only verb
that can fail. Files do not change between these loads. `DbConn` adds the choice of an
alias, the variable that holds its password, the driver's check of the DSN it composed, and the
pool. Goroutines may ask the pool for a connection at any time, also once `Close` has begun or is
over, and get an error then. The pool itself and the server are external.

### Llm, Skills, Report

`Llm`: a server may send any sequence of the chunks the adapters tell apart; a fragment of
tool input is a symbol. `Skills`: a directory scan, a load of each file found and a
resolution, with files edited or removed in between; a document is the outcome of parsing
it. The reading of a directory may break off: what was read so far is used, unsorted, and the
root is reported. Roots that lie inside one another, where one file is found under two of them,
are not modelled. `Report`: every system call of `WriteReport` is a step that may fail, the removal
of the temp file after a failure may fail too, and the process may die between two steps; the
Markdown is not represented. Nothing keeps a model from giving one id to two calls that are open
at once: the builder then joins by the latest. An entry of the timeline carries the call whose
result it shows (`answered`), and the builder the calls still open and those of them that lost their
id (`open`, `taken`): the code has none of these, the properties need them.

## 3. Runs

| run | bounds | shows |
|---|---|---|
| `diagnose_loop` | 2 registered tools and an unknown name, 3 turns, 2 calls per turn, 1 text chunk, window 2 | all properties of the loop, termination |
| `chat_session` | 1 run, 3 stamps (text or tool call), both text kinds, ctrl of 3 | what reaches the scrollback |
| `chat_runs` | 2 runs, 2 stamps, ctrl of 1 | isolation of runs; every run ends |
| `parts_render` | see below | safety of the ten parts of the terminal front end, refinement of the scheduler |
| `parts_platform` | see below | safety of the seven parts a session stands on |
| `parts_live` | see below | liveness, and the safety of the concurrent parts it is about |
| `chat_duplicate`, `chat_lost`, `program_disarm`, `scheduler_drop`, `wrap_overflow`, `layout_noshrink` | small | the findings of section 6 |

The three `parts_` runs hold components that share no variables. A variable `part` says
which component moves; the others stay in their initial states, so each is checked exactly
as it would be alone and no product of their states arises. The inputs of a component are
chosen by its first step and not by Init for the same reason. In `MCLive` a component's
fairness applies when it is the one that runs (`Runs(p, A)`).

`parts_render`. Token stream: 2 producers, 3 chunks of every kind and finish, channel 2,
buffer 2. Frame: two sizes of which neither contains the other, 3 frames, 2 draws in a
frame, 1 resize of the window, generations of 1 bit. Scrollback: 3 nodes, 5 pushes, 5
moves, two widths, cache of 2. Layout: every tree of the three shapes over five kinds of
leaf and four styles, weights in quarters, floats of 5 bits, three viewports. Messages: every text of up to 5 runes at 3 and
5 columns. Diffs: 5 lines, 2 renderers, cache of 2, 2 widths. Tool blocks: 4 nodes, 2 ids.
Input: ring of 2, 3 entries, lines of 2 runes. Quit protocol: 4 events, times up to 4,
window 1, channel of 2. Scheduler: 2 workers, 3 Cmds, jobs and results of 1, failing Init.

`parts_platform`. Start-up: every combination of five layers, options and commands in
`MCPlatform`, machines on which one thing fails. Database: seven configurations, two
goroutines. LLM: 3 server events, 2 blocks, 2 symbols of input. Skills: 3 directories, limit of
2 files, 1 edit. Logger: 2 records, 3 early slog records. Spans: 2 spans, 2 goroutines,
sequence limit 3. Report: 2 ids, 6 steps of a run, 2 reports.

`parts_live`. Quit protocol: 3 events, times up to 3. Log: 5 lines, buffer of 2, 2 drains, 1
fault, 1 explicit flush. Shutdown: 2 workers, control channel of 1, 3 loop events, 2
submits, 1 lost result. Scheduler: 2 workers, 2 Cmds.

Why these bounds are enough. Three turns with a window of 2 let a cache entry be
fresh, expire and be renewed; two calls per turn are the smallest number for which the
order of results, a scope set in the middle of a turn and a partly executed turn exist.
Two producers and a channel smaller than the number of chunks give a blocked sender, a
late sender and a drain in between. Three stamps give text - tool call - text, the
smallest run in which a sealed segment and the tokens of the next one coexist; a control
channel of one slot blocks the producer at every send. Four events give two armings with
the timer of the first still to deliver, and an overflow; three give an arming, its
renewal and a dropped message. Three Cmds give one running, one in `jobs` and one refused.
`CmdsRun` holds because the pushes stop at `MaxCmds`: a steady supply of high Cmds starves
the idle lane by design (`queue.go`). With generations of one bit a grid's counter wraps
within two reuses, and three frames give last frame, next frame and one in the pool. Five
pushes on three nodes drop twice, so that a cache entry survives a shift of the indices. Five
runes hold a fence with content, or a word that is carried with a wide rune. Five lines with a
buffer of two overflow twice, so that a drain is under way when the next batch overflows.
Two spans, two goroutines and a swap each give a lost race and a retry. Two tool blocks with
three events give interleaved fragments and a limit that is hit. Two ids of a report let two
calls be open together, answered in another order, or one id be given again before its first
call is answered. A float of 5 bits rounds many ratios of these weights (1/3 down, 1/5 up), as 53 bits do
1/49, whose 49-fold is then short of one cell. All runs check deadlock;
states in which a component has legitimately finished (`Done`, `Idle`, `Quiet`, `Returned`)
have an explicit stuttering step.

Fairness. `DiagnoseLoop`: the goroutine of `Run` takes its next step (`WF`): emit,
provider and tools return, which the contexts with deadlines that the code passes to them
are for. `ChatSession`: the producer goroutine and the chain of reader Cmd and main loop
proceed (`WF`), the latter because every tick of the frame loop drains results; that a
result is not dropped is an assumption here, see `scheduler_drop`. `Program`: time passes,
timers fire, goroutines that can run do, the frame loop drains (`WF`). `Scheduler`: the
main loop and the workers proceed and Cmds return (`WF`); `select` chooses among
ready arms at random, so an arm that is ready again and again is taken (`SF` on the tick
and on `ctx.Done()`). `LogWriter`: the runtime fires an armed timer and started goroutines
finish (`WF`); nobody needs to call `Flush` or `Dispose`. `Shutdown`: every goroutine that can
move does (`WF`); the user need not submit, cancel or quit.

Mutants. Each property of a passing run has a mutant: the definition named in
`PROJECT.json` replaced by one that a plausible mistake in the same code would give (its
name ends in `_` and a hint). TLC then finds that property violated.

## 4. Properties

* Diagnose loop. `PairedTranscript`: the transcript is an alternation of an assistant turn
  and the user turn with exactly its results. `AnswersInOrder`: results come in call order
  and after every call has been announced. `ScopeBinds` (`ScopeEnforced`,
  `ScopeThreading`), `OfferHonoured`, `ScopeNeverLifted`: no tool outside the scope is
  executed or replayed, a filter returned by one call (fresh or cached) binds the next one,
  the model only sees tools it may use, a scope is replaced and never lifted.
  `CachedIsFresh`: a replayed value is the last successful one of its key and younger than
  the window. `NoNeedlessRun`: a cacheable call whose last success
  is younger than the window is not executed again.
  `TruthfulVerdict`: cancelled only if the user cancelled, total timeout only if that deadline
  passed. `Terminates`.
* Token stream, `StreamContract`: text is conserved (`Conservation`), `Close` leaves nothing
  behind (`CloseFlushes`), fences stay whole (`FenceIntegrity`), a finish reason is neither
  invented nor withdrawn (`FinishFromChunk`).
* Chat. `ShownComplete`: tokens appear first in the order they were sent, and all of them
  unless the user cancels. `ToolsSettled`. `BacklogBounded`: each token in the channel has a
  tick to come, hence `AppendChunk` does not block. `RunsIsolated`: `OneRunAtATime`,
  `NoSpuriousCancel`, `SnapshotNotCancelled`. `StreamEnds`.
* Program. `QuitSound`: `QuitJustified` and `OneLiveTimer`. `QuitKeysAnswered`:
  `PromptClears` and `HardExitQuits`.
* Scheduler. `ImplementsExecutor`, `LaneOrder`, `SafeShutdown` (`ShutdownOrder`),
  `KeepsRunning` (`CmdsRun`, `RunEnds`).
* Shutdown. `ShutdownSound`: once Run has returned no Cmd runs and a run that is still
  unwinding has been cancelled (`NothingRunsAfterReturn`), and a reader Cmd blocked on the
  run's channel has the run's goroutine to release it (`NoCircularWait`). `QuitEnds`: quitting while a run streams ends Run
  (`QuitReturns`), and neither the run nor the poller is left behind, even after a lost result
  (`GoroutinesEnd`).
* Frame buffer, `FrameContract`: no grid is pooled and in use, or pooled twice
  (`GridOwnership`); a recycled grid reads as blank (`AcquiredBlank`); between frames the
  terminal shows every drawn cell of the last frame, unless patches were cut short or the
  window changed (`ScreenShowsFrame`).
* Scrollback, `ViewportContract`: `RenderShowsDocument`, `StickyAtBottom`,
  `ReadingPositionKept`.
* Layout, `LayoutTiles`: room that is left is handed out to the cell when anybody grows, and as long
  as those that may shrink can give up what is missing they alone do, and no more than that
  (`MainAxisFilled`); `ChildrenInside`.
* Messages, `MessageWhole`: `RowsFit`, `WrapKeepsText`, `FencesNest`, `MarkKeepsText`.
* Diffs, `DiffFaithful`: every hunk header and every added, kept or removed line has one row, in
  order, except what looks like a file header (parsed) or is blank (bare fence) (`EveryLineShown`);
  a number is the line's number in its file unless such a line occurs (`GutterIsFileLine`);
  `CachedRowsFresh`, `OneEntryPerKey`.
* Tool blocks, `ToolOutcomeShown`: `HeaderAgreesWithResult`, `FailureShown`, `CachedShown`.
* Input, `InputContract`: `CursorInLine`, `RingIsNewest`, `DraftComesBack`.
* Log. `WriterKeepsLines`: each line is in exactly one place or was lost to an I/O error, and
  Dispose returns with none in memory. `EventuallyFlushed`. `LogComplete`: `ExitFlushed`,
  `PanicRecorded` (a panic that strikes while debugging is on without a filter, since Init or since
  later, unless a signal came first),
  `DropsAnnounced`. `TracesSound`: `IdsIncrease`, `SpanEndComplete`,
  `TraceShared`.
* Configuration, `SettingsTraceable`: each field has the value of the strongest layer that sets it
  and names that layer (`Precedence`); each complaint, about a bound, two timeouts out of order or a
  connection, names the layer that wrote the field (`ErrorsNameTheirSource`).
* Start-up, `StartupSound`: version and dumps never fail because of the configuration, and
  `config validate` exits 0 exactly on a file that a session could start from if it had nothing
  else (`DiagnosticsSurviveConfig`); the session, which loads again without options, has the model
  of the strongest of policy, user and environment, the first load's when both read the same
  layers, and no configuration only when they do not (`SessionFollowsConfig`).
* Database, `ConnectionSafe`: `FailedOpenLeavesNoPool`; one close of the pool, and whoever's `Close`
  has returned finds it closed and no query in it (`CloseOnceAndDone`); `OwnPassword`.
* Providers, `ToolTrafficWhole`: `ToolCallsWhole`, `ToolInputBounded`,
  `ToolRepliesFollowCalls`.
* Skills, `SkillsResolved`: every file that survives has one account, if only the error of a root
  that was cut off or broke off (`SkillsAccounted`); `StrongestBandWins`, `NoArbitraryWinner`.
* Report, `ReportSound`: an entry shows the answer to its own call, or none yet, unless an id was given
  to a second call while the first was open (`ResultsJoinTheirCalls`); `SummariesBounded`; a file under
  its final name is whole and of that second (`NoPartialReport`); a path is named only when a report
  stands there with nothing left of the writing, and a report said to have failed never stood under
  a name (`NotesAreTrue`).

A property that is a conjunction names its parts, each with its own comment in the module.
Where a part is an action property the conjunction is a temporal formula.

## 5. Proofs

Every theorem has the form `Spec => []P` (or `Spec => P` for an action property and for the
refinement) and holds for every value of the constants that the named ASSUMEs allow: any
tools, filters, workers, capacities, windows, numbers of runs, callers, spans or reports.
TLC evaluates the ASSUMEs on every run; the bounds of a run (`MaxRuns`, `MaxCmds`, ...) stay
parameters of the theorems, so nothing depends on how small they are. No property is
inductive by itself. Each proof gives the invariant that is, one lemma per action with a
step for each conjunct the action can disturb, and a last step that combines them.

| module | proved | the invariant, and why it is needed |
|---|---|---|
| `DiagnoseLoopProofs` | `TypeOK`, `PairedTranscript`, `AnswersInOrder`, `ScopeBinds`, `CachedIsFresh`, `TruthfulVerdict`, `ScopeNeverLifted`, `NoNeedlessRun`, `OfferHonoured` | `IInv`. `PhaseInv`: in which phases calls are pending and how many results there are, so that the commit is the only step that extends the transcript and does so with complete results. `CacheInv`: the entries are exactly the cacheable keys that ever succeeded, each the last successful output of its key under the turn of that success, so the window test of `lookup` is all `CachedIsFresh` and its converse `NoNeedlessRun` still need. `DeniedInv`: a call without a value was denied by the scope of its turn, and the scope it was denied by is smaller than the offer only if an earlier call of the turn made it so |
| `ProgramProofs` | `QuitSound` | `PgInv` adds to the two parts of `QuitSound` that an armed program was armed by the last press (`ArmedByLastPress`), so the press that confirms it is the one that is judged, and that an `EmitMsg` under way holds a message |
| `SchedulerProofs` | `LaneOrder`, `SafeShutdown`, `ImplementsExecutor` | `PipelineInv`: what of a lane was started, is in the jobs channel and waits in the queue is in the order of the pushes. `WorkerInv`, `RunsInv`, `ResultInv`: a Cmd is held by one worker, called once, and its result is in one place, which is what the at-most-once promises of `CmdExecutor` rest on. `PhaseInv`: what the deferred calls of `Run` have closed at each point |
| `ShutdownProofs` | `ShutdownSound` | `OneChain`: the chain of a run is one Cmd or one result at a time, wherever it is. `RunInv`, `SubmitInv`: readers exist only for a run that was started, and a run that is gone has closed its channel. `ShPhaseInv`: who is gone in which phase |
| `LogWriterProofs` | `WriterKeepsLines` | `OnePlace`: there is an assignment of every line to one place (buffer, pending, a drain's batch, file, direct, lost, rejected) that all these agree with; each step moves it. `DisposeInv`: what `Dispose` and the drains have emptied at each point |
| `ChatSessionProofs` | `RunsIsolated`, `ToolsSettled`, `BacklogBounded`, `ShownComplete` | `ChainInv`: one producer and one reader chain per run, both gone and what they share empty before the next. `FinishInv`: the finish is the last message and comes unless the run is cancelled. `MarkInv`: one verdict per run, none before its finish. `ToolInv`: a call still shown as running has its result due or on its way behind it, or the run ends badly. `BacklogInv`: every waiting token has its tick. `PathInv`: an account of the two paths by the numbers of the messages; those on the way rise and are later than everything shown, what the stream and the preview hold is the text of the open segment, and a number that is on neither path and not on the screen belongs to a message a cancel dropped, later than all the others; a drain, a commit and a flush move numbers without bringing one out of order |
| `PlatformProofs` | `SettingsTraceable`, `StartupSound`, `ConnectionSafe`, `SkillsResolved`, `LogComplete`, `TracesSound`, `ReportSound` | `Traced` (after n layers, each field has the value and the name of the strongest of them that sets it; one lemma for a layer, `LayerStep`), `StInv` (which commands are still without a configuration in which phase, and that a session exists only from its launch on); `DbInv` (the pool follows the progress of `OpenConnection`, and a closed one has no query inside); `SkInv` (the roots are distinct, a root's precedence is its place and a stronger band comes later, what is still to be scanned is the end of the list, what was found lies under different paths of scanned roots, and every file of a scanned root that is still there is accounted for, so the strongest of two skills of one name is never a matter of order); `CloseInv`, `PanicInv`, `NoticeInv` (what Close has emptied, where the panic's record and the notice are); `OrderInv` (the clock is the last id), `TreeInv` (a parent precedes its child and shares its trace, roots have different ones), `StartInv` (so it is with the spans whose second id is still to be drawn: the trace id one holds is nobody else's), `SwapInv` (the state under the pointer holds every stored attribute), `EventInv` (an ended span has one event, with what was stored); `JoinInv` (the index of an id is its last call, so a result can miss its call only if that call's id was taken while it was open), `DiskInv` (only a writer past the rename has put a report under a name, and its temp file is gone; a temp file stays only with a writer that failed or was interrupted) |
| `RenderProofs` | `InputContract`, `FrameContract`, `ToolOutcomeShown`, `StreamContract`, `ViewportContract`, `DiffFaithful` | `LineInv` (the saved line and its cursor fit each other), `RingInv` (the ring holds the end of the distinct lines, and until it is full its head is its size); `OwnInv` (a grid is named after its frame, so a new one is nowhere yet), `GridInv` (no stamp is ahead of its grid's generation, which is what makes `Reset` a blank), `QuietInv` and `ShownInv` (what is known of the terminal while nothing has disturbed it), `SendInv` (every cell of the new frame is on the screen already or among the patches still to be sent); `OpenIsLast` and `LastIsNamed` (the call a result settles is the last one of its id, and the name rendered for it is that call's); `StFlow` (the accepted text is what left the stream, then what it holds, then what waits in the channel: a drain moves text from the back to the front of this), `StLate` (after `Close` only late tokens are held), `StFences` (the fence flag is the parity of the fences in the line buffer, and an emitted block is balanced, until the cap has torn one apart); `SbInv`: the heights are those of the nodes at the width of the last Render and the offsets their sums, the position is never below the bottom, a viewport that was never pushed to is sticky, and every cache entry holds the node that has its index now, at the height it has at the cached width, which is what a push that drops nodes and a resize must not leave undone; `DiffInv`: the parser of the lines written so far has a row for each line it does not hide and, while no line looks like a header or is blank, has counted both files as their writer did, up to the end of the last hunk (`ParsedInv`, `HunkEnd`), the bare lines show every line that is not blank (`BareInv`), and what a renderer or the cache holds is the painting of one of the two blocks, which its key decides (`JobSet`, `CacheSet`) |

The assumptions: limits, capacities and windows are naturals, and positive where the code
makes them so (`newWorkerPool` starts at least one worker, the control channel has a
buffer, a viewport has a column and a row); a block has a natural number of rows at every
width it is rendered at (`SbAssumption`); cacheable tools are registered and made-up names
are not; a model password is empty or named after the alias it was given for
(`DbAssumption`); log levels are the ones of the code (`LoggerAssumption`); the default
timeouts are positive and a layer is absent, malformed or a set of values
(`ConfigAssumption`), as is the file `validate` is given (`StartupAssumption`); spans are numbered from one (`TraceSpansAssumption`); the paths of skills are numbered, the
directories given for them exist among the entries and the limit of a root is positive
(`SkillsAssumption`).

Several definitions are recursive functions: `drainChunks` (through `TokenStreamOps`) and the
library's `FlattenSeq`, the offsets and the painting of the scrollback, the layers of the
configuration, the root of a span, the length of joined lines, the distinct lines of a
history and the cells that differ between two frames. The prover cannot instantiate an
induction rule, but a least-element argument does the same work: the set of indexes where
a partial function with the wanted values does not exist has no least element
(`RootExists` in `PlatformProofs`). That shows the recursion is well defined and gives its
equation; what holds of it for every index is again shown by the least counterexample. The
library's `FoldLeft`, with which diffs are parsed and numbered, iterates over sets of
indexes; `FoldExists` in `RenderProofs` gives its equation once, and `ParseNext` and
`HunkGrows` turn it into what one more line changes.

Only model-checked:

* all liveness (fairness and ENABLED are outside the prover): `Terminates`, `StreamEnds`,
  `QuitKeysAnswered`, `KeepsRunning`, `QuitEnds`, `EventuallyFlushed`;
* `LayoutTiles`, `MessageWhole`, `ToolTrafficWhole`: statements about what functions on
  sequences and trees compute. The layout divides and folds over the children several times
  in a row, messages are filtered with `SelectSeq` and a request sorts its calls with
  `SetToSortSeq`, two operators the prover has no definition of. TLC compares the functions
  with their reference definitions over every input within the bounds.

## 6. Findings

1. `chat_duplicate` (`llmapp/model.go:245`). An answer whose last line has no newline
   stays in `lineBuf` when the sealed text is committed and the stream drained; `Close`
   flushes it and `streamDoneMsg` commits it a second time.
2. `chat_lost` (`llmapp/model.go:417`). A sealed message that is handled after the next
   segment has begun drains and discards the next segment's tokens; a cancel before that
   segment is sealed loses them.
3. `program_disarm` (`program/program.go:273`). A disarm message posted by the previous timer
   clears a fresh arming, so a second Ctrl+C inside the window does not quit.
4. `scheduler_drop` (`scheduler/worker.go:83`). A successful Msg is dropped when the results
   channel is full; for a reader Cmd of the chat application that ends the chain.
5. `wrap_overflow` (`render/block/wrap.go:106`). A word carried to the next row together
   with a wide rune may make a row that is wider than the screen, and that rune is not
   painted. `RowsFit` states what does hold.
6. `layout_noshrink` (`render/layout/flex.go:423`). When the children that may shrink have no cell
   left, the rest is taken from those whose Shrink is 0, which `flex.go:77` and `flex_test.go:115` say
   keep their basis. `MainAxisFilled` states what does hold.

Noted while modelling, without a run:

* Scheduler: when `driver.Init` fails, `FrameScheduler.Run` returns before its deferred calls
  are registered (`frame.go:296`), so `msgCh` stays open and idle workers stay.
* Frame buffer: after a resize cells that the diff takes for unchanged blanks may keep old
  content on the terminal, which is why `ScreenShowsFrame` speaks of drawn cells once the
  window has changed; the two stores of the cached size are not corrected by the next frame,
  only by the next resize event.
* Log writer: lines of a drain that is under way may reach the file after lines of a later
  flush; `buffered_writer.go:60-63` speaks of preserved order.
* Start-up: the session loads the configuration again with empty options
  (`tui_launcher.go:130`), so flags such as `--model` and `--settings` and the files of the project do
  not reach it; a session may also start without a configuration although the first load
  succeeded, when `--setting-sources` made that one skip a broken file.
* Providers: `mapChunk` drops the tool fragments and the finish reason of a chunk that also
  has text or reasoning (`openai/stream.go:119-131`). `ToolCallsWhole` is about fragments
  that are not in such a chunk.
* Skills: `scanRoot` sorts after it has cut the list to the limit (`scan.go:82`), so which
  files survive depends on the order of the directory.
* Messages: measuring a mixed message does not count the extra row of a mark; no caller does
  that today.
* Diffs: in a parsed diff a removed line whose text begins with `-- `, or an added one whose text
  begins with `++ `, is taken for a file header (`diff_parser.go:36`): it is not shown, and the numbers
  behind it are wrong. An empty kept line that lost its leading space is shown as `?` without a
  number and is not counted; a bare fence drops it. In a bare fence the file headers are shown as
  removed and added lines.
* Tool blocks: the placeholder of a failing adapter omits "(cached)" (`toolresult.go:222`); no
  adapter of the program fails.
* Report: two reports of one second have one name, and the later rename replaces the
  earlier report (`write.go:66`). The temp file of a failed write stays when it cannot be removed
  (`write.go:75-85` ignores the error), and so does that of a process that died. When an id is
  given to a second call while the first is open, the first one's result is shown at the second
  (`snapshot.go:54-60`).

## 7. Plan

What is left is proof of the three properties that section 5 lists as model-checked only.

No module with theorems reaches a RECURSIVE operator, which the prover could not handle.
