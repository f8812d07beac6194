# TLA+ models of icesmtp

These modules model the icesmtp SMTP server library and are checked with TLC. They cover:

- the session engine and its protocol state machine;
- the ways a session ends, including `Close()` racing the session goroutine;
- the envelope builder's buffer;
- DATA framing;
- the command, path and hostname parsers;
- the reply formatter;
- the older engine of `engine.go`.

All line references are to files under `src/`. `PROJECT.json` lists every component, run, mutant, finding and hazard, and maps every modelling definition to the lines it translates.

## The system

icesmtp runs one `Engine` per client connection. Two definitions of `Engine` exist:

- **The deadline-aware Engine** (`storage.go` 538–1421). The specification describes this one, and the examples and the test harness construct it.
- **The plain-reader Engine** (`engine.go`). It declares the same type and methods in the same package, so no build holds both. It is modelled as `LegacyEngine` because its session loop differs in ways that matter.

The deadline-aware Engine's parts:

| Part | Source | Operations |
|---|---|---|
| Session loop | `storage.go` `Run` 660–727, `processOneCommand` 730–791 | greet; loop: ctx check, terminal check, TLS upgrade, read, parse, hook, gate, dispatch, write reply |
| Handlers | `storage.go` 794–1192 | HELO/EHLO, MAIL, RCPT, DATA, RSET, NOOP, QUIT, VRFY, HELP, STARTTLS; 502 for EXPN/AUTH |
| DATA stream | `readData` 1263–1309, `handleDATA` 992–1117 | ctx check per line, read, terminator, line-length and size checks, unstuff; then writer, finalize, `Storage.Store` |
| TLS upgrade | `performTLSUpgrade` 1195–1250 | handshake, then back to Greeted with no hostname |
| Shutdown | `handleDisconnect` 1338–1359, `Close` 1407–1414 | OnDisconnect once; Close from another goroutine |
| State machine | `statemachine.go` | Transition (checked against `validTransitions`) and its wrappers |
| Command gating | `command.go` 174–201, 315–320 | AllowedCommands per state; error budget |
| Parser | `parser.go`, `command.go` 64–74, 204–221 | command lines, paths, hostnames, dot-stuffing |
| Envelope builder | `envelope_builder.go` | SetMailFrom, AddRecipient, DataWriter, Write, Close, Finalize, Reset |
| Replies | `reply.go` | reply codes, `Response.String` |
| Connections | `unnamed/part_000` | NetConn, PipeConn, BufferedConn |

How the parts interact:

- The session goroutine is sequential.
- Other goroutines reach a session in two ways:
  - `Close()` sets `e.closed` under the lock, calls `sm.Abort()` without it, and closes the connection;
  - the context passed to `Run` can be cancelled.
- The client, Storage, Mailbox, SenderPolicy, the hooks and the TLS provider are collaborators. The session only reacts to their answers.
- Two copies of the protocol state can drift apart:
  - `sm.state` gates the commands;
  - `e.state.State` is what `SessionInfo.State()` reports.

## Modules

| Module | Models |
|---|---|
| `StateMachine` | `validTransitions` and the machine's mutators, as operators returning the resulting state (a refused move changes nothing); `AllowedCommands`. |
| `Engine` | One session of the deadline-aware Engine. Every handler is one action, from entry to the reply being written, including `processOneCommand`'s bookkeeping and Run's error classification. `Close`, `Cancel` and `PeerCloses` model the outside world. `Close` is one step, but its `sm.Abort()` races the session's lock-free `Transition`. When the session may be inside a transition (`Transitioning`: the greeting, a handler, the commit), the Abort either lands or is erased; both outcomes are choices, as the data race allows. The variable `policy` is `config.TLSPolicy`, chosen from `TLSPolicies` at Init and fixed for the session, so one run covers every policy. |
| `MailTransaction` | What a session promises about mail, with no protocol. At most one open transaction; recipients up to the limit; each transaction delivered whole or abandoned; no more than MaxTransactions delivered; nothing delivered after the end. |
| `SessionShutdown` | `Close()` against the session goroutine. Close and the handler's `Transition` are each split into a read of `sm.state` and a write, so the unlocked `sm.Abort()` can be lost. A read is split too: `ReadBegins` is PipeConn.Read's check of `closed` under the mutex, after which the session is blocked in the underlying reader; `ReaderCloses` says whether that reader is an `io.Closer`, which `Close()` can unblock. Run's start is modelled step by step too: `sm.Connect()`, the greeting write, and `sm.Greet()` split into its read and write of the state, each racing `Close()`. |
| `EnvelopeBuilder` | Every builder method and the data writer, with the `bytes.Buffer` modelled as backing arrays and capacities, so that the slice `Finalize` returns is visibly shared. `Caller` selects any call order the interface allows, or the order the engine uses. |
| `DataFraming` | `StuffLine`, `UnstuffLine` and `IsTerminator` at byte level, with readData's `ReadBytes('\n')` loop over a client stream that may be cut short. Each iteration is split by outcome, in the code's order: the terminator, `ErrLineTooLong`, `ErrMessageTooLarge`, or the line unstuffed into the buffer. Both limits are checked on the line as read. |
| `Parser` | `Parser.ParseCommand`, `ParseMailPath`/`extractPath`/`isValidAddress` and `ParseHeloHostname`/`isValidHostname` as operators, each checked against a definition of the spec §4.2 grammar written independently of them. `parseESMTPParams`, the `Sscanf` of the SIZE value into an int64, and handleMAIL's early 552 are operators too, checked against spec §8 property 8. It also checks `Reply`'s formatter. |
| `Reply` | `Response.String` and `EnhancedStatusCode.String` at byte level. It also gives the reading of a reply that RFC 5321 and spec §4.1 give a client. |
| `LegacyEngine` | One session of the `engine.go` Engine, with the same structure as `Engine`. |
| `MCEngine`, `MCLegacyEngine`, `MCSessionShutdown`, `MCParser` | Model values: body lines, verbs, enhanced codes. |

### How Engine and LegacyEngine correspond to the code

- `pc` is the session goroutine's position:

  | `pc` | Position in the code |
  |---|---|
  | `start` | before Run |
  | `loop` | top of the for loop |
  | `read` | blocked in `readLine` |
  | `data` | top of a readData iteration |
  | `dataRead` | blocked reading a body line |
  | `commit` | after readData |
  | `done` | Run has returned |

- `Respond(code, s)` is `processOneCommand`'s tail. It writes the reply and then either:
  - clears the error count after a positive reply; or
  - hands a failed write to Run.

  `RunOnError` is Run's classification of that error, and `Disconnect` is `handleDisconnect`.
- Data is abstracted:
  - `env` is `<<>>` for a nil builder, or else holds the builder's recipient count and, in Engine, its TLS metadata;
  - body lines are lengths in small units, each with a flag for dot-stuffing;
  - `stored` holds what `Storage.Store` accepted.
- Parse results and collaborator answers are choices under `\E`. The parsers themselves are checked in `Parser`.
- `pipelined` says whether the connection's `bufio.Reader` holds a line the client sent behind STARTTLS in the same write. `lineFrom` records where `readLine` took its last line: from that buffer or from the connection. `performTLSUpgrade`'s `ResetReader` (`storage.go:1230`) drops the buffer.
- The two engines differ in these ways:

  | Point | Engine (`storage.go`) | LegacyEngine (`engine.go`) |
  |---|---|---|
  | Reads | under a deadline when configured | never time out |
  | readData failure | `sm.Reset()` and 451 | `sm.Abort()` and 451; the session ends |
  | STARTTLS | upgraded at the top of the loop | stays in StartTLS, where every command gets 503 |
  | `Close()` | closes the connection | does not |
  | Store failure | `sm.Reset()` from Data, refused | the same; the envelope is kept too |

- Error kinds follow `isIOError`:

  | Event | Kind | Run's response |
  |---|---|---|
  | EOF | I/O | disconnect (Error) |
  | PipeConn after Close | I/O (`io.ErrClosedPipe`) | disconnect (Error) |
  | closed NetConn (`net.ErrClosed`) or a broken-pipe write on a NetConn | neither I/O nor timeout | continue the loop |

### Fairness

Both engines have weak fairness on the session's own steps (`SessionStep`). In `Engine` every wait has an end:
- a read deadline;
- the data timeout;
- the handshake deadline;
- or a read on a closed connection, which returns at once.

The runs set `ReadDeadline = TRUE`. With no deadline a cancelled context is seen only at the top of the loop and of each readData iteration. A read that is already blocked waits for the client, `Close()` or the peer leaving, so `CancellationEndsSession` would fail there (hazard `unnamed/part_000:262`).

In `LegacyEngine` the session steps need nothing from outside. A blocked read waits for a client step or `PeerCloses`.

The client, `Close`, `Cancel` and `PeerCloses` get no fairness, so a silent client may stay silent forever.

`SessionShutdown` also gives weak fairness to `Close()`'s own steps, which run without waiting once `Close()` has been called.

## Runs

| Run | Module / cfg | Expect | Shows |
|---|---|---|---|
| engine_core | `MCEngine` / `Engine.cfg` | pass | Under each TLS policy, with every collaborator able to refuse or fail, and with Close, cancellation and the peer leaving: the session keeps its limits and error budget; acknowledges only stored messages; under Required stores only envelopes begun over TLS after a post-upgrade EHLO; keeps `SessionInfo.State()` equal to the machine's state between commands outside Data; ends every DATA stream; never reads a plaintext line pipelined behind STARTTLS as the first TLS command; returns once the peer has gone (`PeerGoneEndsSession`; `Close()` alone is not claimed to end the session, since its Abort can be lost) or the context is cancelled; and implements `MailTransaction` under the envelope/stored mapping. 363,639 states. |
| data_failure_reset | `MCEngine` / `Engine_data_reset.cfg` | violation | After a failed DATA the machine stays in Data with no envelope. |
| close_disconnect_hook | `MCEngine` / `Engine_close_hook.cfg` | violation | A session ended by `Close()` never calls OnDisconnect. |
| close_race_pipe | `MCSessionShutdown` / `SessionShutdown_pipe.cfg` | pass | On a PipeConn over a reader that `Close()` can close, `Close()` always ends Run, even when the session's transition overwrites the Abort or the read began just before `closed` was set, or `Close()` came between `Connect` and `Greet`. 2,957 states. |
| close_race_net | `MCSessionShutdown` / `SessionShutdown_net.cfg` | violation | On a NetConn the overwritten Abort leaves Run looping on `net.ErrClosed`. |
| envelope_data_engine | `EnvelopeBuilder` / `_engine.cfg` | pass | `EnvelopeDataIntact`: in the engine's call order every finalized envelope keeps the bytes written through its own writer. 292 states. |
| envelope_data_any | `EnvelopeBuilder` / `_any.cfg` | violation | `EnvelopeDataImmutable`: on a builder reused through Reset after Finalize, the next body's first Write lands in the array the returned envelope still views, and its `Data()` changes. |
| data_framing_crlf | `DataFraming` / `_crlf.cfg` | pass | Bodies without bare LF, possibly cut short, come back exactly or end in EOF. readData refuses a body for its size only when the body, stuffed as the client sent it, exceeds MaxMessageSize. It refuses one for a line only when a line the client sent, stuffed and with CR LF, exceeds MaxLineLength. 58,179 states. |
| data_framing_lf | `DataFraming` / `_lf.cfg` | violation | A bare LF before a dot ends DATA early and the rest is read as commands. |
| parser_grammar | `MCParser` / `Parser.cfg` | pass | The three parsers accept exactly the spec §4.2 inputs, and every reply written by `Response.String` reads back whole. A MAIL FROM whose last SIZE parameter, keyword in any case, is a number within int64 is refused with 552 exactly when it exceeds MaxMessageSize, and one without SIZE never is. 754,584 inputs. |
| cancel_commit | `MCEngine` / `Engine_cancel.cfg` | violation | A context cancelled while the terminator is awaited does not stop the message: readData returns it and `Storage.Store` stores it. |
| legacy_engine | `MCLegacyEngine` / `LegacyEngine.cfg` | pass | The `engine.go` session keeps its error budget, acknowledges only stored messages, returns once the peer has gone, and implements `MailTransaction`. 11,321 states. |

### Bounds, and why they are enough

- **Engines.**
  - MaxRecipients = 2 and MaxTransactions = 2: a second transaction is stored, with two recipients, and a third RCPT or MAIL meets the limit.
  - MaxErrors = 2 with ErrCap = 3: both 500 and 421 occur, and 503s can push the count past the budget.
  - MaxMessageSize = MaxLineLength = 2, with body lines of 1–2 units, plain or stuffed: a body fits exactly, is cut by the running check, or is cut by the line check.
  - Each limit's off-by-one mutant needs one step more than the limit allows, and these bounds reach it.
- **SessionShutdown.** It uses one verb of each kind that moves the machine, plus NOOP for every handler that does not.
- **EnvelopeBuilder.**
  - SmallBufferSize = 2 with writes of 1–2 bytes, so a body fits the first array or forces a larger one.
  - Three transactions and two envelopes allow "finalize, reset, write again".
- **DataFraming.** It uses two lines of up to three characters over `{".", "a", "CR"}`, or with `LF` in place of `CR`. This covers the stuffed line `..`, the terminator, a lone CR and every cut point. In the CR run MaxLineLength = 5 and MaxMessageSize = 9:
  - a stuffed three-character line is too long, and an unstuffed one fits exactly;
  - two lines reach sizes below, at and above the limit.

  The LF run has no caps, so that its counterexample is the bare LF alone.
- **Parser.** Limits are scaled down: a label of 2, a hostname of 3, a command of 8 bytes. The inputs are every string of a 5–7 symbol alphabet up to 4–6 symbols. Replies have up to two lines of up to two characters over `{"a", " ", "."}`, with no enhanced code, `2.1.0`, or `5.7.12`. After the null path `FROM:<>` come up to six symbols over SIZE in either case, another letter, `=`, `+`, `3`, `7` and space, with MaxMessageSize = 7 and int64's maximum scaled to 99: sizes below, at and above the limit, beyond int64, repeated or mis-cased keywords, and values with a sign or trailing letters all occur.

Each property of a passing run has a mutant in PROJECT.json: a plausible bug in the definition that models the code. Under the run's own cfg, TLC must report each mutant as a violation.

## Findings

1. **Stuck in Data** (`storage.go:1017`, every failure path of `handleDATA`).
   - `sm.Reset()` cannot leave Data, so after a 451 or 552 the machine stays in Data, while `State()` says Identified and the envelope is gone.
   - Every later command then gets 503, RSET and QUIT included.
   - This goes against spec §3 and §7.
2. **OnDisconnect silenced by Close** (`storage.go:1410`). `Close()` sets `e.closed`, so `handleDisconnect` returns early. This goes against spec §7.
3. **Lost Abort** (`storage.go:1412`). `Close()`'s unlocked `sm.Abort()` can be overwritten by the session's own transition (the shortest trace loses it to `Greet`'s Connected→Greeted; a handler's transition does the same). On a NetConn, Run then loops on `net.ErrClosed` until its context is cancelled.
4. **Envelope data aliasing** (`envelope_builder.go:142`). `Finalize` returns `b.data.Bytes()`, and `Reset` keeps the buffer. This goes against the interface's immutability promise; the engine never reuses a builder.
5. **DATA ends at a bare LF** (`storage.go:1279`). `ReadBytes('\n')` splits at a bare LF, and `IsTerminator` accepts both `.\r\n` and `.\n`, so a body holding `LF . CR LF` (the run's trace) or `LF . LF` ends there. This is the SMTP smuggling pattern, against spec §8.3.
6. **Cancelled, yet stored** (`storage.go:1274`). readData checks the context only before each line read. A cancellation that arrives while the terminator line is being read is not seen, and the message is stored and acknowledged. Spec §5 says cancellation stops the session.

Divergences recorded as hazards, with no run of their own (PROJECT.json says how to show each):
- EHLO advertises STARTTLS without a TLS provider while HELP does not (`storage.go:861`, spec §8.5);
- `RCPT TO:<>` is accepted (`parser.go:235`);
- `isValidAddress` accepts `@@a` (`parser.go:275`);
- `engine.go`'s STARTTLS dead end, and its `Close()`, which leaves a blocked read blocked;
- a SIZE value beyond int64 makes `Sscanf` fail and leave 0, so that MAIL is not refused early; `+N` and `Nx` are read as N (`storage.go:902`, spec §8 property 8; the body is still cut at MaxMessageSize while it is read);
- a body of exactly MaxMessageSize bytes is refused when its last line is dot-stuffed: the running check counts the stuffing dot (`storage.go:1300`);
- after `ErrLineTooLong` or `ErrMessageTooLarge`, the rest of the body is read as commands (`storage.go:1296`). Today these lines all get 503, because the machine is stuck in Data (finding 1);
- `ReadBytes` buffers a whole line before any length check (`storage.go:1279`);
- `TLSImmediate` is never checked by the engine and behaves as Optional (`storage.go:883`);
- a PipeConn over a reader that is not an `io.Closer` stays blocked after `Close()` (`unnamed/part_000:143`); `close_race_pipe` with `ReaderCloses = FALSE` shows it;
- Storage, Mailbox, SenderPolicy and the hooks are called with no deadline, so a collaborator that never answers blocks the session (`storage.go:1084`).

## Not modelled

- **The TLS providers and certificate loading.** In `Engine` the handshake is a success or failure choice.
- **The in-memory Storage and Mailbox.** They are outside the spec's scope. Every method holds the RWMutex for its whole body, so each call is one atomic step. `Engine` already lets `Store` and `ValidateRecipient` answer in every way (accept, refuse, fail), so modelling the maps would add nothing the engine can observe.
- **The logger** (`logger.go`). It only formats and writes; no state of the session depends on it. One edge is worth knowing: `intToStr` negates its argument, so for the smallest int64 it prints `-` alone (`logger.go:201`). The engine logs only counts, sizes and reply codes, which are never negative.
- **The SessionInfo getters.** They return fields. `SessionInfoStateCurrent` checks the one field that can drift, `State()`.
- **The examples** (`examples/`):
  - they configure an engine and start a listener;
  - their policies are fixed lookups;
  - `Engine` already lets a Mailbox or SenderPolicy answer in every way.
- **`CommandStateRequirements` and `IsStateValidForCommand`.** Nothing calls them, and their table is the same as `AllowedCommands`.
- **The documentation and tests.**

## Plan

1. A run for each divergence now recorded only as a hazard, if a run slot is freed. The candidates are:
   - `State()` after QUIT;
   - the SIZE value beyond int64;
   - a body of exactly MaxMessageSize bytes that is refused;
   - the rest of the body read as commands after a limit error.
