# hhm-mash-web: models, checks and proofs

This directory is a verification project for hhm-mash-web: TLA+ modules translated from
its source, TLC configurations that check them on small instances, and theorems that
TLAPS checks for every value of the constants. `PROJECT.json` is the index: which module
models which lines, which run checks which property, which variant of the code breaks it,
and which theorem covers it.

    tlc -workers 2 -config MashServer.cfg MCMashServer     # a run
    tlapm MashServerProofs.tla                             # a proof

## The system

The program is a small web server and the calling contract that is vendored beside it.

| Part | Source | State | Operations |
| --- | --- | --- | --- |
| Reservation server | `src/main.rs` | `items` (a `Vec` behind a tokio `RwLock`), `events` (a `broadcast` channel of 256), `demo_writes_enabled` | `index`, `reservation_component`, `items_partial` (read), `create_item` (append, announce) |
| Event feed | `src/main.rs` `ws_upgrade`, `websocket` | one task and one broadcast receiver per websocket | upgrade, subscribe, forward, lag, close |
| Page | `src/main.rs` `layout` (htmx markup and script) | what `#items` shows, the requests under way, the refresh htmx has queued | load, refresh on a frame, submit |
| Frame envelope | `scripts/vendor/runtime/*/frame.*`, `ridl/framing.py` | none | `validate`, `decode`, `encode` in three languages |
| TCP framing | the same | the tail a caller keeps between reads | `encode_tcp`, `decode_stream` |
| Framed RPC transport | `runtime/rust/transport.rs`, `runtime/typescript/transport.ts` | correlation counter | `call`, `unary_answer`, `observe` |
| Multi-transport routing | `runtime/rust/transports.rs` | order of preference, wires | `new`, `prefer`, `call` |
| Queued delivery | `runtime/rust/opto_sync.rs`, `runtime/typescript/opto-sync.ts` | the application's queue and local view | `call`: record id, queue, read back |
| Startup, write gate, origin and input checks | `src/main.rs` | immutable configuration | pure decisions |
| Route map, validation, `ridl` command, route gate | `scripts/vendor/ridl`, `scripts/check-route-sync.py` | files | `generate`, `drift`, checks |
| Send rule | `.ores-lint/require-send.mjs` `analyzeSource`, `.ores-lint/eslint/plugin.mjs` `requireSendRule` | a stack of scopes of undelivered logging events, the loggers known, findings | one step per statement or token group; one per node visited |
| Lint run | `.ores-lint/lint.sh`, `js.sh`, `eslint/base.mjs`, `eslint/formatter.mjs`, `require-send.mjs` `main` | files taken, results, counters, exit status | choose, examine, format, scan, decide |
| Emitters, lambdas, entrypoint, build | see `PROJECT.json` | none that outlives a call | |

How they interact. Handlers of concurrent requests share `items` and `events`. `create_item`
appends under the write lock, drops the guard, and then sends on the channel; each
websocket task takes the event from its receiver and forwards it as a frame; the script of
the page answers every frame with a refresh (`GET /partials/items`), which reads the list
again. The form's POST returns a list of its own. So a page's content comes from three
requests and one notification path that are not ordered with respect to each other, and
the notification carries no data: everything depends on *when* the list is read.
The vendored runtime is independent of the server: a client's call becomes frames, crosses
one of several wires, and is answered, or is queued in a durable store and read back.
The lint is independent of both. It enforces that a logging event which is built is also
sent, twice over: a scanner of tokens for Rust, Dart and Gleam, and an ESLint rule
over syntax trees for JavaScript and TypeScript. The two share no code, only the claim that they
enforce one contract (`require-send.mjs:5`); `lint.sh` runs both and reads what they print.

What is hard here: handlers interleave between any two uses of shared state and are
dropped where they await; a restart empties the list while pages stay open; a slow browser
lags behind the bounded channel; responses overtake each other; a TCP read ends anywhere;
a connection hands over frames that belong to another call; wires drop between `is_ready`
and `send`; a queued write, its read back and synchronisation interleave; a lint that is silent may
have understood nothing of what it read, or read nothing. `PROJECT.json`
lists the hazards, each at the line where it bites with the properties that would
catch it.

## Modules

| Module | Models | Checked in |
| --- | --- | --- |
| `ReservationService` | abstract: an atomic list of reservations with one announcement per item | through `MashServer` |
| `MashServer` | the handlers, the fair lock, disconnects, restarts | `server_safety` |
| `MashServerProofs` | theorems about it | |
| `EventFeed` | channel, websocket tasks, network, browser end | `feed` |
| `MashPage` | server (at the grain of `ReservationService`), feed and pages together | `page_safety`, `page_live` |
| `MashPageProofs` | theorems about it and about the feed below it | |
| `FrameChannel` | abstract: a FIFO channel that fails at the first bad frame | through `FrameStream` |
| `FrameStream` | length-prefixed frames over arbitrary reads | `frames` |
| `FramedCall` | concurrent unary calls over a connection that misroutes | `framed_calls`, `framed_doc` |
| `FramedCallProofs` | theorems about it | |
| `MultiTransport` | choice of a wire, fallback, telemetry | `wires_safety` |
| `MultiTransportProofs` | theorems about it | |
| `FrameCodec` | the envelope in Rust, TypeScript and Python | `frames` |
| `FrameProofs` | theorems about `FrameStream` and `FrameCodec` | |
| `OptoSync` | queued calls of a Rust and of a TypeScript client | `opto`, `opto_record` |
| `OptoSyncProofs` | theorems about it | |
| `PendingScopes` | the stack of scopes both halves of the send rule keep | through `SendContract` |
| `RequireSend` | `analyzeSource` of the scanner | through `SendContract` |
| `EslintRequireSend` | the visitors of the ESLint rule | through `SendContract` |
| `LintedProgram` | reference, not in the repository: a file, and what becomes of each event in it | through `SendContract` |
| `SendContract` | both halves on the same file | `source_lint` |
| `ScanTokens` | the scanner's `tokenize` and the line numbers of comments | `source_lint` |
| `LintConfig` | `eslint/base.mjs`, `trackedFiles`: which files, which parser, which rules | through `LintRun` |
| `LintRun` | a run over a repository, up to the exit status | `source_lint`, `lint_gap` |
| `SourceLintProofs` | theorems about `ScanTokens`, `LintRun` and what both halves of `SendContract` share | |
| `SendRuleProofs` | theorems about the ESLint half of `SendContract` | |

Every `MC...` module only instantiates its namesake for TLC; `MCSourceLint` puts three
specifications that share no state side by side, so that each behaviour is one of
`SendContract`, `ScanTokens` or `LintRun`, and `MCFrames` does so with `FrameCodec` and
`FrameStream`. In every module the
definitions marked *Variant* are plausible faults of the code; no specification uses them.
They exist so that each property can be seen to fail: for each property of a run one
variant, put in the place of the definition it varies, makes TLC report a violation.

### MashServer and ReservationService

A request's `pc` is the place of its handler between two uses of shared state: `idle`,
`waiting` (from `read().await` or `write().await` on), `pushed`, `rendered` (both still
under the guard), `unlocked` (between the end of the block that holds the guard and
`events.send`), `answered` and `done`. tokio's `RwLock` is a queue: `ticket` is the order of
arrival, and `Holds` says that everything in front shares the lock. "Waiting" covers a
handler that has been granted the lock and not yet been polled, so a grant needs no step
of its own. A client that disconnects makes hyper drop the handler's future, which can only
happen at an await: `Disconnect` applies to `waiting` and, for the response, `answered`, and not between
push and send. That `create_item` has no await there is the reason every committed
item is announced, and the variant with an await there (`Disconnect_BeforeSend`) breaks
`CommitWillNotify`.

`ReservationService` says what this is worth to a caller: requests take effect one at a
time on one list, each answer is the list at that moment, an item is published at most once
and after its commit. `ImplementsService` is the refinement, with the linearisation point
of a create at its push and of a read at its rendering.

### EventFeed

An event is its position in the channel. `cursor` is the receiver's position; `Behind`
larger than `RingSize` is tokio's `Lagged`, on which the loop ends (`Err(_) => break`). The task's
`select!` is modelled as a choice; while it is in `tx.send().await` it does not look at
incoming frames. Ping and text frames of the client are ignored by the code and change
nothing, so they are no steps. `NoGap` is the point of the component: what a browser sees is
an unbroken run of the events since its subscription, so ending the connection on lag, not
skipping, is what makes the feed trustworthy.

A browser goes away in one of two ways. `PeerGone`: its connection closes or is reset, and the
task learns of it in `rx.next()` or in a send that fails. `Vanish`: nothing comes from it any more (a
laptop shut, a network gone). Then only what was sent and is not acknowledged tells, when the host
gives up sending it again (`TimesOut`): `websocket` sends no ping and has neither a time limit nor
keepalive. So `NoTaskForGonePeer` asks for one event to send where the browser
fell silent; with none the task and its receiver stay until the next event, however long that
takes, and as often as browsers do it. `Silent` are the sockets this can happen to.

### MashPage

Composes one list, the feed's channel and tasks, and per page three requests: document,
refresh, POST. htmx runs the refreshes of `body` with its default queue (`last`): one in
flight, one waiting. `StaleOnlyForAReason` lists every way in which a page with a working
socket may lack a committed item; the list is the result of the model, and three
entries are worth a reader's attention:

- an item announced between the rendering of the document and the subscription of its
  socket is not shown until the *next* event (`last = "document"`, `EventOf(item) <= start`);
- a POST's response that overtakes a refresh, or arrives after it, takes the page back to
  an older list until the next event (`last = "create"`);
- a page whose socket was refused or ended is never refreshed again: the script opens
  its socket once (`Live(p)` is false).

`RefreshedPagesConverge` is the positive statement: once users are done, a live page whose
last response was a refresh shows the server's list and keeps showing it.

`Live` is about pages that are served and still there, so a page whose connection fell silent is not
one of them, and the first two reasons above apply to the others alone.

### FrameStream and FrameChannel

Bytes are digits of base 2, prefixes two digits long, `MAX_FRAME_BYTES` is 2, so that
a declared length at, above and below the limit, an empty payload, a read that ends in
a prefix, and one that ends a byte short all occur among four frames. `NothingLost` says
that what was handed over, what is still buffered and what has not been read make up what was
sent, that no whole frame is left behind in the tail, and that the tail is bounded. The refinement to
`FrameChannel` says that reads are only a way of receiving a FIFO channel, where a frame
that does not decode ends the connection.

### FramedCall

`FramedConnection` is the application's, so an exchange returns *any* sequence of frames
that answer any call written so far. `unary_answer`'s loop is a recursive function over
the frames; `StrictOnShape` states independently, by counting, which answers may succeed. A data frame
without a body, which `decode` refuses, is one a connection may hand on and a frame kind of its own
here (`bodiless`), since `unary_answer` tests for it once more.

### MultiTransport

One call is a scan over the order of preference, with `is_ready` read at each position and the
send a later step. `steadily` is a history variable: the declared wires that were ready ever
since the call began. `NoneAvailableIsTrue` needs one wire per kind, because `call` uses the
first wire of a kind only (`transports.rs:238`); with two wires of a kind, the second is
never asked.

### FrameCodec

A frame is an object whose members take values from a small set of tokens, one for every
value that some port treats differently. `built` remembers the frame a port built, which is not
always the one it writes: a frame in memory may have a body that JSON has no text for. TypeScript
sets `hasBody` for whatever it is given, so `dataFrame(id, undefined)` has a body for `validate`,
and `JSON.stringify` then leaves it out; `NaN` becomes `null`. (Python refuses to write `NaN`, Rust has
no such value.) `Interoperates` says that the frame built is the one all three read, through any
relays: `null` stays a body, an absent body stays absent, an undefined body of a call is an absent one and takes nothing else
along, and a data frame that so lost its body is refused by all, never read as another frame. It says as well that
any frame that Rust encoded last is read alike, since Rust makes irregular members regular; and `RegularAgree`
that the ports accept the same objects, if these are written in the regular way. The
`Irregular` objects on which they do not agree were found by the model: `v` of 257 (Rust casts to `u8`), `1.0` and `true` for `v` (equal to 1 in
Python, and `1.0` is 1 in TypeScript), `null`, `false`, `0` and `""` for `query` and
`meta` (empty to Python's `or`), and `null`, empty texts and numbers for the members that
Rust reads as optional strings. Not part of a property: Rust sorts the names of
`meta`, the other two keep their order, so the bytes of one frame differ by
port (`frame.rs:278`, against the comment at `frame.rs:296`).

### OptoSync

A call resolves its record id, queues its mutation and reads the local view back, with an
await between any two. The queue and the view are the application's: the queue may refuse, the
view may fail, the server may take or refuse any pending mutation (`Settle`), and other
clients may change a record (`PullRemote`). The view is what the doc comments on
`LocalReadback` promise, the last pending write over the last authoritative row. Calls of a
Rust client do not overlap (the transport holds a `RefCell` and is not `Sync`); calls of
a TypeScript client do. `ReturnsOwnOrLater` is therefore weaker for TypeScript: there
the first of two overlapping calls may return the second one's value.

`FiledAsNamed` has one exception, a Rust client whose body misleads the search for the
record id; `opto_record` shows what happens without it.

### PendingScopes, RequireSend, EslintRequireSend, LintedProgram, SendContract

A file is written one statement at a time. `Tokens` gives the statement as the scanner sees it
and `Nodes` as the list of nodes ESLint visits, in its order; the two halves then work
through them in steps of their own. `LintedProgram` says, from the file alone, what became
of each event: which variable in which block kept it and what was done with it. It
is no part of the repository and is marked external; it stands for the meaning of the rule's
one sentence, an event that is built must be sent or handed on.

Each half keeps a stack of maps from names to pending events (`PendingScopes`). The scanner
opens a scope at every `{` and flushes it into findings at the `}`; the ESLint rule
opens one per function only. `BoundChain`, `HandedOffChain` and `DroppedChain`
are the three things `analyzeSource` can make of a chain; the visitors of
`EslintRequireSend` carry ESLint's names. An expression is a root and the list of its
links (`dot`, `call`, `wrap` for `await` or a cast), outermost last, so that
`collectCallChain`, a recursive walk in the code, is a selection from a list.

`ReportedOnce` needs no reference: no chain is reported twice, nor reported while it is
still pending. `ScannerFindings` and `RuleFindings` compare the findings of one half each with
the program, in both directions: what is found is lost (`ScannerAlarms`, `RuleAlarms`), and at
the end of the file what is lost is found (`ScannerMisses`, `RuleMisses`). They hold with
exceptions, each found by TLC or by a proof that would not go through, and each
needed (a run without it fails); they are the limits of the two halves, and a reader who
relies on the lint should know them. The scanner:

- it takes a name for a logger by its spelling (`looksLikeLogger`, here a set of
  words), so it misses renamed loggers and, in Gleam, accuses any module;
- outside Gleam it follows only `logger.level(...)`, so a chain with something in
  between (`log.with("k").info("m")`) is missed;
- a trailing comma makes two arguments of one (`require-send.mjs:211`), and an undelivered
  event then looks like a call that delivers by itself;
- it marks the identifier in front of `=`, which is the type where there is one (`276`),
  and the last name of a field, so that a field that takes an event in an inner block
  takes over the pending event of a variable of that name (`ScannerHides`);
- an assignment in an inner block to an outer variable is reported at the end of the inner
  block, sent later or not;
- it recognises `x.send()` and `send(x)` and no other use, not Gleam's `x |> log.send()`.

The ESLint rule:

- it accuses the convenience call that delivers by itself (`log.log("l", "m", c)`), which the
  scanner allows;
- what it has learnt of a name holds in the whole file (`knownLoggers`), so the chain of another
  package's logger is accused where one of ours has that name in some other function;
- a logger kept in a field that the file does not assign is unknown to it;
- like the scanner it confuses two events under one name, and since its scopes are functions, also
  those in sibling blocks; it clears a name twice for a call that is a statement
  (`plugin.mjs:280-291`), which reaches an outer variable of the same name;
- an event that an inner function assigns to an outer variable is reported at the end of
  the inner one, and one that an inner function sends after a block of it had a variable of the
  same name is cleared in the wrong scope (`RuleHides`) and reported.

### ScanTokens

A text grows by one character out of twelve that tell the branches of `tokenize` apart.
`LinesAgree`: the line a token is given while strings, escapes and comments are skipped is
the line that `collectSuppressions` gets by splitting the text, or a comment would silence
another line. `RecoversAtNewline`: a quote without a partner, such as a Rust lifetime, costs at
most the rest of its line.

### LintConfig and LintRun

A world is a repository (files, nested repositories, `.eslintignore`, blocks of its own), an
installation (which optional package is absent, throws on import or lacks what is needed, in
the repository or beside the lint) and an environment. What the rules find in a file is a
choice, since `SendContract` is about that. A run tells of a missing TypeScript parser, has ESLint examine
the files its config takes (or refuse the config, at the first of them), formats message by message, scans, and lets `lint.sh` decide by
searching the two outputs. `ExaminedRight` compares what is examined with what git's reading of
`.eslintignore` leaves in; `NoteIsTrue` says that where the note speaks of TypeScript being skipped
ESLint reads none of it, though `js.sh` looks the packages up by name, `base.mjs` imports them and the repository may
add blocks of its own (that the note is always there when it should be is not so: `lint_gap`); `CappedReport` that what is shown and what is announced as the rest make up what
was found; `StrictVerdict` that a strict run fails exactly when there is something to find. Their
exceptions are in the definitions and, again, each is needed.

## Runs

| Run | Bounds | Why they are enough |
| --- | --- | --- |
| `server_safety` | 1 read, 3 creates, room for 2 items beside the seed, 1 restart, fair | two creates fit, the third is turned away, a reader stands in front of, between and behind writers, a lost process has answered and unanswered requests |
| `feed` | 2 sockets, both may fall silent, ring 2, network 1, 5 events | a receiver can lag, be exactly full, and lag again; a send has to wait; the inattentive socket blocks beside the attentive one; a browser falls silent idle, with a frame on the wire and with a send waiting |
| `page_safety` | 2 pages, 2 submits each, room for 2, ring 1, 1 failure, no restart, no silent connection | a POST and a refresh of each page overlap with events of the other; the list fills; to the pages silence is like a closed connection, and `page_live` and the proofs have it |
| `page_live` | 2 pages, 1 submit each, 1 restart, one page may fall silent | convergence across a restart and beside a silent page; failures are in `page_safety`, the restart fails requests too |
| `frames` | every frame a port can build, 2 members altered, any relays; 4 frames in a stream, reads of any size | one altered member shows each disagreement, a second one whether two make up for each other; a good frame before and after every kind of bad one |
| `framed_calls`, `framed_doc` | 2 calls with a JSON body and 1 without, answers of up to 2 frames | the shortest wrong answer of each kind has two frames |
| `wires_safety` | 3 calls, 3 wires, 2 partial orders and the default | an unlisted kind, a listed kind without a wire, a fallback with a wire behind it |
| `opto`, `opto_record` | 2 calls, 17 requests, 1 foreign change, both languages | two writes to one record, before, between and after each other's steps |
| `source_lint` | files of 3 to 6 statements in six suites, texts of up to 5 characters, repositories of up to 6 files | a suite varies one thing (chains, loggers, uses, scopes, fields and comments) at the length its shortest interesting file has: an assignment in a nested block and a send behind it take 5 lines; 4 characters open, escape, break and close a string; worlds vary what is ignored, what is installed and what is counted, one at a time |
| `lint_gap` | the repositories of `source_lint` | two files and one unusable package show it |

`CHECK_DEADLOCK FALSE` appears where every request has been used or a bound is reached,
that is, where the model stops and the system goes on.

Symmetry is used in `page_safety` and the two runs of framed calls only, over pages or calls,
which nothing orders, and in no run that checks liveness.

## Fairness

Safety needs none. `server_safety`, which also checks liveness, assumes that a handler that can take a step takes one:
tokio polls every task that was woken, and its `RwLock` wakes waiters in order of arrival;
nothing is assumed of arrivals, disconnects or restarts. `feed` assumes it of a socket
task's steps *taken together*, because `select!` picks among ready branches at random and
owes none of them a turn. It assumes that attentive browsers handle their frames, of the
others nothing: a
browser that never reads holds up only its own task. And it assumes that a host sends a frame
again a finite number of times and then ends the connection, which is TCP's; of a silent connection on which
nothing is to be acknowledged nothing is assumed (`TimesOut`). `page_live` adds that a commit's handler reaches its
send (no await in between) and that an open page handles frames and responses. `frames` assumes that
a receiver goes on reading. What users do is never under fairness.

## What is proved

All theorems hold for every number of requests, sockets, wires or calls and every capacity;
the assumptions are the named `ASSUME`s on constants, which TLC evaluates in every run. Every
safety invariant of the runs but one (`ScannerFindings`), the action property
`RefreshMonotone` and both refinements are theorems. What stands in for induction, which the
provers cannot instantiate, is the least number of a set (`LeastNumber`, from the well-foundedness
of strict inclusion among finite sets); with it the recursive functions of the models are shown
to exist and their values are followed place by place.

- `MashServerProofs`. `LockInv`: a handler behind its await came before everything that it
  excludes, since tickets are unique and new ones are larger; hence `ExclusionHolds`.
  `LedgerInv` relates list, events and `pc`: who is in the list is past its push in this
  process, who is in the events is past its send; it is inductive where `Capacity`,
  `NotifyAfterCommit` and `CommitWillNotify` are not, because they say nothing of
  a create that is still waiting. `HistoryInv` adds that what a handler rendered is a prefix of
  the list of its process; with exclusion this gives `AnswersAreHistoryHolds`.
  `ServiceImplemented` maps each step to a step of `ReservationService` or a stutter.
- `MashPageProofs`. The feed first: `NoGap` is strengthened by the positions of events in flight, the
  wire of an open browser holding the successors of `seen` up to what the task sent (`FeedInv`; of one that closed or fell
  silent, what is left of them tells nothing any more). The pages need
  `PageInv` on top of it. `Histories`: every list that is shown or on its way was the list of one
  process at some time, recognised by its seed item, so that a list from before a restart is not
  measured against the present one. `Ledger`: every item of the list behind the seed is either still unsent or stands
  for exactly one event, which ties the position a socket has handled to the items a
  page must show. `Phases`: no socket and no POST before the document. `AllFresh` is the core of
  `StaleOnlyForAReasonHolds`: with no refresh waiting, the refresh under way, or the one shown last, lacks no
  item whose event the page has handled. It is not enough to say that of what is
  shown: a page that handles an event with a refresh in flight may go on with an older list
  only because the queued one follows. `AllOnward` (the refresh in flight is no shorter than the one shown)
  gives `RefreshesAdvance`, the action property `RefreshMonotone`. Restarts are
  steps of the specification all the theorems speak of.
- `MultiTransportProofs`. `OrderInv` (the order of preference is complete before the first
  call), `SendInv` (one `on_start` and at most one `on_finish` for every send), `ScanInv` (a passed kind was
  seen not ready) and `EndInv` (a call gives up only at the end of the order). `PreferenceKeptHolds` and `NoneAvailableHolds` have the premise `OneWirePerKind`.
- `OptoSyncProofs`. `CallInv` and `LogInv` are the shapes; `Once` makes `QueuedOnce`
  inductive with them; `TurnInv` says that a Rust client's
  call in its read back made the last entry, from which `ReturnsOwnOrLater` follows. `FiledAsNamedHolds` needs
  `RecordInv` (the id found is one of those the call's request can give, until it is in the queue and
  after) and `MeansAssumption`, which says what the constant `means` of a request stands for: the value in
  the path or in the body under the declared name.
- `FramedCallProofs`. `UnaryAnswer` is a function that recurs over the frames; `LoopRuns` shows that it
  exists and the lemmas behind it what the loop has seen after `k` frames, for answers of any length. `StrictOnShapeHolds` is
  this fact alone: deciding frame by frame and deciding on the whole answer come to the same. `IInv`
  has ids taken once and never 0 (`Numbered`), results that are the loop's verdict on frames that carry
  the id of the call they answer (`Delivered`), and one event for every finished call (`Reported`).
  `NoCrossTalkHolds` follows because two calls never share an id, however the connection misroutes.
- `FrameProofs`, the envelope. `Interoperates` is not inductive, since it does not say what the next port will
  write. `CodecInv` does, in two parts. `Canonical`: the object has no irregular member and Rust accepts it, which
  is so of what any port writes of a canonical object, and of what Rust writes of
  *any* object it accepted. `Carries`: as long as no peer altered it, the object says member by member what `built`
  does (`Arriving`), which every port writes of the frames it can build (`Neat`, `BuiltCarries`) and passes on when it
  accepts them (`RelayCarries`); where the built frame lost its body, no port accepts the object, so that it stays as it is. `RegularAgreeHolds` needs no invariant but that `object` is one. Both hold for any
  number of altered members and of relays, where the run alters two.
- `FrameProofs`, the stream. `StreamInv`: what was handed over is a beginning of what was sent, and tail
  and unread bytes together are the stream of the rest; `TailIsPartOfOneFrame` says that the tail
  is shorter than the frame it begins, and that a prefix in it was not refused. The lemmas below it
  are about bytes: a length written in base `Base` is read back (`PrefixIsRead`, by Horner's scheme; the assumption
  on payloads says that their length fits the prefix), the stream of two
  parts is the concatenation of theirs (`StreamSplit`), one turn of `decode_stream` takes
  one frame or stops (`OneTurn`), hence the loop gives the complete frames of the buffer and stops
  in front of the first bad or partial one (`DecodeGivesFrames`), and cutting the bytes anywhere cuts the frames in the
  same place (`CutBytes`). `ImplementsChannelHolds` then maps a write to `FrameChannel`'s send, and a read
  to a receipt, to a failure, or to no step.
- `SourceLintProofs`, the send rule. `ReportedOnce` is not inductive: a chain that
  was reported once and is still in some scope would be reported again. `Clean` adds what the
  stack owes the findings: every pending event is known, has not been reported, and is
  pending in one place only. The lemmas say which operations keep it: entering, marking a new
  event, forgetting any number of entries (`ClearingThins`), flushing a scope. The theorem
  holds for every set of files, dialect and nesting.
- `SourceLintProofs`, the tokeniser, for texts of any length over any characters. `Tokenize` and the
  loop of a string are recursive functions; `SomeLookAhead` shows that a function which looks only at later
  places exists, and `DownTo` is the induction from the end of the text. `LinesAgreeHolds`: each turn
  (`TurnAdvances`) passes at least one character and counts the newlines it passes, and numbers of newlines add
  up. `RecoversAtNewlineHolds`: a turn sees only the text behind it, so the tokens
  of a text that is moved are the tokens moved (`TokensBehind`), and before a newline at which nothing
  carries on, no turn reaches beyond it (`TurnAhead`, `TokensAhead`).
- `SourceLintProofs`, the lint run, under `WorldsAssumption` (finite repositories, patterns of the
  kinds that are parsed). `RunInv` has five parts. `Chosen`: repository and outcome stay. `Collected`: the results
  are those of the files examined so far, each file once. `Tallied`: the formatter's counters are the numbers
  of messages gone through, which needs that once, and what is shown of a rule is what its number leaves
  room for. `ScannerCounts`: the same of the scanner's totals. `Judged`: the reports written are right, and the exit status goes by
  them. `CappedReportHolds` and `StrictVerdictHolds` follow. `ExaminedRightHolds` needs no
  invariant: it follows the lines of `.eslintignore` one by one (`LineAndGlob`: a line and the
  pattern made of it match the same files; the last line that matches decides). `NoteIsTrueHolds` needs
  two facts more (`NoteInv`): a note was written where neither package was found, and results are of files ESLint takes.

- `SendRuleProofs`, the largest proof: `RuleFindingsHolds`, for any suites of statements over any names, files of
  any length and any nesting. `RuleMisses` speaks of the end of the file only, and `RuleAlarms` does not say
  what is going to be reported, so that neither is inductive. `RuleInv` says on the way there what the
  rule knows of the file. `ProgramInv` is about the file alone: what a variable holds
  was bound to it last, by a function that is still open, and as long as it is open, it and the ones that hide it hold that event
  or later ones.
  `KnownOk` and `LearntOk`: every logger, factory and package of ours is known, or the node that
  teaches it is still to be visited, and a known name is one that some line gave to one of ours.
  `RecordsOk`, `PendingOk` and `EndedOk`: a recorded node stands for the line of an event, is pending under its
  name in the scope of the function that bound it, and is reported only once that function has ended.
  `UsedOk` and `AccusedOk`: a pending or reported event that is used after all is excused, or the visit
  that clears it is to come and no scope in between has the name, so that it will be the one cleared.
  `HeardOk`: no event the rule can hear of is forgotten, unless it is used or its
  name is taken over. `NodesOk`: of which shape the visits are that are left of the last statement, and how
  many scopes are open compared with functions. The rule leaves the file alone and
  the author leaves the rule alone, so the two are separate inductions: `VisitKeeps` goes by the kinds of
  nodes, `WriteKeeps` by the kinds of statements, `EndKeeps` is the end of the file. At that end no scope is open,
  nothing is to be visited, and `NoneUnlost` and `NoneMissed` read the two halves of `RuleFindings` off.
  Below them, `CollectCallChain` and `GetQualifiedName` are selections from lists of links, whose length depends on the chain;
  the lemmas on `Listing` say which links they select, and `NodesBuilt` and `NodesReturn` which nodes a statement has.
  The assumptions on constants: `SuitesAssumption` (suites are made of the statements that `LintedProgram` gives a
  meaning), `PlacesAssumption` and `EventsAssumption` (events are kept
  under paths of identifiers that the rule can spell, none of them `log` or in it, nor `c`, which are the names the
  file has for other things), `ModuleNamesAssumption` and `PackagesAssumption` (the rule tracks
  our package and not the other one: `DEFAULT_MODULE_NAMES`).

The feed, `MultiTransport` and `OptoSync` also have their types proved (`TypeOK`), which no
run repeats.

Proving changed the models where they were less exact than the code. Two alternatives of a `CASE` that can
both hold stand for either of them, which TLC does not show, since it takes the first: in
the loops of `decode_stream`, of the tokeniser and of strings, in the scanner's names and in a page's restart the
alternatives now exclude each other, as the code's `else if` does. The exceptions of the ESLint rule had to be
said event by event before `RuleInv` was inductive; two of them,
`RuleHides` and the other package's logger, and of the scanner `ScannerHides`, were not known before. `Irregular` had left out an
empty text in a member that its kind of frame does not have, which two altered members show. The counts of the
lint run are now compared with sets of findings, each a file and a place, and not with sums.

Only model-checked: liveness (`EveryRequestEnds`, `EveryCommitAnnounced`, `EventuallyDelivered`,
`NoTaskForGonePeer`, `RefreshedPagesConverge`, `GoodPeerIsHeard`; fairness and `ENABLED` are out
of the prover's reach), and of the lint `ScannerFindings`: the scanner tells scopes by braces and events by the
last identifier before an equals sign, in three languages, and an invariant would have to relate each place
in a list of tokens to a statement. The suites of the run are the files it is known for.

## What the checks found

Three disagreements between code and comments, each with a run in which TLC finds it:

- `framed_doc`: `unary_answer` accepts an `end` before the `data` and two `end`s
  (`transport.rs:248`, against `transport.rs:36`).
- `opto_record`: `extract_string_field` takes the first occurrence of the quoted name, also inside a
  nested object, and cuts escapes to their second letter (`opto_sync.rs:273`, against
  `opto_sync.rs:268`); TypeScript parses.
- `lint_gap`: TypeScript is ignored for want of a parser and no note is written, when the package
  that is found does not load or has no parser in it, or when the files are outside `src/` and there is no `tsconfig.json`
  (`js.sh:78-87`, against `base.mjs:157` and `js.sh:76`).

Noticed and not the subject of a run: the second wire of a kind is never used
(`transports.rs:238`); `meta` is ordered differently by port (`frame.rs:278`); a body that TypeScript has and JSON
has not is written as none, so that `encode` writes a data frame every `decode` refuses (`frame.ts:64`, `107`, against `frame.ts:34`);
an idle websocket of a browser that fell silent keeps its task and its receiver (`main.rs:608`); a minted
record id is a hash of the request and not a fresh id (`validate.py:470`), and of another width
and alphabet in each language (`opto_sync.rs:142`); a catch-all parameter passes validation as record id and fails every
call at runtime; a queued delete normally ends in `NoLocalProjection`, since a layered view has
nothing to return; `drift` does not look at the directories of maps that were removed
(`cli.py:165`).

Of the lint, besides the exceptions above: `// ores-lint-disable-*` is not looked at by the ESLint
rule, although a comment there says it is honoured (`plugin.mjs:123`); `disable-next-line` on the line
of the finding itself does nothing (`require-send.mjs:10`); an `.eslintignore` line that ends in a slash holds
at the root only and a negated one is dropped, against "gitignore semantics"
(`base.mjs:81`); `ORES_LINT_MAX_EXAMPLES` that is no number shows nothing and announces no rest; parse errors
count as findings, so a strict run fails on them; the fallback semicolon rule would report
`export const` twice; the self test names a `require-send.test.mjs` that is not there.

## Not modelled, and the plan

The runs are kept few: one for each question, and the pure decisions below are to share one
run over their inputs. In order of importance:

1. `RequestChecks`: startup gate, origin check and input normalisation
   (`main.rs:236-249`, `386-402`, `555-605`) and the lambdas' `validate_get`
   (`lib.rs:49-97`). At present these enter the handlers as choices (`Forbid`, `RejectInput`,
   `RefuseOrigin`).
2. `TypeGraph`: the rules of `validate.py` (acyclicity with its recursive search `159-202`, delivery `396-466`,
   record ids `468-489`, unique slots), against what the emitters and `OptoSync` rely on.
3. `RidlDrift`: `generate` and `drift` over a changing set of maps (`cli.py:66-177`): after
   `generate`, `drift` is silent, and it reports every later change.
4. `RouteGate`: nest resolution and the two-way comparison of map and source
   (`check-route-sync.py:394-582`) against a reference definition.
5. Proofs: `ScannerFindings`, on the model of `RuleInv`: `ProgramInv` can be used as it is, and in the place of
   `NodesOk` comes what the tokens left of a statement are, dialect by dialect.
6. Naming collisions of the emitters (`naming.py`).

Known weaknesses that no property is about, since they concern one call, a typed text or a file
on disk: a create whose response is lost has no idempotency key (`main.rs:383`); the body limit
counts encoded bytes and the detail limit characters (`main.rs:400`); a line break typed into
the textarea is a control character and refused (`main.rs:401`); the minted record id of
a repeated intention equals that of a retry (`opto_sync.rs:292`); a cycle through optional fields or
references and a record id from an optional field pass validation (`validate.py:159`, `468`);
nested routers in the route gate (`check-route-sync.py:394`).

Of the lint, left out: the discovery of ESLint and of its version in `js.sh` (a refused
or missing ESLint enters as a world), the fallback semicolon rule, the options `ignores` and
`rules` of `oresConfig`, the file patterns for minified files, the wrappers around
compilers and the choice of projects in `lint.sh`.

Left out for good: the text scanning of the route gate, templates, argument parsing, headers, telemetry sinks,
shell recipes and workflows. They keep no state, or act on files through external tools;
`PROJECT.json` gives the reason for each.

Abstractions a reader should know: items carry no text (a create is its item); HTTP is
reduced to status and list; the seed item stands for the boot of a process; the lock's
fairness is tokio's documented order; a websocket's close handshake is the end of its task;
one table per `OptoSync` run, since tables only partition records.
