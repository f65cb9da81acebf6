# Verification of the Condor-Pelvin data acquisition programs

TLA+ modules, TLC configurations and TLAPS proofs for the Go programs of this
repository.  File names below are relative to `src/`.

## 1. The system

| part | state it keeps | operations | interacts with |
|---|---|---|---|
| **moxa-nport** agent: `main.go` | the context (`sigCtx`, and in store mode a child of it), the test timer, a WaitGroup | validate the configuration, start one listener per NPort, wait, write the report | everything below |
| listener, `listener.go` (one goroutine per NPort) | the TCP connection, the bytes of the frame being collected | dial, read with a deadline of one idle gap, close a frame on a timeout or at `MaxFrameBytes`, log it, hand it to the collector, the coordinator and the device handler, reconnect | collector and coordinator (shared, each behind a mutex), its own handler, the context |
| store coordinator, `store_coordinator.go` | `expected`, `last`, `done`, under `mu` | `Record`; when all expected slaves have been seen: `flush`, `done`, cancel | called by every listener; calls the writer under `mu` |
| InfluxDB writer, `storage.go` | the list of destinations | `Store`: one POST per destination, failures are logged | called by the coordinator and by the DustIQ handler |
| DustIQ handler, `dustiq.go` | the frames of the cycle under way and its slave | `HandleFrame`, `flush` | called by its listener, posts directly, stops its listener |
| slave collector, `collector.go` | the slaves seen per port, under a mutex | `Record`, `Report`, `WriteFile` | called by every listener, and by `main` at the end |
| frame parser `frame.go`, register decoding `registers.go` | none | CRC16, byte count, named registers | called by the listener; the handler of a DustIQ looks at the same summary |
| pollers **ion7400**, **trackers**, **logger3000** | one Modbus connection, two asynchronous InfluxDB writers | one pass over devices, slaves and registers | Modbus devices, InfluxDB |
| `test/main.go` | none | try every slave id | Modbus devices |

What makes it hard: in moxa-nport the listeners, the timer, the signal and
`main` run concurrently; a flush lasts as long as its POSTs and holds the
coordinator's mutex; the context can be cancelled at any of these moments; the
serial lines lose, cut and repeat frames, connections drop, and the handler of
a DustIQ infers the meaning of a value from its position.  The pollers are
sequential; their difficulty is partial failure.

What each part has to get right:

* coordinator: one store, of a complete and consistent set of values, to every
  destination; no deadlock around `mu`; the store ends the run;
* listener and `main`: after a cancellation everything ends, and nothing is
  cut short by it; the report names every slave that was stored;
* DustIQ handler: a decoded cycle comes from one device and one round, each
  value under its own register's name; a cycle is decoded in the end;
* frame parser, register decoding, writer: what is read back from a database is
  what the slave answered, under the names of the configuration, and nothing
  else on the line passes for an answer;
* pollers: a failed register, slave or destination costs only itself.

The complete list of what is hard to test in this code, line by line, is under
`hazards` in `PROJECT.json`.

## 2. Modules

### StoreOnce
What the coordinator promises, with no goroutine or lock: readings per key, and
one commit of the complete collection to every destination, but for what cannot be
posted in any case.

### StoreCoordinator
`store_coordinator.go` and the loop of `StorageManager.Store`.

| variable | code |
|---|---|
| `call[l]` | listener `l` is inside `Record` with this slave and value |
| `mu` | the mutex; seen taken only while a flush is under way, because the rest of the critical section blocks nowhere and is one step |
| `last` | `sc.last` |
| `tried[w]` | how far the loop over the destinations has come for the pair `w` |
| `offered[d]` | history: the points posted to destination `d` |
| `db[d]` | the points `d` accepted |
| `Malformed`, `Nameless` | constants: the destinations whose URL `http.NewRequest` refuses, the values without a named register, for which the body is empty; `Store` posts nothing of either (`Postable`) |
| `done`, `ctxDone` | `sc.done`, the cancelled context |

`CallRecord`, `RecordDropped` and `RecordKept` are the entry of `Record` and its
two ways through the critical section, `Store` is one turn of the loop over the
destinations, with its POST if there is one (the pairs in any order, as Go iterates
over maps, the destinations of a pair in order),
`FlushDone` is lines 82-85 with the unlock, `Cancel` a cancellation from outside.
`Wanted` is the map `NewStoreCoordinator` builds: among NPorts of one name the
last that lists slaves wins.

### DustIQHandler, DustIQBus
`DustIQHandler` has one action per way through `HandleFrame` and `flush`.
`DustIQBus` puts the handler behind a serial line: a master (external) polls the
registers of all devices in turn; a frame may be corrupted, a poll repeated, the
connection lost and redialled while the line goes on.  The frames carry the
register and the turn of their device they come from (`round`), which the handler
does not look at.  `place` is the listener's (in a read, `down` between two
connections, returned) and `ctxDone` the context, which may be cancelled at any
moment (`Cancel`), as a signal, a timer or the coordinator of the other ports does.
The listener returns where it looks at the context: after the frame it is reading
(`Hear`, line 74), when a dial succeeds (`Reconnect`), or while it waits or reads
(`Return`, lines 33, 41, 61 and 74).

### Agent
`main.go`, `listener.go`, `collector.go`, and an instance of `StoreCoordinator`
whose steps a listener takes while it is inside `Record`.  `pc` is the place of a
listener: `top` (line 33), `dial` (37), `pause` (the two selects), `check` (74),
`read` (79), `log` (`logFrame`), `record`, `handle` (`HandleFrame`), `post` (the
DustIQ handler's own `Store`), `done`.  A frame is reduced to its slave, its
value, whether its CRC is valid, and its kind: a poll of the master, an answer,
or the register that closes a complete DustIQ cycle.  A signal cancels the
context, or kills the process once `stop()` has ended the catching of signals.
`mode` is the sub-mode the run was started in, and whether a test is timed.

### FrameParser, LineProtocol, ModbusLine
What becomes of the bytes of one frame.  `FrameParser` has the functions of
`frame.go` and `registers.go` that the rest of the agent depends on, and the
conditions `logFrame` and the DustIQ handler put on a frame, as operators; it
computes the CRC bit by bit, as the code does, on words that are the sets of the
places of their ones (`Xor` is the symmetric difference, `Shifted` one turn of the
inner loop).  `LineProtocol` has the text `storage.go` writes and, external, the way
a database cuts it into fields again; the values of a slave are a set, since no
property depends on the order of its lines.

`ModbusLine` is the line between them: a master polls (`Poll`), an instrument
answers with the registers asked for, with coils, or with an exception
(`Answer`, `AnswerBits`, `Exception`), and the agent hears a message as one frame
(`Hear`), two messages as one (`HearGlued`, what `Framing` shows a late reader to
do), or a damaged one (`HearDamaged`).  A message carries what it means
(`registers`), which the agent cannot see; `heard` is what `logFrame` made of the
latest frame.  The instruments compute the CRC by long division of the message,
read as a polynomial, so that the code's shift register is checked against its
definition.  Bytes have `ByteBits` bits and words twice as many; `MC_ModbusLine`
also computes a published check value with the code's own width and polynomial.

### Framing
`streamFrames` on the bytes of one listener's connections; `Agent` takes its
frames from a set instead (`Emit`).

| variable | code |
|---|---|
| `pc`, `timer` | the place in the loop (`SetReadDeadline`, `Read`, `logFrame`, no connection), the ticks left before the deadline |
| `frame`, `socket` | `frame`; the bytes the kernel holds |
| `msg`, `pos`, `idle` | external: the line's message, its last byte, the silence since |
| `logged`, `first`, `delayed`, `dropped` | history: the latest frame, whether it was its connection's first, how late the reader has been, lost connections |

A tick may pass while the reader has something to do only at the expense of
`MaxDelay`: this is how the scheduler, a blocked `Record` or slow printing make it
late.  When data and the deadline come together either may win.  The idle gap, the
size guard and the read buffer are computed from the settings of the NPort as
`runPassiveListeningTest` and `deriveIdleGap` do; a gap is cut to whole ticks, one at
least, where the code has nanoseconds, and the fallback is taken where the code
takes it (no baud rate, or less than a nanosecond).

### PollOnce, Poller
`Poller` is one run of `cmd/main.go` of ion7400, trackers or logger3000.  One
action per branch of the loops: `SkipRegister`, `ReadFails`, `ReadAnswers` for a
register, `EndSlave` (with `handler.Close`), `EndDevice` (with the flushes),
`ConnectFails` (`log.Fatalf`).  `queue` is what was given to a WriteAPI and waits
there, `sent` what its background writer has taken to send: whether a database
accepts it is not modelled, and does not change what the program does (the
goroutines that read `Errors()`, lines 76-82 and 97-103, only print).  The properties
of the pollers say what is handed over, not what arrives.  `asked` and `read` are
histories.  A
register is reduced to its function code, its data type and whether it has a
name.  The three programs have the same statements in the same order but for the
data types they know (`KnownTypes`, by `program`) and for printing; `map` names the
lines of one of them for each definition.

`PollOnce` is what a run promises: devices one after another, and what a device
gave handed over whole, at once, the same for every available database.  In the
refinement a device's points count as delivered when the program has moved on.

### ModbusDecode
The integer helpers of `ion7400/internal/modbus.go`, and `UTF8`, as operators (of
the floating-point ones the programs call `F32BE` alone, the bits of `U32` read as a
float); the only action lets the
response grow, so that a run visits every response up to a length.  Bytes are
digits of a number in base `Base`; shifts and ors are written as multiplications
by powers of `Base` and sums, a conversion to a signed type as the subtraction of
the size of the type (`Signed`).

### The modules of proofs
`StoreCoordinatorProofs`, `AgentProofs`, `FramingProofs`, `PollerProofs`,
`ModbusDecodeProofs`, `LineProtocolProofs` and `ModbusLineProofs` extend the module
they are named after; `DustIQProofs` extends `DustIQBus`, and `ModbusLineProofs`
extends `LineProtocolProofs` too.  Section 4 says what they prove and how.

`MC_*` modules hold the constants of the runs.  Definitions commented "Mutant"
are plausible wrong versions of the definition that follows them; each property
is known to fail for one of them.

## 3. Runs

| run | what it shows | bounds |
|---|---|---|
| `coordinator` | the lock, the order of the posts and their failures implement `StoreOnce`, liveness included; posted sets are one snapshot, complete, and frozen; `IInv` is checked before it is proved | 3 ports (two of one name), 2 slave ids, 2 values (of one of them there is nothing to post), 3 destinations (no request can be built for the second) |
| `dustiq` | cycles never mix devices; any single lost frame, the marker included, is harmless to what is decoded; the cycle is bounded by the faults; in store mode the port stops in the end, without a stored cycle only if it was cancelled | 2 DustIQs of 4 registers, one read twice in a row, and an instrument of 2; 2 corrupted frames, 1 repeated poll, 1 reconnection, a cancellation at any moment |
| `agent` | the agent implements `StoreOnce`; a completed collection, the timer of a test or a cancellation ends the process; no store is cut short; stored slaves are in the report; at most one frame is handled after the cancellation | store mode, tests with and without a timer; 2 ports, one of them shared with a DustIQ that posts beside the flush; 3 wanted slaves, 1 unexpected; 2 usable destinations of 4 |
| `acquisition` | the CRC check accepts the undamaged frames of one message and no others; every register of an answer is decoded to its number under its name, and nothing else is; the DustIQ handler is given exactly the answers of one register; the database reads every name and value back | bytes of 3 bits, CRC of 6; 2 slaves with signed, unsigned, unnamed, multiple and negative registers; blocks of 1 to 3 registers; bursts up to the width of the CRC; 2 glued messages; all names of the port of 1 or 2 symbols |
| `framing` | a reader in time logs whole messages; a late one may glue or split them, but loses and doubles nothing, and frames are bounded and end | messages up to 3 bytes, reads of 2, guard at 4; reader up to 4 ticks late in all, 1 outage |
| `poller` | the queues, flushes and failures implement `PollOnce`, liveness included; what was read is handed over for every available database however the run ends; a failure costs only its register; one connection at a time | 2 programs; 2 devices, 5 slaves (one empty), 8 registers of every kind |
| `decode` | signed readings are the two's complement of the response, texts end at the first NUL | all responses up to 8 bytes of 4 values |
| `dustiq_reconnect` | **violation**: see section 6 | 1 DustIQ, 1 reconnection |
| `dustiq_reads_800` | **violation** | 1 DustIQ, readings 0 and 800 |
| `agent_listed_dustiq` | **violation** | 2 ports |
| `acquisition_blocks` | **violation** | a slave polled in two blocks |
| `poller_no_slaves` | **violation** | 3 devices, one without slaves |

Why the bounds are enough: the coordinator treats listeners, slaves and
destinations alike, and its hazards need two listeners (one flushing, one
recording), two slaves (one missing), two destinations (one failing) and, for what cannot be
posted, a third one between them; the proofs cover any number.  A DustIQ cycle of 4 registers has a first, a last, a
middle and an unnamed position, which is all `dustiq.go` distinguishes among its
23; the turns of the devices are counted modulo 6, so that a device's turn differs
from its turns in the rounds before; a device read twice in a row is what lets a
lost marker glue two cycles, and with two losses the glued cycle mixes turns.
Listeners of the agent interact only through the collector, the
coordinator and the context, so two of them show every pairwise interleaving.
The agent has no bound on time, frames or reconnections.
`ModbusLine` has a CRC that is wider than a byte; three bits are the fewest with
which the slaves, function codes and byte counts of the run fit in a byte.  The
proofs cover every width from there on, every polynomial with the highest place
(so the one of Modbus) and messages of any length.  Blocks begin with register 0, as
the master of the shipped configurations asks for them; `acquisition_blocks` drops
that.  The coils asked for fit in one byte: an answer with an even number of bytes
of coils is not told from one of registers (section 6), so the run shows the
decoding of lines without such polls.  A glued frame that is damaged as well is left out: no CRC excludes it.
In `Framing` four late ticks let a reader sleep through a whole silence (three
ticks), hence glue messages beyond the size guard, which no single message
reaches; a message of three bytes needs more than one read.  In `Poller` two
devices show what a failure of the second leaves of the first, and every kind of
register follows and precedes a good one.  The arithmetic of `ModbusDecode`
does not depend on the base beyond its being even, which the proofs confirm.

Not every bound is of the code: `MaxCorrupt`, `MaxRepeat`, `MaxDrop`, `MaxUnread`,
`MaxDelay` and `MaxBytes` bound the environment; everything else in the constants
stands for a configuration.

Deadlock is checked in every run but `decode` (a response is complete at some
point); the end of the process is an explicit stuttering step.

### Fairness

* Each goroutine that can run is scheduled (`WF` of a listener's step, of `main`,
  of the timer).  This includes that a dial, a read and a POST end: they have
  timeouts (`DialTimeout`, `SetReadDeadline`, `http.Client.Timeout`), and that a
  waiting `Lock` succeeds, which Go's mutex guarantees once it is released; here
  it is released once and for all after the only flush.
* Nothing is assumed of the environment in `Agent`: no frame, signal or outage
  is promised or excluded.
* In `DustIQBus` the master keeps polling and a dial succeeds in the end;
  without it there is nothing to store.  A listener whose context is cancelled
  returns in the end (`WF` of `Return`), since its read, its dial and its delay have
  timeouts.  Nothing is assumed about cancellations: a run that is cancelled, by a
  signal or by the coordinator of the other ports, may end without a stored cycle,
  and `EventuallyStored` says so; a run that nobody cancels stores one.
* In `Framing` time passes, the reader is scheduled, and a message that was begun
  is finished; no message is promised.
* A poller is one sequential program whose every dial and read has a timeout
  (`handler.Timeout`), as have the pings and flushes of the InfluxDB client: it is
  `WF` of its next step.  The client's background writer promises nothing.
* `ModbusLine` and `ModbusDecode` make no liveness claim.

## 4. Proofs

### StoreCoordinatorProofs

All of it holds for every set of ports, slaves and values
and every number of destinations, under the named assumptions of
`StoreCoordinator`: NPorts are indexed by positive numbers and name known
slaves, "no value" is not a value, and somebody is waited for (otherwise
`NewStoreCoordinator` returns nil).

`SingleSnapshot` alone is not inductive: that a POST offers a value of the
snapshot depends on nobody having changed `last` since the flush began, and that
the flush is complete at its end depends on how far it has come.  `IInv` adds
what is true at each stage:

* before the flush (`BeforeFlush`): somebody is missing, nothing was posted;
* during it (`WhileFlushing`): everybody has been seen, and destination `d`
  was given exactly the postable pairs whose loop has passed `d`;
* after it (`AfterFlush`): every destination was given the snapshot, but for what
  cannot be posted (`Due`);
* throughout (`RecordedAreWanted`): only wanted pairs are recorded, so that "all
  recorded pairs were posted" means "all wanted pairs were posted".

From `Invariance` follow `SingleSnapshotHolds`, `DoneIsCompleteHolds` and
`StoresOnce`, the refinement of `StoreOnce` (safety).  `SnapshotFrozenHolds`
needs only the guard of the lock and of `done`.  That the commit does happen is
liveness and is checked by TLC only (`ImplementsStoreOnce`).

### DustIQProofs

`TypeCorrect` and `OneDeviceHolds`, for any sequence of devices, any registers and
readings and any number of faults; assumed of the configuration is that there is a
device and that a DustIQ answers `ExpectedFrames` registers.  `OneDevice` is about
the last decoded cycle only and says nothing of the cycle under way; the
invariant `Inv` adds that the frames collected so far are valid single-register
frames of `currentSlave` (`HandlerOK`) and that the poll is at a register of a
device (`LineOK`).  `HandlerStep` shows for each way through `HandleFrame`, and for
any frame at all, that `HandlerOK` is kept, so the result does not depend on how
the line behaves.

Its second part is what a fault of the line costs, for any devices, registers,
readings and bounds on the faults.  Two hypotheses describe the line: no ordinary
register reads as the
marker (`MarkerIsUnique`; `dustiq_reads_800` shows what happens otherwise), and
devices that share a slave address are both DustIQs or neither
(`OneInstrumentPerSlave`, true of any working line).

* `OneLossAlignedHolds`: with at most one frame lost, no poll repeated and no
  connection lost, every decoded value carries the name of its register;
* `OneLossOneRoundHolds`: with at most one frame lost and no connection lost, any
  number of polls may be repeated and a decoded cycle still comes from one turn;
* `CycleBoundedHolds`: the cycle is bounded by the number of faults.

`LossInv` relates the cycle under way to the poll of the line.  `Polled` is the number
of registers of the handler's slave that were polled since its turn began.
`Bounded`: the cycle is no longer than that, plus one turn for each lost frame or
connection and one frame for each repeated poll.  `Intact`, as long as at most one
frame was lost: either the first `ExpectedFrames` frames of the cycle are at their
places and, while the cycle is shorter, none is missing, or the lost frame is
missing and the cycle is shorter than `Polled`, so that it is refused when the next
marker comes.  A lost marker glues the next turn to the end of a cycle that is
long enough, where the decoding does not look.  `SameTurn` says the same of the turns
the frames come from; repeated polls may move the places but not the turn.

### AgentProofs

For any ports, targets and traffic, under the named assumptions of `Agent` (the
shape of the configuration; a line carries frames of known slaves; "no value" is
not a value).

The proof is compositional.  `CoordinatorMoves` shows that every step of the agent
is a step of `StoreCoordinator` on the coordinator's part of the state, or leaves it
alone; hence `RunsTheCoordinator`, and every theorem about the coordinator holds
of the agent through `SCP == INSTANCE StoreCoordinatorProofs`.  `StoreCoordinator`
assumes that somebody is waited for; the agent guarantees it only of a store run
that got past the checks of `main` (`StoreIsPossible`), so the two cases are
distinguished: nobody calls `Record` where there is no coordinator (`UnusedIsUntouched`).
`AgentStoresOnceHolds` joins the two refinements.

The properties about the end of a run need how far each listener has come:

* `OneLateFrameHolds`: a listener that logged a frame after the cancellation is at
  a place from which it does not read again, because every way back to `Read` goes
  past a check of the context, which stays cancelled;
* `NoStoreIsCutShort`: while the process runs, a DustIQ post is as far as the
  listener's loop over the targets; `main` leaves only when no listener is in a
  store, and only a timed test, which stores nothing, can be killed;
* `StoredAreDetected`: `Record` of the collector comes before `Record` of the
  coordinator in `logFrame`, and the report is copied from the collector when all
  listeners are done.

### PollerProofs

For any devices, slaves and registers, and any programs of those `KnownTypes` names.
`IInv` joins the type invariant, the places of the three loops (`Positions`), that
what was asked for is what the loops have passed (`AskedWhatWasPassed`), that only
points of the device that is polled wait in a queue (`QueuesOfThisDevice`), and
`BooksAgree`: what was or will be handed over for a database is what was read.  From it
follow `EachDatabaseGetsWhatWasRead`, `NothingIsLeftBehind`,
`FailuresCostOnlyThemselves` and, with what a flush leaves in the queues,
`PollsOnce`: every step of a poller is one of `PollOnce` or leaves its state alone.
`OneConnectionAtATime` has the hypothesis that every device has a slave, which the
code needs (`poller_no_slaves`).

### FramingProofs

For any idle gap between the pauses and the silences of the line, any size guard
and read buffer and any bound on delays.  Two independent arguments are joined in
`IInv`:

* bytes: everything heard on a connection, logged or not (`Heard`), is a chain of
  consecutive bytes of the line, and the line goes on where it ends
  (`LineGoesOn`).  This gives `NothingLostHolds`, however late the reader is.
  `FrameSizes` gives `FrameBoundedHolds`;
* time: for a reader that was never late, a byte is read in the tick it comes,
  and the deadline plus the silence so far is the idle gap (`InStep`); no silence
  within a message is as long (`NoGapInMessage`), hence the deadline comes after the
  last byte of the message and before the next one's first, and what is not
  logged is a part of one message (`OneMessage`).  This gives `WholeFramesHold`.

### ModbusDecodeProofs

For bytes of any even number of values, 256 among them, and responses of any
length.  The argument is the uniqueness of quotient and remainder: the bytes of
`k * size + n` are those of `n` for every integer `k` (`Bytes2OfWord`, `Bytes4OfWords`,
`Bytes8OfHalves`), and `Signed` adds 0 or -1 times the size (`SignedShape`).  That a text
has a first NUL is the well-foundedness of `<` on the numbers, used through
sets (`Least`).

### LineProtocolProofs

`EscapedNameIsReadBack` and `LineIsReadBack`, for names of any length over any set of
symbols that has the four special ones.  Each `ReplaceAll` puts a backslash before one
more symbol and leaves the others alone (`EscapedMarked`), provided that the backslash
itself is the first: the order of the replacements is a hypothesis of that lemma.
Hence `escapeTag` marks each symbol of a name on its own (`EscapeTagAppend`), a marked
symbol is read as the symbol (`ReadsMarked`), and only the separators between the
names end a field (`ReadsDelimiter`).  The database is external and a number is one symbol; of it the
hypothesis `NumbersArePlain` says that it is none of the four.

Induction over the length of a text is not available as a rule; `Induction` and
`InductionUpTo` are proved from the well-foundedness of `<` on the numbers, for sets
of numbers, and used in this module and the next one.

### ModbusLineProofs

For bytes of any width from three bits, any polynomial that has the highest place
of the CRC (without it the CRC of the code has fewer bits than its word), and
messages of any length.

*The CRC.*  The code's register and the long division of the instruments are both
functions of the bits taken in so far.  The shift register holds the remainder of
the division, mirrored, but for the bits of the byte that it was given in advance;
`ByteStep` shows that these meet again at the end of each byte.  Hence `CRCIsRemainder`.
It follows that an undamaged message ends with the register empty (`SentIntact`), and
that a frame is taken for undamaged only then (`IntactRest`).

*Errors.*  The register of the difference of two streams of bits is the
difference of their registers.  A register that is not empty and is given no further
bit never becomes empty, since a shift with the highest place can be undone; and a
burst no longer than the register leaves something in it when it ends
(`BurstSeen`).  Hence `BurstIsNoticed`.  Two messages in one frame are a
case of it: after the first the register is empty, and the second is taken in as it
stands, where the bits of its first word would be inverted if it were alone: two
streams that differ in a burst as long as the register (`GluedIsNoticed`).  Nothing
else is asked of the polynomial.

*The line.*  `IInv` has three parts: the master waits for an answer to one of its
polls (`PolledOK`); what is on the wire are at most two messages that a master or an
instrument sends (`WireOK`); what was heard is what `logFrame` makes of one
such message, or of a frame that is not intact (`HeardOK`).  The last is what the two
theorems above are needed for, and is stronger than the properties, which follow by
looking at each kind of message:

* `TypeCorrect`, and `IntactFramesOnly`: no hypotheses beyond the named assumptions on
  the constants, which say that what is sent fits in the bytes it is sent in;
* `SinglesOnlyAnswers`: no answer has an even number of bytes of coils (`OddBitBytes`);
* `KnownRegisters`: that, one section per slave (`UniqueSections`), blocks that begin
  with register 0 (`PollsFromZero`; `acquisition_blocks` shows the other case), and
  registers whose type in the configuration is the one they have (`TypesFit`);
* `StoredTexts`: one section per slave and the hypotheses of `LineIsReadBack`; the
  measurement is not empty, which `storage.go:38` sees to.  Here the slave is the
  one the section names and nothing is asked of the polls: what is decoded is stored
  as decoded, right or wrong.

### What was checked before it was proved

Every inductive invariant above was given to TLC on the constants of the run of its
component, with the hypotheses of the theorem where it has any.  `IInv` of the
coordinator stays in its run.  That of `ModbusLineProofs` says of a damaged frame
that there is one, which no state keeps; TLC was given what the agent makes of it
instead.  `MC_ModbusLine` assumes the four hypotheses about its configuration, which TLC
evaluates.

### Model-checked only

All liveness under fairness (`ImplementsStoreOnce`, `ImplementsPollOnce` beyond their
safety parts, `EventuallyStored`, `EveryFrameEnds`, `CollectionEndsRun`,
`ShutdownCompletes`, `TimedTestEnds`), which the prover does not reach.  Every safety
property of the passing runs is stated by a theorem.

## 5. Not modelled

The text of logs and of the report; YAML loading; TLS, HTTP and Modbus libraries;
timestamps; what a database does with a write of a poller, and with it the channels
of `Errors()`; gains, the converters of the DustIQ and floating-point values;
write requests on the line (the single ones have the form of a poll; one of
several registers is taken for an answer if the high byte of its address happens
to be its length less five); messages that are split, and glued ones that are damaged too; line breaks
in names, which `escapeTag` does not escape; that the points of two registers of
one name replace each other in the database; the cut of register addresses and
slave ids to 16 and 8 bits; the test modes of the pollers, constants that are
`false`; the slave scanner `test/main.go`, a loop that keeps no state between two
requests.  The start-up exits for malformed configurations are in `Start` only as
far as they depend on the modelled state.

A database is assumed to take a backslash for a sign that the next symbol is
literal; names are made of the four special characters, a small and a capital
letter.

## 6. Where the code does not do what it says

* `dustiq_reconnect`: `listener.go:30` creates the handler before the
  reconnection loop, so a half-filled cycle is completed with frames read after
  a reconnection, and decoded by position under wrong names (`dustiq.go:149`
  refuses only cycles that are too short).  A repeated poll does the same.
* `dustiq_reads_800`: `dustiq.go:75` takes every value 800 for the start of a
  cycle; a soiling ratio of 80.0 % reads 800, and while it does nothing is stored.
* `agent_listed_dustiq`: `store_coordinator.go:9` counts slaves that "have
  produced valid frames", but `listener.go:167` reports only those whose
  registers are mapped; a DustIQ listed as in `configs/config-np5232i_9147.yml`
  beside another port blocks the store of both.
* `acquisition_blocks`: `registers.go:16` promises the "values for a slave's known
  registers", but line 46 takes a register's number for its place in the data of
  any answer: a block that does not begin with register 0 is decoded under the
  names of the first registers.
* `poller_no_slaves`: `ion7400/cmd/main.go:212` says "Close TCP for this device
  before moving to the next", but the Close is in the loop over the slaves, so a
  device without slaves stays connected until the process ends.

Seen on the way, without a run: `ion7400/internal/modbus.go:129` says that a
little-endian float is read DCBA, but `U32LE` swaps words only, so it would be read
CDAB (no program calls `F32LE`); text registers are printed but written as the number 0
(`ion7400/cmd/main.go:149`); `logger3000/config/config.yml` gives two registers of a
slave the name `total_power_yields` (lines 113 and 929), whose points have the same
tags, field and time, and asks for up to 1819 words in one request, more than a
Modbus answer holds; the configurations of moxa-nport set an idle gap of 50 ms for
lines on which 2 ms follow from the baud rate, which glues a poll to an answer that
comes sooner; neither `listener.go:136` nor `dustiq.go:64` looks at the function code,
so that an answer of two bytes of coils is decoded as a register (with such a poll
in `MCPolls`, `KnownRegistersDecoded` is violated).

## 7. Plan

In order of importance; all of it is done.

1. `StoreOnce`, `StoreCoordinator`: the store and its interleavings.
2. `StoreCoordinatorProofs`: type invariant, inductive invariant, refinement.
3. `DustIQHandler`, `DustIQBus`: cycles under loss, repetition, reconnection.
4. `Agent`: composition with `main`, signals, timer and collector.
5. `Framing`: the bytes of a connection cut into frames.
6. `Poller`, `ModbusDecode`: the active pollers and their value decoding.
7. `DustIQProofs`: cycles of one device.
8. `FrameParser`, `LineProtocol`, `ModbusLine`: from the registers of a slave to
   the fields in the database.
9. `PollOnce`: the refinement of the pollers.
10. `PollerProofs`: the books, the queues and the safety part of the refinement.
11. `AgentProofs`: the agent uses the coordinator by its specification.
12. `FramingProofs`: bytes, sizes and the timing of the deadline.
13. `DustIQProofs`, second part: what a fault of the line costs a cycle.
14. `ModbusDecodeProofs`: the two's complement and the end of a text.
15. `LineProtocolProofs`: the escaping and the cutting of a line.
16. `ModbusLineProofs`: the CRC, the kinds of messages and what is decoded of them.

What would come next are the parts of section 5 that hold control: write requests on
the line, and frames that are split.
