-------------------------------- MODULE Poller --------------------------------
(***************************************************************************)
(* One run of an active poller: ping both databases, then for every device *)
(* connect, read every register of every slave, queue the values for the   *)
(* databases that answered the ping, and flush.  ion7400 and trackers are  *)
(* the same program; logger3000 prints otherwise and knows fewer data      *)
(* types (cmd/main.go of each).                                            *)
(*                                                                         *)
(* External: the Modbus client (a read may fail in any way, and reopens a  *)
(* closed connection by itself) and the asynchronous writer of the         *)
(* InfluxDB client, which hands over what is queued at any time and at the *)
(* latest when told to flush.  What becomes of a batch then is outside the *)
(* model: a failed write is retried by the client or ends in its Errors    *)
(* channel, which a goroutine of main only prints.                         *)
(***************************************************************************)
EXTENDS Naturals, Sequences

CONSTANTS
  Devices,   \* devices -> slaves -> registers: [fc, named, type], that is the
             \* function code, whether it has a name, and the data type
  Programs   \* the pollers this configuration is given to

LittleTypes ==
  {"UTF-8", "STRING", "U8", "U16", "S16", "U32", "S32", "U32LE", "S32LE"}

\* The data types each program's switch knows.
KnownTypes ==
  LET allTypes == LittleTypes \cup {"F32BE", "U64BE", "S64BE"}
  IN  [ion7400 |-> allTypes, trackers |-> allTypes, logger3000 |-> LittleTypes]

ASSUME DevicesAssumption ==
  Devices \in Seq(Seq(Seq([fc : Nat, named : BOOLEAN, type : STRING])))

ASSUME ProgramsAssumption == Programs \subseteq DOMAIN KnownTypes

VARIABLES
  program,           \* the program that runs
  pc,                \* "ping", "connect", "poll", "ended", or "fatal" (log.Fatalf)
  dev, slave, reg,   \* the loops' positions
  open,              \* devices whose TCP connection is open
  available,         \* localAvailable, remoteAvailable
  queue,             \* points handed to WritePoint, not sent yet
  sent,              \* points the client took from the queue to send; whether a
                     \* database accepted them the program does not know
  asked,             \* history: registers a read was tried for
  read               \* history: registers read and decoded

vars == <<program, pc, dev, slave, reg, open, available, queue, sent, asked, read>>
positions == <<dev, slave, reg>>
books == <<queue, sent, asked, read>>

Databases == {"local", "remote"}

Points ==
  UNION {UNION {{<<d, s, r>> : r \in DOMAIN Devices[d][s]} : s \in DOMAIN Devices[d]} :
           d \in DOMAIN Devices}

Register(p) == Devices[p[1]][p[2]][p[3]]

Init ==
  /\ program \in Programs
  /\ pc = "ping"
  /\ dev = 1 /\ slave = 1 /\ reg = 1
  /\ open = {}
  /\ available = [b \in Databases |-> FALSE]
  /\ queue = [b \in Databases |-> {}]
  /\ sent = [b \in Databases |-> {}]
  /\ asked = {}
  /\ read = {}

-----------------------------------------------------------------------------
\* Whether a database is written to is decided here once for the whole run.
Ping ==
  /\ pc = "ping"
  /\ available' \in [Databases -> BOOLEAN]
  /\ pc' = "connect"
  /\ UNCHANGED <<program, positions, open, books>>

Connect ==
  /\ pc = "connect" /\ dev <= Len(Devices)
  /\ open' = open \cup {dev}
  /\ pc' = "poll"
  /\ UNCHANGED <<program, positions, available, books>>

\* log.Fatalf: the process exits at once, deferred Closes do not run.
ConnectFails ==
  /\ pc = "connect" /\ dev <= Len(Devices)
  /\ pc' = "fatal"
  /\ UNCHANGED <<program, positions, open, available, books>>

HasSlave == slave <= Len(Devices[dev])
HasRegister == HasSlave /\ reg <= Len(Devices[dev][slave])
Here == <<dev, slave, reg>>

\* Unknown function codes are skipped without a request.
SkipRegister ==
  /\ pc = "poll" /\ HasRegister
  /\ Register(Here).fc \notin {3, 4}
  /\ reg' = reg + 1
  /\ UNCHANGED <<program, pc, dev, slave, open, available, books>>

\* Mutant: the first error ends the slave.
ReadFailsForSlave ==
  /\ pc = "poll" /\ HasRegister
  /\ Register(Here).fc \in {3, 4}
  /\ asked' = asked \cup {Here}
  /\ open' \in {open, open \cup {dev}}
  /\ reg' = Len(Devices[dev][slave]) + 1
  /\ UNCHANGED <<program, pc, dev, slave, available, queue, sent, read>>

\* An error or an answer of the wrong length costs this register only; the
\* client may have reopened the connection.
ReadFails ==
  /\ pc = "poll" /\ HasRegister
  /\ Register(Here).fc \in {3, 4}
  /\ asked' = asked \cup {Here}
  /\ open' \in {open, open \cup {dev}}
  /\ reg' = reg + 1
  /\ UNCHANGED <<program, pc, dev, slave, available, queue, sent, read>>

\* Mutant: nothing is written while the local database is away.
WrittenLocalFirst(b) ==
  IF available["local"] /\ available[b] THEN queue[b] \cup {Here} ELSE queue[b]

\* WritePoint for an available database.
Written(b) == IF available[b] THEN queue[b] \cup {Here} ELSE queue[b]

\* An answer is written if the register has a name and a known data type.
ReadAnswers ==
  /\ pc = "poll" /\ HasRegister
  /\ Register(Here).fc \in {3, 4}
  /\ asked' = asked \cup {Here}
  /\ open' = open \cup {dev}
  /\ IF Register(Here).named /\ Register(Here).type \in KnownTypes[program]
       THEN /\ queue' = [b \in Databases |-> Written(b)]
            /\ read' = read \cup {Here}
       ELSE UNCHANGED <<queue, read>>
  /\ reg' = reg + 1
  /\ UNCHANGED <<program, pc, dev, slave, available, sent>>

\* Mutants: the next slave starts where this one ended; the connection is
\* kept for the next slave.
EndSlaveKeepingReg ==
  /\ pc = "poll" /\ HasSlave /\ ~ HasRegister
  /\ open' = open \ {dev}
  /\ slave' = slave + 1
  /\ UNCHANGED <<program, pc, dev, reg, available, books>>

EndSlaveOpen ==
  /\ pc = "poll" /\ HasSlave /\ ~ HasRegister
  /\ slave' = slave + 1
  /\ reg' = 1
  /\ UNCHANGED <<program, pc, dev, open, available, books>>

\* handler.Close is inside the loop over the slaves.
EndSlave ==
  /\ pc = "poll" /\ HasSlave /\ ~ HasRegister
  /\ open' = open \ {dev}
  /\ slave' = slave + 1
  /\ reg' = 1
  /\ UNCHANGED <<program, pc, dev, available, books>>

\* Mutant: the flush is left to the end of the run.
EndDeviceUnflushed ==
  /\ pc = "poll" /\ ~ HasSlave
  /\ dev' = dev + 1
  /\ slave' = 1
  /\ pc' = "connect"
  /\ UNCHANGED <<program, reg, open, available, books>>

\* Mutant: the local database is flushed twice, the remote one not at all.
EndDeviceLocalOnly ==
  /\ pc = "poll" /\ ~ HasSlave
  /\ sent' = IF available["local"]
               THEN [sent EXCEPT !["local"] = @ \cup queue["local"]] ELSE sent
  /\ queue' = IF available["local"] THEN [queue EXCEPT !["local"] = {}] ELSE queue
  /\ dev' = dev + 1
  /\ slave' = 1
  /\ pc' = "connect"
  /\ UNCHANGED <<program, reg, open, available, asked, read>>

\* Both writers are flushed before the next device is tried: nothing stays in
\* their queues.  Whether the write succeeds does not change the control.
EndDevice ==
  /\ pc = "poll" /\ ~ HasSlave
  /\ sent' = [b \in Databases |-> IF available[b] THEN sent[b] \cup queue[b] ELSE sent[b]]
  /\ queue' = [b \in Databases |-> IF available[b] THEN {} ELSE queue[b]]
  /\ dev' = dev + 1
  /\ slave' = 1
  /\ pc' = "connect"
  /\ UNCHANGED <<program, reg, open, available, asked, read>>

\* main returns; the deferred Closes send what is left.
End ==
  /\ pc = "connect" /\ dev > Len(Devices)
  /\ sent' = [b \in Databases |-> sent[b] \cup queue[b]]
  /\ queue' = [b \in Databases |-> {}]
  /\ pc' = "ended"
  /\ UNCHANGED <<program, positions, open, available, asked, read>>

\* The writer's own batches.
Deliver(b) ==
  /\ pc \in {"connect", "poll"}
  /\ queue[b] # {}
  /\ sent' = [sent EXCEPT ![b] = @ \cup queue[b]]
  /\ queue' = [queue EXCEPT ![b] = {}]
  /\ UNCHANGED <<program, pc, positions, open, available, asked, read>>

Over == pc \in {"ended", "fatal"} /\ UNCHANGED vars

Step ==
  \/ Ping \/ Connect \/ ConnectFails
  \/ SkipRegister \/ ReadFails \/ ReadAnswers
  \/ EndSlave \/ EndDevice \/ End

Next == Step \/ (\E b \in Databases : Deliver(b)) \/ Over

\* One sequential program: a step it can take it takes, since every dial and
\* read ends by the handler's timeout (main.go:111) and every ping and flush
\* by those of the InfluxDB client.
Spec == Init /\ [][Next]_vars /\ WF_vars(Step)

-----------------------------------------------------------------------------
(***************************************************************************)
(* Properties                                                              *)
(***************************************************************************)
TypeOK ==
  /\ program \in Programs
  /\ pc \in {"ping", "connect", "poll", "ended", "fatal"}
  /\ dev \in 1 .. Len(Devices) + 1
  /\ dev <= Len(Devices) => slave \in 1 .. Len(Devices[dev]) + 1
  /\ pc = "poll" /\ HasSlave => reg \in 1 .. Len(Devices[dev][slave]) + 1
  /\ open \subseteq DOMAIN Devices
  /\ available \in [Databases -> BOOLEAN]
  /\ queue \in [Databases -> SUBSET Points]
  /\ sent \in [Databases -> SUBSET Points]
  /\ asked \subseteq Points
  /\ read \subseteq asked

\* However the run stops, at its end or at a device that cannot be reached,
\* every value read so far has been handed over to be sent to every available
\* database: none is lost in a queue of the program.
NothingLeftInQueue ==
  pc \in {"ended", "fatal"} =>
    \A b \in Databases : available[b] => sent[b] = read

\* An unavailable database does not cost the other one a single value, and is
\* itself given none; what was sent is not queued again.
BooksAgree ==
  \A b \in Databases :
    /\ sent[b] \cap queue[b] = {}
    /\ sent[b] \cup queue[b] = IF available[b] THEN read ELSE {}

\* Registers and slaves that fail cost only themselves: a run has asked for
\* every register of every device it got through.  (A device that cannot be
\* reached ends the run, and with it those after it.)
FailuresStayLocal ==
  pc \in {"connect", "ended", "fatal"} =>
    asked = {p \in Points : p[1] < dev /\ Register(p).fc \in {3, 4}}

\* main.go:212: the connection of a device is closed before the next one's is
\* opened.
ClosedBeforeNext == open \subseteq {dev} /\ (pc = "connect" => open = {})

\* main implements one atomic delivery per device: each device's readings
\* are handed over for the available databases all together, before the next
\* device is polled, and the same ones for both; a run ends, at its end or at
\* a device that cannot be reached.
PointsOf(d) == {p \in Points : p[1] = d}

AtomicDelivery == INSTANCE PollOnce WITH
  Batches <- [d \in DOMAIN Devices |-> PointsOf(d)],
  phase <- CASE pc = "ping" -> "ready"
             [] pc = "ended" -> "ended"
             [] pc = "fatal" -> "gave up"
             [] OTHER -> "polling",
  writable <- {b \in Databases : available[b]},
  polled <- dev - 1,
  delivered <- [b \in Databases |-> {p \in sent[b] : p[1] < dev}]

ImplementsPollOnce == AtomicDelivery!Spec
===============================================================================
