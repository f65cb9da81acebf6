--------------------------------- MODULE Agent ---------------------------------
(***************************************************************************)
(* The moxa-nport agent: main (main.go), one listener goroutine per NPort  *)
(* (listener.go), the collector of seen slaves (collector.go), the DustIQ  *)
(* handler as the listener sees it (dustiq.go, detailed in DustIQHandler), *)
(* and the store coordinator, whose module is instantiated here: a         *)
(* listener that calls Record takes the steps of StoreCoordinator.         *)
(*                                                                         *)
(* The serial lines, the NPorts and the operator are external: a read      *)
(* returns bytes, times out or fails, the bytes make up any frame of       *)
(* Traffic, and a signal may come at any time.                             *)
(***************************************************************************)
EXTENDS Naturals, FiniteSets, Sequences

CONSTANTS
  NPorts,    \* cfg.NPorts: index -> [name, detected, mapped, dustiq]
  Names, Slaves, Values, NoValue,   \* see StoreCoordinator
  Malformed, Nameless,              \* see StoreCoordinator
  Targets,   \* cfg.Storage: the local and then the remote targets
  Modes,     \* [sub, timed]: cfg.SubMode, "test" or "store", and whether
             \* cfg.TestDurationSeconds > 0; a run may be started in any of them
  Traffic    \* the frames each NPort may carry

VARIABLES
  \* the state of StoreCoordinator
  call, mu, last, tried, offered, db, done, ctxDone,
  mode,      \* the mode of this run
  main,      \* main goroutine: "start", "wait", "exited"; or "killed"
  timer,     \* the test timer's goroutine: "off" or "armed"
  notify,    \* are SIGINT and SIGTERM still caught (signal.NotifyContext)?
  pc,        \* where each listener is
  pending,   \* has streamFrames collected bytes of an unfinished frame?
  frame,     \* the frame being logged and handled
  posted,    \* how far the DustIQ handler's own Store has come in its loop over
             \* the destinations
  detected,  \* collector.ids, as (port, slave) pairs
  report,    \* the pairs written to the report file
  late       \* history: frames a listener logged after the cancellation

coordVars == <<call, mu, last, tried, offered, db, done>>
mainVars == <<mode, main, timer, notify, report>>
frameVars == <<pending, frame, posted, detected, late>>
vars == <<coordVars, ctxDone, mainVars, pc, frameVars>>

\* NewStorageManager skips the targets it cannot write to.
Usable(t) == t.influxdb2 /\ t.complete
NumDests == Cardinality({i \in DOMAIN Targets : Usable(Targets[i])})

SC == INSTANCE StoreCoordinator

Listeners == DOMAIN NPorts
Store == mode.sub = "store"

\* What a frame can be: a poll of the master, an answer, or the register of a
\* DustIQ that closes a complete cycle; valid is false for a bad CRC.
Kinds == {"poll", "answer", "closing"}
Frames == [slave : Slaves, value : Values, valid : BOOLEAN, kind : Kinds]
NoFrame == <<>>

ASSUME ModesAssumption == Modes \subseteq [sub : {"test", "store"}, timed : BOOLEAN]
ASSUME TargetsAssumption == Targets \in Seq([influxdb2 : BOOLEAN, complete : BOOLEAN])
ASSUME PortsAssumption ==
  NPorts \in Seq([name : Names, detected : SUBSET Slaves, mapped : SUBSET Slaves,
                  dustiq : BOOLEAN])
ASSUME TrafficAssumption == \A l \in Listeners : Traffic[l] \subseteq Frames
ASSUME NoValueAssumption == NoValue \notin Values

Init ==
  /\ SC!Init
  /\ mode \in Modes
  /\ main = "start"
  /\ timer = "off"
  /\ notify = TRUE
  /\ pc = [l \in Listeners |-> "top"]
  /\ pending = [l \in Listeners |-> FALSE]
  /\ frame = [l \in Listeners |-> NoFrame]
  /\ posted = [l \in Listeners |-> 0]
  /\ detected = {}
  /\ report = {}
  /\ late = [l \in Listeners |-> 0]

-----------------------------------------------------------------------------
(***************************************************************************)
(* main                                                                    *)
(***************************************************************************)
\* Store mode needs a destination and a slave to wait for; the timer runs
\* only in test mode.  The listeners are started.
Start ==
  /\ main = "start"
  /\ main' = IF Store /\ (NumDests = 0 \/ SC!Wanted = {}) THEN "exited" ELSE "wait"
  /\ timer' = IF ~ Store /\ mode.timed THEN "armed" ELSE "off"
  /\ UNCHANGED <<coordVars, ctxDone, mode, notify, report, pc, frameVars>>

\* Mutant: the listeners are waited for only until the context is cancelled.
FinishOnCancel ==
  /\ main = "wait"
  /\ ctxDone \/ \A l \in Listeners : pc[l] = "done"
  /\ \E ok \in BOOLEAN : report' = IF ok THEN detected ELSE report
  /\ main' = "exited"
  /\ UNCHANGED <<coordVars, ctxDone, mode, timer, notify, pc, frameVars>>

\* wg.Wait returns, and the report is written unless the file system refuses.
Finish ==
  /\ main = "wait"
  /\ \A l \in Listeners : pc[l] = "done"
  /\ \E ok \in BOOLEAN : report' = IF ok THEN detected ELSE report
  /\ main' = "exited"
  /\ UNCHANGED <<coordVars, ctxDone, mode, timer, notify, pc, frameVars>>

\* Mutant: stop() is forgotten.
TimerFiresInVain ==
  /\ main = "wait" /\ timer = "armed"
  /\ timer' = "off"
  /\ UNCHANGED <<coordVars, ctxDone, mode, main, notify, report, pc, frameVars>>

\* The test is over: stop() cancels the context, and with it the catching of
\* signals ends.
TimerFires ==
  /\ main = "wait" /\ timer = "armed"
  /\ timer' = "off"
  /\ ctxDone' = TRUE
  /\ notify' = FALSE
  /\ UNCHANGED <<coordVars, mode, main, report, pc, frameVars>>

TimerReturns ==
  /\ main = "wait" /\ timer = "armed" /\ ctxDone
  /\ timer' = "off"
  /\ UNCHANGED <<coordVars, ctxDone, mode, main, notify, report, pc, frameVars>>

\* SIGINT or SIGTERM: the context is cancelled, or, when the signals are not
\* caught any more, the process dies.
Interrupt ==
  /\ main = "wait"
  /\ IF notify
       THEN ctxDone' = TRUE /\ UNCHANGED main
       ELSE main' = "killed" /\ UNCHANGED ctxDone
  /\ UNCHANGED <<coordVars, mode, timer, notify, report, pc, frameVars>>

-----------------------------------------------------------------------------
(***************************************************************************)
(* A listener: runPassiveListeningTest, streamFrames and logFrame.         *)
(***************************************************************************)
Goto(l, p) == pc' = [pc EXCEPT ![l] = p]

At(l, p) == main = "wait" /\ pc[l] = p

\* Mutant: the context is looked at while waiting to redial only.
TopAlwaysDials(l) ==
  /\ At(l, "top")
  /\ Goto(l, "dial")
  /\ UNCHANGED <<coordVars, ctxDone, mainVars, frameVars>>

\* The reconnection loop: stop, or dial.
Top(l) ==
  /\ At(l, "top")
  /\ Goto(l, IF ctxDone THEN "done" ELSE "dial")
  /\ UNCHANGED <<coordVars, ctxDone, mainVars, frameVars>>

\* The dial does not look at the context; it ends by its timeout at the latest.
Dial(l) ==
  /\ At(l, "dial")
  /\ Goto(l, "check") \/ Goto(l, "pause")
  /\ UNCHANGED <<coordVars, ctxDone, mainVars, frameVars>>

\* The select between the reconnection delay and the context.
Pause(l) ==
  /\ At(l, "pause")
  /\ Goto(l, "top") \/ (ctxDone /\ Goto(l, "done"))
  /\ UNCHANGED <<coordVars, ctxDone, mainVars, frameVars>>

\* Mutant: the context is looked at between connections only.
CheckNothing(l) ==
  /\ At(l, "check")
  /\ Goto(l, "read")
  /\ UNCHANGED <<coordVars, ctxDone, mainVars, frameVars>>

\* The loop of streamFrames: an unfinished frame is dropped on cancellation.
Check(l) ==
  /\ At(l, "check")
  /\ IF ctxDone
       THEN Goto(l, "pause") /\ pending' = [pending EXCEPT ![l] = FALSE]
       ELSE Goto(l, "read") /\ UNCHANGED pending
  /\ UNCHANGED <<coordVars, ctxDone, mainVars, frame, posted, detected, late>>

\* The collected bytes are a frame: the idle gap has passed, or there are
\* MaxFrameBytes of them.
Emit(l) ==
  /\ \E f \in Traffic[l] : frame' = [frame EXCEPT ![l] = f]
  /\ pending' = [pending EXCEPT ![l] = FALSE]
  /\ Goto(l, "log")

ReadBytes(l) ==
  /\ At(l, "read")
  /\ \/ Emit(l)
     \/ /\ pending' = [pending EXCEPT ![l] = TRUE]
        /\ Goto(l, "check")
        /\ UNCHANGED frame
  /\ UNCHANGED <<coordVars, ctxDone, mainVars, posted, detected, late>>

ReadTimeout(l) ==
  /\ At(l, "read")
  /\ IF pending[l]
       THEN Emit(l)
       ELSE Goto(l, "check") /\ UNCHANGED <<pending, frame>>
  /\ UNCHANGED <<coordVars, ctxDone, mainVars, posted, detected, late>>

\* The connection is lost, and the unfinished frame with it.
ReadError(l) ==
  /\ At(l, "read")
  /\ pending' = [pending EXCEPT ![l] = FALSE]
  /\ Goto(l, "pause")
  /\ UNCHANGED <<coordVars, ctxDone, mainVars, frame, posted, detected, late>>

\* The frame has registers the configuration names for its slave.
Decodes(l, f) == f.valid /\ f.kind # "poll" /\ f.slave \in NPorts[l].mapped

\* Mutant: only answers that do not decode are shown to the collector.
SeenUndecoded(l, f) ==
  IF f.valid /\ ~ Decodes(l, f) THEN {<<NPorts[l].name, f.slave>>} ELSE {}

\* What the collector learns from a frame.
Seen(l, f) == IF f.valid THEN {<<NPorts[l].name, f.slave>>} ELSE {}

\* The collector sees every frame with a valid CRC; a decoded one goes to the
\* coordinator, which exists in store mode only.
LogFrame(l) ==
  LET f == frame[l] IN
  /\ At(l, "log")
  /\ detected' = detected \cup Seen(l, f)
  /\ late' = IF ctxDone THEN [late EXCEPT ![l] = @ + 1] ELSE late
  /\ IF Store /\ Decodes(l, f)
       THEN SC!CallRecord(l, f.slave, f.value) /\ Goto(l, "record")
       ELSE UNCHANGED <<coordVars, ctxDone>> /\ Goto(l, "handle")
  /\ UNCHANGED <<mainVars, pending, frame, posted>>

\* Inside Record the listener takes the coordinator's steps.
Record(l) ==
  /\ At(l, "record")
  /\ SC!Proceed(l)
  /\ Goto(l, IF call'[l] = SC!NoCall THEN "handle" ELSE "record")
  /\ UNCHANGED <<mainVars, frameVars>>

\* A DustIQ handler that closes a cycle in store mode posts it; any other
\* frame leaves the listener in its loop.
Handle(l) ==
  /\ At(l, "handle")
  /\ Goto(l, IF Store /\ NPorts[l].dustiq /\ frame[l].valid /\ frame[l].kind = "closing"
               THEN "post" ELSE "check")
  /\ frame' = [frame EXCEPT ![l] = NoFrame]
  /\ UNCHANGED <<coordVars, ctxDone, mainVars, pending, posted, detected, late>>

\* One turn of the loop of the handler's own Store call, then
\* errHandlerComplete.
Post(l) ==
  /\ At(l, "post")
  /\ IF posted[l] < NumDests
       THEN posted' = [posted EXCEPT ![l] = @ + 1] /\ UNCHANGED pc
       ELSE Goto(l, "done") /\ UNCHANGED posted
  /\ UNCHANGED <<coordVars, ctxDone, mainVars, pending, frame, detected, late>>

Listen(l) ==
  \/ Top(l) \/ Dial(l) \/ Pause(l) \/ Check(l)
  \/ ReadBytes(l) \/ ReadTimeout(l) \/ ReadError(l)
  \/ LogFrame(l) \/ Record(l) \/ Handle(l) \/ Post(l)

\* The process is gone.
Over == main \in {"exited", "killed"} /\ UNCHANGED vars

Next ==
  \/ Start \/ Finish \/ TimerFires \/ TimerReturns \/ Interrupt
  \/ \E l \in Listeners : Listen(l)
  \/ Over

\* Go schedules every goroutine that can run; dials, reads and posts have
\* timeouts, and time passes.  Frames, signals and outages are not promised.
Spec ==
  /\ Init
  /\ [][Next]_vars
  /\ WF_vars(Start) /\ WF_vars(Finish) /\ WF_vars(TimerFires)
  /\ \A l \in Listeners : WF_vars(Listen(l))

-----------------------------------------------------------------------------
(***************************************************************************)
(* Properties                                                              *)
(***************************************************************************)
PCs == {"top", "dial", "pause", "check", "read", "log", "record", "handle", "post", "done"}

OwnTypes ==
  /\ mode \in Modes
  /\ main \in {"start", "wait", "exited", "killed"}
  /\ timer \in {"off", "armed"}
  /\ notify \in BOOLEAN
  /\ pc \in [Listeners -> PCs]
  /\ pending \in [Listeners -> BOOLEAN]
  /\ frame \in [Listeners -> Frames \cup {NoFrame}]
  /\ posted \in [Listeners -> 0 .. NumDests]
  /\ detected \subseteq Names \X Slaves
  /\ report \subseteq detected
  /\ late \in [Listeners -> Nat]

TypeOK == SC!TypeOK /\ OwnTypes

Ended == main \in {"exited", "killed"}

\* However the process ends (the store, a signal before, during or after the
\* flush, the timer), no store is cut short: the loops of flush and of the
\* DustIQ handlers have passed all destinations, and each was given all that can
\* be posted to it, or none was given anything.
NoStoreCutShort ==
  Ended =>
    /\ \/ \A d \in SC!Dests : offered[d] = {}
       \/ \A d \in SC!Dests : offered[d] = SC!Due(d)
    /\ \A l \in Listeners : posted[l] \in {0, NumDests}

\* A slave whose values were posted is one the collector has seen, so a report
\* file that was written names it.
StoredWereDetected ==
  \A d \in SC!Dests : \A p \in offered[d] :
    /\ p[1] \in detected
    /\ report # {} => p[1] \in report

\* After the cancellation a listener handles at most the frame it was
\* collecting.
OneLateFrame == \A l \in Listeners : late[l] <= 1

\* The whole agent, goroutines, signals and timer included, implements the
\* atomic single store.
AgentStoresOnce == SC!Abs!SafeSpec

\* Once the context is cancelled the process ends, whoever holds the lock,
\* dials, reads or posts.
ShutdownCompletes == ctxDone ~> Ended

\* The last expected value does not only get stored: it ends the run, also
\* for the listeners whose lines never fall silent.
CollectionEndsRun == SC!AllSeen(last) ~> Ended

\* A timed test ends, with no signal and whatever the lines do.
TimedTestEnds == (mode.sub = "test" /\ mode.timed) ~> Ended

\* store_coordinator.go:9: when all expected slaves have produced valid
\* frames, a store is triggered.
SeenSlavesAreStored == SC!Wanted \subseteq detected ~> done \/ Ended
===============================================================================
