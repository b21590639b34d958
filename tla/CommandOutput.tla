---------------------------- MODULE CommandOutput ----------------------------
(***************************************************************************)
(* runCommandCombinedOutput (command_output.go): a child process writes to *)
(* two pipes, one reader per pipe keeps the newest bytes of both and       *)
(* offers every line to a delivery worker, and the worker hands the lines  *)
(* to a sink.  A worker can outlive its command, when the sink is slow;    *)
(* the commands that start meanwhile run without progress.                 *)
(*                                                                         *)
(* Commands run one after the other: they are run by the operation of one  *)
(* task.  A byte of output is named by its stream and its position.        *)
(***************************************************************************)
EXTENDS Naturals, Sequences, FiniteSets

CONSTANTS
    MaxCommands,   \* commands started (bound)
    MaxBytes,      \* bytes a child writes to one stream (bound)
    PipeSize,      \* what the kernel buffers of a pipe
    EventCap,      \* capacity of the events channel (16 in the code)
    Limit,         \* commandOutputLimit
    Marker,        \* length of commandOutputTruncated
    ReadFaults     \* whether reading a pipe may fail

ASSUME OutputConstantsOK ==
    /\ {MaxCommands, MaxBytes, PipeSize, EventCap, Limit, Marker} \subseteq Nat
    /\ PipeSize > 0 /\ EventCap > 0 /\ Limit > Marker
    /\ ReadFaults \in BOOLEAN

VARIABLES
    commands,      \* how many commands were started
    runner,        \* the caller: outside, draining the pipes, or delivering
    written,       \* bytes the child has written to each stream
    unwritten,     \* bytes it has yet to write
    pipe,          \* bytes written and not read
    reader,        \* what the reader of each stream is doing
    out,           \* boundedCommandOutput
    feeding,       \* the command has an events channel
    events,        \* lines in that channel, or in the one of the worker still alive
    eventsClosed,
    worker,        \* the delivery worker: none, waiting for a line, in the sink
    sink           \* who the worker's sink belongs to

outputVars == <<commands, runner, written, unwritten, pipe, reader, out,
                feeding, events, eventsClosed, worker, sink>>
childVars == <<written, unwritten>>
deliveryVars == <<feeding, events, eventsClosed, worker, sink>>

Streams == {"stdout", "stderr"}

NoBytes == [s \in Streams |-> 0]
NoOutput == [data |-> <<>>, truncated |-> FALSE]

\* The child exits after its last byte.
Exited == \A s \in Streams : unwritten[s] = 0

\* What remains for output once room for the marker is set aside.
Kept == Limit - Marker

\* Mutant: output that does not fit is noticed one byte late.
WriteLate(o, fragment) ==
    LET all  == o.data \o fragment
        from == IF Len(all) > Kept THEN Len(all) - Kept + 1 ELSE 1
    IN  [data |-> SubSeq(all, from, Len(all)),
         truncated |-> o.truncated \/ Len(all) > Kept + 1]

\* boundedCommandOutput.write
Write(o, fragment) ==
    LET all  == o.data \o fragment
        from == IF Len(all) > Kept THEN Len(all) - Kept + 1 ELSE 1
    IN  [data |-> SubSeq(all, from, Len(all)),
         truncated |-> o.truncated \/ Len(fragment) >= Kept \/ Len(all) > Kept]

OutputInit ==
    /\ commands = 0
    /\ runner = "outside"
    /\ written = NoBytes /\ unwritten = NoBytes
    /\ pipe = [s \in Streams |-> <<>>]
    /\ reader = [s \in Streams |-> "ended"]
    /\ out = NoOutput
    /\ feeding = FALSE
    /\ events = 0
    /\ eventsClosed = TRUE
    /\ worker = "none"
    /\ sink = 0

\* The child is started, the sink current now is captured, and a worker is
\* started for it unless one is still busy with an earlier command.
StartCommand(owner) ==
    /\ runner = "outside"
    /\ commands < MaxCommands
    /\ commands' = commands + 1
    /\ runner' = "draining"
    /\ written' = NoBytes
    /\ unwritten' \in [Streams -> 0 .. MaxBytes]
    /\ pipe' = [s \in Streams |-> <<>>]
    /\ reader' = [s \in Streams |-> "reading"]
    /\ out' = NoOutput
    /\ feeding' = (worker = "none")
    /\ IF worker = "none"
       THEN /\ events' = 0
            /\ eventsClosed' = FALSE
            /\ worker' = "waiting"
            /\ sink' = owner
       ELSE UNCHANGED <<events, eventsClosed, worker, sink>>

\* The child blocks while its pipe is full.
ChildWrites(s) ==
    /\ unwritten[s] > 0
    /\ Len(pipe[s]) < PipeSize
    /\ pipe' = [pipe EXCEPT ![s] = Append(@, <<s, written[s] + 1>>)]
    /\ written' = [written EXCEPT ![s] = @ + 1]
    /\ unwritten' = [unwritten EXCEPT ![s] = @ - 1]
    /\ UNCHANGED <<commands, runner, reader, out, deliveryVars>>

\* ReadSlice returns a fragment: a line, a full buffer or what came before
\* the end.  It is retained under outMu.
ReadFragment(s) ==
    /\ reader[s] = "reading"
    /\ \E k \in 1 .. Len(pipe[s]) :
          /\ out' = Write(out, SubSeq(pipe[s], 1, k))
          /\ pipe' = [pipe EXCEPT ![s] = SubSeq(@, k + 1, Len(@))]
    /\ reader' = [reader EXCEPT ![s] = "emitting"]
    /\ UNCHANGED <<commands, runner, childVars, deliveryVars>>

\* emit, after outMu is released: blank lines, and lines that find the
\* channel full, are dropped.
EmitLine(s) ==
    /\ reader[s] = "emitting"
    /\ reader' = [reader EXCEPT ![s] = "reading"]
    /\ \/ feeding /\ events < EventCap /\ events' = events + 1
       \/ UNCHANGED events
    /\ UNCHANGED <<commands, runner, childVars, pipe, out, feeding,
                   eventsClosed, worker, sink>>

ReadEnd(s) ==
    /\ reader[s] = "reading"
    /\ Exited /\ pipe[s] = <<>>
    /\ reader' = [reader EXCEPT ![s] = "ended"]
    /\ UNCHANGED <<commands, runner, childVars, pipe, out, deliveryVars>>

\* The reader returns and its pipe stays open until cmd.Wait.
ReadFails(s) ==
    /\ ReadFaults
    /\ reader[s] = "reading"
    /\ reader' = [reader EXCEPT ![s] = "failed"]
    /\ UNCHANGED <<commands, runner, childVars, pipe, out, deliveryVars>>

\* Mutant: the first reader to return is enough.
DrainedOne == \E s \in Streams : reader[s] \in {"ended", "failed"}

\* wg.Wait
Drained == \A s \in Streams : reader[s] \in {"ended", "failed"}

\* Both readers, then the child, are waited for.
CloseEvents ==
    /\ runner = "draining"
    /\ Drained /\ Exited
    /\ runner' = "delivering"
    /\ eventsClosed' = (eventsClosed \/ feeding)
    /\ UNCHANGED <<commands, childVars, pipe, reader, out, feeding, events,
                   worker, sink>>

\* Mutant: the output is returned once the worker is done.
ReturnDelivered ==
    /\ runner = "delivering"
    /\ worker = "none" \/ ~feeding
    /\ runner' = "outside"
    /\ written' = NoBytes /\ unwritten' = NoBytes
    /\ pipe' = [s \in Streams |-> <<>>]
    /\ reader' = [s \in Streams |-> "ended"]
    /\ out' = NoOutput
    /\ feeding' = FALSE
    /\ UNCHANGED <<commands, events, eventsClosed, worker, sink>>

\* The worker is done, or 25 ms have passed: the output is
\* returned, and the command is no more.
ReturnOutput ==
    /\ runner = "delivering"
    /\ runner' = "outside"
    /\ written' = NoBytes /\ unwritten' = NoBytes
    /\ pipe' = [s \in Streams |-> <<>>]
    /\ reader' = [s \in Streams |-> "ended"]
    /\ out' = NoOutput
    /\ feeding' = FALSE
    /\ UNCHANGED <<commands, events, eventsClosed, worker, sink>>

WorkerTakesLine ==
    /\ worker = "waiting"
    /\ events > 0
    /\ worker' = "in sink"
    /\ events' = events - 1
    /\ UNCHANGED <<commands, runner, childVars, pipe, reader, out, feeding,
                   eventsClosed, sink>>

\* The sink returns.  It may take its time: nothing waits for it for long.
SinkReturns ==
    /\ worker = "in sink"
    /\ worker' = "waiting"
    /\ UNCHANGED <<commands, runner, childVars, pipe, reader, out, feeding,
                   events, eventsClosed, sink>>

\* The range over the closed channel ends; the delivery slot is given back.
WorkerEnds ==
    /\ worker = "waiting"
    /\ events = 0 /\ eventsClosed
    /\ worker' = "none"
    /\ UNCHANGED <<commands, runner, childVars, pipe, reader, out, feeding,
                   events, eventsClosed, sink>>
=============================================================================
