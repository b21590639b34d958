------------------------------ MODULE TuiProofs ------------------------------
(***************************************************************************)
(* Proofs about the terminal interface and the commands of its tasks, for  *)
(* any number of tasks, commands, bytes and names: the readers of a        *)
(* command are done before its channel is closed and its output returned,  *)
(* what is retained of that output is the newest of each stream, in order, *)
(* the program is not left during a task, and what the interface claims    *)
(* and shows after one is what the disk holds.                             *)
(***************************************************************************)
EXTENDS TuiProperties, FiniteSetTheorems, TLAPS

ReaderStates == {"reading", "emitting", "ended", "failed"}
RunnerStates == {"outside", "draining", "delivering"}

\* The pipes, their readers and the runner of a command.
PipeTypes ==
    /\ reader \in [Streams -> ReaderStates]
    /\ unwritten \in [Streams -> Nat]
    /\ DOMAIN pipe = Streams
    /\ runner \in RunnerStates
    /\ feeding \in BOOLEAN /\ eventsClosed \in BOOLEAN

\* A reader that came to the end left nothing behind, and the child nothing
\* to come.
EndedEmpty ==
    \A s \in Streams : reader[s] = "ended" => pipe[s] = <<>> /\ unwritten[s] = 0

\* The runner goes on only without its readers, and closes the channel only
\* when it goes on.
RunnerWaits ==
    /\ runner # "draining" => Drained
    /\ runner = "draining" /\ feeding => ~eventsClosed

OutputInv == PipeTypes /\ EndedEmpty /\ RunnerWaits

-----------------------------------------------------------------------------
LEMMA OutputInitInv == TuiInit => OutputInv
<1> SUFFICES ASSUME OutputInit PROVE OutputInv
  BY DEF TuiInit
<1> QED  BY DEF OutputInit, OutputInv, PipeTypes, EndedEmpty, RunnerWaits, Drained,
            ReaderStates, RunnerStates, NoBytes

\* No other step touches a command.
LEMMA OutputFrame == OutputInv /\ UNCHANGED <<runner, unwritten, pipe, reader, feeding, eventsClosed>> => OutputInv'
BY DEF OutputInv, PipeTypes, EndedEmpty, RunnerWaits, Drained

LEMMA StartCommandInv ==
    ASSUME OutputInv, NEW owner, StartCommand(owner)
    PROVE  OutputInv'
<1>1. reader' = [s \in Streams |-> "reading"] /\ pipe' = [s \in Streams |-> <<>>]
      /\ runner' = "draining"
  BY DEF StartCommand
<1>2. unwritten' \in [Streams -> Nat]
  <2>1. unwritten' \in [Streams -> 0 .. MaxBytes]
    BY DEF StartCommand
  <2>2. MaxBytes \in Nat
    BY OutputConstantsOK
  <2>3. 0 .. MaxBytes \subseteq Nat
    BY <2>2
  <2> QED  BY <2>1, <2>3
<1>3. /\ feeding' \in BOOLEAN /\ eventsClosed' \in BOOLEAN
      /\ feeding' => ~eventsClosed'
  BY DEF StartCommand, OutputInv, PipeTypes
<1>4. PipeTypes'
  BY <1>1, <1>2, <1>3 DEF PipeTypes, ReaderStates, RunnerStates
<1>5. EndedEmpty' /\ RunnerWaits'
  BY <1>1, <1>3 DEF EndedEmpty, RunnerWaits
<1> QED  BY <1>4, <1>5 DEF OutputInv

\* The child writes to a stream only while bytes are to come, so that no reader
\* of that stream has ended.
LEMMA ChildInv ==
    ASSUME OutputInv, NEW s \in Streams, ChildWrites(s)
    PROVE  OutputInv'
<1>1. /\ unwritten[s] \in Nat /\ unwritten[s] > 0
      /\ unwritten' = [unwritten EXCEPT ![s] = @ - 1]
      /\ pipe' = [pipe EXCEPT ![s] = Append(@, <<s, written[s] + 1>>)]
      /\ UNCHANGED <<runner, reader, feeding, eventsClosed>>
  BY DEF ChildWrites, deliveryVars, OutputInv, PipeTypes
<1>2. PipeTypes'
  BY <1>1 DEF OutputInv, PipeTypes
<1>3. EndedEmpty'
  <2> SUFFICES ASSUME NEW r \in Streams, reader'[r] = "ended"
               PROVE  pipe'[r] = <<>> /\ unwritten'[r] = 0
    BY DEF EndedEmpty
  <2>1. pipe[r] = <<>> /\ unwritten[r] = 0
    BY <1>1 DEF OutputInv, EndedEmpty
  <2>2. r # s
    BY <1>1, <2>1
  <2> QED  BY <1>1, <2>1, <2>2 DEF OutputInv, PipeTypes
<1>4. RunnerWaits'
  BY <1>1 DEF OutputInv, RunnerWaits, Drained
<1> QED  BY <1>2, <1>3, <1>4 DEF OutputInv

LEMMA ReaderInv ==
    ASSUME OutputInv, NEW s \in Streams,
           ReadFragment(s) \/ EmitLine(s) \/ ReadEnd(s) \/ ReadFails(s)
    PROVE  OutputInv'
<1>1. PICK next \in ReaderStates :
          /\ reader' = [reader EXCEPT ![s] = next]
          /\ next = "ended" => Exited /\ pipe[s] = <<>>
          /\ reader[s] \in {"reading", "emitting"}
  BY DEF ReadFragment, EmitLine, ReadEnd, ReadFails, ReaderStates
<1>2. /\ UNCHANGED <<runner, unwritten, feeding, eventsClosed>>
      /\ DOMAIN pipe' = Streams
      /\ \A r \in Streams \ {s} : pipe'[r] = pipe[r]
      /\ pipe[s] = <<>> => pipe' = pipe \/ ReadFragment(s)
  BY DEF ReadFragment, EmitLine, ReadEnd, ReadFails, childVars, deliveryVars,
         OutputInv, PipeTypes
<1>3. ReadFragment(s) => reader'[s] = "emitting"
  BY DEF ReadFragment, OutputInv, PipeTypes
<1>4. PipeTypes'
  BY <1>1, <1>2 DEF OutputInv, PipeTypes
<1>5. EndedEmpty'
  <2> SUFFICES ASSUME NEW r \in Streams, reader'[r] = "ended"
               PROVE  pipe'[r] = <<>> /\ unwritten'[r] = 0
    BY DEF EndedEmpty
  <2>1. CASE r = s
    <3>1. next = "ended"
      BY <1>1, <2>1 DEF OutputInv, PipeTypes
    <3>2. pipe[s] = <<>> /\ unwritten[s] = 0
      BY <1>1, <3>1 DEF Exited
    <3> QED  BY <1>2, <1>3, <2>1, <3>2
  <2>2. CASE r # s
    BY <1>1, <1>2, <2>2 DEF OutputInv, PipeTypes, EndedEmpty
  <2> QED  BY <2>1, <2>2
\* The reader was not done, so the runner is still waiting.
<1>6. RunnerWaits'
  <2>1. ~Drained
    BY <1>1 DEF Drained
  <2>2. runner = "draining"
    BY <2>1 DEF OutputInv, RunnerWaits
  <2> QED  BY <1>2, <2>2 DEF OutputInv, RunnerWaits
<1> QED  BY <1>4, <1>5, <1>6 DEF OutputInv

LEMMA RunnerInv ==
    ASSUME OutputInv, CloseEvents \/ ReturnOutput
    PROVE  OutputInv'
<1>1. CASE CloseEvents
  BY <1>1 DEF CloseEvents, childVars, OutputInv, PipeTypes, EndedEmpty, RunnerWaits,
     Drained, RunnerStates
<1>2. CASE ReturnOutput
  BY <1>2 DEF ReturnOutput, OutputInv, PipeTypes, EndedEmpty, RunnerWaits, Drained,
     RunnerStates, ReaderStates, NoBytes
<1> QED  BY <1>1, <1>2

LEMMA OutputNextInv ==
    ASSUME OutputInv, [TuiNext]_vars
    PROVE  OutputInv'
<1>1. CASE RunCommand
  BY <1>1, StartCommandInv DEF RunCommand
<1>2. CASE CommandSteps
  BY <1>2, ChildInv, ReaderInv, RunnerInv DEF CommandSteps
<1>3. CASE WorkerSteps \/ DeliverLine
  BY <1>3, OutputFrame DEF WorkerSteps, WorkerTakesLine, WorkerEnds, DeliverLine,
     SinkReturns, childVars
<1>4. CASE UNCHANGED outputVars
  BY <1>4, OutputFrame DEF outputVars
<1>5. Keys \/ Messages \/ ForeignOperation \/ (TaskSteps /\ ~RunCommand) \/ UNCHANGED vars
         => UNCHANGED outputVars
  BY DEF Keys, KeyWhileBusy, ConfirmDelete, CancelDelete, Quit, SwitchList, MoveCursor,
     ToggleBoot, StartGlobalTask, RemoveEntry, AskDelete, StartTask, Messages,
     HandleFailure, HandleDone, ReadOutput, ReadClosed, HandleOutput, ForeignOperation,
     TaskSteps, OperationEnds, ReconcileEnds, ReconcileUnverified, ReconcileStops,
     DiscoverBackups, ListGrubEntries, RefreshFails, CloseOutput, vars
<1> QED  BY <1>1, <1>2, <1>3, <1>4, <1>5 DEF TuiNext

LEMMA OutputAlways == TuiSpec => []OutputInv
<1>1. TuiInit => OutputInv
  BY OutputInitInv
<1>2. OutputInv /\ [TuiNext]_vars => OutputInv'
  BY OutputNextInv
<1> QED  BY <1>1, <1>2, PTL DEF TuiSpec

\* No interleaving of the readers, the delivery worker, the runner and the
\* interface sends to an events channel that runCommandCombinedOutput closed.
THEOREM ChannelSafe == TuiSpec => []NoSendOnClosed
<1>1. OutputInv => NoSendOnClosed
  BY DEF OutputInv, PipeTypes, RunnerWaits, Drained, NoSendOnClosed
<1> QED  BY <1>1, OutputAlways, PTL

\* A command's output is returned only when both pipes are empty and the child
\* has nothing more to write, unless reading failed.
THEOREM OutputWhole == TuiSpec => []NothingLostOnExit
<1>1. OutputInv => NothingLostOnExit
  BY DEF OutputInv, EndedEmpty, RunnerWaits, Drained, NothingLostOnExit
<1> QED  BY <1>1, OutputAlways, PTL

-----------------------------------------------------------------------------
(* What is retained of a command's output.                                 *)

\* A byte is named by its stream and its position there.
Bytes == Streams \X Nat

LEMMA KeptPositive == Limit \in Nat /\ Marker \in Nat /\ Kept \in Nat /\ Kept + Marker = Limit /\ Kept > 0
BY OutputConstantsOK DEF Kept

LEMMA ByteAt ==
    ASSUME NEW q \in Seq(Bytes), NEW i \in 1 .. Len(q)
    PROVE  q[i] \in Bytes /\ q[i][1] \in Streams /\ q[i][2] \in Nat /\ q[i] = <<q[i][1], q[i][2]>>
<1>1. q[i] \in Bytes
  OBVIOUS
<1> QED  BY <1>1 DEF Bytes

\* f is what comes next of stream s, after read[s] bytes.
Continues(f, s, read) ==
    \A i \in 1 .. Len(f) : f[i] = <<s, read[s] + i>>

\* What is appended of a stream comes after what was read of it before.
LEMMA AppendInOrder ==
    ASSUME NEW q \in Seq(Bytes), NEW f \in Seq(Bytes), NEW s \in Streams,
           NEW read \in [Streams -> Nat], Continues(f, s, read),
           InOrder(q), HoldsNewest(q, read)
    PROVE  InOrder(q \o f)
<1> DEFINE all == q \o f
<1>1. Len(all) = Len(q) + Len(f) /\ Len(q) \in Nat /\ Len(f) \in Nat
  OBVIOUS
<1>2. /\ \A i \in 1 .. Len(q) : all[i] = q[i]
      /\ \A i \in 1 .. Len(all) : i > Len(q) => all[i] = f[i - Len(q)]
  OBVIOUS
<1>3. \A i \in 1 .. Len(all) : i > Len(q) => all[i] = <<s, read[s] + (i - Len(q))>>
  BY <1>1, <1>2 DEF Continues
<1>4. \A i \in 1 .. Len(q) : q[i] \in Bytes /\ q[i][1] \in Streams /\ q[i][2] \in Nat
  BY ByteAt
<1> HIDE DEF all
<1> SUFFICES ASSUME NEW i \in 1 .. Len(all), NEW j \in 1 .. Len(all), i < j,
                    all[i][1] = all[j][1]
             PROVE  all[i][2] < all[j][2]
  BY DEF InOrder, all
<1>5. CASE j <= Len(q)
  <2>1. i \in 1 .. Len(q) /\ j \in 1 .. Len(q)
    BY <1>1, <1>5
  <2> QED  BY <1>2, <2>1 DEF InOrder
<1>6. CASE i <= Len(q) /\ j > Len(q)
  <2>1. i \in 1 .. Len(q) /\ all[i] = q[i]
    BY <1>1, <1>2, <1>6
  <2>2. all[j][1] = s /\ all[j][2] = read[s] + (j - Len(q))
    BY <1>3, <1>6
  <2>3. q[i][2] \in 1 .. read[s]
    BY <2>1, <2>2 DEF HoldsNewest
  <2> QED  BY <1>1, <1>6, <2>1, <2>2, <2>3
<1>7. CASE i > Len(q)
  <2>1. all[i][2] = read[s] + (i - Len(q)) /\ all[j][2] = read[s] + (j - Len(q))
    BY <1>1, <1>3, <1>7
  <2> QED  BY <1>1, <2>1
<1> QED  BY <1>1, <1>5, <1>6, <1>7

\* How far the streams are read once f is.
ReadOn(f, s, read) == [read EXCEPT ![s] = @ + Len(f)]

LEMMA AppendHolds ==
    ASSUME NEW q \in Seq(Bytes), NEW f \in Seq(Bytes), NEW s \in Streams,
           NEW read \in [Streams -> Nat], Continues(f, s, read)
    PROVE  /\ \A r \in Streams, n \in Nat : Holds(q, r, n) => Holds(q \o f, r, n)
           /\ \A n \in read[s] + 1 .. read[s] + Len(f) : Holds(q \o f, s, n)
<1>1. \A i \in 1 .. Len(q) : (q \o f)[i] = q[i] /\ i \in 1 .. Len(q \o f)
  OBVIOUS
<1>2. ASSUME NEW n \in read[s] + 1 .. read[s] + Len(f)
      PROVE  Holds(q \o f, s, n)
  <2> DEFINE k == n - read[s]
  <2>1. k \in 1 .. Len(f) /\ read[s] + k = n
    OBVIOUS
  <2>2. f[k] = <<s, n>>
    BY <2>1 DEF Continues
  <2> HIDE DEF k
  <2>3. (q \o f)[Len(q) + k] = f[k] /\ Len(q) + k \in 1 .. Len(q \o f)
    BY <2>1
  <2> QED  BY <2>2, <2>3 DEF Holds
<1> QED  BY <1>1, <1>2 DEF Holds

LEMMA AppendNewest ==
    ASSUME NEW q \in Seq(Bytes), NEW f \in Seq(Bytes), NEW s \in Streams,
           NEW read \in [Streams -> Nat], Continues(f, s, read), HoldsNewest(q, read)
    PROVE  HoldsNewest(q \o f, ReadOn(f, s, read))
<1> DEFINE all == q \o f
           on == ReadOn(f, s, read)
<1>1. /\ on[s] = read[s] + Len(f) /\ \A r \in Streams : r # s => on[r] = read[r]
      /\ Len(f) \in Nat /\ Len(q) \in Nat /\ Len(all) = Len(q) + Len(f)
      /\ \A r \in Streams : read[r] \in Nat
  BY DEF ReadOn
<1>2. /\ \A i \in 1 .. Len(q) : all[i] = q[i]
      /\ \A i \in 1 .. Len(all) : i > Len(q) => all[i] = f[i - Len(q)]
  OBVIOUS
<1>3. \A i \in 1 .. Len(q) : q[i] \in Bytes /\ q[i][1] \in Streams /\ q[i][2] \in Nat
  BY ByteAt
<1>4. /\ \A r \in Streams, n \in Nat : Holds(q, r, n) => Holds(all, r, n)
      /\ \A n \in read[s] + 1 .. read[s] + Len(f) : Holds(all, s, n)
  BY AppendHolds
<1> HIDE DEF all, on
<1>5. ASSUME NEW r \in Streams, NEW m \in 1 .. read[r],
             \A n \in m .. read[r] : Holds(q, r, n)
      PROVE  \A n \in m .. on[r] : Holds(all, r, n)
  <2> SUFFICES ASSUME NEW n \in m .. on[r] PROVE Holds(all, r, n)
    OBVIOUS
  <2>1. CASE n <= read[r]
    <3>1. n \in m .. read[r] /\ n \in Nat
      BY <1>1, <2>1
    <3> QED  BY <1>4, <1>5, <3>1
  <2>2. CASE n > read[r]
    <3>1. r = s /\ n \in read[s] + 1 .. read[s] + Len(f)
      BY <1>1, <2>2
    <3> QED  BY <1>4, <3>1
  <2> QED  BY <1>1, <2>1, <2>2
<1> SUFFICES ASSUME NEW i \in 1 .. Len(all)
             PROVE  /\ all[i][2] \in 1 .. on[all[i][1]]
                    /\ \A n \in all[i][2] .. on[all[i][1]] : Holds(all, all[i][1], n)
  BY DEF HoldsNewest, all, on
<1>6. CASE i <= Len(q)
  <2>1. i \in 1 .. Len(q) /\ all[i] = q[i] /\ q[i][1] \in Streams
    BY <1>1, <1>2, <1>3, <1>6
  <2>2. /\ q[i][2] \in 1 .. read[q[i][1]]
        /\ \A n \in q[i][2] .. read[q[i][1]] : Holds(q, q[i][1], n)
    BY <2>1 DEF HoldsNewest
  <2>3. q[i][2] \in 1 .. on[q[i][1]]
    BY <1>1, <2>1, <2>2
  <2>4. \A n \in q[i][2] .. on[q[i][1]] : Holds(all, q[i][1], n)
    BY <1>5, <2>1, <2>2
  <2> QED  BY <2>1, <2>3, <2>4
<1>7. CASE i > Len(q)
  <2>1. i - Len(q) \in 1 .. Len(f)
    BY <1>1, <1>7
  <2>2. all[i] = <<s, read[s] + (i - Len(q))>>
    BY <1>2, <1>7, <2>1 DEF Continues
  <2>3. all[i][1] = s /\ all[i][2] \in read[s] + 1 .. read[s] + Len(f)
    BY <1>1, <2>1, <2>2
  <2> QED  BY <1>1, <1>4, <2>3
<1> QED  BY <1>1, <1>6, <1>7

LEMMA AppendAll ==
    ASSUME NEW q \in Seq(Bytes), NEW f \in Seq(Bytes), NEW s \in Streams,
           NEW read \in [Streams -> Nat], Continues(f, s, read), HoldsAll(q, read)
    PROVE  HoldsAll(q \o f, ReadOn(f, s, read))
<1> DEFINE all == q \o f
           on == ReadOn(f, s, read)
<1>1. /\ on[s] = read[s] + Len(f) /\ \A r \in Streams : r # s => on[r] = read[r]
      /\ Len(f) \in Nat /\ \A r \in Streams : read[r] \in Nat
  BY DEF ReadOn
<1>2. /\ \A r \in Streams, n \in Nat : Holds(q, r, n) => Holds(all, r, n)
      /\ \A n \in read[s] + 1 .. read[s] + Len(f) : Holds(all, s, n)
  BY AppendHolds
<1> HIDE DEF all, on
<1> SUFFICES ASSUME NEW r \in Streams, NEW n \in 1 .. on[r] PROVE Holds(all, r, n)
  BY DEF HoldsAll, all, on
<1>3. CASE n <= read[r]
  <2>1. n \in 1 .. read[r] /\ n \in Nat
    BY <1>1, <1>3
  <2> QED  BY <1>2, <2>1 DEF HoldsAll
<1>4. CASE n > read[r]
  <2>1. r = s /\ n \in read[s] + 1 .. read[s] + Len(f)
    BY <1>1, <1>4
  <2> QED  BY <1>2, <2>1
<1> QED  BY <1>1, <1>3, <1>4

\* Dropping the oldest bytes leaves the newest ones of every stream.
LEMMA DropOldest ==
    ASSUME NEW q \in Seq(Bytes), NEW from \in 1 .. Len(q) + 1,
           NEW read \in [Streams -> Nat], InOrder(q), HoldsNewest(q, read)
    PROVE  /\ SubSeq(q, from, Len(q)) \in Seq(Bytes)
           /\ Len(SubSeq(q, from, Len(q))) = Len(q) + 1 - from
           /\ InOrder(SubSeq(q, from, Len(q)))
           /\ HoldsNewest(SubSeq(q, from, Len(q)), read)
<1> DEFINE rest == SubSeq(q, from, Len(q))
<1>1. /\ rest \in Seq(Bytes) /\ Len(rest) = Len(q) + 1 - from /\ Len(q) \in Nat
      /\ \A i \in 1 .. Len(rest) : rest[i] = q[from + i - 1]
  OBVIOUS
<1>2. \A i \in 1 .. Len(q) : q[i][1] \in Streams /\ q[i][2] \in Nat /\ q[i] = <<q[i][1], q[i][2]>>
  BY ByteAt
<1> HIDE DEF rest
<1>3. \A i \in 1 .. Len(rest) : from + i - 1 \in 1 .. Len(q)
  BY <1>1
<1>4. InOrder(rest)
  <2> SUFFICES ASSUME NEW i \in 1 .. Len(rest), NEW j \in 1 .. Len(rest), i < j,
                      rest[i][1] = rest[j][1]
               PROVE  rest[i][2] < rest[j][2]
    BY DEF InOrder
  <2>1. from + i - 1 < from + j - 1
    BY <1>1
  <2> QED  BY <1>1, <1>3, <2>1 DEF InOrder
<1>5. ASSUME NEW i \in 1 .. Len(rest)
      PROVE  /\ rest[i][2] \in 1 .. read[rest[i][1]]
             /\ \A n \in rest[i][2] .. read[rest[i][1]] : Holds(rest, rest[i][1], n)
  <2> DEFINE k == from + i - 1
  <2>1. k \in 1 .. Len(q) /\ rest[i] = q[k]
    BY <1>1, <1>3
  <2>2. k >= from
    BY <1>1
  <2> HIDE DEF k
  <2>3. /\ q[k][2] \in 1 .. read[q[k][1]]
        /\ \A n \in q[k][2] .. read[q[k][1]] : Holds(q, q[k][1], n)
    BY <2>1 DEF HoldsNewest
  <2>4. ASSUME NEW n \in q[k][2] .. read[q[k][1]]
        PROVE  Holds(rest, q[k][1], n)
    <3>1. PICK j \in 1 .. Len(q) : q[j] = <<q[k][1], n>>
      BY <2>3 DEF Holds
    <3>2. q[j][1] = q[k][1] /\ q[j][2] = n /\ n >= q[k][2]
      BY <1>2, <2>1, <3>1
    <3>3. j >= k
      <4> SUFFICES ASSUME j < k PROVE FALSE
        BY <2>1
      <4>1. q[j][2] < q[k][2]
        BY <2>1, <3>2 DEF InOrder
      <4> QED  BY <1>2, <2>1, <3>2, <4>1
    <3>4. /\ j - from + 1 \in 1 .. Len(rest)
          /\ from + (j - from + 1) - 1 = j
      BY <1>1, <2>2, <2>1, <3>3
    <3>5. rest[j - from + 1] = q[j]
      BY <1>1, <3>4
    <3> QED  BY <3>1, <3>4, <3>5 DEF Holds
  <2> QED  BY <2>1, <2>3, <2>4
<1>6. HoldsNewest(rest, read)
  BY <1>5 DEF HoldsNewest
<1> QED  BY <1>1, <1>4, <1>6 DEF rest

\* The pipes hold what the child has written and the readers have not read, in
\* order; and of what they have read output keeps the newest, with room for the
\* marker.
PipesInv ==
    /\ written \in [Streams -> Nat]
    /\ pipe \in [Streams -> Seq(Bytes)]
    /\ \A s \in Streams : Len(pipe[s]) <= written[s] /\ Continues(pipe[s], s, Read)

Retains(o, read) ==
    /\ o.data \in Seq(Bytes) /\ o.truncated \in BOOLEAN
    /\ Len(o.data) <= Kept
    /\ InOrder(o.data)
    /\ HoldsNewest(o.data, read)
    /\ o.truncated \/ HoldsAll(o.data, read)

RetainedInv == PipesInv /\ Retains(out, Read)

retainedVars == <<written, pipe, out>>

LEMMA ReadType == PipesInv => Read \in [Streams -> Nat]
<1> SUFFICES ASSUME PipesInv, NEW s \in Streams PROVE written[s] - Len(pipe[s]) \in Nat
  BY DEF Read
<1>1. pipe[s] \in Seq(Bytes) /\ written[s] \in Nat /\ Len(pipe[s]) <= written[s]
  BY DEF PipesInv
<1>2. Len(pipe[s]) \in Nat
  BY <1>1
<1> QED  BY <1>1, <1>2

LEMMA RetainedKept == RetainedInv => NewestKept
<1>1. ASSUME RetainedInv PROVE Len(out.data) \in Nat /\ Len(out.data) <= Kept
  BY <1>1 DEF RetainedInv, Retains
<1>2. RetainedInv => Len(out.data) + (IF out.truncated THEN Marker ELSE 0) <= Limit
  <2>1. CASE out.truncated
    BY <1>1, <2>1, KeptPositive
  <2>2. CASE ~out.truncated
    BY <1>1, <2>2, KeptPositive
  <2> QED  BY <2>1, <2>2
<1> QED  BY <1>2 DEF RetainedInv, Retains, NewestKept

\* boundedCommandOutput.write keeps its promise, whatever it is given.
LEMMA WriteRetains ==
    ASSUME NEW o, NEW f \in Seq(Bytes), NEW s \in Streams, NEW read \in [Streams -> Nat],
           Retains(o, read), Continues(f, s, read)
    PROVE  Retains(Write(o, f), ReadOn(f, s, read))
<1> DEFINE all  == o.data \o f
           from == IF Len(all) > Kept THEN Len(all) - Kept + 1 ELSE 1
           on   == ReadOn(f, s, read)
           w    == Write(o, f)
<1>1. all \in Seq(Bytes) /\ Len(all) \in Nat /\ from \in 1 .. Len(all) + 1 /\ Kept \in Nat
  BY KeptPositive DEF Retains
<1>2. /\ w.data = SubSeq(all, from, Len(all)) /\ w.truncated \in BOOLEAN
      /\ ~w.truncated => ~o.truncated /\ Len(all) <= Kept
  <2>1. w = [data |-> SubSeq(all, from, Len(all)),
             truncated |-> o.truncated \/ Len(f) >= Kept \/ Len(all) > Kept]
    BY DEF Write
  <2>2. ~(Len(all) > Kept) => Len(all) <= Kept
    BY <1>1
  <2> HIDE DEF w, all, from
  <2> QED  BY <2>1, <2>2 DEF Retains
<1>3. on \in [Streams -> Nat]
  BY DEF ReadOn
<1>4. InOrder(all) /\ HoldsNewest(all, on)
  BY AppendInOrder, AppendNewest DEF Retains
<1>5. ~o.truncated => HoldsAll(all, on)
  BY AppendAll DEF Retains
<1>6. Len(all) <= Kept => SubSeq(all, from, Len(all)) = all
  <2>1. Len(all) <= Kept => from = 1
    BY <1>1
  <2>2. SubSeq(all, 1, Len(all)) = all
    BY <1>1
  <2> QED  BY <2>1, <2>2
<1>7. Len(all) + 1 - from <= Kept
  BY <1>1
<1> HIDE DEF all, from, on, w
<1>8. /\ w.data \in Seq(Bytes) /\ Len(w.data) = Len(all) + 1 - from
      /\ InOrder(w.data) /\ HoldsNewest(w.data, on)
  BY <1>1, <1>2, <1>3, <1>4, DropOldest
<1>9. w.truncated \/ HoldsAll(w.data, on)
  BY <1>2, <1>5, <1>6
<1> QED  BY <1>2, <1>7, <1>8, <1>9 DEF Retains, w, on

LEMMA RetainsNothing ==
    ASSUME NEW read \in [Streams -> Nat], \A s \in Streams : read[s] = 0
    PROVE  Retains(NoOutput, read)
<1>1. NoOutput.data = <<>> /\ NoOutput.truncated = FALSE
  BY DEF NoOutput
<1>2. HoldsAll(<<>>, read)
  <2>1. \A s \in Streams : 1 .. read[s] = {}
    OBVIOUS
  <2> QED  BY <2>1 DEF HoldsAll
<1>3. InOrder(<<>>) /\ HoldsNewest(<<>>, read)
  BY DEF InOrder, HoldsNewest
<1>4. Len(<<>>) <= Kept /\ <<>> \in Seq(Bytes)
  BY KeptPositive
<1> QED  BY <1>1, <1>2, <1>3, <1>4 DEF Retains

\* A command that starts or is over has read nothing.
Blank == written = NoBytes /\ pipe = [s \in Streams |-> <<>>] /\ out = NoOutput

LEMMA NothingRetained == Blank => RetainedInv
<1> SUFFICES ASSUME written = NoBytes, pipe = [s \in Streams |-> <<>>], out = NoOutput
             PROVE  RetainedInv
  BY DEF Blank
<1>1. \A s \in Streams : written[s] = 0 /\ pipe[s] = <<>>
  BY DEF NoBytes
<1>2. PipesInv
  BY <1>1 DEF PipesInv, NoBytes, Continues
<1>3. Read \in [Streams -> Nat] /\ \A s \in Streams : Read[s] = 0
  BY <1>1, <1>2, ReadType DEF Read
<1> QED  BY <1>2, <1>3, RetainsNothing DEF RetainedInv

LEMMA ChildWritesRetains ==
    ASSUME RetainedInv, NEW s \in Streams, ChildWrites(s)
    PROVE  RetainedInv'
<1>1. /\ pipe' = [pipe EXCEPT ![s] = Append(pipe[s], <<s, written[s] + 1>>)]
      /\ written' = [written EXCEPT ![s] = written[s] + 1]
      /\ out' = out
  BY DEF ChildWrites
<1>2. /\ written \in [Streams -> Nat] /\ pipe \in [Streams -> Seq(Bytes)]
      /\ \A r \in Streams : Len(pipe[r]) \in Nat /\ Len(pipe[r]) <= written[r]
      /\ written[s] \in Nat /\ Len(pipe[s]) \in Nat /\ Len(pipe[s]) <= written[s]
      /\ Continues(pipe[s], s, Read)
  BY DEF RetainedInv, PipesInv
<1>3. <<s, written[s] + 1>> \in Bytes
  BY <1>2 DEF Bytes
<1>4. written' \in [Streams -> Nat] /\ pipe' \in [Streams -> Seq(Bytes)]
  BY <1>1, <1>2, <1>3
<1>5. /\ pipe'[s] = Append(pipe[s], <<s, written[s] + 1>>) /\ written'[s] = written[s] + 1
      /\ Len(pipe'[s]) = Len(pipe[s]) + 1
      /\ \A r \in Streams : r # s => pipe'[r] = pipe[r] /\ written'[r] = written[r]
  BY <1>1, <1>2, <1>3
<1>6. \A r \in Streams : written'[r] - Len(pipe'[r]) = written[r] - Len(pipe[r])
  <2> SUFFICES ASSUME NEW r \in Streams
               PROVE  written'[r] - Len(pipe'[r]) = written[r] - Len(pipe[r])
    OBVIOUS
  <2>1. CASE r = s
    BY <1>2, <1>5, <2>1
  <2>2. CASE r # s
    BY <1>5, <2>2
  <2> QED  BY <2>1, <2>2
<1>7. Read' = Read
  BY <1>6 DEF Read
<1>8. Continues(pipe'[s], s, Read)
  <2> SUFFICES ASSUME NEW i \in 1 .. Len(pipe[s]) + 1
               PROVE  Append(pipe[s], <<s, written[s] + 1>>)[i] = <<s, Read[s] + i>>
    BY <1>5 DEF Continues
  <2>1. Read[s] = written[s] - Len(pipe[s])
    BY DEF Read
  <2>2. CASE i = Len(pipe[s]) + 1
    <3>1. Append(pipe[s], <<s, written[s] + 1>>)[i] = <<s, written[s] + 1>>
      BY <1>2, <1>3, <2>2
    <3>2. Read[s] + i = written[s] + 1
      BY <1>2, <2>1, <2>2
    <3> QED  BY <3>1, <3>2
  <2>3. CASE i # Len(pipe[s]) + 1
    <3>1. i \in 1 .. Len(pipe[s])
      BY <1>2, <2>3
    <3>2. Append(pipe[s], <<s, written[s] + 1>>)[i] = pipe[s][i]
      BY <1>2, <1>3, <3>1
    <3> QED  BY <1>2, <3>1, <3>2 DEF Continues
  <2> QED  BY <2>2, <2>3
<1>9. PipesInv'
  <2> SUFFICES ASSUME NEW r \in Streams
               PROVE  Len(pipe'[r]) <= written'[r] /\ Continues(pipe'[r], r, Read)
    BY <1>4, <1>7 DEF PipesInv
  <2>1. CASE r = s
    <3>1. Len(pipe[s]) + 1 <= written[s] + 1
      BY <1>2
    <3>2. Len(pipe'[s]) <= written'[s]
      BY <1>5, <3>1
    <3> QED  BY <1>8, <2>1, <3>2
  <2>2. CASE r # s
    BY <1>5, <2>2 DEF RetainedInv, PipesInv
  <2> QED  BY <2>1, <2>2
<1> QED  BY <1>1, <1>7, <1>9 DEF RetainedInv

LEMMA ReadFragmentRetains ==
    ASSUME RetainedInv, NEW s \in Streams, ReadFragment(s)
    PROVE  RetainedInv'
<1>1. PICK k \in 1 .. Len(pipe[s]) :
          /\ out' = Write(out, SubSeq(pipe[s], 1, k))
          /\ pipe' = [pipe EXCEPT ![s] = SubSeq(pipe[s], k + 1, Len(pipe[s]))]
  BY DEF ReadFragment
<1>2. written' = written
  BY DEF ReadFragment, childVars
<1> DEFINE f == SubSeq(pipe[s], 1, k)
           left == SubSeq(pipe[s], k + 1, Len(pipe[s]))
<1>3. /\ written \in [Streams -> Nat] /\ pipe \in [Streams -> Seq(Bytes)]
      /\ pipe[s] \in Seq(Bytes) /\ Len(pipe[s]) \in Nat /\ Len(pipe[s]) <= written[s]
      /\ Continues(pipe[s], s, Read)
      /\ Read \in [Streams -> Nat]
  BY ReadType DEF RetainedInv, PipesInv
<1>4. /\ f \in Seq(Bytes) /\ Len(f) = k
      /\ \A i \in 1 .. k : f[i] = pipe[s][i]
  BY <1>3
<1>5. /\ left \in Seq(Bytes) /\ Len(left) = Len(pipe[s]) - k
      /\ \A i \in 1 .. Len(left) : left[i] = pipe[s][k + i]
  BY <1>3
<1> HIDE DEF f, left
<1>6. Continues(f, s, Read)
  <2>1. \A i \in 1 .. k : i \in 1 .. Len(pipe[s])
    BY <1>3
  <2> QED  BY <1>3, <1>4, <2>1 DEF Continues
<1>7. /\ pipe' \in [Streams -> Seq(Bytes)] /\ pipe'[s] = left
      /\ \A r \in Streams : r # s => pipe'[r] = pipe[r]
  BY <1>1, <1>3, <1>5 DEF left
<1>8. Read' = ReadOn(f, s, Read)
  <2> SUFFICES ASSUME NEW r \in Streams
               PROVE  written'[r] - Len(pipe'[r]) = ReadOn(f, s, Read)[r]
    BY <1>3 DEF Read, ReadOn
  <2>1. CASE r = s
    <3>1. ReadOn(f, s, Read)[s] = written[s] - Len(pipe[s]) + k
      BY <1>3, <1>4 DEF Read, ReadOn
    <3>2. written[s] \in Nat /\ Len(pipe[s]) \in Nat
      BY <1>3
    <3>3. written[s] - (Len(pipe[s]) - k) = written[s] - Len(pipe[s]) + k
      BY <3>2
    <3> QED  BY <1>2, <1>5, <1>7, <2>1, <3>1, <3>3
  <2>2. CASE r # s
    BY <1>2, <1>3, <1>7, <2>2 DEF Read, ReadOn
  <2> QED  BY <2>1, <2>2
<1>9. PipesInv'
  <2> SUFFICES ASSUME NEW r \in Streams
               PROVE  Len(pipe'[r]) <= written[r] /\ Continues(pipe'[r], r, Read')
    BY <1>2, <1>3, <1>7 DEF PipesInv
  <2>1. CASE r = s
    <3>1. Read'[s] = Read[s] + k
      BY <1>3, <1>4, <1>8 DEF ReadOn
    <3>2. ASSUME NEW i \in 1 .. Len(left) PROVE left[i] = <<s, Read'[s] + i>>
      <4>1. k + i \in 1 .. Len(pipe[s]) /\ Read[s] \in Nat
        BY <1>3, <1>5
      <4>2. pipe[s][k + i] = <<s, Read[s] + (k + i)>>
        BY <1>3, <4>1 DEF Continues
      <4>3. Read[s] + (k + i) = Read'[s] + i
        BY <3>1, <4>1
      <4> QED  BY <1>5, <4>2, <4>3
    <3> QED  BY <1>3, <1>5, <1>7, <2>1, <3>2 DEF Continues
  <2>2. CASE r # s
    <3>1. Read'[r] = Read[r]
      BY <1>3, <1>8, <2>2 DEF ReadOn
    <3> QED  BY <1>7, <2>2, <3>1 DEF RetainedInv, PipesInv, Continues
  <2> QED  BY <2>1, <2>2
<1>10. Retains(out', Read')
  BY <1>1, <1>3, <1>4, <1>6, <1>8, WriteRetains DEF RetainedInv, f
<1> QED  BY <1>9, <1>10 DEF RetainedInv

LEMMA RetainedFrame == RetainedInv /\ UNCHANGED retainedVars => RetainedInv'
BY DEF RetainedInv, retainedVars, PipesInv, Retains, Read, Continues

LEMMA RetainedNextInv ==
    ASSUME RetainedInv, [TuiNext]_vars
    PROVE  RetainedInv'
<1>1. CASE RunCommand \/ ReturnOutput
  <2>1. Blank'
    BY <1>1 DEF RunCommand, StartCommand, ReturnOutput, Blank
  <2>2. Blank' => RetainedInv'
    BY NothingRetained, PTL
  <2> QED  BY <2>1, <2>2
<1>2. CASE \E s \in Streams : ChildWrites(s) \/ ReadFragment(s)
  BY <1>2, ChildWritesRetains, ReadFragmentRetains
<1>3. CASE \/ \E s \in Streams : EmitLine(s) \/ ReadEnd(s) \/ ReadFails(s)
           \/ CloseEvents \/ WorkerSteps \/ DeliverLine
  <2>1. UNCHANGED retainedVars
    BY <1>3 DEF EmitLine, ReadEnd, ReadFails, CloseEvents, WorkerSteps, WorkerTakesLine,
       WorkerEnds, DeliverLine, SinkReturns, childVars, retainedVars
  <2> QED  BY <2>1, RetainedFrame
<1>4. CASE UNCHANGED outputVars
  BY <1>4, RetainedFrame DEF outputVars, retainedVars
<1>5. Keys \/ Messages \/ ForeignOperation \/ (TaskSteps /\ ~RunCommand) \/ UNCHANGED vars
         => UNCHANGED outputVars
  BY DEF Keys, KeyWhileBusy, ConfirmDelete, CancelDelete, Quit, SwitchList, MoveCursor,
     ToggleBoot, StartGlobalTask, RemoveEntry, AskDelete, StartTask, Messages,
     HandleFailure, HandleDone, ReadOutput, ReadClosed, HandleOutput, ForeignOperation,
     TaskSteps, OperationEnds, ReconcileEnds, ReconcileUnverified, ReconcileStops,
     DiscoverBackups, ListGrubEntries, RefreshFails, CloseOutput, vars
<1>6. CommandSteps => \/ \E s \in Streams : ChildWrites(s) \/ ReadFragment(s)
                      \/ \E s \in Streams : EmitLine(s) \/ ReadEnd(s) \/ ReadFails(s)
                      \/ CloseEvents \/ ReturnOutput
  BY DEF CommandSteps
<1> QED  BY <1>1, <1>2, <1>3, <1>4, <1>5, <1>6 DEF TuiNext

\* However the two readers take turns and whatever fragments they read, the
\* output of a command is, per stream, the newest of what was read, in order and
\* within commandOutputLimit, and says so when it is not all of it.
THEOREM OutputNewest == TuiSpec => []NewestKept
<1>1. TuiInit => RetainedInv
  BY NothingRetained DEF TuiInit, OutputInit, Blank
<1>2. RetainedInv /\ [TuiNext]_vars => RetainedInv'
  BY RetainedNextInv
<1> QED  BY <1>1, <1>2, RetainedKept, PTL DEF TuiSpec

-----------------------------------------------------------------------------
JobKinds == {"activate", "deactivate", "delete", "remove", "backup", "reconcile", "hook"}
Stages == {"none", "operating", "discovering", "listing", "closing", "answered"}
Claims == {"none", "done", "failed", "partial", "unrefreshed"}

\* What Update and the task's steps rely on of the shape of an answer.
IsAnswer(a) ==
    /\ a = [claim |-> a.claim, lists |-> a.lists, focus |-> a.focus, found |-> a.found]
    /\ a.claim \in Claims /\ a.lists \in BOOLEAN
    /\ a.found = [rows |-> a.found.rows, mirrored |-> a.found.mirrored,
                  flagged |-> a.found.flagged, entries |-> a.found.entries]

\* The names on disk, the task's request and what it has answered so far.
TaskTypes ==
    /\ disk \in Disks
    /\ job.kind \in JobKinds
    /\ stage \in Stages
    /\ IsAnswer(answer)
    /\ overtaken \in BOOLEAN /\ busy \in BOOLEAN

\* A task that has not answered is the one Update waits for; Update leaves the
\* program only when there is none.
OneTask ==
    /\ busy <=> stage # "none"
    /\ quit => stage = "none"

Ended == stage \in {"discovering", "listing", "closing", "answered"}

\* Only what was done is read again, and only a task that has ended claims
\* anything.
ClaimInStage ==
    /\ stage \in {"discovering", "listing"} =>
           answer.claim = "done" /\ job.kind \notin {"hook", "reconcile"}
    /\ ~Ended => answer.claim = "none"

\* From the operation's last step on the disk shows what the task will claim.
ClaimTrue ==
    Ended /\ answer.claim \in {"done", "unrefreshed"} /\ ~overtaken
        => Done(job.kind, job.target, disk)

Showing(l) ==
    /\ l.mirrored = disk.mirrored
    /\ BackupRows(disk) \subseteq l.rows

\* The lists the task has read are those of the disk.
ListsTrue ==
    /\ stage = "listing" /\ ~overtaken => Showing(answer.found)
    /\ /\ stage \in {"closing", "answered"} /\ answer.claim = "done"
       /\ job.kind # "hook" /\ ~overtaken
       => /\ answer.lists
          /\ Showing(answer.found)
          /\ answer.found.flagged = disk.listed
          /\ answer.found.entries = disk.listed

TaskInv == TaskTypes /\ OneTask /\ ClaimInStage /\ ClaimTrue /\ ListsTrue

taskInvVars == <<disk, job, stage, answer, overtaken, busy, quit>>

LEMMA NamesPositive == Names \subseteq Nat /\ Nothing \notin Names
BY TuiConstantsOK DEF Nothing

LEMMA TaskInitInv == TuiInit => TaskInv
<1> SUFFICES ASSUME TuiInit PROVE TaskInv
  OBVIOUS
<1>1. /\ disk = [stored |-> FirstStored, mirrored |-> {}, listed |-> {}]
      /\ job = [kind |-> "hook", target |-> Nothing]
      /\ stage = "none" /\ answer = NoAnswer
      /\ overtaken = FALSE /\ busy = FALSE /\ quit = FALSE
  BY DEF TuiInit
<1>2. TaskTypes
  BY <1>1, TuiConstantsOK DEF TaskTypes, Disks, JobKinds, Stages, IsAnswer, Claims, NoAnswer
<1> QED  BY <1>1, <1>2 DEF TaskInv, OneTask, ClaimInStage, ClaimTrue, ListsTrue, Ended, NoAnswer

LEMMA TaskFrame == TaskInv /\ UNCHANGED taskInvVars => TaskInv'
BY DEF TaskInv, taskInvVars, TaskTypes, OneTask, ClaimInStage, ClaimTrue, ListsTrue, Ended,
       Done, Showing, BackupRows

-----------------------------------------------------------------------------
(* What operations leave on disk.                                          *)

LEMMA ReconciledTyped ==
    ASSUME NEW d \in Disks, NEW e \in Reconciled(d)
    PROVE  /\ e \in Disks
           /\ e.stored = d.stored /\ e.mirrored \subseteq BackupRows(d)
           /\ e.listed \subseteq d.stored
BY DEF Reconciled, Remirrored, Disks, BackupRows

LEMMA CompletedDone ==
    ASSUME NEW kind \in JobKinds, NEW n, NEW d \in Disks, NEW e \in Completed(kind, n, d)
    PROVE  e \in Disks /\ Done(kind, n, e)
<1>1. CASE kind = "activate"
  <2>1. n \in d.stored /\ e = With(n, d)
    BY <1>1 DEF Completed
  <2>2. e = [d EXCEPT !.mirrored = d.mirrored \cup {n}, !.listed = d.listed \cup {n}]
    BY <2>1 DEF With
  <2>3. e \in Disks /\ n \in e.stored \cap e.mirrored \cap e.listed
    BY <2>1, <2>2 DEF Disks
  <2> QED  BY <1>1, <2>3 DEF Done
<1>2. CASE kind = "deactivate"
  <2>1. e = Unmirrored(n, d)
    BY <1>2 DEF Completed
  <2>2. e \in Disks /\ n \notin e.mirrored \cup e.listed
    BY <2>1 DEF Unmirrored, Unlisted, Disks
  <2> QED  BY <1>2, <2>2 DEF Done
<1>3. CASE kind = "delete"
  <2>1. e = Gone(n, d)
    BY <1>3 DEF Completed
  <2>2. e \in Disks /\ n \notin e.stored \cup e.mirrored \cup e.listed
    BY <2>1 DEF Gone, Unmirrored, Unlisted, Disks
  <2> QED  BY <1>3, <2>2 DEF Done
<1>4. CASE kind = "remove"
  <2>1. e = Unlisted(n, d)
    BY <1>4 DEF Completed
  <2>2. e \in Disks /\ n \notin e.listed
    BY <2>1 DEF Unlisted, Disks
  <2> QED  BY <1>4, <2>2 DEF Done
<1>5. CASE kind = "backup"
  <2>1. PICK m \in Names : e = [d EXCEPT !.stored = d.stored \cup {m}]
    BY <1>5 DEF Completed
  <2>2. e \in Disks
    BY <2>1 DEF Disks
  <2> QED  BY <1>5, <2>2 DEF Done
<1>6. CASE kind = "reconcile"
  <2>1. e \in Reconciled(d) /\ e.listed \subseteq e.mirrored
    BY <1>6 DEF Completed
  <2>2. e \in Disks /\ e.listed \subseteq e.stored
    BY <2>1, ReconciledTyped
  <2> QED  BY <1>6, <2>1, <2>2 DEF Done
<1>7. CASE kind = "hook"
  <2>1. e = d
    BY <1>7 DEF Completed
  <2> QED  BY <1>7, <2>1 DEF Done
<1> QED  BY <1>1, <1>2, <1>3, <1>4, <1>5, <1>6, <1>7 DEF JobKinds

LEMMA HalfwayTyped ==
    ASSUME NEW kind \in JobKinds, NEW n, NEW d \in Disks, NEW e \in Halfway(kind, n, d)
    PROVE  e \in Disks
<1>1. CASE kind = "activate"
  <2>1. e = d \/ e = [d EXCEPT !.mirrored = d.mirrored \cup ({n} \cap d.stored)]
    BY <1>1 DEF Halfway
  <2> QED  BY <2>1 DEF Disks
<1>2. CASE kind \in {"deactivate", "delete"}
  <2>1. e = d \/ e = Unlisted(n, d) \/ e = Unmirrored(n, d)
    BY <1>2 DEF Halfway
  <2> QED  BY <2>1 DEF Unmirrored, Unlisted, Disks
<1>3. CASE kind = "reconcile"
  <2>1. PICK ms \in Remirrored(d) : e = [d EXCEPT !.mirrored = ms]
    BY <1>3 DEF Halfway
  <2> QED  BY <2>1 DEF Disks, Remirrored
<1>4. CASE kind \in {"remove", "backup", "hook"}
  <2>1. e = d
    BY <1>4 DEF Halfway
  <2> QED  BY <2>1
<1> QED  BY <1>1, <1>2, <1>3, <1>4 DEF JobKinds

-----------------------------------------------------------------------------
LEMMA KeysInv ==
    ASSUME TaskInv, Keys
    PROVE  TaskInv'
<1>1. CASE KeyWhileBusy \/ CancelDelete \/ SwitchList \/ MoveCursor \/ AskDelete
  <2>1. UNCHANGED taskInvVars
    BY <1>1 DEF KeyWhileBusy, CancelDelete, SwitchList, MoveCursor, AskDelete, taskInvVars,
       taskVars, diskVars
  <2> QED  BY <2>1, TaskFrame
<1>2. CASE Quit
  <2>1. stage = "none" /\ UNCHANGED <<disk, job, stage, answer, overtaken, busy>>
    BY <1>2 DEF Quit, Idle, TaskInv, OneTask, taskVars, diskVars
  <2> QED
    BY <2>1 DEF TaskInv, TaskTypes, OneTask, ClaimInStage, ClaimTrue, ListsTrue, Ended
<1>3. CASE ConfirmDelete \/ ToggleBoot \/ StartGlobalTask \/ RemoveEntry
  <2>1. PICK kind, target : StartTask(kind, target)
    BY <1>3 DEF ConfirmDelete, ToggleBoot, StartGlobalTask, RemoveEntry
  <2>2. ~busy /\ ~quit
    BY <1>3 DEF ConfirmDelete, ToggleBoot, StartGlobalTask, RemoveEntry, Idle
  <2>3. /\ job' = [kind |-> kind, target |-> target] /\ kind \in JobKinds
        /\ stage' = "operating" /\ busy' = TRUE
        /\ UNCHANGED <<disk, answer, overtaken, quit>>
    BY <2>1, TuiConstantsOK DEF StartTask, diskVars, JobKinds
  <2>4. answer.claim = "none"
    BY <2>2 DEF TaskInv, OneTask, ClaimInStage, Ended
  <2>5. TaskTypes'
    BY <2>3 DEF TaskInv, TaskTypes, Stages
  <2> QED
    BY <2>2, <2>3, <2>4, <2>5 DEF TaskInv, OneTask, ClaimInStage, ClaimTrue, ListsTrue, Ended
<1> QED  BY <1>1, <1>2, <1>3 DEF Keys

\* The operation's last step fixes what the task will claim, and the disk shows
\* it then.
LEMMA OperationEndsInv ==
    ASSUME TaskInv, OperationEnds, ~quit
    PROVE  TaskInv'
<1>1. PICK outcome \in {"ok", "error", "warn"} :
          /\ disk' \in IF outcome = "error" THEN Halfway(job.kind, job.target, disk)
                       ELSE Completed(job.kind, job.target, disk)
          /\ answer' = [claim |-> Reported(outcome), lists |-> FALSE, found |-> answer.found,
                        focus |-> Focus(disk, disk')]
          /\ stage' = IF Reported(outcome) = "done" /\ job.kind # "hook"
                      THEN "discovering" ELSE "closing"
  BY DEF OperationEnds
<1>2. /\ stage = "operating" /\ job.kind # "reconcile" /\ job.kind \in JobKinds
      /\ disk \in Disks /\ overtaken' = FALSE
      /\ UNCHANGED <<job, busy, quit>>
      /\ IsAnswer(answer) /\ busy
  BY DEF OperationEnds, uiVars, TaskInv, TaskTypes, OneTask
<1>3. disk' \in Disks
  BY <1>1, <1>2, CompletedDone, HalfwayTyped
<1>4. Reported(outcome) = "done" => outcome # "error" /\ Done(job.kind, job.target, disk')
  <2>1. Reported(outcome) = "done" => outcome # "error"
    BY DEF Reported
  <2>2. outcome # "error" => disk' \in Completed(job.kind, job.target, disk)
    BY <1>1
  <2> QED  BY <1>2, <2>1, <2>2, CompletedDone
<1>5. /\ answer'.claim = Reported(outcome) /\ Reported(outcome) \in {"done", "failed"}
      /\ IsAnswer(answer')
  BY <1>1, <1>2 DEF Reported, IsAnswer, Claims
<1>6. stage' \in {"discovering", "closing"}
  BY <1>1
<1>7. TaskTypes'
  BY <1>2, <1>3, <1>5, <1>6 DEF TaskTypes, Stages
<1>8. OneTask' /\ ClaimInStage'
  BY <1>1, <1>2, <1>5, <1>6 DEF TaskInv, OneTask, ClaimInStage, Ended
<1>9. ClaimTrue'
  BY <1>2, <1>4, <1>5 DEF ClaimTrue
<1>10. ListsTrue'
  BY <1>1, <1>2, <1>5, <1>6 DEF ListsTrue
<1> QED  BY <1>7, <1>8, <1>9, <1>10 DEF TaskInv

\* Reconcile answers with lists of its own; those of a complete one are the disk.
LEMMA ReconcileEndsInv ==
    ASSUME TaskInv, ReconcileEnds, ~quit
    PROVE  TaskInv'
<1>1. PICK complete \in BOOLEAN :
          /\ disk' \in IF complete THEN Completed("reconcile", Nothing, disk)
                       ELSE Reconciled(disk) \cup Halfway("reconcile", Nothing, disk)
          /\ answer' = [claim |-> IF complete THEN "done" ELSE "partial",
                        lists |-> TRUE,
                        found |-> [rows |-> BackupRows(disk), mirrored |-> disk'.mirrored,
                                   flagged |-> disk'.listed, entries |-> Entries(disk'.listed)],
                        focus |-> Nothing]
  BY DEF ReconcileEnds
<1>2. /\ stage = "operating" /\ job.kind = "reconcile" /\ stage' = "closing"
      /\ disk \in Disks /\ overtaken' = FALSE /\ busy
      /\ UNCHANGED <<job, busy, quit>>
  BY DEF ReconcileEnds, uiVars, TaskInv, TaskTypes, OneTask
<1>3. disk' \in Disks
  BY <1>1, <1>2, CompletedDone, HalfwayTyped, ReconciledTyped DEF JobKinds
<1>4. complete => /\ Done("reconcile", Nothing, disk')
                  /\ disk'.stored \subseteq disk.stored /\ disk'.mirrored \subseteq BackupRows(disk)
  <2>1. ASSUME complete PROVE disk' \in Reconciled(disk)
    BY <1>1, <2>1 DEF Completed
  <2> QED  BY <1>1, <1>2, <2>1, CompletedDone, ReconciledTyped DEF JobKinds
<1>5. /\ IsAnswer(answer')
      /\ answer'.claim = (IF complete THEN "done" ELSE "partial")
      /\ answer'.lists = TRUE
      /\ answer'.found.rows = BackupRows(disk) /\ answer'.found.mirrored = disk'.mirrored
      /\ answer'.found.flagged = disk'.listed /\ answer'.found.entries = disk'.listed
  BY <1>1 DEF IsAnswer, Claims, Entries
<1>6. TaskTypes'
  BY <1>2, <1>3, <1>5 DEF TaskTypes, Stages, JobKinds
<1>7. OneTask' /\ ClaimInStage'
  BY <1>2, <1>5 DEF TaskInv, OneTask, ClaimInStage, Ended
<1>8. ClaimTrue'
  <2>1. ASSUME answer'.claim \in {"done", "unrefreshed"} PROVE Done(job'.kind, job'.target, disk')
    <3>1. Done("reconcile", Nothing, disk')
      BY <1>4, <1>5, <2>1
    <3> QED  BY <1>2, <3>1 DEF Done
  <2> QED  BY <2>1 DEF ClaimTrue
<1>9. ListsTrue'
  BY <1>2, <1>4, <1>5 DEF ListsTrue, Showing, BackupRows
<1> QED  BY <1>6, <1>7, <1>8, <1>9 DEF TaskInv

LEMMA ReconcileShortInv ==
    ASSUME TaskInv, ReconcileUnverified \/ ReconcileStops, ~quit
    PROVE  TaskInv'
<1>1. /\ stage = "operating" /\ job.kind = "reconcile" /\ stage' = "closing"
      /\ disk \in Disks /\ overtaken' = FALSE /\ busy /\ IsAnswer(answer)
      /\ UNCHANGED <<job, busy, quit>>
  BY DEF ReconcileUnverified, ReconcileStops, uiVars, TaskInv, TaskTypes, OneTask
<1>2. disk' \in Disks
  BY <1>1, HalfwayTyped, ReconciledTyped DEF ReconcileUnverified, ReconcileStops, JobKinds
<1>3. IsAnswer(answer') /\ answer'.claim \in {"partial", "failed"}
  <2>1. CASE ReconcileUnverified
    BY <2>1 DEF ReconcileUnverified, IsAnswer, Claims
  <2>2. CASE ReconcileStops
    <3>1. answer' = [claim |-> "failed", lists |-> FALSE, focus |-> answer.focus,
                     found |-> answer.found]
      BY <1>1, <2>2 DEF ReconcileStops, IsAnswer
    <3> QED  BY <1>1, <3>1 DEF IsAnswer, Claims
  <2> QED  BY <2>1, <2>2
<1>4. TaskTypes'
  BY <1>1, <1>2, <1>3 DEF TaskTypes, Stages, JobKinds
<1> QED
  BY <1>1, <1>3, <1>4 DEF TaskInv, OneTask, ClaimInStage, ClaimTrue, ListsTrue, Ended

\* The task reads the snapshots and the mirrors, then the entries; what it has
\* read stays true until another process changes it.
LEMMA RefreshInv ==
    ASSUME TaskInv, DiscoverBackups \/ ListGrubEntries \/ RefreshFails \/ CloseOutput
    PROVE  TaskInv'
<1>0. /\ UNCHANGED <<disk, job, overtaken, busy, quit>> /\ IsAnswer(answer)
      /\ Done(job.kind, job.target, disk)' = Done(job.kind, job.target, disk)
  BY DEF DiscoverBackups, ListGrubEntries, RefreshFails, CloseOutput, uiVars, diskVars,
     TaskInv, TaskTypes, Done
<1>1. CASE DiscoverBackups
  <2>1. /\ IsAnswer(answer') /\ answer'.claim = answer.claim
        /\ answer'.found.rows = BackupRows(disk) /\ answer'.found.mirrored = disk.mirrored
        /\ stage = "discovering" /\ stage' = "listing"
    BY <1>0, <1>1 DEF DiscoverBackups, Fresh, IsAnswer
  <2> QED
    BY <1>0, <2>1 DEF TaskInv, TaskTypes, Stages, OneTask, ClaimInStage, ClaimTrue, ListsTrue,
       Ended, Showing, BackupRows
<1>2. CASE ListGrubEntries
  <2>1. /\ answer'.claim = answer.claim /\ answer'.lists = TRUE
        /\ answer'.found.rows = answer.found.rows
        /\ answer'.found.mirrored = answer.found.mirrored
        /\ answer'.found.flagged = disk.listed /\ answer'.found.entries = disk.listed
        /\ stage = "listing" /\ stage' = "closing"
        /\ IsAnswer(answer')
    BY <1>0, <1>2 DEF ListGrubEntries, Entries, IsAnswer
  <2> QED
    BY <1>0, <2>1 DEF TaskInv, TaskTypes, Stages, OneTask, ClaimInStage, ClaimTrue, ListsTrue,
       Ended, Showing, BackupRows
<1>3. CASE RefreshFails
  <2>1. IsAnswer(answer') /\ answer'.claim = "unrefreshed"
        /\ stage = "listing" /\ stage' = "closing"
    BY <1>0, <1>3 DEF RefreshFails, IsAnswer, Claims
  <2> QED
    BY <1>0, <2>1 DEF TaskInv, TaskTypes, Stages, OneTask, ClaimInStage, ClaimTrue, ListsTrue,
       Ended
<1>4. CASE CloseOutput
  <2>1. answer' = answer /\ stage = "closing" /\ stage' = "answered"
    BY <1>4 DEF CloseOutput
  <2> QED
    BY <1>0, <2>1 DEF TaskInv, TaskTypes, Stages, OneTask, ClaimInStage, ClaimTrue, ListsTrue,
       Ended, Showing, BackupRows
<1> QED  BY <1>1, <1>2, <1>3, <1>4

LEMMA MessageInv ==
    ASSUME TaskInv, HandleFailure \/ HandleDone
    PROVE  TaskInv'
<1>1. /\ busy' = FALSE /\ stage' = "none" /\ answer' = NoAnswer
      /\ UNCHANGED <<disk, job, overtaken, quit>>
  BY DEF HandleFailure, HandleDone, diskVars
<1>2. TaskTypes'
  BY <1>1 DEF TaskInv, TaskTypes, Stages, NoAnswer, IsAnswer, Claims
<1> QED
  BY <1>1, <1>2 DEF TaskInv, OneTask, ClaimInStage, ClaimTrue, ListsTrue, Ended, NoAnswer

LEMMA ForeignInv ==
    ASSUME TaskInv, ForeignOperation
    PROVE  TaskInv'
<1>1. /\ overtaken' = TRUE
      /\ UNCHANGED <<job, stage, answer, busy, quit>>
  BY DEF ForeignOperation, uiVars, taskVars
<1>2. disk' \in Disks
  BY CompletedDone DEF ForeignOperation, TaskInv, TaskTypes, JobKinds
<1> QED
  BY <1>1, <1>2 DEF TaskInv, TaskTypes, OneTask, ClaimInStage, ClaimTrue, ListsTrue, Ended

LEMMA TaskNextInv ==
    ASSUME TaskInv, [TuiNext]_vars
    PROVE  TaskInv'
<1>1. CASE TuiNext /\ Keys
  BY <1>1, KeysInv
<1>2. CASE TuiNext /\ TaskSteps
  <2>1. CASE RunCommand
    <3>1. UNCHANGED taskInvVars
      BY <2>1 DEF RunCommand, taskInvVars, uiVars, taskVars, diskVars
    <3> QED  BY <3>1, TaskFrame
  <2> QED
    BY <1>2, <2>1, OperationEndsInv, ReconcileEndsInv, ReconcileShortInv, RefreshInv
       DEF TuiNext, TaskSteps
<1>3. CASE TuiNext /\ Messages
  <2>1. CASE \E t \in Tasks : ReadOutput(t) \/ ReadClosed(t) \/ HandleOutput(t)
    <3>1. UNCHANGED taskInvVars
      BY <2>1 DEF ReadOutput, ReadClosed, HandleOutput, taskInvVars, uiVars, taskVars, diskVars
    <3> QED  BY <3>1, TaskFrame
  <2> QED  BY <1>3, <2>1, MessageInv DEF Messages
<1>4. CASE ForeignOperation
  BY <1>4, ForeignInv
<1>5. CASE DeliverLine \/ Frame \/ UNCHANGED vars
  <2>1. UNCHANGED taskInvVars
    BY <1>5 DEF DeliverLine, Frame, vars, taskInvVars, uiVars, taskVars, diskVars
  <2> QED  BY <2>1, TaskFrame
<1> QED  BY <1>1, <1>2, <1>3, <1>4, <1>5 DEF TuiNext

LEMMA TaskAlways == TuiSpec => []TaskInv
<1>1. TuiInit => TaskInv
  BY TaskInitInv
<1>2. TaskInv /\ [TuiNext]_vars => TaskInv'
  BY TaskNextInv
<1> QED  BY <1>1, <1>2, PTL DEF TuiSpec

\* Whatever keys and messages arrive, Update leaves the program only when no
\* task runs, and none starts afterwards.
THEOREM NoQuitInTask == TuiSpec => []QuitOnlyIdle
<1>1. TaskInv => QuitOnlyIdle
  BY DEF TaskInv, OneTask, QuitOnlyIdle
<1> QED  BY <1>1, TaskAlways, PTL

\* Only Update's handlers of a task's end make the interface idle again.
LEMMA TaskEndsInUpdate ==
    ASSUME [TuiNext]_vars, busy, ~busy'
    PROVE  HandleFailure \/ HandleDone
<1>1. Keys => busy'
  BY DEF Keys, KeyWhileBusy, ConfirmDelete, CancelDelete, Quit, SwitchList, MoveCursor,
     ToggleBoot, StartGlobalTask, RemoveEntry, AskDelete, Idle
<1>2. TaskSteps \/ DeliverLine \/ ForeignOperation \/ Frame \/ UNCHANGED vars => UNCHANGED busy
  BY DEF TaskSteps, RunCommand, OperationEnds, ReconcileEnds, ReconcileUnverified,
     ReconcileStops, DiscoverBackups, ListGrubEntries, RefreshFails, CloseOutput,
     DeliverLine, ForeignOperation, Frame, vars, uiVars
<1>3. (\E t \in Tasks : ReadOutput(t) \/ ReadClosed(t) \/ HandleOutput(t)) => UNCHANGED busy
  BY DEF ReadOutput, ReadClosed, HandleOutput, uiVars
<1> QED  BY <1>1, <1>2, <1>3 DEF TuiNext, Messages

\* What the status line says was done is so, unless another process changed the
\* disk after the operation ended.
THEOREM ClaimsTrue == TuiSpec => ClaimsHold
<1>1. ASSUME TaskInv, [TuiNext]_vars, busy, ~busy', claim' \in {"done", "unrefreshed"}, ~overtaken
      PROVE  Done(job.kind, job.target, disk)
  <2>1. stage = "answered" /\ claim' = answer.claim
    BY <1>1, TaskEndsInUpdate DEF HandleFailure, HandleDone
  <2> QED  BY <1>1, <2>1 DEF TaskInv, ClaimTrue, Ended
<1>2. TaskInv /\ [TuiNext]_vars =>
         [busy /\ ~busy' /\ claim' \in {"done", "unrefreshed"} /\ ~overtaken
             => Done(job.kind, job.target, disk)]_vars
  BY <1>1
<1> QED  BY <1>2, TaskAlways, PTL DEF TuiSpec, ClaimsHold

\* The lists shown after a task are those of the disk, unless another process
\* changed it after the operation ended.
THEOREM ListsTrueAfter == TuiSpec => ListsFresh
<1>1. ASSUME TaskInv, [TuiNext]_vars, busy, ~busy', claim' = "done",
             job.kind # "hook", ~overtaken
      PROVE  /\ shown'.entries = disk.listed /\ shown'.flagged = disk.listed
             /\ shown'.mirrored = disk.mirrored
             /\ BackupRows(disk) \subseteq shown'.rows
  <2>1. HandleDone
    BY <1>1, TaskEndsInUpdate DEF HandleFailure, HandleDone
  <2>2. stage = "answered" /\ answer.claim = "done"
    BY <1>1, <2>1 DEF HandleDone
  <2>3. /\ answer.lists /\ Showing(answer.found)
        /\ answer.found.flagged = disk.listed /\ answer.found.entries = disk.listed
    BY <1>1, <2>2 DEF TaskInv, ListsTrue
  <2>4. disk.listed # NotListed
    BY <1>1, NamesPositive DEF TaskInv, TaskTypes, Disks, NotListed
  <2>5. shown' = answer.found
    BY <2>1, <2>3, <2>4 DEF HandleDone
  <2> QED  BY <2>3, <2>5 DEF Showing
<1>2. TaskInv /\ [TuiNext]_vars =>
         [busy /\ ~busy' /\ claim' = "done" /\ job.kind # "hook" /\ ~overtaken
             => /\ shown'.entries = disk.listed /\ shown'.flagged = disk.listed
                /\ shown'.mirrored = disk.mirrored
                /\ BackupRows(disk) \subseteq shown'.rows]_vars
  BY <1>1
<1> QED  BY <1>2, TaskAlways, PTL DEF TuiSpec, ListsFresh

-----------------------------------------------------------------------------
LineTypes ==
    /\ output \in [Tasks -> Seq(Nat)]
    /\ sink \in Nat /\ tasks \in Nat

lineTypeVars == <<output, sink, tasks>>

\* Lines arrive in the channel of the sink's task, if it is open, and leave from
\* the head.
LineStep ==
    \/ UNCHANGED lineTypeVars
    \/ output' = output /\ tasks' = tasks + 1 /\ sink' = sink
    \/ output' = output /\ tasks' = tasks /\ sink' = tasks
    \/ Accept(sink, sink) /\ UNCHANGED <<sink, tasks>>
    \/ \E t \in Tasks : /\ output[t] # <<>>
                         /\ output' = [output EXCEPT ![t] = Tail(@)]
                         /\ UNCHANGED <<sink, tasks>>

LEMMA LinesMove ==
    ASSUME [TuiNext]_vars
    PROVE  LineStep
<1>1. CASE Keys
  <2>1. CASE ConfirmDelete \/ ToggleBoot \/ StartGlobalTask \/ RemoveEntry
    BY <2>1 DEF ConfirmDelete, ToggleBoot, StartGlobalTask, RemoveEntry, StartTask,
       LineStep, outputVars
  <2>2. CASE KeyWhileBusy \/ CancelDelete \/ Quit \/ SwitchList \/ MoveCursor \/ AskDelete
    BY <2>2 DEF KeyWhileBusy, CancelDelete, Quit, SwitchList, MoveCursor, AskDelete,
       LineStep, lineTypeVars, taskVars, lineVars, outputVars
  <2> QED  BY <1>1, <2>1, <2>2 DEF Keys
<1>2. CASE TaskSteps
  <2>1. CASE RunCommand
    BY <2>1 DEF RunCommand, StartCommand, LineStep, lineTypeVars, taskVars, lineVars
  <2>2. CASE ~RunCommand
    BY <1>2, <2>2 DEF TaskSteps, OperationEnds, ReconcileEnds, ReconcileUnverified,
       ReconcileStops, DiscoverBackups, ListGrubEntries, RefreshFails, CloseOutput,
       LineStep, lineTypeVars, lineVars, outputVars
  <2> QED  BY <2>1, <2>2
<1>3. CASE Messages
  <2>1. CASE HandleFailure \/ HandleDone
    BY <2>1 DEF HandleFailure, HandleDone, LineStep, lineTypeVars, lineVars, outputVars
  <2>2. ASSUME NEW t \in Tasks, ReadOutput(t) \/ ReadClosed(t) \/ HandleOutput(t)
        PROVE  LineStep
    BY <2>2 DEF ReadOutput, ReadClosed, HandleOutput, LineStep, lineTypeVars, taskVars,
       outputVars
  <2> QED  BY <1>3, <2>1, <2>2 DEF Messages
<1>4. CASE DeliverLine
  BY <1>4 DEF DeliverLine, SinkReturns, LineStep, taskVars
<1>5. CASE ForeignOperation \/ UNCHANGED vars
  BY <1>5 DEF ForeignOperation, LineStep, lineTypeVars, taskVars, lineVars, outputVars, vars
<1>6. CASE (CommandSteps \/ WorkerSteps) /\ Frame
  BY <1>6 DEF CommandSteps, ChildWrites, ReadFragment, EmitLine, ReadEnd, ReadFails,
     CloseEvents, ReturnOutput, WorkerSteps, WorkerTakesLine, WorkerEnds, Frame,
     deliveryVars, LineStep, lineTypeVars, taskVars, lineVars
<1> QED  BY <1>1, <1>2, <1>3, <1>4, <1>5, <1>6 DEF TuiNext

LEMMA LineTypesInv ==
    ASSUME LineTypes, LineStep
    PROVE  LineTypes'
<1>1. CASE Accept(sink, sink) /\ UNCHANGED <<sink, tasks>>
  <2>1. CASE output' = output
    BY <1>1, <2>1 DEF LineTypes
  <2>2. CASE output' = [output EXCEPT ![sink] = Append(output[sink], sink)]
    <3>1. CASE sink \in Tasks
      <4>1. output[sink] \in Seq(Nat) /\ sink \in Nat
        BY <3>1 DEF LineTypes
      <4>2. Append(output[sink], sink) \in Seq(Nat)
        BY <4>1
      <4> QED  BY <1>1, <2>2, <4>2 DEF LineTypes
    <3>2. CASE sink \notin Tasks
      BY <1>1, <2>2, <3>2 DEF LineTypes
    <3> QED  BY <3>1, <3>2
  <2> QED  BY <1>1, <2>1, <2>2 DEF Accept
<1>2. CASE \E t \in Tasks : /\ output[t] # <<>>
                           /\ output' = [output EXCEPT ![t] = Tail(@)]
                           /\ UNCHANGED <<sink, tasks>>
  BY <1>2 DEF LineTypes
<1>3. CASE UNCHANGED lineTypeVars
  BY <1>3 DEF LineTypes, lineTypeVars
<1>4. CASE /\ output' = output
           /\ \/ tasks' = tasks + 1 /\ sink' = sink
              \/ tasks' = tasks /\ sink' = tasks
  BY <1>4 DEF LineTypes
<1> QED  BY <1>1, <1>2, <1>3, <1>4 DEF LineStep

\* What a step may do to a channel, of whichever task.
LEMMA LinesInOrder ==
    ASSUME LineTypes, LineStep, NEW t \in Tasks
    PROVE  /\ t \in closed => Len(output'[t]) <= Len(output[t])
           /\ Len(output'[t]) > Len(output[t]) => sink = t
<1>1. CASE output' = output
  BY <1>1 DEF LineTypes
<1>2. CASE Accept(sink, sink)
  <2>1. CASE output' = output
    BY <2>1 DEF LineTypes
  <2>2. CASE /\ sink \notin closed
             /\ output' = [output EXCEPT ![sink] = Append(output[sink], sink)]
    <3>1. CASE sink = t
      BY <2>2, <3>1
    <3>2. CASE sink # t
      BY <2>2, <3>2 DEF LineTypes
    <3> QED  BY <3>1, <3>2
  <2> QED  BY <1>2, <2>1, <2>2 DEF Accept
<1>3. ASSUME NEW u \in Tasks, output[u] # <<>>, output' = [output EXCEPT ![u] = Tail(@)]
      PROVE  Len(output'[t]) <= Len(output[t])
  BY <1>3 DEF LineTypes
<1>4. Len(output[t]) \in Nat /\ Len(output'[t]) \in Nat
  BY LineTypesInv DEF LineTypes
<1> QED  BY <1>1, <1>2, <1>3, <1>4 DEF LineStep, lineTypeVars

\* A delivery worker that outlives its task reaches neither that task's closed
\* channel nor the channel of another task.
THEOREM LateLinesHarmless == TuiSpec => LateLinesDropped
<1>1. TuiInit => LineTypes
  BY TuiConstantsOK DEF TuiInit, OutputInit, LineTypes
<1>2. LineTypes /\ [TuiNext]_vars => LineTypes'
  BY LinesMove, LineTypesInv
<1>3. LineTypes /\ [TuiNext]_vars => [LinesAddressed]_vars
  BY LinesMove, LinesInOrder DEF LinesAddressed
<1> QED  BY <1>1, <1>2, <1>3, PTL DEF TuiSpec, LateLinesDropped

-----------------------------------------------------------------------------
(* The selection.                                                          *)

LEMMA RowsFinite ==
    ASSUME NEW rows \in SUBSET Names
    PROVE  /\ IsFiniteSet(rows) /\ Cardinality(rows) \in Nat
           /\ Cardinality(rows) = 0 <=> rows = {}
BY TuiConstantsOK, FS_Subset, FS_CardinalityType, FS_EmptySet

\* A name in a list has a row of that list.
LEMMA RowBound ==
    ASSUME NEW rows \in SUBSET Names, NEW n \in rows
    PROVE  RowOf(rows, n) \in Nat /\ RowOf(rows, n) < Cardinality(rows)
<1> DEFINE below == {m \in rows : m < n}
<1>1. below \subseteq rows /\ below # rows
  BY TuiConstantsOK
<1>2. Cardinality(below) \in Nat /\ Cardinality(below) <= Cardinality(rows)
  BY <1>1, RowsFinite, FS_Subset, FS_CardinalityType
<1>3. Cardinality(below) # Cardinality(rows)
  BY <1>1, RowsFinite, FS_Subset
<1> QED  BY <1>2, <1>3, RowsFinite DEF RowOf

\* Two names of a list have two rows.
LEMMA RowsDistinct ==
    ASSUME NEW rows \in SUBSET Names, NEW m \in rows, NEW n \in rows, m < n
    PROVE  RowOf(rows, m) # RowOf(rows, n)
<1> DEFINE small == {k \in rows : k < m}
           large == {k \in rows : k < n}
<1>1. rows \subseteq Nat
  BY TuiConstantsOK
<1>2. small \subseteq large /\ m \in large /\ m \notin small
  <2>1. m \in Nat /\ n \in Nat /\ \A k \in rows : k \in Nat
    BY <1>1
  <2>2. \A k \in rows : k < m => k < n
    BY <2>1
  <2>3. ~(m < m)
    BY <2>1
  <2> QED  BY <2>2, <2>3
<1>3. IsFiniteSet(large)
  BY RowsFinite, FS_Subset
<1>4. Cardinality(small) # Cardinality(large)
  BY <1>2, <1>3, FS_Subset
<1> QED  BY <1>4 DEF RowOf

LEMMA NameOfRow ==
    ASSUME NEW rows \in SUBSET Names, NEW n \in rows
    PROVE  NameAt(rows, RowOf(rows, n)) = n
<1>1. \A m \in rows : RowOf(rows, m) = RowOf(rows, n) => m = n
  <2> SUFFICES ASSUME NEW m \in rows, RowOf(rows, m) = RowOf(rows, n), m # n PROVE FALSE
    OBVIOUS
  <2>1. m \in Nat /\ n \in Nat
    BY TuiConstantsOK
  <2>2. m < n \/ n < m
    BY <2>1
  <2> QED  BY <2>2, RowsDistinct
<1> QED  BY <1>1 DEF NameAt

LEMMA ClampBound ==
    ASSUME NEW rows \in SUBSET Names, NEW i \in Nat
    PROVE  /\ Clamp(i, rows) \in Nat
           /\ rows = {} => Clamp(i, rows) = 0
           /\ rows # {} => Clamp(i, rows) < Cardinality(rows)
BY RowsFinite DEF Clamp

\* The lists shown, and those on their way to Update unless they are nil, are
\* of names; a removal asks for no selection.
ShownInv ==
    /\ mode \in {"backups", "entries"}
    /\ cursor \in Nat
    /\ shown.rows \in SUBSET Names /\ shown.entries \in SUBSET Names
    /\ answer.found.rows \in SUBSET Names
    /\ answer.found.entries \in (SUBSET Names) \cup {NotListed}
    /\ job.kind = "remove" /\ answer.claim = "done" => answer.focus = Nothing
    /\ CursorOnRow

shownVars == <<mode, cursor, shown>>

LEMMA ShownInitInv == TuiInit => ShownInv
<1> SUFFICES ASSUME TuiInit PROVE ShownInv
  OBVIOUS
<1>1. /\ disk.stored \subseteq Names /\ disk.mirrored = {} /\ disk.listed = {}
      /\ mode = "backups" /\ cursor = 0
      /\ shown = Fresh(disk) /\ answer = NoAnswer /\ job.kind = "hook"
  BY TuiConstantsOK DEF TuiInit
<1>2. shown.rows \in SUBSET Names /\ shown.entries = {}
  BY <1>1 DEF Fresh, BackupRows
<1>3. CursorOnRow
  BY <1>1, <1>2, RowsFinite DEF CursorOnRow, Active
<1> QED  BY <1>1, <1>2, <1>3 DEF ShownInv, NoAnswer

LEMMA ShownFrame ==
    ASSUME ShownInv, UNCHANGED shownVars,
           answer'.found.rows \in SUBSET Names,
           answer'.found.entries \in (SUBSET Names) \cup {NotListed},
           job'.kind = "remove" /\ answer'.claim = "done" => answer'.focus = Nothing
    PROVE  ShownInv'
BY DEF ShownInv, shownVars, CursorOnRow, Active

LEMMA ShownKeysInv ==
    ASSUME TaskInv, ShownInv, Keys
    PROVE  ShownInv'
<1>1. CASE SwitchList
  <2>1. /\ mode' = IF mode = "backups" THEN "entries" ELSE "backups"
        /\ cursor' = Clamp(cursor, Active')
        /\ UNCHANGED <<shown, answer, job>>
    BY <1>1 DEF SwitchList, taskVars, Active, ShownInv
  <2>2. Active' \in SUBSET Names
    BY <2>1 DEF Active, ShownInv
  <2>3. cursor' \in Nat /\ CursorOnRow'
    BY <2>1, <2>2, ClampBound DEF CursorOnRow, ShownInv
  <2> QED  BY <2>1, <2>3 DEF ShownInv
<1>2. CASE MoveCursor
  <2>1. PICK n \in Active : cursor' = RowOf(Active, n)
    BY <1>2 DEF MoveCursor
  <2>2. UNCHANGED <<mode, shown, answer, job>>
    BY <1>2 DEF MoveCursor, taskVars
  <2>3. Active' = Active /\ Active \in SUBSET Names
    BY <2>2 DEF Active, ShownInv
  <2>4. cursor' \in Nat /\ CursorOnRow'
    BY <2>1, <2>3, RowBound DEF CursorOnRow
  <2> QED  BY <2>2, <2>4 DEF ShownInv
<1>3. CASE ConfirmDelete \/ ToggleBoot \/ StartGlobalTask \/ RemoveEntry
  <2>1. ~busy /\ UNCHANGED <<shownVars, answer>>
    BY <1>3 DEF ConfirmDelete, ToggleBoot, StartGlobalTask, RemoveEntry, StartTask, Idle,
       shownVars
  <2>2. answer.claim = "none"
    BY <2>1 DEF TaskInv, OneTask, ClaimInStage, Ended
  <2> QED  BY <2>1, <2>2, ShownFrame DEF ShownInv
<1>4. CASE KeyWhileBusy \/ CancelDelete \/ Quit \/ AskDelete
  <2>1. UNCHANGED <<shownVars, answer, job>>
    BY <1>4 DEF KeyWhileBusy, CancelDelete, Quit, AskDelete, shownVars, taskVars
  <2> QED  BY <2>1, ShownFrame DEF ShownInv
<1> QED  BY <1>1, <1>2, <1>3, <1>4 DEF Keys

\* Operations other than activation, deactivation and backup ask for nothing.
LEMMA RemovalHasNoFocus ==
    ASSUME job.kind = "remove", disk \in Disks, disk' \in Completed("remove", job.target, disk)
    PROVE  Focus(disk, disk') = Nothing
<1>1. disk' = Unlisted(job.target, disk)
  BY DEF Completed
<1>2. disk'.stored \subseteq disk.stored
  BY <1>1 DEF Unlisted, Disks
<1> QED  BY <1>2 DEF Focus

LEMMA ShownTaskInv ==
    ASSUME TaskInv, ShownInv, TaskSteps
    PROVE  ShownInv'
<1>1. UNCHANGED <<shownVars, job>>
  BY DEF TaskSteps, RunCommand, OperationEnds, ReconcileEnds, ReconcileUnverified,
     ReconcileStops, DiscoverBackups, ListGrubEntries, RefreshFails, CloseOutput,
     shownVars, uiVars, taskVars
<1>2. IsAnswer(answer) /\ disk \in Disks /\ job.kind \in JobKinds
  BY DEF TaskInv, TaskTypes
<1>3. CASE OperationEnds
  <2>1. PICK outcome \in {"ok", "error", "warn"} :
            /\ disk' \in IF outcome = "error" THEN Halfway(job.kind, job.target, disk)
                         ELSE Completed(job.kind, job.target, disk)
            /\ answer' = [claim |-> Reported(outcome), lists |-> FALSE,
                          found |-> answer.found, focus |-> Focus(disk, disk')]
    BY <1>3 DEF OperationEnds
  <2>2. job.kind = "remove" /\ answer'.claim = "done" => answer'.focus = Nothing
    BY <1>2, <2>1, RemovalHasNoFocus DEF Reported
  <2> QED  BY <1>1, <2>1, <2>2, ShownFrame DEF ShownInv
<1>4. CASE ReconcileEnds
  <2>1. /\ answer'.found.rows = BackupRows(disk) /\ answer'.found.entries = disk'.listed
        /\ job.kind = "reconcile"
    BY <1>4 DEF ReconcileEnds, Entries
  <2>2. disk' \in Disks
    BY <1>2, <1>4, CompletedDone, HalfwayTyped, ReconciledTyped DEF ReconcileEnds, JobKinds
  <2> QED  BY <1>1, <1>2, <2>1, <2>2, ShownFrame DEF BackupRows, Disks
<1>5. CASE ReconcileUnverified
  <2>1. /\ answer'.found.rows = BackupRows(disk) /\ answer'.found.entries = NotListed
        /\ job.kind = "reconcile"
    BY <1>5 DEF ReconcileUnverified
  <2>2. BackupRows(disk) \in SUBSET Names
    BY <1>2 DEF BackupRows, Disks
  <2>3. answer'.found.rows \in SUBSET Names /\ job'.kind # "remove"
    BY <1>1, <2>1, <2>2
  <2>4. answer'.found.entries \in (SUBSET Names) \cup {NotListed}
    BY <2>1
  <2>5. UNCHANGED shownVars
    BY <1>1
  <2> QED  BY <2>3, <2>4, <2>5, ShownFrame
<1>6. CASE DiscoverBackups
  <2>1. /\ answer'.found.rows = BackupRows(disk) /\ answer'.found.entries = disk.listed
        /\ answer'.claim = answer.claim /\ answer'.focus = answer.focus
    BY <1>2, <1>6 DEF DiscoverBackups, Fresh, IsAnswer
  <2> QED  BY <1>1, <1>2, <2>1, ShownFrame DEF BackupRows, Disks, ShownInv
<1>7. CASE ListGrubEntries
  <2>1. /\ answer'.found.rows = answer.found.rows /\ answer'.found.entries = disk.listed
        /\ answer'.claim = answer.claim /\ answer'.focus = answer.focus
    BY <1>2, <1>7 DEF ListGrubEntries, Entries, IsAnswer
  <2> QED  BY <1>1, <1>2, <2>1, ShownFrame DEF Disks, ShownInv
<1>8. CASE ReconcileStops \/ RefreshFails \/ CloseOutput \/ RunCommand
  <2>1. /\ answer'.found = answer.found
        /\ answer'.claim = "done" => answer'.claim = answer.claim /\ answer'.focus = answer.focus
    BY <1>2, <1>8 DEF ReconcileStops, RefreshFails, CloseOutput, RunCommand, taskVars, IsAnswer
  <2> QED  BY <1>1, <2>1, ShownFrame DEF ShownInv
<1> QED  BY <1>3, <1>4, <1>5, <1>6, <1>7, <1>8 DEF TaskSteps

\* The lists Update shows after a task, and what is selected in them.
LEMMA ShownDone ==
    ASSUME TaskInv, ShownInv, HandleDone
    PROVE  /\ shown'.rows \in SUBSET Names /\ shown'.entries \in SUBSET Names
           /\ mode' \in {"backups", "entries"}
           /\ Active' \in SUBSET Names
           /\ cursor' = CursorAfterTask(Active')
<1>1. IsAnswer(answer)
  BY DEF TaskInv, TaskTypes
<1>2. shown'.rows \in SUBSET Names /\ shown'.entries \in SUBSET Names
  <2>1. CASE ~answer.lists
    <3>1. shown' = shown
      BY <2>1 DEF HandleDone
    <3> QED  BY <3>1 DEF ShownInv
  <2>2. CASE answer.lists /\ answer.found.entries # NotListed
    <3>1. shown' = answer.found
      BY <2>2 DEF HandleDone
    <3> QED  BY <2>2, <3>1 DEF ShownInv
  <2>3. CASE answer.lists /\ answer.found.entries = NotListed
    <3>1. shown' = [answer.found EXCEPT !.entries = shown.entries]
      BY <2>3 DEF HandleDone
    <3>2. shown'.rows = answer.found.rows /\ shown'.entries = shown.entries
      BY <1>1, <3>1 DEF IsAnswer
    <3> QED  BY <3>2 DEF ShownInv
  <2> QED  BY <1>1, <2>1, <2>2, <2>3 DEF IsAnswer
<1>3. /\ mode' = IF job.kind = "remove" THEN "entries" ELSE "backups"
      /\ cursor' = CursorAfterTask(IF job.kind = "remove" THEN shown'.entries ELSE shown'.rows)
  BY DEF HandleDone
<1> QED  BY <1>2, <1>3 DEF Active

LEMMA ShownMessageInv ==
    ASSUME TaskInv, ShownInv, Messages
    PROVE  ShownInv'
<1>1. CASE HandleDone
  <2>1. cursor' \in Nat /\ CursorOnRow'
    BY <1>1, ShownDone, RowBound, ClampBound DEF CursorAfterTask, CursorOnRow, ShownInv
  <2>2. answer' = NoAnswer
    BY <1>1 DEF HandleDone
  <2> QED  BY <1>1, <2>1, <2>2, ShownDone DEF ShownInv, NoAnswer
<1>2. CASE HandleFailure
  <2>1. UNCHANGED shownVars /\ answer' = NoAnswer
    BY <1>2 DEF HandleFailure, shownVars
  <2> QED  BY <2>1, ShownFrame DEF NoAnswer
<1>3. CASE \E t \in Tasks : ReadOutput(t) \/ ReadClosed(t) \/ HandleOutput(t)
  <2>1. UNCHANGED <<shownVars, answer, job>>
    BY <1>3 DEF ReadOutput, ReadClosed, HandleOutput, shownVars, uiVars, taskVars
  <2> QED  BY <2>1, ShownFrame DEF ShownInv
<1> QED  BY <1>1, <1>2, <1>3 DEF Messages

LEMMA ShownNextInv ==
    ASSUME TaskInv, ShownInv, [TuiNext]_vars
    PROVE  ShownInv'
<1>1. CASE DeliverLine \/ ForeignOperation \/ Frame \/ UNCHANGED vars
  <2>1. UNCHANGED <<shownVars, answer, job>>
    BY <1>1 DEF DeliverLine, ForeignOperation, Frame, vars, shownVars, uiVars, taskVars
  <2> QED  BY <2>1, ShownFrame DEF ShownInv
<1> QED  BY <1>1, ShownKeysInv, ShownTaskInv, ShownMessageInv DEF TuiNext

LEMMA ShownAlways == TuiSpec => []ShownInv
<1>1. TuiInit => ShownInv
  BY ShownInitInv
<1>2. TaskInv /\ ShownInv /\ [TuiNext]_vars => ShownInv'
  BY ShownNextInv
<1> QED  BY <1>1, <1>2, TaskAlways, PTL DEF TuiSpec

\* Whatever a task or another process does to the lists, the selection is a row
\* of the list shown, so that no key acts on a row that is not there.
THEOREM CursorSafe == TuiSpec => []CursorOnRow
<1>1. ShownInv => CursorOnRow
  BY DEF ShownInv
<1> QED  BY <1>1, ShownAlways, PTL

\* After an activation or a backup the snapshot it was about is the one the next
\* key acts on.
THEOREM FocusFollowed == TuiSpec => SelectionFollows
<1>1. ASSUME TaskInv, ShownInv, [TuiNext]_vars, busy, ~busy', claim' = "done",
             answer.focus \in shown'.rows
      PROVE  mode' = "backups" /\ NameAt(shown'.rows, cursor') = answer.focus
  <2>1. HandleDone
    BY <1>1, TaskEndsInUpdate DEF HandleFailure, HandleDone
  <2>2. answer.claim = "done" /\ answer.focus \in Names
    BY <1>1, <2>1, ShownDone DEF HandleDone
  <2>3. job.kind # "remove"
    BY <1>1, <2>2, NamesPositive DEF ShownInv
  <2>4. mode' = "backups" /\ cursor' = RowOf(shown'.rows, answer.focus)
    BY <1>1, <2>1, <2>3 DEF HandleDone, CursorAfterTask
  <2> QED  BY <1>1, <2>1, <2>4, ShownDone, NameOfRow
<1>2. TaskInv /\ ShownInv /\ [TuiNext]_vars =>
         [busy /\ ~busy' /\ claim' = "done" /\ answer.focus \in shown'.rows
             => mode' = "backups" /\ NameAt(shown'.rows, cursor') = answer.focus]_vars
  BY <1>1
<1> QED  BY <1>2, TaskAlways, ShownAlways, PTL DEF TuiSpec, SelectionFollows

-----------------------------------------------------------------------------
(* Types.                                                                  *)

\* Every row of a list has a name.
LEMMA RowHasName ==
    ASSUME NEW rows \in SUBSET Names, NEW i \in Nat, i < Cardinality(rows)
    PROVE  NameAt(rows, i) \in rows
<1> DEFINE size == Cardinality(rows)
           row == [n \in rows |-> RowOf(rows, n)]
<1>1. IsFiniteSet(rows) /\ size \in Nat
  BY RowsFinite
<1>2. row \in [rows -> 0 .. size - 1]
  <2>1. \A n \in rows : RowOf(rows, n) \in Nat /\ RowOf(rows, n) < size
    BY RowBound
  <2> HIDE DEF size
  <2> QED  BY <1>1, <2>1
<1>3. \A m \in rows, n \in rows : row[m] = row[n] => m = n
  <2> SUFFICES ASSUME NEW m \in rows, NEW n \in rows, RowOf(rows, m) = RowOf(rows, n) PROVE m = n
    OBVIOUS
  <2> QED  BY NameOfRow
<1> HIDE DEF row, size
<1>4. row \in Injection(rows, 0 .. size - 1)
  BY <1>2, <1>3 DEF Injection, IsInjective
<1>5. IsFiniteSet(0 .. size - 1) /\ Cardinality(0 .. size - 1) = size
  BY <1>1, FS_Interval
<1>6. row \in Surjection(rows, 0 .. size - 1)
  BY <1>4, <1>5, FS_Injection DEF size
<1>7. i \in 0 .. size - 1
  BY <1>1 DEF size
<1>8. PICK n \in rows : row[n] = i
  BY <1>6, <1>7 DEF Surjection
<1>9. RowOf(rows, n) = i
  BY <1>8 DEF row
<1> QED  BY <1>9, NameOfRow

LEMMA SelectedNamed ==
    ASSUME ShownInv, Active # {}
    PROVE  Selected \in Names
<1>1. Active \in SUBSET Names /\ cursor \in Nat /\ cursor < Cardinality(Active)
  BY DEF ShownInv, Active, CursorOnRow
<1> QED  BY <1>1, RowHasName DEF Selected

\* Lists on their way whose entries are nil.
NilLists == {[l EXCEPT !.entries = NotListed] : l \in Lists}

\* What Update owns and what a task's request and answer name.
UiTypes ==
    /\ shown \in Lists
    /\ confirm \in Names \cup {Nothing}
    /\ job.target \in Names \cup {Nothing}
    /\ claim \in Claims
    /\ answer.found \in Lists \cup NilLists
    /\ quit \in BOOLEAN

uiTypeVars == <<shown, confirm, job, claim, answer, quit>>

LEMMA FreshTyped == \A d \in Disks : Fresh(d) \in Lists
BY DEF Fresh, BackupRows, Disks, Lists

LEMMA UiInitTypes == TuiInit => UiTypes
<1> SUFFICES ASSUME TuiInit PROVE UiTypes
  OBVIOUS
<1>1. disk \in Disks
  BY TaskInitInv DEF TaskInv, TaskTypes
<1> QED  BY <1>1, FreshTyped DEF TuiInit, UiTypes, Claims, NoAnswer, Lists

LEMMA UiFrame == UiTypes /\ UNCHANGED uiTypeVars => UiTypes'
BY DEF UiTypes, uiTypeVars

LEMMA UiKeysTypes ==
    ASSUME ShownInv, UiTypes, Keys
    PROVE  UiTypes'
<1>1. CASE KeyWhileBusy \/ SwitchList \/ MoveCursor
  <2>1. UNCHANGED uiTypeVars
    BY <1>1 DEF KeyWhileBusy, SwitchList, MoveCursor, uiTypeVars, taskVars
  <2> QED  BY <2>1, UiFrame
<1>2. CASE CancelDelete \/ Quit
  BY <1>2 DEF CancelDelete, Quit, UiTypes, Claims, taskVars
<1>3. CASE AskDelete
  <2>1. Selected \in Names
    BY <1>3, SelectedNamed DEF AskDelete, Active
  <2> QED  BY <1>3, <2>1 DEF AskDelete, UiTypes, taskVars
<1>4. CASE ConfirmDelete \/ ToggleBoot \/ StartGlobalTask \/ RemoveEntry
  <2>1. PICK kind \in Kinds, target \in Names \cup {Nothing} : StartTask(kind, target)
    <3>1. CASE ConfirmDelete
      BY <3>1 DEF ConfirmDelete, UiTypes, StartTask
    <3>2. CASE ToggleBoot
      <4>1. Selected \in Names
        BY <3>2, SelectedNamed DEF ToggleBoot, Active
      <4>2. \A kind : StartTask(kind, Selected) => kind \in Kinds
        BY DEF StartTask
      <4> QED  BY <3>2, <4>1, <4>2 DEF ToggleBoot
    <3>3. CASE StartGlobalTask
      BY <3>3 DEF StartGlobalTask, StartTask
    <3>4. CASE RemoveEntry
      <4>1. mode # "backups"
        BY <3>4 DEF RemoveEntry
      <4>2. Selected \in Names
        BY <3>4, <4>1, SelectedNamed DEF RemoveEntry, Active
      <4> QED  BY <3>4, <4>2 DEF RemoveEntry, StartTask
    <3> QED  BY <1>4, <3>1, <3>2, <3>3, <3>4
  <2>2. confirm' = Nothing \/ confirm' = confirm
    BY <1>4 DEF ConfirmDelete, ToggleBoot, StartGlobalTask, RemoveEntry
  <2> QED  BY <2>1, <2>2 DEF StartTask, UiTypes, Claims
<1> QED  BY <1>1, <1>2, <1>3, <1>4 DEF Keys

LEMMA UiTaskTypes ==
    ASSUME TaskInv, UiTypes, [TuiNext]_vars, TaskSteps
    PROVE  UiTypes'
<1>1. UNCHANGED <<shown, confirm, claim, job, quit>>
  BY DEF TaskSteps, RunCommand, OperationEnds, ReconcileEnds, ReconcileUnverified,
     ReconcileStops, DiscoverBackups, ListGrubEntries, RefreshFails, CloseOutput,
     uiVars, taskVars
<1> SUFFICES answer'.found \in Lists \cup NilLists
  BY <1>1 DEF UiTypes
<1>2. IsAnswer(answer) /\ disk \in Disks /\ answer.found \in Lists \cup NilLists
  BY DEF TaskInv, TaskTypes, UiTypes
<1>3. TaskInv'
  BY TaskNextInv
<1>4. disk' \in Disks
  BY <1>3 DEF TaskInv, TaskTypes
<1>5. CASE ReconcileEnds
  <2>1. answer'.found = [rows |-> BackupRows(disk), mirrored |-> disk'.mirrored,
                         flagged |-> disk'.listed, entries |-> disk'.listed]
    BY <1>5 DEF ReconcileEnds, Entries
  <2> QED  BY <1>2, <1>4, <2>1 DEF Disks, Lists, BackupRows
<1>6. CASE ReconcileUnverified
  <2> DEFINE l == [rows |-> BackupRows(disk), mirrored |-> disk'.mirrored,
                   flagged |-> {}, entries |-> {}]
  <2>1. answer'.found = [rows |-> BackupRows(disk), mirrored |-> disk'.mirrored,
                         flagged |-> {}, entries |-> NotListed]
    BY <1>6 DEF ReconcileUnverified
  <2>2. answer'.found = [l EXCEPT !.entries = NotListed]
    BY <2>1
  <2>3. l \in Lists
    BY <1>2, <1>4 DEF Disks, Lists, BackupRows
  <2> QED  BY <2>2, <2>3 DEF NilLists
<1>7. CASE DiscoverBackups
  <2>1. answer'.found = Fresh(disk)
    BY <1>2, <1>7 DEF DiscoverBackups, IsAnswer
  <2> QED  BY <1>2, <2>1, FreshTyped
<1>8. CASE ListGrubEntries
  <2>1. answer' = [answer EXCEPT !.lists = TRUE,
                      !.found = [@ EXCEPT !.flagged = disk.listed, !.entries = disk.listed]]
    BY <1>8 DEF ListGrubEntries, Entries
  <2>2. PICK l \in Lists : answer.found = l \/ answer.found = [l EXCEPT !.entries = NotListed]
    BY <1>2 DEF NilLists
  <2>3. answer'.found = [rows |-> l.rows, mirrored |-> l.mirrored,
                         flagged |-> disk.listed, entries |-> disk.listed]
    BY <1>2, <2>1, <2>2 DEF IsAnswer, Lists
  <2> QED  BY <1>2, <2>3 DEF Lists, Disks
<1>9. CASE OperationEnds \/ ReconcileStops \/ RefreshFails \/ CloseOutput \/ RunCommand
  <2>1. answer'.found = answer.found
    <3>1. CASE OperationEnds
      <4>1. PICK c, f : answer' = [claim |-> c, lists |-> FALSE, found |-> answer.found, focus |-> f]
        BY <3>1 DEF OperationEnds
      <4> QED  BY <4>1
    <3>2. CASE ReconcileStops
      BY <1>2, <3>2 DEF ReconcileStops, IsAnswer
    <3>3. CASE RefreshFails
      BY <1>2, <3>3 DEF RefreshFails, IsAnswer
    <3>4. CASE CloseOutput \/ RunCommand
      BY <3>4 DEF CloseOutput, RunCommand, taskVars
    <3> QED  BY <1>9, <3>1, <3>2, <3>3, <3>4
  <2> QED  BY <1>2, <2>1
<1> QED  BY <1>5, <1>6, <1>7, <1>8, <1>9 DEF TaskSteps

LEMMA UiMessageTypes ==
    ASSUME TaskInv, UiTypes, Messages
    PROVE  UiTypes'
<1>1. CASE HandleDone
  <2>1. shown' \in Lists
    <3>1. CASE ~answer.lists
      BY <1>1, <3>1 DEF HandleDone, UiTypes
    <3>2. CASE answer.lists /\ answer.found.entries # NotListed
      <4>1. \A l \in Lists : [l EXCEPT !.entries = NotListed].entries = NotListed
        BY DEF Lists
      <4>2. answer.found \in Lists
        BY <3>2, <4>1 DEF UiTypes, NilLists
      <4> QED  BY <1>1, <3>2, <4>2 DEF HandleDone
    <3>3. CASE answer.lists /\ answer.found.entries = NotListed
      <4>1. shown' = [answer.found EXCEPT !.entries = shown.entries]
        BY <1>1, <3>3 DEF HandleDone
      <4>2. PICK l \in Lists : answer.found = l \/ answer.found = [l EXCEPT !.entries = NotListed]
        BY DEF UiTypes, NilLists
      <4>3. shown' = [rows |-> l.rows, mirrored |-> l.mirrored,
                      flagged |-> l.flagged, entries |-> shown.entries]
        BY <4>1, <4>2 DEF Lists
      <4> QED  BY <4>3 DEF Lists, UiTypes
    <3> QED  BY <3>1, <3>2, <3>3
  <2>2. claim' \in Claims /\ answer' = NoAnswer /\ UNCHANGED <<confirm, job, quit>>
    BY <1>1 DEF HandleDone, Claims
  <2> QED  BY <2>1, <2>2 DEF UiTypes, NoAnswer, Lists
<1>2. CASE HandleFailure
  <2>1. claim' \in Claims /\ answer' = NoAnswer /\ UNCHANGED <<confirm, job, shown, quit>>
    BY <1>2 DEF HandleFailure, Claims
  <2> QED  BY <2>1 DEF UiTypes, NoAnswer, Lists
<1>3. CASE \E t \in Tasks : ReadOutput(t) \/ ReadClosed(t) \/ HandleOutput(t)
  <2>1. UNCHANGED uiTypeVars
    BY <1>3 DEF ReadOutput, ReadClosed, HandleOutput, uiTypeVars, uiVars, taskVars
  <2> QED  BY <2>1, UiFrame
<1> QED  BY <1>1, <1>2, <1>3 DEF Messages

LEMMA UiNextTypes ==
    ASSUME TaskInv, ShownInv, UiTypes, [TuiNext]_vars
    PROVE  UiTypes'
<1>1. CASE DeliverLine \/ ForeignOperation \/ Frame \/ UNCHANGED vars
  <2>1. UNCHANGED uiTypeVars
    BY <1>1 DEF DeliverLine, ForeignOperation, Frame, vars, uiTypeVars, uiVars, taskVars
  <2> QED  BY <2>1, UiFrame
<1> QED  BY <1>1, UiKeysTypes, UiTaskTypes, UiMessageTypes DEF TuiNext

-----------------------------------------------------------------------------
\* The channels of the tasks and of the commands: lines are of tasks that were
\* started, and a worker with a line to deliver has a task's sink.
ChannelTypes ==
    /\ tasks \in 0 .. MaxTasks
    /\ stage # "none" => tasks \in Tasks
    /\ detail \in {Nothing, Notice} \cup Tasks
    /\ closed \subseteq Tasks
    /\ output \in [Tasks -> Seq(Tasks)]
    /\ \A t \in Tasks : Len(output[t]) <= OutputCap
    /\ waiting \in [Tasks -> Nat] /\ posted \in [Tasks -> Nat]
    /\ worker \in {"none", "waiting", "in sink"}
    /\ sink \in Tasks \cup {0}
    /\ worker # "none" => sink \in Tasks
    /\ events \in 0 .. EventCap

workerVars == <<worker, sink, events>>
channelVars == <<tasks, stage, detail, lineVars, workerVars>>

LEMMA BoundsAreNat == MaxTasks \in Nat /\ OutputCap \in Nat /\ EventCap \in Nat /\ OutputCap > 0
BY TuiConstantsOK, OutputConstantsOK

LEMMA ChannelInitTypes == TuiInit => ChannelTypes
BY BoundsAreNat DEF TuiInit, OutputInit, ChannelTypes, Tasks

LEMMA ChannelFrame == ChannelTypes /\ UNCHANGED channelVars => ChannelTypes'
BY DEF ChannelTypes, channelVars, lineVars, workerVars

LEMMA ChannelKeysTypes ==
    ASSUME ChannelTypes, Keys
    PROVE  ChannelTypes'
<1>1. CASE CancelDelete \/ Quit \/ SwitchList \/ MoveCursor \/ AskDelete
  <2>1. UNCHANGED channelVars
    BY <1>1 DEF CancelDelete, Quit, SwitchList, MoveCursor, AskDelete, channelVars, workerVars,
       taskVars, outputVars
  <2> QED  BY <2>1, ChannelFrame
<1>2. CASE KeyWhileBusy
  <2>1. detail' = Notice /\ UNCHANGED <<tasks, stage, lineVars, workerVars>>
    BY <1>2 DEF KeyWhileBusy, taskVars, outputVars, workerVars
  <2> QED  BY <2>1 DEF ChannelTypes, lineVars, workerVars
<1>3. CASE ConfirmDelete \/ ToggleBoot \/ StartGlobalTask \/ RemoveEntry
  <2>1. PICK kind, target : StartTask(kind, target)
    BY <1>3 DEF ConfirmDelete, ToggleBoot, StartGlobalTask, RemoveEntry
  <2>2. /\ tasks < MaxTasks /\ tasks' = tasks + 1 /\ detail' = Nothing
        /\ waiting' = [waiting EXCEPT ![tasks + 1] = 1]
        /\ UNCHANGED <<output, closed, posted, workerVars>>
    BY <2>1 DEF StartTask, outputVars, workerVars
  <2>3. tasks' \in 0 .. MaxTasks /\ tasks' \in Tasks
    <3>1. tasks \in 0 .. MaxTasks
      BY DEF ChannelTypes
    <3> QED  BY <2>2, <3>1, BoundsAreNat DEF Tasks
  <2>4. waiting' \in [Tasks -> Nat]
    BY <2>2 DEF ChannelTypes
  <2> QED  BY <2>2, <2>3, <2>4 DEF ChannelTypes, workerVars
<1> QED  BY <1>1, <1>2, <1>3 DEF Keys

LEMMA ChannelTaskTypes ==
    ASSUME ChannelTypes, TaskSteps
    PROVE  ChannelTypes'
<1>1. CASE RunCommand
  <2>1. tasks \in Tasks
    BY <1>1 DEF RunCommand, ChannelTypes
  <2>2. UNCHANGED <<tasks, stage, detail, lineVars>>
    BY <1>1 DEF RunCommand, uiVars, taskVars
  <2>3. \/ events' = 0 /\ worker' = "waiting" /\ sink' = tasks
        \/ UNCHANGED workerVars
    BY <1>1 DEF RunCommand, StartCommand, workerVars
  <2>4. 0 \in 0 .. EventCap
    BY BoundsAreNat
  <2>5. /\ worker' \in {"none", "waiting", "in sink"} /\ sink' \in Tasks \cup {0}
        /\ worker' # "none" => sink' \in Tasks
        /\ events' \in 0 .. EventCap
    BY <2>1, <2>3, <2>4 DEF ChannelTypes, workerVars
  <2> QED  BY <2>1, <2>2, <2>5 DEF ChannelTypes, lineVars
<1>2. CASE CloseOutput
  <2>1. tasks \in Tasks /\ closed' = closed \cup {tasks}
    BY <1>2 DEF CloseOutput, ChannelTypes
  <2>2. UNCHANGED <<tasks, detail, output, waiting, posted, workerVars>>
    BY <1>2 DEF CloseOutput, uiVars, outputVars, workerVars
  <2> QED  BY <2>1, <2>2 DEF ChannelTypes, workerVars
<1>3. CASE ~RunCommand /\ ~CloseOutput
  <2>1. stage # "none" /\ UNCHANGED <<tasks, detail, lineVars, workerVars>>
    BY <1>3 DEF TaskSteps, OperationEnds, ReconcileEnds, ReconcileUnverified,
       ReconcileStops, DiscoverBackups, ListGrubEntries, RefreshFails, workerVars, uiVars,
       outputVars
  <2> QED  BY <2>1 DEF ChannelTypes, lineVars, workerVars
<1> QED  BY <1>1, <1>2, <1>3

LEMMA ChannelMessageTypes ==
    ASSUME TaskInv, ChannelTypes, Messages
    PROVE  ChannelTypes'
<1>1. CASE HandleFailure \/ HandleDone
  <2>1. stage' = "none" /\ detail' = Nothing /\ UNCHANGED <<tasks, lineVars, workerVars>>
    BY <1>1 DEF HandleFailure, HandleDone, outputVars, workerVars
  <2> QED  BY <2>1 DEF ChannelTypes, lineVars, workerVars
<1>2. ASSUME NEW t \in Tasks, ReadOutput(t)
      PROVE  ChannelTypes'
  <2>1. /\ waiting[t] > 0 /\ output[t] # <<>>
        /\ output' = [output EXCEPT ![t] = Tail(output[t])]
        /\ waiting' = [waiting EXCEPT ![t] = waiting[t] - 1]
        /\ posted' = [posted EXCEPT ![Head(output[t])] = posted[Head(output[t])] + 1]
        /\ UNCHANGED <<tasks, stage, detail, closed, workerVars>>
    BY <1>2 DEF ReadOutput, uiVars, taskVars, outputVars, workerVars
  <2>2. /\ output[t] \in Seq(Tasks) /\ Len(output[t]) <= OutputCap
        /\ waiting[t] \in Nat
    BY DEF ChannelTypes
  <2>3. /\ Tail(output[t]) \in Seq(Tasks) /\ Len(Tail(output[t])) <= OutputCap
        /\ Head(output[t]) \in Tasks
    <3>1. Len(Tail(output[t])) = Len(output[t]) - 1 /\ Len(output[t]) \in Nat
      BY <2>1, <2>2
    <3> QED  BY <2>1, <2>2, <3>1, BoundsAreNat
  <2>4. /\ output' \in [Tasks -> Seq(Tasks)]
        /\ \A u \in Tasks : Len(output'[u]) <= OutputCap
    BY <2>1, <2>3 DEF ChannelTypes
  <2>5. waiting' \in [Tasks -> Nat] /\ posted' \in [Tasks -> Nat]
    <3>1. waiting \in [Tasks -> Nat] /\ posted \in [Tasks -> Nat]
      BY DEF ChannelTypes
    <3>2. waiting[t] - 1 \in Nat /\ posted[Head(output[t])] + 1 \in Nat
      BY <2>1, <2>3, <3>1
    <3> QED  BY <2>1, <3>1, <3>2
  <2> QED  BY <2>1, <2>4, <2>5 DEF ChannelTypes, workerVars
<1>3. ASSUME NEW t \in Tasks, ReadClosed(t)
      PROVE  ChannelTypes'
  <2>1. /\ waiting[t] > 0 /\ waiting' = [waiting EXCEPT ![t] = waiting[t] - 1]
        /\ UNCHANGED <<tasks, stage, detail, output, closed, posted, workerVars>>
    BY <1>3 DEF ReadClosed, uiVars, taskVars, outputVars, workerVars
  <2>2. waiting \in [Tasks -> Nat]
    BY DEF ChannelTypes
  <2>3. waiting' \in [Tasks -> Nat]
    BY <2>1, <2>2
  <2> QED  BY <2>1, <2>3 DEF ChannelTypes, workerVars
<1>4. ASSUME NEW t \in Tasks, HandleOutput(t)
      PROVE  ChannelTypes'
  <2>1. /\ posted[t] > 0 /\ posted' = [posted EXCEPT ![t] = posted[t] - 1]
        /\ UNCHANGED <<tasks, stage, output, closed, workerVars>>
        /\ \/ /\ stage # "none" /\ detail' = t
              /\ waiting' = [waiting EXCEPT ![tasks] = waiting[tasks] + 1]
           \/ UNCHANGED <<detail, waiting>>
    BY <1>4 DEF HandleOutput, TaskInv, OneTask, taskVars, outputVars, workerVars
  <2>2. /\ waiting \in [Tasks -> Nat] /\ posted \in [Tasks -> Nat]
        /\ stage # "none" => tasks \in Tasks
        /\ detail \in {Nothing, Notice} \cup Tasks
    BY DEF ChannelTypes
  <2>3. posted' \in [Tasks -> Nat]
    BY <2>1, <2>2
  <2>4. detail' \in {Nothing, Notice} \cup Tasks /\ waiting' \in [Tasks -> Nat]
    BY <2>1, <2>2
  <2> QED  BY <2>1, <2>3, <2>4 DEF ChannelTypes, workerVars
<1> QED  BY <1>1, <1>2, <1>3, <1>4 DEF Messages

LEMMA ChannelWorkerTypes ==
    ASSUME ChannelTypes,
           DeliverLine \/ ((CommandSteps \/ WorkerSteps) /\ Frame)
    PROVE  ChannelTypes'
<1>1. CASE DeliverLine
  <2>1. /\ worker = "in sink" /\ worker' = "waiting"
        /\ UNCHANGED <<tasks, stage, detail, closed, waiting, posted, sink, events>>
        /\ Accept(sink, sink)
    BY <1>1 DEF DeliverLine, SinkReturns, uiVars, taskVars
  <2>2. sink \in Tasks
    BY <2>1 DEF ChannelTypes
  <2>3. /\ output' \in [Tasks -> Seq(Tasks)]
        /\ \A t \in Tasks : Len(output'[t]) <= OutputCap
    <3>1. CASE output' = output
      BY <3>1 DEF ChannelTypes
    <3>2. CASE /\ Len(output[sink]) # OutputCap
               /\ output' = [output EXCEPT ![sink] = Append(output[sink], sink)]
      <4>1. output[sink] \in Seq(Tasks) /\ Len(output[sink]) <= OutputCap
        BY <2>2 DEF ChannelTypes
      <4>2. /\ Append(output[sink], sink) \in Seq(Tasks)
            /\ Len(Append(output[sink], sink)) = Len(output[sink]) + 1
            /\ Len(output[sink]) \in Nat
        BY <2>2, <4>1
      <4>3. Len(output[sink]) + 1 <= OutputCap
        BY <3>2, <4>1, <4>2, BoundsAreNat
      <4> QED  BY <2>2, <3>2, <4>2, <4>3 DEF ChannelTypes
    <3> QED  BY <2>1, <3>1, <3>2 DEF Accept
  <2> QED  BY <2>1, <2>2, <2>3 DEF ChannelTypes
<1>2. CASE (CommandSteps \/ WorkerSteps) /\ Frame
  <2>1. UNCHANGED <<tasks, stage, detail, lineVars>> /\ sink' = sink
    BY <1>2 DEF Frame, CommandSteps, ChildWrites, ReadFragment, EmitLine, ReadEnd, ReadFails,
       CloseEvents, ReturnOutput, WorkerSteps, WorkerTakesLine, WorkerEnds, deliveryVars,
       uiVars, taskVars
  <2>2. /\ worker' \in {"none", "waiting", "in sink"}
        /\ worker' # "none" => worker # "none"
        /\ \/ events' = events
           \/ events < EventCap /\ events' = events + 1
           \/ events > 0 /\ events' = events - 1
    BY <1>2 DEF CommandSteps, ChildWrites, ReadFragment, EmitLine, ReadEnd, ReadFails,
       CloseEvents, ReturnOutput, WorkerSteps, WorkerTakesLine, WorkerEnds, deliveryVars,
       ChannelTypes
  <2>3. events' \in 0 .. EventCap
    <3>1. events \in 0 .. EventCap
      BY DEF ChannelTypes
    <3>2. CASE events < EventCap /\ events' = events + 1
      BY <3>1, <3>2, BoundsAreNat
    <3>3. CASE events > 0 /\ events' = events - 1
      BY <3>1, <3>3, BoundsAreNat
    <3> QED  BY <2>2, <3>1, <3>2, <3>3
  <2> QED  BY <2>1, <2>2, <2>3 DEF ChannelTypes, lineVars
<1> QED  BY <1>1, <1>2

LEMMA ChannelNextTypes ==
    ASSUME TaskInv, ChannelTypes, [TuiNext]_vars
    PROVE  ChannelTypes'
<1>1. CASE ForeignOperation \/ UNCHANGED vars
  <2>1. UNCHANGED channelVars
    BY <1>1 DEF ForeignOperation, vars, channelVars, workerVars, uiVars, taskVars, outputVars
  <2> QED  BY <2>1, ChannelFrame
<1> QED
  BY <1>1, ChannelKeysTypes, ChannelTaskTypes, ChannelMessageTypes, ChannelWorkerTypes
     DEF TuiNext

\* A sequence of at most OutputCap lines, as the type of a channel has it.
LEMMA ChannelContents ==
    ASSUME NEW q \in Seq(Tasks), Len(q) <= OutputCap
    PROVE  q \in UNION {[1 .. k -> Tasks] : k \in 0 .. OutputCap}
<1>1. Len(q) \in 0 .. OutputCap
  BY BoundsAreNat
<1>2. q \in [1 .. Len(q) -> Tasks]
  OBVIOUS
<1> QED  BY <1>1, <1>2

TypesInv == TaskInv /\ ShownInv /\ OutputInv /\ UiTypes /\ ChannelTypes

LEMMA TypesInvTypeOK == TypesInv => TuiTypeOK
<1> SUFFICES ASSUME TypesInv PROVE TuiTypeOK
  OBVIOUS
<1>1. /\ mode \in {"backups", "entries"} /\ cursor \in Nat
      /\ shown \in Lists /\ disk \in Disks /\ job.target \in Names \cup {Nothing}
      /\ confirm \in Names \cup {Nothing}
      /\ answer.found \in Lists \cup {[l EXCEPT !.entries = NotListed] : l \in Lists}
  BY DEF TypesInv, TaskInv, TaskTypes, ShownInv, UiTypes, NilLists
<1>2. {busy, quit, overtaken, feeding, eventsClosed} \subseteq BOOLEAN
  BY DEF TypesInv, TaskInv, TaskTypes, UiTypes, OutputInv, PipeTypes
<1>3. /\ {claim, answer.claim} \subseteq {"none", "done", "failed", "partial", "unrefreshed"}
      /\ stage \in {"none", "operating", "discovering", "listing", "closing", "answered"}
      /\ runner \in {"outside", "draining", "delivering"}
  BY DEF TypesInv, TaskInv, TaskTypes, IsAnswer, UiTypes, Claims, Stages, OutputInv,
     PipeTypes, RunnerStates
<1>4. output \in [Tasks -> UNION {[1 .. k -> Tasks] : k \in 0 .. OutputCap}]
  BY ChannelContents DEF TypesInv, ChannelTypes
<1> QED  BY <1>1, <1>2, <1>3, <1>4 DEF TypesInv, ChannelTypes, TuiTypeOK

\* Every variable of the interface, its tasks and their commands has its type:
\* among others, no channel exceeds its capacity, only names of snapshots are
\* asked for, and lists read by a task are of such names.
THEOREM TuiTypes == TuiSpec => []TuiTypeOK
<1>1. TuiInit => UiTypes /\ ChannelTypes
  BY UiInitTypes, ChannelInitTypes
<1>2. TaskInv /\ ShownInv /\ UiTypes /\ ChannelTypes /\ [TuiNext]_vars
         => UiTypes' /\ ChannelTypes'
  BY UiNextTypes, ChannelNextTypes
<1>3. TaskInv /\ ShownInv /\ OutputInv /\ UiTypes /\ ChannelTypes => TuiTypeOK
  BY TypesInvTypeOK DEF TypesInv
<1> QED  BY <1>1, <1>2, <1>3, TaskAlways, ShownAlways, OutputAlways, PTL DEF TuiSpec

=============================================================================
