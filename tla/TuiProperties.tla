---------------------------- MODULE TuiProperties ----------------------------
(***************************************************************************)
(* What the terminal interface and the commands its tasks run promise.     *)
(***************************************************************************)
EXTENDS TuiTasks

Disks == [stored : SUBSET Names, mirrored : SUBSET Names, listed : SUBSET Names]
Lists == [rows : SUBSET Names, mirrored : SUBSET Names, flagged : SUBSET Names,
          entries : SUBSET Names]

\* Every variable has its type; a list on its way may be nil.
TuiTypeOK ==
    /\ mode \in {"backups", "entries"} /\ cursor \in Nat
    /\ {busy, quit, overtaken, feeding, eventsClosed} \subseteq BOOLEAN
    /\ detail \in {Nothing, Notice} \cup Tasks /\ confirm \in Names \cup {Nothing}
    /\ shown \in Lists /\ disk \in Disks
    /\ {claim, answer.claim} \subseteq {"none", "done", "failed", "partial", "unrefreshed"}
    /\ answer.found \in Lists \cup {[l EXCEPT !.entries = NotListed] : l \in Lists}
    /\ stage \in {"none", "operating", "discovering", "listing", "closing", "answered"}
    /\ job.target \in Names \cup {Nothing}
    /\ closed \subseteq Tasks /\ output \in [Tasks -> UNION {[1 .. k -> Tasks] : k \in 0 .. OutputCap}]
    /\ waiting \in [Tasks -> Nat] /\ posted \in [Tasks -> Nat]
    /\ runner \in {"outside", "draining", "delivering"}
    /\ worker \in {"none", "waiting", "in sink"} /\ sink \in Tasks \cup {0}
    /\ events \in 0 .. EventCap

\* Neither reader sends to an events channel the runner has closed, which
\* would end the program in the middle of an operation.
NoSendOnClosed ==
    \A s \in Streams : reader[s] = "emitting" /\ feeding => ~eventsClosed

\* How far the streams have been read; what a sequence of bytes holds; that it
\* keeps the order of each stream; and that it keeps the end of each, and all.
Read == [s \in Streams |-> written[s] - Len(pipe[s])]
Holds(data, s, n) == \E i \in 1 .. Len(data) : data[i] = <<s, n>>
InOrder(data) ==
    \A i, j \in 1 .. Len(data) :
        i < j /\ data[i][1] = data[j][1] => data[i][2] < data[j][2]
HoldsNewest(data, read) ==
    \A i \in 1 .. Len(data) :
        /\ data[i][2] \in 1 .. read[data[i][1]]
        /\ \A n \in data[i][2] .. read[data[i][1]] : Holds(data, data[i][1], n)
HoldsAll(data, read) == \A s \in Streams : \A n \in 1 .. read[s] : Holds(data, s, n)

\* Per stream, what is retained is the newest part of what was read, in
\* order; all of it, unless output is marked as truncated; and with its
\* marker it is no longer than the limit.
NewestKept ==
    /\ Len(out.data) + (IF out.truncated THEN Marker ELSE 0) <= Limit
    /\ InOrder(out.data)
    /\ HoldsNewest(out.data, Read)
    /\ out.truncated \/ HoldsAll(out.data, Read)

\* Nothing is lost between the pipes and the output: what a command returns
\* is all the child wrote, but for what the bound drops, unless a read failed.
NothingLostOnExit ==
    runner # "draining" =>
        \A s \in Streams : reader[s] # "failed" => pipe[s] = <<>> /\ unwritten[s] = 0

\* A channel that is closed does not grow, and one that grows is the sink's.
LinesAddressed ==
    \A t \in Tasks :
        /\ t \in closed => Len(output'[t]) <= Len(output[t])
        /\ Len(output'[t]) > Len(output[t]) => sink = t

\* A slow sink delivers after its task has ended: the task's closed channel
\* takes nothing more, and no line reaches the channel of another task.
LateLinesDropped == [][LinesAddressed]_vars

\* The program is never left while an operation runs.
QuitOnlyIdle == quit => stage = "none"

\* The selection is a row of the list shown, whatever the lists became.
CursorOnRow ==
    /\ Active = {} => cursor = 0
    /\ Active # {} => cursor < Cardinality(Active)

\* The status line claims a change only if the disk shows it, unless
\* something else has changed the disk since.
Done(kind, n, d) ==
    CASE kind = "activate"   -> n \in d.stored \cap d.mirrored \cap d.listed
      [] kind = "deactivate" -> n \notin d.mirrored \cup d.listed
      [] kind = "delete"     -> n \notin d.stored \cup d.mirrored \cup d.listed
      [] kind = "remove"     -> n \notin d.listed
      [] kind = "reconcile"  -> d.listed \subseteq d.stored \cap d.mirrored
      [] OTHER               -> TRUE

ClaimsHold ==
    [][busy /\ ~busy' /\ claim' \in {"done", "unrefreshed"} /\ ~overtaken
           => Done(job.kind, job.target, disk)]_vars

\* After a task that changed something the lists show the disk, unless
\* something else has changed it since.
ListsFresh ==
    [][busy /\ ~busy' /\ claim' = "done" /\ job.kind # "hook" /\ ~overtaken
           => /\ shown'.entries = disk.listed /\ shown'.flagged = disk.listed
              /\ shown'.mirrored = disk.mirrored
              /\ BackupRows(disk) \subseteq shown'.rows]_vars

\* After an activation or a backup the snapshot it was about is selected.
SelectionFollows ==
    [][busy /\ ~busy' /\ claim' = "done" /\ answer.focus \in shown'.rows
           => mode' = "backups" /\ NameAt(shown'.rows, cursor') = answer.focus]_vars

\* A task ends, even if the sink never returns from a line, unless reading a
\* pipe failed: then the child may wait for a reader that is gone.
TasksEnd ==
    busy ~> (~busy \/ \E s \in Streams : reader[s] = "failed")
=============================================================================
