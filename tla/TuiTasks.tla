------------------------------- MODULE TuiTasks -------------------------------
(***************************************************************************)
(* The terminal interface (model.go): the Update loop, the one task it may *)
(* have running, the goroutines that carry the task's progress to it, and  *)
(* the lists it shows, which are a copy of what the disk held when they    *)
(* were read.  A task runs its operation in a goroutine of its own; the    *)
(* operation runs commands (CommandOutput) whose lines reach the task's    *)
(* output channel.  What the operations do on disk, and how they fail, is  *)
(* in Recovery; here each one ends in one step, with the outcomes Recovery *)
(* has for it.  Other processes change the disk meanwhile.                 *)
(*                                                                         *)
(* Left out: the animation ticks, the wording of the status line, sizes.   *)
(***************************************************************************)
EXTENDS CommandOutput, Integers

CONSTANTS
    Names,         \* snapshot names, as numbers: lists are sorted by name
    FirstStored,   \* the snapshots there are at first
    Kinds,         \* the tasks the user starts
    MaxTasks,      \* tasks started (bound)
    OutputCap,     \* capacity of a task's output channel (64 in the code)
    MaxForeign     \* changes by other processes (bound)

ASSUME TuiConstantsOK ==
    /\ Names \subseteq Nat \ {0} /\ IsFiniteSet(Names)
    /\ FirstStored \subseteq Names
    /\ Kinds \subseteq {"activate", "deactivate", "delete", "remove", "backup", "reconcile", "hook"}
    /\ {MaxTasks, OutputCap, MaxForeign} \subseteq Nat
    /\ OutputCap > 0

VARIABLES
    \* Model: what Update owns.
    mode,          \* the list shown: "backups" or "entries"
    cursor,        \* its selected row, from 0
    busy,
    detail,        \* whose line the progress line shows, if any
    confirm,       \* deleteTarget while confirmDelete
    shown,         \* Model.Backups and Model.Entries
    claim,         \* what the status line says of the last task
    quit,
    \* The task's goroutine and the channels.
    tasks,         \* how many tasks were started
    job,           \* kind and target of the last one
    stage,         \* how far it has come
    answer,        \* its taskDoneMsg, as far as it is known
    output,        \* lines in each task's output channel: whose they are
    closed,        \* the channels that are closed
    waiting,       \* goroutines in waitTaskOutput, for each channel
    posted,        \* taskOutputMsg on their way to Update, by whose line it is
    \* The machine.
    disk,          \* stored snapshots, mirrors, entries
    foreign,       \* changes made by other processes
    overtaken      \* the disk changed after the task's operation ended

uiVars == <<mode, cursor, busy, detail, confirm, shown, claim, quit>>
taskVars == <<tasks, job, stage, answer>>
lineVars == <<output, closed, waiting, posted>>
diskVars == <<disk, foreign, overtaken>>
vars == <<uiVars, taskVars, lineVars, diskVars, outputVars>>

Tasks == 1 .. MaxTasks
Nothing == 0                \* no name, nobody's line
Notice == MaxTasks + 1      \* "wait for it to finish before quitting"
NotListed == Names \cup {Nothing}       \* nil entries

\* One row per name with a snapshot or a mirror, and one per entry.
BackupRows(d) == d.stored \cup d.mirrored
Fresh(d) == [rows |-> BackupRows(d), mirrored |-> d.mirrored,
             flagged |-> d.listed, entries |-> d.listed]

Active == IF mode = "backups" THEN shown.rows ELSE shown.entries
RowOf(rows, n) == Cardinality({m \in rows : m < n})
NameAt(rows, i) == CHOOSE n \in rows : RowOf(rows, n) = i

\* Mutant: an empty list is not thought of.
ClampRow(i, rows) ==
    IF i >= Cardinality(rows) THEN Cardinality(rows) - 1 ELSE i

Clamp(i, rows) ==
    IF rows = {} THEN 0
    ELSE IF i >= Cardinality(rows) THEN Cardinality(rows) - 1 ELSE i

Selected == NameAt(Active, cursor)

-----------------------------------------------------------------------------
(* What the operations leave on disk.                                      *)

With(n, d) == [d EXCEPT !.mirrored = @ \cup {n}, !.listed = @ \cup {n}]
Unlisted(n, d) == [d EXCEPT !.listed = @ \ {n}]
Unmirrored(n, d) == [Unlisted(n, d) EXCEPT !.mirrored = @ \ {n}]
Gone(n, d) == [Unmirrored(n, d) EXCEPT !.stored = @ \ {n}]

\* Reconcile drops mirrors, or makes them again for entries whose snapshots
\* are there, and then drops entries; a complete one keeps no entry without
\* its snapshot, and no entry without its mirror.
Remirrored(d) == SUBSET (d.mirrored \cup (d.listed \cap d.stored))
Reconciled(d) ==
    [stored : {d.stored}, mirrored : Remirrored(d),
     listed : SUBSET (d.listed \cap d.stored)]

Completed(kind, n, d) ==
    CASE kind = "activate"   -> IF n \in d.stored THEN {With(n, d)} ELSE {}
      [] kind = "deactivate" -> {Unmirrored(n, d)}
      [] kind = "delete"     -> {Gone(n, d)}
      [] kind = "remove"     -> {Unlisted(n, d)}
      [] kind = "backup"     -> {[d EXCEPT !.stored = @ \cup {m}] :
                                     m \in Names \ BackupRows(d)}
      [] kind = "reconcile"  -> {r \in Reconciled(d) : r.listed \subseteq r.mirrored}
      [] kind = "hook"       -> {d}

\* What an operation that fails may have done already.
Halfway(kind, n, d) ==
    CASE kind = "activate"   -> {d, [d EXCEPT !.mirrored = @ \cup ({n} \cap d.stored)]}
      [] kind = "deactivate" -> {d, Unlisted(n, d)}
      [] kind = "delete"     -> {d, Unlisted(n, d), Unmirrored(n, d)}
      [] kind = "reconcile"  -> {[d EXCEPT !.mirrored = ms] : ms \in Remirrored(d)}
      [] OTHER               -> {d}

\* Operations that clean module trees up end with a warning when only the
\* cleanup failed.
MayWarn(kind) == kind \in {"deactivate", "delete", "remove", "reconcile"}

-----------------------------------------------------------------------------
(* Update.                                                                 *)

NoAnswer == [claim |-> "none", lists |-> FALSE, focus |-> Nothing,
             found |-> [rows |-> {}, mirrored |-> {}, flagged |-> {}, entries |-> {}]]

TuiInit ==
    /\ disk = [stored |-> FirstStored, mirrored |-> {}, listed |-> {}]
    /\ foreign = 0
    /\ overtaken = FALSE
    /\ mode = "backups"
    /\ cursor = 0
    /\ busy = FALSE
    /\ detail = Nothing
    /\ confirm = Nothing
    /\ shown = Fresh(disk)
    /\ claim = "none"
    /\ quit = FALSE
    /\ tasks = 0
    /\ job = [kind |-> "hook", target |-> Nothing]
    /\ stage = "none"
    /\ answer = NoAnswer
    /\ output = [t \in Tasks |-> <<>>]
    /\ closed = {}
    /\ waiting = [t \in Tasks |-> 0]
    /\ posted = [t \in Tasks |-> 0]
    /\ OutputInit

\* The program takes keys while it runs; nothing else while a task does.
Idle == ~quit /\ ~busy

\* startTask: the goroutine of the task, and one that waits for its output.
StartTask(kind, target) ==
    /\ tasks < MaxTasks /\ kind \in Kinds
    /\ tasks' = tasks + 1
    /\ job' = [kind |-> kind, target |-> target]
    /\ stage' = "operating"
    /\ busy' = TRUE
    /\ detail' = Nothing
    /\ claim' = "none"
    /\ waiting' = [waiting EXCEPT ![tasks + 1] = 1]
    /\ UNCHANGED <<mode, cursor, shown, quit, answer, output, closed, posted,
                   diskVars, outputVars>>

\* Mutant: quitting is possible at any time.
KeyWhileBusyQuits ==
    /\ ~quit /\ busy
    /\ quit' = TRUE
    /\ UNCHANGED <<mode, cursor, busy, detail, confirm, shown, claim, taskVars,
                   lineVars, diskVars, outputVars>>

\* While a task runs every key is refused, the ones that quit with a notice.
KeyWhileBusy ==
    /\ ~quit /\ busy
    /\ detail' = Notice
    /\ UNCHANGED <<mode, cursor, busy, confirm, shown, claim, quit, taskVars,
                   lineVars, diskVars, outputVars>>

ConfirmDelete ==
    /\ Idle /\ confirm # Nothing
    /\ StartTask("delete", confirm)
    /\ confirm' = Nothing

CancelDelete ==
    /\ Idle /\ confirm # Nothing
    /\ confirm' = Nothing
    /\ claim' = "none"
    /\ UNCHANGED <<mode, cursor, busy, detail, shown, quit, taskVars, lineVars,
                   diskVars, outputVars>>

Quit ==
    /\ Idle
    /\ quit' = TRUE
    /\ UNCHANGED <<mode, cursor, busy, detail, confirm, shown, claim, taskVars,
                   lineVars, diskVars, outputVars>>

\* tab: the cursor is kept, as far as the other list is long enough.
SwitchList ==
    /\ Idle /\ confirm = Nothing
    /\ mode' = IF mode = "backups" THEN "entries" ELSE "backups"
    /\ cursor' = Clamp(cursor, IF mode = "backups" THEN shown.entries ELSE shown.rows)
    /\ UNCHANGED <<busy, detail, confirm, shown, claim, quit, taskVars, lineVars,
                   diskVars, outputVars>>

\* Any other key goes to the list, which may move its selection.
MoveCursor ==
    /\ Idle /\ confirm = Nothing
    /\ \E n \in Active : cursor' = RowOf(Active, n)
    /\ UNCHANGED <<mode, busy, detail, confirm, shown, claim, quit, taskVars,
                   lineVars, diskVars, outputVars>>

\* g: what to do is decided by the flags the list was read with.
ToggleBoot ==
    /\ Idle /\ confirm = Nothing
    /\ mode = "backups" /\ shown.rows # {}
    /\ StartTask(IF Selected \in shown.mirrored \cup shown.flagged
                 THEN "deactivate" ELSE "activate", Selected)
    /\ UNCHANGED confirm

\* s, b and p.
StartGlobalTask ==
    /\ Idle /\ confirm = Nothing
    /\ mode = "backups"
    /\ \E kind \in {"reconcile", "backup", "hook"} : StartTask(kind, Nothing)
    /\ UNCHANGED confirm

\* x, in the list of entries.
RemoveEntry ==
    /\ Idle /\ confirm = Nothing
    /\ mode = "entries" /\ shown.entries # {}
    /\ StartTask("remove", Selected)
    /\ UNCHANGED confirm

\* d: the name is kept until the question is answered.
AskDelete ==
    /\ Idle /\ confirm = Nothing
    /\ mode = "backups" /\ shown.rows # {}
    /\ confirm' = Selected
    /\ UNCHANGED <<mode, cursor, busy, detail, shown, claim, quit, taskVars,
                   lineVars, diskVars, outputVars>>

-----------------------------------------------------------------------------
(* The task's goroutine (taskCmdWithOutput and the run...Task functions).  *)

RunCommand ==
    /\ stage = "operating"
    /\ StartCommand(tasks)
    /\ UNCHANGED <<uiVars, taskVars, lineVars, diskVars>>

\* Mutant: every error of an operation that may warn is taken for a warning.
ReportedLoosely(outcome) ==
    IF outcome = "error" /\ ~MayWarn(job.kind) THEN "failed" ELSE "done"

\* completedCleanupWarning: what the status line may claim of an operation.
Reported(outcome) == IF outcome = "error" THEN "failed" ELSE "done"

\* The snapshot the list is to select: the target, or the one just created.
Focus(d, e) ==
    CASE job.kind \in {"activate", "deactivate"} -> job.target
      [] e.stored \subseteq d.stored             -> Nothing
      [] OTHER                                   -> CHOOSE n \in e.stored \ d.stored : TRUE

\* An operation other than reconcile ends; when it has changed something the
\* lists are read again, in the task.
OperationEnds ==
    /\ stage = "operating" /\ runner = "outside"
    /\ job.kind # "reconcile"
    /\ \E outcome \in {"ok", "error"}
                       \cup (IF MayWarn(job.kind) THEN {"warn"} ELSE {}) :
          /\ disk' \in IF outcome = "error" THEN Halfway(job.kind, job.target, disk)
                       ELSE Completed(job.kind, job.target, disk)
          /\ answer' = [claim |-> Reported(outcome), lists |-> FALSE, found |-> answer.found,
                        focus |-> Focus(disk, disk')]
          /\ stage' = IF Reported(outcome) = "done" /\ job.kind # "hook"
                      THEN "discovering" ELSE "closing"
    /\ overtaken' = FALSE
    /\ UNCHANGED <<uiVars, lineVars, tasks, job, foreign, outputVars>>

\* Mutant: no entries are no list.
EntriesOrNil(es) == IF es = {} THEN NotListed ELSE es

\* What ListGrubEntries found, with nil made an empty list.
Entries(es) == es

\* Reconcile returns the lists itself: one row for every name it found, with
\* the flags as it leaves them.
ReconcileEnds ==
    /\ stage = "operating" /\ runner = "outside"
    /\ job.kind = "reconcile"
    /\ \E complete \in BOOLEAN :
          /\ disk' \in IF complete THEN Completed("reconcile", Nothing, disk)
                       ELSE Reconciled(disk) \cup Halfway("reconcile", Nothing, disk)
          /\ answer' = [claim |-> IF complete THEN "done" ELSE "partial",
                        lists |-> TRUE,
                        found |-> [rows |-> BackupRows(disk), mirrored |-> disk'.mirrored,
                                   flagged |-> disk'.listed, entries |-> Entries(disk'.listed)],
                        focus |-> Nothing]
    /\ stage' = "closing"
    /\ overtaken' = FALSE
    /\ UNCHANGED <<uiVars, lineVars, tasks, job, foreign, outputVars>>

\* The entries cannot be listed any more: no snapshot is flagged.
ReconcileUnverified ==
    /\ stage = "operating" /\ runner = "outside"
    /\ job.kind = "reconcile"
    /\ disk' \in Reconciled(disk) \cup Halfway("reconcile", Nothing, disk)
    /\ answer' = [claim |-> "partial", lists |-> TRUE, focus |-> Nothing,
                  found |-> [rows |-> BackupRows(disk), mirrored |-> disk'.mirrored,
                             flagged |-> {}, entries |-> NotListed]]
    /\ stage' = "closing"
    /\ overtaken' = FALSE
    /\ UNCHANGED <<uiVars, lineVars, tasks, job, foreign, outputVars>>

\* Reconcile fails before it has looked at a snapshot, or at one with an entry
\* that cannot be read or identified.
ReconcileStops ==
    /\ stage = "operating" /\ runner = "outside"
    /\ job.kind = "reconcile"
    /\ disk' \in Halfway("reconcile", Nothing, disk)
    /\ answer' = [answer EXCEPT !.claim = "failed", !.lists = FALSE]
    /\ stage' = "closing"
    /\ overtaken' = FALSE
    /\ UNCHANGED <<uiVars, lineVars, tasks, job, foreign, outputVars>>

\* refreshTaskState reads the snapshots and the mirrors, then the entries.
DiscoverBackups ==
    /\ stage = "discovering"
    /\ answer' = [answer EXCEPT !.found = Fresh(disk)]
    /\ stage' = "listing"
    /\ UNCHANGED <<uiVars, lineVars, tasks, job, diskVars, outputVars>>

ListGrubEntries ==
    /\ stage = "listing"
    /\ answer' = [answer EXCEPT !.lists = TRUE,
                     !.found = [@ EXCEPT !.flagged = disk.listed,
                                         !.entries = Entries(disk.listed)]]
    /\ stage' = "closing"
    /\ UNCHANGED <<uiVars, lineVars, tasks, job, diskVars, outputVars>>

RefreshFails ==
    /\ stage = "listing"
    /\ answer' = [answer EXCEPT !.claim = "unrefreshed"]
    /\ stage' = "closing"
    /\ UNCHANGED <<uiVars, lineVars, tasks, job, diskVars, outputVars>>

\* The deferred close; the message follows it.
CloseOutput ==
    /\ stage = "closing"
    /\ closed' = closed \cup {tasks}
    /\ stage' = "answered"
    /\ UNCHANGED <<uiVars, tasks, job, answer, output, waiting, posted, diskVars,
                   outputVars>>

\* Mutant: the sink does not ask whether the channel is closed.
AcceptAlways(t, line) ==
    output' = IF Len(output[t]) = OutputCap THEN output
              ELSE [output EXCEPT ![t] = Append(@, line)]

\* The sink of a task: nothing is sent once its channel is closed, and a
\* line that finds the channel full is dropped.
Accept(t, line) ==
    output' = IF t \in closed \/ Len(output[t]) = OutputCap THEN output
              ELSE [output EXCEPT ![t] = Append(@, line)]

DeliverLine ==
    /\ SinkReturns
    /\ Accept(sink, sink)
    /\ UNCHANGED <<uiVars, taskVars, closed, waiting, posted, diskVars>>

-----------------------------------------------------------------------------
(* Messages to Update.                                                     *)

\* waitTaskOutput returns a line, or learns that the channel is closed.
ReadOutput(t) ==
    /\ waiting[t] > 0
    /\ output[t] # <<>>
    /\ output' = [output EXCEPT ![t] = Tail(@)]
    /\ waiting' = [waiting EXCEPT ![t] = @ - 1]
    /\ posted' = [posted EXCEPT ![Head(output[t])] = @ + 1]
    /\ UNCHANGED <<uiVars, taskVars, closed, diskVars, outputVars>>

ReadClosed(t) ==
    /\ waiting[t] > 0
    /\ output[t] = <<>> /\ t \in closed
    /\ waiting' = [waiting EXCEPT ![t] = @ - 1]
    /\ UNCHANGED <<uiVars, taskVars, output, closed, posted, diskVars, outputVars>>

\* taskOutputMsg: whichever task runs now shows the line and waits for its
\* own next one.
HandleOutput(t) ==
    /\ posted[t] > 0
    /\ posted' = [posted EXCEPT ![t] = @ - 1]
    /\ IF busy
       THEN /\ detail' = t
            /\ waiting' = [waiting EXCEPT ![tasks] = @ + 1]
       ELSE UNCHANGED <<detail, waiting>>
    /\ UNCHANGED <<mode, cursor, busy, confirm, shown, claim, quit, taskVars,
                   output, closed, diskVars, outputVars>>

\* Mutant: the selection stays where it was.
CursorStays(rows) == cursor

\* cursorAfterTask
CursorAfterTask(rows) ==
    IF answer.focus \in rows /\ job.kind # "remove" THEN RowOf(rows, answer.focus)
    ELSE Clamp(cursor, rows)

\* taskDoneMsg of an operation that failed, or whose lists could not be read.
HandleFailure ==
    /\ stage = "answered" /\ busy
    /\ answer.claim \in {"failed", "unrefreshed"}
    /\ busy' = FALSE
    /\ stage' = "none"
    /\ detail' = Nothing
    /\ claim' = answer.claim
    /\ answer' = NoAnswer
    /\ UNCHANGED <<mode, cursor, confirm, shown, quit, tasks, job, lineVars,
                   diskVars, outputVars>>

\* taskDoneMsg of one that was done; nil lists leave the ones shown.
HandleDone ==
    /\ stage = "answered" /\ busy
    /\ answer.claim \in {"done", "partial"}
    /\ busy' = FALSE
    /\ stage' = "none"
    /\ detail' = Nothing
    /\ claim' = answer.claim
    /\ shown' = IF ~answer.lists THEN shown
                ELSE IF answer.found.entries # NotListed THEN answer.found
                ELSE [answer.found EXCEPT !.entries = shown.entries]
    /\ mode' = IF job.kind = "remove" THEN "entries" ELSE "backups"
    /\ cursor' = CursorAfterTask(IF job.kind = "remove" THEN shown'.entries ELSE shown'.rows)
    /\ answer' = NoAnswer
    /\ UNCHANGED <<confirm, quit, tasks, job, lineVars, diskVars, outputVars>>

-----------------------------------------------------------------------------

\* Another process, or a package hook, runs an operation of its own.
ForeignOperation ==
    /\ foreign < MaxForeign
    /\ foreign' = foreign + 1
    /\ \E kind \in {"activate", "deactivate", "delete", "remove", "backup"}, n \in Names :
          disk' \in Completed(kind, n, disk)
    /\ disk' # disk
    /\ overtaken' = TRUE
    /\ UNCHANGED <<uiVars, taskVars, lineVars, outputVars>>

CommandSteps ==
    \/ \E s \in Streams : ChildWrites(s) \/ ReadFragment(s) \/ EmitLine(s)
                           \/ ReadEnd(s) \/ ReadFails(s)
    \/ CloseEvents \/ ReturnOutput

WorkerSteps == WorkerTakesLine \/ WorkerEnds

Keys == KeyWhileBusy \/ ConfirmDelete \/ CancelDelete \/ Quit \/ SwitchList \/ MoveCursor
        \/ ToggleBoot \/ StartGlobalTask \/ RemoveEntry \/ AskDelete

TaskSteps == RunCommand \/ OperationEnds \/ ReconcileEnds \/ ReconcileUnverified
             \/ ReconcileStops \/ DiscoverBackups \/ ListGrubEntries \/ RefreshFails
             \/ CloseOutput

Messages == HandleFailure \/ HandleDone
            \/ \E t \in Tasks : ReadOutput(t) \/ ReadClosed(t) \/ HandleOutput(t)

Frame == UNCHANGED <<uiVars, taskVars, lineVars, diskVars>>

\* The process ends with the program.
TuiNext ==
    /\ ~quit
    /\ \/ Keys \/ TaskSteps \/ Messages \/ DeliverLine \/ ForeignOperation
       \/ (CommandSteps \/ WorkerSteps) /\ Frame

\* The child, the readers, the task and Update go on; a key need not be
\* pressed, and the sink need not return.
TuiFairness ==
    /\ WF_vars(~quit /\ CommandSteps /\ Frame)
    /\ WF_vars(~quit /\ TaskSteps)
    /\ WF_vars(~quit /\ Messages)

TuiSpec == TuiInit /\ [][TuiNext]_vars /\ TuiFairness
=============================================================================
