-------------------------- MODULE BackgroundTasks --------------------------
(***************************************************************************)
(* Background and verifier tasks: LocalBackgroundAgentOrchestrator         *)
(* (harness/task/background.py) over a TaskManager and its TaskRegistry,   *)
(* and the leader that is notified of their outcome                        *)
(* (harness/multi_agent/runtime.py).                                       *)
(*                                                                         *)
(* One host thread starts, kills, announces and evicts tasks; each started *)
(* task runs on a thread of the pool.  The registry takes no lock: update  *)
(* and append_event read, change and write back, and the two threads fall  *)
(* between these steps.  A thread is therefore a list of registry accesses *)
(* it has yet to make.                                                     *)
(*                                                                         *)
(* In InMemoryTaskStorage a record is shared and changed in place; in      *)
(* FileTaskStorage the copy that was read is changed and the whole file    *)
(* rewritten, which another thread may find empty meanwhile.               *)
(*                                                                         *)
(* A host that keeps its tasks in files may die and be started again; the  *)
(* files survive (each of them whole), the pool and its futures do not.    *)
(*                                                                         *)
(* Starting a task is one step: nobody else knows it before its worker is  *)
(* submitted.  Time is left out: a grace period may be over at any moment. *)
(***************************************************************************)
EXTENDS Naturals, Sequences, FiniteSets

CONSTANTS
    Background, Verifiers,  \* the tasks the host may start
    Host,                   \* the host's thread
    MaxWorkers,             \* threads of the pool
    MaxTicks,               \* bound on the progress and output calls of each worker
    MaxKills,               \* bound on the kills of each task
    MaxNotes,               \* bound on the announcements of a task
    MaxRestarts,            \* bound on the restarts of the host
    Storages                \* the storages a host may be assembled with

Tasks   == Background \cup Verifiers
Threads == Tasks \cup {Host}

ASSUME TasksAssumption ==
    /\ Background \cap Verifiers = {} /\ Host \notin Tasks
    /\ MaxWorkers \in Nat \ {0} /\ MaxNotes \in Nat /\ MaxRestarts \in Nat
    /\ MaxTicks \in [Tasks -> Nat] /\ MaxKills \in [Tasks -> Nat]
    /\ Storages # {} /\ Storages \subseteq {"memory", "file"}

VARIABLES
    storage,    \* the host has a FileTaskManager or an InMemoryTaskManager
    present,    \* the registry has a record of the task
    record,     \* TaskRecord: its status, and whether the leader was notified
    log,        \* the task's events
    held,       \* a chat is attached as observer
    future,     \* the task's future and, while it executes, how far _run_worker is
    ticks,      \* progress and output calls of the worker
    todo,       \* the registry accesses a thread has yet to make
    on,         \* the task the host is working on
    mine,       \* the record a thread has read
    read,       \* the events a thread has read
    notes,      \* how often the leader was notified of the task
    kills,      \* kills of the task that were begun
    restarts    \* restarts of the host

registry == <<present, record, log, held>>
threads  == <<future, ticks, todo, on, mine, read>>
history  == <<storage, notes, kills, restarts>>
vars     == <<registry, threads, history>>

FileBacked == storage = "file"

Terminals == {"completed", "failed", "killed"}
Statuses  == {"pending", "running"} \cup Terminals
Fresh     == [status |-> "pending", notified |-> FALSE]

Executing == {t \in Tasks : future[t] \in {"working", "completing", "failing"}}
On(a)     == IF a = Host THEN on ELSE a

(* The accesses of TaskRegistry.update and append_event; the id of a new   *)
(* event is made from a read that raises when there is no record.          *)
Get      == [op |-> "get", arg |-> "none"]
Put(s)   == [op |-> "put", arg |-> s]
ReadLog  == [op |-> "read", arg |-> "none"]
Add(e)   == [op |-> "add", arg |-> e]
Remove   == [op |-> "remove", arg |-> "none"]

Update(s)      == <<Get, Put(s)>>
AppendEvent(e) == <<Get, ReadLog, Add(e)>>

(* Mutant: a completion leaves no event.                                   *)
CompleteQuietly == Update("output") \o Update("completed") \o <<Get>>

(* complete_task, fail_task and _kill_task: the record, then the event,    *)
(* then a look at the record for the observability projection.             *)
Project  == <<Get>>
Complete == Update("output") \o Update("completed") \o AppendEvent("completed") \o Project
Fail     == Update("failed") \o AppendEvent("failed") \o Project
Killing  == Update("killed") \o AppendEvent("killed") \o Project

(* A verification result may come without an output.                       *)
CompleteVerifier == {Complete, Update("completed") \o AppendEvent("completed") \o Project}

(* TaskManager.kill of a task that has no implementation here: after a     *)
(* restart there is no orchestrator that knows it.                         *)
KillUnknown == <<Get>> \o Update("killed") \o AppendEvent("killed")

(* checkpoint_task and emit_progress; append_output.                       *)
Progress == AppendEvent("progress")
Output   == Update("output")

Init ==
    /\ storage \in Storages
    /\ present = [t \in Tasks |-> FALSE] /\ record = [t \in Tasks |-> Fresh]
    /\ log = [t \in Tasks |-> <<>>] /\ held = [t \in Tasks |-> FALSE]
    /\ future = [t \in Tasks |-> "none"] /\ ticks = [t \in Tasks |-> 0]
    /\ todo = [a \in Threads |-> <<>>] /\ on = Host
    /\ mine = [a \in Threads |-> Fresh] /\ read = [a \in Threads |-> <<>>]
    /\ notes = [t \in Tasks |-> 0] /\ kills = [t \in Tasks |-> 0]
    /\ restarts = 0
-----------------------------------------------------------------------------
(* The registry accesses of a thread.                                      *)

Head1(a, op) == todo[a] # <<>> /\ Head(todo[a]).op = op
Arg(a)       == Head(todo[a]).arg

(* A thread is done with what it has read.                                 *)
Forget(a) == /\ mine' = [mine EXCEPT ![a] = Fresh]
             /\ read' = [read EXCEPT ![a] = <<>>]

Advance(a) == todo' = [todo EXCEPT ![a] = Tail(@)]

(* An exception: the host's call raises; a background worker runs          *)
(* fail_task, unless that is what raised; a verifier's future takes it.    *)
Raise(a) ==
    /\ IF a \in Background /\ future[a] # "failing"
       THEN /\ todo' = [todo EXCEPT ![a] = Fail]
            /\ future' = [future EXCEPT ![a] = "failing"]
       ELSE /\ todo' = [todo EXCEPT ![a] = <<>>]
            /\ future' = IF a = Host THEN future ELSE [future EXCEPT ![a] = "raised"]
    /\ Forget(a)
    /\ UNCHANGED <<registry, ticks, on, history>>

(* A file that another thread is rewriting may be read empty.              *)
Torn(a, op) == FileBacked /\ \E b \in Threads \ {a} : Head1(b, op) /\ On(b) = On(a)

(* The copy that was read is of use to a write that follows.               *)
ReadRecord(a) ==
    /\ Head1(a, "get") /\ present[On(a)]
    /\ mine' = IF Len(todo[a]) > 1 /\ todo[a][2].op = "put"
               THEN [mine EXCEPT ![a] = record[On(a)]] ELSE mine
    /\ Advance(a)
    /\ UNCHANGED <<registry, future, ticks, on, read, history>>

ReadEvents(a) ==
    /\ Head1(a, "read")
    /\ read' = [read EXCEPT ![a] = log[On(a)]]
    /\ Advance(a)
    /\ UNCHANGED <<registry, future, ticks, on, mine, history>>

ReadRaises(a) ==
    /\ \/ Head1(a, "get") /\ (~present[On(a)] \/ Torn(a, "put"))
       \/ Head1(a, "read") /\ Torn(a, "add")
    /\ Raise(a)

Changed(r, s) == CASE s = "notified" -> [r EXCEPT !.notified = TRUE]
                   [] s = "output"   -> r
                   [] OTHER          -> [r EXCEPT !.status = s]

(* Mutant: the copy that was read is written back.                         *)
WriteCopy(a) ==
    /\ Head1(a, "put")
    /\ record' = [record EXCEPT ![On(a)] = Changed(mine[a], Arg(a))]
    /\ present' = [present EXCEPT ![On(a)] = TRUE]
    /\ Advance(a) /\ Forget(a)
    /\ UNCHANGED <<log, held, future, ticks, on, history>>

(* A record that was evicted meanwhile comes back with the write.          *)
WriteRecord(a) ==
    /\ Head1(a, "put")
    /\ record' = [record EXCEPT ![On(a)] = Changed(IF FileBacked THEN mine[a] ELSE @, Arg(a))]
    /\ present' = [present EXCEPT ![On(a)] = TRUE]
    /\ Advance(a) /\ Forget(a)
    /\ UNCHANGED <<log, held, future, ticks, on, history>>

WriteEvents(a) ==
    /\ Head1(a, "add")
    /\ log' = [log EXCEPT ![On(a)] = Append(read[a], Arg(a))]
    /\ Advance(a) /\ Forget(a)
    /\ UNCHANGED <<present, record, held, future, ticks, on, history>>

RemoveTask ==
    /\ Head1(Host, "remove")
    /\ present' = [present EXCEPT ![on] = FALSE]
    /\ log' = [log EXCEPT ![on] = <<>>]
    /\ held' = [held EXCEPT ![on] = FALSE]
    /\ Advance(Host)
    /\ UNCHANGED <<record, future, ticks, on, mine, read, history>>

Access(a) == ReadRecord(a) \/ ReadEvents(a) \/ ReadRaises(a) \/ WriteRecord(a) \/ WriteEvents(a)
-----------------------------------------------------------------------------
(* A pool thread: _run_worker and _run_verifier_worker.                    *)

Free(t) == todo[t] = <<>> /\ future[t] = "working"

StartWorker(t) ==
    /\ future[t] = "queued" /\ Cardinality(Executing) < MaxWorkers
    /\ future' = [future EXCEPT ![t] = "working"]
    /\ UNCHANGED <<registry, ticks, todo, on, mine, read, history>>

(* context.progress and context.checkpoint append an event; context.output *)
(* updates the record's output_cursor.                                     *)
Report(t) ==
    /\ Free(t) /\ ticks[t] < MaxTicks[t]
    /\ ticks' = [ticks EXCEPT ![t] = @ + 1]
    /\ \E script \in {Progress, Output} :
          todo' = [todo EXCEPT ![t] = script]
    /\ UNCHANGED <<registry, future, on, mine, read, history>>

WorkerReturns(t) ==
    /\ Free(t)
    /\ future' = [future EXCEPT ![t] = "completing"]
    /\ \E script \in IF t \in Background THEN {Complete} ELSE CompleteVerifier :
          todo' = [todo EXCEPT ![t] = script]
    /\ UNCHANGED <<registry, ticks, on, mine, read, history>>

(* Mutant: nothing catches the worker's exception.                         *)
RaisesUncaught(t) ==
    /\ Free(t)
    /\ future' = [future EXCEPT ![t] = "raised"]
    /\ UNCHANGED <<registry, ticks, todo, on, mine, read, history>>

WorkerRaises(t) == Free(t) /\ Raise(t)

(* The future takes the result, or the exception that was handled.         *)
WorkerEnds(t) ==
    /\ todo[t] = <<>> /\ future[t] \in {"completing", "failing"}
    /\ future' = [future EXCEPT ![t] = IF @ = "completing" THEN "returned" ELSE "raised"]
    /\ Forget(t)
    /\ UNCHANGED <<registry, ticks, todo, on, history>>

Worker(t) == \/ StartWorker(t) \/ Report(t) \/ WorkerReturns(t) \/ WorkerRaises(t)
             \/ WorkerEnds(t) \/ Access(t)
-----------------------------------------------------------------------------
(* The host thread.                                                        *)

HostFree == on = Host

(* spawn: register the record, set it to running, add the first event.     *)
Spawn(t) ==
    /\ present' = [present EXCEPT ![t] = TRUE]
    /\ record' = [record EXCEPT ![t] = Changed(Fresh, "running")]
    /\ log' = [log EXCEPT ![t] = <<"started">>]

(* start_background_task, start_verifier_task: spawn, then submit.         *)
StartTask(t) ==
    /\ HostFree /\ future[t] = "none"
    /\ Spawn(t)
    /\ future' = [future EXCEPT ![t] = "queued"]
    /\ UNCHANGED <<held, ticks, todo, on, mine, read, history>>

Begin(t, script) == on' = t /\ todo' = [todo EXCEPT ![Host] = script]

(* _kill_task: a future that has not started is cancelled, a worker that   *)
(* has is not stopped; the status is not looked at.                        *)
KillTask(t) ==
    /\ HostFree /\ future[t] # "none" /\ kills[t] < MaxKills[t]
    /\ future' = [future EXCEPT ![t] = IF @ = "queued" THEN "cancelled" ELSE @]
    /\ kills' = [kills EXCEPT ![t] = @ + 1]
    /\ Begin(t, IF future[t] = "lost" THEN KillUnknown ELSE Killing)
    /\ UNCHANGED <<registry, ticks, mine, read, notes, storage, restarts>>

(* sync_task_notifications, for one task: publish, then mark it notified.  *)
Notify(t) ==
    /\ HostFree /\ t \in Background /\ notes[t] < MaxNotes
    /\ present[t] /\ record[t].status \in Terminals /\ ~record[t].notified
    /\ notes' = [notes EXCEPT ![t] = @ + 1]
    /\ Begin(t, Update("notified"))
    /\ UNCHANGED <<registry, future, ticks, mine, read, kills, storage, restarts>>

(* open_view and close_view: a chat holds the task or lets it go.          *)
Observe(t) ==
    /\ HostFree /\ future[t] # "none"
    /\ held' = [held EXCEPT ![t] = ~@]
    /\ UNCHANGED <<present, record, log, threads, history>>

(* evict_expired, for one task: the conditions, then _remove.              *)
EvictTask(t) ==
    /\ HostFree /\ present[t]
    /\ record[t].status \in Terminals /\ record[t].notified /\ ~held[t]
    /\ Begin(t, <<Remove>>)
    /\ UNCHANGED <<registry, future, ticks, mine, read, history>>

(* The call returns, or has raised.                                        *)
HostReturns ==
    /\ ~HostFree /\ todo[Host] = <<>>
    /\ on' = Host
    /\ Forget(Host)
    /\ UNCHANGED <<registry, future, ticks, todo, history>>

(* The process dies, and a host is started on the same files.              *)
Restart ==
    /\ FileBacked /\ restarts < MaxRestarts
    /\ restarts' = restarts + 1
    /\ future' = [t \in Tasks |-> IF future[t] = "none" THEN "none" ELSE "lost"]
    /\ todo' = [a \in Threads |-> <<>>] /\ on' = Host
    /\ mine' = [a \in Threads |-> Fresh] /\ read' = [a \in Threads |-> <<>>]
    /\ UNCHANGED <<registry, ticks, storage, notes, kills>>

HostCall(t) == StartTask(t) \/ KillTask(t) \/ Notify(t) \/ Observe(t) \/ EvictTask(t)
HostStep    == Access(Host) \/ RemoveTask \/ HostReturns

Next == HostStep \/ Restart \/ \E t \in Tasks : Worker(t) \/ HostCall(t)

Spec == Init /\ [][Next]_vars

(* A thread that has something to do is scheduled, and a worker returns.   *)
FairSpec == Spec /\ WF_vars(HostStep) /\ \A t \in Tasks : WF_vars(Worker(t))
-----------------------------------------------------------------------------
Done(t)    == future[t] \in {"cancelled", "returned", "raised"}
Settled(t) == Done(t) /\ on # t
Logged(t)  == \E i \in 1..Len(log[t]) : log[t][i] \in Terminals

(* The registry and the threads keep their shape, and the pool never runs  *)
(* more workers than it has threads (background.py:53).                    *)
TypeOK ==
    /\ present \in [Tasks -> BOOLEAN] /\ held \in [Tasks -> BOOLEAN]
    /\ record \in [Tasks -> [status : Statuses, notified : BOOLEAN]]
    /\ \A t \in Tasks : log[t] \in Seq({"started", "progress"} \cup Terminals)
    /\ future \in [Tasks -> {"none", "queued", "cancelled", "working", "completing",
                             "failing", "returned", "raised", "lost"}]
    /\ restarts \in 0..MaxRestarts
    /\ \A t \in Tasks : ticks[t] \in 0..MaxTicks[t] /\ kills[t] \in 0..MaxKills[t] /\ notes[t] \in 0..MaxNotes
    /\ on \in Threads /\ (todo[Host] # <<>> => on \in Tasks)
    /\ Cardinality(Executing) <= MaxWorkers

(* A task that has reached an outcome never runs again, whatever progress, *)
(* kill and completion interleave: with shared records always, and with    *)
(* records in files once a restart has taken the worker away, whose stale  *)
(* copy could undo the outcome (TaskRegistry.update, registry.py:122).     *)
OutcomeStays ==
    [][\A t \in Tasks :
           /\ ~FileBacked \/ future[t] = "lost"
           /\ record[t].status \in Terminals
           => record'[t].status \in Terminals]_vars

(* With shared records the leader is told at most once how a task ended,   *)
(* although the worker may still rewrite the record of a killed task       *)
(* (sync_task_notifications, multi_agent/runtime.py:97-121).  With records *)
(* in files a stale copy may clear the flag.                               *)
NotifiedOnce == ~FileBacked => \A t \in Tasks : notes[t] <= 1

(* Once the worker has returned or was cancelled, and no kill is under     *)
(* way, the task's events tell an outcome: a progress event and a kill     *)
(* that overwrite each other's list lose at most one of the two            *)
(* (append_event, registry.py:159-163).                                    *)
OutcomeLogged ==
    \A t \in Background : Settled(t) /\ present[t] /\ future[t] # "raised" => Logged(t)

(* With shared records, every background task that was started comes to an *)
(* outcome, also when its worker raises, is killed while queued, or waits  *)
(* for a pool thread (_run_worker, background.py:205-254).  With records   *)
(* in files a read that finds the file empty may raise out of fail_task.   *)
TaskFinishes ==
    \A t \in Background : ~FileBacked /\ future[t] = "queued"
                          ~> (Done(t) /\ (present[t] => record[t].status \in Terminals))
=============================================================================
