------------------------ MODULE BackgroundTasksProofs ------------------------
(***************************************************************************)
(* Theorems for any number of tasks, workers, progress events, kills and   *)
(* evictions.  First: with shared records the leader is notified of a task *)
(* at most once.  Second: an outcome is logged, and stays.                 *)
(*                                                                         *)
(* NotifiedOnce alone does not exclude a second announcement between the   *)
(* publication and the mark, nor a record that comes back unmarked.  The   *)
(* invariant says who still owes the mark: the host, which is busy with    *)
(* exactly that, and which alone could evict the record it is going to     *)
(* mark; and that no task is started twice, which would make it new again. *)
(*                                                                         *)
(* The second part goes by the list of accesses a thread has yet to make:  *)
(* a write of a record directly follows its read, and a worker that        *)
(* completes, or a host that cancelled a task, still has the outcome to    *)
(* add or has told it, in a log that only the record's removal takes away. *)
(***************************************************************************)
EXTENDS BackgroundTasks, SequenceTheorems, TLAPS

IsFunction(f, S) == f = [x \in S |-> f[x]]

(* The state keeps its shape; who works on a task works on a started one.  *)
TasksShape ==
    /\ IsFunction(present, Tasks) /\ IsFunction(record, Tasks) /\ IsFunction(future, Tasks)
    /\ IsFunction(todo, Threads) /\ notes \in [Tasks -> Nat]
    /\ \A t \in Tasks : IsFunction(record[t], {"status", "notified"})
    /\ \A t \in Tasks : present[t] \/ notes[t] # 0 \/ todo[t] # <<>> => future[t] # "none"
    /\ on \in Tasks => future[on] # "none"
    /\ on \in Tasks \cup {Host} /\ (on = Host => todo[Host] = <<>>)

(* The host has yet to mark the record of the task it announced.           *)
Owed == {<<Get, Put("notified")>>, <<Put("notified")>>}
Marking(t) == on = t /\ present[t] /\ todo[Host] \in Owed

Noted ==
    \A t \in Tasks :
        notes[t] # 0 => notes[t] = 1 /\ (record[t].notified = TRUE \/ Marking(t))

Inductive == ~FileBacked /\ TasksShape /\ Noted

LEMMA HostIsNoTask == Host \notin Tasks /\ Host \in Threads /\ Tasks \subseteq Threads
BY TasksAssumption DEF Tasks, Threads

LEMMA OnIsTask ==
    ASSUME TasksShape, NEW a \in Threads, todo[a] # <<>>
    PROVE  On(a) \in Tasks /\ future[On(a)] # "none"
BY HostIsNoTask DEF TasksShape, On, Threads

(* A change of a record keeps its flag.                                    *)
LEMMA ChangeKeepsFlag ==
    ASSUME NEW r, IsFunction(r, {"status", "notified"}), NEW s
    PROVE  /\ IsFunction(Changed(r, s), {"status", "notified"})
           /\ r.notified = TRUE \/ s = "notified" => Changed(r, s).notified = TRUE
BY DEF IsFunction, Changed

(* Steps that leave the records, the announcements and the host alone.     *)
Aside ==
    /\ UNCHANGED <<present, record, notes, storage, on>>
    /\ todo'[Host] = todo[Host] /\ IsFunction(todo', Threads) /\ IsFunction(future', Tasks)
    /\ \A t \in Tasks : (future[t] # "none" => future'[t] # "none")
                        /\ (todo'[t] # <<>> => todo[t] # <<>> \/ future[t] # "none")

LEMMA AsideKeeps == ASSUME Inductive, Aside PROVE Inductive'
<1>1. TasksShape'
  BY DEF Inductive, Aside, TasksShape
<1>2. ~FileBacked' /\ Noted'
  BY DEF Inductive, Aside, Noted, Marking, FileBacked
<1> QED
  BY <1>1, <1>2 DEF Inductive

(* The host moves on, and owes no mark that it did not owe before.         *)
HostMoves ==
    /\ UNCHANGED <<record, future, notes, storage>>
    /\ \A a \in Tasks : todo'[a] = todo[a]
    /\ IsFunction(todo', Threads) /\ IsFunction(present', Tasks)
    /\ on' \in Tasks \cup {Host} /\ (on' = Host => todo'[Host] = <<>>)
    /\ on' \in Tasks => future[on'] # "none"
    /\ \A t \in Tasks : /\ present'[t] => present[t]
                        /\ notes[t] # 0 /\ Marking(t) => Marking(t)'

LEMMA HostMovesKeeps == ASSUME Inductive, HostMoves PROVE Inductive'
<1>1. TasksShape'
  BY DEF Inductive, HostMoves, TasksShape
<1>2. ~FileBacked' /\ Noted'
  BY DEF Inductive, HostMoves, Noted, FileBacked
<1> QED
  BY <1>1, <1>2 DEF Inductive

LEMMA AdvanceShape ==
    ASSUME TasksShape, NEW a \in Threads, Advance(a)
    PROVE  /\ IsFunction(todo', Threads) /\ todo'[a] = Tail(todo[a])
           /\ \A b \in Threads \ {a} : todo'[b] = todo[b]
BY DEF TasksShape, IsFunction, Advance

(* The first access of the mark is a read, and the second a write.         *)
LEMMA OwedSteps ==
    ASSUME todo[Host] \in Owed
    PROVE  /\ Head1(Host, "get") => Tail(todo[Host]) \in Owed
           /\ Head1(Host, "put") => Arg(Host) = "notified"
           /\ Head1(Host, "get") \/ Head1(Host, "put")
           /\ ~Head1(Host, "read") /\ ~Head1(Host, "add") /\ ~Head1(Host, "remove")
<1>1. CASE todo[Host] = <<Get, Put("notified")>>
  BY <1>1 DEF Owed, Head1, Arg, Get, Put
<1>2. CASE todo[Host] = <<Put("notified")>>
  BY <1>2 DEF Owed, Head1, Arg, Get, Put
<1> QED
  BY <1>1, <1>2 DEF Owed

(* update and append_event read.                                           *)
LEMMA ReadKeeps ==
    ASSUME Inductive, NEW a \in Threads, ReadRecord(a) \/ ReadEvents(a)
    PROVE  Inductive'
<1>1. /\ UNCHANGED <<present, record, future, notes, storage, on>> /\ Advance(a)
      /\ todo[a] # <<>> /\ (Head1(a, "get") \/ Head1(a, "read"))
  BY DEF ReadRecord, ReadEvents, Head1, registry, history
<1>2. /\ IsFunction(todo', Threads) /\ todo'[a] = Tail(todo[a])
      /\ \A b \in Threads \ {a} : todo'[b] = todo[b]
  BY <1>1, AdvanceShape DEF Inductive
<1>3. CASE a = Host
  <2>1. \A t \in Tasks : Marking(t) => Marking(t)'
    BY <1>1, <1>2, <1>3, OwedSteps DEF Marking
  <2>2. HostMoves
    BY <1>1, <1>2, <1>3, <2>1, HostIsNoTask DEF Inductive, TasksShape, HostMoves
  <2> QED
    BY <2>2, HostMovesKeeps
<1>4. CASE a \in Tasks
  <2>1. Aside
    BY <1>1, <1>2, <1>4, HostIsNoTask DEF Inductive, TasksShape, Aside
  <2> QED
    BY <2>1, AsideKeeps
<1> QED
  BY <1>3, <1>4 DEF Threads

(* An exception of a pool thread, in the worker or in an access.           *)
LEMMA RaiseInPool ==
    ASSUME Inductive, NEW t \in Tasks, Raise(t), future[t] # "none" PROVE Inductive'
<1>1. /\ UNCHANGED <<present, record, notes, storage, on>>
      /\ IsFunction(todo', Threads) /\ IsFunction(future', Tasks)
      /\ \A b \in Threads \ {t} : todo'[b] = todo[b]
      /\ \A u \in Tasks : future'[u] = future[u] \/ future'[u] \in {"failing", "raised"}
  BY HostIsNoTask DEF Raise, registry, history, Inductive, TasksShape, IsFunction
<1>2. Aside
  BY <1>1, HostIsNoTask DEF Inductive, TasksShape, Aside
<1> QED
  BY <1>2, AsideKeeps

(* An exception of the host's call never meets a mark that is owed: the    *)
(* record is there and, shared, never torn.                                *)
LEMMA ReadRaisesKeeps ==
    ASSUME Inductive, NEW a \in Threads, ReadRaises(a) PROVE Inductive'
<1>1. /\ Raise(a) /\ todo[a] # <<>>
      /\ \/ Head1(a, "get") /\ (~present[On(a)] \/ FileBacked)
         \/ Head1(a, "read")
  BY DEF ReadRaises, Torn, Head1
<1>2. CASE a = Host
  <2>1. /\ UNCHANGED <<present, record, future, notes, storage, on>>
        /\ todo' = [todo EXCEPT ![Host] = <<>>]
    BY <1>1, <1>2, HostIsNoTask DEF Raise, registry, history, Tasks
  <2>2. on \in Tasks /\ On(a) = on
    BY <1>1, <1>2, OnIsTask DEF Inductive, On
  <2>3. TasksShape'
    BY <2>1, <2>2, HostIsNoTask DEF Inductive, TasksShape, IsFunction
  <2>4. ASSUME NEW t \in Tasks, Marking(t) PROVE FALSE
    BY <1>1, <1>2, <2>2, <2>4, OwedSteps DEF Inductive, Marking, On
  <2>5. ~FileBacked' /\ Noted'
    BY <2>1, <2>4 DEF Inductive, Noted, FileBacked
  <2> QED
    BY <2>3, <2>5 DEF Inductive
<1>3. CASE a \in Tasks
  BY <1>1, <1>3, OnIsTask, RaiseInPool, HostIsNoTask DEF Inductive, On
<1> QED
  BY <1>2, <1>3 DEF Threads

(* A write keeps the flag of a shared record, and the mark sets it.        *)
LEMMA WriteRecordKeeps ==
    ASSUME Inductive, NEW a \in Threads, WriteRecord(a) PROVE Inductive'
<1> DEFINE t == On(a)
<1>1. /\ record' = [record EXCEPT ![t] = Changed(@, Arg(a))]
      /\ present' = [present EXCEPT ![t] = TRUE]
      /\ UNCHANGED <<future, notes, storage, on>> /\ Advance(a)
      /\ Head1(a, "put") /\ todo[a] # <<>>
  BY DEF Inductive, WriteRecord, Head1, history
<1>2. t \in Tasks /\ future[t] # "none" /\ (a # Host => t = a) /\ (a = Host => t = on)
  BY <1>1, OnIsTask DEF Inductive, On
<1>3. /\ IsFunction(todo', Threads) /\ todo'[a] = Tail(todo[a])
      /\ \A b \in Threads \ {a} : todo'[b] = todo[b]
  BY <1>1, AdvanceShape DEF Inductive
<1>4. /\ IsFunction(record', Tasks) /\ IsFunction(present', Tasks)
      /\ record'[t] = Changed(record[t], Arg(a)) /\ present'[t] = TRUE
      /\ \A u \in Tasks \ {t} : record'[u] = record[u] /\ present'[u] = present[u]
  BY <1>1, <1>2 DEF Inductive, TasksShape, IsFunction
<1>5. /\ IsFunction(record'[t], {"status", "notified"})
      /\ record[t].notified = TRUE \/ Arg(a) = "notified" => record'[t].notified = TRUE
  BY <1>2, <1>4, ChangeKeepsFlag DEF Inductive, TasksShape
<1>6. TasksShape'
  BY <1>1, <1>2, <1>3, <1>4, <1>5, HostIsNoTask DEF Inductive, TasksShape
<1>7. ASSUME NEW u \in Tasks, notes'[u] # 0
      PROVE  notes'[u] = 1 /\ (record'[u].notified = TRUE \/ Marking(u)')
  <2>1. notes'[u] = 1 /\ (record[u].notified = TRUE \/ Marking(u))
    BY <1>1, <1>7 DEF Inductive, Noted
  <2>2. CASE record[u].notified = TRUE
    BY <2>1, <2>2, <1>4, <1>5
  <2>3. CASE Marking(u) /\ a = Host
    <3>1. u = t /\ Arg(a) = "notified"
      BY <1>1, <1>2, <2>3, OwedSteps DEF Marking
    <3> QED
      BY <2>1, <3>1, <1>5
  <2>4. CASE Marking(u) /\ a # Host
    <3>1. Marking(u)'
      BY <1>1, <1>3, <1>4, <2>4, HostIsNoTask DEF Marking
    <3> QED
      BY <2>1, <3>1
  <2> QED
    BY <2>1, <2>2, <2>3, <2>4
<1> QED
  BY <1>1, <1>6, <1>7 DEF Inductive, Noted, FileBacked

(* append_event writes the list of events back.                            *)
LEMMA WriteEventsKeeps ==
    ASSUME Inductive, NEW a \in Threads, WriteEvents(a) PROVE Inductive'
<1>1. /\ UNCHANGED <<present, record, future, notes, storage, on>> /\ Advance(a)
      /\ Head1(a, "add") /\ todo[a] # <<>>
  BY DEF WriteEvents, Head1, history
<1>2. /\ IsFunction(todo', Threads) /\ todo'[a] = Tail(todo[a])
      /\ \A b \in Threads \ {a} : todo'[b] = todo[b]
  BY <1>1, AdvanceShape DEF Inductive
<1>3. CASE a = Host
  <2>1. \A t \in Tasks : ~Marking(t)
    BY <1>1, <1>3, OwedSteps DEF Marking
  <2>2. HostMoves
    BY <1>1, <1>2, <1>3, <2>1, HostIsNoTask DEF Inductive, TasksShape, HostMoves
  <2> QED
    BY <2>2, HostMovesKeeps
<1>4. CASE a \in Tasks
  <2>1. Aside
    BY <1>1, <1>2, <1>4, HostIsNoTask DEF Inductive, TasksShape, Aside
  <2> QED
    BY <2>1, AsideKeeps
<1> QED
  BY <1>3, <1>4 DEF Threads

(* The worker's own steps touch its future and its list of accesses.       *)
LEMMA WorkerKeeps == ASSUME Inductive, NEW t \in Tasks, Worker(t) PROVE Inductive'
<1>1. CASE StartWorker(t) \/ Report(t) \/ WorkerReturns(t) \/ WorkerEnds(t)
  <2>1. /\ UNCHANGED <<present, record, notes, storage, on>>
        /\ future[t] # "none" /\ \A b \in Threads \ {t} : todo'[b] = todo[b]
        /\ IsFunction(todo', Threads)
    BY <1>1 DEF StartWorker, Report, WorkerReturns, WorkerEnds, Free, registry, history,
                Inductive, TasksShape, IsFunction
  <2>2. /\ IsFunction(future', Tasks)
        /\ \A u \in Tasks : future[u] # "none" => future'[u] # "none"
    BY <1>1 DEF StartWorker, Report, WorkerReturns, WorkerEnds, Inductive, TasksShape, IsFunction
  <2>3. Aside
    BY <2>1, <2>2, HostIsNoTask DEF Inductive, TasksShape, Aside
  <2> QED
    BY <2>3, AsideKeeps
<1>2. CASE WorkerRaises(t)
  BY <1>2, RaiseInPool DEF WorkerRaises, Free
<1>3. CASE Access(t)
  BY <1>3, ReadKeeps, ReadRaisesKeeps, WriteRecordKeeps, WriteEventsKeeps, HostIsNoTask DEF Access
<1> QED
  BY <1>1, <1>2, <1>3 DEF Worker

(* A task is started once, so its record is new only before anybody was    *)
(* told of it.                                                             *)
LEMMA StartKeeps == ASSUME Inductive, NEW t \in Tasks, StartTask(t) PROVE Inductive'
<1>1. /\ record' = [record EXCEPT ![t] = Changed(Fresh, "running")]
      /\ present' = [present EXCEPT ![t] = TRUE] /\ future' = [future EXCEPT ![t] = "queued"]
      /\ UNCHANGED <<todo, on, notes, storage>> /\ on = Host /\ future[t] = "none"
  BY DEF StartTask, Spawn, HostFree, history
<1>2. IsFunction(Changed(Fresh, "running"), {"status", "notified"})
  BY DEF Changed, Fresh, IsFunction
<1>3. notes[t] = 0
  BY <1>1 DEF Inductive, TasksShape
<1>4. TasksShape'
  BY <1>1, <1>2, HostIsNoTask DEF Inductive, TasksShape, IsFunction
<1>5. Noted'
  BY <1>1, <1>3, HostIsNoTask DEF Inductive, TasksShape, Noted, Marking, IsFunction
<1> QED
  BY <1>1, <1>4, <1>5 DEF Inductive, FileBacked

(* A host that begins a call owes no mark: the call before it returned.    *)
LEMMA BeginKeeps ==
    ASSUME Inductive, NEW t \in Tasks, NEW script, on = Host, future[t] # "none", Begin(t, script),
           UNCHANGED <<present, record, notes, storage>>, IsFunction(future', Tasks),
           \A u \in Tasks : future[u] # "none" => future'[u] # "none"
    PROVE  Inductive'
<1>1. /\ on' = t /\ IsFunction(todo', Threads) /\ \A a \in Tasks : todo'[a] = todo[a]
  BY HostIsNoTask DEF Begin, Inductive, TasksShape, IsFunction
<1>2. TasksShape'
  BY <1>1, HostIsNoTask DEF Inductive, TasksShape
<1>3. Noted'
  BY HostIsNoTask DEF Inductive, Noted, Marking
<1> QED
  BY <1>2, <1>3 DEF Inductive, FileBacked

(* sync_task_notifications: what is announced was not announced before.    *)
LEMMA NotifyKeeps == ASSUME Inductive, NEW t \in Tasks, Notify(t) PROVE Inductive'
<1>1. /\ on = Host /\ present[t] /\ ~record[t].notified /\ on' = t
      /\ notes' = [notes EXCEPT ![t] = @ + 1]
      /\ todo' = [todo EXCEPT ![Host] = <<Get, Put("notified")>>]
      /\ UNCHANGED <<present, record, future, storage>>
  BY DEF Notify, HostFree, Begin, Update, registry
<1>2. notes[t] = 0
  BY <1>1, HostIsNoTask DEF Inductive, Noted, Marking
<1>3. /\ notes' \in [Tasks -> Nat] /\ notes'[t] = 1
      /\ \A u \in Tasks \ {t} : notes'[u] = notes[u]
  BY <1>1, <1>2 DEF Inductive, TasksShape
<1>4. /\ IsFunction(todo', Threads) /\ todo'[Host] = <<Get, Put("notified")>>
      /\ \A a \in Tasks : todo'[a] = todo[a]
  BY <1>1, HostIsNoTask DEF Inductive, TasksShape, IsFunction
<1>5. TasksShape'
  BY <1>1, <1>3, <1>4, HostIsNoTask DEF Inductive, TasksShape
<1>6. Noted'
  BY <1>1, <1>3, <1>4, HostIsNoTask DEF Inductive, Noted, Marking, Owed
<1> QED
  BY <1>1, <1>5, <1>6 DEF Inductive, FileBacked

LEMMA HostCallKeeps == ASSUME Inductive, NEW t \in Tasks, HostCall(t) PROVE Inductive'
<1>1. CASE StartTask(t)
  BY <1>1, StartKeeps
<1>2. CASE KillTask(t)
  <2>1. /\ on = Host /\ future[t] # "none" /\ UNCHANGED <<present, record, notes, storage>>
        /\ \E script : Begin(t, script)
    BY <1>2 DEF KillTask, HostFree, registry
  <2>2. /\ IsFunction(future', Tasks)
        /\ \A u \in Tasks : future[u] # "none" => future'[u] # "none"
    BY <1>2 DEF KillTask, Inductive, TasksShape, IsFunction
  <2> QED
    BY <2>1, <2>2, BeginKeeps
<1>3. CASE Notify(t)
  BY <1>3, NotifyKeeps
<1>4. CASE Observe(t)
  <2>1. UNCHANGED <<present, record, future, todo, on, notes, storage>>
    BY <1>4 DEF Observe, threads, history
  <2>2. Aside
    BY <2>1 DEF Inductive, TasksShape, Aside
  <2> QED
    BY <2>2, AsideKeeps
<1>5. CASE EvictTask(t)
  <2>1. /\ on = Host /\ present[t] /\ Begin(t, <<Remove>>)
        /\ UNCHANGED <<present, record, future, notes, storage>>
    BY <1>5 DEF EvictTask, HostFree, registry, history
  <2>2. future[t] # "none" /\ IsFunction(future', Tasks)
    BY <2>1 DEF Inductive, TasksShape
  <2> QED
    BY <2>1, <2>2, BeginKeeps
<1> QED
  BY <1>1, <1>2, <1>3, <1>4, <1>5 DEF HostCall

(* The record that is removed is not the one the host has yet to mark.     *)
LEMMA HostStepKeeps == ASSUME Inductive, HostStep PROVE Inductive'
<1>1. CASE Access(Host)
  BY <1>1, ReadKeeps, ReadRaisesKeeps, WriteRecordKeeps, WriteEventsKeeps, HostIsNoTask DEF Access
<1>2. CASE RemoveTask
  <2>1. /\ Head1(Host, "remove") /\ present' = [present EXCEPT ![on] = FALSE] /\ Advance(Host)
        /\ UNCHANGED <<record, future, notes, storage, on>> /\ todo[Host] # <<>>
    BY <1>2 DEF RemoveTask, Head1, history
  <2>2. /\ IsFunction(todo', Threads) /\ \A b \in Threads \ {Host} : todo'[b] = todo[b]
    BY <2>1, AdvanceShape, HostIsNoTask DEF Inductive
  <2>3. \A t \in Tasks : ~Marking(t)
    BY <2>1, OwedSteps DEF Marking
  <2>4. IsFunction(present', Tasks) /\ \A t \in Tasks : present'[t] => present[t]
    BY <2>1 DEF Inductive, TasksShape, IsFunction
  <2>5. HostMoves
    BY <2>1, <2>2, <2>3, <2>4, HostIsNoTask DEF Inductive, TasksShape, HostMoves
  <2> QED
    BY <2>5, HostMovesKeeps
<1>3. CASE HostReturns
  <2>1. /\ todo[Host] = <<>> /\ on' = Host
        /\ UNCHANGED <<present, record, future, todo, notes, storage>>
    BY <1>3 DEF HostReturns, registry, history
  <2>2. \A t \in Tasks : ~Marking(t)
    BY <2>1, OwedSteps DEF Marking, Head1
  <2>3. HostMoves
    BY <2>1, <2>2, HostIsNoTask DEF Inductive, TasksShape, HostMoves
  <2> QED
    BY <2>3, HostMovesKeeps
<1> QED
  BY <1>1, <1>2, <1>3 DEF HostStep

(* A host with shared records keeps them: the storage is chosen at once.   *)
LEMMA StepKeeps ==
    ASSUME FileBacked \/ Inductive, [Next]_vars PROVE (FileBacked \/ Inductive)'
<1>1. CASE FileBacked
  <2>1. UNCHANGED storage
    BY DEF Next, HostStep, Access, ReadRecord, ReadEvents, ReadRaises, Raise, WriteRecord, WriteEvents,
           RemoveTask, HostReturns, Restart, Worker, StartWorker, Report, WorkerReturns, WorkerRaises,
           WorkerEnds, HostCall, StartTask, KillTask, Notify, Observe, EvictTask, history, vars
  <2> QED
    BY <1>1, <2>1 DEF FileBacked
<1>2. ASSUME Inductive PROVE Inductive'
  <2>1. CASE UNCHANGED vars
    <3>1. Aside
      BY <1>2, <2>1 DEF vars, registry, threads, history, Inductive, TasksShape, Aside
    <3> QED
      BY <1>2, <3>1, AsideKeeps
  <2>2. CASE HostStep
    BY <1>2, <2>2, HostStepKeeps
  <2>3. CASE Restart
    BY <1>2, <2>3 DEF Restart, Inductive
  <2>4. ASSUME NEW t \in Tasks, Worker(t) \/ HostCall(t) PROVE Inductive'
    BY <1>2, <2>4, WorkerKeeps, HostCallKeeps
  <2> QED
    BY <2>1, <2>2, <2>3, <2>4 DEF Next
<1> QED
  BY <1>1, <1>2

(* With shared records a task that was announced is marked, or the host is *)
(* busy with the mark (sync_task_notifications, runtime.py:97-121).        *)
THEOREM MarkIsOwed == Spec => [](FileBacked \/ Inductive)
<1>1. Init => FileBacked \/ Inductive
  BY HostIsNoTask DEF Init, Inductive, TasksShape, Noted, IsFunction, Fresh
<1> QED
  BY <1>1, StepKeeps, PTL DEF Spec

(* Whatever the worker writes over the record, and however often the task  *)
(* is killed, the leader is told once how it ended.                        *)
THEOREM NotifiedOnceAlways == Spec => []NotifiedOnce
<1>1. FileBacked \/ Inductive => NotifiedOnce
  BY DEF Inductive, TasksShape, Noted, NotifiedOnce
<1> QED
  BY <1>1, MarkIsOwed, PTL
-----------------------------------------------------------------------------
Events  == {"started", "progress"} \cup Terminals
Futures == {"none", "queued", "cancelled", "working", "completing", "failing",
            "returned", "raised", "lost"}
Records == [status : Statuses, notified : BOOLEAN]

(* The accesses a thread may have to make; the host adds only outcomes.    *)
Accesses(E) == {Get, ReadLog, Remove} \cup {Put(s) : s \in {"notified", "output"} \cup Terminals}
                 \cup {Add(e) : e \in E}
Ops     == Accesses({"progress"} \cup Terminals)
HostOps == Accesses(Terminals)

(* Every write of a record comes straight after the read of that record:   *)
(* for the accesses that are left, or for a whole call.                    *)
Paired(q) == \A i \in 2..Len(q) : q[i].op = "put" => q[i - 1].op = "get"
Script(q) == Paired(q) /\ (q # <<>> => q[1].op # "put")

(* The calls complete_task and _kill_task end by adding the outcome and    *)
(* looking at the record.                                                  *)
Ends(q, e) == Len(q) >= 2 /\ q[Len(q) - 1] = Add(e) /\ q[Len(q)] = Get

Lists ==
    /\ todo \in [Threads -> Seq(Ops)] /\ todo[Host] \in Seq(HostOps)
    /\ \A a \in Threads : Paired(todo[a])

Shape ==
    /\ Lists
    /\ present \in [Tasks -> BOOLEAN] /\ record \in [Tasks -> Records]
    /\ log \in [Tasks -> Seq(Events)] /\ future \in [Tasks -> Futures]
    /\ mine \in [Threads -> Records] /\ read \in [Threads -> Seq(Events)]
    /\ on \in Tasks \cup {Host}

(* Who may still access what: the host works on started tasks, a worker    *)
(* accesses its own task while it executes, and a host about to write has  *)
(* read a record that nobody removed, and that nobody else can have        *)
(* written when the worker was lost in a restart.                          *)
Scripted ==
    /\ on = Host => todo[Host] = <<>>
    /\ on \in Tasks => future[on] # "none"
    /\ \A t \in Tasks : /\ future[t] \notin {"working", "completing", "failing"} => todo[t] = <<>>
                        /\ future[t] = "none" => record[t] = Fresh
    /\ Head1(Host, "put") => /\ present[on]
                             /\ FileBacked /\ future[on] = "lost" => mine[Host] = record[on]

(* A worker that completes has told the outcome or will; so has the host   *)
(* that cancelled a task, unless it is still about to.                     *)
Told(t) == present[t] => Logged(t)

Telling ==
    \A t \in Tasks :
        /\ future[t] = "completing" =>
              Ends(todo[t], "completed") \/ (todo[t] \in {<<Get>>, <<>>} /\ Told(t))
        /\ future[t] = "returned" => Told(t)
        /\ future[t] = "cancelled" => Told(t) \/ (on = t /\ Ends(todo[Host], "killed"))

Accounted == Shape /\ Scripted /\ Telling
-----------------------------------------------------------------------------
(* What the first access of a list is, and what is left after it.          *)
LEMMA First ==
    ASSUME NEW E, NEW q \in Seq(Accesses(E)), q # <<>>
    PROVE  /\ Head(q) = q[1] /\ Head(q) \in Accesses(E) /\ Len(q) \in Nat \ {0}
           /\ Head(q).op = "put" => Head(q).arg \in {"notified", "output"} \cup Terminals
           /\ Head(q).op = "add" => Head(q).arg \in E
           /\ Tail(q) \in Seq(Accesses(E)) /\ Len(Tail(q)) = Len(q) - 1
           /\ \A i \in 1..Len(Tail(q)) : Tail(q)[i] = q[i + 1]
<1>1. /\ Head(q) = q[1] /\ Head(q) \in Accesses(E) /\ Len(q) \in Nat \ {0}
      /\ Tail(q) \in Seq(Accesses(E)) /\ Len(Tail(q)) = Len(q) - 1
      /\ \A i \in 1..Len(Tail(q)) : Tail(q)[i] = q[i + 1]
  BY HeadTailProperties, LenProperties, EmptySeq
<1> DEFINE h == Head(q)
<1>2. h \in Accesses(E)
  BY <1>1
<1> HIDE DEF h
<1>3. /\ h.op = "put" => h.arg \in {"notified", "output"} \cup Terminals
      /\ h.op = "add" => h.arg \in E
  BY <1>2 DEF Accesses, Get, ReadLog, Remove, Put, Add
<1> QED BY <1>1, <1>3 DEF h

(* What is left keeps the pairs, and begins with a write only after a read.*)
LEMMA TailIsPaired ==
    ASSUME NEW E, NEW q \in Seq(Accesses(E)), q # <<>>, Paired(q)
    PROVE  /\ Paired(Tail(q))
           /\ Tail(q) # <<>> /\ Head(Tail(q)).op = "put"
                => Head(q).op = "get" /\ Len(q) > 1 /\ q[2].op = "put"
<1> DEFINE r == Tail(q)
<1>1. /\ Head(q) = q[1] /\ Len(q) \in Nat \ {0} /\ r \in Seq(Accesses(E)) /\ Len(r) = Len(q) - 1
      /\ \A i \in 1..Len(r) : r[i] = q[i + 1]
  BY First
<1> HIDE DEF r
<1>2. Paired(r)
  <2> SUFFICES ASSUME NEW i \in 2..Len(r), r[i].op = "put" PROVE r[i - 1].op = "get"
    BY DEF Paired
  <2>1. i \in 1..Len(r) /\ i - 1 \in 1..Len(r) /\ i + 1 \in 2..Len(q) /\ (i - 1) + 1 = i
        /\ (i + 1) - 1 = i
    BY <1>1
  <2>2. r[i] = q[i + 1] /\ r[i - 1] = q[i]
    BY <1>1, <2>1
  <2> QED BY <2>1, <2>2 DEF Paired
<1>3. ASSUME r # <<>>, Head(r).op = "put"
      PROVE  Head(q).op = "get" /\ Len(q) > 1 /\ q[2].op = "put"
  <2>1. Head(r) = r[1] /\ Len(r) \in Nat \ {0}
    BY <1>1, <1>3, First
  <2>2. r[1] = q[2] /\ 2 \in 2..Len(q) /\ 2 - 1 = 1
    BY <1>1, <2>1
  <2>3. q[2 - 1].op = "get"
    BY <1>3, <2>1, <2>2 DEF Paired
  <2> QED BY <1>1, <1>3, <2>1, <2>2, <2>3
<1> QED BY <1>2, <1>3 DEF r

(* Until the outcome is added, what is left still ends with it.            *)
LEMMA TailEnds ==
    ASSUME NEW E, NEW q \in Seq(Accesses(E)), NEW e, Ends(q, e)
    PROVE  /\ q # <<>>
           /\ Ends(Tail(q), e) \/ (Head(q) = Add(e) /\ Tail(q) = <<Get>>)
<1>1. q # <<>>
  BY EmptySeq DEF Ends
<1> DEFINE r == Tail(q)
<1>2. /\ Head(q) = q[1] /\ Len(q) \in Nat \ {0} /\ r \in Seq(Accesses(E)) /\ Len(r) = Len(q) - 1
      /\ \A i \in 1..Len(r) : r[i] = q[i + 1]
  BY <1>1, First
<1> HIDE DEF r
<1>3. CASE Len(q) = 2
  <2>1. Len(r) = 1 /\ r[1] = Get /\ Head(q) = Add(e)
    BY <1>2, <1>3 DEF Ends
  <2>2. Get \in Accesses(E)
    BY DEF Accesses
  <2>3. <<Get>> \in Seq(Accesses(E)) /\ Len(<<Get>>) = 1 /\ <<Get>>[1] = Get
    BY <2>2
  <2>4. r = <<Get>>
    BY <1>2, <2>1, <2>3, SeqEqual
  <2> QED BY <1>1, <2>1, <2>4 DEF r
<1>4. CASE Len(q) # 2
  <2>1. Len(r) >= 2
    BY <1>2, <1>4 DEF Ends
  <2>2. Len(r) - 1 \in 1..Len(r) /\ Len(r) \in 1..Len(r) /\ Len(r) - 1 + 1 = Len(q) - 1
    BY <1>2, <2>1
  <2>3. r[Len(r) - 1] = q[Len(q) - 1] /\ r[Len(r)] = q[Len(q)]
    BY <1>2, <2>2
  <2>4. Ends(r, e)
    BY <2>1, <2>3 DEF Ends
  <2> QED BY <1>1, <2>4 DEF r
<1> QED BY <1>3, <1>4
-----------------------------------------------------------------------------
(* A call that makes two calls in turn.                                    *)
LEMMA Join ==
    ASSUME NEW E, NEW p \in Seq(Accesses(E)), NEW q \in Seq(Accesses(E)), Script(p), Script(q)
    PROVE  p \o q \in Seq(Accesses(E)) /\ Script(p \o q)
<1> DEFINE r == p \o q
<1>1. Len(p) \in Nat /\ Len(q) \in Nat /\ (p # <<>> => Len(p) # 0) /\ (q # <<>> => Len(q) # 0)
  BY LenProperties, EmptySeq
<1>2. r \in Seq(Accesses(E)) /\ Len(r) = Len(p) + Len(q)
  BY ConcatProperties
<1>3. \A i \in 1..(Len(p) + Len(q)) : r[i] = IF i <= Len(p) THEN p[i] ELSE q[i - Len(p)]
  BY ConcatProperties
<1>4. Len(p) = 0 => p = <<>>
  BY EmptySeq
<1>5. Len(q) = 0 => q = <<>>
  BY EmptySeq
<1> HIDE DEF r
<1>6. ASSUME NEW i \in 1..Len(r), r[i].op = "put" PROVE i > 1 /\ r[i - 1].op = "get"
  <2>1. CASE i <= Len(p)
    <3>1. r[i] = p[i] /\ p # <<>>
      BY <1>1, <1>2, <1>3, <2>1, EmptySeq
    <3>2. i > 1
      BY <1>6, <3>1 DEF Script
    <3>3. i \in 2..Len(p) /\ i - 1 \in 1..(Len(p) + Len(q)) /\ i - 1 <= Len(p)
      BY <1>1, <1>2, <2>1, <3>2
    <3>4. r[i - 1] = p[i - 1]
      BY <1>3, <3>3
    <3> QED BY <1>6, <3>1, <3>2, <3>3, <3>4 DEF Script, Paired
  <2>2. CASE ~(i <= Len(p))
    <3>1. i - Len(p) \in 1..Len(q) /\ r[i] = q[i - Len(p)] /\ Len(q) # 0
      BY <1>1, <1>2, <1>3, <2>2
    <3>2. q # <<>> /\ i - Len(p) # 1
      BY <1>6, <3>1, EmptySeq DEF Script
    <3>3. i - Len(p) \in 2..Len(q) /\ i - 1 \in 1..(Len(p) + Len(q)) /\ ~(i - 1 <= Len(p))
          /\ (i - 1) - Len(p) = (i - Len(p)) - 1
      BY <1>1, <1>2, <3>1, <3>2
    <3>4. r[i - 1] = q[(i - Len(p)) - 1]
      BY <1>3, <3>3
    <3>5. q[(i - Len(p)) - 1].op = "get"
      BY <1>6, <3>1, <3>3 DEF Script, Paired
    <3> QED BY <1>1, <1>2, <3>3, <3>4, <3>5
  <2> QED BY <2>1, <2>2
<1>7. Paired(r)
  BY <1>2, <1>6 DEF Paired
<1>8. r # <<>> => Len(r) \in Nat \ {0}
  BY <1>2, LenProperties, EmptySeq
<1>9. r # <<>> => r[1].op # "put"
  BY <1>6, <1>8
<1> QED BY <1>2, <1>7, <1>9 DEF Script, r

(* The two calls everything is made of.                                    *)
LEMMA Calls ==
    ASSUME NEW E
    PROVE  /\ Project \in Seq(Accesses(E)) /\ Script(Project)
           /\ <<Get>> \in Seq(Accesses(E)) /\ Script(<<Get>>)
           /\ <<Remove>> \in Seq(Accesses(E)) /\ Script(<<Remove>>)
           /\ \A s \in {"notified", "output"} \cup Terminals :
                 Update(s) \in Seq(Accesses(E)) /\ Script(Update(s))
           /\ \A e \in E : AppendEvent(e) \in Seq(Accesses(E)) /\ Script(AppendEvent(e))
<1>1. /\ Get \in Accesses(E) /\ ReadLog \in Accesses(E) /\ Remove \in Accesses(E)
      /\ \A s \in {"notified", "output"} \cup Terminals : Put(s) \in Accesses(E)
      /\ \A e \in E : Add(e) \in Accesses(E)
  BY DEF Accesses
<1>2. /\ <<Get>> \in Seq(Accesses(E)) /\ Script(<<Get>>)
      /\ <<Remove>> \in Seq(Accesses(E)) /\ Script(<<Remove>>)
  BY <1>1 DEF Script, Paired, Get, Remove
<1>3. ASSUME NEW s \in {"notified", "output"} \cup Terminals
      PROVE  Update(s) \in Seq(Accesses(E)) /\ Script(Update(s))
  BY <1>1 DEF Update, Script, Paired, Get, Put
<1>4. ASSUME NEW e \in E
      PROVE  AppendEvent(e) \in Seq(Accesses(E)) /\ Script(AppendEvent(e))
  BY <1>1 DEF AppendEvent, Script, Paired, Get, ReadLog, Add
<1> QED BY <1>2, <1>3, <1>4 DEF Project

(* A call that ends by adding an outcome and looking at the record.        *)
LEMMA EndsWithOutcome ==
    ASSUME NEW E, NEW p \in Seq(Accesses(E)), NEW e \in E
    PROVE  Ends((p \o AppendEvent(e)) \o Project, e)
<1> DEFINE a == AppendEvent(e)
           b == Project
<1>1. a \in Seq(Accesses(E)) /\ Len(a) = 3 /\ a[3] = Add(e)
  BY Calls DEF AppendEvent
<1>2. b \in Seq(Accesses(E)) /\ Len(b) = 1 /\ b[1] = Get
  BY Calls DEF Project
<1>3. Len(p) \in Nat
  BY LenProperties
<1> HIDE DEF a, b
<1> DEFINE c == p \o a
<1>4. c \in Seq(Accesses(E)) /\ Len(c) = Len(p) + Len(a)
  BY <1>1, ConcatProperties
<1>5. \A i \in 1..(Len(p) + Len(a)) : c[i] = IF i <= Len(p) THEN p[i] ELSE a[i - Len(p)]
  BY <1>1, ConcatProperties
<1> HIDE DEF c
<1>6. /\ Len(c) = Len(p) + 3 /\ Len(p) + 3 \in 1..(Len(p) + Len(a))
      /\ ~(Len(p) + 3 <= Len(p)) /\ Len(p) + 3 - Len(p) = 3
  BY <1>1, <1>3, <1>4
<1>7. c[Len(p) + 3] = Add(e)
  BY <1>1, <1>5, <1>6
<1> DEFINE d == c \o b
<1>0. c \in Seq(Accesses(E)) /\ b \in Seq(Accesses(E))
  BY <1>2, <1>4
<1>8. d \in Seq(Accesses(E)) /\ Len(d) = Len(c) + Len(b)
  BY <1>0, ConcatProperties
<1>9. \A i \in 1..(Len(c) + Len(b)) : d[i] = IF i <= Len(c) THEN c[i] ELSE b[i - Len(c)]
  BY <1>0, ConcatProperties
<1> HIDE DEF d
<1>10. /\ Len(c) \in 1..(Len(c) + Len(b)) /\ Len(c) + 1 \in 1..(Len(c) + Len(b))
       /\ ~(Len(c) + 1 <= Len(c)) /\ Len(c) + 1 - Len(c) = 1 /\ Len(c) <= Len(c)
       /\ Len(d) = Len(c) + 1 /\ Len(d) >= 2 /\ Len(d) - 1 = Len(c)
  BY <1>2, <1>3, <1>6, <1>8
<1>11. d[Len(c)] = c[Len(c)] /\ d[Len(c) + 1] = b[1]
  BY <1>9, <1>10
<1>12. Ends(d, e)
  BY <1>2, <1>6, <1>7, <1>10, <1>11 DEF Ends
<1> QED BY <1>12 DEF a, b, c, d

(* The calls of a worker and of the host are such lists, and the last two  *)
(* tell the outcome (background.py:205-254, 318-346).                      *)
LEMMA WorkerCalls ==
    /\ \A s \in {Progress, Output, Fail} : s \in Seq(Ops) /\ Script(s)
    /\ \A s \in CompleteVerifier \cup {Complete} :
          s \in Seq(Ops) /\ Script(s) /\ Ends(s, "completed")
<1> DEFINE E == {"progress"} \cup Terminals
<1>a. Ops = Accesses(E) /\ "progress" \in E /\ "completed" \in E /\ "failed" \in E
      /\ "completed" \in Terminals /\ "failed" \in Terminals
  BY DEF Ops, Terminals
<1> HIDE DEF E
<1>1. Progress \in Seq(Ops) /\ Script(Progress) /\ Output \in Seq(Ops) /\ Script(Output)
  BY <1>a, Calls DEF Progress, Output
<1> DEFINE uo == Update("output")  uc == Update("completed")  uf == Update("failed")
           ac == AppendEvent("completed")  af == AppendEvent("failed")
<1>2. /\ uo \in Seq(Ops) /\ Script(uo) /\ uc \in Seq(Ops) /\ Script(uc)
      /\ uf \in Seq(Ops) /\ Script(uf) /\ ac \in Seq(Ops) /\ Script(ac)
      /\ af \in Seq(Ops) /\ Script(af) /\ Project \in Seq(Ops) /\ Script(Project)
  BY <1>a, Calls
<1> HIDE DEF uo, uc, uf, ac, af
<1>3. (uf \o af) \in Seq(Ops) /\ Script(uf \o af)
  BY <1>a, <1>2, Join
<1>4. (uf \o af) \o Project \in Seq(Ops) /\ Script((uf \o af) \o Project)
  BY <1>a, <1>2, <1>3, Join
<1>5. (uo \o uc) \in Seq(Ops) /\ Script(uo \o uc)
  BY <1>a, <1>2, Join
<1>6. ((uo \o uc) \o ac) \in Seq(Ops) /\ Script((uo \o uc) \o ac)
  BY <1>a, <1>2, <1>5, Join
<1>7. (((uo \o uc) \o ac) \o Project) \in Seq(Ops) /\ Script(((uo \o uc) \o ac) \o Project)
  BY <1>a, <1>2, <1>6, Join
<1>8. (uc \o ac) \in Seq(Ops) /\ Script(uc \o ac)
  BY <1>a, <1>2, Join
<1>9. ((uc \o ac) \o Project) \in Seq(Ops) /\ Script((uc \o ac) \o Project)
  BY <1>a, <1>2, <1>8, Join
<1>10. /\ Ends(((uo \o uc) \o ac) \o Project, "completed")
       /\ Ends((uc \o ac) \o Project, "completed")
  BY <1>a, <1>2, <1>5, EndsWithOutcome DEF ac
<1> QED
  BY <1>1, <1>4, <1>7, <1>9, <1>10
     DEF Fail, Complete, CompleteVerifier, uo, uc, uf, ac, af

LEMMA HostCalls ==
    /\ \A s \in {Killing, KillUnknown, Update("notified"), <<Remove>>} :
          s \in Seq(HostOps) /\ Script(s)
    /\ Ends(Killing, "killed")
<1>a. HostOps = Accesses(Terminals) /\ "killed" \in Terminals
  BY DEF HostOps, Terminals
<1> DEFINE uk == Update("killed")  ak == AppendEvent("killed")
<1>1. /\ uk \in Seq(HostOps) /\ Script(uk) /\ ak \in Seq(HostOps) /\ Script(ak)
      /\ Project \in Seq(HostOps) /\ Script(Project)
      /\ <<Get>> \in Seq(HostOps) /\ Script(<<Get>>)
      /\ <<Remove>> \in Seq(HostOps) /\ Script(<<Remove>>)
      /\ Update("notified") \in Seq(HostOps) /\ Script(Update("notified"))
  BY <1>a, Calls
<1> HIDE DEF uk, ak
<1>2. (uk \o ak) \in Seq(HostOps) /\ Script(uk \o ak)
  BY <1>a, <1>1, Join
<1>3. (uk \o ak) \o Project \in Seq(HostOps) /\ Script((uk \o ak) \o Project)
  BY <1>a, <1>1, <1>2, Join
<1>4. (<<Get>> \o uk) \in Seq(HostOps) /\ Script(<<Get>> \o uk)
  BY <1>a, <1>1, Join
<1>5. ((<<Get>> \o uk) \o ak) \in Seq(HostOps) /\ Script((<<Get>> \o uk) \o ak)
  BY <1>a, <1>1, <1>4, Join
<1>6. Ends((uk \o ak) \o Project, "killed")
  BY <1>a, <1>1, EndsWithOutcome DEF ak
<1> QED
  BY <1>1, <1>3, <1>5, <1>6 DEF Killing, KillUnknown, uk, ak

LEMMA HostOpsAreOps == Seq(HostOps) \subseteq Seq(Ops)
<1>1. HostOps \subseteq Ops
  BY DEF HostOps, Ops, Accesses
<1> QED BY <1>1, SeqMonotonic
-----------------------------------------------------------------------------
(* The access a thread makes next, and the lists once it is made.          *)
LEMMA NextAccess ==
    ASSUME Shape, Scripted, NEW a \in Threads, todo[a] # <<>>
    PROVE  /\ On(a) \in Tasks /\ (a # Host => On(a) = a) /\ (a = Host => On(a) = on)
           /\ Head1(a, "put") => Arg(a) \in {"notified", "output"} \cup Terminals
           /\ Head1(a, "add") => Arg(a) \in {"progress"} \cup Terminals
           /\ Head1(a, "add") /\ a = Host => Arg(a) \in Terminals
           /\ Advance(a) => /\ Lists' /\ todo'[a] = Tail(todo[a])
                            /\ \A b \in Threads \ {a} : todo'[b] = todo[b]
<1>1. On(a) \in Tasks /\ (a # Host => On(a) = a) /\ (a = Host => On(a) = on)
  BY DEF Shape, Scripted, On, Threads
<1>2. todo[a] \in Seq(Ops) /\ Paired(todo[a]) /\ todo \in [Threads -> Seq(Ops)]
      /\ todo[Host] \in Seq(HostOps) /\ \A b \in Threads : Paired(todo[b])
  BY DEF Shape, Lists
<1>3. /\ Head(todo[a]).op = "put" => Head(todo[a]).arg \in {"notified", "output"} \cup Terminals
      /\ Head(todo[a]).op = "add" => Head(todo[a]).arg \in {"progress"} \cup Terminals
      /\ Tail(todo[a]) \in Seq(Ops)
  BY <1>2, First DEF Ops
<1>4. a = Host => /\ Head(todo[a]).op = "add" => Head(todo[a]).arg \in Terminals
                  /\ Tail(todo[a]) \in Seq(HostOps)
  BY <1>2, First DEF HostOps
<1>5. Paired(Tail(todo[a]))
  BY <1>2, TailIsPaired DEF Ops
<1>6. ASSUME Advance(a)
      PROVE  /\ Lists' /\ todo'[a] = Tail(todo[a])
             /\ \A b \in Threads \ {a} : todo'[b] = todo[b]
  <2>1. /\ todo' \in [Threads -> Seq(Ops)] /\ todo'[a] = Tail(todo[a])
        /\ \A b \in Threads \ {a} : todo'[b] = todo[b]
    BY <1>2, <1>3, <1>6 DEF Advance
  <2>2. todo'[Host] \in Seq(HostOps) /\ \A b \in Threads : Paired(todo'[b])
    BY <1>2, <1>4, <1>5, <2>1, HostIsNoTask
  <2> QED BY <2>1, <2>2 DEF Lists
<1> QED BY <1>1, <1>3, <1>4, <1>6 DEF Head1, Arg

(* A call gives a thread a new list.                                       *)
LEMMA NewList ==
    ASSUME Lists, NEW a \in Threads, NEW s \in Seq(Ops), Script(s), a = Host => s \in Seq(HostOps),
           todo' = [todo EXCEPT ![a] = s]
    PROVE  Lists' /\ todo'[a] = s /\ \A b \in Threads \ {a} : todo'[b] = todo[b]
<1>1. /\ todo' \in [Threads -> Seq(Ops)] /\ todo'[a] = s
      /\ \A b \in Threads \ {a} : todo'[b] = todo[b]
  BY DEF Lists
<1>2. todo'[Host] \in Seq(HostOps) /\ \A b \in Threads : Paired(todo'[b])
  BY <1>1, HostIsNoTask DEF Lists, Script
<1> QED BY <1>1, <1>2 DEF Lists

LEMMA NoAccess ==
    <<>> \in Seq(Ops) /\ <<>> \in Seq(HostOps) /\ Script(<<>>) /\ <<>> \in Seq(Events)
BY EmptySeq DEF Script, Paired

LEMMA ChangedIsRecord ==
    ASSUME NEW r \in Records, NEW s \in {"notified", "output"} \cup Terminals
    PROVE  /\ Changed(r, s) \in Records
           /\ r.status \in Terminals => Changed(r, s).status \in Terminals
BY DEF Records, Changed, Statuses, Terminals

LEMMA FreshIsRecord == Fresh \in Records /\ Changed(Fresh, "running") \in Records
BY DEF Fresh, Records, Changed, Statuses

(* What an exception leaves behind.                                        *)
LEMMA Raised ==
    ASSUME Shape, Scripted, NEW a \in Threads, Raise(a)
    PROVE  /\ Shape' /\ UNCHANGED <<registry, on, storage>>
           /\ \A b \in Threads \ {a} : todo'[b] = todo[b]
           /\ \A t \in Tasks \ {a} : future'[t] = future[t]
           /\ a \in Tasks => /\ future'[a] \in {"failing", "raised"}
                             /\ future'[a] = "raised" => todo'[a] = <<>>
           /\ a = Host => todo'[a] = <<>>
<1> USE NoAccess, FreshIsRecord, HostIsNoTask
<1>1. Fail \in Seq(Ops) /\ Script(Fail)
  BY WorkerCalls
<1>2. UNCHANGED <<registry, on, storage>> /\ Forget(a)
  BY DEF Raise, history
<1>3. mine' \in [Threads -> Records] /\ read' \in [Threads -> Seq(Events)]
  BY <1>2 DEF Forget, Shape
<1>4. CASE a \in Background /\ future[a] # "failing"
  <2>1. todo' = [todo EXCEPT ![a] = Fail] /\ future' = [future EXCEPT ![a] = "failing"]
        /\ a \in Tasks /\ a # Host
    BY <1>4 DEF Raise, Tasks
  <2>2. Lists' /\ \A b \in Threads \ {a} : todo'[b] = todo[b]
    BY <1>1, <2>1, NewList DEF Shape
  <2>3. /\ future' \in [Tasks -> Futures] /\ future'[a] = "failing"
        /\ \A t \in Tasks \ {a} : future'[t] = future[t]
    BY <2>1 DEF Shape, Futures
  <2> QED BY <1>2, <1>3, <2>1, <2>2, <2>3 DEF Shape, registry
<1>5. CASE ~(a \in Background /\ future[a] # "failing")
  <2>1. todo' = [todo EXCEPT ![a] = <<>>]
        /\ future' = IF a = Host THEN future ELSE [future EXCEPT ![a] = "raised"]
    BY <1>5 DEF Raise
  <2>2. Lists' /\ todo'[a] = <<>> /\ \A b \in Threads \ {a} : todo'[b] = todo[b]
    BY <2>1, NewList DEF Shape
  <2>3. /\ future' \in [Tasks -> Futures] /\ (a \in Tasks => future'[a] = "raised")
        /\ \A t \in Tasks \ {a} : future'[t] = future[t]
    BY <2>1 DEF Shape, Futures, Threads
  <2> QED BY <1>2, <1>3, <2>2, <2>3 DEF Shape, registry
<1> QED BY <1>4, <1>5

(* The registry, the lists and what the threads have read keep their shape.*)
LEMMA ShapeStep == ASSUME Shape, Scripted, [Next]_vars PROVE Shape'
<1> USE NoAccess, FreshIsRecord, HostIsNoTask
<1>a. Lists
  BY DEF Shape
<1>b. \A a \in Threads : \A l : Head1(a, l) => todo[a] # <<>>
  BY DEF Head1
<1>1. ASSUME NEW a \in Threads, Access(a) PROVE Shape'
  <2>1. CASE ReadRecord(a)
    <3>1. todo[a] # <<>> /\ Advance(a) /\ UNCHANGED <<registry, future, on, read>>
      BY <2>1, <1>b DEF ReadRecord
    <3>2. Lists' /\ On(a) \in Tasks
      BY <3>1, NextAccess
    <3>3. mine' \in [Threads -> Records]
      BY <2>1, <3>2 DEF ReadRecord, Shape
    <3> QED BY <3>1, <3>2, <3>3 DEF Shape, registry
  <2>2. CASE ReadEvents(a)
    <3>1. todo[a] # <<>> /\ Advance(a) /\ UNCHANGED <<registry, future, on, mine>>
      BY <2>2, <1>b DEF ReadEvents
    <3>2. Lists' /\ On(a) \in Tasks
      BY <3>1, NextAccess
    <3>3. read' \in [Threads -> Seq(Events)]
      BY <2>2, <3>2 DEF ReadEvents, Shape
    <3> QED BY <3>1, <3>2, <3>3 DEF Shape, registry
  <2>3. CASE ReadRaises(a)
    BY <2>3, Raised DEF ReadRaises
  <2>4. CASE WriteRecord(a)
    <3>1. /\ todo[a] # <<>> /\ Advance(a) /\ Forget(a) /\ UNCHANGED <<log, future, on>>
          /\ Head1(a, "put")
      BY <2>4, <1>b DEF WriteRecord
    <3>2. Lists' /\ On(a) \in Tasks /\ Arg(a) \in {"notified", "output"} \cup Terminals
      BY <3>1, NextAccess
    <3>3. mine' \in [Threads -> Records] /\ read' \in [Threads -> Seq(Events)]
      BY <3>1 DEF Forget, Shape
    <3>4. /\ Changed(mine[a], Arg(a)) \in Records
          /\ Changed(record[On(a)], Arg(a)) \in Records
      BY <3>2, ChangedIsRecord DEF Shape
    <3>5. record' \in [Tasks -> Records] /\ present' \in [Tasks -> BOOLEAN]
      BY <2>4, <3>2, <3>4 DEF WriteRecord, Shape
    <3> QED BY <3>1, <3>2, <3>3, <3>5 DEF Shape
  <2>5. CASE WriteEvents(a)
    <3>1. /\ todo[a] # <<>> /\ Advance(a) /\ Forget(a) /\ UNCHANGED <<present, record, future, on>>
          /\ Head1(a, "add")
      BY <2>5, <1>b DEF WriteEvents
    <3>2. Lists' /\ On(a) \in Tasks /\ Arg(a) \in Events
      BY <3>1, NextAccess DEF Events
    <3>3. mine' \in [Threads -> Records] /\ read' \in [Threads -> Seq(Events)]
      BY <3>1 DEF Forget, Shape
    <3>4. Append(read[a], Arg(a)) \in Seq(Events)
      BY <3>2, AppendProperties DEF Shape
    <3>5. log' \in [Tasks -> Seq(Events)]
      BY <2>5, <3>2, <3>4 DEF WriteEvents, Shape
    <3> QED BY <3>1, <3>2, <3>3, <3>5 DEF Shape
  <2> QED BY <1>1, <2>1, <2>2, <2>3, <2>4, <2>5 DEF Access
<1>2. ASSUME NEW t \in Tasks, StartWorker(t) \/ WorkerEnds(t) PROVE Shape'
  <2>1. /\ UNCHANGED <<registry, todo, on>> /\ future' \in [Tasks -> Futures]
    BY <1>2 DEF StartWorker, WorkerEnds, Shape, Futures
  <2>2. mine' \in [Threads -> Records] /\ read' \in [Threads -> Seq(Events)]
    <3>1. CASE StartWorker(t)
      BY <3>1 DEF StartWorker, Shape
    <3>2. CASE WorkerEnds(t)
      BY <3>2 DEF WorkerEnds, Forget, Shape
    <3> QED BY <1>2, <3>1, <3>2
  <2>3. Lists'
    BY <1>a, <2>1 DEF Lists
  <2> QED BY <2>1, <2>2, <2>3 DEF Shape, registry
<1>3. ASSUME NEW t \in Tasks, Report(t) \/ WorkerReturns(t) PROVE Shape'
  <2>1. PICK s \in {Progress, Output, Complete} \cup CompleteVerifier :
             todo' = [todo EXCEPT ![t] = s]
    BY <1>3 DEF Report, WorkerReturns
  <2>2. s \in Seq(Ops) /\ Script(s)
    BY <2>1, WorkerCalls
  <2>3. Lists'
    BY <1>a, <2>1, <2>2, NewList
  <2>4. UNCHANGED <<registry, on, mine, read>> /\ future' \in [Tasks -> Futures]
    BY <1>3 DEF Report, WorkerReturns, Shape, Futures
  <2> QED BY <2>3, <2>4 DEF Shape, registry
<1>4. ASSUME NEW t \in Tasks, WorkerRaises(t) PROVE Shape'
  BY <1>4, Raised DEF WorkerRaises
<1>5. ASSUME NEW t \in Tasks, StartTask(t) PROVE Shape'
  <2>1. <<"started">> \in Seq(Events) /\ "queued" \in Futures
    BY DEF Events, Futures
  <2>2. /\ UNCHANGED <<todo, on, mine, read>> /\ future' \in [Tasks -> Futures]
        /\ present' \in [Tasks -> BOOLEAN] /\ record' \in [Tasks -> Records]
        /\ log' \in [Tasks -> Seq(Events)]
    BY <1>5, <2>1 DEF StartTask, Spawn, Shape
  <2>3. Lists'
    BY <1>a, <2>2 DEF Lists
  <2> QED BY <2>2, <2>3 DEF Shape
<1>6. ASSUME NEW t \in Tasks, KillTask(t) \/ Notify(t) \/ EvictTask(t) PROVE Shape'
  <2>1. PICK s \in {Killing, KillUnknown, Update("notified"), <<Remove>>} : Begin(t, s)
    BY <1>6 DEF KillTask, Notify, EvictTask
  <2>2. s \in Seq(Ops) /\ s \in Seq(HostOps) /\ Script(s)
    BY <2>1, HostCalls, HostOpsAreOps
  <2>3. Lists' /\ on' = t
    BY <1>a, <2>1, <2>2, NewList DEF Begin
  <2>4. UNCHANGED <<registry, mine, read>> /\ future' \in [Tasks -> Futures]
    BY <1>6 DEF KillTask, Notify, EvictTask, Shape, Futures
  <2> QED BY <2>3, <2>4 DEF Shape, registry
<1>7. ASSUME NEW t \in Tasks, Observe(t) PROVE Shape'
  <2>1. UNCHANGED <<present, record, log, future, todo, on, mine, read>>
    BY <1>7 DEF Observe, threads
  <2>2. Lists'
    BY <1>a, <2>1 DEF Lists
  <2> QED BY <2>1, <2>2 DEF Shape
<1>8. CASE RemoveTask
  <2>1. /\ todo[Host] # <<>> /\ Advance(Host) /\ UNCHANGED <<record, future, on, mine, read>>
    BY <1>8, <1>b DEF RemoveTask
  <2>2. Lists' /\ on \in Tasks
    BY <2>1, NextAccess
  <2>3. present' \in [Tasks -> BOOLEAN] /\ log' \in [Tasks -> Seq(Events)]
    BY <1>8 DEF RemoveTask, Shape
  <2> QED BY <2>1, <2>2, <2>3 DEF Shape
<1>9. CASE HostReturns
  <2>1. UNCHANGED <<registry, future, todo>> /\ on' = Host
    BY <1>9 DEF HostReturns
  <2>2. mine' \in [Threads -> Records] /\ read' \in [Threads -> Seq(Events)]
    BY <1>9 DEF HostReturns, Forget, Shape
  <2>3. Lists'
    BY <1>a, <2>1 DEF Lists
  <2> QED BY <2>1, <2>2, <2>3 DEF Shape, registry
<1>10. CASE Restart
  <2>1. /\ UNCHANGED registry /\ on' = Host /\ todo' = [a \in Threads |-> <<>>]
        /\ mine' \in [Threads -> Records] /\ read' \in [Threads -> Seq(Events)]
        /\ future' \in [Tasks -> Futures]
    BY <1>10 DEF Restart, Futures
  <2>2. Lists'
    BY <2>1 DEF Lists, Script
  <2> QED BY <2>1, <2>2 DEF Shape, registry
<1>11. CASE UNCHANGED vars
  BY <1>11 DEF vars, registry, threads, Shape, Lists
<1> QED
  BY <1>1, <1>2, <1>3, <1>4, <1>5, <1>6, <1>7, <1>8, <1>9, <1>10, <1>11
     DEF Next, HostStep, Worker, HostCall

(* Only a thread's own steps touch its list and, of the workers, its       *)
(* task: the parts of Scripted, once the thread's own are seen to.         *)
LEMMA ScriptedByOne ==
    ASSUME Shape, Scripted, NEW t \in Tasks, UNCHANGED <<on, storage>>,
           \A b \in Threads \ {t} : todo'[b] = todo[b],
           \A u \in Tasks \ {t} : future'[u] = future[u] /\ record'[u] = record[u]
                                  /\ present'[u] = present[u],
           present[t] => present'[t], mine'[Host] = mine[Host],
           future[t] # "none", future'[t] \notin {"none", "lost"},
           future'[t] \in {"working", "completing", "failing"} \/ todo'[t] = <<>>
    PROVE  Scripted'
<1>1. todo'[Host] = todo[Host] /\ FileBacked' = FileBacked
  BY HostIsNoTask DEF FileBacked
<1>2. Head1(Host, "put")' = Head1(Host, "put")
  BY <1>1 DEF Head1
<1>3. /\ on' = Host => todo'[Host] = <<>>
      /\ on' \in Tasks => future'[on'] # "none"
  BY <1>1 DEF Scripted
<1>4. ASSUME NEW u \in Tasks
      PROVE  /\ future'[u] \notin {"working", "completing", "failing"} => todo'[u] = <<>>
             /\ future'[u] = "none" => record'[u] = Fresh
  BY HostIsNoTask DEF Scripted
<1>5. ASSUME Head1(Host, "put")
      PROVE  /\ present'[on]
             /\ FileBacked /\ future'[on] = "lost" => mine'[Host] = record'[on]
  <2>1. on \in Tasks /\ present[on]
    BY <1>5 DEF Scripted, Shape, Head1
  <2> QED BY <1>5, <2>1 DEF Scripted
<1> QED BY <1>1, <1>2, <1>3, <1>4, <1>5 DEF Scripted

(* Steps of a worker.                                                      *)
LEMMA ScriptedWorker ==
    ASSUME Shape, Scripted, NEW t \in Tasks, Worker(t) PROVE Scripted'
<1> USE HostIsNoTask
<1>a. t # Host /\ On(t) = t
  BY DEF On
<1>b. todo \in [Threads -> Seq(Ops)] /\ future \in [Tasks -> Futures]
      /\ present \in [Tasks -> BOOLEAN] /\ record \in [Tasks -> Records]
      /\ mine \in [Threads -> Records]
  BY DEF Shape, Lists
<1>c. todo[t] # <<>> => future[t] \in {"working", "completing", "failing"}
  BY DEF Scripted
<1>1. CASE StartWorker(t) \/ Report(t) \/ WorkerReturns(t)
  <2>1. /\ UNCHANGED <<on, storage, present, record, mine>>
        /\ future[t] # "none" /\ future'[t] \in {"working", "completing"}
        /\ \A b \in Threads \ {t} : todo'[b] = todo[b]
        /\ \A u \in Tasks \ {t} : future'[u] = future[u]
    BY <1>b, <1>1 DEF StartWorker, Report, WorkerReturns, Free, registry, history
  <2> QED BY <2>1, ScriptedByOne
<1>2. CASE WorkerEnds(t)
  <2>1. /\ UNCHANGED <<on, storage, present, record, todo>>
        /\ future[t] # "none" /\ future'[t] \in {"returned", "raised"} /\ todo[t] = <<>>
        /\ \A u \in Tasks \ {t} : future'[u] = future[u]
        /\ mine'[Host] = mine[Host]
    BY <1>a, <1>b, <1>2 DEF WorkerEnds, Forget, registry, history
  <2> QED BY <2>1, ScriptedByOne
<1>3. CASE Raise(t) /\ future[t] # "none"
  <2>1. /\ UNCHANGED <<registry, on, storage>>
        /\ \A b \in Threads \ {t} : todo'[b] = todo[b]
        /\ \A u \in Tasks \ {t} : future'[u] = future[u]
        /\ future'[t] \in {"failing", "raised"} /\ (future'[t] = "raised" => todo'[t] = <<>>)
    BY <1>3, Raised
  <2>2. mine'[Host] = mine[Host]
    BY <1>a, <1>b, <1>3 DEF Raise, Forget
  <2> QED BY <1>3, <2>1, <2>2, ScriptedByOne DEF registry
<1>4. CASE ReadRecord(t) \/ ReadEvents(t)
  <2>1. /\ UNCHANGED <<registry, on, storage, future>> /\ todo[t] # <<>> /\ Advance(t)
    BY <1>4 DEF ReadRecord, ReadEvents, Head1, history
  <2>2. mine'[Host] = mine[Host]
    BY <1>a, <1>b, <1>4 DEF ReadRecord, ReadEvents
  <2>3. \A b \in Threads \ {t} : todo'[b] = todo[b]
    BY <2>1, NextAccess
  <2> QED BY <1>c, <2>1, <2>2, <2>3, ScriptedByOne DEF registry
<1>5. CASE WriteRecord(t)
  <2>1. /\ UNCHANGED <<on, storage, future>> /\ todo[t] # <<>> /\ Advance(t)
    BY <1>5 DEF WriteRecord, Head1, history
  <2>2. mine'[Host] = mine[Host]
    BY <1>a, <1>b, <1>5 DEF WriteRecord, Forget
  <2>3. \A b \in Threads \ {t} : todo'[b] = todo[b]
    BY <2>1, NextAccess
  <2>4. /\ present'[t] = TRUE
        /\ \A u \in Tasks \ {t} : record'[u] = record[u] /\ present'[u] = present[u]
    BY <1>a, <1>b, <1>5 DEF WriteRecord
  <2> QED BY <1>c, <2>1, <2>2, <2>3, <2>4, ScriptedByOne
<1>6. CASE WriteEvents(t)
  <2>1. /\ UNCHANGED <<on, storage, future, present, record>> /\ todo[t] # <<>> /\ Advance(t)
    BY <1>6 DEF WriteEvents, Head1, history
  <2>2. mine'[Host] = mine[Host]
    BY <1>a, <1>b, <1>6 DEF WriteEvents, Forget
  <2>3. \A b \in Threads \ {t} : todo'[b] = todo[b]
    BY <2>1, NextAccess
  <2> QED BY <1>c, <2>1, <2>2, <2>3, ScriptedByOne
<1>7. ReadRaises(t) \/ WorkerRaises(t) => Raise(t) /\ future[t] # "none"
  BY <1>c DEF ReadRaises, WorkerRaises, Free, Head1
<1> QED
  BY <1>1, <1>2, <1>3, <1>4, <1>5, <1>6, <1>7 DEF Worker, Access

(* Steps of the host on the task it works on.                              *)
LEMMA ScriptedHost ==
    ASSUME Shape, Scripted, HostStep PROVE Scripted'
<1> USE HostIsNoTask
<1>b. todo \in [Threads -> Seq(Ops)] /\ future \in [Tasks -> Futures]
      /\ present \in [Tasks -> BOOLEAN] /\ record \in [Tasks -> Records]
      /\ mine \in [Threads -> Records] /\ On(Host) = on
  BY DEF Shape, Lists, On
<1>c. todo[Host] # <<>> => on \in Tasks /\ future[on] # "none"
  BY DEF Shape, Scripted
<1>d. ASSUME todo[Host] # <<>>
      PROVE  Tail(todo[Host]) # <<>> /\ Head(Tail(todo[Host])).op = "put" =>
                Head(todo[Host]).op = "get" /\ Len(todo[Host]) > 1 /\ todo[Host][2].op = "put"
  <2>1. todo[Host] \in Seq(HostOps) /\ Paired(todo[Host])
    BY DEF Shape, Lists
  <2> QED BY <1>d, <2>1, TailIsPaired DEF HostOps
<1>1. CASE ReadRecord(Host)
  <2>1. /\ UNCHANGED <<present, record, on, storage, future>> /\ todo[Host] # <<>>
        /\ Advance(Host) /\ present[on]
    BY <1>b, <1>1 DEF ReadRecord, Head1, registry, history
  <2>2. todo'[Host] = Tail(todo[Host]) /\ \A b \in Threads \ {Host} : todo'[b] = todo[b]
    BY <2>1, NextAccess
  <2>3. Head1(Host, "put")' => mine'[Host] = record[on]
    BY <1>b, <1>c, <1>d, <1>1, <2>1, <2>2 DEF ReadRecord, Head1
  <2> QED BY <1>c, <2>1, <2>2, <2>3 DEF Scripted
<1>2. CASE ReadEvents(Host) \/ WriteRecord(Host) \/ WriteEvents(Host)
  <2>1. /\ UNCHANGED <<on, storage, future>> /\ todo[Host] # <<>>
        /\ Advance(Host) /\ Head(todo[Host]).op # "get"
    BY <1>b, <1>2 DEF ReadEvents, WriteRecord, WriteEvents, Head1, registry, history
  <2>2. todo'[Host] = Tail(todo[Host]) /\ \A b \in Threads \ {Host} : todo'[b] = todo[b]
    BY <2>1, NextAccess
  <2>3. ~Head1(Host, "put")'
    BY <1>d, <2>1, <2>2 DEF Head1
  <2>4. \A t \in Tasks \ {on} : record'[t] = record[t]
    BY <1>b, <1>2 DEF ReadEvents, WriteRecord, WriteEvents, registry
  <2> QED BY <1>c, <2>1, <2>2, <2>3, <2>4 DEF Scripted
<1>3. CASE ReadRaises(Host)
  <2>1. Raise(Host) /\ todo[Host] # <<>>
    BY <1>3 DEF ReadRaises, Head1
  <2>2. /\ UNCHANGED <<registry, on, storage>> /\ todo'[Host] = <<>>
        /\ \A b \in Threads \ {Host} : todo'[b] = todo[b]
        /\ \A t \in Tasks : future'[t] = future[t]
    BY <2>1, Raised
  <2> QED BY <1>c, <2>1, <2>2 DEF Scripted, Head1, registry
<1>4. CASE RemoveTask
  <2>1. /\ UNCHANGED <<record, on, storage, future>> /\ todo[Host] # <<>>
        /\ Advance(Host) /\ Head(todo[Host]).op # "get"
    BY <1>4 DEF RemoveTask, Head1, history
  <2>2. todo'[Host] = Tail(todo[Host]) /\ \A b \in Threads \ {Host} : todo'[b] = todo[b]
    BY <2>1, NextAccess
  <2>3. ~Head1(Host, "put")'
    BY <1>d, <2>1, <2>2 DEF Head1
  <2> QED BY <1>c, <2>1, <2>2, <2>3 DEF Scripted
<1>5. CASE HostReturns
  <2>1. UNCHANGED <<record, future, todo, storage>> /\ on' = Host /\ todo[Host] = <<>>
    BY <1>5 DEF HostReturns, registry, history
  <2> QED BY <2>1 DEF Scripted, Head1
<1> QED
  BY <1>1, <1>2, <1>3, <1>4, <1>5 DEF HostStep, Access

(* Who may access what, in every step.                                     *)
LEMMA ScriptedStep == ASSUME Shape, Scripted, [Next]_vars PROVE Scripted'
<1> USE HostIsNoTask
<1>b. todo \in [Threads -> Seq(Ops)] /\ future \in [Tasks -> Futures]
      /\ present \in [Tasks -> BOOLEAN] /\ record \in [Tasks -> Records]
      /\ mine \in [Threads -> Records]
  BY DEF Shape, Lists
<1>1. ASSUME NEW t \in Tasks, StartTask(t) PROVE Scripted'
  <2>1. /\ on = Host /\ UNCHANGED <<todo, on, mine, storage>> /\ future[t] = "none"
        /\ future' = [future EXCEPT ![t] = "queued"]
        /\ record' = [record EXCEPT ![t] = Changed(Fresh, "running")]
    BY <1>1 DEF StartTask, Spawn, HostFree, history
  <2> QED BY <1>b, <2>1 DEF Scripted, Head1
<1>2. ASSUME NEW t \in Tasks, KillTask(t) \/ Notify(t) \/ EvictTask(t) PROVE Scripted'
  <2>1. PICK s \in {Killing, KillUnknown, Update("notified"), <<Remove>>} : Begin(t, s)
    BY <1>2 DEF KillTask, Notify, EvictTask
  <2>2. /\ UNCHANGED <<record, present, mine, storage>>
        /\ \A u \in Tasks : future'[u] = future[u] \/ (future[u] = "queued" /\ future'[u] = "cancelled")
    BY <1>b, <1>2 DEF KillTask, Notify, EvictTask, registry, history
  <2>3. s \in Seq(HostOps) /\ Script(s)
    BY <2>1, HostCalls
  <2>4. /\ on' = t /\ todo'[Host] = s
        /\ \A b \in Threads \ {Host} : todo'[b] = todo[b]
    BY <1>b, <2>1 DEF Begin
  <2>5. ~Head1(Host, "put")'
    BY <2>3, <2>4, First DEF Script, Head1, HostOps
  <2>6. future[t] # "none"
    <3>1. CASE KillTask(t)
      BY <3>1 DEF KillTask
    <3>2. CASE Notify(t) \/ EvictTask(t)
      BY <3>2 DEF Notify, EvictTask, Scripted, Fresh, Terminals
    <3> QED BY <1>2, <3>1, <3>2
  <2> QED BY <2>2, <2>4, <2>5, <2>6 DEF Scripted
<1>3. ASSUME NEW t \in Tasks, Observe(t) PROVE Scripted'
  <2>1. UNCHANGED <<present, record, future, todo, on, mine, storage>>
    BY <1>3 DEF Observe, threads, history
  <2> QED BY <2>1 DEF Scripted, Head1, FileBacked
<1>4. CASE Restart
  <2>1. /\ UNCHANGED <<record, storage>> /\ on' = Host /\ todo' = [a \in Threads |-> <<>>]
        /\ future' = [t \in Tasks |-> IF future[t] = "none" THEN "none" ELSE "lost"]
    BY <1>4 DEF Restart, registry
  <2> QED BY <2>1 DEF Scripted, Head1
<1>5. CASE UNCHANGED vars
  BY <1>5 DEF vars, registry, threads, history, Scripted, Head1, FileBacked
<1> QED
  BY <1>1, <1>2, <1>3, <1>4, <1>5, ScriptedWorker, ScriptedHost DEF Next, HostCall
-----------------------------------------------------------------------------
(* Adding an outcome to whatever list of events was read tells it.         *)
LEMMA AddTells ==
    ASSUME Shape, NEW t \in Tasks, NEW a \in Threads, NEW e \in Terminals,
           log' = [log EXCEPT ![t] = Append(read[a], e)]
    PROVE  Logged(t)'
<1>1. log'[t] = Append(read[a], e) /\ read[a] \in Seq(Events) /\ e \in Events
  BY DEF Shape, Events
<1>2. /\ Len(read[a]) \in Nat /\ Len(log'[t]) = Len(read[a]) + 1
      /\ log'[t][Len(read[a]) + 1] = e
  BY <1>1, AppendProperties, LenProperties
<1>3. Len(read[a]) + 1 \in 1..Len(log'[t])
  BY <1>2
<1> QED BY <1>2, <1>3 DEF Logged

(* One task's part of Telling.                                             *)
TellingOf(t) ==
    /\ future[t] = "completing" =>
          Ends(todo[t], "completed") \/ (todo[t] \in {<<Get>>, <<>>} /\ Told(t))
    /\ future[t] = "returned" => Told(t)
    /\ future[t] = "cancelled" => Told(t) \/ (on = t /\ Ends(todo[Host], "killed"))

(* Steps that change nothing a task's part is about.                       *)
LEMMA TellingFrame ==
    ASSUME NEW t \in Tasks, TellingOf(t),
           future'[t] = future[t] \/ future'[t] \in {"none", "queued", "working", "failing", "raised", "lost"},
           future[t] = "completing" => todo'[t] = todo[t],
           future[t] = "cancelled" /\ on = t => Told(t)' \/ (on' = t /\ todo'[Host] = todo[Host]),
           present'[t] = present[t], log'[t] = log[t]
    PROVE  TellingOf(t)'
<1>1. Told(t)' = Told(t)
  BY DEF Told, Logged
<1> QED BY <1>1 DEF TellingOf

(* A worker tells its own task's outcome, before it returns.               *)
LEMMA TellingWorker ==
    ASSUME Shape, Scripted, Telling, NEW t \in Tasks, Worker(t) PROVE Telling'
<1> USE HostIsNoTask
<1>a. t # Host /\ On(t) = t /\ TellingOf(t) /\ \A u \in Tasks : TellingOf(u)
  BY DEF On, Telling, TellingOf
<1>b. /\ todo \in [Threads -> Seq(Ops)] /\ future \in [Tasks -> Futures]
      /\ present \in [Tasks -> BOOLEAN] /\ log \in [Tasks -> Seq(Events)]
  BY DEF Shape, Lists
<1>c. todo[t] # <<>> => future[t] \in {"working", "completing", "failing"}
  BY DEF Scripted
<1> DEFINE Own == /\ on' = on
                  /\ \A b \in Threads \ {t} : todo'[b] = todo[b]
                  /\ \A u \in Tasks \ {t} : future'[u] = future[u] /\ present'[u] = present[u]
                                            /\ log'[u] = log[u]
<1>d. ASSUME Own, TellingOf(t)' PROVE Telling'
  <2>1. \A u \in Tasks \ {t} : TellingOf(u)'
    BY <1>a, <1>d, TellingFrame
  <2> QED BY <1>d, <2>1 DEF Telling, TellingOf
<1> HIDE DEF Own
<1>1. CASE StartWorker(t) \/ Report(t)
  <2>1. Own /\ future'[t] = "working"
    BY <1>a, <1>b, <1>1 DEF Own, StartWorker, Report, Free, registry
  <2> QED BY <1>d, <2>1 DEF TellingOf
<1>2. CASE WorkerReturns(t)
  <2>1. Own /\ future'[t] = "completing" /\ todo'[t] \in {Complete} \cup CompleteVerifier
    BY <1>a, <1>b, <1>2 DEF Own, WorkerReturns, registry
  <2>2. Ends(todo'[t], "completed")
    BY <2>1, WorkerCalls
  <2> QED BY <1>d, <2>1, <2>2 DEF TellingOf
<1>3. CASE WorkerEnds(t)
  <2>1. /\ Own /\ todo[t] = <<>> /\ UNCHANGED <<present, log>>
        /\ \/ future[t] = "completing" /\ future'[t] = "returned"
           \/ future'[t] = "raised"
    BY <1>a, <1>b, <1>3 DEF Own, WorkerEnds, registry
  <2>2. ~Ends(todo[t], "completed")
    BY <2>1 DEF Ends
  <2>3. future[t] = "completing" => Told(t)'
    BY <1>a, <2>1, <2>2 DEF TellingOf, Told, Logged
  <2> QED BY <1>d, <2>1, <2>3 DEF TellingOf
<1>4. CASE Raise(t)
  <2>1. Own /\ future'[t] \in {"failing", "raised"}
    BY <1>4, Raised DEF Own, registry
  <2> QED BY <1>d, <2>1 DEF TellingOf
<1>5. ASSUME todo[t] # <<>>, Advance(t)
      PROVE  /\ \A b \in Threads \ {t} : todo'[b] = todo[b]
             /\ todo'[t] = Tail(todo[t])
             /\ future[t] = "completing" =>
                   \/ Ends(todo'[t], "completed")
                   \/ Head(todo[t]) = Add("completed") /\ todo'[t] = <<Get>>
                   \/ todo[t] = <<Get>> /\ todo'[t] = <<>> /\ Told(t)
  <2>1. todo'[t] = Tail(todo[t]) /\ \A b \in Threads \ {t} : todo'[b] = todo[b]
    BY <1>5, NextAccess
  <2>2. CASE Ends(todo[t], "completed")
    <3>1. todo[t] \in Seq(Accesses({"progress"} \cup Terminals))
      BY <1>b DEF Ops
    <3> QED BY <2>1, <2>2, <3>1, TailEnds
  <2>3. ASSUME ~Ends(todo[t], "completed"), future[t] = "completing"
        PROVE  todo[t] = <<Get>> /\ todo'[t] = <<>> /\ Told(t)
    <3>1. todo[t] = <<Get>> /\ Told(t)
      BY <1>5, <1>a, <2>3 DEF TellingOf
    <3>2. Tail(<<Get>>) = <<>>
      OBVIOUS
    <3> QED BY <2>1, <3>1, <3>2
  <2> QED BY <2>1, <2>2, <2>3
<1>6. CASE ReadRecord(t) \/ ReadEvents(t)
  <2>1. /\ UNCHANGED <<registry, on, future>> /\ todo[t] # <<>> /\ Advance(t)
        /\ Head(todo[t]).op \in {"get", "read"}
    BY <1>6 DEF ReadRecord, ReadEvents, Head1
  <2>2. Own /\ Told(t)' = Told(t)
    BY <1>5, <2>1 DEF Own, registry, Told, Logged
  <2>3. TellingOf(t)'
    BY <1>a, <1>c, <1>5, <2>1, <2>2 DEF TellingOf, Add
  <2> QED BY <1>d, <2>2, <2>3
<1>7. CASE WriteRecord(t)
  <2>1. /\ UNCHANGED <<log, on, future>> /\ todo[t] # <<>> /\ Advance(t)
        /\ Head(todo[t]).op = "put" /\ \A u \in Tasks \ {t} : present'[u] = present[u]
    BY <1>a, <1>b, <1>7 DEF WriteRecord, Head1
  <2>2. Own
    BY <1>5, <2>1 DEF Own
  <2>3. Head(<<Get>>).op # "put" /\ Add("completed").op # "put"
    BY DEF Get, Add
  <2>4. future[t] = "completing" => Ends(todo'[t], "completed")
    BY <1>5, <2>1, <2>3
  <2>5. TellingOf(t)'
    BY <1>c, <2>1, <2>4 DEF TellingOf
  <2> QED BY <1>d, <2>2, <2>5
<1>8. CASE WriteEvents(t)
  <2>1. /\ UNCHANGED <<present, on, future>> /\ todo[t] # <<>> /\ Advance(t)
        /\ Head(todo[t]).op = "add" /\ \A u \in Tasks \ {t} : log'[u] = log[u]
        /\ log' = [log EXCEPT ![t] = Append(read[t], Arg(t))] /\ Arg(t) = Head(todo[t]).arg
    BY <1>a, <1>b, <1>8 DEF WriteEvents, Head1, Arg
  <2>2. Own
    BY <1>5, <2>1 DEF Own
  <2>3. Head(<<Get>>).op # "add" /\ Add("completed").arg = "completed" /\ "completed" \in Terminals
    BY DEF Get, Add, Terminals
  <2>4. ASSUME future[t] = "completing", ~Ends(todo'[t], "completed")
        PROVE  todo'[t] = <<Get>> /\ Told(t)'
    <3>1. Arg(t) = "completed" /\ todo'[t] = <<Get>>
      BY <1>5, <2>1, <2>3, <2>4
    <3>2. Logged(t)'
      BY <2>1, <2>3, <3>1, AddTells
    <3> QED BY <3>1, <3>2 DEF Told
  <2>5. TellingOf(t)'
    BY <1>c, <2>1, <2>4 DEF TellingOf
  <2> QED BY <1>d, <2>2, <2>5
<1> QED
  BY <1>1, <1>2, <1>3, <1>4, <1>6, <1>7, <1>8 DEF Worker, WorkerRaises, Access, ReadRaises

(* The host tells of a task that it kills, and takes the log away only     *)
(* together with the record.                                               *)
LEMMA TellingHost ==
    ASSUME Shape, Scripted, Telling, HostStep PROVE Telling'
<1> USE HostIsNoTask
<1>a. On(Host) = on /\ \A u \in Tasks : TellingOf(u)
  BY DEF On, Telling, TellingOf
<1>b. /\ todo \in [Threads -> Seq(Ops)] /\ todo[Host] \in Seq(HostOps)
      /\ present \in [Tasks -> BOOLEAN] /\ log \in [Tasks -> Seq(Events)]
  BY DEF Shape, Lists
<1>c. todo[Host] # <<>> => on \in Tasks
  BY DEF Shape, Scripted
<1> DEFINE Mine == /\ on' = on /\ on \in Tasks /\ future' = future
                   /\ \A u \in Tasks : todo'[u] = todo[u]
                   /\ \A u \in Tasks \ {on} : present'[u] = present[u] /\ log'[u] = log[u]
<1>d. ASSUME Mine, Told(on) => Told(on)',
             future[on] = "cancelled" /\ Ends(todo[Host], "killed")
               => Told(on)' \/ Ends(todo'[Host], "killed")
      PROVE  Telling'
  <2>1. TellingOf(on)'
    BY <1>a, <1>d DEF TellingOf
  <2>2. \A u \in Tasks \ {on} : TellingOf(u)'
    BY <1>a, <1>d, TellingFrame
  <2> QED BY <1>d, <2>1, <2>2 DEF Telling, TellingOf
<1> HIDE DEF Mine
<1>1. ASSUME todo[Host] # <<>>, Advance(Host)
      PROVE  /\ \A u \in Tasks : todo'[u] = todo[u]
             /\ Ends(todo[Host], "killed") =>
                   Ends(todo'[Host], "killed") \/ Head(todo[Host]).op = "add"
  <2>1. todo'[Host] = Tail(todo[Host]) /\ \A b \in Threads \ {Host} : todo'[b] = todo[b]
    BY <1>1, NextAccess
  <2>2. Ends(todo[Host], "killed") =>
           Ends(Tail(todo[Host]), "killed") \/ Head(todo[Host]) = Add("killed")
    BY <1>b, TailEnds DEF HostOps
  <2> QED BY <2>1, <2>2 DEF Add
<1>2. CASE ReadRecord(Host) \/ ReadEvents(Host)
  <2>1. /\ UNCHANGED <<registry, on, future>> /\ todo[Host] # <<>> /\ Advance(Host)
        /\ Head(todo[Host]).op # "add"
    BY <1>2 DEF ReadRecord, ReadEvents, Head1
  <2>2. Mine /\ Told(on)' = Told(on)
    BY <1>c, <1>1, <2>1 DEF Mine, registry, Told, Logged
  <2> QED BY <1>d, <1>1, <2>1, <2>2
<1>3. CASE WriteRecord(Host)
  <2>1. /\ UNCHANGED <<log, on, future>> /\ todo[Host] # <<>> /\ Advance(Host)
        /\ Head(todo[Host]).op # "add" /\ present[on]
        /\ present' = [present EXCEPT ![on] = TRUE]
    BY <1>a, <1>3 DEF WriteRecord, Head1, Scripted
  <2>2. present' = present
    BY <1>b, <1>c, <2>1
  <2>3. Mine /\ Told(on)' = Told(on)
    BY <1>c, <1>1, <2>1, <2>2 DEF Mine, Told, Logged
  <2> QED BY <1>d, <1>1, <2>1, <2>3
<1>4. CASE WriteEvents(Host)
  <2>1. /\ UNCHANGED <<present, on, future>> /\ todo[Host] # <<>> /\ Advance(Host)
        /\ log' = [log EXCEPT ![on] = Append(read[Host], Arg(Host))] /\ Head1(Host, "add")
    BY <1>a, <1>4 DEF WriteEvents, Head1
  <2>2. Arg(Host) \in Terminals
    BY <2>1, NextAccess
  <2>3. Logged(on)'
    BY <1>c, <2>1, <2>2, AddTells
  <2>4. Mine
    BY <1>b, <1>c, <1>1, <2>1 DEF Mine
  <2> QED BY <1>d, <2>3, <2>4 DEF Told
<1>5. CASE ReadRaises(Host)
  <2>1. /\ Raise(Host) /\ todo[Host] # <<>>
        /\ \/ ~present[on]
           \/ \E b \in Threads \ {Host} : todo[b] # <<>> /\ On(b) = on
    BY <1>a, <1>5 DEF ReadRaises, Head1, Torn
  <2>2. /\ UNCHANGED <<registry, on>>
        /\ \A u \in Tasks : todo'[u] = todo[u] /\ future'[u] = future[u]
    BY <2>1, Raised
  <2>3. future' = future
    BY <1>5 DEF ReadRaises, Raise, Tasks
  <2>4. Mine /\ Told(on)' = Told(on)
    BY <1>c, <2>1, <2>2, <2>3 DEF Mine, registry, Told, Logged
  <2>5. ASSUME future[on] = "cancelled" PROVE ~present[on]
    <3>1. todo[on] = <<>>
      BY <1>c, <2>1, <2>5 DEF Scripted
    <3>2. ASSUME NEW b \in Threads \ {Host}, On(b) = on PROVE todo[b] = <<>>
      BY <3>1, <3>2 DEF On
    <3> QED BY <2>1, <3>2
  <2>6. future[on] = "cancelled" => Told(on)'
    BY <2>4, <2>5 DEF Told
  <2> QED BY <1>d, <2>4, <2>6
<1>6. CASE RemoveTask
  <2>1. /\ UNCHANGED <<on, future>> /\ todo[Host] # <<>> /\ Advance(Host)
        /\ present' = [present EXCEPT ![on] = FALSE] /\ log' = [log EXCEPT ![on] = <<>>]
    BY <1>6 DEF RemoveTask, Head1
  <2>2. Mine /\ ~present'[on]
    BY <1>b, <1>c, <1>1, <2>1 DEF Mine
  <2>3. Told(on)'
    BY <2>1, <2>2 DEF Told
  <2> QED BY <1>d, <2>2, <2>3
<1>7. CASE HostReturns
  <2>1. UNCHANGED <<registry, future, todo>> /\ todo[Host] = <<>> /\ on' = Host
    BY <1>7 DEF HostReturns
  <2>2. ~Ends(todo[Host], "killed")
    BY <2>1 DEF Ends
  <2>3. \A u \in Tasks : Told(u)' = Told(u)
    BY <2>1 DEF registry, Told, Logged
  <2> QED BY <2>1, <2>2, <2>3 DEF Telling
<1> QED
  BY <1>2, <1>3, <1>4, <1>5, <1>6, <1>7 DEF HostStep, Access

(* The outcome of a task that ended, or is about to end, is told.          *)
LEMMA TellingStep == ASSUME Shape, Scripted, Telling, [Next]_vars PROVE Telling'
<1> USE HostIsNoTask
<1>a. \A u \in Tasks : TellingOf(u)
  BY DEF Telling, TellingOf
<1>b. /\ todo \in [Threads -> Seq(Ops)] /\ future \in [Tasks -> Futures]
      /\ present \in [Tasks -> BOOLEAN] /\ log \in [Tasks -> Seq(Events)]
  BY DEF Shape, Lists
<1>1. ASSUME NEW t \in Tasks, StartTask(t) PROVE Telling'
  <2>1. /\ UNCHANGED <<todo, on>> /\ future' = [future EXCEPT ![t] = "queued"]
        /\ present' = [present EXCEPT ![t] = TRUE] /\ log' = [log EXCEPT ![t] = <<"started">>]
    BY <1>1 DEF StartTask, Spawn
  <2>2. TellingOf(t)'
    BY <1>b, <2>1 DEF TellingOf
  <2>3. ASSUME NEW u \in Tasks \ {t} PROVE TellingOf(u)'
    <3>1. future'[u] = future[u] /\ present'[u] = present[u] /\ log'[u] = log[u]
          /\ todo'[u] = todo[u]
      BY <1>b, <2>1
    <3> QED BY <1>a, <2>1, <3>1, TellingFrame
  <2> QED BY <2>2, <2>3 DEF Telling, TellingOf
<1>2. ASSUME NEW t \in Tasks, KillTask(t) \/ Notify(t) \/ EvictTask(t) PROVE Telling'
  <2>1. PICK s \in {Killing, KillUnknown, Update("notified"), <<Remove>>} : Begin(t, s)
    BY <1>2 DEF KillTask, Notify, EvictTask
  <2>2. /\ on = Host /\ on' = t /\ UNCHANGED <<present, log>>
        /\ \A u \in Tasks : todo'[u] = todo[u]
    BY <1>b, <1>2, <2>1 DEF Begin, KillTask, Notify, EvictTask, HostFree, registry
  <2>3. ASSUME NEW u \in Tasks
        PROVE  \/ future'[u] = future[u]
               \/ future'[u] = "cancelled" /\ u = t /\ Ends(todo'[Host], "killed")
    <3>1. CASE Notify(t) \/ EvictTask(t)
      BY <3>1 DEF Notify, EvictTask
    <3>2. CASE KillTask(t) /\ future[t] # "queued"
      BY <1>b, <3>2 DEF KillTask
    <3>3. CASE KillTask(t) /\ future[t] = "queued"
      <4>1. todo'[Host] = Killing
        BY <1>b, <3>3 DEF KillTask, Begin
      <4>2. Ends(todo'[Host], "killed")
        BY <4>1, HostCalls
      <4> QED BY <1>b, <3>3, <4>2 DEF KillTask
    <3> QED BY <1>2, <3>1, <3>2, <3>3
  <2>4. ASSUME NEW u \in Tasks PROVE TellingOf(u)'
    <3>1. CASE future'[u] = future[u]
      BY <1>a, <2>2, <3>1, TellingFrame
    <3>2. CASE future'[u] = "cancelled" /\ u = t /\ Ends(todo'[Host], "killed")
      BY <2>2, <3>2 DEF TellingOf
    <3> QED BY <2>3, <3>1, <3>2
  <2> QED BY <2>4 DEF Telling, TellingOf
<1>3. ASSUME NEW t \in Tasks, Observe(t) PROVE Telling'
  <2>1. UNCHANGED <<present, log, future, todo, on>>
    BY <1>3 DEF Observe, threads
  <2> QED BY <2>1 DEF Telling, Told, Logged
<1>4. CASE Restart
  <2>1. \A u \in Tasks : future'[u] \in {"none", "lost"}
    BY <1>4 DEF Restart
  <2> QED BY <2>1 DEF Telling
<1>5. CASE UNCHANGED vars
  BY <1>5 DEF vars, registry, threads, Telling, Told, Logged
<1> QED
  BY <1>1, <1>2, <1>3, <1>4, <1>5, TellingWorker, TellingHost DEF Next, HostCall

(* In every state, with shared records and with files.                     *)
LEMMA AccountedAlways == Spec => []Accounted
<1>1. Init => Accounted
  <2> SUFFICES ASSUME Init PROVE Accounted
    OBVIOUS
  <2> USE NoAccess, FreshIsRecord, HostIsNoTask
  <2>1. Lists
    BY DEF Init, Lists, Script
  <2>2. Shape
    BY <2>1 DEF Init, Shape, Futures
  <2>3. Scripted
    BY DEF Init, Scripted, Head1
  <2>4. Telling
    BY DEF Init, Telling
  <2> QED BY <2>2, <2>3, <2>4 DEF Accounted
<1>2. Accounted /\ [Next]_vars => Accounted'
  BY ShapeStep, ScriptedStep, TellingStep DEF Accounted
<1> QED
  BY <1>1, <1>2, PTL DEF Spec

(* Whatever progress, kills, evictions and completions overwrite of each   *)
(* other's lists of events, a task that has ended tells its outcome.       *)
THEOREM OutcomeAlwaysLogged == Spec => []OutcomeLogged
<1>1. Accounted => OutcomeLogged
  <2> SUFFICES ASSUME Accounted, NEW t \in Background, Settled(t), present[t], future[t] # "raised"
               PROVE  Logged(t)
    BY DEF OutcomeLogged
  <2>1. t \in Tasks /\ future[t] \in {"cancelled", "returned"} /\ on # t
    BY DEF Settled, Done, Tasks
  <2> QED BY <2>1 DEF Accounted, Telling, Told
<1> QED
  BY <1>1, AccountedAlways, PTL

(* A task that has an outcome never runs again: with shared records, and   *)
(* with files once a restart has taken its worker away.                    *)
THEOREM OutcomeStaysForEver == Spec => OutcomeStays
<1> DEFINE Kept == \A t \in Tasks :
           /\ ~FileBacked \/ future[t] = "lost"
           /\ record[t].status \in Terminals
           => record'[t].status \in Terminals
<1>1. Accounted /\ [Next]_vars => Kept
  <2> SUFFICES ASSUME Accounted, [Next]_vars, NEW t \in Tasks,
                      ~FileBacked \/ future[t] = "lost", record[t].status \in Terminals
               PROVE  record'[t].status \in Terminals
    OBVIOUS
  <2> USE HostIsNoTask
  <2>a. Shape /\ Scripted /\ record \in [Tasks -> Records]
    BY DEF Accounted, Shape
  <2>1. ASSUME NEW a \in Threads, WriteRecord(a) PROVE record'[t].status \in Terminals
    <3>1. todo[a] # <<>> /\ Head1(a, "put")
          /\ record' = [record EXCEPT ![On(a)] = Changed(IF FileBacked THEN mine[a] ELSE @, Arg(a))]
      BY <2>1 DEF WriteRecord, Head1
    <3>2. /\ On(a) \in Tasks /\ Arg(a) \in {"notified", "output"} \cup Terminals
          /\ (a # Host => On(a) = a) /\ (a = Host => On(a) = on)
      BY <2>a, <3>1, NextAccess
    <3>3. CASE On(a) # t
      BY <2>a, <3>1, <3>2, <3>3
    <3>4. CASE On(a) = t
      <4>1. FileBacked => a = Host /\ mine[a] = record[t]
        <5>1. ASSUME FileBacked PROVE a = Host /\ mine[a] = record[t]
          <6>1. future[t] = "lost" /\ todo[t] = <<>>
            BY <2>a, <5>1 DEF Scripted
          <6>2. a = Host /\ on = t
            BY <3>1, <3>2, <3>4, <6>1
          <6> QED BY <2>a, <3>1, <5>1, <6>1, <6>2 DEF Scripted
        <5> QED BY <5>1
      <4>2. record'[t] = Changed(record[t], Arg(a))
        BY <2>a, <3>1, <3>2, <3>4, <4>1
      <4> QED BY <2>a, <3>2, <4>2, ChangedIsRecord
    <3> QED BY <3>3, <3>4
  <2>2. ASSUME NEW u \in Tasks, StartTask(u) PROVE record'[t].status \in Terminals
    <3>1. future[u] = "none" /\ record' = [record EXCEPT ![u] = Changed(Fresh, "running")]
      BY <2>2 DEF StartTask, Spawn
    <3>2. record[u] = Fresh
      BY <2>a, <3>1 DEF Scripted
    <3>3. u # t
      BY <3>2 DEF Fresh, Terminals
    <3> QED BY <2>a, <3>1, <3>3
  <2>3. \/ \E a \in Threads : WriteRecord(a)
        \/ \E u \in Tasks : StartTask(u)
        \/ record' = record
    BY DEF Next, HostStep, Access, ReadRecord, ReadEvents, ReadRaises, Raise, WriteEvents,
       RemoveTask, HostReturns, Restart, Worker, StartWorker, Report, WorkerReturns, WorkerRaises,
       WorkerEnds, HostCall, KillTask, Notify, Observe, EvictTask, registry, vars
  <2> QED BY <2>1, <2>2, <2>3
<1>2. Accounted /\ [Next]_vars => [Kept]_vars
  BY <1>1
<1> QED
  BY <1>2, AccountedAlways, PTL DEF Spec, OutcomeStays
=============================================================================
