-------------------------- MODULE ShortTermMemory --------------------------
(***************************************************************************)
(* FileShortTermMemoryStore (session/short_term_memory/store.py).  An      *)
(* update hands a snapshot of the transcript to a pool of two threads and  *)
(* puts its future in the pending table; only wait_until_stable moves the  *)
(* result to the records and to the session's file.                        *)
(*                                                                         *)
(* A memory is represented by its coverage_boundary, the length of the     *)
(* transcript it was built from; 0 is "no memory".  Its wording (summary,  *)
(* goal, progress) is a function of the snapshot and is left out.          *)
(***************************************************************************)
EXTENDS Naturals, Sequences, FiniteSets

CONSTANTS
    Sessions,
    Threads,        \* the host threads that run turns
    SessionOf,      \* the session a thread runs the turns of
    Torn            \* what a file holds whose writing was cut short

ASSUME ShortTermAssumption ==
    /\ SessionOf \in [Threads -> Sessions]
    /\ Torn \notin Nat

VARIABLES
    builds,     \* per session, the futures of its updates
    pending,    \* _pending: the number of the session's pending future, or 0
    memory,     \* _records
    file,       \* the session's .short-term.json file; Torn when cut short
    waits,      \* the future a thread waits for, or 0
    found,      \* what the thread's last wait returned
    told        \* session.short_term_memory

stVars == <<builds, pending, memory, file, waits, found, told>>

STInit ==
    /\ builds = [s \in Sessions |-> <<>>] /\ pending = [s \in Sessions |-> 0]
    /\ memory = [s \in Sessions |-> 0] /\ file = [s \in Sessions |-> 0]
    /\ waits = [t \in Threads |-> 0] /\ found = [t \in Threads |-> 0]
    /\ told = [s \in Sessions |-> 0]

(* load: the record, or else the file.                                     *)
Loaded(s) == IF memory[s] # 0 \/ file[s] = Torn THEN memory[s] ELSE file[s]

(* Mutant: a wait that found nothing clears it.                            *)
TellNone(s, m) == told' = [told EXCEPT ![s] = m]

(* What session.short_term_memory becomes; None leaves it alone.           *)
Tell(s, m) == told' = IF m = 0 THEN told ELSE [told EXCEPT ![s] = m]

(* schedule_memory_maintenance, its first half: load and update.           *)
Update(t, length) ==
    LET s == SessionOf[t] IN
    /\ builds' = [builds EXCEPT ![s] = Append(@,
                    [length |-> length, base |-> Loaded(s), state |-> "queued"])]
    /\ pending' = [pending EXCEPT ![s] = Len(builds[s]) + 1]
    /\ memory' = [memory EXCEPT ![s] = Loaded(s)]
    /\ Tell(s, Loaded(s))
    /\ UNCHANGED <<file, waits, found>>

(* _build_memory: a pool thread may take any time over it.                 *)
Build(s, i) ==
    /\ builds[s][i].state = "queued"
    /\ builds' = [builds EXCEPT ![s][i].state = "ready"]
    /\ UNCHANGED <<pending, memory, file, waits, found, told>>

(* What it builds; an empty transcript keeps the memory there is.          *)
Result(b) == IF b.length = 0 THEN b.base ELSE b.length

(* wait_until_stable: the look at the table under the lock.                *)
Look(t) ==
    LET s == SessionOf[t] IN
    /\ waits' = [waits EXCEPT ![t] = pending[s]]
    /\ found' = [found EXCEPT ![t] = IF pending[s] = 0 THEN memory[s] ELSE 0]
    /\ UNCHANGED <<builds, pending, memory, file, told>>

(* Mutant: a wait that timed out forgets the pending update.               *)
WaitDropsPending(t, over) ==
    LET s == SessionOf[t] IN
    /\ waits[t] # 0 /\ over
    /\ pending' = [pending EXCEPT ![s] = 0]
    /\ waits' = [waits EXCEPT ![t] = 0] /\ found' = [found EXCEPT ![t] = 0]
    /\ UNCHANGED <<builds, memory, file, told>>

(* The future is not ready in time.                                        *)
WaitTimesOut(t, over) ==
    /\ waits[t] # 0 /\ over
    /\ waits' = [waits EXCEPT ![t] = 0] /\ found' = [found EXCEPT ![t] = 0]
    /\ UNCHANGED <<builds, pending, memory, file, told>>

(* The result becomes the record and the table's entry goes, whichever     *)
(* future it now is.                                                       *)
WaitReturns(t) ==
    LET s == SessionOf[t]
        m == Result(builds[s][waits[t]]) IN
    /\ waits[t] # 0 /\ builds[s][waits[t]].state = "ready"
    /\ memory' = [memory EXCEPT ![s] = m]
    /\ pending' = [pending EXCEPT ![s] = 0]
    /\ waits' = [waits EXCEPT ![t] = 0] /\ found' = [found EXCEPT ![t] = m]
    /\ UNCHANGED <<builds, file, told>>

(* FileShortTermMemoryStore.wait_until_stable: what the wait returned is   *)
(* written in place, and the runtime tells it to the session.              *)
SaveMemory(t) ==
    LET s == SessionOf[t] IN
    /\ waits[t] = 0
    /\ file' = IF found[t] = 0 THEN file ELSE [file EXCEPT ![s] = found[t]]
    /\ Tell(s, found[t])
    /\ found' = [found EXCEPT ![t] = 0]
    /\ UNCHANGED <<builds, pending, memory, waits>>

(* _load_short_term_memory: what a wait did not find is loaded.            *)
LoadMemory(t) ==
    LET s == SessionOf[t]
        m == IF found[t] # 0 THEN found[t] ELSE Loaded(s) IN
    /\ waits[t] = 0
    /\ file' = IF found[t] = 0 THEN file ELSE [file EXCEPT ![s] = found[t]]
    /\ memory' = [memory EXCEPT ![s] = IF found[t] # 0 THEN @ ELSE Loaded(s)]
    /\ Tell(s, m)
    /\ found' = [found EXCEPT ![t] = 0]
    /\ UNCHANGED <<builds, pending, waits>>

(* A crash: the sessions in torn were having their file written.           *)
STCrash(torn) ==
    /\ \A s \in torn : \E t \in Threads : SessionOf[t] = s /\ found[t] # 0
    /\ file' = [s \in Sessions |-> IF s \in torn THEN Torn ELSE file[s]]
    /\ builds' = [s \in Sessions |-> <<>>] /\ pending' = [s \in Sessions |-> 0]
    /\ memory' = [s \in Sessions |-> 0]
    /\ waits' = [t \in Threads |-> 0] /\ found' = [t \in Threads |-> 0]

(* _load_existing: every file is read, and one that was cut short raises.  *)
STStart ==
    /\ \A s \in Sessions : file[s] # Torn
    /\ memory' = file
    /\ UNCHANGED <<builds, pending, file, waits, found, told>>
=============================================================================
