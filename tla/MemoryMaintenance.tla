------------------------- MODULE MemoryMaintenance -------------------------
(***************************************************************************)
(* What a turn does with memory: SimpleHarness (harness/runtime/core/      *)
(* agent_runtime.py) loads the short-term memory when it builds the        *)
(* model's input, and after the turn MemoryMaintenanceProcessor            *)
(* (harness/runtime/post_turn/processing.py) updates it, schedules an      *)
(* extraction, waits a moment for the update and may schedule a dream;     *)
(* only then is the session persisted.  Both stores (ShortTermMemory,      *)
(* DurableMemory) are shared by the threads of the process, which may      *)
(* crash and start again.                                                  *)
(***************************************************************************)
EXTENDS ShortTermMemory, DurableMemory

CONSTANTS
    MaxLength,      \* bound on the messages of a session
    MaxTurns,       \* bound on the turns of a thread
    MaxCrashes, MaxDeletes

ASSUME MaintenanceAssumption == {MaxLength, MaxTurns, MaxCrashes, MaxDeletes} \subseteq Nat

VARIABLES
    text,       \* the transcript of a session
    saved,      \* its session record on disk: transcript and short_term_memory
    lastSession,    \* _last_memory_session, or None
    pc,         \* where a thread is in its turn
    job,        \* the id it took for the job it schedules
    due,        \* dreaming_scheduler.should_run
    up,         \* the process runs
    turns, crashes, deletes     \* counts that the bounds are about

hostVars == <<text, saved, lastSession, pc, job, due, up, turns, crashes, deletes>>
vars     == <<stVars, dmVars, hostVars>>

Init ==
    /\ STInit /\ DMInit
    /\ text = [s \in Sessions |-> <<>>]
    /\ saved = [s \in Sessions |-> [text |-> <<>>, told |-> 0]]
    /\ lastSession = None
    /\ pc = [t \in Threads |-> "idle"] /\ job = [t \in Threads |-> 0]
    /\ due = TRUE /\ up = TRUE
    /\ turns = [t \in Threads |-> 0] /\ crashes = 0 /\ deletes = 0

Step(t, from, to) == pc[t] = from /\ pc' = [pc EXCEPT ![t] = to]
-----------------------------------------------------------------------------
(* A turn: _load_short_term_memory waits up to 50 ms ...                   *)
BeginTurn(t) ==
    /\ Step(t, "idle", "loading") /\ turns[t] < MaxTurns
    /\ turns' = [turns EXCEPT ![t] = @ + 1]
    /\ Look(t)
    /\ UNCHANGED <<dmVars, text, saved, lastSession, job, due, up, crashes, deletes>>

(* A wait of any kind ends with the result or without.                     *)
Wait(t) ==
    /\ pc[t] \in {"loading", "stabilizing"}
    /\ WaitReturns(t) \/ WaitTimesOut(t, TRUE)
    /\ UNCHANGED <<dmVars, hostVars>>

(* ... the model's input is built, the turn runs and adds messages or none *)
(* (an approval that was rejected).                                        *)
RunTurn(t) ==
    /\ Step(t, "loading", "updating") /\ LoadMemory(t)
    /\ \E said \in {<<>>} \cup {<<x>> : x \in Texts} :
          /\ Len(text[SessionOf[t]] \o said) <= MaxLength
          /\ text' = [text EXCEPT ![SessionOf[t]] = @ \o said]
    /\ UNCHANGED <<dmVars, saved, lastSession, job, due, up, turns, crashes, deletes>>

(* schedule_memory_maintenance.                                            *)
UpdateMemory(t) ==
    /\ Step(t, "updating", "extracting") /\ Update(t, Len(text[SessionOf[t]]))
    /\ lastSession' = SessionOf[t]
    /\ UNCHANGED <<dmVars, text, saved, job, due, up, turns, crashes, deletes>>

(* A session without messages has nothing to extract.                      *)
ExtractNothing(t) ==
    /\ Step(t, "extracting", "stabilizing") /\ text[SessionOf[t]] = <<>>
    /\ Look(t)
    /\ UNCHANGED <<dmVars, text, saved, lastSession, job, due, up, turns, crashes, deletes>>

TakeJob(t) ==
    /\ \/ Step(t, "extracting", "submitting") /\ text[SessionOf[t]] # <<>>
       \/ Step(t, "dreaming", "submitting dream") /\ lastSession # None /\ due
          /\ text[lastSession] # <<>>
    /\ NextJob <= MaxJobs
    /\ job' = [job EXCEPT ![t] = NextJob]
    /\ UNCHANGED <<stVars, dmVars, text, saved, lastSession, due, up, turns, crashes, deletes>>

SubmitJob(t) ==
    /\ \/ Step(t, "submitting", "keeping") /\ Submit(job[t], "extract", text[SessionOf[t]])
       \/ Step(t, "submitting dream", "keeping dream") /\ Submit(job[t], "dream", text[lastSession])
    /\ UNCHANGED <<stVars, text, saved, lastSession, job, due, up, turns, crashes, deletes>>

Mine(t) == CHOOSE f \in DOMAIN futures : futures[f].job = job[t] /\ ~futures[f].kept

(* The future is kept; then stabilize_short_term_memory looks, or          *)
(* mark_scheduled puts the next dream off.                                 *)
KeepJob(t) ==
    /\ \/ Step(t, "keeping", "stabilizing") /\ Look(t) /\ UNCHANGED due
       \/ Step(t, "keeping dream", "persisting") /\ due' = FALSE /\ UNCHANGED stVars
    /\ KeepFuture(job[t], Mine(t))
    /\ UNCHANGED <<text, saved, lastSession, job, up, turns, crashes, deletes>>

Stabilize(t) ==
    /\ Step(t, "stabilizing", "dreaming") /\ SaveMemory(t)
    /\ UNCHANGED <<dmVars, text, saved, lastSession, job, due, up, turns, crashes, deletes>>

(* maybe_schedule_dreaming returns early.                                  *)
NoDream(t) ==
    /\ Step(t, "dreaming", "persisting")
    /\ lastSession = None \/ ~due \/ text[lastSession] = <<>>
    /\ UNCHANGED <<stVars, dmVars, text, saved, lastSession, job, due, up, turns, crashes, deletes>>

PersistSession(t) ==
    LET s == SessionOf[t] IN
    /\ Step(t, "persisting", "idle")
    /\ saved' = [saved EXCEPT ![s] = [text |-> text[s], told |-> told[s]]]
    /\ UNCHANGED <<stVars, dmVars, text, lastSession, job, due, up, turns, crashes, deletes>>
-----------------------------------------------------------------------------
BuildMemory(s, i) == /\ i \in DOMAIN builds[s] /\ Build(s, i)
                     /\ UNCHANGED <<dmVars, hostVars>>

RunWorker(f) == Worker(f) /\ UNCHANGED <<stVars, hostVars>>
FailSweep(f) == SweepFails(f) /\ UNCHANGED <<stVars, hostVars>>

(* min_interval_seconds have passed.                                       *)
IntervalElapses ==
    /\ ~due /\ due' = TRUE
    /\ UNCHANGED <<stVars, dmVars, text, saved, lastSession, pc, job, up, turns, crashes, deletes>>

(* The host deletes a record between two turns.                            *)
Delete(i) ==
    /\ \A t \in Threads : pc[t] = "idle"
    /\ deletes < MaxDeletes /\ deletes' = deletes + 1 /\ DeleteRecord(i)
    /\ UNCHANGED <<stVars, text, saved, lastSession, pc, job, due, up, turns, crashes>>

Crash ==
    /\ up /\ crashes < MaxCrashes
    /\ \E torn \in SUBSET Sessions : STCrash(torn)
    /\ DMCrash
    /\ told' = [s \in Sessions |-> saved[s].told] /\ text' = [s \in Sessions |-> saved[s].text]
    /\ lastSession' = None /\ due' = TRUE
    /\ pc' = [t \in Threads |-> "idle"] /\ job' = [t \in Threads |-> 0]
    /\ up' = FALSE /\ crashes' = crashes + 1
    /\ UNCHANGED <<saved, turns, deletes>>

Start ==
    /\ ~up /\ up' = TRUE
    /\ STStart /\ DMStart
    /\ UNCHANGED <<text, saved, lastSession, pc, job, due, turns, crashes, deletes>>

Turn(t) ==
    up /\ (\/ BeginTurn(t) \/ Wait(t) \/ RunTurn(t) \/ UpdateMemory(t) \/ ExtractNothing(t)
           \/ TakeJob(t) \/ SubmitJob(t) \/ KeepJob(t)
           \/ Stabilize(t) \/ NoDream(t) \/ PersistSession(t))

Next ==
    \/ \E t \in Threads : Turn(t)
    \/ up /\ \E s \in Sessions : \E i \in DOMAIN builds[s] : BuildMemory(s, i)
    \/ up /\ \E f \in DOMAIN futures : RunWorker(f) \/ FailSweep(f)
    \/ up /\ IntervalElapses
    \/ up /\ \E i \in Ids : Delete(i)
    \/ Crash \/ Start

Spec == Init /\ [][Next]_vars

-----------------------------------------------------------------------------
Points == {"idle", "loading", "updating", "extracting", "submitting", "keeping",
           "stabilizing", "dreaming", "submitting dream", "keeping dream", "persisting"}

(* Every variable has its type: tables, futures and threads refer to jobs, *)
(* texts and points that exist.                                            *)
TypeOK ==
    /\ \A s \in Sessions : /\ pending[s] \in 0..Len(builds[s])
                           /\ memory[s] \in 0..MaxLength
                           /\ file[s] \in (0..MaxLength) \cup {Torn} /\ told[s] \in 0..MaxLength
                           /\ text[s] \in Seq(Texts) /\ Len(text[s]) <= MaxLength
    /\ \A t \in Threads : pc[t] \in Points /\ job[t] \in 0..MaxJobs /\ found[t] \in 0..MaxLength
                          /\ waits[t] \in 0..Len(builds[SessionOf[t]])
    /\ jobs \in Seq(Seq(Texts)) /\ Len(jobs) <= MaxJobs
    /\ \A f \in DOMAIN futures : futures[f].job \in DOMAIN jobs
    /\ completed \subseteq DOMAIN jobs /\ counter \in Nat
    /\ records \in [Ids -> Texts \cup {None}] /\ files \in [Ids -> Texts \cup {None}]
    /\ loaded \subseteq Ids /\ {lock, due, up} \subseteq BOOLEAN /\ recalls \in [Texts -> Nat]

(* While one thread runs a session's turns, an update is never lost: once  *)
(* nothing is pending the record is what the session's last update built,  *)
(* however many waits timed out and whichever builds finished first.       *)
LatestIsKept ==
    \A s \in Sessions :
        pending[s] = 0 /\ builds[s] # <<>> => memory[s] = Result(Last(builds[s]))

(* While one thread runs a session's turns, the memory the session has     *)
(* been told never goes back to an earlier part of its transcript, unless  *)
(* a crash took messages the memory covers.                                *)
CoverageGrows ==
    [][\A s \in Sessions : up /\ up' /\ told[s] <= Len(text[s]) => told'[s] >= told[s]]_vars

(* wait_for_job finds every job that schedule returned: its result is      *)
(* there or its future still pending, though the job may end before its    *)
(* future is kept, and ids may be taken twice.                             *)
JobAccounted ==
    \A f \in DOMAIN futures : futures[f].kept =>
        futures[f].job \in completed \/ pendingJobs[futures[f].job] # 0

(* Without a crash the lock file never outlives the sweeps, failed and     *)
(* overlapping ones included.                                              *)
LockReleased == crashes = 0 /\ Sweeping = {} => ~lock

(* "restart-safe durable memory recall": what the process found at its     *)
(* start is not replaced by a later extraction.                            *)
RestartSafe == [][\A i \in loaded \cap loaded' : files'[i] = files[i]]_vars

(* The lock file "keeps concurrent sweeps from interfering".               *)
SweepsExclusive == Cardinality(Sweeping) <= 1
=============================================================================
