--------------------------- MODULE DurableMemory ---------------------------
(***************************************************************************)
(* FileMemoryStore (durable_memory/store.py) and the dreaming sweep        *)
(* (durable_memory/dreaming/).  schedule hands a snapshot of a transcript  *)
(* to a pool of two threads; an "extract" job stores the transcript as one *)
(* record, a "dream" job runs a sweep under a lock file and stores the     *)
(* entries it promotes.  Neither the records nor the id counter nor the    *)
(* job tables are locked: a job is a sequence of steps that interleave.    *)
(*                                                                         *)
(* A transcript is a sequence of texts and a record is known by the text   *)
(* that gives it its title; scope, type and the score of a candidate are   *)
(* left out (a sweep may find any recalled entry good enough).             *)
(***************************************************************************)
EXTENDS Naturals, Sequences, FiniteSets, SequencesExt

CONSTANTS
    Texts,          \* what a message may say
    Excluded,       \* texts with one of the patterns that are never remembered
    MinRecall,      \* min_recall_count
    JobWorkers,     \* max_workers of the store's pool
    MaxJobs,        \* bound on the jobs of a process
    None

ASSUME DurableAssumption ==
    /\ Excluded \subseteq Texts /\ None \notin Texts
    /\ MinRecall \in Nat /\ JobWorkers \in Nat \ {0} /\ MaxJobs \in Nat

VARIABLES
    jobs,       \* _jobs: the snapshot of job i
    futures,    \* what was submitted: the job's number, its path and progress
    pendingJobs,    \* _pending_jobs: the number of the job's future, or 0
    completed,  \* _completed_jobs
    counter,    \* _counter
    records,    \* _records
    files,      \* the record files
    loaded,     \* the records the process found at its start
    lock,       \* dreaming.lock exists
    recalls     \* short-term-recall.json: how often a text was ingested

dmVars == <<jobs, futures, pendingJobs, completed, counter, records, files, loaded, lock, recalls>>

(* memory_<n>, and dream_<key> for a promoted text.                        *)
Ids   == (1..MaxJobs) \cup Texts
Empty == [i \in Ids |-> None]
None0 == [x \in Texts |-> 0]

DMInit ==
    /\ jobs = <<>> /\ futures = <<>> /\ pendingJobs = [j \in 1..MaxJobs |-> 0]
    /\ completed = {} /\ counter = 0
    /\ records = Empty /\ files = Empty /\ loaded = {}
    /\ lock = FALSE /\ recalls = None0

Active   == {f \in DOMAIN futures : futures[f].at \notin {"queued", "done", "raised"}}
Sweeping == {f \in DOMAIN futures : futures[f].at \in {"ingest", "promote", "unlock", "failing"}}
-----------------------------------------------------------------------------
(* schedule, on a host thread: the job's id is taken from the size of the  *)
(* table ...                                                               *)
NextJob == Len(jobs) + 1

(* ... its snapshot registered and the work submitted ...                  *)
Submit(j, path, snapshot) ==
    /\ jobs' = IF j = Len(jobs) + 1 THEN Append(jobs, snapshot) ELSE [jobs EXCEPT ![j] = snapshot]
    /\ futures' = Append(futures, [job |-> j, path |-> path, at |-> "queued",
                                   kept |-> FALSE, text |-> <<>>, seen |-> {}, id |-> None,
                                   copy |-> None0, new |-> {}, skip |-> {}])
    /\ UNCHANGED <<pendingJobs, completed, counter, records, files, loaded, lock, recalls>>

(* ... and its future kept, when the job may already be over.              *)
KeepFuture(j, f) ==
    /\ pendingJobs' = [pendingJobs EXCEPT ![j] = f]
    /\ futures' = [futures EXCEPT ![f].kept = TRUE]
    /\ UNCHANGED <<jobs, completed, counter, records, files, loaded, lock, recalls>>
-----------------------------------------------------------------------------
(* run, on a pool thread.                                                  *)

At(f, where)   == f \in DOMAIN futures /\ futures[f].at = where
Go(f, where)   == futures' = [futures EXCEPT ![f].at = where]

(* What a job leaves behind is not looked at again.                        *)
Over(f, where) == futures' = [futures EXCEPT ![f] = [@ EXCEPT
    !.at = where, !.text = <<>>, !.seen = {}, !.id = None, !.copy = None0, !.new = {}, !.skip = {}]]

(* The job's snapshot is looked up; a dream takes a snapshot of the        *)
(* records; an extraction takes the next number, unless its transcript is  *)
(* empty or has an excluded text.                                          *)
RunJob(f) ==
    LET text == jobs[futures[f].job]
        nothing == text = <<>> \/ ToSet(text) \cap Excluded # {}
        to == CASE futures[f].path = "dream" -> "testing"
                [] futures[f].path = "extract" /\ nothing -> "complete"
                [] OTHER -> "name" IN
    /\ At(f, "queued") /\ Cardinality(Active) < JobWorkers
    /\ futures' = [futures EXCEPT ![f].at = to, ![f].text = text,
                                  ![f].seen = {records[i] : i \in Ids} \ {None}]
    /\ counter' = IF to = "name" THEN counter + 1 ELSE counter
    /\ UNCHANGED <<jobs, pendingJobs, completed, records, files, loaded, lock, recalls>>

Title(f) == Last(futures[f].text)
Twins(x) == {i \in Ids : records[i] = x}

(* The record is named by what the counter now is; one with the title of   *)
(* another is skipped.                                                     *)
NameRecord(f) ==
    /\ At(f, "name")
    /\ futures' = [futures EXCEPT ![f].id = counter,
                                  ![f].at = IF Twins(Title(f)) = {} THEN "upsert" ELSE "skip"]
    /\ UNCHANGED <<jobs, pendingJobs, completed, counter, records, files, loaded, lock, recalls>>

(* What was skipped counts as stored when its id is that of some record:   *)
(* its file is written all the same, and then that of the other.           *)
SkipRecord(f) ==
    LET id == futures[f].id
        written == IF records[id] = None THEN files ELSE [files EXCEPT ![id] = Title(f)] IN
    /\ At(f, "skip")
    /\ files' \in {[written EXCEPT ![i] = records[i]] : i \in Twins(Title(f))}
                  \cup (IF Twins(Title(f)) = {} THEN {written} ELSE {})
    /\ Go(f, "complete")
    /\ UNCHANGED <<jobs, pendingJobs, completed, counter, records, loaded, lock, recalls>>

UpsertRecord(f) ==
    /\ At(f, "upsert")
    /\ records' = [records EXCEPT ![futures[f].id] = Title(f)]
    /\ Go(f, "write")
    /\ UNCHANGED <<jobs, pendingJobs, completed, counter, files, loaded, lock, recalls>>

(* _write_record: a temporary file under the I/O lock, then a rename.      *)
WriteFile(f) ==
    /\ At(f, "write")
    /\ files' = [files EXCEPT ![futures[f].id] = Title(f)]
    /\ Go(f, "complete")
    /\ UNCHANGED <<jobs, pendingJobs, completed, counter, records, loaded, lock, recalls>>

(* Mutant: the pending entry goes before the result is there.              *)
CompleteLate(f) ==
    /\ At(f, "complete")
    /\ pendingJobs' = [pendingJobs EXCEPT ![futures[f].job] = 0]
    /\ Over(f, "pop")
    /\ UNCHANGED <<jobs, completed, counter, records, files, loaded, lock, recalls>>

(* The end of run: the result, then the pending entry.                     *)
CompleteJob(f) ==
    /\ At(f, "complete")
    /\ completed' = completed \cup {futures[f].job}
    /\ Over(f, "pop")
    /\ UNCHANGED <<jobs, pendingJobs, counter, records, files, loaded, lock, recalls>>

PopPending(f) ==
    /\ At(f, "pop")
    /\ pendingJobs' = [pendingJobs EXCEPT ![futures[f].job] = 0]
    /\ Go(f, "done")
    /\ UNCHANGED <<jobs, completed, counter, records, files, loaded, lock, recalls>>
-----------------------------------------------------------------------------
(* dream: DreamingEngine.run_sweep under DreamingStateStore.acquire_lock.  *)

(* The lock file is tested; a sweep that finds it raises.                  *)
TestLock(f) ==
    /\ At(f, "testing")
    /\ IF lock THEN Over(f, "raised") ELSE Go(f, "locking")
    /\ UNCHANGED <<jobs, pendingJobs, completed, counter, records, files, loaded, lock, recalls>>

(* The file is written; the transcript's texts are ingested and merged     *)
(* with the entries that are read.                                         *)
TakeLock(f) ==
    LET said == [x \in Texts |-> Cardinality({k \in DOMAIN futures[f].text :
                                                futures[f].text[k] = x /\ x \notin Excluded})] IN
    /\ At(f, "locking")
    /\ lock' = TRUE
    /\ futures' = [futures EXCEPT ![f].at = "ingest",
                                  ![f].copy = [x \in Texts |-> recalls[x] + said[x]]]
    /\ UNCHANGED <<jobs, pendingJobs, completed, counter, records, files, loaded, recalls>>

(* The merged entries are written: upsert_short_term_entries.              *)
WriteRecalls(f) ==
    /\ At(f, "ingest")
    /\ recalls' = futures[f].copy
    /\ Go(f, "promote")
    /\ UNCHANGED <<jobs, pendingJobs, completed, counter, records, files, loaded, lock>>

(* The phases: entries recalled often enough and good enough are promoted, *)
(* except those that repeat a record of the snapshot.                      *)
RunPhases(f) ==
    /\ At(f, "promote")
    /\ \E good \in SUBSET {x \in Texts : futures[f].copy[x] >= MinRecall /\ futures[f].copy[x] > 0} :
          futures' = [futures EXCEPT ![f].at = "unlock", ![f].new = good \ futures[f].seen,
                                     ![f].skip = good \cap futures[f].seen]
    /\ UNCHANGED <<jobs, pendingJobs, completed, counter, records, files, loaded, lock, recalls>>

(* Any file access of the sweep may raise.                                 *)
SweepFails(f) ==
    /\ At(f, "ingest") \/ At(f, "promote")
    /\ Go(f, "failing")
    /\ UNCHANGED <<jobs, pendingJobs, completed, counter, records, files, loaded, lock, recalls>>

(* Mutant: the lock is released only when the sweep succeeds.              *)
UnlockOnSuccess(f) ==
    /\ At(f, "unlock") \/ At(f, "failing")
    /\ lock' = IF At(f, "unlock") THEN FALSE ELSE lock
    /\ IF At(f, "unlock") THEN Go(f, "store") ELSE Over(f, "raised")
    /\ UNCHANGED <<jobs, pendingJobs, completed, counter, records, files, loaded, recalls>>

(* The finally clause; the exception, if any, goes on to the future.       *)
Unlock(f) ==
    /\ At(f, "unlock") \/ At(f, "failing")
    /\ lock' = FALSE
    /\ IF At(f, "unlock") THEN Go(f, "store") ELSE Over(f, "raised")
    /\ UNCHANGED <<jobs, pendingJobs, completed, counter, records, files, loaded, recalls>>

(* The promoted records are stored under ids of their own; the files of    *)
(* the records that kept others out are written again.                     *)
StorePromoted(f) ==
    /\ At(f, "store")
    /\ records' = [i \in Ids |-> IF i \in futures[f].new THEN i ELSE records[i]]
    /\ files' = [i \in Ids |-> IF i \in futures[f].new THEN i
                               ELSE IF records[i] \in futures[f].skip THEN records[i] ELSE files[i]]
    /\ Go(f, "complete")
    /\ UNCHANGED <<jobs, pendingJobs, completed, counter, loaded, lock, recalls>>

Worker(f) ==
    \/ RunJob(f) \/ NameRecord(f) \/ SkipRecord(f) \/ UpsertRecord(f) \/ WriteFile(f)
    \/ TestLock(f) \/ TakeLock(f) \/ WriteRecalls(f) \/ RunPhases(f) \/ Unlock(f)
    \/ StorePromoted(f) \/ CompleteJob(f) \/ PopPending(f)
-----------------------------------------------------------------------------
(* The store's own interface: delete drops the record, then its file.      *)
DeleteRecord(i) ==
    /\ records[i] # None
    /\ records' = [records EXCEPT ![i] = None] /\ files' = [files EXCEPT ![i] = None]
    /\ loaded' = loaded \ {i}
    /\ UNCHANGED <<jobs, futures, pendingJobs, completed, counter, lock, recalls>>

DMCrash ==
    /\ jobs' = <<>> /\ futures' = <<>> /\ pendingJobs' = [j \in 1..MaxJobs |-> 0]
    /\ completed' = {} /\ records' = Empty /\ counter' = 0 /\ loaded' = {}
    /\ UNCHANGED <<files, lock, recalls>>

(* __init__ and _load_existing: the records come back, the counter is 0.   *)
DMStart ==
    /\ records' = files
    /\ loaded' = {i \in Ids : files[i] # None}
    /\ UNCHANGED <<jobs, futures, pendingJobs, completed, counter, files, lock, recalls>>
=============================================================================
