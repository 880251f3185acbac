------------------------ MODULE MemoryMaintenanceProofs ------------------------
(***************************************************************************)
(* Facts about memory, for any number of sessions, threads, texts,         *)
(* jobs, turns and crashes.                                                *)
(*                                                                         *)
(* Every job that was scheduled is completed or pending.  Two threads may  *)
(* take the same id, and each then keeps the other's future; what makes it *)
(* true all the same is that the threads that have submitted and not yet   *)
(* kept can be matched with unkept futures of their ids (OwnToKeep), and   *)
(* that a result comes before the pending entry goes.                      *)
(*                                                                         *)
(* The lock file outlives no sweep: while it is there and the process did  *)
(* not crash, some future is between taking and releasing it.              *)
(***************************************************************************)
EXTENDS MemoryMaintenance, FiniteSetTheorems, TLAPS

-----------------------------------------------------------------------------
(* Types.                                                                  *)

Lengths     == 0..MaxLength
Transcripts == {x \in Seq(Texts) : Len(x) <= MaxLength}
Built       == [length : Lengths, base : Lengths, state : {"queued", "ready"}]
Stages      == {"queued", "name", "upsert", "skip", "write", "complete", "pop", "done", "testing",
                "locking", "ingest", "promote", "failing", "unlock", "store", "raised"}
Future      == [job : 1..MaxJobs, path : {"extract", "dream"}, at : Stages, kept : BOOLEAN,
                text : Seq(Texts), seen : SUBSET Texts, id : Nat \cup {None}, copy : [Texts -> Nat],
                new : SUBSET Texts, skip : SUBSET Texts]

STType ==
    /\ builds \in [Sessions -> Seq(Built)]
    /\ pending \in [Sessions -> Nat] /\ \A s \in Sessions : pending[s] \in 0..Len(builds[s])
    /\ memory \in [Sessions -> Lengths] /\ file \in [Sessions -> Lengths \cup {Torn}]
    /\ waits \in [Threads -> Nat]
    /\ \A t \in Threads : waits[t] \in 0..Len(builds[SessionOf[t]])
    /\ found \in [Threads -> Lengths] /\ told \in [Sessions -> Lengths]

DMType ==
    /\ jobs \in Seq(Seq(Texts)) /\ Len(jobs) <= MaxJobs
    /\ futures \in Seq(Future)
    /\ \A f \in DOMAIN futures :
          /\ futures[f].job \in DOMAIN jobs
          /\ futures[f].at \in {"name", "upsert", "skip", "write"} => futures[f].text # <<>>
    /\ pendingJobs \in [1..MaxJobs -> Nat] /\ completed \subseteq DOMAIN jobs /\ counter \in Nat
    /\ records \in [Ids -> Texts \cup {None}] /\ files \in [Ids -> Texts \cup {None}]
    /\ loaded \subseteq Ids /\ lock \in BOOLEAN /\ recalls \in [Texts -> Nat]

(* A thread that has taken the id of a job, or waits for its future, knows *)
(* a job there is or the next one.                                         *)
HostType ==
    /\ text \in [Sessions -> Transcripts]
    /\ saved \in [Sessions -> [text : Transcripts, told : Lengths]]
    /\ lastSession \in Sessions \cup {None}
    /\ pc \in [Threads -> Points] /\ job \in [Threads -> 0..MaxJobs]
    /\ due \in BOOLEAN /\ up \in BOOLEAN
    /\ \A t \in Threads :
          /\ pc[t] \in {"submitting", "submitting dream"} => job[t] \in 1..(Len(jobs) + 1)
          /\ pc[t] = "submitting dream" => lastSession \in Sessions
          /\ pc[t] \in {"keeping", "keeping dream"} => job[t] \in DOMAIN jobs

Types == STType /\ DMType /\ HostType

(* The domain of a sequence.                                               *)
LEMMA Domain ==
    ASSUME NEW S, NEW x \in Seq(S) PROVE DOMAIN x = 1..Len(x) /\ Len(x) \in Nat
OBVIOUS

(* A sequence whose domain is contained in that of another is not longer.  *)
LEMMA Longer ==
    ASSUME NEW S, NEW x \in Seq(S), NEW y \in Seq(S), DOMAIN x \subseteq DOMAIN y
    PROVE  Len(x) <= Len(y)
<1>1. ASSUME NEW m \in Nat, NEW n \in Nat, 1..m \subseteq 1..n PROVE m <= n
  <2>1. CASE m = 0
    BY <2>1
  <2>2. CASE m # 0
    <3>1. m \in 1..m
      BY <2>2
    <3>2. m \in 1..n
      BY <1>1, <3>1
    <3> QED BY <3>2
  <2> QED BY <2>1, <2>2
<1>2. Len(x) \in Nat /\ Len(y) \in Nat /\ 1..Len(x) \subseteq 1..Len(y)
  BY Domain
<1> QED BY <1>1, <1>2

(* A number that is at most the next one of a table stays so when the      *)
(* table grows.                                                            *)
LEMMA NextStays ==
    ASSUME NEW a \in Nat, NEW b \in Nat, a <= b, NEW i \in 1..(a + 1) PROVE i \in 1..(b + 1)
OBVIOUS

(* What an update builds is a memory (_build_memory).                      *)
LEMMA BuiltsOfLength ==
    ASSUME NEW b \in Built PROVE Result(b) \in Lengths
BY DEF Built, Result

(* What load finds is a memory.                                            *)
LEMMA LoadedType == ASSUME STType, NEW s \in Sessions PROVE Loaded(s) \in Lengths
BY DEF STType, Loaded

(* Telling a session a memory keeps the type of session.short_term_memory. *)
LEMMA TellType ==
    ASSUME STType, NEW s \in Sessions, NEW m \in Lengths, Tell(s, m)
    PROVE  told' \in [Sessions -> Lengths]
BY DEF STType, Tell

(* FileShortTermMemoryStore.update keeps the types of the store.           *)
LEMMA UpdateType ==
    ASSUME STType, NEW t \in Threads, NEW n \in Lengths, Update(t, n)
    PROVE  STType'
<1> USE ShortTermAssumption, MaintenanceAssumption
<1> DEFINE s == SessionOf[t]
           b == [length |-> n, base |-> Loaded(s), state |-> "queued"]
<1>1. s \in Sessions /\ b \in Built
  BY LoadedType DEF Built
<1>2. /\ builds' = [builds EXCEPT ![s] = Append(builds[s], b)]
      /\ pending' = [pending EXCEPT ![s] = Len(builds[s]) + 1]
      /\ memory' = [memory EXCEPT ![s] = Loaded(s)]
      /\ Tell(s, Loaded(s)) /\ UNCHANGED <<file, waits, found>>
  BY DEF Update
<1> HIDE DEF b, s
<1>3. builds[s] \in Seq(Built) /\ Append(builds[s], b) \in Seq(Built)
      /\ Len(Append(builds[s], b)) = Len(builds[s]) + 1
  BY <1>1 DEF STType
<1>4. builds' \in [Sessions -> Seq(Built)]
  BY <1>1, <1>2, <1>3 DEF STType
<1>5. \A r \in Sessions : Len(builds'[r]) = Len(builds[r]) + (IF r = s THEN 1 ELSE 0)
  BY <1>1, <1>2, <1>3 DEF STType
<1>6. told' \in [Sessions -> Lengths] /\ memory' \in [Sessions -> Lengths]
  BY <1>1, <1>2, LoadedType, TellType DEF STType
<1>7. \A r \in Sessions : Len(builds[r]) \in Nat
  BY DEF STType
<1>8. pending' \in [Sessions -> Nat] /\ \A r \in Sessions : pending'[r] \in 0..Len(builds'[r])
  BY <1>1, <1>2, <1>5, <1>7 DEF STType
<1>9. \A u \in Threads : waits'[u] \in 0..Len(builds'[SessionOf[u]])
  BY <1>2, <1>5, <1>7 DEF STType
<1> QED BY <1>2, <1>4, <1>6, <1>8, <1>9 DEF STType

(* A build that ends keeps them.                                           *)
LEMMA BuildType ==
    ASSUME STType, NEW s \in Sessions, NEW i \in DOMAIN builds[s], Build(s, i)
    PROVE  STType'
<1>1. builds[s] \in Seq(Built) /\ i \in 1..Len(builds[s]) /\ builds[s][i] \in Built
  BY DEF STType
<1>2. /\ builds' = [builds EXCEPT ![s] = [builds[s] EXCEPT ![i] = [builds[s][i] EXCEPT !.state = "ready"]]]
      /\ UNCHANGED <<pending, memory, file, waits, found, told>>
  BY DEF Build
<1> DEFINE b == [builds[s][i] EXCEPT !.state = "ready"]
<1>3. b \in Built
  BY <1>1 DEF Built
<1> HIDE DEF b
<1>4. [builds[s] EXCEPT ![i] = b] \in Seq(Built) /\ Len([builds[s] EXCEPT ![i] = b]) = Len(builds[s])
  BY <1>1, <1>3
<1>5. builds' = [builds EXCEPT ![s] = [builds[s] EXCEPT ![i] = b]]
  BY <1>2 DEF b
<1>6. builds' \in [Sessions -> Seq(Built)] /\ \A r \in Sessions : Len(builds'[r]) = Len(builds[r])
  BY <1>4, <1>5 DEF STType
<1> QED BY <1>2, <1>6, ShortTermAssumption DEF STType

(* So does the look at the table of wait_until_stable,                     *)
LEMMA LookType == ASSUME STType, NEW t \in Threads, Look(t) PROVE STType'
<1> USE ShortTermAssumption, MaintenanceAssumption
<1>1. SessionOf[t] \in Sessions /\ pending[SessionOf[t]] \in 0..Len(builds[SessionOf[t]])
  BY DEF STType
<1>2. 0 \in Lengths
  BY DEF Lengths
<1> QED BY <1>1, <1>2 DEF Look, STType

(* the end of its wait, with a result or without,                          *)
LEMMA WaitType ==
    ASSUME STType, NEW t \in Threads, WaitReturns(t) \/ WaitTimesOut(t, TRUE) PROVE STType'
<1> USE ShortTermAssumption, MaintenanceAssumption
<1>1. SessionOf[t] \in Sessions /\ 0 \in Lengths /\ \A s \in Sessions : Len(builds[s]) \in Nat
  BY DEF Lengths, STType
<1>2. CASE WaitTimesOut(t, TRUE)
  BY <1>1, <1>2 DEF WaitTimesOut, STType
<1>3. CASE WaitReturns(t)
  <2> DEFINE m == Result(builds[SessionOf[t]][waits[t]])
  <2>1. waits[t] # 0 /\ waits[t] \in 1..Len(builds[SessionOf[t]])
    BY <1>1, <1>3 DEF WaitReturns, STType
  <2>2. builds[SessionOf[t]][waits[t]] \in Built
    BY <1>1, <2>1 DEF STType
  <2>3. m \in Lengths
    BY <2>2, BuiltsOfLength
  <2>4. /\ memory' = [memory EXCEPT ![SessionOf[t]] = m] /\ pending' = [pending EXCEPT ![SessionOf[t]] = 0]
        /\ waits' = [waits EXCEPT ![t] = 0] /\ found' = [found EXCEPT ![t] = m]
        /\ UNCHANGED <<builds, file, told>>
    BY <1>3 DEF WaitReturns
  <2> HIDE DEF m
  <2> QED BY <1>1, <2>3, <2>4 DEF STType
<1> QED BY <1>2, <1>3

(* and what follows: the file is written and the session told.             *)
LEMMA TellsType ==
    ASSUME STType, NEW t \in Threads, SaveMemory(t) \/ LoadMemory(t) PROVE STType'
<1> USE ShortTermAssumption, MaintenanceAssumption
<1>1. SessionOf[t] \in Sessions /\ 0 \in Lengths /\ found[t] \in Lengths
  BY DEF Lengths, STType
<1>2. CASE SaveMemory(t)
  <2>1. told' \in [Sessions -> Lengths]
    BY <1>1, <1>2, TellType DEF SaveMemory
  <2> QED BY <1>1, <1>2, <2>1 DEF SaveMemory, STType
<1>3. CASE LoadMemory(t)
  <2>1. Loaded(SessionOf[t]) \in Lengths
    BY <1>1, LoadedType
  <2>2. told' \in [Sessions -> Lengths]
    BY <1>1, <1>3, <2>1, TellType DEF LoadMemory
  <2> QED BY <1>1, <1>3, <2>1, <2>2 DEF LoadMemory, STType
<1> QED BY <1>2, <1>3
-----------------------------------------------------------------------------
(* What the steps of the durable store do to the table of futures.         *)

(* One future is replaced by another of the same job.                      *)
Replaces(f, new) == futures' = [futures EXCEPT ![f] = new]

(* Replacing a future by another of the same job keeps the types of the    *)
(* durable store, when what is written beside it has its type.             *)
LEMMA ReplaceType ==
    ASSUME DMType, NEW f \in DOMAIN futures, NEW new \in Future, Replaces(f, new),
           new.job = futures[f].job,
           new.at \in {"name", "upsert", "skip", "write"} => new.text # <<>>,
           UNCHANGED <<jobs, loaded>>, completed' \subseteq DOMAIN jobs, counter' \in Nat,
           pendingJobs' \in [1..MaxJobs -> Nat],
           records' \in [Ids -> Texts \cup {None}], files' \in [Ids -> Texts \cup {None}],
           lock' \in BOOLEAN, recalls' \in [Texts -> Nat]
    PROVE  DMType'
<1>1. futures \in Seq(Future) /\ DOMAIN futures' = DOMAIN futures
  BY DEF DMType, Replaces
<1>2. futures' \in Seq(Future)
  BY <1>1 DEF DMType, Replaces
<1>3. \A g \in DOMAIN futures' :
          /\ futures'[g].job \in DOMAIN jobs'
          /\ futures'[g].at \in {"name", "upsert", "skip", "write"} => futures'[g].text # <<>>
  BY <1>1 DEF DMType, Replaces
<1> QED BY <1>2, <1>3 DEF DMType

(* A step that only moves a future on.                                     *)
LEMMA GoReplaces ==
    ASSUME DMType, NEW f \in DOMAIN futures, NEW where \in Stages, Go(f, where)
    PROVE  \E new \in Future :
              /\ Replaces(f, new)
              /\ new.job = futures[f].job /\ new.kept = futures[f].kept /\ new.at = where
              /\ new.text = futures[f].text
<1> DEFINE new == [futures[f] EXCEPT !.at = where]
<1>1. futures[f] \in Future
  BY DEF DMType
<1>2. new \in Future /\ new.job = futures[f].job /\ new.kept = futures[f].kept /\ new.at = where
      /\ new.text = futures[f].text
  BY <1>1 DEF Future
<1>3. Replaces(f, new)
  BY DEF Go, Replaces
<1> QED BY <1>2, <1>3

(* A step that ends a job forgets what the job worked on.                  *)
LEMMA OverReplaces ==
    ASSUME DMType, NEW f \in DOMAIN futures, NEW where \in Stages, Over(f, where)
    PROVE  \E new \in Future :
              /\ Replaces(f, new)
              /\ new.job = futures[f].job /\ new.kept = futures[f].kept /\ new.at = where
<1> DEFINE new == [futures[f] EXCEPT !.at = where, !.text = <<>>, !.seen = {}, !.id = None,
                                     !.copy = None0, !.new = {}, !.skip = {}]
<1>1. futures[f] \in Future
  BY DEF DMType
<1>2. <<>> \in Seq(Texts) /\ None0 \in [Texts -> Nat]
  BY DEF None0
<1>3. new \in Future /\ new.job = futures[f].job /\ new.kept = futures[f].kept /\ new.at = where
  BY <1>1, <1>2 DEF Future
<1>4. Replaces(f, new)
  BY DEF Over, Replaces
<1> QED BY <1>3, <1>4

Works(f, where) ==
    \E new \in Future : /\ Replaces(f, new)
                        /\ new.job = futures[f].job /\ new.kept = futures[f].kept
                        /\ new.at = where

SweepStages == {"ingest", "promote", "unlock", "failing"}

(* What a step of a job does, seen from outside: its future moves on, of   *)
(* the same job and kept as it was; the result comes before the pending    *)
(* entry goes; and the lock goes, or the sweep that was is still there, or *)
(* there is one now.                                                       *)
JobStep(f) ==
    \E where \in Stages :
        /\ Works(f, where) /\ jobs' = jobs
        /\ completed' = completed \cup (IF where = "pop" THEN {futures[f].job} ELSE {})
        /\ \/ pendingJobs' = pendingJobs /\ where # "done"
           \/ /\ futures[f].at = "pop"
              /\ pendingJobs' = [pendingJobs EXCEPT ![futures[f].job] = 0]
        /\ \/ lock' = FALSE
           \/ where \in SweepStages
           \/ lock' = lock /\ futures[f].at \notin SweepStages

(* A record is titled by a text: an empty transcript names no record.      *)
LEMMA TitleType ==
    ASSUME DMType, NEW f \in DOMAIN futures, futures[f].at \in {"name", "upsert", "skip", "write"}
    PROVE  Title(f) \in Texts
<1>1. futures[f] \in Future /\ futures[f].text # <<>>
  BY DEF DMType
<1>2. futures[f].text \in Seq(Texts)
  BY <1>1 DEF Future
<1>3. Len(futures[f].text) \in 1..Len(futures[f].text)
  BY <1>1, <1>2
<1> QED BY <1>2, <1>3 DEF Title, Last

(* The first step of a job, on a thread of the pool (run).                 *)
LEMMA RunJobSteps ==
    ASSUME DMType, NEW f \in DOMAIN futures, RunJob(f)
    PROVE  DMType' /\ JobStep(f)
<1> DEFINE text0 == jobs[futures[f].job]
           nothing == text0 = <<>> \/ ToSet(text0) \cap Excluded # {}
           to == CASE futures[f].path = "dream" -> "testing"
                   [] futures[f].path = "extract" /\ nothing -> "complete"
                   [] OTHER -> "name"
           seen0 == {records[i] : i \in Ids} \ {None}
           new == [futures[f] EXCEPT !.at = to, !.text = text0, !.seen = seen0]
<1>1. futures[f] \in Future /\ futures[f].job \in DOMAIN jobs
  BY DEF DMType
<1>2. text0 \in Seq(Texts)
  BY <1>1 DEF DMType
<1>3. seen0 \in SUBSET Texts
  BY DEF DMType
<1>4. to \in {"testing", "complete", "name"} /\ (to = "name" => text0 # <<>>)
  <2>1. futures[f].path \in {"dream", "extract"}
    BY <1>1 DEF Future
  <2> QED BY <2>1
<1>5. /\ futures' = [futures EXCEPT ![f] = new]
      /\ counter' = IF to = "name" THEN counter + 1 ELSE counter
      /\ UNCHANGED <<jobs, pendingJobs, completed, records, files, loaded, lock, recalls>>
  BY DEF RunJob
<1> HIDE DEF to, text0, seen0, nothing
<1>6. new \in Future /\ new.job = futures[f].job /\ new.kept = futures[f].kept /\ new.at = to
      /\ new.text = text0
  BY <1>1, <1>2, <1>3, <1>4 DEF Future, Stages
<1> HIDE DEF new
<1>7. Replaces(f, new)
  BY <1>5 DEF Replaces
<1>8. new.at \in {"name", "upsert", "skip", "write"} => new.text # <<>>
  BY <1>4, <1>6
<1>9. UNCHANGED <<jobs, loaded>>
  BY <1>5
<1>10. completed' \subseteq DOMAIN jobs /\ counter' \in Nat /\ pendingJobs' \in [1..MaxJobs -> Nat]
       /\ records' \in [Ids -> Texts \cup {None}] /\ files' \in [Ids -> Texts \cup {None}]
       /\ lock' \in BOOLEAN /\ recalls' \in [Texts -> Nat]
  BY <1>5 DEF DMType
<1>11. DMType'
  BY <1>6, <1>7, <1>8, <1>9, <1>10, ReplaceType
<1>12. Works(f, to) /\ to \in Stages /\ to # "pop" /\ to # "done"
  BY <1>4, <1>6, <1>7 DEF Works, Stages
<1>13. futures[f].at \notin SweepStages
  BY DEF RunJob, At, SweepStages
<1> QED BY <1>5, <1>11, <1>12, <1>13 DEF JobStep

(* The steps that write a record.                                          *)
LEMMA RecordSteps ==
    ASSUME DMType, NEW f \in DOMAIN futures,
           NameRecord(f) \/ SkipRecord(f) \/ UpsertRecord(f) \/ WriteFile(f)
    PROVE  DMType' /\ JobStep(f)
<1>1. futures[f] \in Future
  BY DEF DMType
<1>2. CASE NameRecord(f)
  <2> DEFINE to == IF Twins(Title(f)) = {} THEN "upsert" ELSE "skip"
             new == [futures[f] EXCEPT !.id = counter, !.at = to]
  <2>1. futures' = [futures EXCEPT ![f] = new] /\ futures[f].at = "name"
        /\ UNCHANGED <<jobs, pendingJobs, completed, counter, records, files, loaded, lock, recalls>>
    BY <1>2 DEF NameRecord, At
  <2>2. to \in {"upsert", "skip"}
    OBVIOUS
  <2> HIDE DEF to
  <2>3. new \in Future /\ new.job = futures[f].job /\ new.kept = futures[f].kept /\ new.at = to
        /\ new.text = futures[f].text
    BY <1>1, <2>2 DEF Future, Stages, DMType
  <2> HIDE DEF new
  <2>4. Replaces(f, new)
    BY <2>1 DEF Replaces
  <2>5. new.at \in {"name", "upsert", "skip", "write"} => new.text # <<>>
    BY <2>1, <2>3 DEF DMType
  <2>6. UNCHANGED <<jobs, loaded>>
    BY <2>1
  <2>7. completed' \subseteq DOMAIN jobs /\ counter' \in Nat /\ pendingJobs' \in [1..MaxJobs -> Nat]
        /\ records' \in [Ids -> Texts \cup {None}] /\ files' \in [Ids -> Texts \cup {None}]
        /\ lock' \in BOOLEAN /\ recalls' \in [Texts -> Nat]
    BY <2>1 DEF DMType
  <2>8. DMType'
    BY <2>3, <2>4, <2>5, <2>6, <2>7, ReplaceType
  <2>9. Works(f, to) /\ to \in Stages /\ to # "pop" /\ to # "done" /\ futures[f].at \notin SweepStages
    BY <2>1, <2>2, <2>3, <2>4 DEF Works, Stages, SweepStages
  <2> QED BY <2>1, <2>8, <2>9 DEF JobStep
<1>3. CASE SkipRecord(f) \/ UpsertRecord(f) \/ WriteFile(f)
  <2> DEFINE to == IF UpsertRecord(f) THEN "write" ELSE "complete"
  <2>1. futures[f].at \in {"skip", "upsert", "write"}
    BY <1>3 DEF SkipRecord, UpsertRecord, WriteFile, At
  <2>2. Title(f) \in Texts
    BY <2>1, TitleType
  <2>3. to \in {"write", "complete"} /\ to \in Stages
    BY DEF Stages
  <2>4. Go(f, to)
    BY <1>3 DEF SkipRecord, UpsertRecord, WriteFile, At
  <2>5. UNCHANGED <<jobs, loaded, completed, counter, pendingJobs, lock, recalls>>
    BY <1>3 DEF SkipRecord, UpsertRecord, WriteFile
  <2>6. records' \in [Ids -> Texts \cup {None}]
    BY <1>3, <2>2 DEF SkipRecord, UpsertRecord, WriteFile, DMType
  <2>7. files' \in [Ids -> Texts \cup {None}]
    <3>1. CASE SkipRecord(f)
      <4> DEFINE id == futures[f].id
                 written == IF records[id] = None THEN files ELSE [files EXCEPT ![id] = Title(f)]
      <4>1. written \in [Ids -> Texts \cup {None}]
        BY <2>2 DEF DMType
      <4>2. files' \in {[written EXCEPT ![i] = records[i]] : i \in Twins(Title(f))}
                      \cup (IF Twins(Title(f)) = {} THEN {written} ELSE {})
        BY <3>1 DEF SkipRecord
      <4> HIDE DEF written
      <4>3. Twins(Title(f)) \subseteq Ids
        BY DEF Twins
      <4> QED BY <4>1, <4>2, <4>3 DEF DMType
    <3>2. CASE UpsertRecord(f) \/ WriteFile(f)
      BY <2>2, <3>2 DEF UpsertRecord, WriteFile, DMType
    <3> QED BY <1>3, <3>1, <3>2
  <2> HIDE DEF to
  <2>8. PICK new \in Future : /\ Replaces(f, new) /\ new.job = futures[f].job
                             /\ new.kept = futures[f].kept /\ new.at = to /\ new.text = futures[f].text
    BY <2>3, <2>4, GoReplaces
  <2>9. new.job = futures[f].job /\ Replaces(f, new)
    BY <2>8
  <2>10. new.at \in {"name", "upsert", "skip", "write"} => new.text # <<>>
    BY <2>1, <2>8 DEF DMType
  <2>11. UNCHANGED <<jobs, loaded>>
    BY <2>5
  <2>12. completed' \subseteq DOMAIN jobs /\ counter' \in Nat /\ pendingJobs' \in [1..MaxJobs -> Nat]
         /\ lock' \in BOOLEAN /\ recalls' \in [Texts -> Nat]
    BY <2>5 DEF DMType
  <2>13. DMType'
    BY <2>6, <2>7, <2>9, <2>10, <2>11, <2>12, ReplaceType
  <2>14. Works(f, to) /\ to # "pop" /\ to # "done" /\ futures[f].at \notin SweepStages
    BY <2>1, <2>3, <2>8 DEF Works, SweepStages
  <2> QED BY <2>3, <2>5, <2>13, <2>14 DEF JobStep
<1> QED BY <1>2, <1>3

(* The end of a job: the result, then the pending entry.                   *)
LEMMA CompletionSteps ==
    ASSUME DMType, NEW f \in DOMAIN futures, CompleteJob(f) \/ PopPending(f)
    PROVE  DMType' /\ JobStep(f)
<1>1. futures[f] \in Future /\ futures[f].job \in DOMAIN jobs
  BY DEF DMType
<1>2. CASE CompleteJob(f)
  <2>1. futures[f].at = "complete" /\ Over(f, "pop") /\ completed' = completed \cup {futures[f].job}
        /\ UNCHANGED <<jobs, pendingJobs, counter, records, files, loaded, lock, recalls>>
    BY <1>2 DEF CompleteJob, At
  <2>2. PICK new \in Future : /\ Replaces(f, new) /\ new.job = futures[f].job
                             /\ new.kept = futures[f].kept /\ new.at = "pop"
    BY <2>1, OverReplaces DEF Stages
  <2>3. Replaces(f, new) /\ new.job = futures[f].job
    BY <2>2
  <2>4. new.at \in {"name", "upsert", "skip", "write"} => new.text # <<>>
    BY <2>2
  <2>5. UNCHANGED <<jobs, loaded>>
    BY <2>1
  <2>6. completed' \subseteq DOMAIN jobs /\ counter' \in Nat /\ pendingJobs' \in [1..MaxJobs -> Nat]
        /\ records' \in [Ids -> Texts \cup {None}] /\ files' \in [Ids -> Texts \cup {None}]
        /\ lock' \in BOOLEAN /\ recalls' \in [Texts -> Nat]
    BY <1>1, <2>1 DEF DMType
  <2>7. DMType'
    BY <2>3, <2>4, <2>5, <2>6, ReplaceType
  <2>8. Works(f, "pop") /\ "pop" \in Stages /\ futures[f].at \notin SweepStages
    BY <2>1, <2>2 DEF Works, Stages, SweepStages
  <2> QED BY <2>1, <2>7, <2>8 DEF JobStep
<1>3. CASE PopPending(f)
  <2>1. futures[f].at = "pop" /\ Go(f, "done")
        /\ pendingJobs' = [pendingJobs EXCEPT ![futures[f].job] = 0]
        /\ UNCHANGED <<jobs, completed, counter, records, files, loaded, lock, recalls>>
    BY <1>3 DEF PopPending, At
  <2>2. PICK new \in Future : /\ Replaces(f, new) /\ new.job = futures[f].job
                             /\ new.kept = futures[f].kept /\ new.at = "done"
    BY <2>1, GoReplaces DEF Stages
  <2>3. Replaces(f, new) /\ new.job = futures[f].job
    BY <2>2
  <2>4. new.at \in {"name", "upsert", "skip", "write"} => new.text # <<>>
    BY <2>2
  <2>5. UNCHANGED <<jobs, loaded>>
    BY <2>1
  <2>6. completed' \subseteq DOMAIN jobs /\ counter' \in Nat /\ pendingJobs' \in [1..MaxJobs -> Nat]
        /\ records' \in [Ids -> Texts \cup {None}] /\ files' \in [Ids -> Texts \cup {None}]
        /\ lock' \in BOOLEAN /\ recalls' \in [Texts -> Nat]
    BY <2>1 DEF DMType
  <2>7. DMType'
    BY <2>3, <2>4, <2>5, <2>6, ReplaceType
  <2>8. Works(f, "done") /\ "done" \in Stages /\ futures[f].at \notin SweepStages
    BY <2>1, <2>2 DEF Works, Stages, SweepStages
  <2> QED BY <2>1, <2>7, <2>8 DEF JobStep
<1> QED BY <1>2, <1>3

(* A sweep: its steps that only move on, with what they write elsewhere.   *)
LEMMA SweepMoves ==
    ASSUME DMType, NEW f \in DOMAIN futures,
           TestLock(f) \/ WriteRecalls(f) \/ SweepFails(f) \/ Unlock(f) \/ StorePromoted(f)
    PROVE  DMType' /\ JobStep(f)
<1>1. futures[f] \in Future
  BY DEF DMType
<1>2. futures[f].copy \in [Texts -> Nat] /\ futures[f].new \subseteq Texts /\ futures[f].skip \subseteq Texts
  BY <1>1 DEF Future
<1>3. \E where \in {"raised", "locking", "promote", "failing", "store", "complete"} :
          /\ Go(f, where) \/ Over(f, where)
          /\ \/ lock' = FALSE
             \/ where \in SweepStages
             \/ lock' = lock /\ futures[f].at \notin SweepStages
  BY DEF TestLock, WriteRecalls, SweepFails, Unlock, StorePromoted, At, SweepStages
<1>4. PICK where \in {"raised", "locking", "promote", "failing", "store", "complete"} :
          /\ Go(f, where) \/ Over(f, where)
          /\ \/ lock' = FALSE
             \/ where \in SweepStages
             \/ lock' = lock /\ futures[f].at \notin SweepStages
  BY <1>3
<1>5. where \in Stages /\ where \notin {"name", "upsert", "skip", "write", "pop", "done"}
  BY <1>4 DEF Stages
<1>6. PICK new \in Future : /\ Replaces(f, new) /\ new.job = futures[f].job
                           /\ new.kept = futures[f].kept /\ new.at = where
  BY <1>4, <1>5, GoReplaces, OverReplaces
<1>7. Replaces(f, new) /\ new.job = futures[f].job
  BY <1>6
<1>8. new.at \in {"name", "upsert", "skip", "write"} => new.text # <<>>
  BY <1>5, <1>6
<1>9. UNCHANGED <<jobs, loaded, completed, counter, pendingJobs>>
  BY DEF TestLock, WriteRecalls, SweepFails, Unlock, StorePromoted
<1>10. UNCHANGED <<jobs, loaded>>
  BY <1>9
<1>11. completed' \subseteq DOMAIN jobs /\ counter' \in Nat /\ pendingJobs' \in [1..MaxJobs -> Nat]
  BY <1>9 DEF DMType
<1>12. lock' \in BOOLEAN /\ recalls' \in [Texts -> Nat]
  BY <1>2 DEF TestLock, WriteRecalls, SweepFails, Unlock, StorePromoted, DMType
<1>13. records' \in [Ids -> Texts \cup {None}] /\ files' \in [Ids -> Texts \cup {None}]
  <2>1. CASE StorePromoted(f)
    BY <1>2, <2>1 DEF StorePromoted, DMType
  <2>2. CASE TestLock(f) \/ WriteRecalls(f) \/ SweepFails(f) \/ Unlock(f)
    BY <2>2 DEF TestLock, WriteRecalls, SweepFails, Unlock, DMType
  <2> QED BY <2>1, <2>2
<1>14. DMType'
  BY <1>7, <1>8, <1>10, <1>11, <1>12, <1>13, ReplaceType
<1>15. Works(f, where)
  BY <1>6 DEF Works
<1> QED BY <1>4, <1>5, <1>9, <1>14, <1>15 DEF JobStep

(* A sweep: taking the lock, and the phases.                               *)
LEMMA SweepSteps ==
    ASSUME DMType, NEW f \in DOMAIN futures, TakeLock(f) \/ RunPhases(f)
    PROVE  DMType' /\ JobStep(f)
<1>1. futures[f] \in Future
  BY DEF DMType
<1>2. \E new \in Future : /\ Replaces(f, new) /\ new.job = futures[f].job
                          /\ new.kept = futures[f].kept /\ new.at \in {"ingest", "unlock"}
  <2>1. CASE TakeLock(f)
    <3> DEFINE said == [x \in Texts |-> Cardinality({k \in DOMAIN futures[f].text :
                                          futures[f].text[k] = x /\ x \notin Excluded})]
               sum == [x \in Texts |-> recalls[x] + said[x]]
               new == [futures[f] EXCEPT !.at = "ingest", !.copy = sum]
    <3>1. ASSUME NEW x \in Texts PROVE said[x] \in Nat
      <4> DEFINE S == {k \in DOMAIN futures[f].text : futures[f].text[k] = x /\ x \notin Excluded}
      <4>1. futures[f].text \in Seq(Texts)
        BY <1>1 DEF Future
      <4>2. DOMAIN futures[f].text = 1..Len(futures[f].text) /\ Len(futures[f].text) \in Nat
        BY <4>1
      <4>3. IsFiniteSet(1..Len(futures[f].text))
        BY <4>2, FS_Interval
      <4>4. S \subseteq 1..Len(futures[f].text)
        BY <4>2
      <4>5. IsFiniteSet(S)
        BY <4>3, <4>4, FS_Subset
      <4>6. Cardinality(S) \in Nat
        BY <4>5, FS_CardinalityType
      <4> QED BY <4>6
    <3>2. futures' = [futures EXCEPT ![f] = new]
      BY <2>1 DEF TakeLock
    <3> HIDE DEF said
    <3>3. sum \in [Texts -> Nat]
      BY <3>1 DEF DMType
    <3> HIDE DEF sum
    <3>4. new \in Future /\ new.job = futures[f].job /\ new.kept = futures[f].kept /\ new.at = "ingest"
      BY <1>1, <3>3 DEF Future, Stages
    <3> QED BY <3>2, <3>4 DEF Replaces
  <2>2. CASE RunPhases(f)
    <3>1. PICK good \in SUBSET Texts :
             futures' = [futures EXCEPT ![f] = [futures[f] EXCEPT
                !.at = "unlock", !.new = good \ futures[f].seen, !.skip = good \cap futures[f].seen]]
      BY <2>2 DEF RunPhases
    <3> DEFINE new == [futures[f] EXCEPT !.at = "unlock", !.new = good \ futures[f].seen,
                                         !.skip = good \cap futures[f].seen]
    <3>2. new \in Future /\ new.job = futures[f].job /\ new.kept = futures[f].kept /\ new.at = "unlock"
      BY <1>1 DEF Future, Stages
    <3> QED BY <3>1, <3>2 DEF Replaces
  <2> QED BY <2>1, <2>2
<1>3. PICK new \in Future : /\ Replaces(f, new) /\ new.job = futures[f].job
                           /\ new.kept = futures[f].kept /\ new.at \in {"ingest", "unlock"}
  BY <1>2
<1>4. Replaces(f, new) /\ new.job = futures[f].job
  BY <1>3
<1>5. new.at \in {"name", "upsert", "skip", "write"} => new.text # <<>>
  BY <1>3
<1>6. UNCHANGED <<jobs, loaded, completed, counter, pendingJobs, records, files, recalls>> /\ lock' \in BOOLEAN
  BY DEF TakeLock, RunPhases, DMType
<1>7. UNCHANGED <<jobs, loaded>>
  BY <1>6
<1>8. completed' \subseteq DOMAIN jobs /\ counter' \in Nat /\ pendingJobs' \in [1..MaxJobs -> Nat]
      /\ records' \in [Ids -> Texts \cup {None}] /\ files' \in [Ids -> Texts \cup {None}]
      /\ lock' \in BOOLEAN /\ recalls' \in [Texts -> Nat]
  BY <1>6 DEF DMType
<1>9. DMType'
  BY <1>4, <1>5, <1>7, <1>8, ReplaceType
<1>10. Works(f, new.at) /\ new.at \in Stages /\ new.at \in SweepStages /\ new.at \notin {"pop", "done"}
  BY <1>3 DEF Works, Stages, SweepStages
<1> QED BY <1>6, <1>9, <1>10 DEF JobStep

(* Every step of a pool thread is a JobStep.                               *)
LEMMA WorkerSteps ==
    ASSUME DMType, NEW f \in DOMAIN futures, Worker(f) \/ SweepFails(f)
    PROVE  DMType' /\ JobStep(f)
BY RunJobSteps, RecordSteps, CompletionSteps, SweepMoves, SweepSteps DEF Worker
-----------------------------------------------------------------------------
(* A host thread's half of a job (FileMemoryStore.schedule).               *)

(* Registering a job adds at most one to the table of jobs, and a future.  *)
LEMMA SubmitSteps ==
    ASSUME DMType, NEW j \in 1..(Len(jobs) + 1), j <= MaxJobs, NEW path \in {"extract", "dream"},
           NEW snapshot \in Seq(Texts), Submit(j, path, snapshot)
    PROVE  /\ DMType'
           /\ DOMAIN jobs \subseteq DOMAIN jobs' /\ j \in DOMAIN jobs'
           /\ \E new : futures' = Append(futures, new) /\ new.job = j /\ new.kept = FALSE
                       /\ new.at = "queued"
<1> USE DurableAssumption
<1> DEFINE new == [job |-> j, path |-> path, at |-> "queued", kept |-> FALSE, text |-> <<>>,
                   seen |-> {}, id |-> None, copy |-> None0, new |-> {}, skip |-> {}]
<1>1. /\ jobs' = IF j = Len(jobs) + 1 THEN Append(jobs, snapshot) ELSE [jobs EXCEPT ![j] = snapshot]
      /\ futures' = Append(futures, new)
      /\ UNCHANGED <<pendingJobs, completed, counter, records, files, loaded, lock, recalls>>
  BY DEF Submit
<1>2. new \in Future /\ new.job = j /\ new.kept = FALSE /\ new.at = "queued"
  <2>1. <<>> \in Seq(Texts) /\ None0 \in [Texts -> Nat] /\ j \in 1..MaxJobs
    BY DEF None0, DMType
  <2> QED BY <2>1 DEF Future, Stages
<1> HIDE DEF new
<1>3. /\ jobs' \in Seq(Seq(Texts)) /\ Len(jobs') <= MaxJobs
      /\ DOMAIN jobs \subseteq DOMAIN jobs' /\ j \in DOMAIN jobs'
  <2>1. jobs \in Seq(Seq(Texts)) /\ Len(jobs) <= MaxJobs
    BY DEF DMType
  <2>2. CASE j = Len(jobs) + 1
    BY <1>1, <2>1, <2>2
  <2>3. CASE j # Len(jobs) + 1
    BY <1>1, <2>1, <2>3
  <2> QED BY <2>2, <2>3
<1>4. futures' \in Seq(Future) /\ Len(futures') = Len(futures) + 1
      /\ \A f \in DOMAIN futures : futures'[f] = futures[f]
  <2>1. futures \in Seq(Future) /\ new \in Future /\ futures' = Append(futures, new)
    BY <1>1, <1>2 DEF DMType
  <2>2. futures' \in Seq(Future) /\ Len(futures') = Len(futures) + 1
    BY <2>1
  <2>3. \A f \in 1..Len(futures) : futures'[f] = futures[f]
    BY <2>1
  <2> QED BY <2>1, <2>2, <2>3
<1>5. futures'[Len(futures) + 1] = new /\ DOMAIN futures' = DOMAIN futures \cup {Len(futures) + 1}
  BY <1>1, <1>2, <1>4 DEF DMType
<1>6. \A f \in DOMAIN futures' :
          /\ futures'[f].job \in DOMAIN jobs'
          /\ futures'[f].at \in {"name", "upsert", "skip", "write"} => futures'[f].text # <<>>
  BY <1>2, <1>3, <1>4, <1>5 DEF DMType
<1>7. completed' \subseteq DOMAIN jobs'
  BY <1>1, <1>3 DEF DMType
<1>8. DMType'
  BY <1>1, <1>3, <1>4, <1>6, <1>7 DEF DMType
<1> QED BY <1>1, <1>2, <1>3, <1>8

(* Keeping a future marks it and enters it in the table of pending jobs.   *)
LEMMA KeepSteps ==
    ASSUME DMType, NEW j \in 1..MaxJobs, NEW f \in DOMAIN futures, KeepFuture(j, f)
    PROVE  /\ DMType' /\ DOMAIN futures' = DOMAIN futures
           /\ \A g \in DOMAIN futures : /\ futures'[g].job = futures[g].job
                                        /\ futures'[g].at = futures[g].at
                                        /\ futures'[g].kept = (g = f \/ futures[g].kept)
<1> DEFINE new == [futures[f] EXCEPT !.kept = TRUE]
<1>1. futures[f] \in Future
  BY DEF DMType
<1>2. new \in Future /\ new.job = futures[f].job /\ new.kept = TRUE /\ new.at = futures[f].at
      /\ new.text = futures[f].text
  BY <1>1 DEF Future
<1>3. futures' = [futures EXCEPT ![f] = new] /\ pendingJobs' = [pendingJobs EXCEPT ![j] = f]
      /\ UNCHANGED <<jobs, completed, counter, records, files, loaded, lock, recalls>>
  BY DEF KeepFuture
<1> HIDE DEF new
<1>4. Replaces(f, new) /\ new.job = futures[f].job /\ f \in Nat
  BY <1>2, <1>3 DEF Replaces, DMType
<1>5. new.at \in {"name", "upsert", "skip", "write"} => new.text # <<>>
  BY <1>2 DEF DMType
<1>6. UNCHANGED <<jobs, loaded>>
  BY <1>3
<1>7. completed' \subseteq DOMAIN jobs /\ counter' \in Nat /\ pendingJobs' \in [1..MaxJobs -> Nat]
      /\ records' \in [Ids -> Texts \cup {None}] /\ files' \in [Ids -> Texts \cup {None}]
      /\ lock' \in BOOLEAN /\ recalls' \in [Texts -> Nat]
  BY <1>3, <1>4 DEF DMType
<1>8. DMType'
  BY <1>2, <1>4, <1>5, <1>6, <1>7, ReplaceType
<1>9. \A g \in DOMAIN futures : futures[g] \in Future
  BY DEF DMType
<1>10. \A g \in DOMAIN futures : futures[g].kept \in BOOLEAN
  BY <1>9 DEF Future
<1>11. DOMAIN futures' = DOMAIN futures
       /\ \A g \in DOMAIN futures : futures'[g] = IF g = f THEN new ELSE futures[g]
  BY <1>3 DEF DMType
<1> QED BY <1>2, <1>8, <1>10, <1>11

-----------------------------------------------------------------------------
(* Every step keeps the types.                                             *)

(* A thread's step that touches neither jobs nor the session it dreams of. *)
LEMMA PlainStepType ==
    ASSUME Types, STType', DMType', UNCHANGED <<jobs, up>>, NEW t \in Threads,
           NEW to \in Points \ {"submitting", "submitting dream", "keeping", "keeping dream"},
           pc' = [pc EXCEPT ![t] = to], job' = job, due' \in BOOLEAN,
           lastSession' = lastSession \/ lastSession' \in Sessions,
           text' \in [Sessions -> Transcripts],
           saved' \in [Sessions -> [text : Transcripts, told : Lengths]]
    PROVE  Types'
BY DEF Types, HostType

(* Steps that leave the short-term memory alone keep its types,            *)
LEMMA STSame == ASSUME STType, UNCHANGED stVars PROVE STType'
BY DEF STType, stVars

(* and those that leave the durable memory alone keep its types.           *)
LEMMA DMSame == ASSUME DMType, UNCHANGED dmVars PROVE DMType'
BY DEF DMType, dmVars

(* A session's transcript is a sequence of texts, within the bound.        *)
LEMMA TextType ==
    ASSUME HostType, NEW s \in Sessions
    PROVE  text[s] \in Seq(Texts) /\ Len(text[s]) \in Lengths
<1>1. text[s] \in Transcripts
  BY DEF HostType
<1>2. text[s] \in Seq(Texts) /\ Len(text[s]) <= MaxLength
  BY <1>1 DEF Transcripts
<1>3. Len(text[s]) \in Nat
  BY <1>2
<1> QED BY <1>2, <1>3, MaintenanceAssumption DEF Lengths

(* Every step of a turn keeps the types.                                   *)
LEMMA TurnType ==
    ASSUME Types, NEW t \in Threads, Turn(t), ~KeepJob(t)
    PROVE  Types'
<1> USE ShortTermAssumption, MaintenanceAssumption, DurableAssumption
<1>1. STType /\ DMType /\ HostType /\ SessionOf[t] \in Sessions
  BY DEF Types
<1>2. CASE BeginTurn(t) \/ ExtractNothing(t)
  <2>1. STType' /\ DMType'
    BY <1>1, <1>2, LookType, DMSame DEF BeginTurn, ExtractNothing
  <2>2. \E to \in {"loading", "stabilizing"} : pc' = [pc EXCEPT ![t] = to]
    BY <1>2 DEF BeginTurn, ExtractNothing, Step
  <2>3. UNCHANGED <<jobs, text, saved, lastSession, job, due, up>>
    BY <1>2 DEF BeginTurn, ExtractNothing, dmVars
  <2> QED BY <2>1, <2>2, <2>3, PlainStepType DEF Types, HostType, Points
<1>3. CASE Wait(t)
  <2>1. STType' /\ DMType'
    BY <1>1, <1>3, WaitType, DMSame DEF Wait
  <2> QED BY <1>1, <1>3, <2>1 DEF Wait, hostVars, dmVars, Types, HostType
<1>4. CASE RunTurn(t)
  <2>1. STType' /\ DMType'
    BY <1>1, <1>4, TellsType, DMSame DEF RunTurn
  <2>2. PICK said \in {<<>>} \cup {<<x>> : x \in Texts} :
            /\ Len(text[SessionOf[t]] \o said) <= MaxLength
            /\ text' = [text EXCEPT ![SessionOf[t]] = @ \o said]
    BY <1>4 DEF RunTurn
  <2>3. said \in Seq(Texts)
    <3>1. CASE said = <<>>
      BY <3>1
    <3>2. ASSUME NEW x \in Texts, said = <<x>> PROVE said \in Seq(Texts)
      BY <3>2
    <3> QED BY <2>2, <3>1, <3>2
  <2>4. text[SessionOf[t]] \o said \in Transcripts
    <3>1. text[SessionOf[t]] \o said \in Seq(Texts)
      BY <1>1, <2>3, TextType
    <3> QED BY <2>2, <3>1 DEF Transcripts
  <2>5. text' \in [Sessions -> Transcripts]
    BY <1>1, <2>2, <2>4 DEF HostType
  <2>6. pc' = [pc EXCEPT ![t] = "updating"] /\ UNCHANGED <<jobs, saved, lastSession, job, due, up>>
    BY <1>4 DEF RunTurn, Step, dmVars
  <2> QED BY <2>1, <2>5, <2>6, PlainStepType DEF Types, HostType, Points
<1>5. CASE UpdateMemory(t)
  <2>1. Len(text[SessionOf[t]]) \in Lengths
    BY <1>1, TextType
  <2>2. STType' /\ DMType'
    BY <1>1, <1>5, <2>1, UpdateType, DMSame DEF UpdateMemory
  <2>3. pc' = [pc EXCEPT ![t] = "extracting"] /\ lastSession' \in Sessions
        /\ UNCHANGED <<jobs, text, saved, job, due, up>>
    BY <1>1, <1>5 DEF UpdateMemory, Step, dmVars
  <2> QED BY <2>2, <2>3, PlainStepType DEF Types, HostType, Points
<1>6. CASE TakeJob(t)
  <2>1. STType' /\ DMType'
    BY <1>1, <1>6, STSame, DMSame DEF TakeJob
  <2>2. \E to \in {"submitting", "submitting dream"} :
            pc' = [pc EXCEPT ![t] = to] /\ (to = "submitting dream" => lastSession \in Sessions)
    BY <1>1, <1>6 DEF TakeJob, Step, HostType
  <2>3. /\ job' = [job EXCEPT ![t] = Len(jobs) + 1] /\ Len(jobs) + 1 <= MaxJobs
        /\ UNCHANGED <<jobs, text, saved, lastSession, due, up>>
    BY <1>6 DEF TakeJob, NextJob, dmVars
  <2>4. Len(jobs) \in Nat
    BY <1>1 DEF DMType
  <2>5. job' \in [Threads -> 0..MaxJobs] /\ pc' \in [Threads -> Points]
    <3>1. Len(jobs) + 1 \in 0..MaxJobs
      BY <2>3, <2>4
    <3>2. job \in [Threads -> 0..MaxJobs] /\ pc \in [Threads -> Points]
      BY <1>1 DEF HostType
    <3>3. {"submitting", "submitting dream"} \subseteq Points
      BY DEF Points
    <3> HIDE DEF Points
    <3> QED BY <2>2, <2>3, <3>1, <3>2, <3>3
  <2>6. \A u \in Threads :
          /\ pc'[u] \in {"submitting", "submitting dream"} => job'[u] \in 1..(Len(jobs') + 1)
          /\ pc'[u] = "submitting dream" => lastSession' \in Sessions
          /\ pc'[u] \in {"keeping", "keeping dream"} => job'[u] \in DOMAIN jobs'
    <3>1. job \in [Threads -> 0..MaxJobs] /\ pc \in [Threads -> Points] /\ jobs' = jobs
          /\ lastSession' = lastSession
      BY <1>1, <2>3 DEF HostType
    <3> SUFFICES ASSUME NEW u \in Threads
                 PROVE  /\ pc'[u] \in {"submitting", "submitting dream"} => job'[u] \in 1..(Len(jobs) + 1)
                        /\ pc'[u] = "submitting dream" => lastSession \in Sessions
                        /\ pc'[u] \in {"keeping", "keeping dream"} => job'[u] \in DOMAIN jobs
      BY <3>1
    <3>2. CASE u = t
      <4>1. job'[u] = Len(jobs) + 1 /\ pc'[u] \in {"submitting", "submitting dream"}
            /\ (pc'[u] = "submitting dream" => lastSession \in Sessions)
        BY <2>2, <2>3, <3>1, <3>2
      <4>2. Len(jobs) + 1 \in 1..(Len(jobs) + 1)
        BY <2>4
      <4> QED BY <4>1, <4>2
    <3>3. CASE u # t
      <4>1. job'[u] = job[u] /\ pc'[u] = pc[u]
        BY <2>2, <2>3, <3>1, <3>3
      <4> QED BY <1>1, <4>1 DEF HostType
    <3> QED BY <3>2, <3>3
  <2> QED BY <1>1, <2>1, <2>3, <2>5, <2>6 DEF Types, HostType
<1>7. CASE SubmitJob(t)
  <2>1. job[t] \in 1..(Len(jobs) + 1) /\ job[t] <= MaxJobs
    <3>1. pc[t] \in {"submitting", "submitting dream"}
      BY <1>7 DEF SubmitJob, Step
    <3>2. job[t] \in 1..(Len(jobs) + 1) /\ job[t] \in 0..MaxJobs
      BY <1>1, <3>1 DEF HostType
    <3> QED BY <3>2
  <2>2. \E path \in {"extract", "dream"}, x \in Seq(Texts), to \in {"keeping", "keeping dream"} :
            Submit(job[t], path, x) /\ pc' = [pc EXCEPT ![t] = to]
    <3>1. CASE Step(t, "submitting", "keeping") /\ Submit(job[t], "extract", text[SessionOf[t]])
      <4>1. text[SessionOf[t]] \in Seq(Texts) /\ pc' = [pc EXCEPT ![t] = "keeping"]
        BY <1>1, <3>1 DEF HostType, Transcripts, Step
      <4> QED BY <3>1, <4>1
    <3>2. CASE Step(t, "submitting dream", "keeping dream") /\ Submit(job[t], "dream", text[lastSession])
      <4>1. text[lastSession] \in Seq(Texts) /\ pc' = [pc EXCEPT ![t] = "keeping dream"]
        BY <1>1, <3>2 DEF HostType, Transcripts, Step
      <4> QED BY <3>2, <4>1
    <3> QED BY <1>7, <3>1, <3>2 DEF SubmitJob
  <2>3. PICK path \in {"extract", "dream"}, x \in Seq(Texts), to \in {"keeping", "keeping dream"} :
            Submit(job[t], path, x) /\ pc' = [pc EXCEPT ![t] = to]
    BY <2>2
  <2>4. DMType' /\ DOMAIN jobs \subseteq DOMAIN jobs' /\ job[t] \in DOMAIN jobs'
    BY <1>1, <2>1, <2>3, SubmitSteps
  <2>5. STType' /\ UNCHANGED <<text, saved, lastSession, job, due, up>>
    BY <1>1, <1>7, STSame DEF SubmitJob
  <2>6. Len(jobs) <= Len(jobs') /\ Len(jobs) \in Nat /\ Len(jobs') \in Nat
    <3>1. jobs \in Seq(Seq(Texts)) /\ jobs' \in Seq(Seq(Texts))
      BY <1>1, <2>4 DEF DMType
    <3> QED BY <2>4, <3>1, Domain, Longer
  <2>7. \A u \in Threads :
          /\ pc'[u] \in {"submitting", "submitting dream"} => job'[u] \in 1..(Len(jobs') + 1)
          /\ pc'[u] = "submitting dream" => lastSession' \in Sessions
          /\ pc'[u] \in {"keeping", "keeping dream"} => job'[u] \in DOMAIN jobs'
    <3>1. job' = job /\ pc \in [Threads -> Points] /\ lastSession' = lastSession
      BY <1>1, <2>5 DEF HostType
    <3> SUFFICES ASSUME NEW u \in Threads
                 PROVE  /\ pc'[u] \in {"submitting", "submitting dream"} => job[u] \in 1..(Len(jobs') + 1)
                        /\ pc'[u] = "submitting dream" => lastSession \in Sessions
                        /\ pc'[u] \in {"keeping", "keeping dream"} => job[u] \in DOMAIN jobs'
      BY <3>1
    <3>2. CASE u = t
      BY <2>3, <2>4, <3>1, <3>2
    <3>3. CASE u # t
      <4>1. pc'[u] = pc[u]
        BY <2>3, <3>1, <3>3
      <4>2. job[u] \in 1..(Len(jobs) + 1) => job[u] \in 1..(Len(jobs') + 1)
        BY <2>6, NextStays
      <4> QED BY <1>1, <2>4, <4>1, <4>2 DEF HostType
    <3> QED BY <3>2, <3>3
  <2>8. pc' \in [Threads -> Points]
    BY <1>1, <2>3 DEF HostType, Points
  <2> QED BY <1>1, <2>4, <2>5, <2>7, <2>8 DEF Types, HostType
<1>8. CASE Stabilize(t) \/ NoDream(t)
  <2>1. STType' /\ DMType'
    BY <1>1, <1>8, TellsType, STSame, DMSame DEF Stabilize, NoDream
  <2>2. \E to \in {"dreaming", "persisting"} : pc' = [pc EXCEPT ![t] = to]
    BY <1>8 DEF Stabilize, NoDream, Step
  <2>3. UNCHANGED <<jobs, text, saved, lastSession, job, due, up>>
    BY <1>8 DEF Stabilize, NoDream, dmVars
  <2> QED BY <2>1, <2>2, <2>3, PlainStepType DEF Types, HostType, Points
<1>9. CASE PersistSession(t)
  <2>1. STType' /\ DMType'
    BY <1>1, <1>9, STSame, DMSame DEF PersistSession
  <2>2. pc' = [pc EXCEPT ![t] = "idle"] /\ UNCHANGED <<jobs, text, lastSession, job, due, up>>
        /\ saved' = [saved EXCEPT ![SessionOf[t]] = [text |-> text[SessionOf[t]], told |-> told[SessionOf[t]]]]
    BY <1>9 DEF PersistSession, Step, dmVars
  <2>3. saved' \in [Sessions -> [text : Transcripts, told : Lengths]]
    BY <1>1, <2>2 DEF HostType, STType
  <2> QED BY <2>1, <2>2, <2>3, PlainStepType DEF Types, HostType, Points
<1> QED BY <1>2, <1>3, <1>4, <1>5, <1>6, <1>7, <1>8, <1>9 DEF Turn
-----------------------------------------------------------------------------
(* Jobs and their futures.                                                 *)

(* Two threads may take the same job id, and a job may be over before its  *)
(* future is kept.  What makes KeepJob right is that each thread that has  *)
(* submitted has a future of its own to keep.                              *)
Keepers    == {t \in Threads : pc[t] \in {"keeping", "keeping dream"}}
Unkept(j)  == {f \in DOMAIN futures : futures[f].job = j /\ ~futures[f].kept}
OwnToKeep  == \E m \in [Keepers -> DOMAIN futures] :
                 /\ \A t \in Keepers : m[t] \in Unkept(job[t])
                 /\ \A t, u \in Keepers : m[t] = m[u] => t = u

Finished == \A f \in DOMAIN futures :
               futures[f].at \in {"pop", "done"} => futures[f].job \in completed

Held == crashes = 0 /\ lock => Sweeping # {}

JobInv == Finished /\ JobAccounted /\ OwnToKeep /\ Held

(* A step that touches neither the futures nor the threads that are about  *)
(* to keep one keeps JobInv.                                               *)
LEMMA QuietJobs ==
    ASSUME JobInv, UNCHANGED <<futures, completed, pendingJobs, lock, crashes>>,
           Keepers' = Keepers, \A t \in Keepers : job'[t] = job[t]
    PROVE  JobInv'
<1>1. Finished' /\ JobAccounted' /\ Held'
  BY DEF JobInv, Finished, JobAccounted, Held, Sweeping
<1>3. PICK m \in [Keepers -> DOMAIN futures] :
          /\ \A t \in Keepers : m[t] \in Unkept(job[t])
          /\ \A t, u \in Keepers : m[t] = m[u] => t = u
  BY DEF JobInv, OwnToKeep
<1>4. \A t \in Keepers' : /\ m[t] \in DOMAIN futures' /\ futures'[m[t]].job = job'[t]
                         /\ ~futures'[m[t]].kept
  BY <1>3 DEF Unkept
<1>5. m \in [Keepers' -> DOMAIN futures'] /\ \A t, u \in Keepers' : m[t] = m[u] => t = u
  BY <1>3
<1>6. OwnToKeep'
  BY <1>4, <1>5 DEF OwnToKeep, Unkept
<1> QED BY <1>1, <1>6 DEF JobInv

(* A step of a job keeps JobInv: the result is there before the pending    *)
(* entry goes, and the lock goes with the last sweep or earlier.           *)
LEMMA JobStepKeeps ==
    ASSUME DMType, JobInv, NEW f \in DOMAIN futures, JobStep(f), UNCHANGED <<pc, job, crashes>>
    PROVE  JobInv'
<1>1. PICK where \in Stages :
        /\ Works(f, where) /\ jobs' = jobs
        /\ completed' = completed \cup (IF where = "pop" THEN {futures[f].job} ELSE {})
        /\ \/ pendingJobs' = pendingJobs /\ where # "done"
           \/ /\ futures[f].at = "pop"
              /\ pendingJobs' = [pendingJobs EXCEPT ![futures[f].job] = 0]
        /\ \/ lock' = FALSE
           \/ where \in SweepStages
           \/ lock' = lock /\ futures[f].at \notin SweepStages
  BY DEF JobStep
<1>2. PICK new \in Future : /\ futures' = [futures EXCEPT ![f] = new]
                           /\ new.job = futures[f].job /\ new.kept = futures[f].kept
                           /\ new.at = where
  BY <1>1 DEF Works, Replaces
<1>3. /\ DOMAIN futures' = DOMAIN futures
      /\ \A g \in DOMAIN futures : g # f => futures'[g] = futures[g]
      /\ futures'[f] = new
  BY <1>2 DEF DMType
<1>4. \A g \in DOMAIN futures : futures'[g].job = futures[g].job /\ futures'[g].kept = futures[g].kept
  BY <1>2, <1>3
<1>5. Finished'
  <2> SUFFICES ASSUME NEW g \in DOMAIN futures', futures'[g].at \in {"pop", "done"}
               PROVE  futures'[g].job \in completed'
    BY DEF Finished
  <2>1. CASE g # f
    BY <1>1, <1>3, <2>1 DEF JobInv, Finished
  <2>2. CASE g = f
    BY <1>1, <1>2, <1>3, <2>2 DEF JobInv, Finished
  <2> QED BY <2>1, <2>2
<1>6. JobAccounted'
  <2> SUFFICES ASSUME NEW g \in DOMAIN futures', futures'[g].kept
               PROVE  futures'[g].job \in completed' \/ pendingJobs'[futures'[g].job] # 0
    BY DEF JobAccounted
  <2>1. g \in DOMAIN futures /\ futures[g].kept /\ futures'[g].job = futures[g].job
    BY <1>3, <1>4
  <2>2. futures[g].job \in completed \/ pendingJobs[futures[g].job] # 0
    BY <2>1 DEF JobInv, JobAccounted
  <2>3. CASE pendingJobs' = pendingJobs
    BY <1>1, <2>1, <2>2, <2>3
  <2>4. CASE futures[f].at = "pop" /\ pendingJobs' = [pendingJobs EXCEPT ![futures[f].job] = 0]
    <3>1. futures[f].job \in completed
      BY <2>4 DEF JobInv, Finished
    <3>2. CASE futures[g].job = futures[f].job
      BY <1>1, <2>1, <3>1, <3>2
    <3>3. CASE futures[g].job # futures[f].job
      <4>1. futures[g].job \in 1..MaxJobs
        <5>1. futures[g] \in Future
          BY <2>1 DEF DMType
        <5> QED BY <5>1 DEF Future
      <4> QED BY <1>1, <2>1, <2>2, <2>4, <3>3, <4>1 DEF DMType
    <3> QED BY <3>2, <3>3
  <2> QED BY <1>1, <2>3, <2>4
<1>7. OwnToKeep'
  <2>1. Keepers' = Keepers
    BY DEF Keepers
  <2>3. PICK m \in [Keepers -> DOMAIN futures] :
            /\ \A t \in Keepers : m[t] \in Unkept(job[t])
            /\ \A t, u \in Keepers : m[t] = m[u] => t = u
    BY DEF JobInv, OwnToKeep
  <2>4. m \in [Keepers' -> DOMAIN futures'] /\ \A t, u \in Keepers' : m[t] = m[u] => t = u
    BY <1>3, <2>1, <2>3
  <2>5. \A t \in Keepers' : /\ m[t] \in DOMAIN futures' /\ futures'[m[t]].job = job'[t]
                           /\ ~futures'[m[t]].kept
    BY <1>3, <1>4, <2>1, <2>3 DEF Unkept
  <2> QED BY <2>4, <2>5 DEF OwnToKeep, Unkept
<1>8. Held'
  <2> SUFFICES ASSUME crashes = 0, lock' PROVE Sweeping' # {}
    BY DEF Held
  <2>1. CASE where \in SweepStages
    <3>1. f \in Sweeping'
      BY <1>2, <1>3, <2>1 DEF Sweeping, SweepStages
    <3> QED BY <3>1
  <2>2. CASE lock' = lock /\ futures[f].at \notin SweepStages
    <3>1. PICK g \in DOMAIN futures : futures[g].at \in SweepStages
      BY <2>2 DEF JobInv, Held, Sweeping, SweepStages
    <3>2. g \in Sweeping'
      BY <1>3, <2>2, <3>1 DEF Sweeping, SweepStages
    <3> QED BY <3>2
  <2> QED BY <1>1, <2>1, <2>2
<1> QED BY <1>5, <1>6, <1>7, <1>8 DEF JobInv

(* A submitted job gives its thread a future of that job to keep.          *)
LEMMA SubmitKeeps ==
    ASSUME Types, JobInv, NEW t \in Threads, SubmitJob(t)
    PROVE  JobInv'
<1>1. PICK new : /\ futures' = Append(futures, new) /\ new.job = job[t] /\ new.kept = FALSE
                 /\ new.at = "queued"
  <2>1. PICK path, x : Submit(job[t], path, x)
    BY DEF SubmitJob
  <2> DEFINE b == [job |-> job[t], path |-> path, at |-> "queued", kept |-> FALSE, text |-> <<>>,
                   seen |-> {}, id |-> None, copy |-> None0, new |-> {}, skip |-> {}]
  <2>2. futures' = Append(futures, b)
    BY <2>1 DEF Submit
  <2>3. b.job = job[t] /\ b.kept = FALSE /\ b.at = "queued"
    OBVIOUS
  <2> QED BY <2>2, <2>3
<1>2. /\ UNCHANGED <<pendingJobs, completed, lock, job, crashes>>
      /\ pc[t] \in {"submitting", "submitting dream"}
      /\ \E to \in {"keeping", "keeping dream"} : pc' = [pc EXCEPT ![t] = to]
  BY DEF SubmitJob, Submit, Step
<1> DEFINE n == Len(futures) + 1
<1>3. /\ DOMAIN futures' = DOMAIN futures \cup {n} /\ n \notin DOMAIN futures
      /\ \A f \in DOMAIN futures : futures'[f] = futures[f]
      /\ futures'[n] = new
  BY <1>1 DEF Types, DMType
<1> HIDE DEF n
<1>4. Finished' /\ JobAccounted'
  BY <1>1, <1>2, <1>3 DEF JobInv, Finished, JobAccounted
<1>5. Held'
  BY <1>2, <1>3 DEF JobInv, Held, Sweeping
<1>6. OwnToKeep'
  <2>1. PICK m \in [Keepers -> DOMAIN futures] :
            /\ \A u \in Keepers : m[u] \in Unkept(job[u])
            /\ \A u, v \in Keepers : m[u] = m[v] => u = v
    BY DEF JobInv, OwnToKeep
  <2>2. t \notin Keepers /\ Keepers' = Keepers \cup {t}
    BY <1>2 DEF Keepers, Types, HostType
  <2> DEFINE k == [u \in Keepers' |-> IF u = t THEN n ELSE m[u]]
  <2>3. k \in [Keepers' -> DOMAIN futures']
    BY <1>3, <2>1, <2>2
  <2>4. \A u, v \in Keepers' : k[u] = k[v] => u = v
    BY <1>3, <2>1, <2>2
  <2>5. \A u \in Keepers' : k[u] \in DOMAIN futures' /\ futures'[k[u]].job = job'[u] /\ ~futures'[k[u]].kept
    BY <1>1, <1>2, <1>3, <2>1, <2>2 DEF Unkept
  <2> HIDE DEF k
  <2> QED BY <2>3, <2>4, <2>5 DEF OwnToKeep, Unkept
<1> QED BY <1>4, <1>5, <1>6 DEF JobInv

(* The future a thread keeps need not be its own: where two threads share  *)
(* an id, one keeps the other's and leaves it its own.                     *)
LEMMA KeepKeeps ==
    ASSUME Types, JobInv, NEW t \in Threads, KeepJob(t)
    PROVE  DMType' /\ JobInv'
<1>1. PICK m \in [Keepers -> DOMAIN futures] :
          /\ \A u \in Keepers : m[u] \in Unkept(job[u])
          /\ \A u, v \in Keepers : m[u] = m[v] => u = v
  BY DEF JobInv, OwnToKeep
<1>2. t \in Keepers /\ job[t] \in DOMAIN jobs
  BY DEF Keepers, KeepJob, Step, Types, HostType
<1>3. m[t] \in Unkept(job[t])
  BY <1>1, <1>2
<1> DEFINE f == Mine(t)
<1>4. f \in Unkept(job[t])
  BY <1>3 DEF Mine, Unkept
<1>5. KeepFuture(job[t], f) /\ UNCHANGED <<job, crashes>>
  BY DEF KeepJob
<1>6. \E to \in {"stabilizing", "persisting"} : pc' = [pc EXCEPT ![t] = to]
  BY DEF KeepJob, Step
<1> HIDE DEF f
<1>7. f \in DOMAIN futures /\ futures[f].job = job[t] /\ f # 0
  BY <1>4 DEF Unkept, Types, DMType
<1>8. DMType /\ job[t] \in 1..MaxJobs
  BY <1>2, DurableAssumption DEF Types, DMType
<1>9. /\ DMType' /\ DOMAIN futures' = DOMAIN futures
      /\ \A g \in DOMAIN futures : /\ futures'[g].job = futures[g].job
                                   /\ futures'[g].at = futures[g].at
                                   /\ futures'[g].kept = (g = f \/ futures[g].kept)
  BY <1>5, <1>7, <1>8, KeepSteps
<1>10. pendingJobs' = [pendingJobs EXCEPT ![job[t]] = f] /\ UNCHANGED <<completed, lock>>
  BY <1>5 DEF KeepFuture
<1>11. Finished'
  BY <1>9, <1>10 DEF JobInv, Finished
<1>12. Held'
  BY <1>5, <1>9, <1>10 DEF JobInv, Held, Sweeping
<1>13. JobAccounted'
  <2> SUFFICES ASSUME NEW g \in DOMAIN futures, g = f \/ futures[g].kept
               PROVE  futures[g].job \in completed \/ pendingJobs'[futures[g].job] # 0
    BY <1>9, <1>10 DEF JobAccounted
  <2>1. CASE futures[g].job = job[t]
    BY <1>7, <1>8, <1>10, <2>1 DEF DMType
  <2>2. CASE futures[g].job # job[t]
    <3>1. futures[g].kept
      BY <1>7, <2>2
    <3>2. pendingJobs'[futures[g].job] = pendingJobs[futures[g].job]
      BY <1>10, <2>2
    <3> QED BY <3>1, <3>2 DEF JobInv, JobAccounted
  <2> QED BY <2>1, <2>2
<1>14. OwnToKeep'
  <2>1. Keepers' = Keepers \ {t}
    BY <1>6 DEF Keepers, Types, HostType
  <2> DEFINE k == [u \in Keepers' |-> IF m[u] = f THEN m[t] ELSE m[u]]
  <2>2. k \in [Keepers' -> DOMAIN futures']
    BY <1>1, <1>2, <1>9, <2>1
  <2>3. \A u \in Keepers' : k[u] \in DOMAIN futures /\ futures[k[u]].job = job[u] /\ ~futures[k[u]].kept
                          /\ k[u] # f
    BY <1>1, <1>2, <1>7, <2>1 DEF Unkept
  <2>4. \A u, v \in Keepers' : k[u] = k[v] => u = v
    BY <1>1, <1>2, <2>1
  <2> HIDE DEF k
  <2>5. \A u \in Keepers' : k[u] \in DOMAIN futures' /\ futures'[k[u]].job = job'[u] /\ ~futures'[k[u]].kept
    BY <1>5, <1>9, <2>3
  <2> QED BY <2>2, <2>4, <2>5 DEF OwnToKeep, Unkept
<1> QED BY <1>9, <1>11, <1>12, <1>13, <1>14 DEF JobInv

(* Every step of a turn keeps the types and JobInv.                        *)
LEMMA TurnKeeps ==
    ASSUME Types, JobInv, NEW t \in Threads, Turn(t)
    PROVE  Types' /\ JobInv' /\ UNCHANGED <<up, crashes>>
<1> USE ShortTermAssumption, MaintenanceAssumption, DurableAssumption
<1>1. STType /\ DMType /\ HostType
  BY DEF Types
<1>2. CASE KeepJob(t)
  <2>1. DMType' /\ JobInv'
    BY <1>2, KeepKeeps
  <2>2. STType'
    BY <1>1, <1>2, LookType, STSame DEF KeepJob
  <2>3. \E to \in {"stabilizing", "persisting"} : pc' = [pc EXCEPT ![t] = to]
    BY <1>2 DEF KeepJob, Step
  <2>4. UNCHANGED <<jobs, text, saved, lastSession, job, up, crashes>> /\ due' \in BOOLEAN
    BY <1>1, <1>2 DEF KeepJob, KeepFuture, HostType
  <2>5. Types'
    BY <2>1, <2>2, <2>3, <2>4, PlainStepType DEF Types, HostType, Points
  <2> QED BY <2>1, <2>4, <2>5
<1>3. CASE SubmitJob(t)
  <2>1. Types'
    BY <1>3, TurnType, <1>1 DEF SubmitJob, KeepJob, Step, Turn
  <2> QED BY <1>3, <2>1, SubmitKeeps DEF SubmitJob
<1>4. CASE ~KeepJob(t) /\ ~SubmitJob(t)
  <2>1. Types'
    BY <1>4, TurnType
  <2>2. UNCHANGED <<futures, completed, pendingJobs, lock, up, crashes>>
    BY <1>4 DEF Turn, BeginTurn, Wait, RunTurn, UpdateMemory, ExtractNothing, TakeJob, Stabilize,
                NoDream, PersistSession, dmVars, hostVars
  <2>3. \A u \in Threads :
            /\ (pc'[u] \in {"keeping", "keeping dream"}) <=> (pc[u] \in {"keeping", "keeping dream"})
            /\ pc[u] \in {"keeping", "keeping dream"} => job'[u] = job[u]
    BY <1>1, <1>4 DEF Turn, BeginTurn, Wait, RunTurn, UpdateMemory, ExtractNothing, TakeJob, Stabilize,
                      NoDream, PersistSession, Step, hostVars, HostType
  <2>4. Keepers' = {u \in Threads : pc'[u] \in {"keeping", "keeping dream"}}
    BY DEF Keepers
  <2>5. Keepers' = Keepers
    BY <2>3, <2>4 DEF Keepers
  <2>6. \A u \in Keepers : job'[u] = job[u]
    BY <2>3 DEF Keepers
  <2> QED BY <2>1, <2>2, <2>5, <2>6, QuietJobs
<1> QED BY <1>2, <1>3, <1>4

(* Steps of the pools, of the clock and of the host between turns.         *)
LEMMA PoolKeeps ==
    ASSUME Types, JobInv,
           \/ \E s \in Sessions : \E i \in DOMAIN builds[s] : BuildMemory(s, i)
           \/ \E f \in DOMAIN futures : RunWorker(f) \/ FailSweep(f)
           \/ IntervalElapses
           \/ \E i \in Ids : Delete(i)
    PROVE  Types' /\ JobInv' /\ UNCHANGED <<up, crashes>>
<1>1. STType /\ DMType /\ HostType
  BY DEF Types
<1>2. ASSUME NEW s \in Sessions, NEW i \in DOMAIN builds[s], BuildMemory(s, i)
      PROVE  Types' /\ JobInv' /\ UNCHANGED <<up, crashes>>
  <2>1. STType' /\ UNCHANGED <<dmVars, hostVars>>
    BY <1>1, <1>2, BuildType DEF BuildMemory
  <2>2. HostType' /\ DMType'
    BY <1>1, <2>1, DMSame DEF HostType, hostVars, dmVars
  <2>3. JobInv'
    BY <2>1, QuietJobs DEF hostVars, dmVars, Keepers
  <2> QED BY <2>1, <2>2, <2>3 DEF Types, hostVars
<1>3. ASSUME NEW f \in DOMAIN futures, RunWorker(f) \/ FailSweep(f)
      PROVE  Types' /\ JobInv' /\ UNCHANGED <<up, crashes>>
  <2>1. DMType' /\ JobStep(f) /\ UNCHANGED <<stVars, hostVars>>
    BY <1>1, <1>3, WorkerSteps DEF RunWorker, FailSweep
  <2>2. jobs' = jobs
    BY <2>1 DEF JobStep
  <2>3. HostType' /\ STType'
    BY <1>1, <2>1, <2>2, STSame DEF HostType, hostVars
  <2>4. JobInv'
    BY <1>1, <2>1, JobStepKeeps DEF hostVars
  <2> QED BY <2>1, <2>3, <2>4 DEF Types, hostVars
<1>4. CASE IntervalElapses
  <2>1. STType' /\ DMType'
    BY <1>1, <1>4, STSame, DMSame DEF IntervalElapses
  <2>2. HostType'
    BY <1>1, <1>4 DEF HostType, IntervalElapses, dmVars
  <2>3. JobInv'
    BY <1>4, QuietJobs DEF IntervalElapses, dmVars, Keepers
  <2> QED BY <1>4, <2>1, <2>2, <2>3 DEF Types, IntervalElapses
<1>5. ASSUME NEW i \in Ids, Delete(i)
      PROVE  Types' /\ JobInv' /\ UNCHANGED <<up, crashes>>
  <2>1. DeleteRecord(i) /\ UNCHANGED <<stVars, text, saved, lastSession, pc, job, due, up, crashes>>
    BY <1>5 DEF Delete
  <2>2. UNCHANGED <<jobs, futures, pendingJobs, completed, counter, lock, recalls>>
        /\ records' = [records EXCEPT ![i] = None] /\ files' = [files EXCEPT ![i] = None]
        /\ loaded' = loaded \ {i}
    BY <2>1 DEF DeleteRecord
  <2>3. STType' /\ DMType'
    BY <1>1, <2>1, <2>2, STSame DEF DMType
  <2>4. HostType'
    BY <1>1, <2>1, <2>2 DEF HostType
  <2>5. JobInv'
    BY <2>1, <2>2, QuietJobs DEF Keepers
  <2> QED BY <2>1, <2>3, <2>4, <2>5 DEF Types
<1> QED BY <1>2, <1>3, <1>4, <1>5

(* Without jobs there is nothing to account for.                           *)
LEMMA NoJobs ==
    ASSUME futures = <<>>, \A t \in Threads : pc[t] = "idle", crashes # 0 \/ ~lock
    PROVE  JobInv
<1>1. Finished /\ JobAccounted /\ Held
  BY DEF Finished, JobAccounted, Held
<1>2. Keepers = {}
  BY DEF Keepers
<1>3. [x \in {} |-> x] \in [Keepers -> DOMAIN futures]
  BY <1>2
<1>4. OwnToKeep
  BY <1>2, <1>3 DEF OwnToKeep
<1> QED BY <1>1, <1>4 DEF JobInv

(* The values a store begins with.                                         *)
LEMMA EmptyStore ==
    /\ <<>> \in Seq(Seq(Texts)) /\ Len(<<>>) = 0 /\ <<>> \in Seq(Future)
    /\ [j \in 1..MaxJobs |-> 0] \in [1..MaxJobs -> Nat]
    /\ Empty \in [Ids -> Texts \cup {None}] /\ None0 \in [Texts -> Nat]
    /\ <<>> \in Transcripts /\ <<>> \in Seq(Built) /\ 0 \in Lengths
BY MaintenanceAssumption, DurableAssumption DEF Empty, None0, Transcripts, Lengths

(* A crash forgets every job, and the files keep their types.              *)
LEMMA CrashTypes ==
    ASSUME Types, crashes \in Nat, Crash PROVE Types' /\ JobInv' /\ crashes' \in Nat
<1> USE ShortTermAssumption, MaintenanceAssumption, DurableAssumption
<1>1. STType /\ DMType /\ HostType
  BY DEF Types
<1>2. PICK torn \in SUBSET Sessions : STCrash(torn)
  BY DEF Crash
<1>3. /\ file' = [s \in Sessions |-> IF s \in torn THEN Torn ELSE file[s]]
      /\ builds' = [s \in Sessions |-> <<>>] /\ pending' = [s \in Sessions |-> 0]
      /\ memory' = [s \in Sessions |-> 0]
      /\ waits' = [t \in Threads |-> 0] /\ found' = [t \in Threads |-> 0]
  BY <1>2 DEF STCrash
<1>4. /\ told' = [s \in Sessions |-> saved[s].told] /\ text' = [s \in Sessions |-> saved[s].text]
      /\ lastSession' = None /\ due' = TRUE
      /\ pc' = [t \in Threads |-> "idle"] /\ job' = [t \in Threads |-> 0]
      /\ up' = FALSE /\ crashes' = crashes + 1 /\ saved' = saved
  BY DEF Crash
<1>5. \A s \in Sessions : saved[s].told \in Lengths /\ saved[s].text \in Transcripts
  BY <1>1 DEF HostType
<1>6. STType'
  <2>1. builds' \in [Sessions -> Seq(Built)] /\ \A s \in Sessions : builds'[s] = <<>>
    BY <1>3, EmptyStore
  <2>2. pending' \in [Sessions -> Nat] /\ \A s \in Sessions : pending'[s] \in 0..Len(builds'[s])
    BY <1>3, <2>1, EmptyStore
  <2>3. waits' \in [Threads -> Nat] /\ \A t \in Threads : waits'[t] \in 0..Len(builds'[SessionOf[t]])
    BY <1>3, <2>1, EmptyStore
  <2>4. memory' \in [Sessions -> Lengths] /\ file' \in [Sessions -> Lengths \cup {Torn}]
        /\ found' \in [Threads -> Lengths] /\ told' \in [Sessions -> Lengths]
    BY <1>1, <1>3, <1>4, <1>5, EmptyStore DEF STType
  <2> QED BY <2>1, <2>2, <2>3, <2>4 DEF STType
<1>7. DMType'
  <2>1. /\ jobs' = <<>> /\ futures' = <<>> /\ pendingJobs' = [j \in 1..MaxJobs |-> 0]
        /\ completed' = {} /\ records' = Empty /\ counter' = 0 /\ loaded' = {}
        /\ UNCHANGED <<files, lock, recalls>>
    BY DEF Crash, DMCrash
  <2> QED BY <1>1, <2>1, EmptyStore DEF DMType
<1>8. HostType'
  <2>1. text' \in [Sessions -> Transcripts]
    BY <1>4, <1>5
  <2>2. pc' \in [Threads -> Points] /\ \A t \in Threads : pc'[t] = "idle"
    BY <1>4 DEF Points
  <2>3. job' \in [Threads -> 0..MaxJobs]
    BY <1>4
  <2>4. lastSession' \in Sessions \cup {None} /\ due' \in BOOLEAN /\ up' \in BOOLEAN
    BY <1>4
  <2>5. saved' \in [Sessions -> [text : Transcripts, told : Lengths]]
    BY <1>1, <1>4 DEF HostType
  <2> QED BY <2>1, <2>2, <2>3, <2>4, <2>5 DEF HostType
<1>9. JobInv'
  <2>1. futures' = <<>>
    BY DEF Crash, DMCrash
  <2>2. \A t \in Threads : pc'[t] = "idle"
    BY <1>4
  <2>3. crashes' # 0
    BY <1>4
  <2>4. (Finished /\ JobAccounted /\ Held)'
    BY <2>1, <2>3 DEF Finished, JobAccounted, Held
  <2>5. Keepers' = {}
    BY <2>2 DEF Keepers
  <2>6. [x \in {} |-> x] \in [Keepers' -> DOMAIN futures']
    BY <2>5
  <2>7. OwnToKeep'
    BY <2>5, <2>6 DEF OwnToKeep
  <2> QED BY <2>4, <2>7 DEF JobInv
<1> QED BY <1>4, <1>6, <1>7, <1>8, <1>9 DEF Types

(* A start brings the records back and no job.                             *)
LEMMA StartTypes ==
    ASSUME Types, JobInv, Start PROVE Types' /\ JobInv' /\ UNCHANGED crashes
<1>1. STType /\ DMType /\ HostType
  BY DEF Types
<1>2. /\ \A s \in Sessions : file[s] # Torn
      /\ memory' = file /\ UNCHANGED <<builds, pending, file, waits, found, told>>
  BY DEF Start, STStart
<1>3. STType'
  <2>1. file \in [Sessions -> Lengths]
    BY <1>1, <1>2 DEF STType
  <2> QED BY <1>1, <1>2, <2>1 DEF STType
<1>4. records' = files /\ loaded' \subseteq Ids
      /\ UNCHANGED <<jobs, futures, pendingJobs, completed, counter, files, lock, recalls>>
  BY DEF Start, DMStart
<1>5. DMType'
  BY <1>1, <1>4 DEF DMType
<1>6. HostType' /\ UNCHANGED <<pc, job, crashes>>
  BY <1>1, <1>4 DEF Start, HostType
<1>7. JobInv'
  BY <1>4, <1>6, QuietJobs DEF Keepers
<1> QED BY <1>3, <1>5, <1>6, <1>7 DEF Types

(* The initial states.                                                     *)
LEMMA InitJobs == Init => Types /\ JobInv /\ crashes \in Nat
<1> USE ShortTermAssumption, MaintenanceAssumption, DurableAssumption
<1> SUFFICES ASSUME Init PROVE Types /\ JobInv /\ crashes \in Nat
  OBVIOUS
<1>1. STType
  <2>1. builds \in [Sessions -> Seq(Built)] /\ \A s \in Sessions : builds[s] = <<>>
    BY EmptyStore DEF Init, STInit
  <2>2. pending \in [Sessions -> Nat] /\ \A s \in Sessions : pending[s] \in 0..Len(builds[s])
    BY <2>1, EmptyStore DEF Init, STInit
  <2>3. waits \in [Threads -> Nat] /\ \A t \in Threads : waits[t] \in 0..Len(builds[SessionOf[t]])
    BY <2>1, EmptyStore DEF Init, STInit
  <2>4. memory \in [Sessions -> Lengths] /\ file \in [Sessions -> Lengths \cup {Torn}]
        /\ found \in [Threads -> Lengths] /\ told \in [Sessions -> Lengths]
    BY EmptyStore DEF Init, STInit
  <2> QED BY <2>1, <2>2, <2>3, <2>4 DEF STType
<1>2. DMType
  <2>1. /\ jobs = <<>> /\ futures = <<>> /\ pendingJobs = [j \in 1..MaxJobs |-> 0]
        /\ completed = {} /\ records = Empty /\ files = Empty /\ counter = 0 /\ loaded = {}
        /\ lock = FALSE /\ recalls = None0
    BY DEF Init, DMInit
  <2>2. jobs \in Seq(Seq(Texts)) /\ Len(jobs) <= MaxJobs /\ futures \in Seq(Future)
        /\ DOMAIN futures = {}
    BY <2>1, EmptyStore
  <2>3. /\ pendingJobs \in [1..MaxJobs -> Nat] /\ counter \in Nat
        /\ records \in [Ids -> Texts \cup {None}] /\ files \in [Ids -> Texts \cup {None}]
        /\ recalls \in [Texts -> Nat]
    BY <2>1, EmptyStore
  <2>4. completed \subseteq DOMAIN jobs /\ loaded \subseteq Ids /\ lock \in BOOLEAN
    BY <2>1
  <2> QED BY <2>2, <2>3, <2>4 DEF DMType
<1>3. HostType
  BY EmptyStore DEF Init, HostType, Points
<1>4. JobInv
  BY NoJobs DEF Init, DMInit
<1> QED BY <1>1, <1>2, <1>3, <1>4 DEF Init, Types

Kept == Types /\ JobInv /\ crashes \in Nat

(* The types and the job tables, in every state: what Submit, KeepFuture   *)
(* and the pool threads do to the futures keeps JobInv                     *)
(* (FileMemoryStore.schedule and run).                                     *)
THEOREM JobsAreKept == Spec => []Kept
<1>1. Init => Kept
  BY InitJobs DEF Kept
<1>2. Kept /\ [Next]_vars => Kept'
  <2> SUFFICES ASSUME Kept, [Next]_vars PROVE Kept'
    OBVIOUS
  <2>1. CASE UNCHANGED vars
    <3>1. UNCHANGED <<stVars, dmVars, hostVars>>
      BY <2>1 DEF vars
    <3>2. Types'
      BY <3>1, STSame, DMSame DEF Kept, Types, HostType, hostVars, dmVars
    <3>3. JobInv'
      BY <3>1, QuietJobs DEF Kept, Keepers, hostVars, dmVars
    <3> QED BY <3>1, <3>2, <3>3 DEF Kept, hostVars
  <2>2. CASE Next
    BY <2>2, TurnKeeps, PoolKeeps, CrashTypes, StartTypes DEF Kept, Next
  <2> QED BY <2>1, <2>2
<1> QED BY <1>1, <1>2, PTL DEF Spec

(* Every variable of the two stores and of the turns has its type: no      *)
(* table, future or thread refers to a job, a text or a build that does    *)
(* not exist.                                                              *)
THEOREM MemoryTypes == Spec => []TypeOK
<1> USE ShortTermAssumption
<1>1. Kept => TypeOK
  <2> SUFFICES ASSUME Kept PROVE TypeOK
    OBVIOUS
  <2>1. STType /\ DMType /\ HostType
    BY DEF Kept, Types
  <2>2. \A s \in Sessions : /\ pending[s] \in 0..Len(builds[s])
                            /\ memory[s] \in 0..MaxLength
                            /\ file[s] \in (0..MaxLength) \cup {Torn} /\ told[s] \in 0..MaxLength
                            /\ text[s] \in Seq(Texts) /\ Len(text[s]) <= MaxLength
    BY <2>1 DEF STType, HostType, Lengths, Transcripts
  <2>3. \A t \in Threads : pc[t] \in Points /\ job[t] \in 0..MaxJobs /\ found[t] \in 0..MaxLength
                           /\ waits[t] \in 0..Len(builds[SessionOf[t]])
    BY <2>1 DEF STType, HostType, Lengths
  <2>4. jobs \in Seq(Seq(Texts)) /\ Len(jobs) <= MaxJobs
        /\ \A f \in DOMAIN futures : futures[f].job \in DOMAIN jobs
    BY <2>1 DEF DMType
  <2>5. completed \subseteq DOMAIN jobs /\ counter \in Nat
        /\ records \in [Ids -> Texts \cup {None}] /\ files \in [Ids -> Texts \cup {None}]
    BY <2>1 DEF DMType
  <2>6. loaded \subseteq Ids /\ {lock, due, up} \subseteq BOOLEAN /\ recalls \in [Texts -> Nat]
    BY <2>1 DEF DMType, HostType
  <2> QED BY <2>2, <2>3, <2>4, <2>5, <2>6 DEF TypeOK
<1> QED BY <1>1, JobsAreKept, PTL

(* wait_for_job finds every job that schedule returned, for any number of  *)
(* threads, jobs and pool workers and with ids taken twice: it is          *)
(* completed or pending (FileMemoryStore.schedule, run).                   *)
THEOREM JobAlwaysAccounted == Spec => []JobAccounted
<1>1. Kept => JobAccounted
  BY DEF Kept, JobInv
<1> QED BY <1>1, JobsAreKept, PTL

(* While the process has not crashed, the lock file is there only with a   *)
(* sweep that will remove it, failed and overlapping sweeps included       *)
(* (acquire_lock, its finally clause).                                     *)
THEOREM LockIsReleased == Spec => []LockReleased
<1>1. Kept => LockReleased
  BY DEF Kept, JobInv, Held, LockReleased
<1> QED BY <1>1, JobsAreKept, PTL
================================================================================
