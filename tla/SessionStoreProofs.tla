------------------------- MODULE SessionStoreProofs -------------------------
(***************************************************************************)
(* Theorems about SessionStore for any set of writers, any entries and any *)
(* bounds: types, and the two facts about the counts in state.json.        *)
(***************************************************************************)
EXTENDS MCSessionStore, SequenceTheorems, TLAPS

(* What SubSeq cuts out of a sequence is a sequence of the length asked    *)
(* for: the suffix helpers (store.py:307-342) write whole entries.         *)
LEMMA Cut ==
    ASSUME NEW S, NEW s \in Seq(S), NEW m \in Nat, NEW n \in Nat, n <= Len(s)
    PROVE  /\ SubSeq(s, m + 1, n) \in Seq(S)
           /\ Len(SubSeq(s, m + 1, n)) = IF m <= n THEN n - m ELSE 0
<1>1. \A i \in (m + 1)..n : s[i] \in S
  BY LenProperties
<1>2. SubSeq(s, m + 1, n) \in Seq(S)
  BY <1>1, SubSeqProperties
<1>3. Len(SubSeq(s, m + 1, n)) = IF m + 1 <= n THEN n - (m + 1) + 1 ELSE 0
  BY <1>1, SubSeqProperties
<1> QED
  BY <1>2, <1>3

(* Adding such a cut to a log keeps it a log and adds its length.          *)
LEMMA Grow ==
    ASSUME NEW S, NEW t \in Seq(S), NEW s \in Seq(S), NEW m \in Nat, NEW n \in Nat,
           m <= n, n <= Len(s)
    PROVE  /\ t \o SubSeq(s, m + 1, n) \in Seq(S)
           /\ Len(t \o SubSeq(s, m + 1, n)) = Len(t) + n - m
<1> DEFINE c == SubSeq(s, m + 1, n)
<1>1. c \in Seq(S) /\ Len(c) = n - m
  BY Cut
<1>2. Len(t) \in Nat
  BY LenProperties
<1> HIDE DEF c
<1>3. t \o c \in Seq(S) /\ Len(t \o c) = Len(t) + Len(c)
  BY <1>1, ConcatProperties
<1>4. Len(t \o c) = Len(t) + n - m
  BY <1>1, <1>2, <1>3
<1> QED
  BY <1>3, <1>4 DEF c

(* A truncated log is a log (the lost backing file).                       *)
LEMMA Shrink ==
    ASSUME NEW S, NEW t \in Seq(S), NEW n \in 0..Len(t)
    PROVE  SubSeq(t, 1, n) \in Seq(S) /\ Len(SubSeq(t, 1, n)) = n
<1>1. Len(t) \in Nat
  BY LenProperties
<1>2. n \in Nat /\ n <= Len(t)
  BY <1>1
<1>3. SubSeq(t, 0 + 1, n) \in Seq(S) /\ Len(SubSeq(t, 0 + 1, n)) = IF 0 <= n THEN n - 0 ELSE 0
  BY <1>2, Cut, 0 \in Nat
<1>4. 0 + 1 = 1
  OBVIOUS
<1> QED
  BY <1>2, <1>3, <1>4
-----------------------------------------------------------------------------
(* Reading the counts (store.py:247-251) moves the writer on and gives it  *)
(* two numbers, or makes it raise.                                         *)
LEMMA CountsRead ==
    ASSUME TypeOK, NEW w \in Writers, NEW next \in Locations, ReadCounts(w, next)
    PROVE  /\ pc' \in [Writers -> Locations]
           /\ countT' \in [Writers -> Nat] /\ countE' \in [Writers -> Nat]
<1>1. PersistedCount(stateT) \in Nat /\ PersistedCount(stateE) \in Nat
  BY DEF TypeOK, PersistedCount
<1>2. CASE stateFile = "torn"
  BY <1>2 DEF TypeOK, ReadCounts, Go, Locations
<1>3. CASE stateFile # "torn"
  BY <1>1, <1>3 DEF TypeOK, ReadCounts, Go, Locations
<1> QED
  BY <1>2, <1>3

(* A dropped record leaves well-typed locals behind.                       *)
LEMMA RecordDropped ==
    ASSUME TypeOK, NEW w \in Writers, DropRecord(w), Go(w, "idle")
    PROVE  /\ pc' \in [Writers -> Locations]
           /\ messages' \in [Writers -> Seq(Entries)] /\ evs' \in [Writers -> Seq(Entries)]
           /\ side' \in [Writers -> Sides]
           /\ countT' \in [Writers -> Nat] /\ countE' \in [Writers -> Nat]
<1>1. <<>> \in Seq(Entries)
  BY EmptySeq
<1> QED
  BY <1>1, StoreAssumption DEF TypeOK, DropRecord, DropCounts, Go, Locations

(* Where an append, or a crash in it, leaves the end of a log.             *)
LEMMA EndKinds ==
    ASSUME NEW end \in {"line", "bare", "torn"}, NEW k, NEW more \in BOOLEAN
    PROVE  /\ Written(end, k) \in {"line", "bare", "torn"}
           /\ \A x \in Cuts(end, k, more) : x \in {"line", "bare", "torn"}
  BY DEF Written, Cuts

(* Every step keeps the shape of every variable, whatever the writers      *)
(* interleave (all of store.py's reads and writes).                        *)
LEMMA TypeStep == TypeOK /\ [Next]_vars => TypeOK'
<1> SUFFICES ASSUME TypeOK, [Next]_vars PROVE TypeOK'
  OBVIOUS
<1> USE StoreAssumption DEF TypeOK, Locations, Go
<1>a. Len(transcript) \in Nat /\ Len(events) \in Nat /\ <<>> \in Seq(Entries)
  BY LenProperties, EmptySeq
<1>b. \A w \in Writers : Len(messages[w]) \in Nat /\ Len(evs[w]) \in Nat
  BY LenProperties
<1>1. ASSUME NEW w \in Writers, Load(w) PROVE TypeOK'
  BY <1>1 DEF Load, LoadState, LoadTranscript, LoadEvents, files, logs, memory, history, stateVars
<1>2. ASSUME NEW w \in Writers, Edit(w) PROVE TypeOK'
  <2>1. ASSUME NEW e \in Entries, AddMessage(w, e) PROVE TypeOK'
    <3>1. Append(messages[w], e) \in Seq(Entries)
      BY AppendProperties
    <3> QED BY <2>1, <3>1 DEF AddMessage, files, logs, history
  <2>2. ASSUME NEW e \in Entries, AddEvent(w, e) PROVE TypeOK'
    <3>1. Append(evs[w], e) \in Seq(Entries)
      BY AppendProperties
    <3> QED BY <2>2, <3>1 DEF AddEvent, files, logs, history
  <2>3. ASSUME NEW s \in Sides, SetSide(w, s) PROVE TypeOK'
    BY <2>3 DEF SetSide, files, logs, history
  <2> QED BY <1>2, <2>1, <2>2, <2>3 DEF Edit
<1>3. ASSUME NEW w \in Writers, Save(w) PROVE TypeOK'
  <2>1. CASE SaveBegin(w)
    BY <2>1, CountsRead DEF SaveBegin, files, logs, history
  <2>2. CASE ValidateTranscript(w)
    BY <2>2, <1>a DEF ValidateTranscript, ValidCount, files, logs, history
  <2>3. CASE ValidateEvents(w)
    BY <2>3, <1>a DEF ValidateEvents, ValidCount, files, logs, history
  <2>4. CASE AppendTranscript(w)
    <3>1. CASE countT[w] > Len(messages[w])
      BY <2>4, <3>1 DEF AppendTranscript, stateVars, memory, history
    <3>2. CASE ~(countT[w] > Len(messages[w]))
      <4>1. Len(messages[w]) \in Nat
        BY LenProperties
      <4>2. transcript \o Suffix(messages[w], countT[w]) \in Seq(Entries)
        BY <3>2, <4>1, Grow DEF Suffix
      <4>3. Written(endT, Len(messages[w]) - countT[w]) \in {"line", "bare", "torn"}
        BY EndKinds, TRUE \in BOOLEAN
      <4> QED BY <2>4, <3>2, <4>2, <4>3 DEF AppendTranscript, stateVars, memory, history
    <3> QED BY <3>1, <3>2
  <2>5. CASE AppendEvents(w)
    <3>1. CASE countE[w] > Len(evs[w])
      BY <2>5, <3>1 DEF AppendEvents, stateVars, memory, history
    <3>2. CASE ~(countE[w] > Len(evs[w]))
      <4>1. Len(evs[w]) \in Nat
        BY LenProperties
      <4>2. events \o Suffix(evs[w], countE[w]) \in Seq(Entries)
        BY <3>2, <4>1, Grow DEF Suffix
      <4>3. Written(endE, Len(evs[w]) - countE[w]) \in {"line", "bare", "torn"}
        BY EndKinds, TRUE \in BOOLEAN
      <4> QED BY <2>5, <3>2, <4>2, <4>3 DEF AppendEvents, stateVars, memory, history
    <3> QED BY <3>1, <3>2
  <2>6. CASE OpenState(w)
    BY <2>6 DEF OpenState, memory, history, logs
  <2>7. CASE WriteState(w)
    BY <2>7, <1>b DEF WriteState, DropCounts, logs
  <2> QED BY <1>3, <2>1, <2>2, <2>3, <2>4, <2>5, <2>6, <2>7 DEF Save
<1>4. ASSUME NEW w \in Writers, SideSave(w) PROVE TypeOK'
  <2>1. CASE SaveStateOnly(w)
    BY <2>1, CountsRead DEF SaveStateOnly, files, logs, history
  <2>2. CASE MarkRestored(w)
    BY <2>2, <1>a DEF MarkRestored, files, logs, history
  <2>3. CASE OpenSide(w)
    BY <2>3 DEF OpenSide, memory, history, logs
  <2>4. CASE WriteSide(w)
    BY <2>4 DEF WriteSide, DropCounts, logs, history
  <2> QED BY <1>4, <2>1, <2>2, <2>3, <2>4 DEF SideSave
<1>5. ASSUME NEW w \in Writers, Fault(w) PROVE TypeOK'
  <2>1. CASE Unwind(w) \/ Crash(w)
    BY <2>1, RecordDropped DEF Unwind, Crash, files, logs, history
  <2>2. CASE CrashInAppendT(w)
    <3>1. PICK n \in countT[w]..Len(messages[w]) :
             /\ transcript' = transcript \o SubSeq(messages[w], countT[w] + 1, n)
             /\ endT' \in Cuts(endT, n - countT[w], n < Len(messages[w]))
      BY <2>2 DEF CrashInAppendT
    <3>2. Len(messages[w]) \in Nat
      BY LenProperties
    <3>3. transcript' \in Seq(Entries)
      BY <3>1, <3>2, Grow
    <3>4. endT' \in {"line", "bare", "torn"}
      BY <3>1, EndKinds, (n < Len(messages[w])) \in BOOLEAN
    <3> QED BY <2>2, <3>3, <3>4, RecordDropped DEF CrashInAppendT, stateVars, history
  <2>3. CASE CrashInAppendE(w)
    <3>1. PICK n \in countE[w]..Len(evs[w]) :
             /\ events' = events \o SubSeq(evs[w], countE[w] + 1, n)
             /\ endE' \in Cuts(endE, n - countE[w], n < Len(evs[w]))
      BY <2>3 DEF CrashInAppendE
    <3>2. Len(evs[w]) \in Nat
      BY LenProperties
    <3>3. events' \in Seq(Entries)
      BY <3>1, <3>2, Grow
    <3>4. endE' \in {"line", "bare", "torn"}
      BY <3>1, EndKinds, (n < Len(evs[w])) \in BOOLEAN
    <3> QED BY <2>3, <3>3, <3>4, RecordDropped DEF CrashInAppendE, stateVars, history
  <2> QED BY <1>5, <2>1, <2>2, <2>3 DEF Fault
<1>6. CASE LoseTranscript
  BY <1>6, Shrink DEF LoseTranscript, stateVars, memory
<1>7. CASE LoseEvents
  BY <1>7, Shrink DEF LoseEvents, stateVars, memory
<1>8. CASE UNCHANGED vars
  BY <1>8 DEF vars, files, logs, memory, history
<1> QED
  BY <1>1, <1>2, <1>3, <1>4, <1>5, <1>6, <1>7, <1>8 DEF Next, Step

(* The store keeps its types (SessionRecord and the three files).          *)
THEOREM TypeCorrect == Spec => []TypeOK
<1>1. Init => TypeOK
  BY StoreAssumption, EmptySeq DEF Init, TypeOK, Locations
<1> QED
  BY <1>1, TypeStep, PTL DEF Spec
-----------------------------------------------------------------------------
(* Where a writer still goes by a transcript count it read or checked,     *)
(* where it has passed the append, and where it has passed the validation. *)
CountingT == {"validateT", "validateE", "appendT", "openSide", "writeSide"}
PastT     == {"appendE", "openState", "writeState"}
PassedT   == {"validateE", "appendT"}

(* The inductive invariant behind the transcript count.  As long as         *)
(* state.json claims no more than the file holds, every count in use and   *)
(* every record past its append is covered by the file.  Once the file has *)
(* been cut below the claim, every count in use is the claim itself, no    *)
(* writer is past its append, and a record that passed the validation is   *)
(* no longer than the file: its append will be refused.                    *)
TCovered ==
    \A w \in Writers :
        /\ pc[w] \in CountingT => countT[w] <= Len(transcript)
        /\ pc[w] \in PastT => Len(messages[w]) <= Len(transcript)

TDamaged ==
    \A w \in Writers :
        /\ pc[w] \in CountingT => countT[w] = stateT
        /\ pc[w] \notin PastT
        /\ pc[w] \in PassedT => Len(messages[w]) <= Len(transcript)

CountTInv ==
    /\ stateFile = "absent" => stateT = 0
    /\ losses = 0 => stateT <= Len(transcript)
    /\ stateT <= Len(transcript) => TCovered
    /\ stateT > Len(transcript) => TDamaged

(* Every step keeps that invariant, and a file cut below the claim does    *)
(* not grow (save_session, store.py:81-108, with a loss between saves).    *)
LEMMA CountTStep ==
    TypeOK /\ CountTInv /\ [Next]_vars =>
        /\ CountTInv'
        /\ stateT > Len(transcript) => Len(transcript') <= Len(transcript)
<1> SUFFICES ASSUME TypeOK, CountTInv, [Next]_vars
             PROVE  /\ CountTInv'
                    /\ stateT > Len(transcript) => Len(transcript') <= Len(transcript)
  OBVIOUS
<1> DEFINE Goal == /\ CountTInv'
                   /\ stateT > Len(transcript) => Len(transcript') <= Len(transcript)
<1>a. Len(transcript) \in Nat /\ stateT \in Nat /\ losses \in Nat
  BY LenProperties DEF TypeOK
<1>b. \A w \in Writers : Len(messages[w]) \in Nat /\ countT[w] \in Nat
  BY LenProperties DEF TypeOK
<1>c. pc \in [Writers -> Locations] /\ countT \in [Writers -> Nat]
        /\ messages \in [Writers -> Seq(Entries)]
  BY DEF TypeOK
<1> DEFINE Others(w) == \A v \in Writers : v # w =>
                 pc'[v] = pc[v] /\ countT'[v] = countT[v] /\ messages'[v] = messages[v]
<1> USE <1>a, <1>b, <1>c
        DEF CountTInv, TCovered, TDamaged, CountingT, PastT, PassedT
<1>1. ASSUME NEW w \in Writers, Load(w) PROVE Goal
  <2>1. CASE LoadState(w)
    BY <2>1 DEF LoadState, Go, files, logs, history
  <2>2. CASE LoadTranscript(w)
    BY <2>2 DEF LoadTranscript, Go, files, logs, history
  <2>3. CASE LoadEvents(w)
    BY <2>3 DEF LoadEvents, Go, files, logs, history
  <2> QED BY <1>1, <2>1, <2>2, <2>3 DEF Load
<1>2. ASSUME NEW w \in Writers, Edit(w) PROVE Goal
  <2>1. ASSUME NEW e \in Entries, AddMessage(w, e) PROVE Goal
    BY <2>1 DEF AddMessage, files, logs, history
  <2>2. ASSUME NEW e \in Entries, AddEvent(w, e) PROVE Goal
    BY <2>2 DEF AddEvent, files, logs, history
  <2>3. ASSUME NEW s \in Sides, SetSide(w, s) PROVE Goal
    BY <2>3 DEF SetSide, files, logs, history
  <2> QED BY <1>2, <2>1, <2>2, <2>3 DEF Edit
<1>3. ASSUME NEW w \in Writers, Save(w) PROVE Goal
  <2>1. CASE SaveBegin(w)
    <3>1. CASE stateFile = "torn"
      BY <2>1, <3>1 DEF SaveBegin, ReadCounts, Go, files, logs, history
    <3>2. CASE stateFile # "torn"
      <4>1. PersistedCount(stateT) = stateT
        BY DEF PersistedCount
      <4> QED BY <2>1, <3>2, <4>1 DEF SaveBegin, ReadCounts, Go, files, logs, history
    <3> QED BY <3>1, <3>2
  <2>2. CASE ValidateTranscript(w)
    <3>1. CASE countT[w] > Len(transcript)
      BY <2>2, <3>1 DEF ValidateTranscript, Valid, ValidCount, Go, files, logs, history
    <3>2. CASE ~(countT[w] > Len(transcript))
      BY <2>2, <3>2 DEF ValidateTranscript, Valid, ValidCount, Go, files, logs, history
    <3> QED BY <3>1, <3>2
  <2>3. CASE ValidateEvents(w)
    BY <2>3 DEF ValidateEvents, Go, files, logs, history
  <2>4. CASE AppendTranscript(w)
    <3>1. CASE countT[w] > Len(messages[w])
      BY <2>4, <3>1 DEF AppendTranscript, Go, stateVars, memory, history
    <3>2. CASE ~(countT[w] > Len(messages[w]))
      <4>1. Len(transcript \o Suffix(messages[w], countT[w])) = Len(transcript) + Len(messages[w]) - countT[w]
        BY <3>2, Grow DEF Suffix, TypeOK
      <4>2. transcript' = transcript \o Suffix(messages[w], countT[w])
        BY <2>4, <3>2 DEF AppendTranscript
      <4>3. Len(transcript') = Len(transcript) + Len(messages[w]) - countT[w]
        BY <4>1, <4>2
      <4>4. stateT <= Len(transcript)
        BY <2>4, <3>2 DEF AppendTranscript
      <4>5. Others(w) /\ pc'[w] = "appendE" /\ messages'[w] = messages[w] /\ countT'[w] = countT[w]
        BY <2>4, <3>2 DEF AppendTranscript, Go, memory
      <4>6. UNCHANGED <<stateFile, stateT, losses>>
        BY <2>4 DEF AppendTranscript, stateVars, history
      <4>7. Len(transcript') >= Len(transcript) /\ Len(transcript') >= Len(messages[w]) /\ Len(transcript') \in Nat
        BY <2>4, <3>2, <4>3, <4>4 DEF AppendTranscript
      <4> QED BY <4>4, <4>5, <4>6, <4>7
    <3> QED BY <3>1, <3>2
  <2>5. CASE AppendEvents(w)
    BY <2>5 DEF AppendEvents, Go, stateVars, memory, history
  <2>6. CASE OpenState(w)
    BY <2>6 DEF OpenState, Go, memory, history, logs
  <2>7. CASE WriteState(w)
    BY <2>7 DEF WriteState, DropCounts, logs, Go
  <2> QED BY <1>3, <2>1, <2>2, <2>3, <2>4, <2>5, <2>6, <2>7 DEF Save
<1>4. ASSUME NEW w \in Writers, SideSave(w) PROVE Goal
  <2>0. CASE MarkRestored(w)
    BY <2>0 DEF MarkRestored, Go, files, logs, history
  <2>1. CASE SaveStateOnly(w)
    <3>1. CASE stateFile = "torn"
      BY <2>1, <3>1 DEF SaveStateOnly, ReadCounts, Go, files, logs, history
    <3>2. CASE stateFile # "torn"
      <4>1. PersistedCount(stateT) = stateT
        BY DEF PersistedCount
      <4> QED BY <2>1, <3>2, <4>1 DEF SaveStateOnly, ReadCounts, Go, files, logs, history
    <3> QED BY <3>1, <3>2
  <2>2. CASE OpenSide(w)
    BY <2>2 DEF OpenSide, Go, memory, history, logs
  <2>3. CASE WriteSide(w)
    BY <2>3 DEF WriteSide, DropCounts, logs, Go, history
  <2> QED BY <1>4, <2>0, <2>1, <2>2, <2>3 DEF SideSave
<1>5. ASSUME NEW w \in Writers, Fault(w) PROVE Goal
  <2>1. CASE Unwind(w) \/ Crash(w)
    <3>1. Others(w) /\ pc'[w] = "idle"
      BY <2>1 DEF Unwind, Crash, DropRecord, DropCounts, Go
    <3>2. UNCHANGED <<transcript, stateFile, stateT, losses>>
      BY <2>1 DEF Unwind, Crash, files, logs, history
    <3>3. \A v \in Writers :
             pc'[v] = "idle" \/ (pc'[v] = pc[v] /\ countT'[v] = countT[v] /\ messages'[v] = messages[v])
      <4> TAKE v \in Writers
      <4>1. CASE v = w  BY <3>1, <4>1
      <4>2. CASE v # w  BY <3>1, <4>2
      <4> QED BY <4>1, <4>2
    <3>4. /\ TCovered => TCovered'
          /\ TDamaged => TDamaged'
      BY <3>2, <3>3
    <3> QED BY <3>2, <3>4
  <2>2. CASE CrashInAppendT(w)
    <3>1. PICK n \in countT[w]..Len(messages[w]) :
             transcript' = transcript \o SubSeq(messages[w], countT[w] + 1, n)
      BY <2>2 DEF CrashInAppendT
    <3>2. Len(transcript') = Len(transcript) + n - countT[w]
      BY <3>1, Grow DEF TypeOK
    <3>3. stateT <= Len(transcript)
      BY <2>2, <3>1 DEF CrashInAppendT
    <3>4. Others(w) /\ pc'[w] = "idle"
      BY <2>2 DEF CrashInAppendT, DropRecord, DropCounts, Go
    <3>5. UNCHANGED <<stateFile, stateT, losses>>
      BY <2>2 DEF CrashInAppendT, stateVars, history
    <3>6. Len(transcript') >= Len(transcript) /\ Len(transcript') \in Nat
      BY <3>1, <3>2
    <3>7. \A v \in Writers :
             pc'[v] = "idle" \/ (pc'[v] = pc[v] /\ countT'[v] = countT[v] /\ messages'[v] = messages[v])
      <4> TAKE v \in Writers
      <4>1. CASE v = w  BY <3>4, <4>1
      <4>2. CASE v # w  BY <3>4, <4>2
      <4> QED BY <4>1, <4>2
    <3>8. ASSUME TCovered PROVE TCovered'
      <4> SUFFICES ASSUME NEW v \in Writers
                   PROVE  /\ pc'[v] \in CountingT => countT'[v] <= Len(transcript')
                          /\ pc'[v] \in PastT => Len(messages'[v]) <= Len(transcript')
        OBVIOUS
      <4>1. CASE pc'[v] = "idle"
        BY <4>1
      <4>2. CASE pc'[v] = pc[v] /\ countT'[v] = countT[v] /\ messages'[v] = messages[v]
        BY <3>6, <3>8, <4>2
      <4> QED BY <3>7, <4>1, <4>2
    <3> QED BY <3>3, <3>5, <3>6, <3>8
  <2>3. CASE CrashInAppendE(w)
    BY <2>3 DEF CrashInAppendE, DropRecord, DropCounts, Go, stateVars, history
  <2> QED BY <1>5, <2>1, <2>2, <2>3 DEF Fault
<1>6. CASE LoseTranscript
  <2>1. Len(transcript') < Len(transcript)
    BY <1>6, Shrink DEF LoseTranscript, TypeOK
  <2>2. Len(transcript') \in Nat
    BY <1>6, Shrink DEF LoseTranscript, TypeOK
  <2>3. \A w \in Writers : pc[w] \in {"idle", "ready"}
    BY <1>6 DEF LoseTranscript, Quiet
  <2>4. losses' # 0 /\ stateFile' = stateFile /\ stateT' = stateT /\ pc' = pc
    BY <1>6 DEF LoseTranscript, stateVars
  <2>5. TCovered' /\ TDamaged'
    BY <2>3, <2>4
  <2> QED BY <2>1, <2>4, <2>5
<1>7. CASE LoseEvents
  BY <1>7 DEF LoseEvents, stateVars, memory
<1>8. CASE UNCHANGED vars
  BY <1>8 DEF vars, files, logs, memory, history
<1> QED
  BY <1>1, <1>2, <1>3, <1>4, <1>5, <1>6, <1>7, <1>8 DEF Next, Step

-----------------------------------------------------------------------------
(* Where a writer still goes by an event count it read or checked,         *)
(* where it has passed the append, and where it has passed the validation. *)
CountingE == {"validateT", "validateE", "appendT", "appendE", "openSide", "writeSide"}
PastE     == {"openState", "writeState"}
PassedE   == {"appendT", "appendE"}

(* The inductive invariant behind the event count.  As long as              *)
(* state.json claims no more than the file holds, every count in use and   *)
(* every record past its append is covered by the file.  Once the file has *)
(* been cut below the claim, every count in use is the claim itself, no    *)
(* writer is past its append, and a record that passed the validation is   *)
(* no longer than the file: its append will be refused.                    *)
ECovered ==
    \A w \in Writers :
        /\ pc[w] \in CountingE => countE[w] <= Len(events)
        /\ pc[w] \in PastE => Len(evs[w]) <= Len(events)

EDamaged ==
    \A w \in Writers :
        /\ pc[w] \in CountingE => countE[w] = stateE
        /\ pc[w] \notin PastE
        /\ pc[w] \in PassedE => Len(evs[w]) <= Len(events)

CountEInv ==
    /\ stateFile = "absent" => stateE = 0
    /\ losses = 0 => stateE <= Len(events)
    /\ stateE <= Len(events) => ECovered
    /\ stateE > Len(events) => EDamaged

(* Every step keeps that invariant, and a file cut below the claim does    *)
(* not grow (save_session, store.py:81-108, with a loss between saves).    *)
LEMMA CountEStep ==
    TypeOK /\ CountEInv /\ [Next]_vars =>
        /\ CountEInv'
        /\ stateE > Len(events) => Len(events') <= Len(events)
<1> SUFFICES ASSUME TypeOK, CountEInv, [Next]_vars
             PROVE  /\ CountEInv'
                    /\ stateE > Len(events) => Len(events') <= Len(events)
  OBVIOUS
<1> DEFINE Goal == /\ CountEInv'
                   /\ stateE > Len(events) => Len(events') <= Len(events)
<1>a. Len(events) \in Nat /\ stateE \in Nat /\ losses \in Nat
  BY LenProperties DEF TypeOK
<1>b. \A w \in Writers : Len(evs[w]) \in Nat /\ countE[w] \in Nat
  BY LenProperties DEF TypeOK
<1>c. pc \in [Writers -> Locations] /\ countE \in [Writers -> Nat]
        /\ evs \in [Writers -> Seq(Entries)]
  BY DEF TypeOK
<1> DEFINE Others(w) == \A v \in Writers : v # w =>
                 pc'[v] = pc[v] /\ countE'[v] = countE[v] /\ evs'[v] = evs[v]
<1> USE <1>a, <1>b, <1>c
        DEF CountEInv, ECovered, EDamaged, CountingE, PastE, PassedE
<1>1. ASSUME NEW w \in Writers, Load(w) PROVE Goal
  <2>1. CASE LoadState(w)
    BY <2>1 DEF LoadState, Go, files, logs, history
  <2>2. CASE LoadTranscript(w)
    BY <2>2 DEF LoadTranscript, Go, files, logs, history
  <2>3. CASE LoadEvents(w)
    BY <2>3 DEF LoadEvents, Go, files, logs, history
  <2> QED BY <1>1, <2>1, <2>2, <2>3 DEF Load
<1>2. ASSUME NEW w \in Writers, Edit(w) PROVE Goal
  <2>1. ASSUME NEW e \in Entries, AddMessage(w, e) PROVE Goal
    BY <2>1 DEF AddMessage, files, logs, history
  <2>2. ASSUME NEW e \in Entries, AddEvent(w, e) PROVE Goal
    BY <2>2 DEF AddEvent, files, logs, history
  <2>3. ASSUME NEW s \in Sides, SetSide(w, s) PROVE Goal
    BY <2>3 DEF SetSide, files, logs, history
  <2> QED BY <1>2, <2>1, <2>2, <2>3 DEF Edit
<1>3. ASSUME NEW w \in Writers, Save(w) PROVE Goal
  <2>1. CASE SaveBegin(w)
    <3>1. CASE stateFile = "torn"
      BY <2>1, <3>1 DEF SaveBegin, ReadCounts, Go, files, logs, history
    <3>2. CASE stateFile # "torn"
      <4>1. PersistedCount(stateE) = stateE
        BY DEF PersistedCount
      <4> QED BY <2>1, <3>2, <4>1 DEF SaveBegin, ReadCounts, Go, files, logs, history
    <3> QED BY <3>1, <3>2
  <2>2. CASE ValidateTranscript(w)
    BY <2>2 DEF ValidateTranscript, Go, files, logs, history
  <2>3. CASE ValidateEvents(w)
    <3>1. CASE countE[w] > Len(events)
      BY <2>3, <3>1 DEF ValidateEvents, Valid, ValidCount, Go, files, logs, history
    <3>2. CASE ~(countE[w] > Len(events))
      BY <2>3, <3>2 DEF ValidateEvents, Valid, ValidCount, Go, files, logs, history
    <3> QED BY <3>1, <3>2
  <2>4. CASE AppendTranscript(w)
    BY <2>4 DEF AppendTranscript, Go, stateVars, memory, history
  <2>5. CASE AppendEvents(w)
    <3>1. CASE countE[w] > Len(evs[w])
      BY <2>5, <3>1 DEF AppendEvents, Go, stateVars, memory, history
    <3>2. CASE ~(countE[w] > Len(evs[w]))
      <4>1. Len(events \o Suffix(evs[w], countE[w])) = Len(events) + Len(evs[w]) - countE[w]
        BY <3>2, Grow DEF Suffix, TypeOK
      <4>2. events' = events \o Suffix(evs[w], countE[w])
        BY <2>5, <3>2 DEF AppendEvents
      <4>3. Len(events') = Len(events) + Len(evs[w]) - countE[w]
        BY <4>1, <4>2
      <4>4. stateE <= Len(events)
        BY <2>5, <3>2 DEF AppendEvents
      <4>5. Others(w) /\ pc'[w] = "openState" /\ evs'[w] = evs[w] /\ countE'[w] = countE[w]
        BY <2>5, <3>2 DEF AppendEvents, Go, memory
      <4>6. UNCHANGED <<stateFile, stateE, losses>>
        BY <2>5 DEF AppendEvents, stateVars, history
      <4>7. Len(events') >= Len(events) /\ Len(events') >= Len(evs[w]) /\ Len(events') \in Nat
        BY <2>5, <3>2, <4>3, <4>4 DEF AppendEvents
      <4> QED BY <4>4, <4>5, <4>6, <4>7
    <3> QED BY <3>1, <3>2
  <2>6. CASE OpenState(w)
    BY <2>6 DEF OpenState, Go, memory, history, logs
  <2>7. CASE WriteState(w)
    BY <2>7 DEF WriteState, DropCounts, logs, Go
  <2> QED BY <1>3, <2>1, <2>2, <2>3, <2>4, <2>5, <2>6, <2>7 DEF Save
<1>4. ASSUME NEW w \in Writers, SideSave(w) PROVE Goal
  <2>0. CASE MarkRestored(w)
    BY <2>0 DEF MarkRestored, Go, files, logs, history
  <2>1. CASE SaveStateOnly(w)
    <3>1. CASE stateFile = "torn"
      BY <2>1, <3>1 DEF SaveStateOnly, ReadCounts, Go, files, logs, history
    <3>2. CASE stateFile # "torn"
      <4>1. PersistedCount(stateE) = stateE
        BY DEF PersistedCount
      <4> QED BY <2>1, <3>2, <4>1 DEF SaveStateOnly, ReadCounts, Go, files, logs, history
    <3> QED BY <3>1, <3>2
  <2>2. CASE OpenSide(w)
    BY <2>2 DEF OpenSide, Go, memory, history, logs
  <2>3. CASE WriteSide(w)
    BY <2>3 DEF WriteSide, DropCounts, logs, Go, history
  <2> QED BY <1>4, <2>0, <2>1, <2>2, <2>3 DEF SideSave
<1>5. ASSUME NEW w \in Writers, Fault(w) PROVE Goal
  <2>1. CASE Unwind(w) \/ Crash(w)
    <3>1. Others(w) /\ pc'[w] = "idle"
      BY <2>1 DEF Unwind, Crash, DropRecord, DropCounts, Go
    <3>2. UNCHANGED <<events, stateFile, stateE, losses>>
      BY <2>1 DEF Unwind, Crash, files, logs, history
    <3>3. \A v \in Writers :
             pc'[v] = "idle" \/ (pc'[v] = pc[v] /\ countE'[v] = countE[v] /\ evs'[v] = evs[v])
      <4> TAKE v \in Writers
      <4>1. CASE v = w  BY <3>1, <4>1
      <4>2. CASE v # w  BY <3>1, <4>2
      <4> QED BY <4>1, <4>2
    <3>4. /\ ECovered => ECovered'
          /\ EDamaged => EDamaged'
      BY <3>2, <3>3
    <3> QED BY <3>2, <3>4
  <2>2. CASE CrashInAppendT(w)
    BY <2>2 DEF CrashInAppendT, DropRecord, DropCounts, Go, stateVars, history
  <2>3. CASE CrashInAppendE(w)
    <3>1. PICK n \in countE[w]..Len(evs[w]) :
             events' = events \o SubSeq(evs[w], countE[w] + 1, n)
      BY <2>3 DEF CrashInAppendE
    <3>2. Len(events') = Len(events) + n - countE[w]
      BY <3>1, Grow DEF TypeOK
    <3>3. stateE <= Len(events)
      BY <2>3, <3>1 DEF CrashInAppendE
    <3>4. Others(w) /\ pc'[w] = "idle"
      BY <2>3 DEF CrashInAppendE, DropRecord, DropCounts, Go
    <3>5. UNCHANGED <<stateFile, stateE, losses>>
      BY <2>3 DEF CrashInAppendE, stateVars, history
    <3>6. Len(events') >= Len(events) /\ Len(events') \in Nat
      BY <3>1, <3>2
    <3>7. \A v \in Writers :
             pc'[v] = "idle" \/ (pc'[v] = pc[v] /\ countE'[v] = countE[v] /\ evs'[v] = evs[v])
      <4> TAKE v \in Writers
      <4>1. CASE v = w  BY <3>4, <4>1
      <4>2. CASE v # w  BY <3>4, <4>2
      <4> QED BY <4>1, <4>2
    <3>8. ASSUME ECovered PROVE ECovered'
      <4> SUFFICES ASSUME NEW v \in Writers
                   PROVE  /\ pc'[v] \in CountingE => countE'[v] <= Len(events')
                          /\ pc'[v] \in PastE => Len(evs'[v]) <= Len(events')
        OBVIOUS
      <4>1. CASE pc'[v] = "idle"
        BY <4>1
      <4>2. CASE pc'[v] = pc[v] /\ countE'[v] = countE[v] /\ evs'[v] = evs[v]
        BY <3>6, <3>8, <4>2
      <4> QED BY <3>7, <4>1, <4>2
    <3> QED BY <3>3, <3>5, <3>6, <3>8
  <2> QED BY <1>5, <2>1, <2>2, <2>3 DEF Fault
<1>6. CASE LoseTranscript
  BY <1>6 DEF LoseTranscript, stateVars, memory
<1>7. CASE LoseEvents
  <2>1. Len(events') < Len(events)
    BY <1>7, Shrink DEF LoseEvents, TypeOK
  <2>2. Len(events') \in Nat
    BY <1>7, Shrink DEF LoseEvents, TypeOK
  <2>3. \A w \in Writers : pc[w] \in {"idle", "ready"}
    BY <1>7 DEF LoseEvents, Quiet
  <2>4. losses' # 0 /\ stateFile' = stateFile /\ stateE' = stateE /\ pc' = pc
    BY <1>7 DEF LoseEvents, stateVars
  <2>5. ECovered' /\ EDamaged'
    BY <2>3, <2>4
  <2> QED BY <2>1, <2>4, <2>5
<1>8. CASE UNCHANGED vars
  BY <1>8 DEF vars, files, logs, memory, history
<1> QED
  BY <1>1, <1>2, <1>3, <1>4, <1>5, <1>6, <1>7, <1>8 DEF Next, Step
-----------------------------------------------------------------------------
(* Types and both count invariants hold in every state.                    *)
LEMMA CountsHold == Spec => [](TypeOK /\ CountTInv /\ CountEInv)
<1>1. Init => TypeOK /\ CountTInv /\ CountEInv
  <2> SUFFICES ASSUME Init PROVE TypeOK /\ CountTInv /\ CountEInv
    OBVIOUS
  <2>1. TypeOK
    BY StoreAssumption, EmptySeq DEF Init, TypeOK, Locations
  <2>2. Len(transcript) = 0 /\ Len(events) = 0
    BY EmptySeq DEF Init
  <2>3. CountTInv
    BY <2>2 DEF Init, CountTInv, TCovered, TDamaged, CountingT, PastT, PassedT
  <2>4. CountEInv
    BY <2>2 DEF Init, CountEInv, ECovered, EDamaged, CountingE, PastE, PassedE
  <2> QED BY <2>1, <2>3, <2>4
<1> QED
  BY <1>1, TypeStep, CountTStep, CountEStep, PTL DEF Spec

(* For any number of writers and any interleaving, state.json never claims *)
(* more than the logs hold, unless a backing file was lost from outside    *)
(* (save_session writes the counts last, store.py:81-108).                 *)
THEOREM StateStaysBehindLogs == Spec => []StateBehindLogs
<1>1. CountTInv /\ CountEInv => StateBehindLogs
  BY DEF CountTInv, CountEInv, StateBehindLogs
<1> QED
  BY <1>1, CountsHold, PTL

(* For any number of writers, a log that was cut below what state.json     *)
(* records never grows again (store.py:253-287 and 307-342).               *)
THEOREM LostLogIsNotExtended == Spec => NoAppendAfterLoss
<1>1. TypeOK /\ CountTInv /\ CountEInv /\ [Next]_vars =>
        [ /\ stateT > Len(transcript) => Len(transcript') <= Len(transcript)
          /\ stateE > Len(events) => Len(events') <= Len(events) ]_vars
  BY CountTStep, CountEStep
<1> QED
  BY <1>1, CountsHold, PTL DEF Spec, NoAppendAfterLoss
-----------------------------------------------------------------------------
(* What a record that extends a log is: as long at least, and equal to the *)
(* log position by position (the prefix comparison of store.py:253-287).   *)
LEMMA Prefix ==
    ASSUME NEW S, NEW s \in Seq(S), NEW t \in Seq(S)
    PROVE  Extends(s, t) <=> Len(t) <= Len(s) /\ \A i \in 1..Len(t) : s[i] = t[i]
<1>a. Len(s) \in Nat /\ Len(t) \in Nat /\ (\A i \in 1..Len(s) : s[i] \in S)
  BY LenProperties, ElementOfSeq
<1>1. CASE Len(t) <= Len(s)
  <2> DEFINE c == SubSeq(s, 1, Len(t))
  <2>1. c \in Seq(S) /\ Len(c) = Len(t)
    BY <1>a, <1>1, Shrink
  <2>2. \A i \in 1..Len(t) : c[i] = s[i]
    <3>1. \A i \in 1..Len(t) : s[i] \in S
      BY <1>a, <1>1
    <3>2. \A i \in 1..(Len(t) - 1 + 1) : c[i] = s[1 + i - 1]
      BY <1>a, <3>1, SubSeqProperties
    <3> QED BY <1>a, <3>2
  <2> HIDE DEF c
  <2>3. (\A i \in 1..Len(t) : c[i] = t[i]) => c = t
    BY <2>1, SeqEqual
  <2>4. c = t <=> \A i \in 1..Len(t) : s[i] = t[i]
    BY <2>2, <2>3
  <2> QED BY <1>1, <2>4 DEF Extends, c
<1>2. CASE ~(Len(t) <= Len(s))
  BY <1>2 DEF Extends
<1> QED BY <1>1, <1>2

(* A record just read from a log, or just appended to it, extends it.      *)
LEMMA SelfExtends ==
    ASSUME NEW S, NEW s \in Seq(S)
    PROVE  Extends(s, s)
<1>1. Len(s) \in Nat
  BY LenProperties
<1> QED BY <1>1, Prefix

(* It still does when its owner adds an entry.                             *)
LEMMA EditExtends ==
    ASSUME NEW S, NEW s \in Seq(S), NEW t \in Seq(S), NEW e \in S, Extends(s, t)
    PROVE  Extends(Append(s, e), t)
<1>a. Len(s) \in Nat /\ Len(t) \in Nat
  BY LenProperties
<1> DEFINE a == Append(s, e)
<1>1. a \in Seq(S) /\ Len(a) = Len(s) + 1 /\ (\A i \in 1..Len(s) : a[i] = s[i])
  BY AppendProperties
<1>2. Len(t) <= Len(s) /\ \A i \in 1..Len(t) : s[i] = t[i]
  BY Prefix
<1> HIDE DEF a
<1>3. Len(t) <= Len(a) /\ \A i \in 1..Len(t) : a[i] = t[i]
  BY <1>a, <1>1, <1>2
<1>4. Extends(a, t)
  BY <1>1, <1>3, Prefix
<1> QED BY <1>4 DEF a

(* Whatever is added at the end of a log, the log is a prefix of the       *)
(* result: a whole suffix, or the part that a crash let through.           *)
LEMMA FlushExtends ==
    ASSUME NEW S, NEW t \in Seq(S), NEW c \in Seq(S)
    PROVE  Extends(t \o c, t)
<1>a. Len(t) \in Nat /\ Len(c) \in Nat
  BY LenProperties
<1> DEFINE r == t \o c
<1>1. r \in Seq(S) /\ Len(r) = Len(t) + Len(c)
  BY ConcatProperties
<1>2. \A i \in 1..(Len(t) + Len(c)) : r[i] = IF i <= Len(t) THEN t[i] ELSE c[i - Len(t)]
  BY ConcatProperties
<1> HIDE DEF r
<1>3. Len(t) <= Len(r) /\ \A i \in 1..Len(t) : r[i] = t[i]
  BY <1>a, <1>1, <1>2
<1>4. Extends(r, t)
  BY <1>1, <1>3, Prefix
<1> QED BY <1>4 DEF r

(* The suffix helpers: a log and the part of a record beyond it are the    *)
(* record (store.py:307-342).                                              *)
LEMMA SuffixCompletes ==
    ASSUME NEW S, NEW s \in Seq(S), NEW t \in Seq(S), Extends(s, t)
    PROVE  /\ Suffix(s, Len(t)) \in Seq(S)
           /\ t \o Suffix(s, Len(t)) = s
<1>a. Len(s) \in Nat /\ Len(t) \in Nat /\ (\A i \in 1..Len(s) : s[i] \in S)
  BY LenProperties, ElementOfSeq
<1>b. Len(t) <= Len(s) /\ \A i \in 1..Len(t) : s[i] = t[i]
  BY Prefix
<1> DEFINE c == Suffix(s, Len(t))
<1>1. c \in Seq(S) /\ Len(c) = Len(s) - Len(t)
  BY <1>a, <1>b, Cut DEF Suffix
<1>2. \A i \in 1..(Len(s) - Len(t)) : c[i] = s[Len(t) + i]
  <2>1. \A i \in (Len(t) + 1)..Len(s) : s[i] \in S
    BY <1>a
  <2>2. \A i \in 1..(Len(s) - (Len(t) + 1) + 1) : c[i] = s[Len(t) + 1 + i - 1]
    BY <1>a, <2>1, SubSeqProperties DEF Suffix
  <2> QED BY <1>a, <2>2
<1> HIDE DEF c
<1> DEFINE r == t \o c
<1>3. r \in Seq(S) /\ Len(r) = Len(s)
  BY <1>a, <1>1, ConcatProperties
<1>4. \A i \in 1..(Len(t) + Len(c)) : r[i] = IF i <= Len(t) THEN t[i] ELSE c[i - Len(t)]
  BY <1>1, ConcatProperties
<1> HIDE DEF r
<1>5. ASSUME NEW i \in 1..Len(s) PROVE r[i] = s[i]
  <2>1. CASE i <= Len(t)
    BY <1>a, <1>b, <1>1, <1>4, <2>1
  <2>2. CASE ~(i <= Len(t))
    <3>1. i - Len(t) \in 1..(Len(s) - Len(t)) /\ Len(t) + (i - Len(t)) = i
      BY <1>a, <2>2
    <3>2. c[i - Len(t)] = s[i]
      BY <1>2, <3>1
    <3>3. i \in 1..(Len(t) + Len(c))
      BY <1>a, <1>1
    <3> QED BY <1>4, <2>2, <3>2, <3>3
  <2> QED BY <2>1, <2>2
<1>6. r = s
  BY <1>3, <1>5, SeqEqual
<1> QED BY <1>1, <1>6 DEF c, r
-----------------------------------------------------------------------------
(* A writer that is alone (setting "alone" of MCSessionStore).             *)

(* Past the append of a log the record is the log; before it the validated *)
(* count is the length of the log, which the record extends.  A call that  *)
(* raises has met a state.json that a crash left empty.                    *)
LoneT ==
    /\ pc[Owner] \notin {"idle", "raised", "loadT"} => Extends(messages[Owner], transcript)
    /\ pc[Owner] \in PassedT => countT[Owner] = Len(transcript)
    /\ pc[Owner] \in PastT => messages[Owner] = transcript

LoneE ==
    /\ pc[Owner] \notin {"idle", "raised", "loadT", "loadE"} => Extends(evs[Owner], events)
    /\ pc[Owner] \in PassedE => countE[Owner] = Len(events)
    /\ pc[Owner] \in PastE => evs[Owner] = events

(* What a crash can do to the files: it catches state.json emptied, or     *)
(* cuts a line of a log.                                                   *)
Damaged == stateFile = "torn" \/ endT = "torn" \/ endE = "torn"

Lone ==
    /\ losses = 0
    /\ \A w \in Writers \ {Owner} : pc[w] = "idle"
    /\ LoneT /\ LoneE
    /\ pc[Owner] = "raised" => Damaged

(* What AppendOnlyLog allows a log and its acknowledged part to do.        *)
Durable(log, logNext, acked, ackedNext) ==
    \/ Extends(logNext, log) /\ ackedNext = acked
    \/ ackedNext = log /\ logNext = log

(* The transcript under a step of the lone writer: the facts above are kept, and the  *)
(* log only grows at its end, or a save that returns acknowledges all of it.*)
LEMMA LoneTStep ==
    ASSUME TypeOK, TypeOK', CountTInv, Lone, Step(Owner)
    PROVE  LoneT' /\ Durable(transcript, transcript', ackedT, ackedT')
<1> DEFINE Goal == LoneT' /\ Durable(transcript, transcript', ackedT, ackedT')
<1> USE OwnerAssumption DEF Lone, LoneT, PassedT, PastT, PassedE, PastE
<1>a. /\ transcript \in Seq(Entries) /\ messages[Owner] \in Seq(Entries)
      /\ Len(transcript) \in Nat /\ Len(messages[Owner]) \in Nat /\ countT[Owner] \in Nat
      /\ pc \in [Writers -> Locations] /\ messages \in [Writers -> Seq(Entries)]
      /\ countT \in [Writers -> Nat]
  BY LenProperties DEF TypeOK
<1>b. Extends(transcript, transcript)
  BY <1>a, SelfExtends
<1>c. ASSUME UNCHANGED <<transcript, ackedT>>
      PROVE  Durable(transcript, transcript', ackedT, ackedT')
  BY <1>b, <1>c DEF Durable
<1>1. CASE Load(Owner)
  <2>1. CASE LoadState(Owner)
    BY <1>a, <1>c, <2>1 DEF LoadState, Go, files, logs, history, Locations
  <2>2. CASE LoadTranscript(Owner)
    BY <1>a, <1>b, <1>c, <2>2 DEF LoadTranscript, Go, files, logs, history
  <2>3. CASE LoadEvents(Owner)
    BY <1>a, <1>b, <1>c, <2>3 DEF LoadEvents, Go, files, logs, history
  <2> QED BY <1>1, <2>1, <2>2, <2>3 DEF Load
<1>2. CASE Edit(Owner)
  <2>1. ASSUME NEW e \in Entries, AddMessage(Owner, e) PROVE Goal
    <3>1. Extends(messages[Owner], transcript) /\ pc[Owner] = "ready"
      BY <2>1 DEF AddMessage
    <3>2. Extends(Append(messages[Owner], e), transcript)
      BY <1>a, <3>1, EditExtends
    <3>3. messages'[Owner] = Append(messages[Owner], e) /\ pc' = pc /\ UNCHANGED <<transcript, ackedT>>
      BY <1>a, <2>1 DEF AddMessage, files, logs, history
    <3> QED BY <1>c, <3>1, <3>2, <3>3
  <2>2. ASSUME NEW e \in Entries, AddEvent(Owner, e) PROVE Goal
    BY <1>a, <1>c, <2>2 DEF AddEvent, files, logs, history
  <2>3. ASSUME NEW s \in Sides, SetSide(Owner, s) PROVE Goal
    BY <1>a, <1>c, <2>3 DEF SetSide, files, logs, history
  <2> QED BY <1>2, <2>1, <2>2, <2>3 DEF Edit
<1>3. CASE Save(Owner)
  <2>1. CASE SaveBegin(Owner)
    BY <1>a, <1>c, <2>1 DEF SaveBegin, ReadCounts, Go, files, logs, history
  <2>2. CASE ValidateTranscript(Owner)
    <3>1. Extends(messages[Owner], transcript) /\ pc[Owner] = "validateT"
      BY <2>2 DEF ValidateTranscript
    <3>2. countT[Owner] <= Len(transcript)
      BY <1>a, <3>1 DEF CountTInv, TCovered, CountingT
    <3>3. Valid(messages[Owner], transcript, countT[Owner]) /\ ValidCount(transcript, countT[Owner]) = Len(transcript)
      BY <1>a, <3>1, <3>2 DEF Valid, ValidCount
    <3>4. UNCHANGED <<transcript, ackedT, messages>>
      BY <2>2 DEF ValidateTranscript, files, logs, history
    <3>5. CASE endT = "torn"
      <4>1. pc'[Owner] = "raised"
        BY <1>a, <2>2, <3>5 DEF ValidateTranscript, Go
      <4> QED BY <1>c, <3>4, <4>1
    <3>6. CASE endT # "torn"
      <4>1. countT'[Owner] = Len(transcript) /\ pc'[Owner] = "validateE"
        BY <1>a, <2>2, <3>3, <3>6 DEF ValidateTranscript, Go
      <4> QED BY <1>c, <3>1, <3>4, <4>1
    <3> QED BY <3>5, <3>6
  <2>3. CASE ValidateEvents(Owner)
    BY <1>a, <1>c, <2>3 DEF ValidateEvents, Go, files, logs, history
  <2>4. CASE AppendTranscript(Owner)
    <3>1. Extends(messages[Owner], transcript) /\ countT[Owner] = Len(transcript)
      BY <2>4 DEF AppendTranscript
    <3>2. ~(countT[Owner] > Len(messages[Owner]))
      BY <1>a, <3>1 DEF Extends
    <3>3. /\ Suffix(messages[Owner], Len(transcript)) \in Seq(Entries)
          /\ transcript \o Suffix(messages[Owner], Len(transcript)) = messages[Owner]
      BY <1>a, <3>1, SuffixCompletes
    <3>4. /\ transcript' = messages[Owner] /\ pc'[Owner] = "appendE"
          /\ UNCHANGED <<ackedT, messages>>
      BY <1>a, <2>4, <3>1, <3>2, <3>3 DEF AppendTranscript, Go, memory, history
    <3>5. Extends(messages[Owner], messages[Owner])
      BY <1>a, SelfExtends
    <3>6. LoneT'
      BY <3>4, <3>5
    <3>7. Extends(transcript', transcript)
      BY <3>1, <3>4
    <3> QED BY <3>4, <3>6, <3>7 DEF Durable
  <2>5. CASE AppendEvents(Owner)
    BY <1>a, <1>c, <2>5 DEF AppendEvents, Go, stateVars, memory, history
  <2>6. CASE OpenState(Owner)
    BY <1>a, <1>c, <2>6 DEF OpenState, Go, memory, history, logs
  <2>7. CASE WriteState(Owner)
    <3>1. messages[Owner] = transcript
      BY <2>7 DEF WriteState
    <3>2. ackedT' = transcript /\ transcript' = transcript /\ messages' = messages /\ pc'[Owner] = "ready"
      BY <1>a, <2>7, <3>1 DEF WriteState, Go, logs
    <3> QED BY <1>b, <3>1, <3>2 DEF Durable
  <2> QED BY <1>3, <2>1, <2>2, <2>3, <2>4, <2>5, <2>6, <2>7 DEF Save
<1>4. CASE SideSave(Owner)
  BY <1>a, <1>c, <1>4
     DEF SideSave, MarkRestored, SaveStateOnly, ReadCounts, OpenSide, WriteSide, Go,
         files, logs, memory, history
<1>5. CASE Fault(Owner)
  <2>1. pc'[Owner] = "idle" /\ ackedT' = ackedT
    BY <1>a, <1>5 DEF Fault, Unwind, Crash, CrashInAppendT, CrashInAppendE, Go, history
  <2>2. LoneT'
    BY <2>1
  <2>3. CASE CrashInAppendT(Owner)
    <3>1. PICK n \in countT[Owner]..Len(messages[Owner]) :
             transcript' = transcript \o SubSeq(messages[Owner], countT[Owner] + 1, n)
      BY <2>3 DEF CrashInAppendT
    <3>2. SubSeq(messages[Owner], countT[Owner] + 1, n) \in Seq(Entries)
      BY <1>a, <3>1, Cut
    <3>3. Extends(transcript', transcript)
      BY <1>a, <3>1, <3>2, FlushExtends
    <3> QED BY <2>1, <2>2, <3>3 DEF Durable
  <2>4. CASE ~CrashInAppendT(Owner)
    <3>1. transcript' = transcript
      BY <1>5, <2>4 DEF Fault, Unwind, Crash, CrashInAppendE, files, logs, stateVars
    <3> QED BY <1>c, <2>1, <2>2, <3>1
  <2> QED BY <2>3, <2>4
<1> QED
  BY <1>1, <1>2, <1>3, <1>4, <1>5 DEF Step

(* The event log under a step of the lone writer: the facts above are kept, and the  *)
(* log only grows at its end, or a save that returns acknowledges all of it.*)
LEMMA LoneEStep ==
    ASSUME TypeOK, TypeOK', CountEInv, Lone, Step(Owner)
    PROVE  LoneE' /\ Durable(events, events', ackedE, ackedE')
<1> DEFINE Goal == LoneE' /\ Durable(events, events', ackedE, ackedE')
<1> USE OwnerAssumption DEF Lone, LoneE, PassedT, PastT, PassedE, PastE
<1>a. /\ events \in Seq(Entries) /\ evs[Owner] \in Seq(Entries)
      /\ Len(events) \in Nat /\ Len(evs[Owner]) \in Nat /\ countE[Owner] \in Nat
      /\ pc \in [Writers -> Locations] /\ evs \in [Writers -> Seq(Entries)]
      /\ countE \in [Writers -> Nat]
  BY LenProperties DEF TypeOK
<1>b. Extends(events, events)
  BY <1>a, SelfExtends
<1>c. ASSUME UNCHANGED <<events, ackedE>>
      PROVE  Durable(events, events', ackedE, ackedE')
  BY <1>b, <1>c DEF Durable
<1>1. CASE Load(Owner)
  <2>1. CASE LoadState(Owner)
    BY <1>a, <1>c, <2>1 DEF LoadState, Go, files, logs, history, Locations
  <2>2. CASE LoadTranscript(Owner)
    BY <1>a, <1>b, <1>c, <2>2 DEF LoadTranscript, Go, files, logs, history
  <2>3. CASE LoadEvents(Owner)
    BY <1>a, <1>b, <1>c, <2>3 DEF LoadEvents, Go, files, logs, history
  <2> QED BY <1>1, <2>1, <2>2, <2>3 DEF Load
<1>2. CASE Edit(Owner)
  <2>1. ASSUME NEW e \in Entries, AddEvent(Owner, e) PROVE Goal
    <3>1. Extends(evs[Owner], events) /\ pc[Owner] = "ready"
      BY <2>1 DEF AddEvent
    <3>2. Extends(Append(evs[Owner], e), events)
      BY <1>a, <3>1, EditExtends
    <3>3. evs'[Owner] = Append(evs[Owner], e) /\ pc' = pc /\ UNCHANGED <<events, ackedE>>
      BY <1>a, <2>1 DEF AddEvent, files, logs, history
    <3> QED BY <1>c, <3>1, <3>2, <3>3
  <2>2. ASSUME NEW e \in Entries, AddMessage(Owner, e) PROVE Goal
    BY <1>a, <1>c, <2>2 DEF AddMessage, files, logs, history
  <2>3. ASSUME NEW s \in Sides, SetSide(Owner, s) PROVE Goal
    BY <1>a, <1>c, <2>3 DEF SetSide, files, logs, history
  <2> QED BY <1>2, <2>1, <2>2, <2>3 DEF Edit
<1>3. CASE Save(Owner)
  <2>1. CASE SaveBegin(Owner)
    BY <1>a, <1>c, <2>1 DEF SaveBegin, ReadCounts, Go, files, logs, history
  <2>2. CASE ValidateEvents(Owner)
    <3>1. Extends(evs[Owner], events) /\ pc[Owner] = "validateE"
      BY <2>2 DEF ValidateEvents
    <3>2. countE[Owner] <= Len(events)
      BY <1>a, <3>1 DEF CountEInv, ECovered, CountingE
    <3>3. Valid(evs[Owner], events, countE[Owner]) /\ ValidCount(events, countE[Owner]) = Len(events)
      BY <1>a, <3>1, <3>2 DEF Valid, ValidCount
    <3>4. UNCHANGED <<events, ackedE, evs>>
      BY <2>2 DEF ValidateEvents, files, logs, history
    <3>5. CASE endE = "torn"
      <4>1. pc'[Owner] = "raised"
        BY <1>a, <2>2, <3>5 DEF ValidateEvents, Go
      <4> QED BY <1>c, <3>4, <4>1
    <3>6. CASE endE # "torn"
      <4>1. countE'[Owner] = Len(events) /\ pc'[Owner] = "appendT"
        BY <1>a, <2>2, <3>3, <3>6 DEF ValidateEvents, Go
      <4> QED BY <1>c, <3>1, <3>4, <4>1
    <3> QED BY <3>5, <3>6
  <2>3. CASE ValidateTranscript(Owner)
    BY <1>a, <1>c, <2>3 DEF ValidateTranscript, Go, files, logs, history
  <2>4. CASE AppendEvents(Owner)
    <3>1. Extends(evs[Owner], events) /\ countE[Owner] = Len(events)
      BY <2>4 DEF AppendEvents
    <3>2. ~(countE[Owner] > Len(evs[Owner]))
      BY <1>a, <3>1 DEF Extends
    <3>3. /\ Suffix(evs[Owner], Len(events)) \in Seq(Entries)
          /\ events \o Suffix(evs[Owner], Len(events)) = evs[Owner]
      BY <1>a, <3>1, SuffixCompletes
    <3>4. /\ events' = evs[Owner] /\ pc'[Owner] = "openState"
          /\ UNCHANGED <<ackedE, evs>>
      BY <1>a, <2>4, <3>1, <3>2, <3>3 DEF AppendEvents, Go, memory, history
    <3>5. Extends(evs[Owner], evs[Owner])
      BY <1>a, SelfExtends
    <3>6. LoneE'
      BY <3>4, <3>5
    <3>7. Extends(events', events)
      BY <3>1, <3>4
    <3> QED BY <3>4, <3>6, <3>7 DEF Durable
  <2>5. CASE AppendTranscript(Owner)
    BY <1>a, <1>c, <2>5 DEF AppendTranscript, Go, stateVars, memory, history
  <2>6. CASE OpenState(Owner)
    BY <1>a, <1>c, <2>6 DEF OpenState, Go, memory, history, logs
  <2>7. CASE WriteState(Owner)
    <3>1. evs[Owner] = events
      BY <2>7 DEF WriteState
    <3>2. ackedE' = events /\ events' = events /\ evs' = evs /\ pc'[Owner] = "ready"
      BY <1>a, <2>7, <3>1 DEF WriteState, Go, logs
    <3> QED BY <1>b, <3>1, <3>2 DEF Durable
  <2> QED BY <1>3, <2>1, <2>2, <2>3, <2>4, <2>5, <2>6, <2>7 DEF Save
<1>4. CASE SideSave(Owner)
  BY <1>a, <1>c, <1>4
     DEF SideSave, MarkRestored, SaveStateOnly, ReadCounts, OpenSide, WriteSide, Go,
         files, logs, memory, history
<1>5. CASE Fault(Owner)
  <2>1. pc'[Owner] = "idle" /\ ackedE' = ackedE
    BY <1>a, <1>5 DEF Fault, Unwind, Crash, CrashInAppendT, CrashInAppendE, Go, history
  <2>2. LoneE'
    BY <2>1
  <2>3. CASE CrashInAppendE(Owner)
    <3>1. PICK n \in countE[Owner]..Len(evs[Owner]) :
             events' = events \o SubSeq(evs[Owner], countE[Owner] + 1, n)
      BY <2>3 DEF CrashInAppendE
    <3>2. SubSeq(evs[Owner], countE[Owner] + 1, n) \in Seq(Entries)
      BY <1>a, <3>1, Cut
    <3>3. Extends(events', events)
      BY <1>a, <3>1, <3>2, FlushExtends
    <3> QED BY <2>1, <2>2, <3>3 DEF Durable
  <2>4. CASE ~CrashInAppendE(Owner)
    <3>1. events' = events
      BY <1>5, <2>4 DEF Fault, Unwind, Crash, CrashInAppendT, files, logs, stateVars
    <3> QED BY <1>c, <2>1, <2>2, <3>1
  <2> QED BY <2>3, <2>4
<1> QED
  BY <1>1, <1>2, <1>3, <1>4, <1>5 DEF Step

(* The rest of Lone: nobody else moves, nothing is lost, and the only      *)
(* exceptions are those of a torn file: no record of a lone writer         *)
(* is refused (store.py:262-286 never raises for it).                      *)
LEMMA LoneStep ==
    ASSUME TypeOK, TypeOK', CountTInv, CountEInv, Lone, Step(Owner)
    PROVE  Lone'
<1>a. /\ pc \in [Writers -> Locations] /\ Owner \in Writers
      /\ Len(transcript) \in Nat /\ Len(events) \in Nat
      /\ Len(messages[Owner]) \in Nat /\ Len(evs[Owner]) \in Nat
      /\ countT[Owner] \in Nat /\ countE[Owner] \in Nat
  BY OwnerAssumption, LenProperties DEF TypeOK
<1>1. losses' = 0
  BY DEF Lone, Step, Load, LoadState, LoadTranscript, LoadEvents, Edit, AddMessage, AddEvent,
         SetSide, Save, SaveBegin, ValidateTranscript, ValidateEvents, AppendTranscript,
         AppendEvents, OpenState, WriteState, SideSave, MarkRestored, SaveStateOnly, OpenSide,
         WriteSide, Fault, Unwind, Crash, CrashInAppendT, CrashInAppendE, history
<1>2. pc' = pc \/ \E l \in Locations : Go(Owner, l)
  BY DEF Step, Load, LoadState, LoadTranscript, LoadEvents, Edit, AddMessage, AddEvent,
         SetSide, Save, SaveBegin, ReadCounts, ValidateTranscript, ValidateEvents,
         AppendTranscript, AppendEvents, OpenState, WriteState, SideSave, MarkRestored,
         SaveStateOnly, OpenSide, WriteSide, Fault, Unwind, Crash, CrashInAppendT,
         CrashInAppendE, Locations
<1>3. \A w \in Writers \ {Owner} : pc'[w] = "idle"
  BY <1>a, <1>2 DEF Lone, Go
<1>4. LoneT' /\ LoneE'
  BY LoneTStep, LoneEStep
<1>5. pc'[Owner] = "raised" => Damaged'
  <2>1. CASE Load(Owner) \/ Edit(Owner)
    BY <1>a, <2>1 DEF Damaged, Lone, Load, LoadState, LoadTranscript, LoadEvents, Edit,
       AddMessage, AddEvent, SetSide, Go, files, logs
  <2>2. CASE Save(Owner)
    <3>1. CASE SaveBegin(Owner)
      BY <1>a, <3>1 DEF Damaged, SaveBegin, ReadCounts, Go, files, logs
    <3>2. CASE ValidateTranscript(Owner)
      <4>1. Extends(messages[Owner], transcript) /\ countT[Owner] <= Len(transcript)
        BY <1>a, <3>2
           DEF ValidateTranscript, Lone, LoneT, CountTInv, TCovered, CountingT
      <4>2. Valid(messages[Owner], transcript, countT[Owner])
        BY <1>a, <4>1 DEF Valid
      <4> QED BY <1>a, <3>2, <4>2 DEF Damaged, ValidateTranscript, Go, files, logs
    <3>3. CASE ValidateEvents(Owner)
      <4>1. Extends(evs[Owner], events) /\ countE[Owner] <= Len(events)
        BY <1>a, <3>3
           DEF ValidateEvents, Lone, LoneE, CountEInv, ECovered, CountingE
      <4>2. Valid(evs[Owner], events, countE[Owner])
        BY <1>a, <4>1 DEF Valid
      <4> QED BY <1>a, <3>3, <4>2 DEF Damaged, ValidateEvents, Go, files, logs
    <3>4. CASE AppendTranscript(Owner)
      <4>1. ~(countT[Owner] > Len(messages[Owner]))
        BY <1>a, <3>4 DEF AppendTranscript, Lone, LoneT, PassedT, Extends
      <4> QED BY <1>a, <3>4, <4>1 DEF AppendTranscript, Go
    <3>5. CASE AppendEvents(Owner)
      <4>1. ~(countE[Owner] > Len(evs[Owner]))
        BY <1>a, <3>5 DEF AppendEvents, Lone, LoneE, PassedE, Extends
      <4> QED BY <1>a, <3>5, <4>1 DEF AppendEvents, Go
    <3>6. CASE OpenState(Owner) \/ WriteState(Owner)
      BY <1>a, <3>6 DEF OpenState, WriteState, Go, logs
    <3> QED BY <2>2, <3>1, <3>2, <3>3, <3>4, <3>5, <3>6 DEF Save
  <2>3. CASE SideSave(Owner)
    BY <1>a, <2>3 DEF Damaged, SideSave, MarkRestored, SaveStateOnly, ReadCounts, OpenSide,
       WriteSide, Go, files, logs
  <2>4. CASE Fault(Owner)
    BY <1>a, <2>4 DEF Fault, Unwind, Crash, CrashInAppendT, CrashInAppendE, Go
  <2> QED BY <2>1, <2>2, <2>3, <2>4 DEF Step
<1> QED
  BY <1>1, <1>3, <1>4, <1>5 DEF Lone
-----------------------------------------------------------------------------
(* A behaviour of the instance is one of the store ...                     *)
LEMMA InstanceStep == [MCNext]_<<vars, setting>> => [Next]_vars
  BY OwnerAssumption DEF MCNext, Next

(* ... in which a lone writer stays alone.                                 *)
LoneInv == TypeOK /\ CountTInv /\ CountEInv /\ (Alone => Lone)

LEMMA LoneHolds == MCSpec => []LoneInv
<1>1. MCInit => LoneInv
  <2> SUFFICES ASSUME MCInit PROVE LoneInv
    OBVIOUS
  <2>1. TypeOK
    BY StoreAssumption, EmptySeq DEF MCInit, Init, TypeOK, Locations
  <2>2. Len(transcript) = 0 /\ Len(events) = 0
    BY EmptySeq DEF MCInit, Init
  <2>3. CountTInv
    BY <2>2 DEF MCInit, Init, CountTInv, TCovered, TDamaged, CountingT, PastT, PassedT
  <2>4. CountEInv
    BY <2>2 DEF MCInit, Init, CountEInv, ECovered, EDamaged, CountingE, PastE, PassedE
  <2>5. Lone
    BY OwnerAssumption DEF MCInit, Init, Lone, LoneT, LoneE, PassedT, PastT, PassedE, PastE
  <2> QED BY <2>1, <2>3, <2>4, <2>5 DEF LoneInv
<1>2. LoneInv /\ [MCNext]_<<vars, setting>> => LoneInv'
  <2> SUFFICES ASSUME LoneInv, [MCNext]_<<vars, setting>> PROVE LoneInv'
    OBVIOUS
  <2>1. [Next]_vars
    BY InstanceStep
  <2>2. TypeOK' /\ CountTInv' /\ CountEInv'
    BY <2>1, TypeStep, CountTStep, CountEStep DEF LoneInv
  <2>3. CASE Alone /\ Step(Owner) /\ Alone'
    BY <2>2, <2>3, LoneStep DEF LoneInv
  <2>4. CASE Alone /\ Alone' /\ UNCHANGED vars
    <3>1. Lone
      BY <2>4 DEF LoneInv
    <3>2. Lone'
      BY <2>4, <3>1 DEF Damaged, Lone, LoneT, LoneE, Extends, vars, files, logs, memory, history
    <3> QED BY <2>2, <3>2 DEF LoneInv
  <2>5. CASE ~Alone'
    BY <2>2, <2>5 DEF LoneInv
  <2>6. Alone' => Alone /\ (Step(Owner) \/ UNCHANGED vars)
    BY DEF MCNext, Alone
  <2> QED BY <2>3, <2>4, <2>5, <2>6
<1> QED
  BY <1>1, <1>2, PTL DEF MCSpec

(* A lone writer that may crash anywhere always works on a record that     *)
(* extends both logs: no entry is dropped or doubled (store.py:81-108).    *)
THEOREM OwnRecordAlwaysExtendsLogs == MCSpec => []OwnRecordExtendsLogs
<1>1. LoneInv => OwnRecordExtendsLogs
  <2> SUFFICES ASSUME LoneInv, Alone, NEW w \in Writers,
                      pc[w] \notin {"idle", "raised", "loadT"}
               PROVE  /\ Extends(messages[w], transcript)
                      /\ pc[w] # "loadE" => Extends(evs[w], events)
    BY DEF OwnRecordExtendsLogs, RecordExtendsLogs
  <2>1. w = Owner
    BY DEF LoneInv, Lone
  <2> QED BY <2>1 DEF LoneInv, Lone, LoneT, LoneE
<1> QED
  BY <1>1, LoneHolds, PTL

(* Its loads and saves raise only where a crash has emptied state.json or  *)
(* cut a line of a log: the checks of store.py:253-287 never refuse what   *)
(* it wrote itself, with a crash at any point of any of its saves.         *)
THEOREM OwnRefusalsNeedDamage == MCSpec => []OwnRefusedOnlyAfterDamage
<1>1. LoneInv => OwnRefusedOnlyAfterDamage
  <2> SUFFICES ASSUME LoneInv, Alone, NEW w \in Writers, pc[w] = "raised"
               PROVE  Damaged
    BY DEF OwnRefusedOnlyAfterDamage, RefusedOnlyAfterDamage, Damaged
  <2>1. w = Owner
    BY DEF LoneInv, Lone
  <2> QED BY <2>1 DEF LoneInv, Lone
<1> QED
  BY <1>1, LoneHolds, PTL

(* For a lone writer the store implements the append-only log, twice: each *)
(* step is a step of the abstract log or leaves it as it is.               *)
THEOREM OwnLogsImplementAppendOnlyLog == MCSpec => OwnLogsAreDurable
<1>1. MCInit => OwnTranscript!LogInit /\ OwnEvents!LogInit
  BY DEF MCInit, Init, OwnTranscript!LogInit, OwnEvents!LogInit
<1>2. LoneInv /\ LoneInv' /\ [MCNext]_<<vars, setting>> =>
         /\ [OwnTranscript!LogNext]_(OwnTranscript!logVars)
         /\ [OwnEvents!LogNext]_(OwnEvents!logVars)
  <2> SUFFICES ASSUME LoneInv, LoneInv', [MCNext]_<<vars, setting>>
               PROVE  /\ [OwnTranscript!LogNext]_(OwnTranscript!logVars)
                      /\ [OwnEvents!LogNext]_(OwnEvents!logVars)
    OBVIOUS
  <2>1. CASE Alone /\ Alone' /\ Step(Owner)
    <3>1. /\ Durable(transcript, transcript', ackedT, ackedT')
          /\ Durable(events, events', ackedE, ackedE')
      BY <2>1, LoneTStep, LoneEStep DEF LoneInv
    <3>2. transcript' \in Seq(Entries) /\ events' \in Seq(Entries)
      BY DEF LoneInv, TypeOK
    <3>3. OwnTranscript!LogNext
      BY <2>1, <3>1, <3>2 DEF Durable, Extends, OwnTranscript!LogNext, OwnTranscript!Extend,
         OwnTranscript!Acknowledge
    <3>4. OwnEvents!LogNext
      BY <2>1, <3>1, <3>2 DEF Durable, Extends, OwnEvents!LogNext, OwnEvents!Extend,
         OwnEvents!Acknowledge
    <3> QED BY <3>3, <3>4
  <2>2. CASE Alone /\ Alone' /\ UNCHANGED vars
    BY <2>2 DEF vars, files, logs, history, OwnTranscript!logVars, OwnEvents!logVars
  <2>3. CASE ~Alone /\ ~Alone'
    BY <2>3 DEF OwnTranscript!logVars, OwnEvents!logVars
  <2> QED BY <2>1, <2>2, <2>3 DEF MCNext, Alone
<1> QED
  BY <1>1, <1>2, LoneHolds, PTL
     DEF MCSpec, OwnLogsAreDurable, OwnTranscript!LogSpec, OwnEvents!LogSpec
=============================================================================
