-------------------------- MODULE MCSessionStore --------------------------
(* An instance of SessionStore for TLC.  One run looks at two surroundings *)
(* of the store, and a behaviour stays in the one it begins in:            *)
(*   "alone"   one writer, which may crash anywhere; no file is lost;      *)
(*   "shared"  two writers of one session, and one file may be lost; an    *)
(*             entry is added only to a record that has none, and a line   *)
(*             is cut in the transcript only.                              *)
EXTENDS SessionStore

CONSTANTS Owner,   \* the writer of "alone"
          Common   \* the entry that is added in "shared"

ASSUME OwnerAssumption == Owner \in Writers

VARIABLE setting

Alone == setting = "alone"

Small == \A w \in Writers :
            /\ side'[w] = FreshSide /\ endE' = "line"
            /\ {pc[w], pc'[w]} = {"ready"} => /\ messages'[w] \in {messages[w], <<Common>>}
                                             /\ evs'[w] \in {evs[w], <<Common>>}

MCInit == Init /\ setting \in {"alone", "shared"}

MCNext == /\ UNCHANGED setting
          /\ IF Alone THEN Step(Owner) ELSE Next /\ Small

MCSpec == MCInit /\ [][MCNext]_<<vars, setting>>

(* What was acknowledged influences no step, and only "alone" asks for it. *)
Seen == <<files, pc, memory, losses, setting, IF Alone THEN <<ackedT, ackedE>> ELSE <<>> >>

-----------------------------------------------------------------------------
(* RecordExtendsLogs of a lone writer: its record always extends what is   *)
(* durable, wherever an earlier save was cut by a crash (store.py:81-108). *)
OwnRecordExtendsLogs == Alone => RecordExtendsLogs

(* RefusedOnlyAfterDamage of a lone writer: its loads and saves raise only *)
(* after a crash caught state.json half written or cut a line of a log     *)
(* (store.py:65, 217, 228); the checks of 262-286 never refuse its record. *)
OwnRefusedOnlyAfterDamage == Alone => RefusedOnlyAfterDamage

(* For a lone writer the two logs implement AppendOnlyLog.  A log that is  *)
(* shared is not asked for anything here.                                  *)
OwnTranscript == INSTANCE AppendOnlyLog WITH
    log <- IF Alone THEN transcript ELSE <<>>, acked <- IF Alone THEN ackedT ELSE <<>>
OwnEvents == INSTANCE AppendOnlyLog WITH
    log <- IF Alone THEN events ELSE <<>>, acked <- IF Alone THEN ackedE ELSE <<>>

(* Either log of a lone writer only grows, and what a save that returns    *)
(* acknowledges is exactly the text of the log (store.py:81-108, 307-342). *)
OwnLogsAreDurable == OwnTranscript!LogSpec /\ OwnEvents!LogSpec

(* What a save of a lone writer has written can be loaded again.  It is    *)
(* not so: see SessionStore_newline.cfg.                                   *)
OwnSaveCanBeLoaded ==
    Alone /\ pc[Owner] = "ready" => "torn" \notin {endT, endE}
=============================================================================
