--------------------------- MODULE AppendOnlyLog ---------------------------
(***************************************************************************)
(* What a session log promises its users: entries are only ever added at   *)
(* the end, and the part a successful save has acknowledged never shrinks. *)
(* SessionStore implements this once for the transcript and once for the   *)
(* event log (docs/Features/session.md, "append-only transcript log" and   *)
(* "append-only event log").                                               *)
(***************************************************************************)
EXTENDS Naturals, Sequences

CONSTANT Entries

VARIABLES log,     \* the durable sequence of entries
          acked    \* the part of it that the last completed save has acknowledged

logVars == <<log, acked>>

LogInit == log = <<>> /\ acked = <<>>

(* A save, or the part of one that a crash let through, adds a suffix.     *)
Extend == /\ log' \in Seq(Entries)
          /\ Len(log) <= Len(log') /\ SubSeq(log', 1, Len(log)) = log
          /\ UNCHANGED acked

(* A save returns: what it acknowledges is the whole durable log.          *)
Acknowledge == /\ acked' = log
               /\ UNCHANGED log

LogNext == Extend \/ Acknowledge

LogSpec == LogInit /\ [][LogNext]_logVars
=============================================================================
