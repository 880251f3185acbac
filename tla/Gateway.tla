------------------------------ MODULE Gateway ------------------------------
(***************************************************************************)
(* The gateway (gateway/core.py) between chats and sessions: bindings,     *)
(* their checkpoints, and the lease that InProcessSessionAdapter           *)
(* (gateway/session_adapter.py) takes before it runs a session.            *)
(*                                                                         *)
(* Hosts are processes over the same files; a host has several threads     *)
(* (terminal connections, channel clients), each with the chats it serves. *)
(* A request is a few steps, one per file access, and nothing is locked.   *)
(* A turn is what the gateway sees of TurnLoop: it loads the session, adds *)
(* events to its log with every save, and returns or raises.  A save is    *)
(* refused when somebody else has extended the log (SessionStore).         *)
(***************************************************************************)
EXTENDS Naturals

CONSTANTS
    Hosts, Threads, Chats,
    Sessions,    \* numbers: their order is that of the session directories' names
    HostOf,      \* the host of a thread
    Serves,      \* the chats a thread takes requests of
    Names,       \* the sessions a chat's frontend may ask to be bound to
    GatewayId,   \* the gateway id of a host, which names its harness instances
    NoId,        \* no lease
    MaxLog       \* bound on the events of a session

ASSUME GatewayAssumption ==
    /\ HostOf \in [Threads -> Hosts] /\ Serves \in [Threads -> SUBSET Chats]
    /\ Names \in [Chats -> SUBSET Sessions]
    /\ \A h \in Hosts : GatewayId[h] # NoId
    /\ Sessions \subseteq Nat \ {0} /\ MaxLog \in Nat

VARIABLES
    (* files *)
    lease,     \* the harness instance in a session's lease file
    log,       \* how many events a session's log holds
    file,      \* the binding file of a chat in a session's directory: its offset
    (* a host's memory *)
    handles,   \* InProcessSessionAdapter._handles
    binding,   \* Gateway._bindings: the session and checkpoint of a chat
    (* a thread's request *)
    pc, op,
    chat, sess,
    own,       \* the binding it works on, unless that is the one in _bindings
    known,     \* how long it knows the log of a turn's session to be
    got,       \* the events it has to project
    (* history *)
    seen,      \* the events that reached a chat
    again      \* the chats that a turn or a resume sent something a second time

files   == <<lease, log, file>>
hostMem == <<handles, binding>>
request == <<pc, op, chat, sess, own, known, got>>
history == <<seen, again>>
vars    == <<files, hostMem, request, history>>

NoBinding == [session |-> 0, offset |-> 0]
NoFile    == MaxLog + 1
Locations == {"idle", "spawn", "lease", "take", "load", "turn", "sync", "persist", "deliver",
              "release", "unlink"}

Id(t) == GatewayId[HostOf[t]]
Memory(t, c)  == binding[HostOf[t]][c]
Bound(t)      == IF own[t] = NoBinding THEN Memory(t, chat[t]) ELSE own[t]

Go(t, l) == pc' = [pc EXCEPT ![t] = l]

Init ==
    /\ lease = [s \in Sessions |-> NoId] /\ log = [s \in Sessions |-> 0]
    /\ file = [s \in Sessions |-> [c \in Chats |-> NoFile]]
    /\ handles = [h \in Hosts |-> {}]
    /\ binding = [h \in Hosts |-> [c \in Chats |-> NoBinding]]
    /\ pc = [t \in Threads |-> "idle"] /\ op = [t \in Threads |-> "none"]
    /\ chat \in [Threads -> Chats] /\ \A t \in Threads : chat[t] \in Serves[t]
    /\ sess = [t \in Threads |-> 0] /\ own = [t \in Threads |-> NoBinding]
    /\ known = [t \in Threads |-> 0] /\ got = [t \in Threads |-> {}]
    /\ seen = [c \in Chats |-> [s \in Sessions |-> {}]] /\ again = {}
-----------------------------------------------------------------------------
(* Requests.                                                               *)

Begin(t, o, c, s, l) ==
    /\ pc[t] = "idle" /\ c \in Serves[t]
    /\ op' = [op EXCEPT ![t] = o] /\ chat' = [chat EXCEPT ![t] = c]
    /\ sess' = [sess EXCEPT ![t] = s]
    /\ Go(t, l)
    /\ UNCHANGED <<files, handles, history>>

(* The request returns or raises; its locals are gone.                     *)
Finish(T) ==
    /\ pc' = [t \in Threads |-> IF t \in T THEN "idle" ELSE pc[t]]
    /\ op' = [t \in Threads |-> IF t \in T THEN "none" ELSE op[t]]
    /\ sess' = [t \in Threads |-> IF t \in T THEN 0 ELSE sess[t]]
    /\ own' = [t \in Threads |-> IF t \in T THEN NoBinding ELSE own[t]]
    /\ known' = [t \in Threads |-> IF t \in T THEN 0 ELSE known[t]]
    /\ got' = [t \in Threads |-> IF t \in T THEN {} ELSE got[t]]
    /\ UNCHANGED chat

(* bind_session puts a new binding in place; a thread in the middle of a   *)
(* request keeps the one it has.  Only the memory is asked whether the     *)
(* chat has another session.                                               *)
Bind(t, c, s) ==
    /\ s \in Names[c]
    /\ Begin(t, "bind", c, s, "spawn")
    /\ Memory(t, c) = NoBinding \/ Memory(t, c).session = s
    /\ binding' = [binding EXCEPT ![HostOf[t]][c] = [session |-> s, offset |-> 0]]
    /\ own' = [u \in Threads |->
                 IF u # t /\ HostOf[u] = HostOf[t] /\ chat[u] = c /\ pc[u] # "idle"
                 THEN Bound(u) ELSE own[u]]
    /\ UNCHANGED <<known, got>>

(* _get_binding, when the memory has none: the first binding file found.   *)
First(s, c) ==
    file[s][c] # NoFile /\ \A r \in Sessions : file[r][c] # NoFile => s <= r

Restore(t, c) ==
    /\ Memory(t, c) = NoBinding
    /\ \E s \in Sessions :
          /\ First(s, c)
          /\ Begin(t, "restore", c, s, "spawn")
          /\ binding' = [binding EXCEPT ![HostOf[t]][c] = [session |-> s, offset |-> file[s][c]]]
    /\ UNCHANGED <<own, known, got>>

(* process_user_message, permission_response and interrupt.  The button of *)
(* a card names the card's session, one the chat has been bound to; for    *)
(* another session than the present one the binding is copied.             *)
Route(t, o, c, s) ==
    /\ Memory(t, c) # NoBinding
    /\ s = Memory(t, c).session \/ file[s][c] # NoFile
    /\ Begin(t, o, c, s, "spawn")
    /\ own' = [own EXCEPT ![t] = IF s = Memory(t, c).session THEN NoBinding
                                 ELSE [Memory(t, c) EXCEPT !.session = s]]
    /\ UNCHANGED <<binding, known, got>>

(* resume_bound_session from the checkpoint; resume and observe_session    *)
(* from an offset the caller gives.                                        *)
Read(t, o, c, from) ==
    LET s == Memory(t, c).session
    IN /\ Memory(t, c) # NoBinding
       /\ Begin(t, o, c, s, "sync")
       /\ got' = [got EXCEPT ![t] = (from + 1)..log[s]]
       /\ UNCHANGED <<binding, own, known>>

Resume(t, c) == Read(t, "resume", c, Memory(t, c).offset)
Replay(t, c) == \E from \in 0..MaxLog : Read(t, "replay", c, from)
-----------------------------------------------------------------------------
(* InProcessSessionAdapter.spawn: a cached handle needs no lease.          *)

AfterSpawn(t) ==
    CASE op[t] = "bind" -> "sync"
      [] op[t] = "turn" -> "load"
      [] OTHER          -> "release"  \* kill

Return(t) == Finish({t}) /\ UNCHANGED <<files, hostMem, history>>

Spawned(t) ==
    IF op[t] = "restore" THEN Finish({t})
    ELSE Go(t, AfterSpawn(t)) /\ UNCHANGED <<op, chat, sess, own, known, got>>

Spawn(t) ==
    /\ pc[t] = "spawn"
    /\ IF sess[t] \in handles[HostOf[t]] THEN Spawned(t)
       ELSE Go(t, "lease") /\ UNCHANGED <<op, chat, sess, own, known, got>>
    /\ UNCHANGED <<files, hostMem, history>>

(* Mutant: wait for the lease.                                             *)
WaitForLease(t) ==
    /\ pc[t] = "lease" /\ lease[sess[t]] \in {NoId, Id(t)}
    /\ Go(t, "take")
    /\ UNCHANGED <<files, hostMem, op, chat, sess, own, known, got, history>>

(* acquire_lease reads the file and raises if another instance is in it ...*)
ReadLease(t) ==
    /\ pc[t] = "lease"
    /\ IF lease[sess[t]] \in {NoId, Id(t)}
       THEN Go(t, "take") /\ UNCHANGED <<op, chat, sess, own, known, got>>
       ELSE Finish({t})
    /\ UNCHANGED <<files, hostMem, history>>

(* ... and then writes it.                                                 *)
WriteLease(t) ==
    /\ pc[t] = "take"
    /\ lease' = [lease EXCEPT ![sess[t]] = Id(t)]
    /\ handles' = [handles EXCEPT ![HostOf[t]] = @ \cup {sess[t]}]
    /\ Spawned(t)
    /\ UNCHANGED <<log, file, binding, history>>

(* kill: release_lease reads, compares and unlinks; the handle stays.      *)
ReadForRelease(t) ==
    /\ pc[t] = "release"
    /\ IF lease[sess[t]] = Id(t)
       THEN Go(t, "unlink") /\ UNCHANGED <<op, chat, sess, own, known, got>>
       ELSE Finish({t})
    /\ UNCHANGED <<files, hostMem, history>>

Unlink(t) ==
    /\ pc[t] = "unlink"
    /\ lease' = [lease EXCEPT ![sess[t]] = NoId]
    /\ Finish({t})
    /\ UNCHANGED <<log, file, hostMem, history>>
-----------------------------------------------------------------------------
(* The turn behind write_input and continue_session.                       *)

TurnLoad(t) ==
    /\ pc[t] = "load"
    /\ known' = [known EXCEPT ![t] = log[sess[t]]]
    /\ Go(t, "turn")
    /\ UNCHANGED <<files, hostMem, op, chat, sess, own, got, history>>

TurnSave(t) ==
    /\ pc[t] = "turn" /\ log[sess[t]] = known[t] /\ known[t] < MaxLog
    /\ log' = [log EXCEPT ![sess[t]] = @ + 1]
    /\ known' = [known EXCEPT ![t] = @ + 1]
    /\ got' = [got EXCEPT ![t] = @ \cup {known[t] + 1}]
    /\ UNCHANGED <<lease, file, hostMem, pc, op, chat, sess, own, history>>

TurnReturns(t) ==
    /\ pc[t] = "turn"
    /\ Go(t, "sync")
    /\ UNCHANGED <<files, hostMem, op, chat, sess, own, known, got, history>>

TurnRaises(t) == pc[t] = "turn" /\ Return(t)
-----------------------------------------------------------------------------
(* _project_many: the checkpoint moves to the end of the log and is        *)
(* written before the events are handed to the channel.                    *)

SetOffset(t, n) ==
    IF own[t] = NoBinding
    THEN binding' = [binding EXCEPT ![HostOf[t]][chat[t]].offset = n] /\ UNCHANGED own
    ELSE own' = [own EXCEPT ![t].offset = n] /\ UNCHANGED binding

(* Mutants: the checkpoint stays; that of the bound session is taken.      *)
SyncNothing(t) ==
    /\ pc[t] = "sync" /\ Go(t, "persist")
    /\ UNCHANGED <<files, hostMem, op, chat, sess, own, known, got, history>>

SyncBound(t) ==
    /\ pc[t] = "sync"
    /\ SetOffset(t, log[Memory(t, chat[t]).session])
    /\ Go(t, "persist")
    /\ UNCHANGED <<files, handles, op, chat, sess, known, got, history>>

Sync(t) ==
    /\ pc[t] = "sync"
    /\ SetOffset(t, log[Bound(t).session])
    /\ Go(t, "persist")
    /\ UNCHANGED <<files, handles, op, chat, sess, known, got, history>>

Persist(t) ==
    /\ pc[t] = "persist"
    /\ file' = [file EXCEPT ![Bound(t).session][chat[t]] = Bound(t).offset]
    /\ Go(t, "deliver")
    /\ UNCHANGED <<lease, log, hostMem, op, chat, sess, own, known, got, history>>

Deliver(t) ==
    /\ pc[t] = "deliver"
    /\ seen' = [seen EXCEPT ![chat[t]][sess[t]] = @ \cup got[t]]
    /\ again' = IF op[t] # "replay" /\ got[t] \cap seen[chat[t]][sess[t]] # {}
                THEN again \cup {chat[t]} ELSE again
    /\ Finish({t})
    /\ UNCHANGED <<files, hostMem>>

(* The host dies and is started again: its files stay, the lease too.      *)
Crash(h) ==
    /\ binding[h] # [c \in Chats |-> NoBinding]
    /\ handles' = [handles EXCEPT ![h] = {}]
    /\ binding' = [binding EXCEPT ![h] = [c \in Chats |-> NoBinding]]
    /\ Finish({t \in Threads : HostOf[t] = h})
    /\ UNCHANGED <<files, history>>
-----------------------------------------------------------------------------
Ask(t) == \E c \in Chats :
             \/ \E s \in Sessions : Bind(t, c, s) \/ Route(t, "turn", c, s) \/ Route(t, "kill", c, s)
             \/ Restore(t, c) \/ Resume(t, c) \/ Replay(t, c)

Serve(t) == \/ Spawn(t) \/ ReadLease(t) \/ WriteLease(t) \/ ReadForRelease(t) \/ Unlink(t)
            \/ TurnLoad(t) \/ TurnSave(t) \/ TurnReturns(t) \/ TurnRaises(t)
            \/ Sync(t) \/ Persist(t) \/ Deliver(t)

Next == (\E t \in Threads : Ask(t) \/ Serve(t)) \/ \E h \in Hosts : Crash(h)

Spec == Init /\ [][Next]_vars

(* A thread that has taken a request goes on with it, and turns end.       *)
FairSpec == Spec /\ \A t \in Threads : WF_vars(Serve(t))
-----------------------------------------------------------------------------
Offsets  == 0..MaxLog
Events   == 1..MaxLog
Bindings == [session : Sessions, offset : Offsets] \cup {NoBinding}

(* Files, bindings and requests keep their shape, and a lease names the    *)
(* harness instance of a host (session_adapter.py:34, store.py:183).       *)
TypeOK ==
    /\ lease \in [Sessions -> {GatewayId[h] : h \in Hosts} \cup {NoId}]
    /\ log \in [Sessions -> Offsets]
    /\ file \in [Sessions -> [Chats -> Offsets \cup {NoFile}]]
    /\ handles \in [Hosts -> SUBSET Sessions]
    /\ binding \in [Hosts -> [Chats -> Bindings]]
    /\ pc \in [Threads -> Locations]
    /\ op \in [Threads -> {"none", "bind", "restore", "turn", "kill", "resume", "replay"}]
    /\ chat \in [Threads -> Chats] /\ sess \in [Threads -> Sessions \cup {0}]
    /\ own \in [Threads -> Bindings]
    /\ known \in [Threads -> Offsets] /\ got \in [Threads -> SUBSET Events]
    /\ seen \in [Chats -> [Sessions -> SUBSET Events]] /\ again \subseteq Chats

(* A checkpoint never points past the end of its session's log, so no      *)
(* later event is skipped by a resume: not after a restart, and not when a *)
(* card's button works on another session than the chat's present one      *)
(* (core.py:205-216, 279-307).                                             *)
OffsetInLog ==
    /\ \A h \in Hosts, c \in Chats :
          binding[h][c] # NoBinding => binding[h][c].offset <= log[binding[h][c].session]
    /\ \A s \in Sessions, c \in Chats : file[s][c] # NoFile => file[s][c] <= log[s]

(* When each chat has its own thread and the hosts one gateway id, as by   *)
(* default, no turn and no resume sends a chat an event it has already     *)
(* had, whatever host crashes, restores and rebinds lie between, and       *)
(* although other chats write to the session (resume_bound_session and     *)
(* _project_many, core.py:148-159, 279-301).  A host with another id may   *)
(* be refused the lease in the middle of a bind, which leaves a binding at *)
(* offset 0 in place: the next resume sends everything again.              *)
AtMostOnce == again = {}

(* A request ends although another host holds the lease and never gives it *)
(* back: acquire_lease raises and does not wait (store.py:181-182).        *)
RequestEnds == \A t \in Threads : pc[t] # "idle" ~> pc[t] = "idle"
-----------------------------------------------------------------------------
(* docs/developer-guide/architecture.md:114: the adapter holds the single  *)
(* active harness lease of the session when it calls the runtime.          *)
WriterHoldsLease == \A t \in Threads : pc[t] = "turn" => lease[sess[t]] = Id(t)
=============================================================================
