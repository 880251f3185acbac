--------------------------- MODULE GatewayProofs ---------------------------
(***************************************************************************)
(* Theorems about Gateway for any hosts, threads, chats, sessions and ids: *)
(* types, that no checkpoint points past the end of its log, and, where    *)
(* each chat has its own thread and the hosts one gateway id, that nothing *)
(* is sent twice: what a chat has been sent lies within the checkpoint, in *)
(* memory and in its file, but while a bind has yet to sync the one it has *)
(* put in place.                                                           *)
(***************************************************************************)
EXTENDS Gateway, TLAPS

(* A request under way has a session, and so has the binding it works on;  *)
(* an idle thread holds no binding of its own.                             *)
Busy == \A t \in Threads :
           /\ pc[t] # "idle" => sess[t] \in Sessions /\ Bound(t).session \in Sessions
           /\ pc[t] = "idle" => own[t] = NoBinding

(* A binding about to be written has been synced with its own log.         *)
Synced == \A t \in Threads :
             pc[t] = "persist" => Bound(t).offset <= log[Bound(t).session]

(* OffsetInLog alone is not inductive: a card's copy of a binding carries  *)
(* the offset of another session until Sync, and is written by Persist.    *)
GInv == TypeOK /\ Busy /\ OffsetInLog /\ Synced

(* The part of TypeOK about requests.                                      *)
RequestOK ==
    /\ pc \in [Threads -> Locations]
    /\ op \in [Threads -> {"none", "bind", "restore", "turn", "kill", "resume", "replay"}]
    /\ chat \in [Threads -> Chats] /\ sess \in [Threads -> Sessions \cup {0}]
    /\ own \in [Threads -> Bindings]
    /\ known \in [Threads -> Offsets] /\ got \in [Threads -> SUBSET Events]

(* What a step may do to a thread's request, besides starting one.         *)
Same(u)  == pc'[u] = pc[u] /\ sess'[u] = sess[u] /\ own'[u] = own[u]
Moves(u) == /\ pc[u] # "idle" /\ pc'[u] # "idle"
            /\ sess'[u] = sess[u] /\ own'[u] = own[u]
            /\ pc'[u] = "persist" => pc[u] = "persist"
Ends(u)  == pc'[u] = "idle" /\ own'[u] = NoBinding

(* A binding that names a session is not NoBinding (core.py:77-115).       *)
LEMMA Named ==
    /\ NoBinding \in Bindings
    /\ \A b \in Bindings : b.session \in Sessions => b # NoBinding
    /\ \A b \in Bindings : b # NoBinding => b.session \in Sessions /\ b.offset \in Offsets
    /\ \A s \in Sessions, n \in Offsets : [session |-> s, offset |-> n] \in Bindings
    /\ NoBinding.session \notin Sessions
    /\ NoFile \notin Offsets /\ 0 \in Offsets /\ Offsets \subseteq Nat
  BY GatewayAssumption DEF NoBinding, Bindings, Offsets, NoFile

(* Without bindings and requests there is nothing to go wrong.             *)
LEMMA InitGood == Init => GInv
<1> SUFFICES ASSUME Init PROVE GInv
  OBVIOUS
<1> USE GatewayAssumption, Named
<1>1. TypeOK
  BY DEF Init, TypeOK, Locations, Offsets, Events
<1>2. Busy
  BY DEF Init, Busy
<1>3. OffsetInLog
  BY DEF Init, OffsetInLog
<1>4. Synced
  BY DEF Init, Synced
<1> QED
  BY <1>1, <1>2, <1>3, <1>4 DEF GInv
-----------------------------------------------------------------------------
(* A request that returns or raises: its thread becomes idle, the others   *)
(* keep theirs.                                                            *)
LEMMA Finished ==
    ASSUME RequestOK, NEW T \in SUBSET Threads, Finish(T)
    PROVE  /\ RequestOK' /\ chat' = chat
           /\ \A u \in T : Ends(u)
           /\ \A u \in Threads \ T : Same(u)
  BY Named, GatewayAssumption DEF RequestOK, Finish, Locations, Offsets, Ends, Same

(* A step that moves one thread on and leaves its request as it is.        *)
LEMMA Moved ==
    ASSUME RequestOK, NEW t \in Threads, pc[t] # "idle",
           NEW l \in Locations \ {"idle", "persist"}, Go(t, l),
           UNCHANGED <<op, chat, sess, own>>
    PROVE  /\ pc' \in [Threads -> Locations] /\ chat' = chat
           /\ \A u \in Threads : Same(u) \/ Moves(u)
  BY DEF RequestOK, Go, Locations, Same, Moves

(* Steps that leave logs and bindings alone, start no request and bring    *)
(* nobody to Persist keep the three facts.                                 *)
LEMMA Kept ==
    ASSUME Busy, OffsetInLog, Synced,
           UNCHANGED <<log, file, binding, chat>>,
           \A u \in Threads : Same(u) \/ Moves(u) \/ Ends(u)
    PROVE  Busy' /\ OffsetInLog' /\ Synced'
<1>1. Busy'
  BY DEF Busy, Bound, Memory, Same, Moves, Ends
<1>2. OffsetInLog'
  BY DEF OffsetInLog
<1>3. Synced'
  BY DEF Synced, Bound, Memory, Same, Moves, Ends
<1> QED
  BY <1>1, <1>2, <1>3

(* What spawn goes on with (session_adapter.py:29-89).                     *)
LEMMA SpawnedGoesOn ==
    ASSUME RequestOK, NEW t \in Threads, pc[t] # "idle", Spawned(t)
    PROVE  /\ RequestOK' /\ chat' = chat
           /\ \A u \in Threads : Same(u) \/ Moves(u) \/ Ends(u)
<1>1. CASE op[t] = "restore"
  <2>1. Finish({t})
    BY <1>1 DEF Spawned
  <2> QED
    BY <2>1, Finished
<1>2. CASE op[t] # "restore"
  <2>1. Go(t, AfterSpawn(t)) /\ UNCHANGED <<op, chat, sess, own, known, got>>
    BY <1>2 DEF Spawned
  <2>2. AfterSpawn(t) \in {"sync", "load", "release"}
    BY DEF AfterSpawn
  <2>3. AfterSpawn(t) \in Locations \ {"idle", "persist"}
    BY <2>2 DEF Locations
  <2> QED
    BY <2>1, <2>3, Moved DEF RequestOK
<1> QED
  BY <1>1, <1>2
-----------------------------------------------------------------------------
(* The requests (core.py:77-277).                                          *)

(* bind_session: a thread in the middle of a request keeps its binding.    *)
LEMMA BindStep ==
    ASSUME GInv, NEW t \in Threads, NEW c \in Chats, NEW s \in Sessions, Bind(t, c, s)
    PROVE  GInv'
<1> USE GatewayAssumption, Named
<1> DEFINE h == HostOf[t]
           b == [session |-> s, offset |-> 0]
<1>1. /\ pc[t] = "idle" /\ pc' = [pc EXCEPT ![t] = "spawn"]
      /\ op' = [op EXCEPT ![t] = "bind"] /\ chat' = [chat EXCEPT ![t] = c]
      /\ sess' = [sess EXCEPT ![t] = s]
      /\ binding' = [binding EXCEPT ![h][c] = b]
      /\ own' = [u \in Threads |->
                   IF u # t /\ HostOf[u] = h /\ chat[u] = c /\ pc[u] # "idle"
                   THEN Bound(u) ELSE own[u]]
      /\ UNCHANGED <<lease, log, file, handles, known, got, seen, again>>
  BY DEF Bind, Begin, Go, files, history
<1>2. h \in Hosts /\ b \in Bindings /\ \A u \in Threads : Bound(u) \in Bindings
  BY DEF GInv, TypeOK, Bindings, Bound, Memory
<1>3. TypeOK'
  BY <1>1, <1>2 DEF GInv, TypeOK, Locations
<1>4. ASSUME NEW u \in Threads, u # t
      PROVE  /\ pc'[u] = pc[u] /\ sess'[u] = sess[u]
             /\ pc[u] = "idle" => own'[u] = NoBinding
             /\ pc[u] # "idle" => Bound(u)' = Bound(u) /\ Bound(u).session \in Sessions
  <2>1. chat'[u] = chat[u] /\ sess'[u] = sess[u] /\ pc'[u] = pc[u]
    BY <1>1, <1>4 DEF GInv, TypeOK
  <2>2. pc[u] = "idle" => own'[u] = NoBinding
    BY <1>1, <1>4 DEF GInv, Busy
  <2>3. ASSUME pc[u] # "idle"
        PROVE  Bound(u)' = Bound(u) /\ Bound(u).session \in Sessions
    <3>1. Bound(u).session \in Sessions /\ Bound(u) \in Bindings /\ Bound(u) # NoBinding
      BY <1>2, <2>3 DEF GInv, Busy
    <3>2. CASE HostOf[u] = h /\ chat[u] = c
      BY <1>1, <1>4, <2>3, <3>1, <3>2 DEF Bound
    <3>3. CASE ~(HostOf[u] = h /\ chat[u] = c)
      <4>1. own'[u] = own[u]
        BY <1>1, <3>3
      <4>2. Memory(u, chat[u])' = Memory(u, chat[u])
        BY <1>1, <1>2, <2>1, <3>3 DEF Memory, GInv, TypeOK
      <4> QED
        BY <3>1, <4>1, <4>2 DEF Bound
    <3> QED
      BY <3>1, <3>2, <3>3
  <2> QED
    BY <2>1, <2>2, <2>3
<1>5. pc'[t] = "spawn" /\ sess'[t] = s /\ Bound(t)' = b
  <2>1. own'[t] = NoBinding
    BY <1>1 DEF GInv, Busy
  <2>2. pc'[t] = "spawn" /\ sess'[t] = s /\ chat'[t] = c /\ binding'[h][c] = b
    BY <1>1, <1>2 DEF GInv, TypeOK
  <2> QED
    BY <2>1, <2>2 DEF Bound, Memory
<1>6. Busy'
  <2> SUFFICES ASSUME NEW u \in Threads
               PROVE  /\ pc'[u] # "idle" => sess'[u] \in Sessions /\ Bound(u)'.session \in Sessions
                      /\ pc'[u] = "idle" => own'[u] = NoBinding
    BY DEF Busy
  <2>1. CASE u = t
    BY <1>5, <2>1
  <2>2. CASE u # t
    BY <1>4, <2>2 DEF GInv, Busy
  <2> QED
    BY <2>1, <2>2
<1>7. OffsetInLog'
  <2>1. ASSUME NEW g \in Hosts, NEW d \in Chats, binding'[g][d] # NoBinding
        PROVE  binding'[g][d].offset <= log'[binding'[g][d].session]
    <3>1. CASE g = h /\ d = c
      <4>1. binding'[g][d] = b /\ log' = log /\ log[s] \in Nat
        BY <1>1, <1>2, <3>1 DEF GInv, TypeOK
      <4> QED
        BY <4>1
    <3>2. CASE ~(g = h /\ d = c)
      <4>1. binding'[g][d] = binding[g][d] /\ log' = log
        BY <1>1, <1>2, <3>2 DEF GInv, TypeOK
      <4> QED
        BY <2>1, <4>1 DEF GInv, OffsetInLog
    <3> QED
      BY <3>1, <3>2
  <2>2. UNCHANGED <<file, log>>
    BY <1>1
  <2> QED
    BY <2>1, <2>2 DEF GInv, OffsetInLog
<1>8. Synced'
  <2> SUFFICES ASSUME NEW u \in Threads, pc'[u] = "persist"
               PROVE  Bound(u)'.offset <= log'[Bound(u)'.session]
    BY DEF Synced
  <2>1. u # t /\ pc[u] = "persist" /\ Bound(u)' = Bound(u) /\ log' = log
    BY <1>1, <1>4, <1>5
  <2> QED
    BY <2>1 DEF GInv, Synced
<1> QED
  BY <1>3, <1>6, <1>7, <1>8 DEF GInv

(* A request that changes no binding in memory and gives its thread one    *)
(* with a session, its own or the one in memory ...                        *)
Starts(t, o, c, s, l, b) ==
    /\ o \in {"turn", "kill", "resume", "replay"} /\ l \in {"spawn", "sync"}
    /\ Begin(t, o, c, s, l)
    /\ own' = [own EXCEPT ![t] = b] /\ UNCHANGED <<binding, known>>
    /\ got' \in [Threads -> SUBSET Events]
    /\ b # NoBinding => b.session \in Sessions
    /\ b = NoBinding => Memory(t, c).session \in Sessions

(* ... leaves the other threads theirs.                                    *)
LEMMA Started ==
    ASSUME GInv, NEW t \in Threads, NEW o, NEW c \in Chats, NEW s \in Sessions, NEW l,
           NEW b \in Bindings, Starts(t, o, c, s, l, b)
    PROVE  GInv'
<1> USE GatewayAssumption, Named DEF Starts
<1>1. /\ pc[t] = "idle" /\ pc' = [pc EXCEPT ![t] = l]
      /\ op' = [op EXCEPT ![t] = o] /\ chat' = [chat EXCEPT ![t] = c]
      /\ sess' = [sess EXCEPT ![t] = s]
      /\ UNCHANGED <<lease, log, file, handles, seen, again>>
  BY DEF Begin, Go, files, history
<1>2. TypeOK'
  BY <1>1 DEF GInv, TypeOK, Locations
<1>3. ASSUME NEW u \in Threads, u # t
      PROVE  Same(u) /\ Bound(u)' = Bound(u)
  BY <1>1, <1>3 DEF GInv, TypeOK, Same, Bound, Memory
<1>4. /\ pc'[t] = l /\ sess'[t] = s /\ own'[t] = b /\ chat'[t] = c
      /\ Memory(t, chat[t])' = Memory(t, c)
  BY <1>1 DEF GInv, TypeOK, Memory
<1>5. Bound(t)'.session \in Sessions
  BY <1>4 DEF Bound
<1>6. Busy'
  BY <1>3, <1>4, <1>5 DEF GInv, Busy, Same
<1>7. OffsetInLog'
  BY <1>1 DEF GInv, OffsetInLog
<1>8. Synced'
  BY <1>1, <1>3, <1>4 DEF GInv, Synced, Same
<1> QED
  BY <1>2, <1>6, <1>7, <1>8 DEF GInv

(* _get_binding restores a checkpoint, which is in the log (core.py:267).  *)
LEMMA RestoreStep ==
    ASSUME GInv, NEW t \in Threads, NEW c \in Chats, Restore(t, c)
    PROVE  GInv'
<1> USE GatewayAssumption, Named
<1>1. PICK s \in Sessions :
         /\ First(s, c) /\ Begin(t, "restore", c, s, "spawn")
         /\ binding' = [binding EXCEPT ![HostOf[t]][c] = [session |-> s, offset |-> file[s][c]]]
  BY DEF Restore
<1> DEFINE h == HostOf[t]
           b == [session |-> s, offset |-> file[s][c]]
<1>2. /\ pc[t] = "idle" /\ pc' = [pc EXCEPT ![t] = "spawn"]
      /\ op' = [op EXCEPT ![t] = "restore"] /\ chat' = [chat EXCEPT ![t] = c]
      /\ sess' = [sess EXCEPT ![t] = s]
      /\ UNCHANGED <<lease, log, file, handles, seen, again, own, known, got>>
      /\ binding[h][c] = NoBinding
  BY <1>1 DEF Restore, Begin, Go, files, history, Memory
<1>3. h \in Hosts /\ file[s][c] \in Offsets /\ b \in Bindings /\ b.offset <= log[s]
  <2>1. file[s][c] \in Offsets \cup {NoFile} /\ h \in Hosts
    BY DEF GInv, TypeOK
  <2>2. file[s][c] # NoFile
    BY <1>1 DEF First
  <2>3. file[s][c] <= log[s]
    BY <2>2 DEF GInv, OffsetInLog
  <2> QED
    BY <2>1, <2>2, <2>3
<1>4. TypeOK'
  BY <1>1, <1>2, <1>3 DEF GInv, TypeOK, Locations
<1>5. ASSUME NEW u \in Threads, u # t, pc[u] # "idle"
      PROVE  Bound(u)' = Bound(u) /\ Bound(u).session \in Sessions
  <2>1. chat'[u] = chat[u] /\ own'[u] = own[u] /\ Bound(u).session \in Sessions
    BY <1>2, <1>5 DEF GInv, TypeOK, Busy
  <2>2. CASE own[u] # NoBinding
    BY <2>1, <2>2 DEF Bound
  <2>3. CASE own[u] = NoBinding
    <3>1. ~(HostOf[u] = h /\ chat[u] = c)
      BY <1>2, <2>1, <2>3 DEF Bound, Memory
    <3>2. Memory(u, chat[u])' = Memory(u, chat[u])
      BY <1>1, <1>3, <2>1, <3>1 DEF Memory, GInv, TypeOK
    <3> QED
      BY <2>1, <3>2 DEF Bound
  <2> QED
    BY <2>2, <2>3
<1>6. pc'[t] = "spawn" /\ sess'[t] = s /\ Bound(t)' = b
  <2>1. own'[t] = NoBinding
    BY <1>2 DEF GInv, Busy
  <2>2. pc'[t] = "spawn" /\ sess'[t] = s /\ chat'[t] = c /\ binding'[h][c] = b
    BY <1>1, <1>2, <1>3 DEF GInv, TypeOK
  <2> QED
    BY <2>1, <2>2 DEF Bound, Memory
<1>7. ASSUME NEW u \in Threads, u # t
      PROVE  pc'[u] = pc[u] /\ sess'[u] = sess[u] /\ own'[u] = own[u]
  BY <1>2, <1>7 DEF GInv, TypeOK
<1>8. Busy'
  <2> SUFFICES ASSUME NEW u \in Threads
               PROVE  /\ pc'[u] # "idle" => sess'[u] \in Sessions /\ Bound(u)'.session \in Sessions
                      /\ pc'[u] = "idle" => own'[u] = NoBinding
    BY DEF Busy
  <2>1. CASE u = t
    BY <1>6, <2>1
  <2>2. CASE u # t
    BY <1>5, <1>7, <2>2 DEF GInv, Busy
  <2> QED
    BY <2>1, <2>2
<1>9. OffsetInLog'
  <2>1. ASSUME NEW g \in Hosts, NEW d \in Chats, binding'[g][d] # NoBinding
        PROVE  binding'[g][d].offset <= log'[binding'[g][d].session]
    <3>1. CASE g = h /\ d = c
      BY <1>1, <1>2, <1>3, <3>1 DEF GInv, TypeOK
    <3>2. CASE ~(g = h /\ d = c)
      <4>1. binding'[g][d] = binding[g][d] /\ log' = log
        BY <1>1, <1>2, <1>3, <3>2 DEF GInv, TypeOK
      <4> QED
        BY <2>1, <4>1 DEF GInv, OffsetInLog
    <3> QED
      BY <3>1, <3>2
  <2>2. UNCHANGED <<file, log>>
    BY <1>2
  <2> QED
    BY <2>1, <2>2 DEF GInv, OffsetInLog
<1>10. Synced'
  <2> SUFFICES ASSUME NEW u \in Threads, pc'[u] = "persist"
               PROVE  Bound(u)'.offset <= log'[Bound(u)'.session]
    BY DEF Synced
  <2>1. u # t /\ pc[u] = "persist" /\ Bound(u)' = Bound(u) /\ log' = log
    BY <1>2, <1>5, <1>6, <1>7
  <2> QED
    BY <2>1 DEF GInv, Synced
<1> QED
  BY <1>4, <1>8, <1>9, <1>10 DEF GInv

(* A message or a card's button (core.py:161-259).                         *)
LEMMA RouteStep ==
    ASSUME GInv, NEW t \in Threads, NEW o \in {"turn", "kill"}, NEW c \in Chats,
           NEW s \in Sessions, Route(t, o, c, s)
    PROVE  GInv'
<1> USE GatewayAssumption, Named
<1> DEFINE b == IF s = Memory(t, c).session THEN NoBinding
                ELSE [Memory(t, c) EXCEPT !.session = s]
<1>1. /\ Memory(t, c) # NoBinding /\ Begin(t, o, c, s, "spawn")
      /\ own' = [own EXCEPT ![t] = b] /\ UNCHANGED <<binding, known, got>>
  BY DEF Route
<1>2. Memory(t, c) \in Bindings
  BY DEF GInv, TypeOK, Memory
<1>3. Memory(t, c) \in [session : Sessions, offset : Offsets]
  BY <1>1, <1>2 DEF Bindings
<1>4. b \in Bindings /\ (b # NoBinding => b.session \in Sessions)
  BY <1>3 DEF Bindings
<1>5. Memory(t, c).session \in Sessions
  BY <1>3
<1>6. got' \in [Threads -> SUBSET Events]
  BY <1>1 DEF GInv, TypeOK
<1>7. PICK x \in Bindings : x = b
  BY <1>4
<1>8. Starts(t, o, c, s, "spawn", x)
  BY <1>1, <1>4, <1>5, <1>6, <1>7 DEF Starts
<1> QED
  BY <1>8, Started

(* Resuming and replaying only read (core.py:136-159).                     *)
LEMMA ReadStep ==
    ASSUME GInv, NEW t \in Threads, NEW o \in {"resume", "replay"}, NEW c \in Chats,
           NEW from \in Nat, Read(t, o, c, from)
    PROVE  GInv'
<1> USE GatewayAssumption, Named
<1> DEFINE s == Memory(t, c).session
<1>1. /\ Memory(t, c) # NoBinding /\ Begin(t, o, c, s, "sync")
      /\ got' = [got EXCEPT ![t] = (from + 1)..log[s]]
      /\ UNCHANGED <<binding, own, known>>
  BY DEF Read
<1>2. s \in Sessions
  BY <1>1 DEF GInv, TypeOK, Memory
<1>3. own' = [own EXCEPT ![t] = NoBinding]
  BY <1>1 DEF GInv, TypeOK, Busy, Begin
<1>4. (from + 1)..log[s] \in SUBSET Events
  <2> HIDE DEF s
  <2>1. log[s] \in Nat /\ log[s] <= MaxLog
    BY <1>2 DEF GInv, TypeOK, Offsets
  <2>2. \A n \in (from + 1)..log[s] : n \in Events
    BY <2>1 DEF Events
  <2> QED
    BY <2>2
<1>5. got' \in [Threads -> SUBSET Events]
  BY <1>1, <1>4 DEF GInv, TypeOK
<1>6. PICK r \in Sessions : r = s
  BY <1>2
<1>7. Starts(t, o, c, r, "sync", NoBinding)
  BY <1>1, <1>2, <1>3, <1>5, <1>6 DEF Starts
<1> QED
  BY <1>7, Started
-----------------------------------------------------------------------------
(* The steps of a request that leave logs and bindings alone.              *)

Others == /\ lease' \in [Sessions -> {GatewayId[h] : h \in Hosts} \cup {NoId}]
          /\ handles' \in [Hosts -> SUBSET Sessions]
          /\ seen' \in [Chats -> [Sessions -> SUBSET Events]] /\ again' \subseteq Chats
          /\ UNCHANGED <<log, file, binding>>

(* They keep the invariant.                                                *)
LEMMA Quiet ==
    ASSUME GInv, Others, RequestOK', chat' = chat,
           \A u \in Threads : Same(u) \/ Moves(u) \/ Ends(u)
    PROVE  GInv'
<1>1. TypeOK'
  BY DEF GInv, TypeOK, Others, RequestOK
<1>2. Busy' /\ OffsetInLog' /\ Synced'
  BY Kept DEF GInv, Others
<1> QED
  BY <1>1, <1>2 DEF GInv

(* A step to another place of the request.                                 *)
LEMMA MoveStep ==
    ASSUME GInv, NEW t \in Threads, pc[t] # "idle",
           NEW l \in Locations \ {"idle", "persist"}, Go(t, l), Others,
           UNCHANGED <<op, chat, sess, own>>,
           known' \in [Threads -> Offsets], got' \in [Threads -> SUBSET Events]
    PROVE  GInv'
<1>1. RequestOK
  BY DEF GInv, TypeOK, RequestOK
<1>2. RequestOK' /\ chat' = chat /\ \A u \in Threads : Same(u) \/ Moves(u)
  BY <1>1, Moved DEF RequestOK
<1> QED
  BY <1>2, Quiet

(* A step that ends requests.                                              *)
LEMMA FinishStep ==
    ASSUME GInv, NEW T \in SUBSET Threads, Finish(T), Others
    PROVE  GInv'
<1>1. RequestOK
  BY DEF GInv, TypeOK, RequestOK
<1>2. RequestOK' /\ chat' = chat /\ \A u \in Threads : Same(u) \/ Ends(u)
  BY <1>1, Finished
<1> QED
  BY <1>2, Quiet

(* A step that ends spawn and goes on with the request.                    *)
LEMMA SpawnedStep ==
    ASSUME GInv, NEW t \in Threads, pc[t] # "idle", Spawned(t), Others
    PROVE  GInv'
<1>1. RequestOK
  BY DEF GInv, TypeOK, RequestOK
<1>2. RequestOK' /\ chat' = chat /\ \A u \in Threads : Same(u) \/ Moves(u) \/ Ends(u)
  BY <1>1, SpawnedGoesOn
<1> QED
  BY <1>2, Quiet

(* The session adapter's steps (session_adapter.py, store.py:174-211).     *)
LEMMA AdapterStep ==
    ASSUME GInv, NEW t \in Threads,
           \/ Spawn(t) \/ ReadLease(t) \/ WriteLease(t) \/ ReadForRelease(t) \/ Unlink(t)
    PROVE  GInv'
<1> USE GatewayAssumption, Named
<1>1. /\ {t} \in SUBSET Threads
      /\ "lease" \in Locations \ {"idle", "persist"}
      /\ "take" \in Locations \ {"idle", "persist"}
      /\ "unlink" \in Locations \ {"idle", "persist"}
  BY DEF Locations
<1>2. UNCHANGED <<files, hostMem, history>> => Others
  BY DEF GInv, TypeOK, Others, files, hostMem, history
<1>3. UNCHANGED <<known, got>> =>
        known' \in [Threads -> Offsets] /\ got' \in [Threads -> SUBSET Events]
  BY DEF GInv, TypeOK
<1>4. pc[t] # "idle" => sess[t] \in Sessions
  BY DEF GInv, Busy
<1>5. CASE Spawn(t)
  <2>1. pc[t] # "idle" /\ Others
    BY <1>2, <1>5 DEF Spawn
  <2>2. CASE sess[t] \in handles[HostOf[t]]
    BY <1>5, <2>1, <2>2, SpawnedStep DEF Spawn
  <2>3. CASE sess[t] \notin handles[HostOf[t]]
    <3>1. Go(t, "lease") /\ UNCHANGED <<op, chat, sess, own, known, got>>
      BY <1>5, <2>3 DEF Spawn
    <3> QED
      BY <1>1, <1>3, <2>1, <3>1, MoveStep
  <2> QED
    BY <2>2, <2>3
<1>6. CASE ReadLease(t)
  <2>1. pc[t] # "idle" /\ Others
    BY <1>2, <1>6 DEF ReadLease
  <2>2. CASE lease[sess[t]] \in {NoId, Id(t)}
    <3>1. Go(t, "take") /\ UNCHANGED <<op, chat, sess, own, known, got>>
      BY <1>6, <2>2 DEF ReadLease
    <3> QED
      BY <1>1, <1>3, <2>1, <3>1, MoveStep
  <2>3. CASE lease[sess[t]] \notin {NoId, Id(t)}
    <3>1. Finish({t})
      BY <1>6, <2>3 DEF ReadLease
    <3> QED
      BY <1>1, <2>1, <3>1, FinishStep
  <2> QED
    BY <2>2, <2>3
<1>7. CASE WriteLease(t)
  <2>1. pc[t] # "idle" /\ Spawned(t)
    BY <1>7 DEF WriteLease
  <2>2. Others
    BY <1>4, <1>7, <2>1 DEF WriteLease, Others, GInv, TypeOK, Id, history
  <2> QED
    BY <2>1, <2>2, SpawnedStep
<1>8. CASE ReadForRelease(t)
  <2>1. pc[t] # "idle" /\ Others
    BY <1>2, <1>8 DEF ReadForRelease
  <2>2. CASE lease[sess[t]] = Id(t)
    <3>1. Go(t, "unlink") /\ UNCHANGED <<op, chat, sess, own, known, got>>
      BY <1>8, <2>2 DEF ReadForRelease
    <3> QED
      BY <1>1, <1>3, <2>1, <3>1, MoveStep
  <2>3. CASE lease[sess[t]] # Id(t)
    <3>1. Finish({t})
      BY <1>8, <2>3 DEF ReadForRelease
    <3> QED
      BY <1>1, <2>1, <3>1, FinishStep
  <2> QED
    BY <2>2, <2>3
<1>9. CASE Unlink(t)
  <2>1. pc[t] # "idle" /\ Finish({t})
    BY <1>9 DEF Unlink
  <2>2. Others
    BY <1>4, <1>9, <2>1 DEF Unlink, Others, GInv, TypeOK, hostMem, history
  <2> QED
    BY <1>1, <2>1, <2>2, FinishStep
<1> QED
  BY <1>5, <1>6, <1>7, <1>8, <1>9

(* Loading, returning, raising and delivering (session_adapter.py:59-78).  *)
LEMMA TurnStep ==
    ASSUME GInv, NEW t \in Threads,
           TurnLoad(t) \/ TurnReturns(t) \/ TurnRaises(t) \/ Deliver(t)
    PROVE  GInv'
<1> USE GatewayAssumption, Named
<1>1. /\ {t} \in SUBSET Threads
      /\ "turn" \in Locations \ {"idle", "persist"}
      /\ "sync" \in Locations \ {"idle", "persist"}
  BY DEF Locations
<1>2. UNCHANGED <<files, hostMem, history>> => Others
  BY DEF GInv, TypeOK, Others, files, hostMem, history
<1>3. pc[t] # "idle" => sess[t] \in Sessions
  BY DEF GInv, Busy
<1>4. CASE TurnLoad(t)
  <2>1. pc[t] # "idle" /\ Others /\ Go(t, "turn") /\ UNCHANGED <<op, chat, sess, own>>
    BY <1>2, <1>4 DEF TurnLoad
  <2>2. known' \in [Threads -> Offsets] /\ got' \in [Threads -> SUBSET Events]
    BY <1>3, <1>4 DEF TurnLoad, GInv, TypeOK
  <2> QED
    BY <1>1, <2>1, <2>2, MoveStep
<1>5. CASE TurnReturns(t)
  <2>1. pc[t] # "idle" /\ Others /\ Go(t, "sync") /\ UNCHANGED <<op, chat, sess, own>>
    BY <1>2, <1>5 DEF TurnReturns
  <2>2. known' \in [Threads -> Offsets] /\ got' \in [Threads -> SUBSET Events]
    BY <1>5 DEF TurnReturns, GInv, TypeOK
  <2> QED
    BY <1>1, <2>1, <2>2, MoveStep
<1>6. CASE TurnRaises(t)
  <2>1. Finish({t}) /\ Others
    BY <1>2, <1>6 DEF TurnRaises, Return
  <2> QED
    BY <1>1, <2>1, FinishStep
<1>7. CASE Deliver(t)
  <2>1. pc[t] # "idle" /\ Finish({t})
    BY <1>7 DEF Deliver
  <2>2. chat[t] \in Chats /\ got[t] \in SUBSET Events /\ sess[t] \in Sessions
    BY <1>3, <2>1 DEF GInv, TypeOK
  <2>3. seen' \in [Chats -> [Sessions -> SUBSET Events]] /\ again' \subseteq Chats
    <3>1. seen[chat[t]] \in [Sessions -> SUBSET Events] /\ again \subseteq Chats
      BY <2>2 DEF GInv, TypeOK
    <3>2. [seen[chat[t]] EXCEPT ![sess[t]] = @ \cup got[t]] \in [Sessions -> SUBSET Events]
      BY <2>2, <3>1
    <3>3. seen' = [seen EXCEPT ![chat[t]] = [seen[chat[t]] EXCEPT ![sess[t]] = @ \cup got[t]]]
      BY <1>7, <2>2 DEF Deliver, GInv, TypeOK
    <3>4. seen' \in [Chats -> [Sessions -> SUBSET Events]]
      BY <2>2, <3>2, <3>3 DEF GInv, TypeOK
    <3>5. again' \subseteq Chats
      BY <1>7, <2>2, <3>1 DEF Deliver
    <3> QED
      BY <3>4, <3>5
  <2>4. Others
    BY <1>7, <2>3 DEF Deliver, Others, GInv, TypeOK, files, hostMem
  <2> QED
    BY <1>1, <2>1, <2>4, FinishStep
<1> QED
  BY <1>4, <1>5, <1>6, <1>7
-----------------------------------------------------------------------------
(* The steps that change a log, a checkpoint or a binding file.            *)

(* A save only extends the log (store.py:81).                              *)
LEMMA SaveStep ==
    ASSUME GInv, NEW t \in Threads, TurnSave(t)
    PROVE  GInv'
<1> USE GatewayAssumption, Named
<1>1. /\ pc[t] = "turn" /\ log[sess[t]] = known[t] /\ known[t] < MaxLog
      /\ log' = [log EXCEPT ![sess[t]] = @ + 1]
      /\ known' = [known EXCEPT ![t] = @ + 1]
      /\ got' = [got EXCEPT ![t] = @ \cup {known[t] + 1}]
      /\ UNCHANGED <<lease, file, handles, binding, pc, op, chat, sess, own, seen, again>>
  BY DEF TurnSave, hostMem, history
<1>2. sess[t] \in Sessions /\ known[t] \in Nat
  BY <1>1 DEF GInv, TypeOK, Busy, Offsets
<1>3. known[t] + 1 \in Offsets /\ known[t] + 1 \in Events
  BY <1>1, <1>2 DEF Offsets, Events
<1>4. log' \in [Sessions -> Offsets] /\ \A s \in Sessions : log[s] <= log'[s]
  <2>1. log' = [log EXCEPT ![sess[t]] = known[t] + 1]
    BY <1>1
  <2>2. log' \in [Sessions -> Offsets]
    BY <1>3, <2>1 DEF GInv, TypeOK
  <2>3. ASSUME NEW s \in Sessions PROVE log[s] <= log'[s]
    <3>1. log[s] \in Nat
      BY DEF GInv, TypeOK
    <3> QED
      BY <1>1, <1>2, <2>1, <3>1 DEF GInv, TypeOK
  <2> QED
    BY <2>2, <2>3
<1>5. got' \in [Threads -> SUBSET Events] /\ known' \in [Threads -> Offsets]
  BY <1>1, <1>3 DEF GInv, TypeOK
<1>6. TypeOK'
  BY <1>1, <1>4, <1>5 DEF GInv, TypeOK
<1>7. \A u \in Threads : Bound(u)' = Bound(u) /\ Bound(u) \in Bindings
  BY <1>1 DEF Bound, Memory, GInv, TypeOK
<1>8. Busy'
  BY <1>1, <1>7 DEF GInv, Busy
<1>9. ASSUME NEW n \in Offsets, NEW s \in Sessions, n <= log[s]
      PROVE  n <= log'[s]
  <2>1. n \in Nat /\ log[s] \in Nat /\ log'[s] \in Nat /\ log[s] <= log'[s]
    BY <1>4 DEF GInv, TypeOK
  <2> QED
    BY <1>9, <2>1
<1>10. OffsetInLog'
  <2>1. ASSUME NEW g \in Hosts, NEW d \in Chats, binding'[g][d] # NoBinding
        PROVE  binding'[g][d].offset <= log'[binding'[g][d].session]
    <3>1. /\ binding'[g][d] = binding[g][d] /\ binding[g][d].session \in Sessions
          /\ binding[g][d].offset \in Offsets
      BY <1>1, <2>1 DEF GInv, TypeOK
    <3> QED
      BY <1>9, <2>1, <3>1 DEF GInv, OffsetInLog
  <2>2. ASSUME NEW s \in Sessions, NEW d \in Chats, file'[s][d] # NoFile
        PROVE  file'[s][d] <= log'[s]
    <3>1. file'[s][d] = file[s][d] /\ file[s][d] \in Offsets
      BY <1>1, <2>2 DEF GInv, TypeOK
    <3> QED
      BY <1>9, <2>2, <3>1 DEF GInv, OffsetInLog
  <2> QED
    BY <2>1, <2>2 DEF OffsetInLog
<1>11. Synced'
  <2> SUFFICES ASSUME NEW u \in Threads, pc'[u] = "persist"
               PROVE  Bound(u)'.offset <= log'[Bound(u)'.session]
    BY DEF Synced
  <2>1. pc[u] = "persist" /\ Bound(u)' = Bound(u)
    BY <1>1, <1>7
  <2>2. Bound(u).session \in Sessions /\ Bound(u).offset \in Offsets
    BY <1>7, <2>1 DEF GInv, Busy
  <2> QED
    BY <1>9, <2>1, <2>2 DEF GInv, Synced
<1> QED
  BY <1>6, <1>8, <1>10, <1>11 DEF GInv

(* _sync_binding_checkpoint takes the length of the binding's own log      *)
(* (core.py:303-307).                                                      *)
LEMMA SyncStep ==
    ASSUME GInv, NEW t \in Threads, Sync(t)
    PROVE  GInv'
<1> USE GatewayAssumption, Named
<1> DEFINE h == HostOf[t]
           s == Bound(t).session
           n == log[s]
           b == [Bound(t) EXCEPT !.offset = n]
<1>1. /\ pc[t] = "sync" /\ SetOffset(t, n) /\ pc' = [pc EXCEPT ![t] = "persist"]
      /\ UNCHANGED <<lease, log, file, handles, op, chat, sess, known, got, seen, again>>
  BY DEF Sync, Go, files, history
<1>2. /\ h \in Hosts /\ chat[t] \in Chats /\ s \in Sessions
      /\ \A u \in Threads : Bound(u) \in Bindings
  BY <1>1 DEF GInv, TypeOK, Busy, Bound, Memory
<1>3. n \in Offsets /\ n <= n
  <2> HIDE DEF s
  <2>1. n \in Offsets
    BY <1>2 DEF GInv, TypeOK
  <2>2. n \in Nat
    BY <2>1
  <2> QED
    BY <2>1, <2>2
<1>4. Bound(t) \in [session : Sessions, offset : Offsets]
  BY <1>2 DEF Bindings
<1>5. b \in Bindings /\ b.session = s /\ b.offset = n /\ b # NoBinding
  BY <1>2, <1>3, <1>4 DEF Bindings
<1>6. CASE own[t] = NoBinding
  <2>1. binding' = [binding EXCEPT ![h][chat[t]] = b] /\ own' = own
    BY <1>1, <1>2, <1>6 DEF SetOffset, Bound, Memory, GInv, TypeOK
  <2> HIDE DEF b, s, n
  <2>2. TypeOK'
    BY <1>1, <1>2, <1>5, <2>1 DEF GInv, TypeOK, Locations
  <2>3. ASSUME NEW u \in Threads
        PROVE  \/ Bound(u)' = Bound(u)
               \/ Bound(u)' = b
    <3>1. CASE own[u] # NoBinding
      BY <1>1, <2>1, <3>1 DEF Bound
    <3>2. CASE own[u] = NoBinding
      BY <1>1, <1>2, <2>1, <3>2 DEF Bound, Memory, GInv, TypeOK
    <3> QED
      BY <3>1, <3>2
  <2>4. Busy'
    <3> SUFFICES ASSUME NEW u \in Threads
                 PROVE  /\ pc'[u] # "idle" => sess'[u] \in Sessions /\ Bound(u)'.session \in Sessions
                        /\ pc'[u] = "idle" => own'[u] = NoBinding
      BY DEF Busy
    <3>1. pc'[u] = "idle" <=> pc[u] = "idle"
      BY <1>1 DEF GInv, TypeOK
    <3> QED
      BY <1>1, <1>2, <1>5, <2>1, <2>3, <3>1 DEF GInv, Busy
  <2>5. Synced'
    <3> SUFFICES ASSUME NEW u \in Threads, pc'[u] = "persist"
                 PROVE  Bound(u)'.offset <= log[Bound(u)'.session]
      BY <1>1 DEF Synced
    <3>1. CASE Bound(u)' = b
      BY <1>3, <1>5, <3>1 DEF n
    <3>2. CASE u # t /\ Bound(u)' = Bound(u)
      <4>1. pc[u] = "persist"
        BY <1>1, <3>2 DEF GInv, TypeOK
      <4> QED
        BY <3>2, <4>1 DEF GInv, Synced
    <3>3. Bound(t)' = b
      BY <1>1, <1>2, <1>6, <2>1 DEF Bound, Memory, GInv, TypeOK
    <3> QED
      BY <2>3, <3>1, <3>2, <3>3
  <2>6. OffsetInLog'
    <3>1. ASSUME NEW g \in Hosts, NEW d \in Chats, binding'[g][d] # NoBinding
          PROVE  binding'[g][d].offset <= log'[binding'[g][d].session]
      <4>1. CASE g = h /\ d = chat[t]
        <5>1. binding'[g][d] = b
          BY <1>2, <2>1, <4>1 DEF GInv, TypeOK
        <5> QED
          BY <1>1, <1>3, <1>5, <5>1 DEF n
      <4>2. CASE ~(g = h /\ d = chat[t])
        <5>1. binding'[g][d] = binding[g][d]
          BY <1>2, <2>1, <4>2 DEF GInv, TypeOK
        <5> QED
          BY <1>1, <3>1, <5>1 DEF GInv, OffsetInLog
      <4> QED
        BY <4>1, <4>2
    <3> QED
      BY <1>1, <3>1 DEF GInv, OffsetInLog
  <2> QED
    BY <2>2, <2>4, <2>5, <2>6 DEF GInv
<1>7. CASE own[t] # NoBinding
  <2>1. own' = [own EXCEPT ![t] = b] /\ binding' = binding
    BY <1>1, <1>2, <1>7 DEF SetOffset, Bound, GInv, TypeOK
  <2> HIDE DEF b, s, n
  <2>2. TypeOK'
    BY <1>1, <1>2, <1>5, <2>1 DEF GInv, TypeOK, Locations
  <2>3. /\ Bound(t)' = b
        /\ \A u \in Threads \ {t} : Bound(u)' = Bound(u) /\ pc'[u] = pc[u] /\ own'[u] = own[u]
    BY <1>1, <1>5, <2>1 DEF Bound, Memory, GInv, TypeOK
  <2>4. pc'[t] = "persist"
    BY <1>1 DEF GInv, TypeOK
  <2>5. Busy'
    <3> SUFFICES ASSUME NEW u \in Threads
                 PROVE  /\ pc'[u] # "idle" => sess'[u] \in Sessions /\ Bound(u)'.session \in Sessions
                        /\ pc'[u] = "idle" => own'[u] = NoBinding
      BY DEF Busy
    <3>1. CASE u = t
      BY <1>1, <1>2, <1>5, <2>3, <2>4, <3>1 DEF GInv, Busy
    <3>2. CASE u # t
      BY <1>1, <2>3, <3>2 DEF GInv, Busy
    <3> QED
      BY <3>1, <3>2
  <2>6. Synced'
    <3> SUFFICES ASSUME NEW u \in Threads, pc'[u] = "persist"
                 PROVE  Bound(u)'.offset <= log[Bound(u)'.session]
      BY <1>1 DEF Synced
    <3>1. CASE u = t
      BY <1>3, <1>5, <2>3, <3>1 DEF n
    <3>2. CASE u # t
      BY <2>3, <3>2 DEF GInv, Synced
    <3> QED
      BY <3>1, <3>2
  <2>7. OffsetInLog'
    BY <1>1, <2>1 DEF GInv, OffsetInLog
  <2> QED
    BY <2>2, <2>5, <2>6, <2>7 DEF GInv
<1> QED
  BY <1>6, <1>7

(* save_binding writes what has been synced (binding_store.py:18-33).      *)
LEMMA PersistStep ==
    ASSUME GInv, NEW t \in Threads, Persist(t)
    PROVE  GInv'
<1> USE GatewayAssumption, Named
<1> DEFINE s == Bound(t).session
           n == Bound(t).offset
<1>1. /\ pc[t] = "persist" /\ file' = [file EXCEPT ![s][chat[t]] = n]
      /\ pc' = [pc EXCEPT ![t] = "deliver"]
      /\ UNCHANGED <<lease, log, handles, binding, op, chat, sess, own, known, got, seen, again>>
  BY DEF Persist, Go, hostMem, history
<1>2. s \in Sessions /\ n \in Offsets /\ n <= log[s] /\ chat[t] \in Chats
  <2>1. Bound(t) \in Bindings /\ chat[t] \in Chats
    BY DEF GInv, TypeOK, Bound, Memory
  <2>2. s \in Sessions
    BY <1>1 DEF GInv, Busy
  <2> QED
    BY <1>1, <2>1, <2>2 DEF GInv, Synced
<1>3. \A u \in Threads : Bound(u)' = Bound(u)
  BY <1>1 DEF Bound, Memory
<1> HIDE DEF s, n
<1>4. TypeOK'
  BY <1>1, <1>2 DEF GInv, TypeOK, Locations
<1>5. \A u \in Threads : /\ pc'[u] = "idle" <=> pc[u] = "idle"
                         /\ pc'[u] = "persist" => pc[u] = "persist"
  BY <1>1 DEF GInv, TypeOK
<1>6. Busy'
  BY <1>1, <1>3, <1>5 DEF GInv, Busy
<1>7. Synced'
  BY <1>1, <1>3, <1>5 DEF GInv, Synced
<1>8. OffsetInLog'
  <2>1. ASSUME NEW r \in Sessions, NEW d \in Chats, file'[r][d] # NoFile
        PROVE  file'[r][d] <= log'[r]
    <3>1. CASE r = s /\ d = chat[t]
      BY <1>1, <1>2, <3>1 DEF GInv, TypeOK
    <3>2. CASE ~(r = s /\ d = chat[t])
      <4>1. file'[r][d] = file[r][d]
        BY <1>1, <1>2, <3>2 DEF GInv, TypeOK
      <4> QED
        BY <1>1, <2>1, <4>1 DEF GInv, OffsetInLog
    <3> QED
      BY <3>1, <3>2
  <2> QED
    BY <1>1, <2>1 DEF GInv, OffsetInLog
<1> QED
  BY <1>4, <1>6, <1>7, <1>8 DEF GInv

(* A restarted host has no bindings and no requests.                       *)
LEMMA CrashStep ==
    ASSUME GInv, NEW h \in Hosts, Crash(h)
    PROVE  GInv'
<1> USE GatewayAssumption, Named
<1> DEFINE T == {t \in Threads : HostOf[t] = h}
<1>1. /\ handles' = [handles EXCEPT ![h] = {}]
      /\ binding' = [binding EXCEPT ![h] = [c \in Chats |-> NoBinding]]
      /\ Finish(T)
      /\ UNCHANGED <<lease, log, file, seen, again>>
  BY DEF Crash, files, history
<1>2. RequestOK
  BY DEF GInv, TypeOK, RequestOK
<1>3. T \in SUBSET Threads
  OBVIOUS
<1>4. /\ RequestOK' /\ chat' = chat
      /\ \A u \in T : Ends(u)
      /\ \A u \in Threads \ T : Same(u)
  BY <1>1, <1>2, <1>3, Finished
<1>5. TypeOK'
  BY <1>1, <1>4 DEF GInv, TypeOK, RequestOK
<1>6. ASSUME NEW u \in Threads \ T
      PROVE  Bound(u)' = Bound(u)
  <2>1. binding'[HostOf[u]] = binding[HostOf[u]] /\ own'[u] = own[u] /\ chat' = chat
    BY <1>1, <1>4 DEF Same, GInv, TypeOK
  <2> QED
    BY <2>1 DEF Bound, Memory
<1>7. Busy'
  BY <1>4, <1>6 DEF GInv, Busy, Same, Ends
<1>8. Synced'
  BY <1>1, <1>4, <1>6 DEF GInv, Synced, Same, Ends
<1>9. OffsetInLog'
  BY <1>1 DEF GInv, OffsetInLog, TypeOK
<1> QED
  BY <1>5, <1>7, <1>8, <1>9 DEF GInv
-----------------------------------------------------------------------------
(* Every step of every thread and host keeps the invariant.                *)
LEMMA NextStep == GInv /\ [Next]_vars => GInv'
<1> SUFFICES ASSUME GInv, [Next]_vars PROVE GInv'
  OBVIOUS
<1>1. ASSUME NEW t \in Threads, Ask(t) PROVE GInv'
  <2>1. PICK c \in Chats :
           \/ \E s \in Sessions : Bind(t, c, s) \/ Route(t, "turn", c, s) \/ Route(t, "kill", c, s)
           \/ Restore(t, c) \/ Resume(t, c) \/ Replay(t, c)
    BY <1>1 DEF Ask
  <2>2. ASSUME NEW s \in Sessions, Bind(t, c, s) PROVE GInv'
    BY <2>2, BindStep
  <2>3. ASSUME NEW s \in Sessions, Route(t, "turn", c, s) \/ Route(t, "kill", c, s) PROVE GInv'
    BY <2>3, RouteStep
  <2>4. CASE Restore(t, c)
    BY <2>4, RestoreStep
  <2>5. CASE Resume(t, c)
    <3>1. Read(t, "resume", c, Memory(t, c).offset)
      BY <2>5 DEF Resume
    <3>2. Memory(t, c).offset \in Nat
      <4>1. Memory(t, c) \in Bindings
        BY GatewayAssumption DEF Memory, GInv, TypeOK
      <4>2. Memory(t, c) # NoBinding
        BY <3>1 DEF Read
      <4> QED
        BY <4>1, <4>2, Named
    <3>3. PICK n \in Nat : Read(t, "resume", c, n)
      BY <3>1, <3>2
    <3> QED
      BY <3>3, ReadStep
  <2>6. CASE Replay(t, c)
    <3>1. PICK n \in 0..MaxLog : Read(t, "replay", c, n)
      BY <2>6 DEF Replay
    <3>2. n \in Nat
      BY GatewayAssumption
    <3> QED
      BY <3>1, <3>2, ReadStep
  <2> QED
    BY <2>1, <2>2, <2>3, <2>4, <2>5, <2>6
<1>2. ASSUME NEW t \in Threads, Serve(t) PROVE GInv'
  BY <1>2, AdapterStep, TurnStep, SaveStep, SyncStep, PersistStep DEF Serve
<1>3. ASSUME NEW h \in Hosts, Crash(h) PROVE GInv'
  BY <1>3, CrashStep
<1>4. CASE UNCHANGED vars
  BY <1>4 DEF GInv, TypeOK, Busy, OffsetInLog, Synced, Bound, Memory,
              vars, files, hostMem, request, history
<1> QED
  BY <1>1, <1>2, <1>3, <1>4 DEF Next

(* The whole inductive invariant holds in every reachable state.           *)
THEOREM Invariant == Spec => []GInv
  BY InitGood, NextStep, PTL DEF Spec

(* Leases, bindings and requests keep their types, whatever the hosts and  *)
(* their threads do at the same time (store.py:174, core.py:77-309).       *)
THEOREM GatewayTypes == Spec => []TypeOK
<1>1. GInv => TypeOK
  BY DEF GInv
<1> QED
  BY <1>1, Invariant, PTL

(* No checkpoint, in memory or in a file, points past the end of its log,  *)
(* for any number of hosts, threads, chats and sessions, any crashes, and  *)
(* two threads of one chat at once (core.py:205-216, 279-309).             *)
THEOREM CheckpointsInLog == Spec => []OffsetInLog
<1>1. GInv => OffsetInLog
  BY DEF GInv
<1> QED
  BY <1>1, Invariant, PTL
-----------------------------------------------------------------------------
(* Nothing is sent twice, when each chat has its own thread, and the hosts *)
(* one gateway id, as all that the repository creates                      *)
(* (session_adapter.py:22).                                                *)
OwnThreads == \A t, u \in Threads : Serves[t] \cap Serves[u] # {} => t = u
OneId      == \A g, h \in Hosts : GatewayId[g] = GatewayId[h]

UpTo(E, n) == \A e \in E : e <= n
Had(t)     == seen[chat[t]][sess[t]]

(* A request keeps to its chat and session, and has its own way through    *)
(* the locations.                                                          *)
Orderly(t) ==
    /\ chat[t] \in Serves[t]
    /\ pc[t] = "idle" => op[t] = "none" /\ got[t] = {}
    /\ pc[t] # "idle" => Bound(t).session = sess[t] /\ UpTo(got[t], log[sess[t]])
    /\ pc[t] \in {"spawn", "lease", "take"} => op[t] \in {"bind", "restore", "turn", "kill"}
    /\ pc[t] \in {"load", "turn"} => op[t] = "turn"
    /\ pc[t] \in {"release", "unlink"} => op[t] = "kill"
    /\ own[t] # NoBinding =>
          op[t] # "bind" /\ Memory(t, chat[t]).session # own[t].session

(* bind_session has put a binding at offset 0 in place and not synced it.  *)
Rebinding(t, c) ==
    op[t] = "bind" /\ chat[t] = c /\ pc[t] \in {"spawn", "lease", "take", "sync"}

(* The chat has been sent nothing that lies beyond the checkpoint, and not *)
(* yet what a turn or resume is about to send.                             *)
Covered(t) ==
    /\ \A c \in Serves[t] :
          Memory(t, c) # NoBinding /\ ~Rebinding(t, c) =>
              UpTo(seen[c][Memory(t, c).session], Memory(t, c).offset)
    /\ pc[t] = "persist" => UpTo(Had(t), Bound(t).offset)
    /\ pc[t] \in {"persist", "deliver"} => UpTo(got[t], Bound(t).offset)
    /\ pc[t] = "deliver" =>
          file[sess[t]][chat[t]] # NoFile /\ UpTo(got[t], file[sess[t]][chat[t]])
    /\ op[t] # "replay" /\ pc[t] # "idle" => got[t] \cap Had(t) = {}

(* Nor anything that lies beyond the checkpoint in its file.               *)
Recorded ==
    \A s \in Sessions, c \in Chats :
        IF file[s][c] = NoFile THEN seen[c][s] = {} ELSE UpTo(seen[c][s], file[s][c])

OnceInv == AtMostOnce /\ Recorded /\ \A t \in Threads : Orderly(t) /\ Covered(t)

(* What a step leaves a thread whose chats it does not touch.              *)
Untouched(u) ==
    /\ pc'[u] = pc[u] /\ op'[u] = op[u] /\ chat'[u] = chat[u] /\ sess'[u] = sess[u]
    /\ own'[u] = own[u] /\ got'[u] = got[u]
    /\ \A s \in Sessions : log[s] <= log'[s]
    /\ \A c \in Serves[u] :
          /\ Memory(u, c)' = Memory(u, c) /\ seen'[c] = seen[c]
          /\ \A s \in Sessions : file'[s][c] = file[s][c]

(* What is counted is counted in natural numbers.                          *)
LEMMA Counted ==
    ASSUME GInv
    PROVE  /\ \A s \in Sessions : log[s] \in Nat
           /\ \A s \in Sessions, c \in Chats :
                 seen[c][s] \subseteq Nat /\ (file[s][c] # NoFile => file[s][c] \in Nat)
           /\ \A t \in Threads : got[t] \subseteq Nat
           /\ \A t \in Threads, c \in Chats :
                 Memory(t, c) \in Bindings /\ (Memory(t, c) # NoBinding => Memory(t, c).offset \in Nat)
<1>1. Events \subseteq Nat
  BY DEF Events
<1>2. \A s \in Sessions : log[s] \in Nat
  BY Named DEF GInv, TypeOK
<1>3. ASSUME NEW s \in Sessions, NEW c \in Chats
      PROVE  seen[c][s] \subseteq Nat /\ (file[s][c] # NoFile => file[s][c] \in Nat)
  <2>1. seen[c] \in [Sessions -> SUBSET Events] /\ file[s] \in [Chats -> Offsets \cup {NoFile}]
    BY DEF GInv, TypeOK
  <2> QED
    BY <1>1, <2>1, Named
<1>4. \A t \in Threads : got[t] \subseteq Nat
  BY <1>1 DEF GInv, TypeOK
<1>5. ASSUME NEW t \in Threads, NEW c \in Chats PROVE Memory(t, c) \in Bindings
  <2>1. HostOf[t] \in Hosts
    BY GatewayAssumption
  <2> QED
    BY <2>1 DEF GInv, TypeOK, Memory
<1> QED
  BY <1>2, <1>3, <1>4, <1>5, Named

(* A chat has seen nothing that is not in the log.                         *)
LEMMA SeenIsLogged ==
    ASSUME GInv, Recorded, NEW c \in Chats, NEW s \in Sessions
    PROVE  UpTo(seen[c][s], log[s])
<1>1. CASE file[s][c] = NoFile
  BY <1>1 DEF Recorded, UpTo
<1>2. CASE file[s][c] # NoFile
  <2>1. UpTo(seen[c][s], file[s][c]) /\ file[s][c] <= log[s]
    BY <1>2 DEF Recorded, GInv, OffsetInLog
  <2>2. seen[c][s] \subseteq Nat /\ file[s][c] \in Nat /\ log[s] \in Nat
    BY <1>2, Counted
  <2> QED
    BY <2>1, <2>2 DEF UpTo
<1> QED
  BY <1>1, <1>2

LEMMA StaysInOrder ==
    ASSUME GInv, GInv', NEW u \in Threads, Orderly(u), Covered(u), Untouched(u)
    PROVE  Orderly(u)' /\ Covered(u)'
<1> USE GatewayAssumption
<1>1. chat[u] \in Serves[u] /\ Bound(u)' = Bound(u) /\ Memory(u, chat[u])' = Memory(u, chat[u])
  BY DEF Orderly, Untouched, Bound
<1>2. pc[u] # "idle" => Had(u)' = Had(u) /\ sess[u] \in Sessions
  BY <1>1 DEF Untouched, Had, GInv, Busy
<1>3. ASSUME pc[u] # "idle" PROVE UpTo(got[u], log'[sess[u]])
  <2>1. UpTo(got[u], log[sess[u]]) /\ log[sess[u]] <= log'[sess[u]]
    BY <1>2, <1>3 DEF Orderly, Untouched
  <2>2. got[u] \subseteq Nat
    BY DEF GInv, TypeOK, Events
  <2>3. log[sess[u]] \in Offsets
    BY <1>2, <1>3 DEF GInv, TypeOK
  <2>4. log'[sess[u]] \in Offsets
    BY <1>2, <1>3 DEF GInv, TypeOK
  <2>5. log[sess[u]] \in Nat /\ log'[sess[u]] \in Nat
    BY <2>3, <2>4, Named
  <2>6. ASSUME NEW e \in got[u] PROVE e <= log'[sess[u]]
    <3>1. e \in Nat /\ e <= log[sess[u]] /\ log[sess[u]] <= log'[sess[u]]
      BY <2>1, <2>2 DEF UpTo
    <3> QED
      BY ONLY <2>5, <3>1
  <2> QED
    BY <2>6 DEF UpTo
<1>4. Orderly(u)'
  BY <1>1, <1>3 DEF Orderly, Untouched
<1>5. /\ pc'[u] = pc[u] /\ op'[u] = op[u] /\ got'[u] = got[u]
      /\ chat'[u] = chat[u] /\ sess'[u] = sess[u]
      /\ \A c : Rebinding(u, c)' <=> Rebinding(u, c)
  BY DEF Untouched, Rebinding
<1>6. \A c \in Serves[u] : Memory(u, c)' = Memory(u, c) /\ seen'[c] = seen[c]
  BY DEF Untouched
<1>7. pc[u] # "idle" => file'[sess[u]][chat[u]] = file[sess[u]][chat[u]]
  BY <1>1, <1>2 DEF Untouched
<1>8. Covered(u)'
  BY <1>1, <1>2, <1>5, <1>6, <1>7 DEF Covered
<1> QED
  BY <1>4, <1>8

(* What a step of t may touch: its own request, and one chat it serves.    *)
Touches(t, c) ==
    /\ \A u \in Threads \ {t} :
          /\ pc'[u] = pc[u] /\ op'[u] = op[u] /\ chat'[u] = chat[u]
          /\ sess'[u] = sess[u] /\ own'[u] = own[u] /\ got'[u] = got[u]
    /\ \A s \in Sessions : log[s] <= log'[s]
    /\ \A h \in Hosts, d \in Chats : d # c => binding'[h][d] = binding[h][d]
    /\ \A d \in Chats : d # c =>
          seen'[d] = seen[d] /\ \A s \in Sessions : file'[s][d] = file[s][d]

LEMMA OthersStayInOrder ==
    ASSUME OwnThreads, GInv, GInv', OnceInv, NEW t \in Threads, NEW c \in Serves[t],
           Touches(t, c)
    PROVE  \A u \in Threads \ {t} : Orderly(u)' /\ Covered(u)'
<1> USE GatewayAssumption
<1> SUFFICES ASSUME NEW u \in Threads \ {t} PROVE Orderly(u)' /\ Covered(u)'
  OBVIOUS
<1>1. \A d \in Serves[u] : d # c /\ d \in Chats
  BY DEF OwnThreads
<1>2. Untouched(u)
  BY <1>1 DEF Touches, Untouched, Memory
<1> QED
  BY <1>2, StaysInOrder DEF OnceInv

(* A request that is not a bind ends before its checkpoint has moved.      *)
LEMMA EndsInOrder ==
    ASSUME GInv, OnceInv, NEW t \in Threads, op[t] # "bind", Finish({t}),
           UNCHANGED <<log, file, binding, seen>>
    PROVE  Orderly(t)' /\ Covered(t)'
<1>1. /\ pc'[t] = "idle" /\ op'[t] = "none" /\ own'[t] = NoBinding /\ got'[t] = {}
      /\ chat'[t] = chat[t]
  BY DEF Finish
<1>2. Orderly(t)'
  BY <1>1 DEF Orderly, OnceInv
<1>3. \A c \in Serves[t] : Memory(t, c)' = Memory(t, c) /\ ~Rebinding(t, c)
  BY DEF Memory, Rebinding
<1>4. Covered(t)'
  BY <1>1, <1>3 DEF Covered, OnceInv
<1> QED
  BY <1>2, <1>4

(* A request goes on to another location and nothing else changes.         *)
LEMMA GoesOnInOrder ==
    ASSUME GInv, OnceInv, NEW t \in Threads, pc[t] # "idle",
           NEW l \in Locations \ {"idle", "persist", "deliver"}, Go(t, l),
           UNCHANGED <<op, chat, sess, own, got, log, file, binding, seen>>,
           l \in {"spawn", "lease", "take"} => op[t] \in {"bind", "restore", "turn", "kill"},
           l \in {"load", "turn"} => op[t] = "turn",
           l \in {"release", "unlink"} => op[t] = "kill",
           op[t] = "bind" => l \in {"spawn", "lease", "take", "sync"}
    PROVE  Orderly(t)' /\ Covered(t)'
<1>1. pc'[t] = l
  BY DEF Go, GInv, TypeOK
<1>2. Bound(t)' = Bound(t) /\ Had(t)' = Had(t) /\ \A c \in Serves[t] : Memory(t, c)' = Memory(t, c)
  BY DEF Bound, Memory, Had
<1>3. Orderly(t)'
  <2>1. Memory(t, chat[t])' = Memory(t, chat[t])
    BY DEF Memory
  <2> QED
    BY <1>1, <1>2, <2>1 DEF Orderly, OnceInv
<1>4. \A c \in Serves[t] : Rebinding(t, c) => Rebinding(t, c)'
  BY <1>1 DEF Rebinding
<1>5. Covered(t)'
  BY <1>1, <1>2, <1>4 DEF Covered, OnceInv
<1> QED
  BY <1>3, <1>5

(* Where a request may go on to.                                           *)
Way(t, l) ==
    /\ l \in Locations \ {"idle", "persist", "deliver"}
    /\ l \in {"spawn", "lease", "take"} => op[t] \in {"bind", "restore", "turn", "kill"}
    /\ l \in {"load", "turn"} => op[t] = "turn"
    /\ l \in {"release", "unlink"} => op[t] = "kill"
    /\ op[t] = "bind" => l \in {"spawn", "lease", "take", "sync"}

(* Steps that touch no log, checkpoint or chat.                            *)
LEMMA QuietStep ==
    ASSUME OwnThreads, GInv, GInv', OnceInv, NEW t \in Threads, pc[t] # "idle",
           UNCHANGED <<log, file, binding, seen, again>>,
           \/ op[t] # "bind" /\ Finish({t})
           \/ \E l : Way(t, l) /\ Go(t, l) /\ UNCHANGED <<op, chat, sess, own, got>>
    PROVE  OnceInv'
<1>1. Orderly(t)' /\ Covered(t)'
  BY EndsInOrder, GoesOnInOrder DEF Way
<1>2. chat[t] \in Serves[t]
  BY DEF OnceInv, Orderly
<1>3. Touches(t, chat[t])
  <2>1. \A s \in Sessions : log[s] <= log'[s]
    <3>1. \A s \in Sessions : log[s] \in Nat
      BY Named DEF GInv, TypeOK
    <3> QED
      BY <3>1
  <2> QED
    BY <2>1 DEF Touches, Finish, Go, GInv, TypeOK
<1>4. \A u \in Threads \ {t} : Orderly(u)' /\ Covered(u)'
  BY <1>2, <1>3, OthersStayInOrder
<1>5. Recorded' /\ AtMostOnce'
  BY DEF OnceInv, Recorded, AtMostOnce
<1> QED
  BY <1>1, <1>4, <1>5 DEF OnceInv

(* spawn and kill: with one gateway id the lease is always to be had, so a *)
(* bind goes on to sync the checkpoint (session_adapter.py:29-89).         *)
LEMMA AdapterOnce ==
    ASSUME OwnThreads, OneId, GInv, GInv', OnceInv, NEW t \in Threads,
           \/ Spawn(t) \/ ReadLease(t) \/ WriteLease(t) \/ ReadForRelease(t) \/ Unlink(t)
    PROVE  OnceInv'
<1> USE GatewayAssumption
<1>1. /\ pc[t] \in {"spawn", "lease", "take", "release", "unlink"}
      /\ UNCHANGED <<log, file, binding, seen, again>>
  BY DEF Spawn, ReadLease, WriteLease, ReadForRelease, Unlink, files, hostMem, history
<1>2. Orderly(t)
  BY DEF OnceInv
<1>3. \/ op[t] # "bind" /\ Finish({t})
      \/ \E l : Way(t, l) /\ Go(t, l) /\ UNCHANGED <<op, chat, sess, own, got>>
  <2>1. ASSUME pc[t] \in {"spawn", "take"}, Spawned(t)
        PROVE  \/ op[t] # "bind" /\ Finish({t})
               \/ \E l : Way(t, l) /\ Go(t, l) /\ UNCHANGED <<op, chat, sess, own, got>>
    <3>1. CASE op[t] = "restore"
      BY <2>1, <3>1 DEF Spawned
    <3>2. CASE op[t] # "restore"
      <4>1. Go(t, AfterSpawn(t)) /\ UNCHANGED <<op, chat, sess, own, got>>
        BY <2>1, <3>2 DEF Spawned
      <4>2. Way(t, AfterSpawn(t))
        BY <1>2, <2>1, <3>2 DEF AfterSpawn, Way, Locations, Orderly
      <4> QED
        BY <4>1, <4>2
    <3> QED
      BY <3>1, <3>2
  <2>2. CASE Spawn(t)
    <3>1. CASE sess[t] \in handles[HostOf[t]]
      BY <2>1, <2>2, <3>1 DEF Spawn
    <3>2. CASE sess[t] \notin handles[HostOf[t]]
      <4>1. Go(t, "lease") /\ UNCHANGED <<op, chat, sess, own, got>>
        BY <2>2, <3>2 DEF Spawn
      <4>2. Way(t, "lease")
        BY <1>2, <2>2 DEF Way, Locations, Orderly, Spawn
      <4> QED
        BY <4>1, <4>2
    <3> QED
      BY <3>1, <3>2
  <2>3. CASE ReadLease(t)
    <3>1. sess[t] \in Sessions /\ HostOf[t] \in Hosts
      BY <2>3 DEF ReadLease, GInv, Busy
    <3>2. lease[sess[t]] \in {NoId, Id(t)}
      <4>1. lease[sess[t]] \in {GatewayId[h] : h \in Hosts} \cup {NoId}
        BY <3>1 DEF GInv, TypeOK
      <4>2. \A h \in Hosts : GatewayId[h] = Id(t)
        BY <3>1 DEF OneId, Id
      <4> QED
        BY <4>1, <4>2
    <3>3. Go(t, "take") /\ UNCHANGED <<op, chat, sess, own, got>>
      BY <2>3, <3>2 DEF ReadLease
    <3>4. Way(t, "take")
      BY <1>2, <2>3 DEF Way, Locations, Orderly, ReadLease
    <3> QED
      BY <3>3, <3>4
  <2>4. CASE WriteLease(t)
    BY <2>1, <2>4 DEF WriteLease
  <2>5. CASE ReadForRelease(t)
    <3>1. op[t] = "kill"
      BY <1>2, <2>5 DEF ReadForRelease, Orderly
    <3>2. Way(t, "unlink")
      BY <3>1 DEF Way, Locations
    <3> QED
      BY <2>5, <3>1, <3>2 DEF ReadForRelease
  <2>6. CASE Unlink(t)
    BY <1>2, <2>6 DEF Unlink, Orderly
  <2> QED
    BY <2>2, <2>3, <2>4, <2>5, <2>6
<1> QED
  BY <1>1, <1>3, QuietStep

(* A turn loads, returns or raises.                                        *)
LEMMA TurnOnce ==
    ASSUME OwnThreads, GInv, GInv', OnceInv, NEW t \in Threads,
           TurnLoad(t) \/ TurnReturns(t) \/ TurnRaises(t)
    PROVE  OnceInv'
<1>1. pc[t] \in {"load", "turn"} /\ UNCHANGED <<log, file, binding, seen, again>>
  BY DEF TurnLoad, TurnReturns, TurnRaises, Return, files, hostMem, history
<1>2. op[t] = "turn"
  BY <1>1 DEF OnceInv, Orderly
<1>3. Way(t, "turn") /\ Way(t, "sync")
  BY <1>2 DEF Way, Locations
<1>4. \/ Finish({t})
      \/ Go(t, "turn") /\ UNCHANGED <<op, chat, sess, own, got>>
      \/ Go(t, "sync") /\ UNCHANGED <<op, chat, sess, own, got>>
  BY DEF TurnLoad, TurnReturns, TurnRaises, Return
<1> QED
  BY <1>1, <1>2, <1>3, <1>4, QuietStep

(* An event that has just been added to the log is news to the chat.       *)
LEMMA SaveOnce ==
    ASSUME OwnThreads, GInv, GInv', OnceInv, NEW t \in Threads, TurnSave(t)
    PROVE  OnceInv'
<1> USE GatewayAssumption
<1> DEFINE s == sess[t]
           c == chat[t]
           n == log[s] + 1
<1>1. /\ pc[t] = "turn" /\ log[s] = known[t]
      /\ log' = [log EXCEPT ![s] = @ + 1]
      /\ got' = [got EXCEPT ![t] = @ \cup {known[t] + 1}]
      /\ UNCHANGED <<file, binding, pc, op, chat, sess, own, seen, again>>
  BY DEF TurnSave, hostMem, history
<1>2. c \in Serves[t] /\ c \in Chats /\ s \in Sessions /\ op[t] = "turn" /\ Bound(t).session = s
  BY <1>1 DEF OnceInv, Orderly, GInv, TypeOK, Busy
<1>3. log[s] \in Nat /\ \A r \in Sessions : log[r] \in Nat
  BY <1>2, Named DEF GInv, TypeOK
<1>4. log'[s] = n /\ got'[t] = got[t] \cup {n} /\ \A r \in Sessions : log[r] <= log'[r]
  BY <1>1, <1>2, <1>3 DEF GInv, TypeOK
<1>5. UpTo(seen[c][s], log[s])
  BY <1>2, SeenIsLogged DEF OnceInv
<1>6. n \notin seen[c][s]
  BY <1>3, <1>5 DEF UpTo
<1> HIDE DEF n
<1>7. Bound(t)' = Bound(t) /\ Had(t)' = seen[c][s] /\ Had(t) = seen[c][s]
  BY <1>1 DEF Bound, Memory, Had
<1>8. Orderly(t)'
  <2>1. UpTo(got'[t], log'[s])
    <3>1. UpTo(got[t], log[s]) /\ got[t] \subseteq Nat
      <4>1. UpTo(got[t], log[s]) /\ got[t] \subseteq Events
        BY <1>1 DEF OnceInv, Orderly, GInv, TypeOK
      <4> QED
        BY <4>1 DEF Events
    <3> QED
      BY <1>3, <1>4, <3>1 DEF UpTo, n
  <2>2. Memory(t, c)' = Memory(t, c)
    BY <1>1 DEF Memory
  <2> QED
    BY <1>1, <1>7, <2>1, <2>2 DEF OnceInv, Orderly
<1>9. Covered(t)'
  <2>1. \A d : Memory(t, d)' = Memory(t, d) /\ Rebinding(t, d)' = Rebinding(t, d)
    BY <1>1 DEF Memory, Rebinding
  <2>2. got'[t] \cap Had(t)' = {}
    BY <1>1, <1>2, <1>4, <1>6, <1>7 DEF OnceInv, Covered
  <2> QED
    BY <1>1, <2>1, <2>2 DEF OnceInv, Covered
<1>10. Touches(t, c)
  BY <1>1, <1>4 DEF Touches, GInv, TypeOK
<1>11. \A u \in Threads \ {t} : Orderly(u)' /\ Covered(u)'
  BY <1>2, <1>10, OthersStayInOrder
<1>12. Recorded' /\ AtMostOnce'
  BY <1>1 DEF OnceInv, Recorded, AtMostOnce
<1> QED
  BY <1>8, <1>9, <1>11, <1>12 DEF OnceInv

(* A request begins: what it has to project is news to the chat, and what  *)
(* the chat has been sent lies within the binding's checkpoint, but for a  *)
(* bind.                                                                   *)
LEMMA BeginOnce ==
    ASSUME OwnThreads, GInv, GInv', OnceInv, NEW t \in Threads, NEW c \in Serves[t],
           NEW o, NEW s \in Sessions, NEW l, Begin(t, o, c, s, l),
           \/ l = "spawn" /\ o \in {"bind", "restore", "turn", "kill"}
           \/ l = "sync" /\ o \in {"resume", "replay"},
           \A u \in Threads \ {t} : own'[u] = own[u] /\ got'[u] = got[u],
           \A h \in Hosts, d \in Chats : d # c => binding'[h][d] = binding[h][d],
           Bound(t)'.session = s,
           own'[t] # NoBinding => o # "bind" /\ Memory(t, c)'.session # own'[t].session,
           UpTo(got'[t], log[s]),
           o # "replay" => got'[t] \cap seen[c][s] = {},
           o # "bind" => UpTo(seen[c][Memory(t, c)'.session], Memory(t, c)'.offset)
    PROVE  OnceInv'
<1> USE GatewayAssumption
<1>1. /\ pc[t] = "idle" /\ pc' = [pc EXCEPT ![t] = l]
      /\ op' = [op EXCEPT ![t] = o] /\ chat' = [chat EXCEPT ![t] = c]
      /\ sess' = [sess EXCEPT ![t] = s]
      /\ UNCHANGED <<log, file, seen, again>>
  BY DEF Begin, Go, files, history
<1>2. c \in Chats /\ Serves[t] \subseteq Chats /\ HostOf[t] \in Hosts
  OBVIOUS
<1>3. pc'[t] = l /\ op'[t] = o /\ chat'[t] = c /\ sess'[t] = s /\ Had(t)' = seen[c][s]
  BY <1>1 DEF GInv, TypeOK, Had
<1>4. Orderly(t)'
  <2>1. Memory(t, chat[t])' = Memory(t, c)'
    BY <1>3 DEF Memory
  <2> QED
    BY <1>1, <1>3, <2>1 DEF Orderly
<1>5. Covered(t)'
  <2>1. ASSUME NEW d \in Serves[t], Memory(t, d)' # NoBinding, ~Rebinding(t, d)'
        PROVE  UpTo(seen[d][Memory(t, d)'.session], Memory(t, d)'.offset)
    <3>1. CASE d = c
      <4>1. o # "bind"
        BY <1>3, <2>1, <3>1 DEF Rebinding
      <4> QED
        BY <3>1, <4>1
    <3>2. CASE d # c
      <4>1. Memory(t, d)' = Memory(t, d)
        BY <1>2, <3>2 DEF Memory
      <4>2. ~Rebinding(t, d)
        BY <1>1 DEF Rebinding
      <4> QED
        BY <2>1, <4>1, <4>2 DEF OnceInv, Covered
    <3> QED
      BY <3>1, <3>2
  <2> QED
    BY <1>1, <1>3, <2>1 DEF Covered
<1>6. Touches(t, c)
  <2>1. \A r \in Sessions : log[r] <= log'[r]
    <3>1. \A r \in Sessions : log[r] \in Nat
      BY Counted
    <3> QED
      BY <1>1, <3>1
  <2> QED
    BY <1>1, <2>1 DEF Touches, GInv, TypeOK
<1>7. \A u \in Threads \ {t} : Orderly(u)' /\ Covered(u)'
  BY <1>6, OthersStayInOrder
<1>8. Recorded' /\ AtMostOnce'
  BY <1>1 DEF OnceInv, Recorded, AtMostOnce
<1> QED
  BY <1>4, <1>5, <1>7, <1>8 DEF OnceInv

(* Nothing to project.                                                     *)
LEMMA Nothing == \A n : UpTo({}, n)
  BY DEF UpTo

LEMMA BindOnce ==
    ASSUME OwnThreads, GInv, GInv', OnceInv, NEW t \in Threads, NEW c \in Chats,
           NEW s \in Sessions, Bind(t, c, s)
    PROVE  OnceInv'
<1> USE GatewayAssumption, Named
<1> DEFINE b == [session |-> s, offset |-> 0]
<1>1. /\ Begin(t, "bind", c, s, "spawn") /\ pc[t] = "idle" /\ c \in Serves[t]
      /\ binding' = [binding EXCEPT ![HostOf[t]][c] = b]
      /\ own' = [u \in Threads |->
                   IF u # t /\ HostOf[u] = HostOf[t] /\ chat[u] = c /\ pc[u] # "idle"
                   THEN Bound(u) ELSE own[u]]
      /\ got' = got /\ chat' = [chat EXCEPT ![t] = c]
  BY DEF Bind, Begin
<1>2. own'[t] = NoBinding /\ got'[t] = {} /\ chat'[t] = c
  BY <1>1 DEF GInv, Busy, TypeOK, OnceInv, Orderly
<1>3. \A u \in Threads \ {t} : own'[u] = own[u] /\ got'[u] = got[u]
  <2>1. \A u \in Threads \ {t} : chat[u] # c
    BY <1>1 DEF OnceInv, Orderly, OwnThreads
  <2> QED
    BY <1>1, <2>1
<1>4. /\ \A h \in Hosts, d \in Chats : d # c => binding'[h][d] = binding[h][d]
      /\ binding'[HostOf[t]][c] = b
  BY <1>1 DEF GInv, TypeOK
<1>5. Bound(t)'.session = s
  BY <1>2, <1>4 DEF Bound, Memory
<1>6. UpTo(got'[t], log[s]) /\ got'[t] \cap seen[c][s] = {}
  BY <1>2, Nothing
<1>7. Begin(t, "bind", c, s, "spawn") /\ c \in Serves[t]
  BY <1>1
<1>8. \A h \in Hosts, d \in Chats : d # c => binding'[h][d] = binding[h][d]
  BY <1>4
<1>9. own'[t] # NoBinding => "bind" # "bind" /\ Memory(t, c)'.session # own'[t].session
  BY <1>2
<1>10. "bind" # "bind" => UpTo(seen[c][Memory(t, c)'.session], Memory(t, c)'.offset)
  OBVIOUS
<1> HIDE DEF b
<1> QED
  BY <1>3, <1>5, <1>6, <1>7, <1>8, <1>9, <1>10, BeginOnce

LEMMA RestoreOnce ==
    ASSUME OwnThreads, GInv, GInv', OnceInv, NEW t \in Threads, NEW c \in Chats,
           Restore(t, c)
    PROVE  OnceInv'
<1> USE GatewayAssumption, Named
<1>1. PICK s \in Sessions :
         /\ First(s, c) /\ Begin(t, "restore", c, s, "spawn")
         /\ binding' = [binding EXCEPT ![HostOf[t]][c] = [session |-> s, offset |-> file[s][c]]]
  BY DEF Restore
<1> DEFINE b == [session |-> s, offset |-> file[s][c]]
<1>2. /\ pc[t] = "idle" /\ c \in Serves[t] /\ own' = own /\ got' = got
      /\ chat' = [chat EXCEPT ![t] = c]
  BY <1>1 DEF Restore, Begin
<1>3. own'[t] = NoBinding /\ got'[t] = {} /\ chat'[t] = c
  BY <1>2 DEF GInv, Busy, TypeOK, OnceInv, Orderly
<1>4. /\ \A h \in Hosts, d \in Chats : d # c => binding'[h][d] = binding[h][d]
      /\ binding'[HostOf[t]][c] = b
  BY <1>1 DEF GInv, TypeOK
<1>5. Bound(t)'.session = s /\ Memory(t, c)' = b
  BY <1>3, <1>4 DEF Bound, Memory
<1>6. UpTo(seen[c][Memory(t, c)'.session], Memory(t, c)'.offset)
  BY <1>1, <1>5 DEF First, OnceInv, Recorded
<1>7. UpTo(got'[t], log[s]) /\ got'[t] \cap seen[c][s] = {}
  BY <1>3, Nothing
<1>8. \A u \in Threads \ {t} : own'[u] = own[u] /\ got'[u] = got[u]
  BY <1>2
<1>9. own'[t] # NoBinding => Memory(t, c)'.session # own'[t].session
  BY <1>3
<1>10. \A h \in Hosts, d \in Chats : d # c => binding'[h][d] = binding[h][d]
  BY <1>4
<1>11. Begin(t, "restore", c, s, "spawn") /\ Bound(t)'.session = s /\ c \in Serves[t]
  BY <1>1, <1>2, <1>5
<1> HIDE DEF b
<1> QED
  BY <1>6, <1>7, <1>8, <1>9, <1>10, <1>11, BeginOnce

LEMMA RouteOnce ==
    ASSUME OwnThreads, GInv, GInv', OnceInv, NEW t \in Threads, NEW o \in {"turn", "kill"},
           NEW c \in Chats, NEW s \in Sessions, Route(t, o, c, s)
    PROVE  OnceInv'
<1> USE GatewayAssumption, Named
<1> DEFINE m == Memory(t, c)
           b == IF s = m.session THEN NoBinding ELSE [m EXCEPT !.session = s]
<1>1. /\ m # NoBinding /\ Begin(t, o, c, s, "spawn") /\ pc[t] = "idle" /\ c \in Serves[t]
      /\ own' = [own EXCEPT ![t] = b] /\ binding' = binding /\ got' = got
      /\ chat' = [chat EXCEPT ![t] = c]
  BY DEF Route, Begin
<1>2. m \in [session : Sessions, offset : Offsets]
  BY <1>1, Counted DEF Bindings
<1>3. own'[t] = b /\ got'[t] = {} /\ chat'[t] = c /\ Memory(t, c)' = m
  BY <1>1 DEF GInv, TypeOK, OnceInv, Orderly, Memory
<1>4. UpTo(seen[c][m.session], m.offset)
  <2>1. ~Rebinding(t, c)
    BY <1>1 DEF Rebinding
  <2> QED
    BY <1>1, <2>1 DEF OnceInv, Covered
<1> HIDE DEF m
<1>5. b # NoBinding => b.session = s /\ s # m.session
  BY <1>2
<1>6. b = NoBinding => m.session = s
  BY <1>2
<1> HIDE DEF b
<1>7. Memory(t, chat[t])' = m
  BY <1>3 DEF Memory
<1>8. Bound(t)'.session = s
  BY <1>3, <1>5, <1>6, <1>7 DEF Bound
<1>9. \A u \in Threads \ {t} : own'[u] = own[u] /\ got'[u] = got[u]
  BY <1>1 DEF GInv, TypeOK
<1>10. UpTo(got'[t], log[s]) /\ got'[t] \cap seen[c][s] = {}
  BY <1>3, Nothing
<1>11. own'[t] # NoBinding => Memory(t, c)'.session # own'[t].session
  BY <1>3, <1>5
<1>12. UpTo(seen[c][Memory(t, c)'.session], Memory(t, c)'.offset)
  BY <1>3, <1>4
<1> QED
  BY <1>1, <1>8, <1>9, <1>10, <1>11, <1>12, BeginOnce

(* A resume takes what lies beyond the checkpoint, a replay what it is     *)
(* asked for.                                                              *)
LEMMA ReadOnce ==
    ASSUME OwnThreads, GInv, GInv', OnceInv, NEW t \in Threads, NEW c \in Chats,
           NEW o \in {"resume", "replay"}, NEW n \in Nat, Read(t, o, c, n),
           o = "resume" => n = Memory(t, c).offset
    PROVE  OnceInv'
<1> USE GatewayAssumption, Named
<1> DEFINE m == Memory(t, c)
           s == m.session
<1>1. /\ m # NoBinding /\ Begin(t, o, c, s, "sync") /\ pc[t] = "idle" /\ c \in Serves[t]
      /\ got' = [got EXCEPT ![t] = (n + 1)..log[s]]
      /\ own' = own /\ binding' = binding /\ chat' = [chat EXCEPT ![t] = c]
  BY DEF Read, Begin
<1>2. m \in [session : Sessions, offset : Offsets]
  BY <1>1, Counted DEF Bindings
<1>3. /\ own'[t] = NoBinding /\ chat'[t] = c /\ Memory(t, c)' = m
      /\ got'[t] = (n + 1)..log[s] /\ s \in Sessions
  BY <1>1, <1>2 DEF GInv, Busy, TypeOK, Memory
<1>4. UpTo(seen[c][s], m.offset)
  <2>1. ~Rebinding(t, c)
    BY <1>1 DEF Rebinding
  <2> QED
    BY <1>1, <2>1 DEF OnceInv, Covered
<1>5. log[s] \in Nat /\ seen[c][s] \subseteq Nat /\ m.offset \in Nat
  BY <1>1, <1>3, Counted
<1>6. UpTo(got'[t], log[s])
  BY <1>3, <1>5 DEF UpTo
<1>7. o # "replay" => got'[t] \cap seen[c][s] = {}
  <2> SUFFICES ASSUME o = "resume", NEW e \in got'[t] \cap seen[c][s] PROVE FALSE
    OBVIOUS
  <2>1. n = m.offset /\ e \in (n + 1)..log[s] /\ e <= m.offset /\ e \in Nat
    BY <1>3, <1>4, <1>5 DEF UpTo
  <2> QED
    BY ONLY <1>5, <2>1
<1>8. Bound(t)'.session = s
  <2>1. Memory(t, chat[t])' = m
    BY <1>3 DEF Memory
  <2> QED
    BY <1>3, <2>1 DEF Bound
<1>9. \A u \in Threads \ {t} : own'[u] = own[u] /\ got'[u] = got[u]
  BY <1>1 DEF GInv, TypeOK
<1>10. UpTo(seen[c][Memory(t, c)'.session], Memory(t, c)'.offset)
  BY <1>3, <1>4
<1>11. Begin(t, o, c, s, "sync") /\ c \in Serves[t] /\ s \in Sessions /\ binding' = binding
  BY <1>1, <1>3
<1> HIDE DEF m, s
<1> QED
  BY <1>3, <1>6, <1>7, <1>8, <1>9, <1>10, <1>11, BeginOnce

(* The checkpoint moves past all the chat has had and is about to get.     *)
LEMMA SyncOnce ==
    ASSUME OwnThreads, GInv, GInv', OnceInv, NEW t \in Threads, Sync(t)
    PROVE  OnceInv'
<1> USE GatewayAssumption, Named
<1> DEFINE s == sess[t]
           c == chat[t]
           h == HostOf[t]
           n == log[s]
           b == [Bound(t) EXCEPT !.offset = n]
<1>1. /\ pc[t] = "sync" /\ pc' = [pc EXCEPT ![t] = "persist"]
      /\ SetOffset(t, log[Bound(t).session])
      /\ UNCHANGED <<log, file, op, chat, sess, got, seen, again>>
  BY DEF Sync, Go, files, history
<1>2. /\ c \in Serves[t] /\ c \in Chats /\ s \in Sessions /\ h \in Hosts
      /\ Bound(t).session = s /\ UpTo(got[t], n) /\ pc'[t] = "persist"
  BY <1>1 DEF OnceInv, Orderly, GInv, TypeOK, Busy
<1>3. SetOffset(t, n)
  BY <1>1, <1>2
<1>4. UpTo(seen[c][s], n)
  BY <1>2, SeenIsLogged DEF OnceInv
<1>5. Bound(t) \in [session : Sessions, offset : Offsets]
  BY <1>2 DEF Bound, Memory, GInv, TypeOK, Bindings
<1>6. n \in Nat /\ Had(t) = seen[c][s] /\ Had(t)' = seen[c][s]
  BY <1>1, <1>2, Counted DEF Had
<1> HIDE DEF n
<1>7. b.session = s /\ b.offset = n /\ b # NoBinding
  BY <1>2, <1>5
<1>8. /\ \/ own[t] = NoBinding /\ own' = own /\ binding' = [binding EXCEPT ![h][c] = b]
         \/ own[t] # NoBinding /\ own' = [own EXCEPT ![t] = b] /\ binding' = binding
      /\ \A u \in Threads \ {t} : own'[u] = own[u]
      /\ \A g \in Hosts, d \in Chats : d # c => binding'[g][d] = binding[g][d]
  <2>1. CASE own[t] = NoBinding
    <3>1. binding' = [binding EXCEPT ![h][c] = b] /\ own' = own
      BY <1>2, <1>3, <2>1 DEF SetOffset, Bound, Memory, GInv, TypeOK
    <3> HIDE DEF b
    <3> QED
      BY <1>2, <2>1, <3>1 DEF GInv, TypeOK
  <2>2. CASE own[t] # NoBinding
    <3>1. own' = [own EXCEPT ![t] = b] /\ binding' = binding
      BY <1>3, <2>2 DEF SetOffset, Bound, GInv, TypeOK
    <3> HIDE DEF b
    <3> QED
      BY <2>2, <3>1 DEF GInv, TypeOK
  <2> QED
    BY <2>1, <2>2
<1> HIDE DEF b
<1>9. /\ Bound(t)' = b
      /\ own[t] = NoBinding => own'[t] = NoBinding /\ Memory(t, c)' = b
      /\ own[t] # NoBinding => own'[t] = b /\ Memory(t, c)' = Memory(t, c)
  BY <1>1, <1>2, <1>7, <1>8 DEF Bound, Memory, GInv, TypeOK
<1>10. Orderly(t)'
  <2>1. Memory(t, chat[t])' = Memory(t, c)'
    BY <1>1 DEF Memory
  <2>2. own[t] # NoBinding => Bound(t) = own[t]
    BY DEF Bound
  <2> QED
    BY <1>1, <1>2, <1>7, <1>9, <2>1, <2>2 DEF OnceInv, Orderly, n
<1>11. Covered(t)'
  <2>1. ASSUME NEW d \in Serves[t], Memory(t, d)' # NoBinding
        PROVE  UpTo(seen[d][Memory(t, d)'.session], Memory(t, d)'.offset)
    <3>1. CASE d # c
      <4>1. Memory(t, d)' = Memory(t, d) /\ ~Rebinding(t, d)
        BY <1>8, <3>1 DEF Memory, Rebinding
      <4> QED
        BY <2>1, <4>1 DEF OnceInv, Covered
    <3>2. CASE d = c /\ own[t] = NoBinding
      <4>1. Memory(t, d)' = b
        BY <1>1, <1>9, <3>2 DEF Memory
      <4> QED
        BY <1>4, <1>7, <3>2, <4>1
    <3>3. CASE d = c /\ own[t] # NoBinding
      <4>1. ~Rebinding(t, d)
        BY <3>3 DEF OnceInv, Orderly, Rebinding
      <4>2. Memory(t, d)' = Memory(t, d)
        BY <1>1, <1>9, <3>3 DEF Memory
      <4> QED
        BY <2>1, <4>1, <4>2 DEF OnceInv, Covered
    <3> QED
      BY <3>1, <3>2, <3>3
  <2>2. got[t] \cap Had(t) = {} \/ op[t] = "replay"
    BY <1>1 DEF OnceInv, Covered
  <2> QED
    BY <1>1, <1>2, <1>4, <1>6, <1>7, <1>9, <2>1, <2>2 DEF Covered
<1>12. Touches(t, c)
  <2>1. \A r \in Sessions : log[r] <= log'[r]
    <3>1. \A r \in Sessions : log[r] \in Nat
      BY Counted
    <3> QED
      BY <1>1, <3>1
  <2> QED
    BY <1>1, <1>8, <2>1 DEF Touches, GInv, TypeOK
<1>13. \A u \in Threads \ {t} : Orderly(u)' /\ Covered(u)'
  BY <1>2, <1>12, OthersStayInOrder
<1>14. Recorded' /\ AtMostOnce'
  BY <1>1 DEF OnceInv, Recorded, AtMostOnce
<1> QED
  BY <1>10, <1>11, <1>13, <1>14 DEF OnceInv

(* The checkpoint is in its file before the events are handed over.        *)
LEMMA PersistOnce ==
    ASSUME OwnThreads, GInv, GInv', OnceInv, NEW t \in Threads, Persist(t)
    PROVE  OnceInv'
<1> USE GatewayAssumption, Named
<1> DEFINE s == sess[t]
           c == chat[t]
           n == Bound(t).offset
<1>1. /\ pc[t] = "persist" /\ pc' = [pc EXCEPT ![t] = "deliver"]
      /\ file' = [file EXCEPT ![Bound(t).session][c] = n]
      /\ UNCHANGED <<log, binding, op, chat, sess, own, got, seen, again>>
  BY DEF Persist, Go, hostMem, history
<1>2. /\ c \in Serves[t] /\ c \in Chats /\ s \in Sessions /\ Bound(t).session = s
      /\ pc'[t] = "deliver"
  BY <1>1 DEF OnceInv, Orderly, GInv, TypeOK, Busy
<1>3. n \in Offsets /\ n # NoFile /\ UpTo(seen[c][s], n) /\ UpTo(got[t], n)
  <2>1. Bound(t) \in Bindings
    BY <1>2 DEF Bound, Memory, GInv, TypeOK
  <2>2. n \in Offsets
    BY <1>2, <2>1
  <2> QED
    BY <1>1, <2>2 DEF OnceInv, Covered, Had
<1>4. Bound(t)' = Bound(t) /\ Had(t)' = Had(t) /\ \A d : Memory(t, d)' = Memory(t, d)
  BY <1>1 DEF Bound, Memory, Had
<1> HIDE DEF n
<1>5. file' = [file EXCEPT ![s][c] = n]
  BY <1>1, <1>2
<1>6. /\ file'[s][c] = n
      /\ \A r \in Sessions, d \in Chats : ~(r = s /\ d = c) => file'[r][d] = file[r][d]
  BY <1>2, <1>5 DEF GInv, TypeOK
<1>7. Orderly(t)'
  <2>1. Memory(t, chat[t])' = Memory(t, chat[t])
    BY <1>1 DEF Memory
  <2> QED
    BY <1>1, <1>2, <1>4, <2>1 DEF OnceInv, Orderly
<1>8. Covered(t)'
  <2>1. file'[sess'[t]][chat'[t]] = n /\ Bound(t)'.offset = n
    BY <1>1, <1>4, <1>6 DEF n
  <2>2. \A d : ~Rebinding(t, d)
    BY <1>1 DEF Rebinding
  <2> QED
    BY <1>1, <1>2, <1>3, <1>4, <2>1, <2>2 DEF OnceInv, Covered
<1>9. Recorded'
  <2> SUFFICES ASSUME NEW r \in Sessions, NEW d \in Chats
               PROVE  IF file'[r][d] = NoFile THEN seen'[d][r] = {}
                      ELSE UpTo(seen'[d][r], file'[r][d])
    BY DEF Recorded
  <2>1. CASE r = s /\ d = c
    BY <1>1, <1>3, <1>6, <2>1
  <2>2. CASE ~(r = s /\ d = c)
    BY <1>1, <1>6, <2>2 DEF OnceInv, Recorded
  <2> QED
    BY <2>1, <2>2
<1>10. Touches(t, c)
  <2>1. \A r \in Sessions : log[r] <= log'[r]
    <3>1. \A r \in Sessions : log[r] \in Nat
      BY Counted
    <3> QED
      BY <1>1, <3>1
  <2> QED
    BY <1>1, <1>6, <2>1 DEF Touches, GInv, TypeOK
<1>11. \A u \in Threads \ {t} : Orderly(u)' /\ Covered(u)'
  BY <1>2, <1>10, OthersStayInOrder
<1>12. AtMostOnce'
  BY <1>1 DEF OnceInv, AtMostOnce
<1> QED
  BY <1>7, <1>8, <1>9, <1>11, <1>12 DEF OnceInv

(* The events are handed to the channel.                                   *)
LEMMA DeliverOnce ==
    ASSUME OwnThreads, GInv, GInv', OnceInv, NEW t \in Threads, Deliver(t)
    PROVE  OnceInv'
<1> USE GatewayAssumption, Named
<1> DEFINE s == sess[t]
           c == chat[t]
           n == file[s][c]
<1>1. /\ pc[t] = "deliver" /\ Finish({t})
      /\ seen' = [seen EXCEPT ![c][s] = @ \cup got[t]]
      /\ again' = IF op[t] # "replay" /\ got[t] \cap Had(t) # {} THEN again \cup {c} ELSE again
      /\ UNCHANGED <<log, file, binding>>
  BY DEF Deliver, files, hostMem, Had
<1>2. /\ c \in Serves[t] /\ c \in Chats /\ s \in Sessions /\ Bound(t).session = s
      /\ n # NoFile /\ UpTo(got[t], n) /\ UpTo(got[t], Bound(t).offset)
      /\ (op[t] # "replay" => got[t] \cap Had(t) = {})
  BY <1>1 DEF OnceInv, Orderly, Covered, GInv, TypeOK, Busy
<1>3. AtMostOnce'
  BY <1>1, <1>2 DEF OnceInv, AtMostOnce
<1>4. /\ pc'[t] = "idle" /\ op'[t] = "none" /\ own'[t] = NoBinding /\ got'[t] = {}
      /\ chat' = chat
      /\ \A u \in Threads \ {t} :
            /\ pc'[u] = pc[u] /\ op'[u] = op[u] /\ sess'[u] = sess[u]
            /\ own'[u] = own[u] /\ got'[u] = got[u]
  BY <1>1 DEF Finish
<1>5. /\ seen'[c][s] = seen[c][s] \cup got[t]
      /\ \A d \in Chats, r \in Sessions : ~(d = c /\ r = s) => seen'[d][r] = seen[d][r]
      /\ \A d \in Chats : d # c => seen'[d] = seen[d]
  BY <1>1, <1>2 DEF GInv, TypeOK
<1>6. Orderly(t)'
  BY <1>2, <1>4 DEF Orderly
<1>7. Covered(t)'
  <2>1. ASSUME NEW d \in Serves[t], Memory(t, d) # NoBinding
        PROVE  UpTo(seen'[d][Memory(t, d).session], Memory(t, d).offset)
    <3>1. d \in Chats /\ Memory(t, d).session \in Sessions
      BY <2>1, Counted
    <3>2. UpTo(seen[d][Memory(t, d).session], Memory(t, d).offset)
      BY <1>1, <2>1 DEF OnceInv, Covered, Rebinding
    <3>3. CASE d = c /\ Memory(t, d).session = s
      <4>1. own[t] = NoBinding
        BY <1>2, <3>3 DEF OnceInv, Orderly, Bound
      <4>2. Bound(t) = Memory(t, d)
        BY <3>3, <4>1 DEF Bound
      <4> QED
        BY <1>2, <1>5, <3>2, <3>3, <4>2 DEF UpTo
    <3>4. CASE ~(d = c /\ Memory(t, d).session = s)
      BY <1>5, <3>1, <3>2, <3>4
    <3> QED
      BY <3>3, <3>4
  <2>2. \A d : Memory(t, d)' = Memory(t, d)
    BY <1>1 DEF Memory
  <2> QED
    BY <1>4, <2>1, <2>2 DEF Covered
<1>8. Recorded'
  <2> SUFFICES ASSUME NEW r \in Sessions, NEW d \in Chats
               PROVE  IF file[r][d] = NoFile THEN seen'[d][r] = {}
                      ELSE UpTo(seen'[d][r], file[r][d])
    BY <1>1 DEF Recorded
  <2>1. CASE r = s /\ d = c
    <3>1. UpTo(seen[c][s], n)
      BY <1>2 DEF OnceInv, Recorded
    <3> QED
      BY <1>2, <1>5, <2>1, <3>1 DEF UpTo
  <2>2. CASE ~(r = s /\ d = c)
    BY <1>5, <2>2 DEF OnceInv, Recorded
  <2> QED
    BY <2>1, <2>2
<1>9. Touches(t, c)
  <2>1. \A r \in Sessions : log[r] <= log'[r]
    <3>1. \A r \in Sessions : log[r] \in Nat
      BY Counted
    <3> QED
      BY <1>1, <3>1
  <2> QED
    BY <1>1, <1>4, <1>5, <2>1 DEF Touches
<1>10. \A u \in Threads \ {t} : Orderly(u)' /\ Covered(u)'
  BY <1>2, <1>9, OthersStayInOrder
<1> QED
  BY <1>3, <1>6, <1>7, <1>8, <1>10 DEF OnceInv

(* A restarted host knows no checkpoint, and finds those of the files.     *)
LEMMA CrashOnce ==
    ASSUME OwnThreads, GInv, GInv', OnceInv, NEW h \in Hosts, Crash(h)
    PROVE  OnceInv'
<1> USE GatewayAssumption, Named
<1> DEFINE T == {t \in Threads : HostOf[t] = h}
<1>1. /\ binding' = [binding EXCEPT ![h] = [c \in Chats |-> NoBinding]]
      /\ Finish(T) /\ UNCHANGED <<log, file, seen, again>>
  BY DEF Crash, files, history
<1>2. \A r \in Sessions : log[r] <= log'[r]
  <2>1. \A r \in Sessions : log[r] \in Nat
    BY Counted
  <2> QED
    BY <1>1, <2>1
<1>3. ASSUME NEW u \in T PROVE Orderly(u)' /\ Covered(u)'
  <2>1. /\ pc'[u] = "idle" /\ op'[u] = "none" /\ own'[u] = NoBinding /\ got'[u] = {}
        /\ chat'[u] = chat[u]
    BY <1>1 DEF Finish
  <2>2. \A c \in Serves[u] : Memory(u, c)' = NoBinding
    BY <1>1 DEF Memory, GInv, TypeOK
  <2>3. Orderly(u)'
    BY <2>1 DEF OnceInv, Orderly
  <2> QED
    BY <2>1, <2>2, <2>3 DEF Covered
<1>4. ASSUME NEW u \in Threads \ T PROVE Orderly(u)' /\ Covered(u)'
  <2>1. binding'[HostOf[u]] = binding[HostOf[u]]
    BY <1>1 DEF GInv, TypeOK
  <2>2. Untouched(u)
    BY <1>1, <1>2, <2>1 DEF Untouched, Finish, Memory
  <2> QED
    BY <2>2, StaysInOrder DEF OnceInv
<1>5. Recorded' /\ AtMostOnce'
  BY <1>1 DEF OnceInv, Recorded, AtMostOnce
<1> QED
  BY <1>3, <1>4, <1>5 DEF OnceInv
-----------------------------------------------------------------------------
LEMMA InitOnce == Init => OnceInv
<1> SUFFICES ASSUME Init PROVE OnceInv
  OBVIOUS
<1> USE GatewayAssumption
<1>1. AtMostOnce /\ Recorded
  BY DEF Init, AtMostOnce, Recorded
<1>2. ASSUME NEW t \in Threads PROVE Orderly(t) /\ Covered(t)
  BY DEF Init, Orderly, Covered, Memory
<1> QED
  BY <1>1, <1>2 DEF OnceInv

LEMMA NextOnce ==
    ASSUME OwnThreads, OneId, GInv, GInv', OnceInv, [Next]_vars
    PROVE  OnceInv'
<1>1. ASSUME NEW t \in Threads, Ask(t) PROVE OnceInv'
  <2>1. PICK c \in Chats :
           \/ \E s \in Sessions : Bind(t, c, s) \/ Route(t, "turn", c, s) \/ Route(t, "kill", c, s)
           \/ Restore(t, c) \/ Resume(t, c) \/ Replay(t, c)
    BY <1>1 DEF Ask
  <2>2. ASSUME NEW s \in Sessions, Bind(t, c, s) PROVE OnceInv'
    BY <2>2, BindOnce
  <2>3. ASSUME NEW s \in Sessions, Route(t, "turn", c, s) \/ Route(t, "kill", c, s)
        PROVE  OnceInv'
    BY <2>3, RouteOnce
  <2>4. CASE Restore(t, c)
    BY <2>4, RestoreOnce
  <2>5. CASE Resume(t, c)
    <3>1. Read(t, "resume", c, Memory(t, c).offset) /\ Memory(t, c) # NoBinding
      BY <2>5 DEF Resume, Read
    <3>2. Memory(t, c).offset \in Nat
      BY <3>1, Counted
    <3> QED
      BY <3>1, <3>2, ReadOnce
  <2>6. CASE Replay(t, c)
    <3>1. PICK n \in 0..MaxLog : Read(t, "replay", c, n)
      BY <2>6 DEF Replay
    <3>2. n \in Nat
      BY GatewayAssumption
    <3> QED
      BY <3>1, <3>2, ReadOnce
  <2> QED
    BY <2>1, <2>2, <2>3, <2>4, <2>5, <2>6
<1>2. ASSUME NEW t \in Threads, Serve(t) PROVE OnceInv'
  BY <1>2, AdapterOnce, TurnOnce, SaveOnce, SyncOnce, PersistOnce, DeliverOnce DEF Serve
<1>3. ASSUME NEW h \in Hosts, Crash(h) PROVE OnceInv'
  BY <1>3, CrashOnce
<1>4. CASE UNCHANGED vars
  <2>1. UNCHANGED <<log, file, binding, pc, op, chat, sess, own, got, seen, again>>
    BY <1>4 DEF vars, files, hostMem, request, history
  <2>2. ASSUME NEW t \in Threads PROVE Untouched(t)
    <3>1. \A r \in Sessions : log[r] \in Nat
      BY Counted
    <3> QED
      BY <2>1, <3>1 DEF Untouched, Memory
  <2>3. \A t \in Threads : Orderly(t)' /\ Covered(t)'
    BY <2>2, StaysInOrder DEF OnceInv
  <2> QED
    BY <2>1, <2>3 DEF OnceInv, Recorded, AtMostOnce
<1> QED
  BY <1>1, <1>2, <1>3, <1>4 DEF Next

(* No turn and no resume sends a chat an event it has already had, for any *)
(* number of hosts and chats, when each chat has its own thread and the    *)
(* hosts one gateway id (core.py:148-159, 279-301).                        *)
THEOREM NothingIsSentTwice ==
    ASSUME OwnThreads, OneId
    PROVE  Spec => []AtMostOnce
<1>1. Init => OnceInv
  BY InitOnce
<1>2. GInv /\ GInv' /\ OnceInv /\ [Next]_vars => OnceInv'
  BY NextOnce
<1>3. OnceInv => AtMostOnce
  BY DEF OnceInv
<1> QED
  BY <1>1, <1>2, <1>3, Invariant, PTL DEF Spec
=============================================================================
